----------------------------- MODULE TimeWakeups -----------------------------
(***************************************************************************)
(* Waiting for a time: change lookups of the state time, the time adapter  *)
(* (app-framework/TimeAdapter.cc) and the timer in deadline mode           *)
(* (app-framework/PosixTimebase.cc).                                       *)
(*                                                                         *)
(* The executive passes the time on to the lookups when it steps, and has  *)
(* the timer set to the next time one of them needs.  The timer wakes a    *)
(* thread of its own, which wakes the executive, after it has set the      *)
(* timer again if it believes that it went off too soon.  Two threads may  *)
(* thus set the timer at once.                                             *)
(*                                                                         *)
(* An action is a step of one thread between two accesses to what they     *)
(* share: the clock, the timer, m_nextWakeup and the semaphore.            *)
(***************************************************************************)
EXTENDS Integers, Sequences, SequencesExt, FiniteSetsExt

CONSTANTS
  None,
  Lookup,
  Tolerance,  \* of each lookup of the time
  Timer,      \* the threads that SIGEV_THREAD may start at once
  Exec,       \* the executive's thread
  MaybeEarly, \* whether the platform's timer may fire early
  MaxTime,    \* bound on the clock
  MaxEvents   \* bound on what else happens: other wake-ups, early ones, lookups that
              \* start or stop

ASSUME TimeAssumption ==
  /\ Tolerance \in [Lookup -> Nat \ {0}]
  /\ MaxTime \in Nat /\ MaxEvents \in Nat
  /\ MaybeEarly \in BOOLEAN
  /\ Exec \notin Timer /\ None \notin Nat

VARIABLES
  now,         \* the clock
  active,      \* m_lookups of the entry of time, in the order of registration
  seen,        \* the time each lookup has passed on last; None if it has no thresholds
  cached,      \* the time in the entry
  fresh,       \* whether it has been stamped with this cycle
  left,        \* those of them that updateValue() has still to tell
  timer,       \* when the timer is to fire; None while it is disarmed
  nextWakeup,  \* m_nextWakeup
  sem,         \* posts of the semaphore the executive waits on
  at,          \* of each thread, where it is
  deadline,    \* the argument of its setTimer()
  time,        \* the time its timeout() has read
  depth,       \* the calls of timeout() on its stack
  events,      \* bounded by MaxEvents
  overlapped   \* history: a thread has set the timer, or asked for what it was set to,
               \* while another was setting it

execVars  == <<active, seen, cached, fresh, left>>
timerVars == <<timer, nextWakeup>>
vars == <<now, execVars, timerVars, sem, at, deadline, time, depth, events, overlapped>>

Thread == Timer \cup {Exec}

\* idle: a timer thread that has ended, the executive waiting for the semaphore.
\* stepping, awake: the executive, about to step and between calls.  The others are those
\* of timeout() and setTimer().
Place == {"idle", "stepping", "awake", "timeout", "next", "check", "arm", "record", "notify"}

Setting == {"check", "arm", "record"}

Time == 0..(2 * MaxTime + Max({Tolerance[l] : l \in Lookup}))

TypeOK ==
  /\ now \in 0..MaxTime
  /\ active \in Seq(Lookup)
  /\ seen \in [Lookup -> 0..MaxTime \cup {None}]
  /\ cached \in 0..MaxTime
  /\ fresh \in BOOLEAN
  /\ left \subseteq Lookup
  /\ timer \in Time \cup {None}
  /\ nextWakeup \in Time
  /\ sem \in Nat
  /\ at \in [Thread -> Place]
  /\ deadline \in [Thread -> Time]
  /\ time \in [Thread -> 0..MaxTime]
  /\ depth \in [Thread -> Nat]
  /\ events \in 0..MaxEvents
  /\ overlapped \in BOOLEAN

Init ==
  /\ now = 1
  /\ active = <<>>
  /\ seen = [l \in Lookup |-> None]
  /\ cached = 0
  /\ fresh = FALSE
  /\ left = {}
  /\ timer = None
  /\ nextWakeup = 0
  /\ sem = 1
  /\ at = [t \in Thread |-> "idle"]
  /\ deadline = [t \in Thread |-> 0]
  /\ time = [t \in Thread |-> 0]
  /\ depth = [t \in Thread |-> 0]
  /\ events = 0
  /\ overlapped = FALSE

Go(t, place) == at' = [at EXCEPT ![t] = place]

-----------------------------------------------------------------------------
(* setTimer() and timeout(), by the executive or a timer thread            *)

\* t is about to use the timer: whether another thread is just setting it.
Overlaps(t) == overlapped' = (overlapped \/ \E u \in Thread \ {t} : at[u] \in Setting)

\* t calls setTimer(d).
SetTimer(t, d) ==
  /\ Go(t, "check")
  /\ deadline' = [deadline EXCEPT ![t] = d]
  /\ Overlaps(t)

InThePast(d) == d < now

\* clock_gettime(): a deadline in the past is not set, the wakeup function is called.
Check(t) ==
  /\ at[t] = "check"
  /\ IF InThePast(deadline[t])
     THEN /\ nextWakeup' = 0
          /\ Go(t, "timeout")
          /\ depth' = [depth EXCEPT ![t] = @ + 1]
     ELSE /\ Go(t, "arm")
          /\ UNCHANGED <<nextWakeup, depth>>
  /\ UNCHANGED <<now, execVars, timer, sem, deadline, time, events, overlapped>>

\* timer_settime()
Arm(t) ==
  /\ at[t] = "arm"
  /\ timer' = deadline[t]
  /\ Go(t, "record")
  /\ UNCHANGED <<now, execVars, nextWakeup, sem, deadline, time, depth, events, overlapped>>

\* Where t goes on after setTimer().
Back(t) == IF depth[t] = 0 THEN "awake" ELSE "notify"

Record(t) ==
  /\ at[t] = "record"
  /\ nextWakeup' = deadline[t]
  /\ Go(t, Back(t))
  /\ UNCHANGED <<now, execVars, timer, sem, deadline, time, depth, events, overlapped>>

\* getTime()
Timeout(t) ==
  /\ at[t] = "timeout"
  /\ time' = [time EXCEPT ![t] = now]
  /\ Go(t, "next")
  /\ UNCHANGED <<now, execVars, timerVars, sem, deadline, depth, events, overlapped>>

\* Slip: the timer is left alone when it went off too soon.
NeverEarly(t) == FALSE

\* "Alarm went off too early."
Early(t) == nextWakeup # 0 /\ time[t] < nextWakeup

\* getNextWakeup()
Snooze(t) ==
  /\ at[t] = "next"
  /\ IF Early(t) THEN SetTimer(t, nextWakeup)
                 ELSE Go(t, "notify") /\ Overlaps(t) /\ UNCHANGED deadline
  /\ UNCHANGED <<now, execVars, timerVars, sem, time, depth, events>>

\* notifyOfExternalEvent(), the end of timeout().
Notify(t) ==
  /\ at[t] = "notify"
  /\ sem' = sem + 1
  /\ depth' = [depth EXCEPT ![t] = @ - 1]
  /\ Go(t, CASE depth[t] > 1 -> "notify" [] t = Exec -> "awake" [] OTHER -> "idle")
  /\ UNCHANGED <<now, execVars, timerVars, deadline, time, events, overlapped>>

-----------------------------------------------------------------------------
(* The executive.  It runs in the background only.                         *)

Exceeded(l, v) == seen[l] # None /\ v >= seen[l] + Tolerance[l]

\* Slip: the last time that a lookup waits for.
LastTime(S, last) == Max({last[l] + Tolerance[l] : l \in {m \in S : last[m] # None}})

\* updateThresholds(): the earliest time a lookup of S has not passed on yet, last being
\* what the lookups have passed on.
NextTime(S, last) == Min({last[l] + Tolerance[l] : l \in {m \in S : last[m] # None}})

\* The semaphore has been posted.
Wake ==
  /\ at[Exec] = "idle"
  /\ sem > 0
  /\ sem' = sem - 1
  /\ Go(Exec, "stepping")
  /\ UNCHANGED <<now, execVars, timerVars, deadline, time, depth, events, overlapped>>

Resting == at[Exec] = "awake" /\ left = {}

\* queryTime(), and step(), which starts a cycle.  The lookups that are to pass the new
\* time on do so one by one.
Step ==
  /\ at[Exec] = "stepping" \/ Resting
  /\ cached' = now
  /\ left' = {l \in ToSet(active) : Exceeded(l, now)}
  /\ fresh' = FALSE
  /\ Go(Exec, "awake")
  /\ UNCHANGED <<now, active, seen, timerVars, sem, deadline, time, depth, events, overlapped>>

\* notify() goes through the lookups in the order of their registration.
Foremost == active[Min({i \in DOMAIN active : active[i] \in left})]

\* updateInternal() passes the time on, or takes it to begin with.
PassOn ==
  /\ at[Exec] = "awake" /\ left # {}
  /\ seen' = [seen EXCEPT ![Foremost] = cached]
  /\ left' = left \ {Foremost}
  /\ SetTimer(Exec, NextTime(ToSet(active), seen'))
  /\ UNCHANGED <<now, active, cached, fresh, timerVars, sem, time, depth, events>>

Happens == events < MaxEvents /\ events' = events + 1

\* A lookup starts during a step: registerLookup() asks for the time unless the entry
\* has been stamped with this cycle.
Activate(l) ==
  /\ Resting /\ Happens
  /\ l \notin ToSet(active)
  /\ active' = Append(active, l)
  /\ LET v == IF fresh THEN cached ELSE now
     IN /\ cached' = v
        /\ fresh' = (fresh \/ v # cached)
        /\ left' = {m \in ToSet(active) : v # cached /\ Exceeded(m, v)} \cup {l}
  /\ UNCHANGED <<now, seen, timerVars, sem, at, deadline, time, depth, overlapped>>

\* A lookup stops: the bounds are those of the others.
Deactivate(l) ==
  /\ Resting /\ Happens
  /\ \E i \in DOMAIN active : active[i] = l /\ active' = RemoveAt(active, i)
  /\ seen' = [seen EXCEPT ![l] = None]
  /\ IF active' = <<>>
     THEN UNCHANGED <<at, deadline, overlapped>>
     ELSE SetTimer(Exec, NextTime(ToSet(active'), seen))
  /\ UNCHANGED <<now, cached, fresh, left, timerVars, sem, time, depth>>

\* runExec() ends.
Sleep ==
  /\ Resting
  /\ Go(Exec, "idle")
  /\ UNCHANGED <<now, execVars, timerVars, sem, deadline, time, depth, events, overlapped>>

-----------------------------------------------------------------------------
(* The rest of the world *)

Tick ==
  /\ now < MaxTime
  /\ now' = now + 1
  /\ UNCHANGED <<execVars, timerVars, sem, at, deadline, time, depth, events, overlapped>>

\* Another interface has something for the executive.
OtherEvent ==
  /\ Happens
  /\ sem' = sem + 1
  /\ UNCHANGED <<now, execVars, timerVars, at, deadline, time, depth, overlapped>>

\* The timer fires and starts a thread.
Start(t) ==
  /\ timer # None
  /\ at[t] = "idle"
  /\ timer' = None
  /\ Go(t, "timeout")
  /\ depth' = [depth EXCEPT ![t] = 1]
  /\ UNCHANGED <<now, execVars, nextWakeup, sem, deadline, time, overlapped>>

Fire(t) == Start(t) /\ timer <= now /\ UNCHANGED events

\* "On some platforms the wakeup function may be called early."
FireEarly(t) == MaybeEarly /\ Start(t) /\ timer > now /\ Happens

Runs(t) == Check(t) \/ Arm(t) \/ Record(t) \/ Timeout(t) \/ Snooze(t) \/ Notify(t)

Next ==
  \/ \E t \in Thread : Runs(t)
  \/ Wake \/ Step \/ PassOn \/ Sleep
  \/ \E l \in Lookup : Activate(l) \/ Deactivate(l)
  \/ Tick \/ OtherEvent
  \/ \E t \in Timer : Fire(t) \/ FireEarly(t)

Spec == Init /\ [][Next]_vars

\* Time passes, no thread is starved, an armed timer fires, and the executive ends its
\* steps: a plan has finitely many transitions without new events.
FairSpec ==
  /\ Spec
  /\ WF_vars(Tick)
  /\ WF_vars(\E t \in Timer : Fire(t))
  /\ WF_vars(Wake) /\ WF_vars(Step /\ at[Exec] = "stepping") /\ WF_vars(PassOn)
  /\ WF_vars(Sleep)
  /\ \A t \in Thread : WF_vars(Runs(t))

-----------------------------------------------------------------------------
(* Properties *)

\* l waits for the time h.
Awaits(l, h) == l \in ToSet(active) /\ seen[l] # None /\ seen[l] + Tolerance[l] = h

\* A time that a lookup waits for is passed on, unless two threads have ever used the
\* timer at once: whichever lookups start, stop and pass the time on in between, whatever
\* else wakes the executive, and however early or late the timer and its thread are
\* ("Hit the snooze button").
WakesUp ==
  \A l \in Lookup : \A h \in 1..MaxTime : Awaits(l, h) ~> (~Awaits(l, h) \/ overlapped)

\* Nobody is about to wake the executive, and it sleeps.
Asleep == sem = 0 /\ \A t \in Thread : at[t] = "idle"

\* While the executive sleeps the timer is armed no later than for the first time a lookup
\* waits for: a timer set for one lookup serves them all, and no deadline is replaced by
\* a later one ("TimeLookupHandler schedules a timer wakeup for this time").
TimerIsSet ==
  Asleep => \A l \in ToSet(active) :
              seen[l] # None => timer # None /\ timer <= seen[l] + Tolerance[l]

\* It is so unless two threads have used the timer at once.
TimerCovers == overlapped \/ TimerIsSet
=============================================================================
