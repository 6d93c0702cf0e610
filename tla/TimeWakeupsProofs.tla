-------------------------- MODULE TimeWakeupsProofs ---------------------------
(***************************************************************************)
(* While the executive sleeps, the timer is set for the first time that a  *)
(* lookup waits for: for any lookups, tolerances and timer threads, as     *)
(* long as no two threads have used the timer at once.                     *)
(*                                                                         *)
(* Sound holds in any case: the types, and what the lookups have been      *)
(* told.  Single is what the rule of one thread at a time buys.  The       *)
(* executive's last setTimer() was for the next time a lookup waits for;   *)
(* m_nextWakeup is 0 or that time; and the timer is set to it, or somebody *)
(* is about to look at the clock, or it has come and the executive is      *)
(* about to be told.                                                       *)
(***************************************************************************)
EXTENDS TimeWakeups, DataLemmas

\* Some lookup waits for a time.
Awaited == \E l \in ToSet(active) : seen[l] # None

\* The next time is one that a lookup of S waits for, and none waits for an earlier one.
LEMMA NextTimeFacts ==
  ASSUME NEW S \in SUBSET Lookup, NEW last \in [Lookup -> Nat \cup {None}],
         NEW m \in S, last[m] # None
  PROVE  /\ NextTime(S, last) \in Nat \ {0}
         /\ \E l \in S : last[l] # None /\ NextTime(S, last) = last[l] + Tolerance[l]
         /\ \A l \in S : last[l] # None => NextTime(S, last) <= last[l] + Tolerance[l]
<1> DEFINE T == {last[l] + Tolerance[l] : l \in {k \in S : last[k] # None}}
<1>1. \A l \in S : last[l] # None => last[l] \in Nat /\ Tolerance[l] \in Nat \ {0}
  BY TimeAssumption
<1>2. T \in SUBSET (Nat \ {0}) /\ T # {}
  BY <1>1
<1>3. NextTime(S, last) = Min(T)
  BY DEF NextTime
<1>4. Min(T) \in T /\ \A x \in T : Min(T) <= x
  <2> HIDE DEF T
  <2> QED  BY <1>2, LeastFacts
<1> QED  BY <1>2, <1>3, <1>4

\* It depends on nothing else.
LEMMA NextTimeDepends ==
  ASSUME NEW S, NEW R, NEW last, NEW new,
         \A l : (l \in S /\ last[l] # None) <=> (l \in R /\ new[l] # None),
         \A l \in R : new[l] # None => new[l] = last[l]
  PROVE  NextTime(S, last) = NextTime(R, new)
<1>1. {last[l] + Tolerance[l] : l \in {m \in S : last[m] # None}}
      = {new[l] + Tolerance[l] : l \in {m \in R : new[m] # None}}
  OBVIOUS
<1> QED  BY <1>1 DEF NextTime

-----------------------------------------------------------------------------
(* The lookups *)

Typed ==
  /\ now \in Nat
  /\ active \in Seq(Lookup)
  /\ seen \in [Lookup -> Nat \cup {None}]
  /\ cached \in Nat
  /\ timer \in Nat \cup {None}
  /\ nextWakeup \in Nat
  /\ sem \in Nat
  /\ at \in [Thread -> Place]
  /\ deadline \in [Thread -> Nat]
  /\ time \in [Thread -> Nat]

\* A lookup that is registered has thresholds, unless it is still to be told the time.  The
\* executive does not rest before it has told them all.
Registered ==
  /\ IsInjective(active) /\ left \subseteq ToSet(active)
  /\ \A l \in Lookup \ ToSet(active) : seen[l] = None
  /\ \A l \in ToSet(active) \ left : seen[l] # None
  /\ left # {} => at[Exec] \notin {"idle", "stepping"}

\* What a thread has read of the clock is past.
ReadBefore == \A t \in Thread : time[t] <= now

Sound == Typed /\ Registered /\ ReadBefore

LEMMA ForemostFacts ==
  ASSUME Sound, left # {}
  PROVE  Foremost \in left /\ Foremost \in ToSet(active) /\ Foremost \in Lookup
<1> DEFINE I == {i \in DOMAIN active : active[i] \in left}
<1>1. active \in Seq(Lookup) /\ left \subseteq ToSet(active) /\ DOMAIN active = 1..Len(active)
  BY DEF Sound, Typed, Registered
<1>2. I # {}
  BY <1>1 DEF ToSet
<1>3. I \in SUBSET Nat
  BY <1>1
<1>4. Min(I) \in I
  <2> HIDE DEF I
  <2> QED  BY <1>2, <1>3, LeastFacts
<1>5. Foremost = active[Min(I)]
  BY DEF Foremost
<1>6. PICK j \in DOMAIN active : j = Min(I) /\ active[j] \in left
  BY <1>4
<1>7. Foremost \in left
  BY <1>5, <1>6
<1> QED  BY <1>1, <1>7, ElementFacts

\* A new time for the timer.
LEMMA SetTimerFacts ==
  ASSUME Typed, NEW t \in Thread, NEW d \in Nat, SetTimer(t, d)
  PROVE  /\ at' \in [Thread -> Place] /\ at'[t] = "check"
         /\ \A u \in Thread : u # t => at'[u] = at[u]
         /\ deadline' \in [Thread -> Nat] /\ deadline'[t] = d
         /\ \A u \in Thread : u # t => deadline'[u] = deadline[u]
         /\ ~overlapped' => ~overlapped /\ \A u \in Thread : u # t => at[u] \notin Setting
<1>1. /\ at' = [at EXCEPT ![t] = "check"] /\ deadline' = [deadline EXCEPT ![t] = d]
      /\ overlapped' = (overlapped \/ \E u \in Thread \ {t} : at[u] \in Setting)
  BY DEF SetTimer, Go, Overlaps
<1>2. at \in [Thread -> Place] /\ deadline \in [Thread -> Nat] /\ "check" \in Place
  BY DEF Typed, Place
<1> QED  BY <1>1, <1>2

LEMMA GoFacts ==
  ASSUME Typed, NEW t \in Thread, NEW place \in Place, Go(t, place)
  PROVE  /\ at' \in [Thread -> Place] /\ at'[t] = place
         /\ \A u \in Thread : u # t => at'[u] = at[u]
BY DEF Typed, Go

\* A step that leaves the lookups alone, and does not put the executive to sleep.
LEMMA QuietSound ==
  ASSUME Sound, UNCHANGED execVars, now' \in Nat, now' >= now,
         timer' \in Nat \cup {None}, nextWakeup' \in Nat, sem' \in Nat,
         at' \in [Thread -> Place], deadline' \in [Thread -> Nat],
         left # {} => at'[Exec] \notin {"idle", "stepping"},
         \A t \in Thread : time'[t] = time[t] \/ time'[t] = now,
         time' \in [Thread -> Nat]
  PROVE  Sound'
<1>1. Typed'
  BY DEF Sound, Typed, execVars
<1>2. Registered'
  BY DEF Sound, Registered, execVars
<1>3. ReadBefore'
  <2>1. now \in Nat /\ time \in [Thread -> Nat] /\ \A t \in Thread : time[t] <= now
    BY DEF Sound, Typed, ReadBefore
  <2>2. ASSUME NEW t \in Thread PROVE time'[t] <= now'
    BY <2>1
  <2> QED  BY <2>2 DEF ReadBefore
<1> QED  BY <1>1, <1>2, <1>3 DEF Sound

LEMMA ThreadSound ==
  ASSUME Sound, NEW t \in Thread, Runs(t)
  PROVE  Sound'
<1>1. Typed /\ Exec \in Thread
  BY DEF Sound, Thread
<1>2. /\ at[t] \in {"check", "arm", "record", "timeout", "next", "notify"}
      /\ UNCHANGED <<now, execVars>>
  BY DEF Runs, Check, Arm, Record, Timeout, Snooze, Notify
<1>3. ASSUME NEW place \in Place \ {"idle", "stepping"}, Go(t, place)
      PROVE  /\ at' \in [Thread -> Place]
             /\ left # {} => at'[Exec] \notin {"idle", "stepping"}
  <2>1. /\ at' \in [Thread -> Place] /\ at'[t] = place
        /\ \A u \in Thread : u # t => at'[u] = at[u]
    BY <1>1, <1>3, GoFacts
  <2>2. left # {} => at[Exec] \notin {"idle", "stepping"}
    BY DEF Sound, Registered
  <2> QED  BY <1>1, <2>1, <2>2
<1>4. CASE Check(t)
  <2>1. Go(t, IF InThePast(deadline[t]) THEN "timeout" ELSE "arm")
    BY <1>4 DEF Check
  <2>2. nextWakeup' \in Nat /\ UNCHANGED <<timer, sem, deadline, time>>
    BY <1>1, <1>4 DEF Check, Typed
  <2> QED  BY <1>1, <1>2, <1>3, <2>1, <2>2, QuietSound DEF Typed, Place
<1>5. CASE Arm(t)
  <2>1. Go(t, "record") /\ timer' = deadline[t] /\ UNCHANGED <<nextWakeup, sem, deadline, time>>
    BY <1>5 DEF Arm
  <2> QED  BY <1>1, <1>2, <1>3, <2>1, QuietSound DEF Typed, Place
<1>6. CASE Record(t)
  <2>1. /\ Go(t, IF depth[t] = 0 THEN "awake" ELSE "notify")
        /\ nextWakeup' = deadline[t] /\ UNCHANGED <<timer, sem, deadline, time>>
    BY <1>6 DEF Record, Back
  <2> QED  BY <1>1, <1>2, <1>3, <2>1, QuietSound DEF Typed, Place
<1>7. CASE Timeout(t)
  <2>1. /\ Go(t, "next") /\ time' = [time EXCEPT ![t] = now]
        /\ UNCHANGED <<timer, nextWakeup, sem, deadline>>
    BY <1>7 DEF Timeout, timerVars
  <2> QED  BY <1>1, <1>2, <1>3, <2>1, QuietSound DEF Typed, Place
<1>8. CASE Snooze(t)
  <2>1. UNCHANGED <<timer, nextWakeup, sem, time>>
    BY <1>8 DEF Snooze, timerVars
  <2>2. CASE Early(t)
    <3>1. SetTimer(t, nextWakeup)
      BY <1>8, <2>2 DEF Snooze
    <3>2. Go(t, "check")
      BY <3>1 DEF SetTimer
    <3>3. deadline' \in [Thread -> Nat]
      BY <1>1, <3>1, SetTimerFacts DEF Typed
    <3> QED  BY <1>1, <1>2, <1>3, <2>1, <3>2, <3>3, QuietSound DEF Typed, Place
  <2>3. CASE ~Early(t)
    <3>1. Go(t, "notify") /\ UNCHANGED deadline
      BY <1>8, <2>3 DEF Snooze
    <3> QED  BY <1>1, <1>2, <1>3, <2>1, <3>1, QuietSound DEF Typed, Place
  <2> QED  BY <2>2, <2>3
<1>9. CASE Notify(t)
  <2> DEFINE place == CASE depth[t] > 1 -> "notify" [] t = Exec -> "awake" [] OTHER -> "idle"
  <2>1. Go(t, place) /\ sem' = sem + 1 /\ UNCHANGED <<timer, nextWakeup, deadline, time>>
    BY <1>9 DEF Notify, timerVars
  <2>2. place \in Place /\ (t = Exec => place \in {"notify", "awake"})
    BY DEF Place
  <2> HIDE DEF place
  <2>3. /\ at' \in [Thread -> Place] /\ at'[t] = place
        /\ \A u \in Thread : u # t => at'[u] = at[u]
    BY <1>1, <2>1, <2>2, GoFacts
  <2>4. left # {} => at'[Exec] \notin {"idle", "stepping"}
    BY <1>1, <2>2, <2>3 DEF Sound, Registered
  <2> QED  BY <1>1, <1>2, <2>1, <2>3, <2>4, QuietSound DEF Typed
<1> QED  BY <1>4, <1>5, <1>6, <1>7, <1>8, <1>9 DEF Runs

\* The executive steps, or a lookup takes the time.
LEMMA StepSound ==
  ASSUME Sound, Step
  PROVE  Sound'
<1>1. Typed /\ Exec \in Thread /\ "awake" \in Place
  BY DEF Sound, Thread, Place
<1>2. /\ cached' = now /\ left' = {l \in ToSet(active) : Exceeded(l, now)} /\ Go(Exec, "awake")
      /\ UNCHANGED <<now, active, seen, timerVars, sem, deadline, time>>
  BY DEF Step
<1>3. at' \in [Thread -> Place] /\ at'[Exec] = "awake"
  BY <1>1, <1>2, GoFacts
<1>4. left = {}
  BY DEF Step, Resting, Sound, Registered
<1>5. Typed'
  BY <1>1, <1>2, <1>3 DEF Typed, timerVars
<1>6. Registered'
  BY <1>2, <1>3, <1>4 DEF Sound, Registered
<1>7. ReadBefore'
  BY <1>2 DEF Sound, ReadBefore
<1> QED  BY <1>5, <1>6, <1>7 DEF Sound

\* What the executive does when it passes the time on.
LEMMA PassOnFacts ==
  ASSUME Sound, PassOn
  PROVE  LET d == NextTime(ToSet(active), seen')
         IN /\ d \in Nat \ {0} /\ SetTimer(Exec, d)
            /\ seen' \in [Lookup -> Nat \cup {None}]
            /\ Foremost \in left /\ Foremost \in ToSet(active) /\ Foremost \in Lookup
            /\ seen'[Foremost] \in Nat
            /\ \A l \in Lookup : l # Foremost => seen'[l] = seen[l]
<1>1. /\ seen' = [seen EXCEPT ![Foremost] = cached] /\ left # {}
      /\ SetTimer(Exec, NextTime(ToSet(active), seen'))
  BY DEF PassOn
<1>2. Foremost \in left /\ Foremost \in ToSet(active) /\ Foremost \in Lookup
  BY <1>1, ForemostFacts
<1>3. /\ cached \in Nat /\ seen \in [Lookup -> Nat \cup {None}] /\ ToSet(active) \subseteq Lookup
      /\ None \notin Nat
  BY ElementFacts, TimeAssumption DEF Sound, Typed
<1>4. /\ seen' \in [Lookup -> Nat \cup {None}] /\ seen'[Foremost] \in Nat
      /\ \A l \in Lookup : l # Foremost => seen'[l] = seen[l]
  BY <1>1, <1>2, <1>3
<1>5. seen'[Foremost] # None
  BY <1>3, <1>4
<1>6. NextTime(ToSet(active), seen') \in Nat \ {0}
  BY <1>2, <1>3, <1>4, <1>5, NextTimeFacts
<1> QED  BY <1>1, <1>2, <1>4, <1>6

LEMMA PassOnSound ==
  ASSUME Sound, PassOn
  PROVE  Sound'
<1>1. Typed /\ Exec \in Thread
  BY DEF Sound, Thread
<1>2. /\ left' = left \ {Foremost}
      /\ UNCHANGED <<now, active, cached, timerVars, sem, time>>
  BY DEF PassOn
<1>3. PICK d \in Nat : SetTimer(Exec, d)
  BY PassOnFacts
<1>4. /\ seen' \in [Lookup -> Nat \cup {None}]
      /\ Foremost \in left /\ Foremost \in ToSet(active) /\ Foremost \in Lookup
      /\ seen'[Foremost] \in Nat
      /\ \A l \in Lookup : l # Foremost => seen'[l] = seen[l]
  BY PassOnFacts
<1>5. at' \in [Thread -> Place] /\ at'[Exec] = "check" /\ deadline' \in [Thread -> Nat]
  BY <1>1, <1>3, SetTimerFacts
<1>6. Typed'
  BY <1>1, <1>2, <1>4, <1>5 DEF Typed, timerVars
<1>7. Registered'
  <2>1. ToSet(active) \subseteq Lookup /\ None \notin Nat
    BY <1>1, ElementFacts, TimeAssumption DEF Typed
  <2> QED  BY <1>2, <1>4, <1>5, <2>1 DEF Sound, Registered
<1>8. ReadBefore'
  BY <1>2 DEF Sound, ReadBefore
<1> QED  BY <1>6, <1>7, <1>8 DEF Sound

LEMMA ActivateSound ==
  ASSUME Sound, NEW l \in Lookup, Activate(l)
  PROVE  Sound'
<1>1. Typed /\ active \in Seq(Lookup)
  BY DEF Sound, Typed
<1>2. /\ l \notin ToSet(active) /\ active' = Append(active, l) /\ cached' \in {cached, now}
      /\ left' \subseteq ToSet(active) \cup {l} /\ l \in left'
      /\ UNCHANGED <<now, seen, timerVars, sem, at, deadline, time>>
      /\ at[Exec] = "awake" /\ left = {}
  BY DEF Activate, Resting
<1>3. /\ active' \in Seq(Lookup) /\ ToSet(active') = ToSet(active) \cup {l}
      /\ IsInjective(active) => IsInjective(active')
  BY <1>1, <1>2, AppendFacts
<1>4. Typed'
  BY <1>1, <1>2, <1>3 DEF Typed, timerVars
<1>5. Registered'
  BY <1>2, <1>3 DEF Sound, Registered
<1>6. ReadBefore'
  BY <1>2 DEF Sound, ReadBefore
<1> QED  BY <1>4, <1>5, <1>6 DEF Sound

\* A lookup that stops leaves the others with what they had.
LEMMA DeactivateFacts ==
  ASSUME Sound, NEW l \in Lookup, Deactivate(l)
  PROVE  /\ active' \in Seq(Lookup) /\ IsInjective(active')
         /\ ToSet(active') = ToSet(active) \ {l}
         /\ seen' \in [Lookup -> Nat \cup {None}] /\ seen'[l] = None
         /\ \A k \in Lookup : k # l => seen'[k] = seen[k]
         /\ \A k \in ToSet(active') : seen[k] # None
         /\ IF ToSet(active') = {} THEN UNCHANGED <<at, deadline, overlapped>>
            ELSE /\ SetTimer(Exec, NextTime(ToSet(active'), seen))
                 /\ NextTime(ToSet(active'), seen) \in Nat \ {0}
                 /\ NextTime(ToSet(active'), seen) = NextTime(ToSet(active'), seen')
<1>1. /\ active \in Seq(Lookup) /\ IsInjective(active) /\ seen \in [Lookup -> Nat \cup {None}]
  BY DEF Sound, Typed, Registered
<1>2. PICK i \in DOMAIN active : active[i] = l /\ active' = RemoveAt(active, i)
  BY DEF Deactivate
<1>3. /\ active' \in Seq(Lookup) /\ IsInjective(active')
      /\ ToSet(active') = ToSet(active) \ {l}
  BY <1>1, <1>2, RemoveFacts
<1>4. seen' = [seen EXCEPT ![l] = None] /\ left = {}
  BY DEF Deactivate, Resting
<1>5. /\ seen' \in [Lookup -> Nat \cup {None}] /\ seen'[l] = None
      /\ \A k \in Lookup : k # l => seen'[k] = seen[k]
  BY <1>1, <1>4
<1>6. ToSet(active') \subseteq Lookup
  BY <1>3, ElementFacts
<1>7. \A k \in ToSet(active') : seen[k] # None
  BY <1>3, <1>4 DEF Sound, Registered
<1>8. active' = <<>> <=> ToSet(active') = {}
  BY <1>3 DEF ToSet
<1>9. ASSUME ToSet(active') # {}
      PROVE  /\ SetTimer(Exec, NextTime(ToSet(active'), seen))
             /\ NextTime(ToSet(active'), seen) \in Nat \ {0}
             /\ NextTime(ToSet(active'), seen) = NextTime(ToSet(active'), seen')
  <2>1. PICK S \in SUBSET Lookup : S = ToSet(active')
    BY <1>6
  <2>2. PICK m \in S : TRUE
    BY <1>9, <2>1
  <2>3. NextTime(S, seen) \in Nat \ {0}
    BY <1>1, <1>7, <2>1, <2>2, NextTimeFacts
  <2>4. \A k \in S : seen'[k] = seen[k]
    BY <1>3, <1>5, <2>1
  <2>5. NextTime(S, seen) = NextTime(S, seen')
    <3>1. /\ \A k : (k \in S /\ seen[k] # None) <=> (k \in S /\ seen'[k] # None)
          /\ \A k \in S : seen'[k] # None => seen'[k] = seen[k]
      BY <2>4
    <3> QED  BY <3>1, NextTimeDepends
  <2>6. SetTimer(Exec, NextTime(ToSet(active'), seen))
    BY <1>8, <1>9 DEF Deactivate
  <2> QED  BY <2>1, <2>3, <2>5, <2>6
<1>10. ToSet(active') = {} => UNCHANGED <<at, deadline, overlapped>>
  BY <1>8 DEF Deactivate
<1> QED  BY <1>3, <1>5, <1>7, <1>9, <1>10

LEMMA DeactivateSound ==
  ASSUME Sound, NEW l \in Lookup, Deactivate(l)
  PROVE  Sound'
<1>1. Typed /\ Exec \in Thread
  BY DEF Sound, Thread
<1>2. /\ active' \in Seq(Lookup) /\ IsInjective(active')
      /\ ToSet(active') = ToSet(active) \ {l}
      /\ seen' \in [Lookup -> Nat \cup {None}] /\ seen'[l] = None
      /\ \A k \in Lookup : k # l => seen'[k] = seen[k]
      /\ \A k \in ToSet(active') : seen[k] # None
  BY DeactivateFacts
<1>3. /\ left = {} /\ left' = {} /\ UNCHANGED <<now, cached, timerVars, sem, time>>
  BY DEF Deactivate, Resting
<1>4. at' \in [Thread -> Place] /\ deadline' \in [Thread -> Nat]
  <2>1. CASE ToSet(active') = {}
    <3>1. at' = at /\ deadline' = deadline
      BY <2>1, DeactivateFacts
    <3> QED  BY <1>1, <3>1 DEF Typed
  <2>2. CASE ToSet(active') # {}
    <3>1. PICK d \in Nat : SetTimer(Exec, d)
      BY <2>2, DeactivateFacts
    <3> QED  BY <1>1, <3>1, SetTimerFacts
  <2> QED  BY <2>1, <2>2
<1>5. Typed'
  BY <1>1, <1>2, <1>3, <1>4 DEF Typed, timerVars
<1>6. Registered'
  <2>1. ToSet(active) \subseteq Lookup
    BY <1>1, ElementFacts DEF Typed
  <2> QED  BY <1>2, <1>3, <2>1 DEF Sound, Registered
<1>7. ReadBefore'
  BY <1>3 DEF Sound, ReadBefore
<1> QED  BY <1>5, <1>6, <1>7 DEF Sound

LEMMA NextSound ==
  ASSUME Sound, [Next]_vars
  PROVE  Sound'
<1>1. Typed /\ Exec \in Thread
  BY DEF Sound, Thread
<1>2. CASE UNCHANGED vars
  BY <1>1, <1>2, QuietSound DEF vars, timerVars, Typed, Sound, Registered
<1>3. CASE Wake
  <2>1. left = {}
    BY <1>3 DEF Wake, Sound, Registered
  <2>2. sem' \in Nat
    BY <1>1, <1>3 DEF Wake, Typed
  <2>3. at' \in [Thread -> Place]
    BY <1>1, <1>3, GoFacts DEF Wake, Place
  <2>4. UNCHANGED <<now, execVars, timer, nextWakeup, deadline, time>>
    BY <1>3 DEF Wake, timerVars
  <2> QED  BY <1>1, <2>1, <2>2, <2>3, <2>4, QuietSound DEF Typed
<1>4. CASE Sleep
  <2>1. left = {}
    BY <1>4 DEF Sleep, Resting
  <2>2. at' \in [Thread -> Place]
    BY <1>1, <1>4, GoFacts DEF Sleep, Place
  <2>3. UNCHANGED <<now, execVars, timer, nextWakeup, sem, deadline, time>>
    BY <1>4 DEF Sleep, timerVars
  <2> QED  BY <1>1, <2>1, <2>2, <2>3, QuietSound DEF Typed
<1>5. CASE Tick
  <2>1. now' = now + 1 /\ UNCHANGED <<execVars, timer, nextWakeup, sem, at, deadline, time>>
    BY <1>5 DEF Tick, timerVars
  <2> QED  BY <1>1, <2>1, QuietSound DEF Typed, Sound, Registered
<1>6. CASE OtherEvent
  <2>1. sem' = sem + 1 /\ UNCHANGED <<now, execVars, timer, nextWakeup, at, deadline, time>>
    BY <1>6 DEF OtherEvent, timerVars
  <2> QED  BY <1>1, <2>1, QuietSound DEF Typed, Sound, Registered
<1>7. ASSUME NEW t \in Timer, Start(t)
      PROVE  Sound'
  <2>1. t \in Thread /\ t # Exec /\ "timeout" \in Place
    BY TimeAssumption DEF Thread, Place
  <2>2. /\ at' \in [Thread -> Place] /\ at'[Exec] = at[Exec]
    BY <1>1, <1>7, <2>1, GoFacts DEF Start
  <2>3. timer' = None /\ UNCHANGED <<now, execVars, nextWakeup, sem, deadline, time>>
    BY <1>7 DEF Start
  <2> QED  BY <1>1, <2>2, <2>3, QuietSound DEF Typed, Sound, Registered
<1> QED
  BY <1>2, <1>3, <1>4, <1>5, <1>6, <1>7, ThreadSound, StepSound, PassOnSound, ActivateSound,
     DeactivateSound DEF Next, Fire, FireEarly

-----------------------------------------------------------------------------
(* The timer, while the threads use it one at a time *)

OneSets == \A t, u \in Thread : at[t] \in Setting /\ at[u] \in Setting => t = u

NobodySets == \A t \in Thread : at[t] \notin Setting

\* The executive's last setTimer() was for the next time that a lookup waits for.
AskedForNext == Awaited => deadline[Exec] = NextTime(ToSet(active), seen)

\* The executive is in timeout() only if its deadline was in the past.
AskedTooLate == at[Exec] \in {"timeout", "next"} => nextWakeup = 0 /\ NobodySets

\* The timer is known to be set to that deadline, or not to be set ...
RecordAgrees == at[Exec] \notin Setting => nextWakeup \in {0, deadline[Exec]}

\* ... and a timer thread that sets it again sets it to the same.
SnoozeAgrees ==
  \A t \in Timer : at[t] \in Setting => deadline[t] = deadline[Exec] /\ deadline[t] # 0

\* Somebody is about to look at the clock or to set the timer.
Looking == \E t \in Thread : at[t] \in {"check", "arm", "timeout", "next"}

\* The executive is about to step, or to be woken.
Stirring == sem > 0 \/ at[Exec] = "stepping" \/ \E t \in Thread : at[t] = "notify"

\* A time that a lookup waits for will be noticed, ...
Underway ==
  Awaited => \/ left # {} \/ Looking
             \/ timer = deadline[Exec]
             \/ deadline[Exec] <= now /\ Stirring

\* ... and if the timer is not set then it has come.
UnsetIsPast == nextWakeup = 0 /\ NobodySets /\ Awaited => deadline[Exec] < now

Single ==
  /\ OneSets /\ AskedForNext /\ AskedTooLate /\ RecordAgrees /\ SnoozeAgrees
  /\ Underway /\ UnsetIsPast

\* A time that is waited for is not 0.
LEMMA AwaitedLater ==
  ASSUME Sound, Single, Awaited
  PROVE  deadline[Exec] \in Nat \ {0}
<1>1. PICK m \in ToSet(active) : seen[m] # None
  BY DEF Awaited
<1>2. ToSet(active) \in SUBSET Lookup /\ seen \in [Lookup -> Nat \cup {None}]
  BY ElementFacts DEF Sound, Typed
<1>3. PICK S \in SUBSET Lookup : S = ToSet(active)
  BY <1>2
<1>4. NextTime(S, seen) \in Nat \ {0}
  BY <1>1, <1>2, <1>3, NextTimeFacts
<1> QED  BY <1>3, <1>4 DEF Single, AskedForNext

\* What all the steps of a thread have in common.
LEMMA PlaceFacts ==
  ASSUME Sound, NEW t \in Thread, NEW place \in Place, Go(t, place)
  PROVE  /\ at'[t] = place
         /\ \A u \in Thread : u # t => at'[u] = at[u]
         /\ Exec \in Thread /\ \A u \in Thread : u # Exec => u \in Timer
BY GoFacts DEF Sound, Thread

LEMMA CheckSingle ==
  ASSUME Sound, Single, NEW t \in Thread, Check(t)
  PROVE  Single'
<1>1. CASE InThePast(deadline[t])
  <2>1. /\ at[t] = "check" /\ Go(t, "timeout") /\ nextWakeup' = 0
        /\ UNCHANGED <<now, active, seen, left, timer, sem, deadline, time>>
    BY <1>1 DEF Check, execVars
  <2>2. /\ at'[t] = "timeout" /\ \A u \in Thread : u # t => at'[u] = at[u]
        /\ Exec \in Thread /\ \A u \in Thread : u # Exec => u \in Timer
    BY <2>1, PlaceFacts DEF Place
  <2>3. \A u \in Thread : u # t => at[u] \notin Setting
    BY <2>1 DEF Single, OneSets, Setting
  <2>4. NobodySets'
    BY <2>2, <2>3 DEF NobodySets, Setting
  <2>5. OneSets' /\ RecordAgrees' /\ SnoozeAgrees' /\ AskedTooLate'
    BY <2>1, <2>2, <2>4 DEF OneSets, RecordAgrees, SnoozeAgrees, AskedTooLate, NobodySets, Thread
  <2>6. AskedForNext' /\ (Awaited' <=> Awaited)
    BY <2>1 DEF Single, AskedForNext, Awaited
  <2>7. Underway'
    BY <2>2 DEF Underway, Looking
  <2>8. deadline[t] = deadline[Exec]
    BY <2>1, <2>2 DEF Single, SnoozeAgrees, Setting
  <2>9. UnsetIsPast'
    BY <1>1, <2>1, <2>8 DEF UnsetIsPast, InThePast
  <2> QED  BY <2>5, <2>6, <2>7, <2>9 DEF Single
<1>2. CASE ~InThePast(deadline[t])
  <2>1. /\ at[t] = "check" /\ Go(t, "arm")
        /\ UNCHANGED <<now, active, seen, left, timer, nextWakeup, sem, deadline, time>>
    BY <1>2 DEF Check, execVars
  <2>2. /\ at'[t] = "arm" /\ \A u \in Thread : u # t => at'[u] = at[u]
        /\ Exec \in Thread /\ \A u \in Thread : u # Exec => u \in Timer
    BY <2>1, PlaceFacts DEF Place
  <2>3. \A u \in Thread : at'[u] \in Setting <=> at[u] \in Setting
    BY <2>1, <2>2 DEF Setting
  <2>4. AskedForNext' /\ Underway'
    BY <2>1, <2>2 DEF Single, AskedForNext, Awaited, Underway, Looking
  <2>5. AskedTooLate'
    BY <2>1, <2>2, <2>3 DEF Single, AskedTooLate, NobodySets
  <2>6. OneSets' /\ RecordAgrees' /\ SnoozeAgrees'
    BY <2>1, <2>2, <2>3, TimeAssumption DEF Single, OneSets, RecordAgrees, SnoozeAgrees, Thread
  <2>7. UnsetIsPast'
    BY <2>1, <2>3 DEF Single, UnsetIsPast, NobodySets, Awaited
  <2> QED  BY <2>4, <2>5, <2>6, <2>7 DEF Single
<1> QED  BY <1>1, <1>2

LEMMA ArmSingle ==
  ASSUME Sound, Single, NEW t \in Thread, Arm(t)
  PROVE  Single'
<1>1. /\ at[t] = "arm" /\ Go(t, "record") /\ timer' = deadline[t]
      /\ UNCHANGED <<now, active, seen, left, nextWakeup, sem, deadline, time>>
  BY DEF Arm, execVars
<1>2. /\ at'[t] = "record" /\ \A u \in Thread : u # t => at'[u] = at[u]
      /\ Exec \in Thread /\ \A u \in Thread : u # Exec => u \in Timer
  BY <1>1, PlaceFacts DEF Place
<1>3. \A u \in Thread : at'[u] \in Setting <=> at[u] \in Setting
  BY <1>1, <1>2 DEF Setting
<1>4. deadline[t] = deadline[Exec]
  BY <1>1, <1>2 DEF Single, SnoozeAgrees, Setting
<1>5. AskedForNext' /\ Underway'
  BY <1>1, <1>4 DEF Single, AskedForNext, Awaited, Underway
<1>6. AskedTooLate'
  BY <1>1, <1>2, <1>3 DEF Single, AskedTooLate, NobodySets
<1>7. OneSets' /\ RecordAgrees' /\ SnoozeAgrees'
  BY <1>1, <1>2, <1>3, TimeAssumption DEF Single, OneSets, RecordAgrees, SnoozeAgrees, Thread
<1>8. UnsetIsPast'
  BY <1>1, <1>3 DEF Single, UnsetIsPast, NobodySets, Awaited
<1> QED  BY <1>5, <1>6, <1>7, <1>8 DEF Single

LEMMA RecordSingle ==
  ASSUME Sound, Single, NEW t \in Thread, Record(t)
  PROVE  Single'
<1>1. /\ at[t] = "record" /\ Go(t, IF depth[t] = 0 THEN "awake" ELSE "notify")
      /\ nextWakeup' = deadline[t]
      /\ UNCHANGED <<now, active, seen, left, timer, sem, deadline, time>>
  BY DEF Record, Back, execVars
<1>2. PICK place \in {"awake", "notify"} :
        /\ at'[t] = place /\ \A u \in Thread : u # t => at'[u] = at[u]
        /\ Exec \in Thread /\ \A u \in Thread : u # Exec => u \in Timer
  BY <1>1, PlaceFacts DEF Place
<1>3. \A u \in Thread : at'[u] \notin Setting
  BY <1>1, <1>2 DEF Single, OneSets, Setting
<1>4. deadline[t] = deadline[Exec]
  BY <1>1, <1>2 DEF Single, SnoozeAgrees, Setting
<1>5. AskedForNext' /\ (Awaited' <=> Awaited)
  BY <1>1 DEF Single, AskedForNext, Awaited
<1>6. Underway'
  <2>1. Looking => Looking'
    BY <1>1, <1>2 DEF Looking
  <2>2. Stirring => Stirring'
    BY <1>1, <1>2 DEF Stirring
  <2> QED  BY <1>1, <1>5, <2>1, <2>2 DEF Single, Underway
<1>7. AskedTooLate'
  <2>1. at[Exec] \notin {"timeout", "next"}
    BY <1>1 DEF Single, AskedTooLate, NobodySets, Setting
  <2> QED  BY <1>2, <2>1 DEF AskedTooLate
<1>8. OneSets' /\ RecordAgrees' /\ SnoozeAgrees'
  BY <1>1, <1>3, <1>4, TimeAssumption DEF OneSets, RecordAgrees, SnoozeAgrees, Thread
<1>9. UnsetIsPast'
  <2>1. Awaited => deadline[Exec] # 0
    BY AwaitedLater
  <2> QED  BY <1>1, <1>4, <1>5, <2>1 DEF UnsetIsPast
<1> QED  BY <1>5, <1>6, <1>7, <1>8, <1>9 DEF Single

LEMMA TimeoutSingle ==
  ASSUME Sound, Single, NEW t \in Thread, Timeout(t)
  PROVE  Single'
<1>1. /\ at[t] = "timeout" /\ Go(t, "next")
      /\ UNCHANGED <<now, active, seen, left, timer, nextWakeup, sem, deadline>>
  BY DEF Timeout, execVars, timerVars
<1>2. /\ at'[t] = "next" /\ \A u \in Thread : u # t => at'[u] = at[u]
      /\ Exec \in Thread /\ \A u \in Thread : u # Exec => u \in Timer
  BY <1>1, PlaceFacts DEF Place
<1>3. \A u \in Thread : at'[u] \in Setting <=> at[u] \in Setting
  BY <1>1, <1>2 DEF Setting
<1>4. AskedForNext' /\ Underway'
  BY <1>1, <1>2 DEF Single, AskedForNext, Awaited, Underway, Looking
<1>5. AskedTooLate'
  BY <1>1, <1>2, <1>3 DEF Single, AskedTooLate, NobodySets
<1>6. OneSets' /\ RecordAgrees' /\ SnoozeAgrees'
  BY <1>1, <1>2, <1>3, TimeAssumption DEF Single, OneSets, RecordAgrees, SnoozeAgrees, Thread
<1>7. UnsetIsPast'
  BY <1>1, <1>3 DEF Single, UnsetIsPast, NobodySets, Awaited
<1> QED  BY <1>4, <1>5, <1>6, <1>7 DEF Single

LEMMA SnoozeSingle ==
  ASSUME Sound, Single, NEW t \in Thread, Snooze(t), ~overlapped'
  PROVE  Single'
<1>1. /\ at[t] = "next"
      /\ UNCHANGED <<now, active, seen, left, timer, nextWakeup, sem, time>>
  BY DEF Snooze, execVars, timerVars
<1>2. Awaited' <=> Awaited
  BY <1>1 DEF Awaited
<1>3. CASE Early(t)
  <2>1. nextWakeup \in Nat /\ Typed
    BY DEF Sound, Typed
  <2>2. SetTimer(t, nextWakeup) /\ nextWakeup # 0
    BY <1>1, <1>3 DEF Snooze, Early
  <2>3. /\ at'[t] = "check" /\ \A u \in Thread : u # t => at'[u] = at[u]
        /\ deadline'[t] = nextWakeup /\ \A u \in Thread : u # t => deadline'[u] = deadline[u]
        /\ \A u \in Thread : u # t => at[u] \notin Setting
    BY <2>1, <2>2, SetTimerFacts
  <2>4. Exec \in Thread /\ t # Exec /\ at[Exec] \notin Setting
    BY <1>1, <2>2, <2>3 DEF Single, AskedTooLate, Thread
  <2>5. nextWakeup = deadline[Exec]
    BY <2>2, <2>4 DEF Single, RecordAgrees
  <2>6. deadline'[Exec] = deadline[Exec] /\ at'[Exec] = at[Exec]
    BY <2>3, <2>4
  <2>7. AskedForNext'
    BY <1>1, <1>2, <2>6 DEF Single, AskedForNext
  <2>8. AskedTooLate'
    BY <2>2, <2>6 DEF Single, AskedTooLate
  <2>9. OneSets'
    BY <2>3 DEF OneSets
  <2>10. RecordAgrees'
    BY <1>1, <2>5, <2>6 DEF RecordAgrees
  <2>11. SnoozeAgrees'
    BY <2>2, <2>3, <2>5, <2>6 DEF SnoozeAgrees, Thread
  <2>12. Underway' /\ UnsetIsPast'
    BY <2>3 DEF Underway, Looking, UnsetIsPast, NobodySets, Setting
  <2> QED  BY <2>7, <2>8, <2>9, <2>10, <2>11, <2>12 DEF Single
<1>4. CASE ~Early(t)
  <2>1. Go(t, "notify") /\ deadline' = deadline /\ Overlaps(t)
    BY <1>4 DEF Snooze
  <2>2. /\ at'[t] = "notify" /\ \A u \in Thread : u # t => at'[u] = at[u]
        /\ Exec \in Thread
    BY <2>1, PlaceFacts DEF Place
  <2>3. \A u \in Thread : at[u] \notin Setting
    BY <1>1, <2>1 DEF Overlaps, Setting
  <2>4. \A u \in Thread : at'[u] \notin Setting
    BY <2>2, <2>3 DEF Setting
  <2>5. AskedForNext' /\ OneSets' /\ SnoozeAgrees'
    BY <1>1, <1>2, <2>1, <2>4 DEF Single, AskedForNext, OneSets, SnoozeAgrees, Thread
  <2>6. AskedTooLate'
    BY <1>1, <2>2, <2>4 DEF Single, AskedTooLate, NobodySets
  <2>7. RecordAgrees'
    BY <1>1, <2>1, <2>2, <2>3 DEF Single, RecordAgrees
  <2>8. UnsetIsPast'
    BY <1>1, <1>2, <2>1, <2>3 DEF Single, UnsetIsPast, NobodySets
  <2>9. Awaited => deadline[Exec] <= now
    <3>1. /\ now \in Nat /\ nextWakeup \in Nat /\ time[t] \in Nat /\ deadline[Exec] \in Nat
          /\ time[t] <= now
      BY <2>2 DEF Sound, Typed, ReadBefore
    <3>2. CASE nextWakeup = 0
      BY <2>3, <3>1, <3>2 DEF Single, UnsetIsPast, NobodySets
    <3>3. CASE nextWakeup # 0
      <4>1. nextWakeup = deadline[Exec]
        BY <2>2, <2>3, <3>3 DEF Single, RecordAgrees
      <4> QED  BY <1>4, <3>1, <3>3, <4>1 DEF Early
    <3> QED  BY <3>2, <3>3
  <2>10. Underway'
    BY <1>1, <1>2, <2>1, <2>2, <2>9 DEF Underway, Stirring
  <2> QED  BY <2>5, <2>6, <2>7, <2>8, <2>10 DEF Single
<1> QED  BY <1>3, <1>4

LEMMA NotifySingle ==
  ASSUME Sound, Single, NEW t \in Thread, Notify(t)
  PROVE  Single'
<1> DEFINE place == CASE depth[t] > 1 -> "notify" [] t = Exec -> "awake" [] OTHER -> "idle"
<1>1. /\ at[t] = "notify" /\ Go(t, place) /\ sem' = sem + 1 /\ sem \in Nat
      /\ UNCHANGED <<now, active, seen, left, timer, nextWakeup, deadline, time>>
  BY DEF Notify, execVars, timerVars, Sound, Typed
<1>2. place \in {"notify", "awake", "idle"}
  OBVIOUS
<1> HIDE DEF place
<1>3. /\ at'[t] = place /\ \A u \in Thread : u # t => at'[u] = at[u]
      /\ Exec \in Thread /\ \A u \in Thread : u # Exec => u \in Timer
  BY <1>1, <1>2, PlaceFacts DEF Place
<1>4. \A u \in Thread : at'[u] \in Setting <=> at[u] \in Setting
  BY <1>1, <1>2, <1>3 DEF Setting
<1>5. AskedForNext' /\ (Awaited' <=> Awaited)
  BY <1>1 DEF Single, AskedForNext, Awaited
<1>6. Underway'
  <2>1. Looking => Looking'
    BY <1>1, <1>3 DEF Looking
  <2>2. Stirring'
    BY <1>1 DEF Stirring
  <2> QED  BY <1>1, <1>5, <2>1, <2>2 DEF Single, Underway
<1>7. AskedTooLate'
  BY <1>1, <1>2, <1>3, <1>4 DEF Single, AskedTooLate, NobodySets
<1>8. OneSets' /\ RecordAgrees' /\ SnoozeAgrees'
  BY <1>1, <1>3, <1>4, TimeAssumption DEF Single, OneSets, RecordAgrees, SnoozeAgrees, Thread
<1>9. UnsetIsPast'
  BY <1>1, <1>4, <1>5 DEF Single, UnsetIsPast, NobodySets
<1> QED  BY <1>5, <1>6, <1>7, <1>8, <1>9 DEF Single

\* The executive calls setTimer() for what is then the next time, while no timer thread
\* does.
LEMMA ExecSetsSingle ==
  ASSUME Sound, NEW d \in Nat \ {0}, SetTimer(Exec, d), ~overlapped',
         d = NextTime(ToSet(active'), seen')
  PROVE  Single'
<1>1. Exec \in Thread /\ Typed
  BY DEF Sound, Thread
<1>2. /\ at'[Exec] = "check" /\ \A u \in Thread : u # Exec => at'[u] = at[u]
      /\ deadline'[Exec] = d
      /\ \A u \in Thread : u # Exec => at[u] \notin Setting
  BY <1>1, SetTimerFacts
<1>3. OneSets' /\ SnoozeAgrees'
  BY <1>1, <1>2, TimeAssumption DEF OneSets, SnoozeAgrees, Thread
<1>4. AskedForNext' /\ AskedTooLate' /\ RecordAgrees'
  BY <1>2 DEF AskedForNext, AskedTooLate, RecordAgrees, Setting
<1>5. Underway' /\ UnsetIsPast'
  BY <1>1, <1>2 DEF Underway, Looking, UnsetIsPast, NobodySets, Setting
<1> QED  BY <1>3, <1>4, <1>5 DEF Single

\* A step of the executive that leaves the timer alone.
LEMMA IdleSingle ==
  ASSUME Sound, Single, UNCHANGED <<active, seen, timer, nextWakeup, deadline>>,
         at[Exec] \in {"idle", "stepping", "awake"}, NEW place \in {"idle", "stepping", "awake"},
         Go(Exec, place), now' = now,
         Awaited => left' # {} \/ (left = {} /\ (Stirring => Stirring'))
                              \/ (left = {} /\ ~(deadline[Exec] <= now))
  PROVE  Single'
<1>1. /\ at'[Exec] = place /\ \A u \in Thread : u # Exec => at'[u] = at[u]
      /\ Exec \in Thread /\ \A u \in Thread : u # Exec => u \in Timer
  <2>1. Exec \in Thread /\ place \in Place
    BY DEF Thread, Place
  <2> QED  BY <2>1, PlaceFacts
<1>2. \A u \in Thread : at'[u] \in Setting <=> at[u] \in Setting
  BY <1>1 DEF Setting
<1>3. AskedForNext' /\ (Awaited' <=> Awaited)
  BY DEF Single, AskedForNext, Awaited
<1>4. Looking => Looking'
  BY <1>1 DEF Looking
<1>5. Underway'
  BY <1>3, <1>4 DEF Single, Underway
<1>6. AskedTooLate'
  BY <1>1 DEF AskedTooLate
<1>7. OneSets' /\ RecordAgrees' /\ SnoozeAgrees'
  BY <1>1, <1>2, TimeAssumption DEF Single, OneSets, RecordAgrees, SnoozeAgrees, Thread
<1>8. UnsetIsPast'
  BY <1>2, <1>3 DEF Single, UnsetIsPast, NobodySets
<1> QED  BY <1>3, <1>5, <1>6, <1>7, <1>8 DEF Single

\* A step in which the executive finds the time passed that it has asked for tells the
\* lookup that waits for it.
LEMMA StepSingle ==
  ASSUME Sound, Single, Step
  PROVE  Single'
<1>1. /\ at[Exec] \in {"stepping", "awake"} /\ Go(Exec, "awake")
      /\ left' = {l \in ToSet(active) : Exceeded(l, now)}
      /\ UNCHANGED <<now, active, seen, timer, nextWakeup, deadline>>
  BY DEF Step, Resting, timerVars
<1>2. left = {}
  BY DEF Step, Resting, Sound, Registered
<1>3. ASSUME Awaited, deadline[Exec] <= now
      PROVE  left' # {}
  <2>1. PICK m \in ToSet(active) : seen[m] # None
    BY <1>3 DEF Awaited
  <2>2. ToSet(active) \subseteq Lookup /\ seen \in [Lookup -> Nat \cup {None}]
    BY ElementFacts DEF Sound, Typed
  <2>3. PICK S \in SUBSET Lookup : S = ToSet(active)
    BY <2>2
  <2>4. PICK l \in S : seen[l] # None /\ NextTime(S, seen) = seen[l] + Tolerance[l]
    BY <2>1, <2>2, <2>3, NextTimeFacts
  <2>5. deadline[Exec] = seen[l] + Tolerance[l]
    BY <1>3, <2>3, <2>4 DEF Single, AskedForNext
  <2>6. Exceeded(l, now)
    <3>1. now \in Nat /\ seen[l] \in Nat /\ Tolerance[l] \in Nat
      BY <2>2, <2>4, TimeAssumption DEF Sound, Typed
    <3> QED  BY <1>3, <2>4, <2>5, <3>1 DEF Exceeded
  <2> QED  BY <1>1, <2>3, <2>6
<1> QED  BY <1>1, <1>2, <1>3, IdleSingle

LEMMA PassOnSingle ==
  ASSUME Sound, PassOn, ~overlapped'
  PROVE  Single'
<1>1. ToSet(active') = ToSet(active)
  BY DEF PassOn
<1>2. PICK d \in Nat \ {0} : d = NextTime(ToSet(active), seen') /\ SetTimer(Exec, d)
  BY PassOnFacts
<1> QED  BY <1>1, <1>2, ExecSetsSingle

\* A lookup that starts has nothing to wait for before it has been told the time.
LEMMA ActivateSingle ==
  ASSUME Sound, Single, NEW l \in Lookup, Activate(l)
  PROVE  Single'
<1>1. /\ l \notin ToSet(active) /\ active' = Append(active, l) /\ l \in left'
      /\ UNCHANGED <<now, seen, timer, nextWakeup, sem, at, deadline, time>>
  BY DEF Activate, timerVars
<1>2. ToSet(active') = ToSet(active) \cup {l} /\ seen[l] = None
  BY <1>1, AppendFacts DEF Sound, Typed, Registered
<1>3. Awaited' <=> Awaited
  BY <1>1, <1>2 DEF Awaited
<1>4. NextTime(ToSet(active'), seen') = NextTime(ToSet(active), seen)
  <2>1. \A k : (k \in ToSet(active') /\ seen'[k] # None) <=> (k \in ToSet(active) /\ seen[k] # None)
    BY <1>1, <1>2
  <2>2. \A k \in ToSet(active) : seen[k] # None => seen[k] = seen'[k]
    BY <1>1
  <2> QED  BY <2>1, <2>2, NextTimeDepends
<1>5. AskedForNext'
  BY <1>1, <1>3, <1>4 DEF Single, AskedForNext
<1>6. AskedTooLate' /\ OneSets' /\ RecordAgrees' /\ SnoozeAgrees' /\ UnsetIsPast'
  BY <1>1, <1>3
  DEF Single, AskedTooLate, NobodySets, OneSets, RecordAgrees, SnoozeAgrees, UnsetIsPast
<1>7. Underway'
  BY <1>1 DEF Underway
<1> QED  BY <1>5, <1>6, <1>7 DEF Single

LEMMA DeactivateSingle ==
  ASSUME Sound, Single, NEW l \in Lookup, Deactivate(l), ~overlapped'
  PROVE  Single'
<1>1. CASE ToSet(active') # {}
  <2>1. PICK d \in Nat \ {0} : d = NextTime(ToSet(active'), seen') /\ SetTimer(Exec, d)
    BY <1>1, DeactivateFacts
  <2> QED  BY <2>1, ExecSetsSingle
<1>2. CASE ToSet(active') = {}
  <2>1. at' = at /\ deadline' = deadline
    BY <1>2, DeactivateFacts
  <2>2. UNCHANGED <<now, timer, nextWakeup, sem>>
    BY DEF Deactivate, timerVars
  <2>3. ~Awaited'
    BY <1>2 DEF Awaited
  <2>4. AskedForNext' /\ Underway' /\ UnsetIsPast'
    BY <2>3 DEF AskedForNext, Underway, UnsetIsPast
  <2>5. AskedTooLate' /\ OneSets' /\ RecordAgrees' /\ SnoozeAgrees'
    BY <2>1, <2>2
    DEF Single, AskedTooLate, NobodySets, OneSets, RecordAgrees, SnoozeAgrees
  <2> QED  BY <2>4, <2>5 DEF Single
<1> QED  BY <1>1, <1>2

\* The timer goes off.
LEMMA StartSingle ==
  ASSUME Sound, Single, NEW t \in Timer, Start(t)
  PROVE  Single'
<1>1. t \in Thread /\ t # Exec
  BY TimeAssumption DEF Thread
<1>2. /\ at[t] = "idle" /\ Go(t, "timeout")
      /\ UNCHANGED <<now, active, seen, left, nextWakeup, sem, deadline, time>>
  BY DEF Start, execVars
<1>3. /\ at'[t] = "timeout" /\ \A u \in Thread : u # t => at'[u] = at[u]
      /\ Exec \in Thread /\ \A u \in Thread : u # Exec => u \in Timer
  BY <1>1, <1>2, PlaceFacts DEF Place
<1>4. \A u \in Thread : at'[u] \in Setting <=> at[u] \in Setting
  BY <1>1, <1>2, <1>3 DEF Setting
<1>5. AskedForNext' /\ Underway' /\ UnsetIsPast'
  BY <1>1, <1>2, <1>3, <1>4
  DEF Single, AskedForNext, Awaited, Underway, Looking, UnsetIsPast, NobodySets
<1>6. AskedTooLate'
  BY <1>1, <1>2, <1>3, <1>4 DEF Single, AskedTooLate, NobodySets
<1>7. OneSets' /\ RecordAgrees' /\ SnoozeAgrees'
  BY <1>1, <1>2, <1>3, <1>4, TimeAssumption
  DEF Single, OneSets, RecordAgrees, SnoozeAgrees, Thread
<1> QED  BY <1>5, <1>6, <1>7 DEF Single

\* The steps that leave the threads where they are.
LEMMA StillSingle ==
  ASSUME Sound, Single, UNCHANGED <<active, seen, left, timer, nextWakeup, at, deadline>>,
         now' \in Nat, now' >= now, sem' >= sem, sem' \in Nat
  PROVE  Single'
<1>1. Awaited' <=> Awaited
  BY DEF Awaited
<1>2. Looking' <=> Looking
  BY DEF Looking
<1>3. now \in Nat /\ sem \in Nat /\ deadline[Exec] \in Nat
  BY DEF Sound, Typed, Thread
<1>4. Stirring => Stirring'
  BY <1>3 DEF Stirring
<1>5. Underway' /\ UnsetIsPast'
  BY <1>1, <1>2, <1>3, <1>4 DEF Single, Underway, UnsetIsPast, NobodySets
<1>6. AskedForNext' /\ AskedTooLate' /\ OneSets' /\ RecordAgrees' /\ SnoozeAgrees'
  BY <1>1
  DEF Single, AskedForNext, AskedTooLate, NobodySets, OneSets, RecordAgrees, SnoozeAgrees
<1> QED  BY <1>5, <1>6 DEF Single

LEMMA NextSingle ==
  ASSUME Sound, overlapped \/ Single, [Next]_vars
  PROVE  overlapped' \/ Single'
<1>1. overlapped => overlapped'
  <2>1. ASSUME NEW t \in Thread, NEW d, SetTimer(t, d)
        PROVE  overlapped => overlapped'
    BY <2>1 DEF SetTimer, Overlaps
  <2>2. ASSUME NEW t \in Thread, Runs(t)
        PROVE  overlapped => overlapped'
    <3>1. CASE Snooze(t)
      BY <2>1, <3>1 DEF Snooze, Overlaps
    <3>2. CASE ~Snooze(t)
      BY <2>2, <3>2 DEF Runs, Check, Arm, Record, Timeout, Notify
    <3> QED  BY <3>1, <3>2
  <2>3. PassOn => (overlapped => overlapped')
    BY <2>1 DEF PassOn, Thread
  <2>4. ASSUME NEW l \in Lookup, Deactivate(l)
        PROVE  overlapped => overlapped'
    BY <2>1, <2>4 DEF Deactivate, Thread
  <2> QED
    BY <2>2, <2>3, <2>4
    DEF Next, vars, Wake, Step, Sleep, Activate, Tick, OtherEvent, Fire, FireEarly, Start
<1>2. SUFFICES ASSUME ~overlapped', Single
               PROVE  Single'
  BY <1>1
<1>3. Exec \in Thread /\ Typed /\ now \in Nat /\ sem \in Nat
  BY DEF Sound, Typed, Thread
<1>4. CASE UNCHANGED vars
  BY <1>2, <1>3, <1>4, StillSingle DEF vars, execVars, timerVars
<1>5. CASE Tick
  BY <1>2, <1>3, <1>5, StillSingle DEF Tick, execVars, timerVars
<1>6. CASE OtherEvent
  BY <1>2, <1>3, <1>6, StillSingle DEF OtherEvent, execVars, timerVars
<1>7. CASE Wake
  <2>1. left = {} /\ at[Exec] = "idle"
    BY <1>7 DEF Wake, Sound, Registered
  <2>2. /\ Go(Exec, "stepping")
        /\ UNCHANGED <<now, active, seen, timer, nextWakeup, deadline>>
    BY <1>7 DEF Wake, execVars, timerVars
  <2>3. Stirring'
    BY <1>3, <2>2, PlaceFacts DEF Stirring, Place
  <2> QED  BY <1>2, <2>1, <2>2, <2>3, IdleSingle
<1>8. CASE Sleep
  <2>1. /\ at[Exec] = "awake" /\ left = {} /\ Go(Exec, "idle")
        /\ UNCHANGED <<now, active, seen, timer, nextWakeup, deadline, sem>>
    BY <1>8 DEF Sleep, Resting, execVars, timerVars
  <2>2. Stirring => Stirring'
    <3>1. \A u \in Thread : u # Exec => at'[u] = at[u]
      BY <1>3, <2>1, PlaceFacts DEF Place
    <3> QED  BY <2>1, <3>1 DEF Stirring
  <2> QED  BY <1>2, <2>1, <2>2, IdleSingle
<1>9. ASSUME NEW t \in Thread, Runs(t)
      PROVE  Single'
  BY <1>2, <1>9, CheckSingle, ArmSingle, RecordSingle, TimeoutSingle, SnoozeSingle,
     NotifySingle DEF Runs
<1> QED
  BY <1>2, <1>4, <1>5, <1>6, <1>7, <1>8, <1>9, StepSingle, PassOnSingle, ActivateSingle,
     DeactivateSingle, StartSingle DEF Next, Fire, FireEarly

-----------------------------------------------------------------------------
(* The timer is set when the executive sleeps                              *)

LEMMA InitCovers == Init => Sound /\ Single
<1> SUFFICES ASSUME Init PROVE Sound /\ Single
  OBVIOUS
<1>1. Exec \in Thread /\ ToSet(active) = {}
  BY DEF Init, Thread, ToSet
<1>2. Typed
  BY DEF Init, Typed, Place
<1>3. Registered
  BY <1>1 DEF Init, Registered, IsInjective
<1>4. ReadBefore
  BY DEF Init, ReadBefore
<1>5. ~Awaited
  BY <1>1 DEF Awaited
<1>6. AskedForNext /\ Underway /\ UnsetIsPast
  BY <1>5 DEF AskedForNext, Underway, UnsetIsPast
<1>7. OneSets /\ AskedTooLate /\ RecordAgrees /\ SnoozeAgrees
  BY <1>1 DEF Init, OneSets, AskedTooLate, RecordAgrees, SnoozeAgrees, Setting, Thread
<1> QED  BY <1>2, <1>3, <1>4, <1>6, <1>7 DEF Sound, Single

LEMMA CoversWhileSingle ==
  ASSUME Sound, overlapped \/ Single
  PROVE  TimerCovers
<1>1. SUFFICES ASSUME Single, Asleep, NEW l \in ToSet(active), seen[l] # None
               PROVE  timer # None /\ timer <= seen[l] + Tolerance[l]
  BY DEF TimerCovers, TimerIsSet
<1>2. Awaited
  BY <1>1 DEF Awaited
<1>3. \A t \in Thread : at[t] = "idle"
  BY <1>1 DEF Asleep
<1>4. Exec \in Thread /\ sem = 0
  BY <1>1 DEF Asleep, Thread
<1>5. left = {} /\ ~Looking /\ ~Stirring
  BY <1>3, <1>4 DEF Sound, Registered, Looking, Stirring
<1>6. timer = deadline[Exec] /\ deadline[Exec] = NextTime(ToSet(active), seen)
  BY <1>1, <1>2, <1>5 DEF Single, Underway, AskedForNext
<1>7. deadline[Exec] \in Nat
  BY <1>4 DEF Sound, Typed
<1>8. deadline[Exec] <= seen[l] + Tolerance[l]
  <2>1. ToSet(active) \subseteq Lookup /\ seen \in [Lookup -> Nat \cup {None}]
    BY ElementFacts DEF Sound, Typed
  <2>2. PICK S \in SUBSET Lookup : S = ToSet(active)
    BY <2>1
  <2>3. NextTime(S, seen) <= seen[l] + Tolerance[l]
    BY <1>1, <2>1, <2>2, NextTimeFacts
  <2> QED  BY <1>6, <2>2, <2>3
<1> QED  BY <1>6, <1>7, <1>8, TimeAssumption

\* TimerCovers, for any lookups, tolerances and timer threads: while the executive sleeps the
\* timer is armed no later than for the first time that a lookup waits for
\* (TimeAdapter::setTimer(), PosixTimebase::setTimer()), unless two threads have used the
\* timer at once.
THEOREM TimerAlwaysCovers == Spec => []TimerCovers
<1>1. Init => Sound /\ (overlapped \/ Single)
  BY InitCovers
<1>2. Sound /\ (overlapped \/ Single) /\ [Next]_vars => Sound' /\ (overlapped \/ Single)'
  BY NextSound, NextSingle
<1>3. Sound /\ (overlapped \/ Single) => TimerCovers
  BY CoversWhileSingle
<1> QED  BY <1>1, <1>2, <1>3, PTL DEF Spec

=============================================================================
