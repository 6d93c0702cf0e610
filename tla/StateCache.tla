------------------------------ MODULE StateCache ------------------------------
(***************************************************************************)
(* Lookups and the state cache: intfc/Lookup.cc, intfc/StateCacheEntry.cc, *)
(* intfc/CachedValueImpl.cc and StateCache::lookupReturn().                *)
(*                                                                         *)
(* The interface publishes every change of a state; the changes wait in    *)
(* the input queue until the executive takes them.  A cache entry tells    *)
(* the lookups registered on it of a new value.  A LookupOnChange keeps    *)
(* the value it last passed on, and ignores values within its tolerance.   *)
(* The bounds within which no lookup needs a value are told to the         *)
(* interface.                                                              *)
(*                                                                         *)
(* All of it runs on the executive's thread between and during steps, and  *)
(* an action is one call into it with every notification it causes.        *)
(***************************************************************************)
EXTENDS Integers, Sequences, FiniteSetsExt

CONSTANTS
  None, Unknown,
  State,
  Lookup,
  OnChange,      \* the lookups with a tolerance
  Adjustable,    \* those of them whose tolerance is a variable
  Names,         \* the states that the name and parameters of a lookup may evaluate to
  Kind,          \* of the values: ThresholdCacheImpl<Integer> or <Real>
  Values,        \* the values a state may have
  Tolerances,    \* the values a tolerance may have
  MaxReports     \* bound on the changes that wait in the input queue

ASSUME LookupAssumption ==
  /\ Adjustable \subseteq OnChange
  /\ OnChange \subseteq Lookup
  /\ Names \in [Lookup -> SUBSET (State \cup {Unknown})] /\ Unknown \notin State
  /\ Kind \in {"integer", "real"}
ASSUME ValueAssumption ==
  /\ Values \subseteq Int
  /\ Tolerances \subseteq Nat \cup {Unknown}
  /\ Unknown \notin Int
  /\ None \notin Int \cup {Unknown}
  /\ MaxReports \in Nat

VARIABLES
  actual,      \* of each state, outside the executive
  reports,     \* the value changes in the input queue
  entry,       \* m_value of each state's entry; None if there has never been one
  fresh,       \* whether its timestamp is that of this cycle
  active,      \* the active lookups
  name,        \* the state a lookup's name and parameters evaluate to
  tolerance,   \* the value of a lookup's tolerance expression
  thresholds,  \* m_thresholds and m_cachedValue of each lookup
  bounds,      \* of each entry: whether it has bounds, and what was told of them
  silent       \* history: the lookups whose value changed in the last action without
               \* a call of publishChange()

vars == <<actual, reports, entry, fresh, active, name, tolerance, thresholds, bounds, silent>>

Value     == Values \cup {Unknown}
Known(v)  == v \in Int
Threshold == [value : Value, low : Int, high : Int, tolerance : Nat, wasKnown : BOOLEAN]
Limits      == [low : Int, high : Int]
Bounds    == [own : BOOLEAN, told : Limits \cup {None}]

\* A null pointer points to nothing.
ASSUME NoneAssumption == None \notin Threshold \cup Limits

\* m_lookups: a lookup is registered while it is active and its state is known.
Registered(s) == {l \in active : name[l] = s}

\* toValue(): a change lookup prefers the value it has passed on.
View(l) ==
  IF l \notin active \/ name[l] = Unknown THEN Unknown
  ELSE IF thresholds[l] # None THEN thresholds[l].value
                               ELSE entry[name[l]]

TypeOK ==
  /\ actual \in [State -> Value]
  /\ reports \in Seq([state : State, value : Value])
  /\ entry \in [State -> Value \cup {None}]
  /\ fresh \in [State -> BOOLEAN]
  /\ active \subseteq Lookup
  /\ name \in [Lookup -> State \cup {Unknown}]
  /\ tolerance \in [Lookup -> Tolerances \cup {None}]
  /\ thresholds \in [Lookup -> Threshold \cup {None}]
  /\ bounds \in [State -> Bounds]
  /\ silent \subseteq Lookup

Init ==
  /\ actual \in [State -> Value]
  /\ reports = <<>>
  /\ entry = [s \in State |-> None]
  /\ fresh = [s \in State |-> FALSE]
  /\ active = {}
  /\ name \in {f \in [Lookup -> State \cup {Unknown}] : \A l \in Lookup : f[l] \in Names[l]}
  /\ tolerance \in {t \in [Lookup -> Tolerances \cup {None}] :
                      \A l \in Lookup : t[l] = None <=> l \notin OnChange}
  /\ thresholds = [l \in Lookup |-> None]
  /\ bounds = [s \in State |-> [own |-> FALSE, told |-> None]]
  /\ silent = {}

-----------------------------------------------------------------------------
(* Thresholds of one lookup: ThresholdCacheImpl, LookupOnChange            *)

Around(v, tol) ==
  [value |-> v, low |-> v - tol, high |-> v + tol, tolerance |-> tol, wasKnown |-> TRUE]

\* setThresholds(): an unknown value leaves the bounds as they were.
WithThresholds(t, v, tol) ==
  IF Known(v) THEN [Around(v, tol) EXCEPT !.value = t.value]
              ELSE [t EXCEPT !.wasKnown = FALSE]

\* Slip: strictly beyond the bounds.
PastThresholds(t, v) ==
  IF Known(v) THEN (Kind = "real" /\ ~t.wasKnown) \/ v > t.high \/ v < t.low
              ELSE t.wasKnown

\* thresholdsExceeded(): only <Real> looks at wasKnown when the value is known.
Exceeded(t, v) ==
  IF Known(v) THEN (Kind = "real" /\ ~t.wasKnown) \/ v >= t.high \/ v <= t.low
              ELSE t.wasKnown

\* What updateInternal() leaves, whether it is to be published, and whether it
\* calls updateThresholds().
Outcome(t, publish, survey) == [thresholds |-> t, publish |-> publish, survey |-> survey]

\* Slip: listeners are told only if the entry's value is new.
TellOfValues(t, v, tol, changed) ==
  CASE t # None /\ Known(tol) ->
         LET set == IF tol = t.tolerance THEN t ELSE WithThresholds(t, t.value, tol)
         IN IF Exceeded(set, v)
            THEN Outcome([WithThresholds(set, v, tol) EXCEPT !.value = v], changed, TRUE)
            ELSE Outcome(set, FALSE, FALSE)
    [] t # None /\ ~Known(tol) -> Outcome(None, changed, TRUE)
    [] t = None /\ Known(v) /\ Known(tol) -> Outcome(Around(v, tol), changed, TRUE)
    [] OTHER -> Outcome(None, changed, FALSE)

\* updateInternal(): t is what the lookup has, v the value of the entry.
UpdateInternal(t, v, tol, changed) ==
  CASE t # None /\ Known(tol) ->
         LET set == IF tol = t.tolerance THEN t ELSE WithThresholds(t, t.value, tol)
         IN IF Exceeded(set, v)
            THEN Outcome([WithThresholds(set, v, tol) EXCEPT !.value = v], TRUE, TRUE)
            ELSE Outcome(set, FALSE, FALSE)
    [] t # None /\ ~Known(tol) -> Outcome(None, changed, TRUE)
    [] t = None /\ Known(v) /\ Known(tol) -> Outcome(Around(v, tol), changed, TRUE)
    [] OTHER -> Outcome(None, changed, FALSE)

-----------------------------------------------------------------------------
(* One entry: StateCacheEntryImpl                                          *)

\* Slip: the loosest bounds.
SurveyedLoosely(b, set) ==
  CASE set # {} -> [own |-> TRUE, told |-> [low  |-> Min({t.low : t \in set}),
                                            high |-> Max({t.high : t \in set})]]
    [] set = {} /\ b.own -> [own |-> FALSE, told |-> None]
    [] OTHER -> b

\* updateThresholds(): the tightest bounds of the lookups that have any.
Surveyed(b, set) ==
  CASE set # {} -> [own |-> TRUE, told |-> [low  |-> Max({t.low : t \in set}),
                                            high |-> Min({t.high : t \in set})]]
    [] set = {} /\ b.own -> [own |-> FALSE, told |-> None]
    [] OTHER -> b

\* unregisterLookup(): left are the lookups that remain.  When the last one goes
\* the interface is not told that its bounds are void.
Unregistered(b, left, set) ==
  CASE left = {} -> [b EXCEPT !.own = FALSE]
    [] left # {} /\ b.own -> Surveyed(b, set)
    [] OTHER -> b

Having(S, th) == {th[l] : l \in S} \ {None}

\* The lookups of S tell their listeners.  Those that start or stop in this action do
\* not count: their conditions start or stop with them.
Publish(S) == silent' = {l \in (active \cap active') \ S : View(l)' # View(l)}

\* The lookups of S are told, of a new value of s or to begin with: valueChanged()
\* and updateInternal().  v is the value, R the lookups then registered, b the
\* bounds before and th the thresholds before.
Told(s, v, S, R, th, b) ==
  LET result(l) == UpdateInternal(th[l], v, tolerance[l], TRUE)
      told == [l \in Lookup |-> IF l \in S \cap OnChange THEN result(l).thresholds ELSE th[l]]
  IN /\ thresholds' = told
     /\ bounds' = [b EXCEPT ![s] = IF \E l \in S \cap OnChange : result(l).survey
                                   THEN Surveyed(@, Having(R, told)) ELSE @]
     /\ Publish({l \in S : l \in OnChange => result(l).publish})

\* CachedValue::update(): only a change is stamped with the cycle.
Enter(s, v) ==
  /\ entry' = [entry EXCEPT ![s] = v]
  /\ fresh' = [fresh EXCEPT ![s] = @ \/ v # entry[s] \/ v = Unknown]

\* registerLookup(): lookupNow() unless the entry is of this cycle.  An interface that
\* has no value calls setUnknown(), which makes no entry.
LookedUp(s) ==
  IF fresh[s] \/ (actual[s] = Unknown /\ entry[s] = None) THEN entry[s] ELSE actual[s]

\* l joins the lookups on s; b and th are as its old registration left them.
Register(l, s, b, th) ==
  LET v == LookedUp(s)
      others == Registered(s) \ {l}
  IN /\ IF fresh[s] \/ v = None THEN UNCHANGED <<entry, fresh>> ELSE Enter(s, v)
     /\ Told(s, v, IF v = entry[s] THEN {l} ELSE others \cup {l}, others \cup {l}, th, b)

-----------------------------------------------------------------------------
(* Lookups *)

Activate(l) ==
  /\ l \notin active
  /\ active' = active \cup {l}
  /\ UNCHANGED <<actual, reports, name, tolerance>>
  /\ IF name[l] = Unknown
     THEN UNCHANGED <<entry, fresh, thresholds, bounds>> /\ Publish({})
     ELSE Register(l, name[l], bounds, thresholds)

\* Without l on its state, if it has one.
WithoutLookup(l) ==
  IF name[l] = Unknown THEN bounds
  ELSE LET left == Registered(name[l]) \ {l}
       IN [bounds EXCEPT ![name[l]] = Unregistered(@, left, Having(left, thresholds))]

Deactivate(l) ==
  /\ l \in active
  /\ active' = active \ {l}
  /\ bounds' = WithoutLookup(l)
  /\ thresholds' = [thresholds EXCEPT ![l] = None]
  /\ UNCHANGED <<actual, reports, entry, fresh, name, tolerance>>
  /\ Publish({})

\* invalidateOldState()
Invalidated(l) == [thresholds EXCEPT ![l] = None]

\* handleChange() after the name or a parameter has changed: the old state is given up,
\* then the new one, s, is taken if it is known.
RenameTo(l, s) ==
  /\ name' = [name EXCEPT ![l] = s]
  /\ UNCHANGED <<actual, reports, active, tolerance>>
  /\ CASE l \notin active -> UNCHANGED <<entry, fresh, thresholds, bounds>> /\ Publish({})
       [] l \in active /\ s # Unknown -> Register(l, s, WithoutLookup(l), Invalidated(l))
       [] OTHER -> /\ thresholds' = Invalidated(l)
                   /\ bounds' = WithoutLookup(l)
                   /\ UNCHANGED <<entry, fresh>>
                   /\ Publish({l})

Rename(l) == \E s \in Names[l] \ {name[l]} : RenameTo(l, s)

\* handleChange() after the tolerance has changed.
Adjust(l) ==
  \E tol \in Tolerances \ {tolerance[l]} :
    LET s == name[l]
        r == UpdateInternal(thresholds[l], IF s = Unknown THEN Unknown ELSE entry[s], tol, FALSE)
        reached == l \in active
    IN /\ tolerance' = [tolerance EXCEPT ![l] = tol]
       /\ UNCHANGED <<actual, reports, entry, fresh, active, name>>
       /\ thresholds' = IF reached THEN [thresholds EXCEPT ![l] = r.thresholds] ELSE thresholds
       /\ bounds' = IF reached /\ r.survey
                    THEN [bounds EXCEPT ![s] = Surveyed(@, Having(Registered(s), thresholds'))]
                    ELSE bounds
       /\ Publish(IF reached /\ r.publish THEN {l} ELSE {})

-----------------------------------------------------------------------------
(* Values *)

\* handleValueChange(): the interface puts the new value in the input queue.
Change(s) ==
  /\ Len(reports) < MaxReports
  /\ \E v \in Value \ {actual[s]} :
       /\ actual' = [actual EXCEPT ![s] = v]
       /\ reports' = Append(reports, [state |-> s, value |-> v])
  /\ UNCHANGED <<entry, fresh, active, name, tolerance, thresholds, bounds>>
  /\ Publish({})

\* lookupReturn(): the executive takes a value from the queue.
Deliver ==
  /\ reports # <<>>
  /\ reports' = Tail(reports)
  /\ UNCHANGED <<actual, active, name, tolerance>>
  /\ LET s == Head(reports).state
         v == Head(reports).value
     IN /\ Enter(s, v)
        /\ Told(s, v, IF v = entry[s] THEN {} ELSE Registered(s), Registered(s),
                thresholds, bounds)

\* incrementCycleCount(), once per step.
NewCycle ==
  /\ \E s \in State : fresh[s]
  /\ fresh' = [s \in State |-> FALSE]
  /\ UNCHANGED <<actual, reports, entry, active, name, tolerance, thresholds, bounds>>
  /\ Publish({})

Next ==
  \/ \E l \in Lookup : Activate(l) \/ Deactivate(l) \/ Rename(l)
  \/ \E l \in Adjustable : Adjust(l)
  \/ \E s \in State : Change(s)
  \/ Deliver
  \/ NewCycle

Spec == Init /\ [][Next]_vars

-----------------------------------------------------------------------------
(* Properties *)

Close(v, w, tol) == v = w \/ (v < w + tol /\ w < v + tol)

\* When no change is on its way, an active lookup shows the state as it is, or a value
\* that differs by less than the tolerance, through any sequence of changes of the
\* value, of its tolerance, of its state, and of values becoming unknown and known
\* again (LookupOnChange: "ignores changes within the provided tolerance").
InTolerance ==
  reports = <<>> =>
    \A l \in active :
      name[l] # Unknown =>
        LET v == actual[name[l]]
        IN IF Known(v)
           THEN /\ Known(View(l))
                /\ Close(View(l), v, IF Known(tolerance[l]) THEN tolerance[l] ELSE 0)
           ELSE ~Known(View(l))

\* A lookup that stays active never changes its value without telling its listeners,
\* the conditions of the nodes, which would otherwise not be evaluated again
\* (updateInternal()'s result).  It holds where no tolerance becomes unknown: a lookup
\* that loses its tolerance drops the value it has shown without telling anybody.
ChangesArePublished == silent = {}

\* l would pass on v if the interface reported it now.
PassesOn(l, v) == UpdateInternal(thresholds[l], v, tolerance[l], TRUE).publish

\* The interface need not report v: it lies within the bounds it was told, and the
\* executive "is only interested in new values at or outside the given bounds"
\* (LookupHandler::setThresholds()).
MayWithhold(s, v) ==
  LET told == bounds[s].told
  IN Known(v) /\ told # None /\ told.low < v /\ v < told.high

\* l needs every new value it would pass on.
NothingIsWithheld(l) ==
  \A v \in Values \ {entry[name[l]]} : PassesOn(l, v) => ~MayWithhold(name[l], v)

\* The change lookups registered on some state whose tolerance does not change: nothing
\* tells the interface of new bounds when a tolerance does.
Fixed == {l \in (active \cap OnChange) \ Adjustable : name[l] # Unknown}

\* While the value of a state is known, the interface may withhold no value of it that
\* some lookup with a fixed tolerance would pass on, whoever has come, gone, changed its
\* state or its tolerance since, and whatever the value has been before, unknown included
\* (StateCacheEntryImpl::updateThresholds() against thresholdsExceeded()).
BoundsAreTight ==
  \A l \in Fixed :
    Known(tolerance[l]) /\ Known(entry[name[l]]) => NothingIsWithheld(l)

\* The same at all times.  It fails when a value has become unknown: its bounds stay as
\* they were told, and a lookup passes on any known value that comes next.
NoValueIsWithheld == \A l \in Fixed : NothingIsWithheld(l)
=============================================================================
