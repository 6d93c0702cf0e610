--------------------------- MODULE StateCacheProofs ----------------------------
(***************************************************************************)
(* What the lookups of a plan show, for every number of lookups, states,   *)
(* values and tolerances: that no change is silent, that the interface may *)
(* withhold no value that a lookup needs while the value of its state is   *)
(* known, and that a lookup shows its state within its tolerance.          *)
(*                                                                         *)
(* Each way to be told of a value, by being registered, by changing one's  *)
(* state or because a report has come, is an instance of Telling, and what *)
(* updateInternal() leaves of one lookup is said once, in AfterUpdate.     *)
(***************************************************************************)
EXTENDS StateCache, DataLemmas

-----------------------------------------------------------------------------
(* One lookup: updateInternal() *)

\* What is to be asked of a lookup's thresholds before and after it is told of a value.
LEMMA AroundTyped ==
  ASSUME NEW v \in Int \cap Value, NEW tol \in Nat
  PROVE  /\ Around(v, tol) \in Threshold /\ Around(v, tol) # None
         /\ Around(v, tol).value = v /\ Around(v, tol).tolerance = tol
         /\ Around(v, tol).low = v - tol /\ Around(v, tol).high = v + tol
         /\ Around(v, tol).wasKnown
<1>1. Around(v, tol) \in Threshold
  BY DEF Around, Threshold
<1> QED  BY <1>1, NoneAssumption DEF Around

LEMMA WithTyped ==
  ASSUME NEW t \in Threshold, NEW v \in Value, NEW tol \in Nat,
         NEW r, r = WithThresholds(t, v, tol)
  PROVE  /\ r \in Threshold /\ r.value = t.value
         /\ Known(v) => /\ r.tolerance = tol /\ r.low = v - tol /\ r.high = v + tol
                        /\ r.wasKnown
         /\ ~Known(v) => /\ r.tolerance = t.tolerance /\ r.low = t.low /\ r.high = t.high
                         /\ ~r.wasKnown
<1>1. /\ t.value \in Value /\ t.low \in Int /\ t.high \in Int /\ t.tolerance \in Nat
      /\ t = [value |-> t.value, low |-> t.low, high |-> t.high, tolerance |-> t.tolerance,
              wasKnown |-> t.wasKnown]
  BY DEF Threshold
<1>2. CASE Known(v)
  <2>1. r
        = [value |-> t.value, low |-> v - tol, high |-> v + tol, tolerance |-> tol,
           wasKnown |-> TRUE]
    BY <1>2 DEF WithThresholds, Around
  <2> QED  BY <1>1, <1>2, <2>1 DEF Threshold, Known
<1>3. CASE ~Known(v)
  <2>1. r
        = [value |-> t.value, low |-> t.low, high |-> t.high, tolerance |-> t.tolerance,
           wasKnown |-> FALSE]
    BY <1>1, <1>3 DEF WithThresholds
  <2> QED  BY <1>1, <1>3, <2>1 DEF Threshold
<1> QED  BY <1>2, <1>3

\* The new value is put in place.
LEMMA PutInPlace ==
  ASSUME NEW t \in Threshold, NEW v \in Value, NEW r, r = [t EXCEPT !.value = v]
  PROVE  /\ r \in Threshold /\ r # None /\ r.value = v /\ r.tolerance = t.tolerance
         /\ r.low = t.low /\ r.high = t.high /\ r.wasKnown = t.wasKnown
<1>1. r \in Threshold
  BY DEF Threshold
<1> QED  BY <1>1, NoneAssumption DEF Threshold

\* The thresholds of t are those of its value.
Consistent(t) ==
  /\ t.wasKnown <=> Known(t.value)
  /\ Known(t.value) => t.low = t.value - t.tolerance /\ t.high = t.value + t.tolerance

\* The value v need not be passed on.
Within(t, v) ==
  t.value = v \/ (Known(v) /\ Known(t.value) /\ t.low < v /\ v < t.high)

\* What a lookup has, once it has been told of v.
AfterUpdate(t, v, tol, changed, r) ==
  /\ r.thresholds \in Threshold \cup {None}
  /\ r.publish \in BOOLEAN /\ r.survey \in BOOLEAN
  /\ r.thresholds # None => Known(tol) /\ v # None
  /\ t # None /\ Known(tol) /\ ~r.publish
       => r.thresholds # None /\ r.thresholds.value = t.value
  /\ t = None /\ r.thresholds # None => r.thresholds.value = v /\ Known(v)
  /\ Known(v) /\ Known(tol) => r.thresholds # None
  /\ t = None \/ ~Known(tol) => r.publish = changed
  /\ ~r.survey /\ (t # None => t.tolerance = tol) => r.thresholds = t
  /\ (t # None => t.tolerance = tol) /\ r.thresholds # None
       => r.thresholds.tolerance = tol
  /\ Kind = "real" /\ (t # None => Consistent(t)) /\ r.thresholds # None
       => /\ Consistent(r.thresholds) /\ Within(r.thresholds, v)
          /\ Known(r.thresholds.value) => r.thresholds.tolerance = tol

LEMMA UpdateFacts ==
  ASSUME NEW t \in Threshold \cup {None}, NEW v \in Value \cup {None},
         NEW tol \in Tolerances \cup {None}, NEW changed \in BOOLEAN,
         t # None => v # None,
         NEW r, r = UpdateInternal(t, v, tol, changed)
  PROVE  AfterUpdate(t, v, tol, changed, r)
<1> USE DEF AfterUpdate
<1>1. Known(tol) => tol \in Nat
  BY ValueAssumption DEF Known
<1>2. /\ v # None => v \in Value
      /\ Known(v) => v \in Int \cap Value /\ v # None
  BY ValueAssumption DEF Known, Value
<1>3. CASE t # None /\ Known(tol)
  <2> DEFINE set == IF tol = t.tolerance THEN t ELSE WithThresholds(t, t.value, tol)
             new == [WithThresholds(set, v, tol) EXCEPT !.value = v]
  <2>1. t \in Threshold /\ v \in Value /\ tol \in Nat /\ t.value \in Value
        /\ t.low \in Int /\ t.high \in Int
    BY <1>1, <1>2, <1>3 DEF Threshold
  <2>2. /\ set \in Threshold /\ set # None /\ set.value = t.value
        /\ tol = t.tolerance => set = t
        /\ Known(t.value) => set.tolerance = tol
        /\ Consistent(t) => Consistent(set)
    <3>1. CASE tol = t.tolerance
      BY <1>3, <2>1, <3>1
    <3>2. CASE tol # t.tolerance
      <4> DEFINE w == WithThresholds(t, t.value, tol)
      <4>1. /\ w \in Threshold /\ w.value = t.value
            /\ Known(t.value) => /\ w.tolerance = tol /\ w.low = t.value - tol
                                 /\ w.high = t.value + tol /\ w.wasKnown
            /\ ~Known(t.value) => /\ w.tolerance = t.tolerance /\ w.low = t.low
                                  /\ w.high = t.high /\ ~w.wasKnown
        <5>1. w = WithThresholds(t, t.value, tol)
          OBVIOUS
        <5> HIDE DEF w, set, new
        <5> QED  BY <2>1, <5>1, WithTyped
      <4>2. set = w
        BY <3>2
      <4> HIDE DEF w, set
      <4> QED  BY <3>2, <4>1, <4>2, NoneAssumption DEF Consistent
    <3> QED  BY <3>1, <3>2
  <2> HIDE DEF set
  <2>3. /\ new \in Threshold /\ new # None /\ new.value = v
        /\ Known(v) => /\ new.tolerance = tol /\ new.low = v - tol /\ new.high = v + tol
                       /\ new.wasKnown
        /\ ~Known(v) => ~new.wasKnown /\ new.tolerance = set.tolerance
    <3> DEFINE w == WithThresholds(set, v, tol)
    <3>1. w = WithThresholds(set, v, tol) /\ new = [w EXCEPT !.value = v]
      OBVIOUS
    <3> HIDE DEF w, new
    <3>2. /\ w \in Threshold
          /\ Known(v) => /\ w.tolerance = tol /\ w.low = v - tol /\ w.high = v + tol
                         /\ w.wasKnown
          /\ ~Known(v) => ~w.wasKnown /\ w.tolerance = set.tolerance
      BY <2>1, <2>2, <3>1, WithTyped
    <3>3. /\ new \in Threshold /\ new # None /\ new.value = v
          /\ new.tolerance = w.tolerance /\ new.low = w.low /\ new.high = w.high
          /\ new.wasKnown = w.wasKnown
      BY <2>1, <3>1, <3>2, PutInPlace
    <3> QED  BY <3>2, <3>3
  <2>4. r = IF Exceeded(set, v) THEN Outcome(new, TRUE, TRUE) ELSE Outcome(set, FALSE, FALSE)
    BY <1>3 DEF UpdateInternal, set
  <2> HIDE DEF new
  <2>5. CASE Exceeded(set, v)
    <3>1. r.thresholds = new /\ r.publish = TRUE /\ r.survey = TRUE
      BY <2>4, <2>5 DEF Outcome
    <3>2. t.tolerance = tol => new.tolerance = tol
      BY <2>2, <2>3
    <3>3. Consistent(new) /\ Within(new, v)
      BY <2>3 DEF Consistent, Within
    <3>4. Known(new.value) => new.tolerance = tol
      BY <2>3
    <3> QED  BY <1>3, <2>1, <2>3, <3>1, <3>2, <3>3, <3>4, ValueAssumption
  <2>6. CASE ~Exceeded(set, v)
    <3>1. r.thresholds = set /\ r.publish = FALSE /\ r.survey = FALSE
      BY <2>4, <2>6 DEF Outcome
    <3>2. ASSUME Kind = "real", Consistent(t)
          PROVE  Within(set, v)
      <4>1. set.wasKnown <=> Known(set.value)
        BY <2>2, <3>2 DEF Consistent
      <4>2. set.low \in Int /\ set.high \in Int /\ set.value \in Value
        BY <2>2 DEF Threshold
      <4>3. CASE Known(v)
        BY <2>6, <3>2, <4>1, <4>2, <4>3 DEF Exceeded, Within, Known
      <4>4. CASE ~Known(v)
        <5>1. ~Known(set.value)
          BY <2>6, <4>1, <4>4 DEF Exceeded
        <5>2. v = Unknown /\ set.value = Unknown
          BY <2>1, <4>2, <4>4, <5>1, ValueAssumption DEF Value, Known
        <5> QED  BY <5>2 DEF Within
      <4> QED  BY <4>3, <4>4
    <3> QED  BY <1>3, <2>1, <2>2, <3>1, <3>2, ValueAssumption
  <2> QED  BY <2>5, <2>6
<1>4. CASE t # None /\ ~Known(tol)
  <2>1. r = Outcome(None, changed, TRUE)
    BY <1>4 DEF UpdateInternal
  <2>2. r.thresholds = None /\ r.publish = changed /\ r.survey = TRUE
    BY <2>1 DEF Outcome
  <2> QED  BY <1>4, <2>2
<1>5. CASE t = None /\ Known(v) /\ Known(tol)
  <2>1. r = Outcome(Around(v, tol), changed, TRUE)
    BY <1>5 DEF UpdateInternal
  <2>2. r.thresholds = Around(v, tol) /\ r.publish = changed /\ r.survey = TRUE
    BY <2>1 DEF Outcome
  <2>3. /\ Around(v, tol) \in Threshold /\ Around(v, tol) # None
        /\ Around(v, tol).value = v /\ Around(v, tol).tolerance = tol
        /\ Around(v, tol).low = v - tol /\ Around(v, tol).high = v + tol
        /\ Around(v, tol).wasKnown
    BY <1>1, <1>2, <1>5, AroundTyped
  <2>4. Consistent(r.thresholds) /\ Within(r.thresholds, v)
    BY <1>5, <2>2, <2>3 DEF Consistent, Within
  <2> QED  BY <1>2, <1>5, <2>2, <2>3, <2>4
<1>6. CASE t = None /\ ~(Known(v) /\ Known(tol))
  <2>1. r = Outcome(None, changed, FALSE)
    BY <1>6 DEF UpdateInternal
  <2>2. r.thresholds = None /\ r.publish = changed /\ r.survey = FALSE
    BY <2>1 DEF Outcome
  <2> QED  BY <1>6, <2>2
<1> QED  BY <1>3, <1>4, <1>5, <1>6

-----------------------------------------------------------------------------
(* One entry: updateThresholds() *)

\* The limits told of an entry leave out nothing that a lookup with thresholds t needs.
Covers(b, t) == b.told # None /\ b.told.low >= t.low /\ b.told.high <= t.high

\* They are the tightest of those of the lookups that have any.
LEMMA SurveyFacts ==
  ASSUME NEW R, IsFiniteSet(R), NEW th \in [Lookup -> Threshold \cup {None}],
         R \subseteq Lookup, NEW b \in Bounds
  PROVE  /\ Surveyed(b, Having(R, th)) \in Bounds
         /\ \A l \in R : th[l] # None => Covers(Surveyed(b, Having(R, th)), th[l])
<1> DEFINE set == Having(R, th)
           I == {l \in R : th[l] # None}
           low == [l \in I |-> th[l].low]
           high == [l \in I |-> th[l].high]
<1>1. CASE set = {}
  <2>1. I = {}
    BY <1>1 DEF Having
  <2>2. Surveyed(b, set) \in Bounds
    BY <1>1 DEF Surveyed, Bounds
  <2> QED  BY <2>1, <2>2
<1>2. CASE set # {}
  <2>1. I # {} /\ IsFiniteSet(I)
    BY <1>2, FS_Subset DEF Having
  <2>2. /\ low \in [I -> Int] /\ high \in [I -> Int]
        /\ \A l \in I : low[l] = th[l].low /\ high[l] = th[l].high
    <3>1. \A l \in I : th[l] \in Threshold
      OBVIOUS
    <3> QED  BY <3>1 DEF Threshold
  <2>3. {t.low : t \in set} = {low[l] : l \in I} /\ {t.high : t \in set} = {high[l] : l \in I}
    BY DEF Having
  <2> DEFINE lo == Max({t.low : t \in set})
             hi == Min({t.high : t \in set})
  <2>4. lo \in Int /\ \A l \in I : lo >= th[l].low
    <3> HIDE DEF low, I, set
    <3>1. /\ Max({low[l] : l \in I}) \in {low[l] : l \in I}
          /\ \A j \in I : Max({low[l] : l \in I}) >= low[j]
      BY <2>1, <2>2, MaxFacts
    <3>2. lo = Max({low[l] : l \in I})
      BY <2>3
    <3> HIDE DEF lo
    <3> QED  BY <2>2, <3>1, <3>2
  <2>5. hi \in Int /\ \A l \in I : hi <= th[l].high
    <3> HIDE DEF high, I, set
    <3>1. /\ Min({high[l] : l \in I}) \in {high[l] : l \in I}
          /\ \A j \in I : Min({high[l] : l \in I}) <= high[j]
      BY <2>1, <2>2, MinFacts
    <3>2. hi = Min({high[l] : l \in I})
      BY <2>3
    <3> HIDE DEF hi
    <3> QED  BY <2>2, <3>1, <3>2
  <2>6. Surveyed(b, set) = [own |-> TRUE, told |-> [low |-> lo, high |-> hi]]
    BY <1>2 DEF Surveyed
  <2> HIDE DEF lo, hi
  <2>7. [low |-> lo, high |-> hi] \in Limits /\ [low |-> lo, high |-> hi] # None
    BY <2>4, <2>5, NoneAssumption DEF Limits
  <2>8. Surveyed(b, set) \in Bounds
    BY <2>6, <2>7 DEF Bounds
  <2>9. ASSUME NEW l \in R, th[l] # None
        PROVE  Covers(Surveyed(b, set), th[l])
    BY <2>4, <2>5, <2>6, <2>7, <2>9 DEF Covers
  <2> QED  BY <2>8, <2>9
<1> QED  BY <1>1, <1>2

-----------------------------------------------------------------------------
(* Types *)

\* An entry that has been stamped with this cycle has a value.
Entered == \A s \in State : fresh[s] => entry[s] # None

\* Only an active change lookup with a tolerance, registered on an entry that has a value,
\* has thresholds.
Held ==
  \A l \in Lookup : thresholds[l] # None =>
    /\ l \in active /\ l \in OnChange
    /\ name[l] # Unknown /\ Known(tolerance[l])
    /\ entry[name[l]] # None

Typed == TypeOK /\ IsFiniteSet(active) /\ Entered /\ Held

\* The lookups of S, of those registered on s, are told of v.  The thresholds were th and
\* the bounds b; those that join s in this step come without thresholds and are told.
Telling(s, v, S, th, b) ==
  /\ s \in State /\ v \in Value \cup {None}
  /\ th \in [Lookup -> Threshold \cup {None}] /\ b \in [State -> Bounds]
  /\ S \subseteq Registered(s)'
  /\ Told(s, v, S, Registered(s)', th, b)
  /\ UNCHANGED tolerance
  /\ entry' = [entry EXCEPT ![s] = v] /\ (entry[s] # None => v # None)
  /\ fresh' \in [State -> BOOLEAN]
  /\ \A x \in State : fresh'[x] => fresh[x] \/ (x = s /\ v # None)
  /\ active' \subseteq Lookup /\ IsFiniteSet(active')
  /\ name' \in [Lookup -> State \cup {Unknown}]
  /\ \A k \in Lookup :
       \/ k \in S /\ th[k] = None
       \/ th[k] = thresholds[k] /\ (k \in active' <=> k \in active) /\ name'[k] = name[k]
  /\ \A k \in Registered(s)' : k \in S \/ v = entry[s]

Result(k, th, v) == UpdateInternal(th[k], v, tolerance[k], TRUE)

LEMMA ResultFacts ==
  ASSUME NEW k \in Lookup, NEW th, NEW v \in Value \cup {None},
         th[k] \in Threshold \cup {None}, tolerance[k] \in Tolerances \cup {None},
         th[k] # None => v # None
  PROVE  AfterUpdate(th[k], v, tolerance[k], TRUE, Result(k, th, v))
<1> DEFINE t == th[k]
           tol == tolerance[k]
           r == Result(k, th, v)
<1>1. r = UpdateInternal(t, v, tol, TRUE)
  BY DEF Result
<1>2. t \in Threshold \cup {None} /\ tol \in Tolerances \cup {None} /\ TRUE \in BOOLEAN
      /\ (t # None => v # None)
  OBVIOUS
<1> HIDE DEF t, tol, r
<1>3. AfterUpdate(t, v, tol, TRUE, r)
  BY <1>1, <1>2, UpdateFacts
<1> QED  BY <1>3 DEF t, tol, r

LEMMA TellingFacts ==
  ASSUME Typed, NEW s, NEW v, NEW S, NEW th, NEW b, Telling(s, v, S, th, b)
  PROVE  /\ \A k \in Lookup :
              /\ thresholds'[k] = IF k \in S \cap OnChange THEN Result(k, th, v).thresholds
                                                           ELSE th[k]
              /\ k \in S /\ th[k] # None => v # None
              /\ tolerance[k] \in Tolerances \cup {None}
         /\ thresholds' \in [Lookup -> Threshold \cup {None}]
         /\ bounds' = [b EXCEPT ![s] = IF \E k \in S \cap OnChange : Result(k, th, v).survey
                                       THEN Surveyed(@, Having(Registered(s)', thresholds'))
                                       ELSE @]
         /\ bounds' \in [State -> Bounds]
         /\ silent' = {k \in (active \cap active')
                             \ {k \in S : k \in OnChange => Result(k, th, v).publish} :
                         View(k)' # View(k)}
<1>1. /\ s \in State /\ v \in Value \cup {None} /\ S \subseteq Registered(s)'
      /\ th \in [Lookup -> Threshold \cup {None}] /\ b \in [State -> Bounds]
      /\ Told(s, v, S, Registered(s)', th, b)
      /\ active' \subseteq Lookup /\ IsFiniteSet(active')
  BY DEF Telling
<1>2. /\ thresholds' = [k \in Lookup |->
                         IF k \in S \cap OnChange THEN Result(k, th, v).thresholds ELSE th[k]]
      /\ bounds' = [b EXCEPT ![s] = IF \E k \in S \cap OnChange : Result(k, th, v).survey
                                    THEN Surveyed(@, Having(Registered(s)', thresholds'))
                                    ELSE @]
      /\ Publish({k \in S : k \in OnChange => Result(k, th, v).publish})
  BY <1>1 DEF Told, Result
<1>3. ASSUME NEW k \in Lookup
      PROVE  /\ k \in S /\ th[k] # None => v # None
             /\ tolerance[k] \in Tolerances \cup {None}
             /\ k \in S => Result(k, th, v).thresholds \in Threshold \cup {None}
  <2>1. tolerance[k] \in Tolerances \cup {None}
    BY DEF Typed, TypeOK
  <2>2. ASSUME k \in S, th[k] # None PROVE v # None
    <3>1. th[k] = thresholds[k] /\ name'[k] = name[k]
      BY <2>2 DEF Telling
    <3>2. name'[k] = s
      BY <1>1, <2>2 DEF Registered
    <3>3. entry[s] # None
      BY <2>2, <3>1, <3>2 DEF Typed, Held
    <3> QED  BY <3>3 DEF Telling
  <2>3. ASSUME k \in S PROVE Result(k, th, v).thresholds \in Threshold \cup {None}
    <3>1. th[k] \in Threshold \cup {None} /\ (th[k] # None => v # None)
      BY <1>1, <2>2, <2>3
    <3>2. AfterUpdate(th[k], v, tolerance[k], TRUE, Result(k, th, v))
      BY <1>1, <2>1, <3>1, ResultFacts
    <3> QED  BY <3>2 DEF AfterUpdate
  <2> QED  BY <2>1, <2>2, <2>3
<1>4. thresholds' \in [Lookup -> Threshold \cup {None}]
  BY <1>1, <1>2, <1>3
<1>5. bounds' \in [State -> Bounds]
  <2>1. Registered(s)' \subseteq Lookup /\ IsFiniteSet(Registered(s)')
    BY <1>1, FS_Subset DEF Registered
  <2>2. Surveyed(b[s], Having(Registered(s)', thresholds')) \in Bounds
    BY <1>1, <1>4, <2>1, SurveyFacts
  <2> QED  BY <1>1, <1>2, <2>2
<1> QED
  BY <1>2, <1>3, <1>4, <1>5 DEF Publish

\* A lookup that is told, or not, keeps the types.
LEMMA TellingTyped ==
  ASSUME Typed, NEW s, NEW v, NEW S, NEW th, NEW b, Telling(s, v, S, th, b),
         actual' \in [State -> Value], reports' \in Seq([state : State, value : Value])
  PROVE  Typed'
<1>1. /\ s \in State /\ v \in Value \cup {None} /\ S \subseteq Registered(s)'
      /\ th \in [Lookup -> Threshold \cup {None}]
      /\ tolerance' = tolerance
      /\ entry' = [entry EXCEPT ![s] = v] /\ (entry[s] # None => v # None)
      /\ fresh' \in [State -> BOOLEAN]
      /\ \A x \in State : fresh'[x] => fresh[x] \/ (x = s /\ v # None)
      /\ active' \subseteq Lookup /\ IsFiniteSet(active')
      /\ name' \in [Lookup -> State \cup {Unknown}]
  BY DEF Telling
<1>2. /\ entry \in [State -> Value \cup {None}]
      /\ tolerance \in [Lookup -> Tolerances \cup {None}] /\ active \subseteq Lookup
  BY DEF Typed, TypeOK
<1>3. entry' \in [State -> Value \cup {None}]
      /\ \A x \in State : entry'[x] = (IF x = s THEN v ELSE entry[x])
  BY <1>1, <1>2
<1>4. TypeOK'
  <2>1. thresholds' \in [Lookup -> Threshold \cup {None}] /\ bounds' \in [State -> Bounds]
        /\ silent' \subseteq Lookup
    BY <1>2, TellingFacts
  <2> QED  BY <1>1, <1>2, <1>3, <2>1 DEF TypeOK
<1>5. Entered'
  BY <1>1, <1>3 DEF Typed, Entered
<1>6. Held'
  <2> SUFFICES ASSUME NEW k \in Lookup, thresholds'[k] # None
               PROVE  /\ k \in active' /\ k \in OnChange
                      /\ name'[k] # Unknown /\ Known(tolerance'[k])
                      /\ entry'[name'[k]] # None
    BY DEF Held
  <2>1. CASE k \in S \cap OnChange
    <3>1. k \in active' /\ name'[k] = s /\ s # Unknown
      BY <1>1, <2>1, LookupAssumption DEF Registered
    <3>2. /\ thresholds'[k] = Result(k, th, v).thresholds
          /\ th[k] # None => v # None
          /\ tolerance[k] \in Tolerances \cup {None} /\ th[k] \in Threshold \cup {None}
      BY <1>1, <2>1, TellingFacts
    <3>3. Known(tolerance[k]) /\ v # None
      <4>1. AfterUpdate(th[k], v, tolerance[k], TRUE, Result(k, th, v))
        BY <1>1, <2>1, <3>2, ResultFacts
      <4> QED  BY <2>1, <3>2, <4>1 DEF AfterUpdate
    <3> QED  BY <1>1, <1>3, <2>1, <3>1, <3>3
  <2>2. CASE k \notin S \cap OnChange
    <3>1. thresholds'[k] = th[k]
      BY <2>2, TellingFacts
    <3>2. th[k] = thresholds[k] /\ (k \in active' <=> k \in active) /\ name'[k] = name[k]
      BY <3>1 DEF Telling
    <3>3. /\ k \in active /\ k \in OnChange
          /\ name[k] # Unknown /\ Known(tolerance[k])
          /\ entry[name[k]] # None
      BY <3>1, <3>2 DEF Typed, Held
    <3>4. name[k] \in State
      BY <3>3 DEF Typed, TypeOK
    <3> QED  BY <1>1, <1>3, <3>2, <3>3, <3>4
  <2> QED  BY <2>1, <2>2
<1> QED  BY <1>1, <1>4, <1>5, <1>6 DEF Typed

\* A lookup that is registered is told of the value it finds, and the others of a value
\* that is new.
LEMMA RegisterTells ==
  ASSUME Typed, NEW l \in Lookup, NEW s \in State, NEW b \in [State -> Bounds],
         NEW th \in [Lookup -> Threshold \cup {None}],
         Register(l, s, b, th), UNCHANGED tolerance,
         th[l] = None, \A k \in Lookup : k # l => th[k] = thresholds[k],
         active' = active \cup {l}, name' \in [Lookup -> State \cup {Unknown}], name'[l] = s,
         \A k \in Lookup : k # l => name'[k] = name[k]
  PROVE  \E v, S : /\ Telling(s, v, S, th, b) /\ l \in S
                   /\ fresh[s] => v = entry[s]
                   /\ ~fresh[s] => \/ v = actual[s]
                                   \/ v = None /\ actual[s] = Unknown /\ entry[s] = None
<1> DEFINE v == LookedUp(s)
           others == Registered(s) \ {l}
           S == IF v = entry[s] THEN {l} ELSE others \cup {l}
<1>1. /\ active \subseteq Lookup /\ IsFiniteSet(active)
      /\ entry \in [State -> Value \cup {None}] /\ actual \in [State -> Value]
      /\ fresh \in [State -> BOOLEAN]
  BY DEF Typed, TypeOK
<1>2. None \notin Value
  BY ValueAssumption DEF Value
<1>3. /\ fresh[s] => v = entry[s]
      /\ ~fresh[s] => v = actual[s] \/ (v = None /\ actual[s] = Unknown /\ entry[s] = None)
      /\ v \in Value \cup {None}
      /\ fresh[s] => entry[s] # None
  BY <1>1 DEF LookedUp, Typed, Entered
<1>4. entry[s] # None => v # None
  BY <1>1, <1>2, <1>3
<1>5. /\ IF fresh[s] \/ v = None THEN UNCHANGED <<entry, fresh>> ELSE Enter(s, v)
      /\ Told(s, v, S, others \cup {l}, th, b)
  BY DEF Register
<1>6. /\ others \cup {l} = Registered(s)' /\ S \subseteq Registered(s)' /\ l \in S
      /\ \A k \in Registered(s)' : k \in S \/ v = entry[s]
  BY <1>1 DEF Registered
<1> HIDE DEF v, others, S
<1>7. /\ entry' = [entry EXCEPT ![s] = v] /\ fresh' \in [State -> BOOLEAN]
      /\ \A x \in State : fresh'[x] => fresh[x] \/ (x = s /\ v # None)
  <2>1. CASE fresh[s] \/ v = None
    <3>1. v = entry[s]
      BY <1>2, <1>3, <1>4, <2>1
    <3> QED  BY <1>1, <1>5, <2>1, <3>1
  <2>2. CASE ~(fresh[s] \/ v = None)
    BY <1>1, <1>5, <2>2 DEF Enter
  <2> QED  BY <2>1, <2>2
<1>8. active' \subseteq Lookup /\ IsFiniteSet(active')
  BY <1>1, FS_AddElement
<1>9. \A k \in Lookup :
        \/ k \in S /\ th[k] = None
        \/ th[k] = thresholds[k] /\ (k \in active' <=> k \in active) /\ name'[k] = name[k]
  BY <1>6
<1>10. Telling(s, v, S, th, b)
  BY <1>3, <1>4, <1>5, <1>6, <1>7, <1>8, <1>9 DEF Telling
<1> QED  BY <1>3, <1>6, <1>10

\* What is told of an entry without l.
LEMMA WithoutTyped ==
  ASSUME Typed, NEW l \in Lookup, IsFiniteSet(active)
  PROVE  WithoutLookup(l) \in [State -> Bounds]
<1>1. /\ bounds \in [State -> Bounds] /\ thresholds \in [Lookup -> Threshold \cup {None}]
      /\ active \subseteq Lookup
      /\ name[l] \in State \cup {Unknown}
  BY DEF Typed, TypeOK
<1>2. CASE name[l] = Unknown
  BY <1>1, <1>2 DEF WithoutLookup
<1>3. CASE name[l] # Unknown
  <2> DEFINE left == Registered(name[l]) \ {l}
  <2>1. left \subseteq Lookup /\ IsFiniteSet(left)
    BY <1>1, FS_Subset DEF Registered
  <2>2. bounds[name[l]] \in Bounds
    BY <1>1, <1>3
  <2>3. Surveyed(bounds[name[l]], Having(left, thresholds)) \in Bounds
    BY <1>1, <2>1, <2>2, SurveyFacts
  <2>4. Unregistered(bounds[name[l]], left, Having(left, thresholds)) \in Bounds
    <3>1. [bounds[name[l]] EXCEPT !.own = FALSE] \in Bounds
      BY <2>2 DEF Bounds
    <3> HIDE DEF left
    <3> QED  BY <2>2, <2>3, <3>1 DEF Unregistered
  <2>5. WithoutLookup(l)
        = [bounds EXCEPT ![name[l]] = Unregistered(@, left, Having(left, thresholds))]
    BY <1>3 DEF WithoutLookup
  <2> HIDE DEF left
  <2> QED  BY <1>1, <2>4, <2>5
<1> QED  BY <1>2, <1>3

LEMMA InvalidatedTyped ==
  ASSUME Typed, NEW l \in Lookup
  PROVE  /\ Invalidated(l) \in [Lookup -> Threshold \cup {None}]
         /\ Invalidated(l)[l] = None
         /\ \A k \in Lookup : k # l => Invalidated(l)[k] = thresholds[k]
BY DEF Typed, TypeOK, Invalidated

\* Each way to be registered, or to hear of a new value.
LEMMA ActivateTells ==
  ASSUME Typed, NEW l \in Lookup, Activate(l), name[l] # Unknown
  PROVE  \E s \in State : \E v, S :
           /\ Telling(s, v, S, thresholds, bounds) /\ s = name[l] /\ l \in S
           /\ fresh[s] => v = entry[s]
           /\ ~fresh[s] => \/ v = actual[s]
                           \/ v = None /\ actual[s] = Unknown /\ entry[s] = None
<1>1. /\ name \in [Lookup -> State \cup {Unknown}] /\ bounds \in [State -> Bounds]
      /\ thresholds \in [Lookup -> Threshold \cup {None}]
  BY DEF Typed, TypeOK
<1>2. /\ l \notin active /\ active' = active \cup {l} /\ name' = name /\ tolerance' = tolerance
      /\ Register(l, name[l], bounds, thresholds)
  BY DEF Activate
<1>3. thresholds[l] = None
  BY <1>2 DEF Typed, Held
<1>4. PICK s \in State : s = name[l]
  BY <1>1
<1>5. Register(l, s, bounds, thresholds) /\ name' \in [Lookup -> State \cup {Unknown}]
      /\ name'[l] = s /\ \A k \in Lookup : k # l => name'[k] = name[k]
  BY <1>1, <1>2, <1>4
<1>6. \E v, S : /\ Telling(s, v, S, thresholds, bounds) /\ l \in S
                /\ fresh[s] => v = entry[s]
                /\ ~fresh[s] => \/ v = actual[s]
                                \/ v = None /\ actual[s] = Unknown /\ entry[s] = None
  BY <1>1, <1>2, <1>3, <1>5, RegisterTells
<1> QED  BY <1>4, <1>6

LEMMA RenameTells ==
  ASSUME Typed, NEW l \in active, NEW s \in Names[l] \ {name[l]}, s # Unknown,
         name' = [name EXCEPT ![l] = s], UNCHANGED <<active, tolerance>>,
         Register(l, s, WithoutLookup(l), Invalidated(l))
  PROVE  \E v, S : /\ Telling(s, v, S, Invalidated(l), WithoutLookup(l)) /\ l \in S
                   /\ fresh[s] => v = entry[s]
                   /\ ~fresh[s] => \/ v = actual[s]
                                   \/ v = None /\ actual[s] = Unknown /\ entry[s] = None
<1>1. /\ name \in [Lookup -> State \cup {Unknown}] /\ l \in Lookup /\ IsFiniteSet(active)
  BY DEF Typed, TypeOK
<1>2. s \in State
  BY <1>1, LookupAssumption
<1>3. /\ name' \in [Lookup -> State \cup {Unknown}] /\ name'[l] = s
      /\ \A k \in Lookup : k # l => name'[k] = name[k]
      /\ active' = active \cup {l}
  BY <1>1, <1>2
<1> QED  BY <1>1, <1>2, <1>3, WithoutTyped, InvalidatedTyped, RegisterTells

LEMMA DeliverTells ==
  ASSUME Typed, Deliver
  PROVE  \E s \in State : \E v \in Value : \E S :
           /\ Telling(s, v, S, thresholds, bounds)
           /\ s = Head(reports).state /\ v = Head(reports).value
<1>1. /\ name \in [Lookup -> State \cup {Unknown}] /\ bounds \in [State -> Bounds]
      /\ thresholds \in [Lookup -> Threshold \cup {None}]
      /\ active \subseteq Lookup /\ IsFiniteSet(active)
      /\ entry \in [State -> Value \cup {None}] /\ fresh \in [State -> BOOLEAN]
      /\ reports \in Seq([state : State, value : Value])
  BY DEF Typed, TypeOK
<1>2. PICK s \in State, v \in Value : s = Head(reports).state /\ v = Head(reports).value
  <2> DEFINE Report == [state : State, value : Value]
  <2>1. reports \in Seq(Report) /\ reports # <<>>
    BY <1>1 DEF Deliver
  <2>2. Head(reports) \in Report
    <3> HIDE DEF Report
    <3> QED  BY <2>1
  <2> QED  BY <2>2
<1> DEFINE S == IF v = entry[s] THEN {} ELSE Registered(s)
<1>3. None \notin Value
  BY ValueAssumption DEF Value
<1>4. /\ active' = active /\ name' = name /\ tolerance' = tolerance
      /\ Enter(s, v) /\ Told(s, v, S, Registered(s), thresholds, bounds)
  BY <1>2 DEF Deliver
<1>5. Registered(s)' = Registered(s)
  BY <1>4 DEF Registered
<1>6. entry' = [entry EXCEPT ![s] = v] /\ fresh' \in [State -> BOOLEAN]
      /\ \A x \in State : fresh'[x] => fresh[x] \/ (x = s /\ v # None)
  BY <1>1, <1>2, <1>3, <1>4 DEF Enter
<1>7. Telling(s, v, S, thresholds, bounds)
  BY <1>1, <1>2, <1>3, <1>4, <1>5, <1>6 DEF Telling
<1> QED  BY <1>2, <1>7

\* The tolerance of l changes to tol; its entry has the value v, and it is told what r says.
Adjusts(l, tol, v, r) ==
  /\ l \in Lookup
  /\ v = IF name[l] = Unknown THEN Unknown ELSE entry[name[l]]
  /\ AfterUpdate(thresholds[l], v, tol, FALSE, r)
  /\ tolerance' = [tolerance EXCEPT ![l] = tol]
  /\ UNCHANGED <<actual, reports, entry, fresh, active, name>>
  /\ thresholds' = IF l \in active THEN [thresholds EXCEPT ![l] = r.thresholds]
                                   ELSE thresholds
  /\ bounds' = IF l \in active /\ r.survey
               THEN [bounds EXCEPT
                       ![name[l]] = Surveyed(@, Having(Registered(name[l]), thresholds'))]
               ELSE bounds
  /\ Publish(IF l \in active /\ r.publish THEN {l} ELSE {})

LEMMA AdjustFacts ==
  ASSUME Typed, NEW l \in Adjustable, Adjust(l)
  PROVE  \E tol \in Tolerances, v \in Value \cup {None} : \E r : Adjusts(l, tol, v, r)
<1>1. l \in Lookup
  BY LookupAssumption
<1>2. /\ entry \in [State -> Value \cup {None}] /\ name[l] \in State \cup {Unknown}
      /\ thresholds[l] \in Threshold \cup {None}
  BY <1>1 DEF Typed, TypeOK
<1>3. PICK tol \in Tolerances \ {tolerance[l]} :
        LET s == name[l]
            r == UpdateInternal(thresholds[l], IF s = Unknown THEN Unknown ELSE entry[s],
                                tol, FALSE)
            reached == l \in active
        IN /\ tolerance' = [tolerance EXCEPT ![l] = tol]
           /\ UNCHANGED <<actual, reports, entry, fresh, active, name>>
           /\ thresholds' = IF reached THEN [thresholds EXCEPT ![l] = r.thresholds]
                                       ELSE thresholds
           /\ bounds' = IF reached /\ r.survey
                        THEN [bounds EXCEPT
                                ![s] = Surveyed(@, Having(Registered(s), thresholds'))]
                        ELSE bounds
           /\ Publish(IF reached /\ r.publish THEN {l} ELSE {})
  BY DEF Adjust
<1> DEFINE v == IF name[l] = Unknown THEN Unknown ELSE entry[name[l]]
           r == UpdateInternal(thresholds[l], v, tol, FALSE)
<1>4. /\ tolerance' = [tolerance EXCEPT ![l] = tol]
      /\ UNCHANGED <<actual, reports, entry, fresh, active, name>>
      /\ thresholds' = IF l \in active THEN [thresholds EXCEPT ![l] = r.thresholds]
                                       ELSE thresholds
      /\ bounds' = IF l \in active /\ r.survey
                   THEN [bounds EXCEPT
                           ![name[l]] = Surveyed(@, Having(Registered(name[l]), thresholds'))]
                   ELSE bounds
      /\ Publish(IF l \in active /\ r.publish THEN {l} ELSE {})
  BY <1>3
<1>5. /\ v \in Value \cup {None}
      /\ thresholds[l] # None => v # None
  BY <1>1, <1>2 DEF Value, Typed, Held
<1>6. AfterUpdate(thresholds[l], v, tol, FALSE, r)
  <2> DEFINE t == thresholds[l]
  <2>1. t \in Threshold \cup {None} /\ tol \in Tolerances \cup {None} /\ FALSE \in BOOLEAN
        /\ (t # None => v # None) /\ v \in Value \cup {None}
        /\ r = UpdateInternal(t, v, tol, FALSE)
    BY <1>2, <1>5
  <2> HIDE DEF t, v, r
  <2>2. AfterUpdate(t, v, tol, FALSE, r)
    BY <2>1, UpdateFacts
  <2> QED  BY <2>2 DEF t
<1> HIDE DEF r
<1>7. v = IF name[l] = Unknown THEN Unknown ELSE entry[name[l]]
  OBVIOUS
<1> HIDE DEF v
<1>8. Adjusts(l, tol, v, r)
  BY <1>1, <1>4, <1>6, <1>7 DEF Adjusts
<1> QED  BY <1>5, <1>8

\* Each action keeps the types.
LEMMA ActivateTyped ==
  ASSUME Typed, NEW l \in Lookup, Activate(l)
  PROVE  Typed'
<1>1. actual' = actual /\ reports' = reports
  BY DEF Activate
<1>2. actual' \in [State -> Value] /\ reports' \in Seq([state : State, value : Value])
  BY <1>1 DEF Typed, TypeOK
<1>3. CASE name[l] # Unknown
  <2>1. PICK s, v, S : s \in State /\ Telling(s, v, S, thresholds, bounds)
    BY <1>3, ActivateTells
  <2> QED  BY <1>2, <2>1, TellingTyped
<1>4. CASE name[l] = Unknown
  <2>1. /\ active' = active \cup {l} /\ Publish({})
        /\ UNCHANGED <<actual, reports, name, tolerance, entry, fresh, thresholds, bounds>>
    BY <1>4 DEF Activate
  <2>2. silent' \subseteq active
    BY <2>1 DEF Publish
  <2>3. active' \subseteq Lookup /\ IsFiniteSet(active') /\ silent' \subseteq Lookup
    BY <2>1, <2>2, FS_AddElement DEF Typed, TypeOK
  <2>4. TypeOK'
    BY <2>1, <2>3 DEF Typed, TypeOK
  <2>5. Entered' /\ Held'
    BY <2>1 DEF Typed, Entered, Held
  <2> QED  BY <2>3, <2>4, <2>5 DEF Typed
<1> QED  BY <1>3, <1>4

LEMMA DeactivateTyped ==
  ASSUME Typed, NEW l \in Lookup, Deactivate(l)
  PROVE  Typed'
<1>1. /\ active' = active \ {l} /\ Publish({}) /\ bounds' = WithoutLookup(l)
      /\ thresholds' = Invalidated(l)
      /\ UNCHANGED <<actual, reports, entry, fresh, name, tolerance>>
  BY DEF Deactivate, Invalidated
<1>2. silent' \subseteq active
  BY <1>1 DEF Publish
<1>3. IsFiniteSet(active)
  BY DEF Typed
<1>4. active' \subseteq Lookup /\ IsFiniteSet(active') /\ silent' \subseteq Lookup
  BY <1>1, <1>2, <1>3, FS_RemoveElement DEF Typed, TypeOK
<1>5. /\ thresholds' \in [Lookup -> Threshold \cup {None}] /\ bounds' \in [State -> Bounds]
      /\ thresholds'[l] = None /\ \A k \in Lookup : k # l => thresholds'[k] = thresholds[k]
  BY <1>1, <1>3, WithoutTyped, InvalidatedTyped
<1>6. TypeOK'
  BY <1>1, <1>4, <1>5 DEF Typed, TypeOK
<1>7. Entered'
  BY <1>1 DEF Typed, Entered
<1>8. Held'
  BY <1>1, <1>5 DEF Typed, Held
<1> QED  BY <1>4, <1>6, <1>7, <1>8 DEF Typed

LEMMA RenameTyped ==
  ASSUME Typed, NEW l \in Lookup, Rename(l)
  PROVE  Typed'
<1>1. PICK s \in Names[l] \ {name[l]} : RenameTo(l, s)
  BY DEF Rename
<1>2. /\ IsFiniteSet(active) /\ active \subseteq Lookup
      /\ s \in State \cup {Unknown}
      /\ name \in [Lookup -> State \cup {Unknown}]
      /\ actual' \in [State -> Value] /\ reports' \in Seq([state : State, value : Value])
  BY <1>1, LookupAssumption DEF Typed, TypeOK, RenameTo
<1>3. /\ name' \in [Lookup -> State \cup {Unknown}]
      /\ \A k \in Lookup : k # l => name'[k] = name[k]
  BY <1>1, <1>2 DEF RenameTo
<1>4. CASE l \notin active
  <2>1. UNCHANGED <<entry, fresh, thresholds, bounds>> /\ Publish({})
    BY <1>1, <1>4 DEF RenameTo
  <2>2. silent' \subseteq Lookup
    BY <1>2, <2>1 DEF Publish
  <2>3. TypeOK'
    BY <1>1, <1>3, <2>1, <2>2 DEF Typed, TypeOK, RenameTo
  <2>4. Entered'
    BY <2>1 DEF Typed, Entered
  <2>5. Held'
    <3> SUFFICES ASSUME NEW k \in Lookup, thresholds'[k] # None
                 PROVE  /\ k \in active' /\ k \in OnChange
                        /\ name'[k] # Unknown /\ Known(tolerance'[k])
                        /\ entry'[name'[k]] # None
      BY DEF Held
    <3>1. /\ k \in active /\ k \in OnChange
          /\ name[k] # Unknown /\ Known(tolerance[k])
          /\ entry[name[k]] # None
      BY <2>1 DEF Typed, Held
    <3> QED  BY <1>1, <1>3, <1>4, <2>1, <3>1 DEF RenameTo
  <2> QED  BY <1>1, <1>2, <2>3, <2>4, <2>5 DEF Typed, RenameTo
<1>5. CASE l \in active /\ s # Unknown
  <2>1. Register(l, s, WithoutLookup(l), Invalidated(l))
    BY <1>1, <1>5 DEF RenameTo
  <2>2. PICK v, S : Telling(s, v, S, Invalidated(l), WithoutLookup(l))
    BY <1>1, <1>5, <2>1, RenameTells DEF RenameTo
  <2>3. PICK th, b : th = Invalidated(l) /\ b = WithoutLookup(l)
    OBVIOUS
  <2>4. Telling(s, v, S, th, b)
    BY <2>2, <2>3
  <2> QED  BY <1>2, <2>4, TellingTyped
<1>6. CASE l \in active /\ s = Unknown
  <2>1. /\ thresholds' = Invalidated(l) /\ bounds' = WithoutLookup(l)
        /\ UNCHANGED <<entry, fresh>> /\ Publish({l})
    BY <1>1, <1>6 DEF RenameTo
  <2>2. /\ thresholds' \in [Lookup -> Threshold \cup {None}] /\ bounds' \in [State -> Bounds]
        /\ thresholds'[l] = None /\ \A k \in Lookup : k # l => thresholds'[k] = thresholds[k]
    BY <1>2, <2>1, WithoutTyped, InvalidatedTyped
  <2>3. silent' \subseteq Lookup
    BY <1>2, <2>1 DEF Publish
  <2>4. TypeOK'
    BY <1>1, <1>3, <2>1, <2>2, <2>3 DEF Typed, TypeOK, RenameTo
  <2>5. Entered'
    BY <2>1 DEF Typed, Entered
  <2>6. Held'
    <3> SUFFICES ASSUME NEW k \in Lookup, thresholds'[k] # None
                 PROVE  /\ k \in active' /\ k \in OnChange
                        /\ name'[k] # Unknown /\ Known(tolerance'[k])
                        /\ entry'[name'[k]] # None
      BY DEF Held
    <3>1. k # l /\ thresholds[k] # None
      BY <2>2
    <3>2. /\ k \in active /\ k \in OnChange
          /\ name[k] # Unknown /\ Known(tolerance[k])
          /\ entry[name[k]] # None
      BY <3>1 DEF Typed, Held
    <3> QED  BY <1>1, <1>3, <2>1, <3>1, <3>2 DEF RenameTo
  <2> QED  BY <1>1, <1>2, <2>4, <2>5, <2>6 DEF Typed, RenameTo
<1> QED  BY <1>4, <1>5, <1>6

LEMMA AdjustTyped ==
  ASSUME Typed, NEW l \in Adjustable, Adjust(l)
  PROVE  Typed'
<1>1. PICK tol, v, r :
        /\ tol \in Tolerances /\ v \in Value \cup {None}
        /\ Adjusts(l, tol, v, r)
  BY AdjustFacts
<1>2. /\ IsFiniteSet(active) /\ active \subseteq Lookup
      /\ thresholds \in [Lookup -> Threshold \cup {None}] /\ bounds \in [State -> Bounds]
      /\ tolerance \in [Lookup -> Tolerances \cup {None}]
  BY DEF Typed, TypeOK
<1>3. r.thresholds \in Threshold \cup {None} /\ (r.thresholds # None => Known(tol) /\ v # None)
  BY <1>1 DEF AfterUpdate, Adjusts
<1>4. /\ thresholds' \in [Lookup -> Threshold \cup {None}]
      /\ \A k \in Lookup : k # l => thresholds'[k] = thresholds[k]
      /\ l \in active => thresholds'[l] = r.thresholds
      /\ l \notin active => thresholds'[l] = None
  BY <1>1, <1>2, <1>3 DEF Typed, Held, Adjusts
<1>5. bounds' \in [State -> Bounds]
  <2>1. ASSUME NEW s \in State, s = name[l]
        PROVE  Surveyed(bounds[s], Having(Registered(name[l]), thresholds')) \in Bounds
    <3>1. Registered(name[l]) \subseteq Lookup /\ IsFiniteSet(Registered(name[l]))
      BY <1>2, FS_Subset DEF Registered
    <3> QED  BY <1>2, <1>4, <3>1, SurveyFacts
  <2> QED  BY <1>1, <1>2, <2>1 DEF Adjusts
<1>6. silent' \subseteq Lookup
  BY <1>1, <1>2 DEF Publish, Adjusts
<1>7. TypeOK'
  BY <1>1, <1>2, <1>4, <1>5, <1>6 DEF Typed, TypeOK, Adjusts
<1>8. Entered'
  BY <1>1 DEF Typed, Entered, Adjusts
<1>9. Held'
  <2> SUFFICES ASSUME NEW k \in Lookup, thresholds'[k] # None
               PROVE  /\ k \in active' /\ k \in OnChange
                      /\ name'[k] # Unknown /\ Known(tolerance'[k])
                      /\ entry'[name'[k]] # None
    BY DEF Held
  <2>1. CASE k = l
    <3>1. l \in active /\ r.thresholds # None
      BY <1>4, <2>1
    <3>2. l \in OnChange
      BY LookupAssumption
    <3>3. Known(tol) /\ v # None
      BY <1>3, <3>1
    <3>4. name[l] # Unknown
      <4> SUFFICES ASSUME name[l] = Unknown PROVE FALSE
        OBVIOUS
      <4>1. v = Unknown /\ ~Known(v)
        BY <1>1, ValueAssumption DEF Known, Adjusts
      <4>2. thresholds[l] = None
        BY <1>1 DEF Typed, Held, Adjusts
      <4>3. Known(v)
        BY <1>1, <3>1, <4>2 DEF AfterUpdate, Adjusts
      <4> QED  BY <4>1, <4>3
    <3> QED  BY <1>1, <1>2, <2>1, <3>1, <3>2, <3>3, <3>4 DEF Adjusts
  <2>2. CASE k # l
    <3>1. /\ k \in active /\ k \in OnChange
          /\ name[k] # Unknown /\ Known(tolerance[k])
          /\ entry[name[k]] # None
      BY <1>4, <2>2 DEF Typed, Held
    <3> QED  BY <1>1, <1>2, <2>2, <3>1 DEF Adjusts
  <2> QED  BY <2>1, <2>2
<1> QED  BY <1>1, <1>2, <1>7, <1>8, <1>9 DEF Typed, Adjusts

LEMMA ChangeTyped ==
  ASSUME Typed, NEW s \in State, Change(s)
  PROVE  Typed'
<1>1. PICK v \in Value \ {actual[s]} :
        /\ actual' = [actual EXCEPT ![s] = v]
        /\ reports' = Append(reports, [state |-> s, value |-> v])
  BY DEF Change
<1>2. UNCHANGED <<entry, fresh, active, name, tolerance, thresholds, bounds>> /\ Publish({})
  BY DEF Change
<1>3. actual' \in [State -> Value] /\ reports' \in Seq([state : State, value : Value])
  BY <1>1 DEF Typed, TypeOK
<1>4. silent' \subseteq Lookup
  BY <1>2 DEF Publish, Typed, TypeOK
<1>5. TypeOK'
  BY <1>2, <1>3, <1>4 DEF Typed, TypeOK
<1>6. Entered' /\ Held' /\ IsFiniteSet(active')
  BY <1>2 DEF Typed, Entered, Held
<1> QED  BY <1>5, <1>6 DEF Typed

LEMMA DeliverTyped ==
  ASSUME Typed, Deliver
  PROVE  Typed'
<1>1. PICK s, v, S : s \in State /\ v \in Value /\ Telling(s, v, S, thresholds, bounds)
  BY DeliverTells
<1>2. actual' = actual /\ reports' = Tail(reports) /\ reports # <<>>
  BY DEF Deliver
<1>3. actual' \in [State -> Value] /\ reports' \in Seq([state : State, value : Value])
  <2> DEFINE Report == [state : State, value : Value]
  <2>1. reports \in Seq(Report) /\ actual \in [State -> Value]
    BY DEF Typed, TypeOK
  <2> HIDE DEF Report
  <2>2. reports' \in Seq(Report)
    BY <1>2, <2>1
  <2> QED  BY <1>2, <2>1, <2>2 DEF Report
<1> QED  BY <1>1, <1>3, TellingTyped

LEMMA NewCycleTyped ==
  ASSUME Typed, NewCycle
  PROVE  Typed'
<1>1. /\ fresh' = [s \in State |-> FALSE] /\ Publish({})
      /\ UNCHANGED <<actual, reports, entry, active, name, tolerance, thresholds, bounds>>
  BY DEF NewCycle
<1>2. silent' \subseteq Lookup
  BY <1>1 DEF Publish, Typed, TypeOK
<1>3. TypeOK'
  BY <1>1, <1>2 DEF Typed, TypeOK
<1>4. Entered' /\ Held' /\ IsFiniteSet(active')
  BY <1>1 DEF Typed, Entered, Held
<1> QED  BY <1>3, <1>4 DEF Typed

LEMMA InitTyped ==
  ASSUME Init
  PROVE  Typed
<1>1. \A s \in State : bounds[s] \in Bounds
  BY DEF Init, Bounds
<1>2. TypeOK
  <2> DEFINE Report == [state : State, value : Value]
  <2>1. reports \in Seq(Report)
    BY DEF Init
  <2>2. /\ actual \in [State -> Value] /\ entry \in [State -> Value \cup {None}]
        /\ fresh \in [State -> BOOLEAN] /\ active \subseteq Lookup /\ silent \subseteq Lookup
        /\ name \in [Lookup -> State \cup {Unknown}]
        /\ tolerance \in [Lookup -> Tolerances \cup {None}]
        /\ thresholds \in [Lookup -> Threshold \cup {None}]
    BY DEF Init
  <2>3. bounds \in [State -> Bounds]
    <3>1. bounds = [s \in State |-> [own |-> FALSE, told |-> None]]
      BY DEF Init
    <3> QED  BY <1>1, <3>1
  <2> QED  BY <2>1, <2>2, <2>3 DEF TypeOK
<1>3. IsFiniteSet(active)
  BY FS_EmptySet DEF Init
<1> QED  BY <1>2, <1>3 DEF Init, Typed, Entered, Held

LEMMA NextTyped ==
  ASSUME Typed, [Next]_vars
  PROVE  Typed'
<1>1. CASE UNCHANGED vars
  BY <1>1 DEF vars, Typed, TypeOK, Entered, Held
<1>2. CASE Next
  BY <1>2, ActivateTyped, DeactivateTyped, RenameTyped, AdjustTyped, ChangeTyped, DeliverTyped,
     NewCycleTyped DEF Next
<1> QED  BY <1>1, <1>2

\* The values, thresholds and bounds are what they are declared to be; only an active
\* change lookup whose state, tolerance and entry have values has thresholds.
THEOREM LookupTypes == Spec => []Typed
<1>1. Init => Typed
  BY InitTyped
<1>2. Typed /\ [Next]_vars => Typed'
  BY NextTyped
<1> QED  BY <1>1, <1>2, PTL DEF Spec

-----------------------------------------------------------------------------
(* No change is silent *)

\* A lookup whose thresholds, state and entry stay, or that has the same value in its new
\* thresholds, shows the same value.
LEMMA ViewStays ==
  ASSUME NEW k \in active \cap active', name'[k] = name[k],
         name[k] # Unknown =>
           \/ thresholds[k] # None /\ thresholds'[k] # None
              /\ thresholds'[k].value = thresholds[k].value
           \/ thresholds'[k] = thresholds[k] /\ entry'[name[k]] = entry[name[k]]
           \/ thresholds[k] = None /\ thresholds'[k] # None
              /\ thresholds'[k].value = entry[name[k]]
  PROVE  View(k)' = View(k)
BY DEF View

LEMMA TellingTells ==
  ASSUME Typed, NEW s, NEW v, NEW S, NEW th, NEW b, Telling(s, v, S, th, b)
  PROVE  silent' = {}
<1>1. /\ s \in State /\ v \in Value \cup {None} /\ S \subseteq Registered(s)'
      /\ th \in [Lookup -> Threshold \cup {None}]
      /\ entry' = [entry EXCEPT ![s] = v]
      /\ active' \subseteq Lookup /\ active \subseteq Lookup
      /\ entry \in [State -> Value \cup {None}] /\ name \in [Lookup -> State \cup {Unknown}]
  BY DEF Telling, Typed, TypeOK
<1>2. silent' = {k \in (active \cap active')
                         \ {k \in S : k \in OnChange => Result(k, th, v).publish} :
                     View(k)' # View(k)}
  BY TellingFacts
<1>3. ASSUME NEW k \in active \cap active',
             k \in S => k \in OnChange /\ ~Result(k, th, v).publish
      PROVE  View(k)' = View(k)
  <2>1. k \in Lookup
    BY <1>1
  <2>2. CASE k \in S
    <3>1. /\ thresholds'[k] = Result(k, th, v).thresholds
          /\ th[k] # None => v # None
          /\ tolerance[k] \in Tolerances \cup {None} /\ th[k] \in Threshold \cup {None}
      BY <1>1, <1>3, <2>1, <2>2, TellingFacts
    <3>2. AfterUpdate(th[k], v, tolerance[k], TRUE, Result(k, th, v))
      BY <1>1, <2>1, <3>1, ResultFacts
    <3>3. th[k] # None /\ Known(tolerance[k])
      BY <1>3, <2>2, <3>2 DEF AfterUpdate
    <3>4. thresholds'[k] # None /\ thresholds'[k].value = th[k].value
      BY <1>3, <2>2, <3>1, <3>2, <3>3 DEF AfterUpdate
    <3>5. th[k] = thresholds[k] /\ name'[k] = name[k]
      BY <2>1, <3>3 DEF Telling
    <3>6. /\ thresholds[k] # None /\ thresholds'[k] # None
          /\ thresholds'[k].value = thresholds[k].value
      BY <3>3, <3>4, <3>5
    <3> QED  BY <1>3, <3>5, <3>6, ViewStays
  <2>3. CASE k \notin S
    <3>1. thresholds'[k] = th[k] /\ th[k] = thresholds[k] /\ name'[k] = name[k]
      <4>1. thresholds'[k] = th[k]
        BY <2>1, <2>3, TellingFacts
      <4>2. th[k] = thresholds[k] /\ name'[k] = name[k]
        BY <2>1, <2>3 DEF Telling
      <4> QED  BY <4>1, <4>2
    <3>2. name[k] \in State \cup {Unknown}
      BY <1>1, <2>1
    <3>3. name[k] = s => v = entry[s]
      BY <1>3, <2>3, <3>1 DEF Telling, Registered
    <3>4. name[k] # Unknown => entry'[name[k]] = entry[name[k]]
      BY <1>1, <3>2, <3>3
    <3> QED  BY <1>3, <3>1, <3>4, ViewStays
  <2> QED  BY <2>2, <2>3
<1> QED  BY <1>2, <1>3

LEMMA StepTells ==
  ASSUME Typed, Unknown \notin Tolerances, ChangesArePublished, [Next]_vars
  PROVE  ChangesArePublished'
<1>1. /\ active \subseteq Lookup /\ name \in [Lookup -> State \cup {Unknown}]
      /\ thresholds \in [Lookup -> Threshold \cup {None}]
  BY DEF Typed, TypeOK
<1>2. CASE UNCHANGED vars
  BY <1>2 DEF vars, ChangesArePublished
<1>3. ASSUME NEW l \in Lookup, Activate(l)
      PROVE  silent' = {}
  <2>1. CASE name[l] # Unknown
    <3>1. PICK s, v, S : s \in State /\ Telling(s, v, S, thresholds, bounds)
      BY <1>3, <2>1, ActivateTells
    <3> QED  BY <3>1, TellingTells
  <2>2. CASE name[l] = Unknown
    <3>1. UNCHANGED <<name, entry, thresholds>> /\ Publish({})
      BY <1>3, <2>2 DEF Activate
    <3>2. \A k \in active \cap active' : View(k)' = View(k)
      BY <3>1, ViewStays
    <3> QED  BY <3>1, <3>2 DEF Publish
  <2> QED  BY <2>1, <2>2
<1>4. ASSUME NEW l \in Lookup, Deactivate(l)
      PROVE  silent' = {}
  <2>1. /\ UNCHANGED <<name, entry>> /\ Publish({})
        /\ active' = active \ {l} /\ thresholds' = Invalidated(l)
    BY <1>4 DEF Deactivate, Invalidated
  <2>2. \A k \in active \cap active' : thresholds'[k] = thresholds[k]
    BY <1>1, <2>1, InvalidatedTyped
  <2>3. \A k \in active \cap active' : View(k)' = View(k)
    BY <2>1, <2>2, ViewStays
  <2> QED  BY <2>1, <2>3 DEF Publish
<1>5. ASSUME NEW l \in Lookup, Rename(l)
      PROVE  silent' = {}
  <2>1. PICK s \in Names[l] \ {name[l]} : RenameTo(l, s)
    BY <1>5 DEF Rename
  <2>2. \A k \in Lookup : k # l => name'[k] = name[k]
    BY <1>1, <2>1 DEF RenameTo
  <2>3. CASE l \notin active
    <3>1. UNCHANGED <<entry, thresholds>> /\ Publish({})
      BY <2>1, <2>3 DEF RenameTo
    <3>2. \A k \in active \cap active' : View(k)' = View(k)
      BY <1>1, <2>2, <2>3, <3>1, ViewStays
    <3> QED  BY <3>1, <3>2 DEF Publish
  <2>4. CASE l \in active /\ s # Unknown
    <3>1. Register(l, s, WithoutLookup(l), Invalidated(l))
      BY <2>1, <2>4 DEF RenameTo
    <3>2. PICK v, S : Telling(s, v, S, Invalidated(l), WithoutLookup(l))
      BY <2>1, <2>4, <3>1, RenameTells DEF RenameTo
    <3>3. PICK th, b : th = Invalidated(l) /\ b = WithoutLookup(l)
      OBVIOUS
    <3>4. Telling(s, v, S, th, b)
      BY <3>2, <3>3
    <3> QED  BY <3>4, TellingTells
  <2>5. CASE l \in active /\ s = Unknown
    <3>1. thresholds' = Invalidated(l) /\ UNCHANGED entry /\ Publish({l})
      BY <2>1, <2>5 DEF RenameTo
    <3>2. ASSUME NEW k \in (active \cap active') \ {l}
          PROVE  View(k)' = View(k)
      <4>1. thresholds'[k] = thresholds[k] /\ name'[k] = name[k]
        BY <1>1, <1>5, <2>2, <3>1, InvalidatedTyped
      <4> QED  BY <3>1, <4>1, ViewStays
    <3> QED  BY <3>1, <3>2 DEF Publish
  <2> QED  BY <2>3, <2>4, <2>5
<1>6. ASSUME NEW l \in Adjustable, Adjust(l)
      PROVE  silent' = {}
  <2>1. PICK tol, v, r :
          /\ tol \in Tolerances /\ v \in Value \cup {None}
          /\ Adjusts(l, tol, v, r)
    BY <1>6, AdjustFacts
  <2>2. Known(tol)
    BY <2>1, ValueAssumption DEF Known
  <2>3. ASSUME NEW k \in active \cap active', ~(k = l /\ r.publish)
        PROVE  View(k)' = View(k)
    <3>1. CASE k # l
      BY <1>1, <2>1, <3>1, ViewStays DEF Adjusts
    <3>2. CASE k = l /\ ~r.publish
      <4>1. thresholds'[k] = r.thresholds
        BY <1>1, <2>1, <3>2 DEF Adjusts
      <4>2. \/ thresholds[k] # None /\ r.thresholds # None
               /\ r.thresholds.value = thresholds[k].value
            \/ thresholds[k] = None /\ (r.thresholds # None => r.thresholds.value = v)
        BY <2>1, <2>2, <3>2 DEF AfterUpdate, Adjusts
      <4> QED  BY <2>1, <3>2, <4>1, <4>2, ViewStays DEF Adjusts
    <3> QED  BY <2>3, <3>1, <3>2
  <2>4. \A k \in active \cap active' :
          k \notin (IF l \in active /\ r.publish THEN {l} ELSE {}) => ~(k = l /\ r.publish)
    OBVIOUS
  <2> QED  BY <2>1, <2>3, <2>4 DEF Publish, Adjusts
<1>7. ASSUME NEW s \in State, Change(s)
      PROVE  silent' = {}
  <2>1. UNCHANGED <<name, entry, thresholds>> /\ Publish({})
    BY <1>7 DEF Change
  <2>2. \A k \in active \cap active' : View(k)' = View(k)
    BY <2>1, ViewStays
  <2> QED  BY <2>1, <2>2 DEF Publish
<1>8. ASSUME Deliver
      PROVE  silent' = {}
  <2>1. PICK s, v, S : s \in State /\ v \in Value /\ Telling(s, v, S, thresholds, bounds)
    BY <1>8, DeliverTells
  <2> QED  BY <2>1, TellingTells
<1>9. ASSUME NewCycle
      PROVE  silent' = {}
  <2>1. UNCHANGED <<name, entry, thresholds>> /\ Publish({})
    BY <1>9 DEF NewCycle
  <2>2. \A k \in active \cap active' : View(k)' = View(k)
    BY <2>1, ViewStays
  <2> QED  BY <2>1, <2>2 DEF Publish
<1> QED
  BY <1>2, <1>3, <1>4, <1>5, <1>6, <1>7, <1>8, <1>9 DEF Next, ChangesArePublished

\* If the tolerances always have values, no lookup that stays active changes its value
\* without telling its listeners, whatever becomes of the states, their names, the values
\* and the tolerances.  A tolerance that becomes unknown does change it silently: the
\* lookup then shows the entry's value (updateInternal()).
THEOREM ChangesPublished ==
  ASSUME Unknown \notin Tolerances
  PROVE  Spec => []ChangesArePublished
<1>1. Init => ChangesArePublished
  BY DEF Init, ChangesArePublished
<1>2. Typed /\ ChangesArePublished /\ [Next]_vars => ChangesArePublished'
  BY StepTells
<1> QED  BY <1>1, <1>2, LookupTypes, PTL DEF Spec

-----------------------------------------------------------------------------
(* The thresholds fit the value *)

\* The thresholds of a lookup are those of its value and tolerance, and the entry's value
\* lies within them.
FitsOf(k, th) ==
  th[k] # None =>
    /\ Consistent(th[k])
    /\ Known(th[k].value) => th[k].tolerance = tolerance[k]
    /\ Within(th[k], entry[name[k]])

Fits == \A k \in Lookup : FitsOf(k, thresholds)

LEMMA TellingFits ==
  ASSUME Kind = "real", Typed, NEW s, NEW v, NEW S, NEW th, NEW b, Telling(s, v, S, th, b),
         \A k \in Lookup : FitsOf(k, th)
  PROVE  Fits'
<1>1. /\ s \in State /\ v \in Value \cup {None} /\ S \subseteq Registered(s)'
      /\ th \in [Lookup -> Threshold \cup {None}]
      /\ tolerance' = tolerance
      /\ entry' = [entry EXCEPT ![s] = v] /\ entry \in [State -> Value \cup {None}]
      /\ name \in [Lookup -> State \cup {Unknown}]
  BY DEF Telling, Typed, TypeOK
<1>2. ASSUME NEW k \in Lookup, thresholds'[k] # None
      PROVE  /\ Consistent(thresholds'[k])
             /\ Known(thresholds'[k].value) => thresholds'[k].tolerance = tolerance[k]
             /\ Within(thresholds'[k], entry'[name'[k]])
  <2>1. CASE k \in S \cap OnChange
    <3>1. /\ thresholds'[k] = Result(k, th, v).thresholds
          /\ th[k] # None => v # None
          /\ tolerance[k] \in Tolerances \cup {None} /\ th[k] \in Threshold \cup {None}
      BY <1>1, <2>1, TellingFacts
    <3>2. AfterUpdate(th[k], v, tolerance[k], TRUE, Result(k, th, v))
      BY <1>1, <3>1, ResultFacts
    <3>3. th[k] # None => Consistent(th[k])
      BY DEF FitsOf
    <3>4. /\ Consistent(thresholds'[k]) /\ Within(thresholds'[k], v)
          /\ Known(thresholds'[k].value) => thresholds'[k].tolerance = tolerance[k]
      BY <1>2, <3>1, <3>2, <3>3 DEF AfterUpdate
    <3>5. entry'[name'[k]] = v
      BY <1>1, <2>1 DEF Registered
    <3> QED  BY <3>4, <3>5
  <2>2. CASE k \notin S \cap OnChange
    <3>1. thresholds'[k] = th[k]
      BY <2>2, TellingFacts
    <3>2. th[k] = thresholds[k] /\ (k \in active' <=> k \in active) /\ name'[k] = name[k]
      BY <1>2, <3>1 DEF Telling
    <3>3. k \in active /\ k \in OnChange /\ name[k] \in State
      BY <1>1, <1>2, <3>1, <3>2 DEF Typed, Held
    <3>4. name[k] = s => v = entry[s]
      <4>1. name[k] = s => k \in Registered(s)'
        BY <3>2, <3>3 DEF Registered
      <4> QED  BY <2>2, <3>3, <4>1 DEF Telling
    <3>5. entry'[name'[k]] = entry[name[k]]
      BY <1>1, <3>2, <3>3, <3>4
    <3> QED  BY <1>2, <3>1, <3>5 DEF FitsOf
  <2> QED  BY <2>1, <2>2
<1> QED  BY <1>1, <1>2 DEF Fits, FitsOf

LEMMA StepFits ==
  ASSUME Kind = "real", Typed, Fits, [Next]_vars
  PROVE  Fits'
<1>1. /\ active \subseteq Lookup /\ name \in [Lookup -> State \cup {Unknown}]
      /\ thresholds \in [Lookup -> Threshold \cup {None}]
  BY DEF Typed, TypeOK
<1>2. CASE UNCHANGED vars
  BY <1>2 DEF vars, Fits, FitsOf
<1>3. ASSUME NEW l \in Lookup, Activate(l)
      PROVE  Fits'
  <2>1. CASE name[l] # Unknown
    <3>1. PICK s, v, S : s \in State /\ Telling(s, v, S, thresholds, bounds)
      BY <1>3, <2>1, ActivateTells
    <3>2. PICK th, b : th = thresholds /\ b = bounds
      OBVIOUS
    <3>3. \A k \in Lookup : FitsOf(k, th)
      BY <3>2 DEF Fits
    <3>4. Telling(s, v, S, th, b)
      BY <3>1, <3>2
    <3> QED  BY <3>3, <3>4, TellingFits
  <2>2. CASE name[l] = Unknown
    <3>1. UNCHANGED <<name, tolerance, thresholds, entry>>
      BY <1>3, <2>2 DEF Activate
    <3> QED  BY <3>1 DEF Fits, FitsOf
  <2> QED  BY <2>1, <2>2
<1>4. ASSUME NEW l \in Lookup, Deactivate(l)
      PROVE  Fits'
  <2>1. UNCHANGED <<name, tolerance, entry>> /\ thresholds' = Invalidated(l)
    BY <1>4 DEF Deactivate, Invalidated
  <2>2. \A k \in Lookup : thresholds'[k] # None => thresholds'[k] = thresholds[k]
    BY <2>1, InvalidatedTyped
  <2> QED  BY <2>1, <2>2 DEF Fits, FitsOf
<1>5. ASSUME NEW l \in Lookup, Rename(l)
      PROVE  Fits'
  <2>1. PICK s \in Names[l] \ {name[l]} : RenameTo(l, s)
    BY <1>5 DEF Rename
  <2>2. \A k \in Lookup : k # l => name'[k] = name[k]
    BY <1>1, <2>1 DEF RenameTo
  <2>3. CASE l \in active /\ s # Unknown
    <3>1. Register(l, s, WithoutLookup(l), Invalidated(l))
      BY <2>1, <2>3 DEF RenameTo
    <3>2. PICK v, S : Telling(s, v, S, Invalidated(l), WithoutLookup(l))
      BY <2>1, <2>3, <3>1, RenameTells DEF RenameTo
    <3>3. PICK th, b : th = Invalidated(l) /\ b = WithoutLookup(l)
      OBVIOUS
    <3>4. Telling(s, v, S, th, b)
      BY <3>2, <3>3
    <3>5. ASSUME NEW k \in Lookup, th[k] # None
          PROVE  th[k] = thresholds[k]
      BY <1>5, <3>3, <3>5, InvalidatedTyped
    <3>6. \A k \in Lookup : FitsOf(k, th)
      BY <3>5 DEF Fits, FitsOf
    <3> QED  BY <3>4, <3>6, TellingFits
  <2>4. CASE l \notin active \/ s = Unknown
    <3>1. entry' = entry /\ tolerance' = tolerance
      BY <2>1, <2>4 DEF RenameTo
    <3>2. ASSUME NEW k \in Lookup, thresholds'[k] # None
          PROVE  thresholds'[k] = thresholds[k] /\ k # l
      <4>1. CASE l \notin active
        <5>1. thresholds' = thresholds
          BY <2>1, <4>1 DEF RenameTo
        <5> QED  BY <3>2, <4>1, <5>1 DEF Typed, Held
      <4>2. CASE l \in active
        <5>1. thresholds' = Invalidated(l)
          BY <2>1, <2>4, <4>2 DEF RenameTo
        <5> QED  BY <1>5, <3>2, <5>1, InvalidatedTyped
      <4> QED  BY <4>1, <4>2
    <3> QED  BY <2>2, <3>1, <3>2 DEF Fits, FitsOf
  <2> QED  BY <2>3, <2>4
<1>6. ASSUME NEW l \in Adjustable, Adjust(l)
      PROVE  Fits'
  <2>1. PICK tol, v, r :
          /\ tol \in Tolerances /\ v \in Value \cup {None}
          /\ Adjusts(l, tol, v, r)
    BY <1>6, AdjustFacts
  <2>2. ASSUME NEW k \in Lookup, thresholds'[k] # None
        PROVE  /\ Consistent(thresholds'[k])
               /\ Known(thresholds'[k].value) => thresholds'[k].tolerance = tolerance'[k]
               /\ Within(thresholds'[k], entry[name[k]])
    <3>1. tolerance'[k] = IF k = l THEN tol ELSE tolerance[k]
      BY <2>1 DEF Typed, TypeOK, Adjusts
    <3>2. CASE k = l
      <4>1. l \in active
        BY <2>1, <2>2, <3>2 DEF Typed, Held, Adjusts
      <4>2. thresholds'[l] = r.thresholds
        BY <1>1, <2>1, <4>1 DEF Adjusts
      <4>3. name[l] # Unknown
        BY <2>1, <2>2, <3>2, AdjustTyped, <1>6 DEF Typed, Held, Adjusts
      <4>4. thresholds[l] # None => Consistent(thresholds[l])
        BY <2>1 DEF Fits, FitsOf, Adjusts
      <4> QED  BY <2>1, <2>2, <3>1, <3>2, <4>2, <4>3, <4>4 DEF AfterUpdate, Adjusts
    <3>3. CASE k # l
      <4>1. thresholds'[k] = thresholds[k]
        BY <1>1, <2>1, <3>3 DEF Adjusts
      <4> QED  BY <2>2, <3>1, <3>3, <4>1 DEF Fits, FitsOf
    <3> QED  BY <3>2, <3>3
  <2> QED  BY <2>1, <2>2 DEF Fits, FitsOf, Adjusts
<1>7. ASSUME NEW s \in State, Change(s)
      PROVE  Fits'
  BY <1>7 DEF Change, Fits, FitsOf
<1>8. ASSUME Deliver
      PROVE  Fits'
  <2>1. PICK s, v, S : s \in State /\ v \in Value /\ Telling(s, v, S, thresholds, bounds)
    BY <1>8, DeliverTells
  <2>2. PICK th, b : th = thresholds /\ b = bounds
    OBVIOUS
  <2>3. \A k \in Lookup : FitsOf(k, th)
    BY <2>2 DEF Fits
  <2>4. Telling(s, v, S, th, b)
    BY <2>1, <2>2
  <2> QED  BY <2>3, <2>4, TellingFits
<1>9. ASSUME NewCycle
      PROVE  Fits'
  BY <1>9 DEF NewCycle, Fits, FitsOf
<1> QED
  BY <1>2, <1>3, <1>4, <1>5, <1>6, <1>7, <1>8, <1>9 DEF Next

\* A change lookup whose state, value and tolerance are known has thresholds.
Follows ==
  \A k \in OnChange :
    k \in active /\ name[k] # Unknown /\ Known(tolerance[k]) /\ Known(entry[name[k]])
      => thresholds[k] # None

LEMMA TellingFollows ==
  ASSUME Typed, Follows, NEW s, NEW v, NEW S, NEW th, NEW b, Telling(s, v, S, th, b)
  PROVE  Follows'
<1>1. /\ s \in State /\ v \in Value \cup {None} /\ S \subseteq Registered(s)'
      /\ th \in [Lookup -> Threshold \cup {None}]
      /\ tolerance' = tolerance
      /\ entry' = [entry EXCEPT ![s] = v] /\ entry \in [State -> Value \cup {None}]
      /\ name \in [Lookup -> State \cup {Unknown}]
  BY DEF Telling, Typed, TypeOK
<1> SUFFICES ASSUME NEW k \in OnChange, k \in active', name'[k] # Unknown,
                    Known(tolerance[k]), Known(entry'[name'[k]])
             PROVE  thresholds'[k] # None
  BY <1>1 DEF Follows
<1>2. k \in Lookup
  BY LookupAssumption
<1>3. CASE k \in S
  <2>1. entry'[name'[k]] = v
    BY <1>1, <1>3 DEF Registered
  <2>2. /\ thresholds'[k] = Result(k, th, v).thresholds
        /\ th[k] # None => v # None
        /\ tolerance[k] \in Tolerances \cup {None} /\ th[k] \in Threshold \cup {None}
    BY <1>1, <1>2, <1>3, TellingFacts
  <2>3. AfterUpdate(th[k], v, tolerance[k], TRUE, Result(k, th, v))
    BY <1>1, <1>2, <2>2, ResultFacts
  <2> QED  BY <2>1, <2>2, <2>3 DEF AfterUpdate
<1>4. CASE k \notin S
  <2>1. thresholds'[k] = th[k]
    BY <1>2, <1>4, TellingFacts
  <2>2. th[k] = thresholds[k] /\ k \in active /\ name'[k] = name[k]
    BY <1>2, <1>4 DEF Telling
  <2>3. name[k] \in State
    BY <1>1, <1>2, <2>2
  <2>4. name[k] = s => v = entry[s]
    <3>1. name[k] = s => k \in Registered(s)'
      BY <2>2 DEF Registered
    <3> QED  BY <1>4, <3>1 DEF Telling
  <2>5. entry'[name'[k]] = entry[name[k]]
    BY <1>1, <2>2, <2>3, <2>4
  <2> QED  BY <2>1, <2>2, <2>5 DEF Follows
<1> QED  BY <1>3, <1>4

LEMMA StepFollows ==
  ASSUME Typed, Follows, [Next]_vars
  PROVE  Follows'
<1>1. /\ active \subseteq Lookup /\ name \in [Lookup -> State \cup {Unknown}]
      /\ thresholds \in [Lookup -> Threshold \cup {None}] /\ OnChange \subseteq Lookup
  BY LookupAssumption DEF Typed, TypeOK
<1>2. CASE UNCHANGED vars
  BY <1>2 DEF vars, Follows
<1>3. ASSUME NEW l \in Lookup, Activate(l)
      PROVE  Follows'
  <2>1. CASE name[l] # Unknown
    <3>1. PICK s, v, S : Telling(s, v, S, thresholds, bounds)
      BY <1>3, <2>1, ActivateTells
    <3> QED  BY <3>1, TellingFollows
  <2>2. CASE name[l] = Unknown
    <3>1. active' = active \cup {l} /\ UNCHANGED <<name, tolerance, entry, thresholds>>
      BY <1>3, <2>2 DEF Activate
    <3> QED  BY <2>2, <3>1 DEF Follows
  <2> QED  BY <2>1, <2>2
<1>4. ASSUME NEW l \in Lookup, Deactivate(l)
      PROVE  Follows'
  <2>1. /\ UNCHANGED <<name, tolerance, entry>> /\ thresholds' = Invalidated(l)
        /\ active' = active \ {l}
    BY <1>4 DEF Deactivate, Invalidated
  <2>2. \A k \in Lookup : k # l => thresholds'[k] = thresholds[k]
    BY <2>1, InvalidatedTyped
  <2> QED  BY <1>1, <2>1, <2>2 DEF Follows
<1>5. ASSUME NEW l \in Lookup, Rename(l)
      PROVE  Follows'
  <2>1. PICK s \in Names[l] \ {name[l]} : RenameTo(l, s)
    BY <1>5 DEF Rename
  <2>2. \A k \in Lookup : k # l => name'[k] = name[k]
    BY <1>1, <2>1 DEF RenameTo
  <2>3. CASE l \in active /\ s # Unknown
    <3>1. Register(l, s, WithoutLookup(l), Invalidated(l))
      BY <2>1, <2>3 DEF RenameTo
    <3>2. PICK v, S : Telling(s, v, S, Invalidated(l), WithoutLookup(l))
      BY <2>1, <2>3, <3>1, RenameTells DEF RenameTo
    <3> QED  BY <3>2, TellingFollows
  <2>4. CASE l \notin active \/ s = Unknown
    <3>1. UNCHANGED <<entry, tolerance, active>>
      BY <2>1, <2>4 DEF RenameTo
    <3>2. l \in active => name'[l] = Unknown
      BY <1>1, <2>1, <2>4 DEF RenameTo
    <3>3. \A k \in Lookup : k # l => thresholds'[k] = thresholds[k]
      BY <2>1, <2>4, InvalidatedTyped DEF RenameTo
    <3> QED  BY <1>1, <2>2, <3>1, <3>2, <3>3 DEF Follows
  <2> QED  BY <2>3, <2>4
<1>6. ASSUME NEW l \in Adjustable, Adjust(l)
      PROVE  Follows'
  <2>1. PICK tol, v, r :
          /\ tol \in Tolerances /\ v \in Value \cup {None}
          /\ Adjusts(l, tol, v, r)
    BY <1>6, AdjustFacts
  <2>2. /\ UNCHANGED <<entry, active, name>>
        /\ l \in active => thresholds'[l] = r.thresholds
        /\ tolerance'[l] = tol
        /\ name[l] # Unknown => v = entry[name[l]]
        /\ Known(v) /\ Known(tol) => r.thresholds # None
        /\ \A k \in Lookup : k # l => /\ thresholds'[k] = thresholds[k]
                                     /\ tolerance'[k] = tolerance[k]
    BY <1>1, <2>1 DEF Adjusts, AfterUpdate, Typed, TypeOK
  <2> QED  BY <1>1, <2>2 DEF Follows
<1>7. ASSUME NEW s \in State, Change(s)
      PROVE  Follows'
  BY <1>7 DEF Change, Follows
<1>8. ASSUME Deliver
      PROVE  Follows'
  <2>1. PICK s, v, S : Telling(s, v, S, thresholds, bounds)
    BY <1>8, DeliverTells
  <2> QED  BY <2>1, TellingFollows
<1>9. ASSUME NewCycle
      PROVE  Follows'
  BY <1>9 DEF NewCycle, Follows
<1> QED
  BY <1>2, <1>3, <1>4, <1>5, <1>6, <1>7, <1>8, <1>9 DEF Next

-----------------------------------------------------------------------------
(* The interface is not told too much *)

\* A lookup whose tolerance is fixed has thresholds of that tolerance, ...
FixedOf(k, th) == th[k] # None => th[k].tolerance = tolerance[k]

\* ... and the interface knows that it needs the values beyond them.
CoveredBy(k, th, b) == th[k] # None => Covers(b[name[k]], th[k])

Tight ==
  \A k \in Lookup \ Adjustable : FixedOf(k, thresholds) /\ CoveredBy(k, thresholds, bounds)

LEMMA TightMeans ==
  ASSUME Typed, Tight, Follows, Kind = "real" => Fits
  PROVE  BoundsAreTight
<1> SUFFICES ASSUME NEW l \in Fixed, Known(tolerance[l]), Known(entry[name[l]]),
                    NEW v \in Values, v # entry[name[l]],
                    PassesOn(l, v), MayWithhold(name[l], v)
             PROVE  FALSE
  BY DEF BoundsAreTight, NothingIsWithheld
<1> DEFINE t == thresholds[l]
           told == bounds[name[l]].told
<1>1. /\ l \in Lookup \ Adjustable /\ l \in OnChange /\ l \in active
      /\ name[l] # Unknown /\ t \in Threshold \cup {None} /\ Known(v)
  BY ValueAssumption DEF Fixed, Typed, TypeOK, Known
<1>2. t # None /\ t \in Threshold
  BY <1>1 DEF Follows
<1>3. t.tolerance = tolerance[l] /\ Covers(bounds[name[l]], t)
  BY <1>1, <1>2 DEF Tight, FixedOf, CoveredBy
<1>4. Exceeded(t, v)
  <2> SUFFICES ASSUME ~Exceeded(t, v) PROVE FALSE
    OBVIOUS
  <2> DEFINE r == UpdateInternal(t, v, tolerance[l], TRUE)
  <2>1. r = Outcome(t, FALSE, FALSE)
    BY <1>2, <1>3 DEF UpdateInternal
  <2>2. r.publish
    BY DEF PassesOn
  <2> HIDE DEF r, t
  <2>3. r.publish = FALSE
    BY <2>1 DEF Outcome
  <2> QED  BY <2>2, <2>3
<1>5. Kind = "real" => t.wasKnown
  BY <1>1, <1>2 DEF Fits, FitsOf, Consistent, Within
<1>6. v >= t.high \/ v <= t.low
  BY <1>1, <1>4, <1>5 DEF Exceeded
<1>7. /\ t.low \in Int /\ t.high \in Int
      /\ told \in Limits /\ told.low < v /\ v < told.high
      /\ told.low >= t.low /\ told.high <= t.high
  <2>1. told # None /\ told.low < v /\ v < told.high
    BY DEF MayWithhold
  <2>2. name[l] \in State
    BY <1>1 DEF Typed, TypeOK
  <2>3. told \in Limits
    BY <2>1, <2>2 DEF Typed, TypeOK, Bounds
  <2> QED  BY <1>2, <1>3, <2>1, <2>3 DEF Threshold, Covers
<1>8. told.low \in Int /\ told.high \in Int /\ v \in Int
  BY <1>1, <1>7 DEF Limits, Known
<1> QED  BY <1>6, <1>7, <1>8

LEMMA TellingTight ==
  ASSUME Typed, NEW s, NEW v, NEW S, NEW th, NEW b, Telling(s, v, S, th, b),
         \A k \in Lookup \ Adjustable : FixedOf(k, th) /\ CoveredBy(k, th, b)
  PROVE  Tight'
<1>1. /\ s \in State /\ v \in Value \cup {None} /\ S \subseteq Registered(s)'
      /\ th \in [Lookup -> Threshold \cup {None}] /\ b \in [State -> Bounds]
      /\ tolerance' = tolerance /\ active' \subseteq Lookup /\ IsFiniteSet(active')
      /\ name \in [Lookup -> State \cup {Unknown}]
  BY DEF Telling, Typed, TypeOK
<1> DEFINE again == \E k \in S \cap OnChange : Result(k, th, v).survey
           set == Having(Registered(s)', thresholds')
<1>2. /\ thresholds' \in [Lookup -> Threshold \cup {None}]
      /\ bounds' = [b EXCEPT ![s] = IF again THEN Surveyed(@, set) ELSE @]
  BY TellingFacts
<1>3. \A x \in State : bounds'[x] = IF x = s /\ again THEN Surveyed(b[s], set) ELSE b[x]
  BY <1>1, <1>2
<1>4. \A k \in Registered(s)' :
        thresholds'[k] # None => Covers(Surveyed(b[s], set), thresholds'[k])
  <2>1. Registered(s)' \subseteq Lookup /\ IsFiniteSet(Registered(s)') /\ b[s] \in Bounds
    BY <1>1, FS_Subset DEF Registered
  <2> QED  BY <1>2, <2>1, SurveyFacts
<1> HIDE DEF set
<1>5. ASSUME NEW k \in Lookup \ Adjustable, thresholds'[k] # None
      PROVE  /\ thresholds'[k].tolerance = tolerance[k]
             /\ Covers(bounds'[name'[k]], thresholds'[k])
  <2>1. CASE k \in S \cap OnChange
    <3>1. /\ thresholds'[k] = Result(k, th, v).thresholds
          /\ th[k] # None => v # None
          /\ tolerance[k] \in Tolerances \cup {None} /\ th[k] \in Threshold \cup {None}
      BY <1>1, <2>1, TellingFacts
    <3>2. AfterUpdate(th[k], v, tolerance[k], TRUE, Result(k, th, v))
      BY <1>1, <3>1, ResultFacts
    <3>3. th[k] # None => th[k].tolerance = tolerance[k]
      BY DEF FixedOf
    <3>4. thresholds'[k].tolerance = tolerance[k]
      BY <1>5, <3>1, <3>2, <3>3 DEF AfterUpdate
    <3>5. name'[k] = s /\ k \in Registered(s)'
      BY <1>1, <2>1 DEF Registered
    <3>6. CASE again
      BY <1>1, <1>3, <1>4, <1>5, <3>4, <3>5, <3>6
    <3>7. CASE ~again
      <4>1. ~Result(k, th, v).survey
        BY <2>1, <3>7
      <4>2. thresholds'[k] = th[k] /\ th[k] # None
        BY <1>5, <3>1, <3>2, <3>3, <4>1 DEF AfterUpdate
      <4>3. name[k] = s
        <5>1. th[k] = thresholds[k] /\ name'[k] = name[k]
          BY <4>2 DEF Telling
        <5> QED  BY <3>5, <5>1
      <4>4. Covers(b[s], th[k])
        BY <4>2, <4>3 DEF CoveredBy
      <4> QED  BY <1>1, <1>3, <3>4, <3>5, <3>7, <4>2, <4>4
    <3> QED  BY <3>6, <3>7
  <2>2. CASE k \notin S \cap OnChange
    <3>1. thresholds'[k] = th[k]
      BY <2>2, TellingFacts
    <3>2. th[k] = thresholds[k] /\ (k \in active' <=> k \in active) /\ name'[k] = name[k]
      BY <1>5, <3>1 DEF Telling
    <3>3. k \in active /\ name[k] \in State
      BY <1>1, <1>5, <3>1, <3>2 DEF Typed, Held
    <3>4. th[k].tolerance = tolerance[k] /\ Covers(b[name[k]], th[k])
      BY <1>5, <3>1 DEF FixedOf, CoveredBy
    <3>5. CASE name[k] = s /\ again
      <4>1. k \in Registered(s)'
        BY <3>2, <3>3, <3>5 DEF Registered
      <4> QED  BY <1>1, <1>3, <1>4, <1>5, <3>1, <3>2, <3>4, <3>5, <4>1
    <3>6. CASE ~(name[k] = s /\ again)
      BY <1>3, <3>1, <3>2, <3>3, <3>4, <3>6
    <3> QED  BY <3>5, <3>6
  <2> QED  BY <2>1, <2>2
<1> QED  BY <1>1, <1>5 DEF Tight, FixedOf, CoveredBy

\* The bounds that one lookup leaves behind are right for the others.
LEMMA WithoutCovers ==
  ASSUME Typed, Tight, NEW l \in Lookup, NEW k \in Lookup \ Adjustable, k # l
  PROVE  CoveredBy(k, thresholds, WithoutLookup(l))
<1> SUFFICES ASSUME thresholds[k] # None
             PROVE  Covers(WithoutLookup(l)[name[k]], thresholds[k])
  BY DEF CoveredBy
<1>1. /\ bounds \in [State -> Bounds] /\ thresholds \in [Lookup -> Threshold \cup {None}]
      /\ active \subseteq Lookup /\ IsFiniteSet(active)
      /\ name \in [Lookup -> State \cup {Unknown}]
      /\ k \in active /\ name[k] \in State
  BY DEF Typed, TypeOK, Held
<1>2. Covers(bounds[name[k]], thresholds[k])
  BY DEF Tight, CoveredBy
<1>3. CASE name[k] # name[l]
  BY <1>1, <1>2, <1>3 DEF WithoutLookup
<1>4. CASE name[k] = name[l]
  <2> DEFINE s == name[l]
             left == Registered(s) \ {l}
             set == Having(left, thresholds)
  <2>1. left \subseteq Lookup /\ IsFiniteSet(left) /\ k \in left
    BY <1>1, <1>4, FS_Subset DEF Registered
  <2>2. s \in State /\ bounds[s] \in Bounds
    BY <1>1, <1>4
  <2>3. Covers(Surveyed(bounds[s], set), thresholds[k])
    BY <1>1, <2>1, <2>2, SurveyFacts
  <2>4. WithoutLookup(l) = [bounds EXCEPT ![s] = Unregistered(@, left, set)]
    BY <2>2, LookupAssumption DEF WithoutLookup
  <2>5. WithoutLookup(l)[s] = Unregistered(bounds[s], left, set)
    BY <1>1, <2>2, <2>4
  <2> HIDE DEF set, left
  <2>6. Unregistered(bounds[s], left, set) \in {Surveyed(bounds[s], set), bounds[s]}
    BY <2>1 DEF Unregistered
  <2> QED  BY <1>2, <1>4, <2>3, <2>5, <2>6
<1> QED  BY <1>3, <1>4

LEMMA StepTight ==
  ASSUME Typed, Tight, [Next]_vars
  PROVE  Tight'
<1>1. /\ active \subseteq Lookup /\ name \in [Lookup -> State \cup {Unknown}]
      /\ thresholds \in [Lookup -> Threshold \cup {None}] /\ bounds \in [State -> Bounds]
      /\ IsFiniteSet(active)
  BY DEF Typed, TypeOK
<1>2. CASE UNCHANGED vars
  BY <1>2 DEF vars, Tight, FixedOf, CoveredBy
<1>3. ASSUME NEW l \in Lookup, Activate(l)
      PROVE  Tight'
  <2>1. CASE name[l] # Unknown
    <3>1. PICK s, v, S : s \in State /\ Telling(s, v, S, thresholds, bounds)
      BY <1>3, <2>1, ActivateTells
    <3>2. PICK th, b : th = thresholds /\ b = bounds
      OBVIOUS
    <3>3. \A k \in Lookup \ Adjustable : FixedOf(k, th) /\ CoveredBy(k, th, b)
      BY <3>2 DEF Tight
    <3>4. Telling(s, v, S, th, b)
      BY <3>1, <3>2
    <3> QED  BY <3>3, <3>4, TellingTight
  <2>2. CASE name[l] = Unknown
    <3>1. UNCHANGED <<name, tolerance, thresholds, bounds>>
      BY <1>3, <2>2 DEF Activate
    <3> QED  BY <3>1 DEF Tight, FixedOf, CoveredBy
  <2> QED  BY <2>1, <2>2
<1>4. ASSUME NEW l \in Lookup, Deactivate(l)
      PROVE  Tight'
  <2>1. /\ UNCHANGED <<name, tolerance>> /\ bounds' = WithoutLookup(l)
        /\ thresholds' = Invalidated(l)
    BY <1>4 DEF Deactivate, Invalidated
  <2>2. ASSUME NEW k \in Lookup \ Adjustable, thresholds'[k] # None
        PROVE  /\ thresholds'[k].tolerance = tolerance[k]
               /\ Covers(bounds'[name[k]], thresholds'[k])
    <3>1. k # l /\ thresholds'[k] = thresholds[k]
      BY <2>1, <2>2, InvalidatedTyped
    <3>2. CoveredBy(k, thresholds, WithoutLookup(l))
      BY <3>1, WithoutCovers
    <3> QED  BY <2>1, <2>2, <3>1, <3>2 DEF Tight, FixedOf, CoveredBy
  <2> QED  BY <2>1, <2>2 DEF Tight, FixedOf, CoveredBy
<1>5. ASSUME NEW l \in Lookup, Rename(l)
      PROVE  Tight'
  <2>1. PICK s \in Names[l] \ {name[l]} : RenameTo(l, s)
    BY <1>5 DEF Rename
  <2>2. \A k \in Lookup : k # l => name'[k] = name[k]
    BY <1>1, <2>1 DEF RenameTo
  <2>3. CASE l \notin active
    <3>1. UNCHANGED <<tolerance, thresholds, bounds>>
      BY <2>1, <2>3 DEF RenameTo
    <3>2. \A k \in Lookup : thresholds[k] # None => k # l
      BY <2>3 DEF Typed, Held
    <3> QED  BY <2>2, <3>1, <3>2 DEF Tight, FixedOf, CoveredBy
  <2>4. ASSUME NEW k \in Lookup \ Adjustable
        PROVE  FixedOf(k, Invalidated(l)) /\ CoveredBy(k, Invalidated(l), WithoutLookup(l))
    <3>1. CASE k = l
      BY <3>1, InvalidatedTyped DEF FixedOf, CoveredBy
    <3>2. CASE k # l
      <4>1. Invalidated(l)[k] = thresholds[k]
        BY <1>5, <3>2, InvalidatedTyped
      <4>2. CoveredBy(k, thresholds, WithoutLookup(l))
        BY <3>2, WithoutCovers
      <4> QED  BY <4>1, <4>2 DEF Tight, FixedOf, CoveredBy
    <3> QED  BY <3>1, <3>2
  <2>5. CASE l \in active /\ s # Unknown
    <3>1. Register(l, s, WithoutLookup(l), Invalidated(l))
      BY <2>1, <2>5 DEF RenameTo
    <3>2. PICK v, S : Telling(s, v, S, Invalidated(l), WithoutLookup(l))
      BY <2>1, <2>5, <3>1, RenameTells DEF RenameTo
    <3>3. PICK th, b : th = Invalidated(l) /\ b = WithoutLookup(l)
      OBVIOUS
    <3>4. Telling(s, v, S, th, b)
      BY <3>2, <3>3
    <3>5. \A k \in Lookup \ Adjustable : FixedOf(k, th) /\ CoveredBy(k, th, b)
      BY <2>4, <3>3
    <3> QED  BY <3>4, <3>5, TellingTight
  <2>6. CASE l \in active /\ s = Unknown
    <3>1. thresholds' = Invalidated(l) /\ bounds' = WithoutLookup(l) /\ UNCHANGED tolerance
      BY <2>1, <2>6 DEF RenameTo
    <3>2. thresholds'[l] = None
      BY <1>1, <3>1, InvalidatedTyped
    <3> QED  BY <2>2, <2>4, <3>1, <3>2 DEF Tight, FixedOf, CoveredBy
  <2> QED  BY <2>3, <2>5, <2>6
<1>6. ASSUME NEW l \in Adjustable, Adjust(l)
      PROVE  Tight'
  <2>1. PICK tol, v, r :
          /\ tol \in Tolerances /\ v \in Value \cup {None}
          /\ Adjusts(l, tol, v, r)
    BY <1>6, AdjustFacts
  <2>2. /\ thresholds' \in [Lookup -> Threshold \cup {None}]
        /\ \A k \in Lookup : k # l => thresholds'[k] = thresholds[k]
    BY <1>1, <2>1 DEF AfterUpdate, Adjusts
  <2>3. ASSUME NEW k \in Lookup \ Adjustable, thresholds'[k] # None
        PROVE  /\ thresholds'[k].tolerance = tolerance'[k]
               /\ Covers(bounds'[name[k]], thresholds'[k])
    <3>1. k # l /\ thresholds'[k] = thresholds[k]
      BY <1>6, <2>2
    <3>2. tolerance'[k] = tolerance[k]
      BY <2>1, <3>1 DEF Typed, TypeOK, Adjusts
    <3>3. thresholds[k].tolerance = tolerance[k] /\ Covers(bounds[name[k]], thresholds[k])
      BY <2>3, <3>1 DEF Tight, FixedOf, CoveredBy
    <3>4. k \in active /\ name[k] \in State
      BY <1>1, <2>3, <3>1 DEF Typed, Held
    <3>5. CASE bounds' = bounds \/ name[k] # name[l]
      <4>1. bounds'[name[k]] = bounds[name[k]]
        BY <1>1, <2>1, <3>4, <3>5 DEF Adjusts
      <4> QED  BY <3>1, <3>2, <3>3, <4>1
    <3>6. CASE bounds' # bounds /\ name[k] = name[l]
      <4> DEFINE R == Registered(name[l])
      <4>1. R \subseteq Lookup /\ IsFiniteSet(R) /\ k \in R
        BY <1>1, <3>4, <3>6, FS_Subset DEF Registered
      <4>2. bounds[name[k]] \in Bounds
        BY <1>1, <3>4
      <4>3. Covers(Surveyed(bounds[name[k]], Having(R, thresholds')), thresholds'[k])
        BY <2>2, <2>3, <4>1, <4>2, SurveyFacts
      <4> HIDE DEF R
      <4>4. bounds'[name[k]] = Surveyed(bounds[name[k]], Having(R, thresholds'))
        BY <1>1, <2>1, <3>4, <3>6 DEF R, Adjusts
      <4> QED  BY <3>1, <3>2, <3>3, <4>3, <4>4
    <3> QED  BY <3>5, <3>6
  <2> QED  BY <2>1, <2>3 DEF Tight, FixedOf, CoveredBy, Adjusts
<1>7. ASSUME NEW s \in State, Change(s)
      PROVE  Tight'
  BY <1>7 DEF Change, Tight, FixedOf, CoveredBy
<1>8. ASSUME Deliver
      PROVE  Tight'
  <2>1. PICK s, v, S : s \in State /\ v \in Value /\ Telling(s, v, S, thresholds, bounds)
    BY <1>8, DeliverTells
  <2>2. PICK th, b : th = thresholds /\ b = bounds
    OBVIOUS
  <2>3. \A k \in Lookup \ Adjustable : FixedOf(k, th) /\ CoveredBy(k, th, b)
    BY <2>2 DEF Tight
  <2>4. Telling(s, v, S, th, b)
    BY <2>1, <2>2
  <2> QED  BY <2>3, <2>4, TellingTight
<1>9. ASSUME NewCycle
      PROVE  Tight'
  BY <1>9 DEF NewCycle, Tight, FixedOf, CoveredBy
<1> QED
  BY <1>2, <1>3, <1>4, <1>5, <1>6, <1>7, <1>8, <1>9 DEF Next

\* Values of either kind: while the value of a state is known, whatever it has been before
\* and whatever lookups come, go, change their states and tolerances, none of its values
\* that a lookup of fixed tolerance would pass on lies strictly within the bounds that the
\* interface has been told.
THEOREM BoundsTight == Spec => []BoundsAreTight
<1> DEFINE Inv == Tight /\ Follows /\ (Kind = "real" => Fits)
<1>1. Init => Inv
  BY DEF Init, Tight, FixedOf, CoveredBy, Follows, Fits, FitsOf
<1>2. Typed /\ Inv /\ [Next]_vars => Inv'
  BY StepTight, StepFollows, StepFits
<1>3. Typed /\ Inv => BoundsAreTight
  BY TightMeans
<1> QED  BY <1>1, <1>2, <1>3, LookupTypes, PTL DEF Spec

-----------------------------------------------------------------------------
(* What a lookup shows *)

\* Of the reports on a state the last is right, ...
About(s) == {i \in 1..Len(reports) : reports[i].state = s}

ReportsAreTrue ==
  \A i \in 1..Len(reports) :
    (\A j \in 1..Len(reports) : j > i => reports[j].state # reports[i].state)
    => reports[i].value = actual[reports[i].state]

\* ... and when there is none the entry is, if somebody needs it.
EntriesAreTrue ==
  \A s \in State : About(s) = {} =>
    /\ entry[s] \in {actual[s], None}
    /\ entry[s] = None /\ Registered(s) # {} => actual[s] = Unknown

LEMMA TellingEntries ==
  ASSUME Typed, EntriesAreTrue, NEW s, NEW v, NEW S, NEW th, NEW b, Telling(s, v, S, th, b),
         actual' = actual,
         \A x \in State : x # s /\ About(x)' = {} => About(x) = {},
         About(s)' = {} => v \in {actual[s], None} /\ (v = None => actual[s] = Unknown)
  PROVE  EntriesAreTrue'
<1>1. /\ s \in State /\ S \subseteq Registered(s)' /\ active' \subseteq Lookup
      /\ entry' = [entry EXCEPT ![s] = v] /\ entry \in [State -> Value \cup {None}]
      /\ \A k \in Lookup : k \in S \/ ((k \in active' <=> k \in active) /\ name'[k] = name[k])
  BY DEF Telling, Typed, TypeOK
<1>2. ASSUME NEW x \in State, x # s
      PROVE  Registered(x)' \subseteq Registered(x) /\ entry'[x] = entry[x]
  BY <1>1, <1>2 DEF Registered
<1>3. entry'[s] = v
  BY <1>1
<1> SUFFICES ASSUME NEW x \in State, About(x)' = {}
             PROVE  /\ entry'[x] \in {actual'[x], None}
                    /\ entry'[x] = None /\ Registered(x)' # {} => actual'[x] = Unknown
  BY DEF EntriesAreTrue
<1>4. CASE x = s
  BY <1>3, <1>4
<1>5. CASE x # s
  <2>1. About(x) = {}
    BY <1>5
  <2> QED  BY <1>2, <1>5, <2>1 DEF EntriesAreTrue
<1> QED  BY <1>4, <1>5

\* A value that is looked up is the actual one, or that of this cycle.
LEMMA LookedUpEntries ==
  ASSUME Typed, EntriesAreTrue, NEW s \in State, NEW v, About(s) = {},
         fresh[s] => v = entry[s],
         ~fresh[s] => v = actual[s] \/ (v = None /\ actual[s] = Unknown /\ entry[s] = None)
  PROVE  v \in {actual[s], None} /\ (v = None => actual[s] = Unknown)
<1>1. actual[s] \in Value /\ None \notin Value /\ fresh[s] \in BOOLEAN
  BY ValueAssumption DEF Typed, TypeOK, Value
<1>2. CASE fresh[s]
  <2>1. entry[s] # None
    BY <1>2 DEF Typed, Entered
  <2> QED  BY <1>1, <1>2, <2>1 DEF EntriesAreTrue
<1>3. CASE ~fresh[s]
  BY <1>1, <1>3
<1> QED  BY <1>2, <1>3

LEMMA StepEntries ==
  ASSUME Typed, ReportsAreTrue, EntriesAreTrue, [Next]_vars
  PROVE  EntriesAreTrue'
<1>1. /\ active \subseteq Lookup /\ name \in [Lookup -> State \cup {Unknown}]
      /\ actual \in [State -> Value] /\ None \notin Value
  BY ValueAssumption DEF Typed, TypeOK, Value
<1>2. ASSUME UNCHANGED <<actual, reports, entry>>,
             \A s \in State : Registered(s)' \subseteq Registered(s)
      PROVE  EntriesAreTrue'
  <2>1. \A s \in State : About(s)' = About(s)
    BY <1>2 DEF About
  <2> QED  BY <1>2, <2>1 DEF EntriesAreTrue
<1>3. CASE UNCHANGED vars
  <2>1. UNCHANGED <<actual, reports, entry>> /\ \A s \in State : Registered(s)' = Registered(s)
    BY <1>3 DEF vars, Registered
  <2> QED  BY <1>2, <2>1
<1>4. ASSUME NEW l \in Lookup, Activate(l)
      PROVE  EntriesAreTrue'
  <2>1. UNCHANGED <<actual, reports, name>> /\ active' = active \cup {l}
    BY <1>4 DEF Activate
  <2>2. CASE name[l] # Unknown
    <3>1. PICK s, v, S :
            /\ s \in State
            /\ Telling(s, v, S, thresholds, bounds)
            /\ fresh[s] => v = entry[s]
            /\ ~fresh[s] => \/ v = actual[s]
                            \/ v = None /\ actual[s] = Unknown /\ entry[s] = None
      BY <1>4, <2>2, ActivateTells
    <3>2. \A x \in State : About(x)' = About(x)
      BY <2>1 DEF About
    <3>3. About(s)' = {} => v \in {actual[s], None} /\ (v = None => actual[s] = Unknown)
      BY <3>1, <3>2, LookedUpEntries
    <3> QED  BY <2>1, <3>1, <3>2, <3>3, TellingEntries
  <2>3. CASE name[l] = Unknown
    <3>1. entry' = entry /\ \A s \in State : Registered(s)' = Registered(s)
      BY <1>4, <2>1, <2>3, LookupAssumption DEF Activate, Registered
    <3> QED  BY <1>2, <2>1, <3>1
  <2> QED  BY <2>2, <2>3
<1>5. ASSUME NEW l \in Lookup, Deactivate(l)
      PROVE  EntriesAreTrue'
  <2>1. /\ UNCHANGED <<actual, reports, entry>>
        /\ \A s \in State : Registered(s)' \subseteq Registered(s)
    BY <1>5 DEF Deactivate, Registered
  <2> QED  BY <1>2, <2>1
<1>6. ASSUME NEW l \in Lookup, Rename(l)
      PROVE  EntriesAreTrue'
  <2>1. PICK s \in Names[l] \ {name[l]} : RenameTo(l, s)
    BY <1>6 DEF Rename
  <2>2. name'[l] = s /\ \A k \in Lookup : k # l => name'[k] = name[k]
    BY <1>1, <2>1 DEF RenameTo
  <2>3. CASE l \in active /\ s # Unknown
    <3>1. Register(l, s, WithoutLookup(l), Invalidated(l)) /\ s \in State
      BY <2>1, <2>3, LookupAssumption DEF RenameTo
    <3>2. PICK v, S :
            /\ Telling(s, v, S, Invalidated(l), WithoutLookup(l))
            /\ fresh[s] => v = entry[s]
            /\ ~fresh[s] => \/ v = actual[s]
                            \/ v = None /\ actual[s] = Unknown /\ entry[s] = None
      BY <2>1, <2>3, <3>1, RenameTells DEF RenameTo
    <3>3. PICK th, b : th = Invalidated(l) /\ b = WithoutLookup(l)
      OBVIOUS
    <3>4. Telling(s, v, S, th, b)
      BY <3>2, <3>3
    <3>5. \A x \in State : About(x)' = About(x)
      BY <2>1 DEF About, RenameTo
    <3>6. About(s)' = {} => v \in {actual[s], None} /\ (v = None => actual[s] = Unknown)
      BY <3>1, <3>2, <3>5, LookedUpEntries
    <3> QED  BY <2>1, <3>4, <3>5, <3>6, TellingEntries DEF RenameTo
  <2>4. CASE l \notin active \/ s = Unknown
    <3>1. entry' = entry
      BY <2>1, <2>4 DEF RenameTo
    <3>2. \A x \in State : Registered(x)' \subseteq Registered(x)
      BY <1>1, <2>1, <2>2, <2>4, LookupAssumption DEF Registered, RenameTo
    <3> QED  BY <1>2, <2>1, <3>1, <3>2 DEF RenameTo
  <2> QED  BY <2>3, <2>4
<1>7. ASSUME NEW l \in Adjustable, Adjust(l)
      PROVE  EntriesAreTrue'
  <2>1. UNCHANGED <<actual, reports, entry, active, name>>
    BY <1>7 DEF Adjust
  <2>2. \A s \in State : Registered(s)' = Registered(s)
    BY <2>1 DEF Registered
  <2> QED  BY <1>2, <2>1, <2>2
<1>8. ASSUME NEW s \in State, Change(s)
      PROVE  EntriesAreTrue'
  <2> DEFINE Report == [state : State, value : Value]
  <2>1. PICK v \in Value :
          /\ actual' = [actual EXCEPT ![s] = v]
          /\ reports' = Append(reports, [state |-> s, value |-> v])
    BY <1>8 DEF Change
  <2>2. UNCHANGED <<entry, active, name>>
    BY <1>8 DEF Change
  <2>3. reports \in Seq(Report) /\ [state |-> s, value |-> v] \in Report
    BY DEF Typed, TypeOK
  <2>4. ASSUME NEW x \in State, About(x)' = {}
        PROVE  x # s /\ About(x) = {}
    <3> HIDE DEF Report
    <3>1. /\ Len(reports') = Len(reports) + 1 /\ Len(reports) \in Nat
          /\ \A i \in 1..Len(reports) : reports'[i] = reports[i]
          /\ reports'[Len(reports) + 1] = [state |-> s, value |-> v]
      BY <2>1, <2>3
    <3> QED  BY <2>4, <3>1 DEF About
  <2>5. \A x \in State : Registered(x)' = Registered(x)
    BY <2>2 DEF Registered
  <2>6. \A x \in State : x # s => actual'[x] = actual[x]
    BY <1>1, <2>1
  <2> QED  BY <2>2, <2>4, <2>5, <2>6 DEF EntriesAreTrue
<1>9. ASSUME Deliver
      PROVE  EntriesAreTrue'
  <2> DEFINE Report == [state : State, value : Value]
  <2>1. PICK s, v, S :
          /\ s \in State /\ v \in Value
          /\ Telling(s, v, S, thresholds, bounds)
          /\ s = Head(reports).state /\ v = Head(reports).value
    BY <1>9, DeliverTells
  <2>2. /\ reports \in Seq(Report) /\ reports # <<>>
        /\ reports' = Tail(reports) /\ actual' = actual
    BY <1>9 DEF Typed, TypeOK, Deliver
  <2>3. /\ Len(reports) \in Nat \ {0} /\ Len(reports') = Len(reports) - 1
        /\ \A i \in 1..Len(reports') : reports'[i] = reports[i + 1]
        /\ Head(reports) = reports[1]
    <3> HIDE DEF Report
    <3> QED  BY <2>2
  <2>4. \A i \in 2..Len(reports) : i - 1 \in 1..Len(reports') /\ reports'[i - 1] = reports[i]
    BY <2>3
  <2>5. ASSUME NEW x \in State, x # s, About(x)' = {}
        PROVE  About(x) = {}
    <3>1. \A i \in 2..Len(reports) : reports[i].state # x
      BY <2>4, <2>5 DEF About
    <3>2. reports[1].state # x
      BY <2>1, <2>3, <2>5
    <3> QED  BY <2>3, <3>1, <3>2 DEF About
  <2>6. ASSUME About(s)' = {}
        PROVE  v = actual[s]
    <3>1. \A i \in 2..Len(reports) : reports[i].state # s
      BY <2>4, <2>6 DEF About
    <3> QED  BY <2>1, <2>3, <3>1 DEF ReportsAreTrue
  <2> QED  BY <1>1, <2>1, <2>2, <2>5, <2>6, TellingEntries
<1>10. ASSUME NewCycle
       PROVE  EntriesAreTrue'
  <2>1. UNCHANGED <<actual, reports, entry, active, name>>
    BY <1>10 DEF NewCycle
  <2>2. \A s \in State : Registered(s)' = Registered(s)
    BY <2>1 DEF Registered
  <2> QED  BY <1>2, <2>1, <2>2
<1> QED
  BY <1>3, <1>4, <1>5, <1>6, <1>7, <1>8, <1>9, <1>10 DEF Next

LEMMA StepReports ==
  ASSUME Typed, ReportsAreTrue, [Next]_vars
  PROVE  ReportsAreTrue'
<1> DEFINE Report == [state : State, value : Value]
<1>1. /\ actual \in [State -> Value] /\ reports \in Seq(Report)
      /\ \A i \in 1..Len(reports) : reports[i].state \in State
  <2>1. actual \in [State -> Value] /\ reports \in Seq(Report)
    BY DEF Typed, TypeOK
  <2>2. \A i \in 1..Len(reports) : reports[i] \in Report
    <3> HIDE DEF Report
    <3> QED  BY <2>1
  <2> QED  BY <2>1, <2>2
<1>2. CASE UNCHANGED <<actual, reports>>
  BY <1>2 DEF ReportsAreTrue
<1>3. ASSUME NEW s \in State, Change(s)
      PROVE  ReportsAreTrue'
  <2>1. PICK v \in Value :
          /\ actual' = [actual EXCEPT ![s] = v]
          /\ reports' = Append(reports, [state |-> s, value |-> v])
    BY <1>3 DEF Change
  <2> DEFINE last == [state |-> s, value |-> v]
             n == Len(reports)
  <2>2. last \in Report /\ last.state = s /\ last.value = v
    OBVIOUS
  <2>3. /\ Len(reports') = n + 1 /\ n \in Nat
        /\ \A i \in 1..n : reports'[i] = reports[i]
        /\ reports'[n + 1] = last
    <3> HIDE DEF Report, last
    <3> QED  BY <1>1, <2>1, <2>2 DEF last
  <2> HIDE DEF last, n
  <2>4. ASSUME NEW i \in 1..Len(reports'),
               \A j \in 1..Len(reports') : j > i => reports'[j].state # reports'[i].state
        PROVE  reports'[i].value = actual'[reports'[i].state]
    <3>1. CASE i = n + 1
      BY <1>1, <2>1, <2>2, <2>3, <3>1
    <3>2. CASE i # n + 1
      <4>1. i \in 1..n /\ n + 1 \in 1..Len(reports') /\ n + 1 > i
        BY <2>3, <3>2
      <4>2. reports'[i] = reports[i] /\ reports[i].state # s
        BY <2>2, <2>3, <2>4, <4>1
      <4>3. \A j \in 1..n : j > i => reports[j].state # reports[i].state
        BY <2>3, <2>4, <4>1, <4>2
      <4>4. reports[i].value = actual[reports[i].state]
        BY <4>1, <4>3 DEF ReportsAreTrue, n
      <4>5. reports[i].state \in State
        BY <1>1, <4>1 DEF n
      <4> QED  BY <1>1, <2>1, <4>2, <4>4, <4>5
    <3> QED  BY <3>1, <3>2
  <2> QED  BY <2>4 DEF ReportsAreTrue
<1>4. CASE Deliver
  <2>1. reports # <<>> /\ reports' = Tail(reports) /\ actual' = actual
    BY <1>4 DEF Deliver
  <2>2. /\ Len(reports) \in Nat \ {0} /\ Len(reports') = Len(reports) - 1
        /\ \A i \in 1..Len(reports') : reports'[i] = reports[i + 1]
    <3> HIDE DEF Report
    <3> QED  BY <1>1, <2>1
  <2>3. ASSUME NEW i \in 1..Len(reports'),
               \A j \in 1..Len(reports') : j > i => reports'[j].state # reports'[i].state
        PROVE  reports'[i].value = actual'[reports'[i].state]
    <3>1. i + 1 \in 1..Len(reports) /\ reports'[i] = reports[i + 1]
      BY <2>2
    <3>2. ASSUME NEW j \in 1..Len(reports), j > i + 1
          PROVE  reports[j].state # reports[i + 1].state
      <4>1. j - 1 \in 1..Len(reports') /\ j - 1 > i /\ reports'[j - 1] = reports[j]
        BY <2>2, <3>2
      <4> QED  BY <2>3, <3>1, <4>1
    <3>3. reports[i + 1].value = actual[reports[i + 1].state]
      BY <3>1, <3>2 DEF ReportsAreTrue
    <3> QED  BY <2>1, <3>1, <3>3
  <2> QED  BY <2>3 DEF ReportsAreTrue
<1> QED
  BY <1>2, <1>3, <1>4 DEF Next, vars, Activate, Deactivate, Rename, RenameTo, Adjust, NewCycle

LEMMA FitsMeans ==
  ASSUME Typed, Fits, EntriesAreTrue
  PROVE  InTolerance
<1> SUFFICES ASSUME reports = <<>>, NEW l \in active, name[l] # Unknown
             PROVE  LET v == actual[name[l]]
                        tol == IF Known(tolerance[l]) THEN tolerance[l] ELSE 0
                    IN IF Known(v) THEN Known(View(l)) /\ Close(View(l), v, tol)
                                   ELSE ~Known(View(l))
  BY DEF InTolerance
<1> DEFINE s == name[l]
           v == actual[s]
           t == thresholds[l]
<1>1. /\ l \in Lookup /\ s \in State /\ v \in Value /\ t \in Threshold \cup {None}
      /\ None \notin Value /\ ~Known(None) /\ ~Known(Unknown)
      /\ \A x \in Value : Known(x) \/ x = Unknown
  BY ValueAssumption DEF Typed, TypeOK, Value, Known
<1>2. /\ entry[s] \in {v, None}
      /\ entry[s] = None => v = Unknown
  <2>1. About(s) = {} /\ l \in Registered(s)
    BY DEF About, Registered
  <2> QED  BY <1>1, <2>1 DEF EntriesAreTrue
<1>3. CASE t = None
  <2>1. View(l) = entry[s]
    BY <1>3 DEF View
  <2> QED  BY <1>1, <1>2, <2>1 DEF Close
<1>4. CASE t # None
  <2>1. View(l) = t.value
    BY <1>4 DEF View
  <2>2. /\ Consistent(t) /\ (Known(t.value) => t.tolerance = tolerance[l])
        /\ Within(t, entry[s])
    BY <1>1, <1>4 DEF Fits, FitsOf
  <2>3. entry[s] # None /\ Known(tolerance[l])
    BY <1>1, <1>4 DEF Typed, Held
  <2>4. Within(t, v)
    BY <1>2, <2>2, <2>3
  <2>5. t.value \in Value /\ t.tolerance \in Nat
    BY <1>1, <1>4 DEF Threshold
  <2>6. CASE t.value = v
    BY <2>1, <2>6 DEF Close
  <2>7. CASE t.value # v
    <3>1. Known(v) /\ Known(t.value) /\ t.low < v /\ v < t.high
      BY <2>4, <2>7 DEF Within
    <3>2. t.low = t.value - tolerance[l] /\ t.high = t.value + tolerance[l]
          /\ tolerance[l] \in Nat
      BY <2>2, <2>5, <3>1 DEF Consistent
    <3>3. t.value < v + tolerance[l] /\ v < t.value + tolerance[l]
      BY <3>1, <3>2 DEF Known
    <3> QED  BY <2>1, <2>3, <3>1, <3>3 DEF Close
  <2> QED  BY <2>6, <2>7
<1> QED  BY <1>3, <1>4

\* Real values: when no change is on its way, every active lookup shows its state as it is
\* or within its tolerance, through any sequence of changes of values, tolerances and states.
THEOREM ViewsInTolerance ==
  ASSUME Kind = "real"
  PROVE  Spec => []InTolerance
<1> DEFINE Inv == Fits /\ ReportsAreTrue /\ EntriesAreTrue
<1>1. Init => Inv
  BY DEF Init, Fits, FitsOf, ReportsAreTrue, EntriesAreTrue, About, Registered
<1>2. Typed /\ Inv /\ [Next]_vars => Inv'
  BY StepFits, StepReports, StepEntries
<1>3. Typed /\ Inv => InTolerance
  BY FitsMeans
<1> QED  BY <1>1, <1>2, <1>3, LookupTypes, PTL DEF Spec

=============================================================================
