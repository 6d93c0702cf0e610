----------------------------- MODULE DataLemmas ------------------------------
(***************************************************************************)
(* Facts about the data the modules are built from.  What adding to a      *)
(* queue and removing from it does to its elements, for queues without     *)
(* repetition: the operations of LinkedQueue, and of the other queues.     *)
(* And the extrema of a finite set of numbers, of which the bounds and     *)
(* deadlines of the lookups are made.                                      *)
(***************************************************************************)
EXTENDS SequencesExt, Integers, SequenceTheorems, FiniteSetTheorems, WellFoundedInduction,
        TLAPS

\* A queue of elements of S holds nothing else.
LEMMA ElementFacts ==
  ASSUME NEW S, NEW q \in Seq(S)
  PROVE  ToSet(q) \subseteq S
BY DEF ToSet

\* An element put at the end of a queue is new in it, and nothing else is.
LEMMA AppendFacts ==
  ASSUME NEW S, NEW q \in Seq(S), NEW e \in S
  PROVE  /\ Append(q, e) \in Seq(S)
         /\ ToSet(Append(q, e)) = ToSet(q) \cup {e}
         /\ IsInjective(q) /\ e \notin ToSet(q) => IsInjective(Append(q, e))
<1>1. /\ Append(q, e) \in Seq(S)
      /\ Len(Append(q, e)) = Len(q) + 1
      /\ DOMAIN Append(q, e) = 1..Len(q) + 1
      /\ DOMAIN q = 1..Len(q) /\ Len(q) \in Nat
      /\ \A i \in 1..Len(q) : Append(q, e)[i] = q[i]
      /\ Append(q, e)[Len(q) + 1] = e
  OBVIOUS
<1>2. ToSet(Append(q, e)) = ToSet(q) \cup {e}
  BY <1>1, SMT DEF ToSet
<1>3. IsInjective(q) /\ e \notin ToSet(q) => IsInjective(Append(q, e))
  BY <1>1, SMT DEF ToSet, IsInjective
<1> QED  BY <1>1, <1>2, <1>3

\* Taking the head of a queue without repetition leaves the others.
LEMMA TailFacts ==
  ASSUME NEW S, NEW q \in Seq(S), q # <<>>
  PROVE  /\ Head(q) \in ToSet(q) /\ ToSet(q) \subseteq S /\ Tail(q) \in Seq(S)
         /\ ToSet(Tail(q)) \subseteq ToSet(q)
         /\ IsInjective(q) => /\ IsInjective(Tail(q))
                              /\ ToSet(Tail(q)) = ToSet(q) \ {Head(q)}
<1>1. /\ Tail(q) \in Seq(S)
      /\ Len(q) \in Nat /\ Len(q) > 0
      /\ DOMAIN q = 1..Len(q) /\ DOMAIN Tail(q) = 1..Len(q) - 1
      /\ \A i \in 1..Len(q) - 1 : Tail(q)[i] = q[i + 1]
      /\ Head(q) = q[1] /\ \A i \in 1..Len(q) : q[i] \in S
  OBVIOUS
<1>2. Head(q) \in ToSet(q) /\ ToSet(q) \subseteq S
  BY <1>1, SMT DEF ToSet
<1>3. ToSet(Tail(q)) \subseteq ToSet(q)
  BY <1>1, SMT DEF ToSet
<1>4. ASSUME IsInjective(q) PROVE IsInjective(Tail(q)) /\ ToSet(Tail(q)) = ToSet(q) \ {Head(q)}
  <2>1. \A i, j \in 1..Len(q) : q[i] = q[j] => i = j
    BY <1>4, <1>1 DEF IsInjective
  <2>2. IsInjective(Tail(q))
    BY <2>1, <1>1, SMT DEF IsInjective
  <2>3. Head(q) \notin ToSet(Tail(q))
    BY <2>1, <1>1, SMT DEF ToSet
  <2>4. ASSUME NEW x \in ToSet(q), x # Head(q) PROVE x \in ToSet(Tail(q))
    <3>1. PICK i \in 1..Len(q) : q[i] = x
      BY <1>1 DEF ToSet
    <3>2. i - 1 \in 1..Len(q) - 1 /\ Tail(q)[i - 1] = x
      BY <3>1, <2>4, <1>1, SMT
    <3> QED  BY <3>2, <1>1 DEF ToSet
  <2> QED  BY <2>2, <2>3, <2>4, <1>3
<1> QED  BY <1>1, <1>2, <1>3, <1>4

\* A queue put behind another one with other elements.
LEMMA ConcatFacts ==
  ASSUME NEW S, NEW q \in Seq(S), NEW p \in Seq(S)
  PROVE  /\ q \o p \in Seq(S)
         /\ ToSet(q \o p) = ToSet(q) \cup ToSet(p)
         /\ IsInjective(q) /\ IsInjective(p) /\ ToSet(q) \cap ToSet(p) = {}
              => IsInjective(q \o p)
<1>1. /\ q \o p \in Seq(S)
      /\ Len(q) \in Nat /\ Len(p) \in Nat
      /\ DOMAIN q = 1..Len(q) /\ DOMAIN p = 1..Len(p) /\ DOMAIN (q \o p) = 1..Len(q) + Len(p)
      /\ \A i \in 1..Len(q) + Len(p) : (q \o p)[i] = IF i <= Len(q) THEN q[i] ELSE p[i - Len(q)]
  OBVIOUS
<1>2. ToSet(q \o p) \subseteq ToSet(q) \cup ToSet(p)
  <2> SUFFICES ASSUME NEW i \in 1..Len(q) + Len(p) PROVE (q \o p)[i] \in ToSet(q) \cup ToSet(p)
    BY <1>1 DEF ToSet
  <2>1. CASE i <= Len(q)
    BY <2>1, <1>1, SMT DEF ToSet
  <2>2. CASE ~(i <= Len(q))
    <3>1. i - Len(q) \in 1..Len(p) /\ (q \o p)[i] = p[i - Len(q)]
      BY <2>2, <1>1, SMT
    <3> QED  BY <3>1, <1>1 DEF ToSet
  <2> QED  BY <2>1, <2>2
<1>3. ToSet(q) \subseteq ToSet(q \o p)
  BY <1>1, SMT DEF ToSet
<1>4. ToSet(p) \subseteq ToSet(q \o p)
  <2> SUFFICES ASSUME NEW i \in 1..Len(p) PROVE p[i] \in ToSet(q \o p)
    BY <1>1 DEF ToSet
  <2>1. i + Len(q) \in 1..Len(q) + Len(p) /\ (q \o p)[i + Len(q)] = p[i]
    BY <1>1, SMT
  <2> QED  BY <2>1, <1>1 DEF ToSet
<1>5. ASSUME IsInjective(q), IsInjective(p), ToSet(q) \cap ToSet(p) = {}
      PROVE  IsInjective(q \o p)
  <2>1. \A i \in 1..Len(q), j \in 1..Len(p) : q[i] # p[j]
    BY <1>5, <1>1 DEF ToSet
  <2>2. /\ \A i, j \in 1..Len(q) : q[i] = q[j] => i = j
        /\ \A i, j \in 1..Len(p) : p[i] = p[j] => i = j
    BY <1>5, <1>1 DEF IsInjective
  <2>3. ASSUME NEW i \in 1..Len(q) + Len(p), NEW j \in 1..Len(q) + Len(p),
               (q \o p)[i] = (q \o p)[j]
        PROVE  i = j
    BY <2>1, <2>2, <2>3, <1>1, SMT
  <2> QED  BY <2>3, <1>1 DEF IsInjective
<1> QED  BY <1>1, <1>2, <1>3, <1>4, <1>5

\* Where everything stands after an element is put into a queue.
LEMMA InsertPositions ==
  ASSUME NEW S, NEW q \in Seq(S), NEW e \in S, NEW i \in 1..Len(q) + 1
  PROVE  /\ InsertAt(q, i, e) \in Seq(S)
         /\ Len(InsertAt(q, i, e)) = Len(q) + 1
         /\ DOMAIN InsertAt(q, i, e) = 1..Len(q) + 1
         /\ \A j \in 1..Len(q) + 1 :
              InsertAt(q, i, e)[j] = IF j < i THEN q[j] ELSE IF j = i THEN e ELSE q[j - 1]
<1> DEFINE front == SubSeq(q, 1, i - 1)
           back == SubSeq(q, i, Len(q))
           new == InsertAt(q, i, e)
<1>1. /\ Len(q) \in Nat /\ i \in Int /\ 1 <= i /\ i <= Len(q) + 1
      /\ DOMAIN q = 1..Len(q) /\ \A j \in 1..Len(q) : q[j] \in S
  OBVIOUS
<1>2. /\ front \in Seq(S) /\ Len(front) = i - 1
      /\ \A j \in 1..i - 1 : front[j] = q[j]
  BY <1>1, SubSeqProperties, SMT
<1>3. /\ back \in Seq(S) /\ Len(back) = Len(q) - i + 1
      /\ \A j \in 1..Len(q) - i + 1 : back[j] = q[j + i - 1]
  BY <1>1, SubSeqProperties, SMT
<1> HIDE DEF front, back
<1>4. new = (front \o <<e>>) \o back
  BY DEF InsertAt, front, back
<1> HIDE DEF new
<1>5. /\ new \in Seq(S)
      /\ Len(new) = Len(q) + 1
      /\ DOMAIN new = 1..Len(q) + 1
      /\ \A j \in 1..Len(q) + 1 :
           new[j] = IF j < i THEN q[j] ELSE IF j = i THEN e ELSE q[j - 1]
  <2>1. /\ front \o <<e>> \in Seq(S) /\ Len(front \o <<e>>) = i
        /\ \A j \in 1..i - 1 : (front \o <<e>>)[j] = q[j]
        /\ (front \o <<e>>)[i] = e
    BY <1>1, <1>2, SMT
  <2> DEFINE upTo == front \o <<e>>
  <2> HIDE DEF upTo
  <2>0. /\ new \in Seq(S) /\ Len(new) = Len(upTo) + Len(back)
        /\ \A j \in 1..Len(upTo) + Len(back) :
             new[j] = IF j <= Len(upTo) THEN upTo[j] ELSE back[j - Len(upTo)]
    <3>1. new = upTo \o back /\ upTo \in Seq(S)
      BY <1>4, <2>1 DEF upTo
    <3> QED  BY <3>1, <1>3, ConcatProperties
  <2>2. Len(upTo) = i /\ upTo[i] = e /\ \A k \in 1..i - 1 : upTo[k] = q[k]
    BY <2>1 DEF upTo
  <2>3. new \in Seq(S) /\ Len(new) = Len(q) + 1
    BY <2>0, <2>2, <1>1, <1>3
  <2>4. ASSUME NEW j \in 1..Len(q) + 1
        PROVE  new[j] = IF j < i THEN q[j] ELSE IF j = i THEN e ELSE q[j - 1]
    <3>1. CASE j <= i
      BY <3>1, <2>2, <2>0, <1>1, <1>3
    <3>2. CASE ~(j <= i)
      <4>1. j - i \in 1..Len(q) - i + 1 /\ j - i + i - 1 = j - 1
        BY <3>2, <1>1
      <4>2. back[j - i] = q[j - 1]
        BY <4>1, <1>3
      <4> QED  BY <3>2, <4>2, <2>2, <2>0, <1>1, <1>3
    <3> QED  BY <3>1, <3>2
  <2> QED  BY <2>3, <2>4
<1> QED  BY <1>5 DEF new

\* An element put anywhere in a queue is new in it, and nothing else is.
LEMMA InsertFacts ==
  ASSUME NEW S, NEW q \in Seq(S), NEW e \in S, NEW i \in 1..Len(q) + 1
  PROVE  /\ InsertAt(q, i, e) \in Seq(S)
         /\ ToSet(InsertAt(q, i, e)) = ToSet(q) \cup {e}
         /\ IsInjective(q) /\ e \notin ToSet(q) => IsInjective(InsertAt(q, i, e))
<1> DEFINE new == InsertAt(q, i, e)
<1>1. /\ Len(q) \in Nat /\ i \in Int /\ 1 <= i /\ i <= Len(q) + 1
      /\ DOMAIN q = 1..Len(q) /\ \A j \in 1..Len(q) : q[j] \in S
  OBVIOUS
<1>2. /\ new \in Seq(S)
      /\ Len(new) = Len(q) + 1
      /\ DOMAIN new = 1..Len(q) + 1
      /\ \A j \in 1..Len(q) + 1 :
           new[j] = IF j < i THEN q[j] ELSE IF j = i THEN e ELSE q[j - 1]
  <2>1. new \in Seq(S) /\ Len(new) = Len(q) + 1 /\ DOMAIN new = 1..Len(q) + 1
    BY InsertPositions
  <2>2. ASSUME NEW j \in 1..Len(q) + 1
        PROVE  new[j] = IF j < i THEN q[j] ELSE IF j = i THEN e ELSE q[j - 1]
    BY InsertPositions
  <2> QED  BY <2>1, <2>2
<1> HIDE DEF new
<1>3. ToSet(new) \subseteq ToSet(q) \cup {e}
  BY <1>1, <1>2, SMT DEF ToSet
<1>4. e \in ToSet(new)
  BY <1>1, <1>2, SMT DEF ToSet
<1>5. ASSUME NEW j \in 1..Len(q) PROVE q[j] \in ToSet(new)
  <2>1. CASE j < i
    BY <2>1, <1>1, <1>2, SMT DEF ToSet
  <2>2. CASE ~(j < i)
    <3>1. j + 1 \in 1..Len(q) + 1 /\ new[j + 1] = q[j]
      BY <2>2, <1>1, <1>2, SMT
    <3> QED  BY <3>1, <1>2 DEF ToSet
  <2> QED  BY <2>1, <2>2
<1>6. ToSet(q) \subseteq ToSet(new)
  BY <1>5, <1>1 DEF ToSet
<1>7. ASSUME IsInjective(q), e \notin ToSet(q) PROVE IsInjective(new)
  <2>1. /\ \A j, k \in 1..Len(q) : q[j] = q[k] => j = k
        /\ \A j \in 1..Len(q) : q[j] # e
    BY <1>7, <1>1 DEF IsInjective, ToSet
  <2>2. ASSUME NEW j \in 1..Len(q) + 1, NEW k \in 1..Len(q) + 1, new[j] = new[k] PROVE j = k
    BY <2>1, <2>2, <1>1, <1>2, SMT
  <2> QED  BY <2>2, <1>2 DEF IsInjective
<1> QED  BY <1>2, <1>3, <1>4, <1>6, <1>7 DEF new

\* Where everything stands after an entry is taken out of a queue.
LEMMA RemovePositions ==
  ASSUME NEW S, NEW q \in Seq(S), NEW i \in DOMAIN q
  PROVE  /\ RemoveAt(q, i) \in Seq(S)
         /\ Len(RemoveAt(q, i)) = Len(q) - 1
         /\ DOMAIN RemoveAt(q, i) = 1..Len(q) - 1
         /\ \A j \in 1..Len(q) - 1 : RemoveAt(q, i)[j] = IF j < i THEN q[j] ELSE q[j + 1]
<1> DEFINE front == SubSeq(q, 1, i - 1)
           back == SubSeq(q, i + 1, Len(q))
           new == RemoveAt(q, i)
<1>1. /\ Len(q) \in Nat /\ i \in Int /\ 1 <= i /\ i <= Len(q)
      /\ DOMAIN q = 1..Len(q) /\ \A j \in 1..Len(q) : q[j] \in S
  OBVIOUS
<1>2. /\ front \in Seq(S) /\ Len(front) = i - 1
      /\ \A j \in 1..i - 1 : front[j] = q[j]
  BY <1>1, SubSeqProperties, SMT
<1>3. /\ back \in Seq(S) /\ Len(back) = Len(q) - i
      /\ \A j \in 1..Len(q) - i : back[j] = q[j + i]
  BY <1>1, SubSeqProperties, SMT
<1> HIDE DEF front, back
<1>4. new = front \o back
  BY DEF RemoveAt, front, back
<1> HIDE DEF new
<1>5. /\ new \in Seq(S)
      /\ Len(new) = Len(q) - 1
      /\ DOMAIN new = 1..Len(q) - 1
      /\ \A j \in 1..Len(q) - 1 : new[j] = IF j < i THEN q[j] ELSE q[j + 1]
  <2>0. /\ new \in Seq(S) /\ Len(new) = Len(front) + Len(back)
        /\ \A j \in 1..Len(front) + Len(back) :
             new[j] = IF j <= Len(front) THEN front[j] ELSE back[j - Len(front)]
    BY <1>2, <1>3, <1>4, ConcatProperties
  <2>1. new \in Seq(S) /\ Len(new) = Len(q) - 1
    BY <2>0, <1>1, <1>2, <1>3
  <2>2. ASSUME NEW j \in 1..Len(q) - 1 PROVE new[j] = IF j < i THEN q[j] ELSE q[j + 1]
    <3>1. CASE j < i
      BY <3>1, <2>0, <1>1, <1>2, <1>3
    <3>2. CASE ~(j < i)
      <4>1. j - (i - 1) \in 1..Len(q) - i /\ j - (i - 1) + i = j + 1
        BY <3>2, <1>1
      <4>2. back[j - (i - 1)] = q[j + 1]
        BY <4>1, <1>3
      <4>3. ~(j <= Len(front)) /\ j - Len(front) = j - (i - 1) /\ ~(j <= i - 1)
            /\ j \in 1..Len(front) + Len(back)
        BY <3>2, <1>1, <1>2, <1>3
      <4>4. new[j] = back[j - (i - 1)]
        BY <2>0, <4>3
      <4> QED  BY <3>2, <4>2, <4>4
    <3> QED  BY <3>1, <3>2
  <2> QED  BY <2>1, <2>2
<1> QED  BY <1>5 DEF new

\* Removing one entry of a queue without repetition removes that element; what
\* stood in front of it stays.
LEMMA RemoveFacts ==
  ASSUME NEW S, NEW q \in Seq(S), NEW i \in DOMAIN q
  PROVE  /\ RemoveAt(q, i) \in Seq(S)
         /\ IsInjective(q) => /\ IsInjective(RemoveAt(q, i))
                              /\ ToSet(RemoveAt(q, i)) = ToSet(q) \ {q[i]}
<1> DEFINE new == RemoveAt(q, i)
<1>1. /\ Len(q) \in Nat /\ i \in Int /\ 1 <= i /\ i <= Len(q)
      /\ DOMAIN q = 1..Len(q) /\ \A j \in 1..Len(q) : q[j] \in S
  OBVIOUS
<1>2. /\ new \in Seq(S)
      /\ Len(new) = Len(q) - 1
      /\ DOMAIN new = 1..Len(q) - 1
      /\ \A j \in 1..Len(q) - 1 : new[j] = IF j < i THEN q[j] ELSE q[j + 1]
  BY RemovePositions
<1> HIDE DEF new
<1>3. ASSUME IsInjective(q) PROVE IsInjective(new) /\ ToSet(new) = ToSet(q) \ {q[i]}
  <2>1. \A j, k \in 1..Len(q) : q[j] = q[k] => j = k
    BY <1>3, <1>1 DEF IsInjective
  <2>2. ASSUME NEW j \in 1..Len(q) - 1, NEW k \in 1..Len(q) - 1, new[j] = new[k] PROVE j = k
    BY <2>1, <2>2, <1>1, <1>2, SMT
  <2>3. ASSUME NEW j \in 1..Len(q) - 1 PROVE new[j] \in ToSet(q) \ {q[i]}
    BY <2>1, <1>1, <1>2, SMT DEF ToSet
  <2>4. ASSUME NEW j \in 1..Len(q), j # i PROVE q[j] \in ToSet(new)
    <3>1. CASE j < i
      <4>1. j \in 1..Len(q) - 1 /\ new[j] = q[j]
        BY <3>1, <1>1, <1>2, SMT
      <4> QED  BY <4>1, <1>2 DEF ToSet
    <3>2. CASE j > i
      <4>1. j - 1 \in 1..Len(q) - 1 /\ new[j - 1] = q[j]
        BY <3>2, <1>1, <1>2, SMT
      <4> QED  BY <4>1, <1>2 DEF ToSet
    <3> QED  BY <3>1, <3>2, <2>4, <1>1, SMT
  <2>5. ToSet(new) \subseteq ToSet(q) \ {q[i]}
    BY <2>3, <1>2 DEF ToSet
  <2>6. ToSet(q) \ {q[i]} \subseteq ToSet(new)
    BY <2>4, <1>1 DEF ToSet
  <2> QED  BY <2>2, <2>5, <2>6, <1>2 DEF IsInjective
<1> QED  BY <1>2, <1>3 DEF new

\* The entry a stands somewhere in front of the entry b.
Precedes(q, a, b) == \E i, j \in DOMAIN q : i < j /\ q[i] = a /\ q[j] = b

\* What is put into a queue leaves the order of the others.
LEMMA InsertOrder ==
  ASSUME NEW S, NEW q \in Seq(S), NEW e \in S, NEW i \in 1..Len(q) + 1, NEW a, NEW b,
         Precedes(InsertAt(q, i, e), a, b)
  PROVE  \/ Precedes(q, a, b)
         \/ a = e /\ \E k \in i..Len(q) : q[k] = b
         \/ b = e /\ \E k \in 1..i - 1 : q[k] = a
<1> DEFINE new == InsertAt(q, i, e)
<1>1. /\ Len(q) \in Nat /\ i \in Int /\ 1 <= i /\ i <= Len(q) + 1
      /\ DOMAIN q = 1..Len(q) /\ DOMAIN new = 1..Len(q) + 1
      /\ \A j \in 1..Len(q) + 1 :
           new[j] = IF j < i THEN q[j] ELSE IF j = i THEN e ELSE q[j - 1]
  BY InsertPositions
<1>2. PICK j, k \in DOMAIN new : j < k /\ new[j] = a /\ new[k] = b
  BY DEF Precedes
<1> HIDE DEF new
<1>3. CASE j = i
  <2>1. k - 1 \in i..Len(q) /\ new[k] = q[k - 1] /\ new[j] = e
    BY <1>1, <1>2, <1>3
  <2> QED  BY <1>2, <2>1
<1>4. CASE k = i
  <2>1. j \in 1..i - 1 /\ new[j] = q[j] /\ new[k] = e
    BY <1>1, <1>2, <1>4
  <2> QED  BY <1>2, <2>1
<1>5. CASE j # i /\ k # i
  <2> DEFINE at(x) == IF x < i THEN x ELSE x - 1
  <2>1. /\ at(j) \in DOMAIN q /\ at(k) \in DOMAIN q /\ at(j) < at(k)
        /\ new[j] = q[at(j)] /\ new[k] = q[at(k)]
    BY <1>1, <1>2, <1>5
  <2> HIDE DEF at
  <2> QED  BY <1>2, <2>1 DEF Precedes
<1> QED  BY <1>3, <1>4, <1>5

\* So does what is taken out of it.
LEMMA RemoveOrder ==
  ASSUME NEW S, NEW q \in Seq(S), NEW i \in DOMAIN q, NEW a, NEW b,
         Precedes(RemoveAt(q, i), a, b)
  PROVE  Precedes(q, a, b)
<1> DEFINE new == RemoveAt(q, i)
           at(x) == IF x < i THEN x ELSE x + 1
<1>1. /\ Len(q) \in Nat /\ i \in Int /\ 1 <= i /\ i <= Len(q)
      /\ DOMAIN q = 1..Len(q) /\ DOMAIN new = 1..Len(q) - 1
      /\ \A j \in 1..Len(q) - 1 : new[j] = IF j < i THEN q[j] ELSE q[j + 1]
  BY RemovePositions
<1>2. PICK j, k \in DOMAIN new : j < k /\ new[j] = a /\ new[k] = b
  BY DEF Precedes
<1> HIDE DEF new
<1>3. /\ at(j) \in DOMAIN q /\ at(k) \in DOMAIN q /\ at(j) < at(k)
      /\ new[j] = q[at(j)] /\ new[k] = q[at(k)]
  BY <1>1, <1>2
<1> HIDE DEF at
<1> QED  BY <1>2, <1>3 DEF Precedes

\* A set of numbers has a least one.
LEMMA LeastNatural ==
  ASSUME NEW T \in SUBSET Nat, T # {}
  PROVE  \E x \in T : \A y \in T : x <= y
<1>1. IsWellFoundedOn(OpToRel(<, Nat), Nat)
  BY NatLessThanWellFounded
<1>2. PICK x \in T : \A y \in T : ~(<<y, x>> \in OpToRel(<, Nat))
  BY <1>1, WFMin
<1>3. \A y \in T : ~(y < x)
  BY <1>2 DEF OpToRel
<1> QED  BY <1>3

LEMMA LeastFacts ==
  ASSUME NEW T \in SUBSET Nat, T # {}
  PROVE  Min(T) \in T /\ \A y \in T : Min(T) <= y
BY LeastNatural DEF Min

\* Some element of a finite set is mapped to the least value.
LEMMA SmallestOf ==
  ASSUME NEW I, IsFiniteSet(I), I # {}, NEW f \in [I -> Int]
  PROVE  \E m \in I : \A i \in I : f[m] <= f[i]
<1>1. PICK n \in Nat : ExistsSurjection(1..n, I)
  BY FS_NatSurjection
<1>2. PICK s \in Surjection(1..n, I) : TRUE
  BY <1>1 DEF ExistsSurjection
<1>3. s \in [1..n -> I] /\ \A i \in I : \E k \in 1..n : s[k] = i
  BY <1>2 DEF Surjection
<1> DEFINE T == {k \in 1..n : ~\E m \in I : \A j \in 1..k : f[m] <= f[s[j]]}
<1>4. T = {}
  <2>1. SUFFICES ASSUME T # {} PROVE FALSE
    OBVIOUS
  <2>2. PICK k \in T : \A j \in T : k <= j
    <3>1. T \in SUBSET Nat
      OBVIOUS
    <3> HIDE DEF T
    <3> QED  BY <2>1, <3>1, LeastNatural
  <2>3. k \in 1..n /\ ~\E m \in I : \A j \in 1..k : f[m] <= f[s[j]]
    OBVIOUS
  <2>4. s[k] \in I /\ f[s[k]] \in Int
    BY <1>3, <2>3
  <2>5. CASE k = 1
    <3>1. \A j \in 1..k : f[s[k]] <= f[s[j]]
      BY <2>4, <2>5
    <3> QED  BY <2>3, <2>4, <3>1
  <2>6. CASE k > 1
    <3>1. k - 1 \in 1..n /\ k - 1 \notin T
      <4>1. k - 1 \in 1..n
        BY <2>3, <2>6
      <4>2. ~(k <= k - 1)
        BY <2>3
      <4> HIDE DEF T
      <4> QED  BY <2>2, <4>1, <4>2
    <3>2. PICK m \in I : \A j \in 1..k - 1 : f[m] <= f[s[j]]
      BY <3>1
    <3>3. \A j \in 1..k : j \in 1..k - 1 \/ j = k
      BY <2>3
    <3>4. f[m] \in Int /\ \A j \in 1..k : s[j] \in I /\ f[s[j]] \in Int
      BY <1>3, <2>3
    <3>5. CASE f[m] <= f[s[k]]
      BY <2>3, <3>2, <3>3, <3>5
    <3>6. CASE f[s[k]] <= f[m]
      <4>1. \A j \in 1..k - 1 : f[s[k]] <= f[s[j]]
        BY <2>4, <3>2, <3>4, <3>6
      <4>2. \A j \in 1..k : f[s[k]] <= f[s[j]]
        BY <2>4, <3>3, <4>1
      <4> QED  BY <2>3, <2>4, <4>2
    <3> QED  BY <2>4, <3>4, <3>5, <3>6
  <2> QED  BY <2>3, <2>5, <2>6
<1>5. n \in 1..n
  BY <1>3
<1>6. PICK m \in I : \A j \in 1..n : f[m] <= f[s[j]]
  BY <1>4, <1>5
<1> QED  BY <1>3, <1>6

\* And some element to the greatest.
LEMMA GreatestOf ==
  ASSUME NEW I, IsFiniteSet(I), I # {}, NEW f \in [I -> Int]
  PROVE  \E m \in I : \A i \in I : f[m] >= f[i]
<1> DEFINE g == [i \in I |-> -f[i]]
<1>1. g \in [I -> Int] /\ \A i \in I : g[i] = -f[i] /\ f[i] \in Int
  OBVIOUS
<1> HIDE DEF g
<1>2. PICK m \in I : \A i \in I : g[m] <= g[i]
  BY <1>1, SmallestOf
<1> QED  BY <1>1, <1>2

\* Max and Min of what a finite set is mapped to.
LEMMA MinFacts ==
  ASSUME NEW I, IsFiniteSet(I), I # {}, NEW f \in [I -> Int]
  PROVE  /\ Min({f[i] : i \in I}) \in {f[i] : i \in I}
         /\ \A j \in I : Min({f[i] : i \in I}) <= f[j]
<1>1. PICK m \in I : \A i \in I : f[m] <= f[i]
  BY SmallestOf
<1>2. \E x \in {f[i] : i \in I} : \A y \in {f[i] : i \in I} : x <= y
  BY <1>1
<1>. QED  BY <1>2 DEF Min

LEMMA MaxFacts ==
  ASSUME NEW I, IsFiniteSet(I), I # {}, NEW f \in [I -> Int]
  PROVE  /\ Max({f[i] : i \in I}) \in {f[i] : i \in I}
         /\ \A j \in I : Max({f[i] : i \in I}) >= f[j]
<1>1. PICK m \in I : \A i \in I : f[m] >= f[i]
  BY GreatestOf
<1>2. \E x \in {f[i] : i \in I} : \A y \in {f[i] : i \in I} : x >= y
  BY <1>1
<1>. QED  BY <1>2 DEF Max

\* What a queue holds is finite.
LEMMA QueueIsFinite ==
  ASSUME NEW S, NEW q \in Seq(S)
  PROVE  IsFiniteSet(ToSet(q))
<1>1. /\ DOMAIN q = 1..Len(q)
      /\ q \in Seq(ToSet(q))
  BY DEF ToSet
<1>. QED  BY <1>1 DEF IsFiniteSet, ToSet
=============================================================================
