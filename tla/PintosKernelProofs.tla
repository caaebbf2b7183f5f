------------------------- MODULE PintosKernelProofs -------------------------
(***************************************************************************)
(* Proofs about the kernel of CS330 project 1, for every set of threads,   *)
(* locks and semaphores, every assignment of priorities and every bound:   *)
(* its inductive invariant, the order of the sleepers, the refinement of   *)
(* the abstract scheduler, and the synchronization: the locks exclude,     *)
(* sema_up wakes the waiter of highest priority, no wake-up is lost, and   *)
(* no signal of the condition variable.                                    *)
(***************************************************************************)
EXTENDS PintosKernel, TLAPS, SequenceTheorems, WellFoundedInduction, FiniteSetTheorems

-----------------------------------------------------------------------------
(* What the list operations of KernelList return, for every list.          *)

\* A non-empty set of naturals has a least element.
LEMMA LeastNatural ==
    ASSUME NEW S \in SUBSET Nat, S # {}
    PROVE  \E m \in S : \A y \in S : m <= y
<1> DEFINE R == OpToRel(<, Nat)
<1>1. IsWellFoundedOn(R, Nat)
  BY NatLessThanWellFounded
<1>2. PICK m \in S : \A y \in S : ~(<<y, m>> \in R)
  <2> HIDE DEF R
  <2> QED BY <1>1, WFMin
<1>3. \A y \in S : ~(y < m)
  BY <1>2 DEF OpToRel
<1> QED BY <1>3

\* A non-empty set of naturals with an upper bound has a greatest element.
LEMMA GreatestNatural ==
    ASSUME NEW S \in SUBSET Nat, S # {}, NEW b \in Nat, \A y \in S : y <= b
    PROVE  \E m \in S : \A y \in S : m >= y
<1> DEFINE U == {n \in Nat : \A y \in S : y <= n}
<1>1. PICK m \in U : \A n \in U : m <= n
  BY LeastNatural
<1>2. m \in S
  <2>1. SUFFICES ASSUME m \notin S PROVE FALSE
    OBVIOUS
  <2>2. \A y \in S : y < m
    BY <2>1
  <2>3. m \in Nat /\ m - 1 \in Nat
    <3>1. PICK y \in S : TRUE
      OBVIOUS
    <3>2. m \in Nat /\ y \in Nat /\ y < m
      BY <2>2, <3>1
    <3> QED BY <3>2
  <2>4. \A y \in S : y <= m - 1
    BY <2>2, <2>3
  <2>5. m - 1 \in U
    BY <2>3, <2>4
  <2> QED BY <1>1, <2>3, <2>5
<1> QED BY <1>2

\* FirstIn is a position of the list, or the one past its end.
LEMMA FirstInRange ==
    ASSUME NEW S, NEW s \in Seq(S), NEW B
    PROVE  FirstIn(s, B) \in 1..(Len(s) + 1)
<1> DEFINE hits == {i \in 1..Len(s) : s[i] \in B}
<1>1. Len(s) \in Nat
  BY LenProperties
<1>2. CASE hits = {}
  BY <1>1, <1>2 DEF FirstIn
<1>3. CASE hits # {}
  <2>1. hits \in SUBSET Nat
    BY <1>1
  <2>2. PICK m \in hits : \A y \in hits : m <= y
    <3> HIDE DEF hits
    <3> QED BY <1>3, <2>1, LeastNatural
  <2>3. Min(hits) \in hits
    BY <2>2 DEF Min
  <2> QED BY <1>1, <1>3, <2>3 DEF FirstIn
<1> QED BY <1>2, <1>3

\* list_insert_ordered gives a list that is one longer; x stands at one
\* position, and the old elements keep their order around it.
LEMMA InsertOrderedProperties ==
    ASSUME NEW S, NEW s \in Seq(S), NEW x \in S, NEW B
    PROVE  /\ InsertOrdered(s, x, B) \in Seq(S)
           /\ Len(InsertOrdered(s, x, B)) = Len(s) + 1
           /\ FirstIn(s, B) \in 1..(Len(s) + 1)
           /\ \A i \in 1..(Len(s) + 1) :
                InsertOrdered(s, x, B)[i] =
                  IF i < FirstIn(s, B) THEN s[i]
                  ELSE IF i = FirstIn(s, B) THEN x ELSE s[i - 1]
<1> DEFINE p == FirstIn(s, B)
           front == SubSeq(s, 1, p - 1)
           back == SubSeq(s, p, Len(s))
<1>1. Len(s) \in Nat /\ p \in 1..(Len(s) + 1)
  BY LenProperties, FirstInRange
<1>2. \A i \in 1..Len(s) : s[i] \in S
  BY ElementOfSeq
<1> HIDE DEF p
<1>3. /\ front \in Seq(S) /\ Len(front) = p - 1
      /\ \A i \in 1..(p - 1) : front[i] = s[i]
  <2>1. 1 \in Int /\ p - 1 \in Int /\ \A i \in 1..(p - 1) : s[i] \in S
    BY <1>1, <1>2
  <2> QED BY <1>1, <2>1, SubSeqProperties
<1>4. /\ back \in Seq(S) /\ Len(back) = Len(s) - p + 1
      /\ \A i \in 1..(Len(s) - p + 1) : back[i] = s[p + i - 1]
  <2>1. p \in Int /\ Len(s) \in Int /\ \A i \in p..Len(s) : s[i] \in S
    BY <1>1, <1>2
  <2> QED BY <1>1, <2>1, SubSeqProperties
<1> HIDE DEF front, back
<1> DEFINE mid == front \o <<x>>
<1>5. <<x>> \in Seq(S) /\ Len(<<x>>) = 1 /\ <<x>>[1] = x
  OBVIOUS
<1>6. /\ mid \in Seq(S) /\ Len(mid) = p
      /\ \A i \in 1..p : mid[i] = IF i < p THEN s[i] ELSE x
  BY <1>1, <1>3, <1>5, ConcatProperties
<1> HIDE DEF mid
<1>7. /\ mid \o back \in Seq(S) /\ Len(mid \o back) = Len(s) + 1
      /\ \A i \in 1..(Len(s) + 1) :
           (mid \o back)[i] = IF i <= p THEN mid[i] ELSE back[i - p]
  BY <1>1, <1>4, <1>6, ConcatProperties
<1>8. InsertOrdered(s, x, B) = mid \o back
  BY DEF InsertOrdered, InsertAt, p, mid, front, back
<1>9. \A i \in 1..(Len(s) + 1) :
        (mid \o back)[i] = IF i < p THEN s[i] ELSE IF i = p THEN x ELSE s[i - 1]
  BY <1>1, <1>4, <1>6, <1>7
<1> QED BY <1>1, <1>7, <1>8, <1>9 DEF p

\* What a list looks like element by element.
LEMMA RangeIsElements ==
    ASSUME NEW S, NEW s \in Seq(S)
    PROVE  /\ Len(s) \in Nat
           /\ Range(s) = {s[i] : i \in 1..Len(s)}
           /\ Range(s) \subseteq S
           /\ \A i \in 1..Len(s) : s[i] \in Range(s)
           /\ \A e \in Range(s) : \E i \in 1..Len(s) : s[i] = e
BY RangeEquality, RangeOfSeq, LenProperties

\* list_insert_ordered adds x to the elements of the list, and keeps a list
\* without duplicates free of them if x was not on it.
LEMMA InsertOrderedElements ==
    ASSUME NEW S, NEW s \in Seq(S), NEW x \in S, NEW B
    PROVE  /\ InsertOrdered(s, x, B) \in Seq(S)
           /\ Range(InsertOrdered(s, x, B)) = Range(s) \cup {x}
           /\ NoDuplicates(s) /\ x \notin Range(s) => NoDuplicates(InsertOrdered(s, x, B))
<1> DEFINE r == InsertOrdered(s, x, B)
           p == FirstIn(s, B)
<1>1. /\ r \in Seq(S) /\ Len(r) = Len(s) + 1 /\ p \in 1..(Len(s) + 1)
      /\ \A i \in 1..(Len(s) + 1) :
           r[i] = IF i < p THEN s[i] ELSE IF i = p THEN x ELSE s[i - 1]
  BY InsertOrderedProperties
<1>2. Len(s) \in Nat
  BY LenProperties
<1> HIDE DEF r, p
<1>3. Range(r) = {r[i] : i \in 1..(Len(s) + 1)} /\ Range(s) = {s[i] : i \in 1..Len(s)}
  BY <1>1, RangeEquality
<1>4. Range(r) = Range(s) \cup {x}
  <2>1. ASSUME NEW e \in Range(r) PROVE e \in Range(s) \cup {x}
    <3>1. PICK i \in 1..(Len(s) + 1) : e = r[i]
      BY <1>3
    <3>2. CASE i < p
      BY <1>1, <1>2, <1>3, <3>1, <3>2
    <3>3. CASE i = p
      BY <1>1, <1>2, <3>1, <3>3
    <3>4. CASE i > p
      <4>1. i - 1 \in 1..Len(s) /\ e = s[i - 1]
        BY <1>1, <1>2, <3>1, <3>4
      <4> QED BY <1>3, <4>1
    <3> QED BY <1>1, <3>2, <3>3, <3>4
  <2>2. x \in Range(r)
    <3>1. r[p] = x
      BY <1>1, <1>2
    <3> QED BY <1>1, <1>3, <3>1
  <2>3. ASSUME NEW e \in Range(s) PROVE e \in Range(r)
    <3>1. PICK i \in 1..Len(s) : e = s[i]
      BY <1>3
    <3>2. CASE i < p
      <4>1. i \in 1..(Len(s) + 1) /\ r[i] = e
        BY <1>1, <1>2, <3>1, <3>2
      <4> QED BY <1>3, <4>1
    <3>3. CASE i >= p
      <4>1. i + 1 \in 1..(Len(s) + 1) /\ r[i + 1] = e
        BY <1>1, <1>2, <3>1, <3>3
      <4> QED BY <1>3, <4>1
    <3> QED BY <1>1, <1>2, <3>2, <3>3
  <2> QED BY <2>1, <2>2, <2>3
<1>5. ASSUME NoDuplicates(s), x \notin Range(s) PROVE NoDuplicates(r)
  <2>1. \A i \in 1..Len(s) : s[i] # x
    BY <1>3, <1>5
  <2>2. SUFFICES ASSUME NEW i \in 1..(Len(s) + 1), NEW j \in 1..(Len(s) + 1), r[i] = r[j], i < j
                 PROVE  FALSE
    BY <1>1, <1>2 DEF NoDuplicates
  <2>3. CASE j < p
    BY <1>1, <1>2, <1>5, <2>2, <2>3 DEF NoDuplicates
  <2>4. CASE j = p
    BY <1>1, <1>2, <2>1, <2>2, <2>4
  <2>5. CASE j > p
    <3>1. j - 1 \in 1..Len(s) /\ r[j] = s[j - 1]
      BY <1>1, <1>2, <2>5
    <3>2. CASE i < p
      BY <1>1, <1>2, <1>5, <2>2, <2>5, <3>1, <3>2 DEF NoDuplicates
    <3>3. CASE i = p
      BY <1>1, <1>2, <2>1, <2>2, <3>1, <3>3
    <3>4. CASE i > p
      <4>1. i - 1 \in 1..Len(s) /\ r[i] = s[i - 1] /\ i - 1 # j - 1
        BY <1>1, <1>2, <2>2, <3>4
      <4> QED BY <1>5, <2>2, <3>1, <4>1 DEF NoDuplicates
    <3> QED BY <1>1, <3>2, <3>3, <3>4
  <2> QED BY <1>1, <2>3, <2>4, <2>5
<1> QED BY <1>1, <1>4, <1>5 DEF r

\* list_remove of the i-th element takes just that element off the list.
LEMMA RemoveAtElements ==
    ASSUME NEW S, NEW s \in Seq(S), NEW i \in 1..Len(s), NoDuplicates(s)
    PROVE  /\ RemoveAt(s, i) \in Seq(S)
           /\ Range(RemoveAt(s, i)) = Range(s) \ {s[i]}
           /\ NoDuplicates(RemoveAt(s, i))
<1> DEFINE r == RemoveAt(s, i)
           front == SubSeq(s, 1, i - 1)
           back == SubSeq(s, i + 1, Len(s))
<1>1. Len(s) \in Nat
  BY LenProperties
<1>2. \A j \in 1..Len(s) : s[j] \in S
  BY ElementOfSeq
<1>3. /\ front \in Seq(S) /\ Len(front) = i - 1
      /\ \A j \in 1..(i - 1) : front[j] = s[j]
  <2>1. 1 \in Int /\ i - 1 \in Int /\ \A j \in 1..(i - 1) : s[j] \in S
    BY <1>1, <1>2
  <2> QED BY <1>1, <2>1, SubSeqProperties
<1>4. /\ back \in Seq(S) /\ Len(back) = Len(s) - i
      /\ \A j \in 1..(Len(s) - i) : back[j] = s[i + j]
  <2>1. i + 1 \in Int /\ Len(s) \in Int /\ \A j \in (i + 1)..Len(s) : s[j] \in S
    BY <1>1, <1>2
  <2> QED BY <1>1, <2>1, SubSeqProperties
<1>5. r = front \o back
  BY DEF RemoveAt
<1> HIDE DEF r, front, back
<1>6. /\ r \in Seq(S) /\ Len(r) = Len(s) - 1
      /\ \A j \in 1..(Len(s) - 1) : r[j] = IF j < i THEN s[j] ELSE s[j + 1]
  <2>1. /\ r \in Seq(S) /\ Len(r) = Len(s) - 1
        /\ \A j \in 1..(Len(s) - 1) : r[j] = IF j <= i - 1 THEN front[j] ELSE back[j - (i - 1)]
    <3>1. /\ front \o back \in Seq(S)
          /\ Len(front \o back) = Len(front) + Len(back)
          /\ \A j \in 1..(Len(front) + Len(back)) :
               (front \o back)[j] = IF j <= Len(front) THEN front[j] ELSE back[j - Len(front)]
      BY <1>3, <1>4, ConcatProperties
    <3>2. Len(front) + Len(back) = Len(s) - 1
      BY <1>1, <1>3, <1>4
    <3> QED BY <1>3, <1>5, <3>1, <3>2
  <2> QED BY <1>1, <1>3, <1>4, <2>1
<1>7. Range(r) = {r[j] : j \in 1..(Len(s) - 1)} /\ Range(s) = {s[j] : j \in 1..Len(s)}
  BY <1>6, RangeEquality
<1>8. ASSUME NEW e \in Range(r) PROVE e \in Range(s) \ {s[i]}
  <2>1. PICK j \in 1..(Len(s) - 1) : e = r[j]
    BY <1>7
  <2>2. PICK k \in 1..Len(s) : k # i /\ e = s[k]
    <3>1. CASE j < i
      BY <1>1, <1>6, <2>1, <3>1
    <3>2. CASE j >= i
      <4>1. j + 1 \in 1..Len(s) /\ j + 1 # i /\ e = s[j + 1]
        BY <1>1, <1>6, <2>1, <3>2
      <4> QED BY <4>1
    <3> QED BY <1>1, <3>1, <3>2
  <2> QED BY <1>7, <2>2 DEF NoDuplicates
<1>9. ASSUME NEW e \in Range(s), e # s[i] PROVE e \in Range(r)
  <2>1. PICK k \in 1..Len(s) : e = s[k] /\ k # i
    BY <1>7, <1>9
  <2>2. CASE k < i
    <3>1. k \in 1..(Len(s) - 1) /\ r[k] = e
      BY <1>1, <1>6, <2>1, <2>2
    <3> QED BY <1>7, <3>1
  <2>3. CASE k > i
    <3>1. k - 1 \in 1..(Len(s) - 1) /\ r[k - 1] = e
      BY <1>1, <1>6, <2>1, <2>3
    <3> QED BY <1>7, <3>1
  <2> QED BY <1>1, <2>1, <2>2, <2>3
<1>10. NoDuplicates(r)
  <2>1. SUFFICES ASSUME NEW j \in 1..(Len(s) - 1), NEW k \in 1..(Len(s) - 1),
                        r[j] = r[k], j < k
                 PROVE  FALSE
    BY <1>1, <1>6 DEF NoDuplicates
  <2> DEFINE from(m) == IF m < i THEN m ELSE m + 1
  <2>2. /\ from(j) \in 1..Len(s) /\ r[j] = s[from(j)]
        /\ from(k) \in 1..Len(s) /\ r[k] = s[from(k)]
        /\ from(j) # from(k)
    BY <1>1, <1>6, <2>1
  <2> HIDE DEF from
  <2> QED BY <2>1, <2>2 DEF NoDuplicates
<1> QED BY <1>6, <1>8, <1>9, <1>10 DEF r

\* list_pop_front takes just the front off the list.
LEMMA PopFrontElements ==
    ASSUME NEW S, NEW s \in Seq(S), s # <<>>, NoDuplicates(s)
    PROVE  /\ Head(s) \in Range(s)
           /\ Tail(s) \in Seq(S)
           /\ Range(Tail(s)) = Range(s) \ {Head(s)}
           /\ NoDuplicates(Tail(s))
<1>1. Len(s) \in Nat \ {0} /\ 1 \in 1..Len(s)
  BY EmptySeq
<1>2. Head(s) = s[1]
  BY <1>1
<1>3. Tail(s) = RemoveAt(s, 1)
  <2>1. Tail(s) = SubSeq(s, 2, Len(s))
    BY TailIsSubSeq
  <2>2. SubSeq(s, 1, 1 - 1) = <<>>
    BY SubSeqEmpty
  <2>3. SubSeq(s, 2, Len(s)) \in Seq(S)
    BY <2>1, HeadTailProperties
  <2>4. <<>> \o SubSeq(s, 2, Len(s)) = SubSeq(s, 2, Len(s))
    BY <2>3, ConcatEmptySeq
  <2> QED BY <2>1, <2>2, <2>4 DEF RemoveAt
<1>4. Head(s) \in Range(s)
  BY <1>1, <1>2, RangeIsElements
<1>5. /\ RemoveAt(s, 1) \in Seq(S)
      /\ Range(RemoveAt(s, 1)) = Range(s) \ {s[1]}
      /\ NoDuplicates(RemoveAt(s, 1))
  BY <1>1, RemoveAtElements
<1> QED BY <1>2, <1>3, <1>4, <1>5

\* list_max finds an element of the list, and one with the greatest key.
LEMMA LastMaxProperties ==
    ASSUME NEW S, NEW s \in Seq(S), s # <<>>, NEW b \in Nat, NEW key \in [S -> 0..b]
    PROVE  /\ LastMax(s, key) \in 1..Len(s)
           /\ \A j \in 1..Len(s) : key[s[j]] <= key[s[LastMax(s, key)]]
<1> DEFINE keys == {key[s[j]] : j \in 1..Len(s)}
           best == {i \in 1..Len(s) : \A j \in 1..Len(s) : key[s[j]] <= key[s[i]]}
<1>1. Len(s) \in Nat \ {0} /\ 1 \in 1..Len(s)
  BY EmptySeq
<1>2. \A j \in 1..Len(s) : s[j] \in S /\ key[s[j]] \in 0..b
  BY ElementOfSeq
<1>3. PICK m \in keys : \A y \in keys : m >= y
  <2>1. keys \in SUBSET Nat /\ keys # {} /\ \A y \in keys : y <= b
    BY <1>1, <1>2
  <2> HIDE DEF keys
  <2> QED BY <2>1, GreatestNatural
<1>4. PICK i \in 1..Len(s) : m = key[s[i]]
  BY <1>3
<1>5. i \in best
  BY <1>2, <1>3, <1>4
<1>6. PICK n \in best : \A y \in best : n >= y
  <2>1. best \in SUBSET (1..Len(s)) /\ best # {}
    BY <1>5
  <2> HIDE DEF best
  <2>2. best \in SUBSET Nat /\ \A y \in best : y <= Len(s)
    BY <1>1, <2>1
  <2>3. Len(s) \in Nat
    BY <1>1
  <2> QED BY <2>1, <2>2, <2>3, GreatestNatural
<1>7. Max(best) \in best
  BY <1>6 DEF Max
<1> QED BY <1>7 DEF LastMax

\* FirstIn stops at the first member of B.
LEMMA FirstInLeast ==
    ASSUME NEW S, NEW s \in Seq(S), NEW B
    PROVE  /\ \A i \in 1..Len(s) : i < FirstIn(s, B) => s[i] \notin B
           /\ FirstIn(s, B) <= Len(s) => s[FirstIn(s, B)] \in B
<1> DEFINE hits == {i \in 1..Len(s) : s[i] \in B}
<1>1. Len(s) \in Nat
  BY LenProperties
<1>2. CASE hits = {}
  BY <1>1, <1>2 DEF FirstIn
<1>3. CASE hits # {}
  <2>1. hits \in SUBSET Nat
    BY <1>1
  <2>2. PICK m \in hits : \A y \in hits : m <= y
    <3> HIDE DEF hits
    <3> QED BY <1>3, <2>1, LeastNatural
  <2>3. Min(hits) \in hits /\ \A y \in hits : Min(hits) <= y
    BY <2>2 DEF Min
  <2>4. FirstIn(s, B) = Min(hits)
    BY <1>3 DEF FirstIn
  <2> HIDE DEF hits
  <2>5. ASSUME NEW i \in 1..Len(s), i < Min(hits), i \in hits PROVE FALSE
    <3> DEFINE least == Min(hits)
    <3>1. least \in Nat /\ least <= i /\ i < least
      BY <2>1, <2>3, <2>5
    <3> HIDE DEF least
    <3> QED BY <1>1, <3>1
  <2>6. \A i \in 1..Len(s) : i \notin hits => s[i] \notin B
    BY DEF hits
  <2>7. \A i \in hits : s[i] \in B
    BY DEF hits
  <2>8. \A i \in 1..Len(s) : i < FirstIn(s, B) => s[i] \notin B
    BY <2>4, <2>5, <2>6
  <2>9. s[FirstIn(s, B)] \in B
    BY <2>3, <2>4, <2>7
  <2> QED BY <2>8, <2>9
<1> QED BY <1>2, <1>3

\* The list is in the order of key.
Ordered(s, key) == \A i, j \in 1..Len(s) : i < j => key[s[i]] <= key[s[j]]

\* list_insert_ordered keeps an ordered list ordered, if x goes before no element
\* that comes before it and after none that comes after it.
LEMMA InsertOrderedOrdered ==
    ASSUME NEW S, NEW s \in Seq(S), NEW x \in S, NEW B, NEW key \in [S -> Nat],
           Ordered(s, key),
           \A e \in S : e \in B => key[x] <= key[e],
           \A e \in S : e \notin B => key[e] <= key[x]
    PROVE  Ordered(InsertOrdered(s, x, B), key)
<1> DEFINE p == FirstIn(s, B)
           r == InsertOrdered(s, x, B)
<1>1. Len(s) \in Nat /\ \A i \in 1..Len(s) : s[i] \in S /\ key[s[i]] \in Nat
  BY LenProperties, ElementOfSeq
<1>2. /\ Len(r) = Len(s) + 1 /\ p \in 1..(Len(s) + 1)
      /\ \A i \in 1..(Len(s) + 1) :
           r[i] = IF i < p THEN s[i] ELSE IF i = p THEN x ELSE s[i - 1]
  BY InsertOrderedProperties
<1>3. /\ \A i \in 1..Len(s) : i < p => s[i] \notin B
      /\ p <= Len(s) => s[p] \in B
  BY FirstInLeast
<1> HIDE DEF p, r
<1>4. key[x] \in Nat
  OBVIOUS
<1>5. \A i \in 1..Len(s) : i < p => key[s[i]] <= key[x]
  BY <1>1, <1>3
<1>6. \A i \in 1..Len(s) : i >= p => key[x] <= key[s[i]]
  <2>1. SUFFICES ASSUME NEW i \in 1..Len(s), i >= p PROVE key[x] <= key[s[i]]
    OBVIOUS
  <2>2. p \in 1..Len(s) /\ key[x] <= key[s[p]]
    BY <1>1, <1>2, <1>3, <2>1
  <2>3. key[s[p]] <= key[s[i]]
    BY <1>1, <2>1, <2>2 DEF Ordered
  <2> QED BY <1>1, <1>4, <2>1, <2>2, <2>3
<1>7. ASSUME NEW i \in 1..Len(r), NEW j \in 1..Len(r), i < j
      PROVE  key[r[i]] <= key[r[j]]
  <2>1. i \in 1..(Len(s) + 1) /\ j \in 1..(Len(s) + 1)
    BY <1>2
  <2>2. CASE j < p
    <3>1. i \in 1..Len(s) /\ j \in 1..Len(s) /\ r[i] = s[i] /\ r[j] = s[j]
      BY <1>1, <1>2, <1>7, <2>1, <2>2
    <3> QED BY <1>7, <3>1 DEF Ordered
  <2>3. CASE j = p
    <3>1. i \in 1..Len(s) /\ i < p /\ r[i] = s[i] /\ r[j] = x
      BY <1>1, <1>2, <1>7, <2>1, <2>3
    <3> QED BY <1>5, <3>1
  <2>4. CASE j > p /\ i < p
    <3>1. i \in 1..Len(s) /\ j - 1 \in 1..Len(s) /\ r[i] = s[i] /\ r[j] = s[j - 1]
      BY <1>1, <1>2, <1>7, <2>1, <2>4
    <3>2. j - 1 >= p
      BY <1>2, <2>1, <2>4
    <3>3. key[s[i]] <= key[x] /\ key[x] <= key[s[j - 1]]
      BY <1>5, <1>6, <2>4, <3>1, <3>2
    <3>4. key[s[i]] \in Nat /\ key[s[j - 1]] \in Nat
      BY <1>1, <3>1
    <3> QED BY <1>4, <3>1, <3>3, <3>4
  <2>5. CASE i = p
    <3>1. j - 1 \in 1..Len(s) /\ j - 1 >= p /\ r[i] = x /\ r[j] = s[j - 1]
      BY <1>1, <1>2, <1>7, <2>1, <2>5
    <3> QED BY <1>6, <3>1
  <2>6. CASE i > p
    <3>1. /\ i - 1 \in 1..Len(s) /\ j - 1 \in 1..Len(s) /\ i - 1 < j - 1
          /\ r[i] = s[i - 1] /\ r[j] = s[j - 1]
      BY <1>1, <1>2, <1>7, <2>1, <2>6
    <3> QED BY <3>1 DEF Ordered
  <2> QED BY <1>2, <1>7, <2>1, <2>2, <2>3, <2>4, <2>5, <2>6
<1> QED BY <1>7 DEF Ordered, r

\* list_pop_front keeps an ordered list ordered.
LEMMA PopFrontOrdered ==
    ASSUME NEW S, NEW s \in Seq(S), s # <<>>, NEW key, Ordered(s, key)
    PROVE  Ordered(Tail(s), key)
<1>1. Len(s) \in Nat \ {0}
  BY EmptySeq
<1>2. Len(Tail(s)) = Len(s) - 1 /\ \A i \in 1..(Len(s) - 1) : Tail(s)[i] = s[i + 1]
  BY <1>1, HeadTailProperties
<1>3. ASSUME NEW i \in 1..Len(Tail(s)), NEW j \in 1..Len(Tail(s)), i < j
      PROVE  key[Tail(s)[i]] <= key[Tail(s)[j]]
  <2>1. /\ i + 1 \in 1..Len(s) /\ j + 1 \in 1..Len(s) /\ i + 1 < j + 1
        /\ Tail(s)[i] = s[i + 1] /\ Tail(s)[j] = s[j + 1]
    BY <1>1, <1>2, <1>3
  <2> QED BY <2>1 DEF Ordered
<1> QED BY <1>3 DEF Ordered

-----------------------------------------------------------------------------
(* The kernel.                                                             *)

\* The arguments t is at work on are there while it needs them.
ArgsOf(t) ==
    /\ pc[t] \in {"compare", "donate", "chain", "nested", "take", "own", "unhold"} =>
         lk[t] \in Locks /\ sem[t] = lk[t]
    /\ pc[t] \in {"down", "wake", "up"} => sem[t] \in Semaphores
    /\ pc[t] \in {"down", "wake"} /\ sem[t] \in Locks => lk[t] = sem[t]
    /\ pc[t] \in {"chain", "nested"} => lp[t] \in Locks
    /\ \/ pc[t] \in {"cond_wait", "reacquire"}
       \/ ret[t] = "cond_wait"
       \/ pc[t] \in {"down", "wake"} /\ sem[t] = t
       => CondLock \in Locks

ArgsOK == \A t \in Threads : ArgsOf(t)

\* One thread is on the CPU, and the ready ones are on the run queue, once.
CpuOK ==
    /\ cur \in Threads \cup {Idle}
    /\ status \in [Threads \cup {Idle} -> {"NONE", "READY", "RUNNING", "BLOCKED", "DEAD"}]
    /\ ready_list \in Seq(Threads)
    /\ thread_ticks \in Nat
    /\ NoDuplicates(ready_list)
    /\ Range(ready_list) = {t \in Threads : status[t] = "READY"}
    /\ \A t \in Threads \cup {Idle} : status[t] = "RUNNING" <=> t = cur

\* A blocked thread is on the one list its place in the code says, once.
QueuesOK ==
    /\ NoDuplicates(wait_list)
    /\ Range(wait_list) = {t \in Threads : status[t] = "BLOCKED" /\ pc[t] = "asleep"}
    /\ \A s \in Semaphores :
         /\ NoDuplicates(waiters[s])
         /\ Range(waiters[s]) =
              {t \in Threads : status[t] = "BLOCKED" /\ pc[t] = "wake" /\ sem[t] = s}
    /\ \A t \in Threads : status[t] = "BLOCKED" => pc[t] \in IntrOff

\* The inductive invariant.
IInv == TypeOK /\ ArgsOK /\ CpuOK /\ QueuesOK

\* The lists are as thread.h asks.
LEMMA ListsImplyExclusive == IInv => ElemExclusive
<1> SUFFICES ASSUME IInv PROVE ElemExclusive
  OBVIOUS
<1> USE DEF IInv, CpuOK, QueuesOK, IntrOff
<1>1. \A t \in Threads : t \in Range(ready_list) <=> status[t] = "READY"
  OBVIOUS
<1>2. ASSUME NEW t \in Threads, t \in Range(wait_list)
      PROVE  status[t] = "BLOCKED" /\ \A s \in Semaphores : t \notin Range(waiters[s])
  BY <1>2
<1>3. ASSUME NEW t \in Threads, NEW s \in Semaphores, t \in Range(waiters[s])
      PROVE  status[t] = "BLOCKED" /\ \A r \in Semaphores \ {s} : t \notin Range(waiters[r])
  BY <1>3
<1>4. ASSUME NEW t \in Threads, status[t] = "BLOCKED"
      PROVE  t \in Range(wait_list) \/ \E s \in Semaphores : t \in Range(waiters[s])
  BY <1>4 DEF ArgsOK, ArgsOf
<1> QED BY <1>1, <1>2, <1>3, <1>4 DEF ElemExclusive

-----------------------------------------------------------------------------
(* The building blocks.                                                    *)

\* schedule: from statuses and a run queue that agree, and with no one on the
\* CPU, it leaves statuses and a run queue that agree and one thread on the CPU.
LEMMA ScheduleProperties ==
    ASSUME NEW st \in [Threads \cup {Idle} -> {"NONE", "READY", "RUNNING", "BLOCKED", "DEAD"}],
           NEW rl \in Seq(Threads), NoDuplicates(rl),
           Range(rl) = {t \in Threads : st[t] = "READY"},
           \A t \in Threads \cup {Idle} : st[t] # "RUNNING",
           Schedule(st, rl)
    PROVE  /\ CpuOK'
           /\ \A t \in Threads : status'[t] = "BLOCKED" <=> st[t] = "BLOCKED"
<1>1. CASE rl = <<>>
  <2>1. cur' = Idle /\ ready_list' = rl /\ status' = [st EXCEPT ![Idle] = "RUNNING"]
    BY <1>1 DEF Schedule
  <2>2. Idle \notin Threads
    BY SchedAssumption
  <2>3. thread_ticks' = 0
    BY DEF Schedule
  <2> QED BY <2>1, <2>2, <2>3 DEF CpuOK
<1>2. CASE rl # <<>>
  <2>1. cur' = Head(rl) /\ ready_list' = Tail(rl) /\ status' = [st EXCEPT ![Head(rl)] = "RUNNING"]
    BY <1>2 DEF Schedule
  <2>2. /\ Head(rl) \in Range(rl) /\ Tail(rl) \in Seq(Threads)
        /\ Range(Tail(rl)) = Range(rl) \ {Head(rl)} /\ NoDuplicates(Tail(rl))
    BY <1>2, PopFrontElements
  <2>3. Head(rl) \in Threads /\ st[Head(rl)] = "READY"
    BY <2>2
  <2>4. Idle \notin Threads /\ thread_ticks' = 0
    BY SchedAssumption DEF Schedule
  <2> QED BY <2>1, <2>2, <2>3, <2>4 DEF CpuOK
<1> QED BY <1>1, <1>2

\* list_insert_ordered of a thread that is not on the run queue.
LEMMA EnqueuedProperties ==
    ASSUME CpuOK, NEW t \in Threads, status[t] # "READY"
    PROVE  /\ Enqueued(t) \in Seq(Threads)
           /\ Range(Enqueued(t)) = Range(ready_list) \cup {t}
           /\ NoDuplicates(Enqueued(t))
<1>1. ready_list \in Seq(Threads) /\ NoDuplicates(ready_list) /\ t \notin Range(ready_list)
  BY DEF CpuOK
<1> QED BY <1>1, InsertOrderedElements DEF Enqueued

\* thread_block blocks the running thread and no other.
LEMMA ThreadBlockProperties ==
    ASSUME CpuOK, ThreadBlock
    PROVE  /\ CpuOK'
           /\ \A u \in Threads : status'[u] = "BLOCKED" <=> status[u] = "BLOCKED" \/ u = cur
<1> DEFINE st == [status EXCEPT ![cur] = "BLOCKED"]
<1>1. /\ st \in [Threads \cup {Idle} -> {"NONE", "READY", "RUNNING", "BLOCKED", "DEAD"}]
      /\ ready_list \in Seq(Threads) /\ NoDuplicates(ready_list)
      /\ Range(ready_list) = {u \in Threads : st[u] = "READY"}
      /\ \A u \in Threads \cup {Idle} : st[u] # "RUNNING"
      /\ \A u \in Threads : st[u] = "BLOCKED" <=> status[u] = "BLOCKED" \/ u = cur
  BY DEF CpuOK
<1>2. Schedule(st, ready_list)
  BY DEF ThreadBlock
<1> HIDE DEF st
<1> QED BY <1>1, <1>2, ScheduleProperties

\* thread_yield blocks no thread and wakes none.
LEMMA ThreadYieldProperties ==
    ASSUME CpuOK, ThreadYield
    PROVE  /\ CpuOK'
           /\ \A u \in Threads : status'[u] = "BLOCKED" <=> status[u] = "BLOCKED"
<1> DEFINE st == [status EXCEPT ![cur] = "READY"]
           rl == IF cur = Idle THEN ready_list ELSE Enqueued(cur)
<1>1. /\ st \in [Threads \cup {Idle} -> {"NONE", "READY", "RUNNING", "BLOCKED", "DEAD"}]
      /\ \A u \in Threads \cup {Idle} : st[u] # "RUNNING"
      /\ \A u \in Threads : st[u] = "BLOCKED" <=> status[u] = "BLOCKED"
  BY DEF CpuOK
<1>2. rl \in Seq(Threads) /\ NoDuplicates(rl) /\ Range(rl) = {u \in Threads : st[u] = "READY"}
  <2>1. CASE cur = Idle
    BY <2>1, SchedAssumption DEF CpuOK
  <2>2. CASE cur # Idle
    <3>1. cur \in Threads /\ status[cur] # "READY"
      BY <2>2 DEF CpuOK
    <3> QED BY <2>2, <3>1, EnqueuedProperties DEF CpuOK
  <2> QED BY <2>1, <2>2
<1>3. Schedule(st, rl)
  BY DEF ThreadYield
<1> HIDE DEF st, rl
<1> QED BY <1>1, <1>2, <1>3, ScheduleProperties

\* thread_unblock makes ready the thread it is given and no other.
LEMMA ThreadUnblockProperties ==
    ASSUME CpuOK, NEW t \in Threads, status[t] \in {"NONE", "BLOCKED"}, ThreadUnblock(t),
           UNCHANGED <<cur, thread_ticks>>
    PROVE  /\ CpuOK'
           /\ \A u \in Threads : status'[u] = "BLOCKED" <=> status[u] = "BLOCKED" /\ u # t
<1>1. /\ ready_list' \in Seq(Threads) /\ NoDuplicates(ready_list')
      /\ Range(ready_list') = Range(ready_list) \cup {t}
  BY EnqueuedProperties DEF ThreadUnblock
<1>2. status' = [status EXCEPT ![t] = "READY"] /\ UNCHANGED <<cur, thread_ticks>>
  BY DEF ThreadUnblock
<1> QED BY <1>1, <1>2 DEF CpuOK

\* A step that blocks no thread, wakes none and leaves the blocked ones where
\* they are keeps the lists as they should be.
LEMMA BlockedAlone ==
    ASSUME QueuesOK, UNCHANGED <<wait_list, waiters>>,
           \A u \in Threads : status'[u] = "BLOCKED" <=> status[u] = "BLOCKED",
           \A u \in Threads : status[u] = "BLOCKED" => pc'[u] = pc[u] /\ sem'[u] = sem[u]
    PROVE  QueuesOK'
BY DEF QueuesOK

\* get_max_priority returns the greatest of the base priority of t and the
\* priorities of the threads that wait for its locks.
LEMMA MaxPriorityProperties ==
    ASSUME TypeOK, NEW t \in Threads, NEW w \in [Semaphores -> Seq(Threads)]
    PROVE  /\ MaxPriority(t, w) \in Priorities
           /\ orig_priority[t] <= MaxPriority(t, w)
           /\ \A l \in sema_list[t] : \A x \in Range(w[l]) : priority[x] <= MaxPriority(t, w)
<1> DEFINE X == UNION {Range(w[l]) : l \in sema_list[t]}
           P == {orig_priority[t]} \cup {priority[x] : x \in X}
<1>1. \A l \in sema_list[t] : Range(w[l]) \subseteq Threads
  BY RangeOfSeq DEF TypeOK, Semaphores
<1>2. P \subseteq Priorities /\ P # {}
  <2>1. X \subseteq Threads
    BY <1>1
  <2> HIDE DEF X
  <2>2. \A x \in X : priority[x] \in Priorities
    BY <2>1 DEF TypeOK
  <2>3. orig_priority[t] \in Priorities
    BY DEF TypeOK
  <2>4. \A y \in P : y \in Priorities
    BY <2>2, <2>3
  <2>5. orig_priority[t] \in P
    OBVIOUS
  <2> QED BY <2>4, <2>5
<1>3. /\ orig_priority[t] \in P
      /\ \A l \in sema_list[t] : \A x \in Range(w[l]) : priority[x] \in P
  OBVIOUS
<1> HIDE DEF P
<1>4. P \in SUBSET Nat /\ 63 \in Nat /\ \A y \in P : y <= 63
  BY <1>2 DEF Priorities
<1>5. PICK m \in P : \A y \in P : m >= y
  BY <1>2, <1>4, GreatestNatural
<1>6. Max(P) \in P /\ \A y \in P : Max(P) >= y
  BY <1>5 DEF Max
<1>7. MaxPriority(t, w) = Max(P)
  BY DEF MaxPriority, P, X
<1>8. /\ MaxPriority(t, w) \in Priorities
      /\ \A y \in P : y <= MaxPriority(t, w)
  BY <1>2, <1>4, <1>6, <1>7 DEF Priorities
<1> QED BY <1>3, <1>8

\* A donation is a priority.
LEMMA DonationType ==
    ASSUME TypeOK, NEW t \in Threads, NEW h \in Threads
    PROVE  Donation(t, h) \in Priorities
<1>1. priority[t] \in Priorities /\ waiters \in [Semaphores -> Seq(Threads)]
  BY DEF TypeOK
<1>2. MaxPriority(h, waiters) \in Priorities
  BY <1>1, MaxPriorityProperties
<1>3. PICK m \in Priorities : m = MaxPriority(h, waiters)
  BY <1>2
<1>4. PICK p \in {priority[t], m} : \A y \in {priority[t], m} : p >= y
  <2>1. priority[t] \in Int /\ m \in Int
    <3>1. Priorities \subseteq Int
      BY DEF Priorities
    <3> QED BY <1>1, <1>3, <3>1
  <2>2. CASE priority[t] >= m
    BY <2>1, <2>2
  <2>3. CASE m >= priority[t]
    BY <2>1, <2>3
  <2> QED BY <2>1, <2>2, <2>3
<1>5. Max({priority[t], m}) \in {priority[t], m}
  BY <1>4 DEF Max
<1> QED BY <1>1, <1>3, <1>5 DEF Donation

\* A step that leaves where the threads other than t are, and their arguments.
OthersAlone(t) ==
    \A u \in Threads \ {t} :
      pc'[u] = pc[u] /\ ret'[u] = ret[u] /\ lk'[u] = lk[u] /\ sem'[u] = sem[u] /\ lp'[u] = lp[u]

\* A step that leaves the other threads alone keeps their call arguments.
LEMMA ArgsAlone ==
    ASSUME ArgsOK, NEW t \in Threads, OthersAlone(t), ArgsOf(t)'
    PROVE  ArgsOK'
<1> SUFFICES ASSUME NEW u \in Threads PROVE ArgsOf(u)'
  BY DEF ArgsOK
<1>1. CASE u = t
  BY <1>1
<1>2. CASE u # t
  BY <1>2 DEF ArgsOK, ArgsOf, OthersAlone
<1> QED BY <1>1, <1>2

\* A step of the running thread that touches no list keeps them all.
LEMMA QuietStep ==
    ASSUME CpuOK, QueuesOK, UNCHANGED <<cpuVars, wait_list, waiters>>,
           cur \in Threads, OthersAlone(cur)
    PROVE  CpuOK' /\ QueuesOK'
<1>1. CpuOK'
  BY DEF CpuOK, cpuVars
<1>2. \A u \in Threads : status[u] = "BLOCKED" => u # cur
  BY DEF CpuOK
<1> QED BY <1>1, <1>2, BlockedAlone DEF cpuVars, OthersAlone

-----------------------------------------------------------------------------
(* The steps.  Those below touch none of the lists a list element is on. *)

\* yield_if_nonmax, the test that the run queue is not empty.
LEMMA YieldCheckKeeps ==
    ASSUME IInv, NEW t \in Threads, YieldCheck(t), NotTimer, NotSync
    PROVE  IInv'
<1>1. /\ pc \in [Threads -> Labels]
      /\ ret \in [Threads -> {"run", "cond_wait", "broadcast"}]
      /\ ArgsOf(t)
  BY DEF IInv, TypeOK, ArgsOK
<1>2. t = cur /\ OthersAlone(t)
  BY <1>1 DEF OthersAlone, YieldCheck, At, Goto, cpuVars, structVars, modeVars,
     semaVars, lockVars, syncVars, timerVars, NotTimer, NotSync
<1>3. CpuOK' /\ QueuesOK'
  <2>1. UNCHANGED <<cpuVars, wait_list, waiters>>
    BY DEF YieldCheck, cpuVars, structVars, modeVars, semaVars, lockVars, syncVars,
       timerVars, NotTimer, NotSync
  <2> QED BY <1>2, <2>1, QuietStep DEF IInv
<1>4. TypeOK'
  <2>1. UNCHANGED <<priority, orig_priority, sema_list, in_external_intr, ret, panic, calls,
                   ticks, wait_list, wakeup_time, value, waiters, holder, waiting, lk,
                   sem, lp, cond_waiters>>
    BY DEF YieldCheck, Goto, cpuVars, structVars, modeVars, semaVars, lockVars,
       syncVars, timerVars, NotTimer, NotSync
  <2>2. pc' \in [Threads -> Labels]
    BY <1>1, SchedAssumption, SyncAssumption DEF ArgsOf, Labels, IntrOff, Semaphores,
       YieldCheck, At, Goto, cpuVars, structVars, modeVars, semaVars, lockVars,
       syncVars, timerVars, NotTimer, NotSync
  <2> QED BY <1>3, <2>1, <2>2 DEF IInv, TypeOK, CpuOK
<1>5. ArgsOf(t)'
  BY <1>1, SchedAssumption, SyncAssumption DEF ArgsOf, Semaphores, YieldCheck, At, Goto,
     cpuVars, structVars, modeVars, semaVars, lockVars, syncVars, timerVars, NotTimer,
     NotSync
<1> QED BY <1>2, <1>3, <1>4, <1>5, ArgsAlone DEF IInv

\* thread_set_priority.
LEMMA ThreadSetPriorityKeeps ==
    ASSUME IInv, NEW t \in Threads, NEW new \in NewPriorities,
           ThreadSetPriority(t, new), NotTimer, NotSync
    PROVE  IInv'
<1>1. /\ pc \in [Threads -> Labels]
      /\ ret \in [Threads -> {"run", "cond_wait", "broadcast"}]
      /\ calls \in [Threads -> Nat]
      /\ priority \in [Threads -> Priorities]
      /\ orig_priority \in [Threads -> Priorities]
      /\ ArgsOf(t)
  BY DEF IInv, TypeOK, ArgsOK
<1>2. t = cur /\ OthersAlone(t)
  BY <1>1 DEF OthersAlone, ThreadSetPriority, At, Calls, Goto, cpuVars, modeVars,
     semaVars, lockVars, syncVars, timerVars, NotTimer, NotSync
<1>3. CpuOK' /\ QueuesOK'
  <2>1. UNCHANGED <<cpuVars, wait_list, waiters>>
    BY DEF ThreadSetPriority, cpuVars, modeVars, semaVars, lockVars, syncVars,
       timerVars, NotTimer, NotSync
  <2> QED BY <1>2, <2>1, QuietStep DEF IInv
<1>4. TypeOK'
  <2>1. UNCHANGED <<sema_list, in_external_intr, panic, ticks, wait_list, wakeup_time, value,
                   waiters, holder, waiting, lk, sem, lp, cond_waiters>>
    BY DEF ThreadSetPriority, Calls, Goto, cpuVars, modeVars, semaVars, lockVars,
       syncVars, timerVars, NotTimer, NotSync
  <2>2. /\ pc' \in [Threads -> Labels]
        /\ ret' \in [Threads -> {"run", "cond_wait", "broadcast"}]
        /\ calls' \in [Threads -> Nat]
        /\ priority' \in [Threads -> Priorities]
        /\ orig_priority' \in [Threads -> Priorities]
    BY <1>1, SchedAssumption, SyncAssumption DEF ArgsOf, Labels, IntrOff, Semaphores,
       ThreadSetPriority, At, Calls, Goto, cpuVars, modeVars, semaVars, lockVars,
       syncVars, timerVars, NotTimer, NotSync
  <2> QED BY <1>3, <2>1, <2>2 DEF IInv, TypeOK, CpuOK
<1>5. ArgsOf(t)'
  BY <1>1, SchedAssumption, SyncAssumption DEF ArgsOf, Semaphores, ThreadSetPriority,
     At, Calls, Goto, cpuVars, modeVars, semaVars, lockVars, syncVars, timerVars,
     NotTimer, NotSync
<1> QED BY <1>2, <1>3, <1>4, <1>5, ArgsAlone DEF IInv

\* timer_sleep, the wake-up time.
LEMMA SleepStartKeeps ==
    ASSUME IInv, NEW t \in Threads, NEW n \in SleepTicks, SleepStart(t, n), NotSync
    PROVE  IInv'
<1>1. /\ pc \in [Threads -> Labels]
      /\ calls \in [Threads -> Nat]
      /\ wakeup_time \in [Threads -> Nat]
      /\ ticks \in Nat
      /\ ArgsOf(t)
  BY DEF IInv, TypeOK, ArgsOK
<1>2. n \in Nat
  BY TimerAssumption
<1>3. t = cur /\ OthersAlone(t)
  BY <1>1 DEF OthersAlone, SleepStart, At, Calls, Goto, cpuVars, structVars, modeVars,
     semaVars, lockVars, syncVars, NotSync
<1>4. CpuOK' /\ QueuesOK'
  <2>1. UNCHANGED <<cpuVars, wait_list, waiters>>
    BY DEF SleepStart, cpuVars, structVars, modeVars, semaVars, lockVars, syncVars,
       NotSync
  <2> QED BY <1>3, <2>1, QuietStep DEF IInv
<1>5. TypeOK'
  <2>1. UNCHANGED <<priority, orig_priority, sema_list, in_external_intr, ret, panic, ticks,
                   wait_list, value, waiters, holder, waiting, lk, sem, lp, cond_waiters>>
    BY DEF SleepStart, Calls, Goto, cpuVars, structVars, modeVars, semaVars, lockVars,
       syncVars, NotSync
  <2>2. /\ pc' \in [Threads -> Labels]
        /\ calls' \in [Threads -> Nat]
        /\ wakeup_time' \in [Threads -> Nat]
    BY <1>1, <1>2, SchedAssumption, SyncAssumption DEF ArgsOf, Labels, IntrOff,
       Semaphores, SleepStart, At, Calls, Goto, cpuVars, structVars, modeVars, semaVars,
       lockVars, syncVars, NotSync
  <2> QED BY <1>4, <2>1, <2>2 DEF IInv, TypeOK, CpuOK
<1>6. ArgsOf(t)'
  BY <1>1, <1>2, SchedAssumption, SyncAssumption DEF ArgsOf, Semaphores, SleepStart, At,
     Calls, Goto, cpuVars, structVars, modeVars, semaVars, lockVars, syncVars, NotSync
<1> QED BY <1>3, <1>4, <1>5, <1>6, ArgsAlone DEF IInv

\* timer_sleep, the return from thread_block.
LEMMA SleepReturnKeeps ==
    ASSUME IInv, NEW t \in Threads, SleepReturn(t), NotSync
    PROVE  IInv'
<1>1. /\ pc \in [Threads -> Labels]
      /\ ArgsOf(t)
  BY DEF IInv, TypeOK, ArgsOK
<1>2. t = cur /\ OthersAlone(t)
  BY <1>1 DEF OthersAlone, SleepReturn, At, Goto, cpuVars, structVars, modeVars,
     semaVars, lockVars, syncVars, timerVars, NotSync
<1>3. CpuOK' /\ QueuesOK'
  <2>1. UNCHANGED <<cpuVars, wait_list, waiters>>
    BY DEF SleepReturn, cpuVars, structVars, modeVars, semaVars, lockVars, syncVars,
       timerVars, NotSync
  <2> QED BY <1>2, <2>1, QuietStep DEF IInv
<1>4. TypeOK'
  <2>1. UNCHANGED <<priority, orig_priority, sema_list, in_external_intr, ret, panic, calls,
                   ticks, wait_list, wakeup_time, value, waiters, holder, waiting, lk,
                   sem, lp, cond_waiters>>
    BY DEF SleepReturn, Goto, cpuVars, structVars, modeVars, semaVars, lockVars,
       syncVars, timerVars, NotSync
  <2>2. pc' \in [Threads -> Labels]
    BY <1>1, SchedAssumption, SyncAssumption DEF ArgsOf, Labels, IntrOff, Semaphores,
       SleepReturn, At, Goto, cpuVars, structVars, modeVars, semaVars, lockVars,
       syncVars, timerVars, NotSync
  <2> QED BY <1>3, <2>1, <2>2 DEF IInv, TypeOK, CpuOK
<1>5. ArgsOf(t)'
  BY <1>1, SchedAssumption, SyncAssumption DEF ArgsOf, Semaphores, SleepReturn, At,
     Goto, cpuVars, structVars, modeVars, semaVars, lockVars, syncVars, timerVars,
     NotSync
<1> QED BY <1>2, <1>3, <1>4, <1>5, ArgsAlone DEF IInv

\* sema_try_down.
LEMMA SemaTryDownKeeps ==
    ASSUME IInv, NEW t \in Threads, NEW s \in Semas, SemaTryDown(t, s), NotTimer
    PROVE  IInv'
<1>1. /\ pc \in [Threads -> Labels]
      /\ calls \in [Threads -> Nat]
      /\ value \in [Semaphores -> Nat]
      /\ ArgsOf(t)
  BY DEF IInv, TypeOK, ArgsOK
<1>2. t = cur /\ OthersAlone(t)
  BY <1>1 DEF OthersAlone, SemaTryDown, At, Calls, CanDown, cpuVars, structVars,
     modeVars, lockVars, timerVars, NotTimer
<1>3. CpuOK' /\ QueuesOK'
  <2>1. UNCHANGED <<cpuVars, wait_list, waiters>>
    BY DEF SemaTryDown, cpuVars, structVars, modeVars, lockVars, timerVars, NotTimer
  <2> QED BY <1>2, <2>1, QuietStep DEF IInv
<1>4. TypeOK'
  <2>1. UNCHANGED <<priority, orig_priority, sema_list, in_external_intr, pc, ret, panic,
                   ticks, wait_list, wakeup_time, waiters, holder, waiting, lk, sem, lp,
                   cond_waiters>>
    BY DEF SemaTryDown, Calls, cpuVars, structVars, modeVars, lockVars, timerVars,
       NotTimer
  <2>2. /\ calls' \in [Threads -> Nat]
        /\ value' \in [Semaphores -> Nat]
    BY <1>1, SchedAssumption, SyncAssumption DEF ArgsOf, Labels, IntrOff, Semaphores,
       SemaTryDown, At, Calls, CanDown, cpuVars, structVars, modeVars, lockVars,
       timerVars, NotTimer
  <2> QED BY <1>3, <2>1, <2>2 DEF IInv, TypeOK, CpuOK
<1>5. ArgsOf(t)'
  BY <1>1, SchedAssumption, SyncAssumption DEF ArgsOf, Semaphores, SemaTryDown, At,
     Calls, CanDown, cpuVars, structVars, modeVars, lockVars, timerVars, NotTimer
<1> QED BY <1>2, <1>3, <1>4, <1>5, ArgsAlone DEF IInv

\* The calls of sema_down and sema_up.
LEMMA SemaCallKeeps ==
    ASSUME IInv, NEW t \in Threads, NEW s \in Semas, NEW l \in {"down", "up"},
           SemaCall(t, s, l), NotTimer
    PROVE  IInv'
<1>1. /\ pc \in [Threads -> Labels]
      /\ ret \in [Threads -> {"run", "cond_wait", "broadcast"}]
      /\ calls \in [Threads -> Nat]
      /\ sem \in [Threads -> Semaphores \cup {None}]
      /\ ArgsOf(t)
  BY DEF IInv, TypeOK, ArgsOK
<1>2. t = cur /\ OthersAlone(t)
  BY <1>1 DEF OthersAlone, SemaCall, At, Calls, Goto, cpuVars, structVars, modeVars,
     semaVars, lockVars, timerVars, NotTimer
<1>3. CpuOK' /\ QueuesOK'
  <2>1. UNCHANGED <<cpuVars, wait_list, waiters>>
    BY DEF SemaCall, cpuVars, structVars, modeVars, semaVars, lockVars, timerVars,
       NotTimer
  <2> QED BY <1>2, <2>1, QuietStep DEF IInv
<1>4. TypeOK'
  <2>1. UNCHANGED <<priority, orig_priority, sema_list, in_external_intr, panic, ticks,
                   wait_list, wakeup_time, value, waiters, holder, waiting, lk, lp,
                   cond_waiters>>
    BY DEF SemaCall, Calls, Goto, cpuVars, structVars, modeVars, semaVars, lockVars,
       timerVars, NotTimer
  <2>2. /\ pc' \in [Threads -> Labels]
        /\ ret' \in [Threads -> {"run", "cond_wait", "broadcast"}]
        /\ calls' \in [Threads -> Nat]
        /\ sem' \in [Threads -> Semaphores \cup {None}]
    BY <1>1, SchedAssumption, SyncAssumption DEF ArgsOf, Labels, IntrOff, Semaphores,
       SemaCall, At, Calls, Goto, cpuVars, structVars, modeVars, semaVars, lockVars,
       timerVars, NotTimer
  <2> QED BY <1>3, <2>1, <2>2 DEF IInv, TypeOK, CpuOK
<1>5. ArgsOf(t)'
  BY <1>1, SchedAssumption, SyncAssumption DEF ArgsOf, Semaphores, SemaCall, At, Calls,
     Goto, cpuVars, structVars, modeVars, semaVars, lockVars, timerVars, NotTimer
<1> QED BY <1>2, <1>3, <1>4, <1>5, ArgsAlone DEF IInv

\* lock_acquire, the first test of the holder.
LEMMA LockAcquireKeeps ==
    ASSUME IInv, NEW t \in Threads, NEW l \in Locks, LockAcquire(t, l), NotTimer
    PROVE  IInv'
<1>1. /\ pc \in [Threads -> Labels]
      /\ calls \in [Threads -> Nat]
      /\ waiting \in [Threads -> Locks \cup {None}]
      /\ lk \in [Threads -> Locks \cup {None}]
      /\ sem \in [Threads -> Semaphores \cup {None}]
      /\ ArgsOf(t)
  BY DEF IInv, TypeOK, ArgsOK
<1>2. t = cur /\ OthersAlone(t)
  BY <1>1 DEF OthersAlone, LockAcquire, At, Calls, Goto, StartAcquire, cpuVars,
     structVars, modeVars, semaVars, timerVars, NotTimer
<1>3. CpuOK' /\ QueuesOK'
  <2>1. UNCHANGED <<cpuVars, wait_list, waiters>>
    BY DEF LockAcquire, StartAcquire, cpuVars, structVars, modeVars, semaVars,
       timerVars, NotTimer
  <2> QED BY <1>2, <2>1, QuietStep DEF IInv
<1>4. TypeOK'
  <2>1. UNCHANGED <<priority, orig_priority, sema_list, in_external_intr, ret, panic, ticks,
                   wait_list, wakeup_time, value, waiters, holder, lp, cond_waiters>>
    BY DEF LockAcquire, Calls, Goto, StartAcquire, cpuVars, structVars, modeVars,
       semaVars, timerVars, NotTimer
  <2>2. /\ pc' \in [Threads -> Labels]
        /\ calls' \in [Threads -> Nat]
        /\ waiting' \in [Threads -> Locks \cup {None}]
        /\ lk' \in [Threads -> Locks \cup {None}]
        /\ sem' \in [Threads -> Semaphores \cup {None}]
    BY <1>1, SchedAssumption, SyncAssumption DEF ArgsOf, Labels, IntrOff, Semaphores,
       LockAcquire, At, Calls, Goto, StartAcquire, cpuVars, structVars, modeVars,
       semaVars, timerVars, NotTimer
  <2> QED BY <1>3, <2>1, <2>2 DEF IInv, TypeOK, CpuOK
<1>5. ArgsOf(t)'
  BY <1>1, SchedAssumption, SyncAssumption DEF ArgsOf, Semaphores, LockAcquire, At,
     Calls, Goto, StartAcquire, cpuVars, structVars, modeVars, semaVars, timerVars,
     NotTimer
<1> QED BY <1>2, <1>3, <1>4, <1>5, ArgsAlone DEF IInv

\* lock_acquire, the comparison of priorities.
LEMMA CompareKeeps ==
    ASSUME IInv, NEW t \in Threads, Compare(t), NotTimer
    PROVE  IInv'
<1>1. /\ pc \in [Threads -> Labels]
      /\ panic \in {"no", "list_front", "null holder"}
      /\ lk \in [Threads -> Locks \cup {None}]
      /\ sem \in [Threads -> Semaphores \cup {None}]
      /\ ArgsOf(t)
  BY DEF IInv, TypeOK, ArgsOK
<1>2. t = cur /\ OthersAlone(t)
  BY <1>1 DEF OthersAlone, Compare, At, Goto, Panic, ReadHolder, DonationUnchanged,
     cpuVars, semaVars, lockVars, timerVars, NotTimer
<1>3. CpuOK' /\ QueuesOK'
  <2>1. UNCHANGED <<cpuVars, wait_list, waiters>>
    BY DEF Compare, DonationUnchanged, cpuVars, semaVars, lockVars, timerVars, NotTimer
  <2> QED BY <1>2, <2>1, QuietStep DEF IInv
<1>4. TypeOK'
  <2>1. UNCHANGED <<priority, orig_priority, sema_list, in_external_intr, ret, calls, ticks,
                   wait_list, wakeup_time, value, waiters, holder, waiting, lk, sem, lp,
                   cond_waiters>>
    BY DEF Compare, Goto, Panic, ReadHolder, DonationUnchanged, cpuVars, semaVars,
       lockVars, timerVars, NotTimer
  <2>2. /\ pc' \in [Threads -> Labels]
        /\ panic' \in {"no", "list_front", "null holder"}
    BY <1>1, SchedAssumption, SyncAssumption DEF ArgsOf, Labels, IntrOff, Semaphores,
       Compare, At, Goto, Panic, ReadHolder, DonationUnchanged, cpuVars, semaVars,
       lockVars, timerVars, NotTimer
  <2> QED BY <1>3, <2>1, <2>2 DEF IInv, TypeOK, CpuOK
<1>5. ArgsOf(t)'
  BY <1>1, SchedAssumption, SyncAssumption DEF ArgsOf, Semaphores, Compare, At, Goto,
     Panic, ReadHolder, DonationUnchanged, cpuVars, semaVars, lockVars, timerVars,
     NotTimer
<1> QED BY <1>2, <1>3, <1>4, <1>5, ArgsAlone DEF IInv

\* lock_acquire, the donation to the holder.
LEMMA DonateKeeps ==
    ASSUME IInv, NEW t \in Threads, Donate(t), NotTimer
    PROVE  IInv'
<1>1. /\ pc \in [Threads -> Labels]
      /\ panic \in {"no", "list_front", "null holder"}
      /\ priority \in [Threads -> Priorities]
      /\ lp \in [Threads -> Locks \cup {None}]
      /\ lk \in [Threads -> Locks \cup {None}]
      /\ holder \in [Locks -> Threads \cup {None}]
      /\ ArgsOf(t)
  BY DEF IInv, TypeOK, ArgsOK
<1>2. holder[lk[t]] # None => Donation(t, holder[lk[t]]) \in Priorities
  <2>1. lk[t] \in Locks
    BY <1>1 DEF ArgsOf, Donate, At
  <2>2. SUFFICES ASSUME holder[lk[t]] # None PROVE Donation(t, holder[lk[t]]) \in Priorities
    OBVIOUS
  <2>3. holder[lk[t]] \in Threads
    BY <1>1, <2>1, <2>2
  <2> QED BY <2>3, DonationType DEF IInv
<1>3. t = cur /\ OthersAlone(t)
  BY <1>1 DEF OthersAlone, Donate, At, Goto, Panic, ReadHolder, DonationUnchanged,
     cpuVars, semaVars, lockVars, timerVars, NotTimer
<1>4. CpuOK' /\ QueuesOK'
  <2>1. UNCHANGED <<cpuVars, wait_list, waiters>>
    BY DEF Donate, DonationUnchanged, cpuVars, semaVars, lockVars, timerVars, NotTimer
  <2> QED BY <1>3, <2>1, QuietStep DEF IInv
<1>5. TypeOK'
  <2>1. UNCHANGED <<orig_priority, sema_list, in_external_intr, ret, calls, ticks, wait_list,
                   wakeup_time, value, waiters, holder, waiting, lk, sem, cond_waiters>>
    BY DEF Donate, Goto, Panic, ReadHolder, DonationUnchanged, cpuVars, semaVars,
       lockVars, timerVars, NotTimer
  <2>2. /\ pc' \in [Threads -> Labels]
        /\ panic' \in {"no", "list_front", "null holder"}
        /\ priority' \in [Threads -> Priorities]
        /\ lp' \in [Threads -> Locks \cup {None}]
    <3>1. CASE holder[lk[t]] = None
      BY <1>1, <1>2, <3>1 DEF Labels, IntrOff, Donate, At, Goto, Panic, ReadHolder,
         DonationUnchanged, cpuVars, semaVars, lockVars, timerVars, NotTimer
    <3>2. CASE holder[lk[t]] # None
      BY <1>1, <1>2, <3>2 DEF Labels, IntrOff, Donate, At, Goto, Panic, ReadHolder,
         DonationUnchanged, cpuVars, semaVars, lockVars, timerVars, NotTimer
    <3> QED BY <3>1, <3>2
  <2> QED BY <1>4, <2>1, <2>2 DEF IInv, TypeOK, CpuOK
<1>6. ArgsOf(t)'
  BY <1>1, <1>2, SchedAssumption, SyncAssumption DEF ArgsOf, Semaphores, Donate, At,
     Goto, Panic, ReadHolder, DonationUnchanged, cpuVars, semaVars, lockVars, timerVars,
     NotTimer
<1> QED BY <1>3, <1>4, <1>5, <1>6, ArgsAlone DEF IInv

\* lock_acquire, the head of the nested donation loop.
LEMMA ChainKeeps ==
    ASSUME IInv, NEW t \in Threads, Chain(t), NotTimer
    PROVE  IInv'
<1>1. /\ pc \in [Threads -> Labels]
      /\ panic \in {"no", "list_front", "null holder"}
      /\ lp \in [Threads -> Locks \cup {None}]
      /\ waiting \in [Threads -> Locks \cup {None}]
      /\ holder \in [Locks -> Threads \cup {None}]
      /\ ArgsOf(t)
  BY DEF IInv, TypeOK, ArgsOK
<1>2. lp[t] \in Locks /\ (holder[lp[t]] # None => waiting[holder[lp[t]]] \in Locks \cup {None})
  BY <1>1 DEF ArgsOf, Chain, At
<1>3. t = cur /\ OthersAlone(t)
  BY <1>1 DEF OthersAlone, Chain, At, Goto, Panic, ReadHolder, DonationUnchanged,
     cpuVars, semaVars, lockVars, timerVars, NotTimer
<1>4. CpuOK' /\ QueuesOK'
  <2>1. UNCHANGED <<cpuVars, wait_list, waiters>>
    BY DEF Chain, DonationUnchanged, cpuVars, semaVars, lockVars, timerVars, NotTimer
  <2> QED BY <1>3, <2>1, QuietStep DEF IInv
<1>5. TypeOK'
  <2>1. UNCHANGED <<priority, orig_priority, sema_list, in_external_intr, ret, calls, ticks,
                   wait_list, wakeup_time, value, waiters, holder, waiting, lk, sem,
                   cond_waiters>>
    BY DEF Chain, Goto, Panic, ReadHolder, DonationUnchanged, cpuVars, semaVars,
       lockVars, timerVars, NotTimer
  <2>2. /\ pc' \in [Threads -> Labels]
        /\ panic' \in {"no", "list_front", "null holder"}
        /\ lp' \in [Threads -> Locks \cup {None}]
    BY <1>1, <1>2, SchedAssumption, SyncAssumption, ZenonT(60) DEF ArgsOf, Labels, IntrOff,
       Semaphores, Chain, At, Goto, Panic, ReadHolder, DonationUnchanged, cpuVars,
       semaVars, lockVars, timerVars, NotTimer
  <2> QED BY <1>4, <2>1, <2>2 DEF IInv, TypeOK, CpuOK
<1>6. ArgsOf(t)'
  BY <1>1, <1>2, SchedAssumption, SyncAssumption, ZenonT(60) DEF ArgsOf, Semaphores, Chain, At,
     Goto, Panic, ReadHolder, DonationUnchanged, cpuVars, semaVars, lockVars, timerVars,
     NotTimer
<1> QED BY <1>3, <1>4, <1>5, <1>6, ArgsAlone DEF IInv

\* lock_acquire, the body of the nested donation loop.
LEMMA ChainDonateKeeps ==
    ASSUME IInv, NEW t \in Threads, ChainDonate(t), NotTimer
    PROVE  IInv'
<1>1. /\ pc \in [Threads -> Labels]
      /\ panic \in {"no", "list_front", "null holder"}
      /\ priority \in [Threads -> Priorities]
      /\ lp \in [Threads -> Locks \cup {None}]
      /\ holder \in [Locks -> Threads \cup {None}]
      /\ ArgsOf(t)
  BY DEF IInv, TypeOK, ArgsOK
<1>2. holder[lp[t]] # None => Donation(t, holder[lp[t]]) \in Priorities
  <2>1. lp[t] \in Locks
    BY <1>1 DEF ArgsOf, ChainDonate, At
  <2>2. SUFFICES ASSUME holder[lp[t]] # None PROVE Donation(t, holder[lp[t]]) \in Priorities
    OBVIOUS
  <2>3. holder[lp[t]] \in Threads
    BY <1>1, <2>1, <2>2
  <2> QED BY <2>3, DonationType DEF IInv
<1>3. t = cur /\ OthersAlone(t)
  BY <1>1 DEF OthersAlone, ChainDonate, At, Goto, Panic, ReadHolder, DonationUnchanged,
     cpuVars, semaVars, lockVars, timerVars, NotTimer
<1>4. CpuOK' /\ QueuesOK'
  <2>1. UNCHANGED <<cpuVars, wait_list, waiters>>
    BY DEF ChainDonate, DonationUnchanged, cpuVars, semaVars, lockVars, timerVars,
       NotTimer
  <2> QED BY <1>3, <2>1, QuietStep DEF IInv
<1>5. TypeOK'
  <2>1. UNCHANGED <<orig_priority, sema_list, in_external_intr, ret, calls, ticks, wait_list,
                   wakeup_time, value, waiters, holder, waiting, lk, sem, lp,
                   cond_waiters>>
    BY DEF ChainDonate, Goto, Panic, ReadHolder, DonationUnchanged, cpuVars, semaVars,
       lockVars, timerVars, NotTimer
  <2>2. /\ pc' \in [Threads -> Labels]
        /\ panic' \in {"no", "list_front", "null holder"}
        /\ priority' \in [Threads -> Priorities]
    <3>1. CASE holder[lp[t]] = None
      BY <1>1, <1>2, <3>1 DEF Labels, IntrOff, ChainDonate, At, Goto, Panic, ReadHolder,
         DonationUnchanged, cpuVars, semaVars, lockVars, timerVars, NotTimer
    <3>2. CASE holder[lp[t]] # None
      BY <1>1, <1>2, <3>2 DEF Labels, IntrOff, ChainDonate, At, Goto, Panic, ReadHolder,
         DonationUnchanged, cpuVars, semaVars, lockVars, timerVars, NotTimer
    <3> QED BY <3>1, <3>2
  <2> QED BY <1>4, <2>1, <2>2 DEF IInv, TypeOK, CpuOK
<1>6. ArgsOf(t)'
  BY <1>1, <1>2, SchedAssumption, SyncAssumption DEF ArgsOf, Semaphores, ChainDonate,
     At, Goto, Panic, ReadHolder, DonationUnchanged, cpuVars, semaVars, lockVars,
     timerVars, NotTimer
<1> QED BY <1>3, <1>4, <1>5, <1>6, ArgsAlone DEF IInv

\* lock_acquire, the bookkeeping after sema_down.
LEMMA TakeKeeps ==
    ASSUME IInv, NEW t \in Threads, Take(t), NotTimer
    PROVE  IInv'
<1>1. /\ pc \in [Threads -> Labels]
      /\ waiting \in [Threads -> Locks \cup {None}]
      /\ sema_list \in [Threads -> SUBSET Locks]
      /\ lk \in [Threads -> Locks \cup {None}]
      /\ ArgsOf(t)
  BY DEF IInv, TypeOK, ArgsOK
<1>2. t = cur /\ OthersAlone(t)
  BY <1>1 DEF OthersAlone, Take, At, Goto, cpuVars, modeVars, semaVars, timerVars,
     NotTimer
<1>3. CpuOK' /\ QueuesOK'
  <2>1. UNCHANGED <<cpuVars, wait_list, waiters>>
    BY DEF Take, cpuVars, modeVars, semaVars, timerVars, NotTimer
  <2> QED BY <1>2, <2>1, QuietStep DEF IInv
<1>4. TypeOK'
  <2>1. UNCHANGED <<priority, orig_priority, in_external_intr, ret, panic, calls, ticks,
                   wait_list, wakeup_time, value, waiters, holder, lk, sem, lp,
                   cond_waiters>>
    BY DEF Take, Goto, cpuVars, modeVars, semaVars, timerVars, NotTimer
  <2>2. /\ pc' \in [Threads -> Labels]
        /\ waiting' \in [Threads -> Locks \cup {None}]
        /\ sema_list' \in [Threads -> SUBSET Locks]
    BY <1>1, SchedAssumption, SyncAssumption DEF ArgsOf, Labels, IntrOff, Semaphores,
       Take, At, Goto, cpuVars, modeVars, semaVars, timerVars, NotTimer
  <2> QED BY <1>3, <2>1, <2>2 DEF IInv, TypeOK, CpuOK
<1>5. ArgsOf(t)'
  BY <1>1, SchedAssumption, SyncAssumption DEF ArgsOf, Semaphores, Take, At, Goto,
     cpuVars, modeVars, semaVars, timerVars, NotTimer
<1> QED BY <1>2, <1>3, <1>4, <1>5, ArgsAlone DEF IInv

\* lock_acquire, the holder.
LEMMA OwnKeeps ==
    ASSUME IInv, NEW t \in Threads, Own(t), NotTimer
    PROVE  IInv'
<1>1. /\ pc \in [Threads -> Labels]
      /\ holder \in [Locks -> Threads \cup {None}]
      /\ lk \in [Threads -> Locks \cup {None}]
      /\ ArgsOf(t)
  BY DEF IInv, TypeOK, ArgsOK
<1>2. t = cur /\ OthersAlone(t)
  BY <1>1 DEF OthersAlone, Own, At, Goto, cpuVars, structVars, modeVars, semaVars,
     timerVars, NotTimer
<1>3. CpuOK' /\ QueuesOK'
  <2>1. UNCHANGED <<cpuVars, wait_list, waiters>>
    BY DEF Own, cpuVars, structVars, modeVars, semaVars, timerVars, NotTimer
  <2> QED BY <1>2, <2>1, QuietStep DEF IInv
<1>4. TypeOK'
  <2>1. UNCHANGED <<priority, orig_priority, sema_list, in_external_intr, ret, panic, calls,
                   ticks, wait_list, wakeup_time, value, waiters, waiting, lk, sem, lp,
                   cond_waiters>>
    BY DEF Own, Goto, cpuVars, structVars, modeVars, semaVars, timerVars, NotTimer
  <2>2. /\ pc' \in [Threads -> Labels]
        /\ holder' \in [Locks -> Threads \cup {None}]
    BY <1>1, SchedAssumption, SyncAssumption DEF ArgsOf, Labels, IntrOff, Semaphores,
       Own, At, Goto, cpuVars, structVars, modeVars, semaVars, timerVars, NotTimer
  <2> QED BY <1>3, <2>1, <2>2 DEF IInv, TypeOK, CpuOK
<1>5. ArgsOf(t)'
  BY <1>1, SchedAssumption, SyncAssumption DEF ArgsOf, Semaphores, Own, At, Goto,
     cpuVars, structVars, modeVars, semaVars, timerVars, NotTimer
<1> QED BY <1>2, <1>3, <1>4, <1>5, ArgsAlone DEF IInv

\* lock_release, the list of acquired locks.
LEMMA LockReleaseKeeps ==
    ASSUME IInv, NEW t \in Threads, NEW l \in Locks, LockRelease(t, l), NotTimer
    PROVE  IInv'
<1>1. /\ pc \in [Threads -> Labels]
      /\ ret \in [Threads -> {"run", "cond_wait", "broadcast"}]
      /\ sema_list \in [Threads -> SUBSET Locks]
      /\ lk \in [Threads -> Locks \cup {None}]
      /\ sem \in [Threads -> Semaphores \cup {None}]
      /\ ArgsOf(t)
  BY DEF IInv, TypeOK, ArgsOK
<1>2. t = cur /\ OthersAlone(t)
  BY <1>1 DEF OthersAlone, LockRelease, At, Goto, StartRelease, cpuVars, modeVars,
     semaVars, lockVars, timerVars, NotTimer
<1>3. CpuOK' /\ QueuesOK'
  <2>1. UNCHANGED <<cpuVars, wait_list, waiters>>
    BY DEF LockRelease, StartRelease, cpuVars, modeVars, semaVars, lockVars, timerVars,
       NotTimer
  <2> QED BY <1>2, <2>1, QuietStep DEF IInv
<1>4. TypeOK'
  <2>1. UNCHANGED <<priority, orig_priority, in_external_intr, panic, calls, ticks, wait_list,
                   wakeup_time, value, waiters, holder, waiting, lp, cond_waiters>>
    BY DEF LockRelease, Goto, StartRelease, cpuVars, modeVars, semaVars, lockVars,
       timerVars, NotTimer
  <2>2. /\ pc' \in [Threads -> Labels]
        /\ ret' \in [Threads -> {"run", "cond_wait", "broadcast"}]
        /\ sema_list' \in [Threads -> SUBSET Locks]
        /\ lk' \in [Threads -> Locks \cup {None}]
        /\ sem' \in [Threads -> Semaphores \cup {None}]
    BY <1>1, SchedAssumption, SyncAssumption DEF ArgsOf, Labels, IntrOff, Semaphores,
       LockRelease, At, Goto, StartRelease, cpuVars, modeVars, semaVars, lockVars,
       timerVars, NotTimer
  <2> QED BY <1>3, <2>1, <2>2 DEF IInv, TypeOK, CpuOK
<1>5. ArgsOf(t)'
  BY <1>1, SchedAssumption, SyncAssumption DEF ArgsOf, Semaphores, LockRelease, At,
     Goto, StartRelease, cpuVars, modeVars, semaVars, lockVars, timerVars, NotTimer
<1> QED BY <1>2, <1>3, <1>4, <1>5, ArgsAlone DEF IInv

\* lock_release, the holder.
LEMMA UnholdKeeps ==
    ASSUME IInv, NEW t \in Threads, Unhold(t), NotTimer
    PROVE  IInv'
<1>1. /\ pc \in [Threads -> Labels]
      /\ holder \in [Locks -> Threads \cup {None}]
      /\ ArgsOf(t)
  BY DEF IInv, TypeOK, ArgsOK
<1>2. t = cur /\ OthersAlone(t)
  BY <1>1 DEF OthersAlone, Unhold, At, Goto, cpuVars, structVars, modeVars, semaVars,
     timerVars, NotTimer
<1>3. CpuOK' /\ QueuesOK'
  <2>1. UNCHANGED <<cpuVars, wait_list, waiters>>
    BY DEF Unhold, cpuVars, structVars, modeVars, semaVars, timerVars, NotTimer
  <2> QED BY <1>2, <2>1, QuietStep DEF IInv
<1>4. TypeOK'
  <2>1. UNCHANGED <<priority, orig_priority, sema_list, in_external_intr, ret, panic, calls,
                   ticks, wait_list, wakeup_time, value, waiters, waiting, lk, sem, lp,
                   cond_waiters>>
    BY DEF Unhold, Goto, cpuVars, structVars, modeVars, semaVars, timerVars, NotTimer
  <2>2. /\ pc' \in [Threads -> Labels]
        /\ holder' \in [Locks -> Threads \cup {None}]
    BY <1>1, SchedAssumption, SyncAssumption DEF ArgsOf, Labels, IntrOff, Semaphores,
       Unhold, At, Goto, cpuVars, structVars, modeVars, semaVars, timerVars, NotTimer
  <2> QED BY <1>3, <2>1, <2>2 DEF IInv, TypeOK, CpuOK
<1>5. ArgsOf(t)'
  BY <1>1, SchedAssumption, SyncAssumption DEF ArgsOf, Semaphores, Unhold, At, Goto,
     cpuVars, structVars, modeVars, semaVars, timerVars, NotTimer
<1> QED BY <1>2, <1>3, <1>4, <1>5, ArgsAlone DEF IInv

\* cond_wait, the list of waiters and lock_release.
LEMMA CondWaitKeeps ==
    ASSUME IInv, NEW t \in Threads, CondWait(t), NotTimer
    PROVE  IInv'
<1>1. /\ pc \in [Threads -> Labels]
      /\ ret \in [Threads -> {"run", "cond_wait", "broadcast"}]
      /\ calls \in [Threads -> Nat]
      /\ sema_list \in [Threads -> SUBSET Locks]
      /\ lk \in [Threads -> Locks \cup {None}]
      /\ sem \in [Threads -> Semaphores \cup {None}]
      /\ cond_waiters \in Seq([thread : Threads, priority : Priorities])
      /\ priority \in [Threads -> Priorities]
      /\ ArgsOf(t)
  BY DEF IInv, TypeOK, ArgsOK
<1>2. cond_waiters' \in Seq([thread : Threads, priority : Priorities])
  <2>1. [thread |-> t, priority |-> priority[t]] \in [thread : Threads, priority : Priorities]
    BY <1>1
  <2> QED BY <1>1, <2>1, InsertOrderedElements DEF CondWait
<1>3. t = cur /\ OthersAlone(t)
  BY <1>1 DEF OthersAlone, CondWait, At, Calls, Goto, StartRelease, cpuVars, modeVars,
     semaVars, lockVars, timerVars, NotTimer
<1>4. CpuOK' /\ QueuesOK'
  <2>1. UNCHANGED <<cpuVars, wait_list, waiters>>
    BY DEF CondWait, StartRelease, cpuVars, modeVars, semaVars, lockVars, timerVars,
       NotTimer
  <2> QED BY <1>3, <2>1, QuietStep DEF IInv
<1>5. TypeOK'
  <2>1. UNCHANGED <<priority, orig_priority, in_external_intr, panic, ticks, wait_list,
                   wakeup_time, value, waiters, holder, waiting, lp>>
    BY DEF CondWait, Calls, Goto, StartRelease, cpuVars, modeVars, semaVars, lockVars,
       timerVars, NotTimer
  <2>2. /\ pc' \in [Threads -> Labels]
        /\ ret' \in [Threads -> {"run", "cond_wait", "broadcast"}]
        /\ calls' \in [Threads -> Nat]
        /\ sema_list' \in [Threads -> SUBSET Locks]
        /\ lk' \in [Threads -> Locks \cup {None}]
        /\ sem' \in [Threads -> Semaphores \cup {None}]
        /\ cond_waiters' \in Seq([thread : Threads, priority : Priorities])
    BY <1>1, <1>2, SchedAssumption, SyncAssumption DEF ArgsOf, Labels, IntrOff,
       Semaphores, CondWait, At, Calls, Goto, StartRelease, cpuVars, modeVars, semaVars,
       lockVars, timerVars, NotTimer
  <2> QED BY <1>4, <2>1, <2>2 DEF IInv, TypeOK, CpuOK
<1>6. ArgsOf(t)'
  BY <1>1, <1>2, SchedAssumption, SyncAssumption DEF ArgsOf, Semaphores, CondWait, At,
     Calls, Goto, StartRelease, cpuVars, modeVars, semaVars, lockVars, timerVars,
     NotTimer
<1> QED BY <1>3, <1>4, <1>5, <1>6, ArgsAlone DEF IInv

\* cond_wait, its call of sema_down.
LEMMA CondDownKeeps ==
    ASSUME IInv, NEW t \in Threads, CondDown(t), NotTimer
    PROVE  IInv'
<1>1. /\ pc \in [Threads -> Labels]
      /\ sem \in [Threads -> Semaphores \cup {None}]
      /\ ArgsOf(t)
  BY DEF IInv, TypeOK, ArgsOK
<1>2. t = cur /\ OthersAlone(t)
  BY <1>1 DEF OthersAlone, CondDown, At, Goto, cpuVars, structVars, modeVars, semaVars,
     lockVars, timerVars, NotTimer
<1>3. CpuOK' /\ QueuesOK'
  <2>1. UNCHANGED <<cpuVars, wait_list, waiters>>
    BY DEF CondDown, cpuVars, structVars, modeVars, semaVars, lockVars, timerVars,
       NotTimer
  <2> QED BY <1>2, <2>1, QuietStep DEF IInv
<1>4. TypeOK'
  <2>1. UNCHANGED <<priority, orig_priority, sema_list, in_external_intr, ret, panic, calls,
                   ticks, wait_list, wakeup_time, value, waiters, holder, waiting, lk,
                   lp, cond_waiters>>
    BY DEF CondDown, Goto, cpuVars, structVars, modeVars, semaVars, lockVars, timerVars,
       NotTimer
  <2>2. /\ pc' \in [Threads -> Labels]
        /\ sem' \in [Threads -> Semaphores \cup {None}]
    BY <1>1, SchedAssumption, SyncAssumption DEF ArgsOf, Labels, IntrOff, Semaphores,
       CondDown, At, Goto, cpuVars, structVars, modeVars, semaVars, lockVars, timerVars,
       NotTimer
  <2> QED BY <1>3, <2>1, <2>2 DEF IInv, TypeOK, CpuOK
<1>5. ArgsOf(t)'
  BY <1>1, SchedAssumption, SyncAssumption DEF ArgsOf, Semaphores, CondDown, At, Goto,
     cpuVars, structVars, modeVars, semaVars, lockVars, timerVars, NotTimer
<1> QED BY <1>2, <1>3, <1>4, <1>5, ArgsAlone DEF IInv

\* cond_wait, its call of lock_acquire.
LEMMA CondReacquireKeeps ==
    ASSUME IInv, NEW t \in Threads, CondReacquire(t), NotTimer
    PROVE  IInv'
<1>1. /\ pc \in [Threads -> Labels]
      /\ waiting \in [Threads -> Locks \cup {None}]
      /\ lk \in [Threads -> Locks \cup {None}]
      /\ sem \in [Threads -> Semaphores \cup {None}]
      /\ ArgsOf(t)
  BY DEF IInv, TypeOK, ArgsOK
<1>2. t = cur /\ OthersAlone(t)
  BY <1>1 DEF OthersAlone, CondReacquire, At, Goto, StartAcquire, cpuVars, structVars,
     modeVars, semaVars, timerVars, NotTimer
<1>3. CpuOK' /\ QueuesOK'
  <2>1. UNCHANGED <<cpuVars, wait_list, waiters>>
    BY DEF CondReacquire, StartAcquire, cpuVars, structVars, modeVars, semaVars,
       timerVars, NotTimer
  <2> QED BY <1>2, <2>1, QuietStep DEF IInv
<1>4. TypeOK'
  <2>1. UNCHANGED <<priority, orig_priority, sema_list, in_external_intr, ret, panic, calls,
                   ticks, wait_list, wakeup_time, value, waiters, holder, lp,
                   cond_waiters>>
    BY DEF CondReacquire, Goto, StartAcquire, cpuVars, structVars, modeVars, semaVars,
       timerVars, NotTimer
  <2>2. /\ pc' \in [Threads -> Labels]
        /\ waiting' \in [Threads -> Locks \cup {None}]
        /\ lk' \in [Threads -> Locks \cup {None}]
        /\ sem' \in [Threads -> Semaphores \cup {None}]
    BY <1>1, SchedAssumption, SyncAssumption DEF ArgsOf, Labels, IntrOff, Semaphores,
       CondReacquire, At, Goto, StartAcquire, cpuVars, structVars, modeVars, semaVars,
       timerVars, NotTimer
  <2> QED BY <1>3, <2>1, <2>2 DEF IInv, TypeOK, CpuOK
<1>5. ArgsOf(t)'
  BY <1>1, SchedAssumption, SyncAssumption DEF ArgsOf, Semaphores, CondReacquire, At,
     Goto, StartAcquire, cpuVars, structVars, modeVars, semaVars, timerVars, NotTimer
<1> QED BY <1>2, <1>3, <1>4, <1>5, ArgsAlone DEF IInv

\* cond_signal.
LEMMA CondSignalKeeps ==
    ASSUME IInv, NEW t \in Threads, CondSignal(t), NotTimer
    PROVE  IInv'
<1>1. /\ pc \in [Threads -> Labels]
      /\ ret \in [Threads -> {"run", "cond_wait", "broadcast"}]
      /\ calls \in [Threads -> Nat]
      /\ sem \in [Threads -> Semaphores \cup {None}]
      /\ cond_waiters \in Seq([thread : Threads, priority : Priorities])
      /\ ArgsOf(t)
  BY DEF IInv, TypeOK, ArgsOK
<1>2. /\ cond_waiters' \in Seq([thread : Threads, priority : Priorities])
      /\ Head(cond_waiters).thread \in Threads
  <2>1. cond_waiters # <<>>
    BY DEF CondSignal
  <2>2. /\ Head(cond_waiters) \in [thread : Threads, priority : Priorities]
        /\ Tail(cond_waiters) \in Seq([thread : Threads, priority : Priorities])
    BY <1>1, <2>1, HeadTailProperties
  <2> QED BY <2>2 DEF CondSignal, PopAndUp, CondPopped
<1>3. t = cur /\ OthersAlone(t)
  BY <1>1 DEF OthersAlone, CondSignal, At, Calls, Goto, PopAndUp, cpuVars, structVars,
     modeVars, semaVars, lockVars, timerVars, NotTimer
<1>4. CpuOK' /\ QueuesOK'
  <2>1. UNCHANGED <<cpuVars, wait_list, waiters>>
    BY DEF CondSignal, PopAndUp, cpuVars, structVars, modeVars, semaVars, lockVars,
       timerVars, NotTimer
  <2> QED BY <1>3, <2>1, QuietStep DEF IInv
<1>5. TypeOK'
  <2>1. UNCHANGED <<priority, orig_priority, sema_list, in_external_intr, panic, ticks,
                   wait_list, wakeup_time, value, waiters, holder, waiting, lk, lp>>
    BY DEF CondSignal, Calls, Goto, PopAndUp, cpuVars, structVars, modeVars, semaVars,
       lockVars, timerVars, NotTimer
  <2>2. /\ pc' \in [Threads -> Labels]
        /\ ret' \in [Threads -> {"run", "cond_wait", "broadcast"}]
        /\ calls' \in [Threads -> Nat]
        /\ sem' \in [Threads -> Semaphores \cup {None}]
        /\ cond_waiters' \in Seq([thread : Threads, priority : Priorities])
    BY <1>1, <1>2, SchedAssumption, SyncAssumption, SMTT(30) DEF ArgsOf, Labels, IntrOff,
       Semaphores, CondSignal, At, Calls, Goto, PopAndUp, cpuVars, structVars, modeVars,
       semaVars, lockVars, timerVars, NotTimer
  <2> QED BY <1>4, <2>1, <2>2 DEF IInv, TypeOK, CpuOK
<1>6. ArgsOf(t)'
  BY <1>1, <1>2, SchedAssumption, SyncAssumption DEF ArgsOf, Semaphores, CondSignal, At,
     Calls, Goto, PopAndUp, cpuVars, structVars, modeVars, semaVars, lockVars,
     timerVars, NotTimer
<1> QED BY <1>3, <1>4, <1>5, <1>6, ArgsAlone DEF IInv

\* The call of cond_broadcast.
LEMMA CondBroadcastKeeps ==
    ASSUME IInv, NEW t \in Threads, CondBroadcast(t), NotTimer
    PROVE  IInv'
<1>1. /\ pc \in [Threads -> Labels]
      /\ calls \in [Threads -> Nat]
      /\ ArgsOf(t)
  BY DEF IInv, TypeOK, ArgsOK
<1>2. t = cur /\ OthersAlone(t)
  BY <1>1 DEF OthersAlone, CondBroadcast, At, Calls, Goto, cpuVars, structVars,
     modeVars, semaVars, lockVars, syncVars, timerVars, NotTimer
<1>3. CpuOK' /\ QueuesOK'
  <2>1. UNCHANGED <<cpuVars, wait_list, waiters>>
    BY DEF CondBroadcast, cpuVars, structVars, modeVars, semaVars, lockVars, syncVars,
       timerVars, NotTimer
  <2> QED BY <1>2, <2>1, QuietStep DEF IInv
<1>4. TypeOK'
  <2>1. UNCHANGED <<priority, orig_priority, sema_list, in_external_intr, ret, panic, ticks,
                   wait_list, wakeup_time, value, waiters, holder, waiting, lk, sem, lp,
                   cond_waiters>>
    BY DEF CondBroadcast, Calls, Goto, cpuVars, structVars, modeVars, semaVars,
       lockVars, syncVars, timerVars, NotTimer
  <2>2. /\ pc' \in [Threads -> Labels]
        /\ calls' \in [Threads -> Nat]
    BY <1>1, SchedAssumption, SyncAssumption DEF ArgsOf, Labels, IntrOff, Semaphores,
       CondBroadcast, At, Calls, Goto, cpuVars, structVars, modeVars, semaVars,
       lockVars, syncVars, timerVars, NotTimer
  <2> QED BY <1>3, <2>1, <2>2 DEF IInv, TypeOK, CpuOK
<1>5. ArgsOf(t)'
  BY <1>1, SchedAssumption, SyncAssumption DEF ArgsOf, Semaphores, CondBroadcast, At,
     Calls, Goto, cpuVars, structVars, modeVars, semaVars, lockVars, syncVars,
     timerVars, NotTimer
<1> QED BY <1>2, <1>3, <1>4, <1>5, ArgsAlone DEF IInv

\* A turn of the loop of cond_broadcast.
LEMMA BroadcastKeeps ==
    ASSUME IInv, NEW t \in Threads, Broadcast(t), NotTimer
    PROVE  IInv'
<1>1. /\ pc \in [Threads -> Labels]
      /\ ret \in [Threads -> {"run", "cond_wait", "broadcast"}]
      /\ sem \in [Threads -> Semaphores \cup {None}]
      /\ cond_waiters \in Seq([thread : Threads, priority : Priorities])
      /\ ArgsOf(t)
  BY DEF IInv, TypeOK, ArgsOK
<1>2. /\ cond_waiters' \in Seq([thread : Threads, priority : Priorities])
      /\ cond_waiters # <<>> => Head(cond_waiters).thread \in Threads
  <2>1. CASE cond_waiters = <<>>
    BY <1>1, <2>1 DEF Broadcast, syncVars
  <2>2. CASE cond_waiters # <<>>
    <3>1. /\ Head(cond_waiters) \in [thread : Threads, priority : Priorities]
          /\ Tail(cond_waiters) \in Seq([thread : Threads, priority : Priorities])
      BY <1>1, <2>2, HeadTailProperties
    <3> QED BY <2>2, <3>1 DEF Broadcast, PopAndUp, CondPopped
  <2> QED BY <2>1, <2>2
<1>3. t = cur /\ OthersAlone(t)
  BY <1>1 DEF OthersAlone, Broadcast, At, Goto, PopAndUp, cpuVars, structVars, modeVars,
     semaVars, lockVars, syncVars, timerVars, NotTimer
<1>4. CpuOK' /\ QueuesOK'
  <2>1. UNCHANGED <<cpuVars, wait_list, waiters>>
    BY DEF Broadcast, PopAndUp, cpuVars, structVars, modeVars, semaVars, lockVars,
       syncVars, timerVars, NotTimer
  <2> QED BY <1>3, <2>1, QuietStep DEF IInv
<1>5. TypeOK'
  <2>1. UNCHANGED <<priority, orig_priority, sema_list, in_external_intr, panic, calls, ticks,
                   wait_list, wakeup_time, value, waiters, holder, waiting, lk, lp>>
    BY DEF Broadcast, Goto, PopAndUp, cpuVars, structVars, modeVars, semaVars, lockVars,
       syncVars, timerVars, NotTimer
  <2>2. /\ pc' \in [Threads -> Labels]
        /\ ret' \in [Threads -> {"run", "cond_wait", "broadcast"}]
        /\ sem' \in [Threads -> Semaphores \cup {None}]
        /\ cond_waiters' \in Seq([thread : Threads, priority : Priorities])
    BY <1>1, <1>2, SchedAssumption, SyncAssumption, ZenonT(60) DEF ArgsOf, Labels, IntrOff,
       Semaphores, Broadcast, At, Goto, PopAndUp, cpuVars, structVars, modeVars,
       semaVars, lockVars, syncVars, timerVars, NotTimer
  <2> QED BY <1>4, <2>1, <2>2 DEF IInv, TypeOK, CpuOK
<1>6. ArgsOf(t)'
  BY <1>1, <1>2, SchedAssumption, SyncAssumption DEF ArgsOf, Semaphores, Broadcast, At,
     Goto, PopAndUp, cpuVars, structVars, modeVars, semaVars, lockVars, syncVars,
     timerVars, NotTimer
<1> QED BY <1>3, <1>4, <1>5, <1>6, ArgsAlone DEF IInv

-----------------------------------------------------------------------------
(* The steps that move threads from list to list.                          *)

\* The timer interrupt is taken.
LEMMA TimerInterruptKeeps ==
    ASSUME IInv, TimerInterrupt, NotSync
    PROVE  IInv'
<1>1. UNCHANGED <<cpuVars, structVars, panic, pc, ret, calls, wait_list, wakeup_time,
                  value, waiters, holder, waiting, lk, sem, lp, cond_waiters>>
  BY DEF TimerInterrupt, NotSync, syncVars, semaVars, lockVars
<1>2. TypeOK'
  <2>1. in_external_intr' \in BOOLEAN /\ ticks' \in Nat
    BY DEF IInv, TypeOK, TimerInterrupt
  <2> QED BY <1>1, <2>1 DEF IInv, TypeOK, cpuVars, structVars
<1>3. ArgsOK'
  BY <1>1 DEF IInv, ArgsOK, ArgsOf
<1>4. CpuOK' /\ QueuesOK'
  BY <1>1 DEF IInv, CpuOK, QueuesOK, cpuVars
<1> QED BY <1>2, <1>3, <1>4 DEF IInv

\* thread_create: the new thread joins the run queue.
LEMMA ThreadCreateKeeps ==
    ASSUME IInv, NEW t \in Threads, NEW new \in Threads, ThreadCreate(t, new), NotTimer, NotSync
    PROVE  IInv'
<1>1. /\ pc' = [pc EXCEPT ![t] = "check"] /\ ret' = [ret EXCEPT ![t] = "run"]
      /\ status[new] = "NONE" /\ status[t] = "RUNNING" /\ pc[t] = "run"
  BY DEF IInv, CpuOK, ThreadCreate, Goto, At
<1>2. UNCHANGED <<priority, orig_priority, sema_list, in_external_intr, panic, calls, ticks,
                  wait_list, wakeup_time, value, waiters, holder, waiting, lk, sem, lp,
                  cond_waiters>>
  BY DEF ThreadCreate, structVars, modeVars, semaVars, lockVars, syncVars, timerVars,
     NotTimer, NotSync
<1>3. /\ CpuOK'
      /\ \A u \in Threads : status'[u] = "BLOCKED" <=> status[u] = "BLOCKED" /\ u # new
  BY <1>1, ThreadUnblockProperties DEF IInv, ThreadCreate
<1>4. TypeOK'
  <2>1. pc' \in [Threads -> Labels] /\ ret' \in [Threads -> {"run", "cond_wait", "broadcast"}]
    BY <1>1 DEF IInv, TypeOK, Labels
  <2> QED BY <1>2, <1>3, <2>1 DEF IInv, TypeOK, CpuOK
<1>5. ArgsOK'
  <2>1. OthersAlone(t)
    BY <1>1, <1>2 DEF IInv, TypeOK, OthersAlone
  <2>2. ArgsOf(t)'
    BY <1>1, <1>2 DEF IInv, TypeOK, ArgsOf
  <2> QED BY <2>1, <2>2, ArgsAlone DEF IInv
<1>6. QueuesOK'
  <2>1. \A u \in Threads : status[u] = "BLOCKED" => pc'[u] = pc[u] /\ sem'[u] = sem[u]
    BY <1>1, <1>2 DEF IInv, TypeOK
  <2>2. \A u \in Threads : status'[u] = "BLOCKED" <=> status[u] = "BLOCKED"
    BY <1>1, <1>3
  <2> QED BY <1>2, <2>1, <2>2, BlockedAlone DEF IInv
<1> QED BY <1>3, <1>4, <1>5, <1>6 DEF IInv

\* A step that leaves everything but the CPU, the calls made and the panic.
LEMMA CpuStep ==
    ASSUME IInv, CpuOK', calls' \in [Threads -> Nat], in_external_intr' \in BOOLEAN,
           UNCHANGED <<structVars, panic, pc, ret, timerVars, syncVars>>,
           \A u \in Threads : status'[u] = "BLOCKED" <=> status[u] = "BLOCKED"
    PROVE  IInv'
<1>1. UNCHANGED <<priority, orig_priority, sema_list, panic, pc, ret, ticks, wait_list,
                  wakeup_time, value, waiters, holder, waiting, lk, sem, lp, cond_waiters>>
  BY DEF structVars, timerVars, syncVars, semaVars, lockVars
<1>2. TypeOK'
  BY <1>1 DEF IInv, TypeOK, CpuOK
<1>3. ArgsOK'
  BY <1>1 DEF IInv, ArgsOK, ArgsOf
<1>4. QueuesOK'
  BY <1>1, BlockedAlone DEF IInv
<1> QED BY <1>2, <1>3, <1>4 DEF IInv

\* A call of thread_yield.
LEMMA YieldKeeps ==
    ASSUME IInv, NEW t \in Threads, Yield(t), NotTimer, NotSync
    PROVE  IInv'
<1>1. calls' \in [Threads -> Nat] /\ in_external_intr' \in BOOLEAN
  <2>1. calls \in [Threads -> Nat] /\ in_external_intr \in BOOLEAN
    BY DEF IInv, TypeOK
  <2> QED BY <2>1 DEF Yield, Calls, modeVars
<1>2. UNCHANGED <<structVars, panic, pc, ret, timerVars, syncVars>>
  BY DEF Yield, modeVars, NotTimer, NotSync
<1>3. CpuOK' /\ \A u \in Threads : status'[u] = "BLOCKED" <=> status[u] = "BLOCKED"
  BY ThreadYieldProperties DEF IInv, Yield
<1> QED BY <1>1, <1>2, <1>3, CpuStep

\* The end of the timer interrupt.
LEMMA InterruptReturnKeeps ==
    ASSUME IInv, InterruptReturn, NotSync
    PROVE  IInv'
<1>1. calls' \in [Threads -> Nat] /\ in_external_intr' \in BOOLEAN
  BY DEF IInv, TypeOK, InterruptReturn
<1>2. UNCHANGED <<structVars, panic, pc, ret, timerVars, syncVars>>
  BY DEF InterruptReturn, NotSync
<1>3. CpuOK' /\ \A u \in Threads : status'[u] = "BLOCKED" <=> status[u] = "BLOCKED"
  <2>1. CASE thread_ticks + 1 >= TIME_SLICE
    BY <2>1, ThreadYieldProperties DEF IInv, InterruptReturn
  <2>2. CASE ~(thread_ticks + 1 >= TIME_SLICE)
    BY <2>2 DEF IInv, CpuOK, InterruptReturn
  <2> QED BY <2>1, <2>2
<1> QED BY <1>1, <1>2, <1>3, CpuStep

\* thread_exit.
LEMMA ThreadExitKeeps ==
    ASSUME IInv, NEW t \in Threads, ThreadExit(t), NotTimer, NotSync
    PROVE  IInv'
<1>1. calls' \in [Threads -> Nat] /\ in_external_intr' \in BOOLEAN
  BY DEF IInv, TypeOK, ThreadExit, modeVars
<1>2. UNCHANGED <<structVars, panic, pc, ret, timerVars, syncVars>>
  BY DEF ThreadExit, modeVars, NotTimer, NotSync
<1>3. CpuOK' /\ \A u \in Threads : status'[u] = "BLOCKED" <=> status[u] = "BLOCKED"
  <2> DEFINE st == [status EXCEPT ![cur] = "DEAD"]
  <2>1. /\ st \in [Threads \cup {Idle} -> {"NONE", "READY", "RUNNING", "BLOCKED", "DEAD"}]
        /\ ready_list \in Seq(Threads) /\ NoDuplicates(ready_list)
        /\ Range(ready_list) = {u \in Threads : st[u] = "READY"}
        /\ \A u \in Threads \cup {Idle} : st[u] # "RUNNING"
        /\ \A u \in Threads : st[u] = "BLOCKED" <=> status[u] = "BLOCKED"
    BY DEF IInv, CpuOK
  <2>2. Schedule(st, ready_list)
    BY DEF ThreadExit, At
  <2> HIDE DEF st
  <2> QED BY <2>1, <2>2, ScheduleProperties
<1> QED BY <1>1, <1>2, <1>3, CpuStep

\* A turn of the loop of the idle thread.
LEMMA IdleLoopKeeps ==
    ASSUME IInv, IdleLoop, NotTimer, NotSync
    PROVE  IInv'
<1>1. calls' \in [Threads -> Nat] /\ in_external_intr' \in BOOLEAN
  BY DEF IInv, TypeOK, IdleLoop, modeVars
<1>2. UNCHANGED <<structVars, panic, pc, ret, timerVars, syncVars>>
  BY DEF IdleLoop, modeVars, NotTimer, NotSync
<1>3. cur \notin Threads
  BY SchedAssumption DEF IdleLoop
<1>4. CpuOK' /\ \A u \in Threads : status'[u] = "BLOCKED" <=> status[u] = "BLOCKED"
  BY <1>3, ThreadBlockProperties DEF IInv, IdleLoop
<1> QED BY <1>1, <1>2, <1>4, CpuStep

\* yield_if_nonmax, after its first test.
LEMMA YieldFrontKeeps ==
    ASSUME IInv, NEW t \in Threads, YieldFront(t), NotTimer, NotSync
    PROVE  IInv'
<1>1. t = cur /\ status[t] = "RUNNING" /\ pc[t] = "front"
  BY DEF IInv, CpuOK, YieldFront, At
<1>2. UNCHANGED <<priority, orig_priority, sema_list, in_external_intr, ret, calls, ticks,
                  wait_list, wakeup_time, value, waiters, holder, waiting, lk, sem, lp,
                  cond_waiters>>
  BY DEF YieldFront, structVars, semaVars, lockVars, syncVars, timerVars, NotTimer, NotSync
<1>3. pc' = pc \/ pc' = [pc EXCEPT ![t] = ret[t]]
  BY DEF YieldFront, Goto
<1>4. CpuOK' /\ \A u \in Threads : status'[u] = "BLOCKED" <=> status[u] = "BLOCKED"
  <2>1. CASE UNCHANGED cpuVars
    BY <2>1 DEF IInv, CpuOK, cpuVars
  <2>2. CASE ThreadYield
    BY <2>2, ThreadYieldProperties DEF IInv
  <2> QED BY <2>1, <2>2 DEF YieldFront
<1>5. TypeOK'
  <2>1. pc' \in [Threads -> Labels]
    BY <1>3, ZenonT(60) DEF IInv, TypeOK, Labels
  <2>2. panic' \in {"no", "list_front", "null holder"}
    BY DEF IInv, TypeOK, YieldFront, Panic
  <2> QED BY <1>2, <1>4, <2>1, <2>2 DEF IInv, TypeOK, CpuOK
<1>6. ArgsOK'
  <2>1. OthersAlone(t)
    BY <1>2, <1>3 DEF IInv, TypeOK, OthersAlone
  <2>2. ArgsOf(t)'
    <3>1. ret[t] \in {"run", "cond_wait", "broadcast"} /\ pc \in [Threads -> Labels] /\ ArgsOf(t)
      BY DEF IInv, TypeOK, ArgsOK
    <3>2. pc'[t] \in {"front", "run", "cond_wait", "broadcast"} /\ (pc'[t] = "cond_wait" => ret[t] = "cond_wait")
      BY <1>1, <1>3, <3>1
    <3> QED BY <1>2, <3>1, <3>2 DEF ArgsOf
  <2> QED BY <2>1, <2>2, ArgsAlone DEF IInv
<1>7. QueuesOK'
  <2>1. \A u \in Threads : status[u] = "BLOCKED" => pc'[u] = pc[u] /\ sem'[u] = sem[u]
    BY <1>1, <1>2, <1>3 DEF IInv, TypeOK
  <2> QED BY <1>2, <1>4, <2>1, BlockedAlone DEF IInv
<1> QED BY <1>4, <1>5, <1>6, <1>7 DEF IInv

\* timer_sleep, the wait list and thread_block.
LEMMA SleepBlockKeeps ==
    ASSUME IInv, NEW t \in Threads, SleepBlock(t), NotSync
    PROVE  IInv'
<1>1. t = cur /\ status[t] = "RUNNING" /\ pc[t] = "sleep" /\ pc' = [pc EXCEPT ![t] = "asleep"]
  BY DEF IInv, CpuOK, SleepBlock, Goto, At
<1>2. UNCHANGED <<priority, orig_priority, sema_list, in_external_intr, panic, ret, calls,
                  ticks, wakeup_time, value, waiters, holder, waiting, lk, sem, lp,
                  cond_waiters>>
  BY DEF SleepBlock, structVars, modeVars, semaVars, lockVars, syncVars, NotSync
<1>3. CpuOK' /\ \A u \in Threads : status'[u] = "BLOCKED" <=> status[u] = "BLOCKED" \/ u = t
  BY <1>1, ThreadBlockProperties DEF IInv, SleepBlock
<1>4. /\ wait_list' \in Seq(Threads)
      /\ Range(wait_list') = Range(wait_list) \cup {t}
      /\ NoDuplicates(wait_list')
  <2>1. wait_list \in Seq(Threads) /\ NoDuplicates(wait_list) /\ t \notin Range(wait_list)
    BY <1>1 DEF IInv, TypeOK, QueuesOK
  <2> QED BY <2>1, InsertOrderedElements DEF SleepBlock
<1>5. TypeOK'
  <2>1. pc' \in [Threads -> Labels]
    BY <1>1 DEF IInv, TypeOK, Labels, IntrOff
  <2> QED BY <1>2, <1>3, <1>4, <2>1 DEF IInv, TypeOK, CpuOK
<1>6. ArgsOK'
  <2>1. OthersAlone(t)
    BY <1>1, <1>2 DEF IInv, TypeOK, OthersAlone
  <2>2. ArgsOf(t)'
    BY <1>1, <1>2 DEF IInv, TypeOK, ArgsOK, ArgsOf
  <2> QED BY <2>1, <2>2, ArgsAlone DEF IInv
<1>7. QueuesOK'
  <2>1. pc'[t] = "asleep" /\ \A u \in Threads : u # t => pc'[u] = pc[u]
    BY <1>1 DEF IInv, TypeOK
  <2>2. Range(wait_list') = {u \in Threads : status'[u] = "BLOCKED" /\ pc'[u] = "asleep"}
    BY <1>1, <1>3, <1>4, <2>1 DEF IInv, QueuesOK
  <2>3. ASSUME NEW s \in Semaphores
        PROVE  /\ NoDuplicates(waiters'[s])
               /\ Range(waiters'[s]) =
                    {u \in Threads : status'[u] = "BLOCKED" /\ pc'[u] = "wake" /\ sem'[u] = s}
    BY <1>1, <1>2, <1>3, <2>1 DEF IInv, QueuesOK
  <2>4. \A u \in Threads : status'[u] = "BLOCKED" => pc'[u] \in IntrOff
    BY <1>3, <2>1 DEF IInv, QueuesOK, IntrOff
  <2> QED BY <1>4, <2>2, <2>3, <2>4 DEF QueuesOK
<1> QED BY <1>3, <1>5, <1>6, <1>7 DEF IInv

\* timer_interrupt, a turn of its loop.
LEMMA WakeSleeperKeeps ==
    ASSUME IInv, WakeSleeper, NotSync
    PROVE  IInv'
<1> DEFINE w == Head(wait_list)
<1>1. UNCHANGED <<cur, thread_ticks, priority, orig_priority, sema_list, in_external_intr,
                  panic, pc, ret, calls, ticks, wakeup_time, value, waiters, holder,
                  waiting, lk, sem, lp, cond_waiters>>
  BY DEF WakeSleeper, structVars, modeVars, semaVars, lockVars, syncVars, NotSync
<1>2. /\ w \in Range(wait_list)
      /\ wait_list' \in Seq(Threads)
      /\ Range(wait_list') = Range(wait_list) \ {w}
      /\ NoDuplicates(wait_list')
  <2>1. wait_list \in Seq(Threads) /\ wait_list # <<>> /\ NoDuplicates(wait_list)
    BY DEF IInv, TypeOK, QueuesOK, WakeSleeper, HeadIsDue
  <2> QED BY <2>1, PopFrontElements DEF WakeSleeper
<1>3. w \in Threads /\ status[w] = "BLOCKED" /\ pc[w] = "asleep"
  BY <1>2 DEF IInv, QueuesOK
<1>4. CpuOK' /\ \A u \in Threads : status'[u] = "BLOCKED" <=> status[u] = "BLOCKED" /\ u # w
  <2>1. ThreadUnblock(w) /\ CpuOK
    BY DEF WakeSleeper, IInv
  <2> HIDE DEF w
  <2> QED BY <1>1, <1>3, <2>1, ThreadUnblockProperties
<1> HIDE DEF w
<1>5. TypeOK'
  BY <1>1, <1>2, <1>4 DEF IInv, TypeOK, CpuOK
<1>6. ArgsOK'
  BY <1>1 DEF IInv, ArgsOK, ArgsOf
<1>7. QueuesOK'
  BY <1>1, <1>2, <1>3, <1>4 DEF IInv, QueuesOK
<1> QED BY <1>4, <1>5, <1>6, <1>7 DEF IInv

\* sema_down, entered or resumed.
LEMMA SemaDownKeeps ==
    ASSUME IInv, NEW t \in Threads, SemaDown(t), NotTimer
    PROVE  IInv'
<1> DEFINE s == sem[t]
<1>1. /\ t = cur /\ status[t] = "RUNNING" /\ pc[t] \in {"down", "wake"}
      /\ s \in Semaphores /\ ArgsOf(t)
  BY DEF IInv, CpuOK, ArgsOK, ArgsOf, SemaDown, At
<1>2. UNCHANGED <<priority, orig_priority, sema_list, in_external_intr, panic, ret, calls,
                  ticks, wait_list, wakeup_time, holder, waiting, lk, sem, lp, cond_waiters>>
  BY DEF SemaDown, structVars, modeVars, lockVars, timerVars, NotTimer
<1>3. CASE MustWait(t)
  <2>1. /\ waiters' = [waiters EXCEPT ![s] = InsertOrdered(waiters[s], t, NotOutranked(t))]
        /\ pc' = [pc EXCEPT ![t] = "wake"] /\ value' = value
    BY <1>3 DEF SemaDown, Goto
  <2>2. CpuOK' /\ \A u \in Threads : status'[u] = "BLOCKED" <=> status[u] = "BLOCKED" \/ u = t
    BY <1>1, <1>3, ThreadBlockProperties DEF IInv, SemaDown
  <2>3. /\ waiters'[s] \in Seq(Threads)
        /\ Range(waiters'[s]) = Range(waiters[s]) \cup {t}
        /\ NoDuplicates(waiters'[s])
    <3>1. waiters[s] \in Seq(Threads) /\ NoDuplicates(waiters[s]) /\ t \notin Range(waiters[s])
      BY <1>1 DEF IInv, TypeOK, QueuesOK
    <3>2. waiters'[s] = InsertOrdered(waiters[s], t, NotOutranked(t))
      BY <1>1, <2>1 DEF IInv, TypeOK
    <3> QED BY <3>1, <3>2, InsertOrderedElements
  <2>4. \A r \in Semaphores \ {s} : waiters'[r] = waiters[r]
    BY <2>1 DEF IInv, TypeOK
  <2>5. TypeOK'
    <3>1. pc' \in [Threads -> Labels] /\ waiters' \in [Semaphores -> Seq(Threads)]
      BY <1>1, <2>1, <2>3 DEF IInv, TypeOK, Labels, IntrOff
    <3> QED BY <1>2, <2>1, <2>2, <3>1 DEF IInv, TypeOK, CpuOK
  <2>6. pc'[t] = "wake" /\ \A u \in Threads : u # t => pc'[u] = pc[u]
    BY <2>1 DEF IInv, TypeOK
  <2>7. ArgsOK'
    <3>1. OthersAlone(t)
      BY <1>2, <2>6 DEF OthersAlone
    <3>2. ArgsOf(t)'
      BY <1>1, <1>2, <2>6 DEF ArgsOf
    <3> QED BY <3>1, <3>2, ArgsAlone DEF IInv
  <2>8. QueuesOK'
    <3>1. Range(wait_list') = {u \in Threads : status'[u] = "BLOCKED" /\ pc'[u] = "asleep"}
      BY <1>1, <1>2, <2>2, <2>6 DEF IInv, QueuesOK
    <3>2. ASSUME NEW r \in Semaphores
          PROVE  /\ NoDuplicates(waiters'[r])
                 /\ Range(waiters'[r]) =
                      {u \in Threads : status'[u] = "BLOCKED" /\ pc'[u] = "wake" /\ sem'[u] = r}
      BY <1>1, <1>2, <2>2, <2>3, <2>4, <2>6 DEF IInv, QueuesOK
    <3>3. \A u \in Threads : status'[u] = "BLOCKED" => pc'[u] \in IntrOff
      BY <2>2, <2>6 DEF IInv, QueuesOK, IntrOff
    <3> QED BY <1>2, <3>1, <3>2, <3>3 DEF IInv, QueuesOK
  <2> QED BY <2>2, <2>5, <2>7, <2>8 DEF IInv
<1>4. CASE ~MustWait(t)
  <2>1. /\ value' = [value EXCEPT ![s] = @ - 1] /\ pc' = [pc EXCEPT ![t] = AfterDown(t)]
        /\ UNCHANGED <<waiters, cpuVars>>
    BY <1>4 DEF SemaDown, Goto
  <2>2. AfterDown(t) \in {"take", "reacquire", "run"}
    BY DEF AfterDown
  <2>3. pc'[t] = AfterDown(t) /\ \A u \in Threads : u # t => pc'[u] = pc[u]
    BY <2>1 DEF IInv, TypeOK
  <2>4. OthersAlone(t)
    BY <1>2, <2>3 DEF OthersAlone
  <2>5. CpuOK' /\ QueuesOK'
    BY <1>1, <1>2, <2>1, <2>4, QuietStep DEF IInv
  <2>6. TypeOK'
    <3>1. value' \in [Semaphores -> Nat]
      <4>1. value \in [Semaphores -> Nat] /\ value[s] # 0
        BY <1>4 DEF IInv, TypeOK, MustWait
      <4>2. value[s] - 1 \in Nat
        BY <1>1, <4>1
      <4> QED BY <2>1, <4>1, <4>2
    <3>2. pc' \in [Threads -> Labels]
      BY <2>1, <2>2 DEF IInv, TypeOK, Labels
    <3> QED BY <1>2, <2>1, <2>5, <3>1, <3>2 DEF IInv, TypeOK, CpuOK
  <2>7. ArgsOf(t)'
    BY <1>1, <1>2, <2>3 DEF ArgsOf, AfterDown
  <2> QED BY <2>4, <2>5, <2>6, <2>7, ArgsAlone DEF IInv
<1> QED BY <1>3, <1>4

\* sema_up up to its call of yield_if_nonmax.
LEMMA SemaUpKeeps ==
    ASSUME IInv, NEW t \in Threads, SemaUp(t), NotTimer
    PROVE  IInv'
<1> DEFINE s == sem[t]
           i == LastMax(waiters[s], priority)
           w == waiters[s][i]
<1>1. /\ t = cur /\ status[t] = "RUNNING" /\ pc[t] = "up" /\ pc' = [pc EXCEPT ![t] = "check"]
      /\ s \in Semaphores /\ ArgsOf(t) /\ value' = [value EXCEPT ![s] = @ + 1]
  BY DEF IInv, CpuOK, ArgsOK, ArgsOf, SemaUp, At, Goto, Incremented
<1>2. UNCHANGED <<cur, thread_ticks, orig_priority, sema_list, in_external_intr, panic, ret,
                  calls, ticks, wait_list, wakeup_time, holder, waiting, lk, sem, lp,
                  cond_waiters>>
  BY DEF SemaUp, modeVars, lockVars, timerVars, NotTimer
<1>3. pc'[t] = "check" /\ \A u \in Threads : u # t => pc'[u] = pc[u]
  BY <1>1 DEF IInv, TypeOK
<1>4. OthersAlone(t) /\ ArgsOf(t)'
  BY <1>1, <1>2, <1>3 DEF OthersAlone, ArgsOf
<1>5. pc' \in [Threads -> Labels] /\ value' \in [Semaphores -> Nat]
  <2>1. pc \in [Threads -> Labels] /\ value \in [Semaphores -> Nat]
    BY DEF IInv, TypeOK
  <2>2. "check" \in Labels /\ value[s] + 1 \in Nat
    BY <1>1, <2>1 DEF Labels
  <2> HIDE DEF s
  <2> QED BY <1>1, <2>1, <2>2
<1>6. CASE ~HasWaiter(s)
  <2>1. UNCHANGED <<waiters, priority, ready_list, status>>
    BY <1>6 DEF SemaUp
  <2>2. CpuOK' /\ QueuesOK'
    BY <1>1, <1>2, <1>4, <2>1, QuietStep DEF IInv, cpuVars
  <2>3. TypeOK'
    BY <1>2, <1>5, <2>1, <2>2 DEF IInv, TypeOK, CpuOK
  <2> QED BY <1>4, <2>2, <2>3, ArgsAlone DEF IInv
<1>7. CASE HasWaiter(s)
  <2>1. /\ waiters' = [waiters EXCEPT ![s] = RemoveAt(waiters[s], i)]
        /\ priority' = [priority EXCEPT ![t] = MaxPriority(t, waiters')]
        /\ ThreadUnblock(w)
    BY <1>7 DEF SemaUp, WaitersWithout
  <2>2. waiters[s] \in Seq(Threads) /\ waiters[s] # <<>> /\ NoDuplicates(waiters[s])
    BY <1>1, <1>7 DEF IInv, TypeOK, QueuesOK, HasWaiter
  <2>3. i \in 1..Len(waiters[s])
    BY <2>2, LastMaxProperties DEF IInv, TypeOK, Priorities
  <2>4. /\ RemoveAt(waiters[s], i) \in Seq(Threads)
        /\ Range(RemoveAt(waiters[s], i)) = Range(waiters[s]) \ {w}
        /\ NoDuplicates(RemoveAt(waiters[s], i))
        /\ w \in Range(waiters[s])
    BY <2>2, <2>3, RemoveAtElements, RangeIsElements
  <2> HIDE DEF i, w
  <2>5. w \in Threads /\ status[w] = "BLOCKED" /\ pc[w] = "wake" /\ sem[w] = s /\ w # t
    BY <1>1, <2>4 DEF IInv, QueuesOK
  <2>6. CpuOK' /\ \A u \in Threads : status'[u] = "BLOCKED" <=> status[u] = "BLOCKED" /\ u # w
    BY <1>2, <2>1, <2>5, ThreadUnblockProperties DEF IInv
  <2>7. /\ waiters'[s] = RemoveAt(waiters[s], i)
        /\ \A r \in Semaphores \ {s} : waiters'[r] = waiters[r]
        /\ waiters' \in [Semaphores -> Seq(Threads)]
    BY <1>1, <2>1, <2>4 DEF IInv, TypeOK
  <2>8. TypeOK'
    <3>1. MaxPriority(t, waiters') \in Priorities
      BY <2>7, MaxPriorityProperties DEF IInv
    <3>2. priority' \in [Threads -> Priorities]
      BY <2>1, <3>1 DEF IInv, TypeOK
    <3> QED BY <1>2, <1>5, <2>6, <2>7, <3>2 DEF IInv, TypeOK, CpuOK
  <2>9. QueuesOK'
    <3>1. Range(wait_list') = {u \in Threads : status'[u] = "BLOCKED" /\ pc'[u] = "asleep"}
      BY <1>1, <1>2, <1>3, <2>5, <2>6 DEF IInv, QueuesOK
    <3>2. ASSUME NEW r \in Semaphores
          PROVE  /\ NoDuplicates(waiters'[r])
                 /\ Range(waiters'[r]) =
                      {u \in Threads : status'[u] = "BLOCKED" /\ pc'[u] = "wake" /\ sem'[u] = r}
      <4>1. CASE r = s
        <5>1. NoDuplicates(waiters'[s]) /\ Range(waiters'[s]) = Range(waiters[s]) \ {w}
          BY <2>4, <2>7
        <5>2. Range(waiters[s]) =
                {u \in Threads : status[u] = "BLOCKED" /\ pc[u] = "wake" /\ sem[u] = s}
          BY <1>1 DEF IInv, QueuesOK
        <5>3. \A u \in Threads : status[u] = "BLOCKED" => u # t
          BY <1>1
        <5> HIDE DEF s
        <5> QED BY <1>2, <1>3, <2>6, <4>1, <5>1, <5>2, <5>3
      <4>2. CASE r # s
        BY <1>1, <1>2, <1>3, <2>5, <2>6, <2>7, <4>2 DEF IInv, QueuesOK
      <4> QED BY <4>1, <4>2
    <3>3. \A u \in Threads : status'[u] = "BLOCKED" => pc'[u] \in IntrOff
      BY <1>1, <1>3, <2>6 DEF IInv, QueuesOK
    <3> QED BY <1>2, <3>1, <3>2, <3>3 DEF IInv, QueuesOK
  <2> QED BY <1>4, <2>6, <2>8, <2>9, ArgsAlone DEF IInv
<1> QED BY <1>6, <1>7

-----------------------------------------------------------------------------
(* The theorems.                                                           *)

\* The invariant holds at boot.
LEMMA InitIInv == Init => IInv
<1> SUFFICES ASSUME Init PROVE IInv
  OBVIOUS
<1> USE DEF Init, SchedInit, TimerInit, SyncInit
<1>1. Range(<<>>) = {} /\ NoDuplicates(<<>>)
  BY DEF Range, NoDuplicates
<1>2. TypeOK
  <2>1. /\ status \in [Threads \cup {Idle} -> {"NONE", "READY", "RUNNING", "BLOCKED", "DEAD"}]
        /\ pc \in [Threads -> Labels] /\ ret \in [Threads -> {"run", "cond_wait", "broadcast"}]
    BY DEF Labels
  <2>2. value \in [Semaphores -> Nat]
    BY SyncAssumption DEF Semaphores
  <2>3. /\ ready_list \in Seq(Threads) /\ wait_list \in Seq(Threads)
        /\ cond_waiters \in Seq([thread : Threads, priority : Priorities])
        /\ waiters \in [Semaphores -> Seq(Threads)]
    BY EmptySeq
  <2>4. cur \in Threads /\ priority \in [Threads -> Priorities]
    BY SchedAssumption
  <2> QED BY <2>1, <2>2, <2>3, <2>4 DEF TypeOK
<1>3. ArgsOK
  BY DEF ArgsOK, ArgsOf
<1>4. CpuOK
  BY <1>1, SchedAssumption DEF CpuOK
<1>5. QueuesOK
  BY <1>1 DEF QueuesOK
<1> QED BY <1>2, <1>3, <1>4, <1>5 DEF IInv

\* One lemma per disjunct of Next, put together.
LEMMA NextIInv == IInv /\ [Next]_vars => IInv'
<1> SUFFICES ASSUME IInv, [Next]_vars PROVE IInv'
  OBVIOUS
<1>1. CASE UNCHANGED vars
  <2>1. UNCHANGED <<cpuVars, structVars, modeVars, pc, ret, calls, timerVars, syncVars>>
    BY <1>1 DEF vars, schedVars
  <2>2. UNCHANGED <<panic, in_external_intr, status>>
    BY <2>1 DEF modeVars, cpuVars
  <2>3. CpuOK' /\ calls' \in [Threads -> Nat] /\ in_external_intr' \in BOOLEAN
    BY <2>1, <2>2 DEF IInv, TypeOK, CpuOK, cpuVars
  <2> QED BY <2>1, <2>2, <2>3, CpuStep
<1>2. CASE Next
  <2>1. CASE IdleLoop /\ NotTimer /\ NotSync
    BY <2>1, IdleLoopKeeps
  <2>2. CASE TimerInterrupt /\ NotSync
    BY <2>2, TimerInterruptKeeps
  <2>3. CASE WakeSleeper /\ NotSync
    BY <2>3, WakeSleeperKeeps
  <2>4. CASE InterruptReturn /\ NotSync
    BY <2>4, InterruptReturnKeeps
  <2>5. ASSUME NEW t \in Threads,
               \/ \E new \in Threads : ThreadCreate(t, new) /\ NotTimer /\ NotSync
               \/ \E new \in NewPriorities : ThreadSetPriority(t, new) /\ NotTimer /\ NotSync
               \/ YieldCheck(t) /\ NotTimer /\ NotSync
               \/ YieldFront(t) /\ NotTimer /\ NotSync
               \/ Yield(t) /\ NotTimer /\ NotSync
               \/ ThreadExit(t) /\ NotTimer /\ NotSync
        PROVE  IInv'
    BY <2>5, ThreadCreateKeeps, ThreadSetPriorityKeeps, YieldCheckKeeps, YieldFrontKeeps,
       YieldKeeps, ThreadExitKeeps
  <2>6. ASSUME NEW t \in Threads,
               \/ \E n \in SleepTicks : SleepStart(t, n) /\ NotSync
               \/ SleepBlock(t) /\ NotSync
               \/ SleepReturn(t) /\ NotSync
        PROVE  IInv'
    BY <2>6, SleepStartKeeps, SleepBlockKeeps, SleepReturnKeeps
  <2>7. ASSUME NEW t \in Threads,
               \/ SemaDown(t) /\ NotTimer
               \/ SemaUp(t) /\ NotTimer
               \/ \E s \in Semas : SemaTryDown(t, s) /\ NotTimer
               \/ \E s \in Semas, l \in {"down", "up"} : SemaCall(t, s, l) /\ NotTimer
        PROVE  IInv'
    BY <2>7, SemaDownKeeps, SemaUpKeeps, SemaTryDownKeeps, SemaCallKeeps
  <2>8. ASSUME NEW t \in Threads,
               \/ \E l \in Locks : LockAcquire(t, l) /\ NotTimer
               \/ \E l \in Locks : LockRelease(t, l) /\ NotTimer
               \/ Compare(t) /\ NotTimer
               \/ Donate(t) /\ NotTimer
               \/ Chain(t) /\ NotTimer
               \/ ChainDonate(t) /\ NotTimer
               \/ Take(t) /\ NotTimer
               \/ Own(t) /\ NotTimer
               \/ Unhold(t) /\ NotTimer
        PROVE  IInv'
    BY <2>8, LockAcquireKeeps, LockReleaseKeeps, CompareKeeps, DonateKeeps, ChainKeeps,
       ChainDonateKeeps, TakeKeeps, OwnKeeps, UnholdKeeps
  <2>9. ASSUME NEW t \in Threads,
               \/ CondWait(t) /\ NotTimer
               \/ CondDown(t) /\ NotTimer
               \/ CondReacquire(t) /\ NotTimer
               \/ CondSignal(t) /\ NotTimer
               \/ CondBroadcast(t) /\ NotTimer
               \/ Broadcast(t) /\ NotTimer
        PROVE  IInv'
    BY <2>9, CondWaitKeeps, CondDownKeeps, CondReacquireKeeps, CondSignalKeeps,
       CondBroadcastKeeps, BroadcastKeeps
  <2> QED BY <1>2, <2>1, <2>2, <2>3, <2>4, <2>5, <2>6, <2>7, <2>8, <2>9 DEF Next
<1> QED BY <1>1, <1>2

\* The invariant holds in every reachable state.
THEOREM KernelInvariant == Spec => []IInv
BY InitIInv, NextIInv, PTL DEF Spec

\* Every field keeps its type, for any number of threads, locks and calls.
THEOREM KernelTypeCorrect == Spec => []TypeOK
<1>1. IInv => TypeOK
  BY DEF IInv
<1> QED BY <1>1, KernelInvariant, PTL

\* The element of a struct thread is never on two lists, nor twice on one, and
\* every blocked or ready thread is on the list its status says (thread.h).
THEOREM KernelElemExclusive == Spec => []ElemExclusive
BY ListsImplyExclusive, KernelInvariant, PTL

-----------------------------------------------------------------------------
(* The order of the sleepers.                                              *)

\* A step outside the timer leaves the list and the wake-up times alone.
LEMMA QuietTimer ==
    ASSUME WaitListSorted, UNCHANGED <<wait_list, wakeup_time>>
    PROVE  WaitListSorted'
BY DEF WaitListSorted

\* timer_sleep changes the wake-up time of the running thread, which is not on
\* the list.
LEMMA SleepStartSorted ==
    ASSUME IInv, WaitListSorted, NEW t \in Threads, NEW n \in SleepTicks, SleepStart(t, n)
    PROVE  WaitListSorted'
<1>1. t = cur /\ wait_list' = wait_list /\ wakeup_time' = [wakeup_time EXCEPT ![t] = ticks + n]
  BY DEF SleepStart, Calls, At
<1>2. status[t] = "RUNNING"
  BY <1>1 DEF IInv, CpuOK
<1>3. t \notin Range(wait_list)
  BY <1>2 DEF IInv, QueuesOK
<1>4. \A i \in 1..Len(wait_list) : wait_list[i] \in Threads /\ wait_list[i] # t
  <2>1. wait_list \in Seq(Threads)
    BY DEF IInv, TypeOK
  <2>2. \A i \in 1..Len(wait_list) : wait_list[i] \in Threads /\ wait_list[i] \in Range(wait_list)
    BY <2>1, ElementOfSeq, RangeIsElements
  <2> QED BY <1>3, <2>2
<1>5. \A i \in 1..Len(wait_list) : wakeup_time'[wait_list[i]] = wakeup_time[wait_list[i]]
  BY <1>1, <1>4 DEF IInv, TypeOK
<1> QED BY <1>1, <1>5 DEF WaitListSorted

\* timer_sleep queues the caller by its wake-up time.
LEMMA SleepBlockSorted ==
    ASSUME IInv, WaitListSorted, NEW t \in Threads, SleepBlock(t)
    PROVE  WaitListSorted'
<1>1. wait_list' = InsertOrdered(wait_list, t, WakesBefore(t)) /\ wakeup_time' = wakeup_time
  BY DEF SleepBlock
<1>2. wait_list \in Seq(Threads) /\ wakeup_time \in [Threads -> Nat]
  BY DEF IInv, TypeOK
<1>3. \A e \in Threads : e \in WakesBefore(t) => wakeup_time[t] <= wakeup_time[e]
  BY <1>2 DEF WakesBefore
<1>4. \A e \in Threads : e \notin WakesBefore(t) => wakeup_time[e] <= wakeup_time[t]
  BY <1>2 DEF WakesBefore
<1>5. Ordered(wait_list, wakeup_time)
  BY DEF Ordered, WaitListSorted
<1>6. Ordered(wait_list', wakeup_time)
  BY <1>1, <1>2, <1>3, <1>4, <1>5, InsertOrderedOrdered
<1> QED BY <1>1, <1>6 DEF Ordered, WaitListSorted

\* timer_interrupt takes the front off.
LEMMA WakeSleeperSorted ==
    ASSUME IInv, WaitListSorted, WakeSleeper
    PROVE  WaitListSorted'
<1>1. wait_list' = Tail(wait_list) /\ wait_list # <<>> /\ wakeup_time' = wakeup_time
  BY DEF WakeSleeper, HeadIsDue
<1>2. wait_list \in Seq(Threads) /\ Ordered(wait_list, wakeup_time)
  BY DEF IInv, TypeOK, Ordered, WaitListSorted
<1>3. Ordered(wait_list', wakeup_time)
  BY <1>1, <1>2, PopFrontOrdered
<1> QED BY <1>1, <1>3 DEF Ordered, WaitListSorted

\* No other step touches the list or the wake-up times.
LEMMA NextSorted == IInv /\ WaitListSorted /\ [Next]_vars => WaitListSorted'
<1> SUFFICES ASSUME IInv, WaitListSorted, [Next]_vars PROVE WaitListSorted'
  OBVIOUS
<1>1. CASE NotTimer
  BY <1>1, QuietTimer DEF NotTimer, timerVars
<1>2. CASE UNCHANGED vars
  BY <1>2, <1>1 DEF vars, NotTimer
<1>3. CASE TimerInterrupt
  BY <1>3, QuietTimer DEF TimerInterrupt
<1>4. CASE WakeSleeper
  BY <1>4, WakeSleeperSorted
<1>5. CASE InterruptReturn
  BY <1>5, QuietTimer DEF InterruptReturn, timerVars
<1>6. ASSUME NEW t \in Threads,
             \/ \E n \in SleepTicks : SleepStart(t, n)
             \/ SleepBlock(t)
             \/ SleepReturn(t)
      PROVE  WaitListSorted'
  <2>1. ASSUME SleepReturn(t) PROVE WaitListSorted'
    BY <2>1, QuietTimer DEF SleepReturn, timerVars
  <2> QED BY <1>6, <2>1, SleepStartSorted, SleepBlockSorted
<1> QED BY <1>1, <1>2, <1>3, <1>4, <1>5, <1>6 DEF Next

\* timer_sleep, timer_interrupt: the sleepers stay in the order of their wake-up
\* times, whatever priorities they have and whenever they call.
THEOREM KernelWaitListSorted == Spec => []WaitListSorted
<1>1. Init => WaitListSorted
  BY EmptySeq DEF Init, TimerInit, WaitListSorted
<1>2. IInv /\ WaitListSorted /\ [Next]_vars => WaitListSorted'
  BY NextSorted
<1> QED BY <1>1, <1>2, KernelInvariant, PTL DEF Spec

\* Only the return from the interrupt handler leaves it.
LEMMA OnlyReturnLeaves ==
    ASSUME [Next]_vars, in_external_intr, ~in_external_intr'
    PROVE  InterruptReturn
<1> USE DEF At, Calls, modeVars
<1>1. ASSUME UNCHANGED vars PROVE FALSE
  BY <1>1 DEF vars, schedVars
<1>2. ASSUME \/ IdleLoop \/ TimerInterrupt \/ WakeSleeper PROVE FALSE
  BY <1>2 DEF IdleLoop, TimerInterrupt, WakeSleeper
<1>3. ASSUME NEW t \in Threads,
             \/ \E new \in Threads : ThreadCreate(t, new)
             \/ \E new \in NewPriorities : ThreadSetPriority(t, new)
             \/ YieldCheck(t) \/ YieldFront(t) \/ Yield(t) \/ ThreadExit(t)
             \/ \E n \in SleepTicks : SleepStart(t, n)
             \/ SleepBlock(t) \/ SleepReturn(t)
      PROVE  FALSE
  BY <1>3 DEF ThreadCreate, ThreadSetPriority, YieldCheck, YieldFront, Yield, ThreadExit,
     SleepStart, SleepBlock, SleepReturn
<1>4. ASSUME NEW t \in Threads,
             \/ SemaDown(t) \/ SemaUp(t)
             \/ \E s \in Semas : SemaTryDown(t, s)
             \/ \E s \in Semas, l \in {"down", "up"} : SemaCall(t, s, l)
             \/ \E l \in Locks : LockAcquire(t, l)
             \/ \E l \in Locks : LockRelease(t, l)
      PROVE  FALSE
  BY <1>4 DEF SemaDown, SemaUp, SemaTryDown, SemaCall, LockAcquire, LockRelease
<1>5. ASSUME NEW t \in Threads,
             \/ Compare(t) \/ Donate(t) \/ Chain(t) \/ ChainDonate(t)
             \/ Take(t) \/ Own(t) \/ Unhold(t)
      PROVE  FALSE
  BY <1>5 DEF Compare, Donate, Chain, ChainDonate, Take, Own, Unhold
<1>6. ASSUME NEW t \in Threads,
             \/ CondWait(t) \/ CondDown(t) \/ CondReacquire(t)
             \/ CondSignal(t) \/ CondBroadcast(t) \/ Broadcast(t)
      PROVE  FALSE
  BY <1>6 DEF CondWait, CondDown, CondReacquire, CondSignal, CondBroadcast, Broadcast
<1> QED BY <1>1, <1>2, <1>3, <1>4, <1>5, <1>6 DEF Next

\* timer_interrupt stops at the first sleeper that is not due; as the list is in
\* order, none behind it is due.
LEMMA ReturnLeavesNoneDue ==
    ASSUME IInv, WaitListSorted, InterruptReturn
    PROVE  \A t \in Range(wait_list) : wakeup_time[t] > ticks
<1>1. /\ wait_list \in Seq(Threads) /\ wakeup_time \in [Threads -> Nat] /\ ticks \in Nat
  BY DEF IInv, TypeOK
<1>2. SUFFICES ASSUME NEW t \in Range(wait_list) PROVE wakeup_time[t] > ticks
  OBVIOUS
<1>3. PICK i \in 1..Len(wait_list) : t = wait_list[i]
  BY <1>1, RangeIsElements
<1>4. /\ Len(wait_list) \in Nat /\ 1 \in 1..Len(wait_list) /\ wait_list # <<>>
      /\ Head(wait_list) = wait_list[1]
  BY <1>1, <1>3, EmptySeq, LenProperties
<1>5. wait_list[1] \in Threads /\ t \in Threads
  BY <1>1, <1>3, <1>4, ElementOfSeq
<1>6. ~(wakeup_time[wait_list[1]] <= ticks)
  BY <1>4 DEF InterruptReturn, HeadIsDue
<1>7. wakeup_time[wait_list[1]] <= wakeup_time[t]
  <2>1. CASE i = 1
    BY <1>1, <1>3, <1>5, <2>1
  <2>2. CASE i # 1
    BY <1>3, <1>4, <2>2 DEF WaitListSorted
  <2> QED BY <2>1, <2>2
<1>8. wakeup_time[wait_list[1]] \in Nat /\ wakeup_time[t] \in Nat
  BY <1>1, <1>5
<1> QED BY <1>1, <1>6, <1>7, <1>8

\* timer_interrupt: no sleeper oversleeps.
THEOREM KernelNoneLeftDue == Spec => NoneLeftDue
<1>1. IInv /\ WaitListSorted /\ [Next]_vars =>
        [in_external_intr /\ ~in_external_intr' =>
           \A t \in Range(wait_list) : wakeup_time[t] > ticks]_vars
  BY OnlyReturnLeaves, ReturnLeavesNoneDue
<1> QED BY <1>1, KernelInvariant, KernelWaitListSorted, PTL DEF Spec, NoneLeftDue

-----------------------------------------------------------------------------
(* The refinement of Dispatch: each step of the kernel maps to a step of the *)
(* abstract scheduler, or leaves every status as it is.                      *)

Statuses == {"NONE", "READY", "RUNNING", "BLOCKED", "DEAD"}

\* schedule hands the CPU to a ready thread, or to idle if there is none.
LEMMA ScheduleGivesCPU ==
    ASSUME NEW st \in [Threads \cup {Idle} -> Statuses],
           NEW rl \in Seq(Threads), NoDuplicates(rl),
           Range(rl) = {t \in Threads : st[t] = "READY"},
           Schedule(st, rl)
    PROVE  \E next \in Threads \cup {Idle} : Dispatcher!GiveCPU(st, next)
<1>1. CASE rl = <<>>
  <2>1. status' = [st EXCEPT ![Idle] = "RUNNING"]
    BY <1>1 DEF Schedule
  <2>2. \A t \in Threads : st[t] # "READY"
    BY <1>1 DEF Range
  <2> QED BY <2>1, <2>2 DEF Dispatcher!GiveCPU
<1>2. CASE rl # <<>>
  <2>1. status' = [st EXCEPT ![Head(rl)] = "RUNNING"]
    BY <1>2 DEF Schedule
  <2>2. Head(rl) \in Threads /\ st[Head(rl)] = "READY"
    BY <1>2, PopFrontElements
  <2>3. Head(rl) # Idle
    BY <2>2, SchedAssumption
  <2> QED BY <2>1, <2>2, <2>3 DEF Dispatcher!GiveCPU
<1> QED BY <1>1, <1>2

\* The running thread leaves the CPU with status s, and schedule is called with
\* a run queue that agrees with the statuses.
LEMMA LeaveByStatus ==
    ASSUME CpuOK, NEW s \in {"READY", "BLOCKED", "DEAD"}, NEW rl \in Seq(Threads),
           NoDuplicates(rl),
           Range(rl) = {t \in Threads : [status EXCEPT ![cur] = s][t] = "READY"},
           Schedule([status EXCEPT ![cur] = s], rl)
    PROVE  Dispatcher!Next
<1> DEFINE st == [status EXCEPT ![cur] = s]
<1>1. st \in [Threads \cup {Idle} -> Statuses] /\ status[cur] = "RUNNING"
  BY DEF CpuOK, Statuses
<1>2. cur \in Threads \cup {Idle}
  BY DEF CpuOK
<1>3. \E next \in Threads \cup {Idle} : Dispatcher!GiveCPU(st, next)
  <2> HIDE DEF st
  <2>1. Schedule(st, rl) /\ Range(rl) = {t \in Threads : st[t] = "READY"}
    BY DEF st
  <2> QED BY <1>1, <2>1, ScheduleGivesCPU
<1>4. Dispatcher!Leave(cur)
  BY <1>1, <1>3 DEF Dispatcher!Leave
<1> QED BY <1>2, <1>4 DEF Dispatcher!Next

\* thread_block gives the CPU up as the abstract scheduler allows.
LEMMA BlockIsLeave ==
    ASSUME CpuOK, ThreadBlock
    PROVE  Dispatcher!Next
<1>1. /\ ready_list \in Seq(Threads) /\ NoDuplicates(ready_list)
      /\ Range(ready_list) = {t \in Threads : [status EXCEPT ![cur] = "BLOCKED"][t] = "READY"}
  BY DEF CpuOK
<1> QED BY <1>1, LeaveByStatus DEF ThreadBlock

\* thread_yield gives the CPU up as the abstract scheduler allows.
LEMMA YieldIsLeave ==
    ASSUME CpuOK, ThreadYield
    PROVE  Dispatcher!Next
<1> DEFINE rl == IF cur = Idle THEN ready_list ELSE Enqueued(cur)
<1>1. /\ rl \in Seq(Threads) /\ NoDuplicates(rl)
      /\ Range(rl) = {t \in Threads : [status EXCEPT ![cur] = "READY"][t] = "READY"}
  <2>1. CASE cur = Idle
    BY <2>1, SchedAssumption DEF CpuOK
  <2>2. CASE cur # Idle
    <3>1. cur \in Threads /\ status[cur] # "READY"
      BY <2>2 DEF CpuOK
    <3> QED BY <2>2, <3>1, EnqueuedProperties DEF CpuOK
  <2> QED BY <2>1, <2>2
<1>2. Schedule([status EXCEPT ![cur] = "READY"], rl)
  BY DEF ThreadYield
<1> HIDE DEF rl
<1> QED BY <1>1, <1>2, LeaveByStatus

\* thread_unblock makes a new or a blocked thread ready.
LEMMA UnblockIsMakeReady ==
    ASSUME NEW t \in Threads, status[t] \in {"NONE", "BLOCKED"}, ThreadUnblock(t)
    PROVE  Dispatcher!Next
BY DEF ThreadUnblock, Dispatcher!MakeReady, Dispatcher!Next

\* Every step of the kernel is a step of the abstract scheduler or changes no
\* status.
LEMMA StepDispatches ==
    ASSUME IInv, [Next]_vars
    PROVE  [Dispatcher!Next]_status
<1>1. CASE UNCHANGED vars
  BY <1>1 DEF vars, schedVars, cpuVars
<1>2. CASE Next
  <2>1. CASE IdleLoop /\ NotTimer /\ NotSync
    BY <2>1, BlockIsLeave DEF IInv, IdleLoop
  <2>2. CASE TimerInterrupt /\ NotSync
    BY <2>2 DEF TimerInterrupt, cpuVars
  <2>3. CASE WakeSleeper /\ NotSync
    <3>1. wait_list \in Seq(Threads) /\ wait_list # <<>> /\ NoDuplicates(wait_list)
      BY <2>3 DEF IInv, TypeOK, QueuesOK, WakeSleeper, HeadIsDue
    <3>2. Head(wait_list) \in Threads /\ status[Head(wait_list)] = "BLOCKED"
      BY <3>1, PopFrontElements DEF IInv, QueuesOK
    <3> QED BY <2>3, <3>2, UnblockIsMakeReady DEF WakeSleeper
  <2>4. CASE InterruptReturn /\ NotSync
    <3>1. CASE thread_ticks + 1 >= TIME_SLICE
      BY <2>4, <3>1, YieldIsLeave DEF IInv, InterruptReturn
    <3>2. CASE ~(thread_ticks + 1 >= TIME_SLICE)
      BY <2>4, <3>2 DEF InterruptReturn
    <3> QED BY <3>1, <3>2
  <2>5. ASSUME NEW t \in Threads, NEW new \in Threads, ThreadCreate(t, new)
        PROVE  Dispatcher!Next
    BY <2>5, UnblockIsMakeReady DEF ThreadCreate
  <2>6. ASSUME NEW t \in Threads, YieldFront(t)
        PROVE  Dispatcher!Next \/ UNCHANGED status
    BY <2>6, YieldIsLeave DEF IInv, YieldFront, cpuVars
  <2>7. ASSUME NEW t \in Threads, Yield(t)
        PROVE  Dispatcher!Next
    BY <2>7, YieldIsLeave DEF IInv, Yield
  <2>8. ASSUME NEW t \in Threads, ThreadExit(t)
        PROVE  Dispatcher!Next
    <3>1. Schedule([status EXCEPT ![cur] = "DEAD"], ready_list)
      BY <2>8 DEF ThreadExit, At
    <3>2. /\ CpuOK /\ ready_list \in Seq(Threads) /\ NoDuplicates(ready_list)
          /\ Range(ready_list) = {u \in Threads : [status EXCEPT ![cur] = "DEAD"][u] = "READY"}
      BY DEF IInv, CpuOK
    <3> QED BY <3>1, <3>2, LeaveByStatus
  <2>9. ASSUME NEW t \in Threads, SleepBlock(t)
        PROVE  Dispatcher!Next
    BY <2>9, BlockIsLeave DEF IInv, SleepBlock
  <2>10. ASSUME NEW t \in Threads, SemaDown(t)
         PROVE  Dispatcher!Next \/ UNCHANGED status
    BY <2>10, BlockIsLeave DEF IInv, SemaDown, cpuVars
  <2>11. ASSUME NEW t \in Threads, SemaUp(t)
         PROVE  Dispatcher!Next \/ UNCHANGED status
    <3> DEFINE s == sem[t]
               i == LastMax(waiters[s], priority)
    <3>1. CASE ~HasWaiter(s)
      BY <2>11, <3>1 DEF SemaUp
    <3>2. CASE HasWaiter(s)
      <4>1. ThreadUnblock(waiters[s][i])
        BY <2>11, <3>2 DEF SemaUp
      <4>2. s \in Semaphores
        BY <2>11 DEF IInv, ArgsOK, ArgsOf, SemaUp, At
      <4>3. waiters[s] \in Seq(Threads) /\ waiters[s] # <<>>
        BY <3>2, <4>2 DEF IInv, TypeOK, HasWaiter
      <4>4. i \in 1..Len(waiters[s])
        BY <4>3, LastMaxProperties DEF IInv, TypeOK, Priorities
      <4> HIDE DEF i
      <4>5. waiters[s][i] \in Range(waiters[s])
        BY <4>3, <4>4, RangeIsElements
      <4>6. waiters[s][i] \in Threads /\ status[waiters[s][i]] = "BLOCKED"
        BY <4>2, <4>5 DEF IInv, QueuesOK
      <4> QED BY <4>1, <4>6, UnblockIsMakeReady
    <3> QED BY <3>1, <3>2
  <2>12. ASSUME NEW t \in Threads,
                \/ \E new \in NewPriorities : ThreadSetPriority(t, new)
                \/ YieldCheck(t)
                \/ \E n \in SleepTicks : SleepStart(t, n)
                \/ SleepReturn(t)
                \/ \E s \in Semas : SemaTryDown(t, s)
                \/ \E s \in Semas, l \in {"down", "up"} : SemaCall(t, s, l)
                \/ \E l \in Locks : LockAcquire(t, l)
                \/ \E l \in Locks : LockRelease(t, l)
         PROVE  UNCHANGED status
    BY <2>12 DEF ThreadSetPriority, YieldCheck, SleepStart, SleepReturn, SemaTryDown,
       SemaCall, LockAcquire, LockRelease, StartAcquire, StartRelease, cpuVars
  <2>13. ASSUME NEW t \in Threads,
                \/ Compare(t) \/ Donate(t) \/ Chain(t) \/ ChainDonate(t)
                \/ Take(t) \/ Own(t) \/ Unhold(t)
         PROVE  UNCHANGED status
    BY <2>13 DEF Compare, Donate, Chain, ChainDonate, DonationUnchanged, Take, Own, Unhold,
       cpuVars
  <2>14. ASSUME NEW t \in Threads,
                \/ CondWait(t) \/ CondDown(t) \/ CondReacquire(t)
                \/ CondSignal(t) \/ CondBroadcast(t) \/ Broadcast(t)
         PROVE  UNCHANGED status
    BY <2>14 DEF CondWait, CondDown, CondReacquire, CondSignal, CondBroadcast, Broadcast,
       StartAcquire, StartRelease, PopAndUp, cpuVars
  <2> QED
    BY <1>2, <2>1, <2>2, <2>3, <2>4, <2>5, <2>6, <2>7, <2>8, <2>9, <2>10, <2>11, <2>12,
       <2>13, <2>14 DEF Next
<1> QED BY <1>1, <1>2

\* The kernel implements the abstract scheduler: one thread on the CPU, which it
\* leaves by its own call or by preemption; a blocked thread runs only after it
\* was made ready; idle runs only when no thread is ready (thread.c, schedule).
THEOREM KernelImplementsDispatch == Spec => DispatchSpec
<1>1. Init => Dispatcher!Init
  BY DEF Init, SchedInit, Dispatcher!Init
<1>2. IInv /\ [Next]_vars => [Dispatcher!Next]_status
  BY StepDispatches
<1> QED BY <1>1, <1>2, KernelInvariant, PTL DEF Spec, DispatchSpec, Dispatcher!Spec

-----------------------------------------------------------------------------
(* The synchronization.                                                    *)

\* t is at a place in lock_acquire or lock_release where it owns the lock it is
\* at work on and the lists do not say so.
AtLock(t) == pc[t] \in {"take", "own", "unhold"} \/ (pc[t] = "up" /\ sem[t] \in Locks)

\* The semaphore of a lock is 1 and nobody owns it, or 0 and one thread does.
OneOwner(l) ==
    /\ value[l] \in {0, 1}
    /\ value[l] = 1 => \A t \in Threads : ~Owns(t, l)
    /\ value[l] = 0 => \E t \in Threads : Owns(t, l)
    /\ \A t, u \in Threads : Owns(t, l) /\ Owns(u, l) => t = u

\* The fields of the lock and of the threads agree with who owns it.
FieldsAgree(l) ==
    /\ holder[l] # None => Owns(holder[l], l) /\ ~(pc[holder[l]] = "up" /\ sem[holder[l]] = l)
    /\ \A t \in Threads : l \in sema_list[t] => holder[l] = t \/ (pc[t] = "own" /\ lk[t] = l)
    /\ \A t \in Threads : pc[t] \in {"unhold", "up"} /\ sem[t] = l => l \notin sema_list[t]
    /\ \A t \in Threads : pc[t] = "own" /\ lk[t] = l => l \in sema_list[t]

LockInv == \A l \in Locks : OneOwner(l) /\ FieldsAgree(l)

\* The invariant is what LockOwnership says, and more.
LEMMA LockInvImplies == IInv /\ LockInv => LockOwnership
<1> SUFFICES ASSUME IInv, LockInv, NEW l \in Locks
             PROVE  /\ value[l] + Cardinality(Owners(l)) = 1
                    /\ holder[l] # None => Owns(holder[l], l)
                    /\ \A t \in Threads :
                         l \in sema_list[t] => holder[l] = t \/ (pc[t] = "own" /\ lk[t] = l)
  BY DEF LockOwnership
<1>1. OneOwner(l) /\ FieldsAgree(l)
  BY DEF LockInv
<1>2. value[l] + Cardinality(Owners(l)) = 1
  <2>1. CASE value[l] = 1
    <3>1. Owners(l) = {}
      BY <1>1, <2>1 DEF OneOwner, Owners
    <3> QED BY <2>1, <3>1, FS_EmptySet
  <2>2. CASE value[l] = 0
    <3>1. PICK t \in Threads : Owns(t, l)
      BY <1>1, <2>2 DEF OneOwner
    <3>2. Owners(l) = {t}
      BY <1>1, <3>1 DEF OneOwner, Owners
    <3>3. Cardinality(Owners(l)) = 1
      BY <3>2, FS_Singleton
    <3> QED BY <2>2, <3>3
  <2> QED BY <1>1, <2>1, <2>2 DEF OneOwner
<1> QED BY <1>1, <1>2 DEF FieldsAgree

-----------------------------------------------------------------------------
\* A step that touches neither the locks nor a thread at work on one.
LEMMA LockAlone ==
    ASSUME IInv, LockInv, NEW t \in Threads, OthersAlone(t),
           UNCHANGED <<sema_list, holder>>, \A l \in Locks : value'[l] = value[l],
           ~AtLock(t), ~AtLock(t)'
    PROVE  LockInv'
<1> SUFFICES ASSUME NEW l \in Locks PROVE OneOwner(l)' /\ FieldsAgree(l)'
  BY DEF LockInv
<1>1. OneOwner(l) /\ FieldsAgree(l)
  BY DEF LockInv
<1>2. \A u \in Threads : Owns(u, l)' <=> Owns(u, l)
  <2> TAKE u \in Threads
  <2>1. CASE u = t
    BY <2>1 DEF Owns, AtLock
  <2>2. CASE u # t
    BY <2>2 DEF Owns, OthersAlone
  <2> QED BY <2>1, <2>2
<1>3. OneOwner(l)'
  BY <1>1, <1>2 DEF OneOwner
<1>4. FieldsAgree(l)'
  <2>1. holder'[l] # None =>
          Owns(holder[l], l)' /\ ~(pc'[holder[l]] = "up" /\ sem'[holder[l]] = l)
    <3>1. SUFFICES ASSUME NEW h \in Threads, h = holder[l]
                   PROVE  Owns(h, l)' /\ ~(pc'[h] = "up" /\ sem'[h] = l)
      BY DEF IInv, TypeOK
    <3>2. Owns(h, l) /\ ~(pc[h] = "up" /\ sem[h] = l)
      <4>1. holder[l] # None
        BY <3>1, SchedAssumption
      <4> QED BY <1>1, <3>1, <4>1 DEF FieldsAgree
    <3> QED BY <1>2, <3>2 DEF OthersAlone, AtLock
  <2>2. \A u \in Threads : l \in sema_list'[u] => holder'[l] = u \/ (pc'[u] = "own" /\ lk'[u] = l)
    BY <1>1 DEF FieldsAgree, OthersAlone, AtLock
  <2>3. \A u \in Threads : pc'[u] \in {"unhold", "up"} /\ sem'[u] = l => l \notin sema_list'[u]
    BY <1>1 DEF FieldsAgree, OthersAlone, AtLock
  <2>4. \A u \in Threads : pc'[u] = "own" /\ lk'[u] = l => l \in sema_list'[u]
    BY <1>1 DEF FieldsAgree, OthersAlone, AtLock
  <2> QED BY <2>1, <2>2, <2>3, <2>4 DEF FieldsAgree
<1> QED BY <1>3, <1>4

\* A step that leaves everything the invariant is about.
LEMMA LockUnchanged ==
    ASSUME LockInv, UNCHANGED <<value, holder, sema_list, pc, sem, lk>>
    PROVE  LockInv'
BY DEF LockInv, OneOwner, FieldsAgree, Owns

\* lock_acquire: the thread that gets through sema_down owns the lock.
LEMMA SemaDownLocks ==
    ASSUME IInv, LockInv, NEW t \in Threads, SemaDown(t)
    PROVE  LockInv'
<1>1. /\ pc \in [Threads -> Labels] /\ value \in [Semaphores -> Nat]
      /\ ArgsOf(t) /\ pc[t] \in {"down", "wake"} /\ sem[t] \in Semaphores
  BY DEF IInv, TypeOK, ArgsOK, ArgsOf, SemaDown, At
<1>2. UNCHANGED <<sema_list, holder, ret, lk, sem, lp>>
  BY DEF SemaDown, structVars, lockVars
<1>3. OthersAlone(t)
  BY <1>1, <1>2 DEF SemaDown, Goto, OthersAlone
<1>4. CASE MustWait(t)
  <2>1. UNCHANGED value /\ pc'[t] = "wake"
    BY <1>1, <1>4 DEF SemaDown, Goto
  <2> QED BY <1>1, <1>2, <1>3, <2>1, LockAlone DEF AtLock
<1>5. CASE ~MustWait(t)
  <2>1. value' = [value EXCEPT ![sem[t]] = @ - 1] /\ pc'[t] = AfterDown(t)
    BY <1>1, <1>5 DEF SemaDown, Goto
  <2>2. CASE sem[t] \notin Locks
    <3>1. pc'[t] \in {"reacquire", "run"} /\ \A l \in Locks : value'[l] = value[l]
      BY <1>1, <2>1, <2>2 DEF AfterDown, Semaphores
    <3> QED BY <1>1, <1>2, <1>3, <3>1, LockAlone DEF AtLock
  <2>3. CASE sem[t] \in Locks
    <3>1. SUFFICES ASSUME NEW l \in Locks PROVE OneOwner(l)' /\ FieldsAgree(l)'
      BY DEF LockInv
    <3>2. OneOwner(l) /\ FieldsAgree(l)
      BY DEF LockInv
    <3>3. pc'[t] = "take" /\ lk[t] = sem[t]
      BY <1>1, <2>1, <2>3 DEF AfterDown, ArgsOf
    <3>4. FieldsAgree(l)'
      <4>1. ASSUME NEW h \in Threads, h = holder[l]
            PROVE  Owns(h, l)' /\ ~(pc'[h] = "up" /\ sem'[h] = l)
        <5>1. h # None
          BY SchedAssumption
        <5>2. Owns(h, l) /\ ~(pc[h] = "up" /\ sem[h] = l)
          BY <3>2, <4>1, <5>1 DEF FieldsAgree
        <5> QED BY <1>1, <1>2, <1>3, <3>3, <5>2 DEF Owns, OthersAlone
      <4>2. holder[l] # None => holder[l] \in Threads
        BY DEF IInv, TypeOK
      <4> QED BY <1>1, <1>2, <1>3, <3>2, <3>3, <4>1, <4>2 DEF FieldsAgree, OthersAlone
    <3>5. CASE l # sem[t]
      <4>1. \A u \in Threads : Owns(u, l)' <=> Owns(u, l)
        BY <1>1, <1>2, <1>3, <3>3, <3>5 DEF Owns, OthersAlone
      <4>2. value'[l] = value[l]
        BY <1>1, <2>1, <3>5
      <4> QED BY <3>2, <3>4, <4>1, <4>2 DEF OneOwner
    <3>6. CASE l = sem[t]
      <4>1. value[l] = 1 /\ value'[l] = 0
        BY <1>1, <1>5, <2>1, <3>2, <3>6 DEF OneOwner, MustWait
      <4>2. \A u \in Threads : ~Owns(u, l)
        BY <3>2, <4>1 DEF OneOwner
      <4>3. Owns(t, l)'
        BY <1>2, <3>3, <3>6 DEF Owns
      <4>4. \A u \in Threads : u # t => ~Owns(u, l)'
        BY <1>2, <1>3, <4>2 DEF Owns, OthersAlone
      <4> QED BY <3>4, <4>1, <4>3, <4>4 DEF OneOwner
    <3> QED BY <3>5, <3>6
  <2> QED BY <2>2, <2>3
<1> QED BY <1>4, <1>5

\* lock_release: the sema_up of its owner sets the lock free.
LEMMA SemaUpLocks ==
    ASSUME IInv, LockInv, NEW t \in Threads, SemaUp(t)
    PROVE  LockInv'
<1>1. /\ pc \in [Threads -> Labels] /\ value \in [Semaphores -> Nat]
      /\ pc[t] = "up" /\ sem[t] \in Semaphores
  BY DEF IInv, TypeOK, ArgsOK, ArgsOf, SemaUp, At
<1>2. UNCHANGED <<sema_list, holder, ret, lk, sem, lp>>
  BY DEF SemaUp, lockVars
<1>3. pc' = [pc EXCEPT ![t] = "check"] /\ value' = [value EXCEPT ![sem[t]] = @ + 1]
  BY DEF SemaUp, Goto, Incremented
<1>4. OthersAlone(t) /\ pc'[t] = "check"
  BY <1>1, <1>2, <1>3 DEF OthersAlone
<1>5. CASE sem[t] \notin Locks
  <2>1. \A l \in Locks : value'[l] = value[l]
    BY <1>1, <1>3, <1>5 DEF Semaphores
  <2> QED BY <1>1, <1>2, <1>4, <1>5, <2>1, LockAlone DEF AtLock
<1>6. CASE sem[t] \in Locks
  <2>1. SUFFICES ASSUME NEW l \in Locks PROVE OneOwner(l)' /\ FieldsAgree(l)'
    BY DEF LockInv
  <2>2. OneOwner(l) /\ FieldsAgree(l)
    BY DEF LockInv
  <2>3. FieldsAgree(l)'
    <3>1. ASSUME NEW h \in Threads, h = holder[l]
          PROVE  Owns(h, l)' /\ ~(pc'[h] = "up" /\ sem'[h] = l)
      <4>1. h # None
        BY SchedAssumption
      <4>2. Owns(h, l) /\ ~(pc[h] = "up" /\ sem[h] = l)
        BY <2>2, <3>1, <4>1 DEF FieldsAgree
      <4> QED BY <1>1, <1>2, <1>4, <4>2 DEF Owns, OthersAlone
    <3>2. holder[l] # None => holder[l] \in Threads
      BY DEF IInv, TypeOK
    <3> QED BY <1>1, <1>2, <1>4, <2>2, <3>1, <3>2 DEF FieldsAgree, OthersAlone
  <2>4. CASE l # sem[t]
    <3>1. \A u \in Threads : Owns(u, l)' <=> Owns(u, l)
      BY <1>1, <1>2, <1>4, <2>4 DEF Owns, OthersAlone
    <3>2. value'[l] = value[l]
      BY <1>1, <1>3, <2>4
    <3> QED BY <2>2, <2>3, <3>1, <3>2 DEF OneOwner
  <2>5. CASE l = sem[t]
    <3>1. Owns(t, l)
      BY <1>1, <2>5 DEF Owns
    <3>2. value[l] = 0 /\ value'[l] = 1
      BY <1>1, <1>3, <2>2, <2>5, <3>1 DEF OneOwner
    <3>3. \A u \in Threads : u # t => ~Owns(u, l)'
      BY <1>2, <1>4, <2>2, <3>1 DEF OneOwner, Owns, OthersAlone
    <3>4. ~Owns(t, l)'
      BY <1>1, <1>2, <1>4, <2>2, <2>5 DEF FieldsAgree, Owns
    <3> QED BY <2>3, <3>2, <3>3, <3>4 DEF OneOwner
  <2> QED BY <2>4, <2>5
<1> QED BY <1>5, <1>6

\* lock_acquire, its last two statements: the owner joins the books.
LEMMA TakeLocks ==
    ASSUME IInv, LockInv, NEW t \in Threads, Take(t)
    PROVE  LockInv'
<1>1. /\ pc \in [Threads -> Labels] /\ sema_list \in [Threads -> SUBSET Locks]
      /\ pc[t] = "take" /\ pc' = [pc EXCEPT ![t] = "own"]
      /\ sema_list' = [sema_list EXCEPT ![t] = @ \cup {lk[t]}]
      /\ UNCHANGED <<value, holder, ret, lk, sem, lp>>
  BY DEF IInv, TypeOK, Take, At, Goto, semaVars
<1>2. OthersAlone(t) /\ \A u \in Threads : u # t => sema_list'[u] = sema_list[u]
  BY <1>1 DEF OthersAlone
<1>3. pc'[t] = "own" /\ sema_list'[t] = sema_list[t] \cup {lk[t]}
  BY <1>1
<1>4. SUFFICES ASSUME NEW l \in Locks PROVE OneOwner(l)' /\ FieldsAgree(l)'
  BY DEF LockInv
<1>5. OneOwner(l) /\ FieldsAgree(l)
  BY DEF LockInv
<1>6. \A u \in Threads : Owns(u, l)' <=> Owns(u, l)
  BY <1>1, <1>2, <1>3 DEF Owns, OthersAlone
<1>7. OneOwner(l)'
  BY <1>1, <1>5, <1>6 DEF OneOwner
<1>8. FieldsAgree(l)'
  <2>1. ASSUME NEW h \in Threads, h = holder[l]
        PROVE  Owns(h, l)' /\ ~(pc'[h] = "up" /\ sem'[h] = l)
    <3>1. h # None
      BY SchedAssumption
    <3> QED BY <1>1, <1>2, <1>3, <1>5, <1>6, <2>1, <3>1 DEF FieldsAgree, OthersAlone
  <2>2. holder[l] # None => holder[l] \in Threads
    BY DEF IInv, TypeOK
  <2> QED BY <1>1, <1>2, <1>3, <1>5, <2>1, <2>2 DEF FieldsAgree, OthersAlone
<1> QED BY <1>7, <1>8

\* lock_acquire: the owner becomes the holder.
LEMMA OwnLocks ==
    ASSUME IInv, LockInv, NEW t \in Threads, Own(t)
    PROVE  LockInv'
<1>1. /\ pc \in [Threads -> Labels] /\ holder \in [Locks -> Threads \cup {None}]
      /\ pc[t] = "own" /\ pc' = [pc EXCEPT ![t] = "run"] /\ lk[t] \in Locks
      /\ holder' = [holder EXCEPT ![lk[t]] = t]
      /\ UNCHANGED <<value, sema_list, ret, lk, sem, lp>>
  BY DEF IInv, TypeOK, ArgsOK, ArgsOf, Own, At, Goto, semaVars, structVars
<1>2. OthersAlone(t) /\ pc'[t] = "run"
  BY <1>1 DEF OthersAlone
<1>3. SUFFICES ASSUME NEW l \in Locks PROVE OneOwner(l)' /\ FieldsAgree(l)'
  BY DEF LockInv
<1>4. OneOwner(l) /\ FieldsAgree(l)
  BY DEF LockInv
<1>5. \A u \in Threads : Owns(u, l)' <=> Owns(u, l)
  BY <1>1, <1>2, <1>4 DEF Owns, OthersAlone, FieldsAgree
<1>6. OneOwner(l)'
  BY <1>1, <1>4, <1>5 DEF OneOwner
<1>7. FieldsAgree(l)'
  <2>1. CASE l = lk[t]
    <3>1. Owns(t, l)' /\ holder'[l] = t
      BY <1>1, <1>4, <1>5, <2>1 DEF FieldsAgree, Owns
    <3>2. \A u \in Threads : l \in sema_list[u] => u = t
      BY <1>5, <1>4, <3>1 DEF OneOwner, Owns
    <3> QED BY <1>1, <1>2, <1>4, <3>1, <3>2 DEF FieldsAgree, OthersAlone
  <2>2. CASE l # lk[t]
    <3>1. holder'[l] = holder[l]
      BY <1>1, <2>2
    <3>2. ASSUME NEW h \in Threads, h = holder[l]
          PROVE  Owns(h, l)' /\ ~(pc'[h] = "up" /\ sem'[h] = l)
      <4>1. h # None
        BY SchedAssumption
      <4> QED BY <1>1, <1>2, <1>4, <1>5, <3>2, <4>1 DEF FieldsAgree, OthersAlone
    <3> QED BY <1>1, <1>2, <1>4, <2>2, <3>1, <3>2 DEF FieldsAgree, OthersAlone
  <2> QED BY <2>1, <2>2
<1> QED BY <1>6, <1>7

\* lock_release: the lock leaves the list of those acquired ...
LEMMA StartReleaseLocks ==
    ASSUME IInv, LockInv, NEW t \in Threads, NEW k \in Locks, NEW r, At(t, "run"),
           k \in sema_list[t], StartRelease(t, k, r)
    PROVE  LockInv'
<1>1. /\ pc \in [Threads -> Labels] /\ sema_list \in [Threads -> SUBSET Locks]
      /\ lk \in [Threads -> Locks \cup {None}] /\ sem \in [Threads -> Semaphores \cup {None}]
      /\ ret \in [Threads -> {"run", "cond_wait", "broadcast"}]
  BY DEF IInv, TypeOK
<1>2. /\ pc[t] = "run" /\ pc' = [pc EXCEPT ![t] = "unhold"]
      /\ sema_list' = [sema_list EXCEPT ![t] = @ \ {k}] /\ ret' = [ret EXCEPT ![t] = r]
      /\ lk' = [lk EXCEPT ![t] = k] /\ sem' = [sem EXCEPT ![t] = k]
      /\ UNCHANGED <<value, holder, lp>>
  BY DEF At, StartRelease, Goto, semaVars, lockVars
<1>3. OthersAlone(t) /\ \A u \in Threads : u # t => sema_list'[u] = sema_list[u]
  BY <1>1, <1>2 DEF OthersAlone
<1>4. pc'[t] = "unhold" /\ sema_list'[t] = sema_list[t] \ {k} /\ lk'[t] = k /\ sem'[t] = k
  BY <1>1, <1>2
<1>5. SUFFICES ASSUME NEW l \in Locks PROVE OneOwner(l)' /\ FieldsAgree(l)'
  BY DEF LockInv
<1>6. OneOwner(l) /\ FieldsAgree(l)
  BY DEF LockInv
<1>7. \A u \in Threads : Owns(u, l)' <=> Owns(u, l)
  BY <1>2, <1>3, <1>4 DEF Owns, OthersAlone
<1>8. OneOwner(l)'
  BY <1>2, <1>6, <1>7 DEF OneOwner
<1>9. FieldsAgree(l)'
  <2>1. ASSUME NEW h \in Threads, h = holder[l]
        PROVE  Owns(h, l)' /\ ~(pc'[h] = "up" /\ sem'[h] = l)
    <3>1. h # None
      BY SchedAssumption
    <3> QED BY <1>2, <1>3, <1>4, <1>6, <1>7, <2>1, <3>1 DEF FieldsAgree, OthersAlone
  <2>2. holder[l] # None => holder[l] \in Threads
    BY DEF IInv, TypeOK
  <2> QED BY <1>2, <1>3, <1>4, <1>6, <2>1, <2>2 DEF FieldsAgree, OthersAlone
<1> QED BY <1>8, <1>9

\* ... and then the holder is cleared.
LEMMA UnholdLocks ==
    ASSUME IInv, LockInv, NEW t \in Threads, Unhold(t)
    PROVE  LockInv'
<1>1. /\ pc \in [Threads -> Labels] /\ holder \in [Locks -> Threads \cup {None}]
      /\ pc[t] = "unhold" /\ pc' = [pc EXCEPT ![t] = "up"] /\ lk[t] \in Locks /\ sem[t] = lk[t]
      /\ holder' = [holder EXCEPT ![lk[t]] = None]
      /\ UNCHANGED <<value, sema_list, ret, lk, sem, lp>>
  BY DEF IInv, TypeOK, ArgsOK, ArgsOf, Unhold, At, Goto, semaVars, structVars
<1>2. OthersAlone(t) /\ pc'[t] = "up"
  BY <1>1 DEF OthersAlone
<1>3. SUFFICES ASSUME NEW l \in Locks PROVE OneOwner(l)' /\ FieldsAgree(l)'
  BY DEF LockInv
<1>4. OneOwner(l) /\ FieldsAgree(l)
  BY DEF LockInv
<1>5. \A u \in Threads : Owns(u, l)' <=> Owns(u, l)
  BY <1>1, <1>2 DEF Owns, OthersAlone
<1>6. OneOwner(l)'
  BY <1>1, <1>4, <1>5 DEF OneOwner
<1>7. FieldsAgree(l)'
  <2>1. CASE l = lk[t]
    <3>1. Owns(t, l) /\ holder'[l] = None /\ l \notin sema_list[t]
      BY <1>1, <1>4, <2>1 DEF FieldsAgree, Owns
    <3>2. \A u \in Threads : l \notin sema_list[u]
      BY <1>4, <3>1 DEF OneOwner, Owns
    <3> QED BY <1>1, <1>2, <1>4, <3>1, <3>2 DEF FieldsAgree, OthersAlone
  <2>2. CASE l # lk[t]
    <3>1. holder'[l] = holder[l]
      BY <1>1, <2>2
    <3>2. ASSUME NEW h \in Threads, h = holder[l]
          PROVE  Owns(h, l)' /\ ~(pc'[h] = "up" /\ sem'[h] = l)
      <4>1. h # None
        BY SchedAssumption
      <4> QED BY <1>1, <1>2, <1>4, <1>5, <2>2, <3>2, <4>1 DEF FieldsAgree, OthersAlone
    <3>3. holder[l] # None => holder[l] \in Threads
      BY <1>1
    <3> QED BY <1>1, <1>2, <1>4, <3>1, <3>2, <3>3 DEF FieldsAgree, OthersAlone
  <2> QED BY <2>1, <2>2
<1> QED BY <1>6, <1>7

\* The other steps: the running thread is not at work on a lock it owns, before
\* the step or after it.
LEMMA OtherLocks ==
    ASSUME IInv, LockInv, NEW t \in Threads,
           \/ \E new \in Threads : ThreadCreate(t, new) /\ NotTimer /\ NotSync
           \/ \E new \in NewPriorities : ThreadSetPriority(t, new) /\ NotTimer /\ NotSync
           \/ YieldCheck(t) /\ NotTimer /\ NotSync
           \/ YieldFront(t) /\ NotTimer /\ NotSync
           \/ \E n \in SleepTicks : SleepStart(t, n) /\ NotSync
           \/ SleepBlock(t) /\ NotSync
           \/ SleepReturn(t) /\ NotSync
           \/ \E s \in Semas : SemaTryDown(t, s) /\ NotTimer
           \/ \E s \in Semas, l \in {"down", "up"} : SemaCall(t, s, l) /\ NotTimer
           \/ \E l \in Locks : LockAcquire(t, l) /\ NotTimer
           \/ Compare(t) /\ NotTimer
           \/ Donate(t) /\ NotTimer
           \/ Chain(t) /\ NotTimer
           \/ ChainDonate(t) /\ NotTimer
           \/ CondDown(t) /\ NotTimer
           \/ CondReacquire(t) /\ NotTimer
           \/ CondSignal(t) /\ NotTimer
           \/ CondBroadcast(t) /\ NotTimer
           \/ Broadcast(t) /\ NotTimer
    PROVE  LockInv'
<1>1. /\ pc \in [Threads -> Labels] /\ ret \in [Threads -> {"run", "cond_wait", "broadcast"}]
      /\ lk \in [Threads -> Locks \cup {None}] /\ sem \in [Threads -> Semaphores \cup {None}]
      /\ lp \in [Threads -> Locks \cup {None}] /\ value \in [Semaphores -> Nat]
  BY DEF IInv, TypeOK
<1>2. cond_waiters # <<>> => Head(cond_waiters).thread \in Threads
  <2>1. cond_waiters \in Seq([thread : Threads, priority : Priorities])
    BY DEF IInv, TypeOK
  <2>2. cond_waiters # <<>> => Head(cond_waiters) \in [thread : Threads, priority : Priorities]
    BY <2>1, HeadTailProperties
  <2> QED BY <2>2
<1>3. ASSUME NEW new \in Threads, ThreadCreate(t, new), NotTimer, NotSync
      PROVE  LockInv'
  <2>1. UNCHANGED <<sema_list, holder>> /\ \A k \in Locks : value'[k] = value[k]
    BY <1>3 DEF ThreadCreate, Goto, structVars, modeVars, semaVars, lockVars, syncVars,
       timerVars, NotTimer, NotSync
  <2>2. OthersAlone(t)
    BY <1>1, <1>3 DEF OthersAlone, ThreadCreate, At, Goto, structVars, modeVars,
       semaVars, lockVars, syncVars, timerVars, NotTimer, NotSync
  <2>3. ~AtLock(t) /\ ~AtLock(t)'
    BY <1>1, <1>2, <1>3 DEF AtLock, ThreadCreate, At, Goto, structVars, modeVars,
       semaVars, lockVars, syncVars, timerVars, NotTimer, NotSync
  <2> QED BY <2>1, <2>2, <2>3, LockAlone
<1>4. ASSUME NEW new \in NewPriorities, ThreadSetPriority(t, new), NotTimer, NotSync
      PROVE  LockInv'
  <2>1. UNCHANGED <<sema_list, holder>> /\ \A k \in Locks : value'[k] = value[k]
    BY <1>4 DEF ThreadSetPriority, Calls, Goto, cpuVars, modeVars, semaVars, lockVars,
       syncVars, timerVars, NotTimer, NotSync
  <2>2. OthersAlone(t)
    BY <1>1, <1>4 DEF OthersAlone, ThreadSetPriority, At, Calls, Goto, cpuVars,
       modeVars, semaVars, lockVars, syncVars, timerVars, NotTimer, NotSync
  <2>3. ~AtLock(t) /\ ~AtLock(t)'
    BY <1>1, <1>2, <1>4 DEF AtLock, ThreadSetPriority, At, Calls, Goto, cpuVars,
       modeVars, semaVars, lockVars, syncVars, timerVars, NotTimer, NotSync
  <2> QED BY <2>1, <2>2, <2>3, LockAlone
<1>5. ASSUME YieldCheck(t), NotTimer, NotSync
      PROVE  LockInv'
  <2>1. UNCHANGED <<sema_list, holder>> /\ \A k \in Locks : value'[k] = value[k]
    BY <1>5 DEF YieldCheck, Goto, cpuVars, structVars, modeVars, semaVars, lockVars,
       syncVars, timerVars, NotTimer, NotSync
  <2>2. OthersAlone(t)
    BY <1>1, <1>5 DEF OthersAlone, YieldCheck, At, Goto, cpuVars, structVars, modeVars,
       semaVars, lockVars, syncVars, timerVars, NotTimer, NotSync
  <2>3. ~AtLock(t) /\ ~AtLock(t)'
    BY <1>1, <1>2, <1>5 DEF AtLock, YieldCheck, At, Goto, cpuVars, structVars, modeVars,
       semaVars, lockVars, syncVars, timerVars, NotTimer, NotSync
  <2> QED BY <2>1, <2>2, <2>3, LockAlone
<1>6. ASSUME YieldFront(t), NotTimer, NotSync
      PROVE  LockInv'
  <2>1. UNCHANGED <<sema_list, holder>> /\ \A k \in Locks : value'[k] = value[k]
    BY <1>6 DEF YieldFront, Goto, Panic, cpuVars, structVars, semaVars, lockVars,
       syncVars, timerVars, NotTimer, NotSync
  <2>2. OthersAlone(t)
    BY <1>1, <1>6 DEF OthersAlone, YieldFront, At, Goto, Panic, cpuVars, structVars,
       semaVars, lockVars, syncVars, timerVars, NotTimer, NotSync
  <2>3. ~AtLock(t) /\ ~AtLock(t)'
    BY <1>1, <1>2, <1>6 DEF AtLock, YieldFront, At, Goto, Panic, cpuVars, structVars,
       semaVars, lockVars, syncVars, timerVars, NotTimer, NotSync
  <2> QED BY <2>1, <2>2, <2>3, LockAlone
<1>7. ASSUME NEW n \in SleepTicks, SleepStart(t, n), NotSync
      PROVE  LockInv'
  <2>1. UNCHANGED <<sema_list, holder>> /\ \A k \in Locks : value'[k] = value[k]
    BY <1>7 DEF SleepStart, Calls, Goto, cpuVars, structVars, modeVars, semaVars,
       lockVars, syncVars, NotSync
  <2>2. OthersAlone(t)
    BY <1>1, <1>7 DEF OthersAlone, SleepStart, At, Calls, Goto, cpuVars, structVars,
       modeVars, semaVars, lockVars, syncVars, NotSync
  <2>3. ~AtLock(t) /\ ~AtLock(t)'
    BY <1>1, <1>2, <1>7 DEF AtLock, SleepStart, At, Calls, Goto, cpuVars, structVars,
       modeVars, semaVars, lockVars, syncVars, NotSync
  <2> QED BY <2>1, <2>2, <2>3, LockAlone
<1>8. ASSUME SleepBlock(t), NotSync
      PROVE  LockInv'
  <2>1. UNCHANGED <<sema_list, holder>> /\ \A k \in Locks : value'[k] = value[k]
    BY <1>8 DEF SleepBlock, Goto, structVars, modeVars, semaVars, lockVars, syncVars,
       NotSync
  <2>2. OthersAlone(t)
    BY <1>1, <1>8 DEF OthersAlone, SleepBlock, At, Goto, structVars, modeVars, semaVars,
       lockVars, syncVars, NotSync
  <2>3. ~AtLock(t) /\ ~AtLock(t)'
    BY <1>1, <1>2, <1>8 DEF AtLock, SleepBlock, At, Goto, structVars, modeVars,
       semaVars, lockVars, syncVars, NotSync
  <2> QED BY <2>1, <2>2, <2>3, LockAlone
<1>9. ASSUME SleepReturn(t), NotSync
      PROVE  LockInv'
  <2>1. UNCHANGED <<sema_list, holder>> /\ \A k \in Locks : value'[k] = value[k]
    BY <1>9 DEF SleepReturn, Goto, cpuVars, structVars, modeVars, semaVars, lockVars,
       syncVars, timerVars, NotSync
  <2>2. OthersAlone(t)
    BY <1>1, <1>9 DEF OthersAlone, SleepReturn, At, Goto, cpuVars, structVars, modeVars,
       semaVars, lockVars, syncVars, timerVars, NotSync
  <2>3. ~AtLock(t) /\ ~AtLock(t)'
    BY <1>1, <1>2, <1>9 DEF AtLock, SleepReturn, At, Goto, cpuVars, structVars,
       modeVars, semaVars, lockVars, syncVars, timerVars, NotSync
  <2> QED BY <2>1, <2>2, <2>3, LockAlone
<1>10. ASSUME NEW s \in Semas, SemaTryDown(t, s), NotTimer
      PROVE  LockInv'
  <2>1. UNCHANGED <<sema_list, holder>> /\ \A k \in Locks : value'[k] = value[k]
    BY <1>1, <1>10, SyncAssumption DEF SemaTryDown, Calls, CanDown, cpuVars, structVars,
       modeVars, lockVars, timerVars, NotTimer
  <2>2. OthersAlone(t)
    BY <1>1, <1>10 DEF OthersAlone, SemaTryDown, At, Calls, CanDown, cpuVars,
       structVars, modeVars, lockVars, timerVars, NotTimer
  <2>3. ~AtLock(t) /\ ~AtLock(t)'
    BY <1>1, <1>2, <1>10 DEF AtLock, SemaTryDown, At, Calls, CanDown, cpuVars,
       structVars, modeVars, lockVars, timerVars, NotTimer
  <2> QED BY <2>1, <2>2, <2>3, LockAlone
<1>11. ASSUME NEW s \in Semas, NEW l \in {"down", "up"}, SemaCall(t, s, l), NotTimer
      PROVE  LockInv'
  <2>1. UNCHANGED <<sema_list, holder>> /\ \A k \in Locks : value'[k] = value[k]
    BY <1>11 DEF SemaCall, Calls, Goto, cpuVars, structVars, modeVars, semaVars,
       lockVars, timerVars, NotTimer
  <2>2. OthersAlone(t)
    BY <1>1, <1>11 DEF OthersAlone, SemaCall, At, Calls, Goto, cpuVars, structVars,
       modeVars, semaVars, lockVars, timerVars, NotTimer
  <2>3. ~AtLock(t) /\ ~AtLock(t)'
    BY <1>1, <1>2, <1>11, SyncAssumption DEF AtLock, SemaCall, At, Calls, Goto, cpuVars,
       structVars, modeVars, semaVars, lockVars, timerVars, NotTimer
  <2> QED BY <2>1, <2>2, <2>3, LockAlone
<1>12. ASSUME NEW l \in Locks, LockAcquire(t, l), NotTimer
      PROVE  LockInv'
  <2>1. UNCHANGED <<sema_list, holder>> /\ \A k \in Locks : value'[k] = value[k]
    BY <1>12 DEF LockAcquire, Calls, Goto, StartAcquire, cpuVars, structVars, modeVars,
       semaVars, timerVars, NotTimer
  <2>2. OthersAlone(t)
    BY <1>1, <1>12 DEF OthersAlone, LockAcquire, At, Calls, Goto, StartAcquire, cpuVars,
       structVars, modeVars, semaVars, timerVars, NotTimer
  <2>3. ~AtLock(t) /\ ~AtLock(t)'
    BY <1>1, <1>2, <1>12 DEF AtLock, LockAcquire, At, Calls, Goto, StartAcquire,
       cpuVars, structVars, modeVars, semaVars, timerVars, NotTimer
  <2> QED BY <2>1, <2>2, <2>3, LockAlone
<1>13. ASSUME Compare(t), NotTimer
      PROVE  LockInv'
  <2>1. UNCHANGED <<sema_list, holder>> /\ \A k \in Locks : value'[k] = value[k]
    BY <1>13 DEF Compare, Goto, Panic, ReadHolder, DonationUnchanged, cpuVars, semaVars,
       lockVars, timerVars, NotTimer
  <2>2. OthersAlone(t)
    BY <1>1, <1>13 DEF OthersAlone, Compare, At, Goto, Panic, ReadHolder,
       DonationUnchanged, cpuVars, semaVars, lockVars, timerVars, NotTimer
  <2>3. ~AtLock(t) /\ ~AtLock(t)'
    BY <1>1, <1>2, <1>13 DEF AtLock, Compare, At, Goto, Panic, ReadHolder,
       DonationUnchanged, cpuVars, semaVars, lockVars, timerVars, NotTimer
  <2> QED BY <2>1, <2>2, <2>3, LockAlone
<1>14. ASSUME Donate(t), NotTimer
      PROVE  LockInv'
  <2>1. UNCHANGED <<sema_list, holder>> /\ \A k \in Locks : value'[k] = value[k]
    BY <1>14 DEF Donate, Goto, Panic, ReadHolder, DonationUnchanged, cpuVars, semaVars,
       lockVars, timerVars, NotTimer
  <2>2. OthersAlone(t)
    BY <1>1, <1>14 DEF OthersAlone, Donate, At, Goto, Panic, ReadHolder,
       DonationUnchanged, cpuVars, semaVars, lockVars, timerVars, NotTimer
  <2>3. ~AtLock(t) /\ ~AtLock(t)'
    BY <1>1, <1>2, <1>14 DEF AtLock, Donate, At, Goto, Panic, ReadHolder,
       DonationUnchanged, cpuVars, semaVars, lockVars, timerVars, NotTimer
  <2> QED BY <2>1, <2>2, <2>3, LockAlone
<1>15. ASSUME Chain(t), NotTimer
      PROVE  LockInv'
  <2>1. UNCHANGED <<sema_list, holder>> /\ \A k \in Locks : value'[k] = value[k]
    BY <1>15 DEF Chain, Goto, Panic, ReadHolder, DonationUnchanged, cpuVars, semaVars,
       lockVars, timerVars, NotTimer
  <2>2. OthersAlone(t)
    BY <1>1, <1>15 DEF OthersAlone, Chain, At, Goto, Panic, ReadHolder,
       DonationUnchanged, cpuVars, semaVars, lockVars, timerVars, NotTimer
  <2>3. ~AtLock(t) /\ ~AtLock(t)'
    BY <1>1, <1>2, <1>15 DEF AtLock, Chain, At, Goto, Panic, ReadHolder,
       DonationUnchanged, cpuVars, semaVars, lockVars, timerVars, NotTimer
  <2> QED BY <2>1, <2>2, <2>3, LockAlone
<1>16. ASSUME ChainDonate(t), NotTimer
      PROVE  LockInv'
  <2>1. UNCHANGED <<sema_list, holder>> /\ \A k \in Locks : value'[k] = value[k]
    BY <1>16 DEF ChainDonate, Goto, Panic, ReadHolder, DonationUnchanged, cpuVars,
       semaVars, lockVars, timerVars, NotTimer
  <2>2. OthersAlone(t)
    BY <1>1, <1>16 DEF OthersAlone, ChainDonate, At, Goto, Panic, ReadHolder,
       DonationUnchanged, cpuVars, semaVars, lockVars, timerVars, NotTimer
  <2>3. ~AtLock(t) /\ ~AtLock(t)'
    BY <1>1, <1>2, <1>16 DEF AtLock, ChainDonate, At, Goto, Panic, ReadHolder,
       DonationUnchanged, cpuVars, semaVars, lockVars, timerVars, NotTimer
  <2> QED BY <2>1, <2>2, <2>3, LockAlone
<1>17. ASSUME CondDown(t), NotTimer
      PROVE  LockInv'
  <2>1. UNCHANGED <<sema_list, holder>> /\ \A k \in Locks : value'[k] = value[k]
    BY <1>17 DEF CondDown, Goto, cpuVars, structVars, modeVars, semaVars, lockVars,
       timerVars, NotTimer
  <2>2. OthersAlone(t)
    BY <1>1, <1>17 DEF OthersAlone, CondDown, At, Goto, cpuVars, structVars, modeVars,
       semaVars, lockVars, timerVars, NotTimer
  <2>3. ~AtLock(t) /\ ~AtLock(t)'
    BY <1>1, <1>2, <1>17 DEF AtLock, CondDown, At, Goto, cpuVars, structVars, modeVars,
       semaVars, lockVars, timerVars, NotTimer
  <2> QED BY <2>1, <2>2, <2>3, LockAlone
<1>18. ASSUME CondReacquire(t), NotTimer
      PROVE  LockInv'
  <2>1. UNCHANGED <<sema_list, holder>> /\ \A k \in Locks : value'[k] = value[k]
    BY <1>18 DEF CondReacquire, Goto, StartAcquire, cpuVars, structVars, modeVars,
       semaVars, timerVars, NotTimer
  <2>2. OthersAlone(t)
    BY <1>1, <1>18 DEF OthersAlone, CondReacquire, At, Goto, StartAcquire, cpuVars,
       structVars, modeVars, semaVars, timerVars, NotTimer
  <2>3. ~AtLock(t) /\ ~AtLock(t)'
    BY <1>1, <1>2, <1>18 DEF AtLock, CondReacquire, At, Goto, StartAcquire, cpuVars,
       structVars, modeVars, semaVars, timerVars, NotTimer
  <2> QED BY <2>1, <2>2, <2>3, LockAlone
<1>19. ASSUME CondSignal(t), NotTimer
      PROVE  LockInv'
  <2>1. UNCHANGED <<sema_list, holder>> /\ \A k \in Locks : value'[k] = value[k]
    BY <1>19 DEF CondSignal, Calls, Goto, PopAndUp, CondPopped, cpuVars, structVars,
       modeVars, semaVars, lockVars, timerVars, NotTimer
  <2>2. OthersAlone(t)
    BY <1>1, <1>19 DEF OthersAlone, CondSignal, At, Calls, Goto, PopAndUp, CondPopped,
       cpuVars, structVars, modeVars, semaVars, lockVars, timerVars, NotTimer
  <2>3. ~AtLock(t) /\ ~AtLock(t)'
    BY <1>1, <1>2, <1>19, SchedAssumption DEF AtLock, CondSignal, At, Calls, Goto,
       PopAndUp, CondPopped, cpuVars, structVars, modeVars, semaVars, lockVars,
       timerVars, NotTimer
  <2> QED BY <2>1, <2>2, <2>3, LockAlone
<1>20. ASSUME CondBroadcast(t), NotTimer
      PROVE  LockInv'
  <2>1. UNCHANGED <<sema_list, holder>> /\ \A k \in Locks : value'[k] = value[k]
    BY <1>20 DEF CondBroadcast, Calls, Goto, cpuVars, structVars, modeVars, semaVars,
       lockVars, syncVars, timerVars, NotTimer
  <2>2. OthersAlone(t)
    BY <1>1, <1>20 DEF OthersAlone, CondBroadcast, At, Calls, Goto, cpuVars, structVars,
       modeVars, semaVars, lockVars, syncVars, timerVars, NotTimer
  <2>3. ~AtLock(t) /\ ~AtLock(t)'
    BY <1>1, <1>2, <1>20 DEF AtLock, CondBroadcast, At, Calls, Goto, cpuVars,
       structVars, modeVars, semaVars, lockVars, syncVars, timerVars, NotTimer
  <2> QED BY <2>1, <2>2, <2>3, LockAlone
<1>21. ASSUME Broadcast(t), NotTimer
      PROVE  LockInv'
  <2>1. UNCHANGED <<sema_list, holder>> /\ \A k \in Locks : value'[k] = value[k]
    BY <1>21 DEF Broadcast, Goto, PopAndUp, CondPopped, cpuVars, structVars, modeVars,
       semaVars, lockVars, syncVars, timerVars, NotTimer
  <2>2. OthersAlone(t)
    BY <1>1, <1>21 DEF OthersAlone, Broadcast, At, Goto, PopAndUp, CondPopped, cpuVars,
       structVars, modeVars, semaVars, lockVars, syncVars, timerVars, NotTimer
  <2>3. ~AtLock(t) /\ ~AtLock(t)'
    BY <1>1, <1>2, <1>21, SchedAssumption DEF AtLock, Broadcast, At, Goto, PopAndUp,
       CondPopped, cpuVars, structVars, modeVars, semaVars, lockVars, syncVars,
       timerVars, NotTimer
  <2> QED BY <2>1, <2>2, <2>3, LockAlone
<1> QED BY <1>3, <1>4, <1>5, <1>6, <1>7, <1>8, <1>9, <1>10, <1>11, <1>12, <1>13, <1>14,
       <1>15, <1>16, <1>17, <1>18, <1>19, <1>20, <1>21

\* One lemma for each group of disjuncts of Next, put together.
LEMMA NextLockInv == IInv /\ LockInv /\ [Next]_vars => LockInv'
<1> SUFFICES ASSUME IInv, LockInv, [Next]_vars PROVE LockInv'
  OBVIOUS
<1>1. CASE UNCHANGED vars
  BY <1>1, LockUnchanged DEF vars, schedVars, structVars, syncVars, semaVars, lockVars
<1>2. CASE Next
  <2>1. CASE \/ IdleLoop /\ NotTimer /\ NotSync
             \/ TimerInterrupt /\ NotSync
             \/ WakeSleeper /\ NotSync
             \/ InterruptReturn /\ NotSync
             \/ \E t \in Threads : Yield(t) /\ NotTimer /\ NotSync
             \/ \E t \in Threads : ThreadExit(t) /\ NotTimer /\ NotSync
    BY <2>1, LockUnchanged DEF IdleLoop, TimerInterrupt, WakeSleeper, InterruptReturn, Yield,
       ThreadExit, structVars, NotSync, syncVars, semaVars, lockVars
  <2>2. ASSUME NEW t \in Threads,
               \/ \E new \in Threads : ThreadCreate(t, new) /\ NotTimer /\ NotSync
               \/ \E new \in NewPriorities : ThreadSetPriority(t, new) /\ NotTimer /\ NotSync
               \/ YieldCheck(t) /\ NotTimer /\ NotSync
               \/ YieldFront(t) /\ NotTimer /\ NotSync
               \/ \E n \in SleepTicks : SleepStart(t, n) /\ NotSync
               \/ SleepBlock(t) /\ NotSync
               \/ SleepReturn(t) /\ NotSync
               \/ \E s \in Semas : SemaTryDown(t, s) /\ NotTimer
               \/ \E s \in Semas, l \in {"down", "up"} : SemaCall(t, s, l) /\ NotTimer
               \/ \E l \in Locks : LockAcquire(t, l) /\ NotTimer
               \/ Compare(t) /\ NotTimer
               \/ Donate(t) /\ NotTimer
               \/ Chain(t) /\ NotTimer
               \/ ChainDonate(t) /\ NotTimer
               \/ CondDown(t) /\ NotTimer
               \/ CondReacquire(t) /\ NotTimer
               \/ CondSignal(t) /\ NotTimer
               \/ CondBroadcast(t) /\ NotTimer
               \/ Broadcast(t) /\ NotTimer
        PROVE  LockInv'
    BY <2>2, OtherLocks
  <2>3. ASSUME NEW t \in Threads,
               SemaDown(t) \/ SemaUp(t) \/ Take(t) \/ Own(t) \/ Unhold(t)
        PROVE  LockInv'
    BY <2>3, SemaDownLocks, SemaUpLocks, TakeLocks, OwnLocks, UnholdLocks
  <2>4. ASSUME NEW t \in Threads, NEW l \in Locks, LockRelease(t, l)
        PROVE  LockInv'
    BY <2>4, StartReleaseLocks DEF LockRelease
  <2>5. ASSUME NEW t \in Threads, CondWait(t)
        PROVE  LockInv'
    <3>1. CondLock \in Locks
      BY <2>5 DEF IInv, TypeOK, CondWait
    <3> QED BY <2>5, <3>1, StartReleaseLocks DEF CondWait, Calls
  <2> QED BY <1>2, <2>1, <2>2, <2>3, <2>4, <2>5 DEF Next
<1> QED BY <1>1, <1>2

\* At boot every lock is free and its semaphore 1.
LEMMA InitLockInv == Init => LockInv
<1> SUFFICES ASSUME Init, NEW l \in Locks PROVE OneOwner(l) /\ FieldsAgree(l)
  BY DEF LockInv
<1>1. value[l] = 1 /\ holder[l] = None /\ \A t \in Threads : sema_list[t] = {} /\ pc[t] = "run"
  BY DEF Init, SchedInit, SyncInit, Semaphores
<1>2. \A t \in Threads : ~Owns(t, l)
  BY <1>1 DEF Owns
<1> QED BY <1>1, <1>2 DEF OneOwner, FieldsAgree

\* Locks exclude: a lock has one owner exactly when its semaphore is 0, and its
\* holder field never names another thread (lock_acquire, lock_release).
THEOREM KernelLockOwnership == Spec => []LockOwnership
<1>1. Init => IInv /\ LockInv
  BY InitIInv, InitLockInv
<1>2. IInv /\ LockInv /\ [Next]_vars => (IInv /\ LockInv)'
  BY NextIInv, NextLockInv
<1> QED BY <1>1, <1>2, LockInvImplies, PTL DEF Spec

-----------------------------------------------------------------------------
(* Who is woken.                                                           *)

\* The steps that touch the value or the waiters of a semaphore.
LEMMA SemaSteps ==
    ASSUME [Next]_vars
    PROVE  \/ UNCHANGED semaVars
           \/ \E t \in Threads : SemaDown(t) \/ SemaUp(t) \/ \E s \in Semas : SemaTryDown(t, s)
<1>1. CASE UNCHANGED vars
  BY <1>1 DEF vars, syncVars
<1>2. CASE NotSync
  BY <1>2 DEF NotSync, syncVars
<1>3. ASSUME NEW t \in Threads,
             \/ \E s \in Semas, l \in {"down", "up"} : SemaCall(t, s, l)
             \/ \E l \in Locks : LockAcquire(t, l)
             \/ \E l \in Locks : LockRelease(t, l)
      PROVE  UNCHANGED semaVars
  BY <1>3 DEF SemaCall, LockAcquire, LockRelease, StartAcquire, StartRelease
<1>4. ASSUME NEW t \in Threads,
             \/ Compare(t) \/ Donate(t) \/ Chain(t) \/ ChainDonate(t)
             \/ Take(t) \/ Own(t) \/ Unhold(t)
      PROVE  UNCHANGED semaVars
  BY <1>4 DEF Compare, Donate, Chain, ChainDonate, DonationUnchanged, Take, Own, Unhold
<1>5. ASSUME NEW t \in Threads,
             \/ CondWait(t) \/ CondDown(t) \/ CondReacquire(t)
             \/ CondSignal(t) \/ CondBroadcast(t) \/ Broadcast(t)
      PROVE  UNCHANGED semaVars
  BY <1>5 DEF CondWait, CondDown, CondReacquire, CondSignal, CondBroadcast, Broadcast,
     StartAcquire, StartRelease, PopAndUp, syncVars
<1> QED BY <1>1, <1>2, <1>3, <1>4, <1>5 DEF Next

\* What sema_up does with a waiter: the one it takes off has the highest priority.
LEMMA SemaUpTakesHighest ==
    ASSUME IInv, NEW t \in Threads, SemaUp(t), HasWaiter(sem[t])
    PROVE  \E w \in Range(waiters[sem[t]]) :
             /\ waiters' \in [Semaphores -> Seq(Threads)]
             /\ Range(waiters'[sem[t]]) = Range(waiters[sem[t]]) \ {w}
             /\ \A r \in Semaphores \ {sem[t]} : waiters'[r] = waiters[r]
             /\ \A x \in Range(waiters[sem[t]]) : priority[x] <= priority[w]
<1> DEFINE s == sem[t]
           i == LastMax(waiters[s], priority)
           w == waiters[s][i]
<1>1. s \in Semaphores
  BY DEF IInv, ArgsOK, ArgsOf, SemaUp, At
<1>2. waiters' = [waiters EXCEPT ![s] = RemoveAt(waiters[s], i)]
  BY DEF SemaUp, WaitersWithout
<1>3. waiters[s] \in Seq(Threads) /\ waiters[s] # <<>> /\ NoDuplicates(waiters[s])
  BY <1>1 DEF IInv, TypeOK, QueuesOK, HasWaiter
<1>4. priority \in [Threads -> 0..63] /\ 63 \in Nat
  BY DEF IInv, TypeOK, Priorities
<1>5. /\ i \in 1..Len(waiters[s])
      /\ \A j \in 1..Len(waiters[s]) : priority[waiters[s][j]] <= priority[waiters[s][i]]
  BY <1>3, <1>4, LastMaxProperties
<1>6. /\ RemoveAt(waiters[s], i) \in Seq(Threads)
      /\ Range(RemoveAt(waiters[s], i)) = Range(waiters[s]) \ {w}
      /\ w \in Range(waiters[s])
  BY <1>3, <1>5, RemoveAtElements, RangeIsElements
<1>7. \A x \in Range(waiters[s]) : priority[x] <= priority[w]
  BY <1>3, <1>5, RangeIsElements
<1> HIDE DEF i, w
<1>8. /\ waiters'[s] = RemoveAt(waiters[s], i)
      /\ \A r \in Semaphores \ {s} : waiters'[r] = waiters[r]
      /\ waiters' \in [Semaphores -> Seq(Threads)]
  BY <1>1, <1>2, <1>6 DEF IInv, TypeOK
<1> QED BY <1>6, <1>7, <1>8

\* A sema_down that must wait puts the caller on the list, and takes no one off.
LEMMA SemaDownAdds ==
    ASSUME IInv, NEW t \in Threads, SemaDown(t), MustWait(t)
    PROVE  /\ sem[t] \in Semaphores
           /\ Range(waiters'[sem[t]]) = Range(waiters[sem[t]]) \cup {t}
           /\ \A r \in Semaphores \ {sem[t]} : waiters'[r] = waiters[r]
<1> DEFINE s == sem[t]
<1>1. s \in Semaphores /\ waiters \in [Semaphores -> Seq(Threads)]
  BY DEF IInv, TypeOK, ArgsOK, ArgsOf, SemaDown, At
<1>2. waiters' = [waiters EXCEPT ![s] = InsertOrdered(waiters[s], t, NotOutranked(t))]
  BY DEF SemaDown
<1>3. waiters[s] \in Seq(Threads)
  BY <1>1
<1>4. Range(InsertOrdered(waiters[s], t, NotOutranked(t))) = Range(waiters[s]) \cup {t}
  BY <1>3, InsertOrderedElements
<1> QED BY <1>1, <1>2, <1>4

\* tests/threads/priority-sema.c, donated priorities included: of the waiters of a
\* semaphore the one that is taken off has the highest priority at that moment.
THEOREM KernelWakesHighest == Spec => WakesHighest
<1> DEFINE Highest ==
             \A s \in Semaphores : \A w \in Range(waiters[s]) \ Range(waiters'[s]) :
               \A x \in Range(waiters[s]) : priority[x] <= priority[w]
<1>1. ASSUME IInv, [Next]_vars PROVE Highest
  <2>1. CASE UNCHANGED waiters
    BY <2>1
  <2>2. ASSUME NEW t \in Threads, SemaDown(t) PROVE Highest
    <3>1. CASE MustWait(t)
      <4>1. \A s \in Semaphores : Range(waiters[s]) \subseteq Range(waiters'[s])
        BY <1>1, <2>2, <3>1, SemaDownAdds
      <4> QED BY <4>1
    <3>2. CASE ~MustWait(t)
      BY <2>1, <2>2, <3>2 DEF SemaDown
    <3> QED BY <3>1, <3>2
  <2>3. ASSUME NEW t \in Threads, SemaUp(t) PROVE Highest
    <3>1. CASE HasWaiter(sem[t])
      <4>1. PICK w \in Range(waiters[sem[t]]) :
              /\ Range(waiters'[sem[t]]) = Range(waiters[sem[t]]) \ {w}
              /\ \A r \in Semaphores \ {sem[t]} : waiters'[r] = waiters[r]
              /\ \A x \in Range(waiters[sem[t]]) : priority[x] <= priority[w]
        BY <1>1, <2>3, <3>1, SemaUpTakesHighest
      <4> QED BY <4>1
    <3>2. CASE ~HasWaiter(sem[t])
      BY <2>1, <2>3, <3>2 DEF SemaUp
    <3> QED BY <3>1, <3>2
  <2>4. ASSUME NEW t \in Threads, NEW s \in Semas, SemaTryDown(t, s) PROVE Highest
    BY <2>1, <2>4 DEF SemaTryDown
  <2> HIDE DEF Highest
  <2> QED BY <1>1, <2>1, <2>2, <2>3, <2>4, SemaSteps DEF semaVars
<1>2. IInv /\ [Next]_vars => [Highest]_vars
  BY <1>1
<1> QED BY <1>2, KernelInvariant, PTL DEF Spec, WakesHighest

-----------------------------------------------------------------------------
(* No wake-up is lost.                                                     *)

\* The threads in the loop of sema_down on s, woken or not.
InDown(s) == {t \in Threads : pc[t] = "wake" /\ sem[t] = s}

\* A woken thread is one that the list of waiters no longer has.
LEMMA WokenAreOffTheList ==
    ASSUME IInv, NEW s \in Semaphores
    PROVE  Woken(s) = InDown(s) \ Range(waiters[s])
BY DEF IInv, QueuesOK, Woken, InDown

LEMMA WokenAreOffTheListNext ==
    ASSUME IInv', NEW s \in Semaphores
    PROVE  Woken(s)' = InDown(s)' \ Range(waiters'[s])
BY DEF IInv, QueuesOK, Woken, InDown

\* Only sema_down brings a thread into its loop, or out of it.
LEMMA InDownAlone ==
    ASSUME IInv, [Next]_vars, \A t \in Threads : ~SemaDown(t)
    PROVE  \A s \in Semaphores : InDown(s)' = InDown(s)
<1> DEFINE Alone ==
             \A u \in Threads : /\ (pc'[u] = "wake") <=> (pc[u] = "wake")
                                /\ pc[u] = "wake" => sem'[u] = sem[u]
<1>1. /\ pc \in [Threads -> Labels] /\ sem \in [Threads -> Semaphores \cup {None}]
      /\ ret \in [Threads -> {"run", "cond_wait", "broadcast"}]
  BY DEF IInv, TypeOK
<1> USE DEF At, Calls, Goto
<1>2. ASSUME UNCHANGED <<pc, sem>> PROVE Alone
  BY <1>2
<1>3. ASSUME UNCHANGED vars PROVE Alone
  BY <1>2, <1>3 DEF vars, schedVars, syncVars
<1>4. ASSUME IdleLoop \/ TimerInterrupt \/ WakeSleeper \/ InterruptReturn, NotSync PROVE Alone
  BY <1>2, <1>4 DEF IdleLoop, TimerInterrupt, WakeSleeper, InterruptReturn, NotSync, syncVars
<1>5. ASSUME NEW t \in Threads, NotSync,
             \/ \E new \in Threads : ThreadCreate(t, new)
             \/ \E new \in NewPriorities : ThreadSetPriority(t, new)
             \/ YieldCheck(t) \/ YieldFront(t) \/ Yield(t) \/ ThreadExit(t)
             \/ \E n \in SleepTicks : SleepStart(t, n)
             \/ SleepBlock(t) \/ SleepReturn(t)
      PROVE  Alone
  BY <1>1, <1>5 DEF ThreadCreate, ThreadSetPriority, YieldCheck, YieldFront, Yield, ThreadExit,
     SleepStart, SleepBlock, SleepReturn, NotSync, syncVars
<1>6. ASSUME NEW t \in Threads,
             \/ SemaUp(t)
             \/ \E s \in Semas : SemaTryDown(t, s)
             \/ \E s \in Semas, l \in {"down", "up"} : SemaCall(t, s, l)
             \/ \E l \in Locks : LockAcquire(t, l)
             \/ \E l \in Locks : LockRelease(t, l)
      PROVE  Alone
  BY <1>1, <1>6 DEF SemaUp, SemaTryDown, SemaCall, LockAcquire, LockRelease, StartAcquire,
     StartRelease
<1>7. ASSUME NEW t \in Threads,
             \/ Compare(t) \/ Donate(t) \/ Chain(t) \/ ChainDonate(t)
             \/ Take(t) \/ Own(t) \/ Unhold(t)
      PROVE  Alone
  BY <1>1, <1>7 DEF Compare, Donate, Chain, ChainDonate, ReadHolder, DonationUnchanged, Take,
     Own, Unhold
<1>8. ASSUME NEW t \in Threads,
             \/ CondWait(t) \/ CondDown(t) \/ CondReacquire(t)
             \/ CondSignal(t) \/ CondBroadcast(t) \/ Broadcast(t)
      PROVE  Alone
  BY <1>1, <1>8 DEF CondWait, CondDown, CondReacquire, CondSignal, CondBroadcast, Broadcast,
     StartAcquire, StartRelease, PopAndUp, syncVars
<1>9. Alone
  <2> HIDE DEF Alone
  <2> QED BY <1>2, <1>3, <1>4, <1>5, <1>6, <1>7, <1>8 DEF Next
<1> QED BY <1>9 DEF InDown

\* The strengthening: the woken threads are finitely many, so that one more or one
\* less counts.
WakeupsOK ==
    \A s \in Semaphores :
      /\ IsFiniteSet(Woken(s))
      /\ waiters[s] # <<>> => Cardinality(Woken(s)) >= value[s]

\* sema_down: a thread that goes to sleep saw a value of 0; one that takes a unit
\* after a wake-up leaves the woken threads, and the value loses one as well.
LEMMA SemaDownWakeups ==
    ASSUME IInv, IInv', WakeupsOK, NEW t \in Threads, SemaDown(t)
    PROVE  WakeupsOK'
<1> DEFINE q == sem[t]
<1>1. q \in Semaphores /\ pc[t] \in {"down", "wake"} /\ sem' = sem
  BY DEF IInv, ArgsOK, ArgsOf, SemaDown, At
<1>2. value \in [Semaphores -> Nat] /\ pc \in [Threads -> Labels]
  BY DEF IInv, TypeOK
<1>3. t \notin Range(waiters[q])
  <2>1. status[t] = "RUNNING"
    BY DEF IInv, CpuOK, SemaDown, At
  <2> QED BY <1>1, <2>1 DEF IInv, QueuesOK
<1>4. CASE MustWait(t)
  <2>1. value' = value /\ value[q] = 0 /\ pc' = [pc EXCEPT ![t] = "wake"]
    BY <1>4 DEF SemaDown, MustWait, Goto
  <2>2. /\ Range(waiters'[q]) = Range(waiters[q]) \cup {t}
        /\ \A r \in Semaphores \ {q} : waiters'[r] = waiters[r]
    BY <1>4, SemaDownAdds
  <2>3. \A s \in Semaphores : Woken(s)' = IF s = q THEN Woken(s) \ {t} ELSE Woken(s)
    <3>1. \A s \in Semaphores : InDown(s)' = IF s = q THEN InDown(s) \cup {t} ELSE InDown(s)
      BY <1>1, <1>2, <2>1 DEF InDown
    <3>2. \A s \in Semaphores : /\ Woken(s) = InDown(s) \ Range(waiters[s])
                                /\ Woken(s)' = InDown(s)' \ Range(waiters'[s])
      BY WokenAreOffTheList, WokenAreOffTheListNext
    <3> QED BY <1>3, <2>2, <3>1, <3>2
  <2>4. ASSUME NEW s \in Semaphores
        PROVE  /\ IsFiniteSet(Woken(s)')
               /\ waiters'[s] # <<>> => Cardinality(Woken(s)') >= value'[s]
    <3>1. CASE s = q
      <4>1. IsFiniteSet(Woken(s) \ {t})
        BY FS_RemoveElement DEF WakeupsOK
      <4>2. Cardinality(Woken(s) \ {t}) \in Nat
        BY <4>1, FS_CardinalityType
      <4>3. Woken(s)' = Woken(s) \ {t}
        BY <2>3, <3>1
      <4>4. value'[s] = 0
        BY <2>1, <3>1
      <4> QED BY <4>1, <4>2, <4>3, <4>4
    <3>2. CASE s # q
      BY <2>1, <2>2, <2>3, <3>2 DEF WakeupsOK
    <3> QED BY <3>1, <3>2
  <2> QED BY <2>4 DEF WakeupsOK
<1>5. CASE ~MustWait(t)
  <2>1. /\ value' = [value EXCEPT ![q] = @ - 1] /\ pc' = [pc EXCEPT ![t] = AfterDown(t)]
        /\ waiters' = waiters /\ value[q] # 0
    BY <1>5 DEF SemaDown, MustWait, Goto
  <2>2. \A s \in Semaphores : Woken(s)' = IF s = q THEN Woken(s) \ {t} ELSE Woken(s)
    <3>1. AfterDown(t) # "wake"
      BY DEF AfterDown
    <3>2. \A s \in Semaphores : InDown(s)' = IF s = q THEN InDown(s) \ {t} ELSE InDown(s)
      BY <1>1, <1>2, <2>1, <3>1 DEF InDown
    <3>3. \A s \in Semaphores : /\ Woken(s) = InDown(s) \ Range(waiters[s])
                                /\ Woken(s)' = InDown(s)' \ Range(waiters'[s])
      BY WokenAreOffTheList, WokenAreOffTheListNext
    <3> QED BY <2>1, <3>2, <3>3
  <2>3. ASSUME NEW s \in Semaphores
        PROVE  /\ IsFiniteSet(Woken(s)')
               /\ waiters'[s] # <<>> => Cardinality(Woken(s)') >= value'[s]
    <3>1. CASE s = q
      <4>1. /\ IsFiniteSet(Woken(s) \ {t})
            /\ Cardinality(Woken(s) \ {t}) =
                 IF t \in Woken(s) THEN Cardinality(Woken(s)) - 1 ELSE Cardinality(Woken(s))
        BY FS_RemoveElement DEF WakeupsOK
      <4>2. Cardinality(Woken(s)) \in Nat
        BY FS_CardinalityType DEF WakeupsOK
      <4>3. value[s] \in Nat /\ value'[s] = value[s] - 1
        BY <1>2, <2>1, <3>1
      <4>4. waiters[s] # <<>> => Cardinality(Woken(s)) >= value[s]
        BY DEF WakeupsOK
      <4>5. Woken(s)' = Woken(s) \ {t} /\ waiters' = waiters
        BY <2>1, <2>2, <3>1
      <4>6. waiters[s] # <<>> => Cardinality(Woken(s) \ {t}) >= value'[s]
        <5>1. CASE t \in Woken(s)
          BY <4>1, <4>2, <4>3, <4>4, <5>1
        <5>2. CASE t \notin Woken(s)
          BY <4>1, <4>2, <4>3, <4>4, <5>2
        <5> QED BY <5>1, <5>2
      <4> QED BY <4>1, <4>5, <4>6
    <3>2. CASE s # q
      BY <1>2, <2>1, <2>2, <3>2 DEF WakeupsOK
    <3> QED BY <3>1, <3>2
  <2> QED BY <2>3 DEF WakeupsOK
<1> QED BY <1>4, <1>5

\* sema_up adds a unit, and a thread on its way to take it if there is one.
LEMMA SemaUpWakeups ==
    ASSUME IInv, IInv', WakeupsOK, NEW t \in Threads, SemaUp(t),
           \A s \in Semaphores : InDown(s)' = InDown(s)
    PROVE  WakeupsOK'
<1> DEFINE q == sem[t]
<1>1. q \in Semaphores
  BY DEF IInv, ArgsOK, ArgsOf, SemaUp, At
<1>2. value' = [value EXCEPT ![q] = @ + 1] /\ value \in [Semaphores -> Nat]
  BY DEF IInv, TypeOK, SemaUp, Incremented
<1>3. \A s \in Semaphores : /\ Woken(s) = InDown(s) \ Range(waiters[s])
                            /\ Woken(s)' = InDown(s) \ Range(waiters'[s])
  BY WokenAreOffTheList, WokenAreOffTheListNext
<1>4. CASE ~HasWaiter(q)
  <2>1. waiters' = waiters /\ waiters[q] = <<>>
    BY <1>4 DEF SemaUp, HasWaiter
  <2>2. \A s \in Semaphores : Woken(s)' = Woken(s)
    BY <1>3, <2>1
  <2> QED BY <1>2, <2>1, <2>2 DEF WakeupsOK
<1>5. CASE HasWaiter(q)
  <2>1. PICK w \in Range(waiters[q]) :
          /\ Range(waiters'[q]) = Range(waiters[q]) \ {w}
          /\ \A r \in Semaphores \ {q} : waiters'[r] = waiters[r]
    BY <1>5, SemaUpTakesHighest
  <2>2. w \in InDown(q) /\ w \notin Woken(q)
    BY <1>1, <1>3, <2>1 DEF IInv, QueuesOK, InDown
  <2>3. \A s \in Semaphores : Woken(s)' = IF s = q THEN Woken(s) \cup {w} ELSE Woken(s)
    BY <1>3, <2>1, <2>2
  <2>4. ASSUME NEW s \in Semaphores
        PROVE  /\ IsFiniteSet(Woken(s)')
               /\ waiters'[s] # <<>> => Cardinality(Woken(s)') >= value'[s]
    <3>1. CASE s = q
      <4>1. /\ IsFiniteSet(Woken(q) \cup {w})
            /\ Cardinality(Woken(q) \cup {w}) = Cardinality(Woken(q)) + 1
        BY <1>1, <2>2, FS_AddElement DEF WakeupsOK
      <4>2. Cardinality(Woken(q)) \in Nat
        BY <1>1, FS_CardinalityType DEF WakeupsOK
      <4>3. value[q] \in Nat /\ value'[q] = value[q] + 1
        BY <1>1, <1>2
      <4>4. Cardinality(Woken(q)) >= value[q]
        BY <1>1, <1>5 DEF WakeupsOK, HasWaiter
      <4>5. Woken(s)' = Woken(q) \cup {w}
        BY <2>3, <3>1
      <4>6. Cardinality(Woken(q) \cup {w}) >= value'[q]
        BY <4>1, <4>2, <4>3, <4>4
      <4> QED BY <3>1, <4>1, <4>5, <4>6
    <3>2. CASE s # q
      BY <1>2, <2>1, <2>3, <3>2 DEF WakeupsOK
    <3> QED BY <3>1, <3>2
  <2> QED BY <2>4 DEF WakeupsOK
<1> QED BY <1>4, <1>5

\* No other step touches what WakeupsOK counts, but for a sema_try_down, which
\* takes a unit.
LEMMA NextWakeups == IInv /\ IInv' /\ WakeupsOK /\ [Next]_vars => WakeupsOK'
<1> SUFFICES ASSUME IInv, IInv', WakeupsOK, [Next]_vars PROVE WakeupsOK'
  OBVIOUS
<1>1. CASE \E t \in Threads : SemaDown(t)
  BY <1>1, SemaDownWakeups
<1>2. CASE \A t \in Threads : ~SemaDown(t)
  <2>1. \A s \in Semaphores : InDown(s)' = InDown(s)
    BY <1>2, InDownAlone
  <2>2. ASSUME waiters' = waiters PROVE \A s \in Semaphores : Woken(s)' = Woken(s)
    BY <2>1, <2>2, WokenAreOffTheList, WokenAreOffTheListNext
  <2>3. ASSUME NEW t \in Threads, SemaUp(t) PROVE WakeupsOK'
    BY <2>1, <2>3, SemaUpWakeups
  <2>4. ASSUME NEW t \in Threads, NEW s \in Semas, SemaTryDown(t, s) PROVE WakeupsOK'
    <3>1. value' = [value EXCEPT ![s] = @ - 1] /\ waiters' = waiters
      BY <2>4 DEF SemaTryDown
    <3>2. s \in Semaphores /\ value \in [Semaphores -> Nat]
      BY DEF IInv, TypeOK, Semaphores
    <3>3. ASSUME NEW r \in Semaphores
          PROVE  waiters[r] # <<>> => Cardinality(Woken(r)) >= value'[r]
      <4>1. IsFiniteSet(Woken(r)) /\ (waiters[r] # <<>> => Cardinality(Woken(r)) >= value[r])
        BY DEF WakeupsOK
      <4>2. Cardinality(Woken(r)) \in Nat
        BY <4>1, FS_CardinalityType
      <4>3. value[r] \in Nat /\ value'[r] \in Int /\ value'[r] <= value[r]
        BY <3>1, <3>2
      <4> QED BY <4>1, <4>2, <4>3
    <3> QED BY <2>2, <3>1, <3>3 DEF WakeupsOK
  <2>5. CASE UNCHANGED semaVars
    BY <2>2, <2>5 DEF semaVars, WakeupsOK
  <2> QED BY <1>2, <2>3, <2>4, <2>5, SemaSteps
<1> QED BY <1>1, <1>2

\* sema_down, sema_up, sema_try_down: while threads wait on a semaphore, each unit
\* of its value has a woken thread on its way to take it.
THEOREM KernelNoLostWakeup == Spec => []NoLostWakeup
<1>1. Init => WakeupsOK
  <2> SUFFICES ASSUME Init PROVE WakeupsOK
    OBVIOUS
  <2>1. \A s \in Semaphores : Woken(s) = {} /\ waiters[s] = <<>>
    BY DEF Init, SchedInit, SyncInit, Woken
  <2> QED BY <2>1, FS_EmptySet DEF WakeupsOK
<1>2. IInv /\ IInv' /\ WakeupsOK /\ [Next]_vars => WakeupsOK'
  BY NextWakeups
<1>3. WakeupsOK => NoLostWakeup
  BY DEF WakeupsOK, NoLostWakeup
<1> QED BY <1>1, <1>2, <1>3, KernelInvariant, PTL DEF Spec

-----------------------------------------------------------------------------
(* The signals of the condition variable.                                  *)

\* Where t is queued on a list of cond_waiters.
Queued(s, t) == {i \in 1..Len(s) : s[i].thread = t}

\* The threads about to sema_up the semaphore of t.
Raisers(t) == {u \in Threads : pc[u] = "up" /\ sem[u] = t}

\* One signal for a thread in cond_wait, none for another; a thread downs no
\* semaphore of another thread; the raisers can be counted.
SignalsOK ==
    \A t \in Threads :
      /\ IsFiniteSet(Raisers(t))
      /\ SignalsFor(t) = IF InCondWait(t) THEN 1 ELSE 0
      /\ pc[t] \in {"down", "wake"} /\ sem[t] \in Threads => sem[t] = t

\* The three terms of SignalsFor are counts.
LEMMA SignalTerms ==
    ASSUME IInv, NEW t \in Threads, IsFiniteSet(Raisers(t))
    PROVE  /\ SignalsFor(t) = Cardinality(Queued(cond_waiters, t)) + value[t] + Cardinality(Raisers(t))
           /\ Cardinality(Queued(cond_waiters, t)) \in Nat
           /\ value[t] \in Nat
           /\ Cardinality(Raisers(t)) \in Nat
<1>1. Len(cond_waiters) \in Nat /\ value \in [Semaphores -> Nat]
  BY LenProperties DEF IInv, TypeOK
<1>2. IsFiniteSet(Queued(cond_waiters, t))
  <2>1. IsFiniteSet(1..Len(cond_waiters))
    BY <1>1, FS_Interval
  <2>2. Queued(cond_waiters, t) \subseteq 1..Len(cond_waiters)
    BY DEF Queued
  <2> QED BY <2>1, <2>2, FS_Subset
<1>3. value[t] \in Nat
  BY <1>1 DEF Semaphores
<1> QED BY <1>2, <1>3, FS_CardinalityType DEF SignalsFor, Queued, Raisers

\* The same in the next state.
LEMMA SignalTermsNext ==
    ASSUME IInv', NEW t \in Threads
    PROVE  SignalsFor(t)' =
             Cardinality(Queued(cond_waiters', t)) + value'[t] + Cardinality(Raisers(t)')
BY DEF SignalsFor, Queued, Raisers

\* A step that leaves a thread alone, as far as the signals go.
Alone(u) ==
    /\ \A x \in Threads : pc'[u] = "up" /\ sem'[u] = x <=> pc[u] = "up" /\ sem[u] = x
    /\ InCondWait(u)' <=> InCondWait(u)
    /\ pc'[u] \in {"down", "wake"} /\ sem'[u] \in Threads => sem'[u] = u

\* A step that leaves every thread alone, and the counts, keeps the account.
LEMMA AloneKeeps ==
    ASSUME IInv, IInv', SignalsOK, \A u \in Threads : Alone(u), cond_waiters' = cond_waiters,
           \A t \in Threads : value'[t] = value[t]
    PROVE  SignalsOK'
<1>1. \A t \in Threads : Raisers(t)' = Raisers(t)
  BY DEF Raisers, Alone
<1>2. ASSUME NEW t \in Threads PROVE SignalsFor(t)' = SignalsFor(t)
  <2>1. IsFiniteSet(Raisers(t))
    BY DEF SignalsOK
  <2> QED BY <1>1, <2>1, SignalTerms, SignalTermsNext
<1> QED BY <1>1, <1>2 DEF SignalsOK, Alone

\* Outside the sema_down, sema_up and cond_ calls nothing is signalled.
LEMMA OthersLeaveSignals ==
    ASSUME IInv, SignalsOK, [Next]_vars,
           \A t \in Threads : ~SemaDown(t) /\ ~SemaUp(t) /\ ~CondWait(t) /\ ~CondSignal(t)
                              /\ ~Broadcast(t)
    PROVE  /\ \A u \in Threads : Alone(u)
           /\ cond_waiters' = cond_waiters
           /\ \A u \in Threads : value'[u] = value[u]
<1> DEFINE Quiet == /\ \A u \in Threads : Alone(u)
                    /\ cond_waiters' = cond_waiters
                    /\ \A u \in Threads : value'[u] = value[u]
<1>1. /\ pc \in [Threads -> Labels] /\ sem \in [Threads -> Semaphores \cup {None}]
      /\ ret \in [Threads -> {"run", "cond_wait", "broadcast"}]
      /\ value \in [Semaphores -> Nat]
      /\ \A u \in Threads : pc[u] \in {"down", "wake"} /\ sem[u] \in Threads => sem[u] = u
      /\ \A u \in Threads : ArgsOf(u)
  BY DEF IInv, TypeOK, ArgsOK, SignalsOK
<1>2. Locks \cap Threads = {} /\ Semas \cap Threads = {}
  BY SchedAssumption, SyncAssumption
<1> USE DEF At, Calls, Goto, Alone, InCondWait
<1>3. ASSUME UNCHANGED <<pc, sem, ret, cond_waiters, value>> PROVE Quiet
  BY <1>1, <1>3
<1>4. ASSUME UNCHANGED vars PROVE Quiet
  <2>1. UNCHANGED <<pc, sem, ret, cond_waiters, value>>
    BY <1>4 DEF vars, schedVars, syncVars, semaVars
  <2> HIDE DEF Quiet
  <2> QED BY <1>3, <2>1
<1>5. ASSUME IdleLoop \/ TimerInterrupt \/ WakeSleeper \/ InterruptReturn, NotSync PROVE Quiet
  <2>1. UNCHANGED <<pc, sem, ret, cond_waiters, value>>
    BY <1>5 DEF IdleLoop, TimerInterrupt, WakeSleeper, InterruptReturn, NotSync, syncVars,
       semaVars
  <2> HIDE DEF Quiet
  <2> QED BY <1>3, <2>1
<1>6. ASSUME NEW t \in Threads, NotSync,
             \/ \E new \in Threads : ThreadCreate(t, new)
             \/ \E new \in NewPriorities : ThreadSetPriority(t, new)
             \/ YieldCheck(t) \/ YieldFront(t)
      PROVE  Quiet
  BY <1>1, <1>6 DEF ThreadCreate, ThreadSetPriority, YieldCheck, YieldFront, NotSync, syncVars,
     semaVars
<1>7. ASSUME NEW t \in Threads, NotSync,
             \/ Yield(t) \/ ThreadExit(t)
             \/ \E n \in SleepTicks : SleepStart(t, n)
             \/ SleepBlock(t) \/ SleepReturn(t)
      PROVE  Quiet
  BY <1>1, <1>7 DEF Yield, ThreadExit, SleepStart, SleepBlock, SleepReturn, NotSync, syncVars,
     semaVars
<1>8. ASSUME NEW t \in Threads, NEW s \in Semas, SemaTryDown(t, s)
      PROVE  Quiet
  <2>1. UNCHANGED <<pc, sem, ret, cond_waiters>>
    BY <1>8 DEF SemaTryDown
  <2>2. \A u \in Threads : value'[u] = value[u]
    BY <1>1, <1>2, <1>8 DEF SemaTryDown, Semaphores
  <2> QED BY <1>1, <2>1, <2>2
<1>9. ASSUME NEW t \in Threads, NEW s \in Semas, NEW l \in {"down", "up"}, SemaCall(t, s, l)
      PROVE  Quiet
  BY <1>1, <1>2, <1>9 DEF SemaCall, semaVars
<1>10. ASSUME NEW t \in Threads, NEW l \in Locks, LockAcquire(t, l)
       PROVE  Quiet
  BY <1>1, <1>2, <1>10 DEF LockAcquire, StartAcquire, semaVars
<1>11. ASSUME NEW t \in Threads, NEW l \in Locks, LockRelease(t, l)
       PROVE  Quiet
  BY <1>1, <1>2, <1>11 DEF LockRelease, StartRelease, semaVars
<1>12. ASSUME NEW t \in Threads, Compare(t) \/ Donate(t) \/ Chain(t) \/ ChainDonate(t)
       PROVE  Quiet
  <2>1. /\ UNCHANGED <<sem, ret, cond_waiters, value>>
        /\ pc[t] \in {"compare", "donate", "chain", "nested"} /\ sem[t] \in Locks
    BY <1>1, <1>12 DEF Compare, Donate, Chain, ChainDonate, DonationUnchanged, semaVars, ArgsOf
  <2>2. /\ \A u \in Threads \ {t} : pc'[u] = pc[u]
        /\ pc'[t] \in {"compare", "donate", "chain", "nested", "down"}
    BY <1>1, <1>12 DEF Compare, Donate, Chain, ChainDonate, ReadHolder
  <2> QED BY <1>1, <1>2, <2>1, <2>2
<1>13. ASSUME NEW t \in Threads, Take(t) \/ Own(t) \/ Unhold(t)
       PROVE  Quiet
  BY <1>1, <1>2, <1>13 DEF Take, Own, Unhold, semaVars, ArgsOf
<1>14. ASSUME NEW t \in Threads, CondDown(t)
       PROVE  Quiet
  BY <1>1, <1>2, <1>14 DEF CondDown, semaVars
<1>15. ASSUME NEW t \in Threads, CondReacquire(t)
       PROVE  Quiet
  BY <1>1, <1>2, <1>15 DEF CondReacquire, StartAcquire, semaVars, ArgsOf
<1>16. ASSUME NEW t \in Threads, CondBroadcast(t)
       PROVE  Quiet
  BY <1>1, <1>2, <1>16 DEF CondBroadcast, syncVars, semaVars
<1> HIDE DEF Quiet
<1>17. Quiet
  BY <1>4, <1>5, <1>6, <1>7, <1>8, <1>9, <1>10, <1>11, <1>12, <1>13, <1>14, <1>15, <1>16
  DEF Next
<1> QED BY <1>17 DEF Quiet

-----------------------------------------------------------------------------
(* How the queue of the condition variable counts a thread.                *)

\* A set that holds at most one number.
LEMMA OneOrNone ==
    ASSUME NEW S, IsFiniteSet(S)
    PROVE  /\ Cardinality(S) = 0 <=> S = {}
           /\ Cardinality(S) = 1 <=> \E e : S = {e}
BY FS_EmptySet, FS_Singleton

LEMMA QueuedFinite ==
    ASSUME NEW R, NEW s \in Seq(R), NEW t
    PROVE  IsFiniteSet(Queued(s, t))
<1>1. IsFiniteSet(1..Len(s))
  BY LenProperties, FS_Interval
<1>2. Queued(s, t) \subseteq 1..Len(s)
  BY DEF Queued
<1> QED BY <1>1, <1>2, FS_Subset

\* list_insert_ordered queues one thread once more, and no other.
LEMMA QueuedInsert ==
    ASSUME NEW R, NEW s \in Seq(R), NEW x \in R, NEW B, NEW t
    PROVE  LET r == InsertOrdered(s, x, B)
           IN  /\ x.thread = t /\ Cardinality(Queued(s, t)) = 0 => Cardinality(Queued(r, t)) = 1
               /\ x.thread # t /\ Cardinality(Queued(s, t)) \in {0, 1} =>
                    Cardinality(Queued(r, t)) = Cardinality(Queued(s, t))
<1> DEFINE r == InsertOrdered(s, x, B)
           p == FirstIn(s, B)
<1>1. /\ r \in Seq(R) /\ Len(r) = Len(s) + 1 /\ p \in 1..(Len(s) + 1)
      /\ \A i \in 1..(Len(s) + 1) :
           r[i] = IF i < p THEN s[i] ELSE IF i = p THEN x ELSE s[i - 1]
  BY InsertOrderedProperties
<1>2. Len(s) \in Nat
  BY LenProperties
<1> HIDE DEF r, p
<1>3. IsFiniteSet(Queued(s, t)) /\ IsFiniteSet(Queued(r, t))
  BY <1>1, QueuedFinite
<1>4. \A i \in 1..(Len(s) + 1) :
        i \in Queued(r, t) <=>
          \/ i < p /\ i \in Queued(s, t)
          \/ i = p /\ x.thread = t
          \/ i > p /\ i - 1 \in Queued(s, t)
  BY <1>1, <1>2 DEF Queued
<1>5. Queued(r, t) \subseteq 1..(Len(s) + 1) /\ Queued(s, t) \subseteq 1..Len(s)
  BY <1>1 DEF Queued
<1>6. CASE Queued(s, t) = {}
  <2>1. x.thread = t => Queued(r, t) = {p}
    BY <1>1, <1>2, <1>4, <1>5, <1>6
  <2>2. x.thread # t => Queued(r, t) = {}
    BY <1>2, <1>4, <1>5, <1>6
  <2>3. Cardinality(Queued(s, t)) = 0
    BY <1>3, <1>6, OneOrNone
  <2>4. x.thread = t => Cardinality(Queued(r, t)) = 1
    BY <1>3, <2>1, OneOrNone
  <2>5. x.thread # t => Cardinality(Queued(r, t)) = 0
    BY <1>3, <2>2, OneOrNone
  <2> QED BY <2>3, <2>4, <2>5 DEF r
<1>7. ASSUME NEW e, Queued(s, t) = {e}, x.thread # t
      PROVE  Cardinality(Queued(r, t)) = 1
  <2>1. e \in 1..Len(s)
    BY <1>5, <1>7
  <2>2. CASE e < p
    <3>1. Queued(r, t) = {e}
      <4>1. e \in Queued(r, t)
        BY <1>2, <1>4, <1>7, <2>1, <2>2
      <4>2. \A i \in Queued(r, t) : i = e
        BY <1>1, <1>2, <1>4, <1>5, <1>7, <2>1, <2>2
      <4> QED BY <4>1, <4>2
    <3> QED BY <1>3, <3>1, OneOrNone
  <2>3. CASE e >= p
    <3>1. Queued(r, t) = {e + 1}
      <4>1. e + 1 \in Queued(r, t)
        BY <1>1, <1>2, <1>4, <1>7, <2>1, <2>3
      <4>2. \A i \in Queued(r, t) : i = e + 1
        BY <1>1, <1>2, <1>4, <1>5, <1>7, <2>1, <2>3
      <4> QED BY <4>1, <4>2
    <3> QED BY <1>3, <3>1, OneOrNone
  <2> QED BY <1>1, <2>1, <2>2, <2>3
<1>8. CASE Queued(s, t) # {}
  <2>1. Cardinality(Queued(s, t)) # 0
    BY <1>3, <1>8, OneOrNone
  <2>2. ASSUME x.thread # t, Cardinality(Queued(s, t)) = 1
        PROVE  Cardinality(Queued(r, t)) = 1
    <3>1. PICK e : Queued(s, t) = {e}
      BY <1>3, <2>2, OneOrNone
    <3> QED BY <1>7, <2>2, <3>1
  <2> QED BY <2>1, <2>2 DEF r
<1> QED BY <1>6, <1>8

\* list_pop_front takes one thread off.
LEMMA QueuedPop ==
    ASSUME NEW R, NEW s \in Seq(R), s # <<>>, NEW t
    PROVE  /\ Head(s).thread = t => Cardinality(Queued(s, t)) # 0
           /\ Head(s).thread = t /\ Cardinality(Queued(s, t)) = 1 =>
                Cardinality(Queued(Tail(s), t)) = 0
           /\ Head(s).thread # t /\ Cardinality(Queued(s, t)) \in {0, 1} =>
                Cardinality(Queued(Tail(s), t)) = Cardinality(Queued(s, t))
<1> DEFINE r == Tail(s)
<1>1. /\ Len(s) \in Nat \ {0} /\ Head(s) = s[1] /\ r \in Seq(R) /\ Len(r) = Len(s) - 1
      /\ \A i \in 1..(Len(s) - 1) : r[i] = s[i + 1]
  BY EmptySeq, HeadTailProperties
<1> HIDE DEF r
<1>2. IsFiniteSet(Queued(s, t)) /\ IsFiniteSet(Queued(r, t))
  BY <1>1, QueuedFinite
<1>3. \A i \in 1..(Len(s) - 1) : i \in Queued(r, t) <=> i + 1 \in Queued(s, t)
  BY <1>1 DEF Queued
<1>4. Queued(r, t) \subseteq 1..(Len(s) - 1) /\ Queued(s, t) \subseteq 1..Len(s)
  BY <1>1 DEF Queued
<1>5. Head(s).thread = t <=> 1 \in Queued(s, t)
  BY <1>1 DEF Queued
<1>6. ASSUME Head(s).thread = t PROVE Cardinality(Queued(s, t)) # 0
  BY <1>2, <1>5, <1>6, OneOrNone
<1>7. ASSUME Head(s).thread = t, Cardinality(Queued(s, t)) = 1
      PROVE  Cardinality(Queued(r, t)) = 0
  <2>1. PICK e : Queued(s, t) = {e}
    BY <1>2, <1>7, OneOrNone
  <2>2. e = 1
    BY <1>5, <1>7, <2>1
  <2>3. \A i \in 1..(Len(s) - 1) : i + 1 # 1
    BY <1>1
  <2>4. Queued(r, t) = {}
    BY <1>3, <1>4, <2>1, <2>2, <2>3
  <2> QED BY <1>2, <2>4, OneOrNone
<1>8. ASSUME Cardinality(Queued(s, t)) = 0
      PROVE  Cardinality(Queued(r, t)) = 0
  <2>1. Queued(s, t) = {}
    BY <1>2, <1>8, OneOrNone
  <2>2. Queued(r, t) = {}
    BY <1>3, <1>4, <2>1
  <2> QED BY <1>2, <2>2, OneOrNone
<1>9. ASSUME Head(s).thread # t, Cardinality(Queued(s, t)) = 1
      PROVE  Cardinality(Queued(r, t)) = 1
  <2>1. PICK e : Queued(s, t) = {e}
    BY <1>2, <1>9, OneOrNone
  <2>2. e \in 1..Len(s) /\ e # 1
    BY <1>4, <1>5, <1>9, <2>1
  <2>3. e - 1 \in 1..(Len(s) - 1) /\ (e - 1) + 1 = e
    BY <1>1, <2>2
  <2>4. e - 1 \in Queued(r, t)
    BY <1>3, <2>1, <2>3
  <2>5. \A i \in Queued(r, t) : i = e - 1
    <3>1. SUFFICES ASSUME NEW i \in Queued(r, t) PROVE i = e - 1
      OBVIOUS
    <3>2. i \in 1..(Len(s) - 1) /\ i + 1 = e
      BY <1>3, <1>4, <2>1, <3>1
    <3> QED BY <1>1, <2>2, <3>2
  <2>6. Queued(r, t) = {e - 1}
    BY <2>4, <2>5
  <2> QED BY <1>2, <2>6, OneOrNone
<1> QED BY <1>6, <1>7, <1>8, <1>9 DEF r

-----------------------------------------------------------------------------
(* The steps that signal.                                                  *)

\* Each term of SignalsFor is 0 or 1.
LEMMA SignalsAtMostOne ==
    ASSUME IInv, SignalsOK, NEW t \in Threads
    PROVE  /\ Cardinality(Queued(cond_waiters, t)) \in {0, 1}
           /\ Cardinality(Queued(cond_waiters, t)) + value[t] + Cardinality(Raisers(t)) =
                IF InCondWait(t) THEN 1 ELSE 0
           /\ value[t] \in Nat
           /\ Cardinality(Raisers(t)) \in Nat /\ IsFiniteSet(Raisers(t))
<1>1. IsFiniteSet(Raisers(t)) /\ SignalsFor(t) = IF InCondWait(t) THEN 1 ELSE 0
  BY DEF SignalsOK
<1>2. /\ SignalsFor(t) = Cardinality(Queued(cond_waiters, t)) + value[t] + Cardinality(Raisers(t))
      /\ Cardinality(Queued(cond_waiters, t)) \in Nat
      /\ value[t] \in Nat
      /\ Cardinality(Raisers(t)) \in Nat
  BY <1>1, SignalTerms
<1>3. CASE InCondWait(t)
  BY <1>1, <1>2, <1>3
<1>4. CASE ~InCondWait(t)
  BY <1>1, <1>2, <1>4
<1> QED BY <1>3, <1>4

\* cond_wait queues the caller, which was not in cond_wait.
LEMMA CondWaitSignals ==
    ASSUME IInv, IInv', SignalsOK, NEW t \in Threads, CondWait(t)
    PROVE  SignalsOK'
<1> DEFINE x == [thread |-> t, priority |-> priority[t]]
           B == {e \in Range(cond_waiters) : priority[t] > e.priority}
           R == [thread : Threads, priority : Priorities]
<1>1. /\ pc[t] = "run" /\ pc' = [pc EXCEPT ![t] = "unhold"] /\ pc \in [Threads -> Labels]
      /\ ret' = [ret EXCEPT ![t] = "cond_wait"]
      /\ ret \in [Threads -> {"run", "cond_wait", "broadcast"}]
      /\ sem' = [sem EXCEPT ![t] = CondLock] /\ sem \in [Threads -> Semaphores \cup {None}]
      /\ value' = value
  BY DEF IInv, TypeOK, CondWait, Calls, At, Goto, StartRelease, semaVars
<1>2. cond_waiters' = InsertOrdered(cond_waiters, x, B)
  BY DEF CondWait
<1>3. cond_waiters \in Seq(R) /\ x \in R /\ x.thread = t
  BY DEF IInv, TypeOK
<1> HIDE DEF x, B, R
<1>4. ~InCondWait(t) /\ InCondWait(t)'
  BY <1>1 DEF InCondWait
<1>5. \A u \in Threads \ {t} : InCondWait(u)' <=> InCondWait(u)
  BY <1>1 DEF InCondWait
<1>6. \A u \in Threads : Raisers(u)' = Raisers(u)
  BY <1>1 DEF Raisers
<1>7. \A u \in Threads : pc'[u] \in {"down", "wake"} /\ sem'[u] \in Threads => sem'[u] = u
  BY <1>1 DEF SignalsOK
<1>8. ASSUME NEW u \in Threads PROVE SignalsFor(u)' = IF InCondWait(u)' THEN 1 ELSE 0
  <2>1. SignalsFor(u)' = Cardinality(Queued(cond_waiters', u)) + value[u] + Cardinality(Raisers(u))
    BY <1>1, <1>6, SignalTermsNext
  <2>2. /\ Cardinality(Queued(cond_waiters, u)) \in {0, 1}
        /\ Cardinality(Queued(cond_waiters, u)) + value[u] + Cardinality(Raisers(u)) =
             IF InCondWait(u) THEN 1 ELSE 0
        /\ value[u] \in Nat /\ Cardinality(Raisers(u)) \in Nat
    BY SignalsAtMostOne
  <2>3. /\ u = t /\ Cardinality(Queued(cond_waiters, u)) = 0 =>
             Cardinality(Queued(cond_waiters', u)) = 1
        /\ u # t => Cardinality(Queued(cond_waiters', u)) = Cardinality(Queued(cond_waiters, u))
    BY <1>2, <1>3, <2>2, QueuedInsert
  <2>4. CASE u = t
    BY <1>4, <2>1, <2>2, <2>3, <2>4
  <2>5. CASE u # t
    BY <1>5, <2>1, <2>2, <2>3, <2>5
  <2> QED BY <2>4, <2>5
<1>9. \A u \in Threads : IsFiniteSet(Raisers(u)')
  BY <1>6 DEF SignalsOK
<1> QED BY <1>7, <1>8, <1>9 DEF SignalsOK

\* cond_signal, cond_broadcast: the front leaves the queue, and the caller is on
\* its way to raise its semaphore.
LEMMA PopSignals ==
    ASSUME IInv, IInv', SignalsOK, NEW t \in Threads, NEW r \in {"run", "broadcast"},
           pc[t] \in {"run", "broadcast"}, cond_waiters # <<>>, PopAndUp(t, r)
    PROVE  SignalsOK'
<1> DEFINE R == [thread : Threads, priority : Priorities]
<1>1. PICK w \in Threads : w = Head(cond_waiters).thread
  <2>1. cond_waiters \in Seq(R)
    BY DEF IInv, TypeOK
  <2>2. Head(cond_waiters) \in R
    <3> HIDE DEF R
    <3> QED BY <2>1, HeadTailProperties
  <2> QED BY <2>2
<1>2. cond_waiters \in Seq(R)
  BY DEF IInv, TypeOK
<1>3. /\ pc' = [pc EXCEPT ![t] = "up"] /\ pc \in [Threads -> Labels]
      /\ ret' = [ret EXCEPT ![t] = r]
      /\ ret \in [Threads -> {"run", "cond_wait", "broadcast"}]
      /\ sem' = [sem EXCEPT ![t] = w] /\ sem \in [Threads -> Semaphores \cup {None}]
      /\ value' = value /\ cond_waiters' = Tail(cond_waiters)
  BY <1>1 DEF IInv, TypeOK, PopAndUp, Goto, CondPopped, semaVars
<1> HIDE DEF R
<1>4. \A u \in Threads : InCondWait(u)' <=> InCondWait(u)
  BY <1>3 DEF InCondWait
<1>5. /\ t \notin Raisers(w) /\ Raisers(w)' = Raisers(w) \cup {t}
      /\ \A u \in Threads \ {w} : Raisers(u)' = Raisers(u)
  <2>1. /\ pc[t] # "up" /\ pc'[t] = "up" /\ sem'[t] = w
        /\ \A u \in Threads \ {t} : pc'[u] = pc[u] /\ sem'[u] = sem[u]
    BY <1>3
  <2>2. t \notin Raisers(w)
    BY <2>1 DEF Raisers
  <2>3. Raisers(w)' = Raisers(w) \cup {t}
    BY <2>1 DEF Raisers
  <2>4. ASSUME NEW u \in Threads \ {w} PROVE Raisers(u)' = Raisers(u)
    BY <2>1 DEF Raisers
  <2> QED BY <2>2, <2>3, <2>4
<1>6. \A u \in Threads : pc'[u] \in {"down", "wake"} /\ sem'[u] \in Threads => sem'[u] = u
  BY <1>3 DEF SignalsOK
<1>7. ASSUME NEW u \in Threads
      PROVE  SignalsFor(u)' = (IF InCondWait(u)' THEN 1 ELSE 0) /\ IsFiniteSet(Raisers(u)')
  <2>1. SignalsFor(u)' = Cardinality(Queued(cond_waiters', u)) + value[u] + Cardinality(Raisers(u)')
    BY <1>3, SignalTermsNext
  <2>2. /\ Cardinality(Queued(cond_waiters, u)) \in {0, 1}
        /\ Cardinality(Queued(cond_waiters, u)) + value[u] + Cardinality(Raisers(u)) =
             IF InCondWait(u) THEN 1 ELSE 0
        /\ value[u] \in Nat /\ Cardinality(Raisers(u)) \in Nat /\ IsFiniteSet(Raisers(u))
    BY SignalsAtMostOne
  <2>3. CASE u = w
    <3>1. Cardinality(Queued(cond_waiters, u)) = 1 /\ Cardinality(Queued(cond_waiters', u)) = 0
      BY <1>1, <1>2, <1>3, <2>2, <2>3, QueuedPop
    <3>2. IsFiniteSet(Raisers(u)') /\ Cardinality(Raisers(u)') = Cardinality(Raisers(u)) + 1
      <4>1. Raisers(u)' = Raisers(u) \cup {t} /\ t \notin Raisers(u)
        BY <1>5, <2>3
      <4>2. /\ IsFiniteSet(Raisers(u) \cup {t})
            /\ Cardinality(Raisers(u) \cup {t}) = Cardinality(Raisers(u)) + 1
        BY <2>2, <4>1, FS_AddElement
      <4> QED BY <4>1, <4>2
    <3> QED BY <1>4, <2>1, <2>2, <3>1, <3>2
  <2>4. CASE u # w
    <3>1. Cardinality(Queued(cond_waiters', u)) = Cardinality(Queued(cond_waiters, u))
      BY <1>1, <1>2, <1>3, <2>2, <2>4, QueuedPop
    <3>2. Raisers(u)' = Raisers(u)
      BY <1>5, <2>4
    <3> QED BY <1>4, <2>1, <2>2, <3>1, <3>2
  <2> QED BY <2>3, <2>4
<1> QED BY <1>6, <1>7 DEF SignalsOK

LEMMA CondSignalSignals ==
    ASSUME IInv, IInv', SignalsOK, NEW t \in Threads, CondSignal(t)
    PROVE  SignalsOK'
BY PopSignals DEF CondSignal, Calls, At

LEMMA BroadcastSignals ==
    ASSUME IInv, IInv', SignalsOK, NEW t \in Threads, Broadcast(t)
    PROVE  SignalsOK'
<1>1. pc[t] = "broadcast"
  BY DEF Broadcast, At
<1>2. CASE cond_waiters = <<>>
  <2>1. /\ pc' = [pc EXCEPT ![t] = "run"] /\ pc \in [Threads -> Labels]
        /\ UNCHANGED <<ret, sem, value, cond_waiters>>
    BY <1>2 DEF IInv, TypeOK, Broadcast, Goto, syncVars, semaVars
  <2>2. \A u \in Threads : Alone(u)
    BY <1>1, <2>1 DEF Alone, InCondWait, SignalsOK
  <2> QED BY <2>1, <2>2, AloneKeeps
<1>3. CASE cond_waiters # <<>>
  BY <1>1, <1>3, PopSignals DEF Broadcast
<1> QED BY <1>2, <1>3

\* sema_down takes the signal: only a thread's own cond_wait downs its semaphore.
LEMMA SemaDownSignals ==
    ASSUME IInv, IInv', SignalsOK, NEW t \in Threads, SemaDown(t)
    PROVE  SignalsOK'
<1> DEFINE q == sem[t]
<1>1. /\ pc[t] \in {"down", "wake"} /\ q \in Semaphores /\ pc \in [Threads -> Labels]
      /\ UNCHANGED <<ret, sem, cond_waiters>>
      /\ value \in [Semaphores -> Nat]
      /\ \A u \in Threads : pc[u] \in {"down", "wake"} /\ sem[u] \in Threads => sem[u] = u
  BY DEF IInv, TypeOK, ArgsOK, ArgsOf, SemaDown, At, SignalsOK
<1>2. CASE MustWait(t)
  <2>1. pc' = [pc EXCEPT ![t] = "wake"] /\ value' = value
    BY <1>2 DEF SemaDown, Goto
  <2>2. \A u \in Threads : Alone(u)
    BY <1>1, <2>1 DEF Alone, InCondWait
  <2> QED BY <1>1, <2>1, <2>2, AloneKeeps
<1>3. CASE ~MustWait(t)
  <2>1. /\ pc' = [pc EXCEPT ![t] = AfterDown(t)] /\ value' = [value EXCEPT ![q] = @ - 1]
        /\ value[q] # 0
    BY <1>3 DEF SemaDown, Goto, MustWait
  <2>2. CASE q \notin Threads
    <3>1. AfterDown(t) \in {"take", "run"} /\ q # t
      BY <2>2 DEF AfterDown
    <3>2. \A u \in Threads : Alone(u)
      BY <1>1, <2>1, <2>2, <3>1 DEF Alone, InCondWait
    <3>3. \A u \in Threads : value'[u] = value[u]
      BY <1>1, <2>1, <2>2 DEF Semaphores
    <3> QED BY <1>1, <3>2, <3>3, AloneKeeps
  <2>3. CASE q \in Threads
    <3>1. q = t /\ AfterDown(t) = "reacquire"
      BY <1>1, <2>3, SchedAssumption DEF AfterDown
    <3>2. InCondWait(t) /\ ~InCondWait(t)'
      BY <1>1, <2>1, <3>1 DEF InCondWait
    <3>3. \A u \in Threads \ {t} : InCondWait(u)' <=> InCondWait(u)
      BY <1>1, <2>1 DEF InCondWait
    <3>4. \A u \in Threads : Raisers(u)' = Raisers(u)
      BY <1>1, <2>1, <3>1 DEF Raisers
    <3>5. \A u \in Threads : pc'[u] \in {"down", "wake"} /\ sem'[u] \in Threads => sem'[u] = u
      BY <1>1, <2>1, <3>1
    <3>6. value'[t] = value[t] - 1 /\ \A u \in Threads \ {t} : value'[u] = value[u]
      BY <1>1, <2>1, <3>1 DEF Semaphores
    <3>7. ASSUME NEW u \in Threads
          PROVE  SignalsFor(u)' = (IF InCondWait(u)' THEN 1 ELSE 0) /\ IsFiniteSet(Raisers(u)')
      <4>1. SignalsFor(u)' =
              Cardinality(Queued(cond_waiters, u)) + value'[u] + Cardinality(Raisers(u))
        BY <1>1, <3>4, SignalTermsNext
      <4>2. /\ Cardinality(Queued(cond_waiters, u)) \in {0, 1}
            /\ Cardinality(Queued(cond_waiters, u)) + value[u] + Cardinality(Raisers(u)) =
                 IF InCondWait(u) THEN 1 ELSE 0
            /\ value[u] \in Nat /\ Cardinality(Raisers(u)) \in Nat /\ IsFiniteSet(Raisers(u))
        BY SignalsAtMostOne
      <4>3. CASE u = t
        BY <3>2, <3>4, <3>6, <4>1, <4>2, <4>3
      <4>4. CASE u # t
        BY <3>3, <3>4, <3>6, <4>1, <4>2, <4>4
      <4> QED BY <4>3, <4>4
    <3> QED BY <3>5, <3>7 DEF SignalsOK
  <2> QED BY <2>2, <2>3
<1> QED BY <1>2, <1>3

\* sema_up turns the raiser into a unit of the semaphore.
LEMMA SemaUpSignals ==
    ASSUME IInv, IInv', SignalsOK, NEW t \in Threads, SemaUp(t)
    PROVE  SignalsOK'
<1>0. PICK q \in Semaphores : q = sem[t]
  BY DEF IInv, ArgsOK, ArgsOf, SemaUp, At
<1>1. /\ pc[t] = "up" /\ q = sem[t] /\ pc \in [Threads -> Labels]
      /\ pc' = [pc EXCEPT ![t] = "check"]
      /\ UNCHANGED <<ret, sem, cond_waiters>>
      /\ value \in [Semaphores -> Nat] /\ value' = [value EXCEPT ![q] = @ + 1]
      /\ \A u \in Threads : pc[u] \in {"down", "wake"} /\ sem[u] \in Threads => sem[u] = u
  BY <1>0 DEF IInv, TypeOK, SemaUp, At, Goto, Incremented, SignalsOK
<1>2. \A u \in Threads : InCondWait(u)' <=> InCondWait(u)
  BY <1>1 DEF InCondWait
<1>3. \A u \in Threads : pc'[u] \in {"down", "wake"} /\ sem'[u] \in Threads => sem'[u] = u
  BY <1>1
<1>4. CASE q \notin Threads
  <2>1. \A u \in Threads : Alone(u)
    BY <1>1, <1>2, <1>3, <1>4 DEF Alone
  <2>2. \A u \in Threads : value'[u] = value[u]
    BY <1>1, <1>4 DEF Semaphores
  <2> QED BY <1>1, <2>1, <2>2, AloneKeeps
<1>5. CASE q \in Threads
  <2>1. /\ t \in Raisers(q) /\ Raisers(q)' = Raisers(q) \ {t}
        /\ \A u \in Threads \ {q} : Raisers(u)' = Raisers(u)
    BY <1>1 DEF Raisers
  <2>2. value'[q] = value[q] + 1 /\ \A u \in Threads \ {q} : value'[u] = value[u]
    BY <1>1 DEF Semaphores
  <2>3. ASSUME NEW u \in Threads
        PROVE  SignalsFor(u)' = (IF InCondWait(u)' THEN 1 ELSE 0) /\ IsFiniteSet(Raisers(u)')
    <3>1. SignalsFor(u)' =
            Cardinality(Queued(cond_waiters, u)) + value'[u] + Cardinality(Raisers(u)')
      BY <1>1, SignalTermsNext
    <3>2. /\ Cardinality(Queued(cond_waiters, u)) \in {0, 1}
          /\ Cardinality(Queued(cond_waiters, u)) + value[u] + Cardinality(Raisers(u)) =
               IF InCondWait(u) THEN 1 ELSE 0
          /\ value[u] \in Nat /\ Cardinality(Raisers(u)) \in Nat /\ IsFiniteSet(Raisers(u))
      BY SignalsAtMostOne
    <3>3. CASE u = q
      <4>1. IsFiniteSet(Raisers(u)') /\ Cardinality(Raisers(u)') = Cardinality(Raisers(u)) - 1
        <5>1. Raisers(u)' = Raisers(u) \ {t} /\ t \in Raisers(u)
          BY <2>1, <3>3
        <5>2. /\ IsFiniteSet(Raisers(u) \ {t})
              /\ Cardinality(Raisers(u) \ {t}) = Cardinality(Raisers(u)) - 1
          BY <3>2, <5>1, FS_RemoveElement
        <5> QED BY <5>1, <5>2
      <4> QED BY <1>2, <2>2, <3>1, <3>2, <3>3, <4>1
    <3>4. CASE u # q
      BY <1>2, <2>1, <2>2, <3>1, <3>2, <3>4
    <3> QED BY <3>3, <3>4
  <2> QED BY <1>3, <2>3 DEF SignalsOK
<1> QED BY <1>4, <1>5

LEMMA NextSignals == IInv /\ IInv' /\ SignalsOK /\ [Next]_vars => SignalsOK'
<1> SUFFICES ASSUME IInv, IInv', SignalsOK, [Next]_vars PROVE SignalsOK'
  OBVIOUS
<1>1. ASSUME NEW t \in Threads,
             SemaDown(t) \/ SemaUp(t) \/ CondWait(t) \/ CondSignal(t) \/ Broadcast(t)
      PROVE  SignalsOK'
  BY <1>1, SemaDownSignals, SemaUpSignals, CondWaitSignals, CondSignalSignals, BroadcastSignals
<1>2. CASE \A t \in Threads : ~SemaDown(t) /\ ~SemaUp(t) /\ ~CondWait(t) /\ ~CondSignal(t)
                              /\ ~Broadcast(t)
  BY <1>2, OthersLeaveSignals, AloneKeeps
<1> QED BY <1>1, <1>2

\* cond_wait, cond_signal, cond_broadcast: a thread in cond_wait is queued, is being
\* signalled or has been; no signal is lost, doubled or left over.
THEOREM KernelSignalsAccounted == Spec => []SignalsAccounted
<1>1. Init => SignalsOK
  <2> SUFFICES ASSUME Init PROVE SignalsOK
    OBVIOUS
  <2>1. /\ \A u \in Threads : pc[u] = "run" /\ ret[u] = "run"
        /\ cond_waiters = <<>> /\ \A u \in Threads : value[u] = 0
    BY SchedAssumption, SyncAssumption DEF Init, SchedInit, SyncInit, Semaphores
  <2>2. ASSUME NEW t \in Threads
        PROVE  IsFiniteSet(Raisers(t)) /\ SignalsFor(t) = 0 /\ ~InCondWait(t)
    <3>1. Raisers(t) = {} /\ ~InCondWait(t)
      BY <2>1 DEF Raisers, InCondWait
    <3>2. Queued(cond_waiters, t) = {}
      BY <2>1 DEF Queued
    <3>3. SignalsFor(t) =
            Cardinality(Queued(cond_waiters, t)) + value[t] + Cardinality(Raisers(t))
      BY DEF SignalsFor, Queued, Raisers
    <3> QED BY <2>1, <3>1, <3>2, <3>3, FS_EmptySet
  <2> QED BY <2>1, <2>2 DEF SignalsOK
<1>2. IInv /\ IInv' /\ SignalsOK /\ [Next]_vars => SignalsOK'
  BY NextSignals
<1>3. SignalsOK => SignalsAccounted
  BY DEF SignalsOK, SignalsAccounted
<1> QED BY <1>1, <1>2, <1>3, KernelInvariant, PTL DEF Spec
=============================================================================
