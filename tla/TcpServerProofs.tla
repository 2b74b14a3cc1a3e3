-------------------------- MODULE TcpServerProofs --------------------------
(***************************************************************************)
(* The safety of TcpServer for every set of connections, every table size, *)
(* every limit, and whatever the clients and the clock do.                 *)
(***************************************************************************)
EXTENDS TcpServer, FiniteSetTheorems, SequenceTheorems, TLAPS

-----------------------------------------------------------------------------
(* The lists of the selector *)

\* Every non-empty set of natural numbers has a least element: the initial
\* segments of Nat are well-founded under inclusion.
LEMMA LeastNat ==
  ASSUME NEW T \in SUBSET Nat, T # {}
  PROVE  \E x \in T : \A y \in T : x <= y
<1> DEFINE Seg(n) == 1..n
           Segs == {Seg(n) : n \in T}
<1>1. Segs \subseteq FiniteSubsetsOf(Nat)
  <2>1. ASSUME NEW n \in T PROVE IsFiniteSet(Seg(n)) /\ Seg(n) \in SUBSET Nat
    BY FS_Interval
  <2> QED
    BY <2>1 DEF FiniteSubsetsOf
<1>2. Segs # {}
  OBVIOUS
<1>3. \E s \in Segs : \A t \in Segs : <<t, s>> \notin StrictSubsetOrdering(Nat)
  <2>1. IsWellFoundedOn(StrictSubsetOrdering(Nat), FiniteSubsetsOf(Nat))
    BY FS_StrictSubsetOrderingWellFounded
  <2> HIDE DEF Segs
  <2> QED
    BY <1>1, <1>2, <2>1, WFMin
<1>4. PICK x \in T : \A t \in Segs : <<t, Seg(x)>> \notin StrictSubsetOrdering(Nat)
  BY <1>3
<1>5. ASSUME NEW y \in T PROVE x <= y
  <2>1. <<Seg(y), Seg(x)>> \notin StrictSubsetOrdering(Nat)
    BY <1>4
  <2>2. SUFFICES ASSUME y < x PROVE FALSE
    OBVIOUS
  <2>3. Seg(y) \subseteq Seg(x) /\ Seg(y) # Seg(x)
    <3>1. x \in Seg(x) /\ x \notin Seg(y)
      BY <2>2
    <3> QED
      BY <2>2, <3>1
  <2>4. Seg(y) \in SUBSET Nat /\ Seg(x) \in SUBSET Nat
    OBVIOUS
  <2> QED
    BY <2>1, <2>3, <2>4 DEF StrictSubsetOrdering
<1> QED
  BY <1>5

-----------------------------------------------------------------------------
(* Inserting and removing one item *)

\* InsertAt element by element.
LEMMA InsertAtElements ==
  ASSUME NEW S, NEW s \in Seq(S), NEW e \in S, NEW i \in 1..(Len(s) + 1)
  PROVE  /\ InsertAt(s, i, e) \in Seq(S)
         /\ Len(InsertAt(s, i, e)) = Len(s) + 1
         /\ \A j \in 1..(i - 1) : InsertAt(s, i, e)[j] = s[j]
         /\ InsertAt(s, i, e)[i] = e
         /\ \A j \in (i + 1)..(Len(s) + 1) : InsertAt(s, i, e)[j] = s[j - 1]
<1> DEFINE a == SubSeq(s, 1, i - 1)
           b == SubSeq(s, i, Len(s))
<1>1. /\ a \in Seq(S)
      /\ Len(a) = i - 1
      /\ \A j \in 1..(i - 1) : a[j] = s[j]
  <2>1. \A j \in 1..(i - 1) : s[j] \in S
    BY LenProperties
  <2> QED
    BY <2>1, SubSeqProperties, LenProperties
<1>2. /\ b \in Seq(S)
      /\ Len(b) = Len(s) - i + 1
      /\ \A j \in 1..(Len(s) - i + 1) : b[j] = s[i + j - 1]
  <2>1. \A j \in i..Len(s) : s[j] \in S
    BY LenProperties
  <2>2. Len(s) \in Nat
    BY LenProperties
  <2> QED
    BY <2>1, <2>2, SubSeqProperties
<1>3. <<e>> \in Seq(S) /\ Len(<<e>>) = 1 /\ <<e>>[1] = e
  OBVIOUS
<1> HIDE DEF a, b
<1> DEFINE c == a \o <<e>>
<1>4. /\ c \in Seq(S)
      /\ Len(c) = i
      /\ \A j \in 1..i : c[j] = IF j < i THEN s[j] ELSE e
  <2>1. /\ c \in Seq(S)
        /\ Len(c) = Len(a) + Len(<<e>>)
        /\ \A j \in 1..(Len(a) + Len(<<e>>)) :
             c[j] = IF j <= Len(a) THEN a[j] ELSE <<e>>[j - Len(a)]
    BY <1>1, <1>3, ConcatProperties
  <2>2. ASSUME NEW j \in 1..i PROVE c[j] = IF j < i THEN s[j] ELSE e
    BY <1>1, <1>3, <2>1
  <2> QED
    BY <1>1, <1>3, <2>1, <2>2
<1>5. Len(s) \in Nat
  BY LenProperties
<1> HIDE DEF c
<1>6. /\ c \o b \in Seq(S)
      /\ Len(c \o b) = Len(c) + Len(b)
      /\ \A j \in 1..(Len(c) + Len(b)) :
           (c \o b)[j] = IF j <= Len(c) THEN c[j] ELSE b[j - Len(c)]
  BY <1>2, <1>4, ConcatProperties
<1>7. InsertAt(s, i, e) = c \o b
  BY DEF InsertAt, a, b, c
<1>8. Len(c) + Len(b) = Len(s) + 1
  BY <1>2, <1>4, <1>5
<1>9. ASSUME NEW j \in 1..i PROVE (c \o b)[j] = IF j < i THEN s[j] ELSE e
  <2>1. j \in 1..(Len(c) + Len(b)) /\ j <= Len(c)
    BY <1>4, <1>5, <1>8
  <2> QED
    BY <1>4, <1>6, <2>1
<1>10. ASSUME NEW j \in (i + 1)..(Len(s) + 1) PROVE (c \o b)[j] = s[j - 1]
  <2>1. (c \o b)[j] = b[j - i]
    BY <1>4, <1>5, <1>6, <1>8
  <2>2. j - i \in 1..(Len(s) - i + 1) /\ i + (j - i) - 1 = j - 1
    BY <1>5
  <2>3. b[j - i] = s[j - 1]
    BY <1>2, <2>2
  <2> QED
    BY <2>1, <2>3
<1>11. \A j \in 1..(i - 1) : j \in 1..i /\ j < i
  OBVIOUS
<1>12. i \in 1..i /\ ~(i < i)
  OBVIOUS
<1>13. /\ \A j \in 1..(i - 1) : (c \o b)[j] = s[j]
       /\ (c \o b)[i] = e
  BY <1>9, <1>11, <1>12
<1> QED
  BY <1>6, <1>7, <1>8, <1>10, <1>13

\* The items behind the inserted one.
LEMMA InsertAtBehind ==
  ASSUME NEW S, NEW s \in Seq(S), NEW e \in S, NEW i \in 1..(Len(s) + 1),
         NEW j \in (i + 1)..(Len(s) + 1)
  PROVE  InsertAt(s, i, e)[j] = s[j - 1]
BY InsertAtElements, SMTT(30)

\* RemoveAt element by element.
LEMMA RemoveAtElements ==
  ASSUME NEW S, NEW s \in Seq(S), NEW i \in 1..Len(s)
  PROVE  /\ RemoveAt(s, i) \in Seq(S)
         /\ Len(RemoveAt(s, i)) = Len(s) - 1
         /\ \A j \in 1..(Len(s) - 1) :
              RemoveAt(s, i)[j] = IF j < i THEN s[j] ELSE s[j + 1]
<1> DEFINE a == SubSeq(s, 1, i - 1)
           b == SubSeq(s, i + 1, Len(s))
<1>0. Len(s) \in Nat
  BY LenProperties
<1>1. /\ a \in Seq(S)
      /\ Len(a) = i - 1
      /\ \A j \in 1..(i - 1) : a[j] = s[j]
  <2>1. \A j \in 1..(i - 1) : s[j] \in S
    BY <1>0, LenProperties
  <2> QED
    BY <1>0, <2>1, SubSeqProperties
<1>2. /\ b \in Seq(S)
      /\ Len(b) = Len(s) - i
      /\ \A j \in 1..(Len(s) - i) : b[j] = s[i + j]
  <2>1. \A j \in (i + 1)..Len(s) : s[j] \in S
    BY <1>0, LenProperties
  <2> QED
    BY <1>0, <2>1, SubSeqProperties
<1> HIDE DEF a, b
<1>3. /\ a \o b \in Seq(S)
      /\ Len(a \o b) = Len(a) + Len(b)
      /\ \A j \in 1..(Len(a) + Len(b)) :
           (a \o b)[j] = IF j <= Len(a) THEN a[j] ELSE b[j - Len(a)]
  BY <1>1, <1>2, ConcatProperties
<1>4. RemoveAt(s, i) = a \o b
  BY DEF RemoveAt, a, b
<1>5. Len(a) + Len(b) = Len(s) - 1
  BY <1>0, <1>1, <1>2
<1>6. ASSUME NEW j \in 1..(Len(s) - 1)
      PROVE  (a \o b)[j] = IF j < i THEN s[j] ELSE s[j + 1]
  <2>1. CASE j < i
    BY <1>0, <1>1, <1>3, <1>5, <2>1
  <2>2. CASE j >= i
    <3>1. (a \o b)[j] = b[j - (i - 1)]
      BY <1>0, <1>1, <1>3, <1>5, <2>2
    <3>2. j - (i - 1) \in 1..(Len(s) - i) /\ i + (j - (i - 1)) = j + 1
      BY <1>0, <2>2
    <3>3. b[j - (i - 1)] = s[j + 1]
      BY <1>2, <3>2
    <3> QED
      BY <2>2, <3>1, <3>3
  <2>3. j < i \/ j >= i
    BY <1>0
  <2> QED
    BY <2>1, <2>2, <2>3
<1> QED
  BY <1>3, <1>4, <1>5, <1>6

\* Inserting an item that is not in the list.
LEMMA InsertAtRange ==
  ASSUME NEW S, NEW s \in Seq(S), NEW e \in S, NEW i \in 1..(Len(s) + 1),
         Distinct(s), e \notin Range(s)
  PROVE  /\ Range(InsertAt(s, i, e)) = Range(s) \cup {e}
         /\ Distinct(InsertAt(s, i, e))
<1> DEFINE r == InsertAt(s, i, e)
<1> HIDE DEF r
<1>0. Len(s) \in Nat
  BY LenProperties
<1>1. /\ r \in Seq(S)
      /\ Len(r) = Len(s) + 1
      /\ \A j \in 1..(i - 1) : r[j] = s[j]
      /\ r[i] = e
      /\ \A j \in (i + 1)..(Len(s) + 1) : r[j] = s[j - 1]
  <2>1. r = InsertAt(s, i, e)
    BY DEF r
  <2>2. r \in Seq(S) /\ Len(r) = Len(s) + 1
    BY <2>1, InsertAtElements
  <2>3. r[i] = e /\ \A j \in 1..(i - 1) : r[j] = s[j]
    BY <2>1, InsertAtElements
  <2>4. ASSUME NEW j \in (i + 1)..(Len(s) + 1) PROVE r[j] = s[j - 1]
    BY <2>1, InsertAtBehind
  <2> QED
    BY <2>2, <2>3, <2>4
<1>2. Range(r) = {r[j] : j \in 1..Len(r)} /\ Range(s) = {s[j] : j \in 1..Len(s)}
  BY <1>1, RangeEquality
<1>3. Range(r) \subseteq Range(s) \cup {e}
  <2>1. ASSUME NEW j \in 1..(Len(s) + 1) PROVE r[j] \in Range(s) \cup {e}
    <3>1. CASE j < i
      <4>1. j \in 1..Len(s) /\ r[j] = s[j]
        BY <1>0, <1>1, <3>1
      <4> QED
        BY <1>2, <4>1
    <3>2. CASE j = i
      BY <1>1, <3>2
    <3>3. CASE j > i
      <4>1. j - 1 \in 1..Len(s) /\ r[j] = s[j - 1]
        BY <1>0, <1>1, <3>3
      <4> QED
        BY <1>2, <4>1
    <3>4. j < i \/ j = i \/ j > i
      BY <1>0
    <3> QED
      BY <3>1, <3>2, <3>3, <3>4
  <2> QED
    BY <1>1, <1>2, <2>1
<1>4. Range(s) \cup {e} \subseteq Range(r)
  <2>1. ASSUME NEW j \in 1..Len(s) PROVE s[j] \in Range(r)
    <3>1. CASE j < i
      <4>1. j \in 1..Len(r) /\ r[j] = s[j]
        BY <1>0, <1>1, <3>1
      <4> QED
        BY <1>2, <4>1
    <3>2. CASE j >= i
      <4>1. j + 1 \in 1..Len(r) /\ r[j + 1] = s[j]
        BY <1>0, <1>1, <3>2
      <4> QED
        BY <1>2, <4>1
    <3>3. j < i \/ j >= i
      BY <1>0
    <3> QED
      BY <3>1, <3>2, <3>3
  <2>2. e \in Range(r)
    <3>1. i \in 1..Len(r) /\ r[i] = e
      BY <1>0, <1>1
    <3> QED
      BY <1>2, <3>1
  <2> QED
    BY <1>2, <2>1, <2>2
<1>5. Distinct(r)
  <2> SUFFICES ASSUME NEW j \in 1..Len(r), NEW k \in 1..Len(r), j < k
               PROVE  r[j] # r[k]
    <3>1. \A j, k \in 1..Len(r) : j # k => j < k \/ k < j
      BY <1>0, <1>1
    <3> QED
      BY <3>1 DEF Distinct
  <2>1. \A m \in 1..Len(s) : s[m] # e
    BY <1>2
  <2>2. CASE k < i
    <3>1. /\ j \in 1..(i - 1) /\ k \in 1..(i - 1) /\ j # k
          /\ j \in 1..Len(s) /\ k \in 1..Len(s)
      BY <1>0, <1>1, <2>2
    <3>2. r[j] = s[j] /\ r[k] = s[k]
      BY <1>1, <3>1
    <3> QED
      BY <3>1, <3>2 DEF Distinct
  <2>3. CASE k = i
    BY <1>0, <1>1, <2>1, <2>3
  <2>4. CASE k > i /\ j = i
    BY <1>0, <1>1, <2>1, <2>4
  <2>5. CASE k > i /\ j < i
    <3>1. r[j] = s[j] /\ r[k] = s[k - 1] /\ j # k - 1
          /\ j \in 1..Len(s) /\ k - 1 \in 1..Len(s)
      BY <1>0, <1>1, <2>5
    <3> QED
      BY <3>1 DEF Distinct
  <2>6. CASE k > i /\ j > i
    <3>1. r[j] = s[j - 1] /\ r[k] = s[k - 1] /\ j - 1 # k - 1
          /\ j - 1 \in 1..Len(s) /\ k - 1 \in 1..Len(s)
      BY <1>0, <1>1, <2>6
    <3> QED
      BY <3>1 DEF Distinct
  <2>7. k < i \/ k = i \/ k > i
    BY <1>0
  <2>8. j < i \/ j = i \/ j > i
    BY <1>0
  <2> QED
    BY <2>2, <2>3, <2>4, <2>5, <2>6, <2>7, <2>8
<1> QED
  BY <1>3, <1>4, <1>5 DEF r

\* Removing an item from a list without duplicates.
LEMMA RemoveAtRange ==
  ASSUME NEW S, NEW s \in Seq(S), NEW i \in 1..Len(s), Distinct(s)
  PROVE  /\ Range(RemoveAt(s, i)) = Range(s) \ {s[i]}
         /\ Distinct(RemoveAt(s, i))
<1> DEFINE r == RemoveAt(s, i)
<1>0. Len(s) \in Nat
  BY LenProperties
<1>1. /\ r \in Seq(S)
      /\ Len(r) = Len(s) - 1
      /\ \A j \in 1..(Len(s) - 1) : r[j] = IF j < i THEN s[j] ELSE s[j + 1]
  BY RemoveAtElements
<1> HIDE DEF r
<1>2. Range(r) = {r[j] : j \in 1..Len(r)} /\ Range(s) = {s[j] : j \in 1..Len(s)}
  BY <1>1, RangeEquality
\* The place in s of the j-th item of r.
<1> DEFINE From(j) == IF j < i THEN j ELSE j + 1
<1>3. ASSUME NEW j \in 1..Len(r)
      PROVE  From(j) \in 1..Len(s) /\ From(j) # i /\ r[j] = s[From(j)]
  <2>1. CASE j < i
    BY <1>0, <1>1, <2>1
  <2>2. CASE j >= i
    BY <1>0, <1>1, <2>2
  <2>3. j < i \/ j >= i
    BY <1>0, <1>1
  <2> QED
    BY <2>1, <2>2, <2>3
<1>4. Range(r) \subseteq Range(s) \ {s[i]}
  <2>1. ASSUME NEW j \in 1..Len(r) PROVE r[j] \in Range(s) \ {s[i]}
    <3> HIDE DEF From
    <3> QED
      BY <1>2, <1>3 DEF Distinct
  <2> QED
    BY <1>2, <2>1
<1>5. Range(s) \ {s[i]} \subseteq Range(r)
  <2>1. ASSUME NEW j \in 1..Len(s), j # i PROVE s[j] \in Range(r)
    <3>1. CASE j < i
      <4>1. j \in 1..Len(r) /\ r[j] = s[j]
        BY <1>0, <1>1, <3>1
      <4> QED
        BY <1>2, <4>1
    <3>2. CASE j > i
      <4>1. j - 1 \in 1..Len(r) /\ r[j - 1] = s[j]
        BY <1>0, <1>1, <3>2
      <4> QED
        BY <1>2, <4>1
    <3>3. j < i \/ j > i
      BY <1>0, <2>1
    <3> QED
      BY <3>1, <3>2, <3>3
  <2> QED
    BY <1>2, <2>1
<1>6. Distinct(r)
  <2> SUFFICES ASSUME NEW j \in 1..Len(r), NEW k \in 1..Len(r), j # k
               PROVE  r[j] # r[k]
    BY DEF Distinct
  <2>1. From(j) # From(k)
    BY <1>0, <1>1
  <2> HIDE DEF From
  <2> QED
    BY <1>3, <2>1 DEF Distinct
<1> QED
  BY <1>4, <1>5, <1>6 DEF r

-----------------------------------------------------------------------------
(* The timeout list *)

\* The walk of register_timeout_handler stops somewhere.
LEMMA PlaceFound ==
  ASSUME NEW S, NEW list \in Seq(S), NEW at \in [S -> Int], NEW h \in S
  PROVE  /\ Place(list, at, h) \in 1..(Len(list) + 1)
         /\ \A j \in 1..(Place(list, at, h) - 1) : at[h] < at[list[j]]
         /\ Place(list, at, h) <= Len(list) =>
              ~(at[h] < at[list[Place(list, at, h)]])
<1> DEFINE Stops(k) == k <= Len(list) => ~(at[h] < at[list[k]])
           T == {k \in 1..(Len(list) + 1) : Stops(k)}
           Good(k) == /\ \A j \in 1..(k - 1) : at[h] < at[list[j]]
                      /\ Stops(k)
<1>0. Len(list) \in Nat
  BY LenProperties
<1>1. \E k \in T : \A m \in T : k <= m
  <2>1. T \in SUBSET Nat
    BY <1>0
  <2>2. Len(list) + 1 \in T
    BY <1>0
  <2> HIDE DEF T
  <2> QED
    BY <2>1, <2>2, LeastNat
<1>2. PICK k \in T : \A m \in T : k <= m
  BY <1>1
<1>3. Good(k)
  <2>1. ASSUME NEW j \in 1..(k - 1) PROVE at[h] < at[list[j]]
    <3>1. j \in 1..(Len(list) + 1) /\ ~(k <= j)
      BY <1>0
    <3>2. j \notin T
      BY <1>0, <1>2, <3>1
    <3> QED
      BY <3>1, <3>2
  <2> QED
    BY <2>1
<1>4. \E m \in 1..(Len(list) + 1) : Good(m)
  BY <1>3
<1>5. Place(list, at, h) = CHOOSE m \in 1..(Len(list) + 1) : Good(m)
  BY DEF Place, EarlierThan
<1> HIDE DEF Good
<1>6. Place(list, at, h) \in 1..(Len(list) + 1) /\ Good(Place(list, at, h))
  BY <1>4, <1>5
<1> QED
  BY <1>6 DEF Good

\* Registering a handler keeps the list sorted and without duplicates, for
\* whatever moment the handler has.
THEOREM RegisterTimeoutCorrect ==
  ASSUME NEW S, NEW list \in Seq(S), NEW at \in [S -> Int], NEW h \in S,
         Distinct(list), Descending(list, at), h \notin Range(list)
  PROVE  /\ RegisterTimeout(list, at, h) \in Seq(S)
         /\ Range(RegisterTimeout(list, at, h)) = Range(list) \cup {h}
         /\ Distinct(RegisterTimeout(list, at, h))
         /\ Descending(RegisterTimeout(list, at, h), at)
<1> DEFINE p == Place(list, at, h)
           r == InsertAt(list, p, h)
<1>0. Len(list) \in Nat /\ (\A j \in 1..Len(list) : list[j] \in S)
  BY LenProperties
<1>1. /\ p \in 1..(Len(list) + 1)
      /\ \A j \in 1..(p - 1) : at[h] < at[list[j]]
      /\ p <= Len(list) => ~(at[h] < at[list[p]])
  BY PlaceFound
<1> HIDE DEF p
<1>2. /\ r \in Seq(S)
      /\ Len(r) = Len(list) + 1
      /\ \A j \in 1..(p - 1) : r[j] = list[j]
      /\ r[p] = h
      /\ \A j \in (p + 1)..(Len(list) + 1) : r[j] = list[j - 1]
  BY <1>1, InsertAtElements
<1>3. Range(r) = Range(list) \cup {h} /\ Distinct(r)
  BY <1>1, InsertAtRange
<1> HIDE DEF r
<1>4. Descending(r, at)
  <2> SUFFICES ASSUME NEW j \in 1..Len(r), NEW k \in 1..Len(r), j < k
               PROVE  at[r[j]] >= at[r[k]]
    BY DEF Descending
  <2>0. at[h] \in Int /\ \A m \in 1..Len(list) : at[list[m]] \in Int
    BY <1>0
  <2>a. /\ p \in 1..(Len(list) + 1) /\ Len(list) \in Nat
        /\ j \in 1..(Len(list) + 1) /\ k \in 1..(Len(list) + 1) /\ j < k
    BY <1>0, <1>1, <1>2
  <2>1. CASE k < p
    <3>1. /\ j \in 1..Len(list) /\ k \in 1..Len(list)
          /\ j \in 1..(p - 1) /\ k \in 1..(p - 1)
      BY <2>a, <2>1
    <3>2. r[j] = list[j] /\ r[k] = list[k]
      BY <1>2, <3>1
    <3> QED
      BY <3>1, <3>2 DEF Descending
  <2>2. CASE k = p
    <3>1. j \in 1..(p - 1) /\ j \in 1..Len(list)
      BY <2>a, <2>2
    <3>2. r[j] = list[j] /\ r[k] = h
      BY <1>2, <2>2, <3>1
    <3> QED
      BY <1>1, <2>0, <3>1, <3>2
  <2>3. CASE k > p /\ j < p
    <3>1. /\ j < k - 1 /\ j \in 1..Len(list) /\ k - 1 \in 1..Len(list)
          /\ j \in 1..(p - 1) /\ k \in (p + 1)..(Len(list) + 1)
      BY <2>a, <2>3
    <3>2. r[j] = list[j] /\ r[k] = list[k - 1]
      BY <1>2, <3>1
    <3> QED
      BY <3>1, <3>2 DEF Descending
  <2>4. CASE k > p /\ j = p
    <3>0. /\ k - 1 \in 1..Len(list) /\ k \in (p + 1)..(Len(list) + 1)
          /\ p \in 1..Len(list) /\ p <= k - 1 /\ p <= Len(list)
      BY <2>a, <2>4
    <3>1. r[j] = h /\ r[k] = list[k - 1]
      BY <1>2, <2>4, <3>0
    <3>2. at[h] >= at[list[p]]
      BY <1>1, <2>0, <3>0
    <3>3. at[list[p]] >= at[list[k - 1]]
      <4>1. CASE p = k - 1
        BY <2>0, <3>0, <4>1
      <4>2. CASE p < k - 1
        BY <3>0, <4>2 DEF Descending
      <4> QED
        BY <3>0, <4>1, <4>2
    <3> QED
      BY <2>0, <3>0, <3>1, <3>2, <3>3
  <2>5. CASE k > p /\ j > p
    <3>1. /\ j - 1 < k - 1 /\ j - 1 \in 1..Len(list) /\ k - 1 \in 1..Len(list)
          /\ j \in (p + 1)..(Len(list) + 1) /\ k \in (p + 1)..(Len(list) + 1)
      BY <2>a, <2>5
    <3>2. r[j] = list[j - 1] /\ r[k] = list[k - 1]
      BY <1>2, <3>1
    <3> QED
      BY <3>1, <3>2 DEF Descending
  <2>6. (k < p \/ k = p \/ k > p) /\ (j < p \/ j = p \/ j > p)
    BY <2>a
  <2> QED
    BY <2>1, <2>2, <2>3, <2>4, <2>5, <2>6
<1>5. RegisterTimeout(list, at, h) = r
  BY DEF RegisterTimeout, r, p
<1> QED
  BY <1>2, <1>3, <1>4, <1>5

\* In a sorted list the walk of remove_timeout_handler never gives up before
\* it has reached the handler; removing keeps the list sorted.
THEOREM RemoveTimeoutCorrect ==
  ASSUME NEW S, NEW list \in Seq(S), NEW at \in [S -> Int], NEW h \in S,
         Distinct(list), Descending(list, at)
  PROVE  /\ RemoveTimeout(list, at, h) \in Seq(S)
         /\ Range(RemoveTimeout(list, at, h)) = Range(list) \ {h}
         /\ Distinct(RemoveTimeout(list, at, h))
         /\ Descending(RemoveTimeout(list, at, h), at)
<1>0. /\ Len(list) \in Nat
      /\ \A j \in 1..Len(list) : list[j] \in S
      /\ Range(list) = {list[j] : j \in 1..Len(list)}
  BY LenProperties, RangeEquality
<1>1. CASE h \in Range(list)
  <2>1. PICK k \in 1..Len(list) : list[k] = h
    BY <1>0, <1>1
  <2>2. ReachedAt(list, at, h, k)
    <3>1. ASSUME NEW j \in 1..(k - 1)
          PROVE  list[j] # h /\ ~(at[list[j]] < at[h])
      <4>1. j \in 1..Len(list) /\ j < k /\ j # k
        BY <1>0
      <4>2. at[list[j]] >= at[list[k]]
        BY <4>1 DEF Descending
      <4>3. at[list[j]] \in Int /\ at[list[k]] \in Int
        BY <1>0, <4>1
      <4>4. list[j] # list[k]
        BY <4>1 DEF Distinct
      <4> QED
        BY <2>1, <4>2, <4>3, <4>4
    <3> QED
      BY <2>1, <3>1 DEF ReachedAt, EarlierThan
  <2> DEFINE m == CHOOSE i \in 1..Len(list) : ReachedAt(list, at, h, i)
  <2>3. m \in 1..Len(list) /\ ReachedAt(list, at, h, m)
    BY <2>2
  <2>4. RemoveTimeout(list, at, h) = RemoveAt(list, m)
    BY <2>2 DEF RemoveTimeout
  <2> HIDE DEF m
  <2> DEFINE r == RemoveAt(list, m)
  <2>5. list[m] = h
    BY <2>3 DEF ReachedAt
  <2>6. /\ r \in Seq(S)
        /\ Len(r) = Len(list) - 1
        /\ \A j \in 1..(Len(list) - 1) :
             r[j] = IF j < m THEN list[j] ELSE list[j + 1]
    BY <2>3, RemoveAtElements
  <2>7. Range(r) = Range(list) \ {h} /\ Distinct(r)
    BY <2>3, <2>5, RemoveAtRange
  <2> HIDE DEF r
  <2>8. Descending(r, at)
    <3> SUFFICES ASSUME NEW i \in 1..Len(r), NEW j \in 1..Len(r), i < j
                 PROVE  at[r[i]] >= at[r[j]]
      BY DEF Descending
    <3> DEFINE From(x) == IF x < m THEN x ELSE x + 1
    <3>0. m \in Int /\ Len(r) = Len(list) - 1
      BY <2>3, <2>6
    <3>1. From(i) \in 1..Len(list) /\ From(j) \in 1..Len(list)
          /\ From(i) < From(j)
      BY <1>0, <3>0
    <3>2. r[i] = list[From(i)] /\ r[j] = list[From(j)]
      BY <1>0, <2>3, <2>6
    <3> HIDE DEF From
    <3> QED
      BY <3>1, <3>2 DEF Descending
  <2> QED
    BY <2>4, <2>6, <2>7, <2>8 DEF r
<1>2. CASE h \notin Range(list)
  <2>1. ~\E k \in 1..Len(list) : ReachedAt(list, at, h, k)
    BY <1>0, <1>2 DEF ReachedAt
  <2>2. RemoveTimeout(list, at, h) = list
    BY <2>1 DEF RemoveTimeout
  <2> QED
    BY <1>2, <2>2
<1> QED
  BY <1>1, <1>2

\* A list that is sorted for one assignment of moments is sorted for every
\* other that agrees on its items.
LEMMA DescendingAgree ==
  ASSUME NEW S, NEW list \in Seq(S), NEW at, NEW later,
         \A h \in Range(list) : at[h] = later[h],
         Descending(list, at)
  PROVE  Descending(list, later)
<1>1. \A j \in 1..Len(list) : at[list[j]] = later[list[j]]
  BY RangeEquality
<1> QED
  BY <1>1 DEF Descending

\* handle_timeouts pops the head of the list.
LEMMA TailCorrect ==
  ASSUME NEW S, NEW list \in Seq(S), NEW at, list # <<>>,
         Distinct(list), Descending(list, at)
  PROVE  /\ Head(list) \in Range(list)
         /\ Tail(list) \in Seq(S)
         /\ Range(Tail(list)) = Range(list) \ {Head(list)}
         /\ Distinct(Tail(list))
         /\ Descending(Tail(list), at)
<1> DEFINE r == Tail(list)
<1>0. Len(list) \in Nat \ {0}
  BY EmptySeq, LenProperties
<1>1. /\ r \in Seq(S)
      /\ Len(r) = Len(list) - 1
      /\ \A i \in 1..Len(r) : r[i] = list[i + 1]
      /\ Head(list) = list[1]
  BY HeadTailProperties
<1> HIDE DEF r
<1>2. Range(r) = {r[j] : j \in 1..Len(r)} /\ Range(list) = {list[j] : j \in 1..Len(list)}
  BY <1>1, RangeEquality
<1>3. 1 \in 1..Len(list) /\ \A i \in 1..Len(r) : i + 1 \in 1..Len(list) /\ i + 1 # 1
  BY <1>0, <1>1
<1>4. Range(r) \subseteq Range(list) \ {Head(list)}
  BY <1>1, <1>2, <1>3 DEF Distinct
<1>5. Range(list) \ {Head(list)} \subseteq Range(r)
  <2>1. ASSUME NEW j \in 1..Len(list), j # 1 PROVE list[j] \in Range(r)
    <3>1. j - 1 \in 1..Len(r) /\ (j - 1) + 1 = j
      BY <1>0, <1>1, <2>1
    <3>2. r[j - 1] = list[j]
      BY <1>1, <3>1
    <3> QED
      BY <1>2, <3>1, <3>2
  <2> QED
    BY <1>1, <1>2, <2>1
<1>6. Distinct(r)
  <2>1. ASSUME NEW j \in 1..Len(r), NEW k \in 1..Len(r), j # k
        PROVE  r[j] # r[k]
    <3>1. j + 1 \in 1..Len(list) /\ k + 1 \in 1..Len(list) /\ j + 1 # k + 1
      BY <1>3, <2>1
    <3> QED
      BY <1>1, <3>1 DEF Distinct
  <2> QED
    BY <2>1 DEF Distinct
<1>7. Descending(r, at)
  <2>1. ASSUME NEW j \in 1..Len(r), NEW k \in 1..Len(r), j < k
        PROVE  at[r[j]] >= at[r[k]]
    <3>1. j + 1 \in 1..Len(list) /\ k + 1 \in 1..Len(list) /\ j + 1 < k + 1
      BY <1>3, <2>1
    <3> QED
      BY <1>1, <3>1 DEF Descending
  <2> QED
    BY <2>1 DEF Descending
<1> QED
  BY <1>1, <1>2, <1>3, <1>4, <1>5, <1>6, <1>7 DEF r

\* A session is added at the end of the sessions array.
LEMMA AppendCorrect ==
  ASSUME NEW S, NEW list \in Seq(S), NEW h \in S,
         Distinct(list), h \notin Range(list)
  PROVE  /\ Append(list, h) \in Seq(S)
         /\ Range(Append(list, h)) = Range(list) \cup {h}
         /\ Distinct(Append(list, h))
<1> DEFINE r == Append(list, h)
<1>0. Len(list) \in Nat
  BY LenProperties
<1>1. /\ r \in Seq(S)
      /\ Len(r) = Len(list) + 1
      /\ \A i \in 1..Len(list) : r[i] = list[i]
      /\ r[Len(list) + 1] = h
  BY AppendProperties
<1> HIDE DEF r
<1>2. Range(r) = {r[j] : j \in 1..Len(r)} /\ Range(list) = {list[j] : j \in 1..Len(list)}
  BY <1>1, RangeEquality
<1>3. \A j \in 1..Len(r) : j \in 1..Len(list) \/ j = Len(list) + 1
  BY <1>0, <1>1
<1>4. 1..Len(list) \subseteq 1..Len(r) /\ Len(list) + 1 \in 1..Len(r)
  BY <1>0, <1>1
<1>5. Range(r) = Range(list) \cup {h}
  <2>1. Range(r) \subseteq Range(list) \cup {h}
    BY <1>1, <1>2, <1>3
  <2>2. Range(list) \subseteq Range(r)
    BY <1>1, <1>2, <1>4
  <2>3. h \in Range(r)
    BY <1>1, <1>2, <1>4
  <2> QED
    BY <2>1, <2>2, <2>3
<1>6. Distinct(r)
  <2> SUFFICES ASSUME NEW j \in 1..Len(r), NEW k \in 1..Len(r), j # k
               PROVE  r[j] # r[k]
    BY DEF Distinct
  <2>1. \A i \in 1..Len(list) : list[i] # h
    BY <1>2
  <2> QED
    BY <1>1, <1>3, <2>1 DEF Distinct
<1> QED
  BY <1>1, <1>5, <1>6 DEF r

-----------------------------------------------------------------------------
(* The inductive invariant *)

LoopType ==
  /\ clock \in 0..MaxClock
  /\ ct \in 0..MaxClock
  /\ pc \in {"select", "timeouts", "fds", "onwrite", "close", "dead"}
  /\ rd \in SUBSET Fds
  /\ wr \in SUBSET Fds
  /\ scan \in 0..OsLimit

\* While a session's handler runs, scan is a descriptor of the table.
HandlerRuns == pc \in {"onwrite", "close"} => scan \in Fds

TableType ==
  /\ fdhandlers \in [Fds -> Conn \cup {Listener, NoHandler}]
  /\ fdhandlerssize \in Nat
  /\ max_fd \in Fds

ListType ==
  /\ timeouts \in Seq(Conn)
  /\ due \in [Conn -> 0..(MaxClock + IdleTimeout)]
  /\ sessions \in Seq(Conn)

RecordType ==
  /\ tcp \in [Conn -> TcpSession]
  /\ sock \in [Conn -> Socket]
  /\ leaked \in SUBSET Fds

ServerType == TableType /\ ListType /\ RecordType

\* RegistriesAgree in two parts, the lists and the table.
ListsAgree ==
  /\ Distinct(sessions) /\ Range(sessions) = OpenConns
  /\ Distinct(timeouts) /\ Range(timeouts) = OpenConns

TableAgrees ==
  /\ fdhandlers[ListenFd] = Listener
  /\ \A c \in OpenConns : /\ tcp[c].fd \in Fds \ (0..ListenFd)
                          /\ fdhandlers[tcp[c].fd] = c
  /\ \A f \in Fds \ {ListenFd} :
       fdhandlers[f] # NoHandler =>
         fdhandlers[f] \in OpenConns /\ tcp[fdhandlers[f]].fd = f

\* The session's part of WriteCursor, and what keeps it: a connection that
\* is not open has no response, and a client that does not pipeline has
\* nothing on its way while a response is pending.
CursorOk(t) ==
  /\ t.want_write <=> t.len > 0
  /\ t.len > 0 => t.off < t.len
  /\ t.len = 0 => t.off = 0

CursorInv ==
  /\ \A c \in Conn \ OpenConns : tcp[c].len = 0
  /\ "pipelining" \notin Conditions =>
       \A c \in OpenConns : /\ CursorOk(tcp[c])
                            /\ sock[c].data => tcp[c].len = 0

\* The table has room for every handler as long as no descriptor is leaked.
TableInv ==
  "leak" \notin Conditions /\ ListenFd < SizeStep =>
    leaked = {} /\ HandlersInTable

ServerInv ==
  /\ ServerType
  /\ ListsAgree
  /\ TableAgrees
  /\ TimeoutsSorted
  /\ HandlersPolled
  /\ TableInv
  /\ CursorInv

IInv == LoopType /\ HandlerRuns /\ ServerInv

LEMMA IInvImplies ==
  IInv => TypeOK /\ RegistriesAgree /\ TimeoutsSorted /\ HandlersPolled
BY DEF IInv, LoopType, ServerInv, ServerType, TableType, ListType, RecordType,
       TypeOK, ListsAgree, TableAgrees, RegistriesAgree

-----------------------------------------------------------------------------
(* The initial state *)

LEMMA FdsFacts ==
  /\ Fds \subseteq Nat
  /\ ListenFd \in Fds
  /\ OsLimit \in Nat /\ MaxClock \in Nat /\ MaxResponse \in Nat
  /\ IdleTimeout \in Nat
  /\ -1 \notin Fds
BY TcpServerAssumption DEF Fds

LEMMA RecordFacts ==
  /\ NoSession \in TcpSession
  /\ NewSocket \in Socket
  /\ [NewSocket EXCEPT !.st = "gone"] \in Socket
<1>1. NoSession \in TcpSession
  BY FdsFacts DEF NoSession, TcpSession
<1>2. NewSocket \in Socket
  BY DEF NewSocket, Socket
<1>3. [NewSocket EXCEPT !.st = "gone"] \in Socket
  BY <1>2 DEF Socket
<1> QED
  BY <1>1, <1>2, <1>3

LEMMA InitIInv == Init => IInv
<1> SUFFICES ASSUME Init PROVE IInv
  OBVIOUS
<1> USE FdsFacts
<1>1. LoopType /\ HandlerRuns
  BY DEF Init, LoopType, HandlerRuns
<1>2. TableType
  BY SizeStepAssumption DEF Init, TableType, GrownSize
<1>3. ListType /\ RecordType
  BY RecordFacts DEF Init, ListType, RecordType
<1>4. OpenConns = {}
  BY DEF Init, OpenConns, NewSocket
<1>5. ListsAgree
  <2>1. Range(<<>>) = {}
    BY DEF Range
  <2> QED
    BY <1>4, <2>1 DEF Init, ListsAgree, Distinct
<1>6. TableAgrees /\ HandlersPolled /\ CursorInv
  BY <1>4 DEF Init, TableAgrees, HandlersPolled, CursorInv, NoSession
<1>7. TimeoutsSorted
  BY DEF Init, TimeoutsSorted, Descending
<1>8. TableInv
  BY SizeStepAssumption DEF Init, TableInv, HandlersInTable, GrownSize
<1> QED
  BY <1>1, <1>2, <1>3, <1>5, <1>6, <1>7, <1>8 DEF IInv, ServerInv, ServerType

-----------------------------------------------------------------------------
(* What the parts of the invariant depend on *)

LEMMA ServerUnchanged ==
  ASSUME ServerInv, UNCHANGED <<server, sock>>
  PROVE  ServerInv'
BY DEF ServerInv, ServerType, TableType, ListType, RecordType, ListsAgree,
       TableAgrees, TimeoutsSorted, HandlersPolled, TableInv, HandlersInTable,
       CursorInv, CursorOk, OpenConns, server, selector

\* A handler found in the table belongs to an open session.
LEMMA HandlerIsOpen ==
  ASSUME TableAgrees, NEW f \in Fds, NEW c \in Conn, fdhandlers[f] = c
  PROVE  c \in OpenConns /\ tcp[c].fd = f
BY TcpServerAssumption DEF TableAgrees

\* The descriptor handle_fds visits is one of the table.
LEMMA NextIsFd ==
  ASSUME LoopType, TableType, NEW f, IsNext(f)
  PROVE  f \in Fds
<1>1. f \in scan..max_fd
  BY DEF IsNext, Pending
<1> QED
  BY <1>1, FdsFacts DEF LoopType, TableType, Fds

\* The due moments as integers, and the lists as sequences of Conn.
LEMMA DueInt ==
  ASSUME NEW d \in [Conn -> 0..(MaxClock + IdleTimeout)]
  PROVE  d \in [Conn -> Int]
BY FdsFacts

\* A change of a connection that is not open, or that leaves it open,
\* leaves the server's state sound.
LEMMA SocketKeeps ==
  ASSUME ServerInv, NEW c \in Conn, NEW k \in Socket,
         k.st = "open" <=> sock[c].st = "open",
         k.data => sock[c].data \/ "pipelining" \in Conditions \/ tcp[c].len = 0,
         sock' = [sock EXCEPT ![c] = k],
         UNCHANGED <<timeouts, due, selector, sessions, tcp>>,
         leaked' \in SUBSET Fds, "leak" \notin Conditions => leaked' = leaked
  PROVE  ServerInv'
<1> USE DEF ServerInv, ServerType
<1>1. sock' \in [Conn -> Socket]
  BY DEF RecordType
<1>2. OpenConns' = OpenConns
  BY DEF OpenConns, RecordType
<1>3. ServerType'
  BY <1>1 DEF TableType, ListType, RecordType, selector
<1>4. ListsAgree' /\ TableAgrees'
  BY <1>2 DEF ListsAgree, TableAgrees, selector
<1>5. TimeoutsSorted' /\ HandlersPolled' /\ TableInv'
  BY DEF TimeoutsSorted, HandlersPolled, TableInv, HandlersInTable, selector
<1>6. CursorInv'
  BY <1>2 DEF CursorInv, CursorOk, RecordType
<1> QED
  BY <1>3, <1>4, <1>5, <1>6

-----------------------------------------------------------------------------
(* Closing a session *)

\* CloseTcpSession, called with the whole timeout list or, by the timeout
\* handler, with the rest of it.
LEMMA CloseKeeps ==
  ASSUME ServerInv, NEW c \in OpenConns, NEW list \in Seq(Conn),
         Distinct(list), Descending(list, due),
         Range(list) \ {c} = Range(timeouts) \ {c},
         CloseTcpSession(c, list)
  PROVE  ServerInv'
<1> USE DEF ServerInv, ServerType
<1> DEFINE fd == tcp[c].fd
           gone == [NewSocket EXCEPT !.st = "gone"]
<1>0. c \in Conn /\ OpenConns \subseteq Conn /\ c \in Range(timeouts)
  BY DEF OpenConns, ListsAgree
<1>1. /\ fd \in Fds /\ fd # ListenFd /\ fdhandlers[fd] = c
      /\ \A d \in OpenConns \ {c} : tcp[d].fd # fd
  BY FdsFacts DEF TableAgrees, Fds
<1> HIDE DEF fd
<1>2. /\ fdhandlers' = [fdhandlers EXCEPT ![fd] = NoHandler]
      /\ max_fd' = MaxFdAfterRemove(max_fd, fd, fdhandlers')
      /\ timeouts' = RemoveTimeout(list, due, c)
      /\ due' = [due EXCEPT ![c] = 0]
      /\ tcp' = [tcp EXCEPT ![c] = NoSession]
      /\ sock' = [sock EXCEPT ![c] = gone]
      /\ UNCHANGED <<fdhandlerssize, leaked>>
  BY DEF CloseTcpSession, fd
<1>3. gone \in Socket /\ gone.st = "gone"
  BY RecordFacts DEF NewSocket
<1> HIDE DEF gone
<1>4. OpenConns' = OpenConns \ {c}
  BY <1>0, <1>2, <1>3 DEF OpenConns, RecordType
<1>5. max_fd' = max_fd
  <2>1. CASE fd # max_fd
    BY <1>2, <2>1 DEF MaxFdAfterRemove
  <2>2. CASE fd = max_fd
    <3> DEFINE Walked(m) == /\ m >= 0 => fdhandlers'[m] = NoHandler
                            /\ \A j \in (m + 1)..max_fd : fdhandlers'[j] # NoHandler
    <3>1. fdhandlers'[max_fd] = NoHandler
      BY <1>1, <1>2, <2>2 DEF TableType
    <3>2. max_fd \in Nat
      BY <1>1, <2>2, FdsFacts
    <3>3. max_fd \in -1..max_fd /\ Walked(max_fd)
      BY <3>1, <3>2
    <3>4. ASSUME NEW m \in -1..max_fd, Walked(m) PROVE m = max_fd
      <4>1. CASE m < max_fd
        <5>1. max_fd \in (m + 1)..max_fd
          BY <3>2, <4>1
        <5> QED
          BY <3>1, <3>4, <5>1
      <4> QED
        BY <3>2, <4>1
    <3>5. max_fd' = CHOOSE m \in -1..max_fd : Walked(m)
      BY <1>2, <2>2 DEF MaxFdAfterRemove
    <3> HIDE DEF Walked
    <3> QED
      BY <3>3, <3>4, <3>5
  <2> QED
    BY <2>1, <2>2
<1>6. TableType' /\ HandlersPolled'
  BY <1>1, <1>2, <1>5 DEF TableType, HandlersPolled
<1>7. /\ timeouts' \in Seq(Conn)
      /\ Range(timeouts') = Range(timeouts) \ {c}
      /\ Distinct(timeouts')
      /\ Descending(timeouts', due)
  <2>1. due \in [Conn -> Int]
    BY DueInt DEF ListType
  <2> HIDE DEF ServerInv
  <2>2. /\ RemoveTimeout(list, due, c) \in Seq(Conn)
        /\ Range(RemoveTimeout(list, due, c)) = Range(list) \ {c}
        /\ Distinct(RemoveTimeout(list, due, c))
        /\ Descending(RemoveTimeout(list, due, c), due)
    BY <1>0, <2>1, RemoveTimeoutCorrect
  <2> QED
    BY <1>2, <2>2
<1>8. due' \in [Conn -> 0..(MaxClock + IdleTimeout)]
  BY <1>0, <1>2, FdsFacts DEF ListType
<1>9. TimeoutsSorted'
  <2>1. \A h \in Range(timeouts') : due[h] = due'[h]
    BY <1>0, <1>2, <1>7 DEF ListType, ListsAgree
  <2> HIDE DEF ServerInv
  <2>2. Descending(timeouts', due')
    BY <1>7, <2>1, DescendingAgree
  <2> QED
    BY <2>2 DEF TimeoutsSorted
<1>10. sessions' \in Seq(Conn) /\ Range(sessions') = Range(sessions) \ {c} /\ Distinct(sessions')
  <2> DEFINE Match(i) == tcp[sessions[i]].fd = tcp[c].fd
             Found(i) == Match(i) /\ \A j \in 1..(i - 1) : ~Match(j)
             n == CHOOSE i \in 1..Len(sessions) : Found(i)
  <2>0. Len(sessions) \in Nat /\ Range(sessions) = {sessions[i] : i \in 1..Len(sessions)}
    BY LenProperties, RangeEquality DEF ListType
  <2>1. \A i \in 1..Len(sessions) : Match(i) => sessions[i] = c
    BY <1>1, <2>0 DEF ListsAgree, fd
  <2>2. PICK k \in 1..Len(sessions) : sessions[k] = c
    BY <1>0, <2>0 DEF ListsAgree
  <2>3. Found(k)
    <3>1. ASSUME NEW j \in 1..(k - 1) PROVE ~Match(j)
      <4>1. j \in 1..Len(sessions) /\ j # k
        BY <2>0
      <4>2. sessions[j] # c
        BY <2>2, <4>1 DEF ListsAgree, Distinct
      <4> QED
        BY <2>1, <4>1, <4>2
    <3> QED
      BY <2>2, <3>1
  <2>4. n \in 1..Len(sessions) /\ Found(n)
    <3> HIDE DEF Found
    <3> QED
      BY <2>3
  <2>5. sessions' = RemoveAt(sessions, n)
    BY DEF CloseTcpSession
  <2>6. sessions[n] = c
    BY <2>1, <2>4
  <2> HIDE DEF n
  <2>7. sessions \in Seq(Conn) /\ Distinct(sessions)
    BY DEF ListType, ListsAgree
  <2>8. n \in 1..Len(sessions)
    BY <2>4
  <2> HIDE DEF ServerInv
  <2>9. RemoveAt(sessions, n) \in Seq(Conn)
    BY <2>7, <2>8, RemoveAtElements
  <2>10. /\ Range(RemoveAt(sessions, n)) = Range(sessions) \ {sessions[n]}
         /\ Distinct(RemoveAt(sessions, n))
    BY <2>7, <2>8, RemoveAtRange
  <2> QED
    BY <2>5, <2>6, <2>9, <2>10
<1>11. ListType' /\ ListsAgree'
  BY <1>4, <1>7, <1>8, <1>10 DEF ListType, ListsAgree
<1>12. RecordType'
  BY <1>0, <1>2, <1>3, RecordFacts DEF RecordType
<1>13. TableAgrees'
  <2>1. fdhandlers'[ListenFd] = Listener
    BY <1>1, <1>2, FdsFacts DEF TableAgrees, TableType
  <2>2. ASSUME NEW d \in OpenConns'
        PROVE  tcp'[d].fd \in Fds \ (0..ListenFd) /\ fdhandlers'[tcp'[d].fd] = d
    <3>1. d \in OpenConns /\ d # c /\ tcp'[d] = tcp[d]
      BY <1>0, <1>2, <1>4, <2>2 DEF RecordType
    <3> QED
      BY <1>1, <1>2, <3>1 DEF TableAgrees, TableType
  <2>3. ASSUME NEW f \in Fds \ {ListenFd}, fdhandlers'[f] # NoHandler
        PROVE  fdhandlers'[f] \in OpenConns' /\ tcp'[fdhandlers'[f]].fd = f
    <3>1. f # fd /\ fdhandlers'[f] = fdhandlers[f]
      BY <1>1, <1>2, <2>3 DEF TableType
    <3>2. fdhandlers[f] \in OpenConns /\ tcp[fdhandlers[f]].fd = f
      BY <2>3, <3>1 DEF TableAgrees
    <3>3. fdhandlers[f] # c
      BY <3>1, <3>2 DEF fd
    <3> QED
      BY <1>0, <1>2, <1>4, <3>1, <3>2, <3>3 DEF RecordType
  <2> QED
    BY <2>1, <2>2, <2>3 DEF TableAgrees
<1>14. TableInv' /\ CursorInv'
  <2>1. TableInv'
    BY <1>1, <1>2 DEF TableInv, HandlersInTable, TableType
  <2>2. ASSUME NEW d \in OpenConns'
        PROVE  d \in OpenConns /\ tcp'[d] = tcp[d] /\ sock'[d] = sock[d]
    BY <1>0, <1>2, <1>4 DEF RecordType
  <2>3. ASSUME NEW d \in Conn \ OpenConns' PROVE tcp'[d].len = 0
    <3>1. CASE d = c
      BY <1>0, <1>2, <3>1 DEF RecordType, NoSession
    <3>2. CASE d # c
      BY <1>2, <1>4, <3>2 DEF RecordType, CursorInv
    <3> QED
      BY <3>1, <3>2
  <2>4. CursorInv'
    BY <2>2, <2>3 DEF CursorInv, CursorOk
  <2> QED
    BY <2>1, <2>4
<1> QED
  BY <1>6, <1>9, <1>11, <1>12, <1>13, <1>14

-----------------------------------------------------------------------------
(* A step of an open session *)

LEMMA ResetKeeps ==
  ASSUME ListType, ListsAgree, TimeoutsSorted, clock \in 0..MaxClock,
         NEW c \in OpenConns, ResetIdleTout(c)
  PROVE  /\ timeouts' \in Seq(Conn)
         /\ due' \in [Conn -> 0..(MaxClock + IdleTimeout)]
         /\ Distinct(timeouts') /\ Range(timeouts') = Range(timeouts)
         /\ TimeoutsSorted'
<1> DEFINE rest == RemoveTimeout(timeouts, due, c)
<1>1. c \in Conn /\ c \in Range(timeouts)
  BY DEF OpenConns, ListsAgree
<1>2. due' = [due EXCEPT ![c] = clock + IdleTimeout] /\ timeouts' = RegisterTimeout(rest, due', c)
  BY DEF ResetIdleTout
<1>3. due \in [Conn -> Int]
  BY DueInt DEF ListType
<1>4. /\ rest \in Seq(Conn)
      /\ Range(rest) = Range(timeouts) \ {c}
      /\ Distinct(rest)
      /\ Descending(rest, due)
  BY <1>1, <1>3, RemoveTimeoutCorrect DEF ListType, ListsAgree, TimeoutsSorted
<1> HIDE DEF rest
<1>5. due' \in [Conn -> 0..(MaxClock + IdleTimeout)]
  <2>1. clock + IdleTimeout \in 0..(MaxClock + IdleTimeout)
    BY FdsFacts
  <2> QED
    BY <1>1, <1>2, <2>1 DEF ListType
<1>6. due' \in [Conn -> Int]
  BY <1>5, DueInt
<1>7. Descending(rest, due')
  <2>1. \A h \in Range(rest) : due[h] = due'[h]
    <3>1. Range(timeouts) \subseteq Conn
      BY DEF ListsAgree, OpenConns
    <3> QED
      BY <1>2, <1>4, <3>1 DEF ListType
  <2> QED
    BY <1>4, <2>1, DescendingAgree
<1>8. /\ timeouts' \in Seq(Conn)
      /\ Range(timeouts') = Range(rest) \cup {c}
      /\ Distinct(timeouts')
      /\ Descending(timeouts', due')
  <2>1. c \notin Range(rest)
    BY <1>4
  <2> DEFINE list == RegisterTimeout(rest, due', c)
  <2>2. /\ list \in Seq(Conn)
        /\ Range(list) = Range(rest) \cup {c}
        /\ Distinct(list)
        /\ Descending(list, due')
    BY <1>1, <1>4, <1>6, <1>7, <2>1, RegisterTimeoutCorrect
  <2> QED
    BY <1>2, <2>2
<1> QED
  BY <1>1, <1>4, <1>5, <1>8 DEF TimeoutsSorted

\* A handler that changes the session's record and socket, and perhaps
\* resets its idle time.
LEMMA SessionKeeps ==
  ASSUME ServerInv, clock \in 0..MaxClock, NEW c \in OpenConns,
         NEW t \in TcpSession, NEW k \in Socket,
         tcp' = [tcp EXCEPT ![c] = t], sock' = [sock EXCEPT ![c] = k],
         t.fd = tcp[c].fd, k.st = "open",
         "pipelining" \notin Conditions => CursorOk(t) /\ (k.data => t.len = 0),
         ResetIdleTout(c) \/ UNCHANGED <<timeouts, due>>,
         leaked' \in SUBSET Fds, "leak" \notin Conditions => leaked' = leaked,
         UNCHANGED <<selector, sessions>>
  PROVE  ServerInv'
<1> USE DEF ServerInv, ServerType
<1>0. c \in Conn /\ sock[c].st = "open"
  BY DEF OpenConns
<1>1. OpenConns' = OpenConns
  BY <1>0 DEF OpenConns, RecordType
<1>2. /\ timeouts' \in Seq(Conn)
      /\ due' \in [Conn -> 0..(MaxClock + IdleTimeout)]
      /\ Distinct(timeouts') /\ Range(timeouts') = Range(timeouts)
      /\ TimeoutsSorted'
  <2>1. CASE ResetIdleTout(c)
    BY <2>1, ResetKeeps
  <2>2. CASE UNCHANGED <<timeouts, due>>
    BY <2>2 DEF ListType, ListsAgree, TimeoutsSorted
  <2> QED
    BY <2>1, <2>2
<1>3. ListType' /\ ListsAgree'
  BY <1>1, <1>2 DEF ListType, ListsAgree
<1>4. RecordType'
  BY <1>0 DEF RecordType
<1>5. UNCHANGED <<fdhandlers, fdhandlerssize, max_fd>>
  BY DEF selector
<1>6. TableType' /\ HandlersPolled' /\ TableInv'
  BY <1>5 DEF TableType, HandlersPolled, TableInv, HandlersInTable
<1>7. \A d \in Conn : tcp'[d].fd = tcp[d].fd
  BY <1>0 DEF RecordType
<1>8. TableAgrees'
  BY <1>1, <1>5, <1>7 DEF TableAgrees, OpenConns
<1>9. CursorInv'
  BY <1>0, <1>1 DEF CursorInv, RecordType, OpenConns
<1> QED
  BY <1>2, <1>3, <1>4, <1>6, <1>8, <1>9

-----------------------------------------------------------------------------
(* Accepting a connection *)

\* accept() returns a descriptor that no handler uses.
LEMMA LowestFreeIsFree ==
  ASSUME FreeFds # {}
  PROVE  LowestFree \in FreeFds /\ \A g \in FreeFds : LowestFree <= g
<1>1. FreeFds \in SUBSET Nat
  BY FdsFacts DEF FreeFds
<1>2. \E f \in FreeFds : \A g \in FreeFds : f <= g
  BY <1>1, LeastNat
<1> QED
  BY <1>2 DEF LowestFree

LEMMA FreeIsUnused ==
  ASSUME TableAgrees, TableType, NEW f \in FreeFds
  PROVE  f \in Fds \ (0..ListenFd) /\ fdhandlers[f] = NoHandler
<1>1. f \in Fds /\ f \notin 0..ListenFd /\ f # ListenFd
  BY FdsFacts DEF FreeFds, UsedFds, Fds
<1>2. ASSUME fdhandlers[f] # NoHandler PROVE FALSE
  <2>1. fdhandlers[f] \in OpenConns /\ tcp[fdhandlers[f]].fd = f
    BY <1>1, <1>2 DEF TableAgrees
  <2> QED
    BY <2>1 DEF FreeFds, UsedFds, OpenConns
<1> QED
  BY <1>1, <1>2

\* While no descriptor is leaked, the descriptor below the lowest free one
\* has a handler, so that the array grows far enough.
LEMMA GrownFarEnough ==
  ASSUME TableAgrees, TableType, FreeFds # {}, leaked = {}, HandlersInTable
  PROVE  LowestFree < GrownSize(fdhandlerssize, LowestFree)
<1> DEFINE f == LowestFree
<1>1. f \in Fds \ (0..ListenFd) /\ \A g \in FreeFds : f <= g
  BY LowestFreeIsFree, FreeIsUnused
<1> HIDE DEF f
<1>2. f - 1 \in Fds /\ f - 1 >= ListenFd /\ ~(f <= f - 1)
  BY <1>1, FdsFacts, TcpServerAssumption DEF Fds
<1>3. f - 1 \in UsedFds
  BY <1>1, <1>2 DEF FreeFds
<1>4. fdhandlers[f - 1] # NoHandler
  <2>1. CASE f - 1 = ListenFd
    BY <2>1, TcpServerAssumption DEF TableAgrees
  <2>2. CASE f - 1 # ListenFd
    <3>1. f - 1 \notin 0..ListenFd
      BY <1>2, <2>2, FdsFacts DEF Fds
    <3>2. PICK d \in OpenConns : tcp[d].fd = f - 1
      BY <1>3, <3>1 DEF UsedFds, OpenConns
    <3> QED
      BY <3>2, TcpServerAssumption DEF TableAgrees, OpenConns
  <2> QED
    BY <2>1, <2>2
<1>5. f - 1 < fdhandlerssize
  BY <1>2, <1>4 DEF HandlersInTable
<1>6. f < GrownSize(fdhandlerssize, f)
  BY <1>1, <1>5, FdsFacts, SizeStepAssumption DEF GrownSize, TableType, Fds
<1> QED
  BY <1>6 DEF f

LEMMA AcceptKeeps ==
  ASSUME ServerInv, clock \in 0..MaxClock, NEW c \in Conn, Accept(c)
  PROVE  ServerInv'
<1> USE DEF ServerInv, ServerType
<1> DEFINE f == LowestFree
           t == [NoSession EXCEPT !.fd = f]
<1>0. FreeFds # {} /\ sock[c].st = "queued"
  BY DEF Accept, Queued
<1>1. f \in Fds \ (0..ListenFd) /\ fdhandlers[f] = NoHandler /\ f \in FreeFds
  BY <1>0, LowestFreeIsFree, FreeIsUnused
<1>2. "leak" \notin Conditions /\ ListenFd < SizeStep =>
        f < GrownSize(fdhandlerssize, f)
  BY <1>0, GrownFarEnough DEF TableInv
<1>3. /\ fdhandlers' = [fdhandlers EXCEPT ![f] = c]
      /\ fdhandlerssize' = GrownSize(fdhandlerssize, f)
      /\ max_fd' = MaxFdAfterRegister(max_fd, f)
      /\ tcp' = [tcp EXCEPT ![c] = t]
      /\ due' = [due EXCEPT ![c] = clock + IdleTimeout]
      /\ timeouts' = RegisterTimeout(timeouts, due', c)
      /\ sessions' = Append(sessions, c)
      /\ sock' = [sock EXCEPT ![c].st = "open"]
      /\ leaked' = leaked
  BY DEF Accept, ListenEvent
<1> HIDE DEF f
<1>4. t \in TcpSession /\ t.fd = f /\ CursorOk(t) /\ t.len = 0
  <2>1. /\ t \in TcpSession /\ t.fd = f
        /\ t.len = NoSession.len /\ t.off = NoSession.off
        /\ t.want_write = NoSession.want_write
    BY <1>1, RecordFacts DEF TcpSession
  <2> HIDE DEF t
  <2> QED
    BY <2>1 DEF CursorOk, NoSession
<1> HIDE DEF t
<1>5. /\ f # ListenFd
      /\ c \notin OpenConns
      /\ \A d \in OpenConns : tcp[d].fd # f
  BY <1>0, <1>1, FdsFacts DEF OpenConns, FreeFds, UsedFds, Fds
<1>6. OpenConns' = OpenConns \cup {c} /\ sock' \in [Conn -> Socket]
  <2> DEFINE k == [sock[c] EXCEPT !.st = "open"]
  <2>a. sock[c] \in Socket /\ sock \in [Conn -> Socket] /\ c \in Conn
    BY <1>0 DEF RecordType
  <2>b. k \in Socket /\ k.st = "open"
    BY <2>a DEF Socket
  <2>c. sock' = [sock EXCEPT ![c] = k]
    BY <1>3
  <2> HIDE DEF k
  <2>1. sock' \in [Conn -> Socket]
    BY <2>a, <2>b, <2>c
  <2>2. sock'[c].st = "open" /\ \A d \in Conn \ {c} : sock'[d] = sock[d]
    BY <2>a, <2>b, <2>c
  <2> QED
    BY <2>1, <2>2 DEF OpenConns
<1>7. TableType' /\ HandlersPolled' /\ TableInv'
  <2>1. /\ fdhandlers' \in [Fds -> Conn \cup {Listener, NoHandler}]
        /\ fdhandlers'[f] = c
        /\ \A g \in Fds \ {f} : fdhandlers'[g] = fdhandlers[g]
    BY <1>1, <1>3 DEF TableType
  <2>2. max_fd' \in Fds /\ max_fd <= max_fd' /\ f <= max_fd'
    BY <1>1, <1>3, FdsFacts DEF TableType, MaxFdAfterRegister, Fds
  <2>3. fdhandlerssize' \in Nat /\ fdhandlerssize <= fdhandlerssize'
    BY <1>3, SizeStepAssumption DEF TableType, GrownSize
  <2>4. HandlersPolled'
    BY <2>1, <2>2, FdsFacts DEF HandlersPolled, TableType, Fds
  <2>5. TableInv'
    BY <1>2, <1>3, <2>1, <2>3, FdsFacts DEF TableInv, HandlersInTable, TableType, Fds
  <2> QED
    BY <2>1, <2>2, <2>3, <2>4, <2>5 DEF TableType
<1>8. due' \in [Conn -> 0..(MaxClock + IdleTimeout)]
  <2>1. clock + IdleTimeout \in 0..(MaxClock + IdleTimeout)
    BY FdsFacts
  <2> QED
    BY <1>3, <2>1 DEF ListType
<1>9. /\ timeouts' \in Seq(Conn)
      /\ Range(timeouts') = Range(timeouts) \cup {c}
      /\ Distinct(timeouts')
      /\ Descending(timeouts', due')
  <2> DEFINE list == RegisterTimeout(timeouts, due', c)
  <2>1. due' \in [Conn -> Int]
    BY <1>8, DueInt
  <2>2. c \notin Range(timeouts) /\ Range(timeouts) \subseteq Conn
    BY <1>5 DEF ListsAgree, OpenConns
  <2>3. \A h \in Range(timeouts) : due[h] = due'[h]
    BY <1>3, <2>2 DEF ListType
  <2>4. timeouts \in Seq(Conn) /\ Distinct(timeouts) /\ Descending(timeouts, due)
    BY DEF ListType, ListsAgree, TimeoutsSorted
  <2>5. Descending(timeouts, due')
    BY <2>3, <2>4, DescendingAgree
  <2>6. /\ list \in Seq(Conn)
        /\ Range(list) = Range(timeouts) \cup {c}
        /\ Distinct(list)
        /\ Descending(list, due')
    BY <2>1, <2>2, <2>4, <2>5, RegisterTimeoutCorrect
  <2> QED
    BY <1>3, <2>6
<1>10. /\ sessions' \in Seq(Conn)
       /\ Range(sessions') = Range(sessions) \cup {c}
       /\ Distinct(sessions')
  <2>1. sessions \in Seq(Conn) /\ Distinct(sessions) /\ c \notin Range(sessions)
    BY <1>5 DEF ListType, ListsAgree
  <2> QED
    BY <1>3, <2>1, AppendCorrect
<1>11. ListType' /\ ListsAgree' /\ TimeoutsSorted'
  BY <1>6, <1>8, <1>9, <1>10 DEF ListType, ListsAgree, TimeoutsSorted
<1>12. RecordType'
  BY <1>3, <1>4, <1>6 DEF RecordType
<1>13. \A d \in OpenConns : /\ d \in Conn /\ d # c
                            /\ tcp'[d] = tcp[d] /\ sock'[d] = sock[d]
  BY <1>3, <1>5 DEF OpenConns, RecordType
<1>14. tcp'[c] = t
  BY <1>3 DEF RecordType
<1>15. TableAgrees'
  <2>1. fdhandlers'[ListenFd] = Listener
    BY <1>3, <1>5, FdsFacts DEF TableAgrees, TableType
  <2>2. ASSUME NEW d \in OpenConns
        PROVE  tcp'[d].fd \in Fds \ (0..ListenFd) /\ fdhandlers'[tcp'[d].fd] = d
    BY <1>3, <1>5, <1>13 DEF TableAgrees, TableType
  <2>3. tcp'[c].fd \in Fds \ (0..ListenFd) /\ fdhandlers'[tcp'[c].fd] = c
    BY <1>1, <1>3, <1>4, <1>14 DEF TableType
  <2>4. ASSUME NEW g \in Fds \ {ListenFd}, fdhandlers'[g] # NoHandler
        PROVE  fdhandlers'[g] \in OpenConns' /\ tcp'[fdhandlers'[g]].fd = g
    <3>1. CASE g = f
      BY <1>1, <1>3, <1>4, <1>6, <1>14, <3>1 DEF TableType
    <3>2. CASE g # f
      <4>1. fdhandlers'[g] = fdhandlers[g]
        BY <1>3, <3>2 DEF TableType
      <4>2. fdhandlers[g] \in OpenConns /\ tcp[fdhandlers[g]].fd = g
        BY <2>4, <4>1 DEF TableAgrees
      <4> QED
        BY <1>6, <1>13, <4>1, <4>2
    <3> QED
      BY <3>1, <3>2
  <2> QED
    BY <1>6, <2>1, <2>2, <2>3, <2>4 DEF TableAgrees
<1>16. CursorInv'
  <2>1. \A d \in Conn \ OpenConns' : tcp'[d] = tcp[d] /\ d \in Conn \ OpenConns
    BY <1>3, <1>6 DEF RecordType
  <2> QED
    BY <1>4, <1>6, <1>13, <1>14, <2>1 DEF CursorInv, CursorOk
<1> QED
  BY <1>7, <1>11, <1>12, <1>15, <1>16

-----------------------------------------------------------------------------
(* The handlers of a session *)

LEMMA ReadEventFacts ==
  ASSUME IInv, NEW c \in Conn, ReadEvent(c)
  PROVE  /\ c \in OpenConns /\ tcp[c] \in TcpSession /\ sock[c] \in Socket
         /\ sock[c].st = "open"
         /\ clock \in 0..MaxClock
         /\ LoopType' /\ HandlerRuns'
<1> USE DEF IInv, ServerInv, ServerType
<1>1. tcp[c].fd \in Fds
  BY NextIsFd DEF ReadEvent
<1>2. c \in OpenConns
  BY <1>1, HandlerIsOpen DEF ReadEvent
<1>3. LoopType' /\ HandlerRuns'
  BY <1>1, FdsFacts DEF ReadEvent, LoopType, HandlerRuns, Fds
<1> QED
  BY <1>2, <1>3 DEF RecordType, OpenConns, LoopType

LEMMA ReadDataKeeps ==
  ASSUME IInv, NEW c \in Conn, ReadData(c)
  PROVE  IInv'
<1> USE DEF IInv, ServerInv, ServerType
<1>1. ReadEvent(c) /\ sock[c].data
  BY DEF ReadData
<1>2. /\ c \in OpenConns /\ tcp[c] \in TcpSession /\ sock[c] \in Socket
      /\ sock[c].st = "open"
      /\ clock \in 0..MaxClock
      /\ LoopType' /\ HandlerRuns'
  BY <1>1, ReadEventFacts
<1>3. PICK n \in 0..MaxResponse, closing \in BOOLEAN :
        tcp' = [tcp EXCEPT ![c] =
                  IF closing
                  THEN AppShutdown(IF n = 0 THEN tcp[c] ELSE Send(tcp[c], n))
                  ELSE IF n = 0 THEN tcp[c] ELSE Send(tcp[c], n)]
  BY DEF ReadData
<1> DEFINE a == IF n = 0 THEN tcp[c] ELSE Send(tcp[c], n)
           t == IF closing THEN AppShutdown(a) ELSE a
           k == [sock[c] EXCEPT !.data = FALSE]
<1>4. /\ a \in TcpSession /\ a.fd = tcp[c].fd
      /\ a.len = IF n = 0 THEN tcp[c].len ELSE n
      /\ a.off = tcp[c].off
      /\ a.want_write = IF n = 0 THEN tcp[c].want_write ELSE TRUE
  BY <1>2 DEF TcpSession, Send
<1> HIDE DEF a
<1>5. /\ t \in TcpSession /\ t.fd = a.fd /\ t.len = a.len /\ t.off = a.off
      /\ t.want_write = a.want_write
  <2>1. Shutdown(a) \in TcpSession
    BY <1>4 DEF TcpSession, Shutdown
  <2>2. /\ Shutdown(a).fd = a.fd /\ Shutdown(a).len = a.len
        /\ Shutdown(a).off = a.off /\ Shutdown(a).want_write = a.want_write
    BY <1>4 DEF TcpSession, Shutdown
  <2> DEFINE b == Shutdown(a)
  <2> HIDE DEF b
  <2>3. b \in TcpSession /\ b.fd = a.fd /\ b.len = a.len /\ b.off = a.off
        /\ b.want_write = a.want_write
    BY <2>1, <2>2 DEF b
  <2>4. AppShutdown(a) = [b EXCEPT !.app_closing = TRUE]
    BY DEF AppShutdown, b
  <2>5. /\ AppShutdown(a) \in TcpSession /\ AppShutdown(a).fd = a.fd
        /\ AppShutdown(a).len = a.len /\ AppShutdown(a).off = a.off
        /\ AppShutdown(a).want_write = a.want_write
    BY <2>3, <2>4 DEF TcpSession
  <2> QED
    BY <1>4, <2>5
<1>6. tcp' = [tcp EXCEPT ![c] = t]
  BY <1>3 DEF a
<1> HIDE DEF t
<1>7. "pipelining" \notin Conditions => CursorOk(t)
  <2> SUFFICES ASSUME "pipelining" \notin Conditions PROVE CursorOk(t)
    OBVIOUS
  <2>1. CursorOk(tcp[c]) /\ tcp[c].len = 0 /\ tcp[c].off = 0
    BY <1>1, <1>2 DEF CursorInv, CursorOk
  <2> QED
    BY <1>4, <1>5, <2>1 DEF CursorOk
<1>8. k \in Socket /\ k.st = "open" /\ k.data = FALSE /\ sock' = [sock EXCEPT ![c] = k]
  <2>1. sock' = [sock EXCEPT ![c] = k]
    BY <1>2 DEF ReadData, RecordType
  <2> QED
    BY <1>2, <2>1 DEF Socket
<1> HIDE DEF k
<1>9. leaked' \in SUBSET Fds /\ ("leak" \notin Conditions => leaked' = leaked)
  <2>1. FreeFds # {} => LowestFree \in Fds
    BY LowestFreeIsFree DEF FreeFds
  <2> QED
    BY <2>1 DEF ReadData, RecordType
<1>10. ResetIdleTout(c) /\ UNCHANGED <<selector, sessions>>
  BY <1>1 DEF ReadEvent
<1>11. ServerInv'
  <2> HIDE DEF IInv, ServerInv
  <2>1. ServerInv
    BY DEF IInv
  <2>2. t.fd = tcp[c].fd
    BY <1>4, <1>5
  <2> QED
    BY <1>2, <1>5, <1>6, <1>7, <1>8, <1>9, <1>10, <2>1, <2>2, SessionKeeps
<1> QED
  BY <1>2, <1>11

\* A failed read or write: the session is marked for closing.
LEMMA ShutdownFacts ==
  ASSUME NEW t \in TcpSession
  PROVE  /\ Shutdown(t) \in TcpSession /\ Shutdown(t).fd = t.fd
         /\ Shutdown(t).len = t.len
         /\ CursorOk(t) => CursorOk(Shutdown(t))
BY DEF TcpSession, Shutdown, CursorOk

LEMMA ResetFacts ==
  ASSUME NEW k \in Socket
  PROVE  LET r == [k EXCEPT !.rst = "done"]
         IN  r \in Socket /\ r.st = k.st /\ r.data = k.data
BY DEF Socket

LEMMA ReadFailsKeeps ==
  ASSUME IInv, NEW c \in Conn, ReadFails(c)
  PROVE  IInv'
<1> DEFINE t == Shutdown(tcp[c])
<1>1. /\ c \in OpenConns /\ tcp[c] \in TcpSession /\ sock[c] \in Socket
      /\ sock[c].st = "open"
      /\ clock \in 0..MaxClock
      /\ LoopType' /\ HandlerRuns'
  BY ReadEventFacts DEF ReadFails
<1>2. tcp' = [tcp EXCEPT ![c] = t] /\ tcp \in [Conn -> TcpSession]
      /\ sock \in [Conn -> Socket] /\ leaked \in SUBSET Fds
  BY DEF ReadFails, IInv, ServerInv, ServerType, RecordType
<1>3. PICK k \in {sock[c], [sock[c] EXCEPT !.rst = "done"]} :
        sock' = [sock EXCEPT ![c] = k]
  BY <1>2 DEF ReadFails
<1>4. k \in Socket /\ k.st = "open" /\ k.data = sock[c].data
  BY <1>1, ResetFacts
<1>5. /\ t \in TcpSession /\ t.fd = tcp[c].fd /\ t.len = tcp[c].len
      /\ CursorOk(tcp[c]) => CursorOk(t)
  BY <1>1, ShutdownFacts
<1> HIDE DEF t
<1>6. "pipelining" \notin Conditions => CursorOk(t) /\ (k.data => t.len = 0)
  BY <1>1, <1>4, <1>5 DEF IInv, ServerInv, CursorInv
<1>7. ResetIdleTout(c) /\ UNCHANGED <<selector, sessions, leaked>>
  BY DEF ReadFails, ReadEvent
<1>8. ServerInv'
  BY <1>1, <1>2, <1>3, <1>4, <1>5, <1>6, <1>7, SessionKeeps DEF IInv
<1> QED
  BY <1>1, <1>8 DEF IInv

LEMMA WriteEventFacts ==
  ASSUME IInv, NEW c \in Conn, WriteEvent(c)
  PROVE  /\ c \in OpenConns /\ tcp[c] \in TcpSession /\ sock[c] \in Socket
         /\ sock[c].st = "open"
         /\ clock \in 0..MaxClock
         /\ pc' \in {"close", "dead"} => LoopType' /\ HandlerRuns'
<1> USE DEF IInv, ServerInv, ServerType
<1>1. scan \in Fds /\ fdhandlers[scan] = c
  BY DEF WriteEvent, HandlerRuns
<1>2. c \in OpenConns
  BY <1>1, HandlerIsOpen
<1>3. pc' \in {"close", "dead"} => LoopType' /\ HandlerRuns'
  BY <1>1 DEF WriteEvent, LoopType, HandlerRuns
<1> QED
  BY <1>2, <1>3 DEF RecordType, OpenConns, LoopType

\* The four outcomes of write().
LEMMA WriteKeeps ==
  ASSUME IInv, NEW c \in Conn,
         FlushAll(c) \/ FlushPartly(c) \/ FlushFails(c) \/ KilledByPipe(c)
  PROVE  IInv'
<1>1. /\ WriteEvent(c)
      /\ UNCHANGED <<timeouts, due, selector, sessions, leaked>>
      /\ pc' \in {"close", "dead"}
  BY DEF FlushAll, FlushPartly, FlushFails, KilledByPipe, WriteEvent
<1>2. /\ c \in OpenConns /\ tcp[c] \in TcpSession /\ sock[c] \in Socket
      /\ sock[c].st = "open"
      /\ clock \in 0..MaxClock
      /\ LoopType' /\ HandlerRuns'
  BY <1>1, WriteEventFacts
<1>3. /\ tcp \in [Conn -> TcpSession] /\ sock \in [Conn -> Socket]
      /\ leaked \in SUBSET Fds /\ ServerInv
  BY DEF IInv, ServerInv, ServerType, RecordType
<1>4. "pipelining" \notin Conditions =>
        CursorOk(tcp[c]) /\ (sock[c].data => tcp[c].len = 0)
  BY <1>2, <1>3 DEF ServerInv, CursorInv
<1>5. CASE FlushAll(c)
  <2> DEFINE t == [tcp[c] EXCEPT !.len = 0, !.off = 0, !.want_write = FALSE]
  <2>1. tcp' = [tcp EXCEPT ![c] = t] /\ sock' = [sock EXCEPT ![c] = sock[c]]
    BY <1>3, <1>5 DEF FlushAll
  <2>2. 0 \in 0..MaxResponse
    BY FdsFacts
  <2>3. t \in TcpSession /\ t.fd = tcp[c].fd /\ CursorOk(t) /\ t.len = 0
    <3> DEFINE a == [tcp[c] EXCEPT !.len = 0]
               b == [a EXCEPT !.off = 0]
    <3>1. a \in TcpSession /\ a.fd = tcp[c].fd /\ a.len = 0
      BY <1>2, <2>2 DEF TcpSession
    <3> HIDE DEF a
    <3>2. b \in TcpSession /\ b.fd = a.fd /\ b.len = a.len /\ b.off = 0
      BY <2>2, <3>1 DEF TcpSession
    <3>3. t = [b EXCEPT !.want_write = FALSE]
      BY DEF a
    <3> HIDE DEF b, t
    <3>4. /\ t \in TcpSession /\ t.fd = b.fd /\ t.len = b.len /\ t.off = b.off
          /\ t.want_write = FALSE
      BY <3>2, <3>3 DEF TcpSession
    <3> QED
      BY <3>1, <3>2, <3>4 DEF CursorOk
  <2> HIDE DEF t
  <2>4. ServerInv'
    BY <1>1, <1>2, <1>3, <2>1, <2>3, SessionKeeps
  <2> QED
    BY <1>2, <2>4 DEF IInv
<1>6. CASE FlushPartly(c)
  <2>1. PICK n \in 1..(Unsent(tcp[c]) - 1) :
          tcp' = [tcp EXCEPT ![c].off = @ + n]
    BY <1>6 DEF FlushPartly
  <2> DEFINE t == [tcp[c] EXCEPT !.off = tcp[c].off + n]
  <2>2. tcp' = [tcp EXCEPT ![c] = t] /\ sock' = [sock EXCEPT ![c] = sock[c]]
    BY <1>2, <1>3, <1>6, <2>1 DEF FlushPartly
  <2>3. /\ tcp[c].len \in 0..MaxResponse /\ tcp[c].off \in 0..MaxResponse
        /\ tcp[c].off + n \in 0..MaxResponse /\ tcp[c].off + n < tcp[c].len
    BY <1>2, FdsFacts DEF TcpSession, Unsent
  <2>4. t \in TcpSession /\ t.fd = tcp[c].fd /\ t.len = tcp[c].len
        /\ t.off = tcp[c].off + n /\ t.want_write = tcp[c].want_write
    BY <1>2, <2>3 DEF TcpSession
  <2> HIDE DEF t
  <2>5. "pipelining" \notin Conditions => CursorOk(t) /\ (sock[c].data => t.len = 0)
    BY <1>4, <2>3, <2>4 DEF CursorOk
  <2>6. ServerInv'
    BY <1>1, <1>2, <1>3, <2>2, <2>4, <2>5, SessionKeeps
  <2> QED
    BY <1>2, <2>6 DEF IInv
<1>7. CASE FlushFails(c)
  <2> DEFINE t == Shutdown(tcp[c])
  <2>1. tcp' = [tcp EXCEPT ![c] = t]
    BY <1>7 DEF FlushFails
  <2>2. PICK k \in {sock[c], [sock[c] EXCEPT !.rst = "done"]} :
          sock' = [sock EXCEPT ![c] = k]
    BY <1>3, <1>7 DEF FlushFails
  <2>3. k \in Socket /\ k.st = "open" /\ k.data = sock[c].data
    BY <1>2, ResetFacts
  <2>4. /\ t \in TcpSession /\ t.fd = tcp[c].fd /\ t.len = tcp[c].len
        /\ CursorOk(tcp[c]) => CursorOk(t)
    BY <1>2, ShutdownFacts
  <2> HIDE DEF t
  <2>5. ServerInv'
    BY <1>1, <1>2, <1>3, <1>4, <2>1, <2>2, <2>3, <2>4, SessionKeeps
  <2> QED
    BY <1>2, <2>5 DEF IInv
<1>8. CASE KilledByPipe(c)
  <2>1. UNCHANGED <<server, sock>>
    BY <1>1, <1>8 DEF KilledByPipe, server
  <2> QED
    BY <1>2, <1>3, <2>1, ServerUnchanged DEF IInv
<1> QED
  BY <1>5, <1>6, <1>7, <1>8

LEMMA CloseActionsKeep ==
  ASSUME IInv, TimeoutFires \/ \E c \in Conn : HandlerCloses(c)
  PROVE  IInv'
<1> USE DEF IInv, ServerInv, ServerType
<1>1. CASE TimeoutFires
  <2> DEFINE c == Head(timeouts)
             list == Tail(timeouts)
  <2>1. timeouts \in Seq(Conn) /\ timeouts # <<>> /\ Distinct(timeouts)
        /\ Descending(timeouts, due) /\ Range(timeouts) = OpenConns
    BY <1>1 DEF TimeoutFires, ListType, ListsAgree, TimeoutsSorted
  <2>2. /\ c \in Range(timeouts)
        /\ list \in Seq(Conn)
        /\ Range(list) = Range(timeouts) \ {c}
        /\ Distinct(list)
        /\ Descending(list, due)
    BY <2>1, TailCorrect
  <2>3. CloseTcpSession(c, list) /\ UNCHANGED <<clock, loop>>
    BY <1>1 DEF TimeoutFires
  <2> HIDE DEF c, list, IInv, ServerInv
  <2>4. ServerInv'
    <3>1. Range(list) \ {c} = Range(timeouts) \ {c} /\ c \in OpenConns /\ ServerInv
      BY <2>1, <2>2 DEF IInv
    <3> QED
      BY <2>2, <2>3, <3>1, CloseKeeps
  <2>5. LoopType' /\ HandlerRuns'
    BY <2>3 DEF IInv, LoopType, HandlerRuns, loop
  <2> QED
    BY <2>4, <2>5 DEF IInv
<1>2. CASE \E c \in Conn : HandlerCloses(c)
  <2>1. PICK c \in Conn : HandlerCloses(c)
    BY <1>2
  <2>2. scan \in Fds /\ fdhandlers[scan] = c /\ CloseTcpSession(c, timeouts)
    BY <2>1 DEF HandlerCloses, HandlerRuns
  <2>3. c \in OpenConns
    BY <2>2, HandlerIsOpen
  <2>4. LoopType' /\ HandlerRuns'
    BY <2>1, <2>2, FdsFacts DEF HandlerCloses, LoopType, HandlerRuns, Fds
  <2>5. timeouts \in Seq(Conn) /\ Distinct(timeouts) /\ Descending(timeouts, due)
    BY DEF ListType, ListsAgree, TimeoutsSorted
  <2> HIDE DEF IInv, ServerInv
  <2>6. ServerInv'
    BY <2>2, <2>3, <2>5, CloseKeeps DEF IInv
  <2> QED
    BY <2>4, <2>6 DEF IInv
<1> QED
  BY <1>1, <1>2

\* The steps that move the loop on and leave the sessions alone.
LEMMA LoopKeeps ==
  ASSUME IInv,
         \/ Select \/ TimeoutsDone \/ EventsDone \/ AcceptFails
         \/ \E c \in Conn : NoReadEvent(c) \/ NoWriteEvent(c) \/ HandlerReturns(c)
         \/ Tick \/ ClockSetBack
  PROVE  IInv'
<1>1. UNCHANGED <<server, sock>>
  BY DEF Select, TimeoutsDone, EventsDone, AcceptFails, ListenEvent, NoReadEvent,
         NoWriteEvent, HandlerReturns, Tick, ClockSetBack, server
<1>2. ServerInv'
  BY <1>1, ServerUnchanged DEF IInv
<1> USE FdsFacts DEF IInv, ServerInv, ServerType, LoopType, HandlerRuns
<1>3. LoopType' /\ HandlerRuns'
  <2>1. CASE Select
    <3>1. ReadReady \subseteq Fds /\ WriteReady \subseteq Fds
      BY DEF ReadReady, WriteReady, TableType, Fds
    <3> QED
      BY <2>1, <3>1 DEF Select
  <2>2. CASE TimeoutsDone
    BY <2>2 DEF TimeoutsDone
  <2>3. CASE EventsDone
    BY <2>3 DEF EventsDone
  <2>4. CASE AcceptFails
    BY <2>4 DEF AcceptFails, ListenEvent, Fds
  <2>5. ASSUME NEW c \in Conn, NoReadEvent(c) PROVE LoopType' /\ HandlerRuns'
    <3>1. tcp[c].fd \in Fds
      BY <2>5, NextIsFd DEF NoReadEvent
    <3> QED
      BY <2>5, <3>1 DEF NoReadEvent, Fds
  <2>6. ASSUME NEW c \in Conn, NoWriteEvent(c) PROVE LoopType' /\ HandlerRuns'
    BY <2>6 DEF NoWriteEvent
  <2>7. ASSUME NEW c \in Conn, HandlerReturns(c) PROVE LoopType' /\ HandlerRuns'
    BY <2>7 DEF HandlerReturns, Fds
  <2>8. CASE Tick
    BY <2>8 DEF Tick, loop
  <2>9. CASE ClockSetBack
    BY <2>9 DEF ClockSetBack, loop
  <2> QED
    BY <2>1, <2>2, <2>3, <2>4, <2>5, <2>6, <2>7, <2>8, <2>9
<1> QED
  BY <1>2, <1>3

\* What the clients and the other workers do to the socket.
LEMMA ClientEffect ==
  ASSUME sock \in [Conn -> Socket], NEW c \in Conn, ClientNext(c)
  PROVE  \E k \in Socket :
           /\ ClientStep(c, k)
           /\ k.st = "open" <=> sock[c].st = "open"
           /\ (k.st = "gone" <=> sock[c].st = "gone")
              \/ (k.st = "gone" /\ sock[c].st = "queued")
           /\ k.data => \/ sock[c].data
                        \/ /\ ~sock[c].fin /\ sock[c].rst = "no"
                           /\ "pipelining" \in Conditions \/ tcp[c].len = 0
           /\ sock[c].st = "open" =>
                /\ sock[c].fin => k.fin
                /\ sock[c].rst # "no" => k.rst # "no"
<1>0. sock[c] \in Socket /\ NewSocket \in Socket
  BY RecordFacts
<1>1. CASE Connect(c)
  <2> DEFINE k == [sock[c] EXCEPT !.st = "queued"]
  <2>1. k \in Socket /\ k.st = "queued" /\ k.data = sock[c].data
        /\ k.fin = sock[c].fin /\ k.rst = sock[c].rst
    BY <1>0 DEF Socket
  <2> QED
    BY <1>1, <2>1 DEF Connect
<1>2. CASE Stolen(c)
  <2> DEFINE k == [NewSocket EXCEPT !.st = "gone"]
  <2>1. k \in Socket /\ k.st = "gone" /\ k.data = NewSocket.data
    BY <1>0 DEF Socket
  <2> QED
    BY <1>2, <2>1 DEF Stolen, NewSocket
<1>3. CASE ClientSends(c)
  <2> DEFINE k == [sock[c] EXCEPT !.data = TRUE]
  <2>1. /\ k \in Socket /\ k.st = sock[c].st
        /\ k.fin = sock[c].fin /\ k.rst = sock[c].rst
    BY <1>0 DEF Socket
  <2> QED
    BY <1>3, <2>1 DEF ClientSends
<1>4. CASE ClientFinishes(c)
  <2> DEFINE k == [sock[c] EXCEPT !.fin = TRUE]
  <2>1. /\ k \in Socket /\ k.st = sock[c].st /\ k.data = sock[c].data
        /\ k.fin /\ k.rst = sock[c].rst
    BY <1>0 DEF Socket
  <2> QED
    BY <1>4, <2>1 DEF ClientFinishes
<1>5. CASE ClientResets(c)
  <2> DEFINE k == [sock[c] EXCEPT !.rst = "pending"]
  <2>1. /\ k \in Socket /\ k.st = sock[c].st /\ k.data = sock[c].data
        /\ k.fin = sock[c].fin /\ k.rst = "pending"
    BY <1>0 DEF Socket
  <2> QED
    BY <1>5, <2>1 DEF ClientResets
<1>6. CASE ClientStalls(c)
  <2> DEFINE k == [sock[c] EXCEPT !.peer = "stalled"]
  <2>1. /\ k \in Socket /\ k.st = sock[c].st /\ k.data = sock[c].data
        /\ k.fin = sock[c].fin /\ k.rst = sock[c].rst
    BY <1>0 DEF Socket
  <2> QED
    BY <1>6, <2>1 DEF ClientStalls
<1>7. CASE ClientResumes(c)
  <2> DEFINE k == [sock[c] EXCEPT !.peer = "resumed"]
  <2>1. /\ k \in Socket /\ k.st = sock[c].st /\ k.data = sock[c].data
        /\ k.fin = sock[c].fin /\ k.rst = sock[c].rst
    BY <1>0 DEF Socket
  <2> QED
    BY <1>7, <2>1 DEF ClientResumes
<1> QED
  BY <1>1, <1>2, <1>3, <1>4, <1>5, <1>6, <1>7 DEF ClientNext

\* What the clients and the other workers do.
LEMMA ClientsKeep ==
  ASSUME IInv, NEW c \in Conn, ClientNext(c)
  PROVE  IInv'
<1>1. ServerInv /\ sock \in [Conn -> Socket]
  BY DEF IInv, ServerInv, ServerType, RecordType
<1>2. PICK k \in Socket :
        /\ ClientStep(c, k)
        /\ k.st = "open" <=> sock[c].st = "open"
        /\ k.data => sock[c].data \/ "pipelining" \in Conditions \/ tcp[c].len = 0
  BY <1>1, ClientEffect
<1>5. /\ UNCHANGED <<timeouts, due, selector, sessions, tcp>> /\ leaked' = leaked
      /\ leaked' \in SUBSET Fds
  BY <1>1, <1>2 DEF ClientStep, server, ServerInv, ServerType, RecordType
<1>3. ServerInv'
  BY <1>1, <1>2, <1>5, SocketKeeps DEF ClientStep
<1>4. LoopType' /\ HandlerRuns'
  BY <1>2 DEF ClientStep, loop, IInv, LoopType, HandlerRuns
<1> QED
  BY <1>3, <1>4 DEF IInv

LEMMA DeclineKeeps ==
  ASSUME IInv, NEW c \in Conn, Decline(c)
  PROVE  IInv'
<1> DEFINE k == [NewSocket EXCEPT !.st = "gone"]
<1>1. /\ ServerInv /\ sock[c].st = "queued"
      /\ sock' = [sock EXCEPT ![c] = k]
      /\ UNCHANGED <<timeouts, due, selector, sessions, tcp>>
  BY DEF Decline, Queued, IInv
<1>5. leaked' \in SUBSET Fds /\ ("leak" \notin Conditions => leaked' = leaked)
  <2>1. LowestFree \in Fds
    BY LowestFreeIsFree DEF Decline, FreeFds
  <2> QED BY <1>1, <2>1 DEF Decline, ServerInv, ServerType, RecordType
<1>2. k \in Socket /\ k.st = "gone" /\ ~k.data
  BY RecordFacts DEF NewSocket
<1> HIDE DEF k
<1>3. ServerInv'
  BY <1>1, <1>2, <1>5, SocketKeeps
<1>4. LoopType' /\ HandlerRuns'
  BY FdsFacts DEF Decline, ListenEvent, IInv, LoopType, HandlerRuns, Fds
<1> QED
  BY <1>3, <1>4 DEF IInv

-----------------------------------------------------------------------------
(* The theorems *)

\* IInv is inductive.
LEMMA NextKeepsIInv == IInv /\ [Next]_vars => IInv'
<1> SUFFICES ASSUME IInv, [Next]_vars PROVE IInv'
  OBVIOUS
<1>1. CASE UNCHANGED vars
  <2>1. ServerInv'
    BY <1>1, ServerUnchanged DEF vars, IInv
  <2> QED
    BY <1>1, <2>1 DEF vars, loop, IInv, LoopType, HandlerRuns
<1>2. CASE Select \/ TimeoutsDone \/ EventsDone \/ AcceptFails
  BY <1>2, LoopKeeps
<1>3. CASE TimeoutFires
  BY <1>3, CloseActionsKeep
<1>4. ASSUME NEW c \in Conn, SessionStep(c) PROVE IInv'
  <2>1. CASE Accept(c)
    <3>1. ServerInv'
      BY <2>1, AcceptKeeps DEF IInv, LoopType
    <3>2. LoopType' /\ HandlerRuns'
      BY <2>1, FdsFacts DEF Accept, ListenEvent, IInv, LoopType, HandlerRuns, Fds
    <3> QED
      BY <3>1, <3>2 DEF IInv
  <2>2. CASE Decline(c)
    BY <2>2, DeclineKeeps
  <2>3. CASE ReadData(c) \/ ReadFails(c)
    BY <2>3, ReadDataKeeps, ReadFailsKeeps
  <2>4. CASE FlushAll(c) \/ FlushPartly(c) \/ FlushFails(c) \/ KilledByPipe(c)
    BY <2>4, WriteKeeps
  <2>5. CASE HandlerCloses(c)
    BY <2>5, CloseActionsKeep
  <2>6. CASE NoReadEvent(c) \/ NoWriteEvent(c) \/ HandlerReturns(c)
    BY <2>6, LoopKeeps
  <2> QED
    BY <1>4, <2>1, <2>2, <2>3, <2>4, <2>5, <2>6 DEF SessionStep
<1>5. CASE Tick \/ ClockSetBack
  BY <1>5, LoopKeeps
<1>6. ASSUME NEW c \in Conn, ClientNext(c) PROVE IInv'
  BY <1>6, ClientsKeep
<1> QED
  BY <1>1, <1>2, <1>3, <1>4, <1>5, <1>6 DEF Next, ServerStep, Environment

\* The inductive invariant holds of every behaviour.
THEOREM Invariance == Spec => []IInv
BY InitIInv, NextKeepsIInv, PTL DEF Spec

\* Type correctness of the process.
THEOREM TypeCorrect == Spec => []TypeOK
BY Invariance, IInvImplies, PTL

\* The sessions array, the timeout list and the descriptor table hold the
\* same sessions after every sequence of accepts, timeouts and closes: no
\* search or assertion of CloseTcpSession and remove_fd_handler fails.
THEOREM RegistriesAlwaysAgree == Spec => []RegistriesAgree
BY Invariance, IInvImplies, PTL

\* The timeout list is sorted at every moment, whatever the time of day does.
THEOREM TimeoutsAlwaysSorted == Spec => []TimeoutsSorted
BY Invariance, IInvImplies, PTL

\* max_fd is never below a registered descriptor.
THEOREM HandlersAlwaysPolled == Spec => []HandlersPolled
BY Invariance, IInvImplies, PTL

\* As long as no handler leaks a descriptor, growing the table by one step
\* is enough, however many connections come and go.
THEOREM TableHasRoom ==
  ASSUME "leak" \notin Conditions, ListenFd < SizeStep
  PROVE  Spec => []HandlersInTable
<1>1. IInv => HandlersInTable
  BY DEF IInv, ServerInv, TableInv
<1> QED
  BY <1>1, Invariance, PTL

\* With clients that wait for the response, the write cursor stays inside
\* the buffer, and a session polls for writing exactly while it has output.
THEOREM WriteCursorSound ==
  ASSUME "pipelining" \notin Conditions
  PROVE  Spec => []WriteCursor
<1>1. IInv => WriteCursor
  BY DEF IInv, ServerInv, CursorInv, CursorOk, WriteCursor
<1> QED
  BY <1>1, Invariance, PTL

\* With such clients, a response that is queued is written out or goes with
\* its connection: no step replaces or drops it.
THEOREM ResponsesKept ==
  ASSUME "pipelining" \notin Conditions
  PROVE  Spec => NoResponseLost
<1> DEFINE Kept(c) == tcp[c].len > 0 =>
                        \/ tcp'[c].len = tcp[c].len
                        \/ tcp'[c].len = 0 /\ (pc = "onwrite" \/ sock'[c].st = "gone")
<1>1. ASSUME IInv, [Next]_vars, NEW c \in Conn PROVE Kept(c)
  <2>1. /\ tcp \in [Conn -> TcpSession] /\ sock \in [Conn -> Socket]
        /\ OpenConns \subseteq Conn
    BY <1>1 DEF IInv, ServerInv, ServerType, RecordType, OpenConns
  <2>2. ASSUME NEW h \in Conn, NEW list, CloseTcpSession(h, list) PROVE Kept(c)
    <3>1. tcp' = [tcp EXCEPT ![h] = NoSession]
          /\ sock' = [sock EXCEPT ![h] = [NewSocket EXCEPT !.st = "gone"]]
      BY <2>2 DEF CloseTcpSession
    <3>2. [NewSocket EXCEPT !.st = "gone"].st = "gone" /\ NoSession.len = 0
      BY DEF NewSocket, NoSession
    <3> QED
      BY <2>1, <3>1, <3>2
  <2>3. CASE TimeoutFires
    <3>1. Head(timeouts) \in Conn
      <4>1. timeouts \in Seq(Conn) /\ timeouts # <<>>
        BY <1>1, <2>3 DEF TimeoutFires, IInv, ServerInv, ServerType, ListType
      <4> QED
        BY <4>1, HeadTailProperties
    <3> QED
      BY <2>2, <2>3, <3>1 DEF TimeoutFires
  <2>4. ASSUME NEW h \in Conn, SessionStep(h) PROVE Kept(c)
    <3>1. CASE Accept(h)
      <4>1. tcp[h].len = 0
        BY <1>1, <3>1 DEF Accept, Queued, IInv, ServerInv, CursorInv, OpenConns
      <4>2. \A d \in Conn \ {h} : tcp'[d] = tcp[d]
        BY <2>1, <3>1 DEF Accept
      <4> QED
        BY <4>1, <4>2
    <3>2. CASE ReadData(h)
      <4>1. h \in OpenConns /\ sock[h].data
        BY <1>1, <3>2, ReadEventFacts DEF ReadData
      <4>2. tcp[h].len = 0
        BY <1>1, <4>1 DEF IInv, ServerInv, CursorInv
      <4>3. \A d \in Conn \ {h} : tcp'[d] = tcp[d]
        BY <2>1, <3>2 DEF ReadData
      <4> QED
        BY <4>2, <4>3
    <3>3. CASE ReadFails(h) \/ FlushFails(h)
      <4>1. tcp' = [tcp EXCEPT ![h] = Shutdown(tcp[h])]
        BY <2>1, <3>3 DEF ReadFails, FlushFails
      <4>2. Shutdown(tcp[h]).len = tcp[h].len
        BY <2>1, ShutdownFacts
      <4> QED
        BY <2>1, <4>1, <4>2
    <3>4. CASE FlushAll(h)
      <4>1. pc = "onwrite"
        BY <3>4 DEF FlushAll, WriteEvent
      <4>2. tcp'[h].len = 0 /\ \A d \in Conn \ {h} : tcp'[d] = tcp[d]
        BY <2>1, <3>4 DEF FlushAll, TcpSession
      <4> QED
        BY <4>1, <4>2
    <3>5. CASE FlushPartly(h)
      <4>1. tcp'[h].len = tcp[h].len /\ \A d \in Conn \ {h} : tcp'[d] = tcp[d]
        BY <2>1, <3>5 DEF FlushPartly, TcpSession
      <4> QED
        BY <4>1
    <3>6. CASE HandlerCloses(h)
      BY <2>2, <3>6 DEF HandlerCloses
    <3>7. CASE \/ Decline(h) \/ KilledByPipe(h) \/ NoReadEvent(h)
               \/ NoWriteEvent(h) \/ HandlerReturns(h)
      BY <3>7 DEF Decline, KilledByPipe, NoReadEvent, NoWriteEvent,
                  HandlerReturns, server
    <3> QED
      BY <2>4, <3>1, <3>2, <3>3, <3>4, <3>5, <3>6, <3>7 DEF SessionStep
  <2>5. CASE UNCHANGED tcp
    BY <2>5
  <2>6. CASE Select \/ TimeoutsDone \/ EventsDone \/ AcceptFails
    BY <2>5, <2>6 DEF Select, TimeoutsDone, EventsDone, AcceptFails, server
  <2>7. CASE Environment
    BY <2>5, <2>7 DEF Environment, Tick, ClockSetBack, ClientNext, Connect, Stolen,
         ClientSends, ClientFinishes, ClientResets, ClientStalls, ClientResumes,
         ClientStep, server
  <2>8. CASE UNCHANGED vars
    BY <2>5, <2>8 DEF vars, server
  <2> QED
    BY <1>1, <2>3, <2>4, <2>6, <2>7, <2>8 DEF Next, ServerStep
<1>2. ASSUME IInv, [Next]_vars PROVE [\A c \in Conn : Kept(c)]_vars
  BY <1>1, <1>2
<1>3. IInv /\ [Next]_vars => [\A c \in Conn : Kept(c)]_vars
  BY <1>2
<1> QED
  BY <1>3, Invariance, PTL DEF Spec, NoResponseLost

-----------------------------------------------------------------------------
(* What the handlers do to the record of their session *)

LEMMA ShutdownEffect ==
  ASSUME NEW t \in TcpSession
  PROVE  /\ Shutdown(t) \in TcpSession
         /\ Shutdown(t).fd = t.fd /\ Shutdown(t).len = t.len
         /\ Shutdown(t).want_to_close
         /\ Shutdown(t).app_closing = t.app_closing
         /\ AppShutdown(t) \in TcpSession
         /\ AppShutdown(t).fd = t.fd /\ AppShutdown(t).len = t.len
         /\ AppShutdown(t).want_to_close /\ AppShutdown(t).app_closing
<1> DEFINE s == Shutdown(t)
<1>1. /\ s \in TcpSession /\ s.fd = t.fd /\ s.len = t.len
      /\ s.want_to_close /\ s.app_closing = t.app_closing
  BY DEF Shutdown, TcpSession
<1> HIDE DEF s
<1>2. /\ [s EXCEPT !.app_closing = TRUE] \in TcpSession
      /\ [s EXCEPT !.app_closing = TRUE].fd = s.fd
      /\ [s EXCEPT !.app_closing = TRUE].len = s.len
      /\ [s EXCEPT !.app_closing = TRUE].want_to_close = s.want_to_close
      /\ [s EXCEPT !.app_closing = TRUE].app_closing
  BY <1>1 DEF TcpSession
<1> QED
  BY <1>1, <1>2 DEF AppShutdown, s

LEMMA SendEffect ==
  ASSUME NEW t \in TcpSession, NEW n \in 0..MaxResponse
  PROVE  /\ Send(t, n) \in TcpSession
         /\ Send(t, n).fd = t.fd /\ Send(t, n).len = n
         /\ Send(t, n).want_to_close = t.want_to_close
         /\ Send(t, n).app_closing = t.app_closing
BY DEF Send, TcpSession

\* The application layer may have answered and may have called Shutdown.
LEMMA ReadDataEffect ==
  ASSUME IInv, NEW c \in Conn, ReadData(c)
  PROVE  \E n \in 0..MaxResponse, t \in TcpSession :
           /\ tcp' = [tcp EXCEPT ![c] = t]
           /\ t.fd = tcp[c].fd
           /\ t.len = IF n = 0 THEN tcp[c].len ELSE n
           /\ tcp[c].app_closing => n = 0
           /\ \/ /\ t.want_to_close = tcp[c].want_to_close
                 /\ t.app_closing = tcp[c].app_closing
              \/ t.want_to_close /\ t.app_closing
<1>1. PICK n \in 0..MaxResponse, closing \in BOOLEAN :
        /\ tcp[c].app_closing => n = 0
        /\ tcp' = [tcp EXCEPT ![c] =
                     IF closing
                     THEN AppShutdown(IF n = 0 THEN tcp[c] ELSE Send(tcp[c], n))
                     ELSE IF n = 0 THEN tcp[c] ELSE Send(tcp[c], n)]
  BY DEF ReadData
<1> DEFINE a == IF n = 0 THEN tcp[c] ELSE Send(tcp[c], n)
           t == IF closing THEN AppShutdown(a) ELSE a
<1>2. tcp[c] \in TcpSession
  BY DEF IInv, ServerInv, ServerType, RecordType
<1>3. /\ a \in TcpSession /\ a.fd = tcp[c].fd
      /\ a.len = IF n = 0 THEN tcp[c].len ELSE n
      /\ a.want_to_close = tcp[c].want_to_close
      /\ a.app_closing = tcp[c].app_closing
  BY <1>2, SendEffect
<1>4. tcp' = [tcp EXCEPT ![c] = t]
  BY <1>1
<1> HIDE DEF a
<1>5. /\ t \in TcpSession /\ t.fd = a.fd /\ t.len = a.len
      /\ \/ t.want_to_close = a.want_to_close /\ t.app_closing = a.app_closing
         \/ t.want_to_close /\ t.app_closing
  BY <1>3, ShutdownEffect
<1> HIDE DEF t
<1> QED
  BY <1>1, <1>3, <1>4, <1>5

\* write() takes all, or a part, or fails.
LEMMA WriteEffect ==
  ASSUME IInv, NEW c \in Conn, FlushAll(c) \/ FlushPartly(c) \/ FlushFails(c)
  PROVE  \E t \in TcpSession :
           /\ tcp' = [tcp EXCEPT ![c] = t]
           /\ t.fd = tcp[c].fd
           /\ t.app_closing = tcp[c].app_closing
           /\ \/ /\ FlushAll(c)
                 /\ t.len = 0 /\ t.want_to_close = tcp[c].want_to_close
              \/ /\ FlushPartly(c)
                 /\ t.len = tcp[c].len /\ t.want_to_close = tcp[c].want_to_close
              \/ FlushFails(c) /\ t = Shutdown(tcp[c])
<1>1. tcp[c] \in TcpSession /\ tcp \in [Conn -> TcpSession] /\ 0 \in 0..MaxResponse
  BY FdsFacts DEF IInv, ServerInv, ServerType, RecordType
<1>3. CASE FlushAll(c)
  <2> DEFINE t == [tcp[c] EXCEPT !.len = 0, !.off = 0, !.want_write = FALSE]
  <2>1. /\ t \in TcpSession /\ t.fd = tcp[c].fd /\ t.app_closing = tcp[c].app_closing
        /\ t.len = 0 /\ t.want_to_close = tcp[c].want_to_close
    BY <1>1 DEF TcpSession
  <2>2. tcp' = [tcp EXCEPT ![c] = t]
    BY <1>3 DEF FlushAll
  <2> HIDE DEF t
  <2> QED
    BY <1>3, <2>1, <2>2
<1>4. CASE FlushPartly(c)
  <2>1. PICK n \in 1..(Unsent(tcp[c]) - 1) :
          tcp' = [tcp EXCEPT ![c] = [tcp[c] EXCEPT !.off = tcp[c].off + n]]
    BY <1>1, <1>4 DEF FlushPartly
  <2> DEFINE t == [tcp[c] EXCEPT !.off = tcp[c].off + n]
  <2>2. tcp[c].off + n \in 0..MaxResponse
    BY <1>1, FdsFacts DEF TcpSession, Unsent
  <2>3. /\ t \in TcpSession /\ t.fd = tcp[c].fd /\ t.app_closing = tcp[c].app_closing
        /\ t.len = tcp[c].len /\ t.want_to_close = tcp[c].want_to_close
    BY <1>1, <2>2 DEF TcpSession
  <2>4. tcp' = [tcp EXCEPT ![c] = t]
    BY <2>1
  <2> HIDE DEF t
  <2> QED
    BY <1>4, <2>3, <2>4
<1>5. CASE FlushFails(c)
  <2>1. tcp' = [tcp EXCEPT ![c] = Shutdown(tcp[c])]
    BY <1>5 DEF FlushFails
  <2> QED
    BY <1>1, <1>5, <2>1, ShutdownEffect
<1> QED
  BY <1>3, <1>4, <1>5

-----------------------------------------------------------------------------
(* The sessions fit *)

\* accept() closes what lies above MAX_FD, so no session lives there.
BelowMaxFd == \A c \in OpenConns : tcp[c].fd <= MaxFd

\* A session that is open after a step was open on the same descriptor, or
\* was accepted by the step.
LEMMA OpenBefore ==
  ASSUME IInv, Next, NEW d \in Conn, d \in OpenConns'
  PROVE  Accept(d) \/ (d \in OpenConns /\ tcp'[d].fd = tcp[d].fd)
<1> USE DEF IInv, ServerInv, ServerType
<1>1. tcp \in [Conn -> TcpSession] /\ sock \in [Conn -> Socket]
  BY DEF RecordType
<1>2. CASE UNCHANGED <<tcp, sock>>
  BY <1>2 DEF OpenConns
<1>3. ASSUME NEW h \in Conn, NEW list, CloseTcpSession(h, list)
      PROVE  d \in OpenConns /\ tcp'[d].fd = tcp[d].fd
  <2>1. /\ tcp' = [tcp EXCEPT ![h] = NoSession]
        /\ sock' = [sock EXCEPT ![h] = [NewSocket EXCEPT !.st = "gone"]]
        /\ [NewSocket EXCEPT !.st = "gone"].st = "gone"
    BY <1>3 DEF CloseTcpSession, NewSocket
  <2>2. d # h
    BY <1>1, <2>1 DEF OpenConns
  <2> QED
    BY <1>1, <2>1, <2>2 DEF OpenConns
<1>4. ASSUME NEW h \in Conn, ClientNext(h)
      PROVE  d \in OpenConns /\ tcp'[d].fd = tcp[d].fd
  <2>1. PICK k : /\ ClientStep(h, k)
                 /\ k.st = "open" => sock[h].st = "open"
    BY <1>1, <1>4, ClientEffect
  <2>2. sock' = [sock EXCEPT ![h] = k] /\ UNCHANGED tcp
    BY <2>1 DEF ClientStep, server
  <2> QED
    BY <1>1, <2>1, <2>2 DEF OpenConns
<1>5. CASE TimeoutFires
  <2>1. Head(timeouts) \in Conn
    <3>1. timeouts \in Seq(Conn) /\ timeouts # <<>>
      BY <1>5 DEF TimeoutFires, ListType
    <3> QED
      BY <3>1, HeadTailProperties
  <2> QED
    BY <1>3, <1>5, <2>1 DEF TimeoutFires
<1>6. ASSUME NEW h \in Conn, SessionStep(h)
      PROVE  Accept(d) \/ (d \in OpenConns /\ tcp'[d].fd = tcp[d].fd)
  <2>1. CASE Accept(h)
    <3>1. \A c \in Conn \ {h} : tcp'[c] = tcp[c] /\ sock'[c] = sock[c]
      BY <1>1, <2>1 DEF Accept
    <3> QED
      BY <2>1, <3>1 DEF OpenConns
  <2>2. CASE Decline(h)
    <3>1. /\ sock' = [sock EXCEPT ![h] = [NewSocket EXCEPT !.st = "gone"]]
          /\ [NewSocket EXCEPT !.st = "gone"].st = "gone" /\ UNCHANGED tcp
      BY <2>2 DEF Decline, NewSocket
    <3> QED
      BY <1>1, <3>1 DEF OpenConns
  <2>3. ASSUME h \in OpenConns,
               NEW t, tcp' = [tcp EXCEPT ![h] = t], t.fd = tcp[h].fd,
               \A c \in Conn \ {h} : sock'[c] = sock[c]
        PROVE  d \in OpenConns /\ tcp'[d].fd = tcp[d].fd
    BY <1>1, <2>3 DEF OpenConns
  <2>4. CASE ReadData(h)
    <3>1. h \in OpenConns /\ \A c \in Conn \ {h} : sock'[c] = sock[c]
      BY <1>1, <2>4, ReadEventFacts DEF ReadData
    <3>2. PICK t : tcp' = [tcp EXCEPT ![h] = t] /\ t.fd = tcp[h].fd
      BY <2>4, ReadDataEffect
    <3> QED
      BY <2>3, <3>1, <3>2
  <2>5. CASE ReadFails(h)
    <3>1. h \in OpenConns /\ \A c \in Conn \ {h} : sock'[c] = sock[c]
      BY <1>1, <2>5, ReadEventFacts DEF ReadFails
    <3> QED
      BY <1>1, <2>3, <2>5, <3>1, ShutdownFacts DEF ReadFails
  <2>6. CASE FlushAll(h) \/ FlushPartly(h) \/ FlushFails(h)
    <3>1. h \in OpenConns /\ \A c \in Conn \ {h} : sock'[c] = sock[c]
      BY <1>1, <2>6, WriteEventFacts DEF FlushAll, FlushPartly, FlushFails
    <3>2. PICK t : tcp' = [tcp EXCEPT ![h] = t] /\ t.fd = tcp[h].fd
      BY <2>6, WriteEffect
    <3> QED
      BY <2>3, <3>1, <3>2
  <2>7. CASE HandlerCloses(h)
    BY <1>3, <2>7 DEF HandlerCloses
  <2>8. CASE \/ KilledByPipe(h) \/ NoReadEvent(h) \/ NoWriteEvent(h)
             \/ HandlerReturns(h)
    <3>1. UNCHANGED <<tcp, sock>>
      BY <2>8 DEF KilledByPipe, NoReadEvent, NoWriteEvent, HandlerReturns, server
    <3> QED
      BY <1>2, <3>1
  <2> QED
    BY <1>6, <2>1, <2>2, <2>4, <2>5, <2>6, <2>7, <2>8 DEF SessionStep
<1>7. CASE \/ Select \/ TimeoutsDone \/ EventsDone \/ AcceptFails
           \/ Tick \/ ClockSetBack
  <2>1. UNCHANGED <<tcp, sock>>
    BY <1>7 DEF Select, TimeoutsDone, EventsDone, AcceptFails, Tick,
       ClockSetBack, server
  <2> QED
    BY <1>2, <2>1
<1> QED
  BY <1>4, <1>5, <1>6, <1>7 DEF Next, ServerStep, Environment

LEMMA BelowMaxFdKept == IInv /\ BelowMaxFd /\ [Next]_vars => BelowMaxFd'
<1> SUFFICES ASSUME IInv, BelowMaxFd, [Next]_vars, NEW d \in Conn, d \in OpenConns'
             PROVE  tcp'[d].fd <= MaxFd
  BY DEF BelowMaxFd, OpenConns
<1>1. CASE Accept(d)
  <2>1. tcp'[d].fd = LowestFree
    <3>1. tcp' = [tcp EXCEPT ![d] = [NoSession EXCEPT !.fd = LowestFree]]
      BY <1>1 DEF Accept
    <3>2. [NoSession EXCEPT !.fd = LowestFree].fd = LowestFree
      BY DEF NoSession
    <3> QED
      BY <3>1, <3>2 DEF IInv, ServerInv, ServerType, RecordType
  <2>2. LowestFree \in Fds /\ ~(LowestFree > MaxFd)
    BY <1>1, LowestFreeIsFree DEF Accept, OverMaxFd, FreeFds
  <2> QED
    BY <2>1, <2>2, FdsFacts, TcpServerAssumption DEF Fds
<1>2. CASE d \in OpenConns /\ tcp'[d].fd = tcp[d].fd
  BY <1>2 DEF BelowMaxFd
<1>3. CASE UNCHANGED vars
  BY <1>3 DEF vars, server, OpenConns, BelowMaxFd
<1> QED
  BY <1>1, <1>2, <1>3, OpenBefore

\* Each session has a descriptor of its own above that of the listener.
LEMMA BelowMaxFdFits ==
  ASSUME IInv, BelowMaxFd
  PROVE  SessionsFit
<1> DEFINE n == Len(sessions)
           fd == [i \in 1..n |-> tcp[sessions[i]].fd]
<1>1. /\ n \in Nat
      /\ Range(sessions) = {sessions[i] : i \in 1..n}
      /\ Range(sessions) = OpenConns
      /\ Distinct(sessions)
  BY LenProperties, RangeEquality
  DEF IInv, ServerInv, ServerType, ListType, ListsAgree
<1>2. ASSUME NEW c \in OpenConns
      PROVE  tcp[c].fd \in 1..MaxFd /\ fdhandlers[tcp[c].fd] = c
  BY FdsFacts, TcpServerAssumption
  DEF IInv, ServerInv, TableAgrees, BelowMaxFd, Fds
<1>3. \A i \in 1..n : sessions[i] \in OpenConns
  BY <1>1
<1> HIDE DEF n
<1>4. fd \in [1..n -> 1..MaxFd]
  BY <1>2, <1>3
<1>5. ASSUME NEW i \in 1..n, NEW j \in 1..n, i # j, fd[i] = fd[j]
      PROVE  FALSE
  <2>1. sessions[i] = sessions[j]
    BY <1>2, <1>3, <1>5
  <2> QED
    BY <1>1, <1>5, <2>1 DEF Distinct, n
<1>6. /\ IsFiniteSet(1..n) /\ Cardinality(1..n) = n
      /\ IsFiniteSet(1..MaxFd) /\ Cardinality(1..MaxFd) = MaxFd
  BY <1>1, FS_Interval, TcpServerAssumption
<1> HIDE DEF fd
<1>7. ~(Cardinality(1..MaxFd) < Cardinality(1..n))
  <2> DEFINE S == 1..n
             T == 1..MaxFd
  <2> SUFFICES ASSUME Cardinality(T) < Cardinality(S) PROVE FALSE
    OBVIOUS
  <2>1. IsFiniteSet(S) /\ IsFiniteSet(T) /\ fd \in [S -> T]
    BY <1>4, <1>6
  <2> HIDE DEF S, T
  <2>2. \E i, j \in S : i # j /\ fd[i] = fd[j]
    BY <2>1, FS_PigeonHole
  <2> QED
    BY <1>5, <2>2 DEF S
<1> QED
  BY <1>1, <1>6, <1>7, TcpServerAssumption DEF SessionsFit, n

\* The array of MAX_FD sessions never overflows, whatever the limit of the
\* process on descriptors and however many connections are open at a time.
THEOREM SessionsAlwaysFit == Spec => []SessionsFit
<1>1. Init => BelowMaxFd
  BY DEF Init, BelowMaxFd, OpenConns, NewSocket
<1>2. IInv /\ BelowMaxFd => SessionsFit
  BY BelowMaxFdFits
<1> QED
  BY <1>1, <1>2, BelowMaxFdKept, Invariance, PTL DEF Spec

-----------------------------------------------------------------------------
(* Who closes a session *)

\* A session that is to be closed, but not by its application layer, hears
\* nothing more: its client has ended or reset the connection and has nothing
\* on its way, or ShouldClose is about to be asked and has nothing to wait
\* for. So a response is queued only while the session is served.
Deaf(c) == ~sock[c].data /\ (sock[c].fin \/ sock[c].rst # "no")

AtLast(c) == pc = "close" /\ scan = tcp[c].fd /\ tcp[c].len = 0

ClosingOk(c) ==
  tcp[c].want_to_close /\ ~tcp[c].app_closing => Deaf(c) \/ AtLast(c)

ClosingInv == \A c \in OpenConns : ClosingOk(c)

\* What is not the session's own handler leaves it as it is.
LEMMA ClosingLeft ==
  ASSUME NEW d \in Conn, ClosingOk(d), tcp'[d] = tcp[d],
         Deaf(d) => Deaf(d)',
         UNCHANGED <<pc, scan>> \/ ~AtLast(d)
  PROVE  ClosingOk(d)'
BY DEF ClosingOk, AtLast

LEMMA ClosingRead ==
  ASSUME IInv, NEW c \in Conn, ReadData(c) \/ ReadFails(c), ClosingOk(c)
  PROVE  ClosingOk(c)'
<1>1. /\ pc = "fds" /\ tcp \in [Conn -> TcpSession] /\ sock \in [Conn -> Socket]
      /\ sock[c] \in Socket
  BY DEF ReadData, ReadFails, ReadEvent, IInv, ServerInv, ServerType, RecordType
<1>2. CASE ReadData(c)
  <2>1. PICK t \in TcpSession :
          /\ tcp' = [tcp EXCEPT ![c] = t]
          /\ \/ /\ t.want_to_close = tcp[c].want_to_close
                /\ t.app_closing = tcp[c].app_closing
             \/ t.want_to_close /\ t.app_closing
    BY <1>2, ReadDataEffect
  <2>2. tcp'[c] = t /\ sock[c].data
    BY <1>1, <1>2, <2>1 DEF ReadData
  <2> QED
    BY <1>1, <2>1, <2>2 DEF ClosingOk, Deaf, AtLast
<1>3. CASE ReadFails(c)
  <2>1. tcp'[c] = Shutdown(tcp[c])
    BY <1>1, <1>3 DEF ReadFails
  <2>2. tcp[c].app_closing = tcp'[c].app_closing
    BY <1>1, <2>1, ShutdownEffect
  <2>3. CASE tcp[c].app_closing
    BY <2>2, <2>3 DEF ClosingOk
  <2>4. CASE sock[c].rst = "pending" /\ sock' = [sock EXCEPT ![c].rst = "done"]
    <3>1. ~sock'[c].data /\ sock'[c].rst = "done"
      BY <1>1, <1>3, <2>4 DEF ReadFails, Socket
    <3> QED
      BY <3>1 DEF ClosingOk, Deaf
  <2>5. CASE /\ ~tcp[c].app_closing
             /\ sock[c].fin \/ sock[c].rst = "done" \/ tcp[c].want_to_close
             /\ UNCHANGED sock
    <3>1. Deaf(c)
      BY <1>1, <1>3, <2>5 DEF ReadFails, ClosingOk, Deaf, AtLast
    <3> QED
      BY <2>5, <3>1 DEF ClosingOk, Deaf
  <2> QED
    BY <1>3, <2>3, <2>4, <2>5 DEF ReadFails
<1> QED
  BY <1>2, <1>3

LEMMA ClosingWrite ==
  ASSUME IInv, "pipelining" \notin Conditions, NEW c \in Conn,
         FlushAll(c) \/ FlushPartly(c) \/ FlushFails(c), ClosingOk(c)
  PROVE  ClosingOk(c)'
<1>1. /\ tcp \in [Conn -> TcpSession] /\ sock \in [Conn -> Socket]
      /\ sock[c] \in Socket /\ tcp[c] \in TcpSession
      /\ pc = "onwrite" /\ pc' = "close" /\ scan' = scan
      /\ c \in OpenConns
  BY WriteEventFacts DEF FlushAll, FlushPartly, FlushFails, WriteEvent, IInv,
     ServerInv, ServerType, RecordType
<1>2. PICK t \in TcpSession :
        /\ tcp' = [tcp EXCEPT ![c] = t]
        /\ t.fd = tcp[c].fd
        /\ t.app_closing = tcp[c].app_closing
        /\ \/ FlushAll(c) /\ t.want_to_close = tcp[c].want_to_close
           \/ FlushPartly(c) /\ t.want_to_close = tcp[c].want_to_close
           \/ FlushFails(c) /\ t = Shutdown(tcp[c])
  BY WriteEffect
<1>3. tcp'[c] = t
  BY <1>1, <1>2
<1>4. CASE (FlushAll(c) \/ FlushPartly(c)) /\ t.want_to_close = tcp[c].want_to_close
  <2>1. sock' = sock
    BY <1>4 DEF FlushAll, FlushPartly
  <2> QED
    BY <1>1, <1>2, <1>3, <1>4, <2>1 DEF ClosingOk, Deaf, AtLast
<1>5. CASE FlushFails(c) /\ t = Shutdown(tcp[c])
  <2>1. t.len = tcp[c].len
    BY <1>1, <1>5, ShutdownEffect
  <2>2. scan = tcp[c].fd
    <3>1. scan \in Fds /\ fdhandlers[scan] = c /\ TableAgrees
      BY <1>1, <1>5 DEF FlushFails, WriteEvent, IInv, HandlerRuns, ServerInv
    <3> QED
      BY <3>1, HandlerIsOpen
  <2>3. CASE tcp[c].len = 0
    <3>1. AtLast(c)'
      BY <1>1, <1>2, <1>3, <2>1, <2>2, <2>3 DEF AtLast
    <3> QED
      BY <3>1 DEF ClosingOk
  <2>4. CASE tcp[c].len # 0
    <3>1. tcp[c].off < tcp[c].len /\ ~sock[c].data
      BY <1>1, <2>4 DEF IInv, ServerInv, CursorInv, CursorOk, TcpSession
    <3>2. ~(Unsent(tcp[c]) <= 0)
      BY <1>1, <3>1, FdsFacts DEF Unsent, TcpSession
    <3>3. sock' = [sock EXCEPT ![c].rst = "done"]
      BY <1>5, <3>2 DEF FlushFails
    <3>4. ~sock'[c].data /\ sock'[c].rst = "done"
      BY <1>1, <3>1, <3>3 DEF Socket
    <3> QED
      BY <3>4 DEF ClosingOk, Deaf
  <2> QED
    BY <2>3, <2>4
<1> QED
  BY <1>2, <1>4, <1>5

LEMMA ClosingKept ==
  ASSUME IInv, ClosingInv, "pipelining" \notin Conditions, Next
  PROVE  ClosingInv'
<1> SUFFICES ASSUME NEW d \in Conn, d \in OpenConns' PROVE ClosingOk(d)'
  BY DEF ClosingInv, OpenConns
<1>1. tcp \in [Conn -> TcpSession] /\ sock \in [Conn -> Socket]
  BY DEF IInv, ServerInv, ServerType, RecordType
<1>2. CASE Accept(d)
  <2>1. tcp'[d] = [NoSession EXCEPT !.fd = LowestFree]
    BY <1>1, <1>2 DEF Accept
  <2>2. tcp'[d].want_to_close = FALSE
    BY <2>1 DEF NoSession
  <2> QED
    BY <2>2 DEF ClosingOk
<1> SUFFICES ASSUME d \in OpenConns, ClosingOk(d) PROVE ClosingOk(d)'
  BY <1>2, OpenBefore DEF ClosingInv
<1>3. CASE \/ Select \/ TimeoutsDone \/ EventsDone \/ AcceptFails
           \/ Tick \/ ClockSetBack
  <2>1. /\ UNCHANGED <<tcp, sock>>
        /\ UNCHANGED <<pc, scan>> \/ pc # "close"
    BY <1>3 DEF Select, TimeoutsDone, EventsDone, AcceptFails, ListenEvent,
       Tick, ClockSetBack, server, loop
  <2> QED
    BY <2>1, ClosingLeft DEF Deaf, AtLast
<1>4. ASSUME NEW h \in Conn, ClientNext(h) PROVE ClosingOk(d)'
  <2>1. PICK k \in Socket :
          /\ ClientStep(h, k)
          /\ k.data => \/ sock[h].data
                       \/ ~sock[h].fin /\ sock[h].rst = "no"
          /\ sock[h].st = "open" =>
               /\ sock[h].fin => k.fin
               /\ sock[h].rst # "no" => k.rst # "no"
    BY <1>1, <1>4, ClientEffect
  <2>2. /\ UNCHANGED <<tcp, pc, scan>>
        /\ sock' = [sock EXCEPT ![h] = k]
    BY <2>1 DEF ClientStep, server, loop
  <2>3. Deaf(d) => Deaf(d)'
    <3>1. CASE d = h
      BY <1>1, <2>1, <2>2, <3>1 DEF Deaf, OpenConns
    <3>2. CASE d # h
      BY <1>1, <2>2, <3>2 DEF Deaf
    <3> QED
      BY <3>1, <3>2
  <2> QED
    BY <2>2, <2>3, ClosingLeft
\* A handler's step is about one session, the one scan stands at.
<1>5. ASSUME NEW h \in Conn \ {d}, h \in OpenConns, pc = "close" => scan = tcp[h].fd,
             tcp'[d] = tcp[d], sock'[d] = sock[d]
      PROVE  ClosingOk(d)'
  <2>1. tcp[h].fd # tcp[d].fd
    BY <1>5 DEF IInv, ServerInv, TableAgrees
  <2> QED
    BY <1>5, <2>1, ClosingLeft DEF Deaf, AtLast
<1>6. ASSUME NEW h \in Conn, NEW list, CloseTcpSession(h, list)
      PROVE  d # h /\ tcp'[d] = tcp[d] /\ sock'[d] = sock[d]
  <2>1. /\ tcp' = [tcp EXCEPT ![h] = NoSession]
        /\ sock' = [sock EXCEPT ![h] = [NewSocket EXCEPT !.st = "gone"]]
        /\ [NewSocket EXCEPT !.st = "gone"].st = "gone"
    BY <1>6 DEF CloseTcpSession, NewSocket
  <2> QED
    BY <1>1, <2>1 DEF OpenConns
<1>7. CASE TimeoutFires
  <2>1. Head(timeouts) \in Conn
    <3>1. timeouts \in Seq(Conn) /\ timeouts # <<>>
      BY <1>7 DEF TimeoutFires, IInv, ServerInv, ServerType, ListType
    <3> QED
      BY <3>1, HeadTailProperties
  <2>2. tcp'[d] = tcp[d] /\ sock'[d] = sock[d] /\ UNCHANGED <<pc, scan>>
    BY <1>6, <1>7, <2>1 DEF TimeoutFires, loop
  <2> QED
    BY <2>2, ClosingLeft DEF Deaf
<1>8. ASSUME NEW h \in Conn, SessionStep(h) PROVE ClosingOk(d)'
  <2>1. CASE Accept(h) \/ Decline(h)
    <3>1. pc # "close" /\ sock[h].st = "queued"
      BY <2>1 DEF Accept, Decline, ListenEvent, Queued
    <3>2. d # h
      BY <3>1 DEF OpenConns
    <3>3. tcp'[d] = tcp[d] /\ sock'[d] = sock[d]
      BY <1>1, <2>1, <3>2 DEF Accept, Decline
    <3> QED
      BY <3>1, <3>3, ClosingLeft DEF Deaf, AtLast
  <2>2. CASE ReadData(h) \/ ReadFails(h)
    <3>1. h \in OpenConns /\ pc # "close"
      BY <2>2, ReadEventFacts DEF ReadData, ReadFails, ReadEvent
    <3>2. CASE d # h
      BY <1>1, <1>5, <2>2, <3>1, <3>2 DEF ReadData, ReadFails
    <3> QED
      BY <2>2, <3>2, ClosingRead
  <2>3. CASE FlushAll(h) \/ FlushPartly(h) \/ FlushFails(h)
    <3>1. h \in OpenConns /\ pc # "close"
      BY <2>3, WriteEventFacts DEF FlushAll, FlushPartly, FlushFails, WriteEvent
    <3>2. CASE d # h
      BY <1>1, <1>5, <2>3, <3>1, <3>2 DEF FlushAll, FlushPartly, FlushFails
    <3> QED
      BY <2>3, <3>2, ClosingWrite
  <2>4. CASE KilledByPipe(h) \/ NoReadEvent(h) \/ NoWriteEvent(h)
    <3>1. pc # "close" /\ UNCHANGED <<tcp, sock>>
      BY <2>4 DEF KilledByPipe, WriteEvent, NoReadEvent, NoWriteEvent, server
    <3> QED
      BY <3>1, ClosingLeft DEF Deaf, AtLast
  <2>5. CASE HandlerCloses(h) \/ HandlerReturns(h)
    <3>1. h \in OpenConns /\ scan = tcp[h].fd
      <4>1. scan \in Fds /\ fdhandlers[scan] = h /\ TableAgrees
        BY <2>5 DEF HandlerCloses, HandlerReturns, IInv, HandlerRuns, ServerInv
      <4> QED
        BY <4>1, HandlerIsOpen
    <3>2. CASE HandlerCloses(h)
      BY <1>5, <1>6, <3>1, <3>2 DEF HandlerCloses
    <3>3. CASE HandlerReturns(h)
      <4>1. UNCHANGED <<tcp, sock>>
        BY <3>3 DEF HandlerReturns, server
      <4>2. CASE d = h
        BY <3>3, <4>1, <4>2 DEF HandlerReturns, ShouldClose, ClosingOk, AtLast, Deaf
      <4> QED
        BY <1>5, <3>1, <4>1, <4>2
    <3> QED
      BY <2>5, <3>2, <3>3
  <2> QED
    BY <1>8, <2>1, <2>2, <2>3, <2>4, <2>5 DEF SessionStep
<1> QED
  BY <1>3, <1>4, <1>7, <1>8 DEF Next, ServerStep, Environment

-----------------------------------------------------------------------------
(* The process provides the service of ConnService *)

Phases == [c \in Conn |-> Phase(c)]

Lengths == [c \in Conn |-> tcp[c].len]

\* The phase by the socket instead of the array: an open session is in it.
PhaseAt(k, t) ==
  IF k.st = "open" THEN IF t.want_to_close THEN "closing" ELSE "serving"
  ELSE IF k.st = "gone" THEN "closed" ELSE "waiting"

LEMMA PhaseOf == IInv => Phases = [c \in Conn |-> PhaseAt(sock[c], tcp[c])]
BY DEF IInv, ServerInv, ListsAgree, OpenConns, Phases, Phase, PhaseAt

LEMMA PhaseOfNext ==
  IInv' => Phases' = [c \in Conn |-> PhaseAt(sock'[c], tcp'[c])]
BY DEF IInv, ServerInv, ListsAgree, OpenConns, Phases, Phase, PhaseAt

\* A step of the process, by what it does to one connection.
LEMMA OnePhase ==
  ASSUME IInv, IInv', NEW c \in Conn, NEW k, NEW t,
         sock' = [sock EXCEPT ![c] = k], tcp' = [tcp EXCEPT ![c] = t]
  PROVE  /\ Phases[c] = PhaseAt(sock[c], tcp[c])
         /\ Phases' = [Phases EXCEPT ![c] = PhaseAt(k, t)]
         /\ Lengths' = [Lengths EXCEPT ![c] = t.len]
<1>1. tcp \in [Conn -> TcpSession] /\ sock \in [Conn -> Socket]
  BY DEF IInv, ServerInv, ServerType, RecordType
<1>2. /\ Phases = [d \in Conn |-> PhaseAt(sock[d], tcp[d])]
      /\ Phases' = [d \in Conn |-> PhaseAt(sock'[d], tcp'[d])]
  BY PhaseOf, PhaseOfNext
<1>3. /\ sock'[c] = k /\ tcp'[c] = t
      /\ \A d \in Conn \ {c} : sock'[d] = sock[d] /\ tcp'[d] = tcp[d]
  BY <1>1
<1>4. Phases' = [Phases EXCEPT ![c] = PhaseAt(k, t)]
  <2>1. /\ Phases' = [d \in Conn |-> Phases'[d]]
        /\ Phases = [d \in Conn |-> Phases[d]]
    BY DEF Phases
  <2>2. Phases'[c] = PhaseAt(k, t)
    BY <1>2, <1>3
  <2>3. \A d \in Conn \ {c} : Phases'[d] = Phases[d]
    BY <1>2, <1>3
  <2> HIDE DEF Phases
  <2> QED
    BY <2>1, <2>2, <2>3
<1>5. Lengths' = [Lengths EXCEPT ![c] = t.len]
  <2>1. /\ Lengths' = [d \in Conn |-> Lengths'[d]]
        /\ Lengths = [d \in Conn |-> Lengths[d]]
    BY DEF Lengths
  <2>2. Lengths'[c] = t.len /\ \A d \in Conn \ {c} : Lengths'[d] = Lengths[d]
    BY <1>3 DEF Lengths
  <2> HIDE DEF Lengths
  <2> QED
    BY <2>1, <2>2
<1> QED
  BY <1>2, <1>4, <1>5

\* A step that leaves the records alone, and the state of the sockets too.
LEMMA NoPhase ==
  ASSUME IInv, IInv', UNCHANGED tcp,
         \A d \in Conn : /\ sock'[d].st = "open" <=> sock[d].st = "open"
                         /\ sock'[d].st = "gone" <=> sock[d].st = "gone"
  PROVE  UNCHANGED <<Phases, Lengths>>
<1>1. /\ Phases = [d \in Conn |-> PhaseAt(sock[d], tcp[d])]
      /\ Phases' = [d \in Conn |-> PhaseAt(sock'[d], tcp'[d])]
  BY PhaseOf, PhaseOfNext
<1>2. \A d \in Conn : PhaseAt(sock'[d], tcp'[d]) = PhaseAt(sock[d], tcp[d])
  BY DEF PhaseAt
<1> QED
  BY <1>1, <1>2 DEF Lengths

\* Closing, for one of the two reasons there are.
LEMMA ServiceCloses ==
  ASSUME IInv, IInv', NEW c \in Conn, c \in OpenConns, NEW list,
         CloseTcpSession(c, list), ShouldClose(c) \/ due[c] < ct,
         UNCHANGED <<clock, ct>>
  PROVE  Service!Next
<1>1. sock[c].st = "open"
  BY DEF OpenConns
<1>2. PICK k \in Socket, t \in TcpSession :
        /\ k.st = "gone" /\ t.len = 0
        /\ sock' = [sock EXCEPT ![c] = k]
        /\ tcp' = [tcp EXCEPT ![c] = t]
        /\ due' = [due EXCEPT ![c] = 0]
  <2>1. [NewSocket EXCEPT !.st = "gone"].st = "gone" /\ NoSession.len = 0
    BY DEF NewSocket, NoSession
  <2> QED
    BY <2>1, RecordFacts DEF CloseTcpSession
<1>3. PhaseAt(k, t) = "closed"
  BY <1>2 DEF PhaseAt
<1>4. /\ Phases[c] = PhaseAt(sock[c], tcp[c])
      /\ Phases' = [Phases EXCEPT ![c] = "closed"]
      /\ Lengths' = [Lengths EXCEPT ![c] = 0]
  <2>1. sock' = [sock EXCEPT ![c] = k]
    BY <1>2
  <2>2. tcp' = [tcp EXCEPT ![c] = t]
    BY <1>2
  <2>3. /\ Phases[c] = PhaseAt(sock[c], tcp[c])
        /\ Phases' = [Phases EXCEPT ![c] = PhaseAt(k, t)]
        /\ Lengths' = [Lengths EXCEPT ![c] = t.len]
    BY <2>1, <2>2, OnePhase, Zenon
  <2> QED
    BY <1>2, <1>3, <2>3
<1>5. Service!Gone(c)
  BY <1>2, <1>4 DEF Service!Gone, Phases, Lengths
<1>6. Phases[c] \in {"serving", "closing"}
  BY <1>1, <1>4 DEF PhaseAt
<1>7. CASE ShouldClose(c)
  <2>1. Phases[c] = "closing" /\ Lengths[c] = 0
    BY <1>1, <1>4, <1>7 DEF PhaseAt, ShouldClose, Lengths
  <2>2. Service!Finish(c)
    BY <1>5, <2>1 DEF Service!Finish, Phases, Lengths
  <2> QED
    BY <1>1, <2>2 DEF Service!Next
<1>8. CASE due[c] < ct
  <2>1. Service!Expire(c)
    BY <1>5, <1>6, <1>8 DEF Service!Expire, Phases
  <2> QED
    BY <1>1, <2>1 DEF Service!Next
<1> QED
  BY <1>7, <1>8

\* Reading: only a session that is served gets a response.
LEMMA ServiceHears ==
  ASSUME IInv, IInv', ClosingInv, NEW c \in Conn, ReadData(c) \/ ReadFails(c)
  PROVE  Service!Next
<1>1. /\ c \in OpenConns /\ sock[c].st = "open" /\ pc = "fds"
      /\ due' = [due EXCEPT ![c] = clock + IdleTimeout]
      /\ UNCHANGED <<clock, ct>>
  BY ReadEventFacts DEF ReadData, ReadFails, ReadEvent, ResetIdleTout
<1>2. /\ tcp \in [Conn -> TcpSession] /\ sock \in [Conn -> Socket]
      /\ tcp[c] \in TcpSession /\ sock[c] \in Socket
  BY DEF IInv, ServerInv, ServerType, RecordType
<1>3. PICK k \in Socket : sock' = [sock EXCEPT ![c] = k] /\ k.st = "open"
  <2>1. CASE ReadData(c)
    <3>1. /\ [sock[c] EXCEPT !.data = FALSE] \in Socket
          /\ [sock[c] EXCEPT !.data = FALSE].st = "open"
      BY <1>1, <1>2 DEF Socket
    <3> QED
      BY <2>1, <3>1 DEF ReadData
  <2>2. CASE ReadFails(c)
    <3>1. PICK r \in {sock[c], [sock[c] EXCEPT !.rst = "done"]} :
            sock' = [sock EXCEPT ![c] = r]
      BY <1>2, <2>2 DEF ReadFails
    <3> QED
      BY <1>1, <1>2, <3>1, ResetFacts
  <2> QED
    BY <2>1, <2>2
<1>4. PICK t \in TcpSession :
        /\ tcp' = [tcp EXCEPT ![c] = t]
        /\ t.want_to_close \/ t.want_to_close = tcp[c].want_to_close
        /\ t.len # tcp[c].len => ~tcp[c].want_to_close
  <2>1. CASE ReadData(c)
    <3>1. PICK n \in 0..MaxResponse, t \in TcpSession :
            /\ tcp' = [tcp EXCEPT ![c] = t]
            /\ t.len = IF n = 0 THEN tcp[c].len ELSE n
            /\ tcp[c].app_closing => n = 0
            /\ t.want_to_close \/ t.want_to_close = tcp[c].want_to_close
      BY <2>1, ReadDataEffect
    <3>2. tcp[c].want_to_close => tcp[c].app_closing
      BY <1>1, <2>1 DEF ReadData, ClosingInv, ClosingOk, Deaf, AtLast
    <3> QED
      BY <3>1, <3>2
  <2>2. CASE ReadFails(c)
    <3>1. tcp' = [tcp EXCEPT ![c] = Shutdown(tcp[c])]
      BY <2>2 DEF ReadFails
    <3> QED
      BY <1>2, <3>1, ShutdownEffect
  <2> QED
    BY <2>1, <2>2
<1>5. /\ Phases[c] = PhaseAt(sock[c], tcp[c])
      /\ Phases' = [Phases EXCEPT ![c] = PhaseAt(k, t)]
      /\ Lengths' = [Lengths EXCEPT ![c] = t.len]
  BY <1>3, <1>4, OnePhase
<1>6. Phases[c] \in {"serving", "closing"} /\ PhaseAt(k, t) \in {Phases[c], "closing"}
  BY <1>1, <1>3, <1>4, <1>5 DEF PhaseAt
<1>7. \/ UNCHANGED Lengths
      \/ Phases[c] = "serving" /\ t.len \in 0..MaxResponse
  <2>1. CASE t.len = tcp[c].len
    BY <1>5, <2>1 DEF Lengths
  <2>2. CASE t.len # tcp[c].len
    BY <1>1, <1>4, <1>5, <2>2 DEF PhaseAt, TcpSession
  <2> QED
    BY <2>1, <2>2
<1>8. Service!Hear(c)
  <2> DEFINE p == PhaseAt(k, t)
  <2>1. p \in {Phases[c], "closing"} /\ Phases' = [Phases EXCEPT ![c] = p]
    BY <1>5, <1>6
  <2> HIDE DEF p
  <2> QED
    BY <1>1, <1>5, <1>6, <1>7, <2>1 DEF Service!Hear, Phases, Lengths
<1> QED
  BY <1>8 DEF Service!Next

\* Taking a connection from the queue, here or in another worker.
LEMMA ServiceTakes ==
  ASSUME IInv, IInv', NEW c \in Conn,
         Accept(c) \/ Decline(c) \/ Stolen(c)
  PROVE  Service!Next
<1>1. /\ tcp \in [Conn -> TcpSession] /\ sock \in [Conn -> Socket]
      /\ tcp[c] \in TcpSession /\ sock[c] \in Socket
      /\ sock[c].st = "queued" /\ UNCHANGED <<clock, ct>>
  BY DEF Accept, Decline, Stolen, ListenEvent, Queued, ClientStep, loop, IInv,
     ServerInv, ServerType, RecordType
<1>2. CASE Accept(c)
  <2>1. PICK k \in Socket : sock' = [sock EXCEPT ![c] = k] /\ k.st = "open"
    <3>1. /\ [sock[c] EXCEPT !.st = "open"] \in Socket
          /\ [sock[c] EXCEPT !.st = "open"].st = "open"
      BY <1>1 DEF Socket
    <3> QED
      BY <1>2, <3>1 DEF Accept
  <2>2. PICK t \in TcpSession : /\ tcp' = [tcp EXCEPT ![c] = t]
                                /\ ~t.want_to_close /\ t.len = 0
    <3>1. LowestFree \in Fds
      BY <1>2, LowestFreeIsFree DEF Accept, FreeFds
    <3>2. NoSession \in TcpSession /\ ~NoSession.want_to_close /\ NoSession.len = 0
      BY RecordFacts DEF NoSession
    <3> DEFINE t == [NoSession EXCEPT !.fd = LowestFree]
    <3>3. /\ t \in TcpSession
          /\ t.want_to_close = NoSession.want_to_close /\ t.len = NoSession.len
      BY <3>1, <3>2 DEF TcpSession
    <3>4. tcp' = [tcp EXCEPT ![c] = t]
      BY <1>2 DEF Accept
    <3> HIDE DEF t
    <3> QED
      BY <3>2, <3>3, <3>4
  <2>3. PhaseAt(sock[c], tcp[c]) = "waiting" /\ PhaseAt(k, t) = "serving"
    BY <1>1, <2>1, <2>2 DEF PhaseAt
  <2>4. /\ Phases[c] = "waiting"
        /\ Phases' = [Phases EXCEPT ![c] = "serving"]
        /\ Lengths' = [Lengths EXCEPT ![c] = 0]
    <3>1. sock' = [sock EXCEPT ![c] = k]
      BY <2>1
    <3>2. tcp' = [tcp EXCEPT ![c] = t]
      BY <2>2
    <3>3. /\ Phases[c] = PhaseAt(sock[c], tcp[c])
          /\ Phases' = [Phases EXCEPT ![c] = PhaseAt(k, t)]
          /\ Lengths' = [Lengths EXCEPT ![c] = t.len]
      BY <3>1, <3>2, OnePhase, Zenon
    <3> QED
      BY <2>2, <2>3, <3>3
  <2>5. Lengths[c] = 0
    BY <1>1 DEF Lengths, IInv, ServerInv, CursorInv, OpenConns
  <2>6. Lengths' = Lengths
    <3>1. Lengths = [d \in Conn |-> Lengths[d]]
      BY DEF Lengths
    <3> QED
      BY <2>4, <2>5, <3>1
  <2>7. due' = [due EXCEPT ![c] = clock + IdleTimeout]
    BY <1>2 DEF Accept
  <2>8. Service!Admit(c)
    BY <1>1, <2>4, <2>6, <2>7 DEF Service!Admit, Phases, Lengths
  <2> QED
    BY <2>8 DEF Service!Next
<1>3. CASE Decline(c) \/ Stolen(c)
  <2>1. PICK k \in Socket : sock' = [sock EXCEPT ![c] = k] /\ k.st = "gone"
    <3>1. [NewSocket EXCEPT !.st = "gone"].st = "gone"
      BY DEF NewSocket
    <3> QED
      BY <1>3, <3>1, RecordFacts DEF Decline, Stolen, ClientStep
  <2>2. UNCHANGED <<tcp, due>>
    BY <1>3 DEF Decline, Stolen, ClientStep, server
  <2>3. tcp' = [tcp EXCEPT ![c] = tcp[c]]
    BY <1>1, <2>2
  <2>4. PhaseAt(sock[c], tcp[c]) = "waiting" /\ PhaseAt(k, tcp[c]) = "closed"
    BY <1>1, <2>1 DEF PhaseAt
  <2>5. /\ Phases[c] = "waiting"
        /\ Phases' = [Phases EXCEPT ![c] = "closed"]
    <3>1. sock' = [sock EXCEPT ![c] = k]
      BY <2>1
    <3>2. /\ Phases[c] = PhaseAt(sock[c], tcp[c])
          /\ Phases' = [Phases EXCEPT ![c] = PhaseAt(k, tcp[c])]
      BY <2>3, <3>1, OnePhase, Zenon
    <3> QED
      BY <2>4, <3>2
  <2>6. UNCHANGED Lengths
    BY <2>2 DEF Lengths
  <2>7. Service!Refuse(c)
    BY <1>1, <2>2, <2>5, <2>6 DEF Service!Refuse, Phases, Lengths
  <2> QED
    BY <2>7 DEF Service!Next
<1> QED
  BY <1>2, <1>3

\* Writing: everything, a part, or nothing because of an error.
LEMMA ServiceWrites ==
  ASSUME IInv, IInv', NEW c \in Conn,
         FlushAll(c) \/ FlushPartly(c) \/ FlushFails(c)
  PROVE  Service!Next \/ UNCHANGED <<clock, ct, Phases, Lengths, due>>
<1>1. /\ sock[c].st = "open" /\ UNCHANGED <<clock, ct, due>>
      /\ sock[c] \in Socket /\ sock \in [Conn -> Socket]
      /\ tcp[c] \in TcpSession
  BY WriteEventFacts DEF FlushAll, FlushPartly, FlushFails, WriteEvent, IInv,
     ServerInv, ServerType, RecordType
<1>2. PICK k \in Socket : sock' = [sock EXCEPT ![c] = k] /\ k.st = "open"
  <2>1. /\ [sock[c] EXCEPT !.rst = "done"] \in Socket
        /\ [sock[c] EXCEPT !.rst = "done"].st = "open"
    BY <1>1 DEF Socket
  <2>2. \/ sock' = sock
        \/ sock' = [sock EXCEPT ![c] = [sock[c] EXCEPT !.rst = "done"]]
    BY DEF FlushAll, FlushPartly, FlushFails
  <2> QED
    BY <1>1, <2>1, <2>2
<1>3. PICK t \in TcpSession :
        /\ tcp' = [tcp EXCEPT ![c] = t]
        /\ \/ t.len = 0 /\ t.want_to_close = tcp[c].want_to_close
           \/ t.len = tcp[c].len /\ t.want_to_close = tcp[c].want_to_close
           \/ t.len = tcp[c].len /\ t.want_to_close
  BY <1>1, WriteEffect, ShutdownEffect
<1>4. /\ Phases[c] = PhaseAt(sock[c], tcp[c])
      /\ Phases' = [Phases EXCEPT ![c] = PhaseAt(k, t)]
      /\ Lengths' = [Lengths EXCEPT ![c] = t.len]
  <2>1. sock' = [sock EXCEPT ![c] = k]
    BY <1>2
  <2>2. tcp' = [tcp EXCEPT ![c] = t]
    BY <1>3
  <2> QED
    BY <2>1, <2>2, OnePhase, Zenon
<1>5. Phases[c] \in {"serving", "closing"}
  BY <1>1, <1>4 DEF PhaseAt
<1>6. /\ Phases = [d \in Conn |-> Phases[d]]
      /\ Lengths = [d \in Conn |-> Lengths[d]]
      /\ Lengths[c] = tcp[c].len
  BY DEF Phases, Lengths
<1>7. t.want_to_close = tcp[c].want_to_close => UNCHANGED Phases
  <2>1. t.want_to_close = tcp[c].want_to_close => PhaseAt(k, t) = Phases[c]
    BY <1>1, <1>2, <1>4 DEF PhaseAt
  <2> QED
    BY <1>4, <1>6, <2>1
<1>8. t.len = tcp[c].len => UNCHANGED Lengths
  BY <1>4, <1>6
<1>9. CASE t.len = 0 /\ t.want_to_close = tcp[c].want_to_close
  <2>1. Service!Written(c)
    BY <1>1, <1>4, <1>5, <1>7, <1>9 DEF Service!Written, Phases, Lengths
  <2> QED
    BY <2>1 DEF Service!Next
<1>10. CASE t.len = tcp[c].len /\ t.want_to_close = tcp[c].want_to_close
  BY <1>1, <1>7, <1>8, <1>10
<1>11. CASE t.len = tcp[c].len /\ t.want_to_close
  <2>1. Phases' = [Phases EXCEPT ![c] = "closing"]
    BY <1>2, <1>4, <1>11 DEF PhaseAt
  <2>2. Service!WriteError(c)
    BY <1>1, <1>5, <1>8, <1>11, <2>1 DEF Service!WriteError, Phases, Lengths
  <2> QED
    BY <2>2 DEF Service!Next
<1> QED
  BY <1>3, <1>9, <1>10, <1>11

LEMMA ServiceStep ==
  IInv /\ IInv' /\ ClosingInv /\ [Next]_vars => [Service!Next]_(Service!vars)
<1> SUFFICES ASSUME IInv, IInv', ClosingInv, [Next]_vars
             PROVE  Service!Next \/ UNCHANGED <<clock, ct, Phases, Lengths, due>>
  BY DEF Service!vars, Phases, Lengths
<1>1. CASE Select \/ TimeoutsDone \/ EventsDone
  <2>1. UNCHANGED <<clock, tcp, sock, due>> /\ ct' \in {0, clock, ct}
    BY <1>1 DEF Select, TimeoutsDone, EventsDone, server
  <2>2. UNCHANGED <<Phases, Lengths>>
    BY <2>1, NoPhase
  <2>3. ct' \in {0, clock} => Service!Look
    BY <2>1, <2>2 DEF Service!Look, Phases, Lengths
  <2> QED
    BY <2>1, <2>2, <2>3 DEF Service!Next
<1>2. CASE Tick \/ ClockSetBack
  <2>1. UNCHANGED <<ct, tcp, sock, due>>
    BY <1>2 DEF Tick, ClockSetBack, loop, server
  <2>2. UNCHANGED <<Phases, Lengths>>
    BY <2>1, NoPhase
  <2>3. clock' \in Nat
    BY FdsFacts DEF IInv, LoopType
  <2>4. Service!Clock
    BY <2>1, <2>2, <2>3 DEF Service!Clock, Phases, Lengths
  <2> QED
    BY <2>4 DEF Service!Next
<1>3. CASE AcceptFails \/ UNCHANGED vars
  <2>1. UNCHANGED <<clock, ct, tcp, sock, due>>
    BY <1>3 DEF AcceptFails, ListenEvent, vars, loop, server
  <2> QED
    BY <2>1, NoPhase
<1>4. CASE TimeoutFires
  <2> DEFINE c == Head(timeouts)
             list == Tail(timeouts)
  <2>1. /\ c \in OpenConns /\ c \in Conn
        /\ CloseTcpSession(c, list) /\ due[c] < ct /\ UNCHANGED <<clock, ct>>
    <3>1. timeouts \in Seq(Conn) /\ timeouts # <<>> /\ Range(timeouts) = OpenConns
      BY <1>4 DEF TimeoutFires, IInv, ServerInv, ServerType, ListType, ListsAgree
    <3>2. c \in Range(timeouts) /\ c \in Conn
      BY <3>1, HeadTailProperties, RangeEquality, LenProperties
    <3> QED
      BY <1>4, <3>1, <3>2 DEF TimeoutFires, EarlierThan, loop
  <2> HIDE DEF c, list
  <2> QED
    BY <2>1, ServiceCloses
<1>5. ASSUME NEW c \in Conn, SessionStep(c)
      PROVE  Service!Next \/ UNCHANGED <<clock, ct, Phases, Lengths, due>>
  <2>1. CASE Accept(c) \/ Decline(c)
    BY <2>1, ServiceTakes
  <2>2. CASE ReadData(c) \/ ReadFails(c)
    BY <2>2, ServiceHears
  <2>3. CASE FlushAll(c) \/ FlushPartly(c) \/ FlushFails(c)
    BY <2>3, ServiceWrites
  <2>4. CASE KilledByPipe(c) \/ NoReadEvent(c) \/ NoWriteEvent(c) \/ HandlerReturns(c)
    <3>1. UNCHANGED <<clock, ct, tcp, sock, due>>
      BY <2>4 DEF KilledByPipe, WriteEvent, NoReadEvent, NoWriteEvent,
         HandlerReturns, server
    <3> QED
      BY <3>1, NoPhase
  <2>5. CASE HandlerCloses(c)
    <3>1. scan \in Fds /\ fdhandlers[scan] = c /\ TableAgrees
      BY <2>5 DEF HandlerCloses, IInv, HandlerRuns, ServerInv
    <3>2. c \in OpenConns
      BY <3>1, HandlerIsOpen
    <3>3. CloseTcpSession(c, timeouts) /\ ShouldClose(c) /\ UNCHANGED <<clock, ct>>
      BY <2>5 DEF HandlerCloses
    <3> QED
      BY <3>2, <3>3, ServiceCloses
  <2> QED
    BY <1>5, <2>1, <2>2, <2>3, <2>4, <2>5 DEF SessionStep
<1>6. ASSUME NEW c \in Conn, ClientNext(c)
      PROVE  Service!Next \/ UNCHANGED <<clock, ct, Phases, Lengths, due>>
  <2>1. CASE Stolen(c)
    BY <2>1, ServiceTakes
  <2>2. CASE ~Stolen(c)
    <3>1. sock \in [Conn -> Socket] /\ sock[c] \in Socket
      BY DEF IInv, ServerInv, ServerType, RecordType
    <3>2. PICK k : /\ ClientStep(c, k)
                   /\ k.st = "open" <=> sock[c].st = "open"
                   /\ k.st = "gone" <=> sock[c].st = "gone"
      BY <1>6, <2>2, <3>1
      DEF ClientNext, Connect, ClientSends, ClientFinishes, ClientResets,
          ClientStalls, ClientResumes, Exists, Socket
    <3>3. /\ UNCHANGED <<clock, ct, tcp, due>>
          /\ sock' = [sock EXCEPT ![c] = k]
      BY <3>2 DEF ClientStep, loop, server
    <3> QED
      BY <3>1, <3>2, <3>3, NoPhase
  <2> QED
    BY <2>1, <2>2
<1> QED
  BY <1>1, <1>2, <1>3, <1>4, <1>5, <1>6 DEF Next, ServerStep, Environment

\* With clients that wait for the response, the process provides the service
\* whatever else they and the clock do: every connection is admitted at most
\* once, hears only while it is open, gets no response once it is closing,
\* and is closed because it had finished or because it was due.
THEOREM ServerProvidesService ==
  ASSUME "pipelining" \notin Conditions
  PROVE  Spec => ImplementsService
<1>1. Init => Service!Init
  <2>1. Init => OpenConns = {} /\ Range(sessions) = {}
    BY DEF Init, OpenConns, NewSocket, Range
  <2> QED
    BY <2>1 DEF Init, Service!Init, Phase, NewSocket, NoSession
<1>2. Init => ClosingInv
  BY DEF Init, ClosingInv, OpenConns, NewSocket
<1>3. IInv /\ ClosingInv /\ [Next]_vars => ClosingInv'
  <2>1. ClosingInv /\ UNCHANGED vars => ClosingInv'
    BY DEF vars, loop, server, ClosingInv, ClosingOk, Deaf, AtLast, OpenConns
  <2> QED
    BY <2>1, ClosingKept
<1> QED
  BY <1>1, <1>2, <1>3, ServiceStep, Invariance, PTL
  DEF Spec, ImplementsService, Service!Spec

=============================================================================
