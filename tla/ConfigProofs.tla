---------------------------- MODULE ConfigProofs ----------------------------
(***************************************************************************)
(* The dictionary of settings is coherent and is a map, whatever the file  *)
(* says and whatever the hash is; and the program starts with what the     *)
(* file says, however many lines it has.                                   *)
(***************************************************************************)
EXTENDS Config, SequenceTheorems, WellFoundedInduction, TLAPS

\* The map m with k set to v.
With(m, k, v) == [j \in DOMAIN m \cup {k} |-> IF j = k THEN v ELSE m[j]]

-----------------------------------------------------------------------------
(* A coherent dictionary *)

\* A key that is there is in one slot, and the search for it ends there.
LEMMA PlaceOf ==
  ASSUME NEW d, Coherent(d), NEW j \in Slots(d), d.key[j] # NULL
  PROVE  Found(d, d.key[j]) /\ Place(d, d.key[j]) = j
<1> DEFINE k == d.key[j]
           First(i) == Holds(d, i, k) /\ \A m \in 0..(i - 1) : ~Holds(d, m, k)
<1>1. Holds(d, j, k)
  BY DEF Coherent, OneSlotEach, Holds
<1>2. \A i \in Slots(d) : Holds(d, i, k) => i = j
  BY DEF Coherent, OneSlotEach, Holds
<1>3. 0..(j - 1) \subseteq Slots(d) /\ j \notin 0..(j - 1)
  BY DEF Coherent, Arrays, Slots
<1>4. First(j)
  BY <1>1, <1>2, <1>3
<1>5. \A i \in Slots(d) : First(i) => i = j
  BY <1>2
<1>6. Place(d, k) = CHOOSE i \in Slots(d) : First(i)
  BY DEF Place
<1> QED
  BY <1>1, <1>4, <1>5, <1>6 DEF Found

\* What a key means is what lies in its slot.
LEMMA ValueOf ==
  ASSUME NEW d, Coherent(d)
  PROVE  /\ AsMap(d) = [k \in KeysOf(d) |-> AsMap(d)[k]]
         /\ DOMAIN AsMap(d) = KeysOf(d)
         /\ \A j \in Slots(d) : d.key[j] # NULL =>
              d.key[j] \in KeysOf(d) /\ AsMap(d)[d.key[j]] = d.val[j]
<1>1. ASSUME NEW j \in Slots(d), d.key[j] # NULL
      PROVE  d.key[j] \in KeysOf(d) /\ AsMap(d)[d.key[j]] = d.val[j]
  <2>1. d.key[j] \in KeysOf(d)
    BY <1>1 DEF KeysOf
  <2>2. dictionary_get(d, d.key[j], NULL) = d.val[j]
    BY <1>1, PlaceOf DEF dictionary_get
  <2> QED
    BY <2>1, <2>2 DEF AsMap
<1> QED
  BY <1>1 DEF AsMap

\* Two dictionaries with the same keys and values mean the same.
LEMMA SameMap ==
  ASSUME NEW d, Coherent(d), NEW m, m = [k \in DOMAIN m |-> m[k]],
         DOMAIN m = KeysOf(d),
         \A j \in Slots(d) : d.key[j] # NULL => m[d.key[j]] = d.val[j]
  PROVE  AsMap(d) = m
<1>1. \A k \in KeysOf(d) : AsMap(d)[k] = m[k]
  <2> SUFFICES ASSUME NEW k \in KeysOf(d) PROVE AsMap(d)[k] = m[k]
    OBVIOUS
  <2>1. PICK j \in Slots(d) : d.key[j] = k /\ k # NULL
    BY DEF KeysOf
  <2> QED
    BY <2>1, ValueOf
<1> QED
  BY <1>1, ValueOf

-----------------------------------------------------------------------------
(* What dictionary_set does *)

LEMMA NewIsCoherent ==
  Coherent(dictionary_new) /\ AsMap(dictionary_new) = [k \in {} |-> k]
<1> DEFINE d == dictionary_new
<1>1. d.n = 0 /\ d.size = DICTMINSZ /\ Slots(d) = 0..(DICTMINSZ - 1)
  BY DEF dictionary_new, Slots
<1>2. \A j \in Slots(d) : d.key[j] = NULL
  BY <1>1 DEF dictionary_new, Empty
<1>3. Arrays(d)
  BY <1>1, DictionaryAssumption DEF Arrays, dictionary_new, Empty
<1>4. Packed(d) /\ OneSlotEach(d)
  BY <1>1, <1>2 DEF Packed, OneSlotEach
<1>5. KeysOf(d) = {}
  BY <1>2 DEF KeysOf
<1> QED
  BY <1>3, <1>4, <1>5 DEF Coherent, AsMap

\* A key that is there gets another value.
LEMMA Update ==
  ASSUME NEW d, Coherent(d), NEW j \in Slots(d), d.key[j] # NULL, NEW v
  PROVE  LET e == [d EXCEPT !.val[j] = v]
         IN  Coherent(e) /\ AsMap(e) = With(AsMap(d), d.key[j], v)
<1> DEFINE e == [d EXCEPT !.val[j] = v]
           m == With(AsMap(d), d.key[j], v)
<1>1. /\ e.n = d.n /\ e.size = d.size /\ Slots(e) = Slots(d)
      /\ e.key = d.key /\ e.hash = d.hash
      /\ e.val = [d.val EXCEPT ![j] = v]
      /\ e = [n |-> e.n, size |-> e.size, key |-> e.key, val |-> e.val,
              hash |-> e.hash]
  <2>1. d = [n |-> d.n, size |-> d.size, key |-> d.key, val |-> d.val, hash |-> d.hash]
    BY DEF Coherent, Arrays
  <2>2. e = [n |-> d.n, size |-> d.size, key |-> d.key,
             val |-> [d.val EXCEPT ![j] = v], hash |-> d.hash]
    BY <2>1
  <2> HIDE DEF e
  <2> QED
    BY <2>2 DEF Slots
<1> HIDE DEF e
<1>11. e.val = [i \in Slots(d) |-> IF i = j THEN v ELSE d.val[i]]
  <2>1. d.val = [i \in Slots(d) |-> d.val[i]]
    BY DEF Coherent, Arrays
  <2> QED
    BY <1>1, <2>1
<1>2. Arrays(e)
  BY <1>1, <1>11 DEF Coherent, Arrays
<1>3. Packed(e) /\ OneSlotEach(e)
  BY <1>1 DEF Coherent, Packed, OneSlotEach
<1>4. Coherent(e) /\ KeysOf(e) = KeysOf(d)
  BY <1>1, <1>2, <1>3 DEF Coherent, KeysOf
<1>5. DOMAIN m = KeysOf(e)
  BY <1>4, ValueOf DEF With
<1>6. ASSUME NEW i \in Slots(e), e.key[i] # NULL
      PROVE  m[e.key[i]] = e.val[i]
  <2>1. d.key[i] \in KeysOf(d) /\ AsMap(d)[d.key[i]] = d.val[i]
    BY <1>1, <1>6, ValueOf
  <2>2. d.key[i] = d.key[j] <=> i = j
    BY <1>1, <1>6 DEF Coherent, OneSlotEach
  <2>3. e.val[i] = IF i = j THEN v ELSE d.val[i]
    BY <1>1, <1>11
  <2>4. DOMAIN AsMap(d) = KeysOf(d)
    BY ValueOf
  <2>5. m[d.key[i]] = IF d.key[i] = d.key[j] THEN v ELSE AsMap(d)[d.key[i]]
    BY <2>1, <2>4 DEF With
  <2> QED
    BY <1>1, <2>1, <2>2, <2>3, <2>5
<1>7. AsMap(e) = m
  <2>1. m = [k \in DOMAIN m |-> m[k]]
    BY DEF With
  <2> HIDE DEF m
  <2> QED
    BY <1>4, <1>5, <1>6, <2>1, SameMap
<1> QED
  BY <1>4, <1>7 DEF e

\* The dictionary grows, and stays what it is.
LEMMA Grow ==
  ASSUME NEW d, Coherent(d)
  PROVE  LET e == dictionary_grow(d)
         IN  Coherent(e) /\ AsMap(e) = AsMap(d) /\ KeysOf(e) = KeysOf(d)
               /\ e.n < e.size
<1> DEFINE e == dictionary_grow(d)
<1>1. /\ d.size \in Nat \ {0} /\ d.n \in 0..d.size
      /\ e.n = d.n /\ e.size = 2 * d.size /\ Slots(e) = 0..(2 * d.size - 1)
      /\ Slots(d) \subseteq Slots(e) /\ Slots(d) = 0..(d.size - 1)
  BY DEF Coherent, Arrays, Slots, dictionary_grow
<1>2. /\ e.key = [j \in Slots(e) |-> IF j < d.size THEN d.key[j] ELSE NULL]
      /\ e.val = [j \in Slots(e) |-> IF j < d.size THEN d.val[j] ELSE NULL]
      /\ e.hash = [j \in Slots(e) |-> IF j < d.size THEN d.hash[j] ELSE NULL]
  BY <1>1 DEF dictionary_grow, Doubled
<1>3. \A j \in Slots(e) : e.key[j] # NULL =>
        j \in Slots(d) /\ e.key[j] = d.key[j] /\ e.val[j] = d.val[j]
          /\ e.hash[j] = d.hash[j]
  BY <1>1, <1>2
<1>4. \A j \in Slots(d) : e.key[j] = d.key[j]
  BY <1>1, <1>2
<1>5. Arrays(e)
  <2>1. e = [n |-> e.n, size |-> e.size, key |-> e.key, val |-> e.val, hash |-> e.hash]
    BY DEF dictionary_grow
  <2>2. e.key = [j \in Slots(e) |-> e.key[j]]
    BY <1>2
  <2>3. e.val = [j \in Slots(e) |-> e.val[j]]
    BY <1>2
  <2>4. e.hash = [j \in Slots(e) |-> e.hash[j]]
    BY <1>2
  <2>5. e.size \in Nat \ {0} /\ e.n \in 0..e.size
    BY <1>1
  <2> HIDE DEF e
  <2> QED
    BY <2>1, <2>2, <2>3, <2>4, <2>5 DEF Arrays
<1>6. Packed(e)
  <2>1. \A j \in Slots(e) : j \notin Slots(d) => e.key[j] = NULL /\ ~(j < d.n)
    BY <1>1, <1>2
  <2> QED
    BY <1>1, <1>4, <2>1 DEF Coherent, Packed
<1>7. OneSlotEach(e)
  BY <1>1, <1>3, <1>4 DEF Coherent, OneSlotEach
<1>8. Coherent(e)
  BY <1>5, <1>6, <1>7 DEF Coherent
<1>9. KeysOf(e) = KeysOf(d)
  BY <1>1, <1>3, <1>4 DEF KeysOf
<1>10. AsMap(e) = AsMap(d)
  <2>1. \A j \in Slots(e) : e.key[j] # NULL => AsMap(d)[e.key[j]] = e.val[j]
    BY <1>3, ValueOf
  <2> QED
    BY <1>8, <1>9, <2>1, ValueOf, SameMap
<1> QED
  BY <1>1, <1>8, <1>9, <1>10

\* The search for a free slot ends at place n.
LEMMA FreeIsNext ==
  ASSUME NEW d, Coherent(d), d.n < d.size
  PROVE  FreeSlot(d) = d.n /\ d.n \in Slots(d) /\ d.key[d.n] = NULL
<1> DEFINE Free(j) == /\ d.key[j] = NULL
                      /\ \A m \in Slots(d) : d.key[m] = NULL => Behind(d, j) <= Behind(d, m)
<1>1. d.n \in Slots(d) /\ \A j \in Slots(d) : j \in Nat /\ j < d.size
  BY DEF Coherent, Arrays, Slots
<1>2. d.n \in Nat /\ d.size \in Nat
  BY DEF Coherent, Arrays
<1>3. \A j \in Slots(d) : d.key[j] = NULL <=> d.n <= j
  BY <1>1, <1>2 DEF Coherent, Packed
<1>4. \A j \in Slots(d) : d.key[j] = NULL => Behind(d, j) = j - d.n
  BY <1>1, <1>2, <1>3 DEF Behind
<1>5. Free(d.n)
  BY <1>1, <1>2, <1>3, <1>4
<1>6. \A j \in Slots(d) : Free(j) => j = d.n
  BY <1>1, <1>2, <1>3, <1>4
<1>7. FreeSlot(d) = CHOOSE j \in Slots(d) : Free(j)
  BY DEF FreeSlot
<1> QED
  BY <1>1, <1>3, <1>5, <1>6, <1>7, <1>2

\* A key that is not there yet is added.
LEMMA Add ==
  ASSUME NEW d, Coherent(d), d.n < d.size, NEW k, k # NULL, k \notin KeysOf(d), NEW v
  PROVE  Coherent(Insert(d, k, v)) /\ AsMap(Insert(d, k, v)) = With(AsMap(d), k, v)
<1> DEFINE e == Insert(d, k, v)
           m == With(AsMap(d), k, v)
<1>1. /\ d.size \in Nat \ {0} /\ d.n \in Nat /\ d.n \in Slots(d)
      /\ Slots(d) = 0..(d.size - 1)
  BY FreeIsNext DEF Coherent, Arrays, Slots
<1>2. e = [d EXCEPT !.key[d.n] = k, !.val[d.n] = v,
                    !.hash[d.n] = dictionary_hash(k), !.n = @ + 1]
  BY FreeIsNext DEF Insert
<1>3. /\ e.n = d.n + 1 /\ e.size = d.size /\ Slots(e) = Slots(d)
      /\ e.key = [j \in Slots(d) |-> IF j = d.n THEN k ELSE d.key[j]]
      /\ e.val = [j \in Slots(d) |-> IF j = d.n THEN v ELSE d.val[j]]
      /\ e.hash = [j \in Slots(d) |-> IF j = d.n THEN dictionary_hash(k) ELSE d.hash[j]]
      /\ e = [n |-> e.n, size |-> e.size, key |-> e.key, val |-> e.val, hash |-> e.hash]
  <2>1. d = [n |-> d.n, size |-> d.size, key |-> d.key, val |-> d.val, hash |-> d.hash]
    BY DEF Coherent, Arrays
  <2>2. e = [n |-> d.n + 1, size |-> d.size, key |-> [d.key EXCEPT ![d.n] = k],
             val |-> [d.val EXCEPT ![d.n] = v],
             hash |-> [d.hash EXCEPT ![d.n] = dictionary_hash(k)]]
    BY <1>2, <2>1
  <2> HIDE DEF e
  <2>3. e.n = d.n + 1 /\ e.size = d.size /\ Slots(e) = Slots(d)
    BY <2>2 DEF Slots
  <2>4. e.key = [j \in Slots(d) |-> IF j = d.n THEN k ELSE d.key[j]]
    BY <2>2 DEF Coherent, Arrays
  <2>5. e.val = [j \in Slots(d) |-> IF j = d.n THEN v ELSE d.val[j]]
    BY <2>2 DEF Coherent, Arrays
  <2>6. e.hash = [j \in Slots(d) |-> IF j = d.n THEN dictionary_hash(k) ELSE d.hash[j]]
    BY <2>2 DEF Coherent, Arrays
  <2> QED
    BY <2>2, <2>3, <2>4, <2>5, <2>6
<1> HIDE DEF e
<1>4. \A j \in Slots(d) : d.key[j] # NULL => d.key[j] # k
  BY DEF KeysOf
<1>5. Arrays(e)
  BY <1>1, <1>3 DEF Arrays
<1>6. Packed(e)
  <2>1. \A j \in Slots(d) : j # d.n => (e.key[j] # NULL <=> j < d.n)
    BY <1>3 DEF Coherent, Packed
  <2>2. \A j \in Slots(d) : j \in Nat
    BY <1>1
  <2>3. e.key[d.n] = k
    BY <1>1, <1>3
  <2>4. \A j \in Slots(d) : j # d.n => (j < d.n <=> j < d.n + 1)
    BY <1>1, <2>2
  <2>5. d.n < d.n + 1
    BY <1>1
  <2>6. ASSUME NEW j \in Slots(d) PROVE e.key[j] # NULL <=> j < d.n + 1
    BY <2>1, <2>3, <2>4, <2>5
  <2>7. e.n = d.n + 1 /\ Slots(e) = Slots(d)
    BY <1>3
  <2> QED
    BY <2>6, <2>7 DEF Packed
<1>7. OneSlotEach(e)
  <2>1. \A j \in Slots(d) : e.key[j] # NULL => e.hash[j] = dictionary_hash(e.key[j])
    BY <1>3 DEF Coherent, OneSlotEach
  <2>2. ASSUME NEW i \in Slots(d), NEW j \in Slots(d),
               e.key[i] # NULL, e.key[i] = e.key[j]
        PROVE  i = j
    <3>1. /\ e.key[i] = IF i = d.n THEN k ELSE d.key[i]
          /\ e.key[j] = IF j = d.n THEN k ELSE d.key[j]
      BY <1>3
    <3>2. d.key[i] # NULL /\ d.key[i] = d.key[j] => i = j
      BY DEF Coherent, OneSlotEach
    <3> QED
      BY <1>4, <2>2, <3>1, <3>2
  <2>3. Slots(e) = Slots(d)
    BY <1>3
  <2> QED
    BY <2>1, <2>2, <2>3 DEF OneSlotEach
<1>8. Coherent(e)
  BY <1>5, <1>6, <1>7 DEF Coherent
<1>9. KeysOf(e) = KeysOf(d) \cup {k}
  <2>1. d.key[d.n] = NULL
    BY FreeIsNext
  <2>2. e.key[d.n] = k /\ \A j \in Slots(d) : j # d.n => e.key[j] = d.key[j]
    BY <1>1, <1>3
  <2>3. d.n \in Slots(e) /\ Slots(e) = Slots(d)
    BY <1>1, <1>3
  <2> QED
    BY <2>1, <2>2, <2>3 DEF KeysOf
<1>10. AsMap(e) = m
  <2>1. DOMAIN m = KeysOf(e)
    BY <1>9, ValueOf DEF With
  <2>2. ASSUME NEW j \in Slots(e), e.key[j] # NULL
        PROVE  m[e.key[j]] = e.val[j]
    <3>1. CASE j = d.n
      BY <1>1, <1>3, <3>1 DEF With
    <3>2. CASE j # d.n
      <4>1. e.key[j] = d.key[j] /\ d.key[j] # NULL /\ d.key[j] # k /\ e.val[j] = d.val[j]
        BY <1>3, <1>4, <2>2, <3>2
      <4>2. d.key[j] \in DOMAIN AsMap(d) /\ AsMap(d)[d.key[j]] = d.val[j]
        BY <1>3, <4>1, ValueOf
      <4> QED
        BY <4>1, <4>2 DEF With
    <3> QED
      BY <3>1, <3>2
  <2>3. m = [j \in DOMAIN m |-> m[j]]
    BY DEF With
  <2> HIDE DEF m
  <2> QED
    BY <1>8, <2>1, <2>2, <2>3, SameMap
<1> QED
  BY <1>8, <1>10 DEF e

\* Setting a key leaves a coherent dictionary, in which that key has its new
\* value and every other key the one it had: also when two keys share a
\* hash, and when the dictionary has to grow first.
THEOREM SetSetsOne ==
  ASSUME NEW d, Coherent(d), NEW k, k # NULL, NEW v
  PROVE  /\ Coherent(dictionary_set(d, k, v))
         /\ AsMap(dictionary_set(d, k, v)) = With(AsMap(d), k, v)
<1>1. CASE d.n > 0 /\ Found(d, k)
  <2>1. dictionary_set(d, k, v) = [d EXCEPT !.val[Place(d, k)] = v]
    BY <1>1 DEF dictionary_set
  <2>2. PICK j \in Slots(d) : d.key[j] = k
    BY <1>1 DEF Found, Holds
  <2>3. Place(d, k) = j
    BY <2>2, PlaceOf
  <2> QED
    BY <2>1, <2>2, <2>3, Update
<1>2. CASE ~(d.n > 0 /\ Found(d, k))
  <2>1. dictionary_set(d, k, v) = Insert(WithRoom(d), k, v)
    BY <1>2 DEF dictionary_set
  <2>2. k \notin KeysOf(d)
    <3> SUFFICES ASSUME NEW j \in Slots(d), d.key[j] = k PROVE FALSE
      BY DEF KeysOf
    <3>1. Found(d, k)
      BY PlaceOf
    <3>2. d.n > 0
      BY DEF Coherent, Packed, Arrays, Slots
    <3> QED
      BY <1>2, <3>1, <3>2
  <2>3. /\ Coherent(WithRoom(d)) /\ AsMap(WithRoom(d)) = AsMap(d)
        /\ KeysOf(WithRoom(d)) = KeysOf(d) /\ WithRoom(d).n < WithRoom(d).size
    <3>1. CASE d.n = d.size
      BY <3>1, Grow DEF WithRoom
    <3>2. CASE d.n # d.size
      <4>1. d.n < d.size
        BY <3>2 DEF Coherent, Arrays
      <4> QED
        BY <3>2, <4>1 DEF WithRoom
    <3> QED
      BY <3>1, <3>2
  <2> QED
    BY <2>1, <2>2, <2>3, Add
<1> QED
  BY <1>1, <1>2

-----------------------------------------------------------------------------
(* The configuration *)

\* dictionary_set sets one key, or refuses when there is none.
LEMMA SetOrNot ==
  ASSUME Coherent(dict), NEW k, NEW v, dict' = dictionary_set(dict, k, v)
  PROVE  /\ Coherent(dict)'
         /\ AsMap(dict)' = AsMap(dict) \/ AsMap(dict)' = With(AsMap(dict), k, v)
<1>1. CASE k = NULL
  BY <1>1 DEF dictionary_set
<1>2. CASE k # NULL
  BY <1>2, SetSetsOne
<1> QED
  BY <1>1, <1>2

\* What a step does to the dictionary: nothing, one key, or an end.
LEMMA StepOfDict ==
  ASSUME [Next]_vars
  PROVE  \/ dict' = dict
         \/ dict' = dictionary_new
         \/ \E k, v : dict' = dictionary_set(dict, k, v)
<1>1. CASE UNCHANGED vars
  BY <1>1 DEF vars
<1>2. CASE Open \/ SkipLine \/ ContinueLine \/ IgnoreLine \/ CountError \/ ParseCrashes
  BY <1>2 DEF Open, SkipLine, ContinueLine, IgnoreLine, CountError, ParseCrashes
<1>3. CASE RefuseLongLine \/ EndOfFile \/ ParseOptions
  BY <1>3 DEF RefuseLongLine, EndOfFile, ParseOptions
<1>4. CASE EnterSection
  BY <1>4 DEF EnterSection
<1>5. CASE StateValue
  BY <1>5 DEF StateValue
<1> QED
  BY <1>1, <1>2, <1>3, <1>4, <1>5 DEF Next

\* Whatever the file says, the dictionary stays coherent and every step of
\* the loading is a step of a map.
LEMMA StepOfMap ==
  ASSUME DictionaryCoherent, [Next]_vars
  PROVE  DictionaryCoherent' /\ [Map!Next]_(AsMap(dict))
<1>1. CASE dict' = dict
  BY <1>1 DEF DictionaryCoherent
<1>2. CASE dict' = dictionary_new
  <2>1. Map!GiveUp
    BY <1>2, NewIsCoherent DEF Map!GiveUp, Map!NoSettings
  <2> QED
    BY <1>2, <2>1, NewIsCoherent DEF DictionaryCoherent, Map!Next
<1>3. ASSUME NEW k, NEW v, dict' = dictionary_set(dict, k, v)
      PROVE  DictionaryCoherent' /\ [Map!Next]_(AsMap(dict))
  <2>1. Coherent(dict)'
    BY <1>3, SetOrNot DEF DictionaryCoherent
  <2>2. CASE AsMap(dict)' = AsMap(dict)
    BY <2>1, <2>2 DEF DictionaryCoherent
  <2>3. CASE AsMap(dict)' = With(AsMap(dict), k, v)
    <3>1. k \in DOMAIN AsMap(dict)' /\ AsMap(dict)'[k] = v
      BY <2>3 DEF With
    <3>2. Map!State(k, AsMap(dict)'[k])
      BY <2>3, <3>1 DEF Map!State, With
    <3> QED
      BY <2>1, <3>1, <3>2 DEF DictionaryCoherent, Map!Next
  <2> QED
    BY <1>3, <2>2, <2>3, SetOrNot DEF DictionaryCoherent
<1> QED
  BY <1>1, <1>2, <1>3, StepOfDict

LEMMA InitOfMap == Init => DictionaryCoherent /\ Map!Init
BY NewIsCoherent DEF Init, Start, DictionaryCoherent, Map!Init, Map!NoSettings

\* The dictionary is coherent after every line, for all files, all hash
\* functions and all sizes it may start with.
THEOREM AlwaysCoherent == Spec => []DictionaryCoherent
<1>1. DictionaryCoherent /\ [Next]_vars => DictionaryCoherent'
  BY StepOfMap
<1> QED
  BY <1>1, InitOfMap, PTL DEF Spec

\* The loading of a file implements a map of settings.
THEOREM LoadingIsAMap == Spec => ImplementsMap
<1>1. DictionaryCoherent /\ [Next]_vars => [Map!Next]_(AsMap(dict))
  BY StepOfMap
<1> QED
  BY <1>1, InitOfMap, AlwaysCoherent, PTL DEF Spec, ImplementsMap, Map!Spec

-----------------------------------------------------------------------------
(* Induction. The theorems of the library take an operator; here it is the *)
(* set of the numbers for which something holds.                           *)

LEMMA LeastNumber ==
  ASSUME NEW T, T \subseteq Nat, T # {}
  PROVE  \E x \in T : \A y \in T : x <= y
<1> DEFINE less == {r \in Nat \X Nat : r[1] < r[2]}
<1>1. IsWellFoundedOn(less, Nat)
  BY NatLessThanWellFounded, Zenon DEF OpToRel
<1> HIDE DEF less
<1>2. PICK x \in T : \A y \in T : ~(<<y, x>> \in less)
  BY <1>1, WFMin, Zenon
<1>3. ASSUME NEW y \in T PROVE x <= y
  <2>1. x \in Nat /\ y \in Nat /\ ~(<<y, x>> \in less)
    BY <1>2
  <2>2. <<y, x>> \in Nat \X Nat /\ <<y, x>>[1] = y /\ <<y, x>>[2] = x
    BY <2>1
  <2>3. ~(y < x)
    BY <2>1, <2>2, Zenon DEF less
  <2> QED BY <2>1, <2>3
<1> QED BY <1>3

LEMMA Induction ==
  ASSUME NEW S, NEW m \in Nat, NEW n \in Nat, m \in S,
         \A k \in m..(n - 1) : k \in S => k + 1 \in S
  PROVE  m..n \subseteq S
<1> DEFINE T == {k \in m..n : k \notin S}
<1> SUFFICES ASSUME T # {} PROVE FALSE
  OBVIOUS
<1>1. T \subseteq Nat
  OBVIOUS
<1>2. PICK x \in T : \A y \in T : x <= y
  <2> HIDE DEF T
  <2> QED BY <1>1, LeastNumber
<1>3. x \in m..n /\ x \notin S /\ x # m
  OBVIOUS
<1>4. x - 1 \in m..(n - 1) /\ x - 1 \in m..n /\ (x - 1) + 1 = x
  BY <1>3
<1>5. x - 1 \notin T
  BY <1>2, <1>4
<1> QED BY <1>3, <1>4, <1>5

LEMMA GreatestNumber ==
  ASSUME NEW n \in Nat, NEW W, W \subseteq 0..n, W # {}
  PROVE  \E x \in W : \A y \in W : y <= x
<1> DEFINE T == {n - y : y \in W}
<1>1. T \subseteq Nat /\ T # {}
  <2>1. \A y \in W : n - y \in Nat
    OBVIOUS
  <2>2. \E y \in W : n - y \in T
    OBVIOUS
  <2> QED BY <2>1, <2>2
<1>2. PICK z \in T : \A y \in T : z <= y
  <2> HIDE DEF T
  <2> QED BY <1>1, LeastNumber
<1>3. PICK x \in W : z = n - x
  OBVIOUS
<1>4. \A y \in W : n - x <= n - y
  BY <1>2, <1>3
<1> QED BY <1>4

-----------------------------------------------------------------------------
(* Lines that go on *)

Token == STRING

LEMMA Stripped ==
  ASSUME NEW S, NEW s \in Seq(S)
  PROVE  StripRight(s) \in Seq(S) /\ Len(StripRight(s)) <= Len(s)
<1> DEFINE words == {j \in 1..Len(s) : s[j] # " "}
           last == CHOOSE j \in words : \A m \in words : m <= j
<1>1. CASE words = {}
  <2>1. StripRight(s) = <<>>
    BY <1>1 DEF StripRight
  <2>2. <<>> \in Seq(S) /\ Len(<<>>) = 0 /\ Len(s) \in Nat
    OBVIOUS
  <2> QED BY <2>1, <2>2
<1>2. CASE words # {}
  <2>1. \E x \in words : \A y \in words : y <= x
    <3>1. Len(s) \in Nat
      OBVIOUS
    <3>2. words \subseteq 0..Len(s)
      <4>1. 1..Len(s) \subseteq 0..Len(s)
        BY <3>1
      <4> QED BY <4>1, Zenon
    <3> HIDE DEF words
    <3> QED BY <1>2, <3>1, <3>2, GreatestNumber
  <2>2. last \in words
    <3> HIDE DEF words
    <3> QED BY <2>1
  <2>3. last \in 1..Len(s)
    BY <2>2
  <2>4. StripRight(s) = SubSeq(s, 1, last)
    BY <1>2 DEF StripRight
  <2> HIDE DEF last
  <2> QED BY <2>3, <2>4, SubSeqProperties
<1> QED BY <1>1, <1>2

\* What has been read of a file.
IsReading(r) ==
  /\ r.done \in Seq(Seq(Token))
  /\ r.rest \in Seq(Token)
  /\ r.long \in BOOLEAN

LEMMA DoneHasLength ==
  ASSUME NEW r, IsReading(r)
  PROVE  Len(r.done) \in Nat
<1>1. r.done \in Seq(Seq(Token))
  BY DEF IsReading
<1> QED BY <1>1

Leads(s, t) == Len(s) <= Len(t) /\ \A j \in 1..Len(s) : s[j] = t[j]

LEMMA LeadsOn ==
  ASSUME NEW s, NEW t, NEW u, Len(s) \in Nat, Len(t) \in Nat, Len(u) \in Nat,
         Leads(s, t), Leads(t, u)
  PROVE  Leads(s, u)
BY DEF Leads

LEMMA JoinGoesOn ==
  ASSUME NEW r, IsReading(r), NEW l \in Seq(Token)
  PROVE  /\ IsReading(Join(r, l))
         /\ r.long => Join(r, l).long
         /\ Leads(r.done, Join(r, l).done)
<1> DEFINE all == r.rest \o l
           now == StripRight(all)
           long == r.long \/ Len(all) + 2 > ASCIILINESZ
<1>1. now \in Seq(Token)
  <2>1. all \in Seq(Token)
    BY DEF IsReading
  <2> HIDE DEF all
  <2> QED BY <2>1, Stripped
<1>2. long \in BOOLEAN /\ (r.long => long)
  BY Zenon DEF IsReading
<1> HIDE DEF all, now, long
<1>3. CASE GoesOn(now)
  <2>1. Join(r, l) = [done |-> r.done, rest |-> SubSeq(now, 1, Len(now) - 1), long |-> long]
    BY <1>3, Zenon DEF Join, all, now, long
  <2>2. SubSeq(now, 1, Len(now) - 1) \in Seq(Token)
    BY <1>1
  <2>3. Leads(r.done, r.done)
    BY DEF Leads, IsReading
  <2>4. /\ Join(r, l).done = r.done /\ Join(r, l).long = long
        /\ Join(r, l).rest = SubSeq(now, 1, Len(now) - 1)
    BY <2>1
  <2> QED BY <1>2, <2>2, <2>3, <2>4, Zenon DEF IsReading
<1>4. CASE ~GoesOn(now)
  <2>1. Join(r, l) = [done |-> Append(r.done, now), rest |-> <<>>, long |-> long]
    BY <1>4, Zenon DEF Join, all, now, long
  <2>2. Append(r.done, now) \in Seq(Seq(Token)) /\ Leads(r.done, Append(r.done, now))
    BY <1>1, AppendProperties DEF Leads, IsReading
  <2>3. <<>> \in Seq(Token)
    OBVIOUS
  <2>4. /\ Join(r, l).done = Append(r.done, now) /\ Join(r, l).long = long
        /\ Join(r, l).rest = <<>>
    BY <2>1
  <2> QED BY <1>2, <2>2, <2>3, <2>4, Zenon DEF IsReading
<1> QED BY <1>3, <1>4

-----------------------------------------------------------------------------
(* What the lines of a file are, put together *)

Solves(g, k, lines) ==
  g = [j \in 0..k |-> IF j = 0 THEN NothingRead ELSE Join(g[j - 1], lines[j])]

\* The recursion has a solution, and so is one.
LEMMA JoinedSolves ==
  ASSUME NEW lines, Len(lines) \in Nat
  PROVE  Solves(Joined(lines), Len(lines), lines)
<1> DEFINE n == Len(lines)
           S == {k \in 0..n : \E g : Solves(g, k, lines)}
<1>1. 0 \in S
  <2>1. Solves([j \in 0..0 |-> NothingRead], 0, lines)
    BY DEF Solves
  <2> QED BY <2>1
<1>2. ASSUME NEW k \in 0..(n - 1), k \in S PROVE k + 1 \in S
  <2>1. PICK g : Solves(g, k, lines)
    BY <1>2
  <2> DEFINE h == [j \in 0..(k + 1) |-> IF j = k + 1 THEN Join(g[k], lines[k + 1]) ELSE g[j]]
  <2>2. ASSUME NEW j \in 0..(k + 1)
        PROVE  h[j] = IF j = 0 THEN NothingRead ELSE Join(h[j - 1], lines[j])
    <3>1. CASE j = k + 1
      BY <3>1
    <3>2. CASE j # k + 1
      <4>1. j \in 0..k /\ h[j] = g[j] /\ (j # 0 => h[j - 1] = g[j - 1])
        BY <3>2
      <4>2. g[j] = IF j = 0 THEN NothingRead ELSE Join(g[j - 1], lines[j])
        BY <2>1, <4>1 DEF Solves
      <4> QED BY <4>1, <4>2
    <3> QED BY <3>1, <3>2
  <2>3. Solves(h, k + 1, lines)
    BY <2>2 DEF Solves
  <2>4. k + 1 \in 0..n
    OBVIOUS
  <2> QED BY <2>3, <2>4
<1>3. n \in 0..n
  OBVIOUS
<1>4. n \in S
  <2> HIDE DEF S
  <2> QED BY <1>1, <1>2, <1>3, Induction
<1>5. \E g : Solves(g, n, lines)
  BY <1>4
<1> QED BY <1>5, Zenon DEF Joined, Solves

LEMMA JoinedIs ==
  ASSUME NEW lines \in Seq(Seq(Token))
  PROVE  /\ Joined(lines)[0] = NothingRead
         /\ \A k \in 0..(Len(lines) - 1) :
              Joined(lines)[k + 1] = Join(Joined(lines)[k], lines[k + 1])
<1> DEFINE g == Joined(lines)
           n == Len(lines)
<1>1. n \in Nat
  OBVIOUS
<1>2. Solves(g, n, lines)
  BY <1>1, JoinedSolves
<1> HIDE DEF g
<1>3. \A j \in 0..n : g[j] = IF j = 0 THEN NothingRead ELSE Join(g[j - 1], lines[j])
  BY <1>2 DEF Solves
<1> QED BY <1>1, <1>3 DEF g

\* What has been read stays read: a line is not taken back, and a line that
\* is too long makes the file too long.
LEMMA ReadingGoesOn ==
  ASSUME NEW lines \in Seq(Seq(Token)), NEW m \in 0..Len(lines)
  PROVE  \A k \in m..Len(lines) :
           /\ IsReading(Joined(lines)[m]) /\ IsReading(Joined(lines)[k])
           /\ Joined(lines)[m].long => Joined(lines)[k].long
           /\ Leads(Joined(lines)[m].done, Joined(lines)[k].done)
<1> DEFINE g == Joined(lines)
           n == Len(lines)
           R == {k \in 0..n : IsReading(g[k])}
           S == {k \in m..n : (g[m].long => g[k].long) /\ Leads(g[m].done, g[k].done)}
<1>1. n \in Nat /\ m \in Nat /\ 0 \in Nat
  OBVIOUS
<1>2. /\ g[0] = NothingRead
      /\ \A k \in 0..(n - 1) : g[k + 1] = Join(g[k], lines[k + 1])
  BY JoinedIs
<1>3. \A k \in 0..(n - 1) : lines[k + 1] \in Seq(Token) /\ k + 1 \in 0..n /\ k \in 0..n
  OBVIOUS
<1> HIDE DEF g, n
<1>4. 0..n \subseteq R
  <2>1. 0 \in R
    <3>1. <<>> \in Seq(Seq(Token)) /\ <<>> \in Seq(Token)
      OBVIOUS
    <3>2. /\ NothingRead.done = <<>> /\ NothingRead.rest = <<>>
          /\ NothingRead.long = FALSE
      BY DEF NothingRead
    <3>3. IsReading(NothingRead)
      BY <3>1, <3>2, Zenon DEF IsReading
    <3>4. 0 \in 0..n
      BY <1>1
    <3> QED BY <1>2, <3>3, <3>4
  <2>2. \A k \in 0..(n - 1) : k \in R => k + 1 \in R
    BY <1>2, <1>3, JoinGoesOn
  <2> HIDE DEF R
  <2> QED BY <1>1, <2>1, <2>2, Induction
<1>5. m..n \subseteq S
  <2>1. m \in S
    <3>1. g[m].done \in Seq(Seq(Token))
      BY <1>4 DEF IsReading, n
    <3>2. Leads(g[m].done, g[m].done)
      BY <3>1 DEF Leads
    <3> QED BY <3>2 DEF n
  <2>2. ASSUME NEW k \in m..(n - 1), k \in S PROVE k + 1 \in S
    <3>1. /\ IsReading(g[k + 1]) /\ IsReading(g[k]) /\ IsReading(g[m])
          /\ g[k].long => g[k + 1].long
          /\ Leads(g[k].done, g[k + 1].done)
      <4>1. k \in 0..(n - 1) /\ k \in 0..n /\ m \in 0..n
        BY <1>1 DEF n
      <4> QED BY <1>2, <1>3, <1>4, <4>1, JoinGoesOn
    <3>2. Leads(g[m].done, g[k + 1].done)
      <4>1. /\ Len(g[m].done) \in Nat /\ Len(g[k].done) \in Nat
            /\ Len(g[k + 1].done) \in Nat
        BY <3>1, DoneHasLength
      <4>2. Leads(g[m].done, g[k].done) /\ Leads(g[k].done, g[k + 1].done)
        BY <2>2, <3>1
      <4> QED BY <4>1, <4>2, LeadsOn
    <3>3. k + 1 \in m..n
      BY <1>1
    <3> QED BY <2>2, <3>1, <3>2, <3>3
  <2> HIDE DEF S
  <2> QED BY <1>1, <2>1, <2>2, Induction
<1>6. m \in 0..n /\ m..n \subseteq 0..n
  BY <1>1 DEF n
<1> QED BY <1>4, <1>5, <1>6 DEF g, n

-----------------------------------------------------------------------------
(* What the lines say, one line more at a time *)

LEMMA LastIs ==
  ASSUME NEW W, NEW n \in Nat, n \in W, \A m \in W : m \in Nat /\ m <= n
  PROVE  Latest(W) = n
<1>1. \A j \in W : (\A m \in W : m <= j) <=> j = n
  OBVIOUS
<1>2. (CHOOSE j \in W : \A m \in W : m <= j) = n
  BY <1>1
<1> QED BY <1>2 DEF Latest

LEMMA LastIsIn ==
  ASSUME NEW n \in Nat, NEW W, W \subseteq 0..n, W # {}
  PROVE  Latest(W) \in W
<1>1. \E x \in W : \A y \in W : y <= x
  BY GreatestNumber
<1> QED BY <1>1 DEF Latest

\* more says what says does, and a line after it.
OneMore(says, more, n) ==
  /\ n \in Nat /\ DOMAIN says = 1..n /\ DOMAIN more = 1..(n + 1)
  /\ \A j \in 1..n : more[j] = says[j]

LEMMA AboveStays ==
  ASSUME NEW says, NEW more, NEW n, OneMore(says, more, n)
  PROVE  /\ \A j \in 0..n : Above(more, j) = Above(says, j)
         /\ more[n + 1].kind # "section" => Above(more, n + 1) = Above(says, n)
         /\ more[n + 1].kind = "section" => Above(more, n + 1) = more[n + 1].name
<1> DEFINE Headers(s, j) == {m \in 1..j : s[m].kind = "section"}
<1>1. n \in Nat
  BY DEF OneMore
<1>2. \A s : \A j : Above(s, j) = IF Headers(s, j) = {} THEN <<>> ELSE s[Latest(Headers(s, j))].name
  BY DEF Above
<1>3. ASSUME NEW j \in 0..n PROVE Headers(more, j) = Headers(says, j)
  <2>1. 1..j \subseteq 1..n
    BY <1>1
  <2> QED BY <2>1 DEF OneMore
<1>4. ASSUME NEW j \in 0..n, Headers(says, j) # {}
      PROVE  Latest(Headers(says, j)) \in 1..n
  <2>1. Headers(says, j) \subseteq 0..n
    BY <1>1
  <2>2. Latest(Headers(says, j)) \in Headers(says, j)
    BY <1>1, <1>4, <2>1, LastIsIn
  <2>3. Headers(says, j) \subseteq 1..n
    BY <1>1
  <2> QED BY <2>2, <2>3
<1>5. ASSUME NEW j \in 0..n PROVE Above(more, j) = Above(says, j)
  <2> HIDE DEF Headers
  <2>1. CASE Headers(says, j) = {}
    BY <1>2, <1>3, <2>1
  <2>2. CASE Headers(says, j) # {}
    <3>1. more[Latest(Headers(says, j))] = says[Latest(Headers(says, j))]
      BY <1>4, <2>2 DEF OneMore
    <3> QED BY <1>2, <1>3, <2>2, <3>1
  <2> QED BY <2>1, <2>2
<1>6. ASSUME more[n + 1].kind # "section" PROVE Above(more, n + 1) = Above(says, n)
  <2>1. 1..(n + 1) = 1..n \cup {n + 1}
    BY <1>1
  <2>2. Headers(more, n + 1) = Headers(more, n)
    BY <1>6, <2>1
  <2>3. Above(more, n + 1) = Above(more, n)
    <3> HIDE DEF Headers
    <3> QED BY <1>2, <2>2
  <2>4. n \in 0..n
    BY <1>1
  <2> QED BY <1>5, <2>3, <2>4
<1>7. ASSUME more[n + 1].kind = "section" PROVE Above(more, n + 1) = more[n + 1].name
  <2>1. n + 1 \in Headers(more, n + 1) /\ \A m \in Headers(more, n + 1) : m \in Nat /\ m <= n + 1
    BY <1>1, <1>7
  <2>2. Latest(Headers(more, n + 1)) = n + 1
    <3> HIDE DEF Headers
    <3> QED BY <1>1, <2>1, LastIs
  <2> HIDE DEF Headers
  <2> QED BY <1>2, <2>1, <2>2
<1> QED BY <1>5, <1>6, <1>7

\* A line behind them that says x states option e.
AlsoStates(says, n, x, e) ==
  x.kind = "setting" /\ Above(says, n) \o <<":">> \o x.name = e.key

LEMMA StatesMore ==
  ASSUME NEW says, NEW more, NEW n, OneMore(says, more, n), NEW e
  PROVE  /\ AlsoStates(says, n, more[n + 1], e) =>
              Latest(States(more, e)) = n + 1 /\ n + 1 \in States(more, e)
         /\ ~AlsoStates(says, n, more[n + 1], e) =>
              /\ States(more, e) = States(says, e)
              /\ States(says, e) # {} =>
                   more[Latest(States(more, e))] = says[Latest(States(says, e))]
<1> DEFINE x == more[n + 1]
           k(s, j) == Above(s, j) \o <<":">> \o s[j].name
           new == AlsoStates(says, n, x, e)
<1>1. n \in Nat /\ 1..(n + 1) = 1..n \cup {n + 1}
  BY DEF OneMore
<1>2. \A s : States(s, e) = {j \in DOMAIN s : s[j].kind = "setting" /\ k(s, j) = e.key}
  BY DEF States
<1>3. ASSUME NEW j \in 1..n PROVE more[j] = says[j] /\ k(more, j) = k(says, j)
  <2>1. j \in 0..n
    BY <1>1
  <2>2. Above(more, j) = Above(says, j)
    BY <2>1, AboveStays
  <2>3. more[j] = says[j]
    BY DEF OneMore
  <2> QED BY <2>2, <2>3, Zenon
<1>4. x.kind = "setting" => k(more, n + 1) = Above(says, n) \o <<":">> \o x.name
  <2>1. ASSUME x.kind = "setting" PROVE Above(more, n + 1) = Above(says, n)
    <3>1. x.kind # "section"
      BY <2>1
    <3> QED BY <3>1, AboveStays
  <2> QED BY <2>1, Zenon
<1> HIDE DEF k
<1>5. \A j \in 1..n : j \in States(more, e) <=> j \in States(says, e)
  BY <1>1, <1>2, <1>3 DEF OneMore
<1>6. n + 1 \in States(more, e) <=> new
  <2>1. n + 1 \in DOMAIN more
    BY <1>1 DEF OneMore
  <2> QED BY <1>2, <1>4, <2>1 DEF AlsoStates
<1>7. States(says, e) \subseteq 1..n /\ States(more, e) \subseteq 1..n \cup {n + 1}
  BY <1>1, <1>2 DEF OneMore
<1> HIDE DEF new
<1>8. CASE new
  <2>1. n + 1 \in States(more, e)
    BY <1>6, <1>8
  <2>2. \A m \in States(more, e) : m \in Nat /\ m <= n + 1
    BY <1>1, <1>7
  <2>3. Latest(States(more, e)) = n + 1
    BY <1>1, <2>1, <2>2, LastIs
  <2> QED BY <1>8, <2>1, <2>3, Zenon DEF new
<1>9. CASE ~new
  <2>1. States(more, e) = States(says, e)
    BY <1>1, <1>5, <1>6, <1>7, <1>9
  <2>2. ASSUME States(says, e) # {}
        PROVE  more[Latest(States(says, e))] = says[Latest(States(says, e))]
    <3>1. States(says, e) \subseteq 0..n
      BY <1>1, <1>7
    <3>2. Latest(States(says, e)) \in States(says, e)
      BY <1>1, <2>2, <3>1, LastIsIn
    <3> QED BY <1>7, <3>2 DEF OneMore
  <2> QED BY <1>9, <2>1, <2>2, Zenon DEF new
<1> QED BY <1>8, <1>9

-----------------------------------------------------------------------------
(* What the loading knows after some lines *)

OptionKeys == {e.key : e \in CFG_GEN}

\* What a map of settings has to hold after lines that say this.
Agrees(says, map) ==
  \A e \in CFG_GEN :
    /\ e.key \in DOMAIN map <=> States(says, e) # {}
    /\ States(says, e) # {} => map[e.key] = says[Latest(States(says, e))].value

\* The text kept, the section, the number of errors and the settings are
\* those of what has been read.
Knowing(read, l, sec, errors, map) ==
  LET says == Saying(read.done)
  IN  /\ ~read.long
      /\ l = read.rest
      /\ sec = Above(says, Len(read.done))
      /\ errors > 0 <=> \E j \in DOMAIN says : says[j].kind = "error"
      /\ Agrees(says, map)

LEMMA WithOther ==
  ASSUME NEW map, NEW k, NEW v, NEW new, new = map \/ new = With(map, k, v),
         NEW j, j # k
  PROVE  /\ j \in DOMAIN new <=> j \in DOMAIN map
         /\ j \in DOMAIN map => new[j] = map[j]
BY DEF With

LEMMA OtherAgrees ==
  ASSUME NEW says, NEW more, NEW n, OneMore(says, more, n), NEW map, NEW new, NEW k, NEW v,
         Agrees(says, map), more[n + 1].kind # "setting", k \notin OptionKeys,
         new = map \/ new = With(map, k, v)
  PROVE  Agrees(more, new)
<1> SUFFICES ASSUME NEW e \in CFG_GEN
             PROVE  /\ e.key \in DOMAIN new <=> States(more, e) # {}
                    /\ States(more, e) # {} =>
                         new[e.key] = more[Latest(States(more, e))].value
  BY Zenon DEF Agrees
<1>1. /\ States(more, e) = States(says, e)
      /\ States(says, e) # {} => more[Latest(States(more, e))] = says[Latest(States(says, e))]
  <2>1. ~AlsoStates(says, n, more[n + 1], e)
    BY Zenon DEF AlsoStates
  <2> QED BY <2>1, StatesMore
<1>2. e.key # k
  BY DEF OptionKeys
<1>3. e.key \in DOMAIN new <=> e.key \in DOMAIN map
  BY <1>2 DEF With
<1>4. e.key \in DOMAIN map => new[e.key] = map[e.key]
  BY <1>2 DEF With
<1>5. /\ e.key \in DOMAIN map <=> States(says, e) # {}
      /\ States(says, e) # {} => map[e.key] = says[Latest(States(says, e))].value
  BY Zenon DEF Agrees
<1> HIDE DEF CFG_GEN
<1> QED BY <1>1, <1>3, <1>4, <1>5

\* A map in which k has been set, or not when it is no key.
Sets(map, k, v, new) ==
  \/ k = NULL /\ new = map
  \/ k # NULL /\ new = With(map, k, v)

\* A line that says x states the option of key k.
StatesKey(says, n, x, k) == \A e \in CFG_GEN : AlsoStates(says, n, x, e) <=> e.key = k

LEMMA SettingAgrees ==
  ASSUME NEW says, NEW more, NEW n, OneMore(says, more, n), NEW map, NEW new, NEW k,
         Agrees(says, map), NULL \notin OptionKeys,
         NEW x, x = more[n + 1], StatesKey(says, n, x, k), Sets(map, k, x.value, new)
  PROVE  Agrees(more, new)
<1> SUFFICES ASSUME NEW e \in CFG_GEN
             PROVE  /\ e.key \in DOMAIN new <=> States(more, e) # {}
                    /\ States(more, e) # {} =>
                         new[e.key] = more[Latest(States(more, e))].value
  BY Zenon DEF Agrees
<1>1. CASE e.key = k
  <2>1. Latest(States(more, e)) = n + 1 /\ n + 1 \in States(more, e)
    <3>1. AlsoStates(says, n, more[n + 1], e)
      BY <1>1 DEF StatesKey
    <3> QED BY <3>1, StatesMore
  <2>2. k # NULL
    BY <1>1 DEF OptionKeys
  <2>3. k \in DOMAIN new /\ new[k] = x.value
    <3>1. new = With(map, k, x.value)
      BY <2>2 DEF Sets
    <3> QED BY <3>1 DEF With
  <2> QED BY <1>1, <2>1, <2>3
<1>2. CASE e.key # k
  <2>1. /\ States(more, e) = States(says, e)
        /\ States(says, e) # {} => more[Latest(States(more, e))] = says[Latest(States(says, e))]
    <3>1. ~AlsoStates(says, n, more[n + 1], e)
      BY <1>2 DEF StatesKey
    <3> QED BY <3>1, StatesMore
  <2>2. /\ e.key \in DOMAIN new <=> e.key \in DOMAIN map
        /\ e.key \in DOMAIN map => new[e.key] = map[e.key]
    <3>1. new = map \/ new = With(map, k, x.value)
      BY DEF Sets
    <3> QED BY <1>2, <3>1, WithOther
  <2>3. /\ e.key \in DOMAIN map <=> States(says, e) # {}
        /\ States(says, e) # {} => map[e.key] = says[Latest(States(says, e))].value
    BY Zenon DEF Agrees
  <2> QED BY <2>1, <2>2, <2>3
<1> QED BY <1>1, <1>2

\* What the code does with a line is what the line says.
LEMMA Branches ==
  ASSUME NEW l, ReadsAs(l), Means(l).kind # "odd", NEW s, s = strstrip(l)
  PROVE  /\ LineEmpty(s) \/ LineComment(s) => Means(l).kind = "nothing"
         /\ LineSection(s) => /\ Means(l).kind = "section"
                              /\ \A old : SectionName(s, old) = Means(l).name
                              /\ Means(l).name \notin OptionKeys
         /\ LineValue(s) => /\ Means(l).kind = "setting"
                            /\ KeyName(s) = Means(l).name /\ Value(s) = Means(l).value
         /\ IsError(s) => Means(l).kind = "error"
<1> DEFINE m == Means(l)
<1>1. \/ m.kind = "nothing" /\ (LineEmpty(s) \/ LineComment(s))
      \/ /\ m.kind = "section" /\ LineSection(s)
         /\ UpTo(Tail(s), {"]"}) # <<>> /\ SectionName(s, <<>>) = m.name
         /\ m.name \notin OptionKeys
      \/ m.kind = "setting" /\ LineValue(s) /\ KeyName(s) = m.name /\ Value(s) = m.value
      \/ m.kind = "error" /\ IsError(s)
  BY Zenon DEF ReadsAs, OptionKeys
<1> HIDE DEF m
<1>2. ASSUME UpTo(Tail(s), {"]"}) # <<>>, NEW old
      PROVE  SectionName(s, old) = SectionName(s, <<>>)
  <2> DEFINE name == UpTo(Tail(s), {"]"})
  <2>1. \A o : SectionName(s, o) = CASE name # <<>> -> strlwc(strstrip(name))
                                     [] name = <<>> /\ o # <<>> -> <<Initial(o[1])>>
                                     [] OTHER -> o
    BY Zenon DEF SectionName
  <2> HIDE DEF name
  <2>2. \A o : SectionName(s, o) = strlwc(strstrip(name))
    BY <1>2, <2>1 DEF name
  <2> QED BY <2>2
<1>3. LineSection(s) => ~LineEmpty(s) /\ ~LineComment(s)
  BY DEF LineSection, LineEmpty, LineComment
<1>4. LineValue(s) => ~LineEmpty(s) /\ ~LineComment(s) /\ ~LineSection(s)
  BY Zenon DEF LineValue
<1>5. IsError(s) => ~LineEmpty(s) /\ ~LineComment(s) /\ ~LineSection(s) /\ ~LineValue(s)
  BY Zenon DEF IsError
<1> QED BY <1>1, <1>2, <1>3, <1>4, <1>5 DEF m

\* A text more has been read, and is not beyond Means.
Grown(read, more, l) ==
  /\ IsReading(read) /\ IsReading(more)
  /\ more.done = Append(read.done, l)
  /\ more.rest = <<>> /\ (more.long => read.long)
  /\ ReadsAs(l) /\ Means(l).kind # "odd"

LEMMA SayingMore ==
  ASSUME NEW read, NEW more, NEW l, Grown(read, more, l)
  PROVE  LET n == Len(read.done)
         IN  /\ Len(more.done) = n + 1
             /\ OneMore(Saying(read.done), Saying(more.done), n)
             /\ Saying(more.done)[n + 1] = Means(l)
<1> DEFINE done == read.done
           grown == more.done
           n == Len(done)
<1>1. done \in Seq(Seq(Token)) /\ grown \in Seq(Seq(Token)) /\ grown = Append(done, l)
  BY DEF Grown, IsReading
<1> HIDE DEF done, grown
<1>2. n \in Nat /\ DOMAIN done = 1..n
  BY <1>1
<1>3. Len(grown) = n + 1 /\ DOMAIN grown = 1..(n + 1)
  BY <1>1
<1>4. grown[n + 1] = l /\ \A j \in 1..n : grown[j] = done[j]
  BY <1>1
<1>5. n + 1 \in 1..(n + 1) /\ 1..n \subseteq 1..(n + 1)
  BY <1>2
<1> HIDE DEF n
<1>6. OneMore(Saying(done), Saying(grown), n)
  BY <1>2, <1>3, <1>4, <1>5 DEF OneMore, Saying
<1>7. Saying(grown)[n + 1] = Means(l)
  BY <1>3, <1>4, <1>5 DEF Saying
<1> QED BY <1>3, <1>6, <1>7 DEF done, grown, n

\* One of the lines is an error.
HasError(says) == \E j \in DOMAIN says : says[j].kind = "error"

LEMMA ErrorsMore ==
  ASSUME NEW says, NEW more, NEW n, OneMore(says, more, n)
  PROVE  HasError(more) <=> HasError(says) \/ more[n + 1].kind = "error"
<1>1. n \in Nat /\ 1..(n + 1) = 1..n \cup {n + 1}
  BY DEF OneMore
<1> QED BY <1>1 DEF OneMore, HasError

\* A line that says nothing, and one that is an error.
LEMMA NoSetting ==
  ASSUME NEW read, NEW more, NEW l, Grown(read, more, l),
         NEW t, NEW sec, NEW errors \in Nat, NEW map, Knowing(read, t, sec, errors, map),
         NULL \notin OptionKeys,
         NEW s, s = strstrip(l)
  PROVE  /\ LineEmpty(s) \/ LineComment(s) => Knowing(more, <<>>, sec, errors, map)
         /\ IsError(s) => Knowing(more, <<>>, sec, errors + 1, map)
<1> DEFINE says == Saying(read.done)
           saying == Saying(more.done)
           n == Len(read.done)
           x == Means(l)
<1>1. OneMore(says, saying, n) /\ saying[n + 1] = x /\ Len(more.done) = n + 1
  BY SayingMore
<1>2. /\ ~read.long /\ sec = Above(says, n) /\ (errors > 0 <=> HasError(says))
      /\ Agrees(says, map)
  BY Zenon DEF Knowing, HasError
<1>3. ~more.long /\ more.rest = <<>>
  BY <1>2, Zenon DEF Grown
<1>4. \A new : /\ ~more.long /\ <<>> = more.rest /\ sec = Above(saying, Len(more.done))
               /\ (new > 0 <=> HasError(saying)) /\ Agrees(saying, map)
               => Knowing(more, <<>>, sec, new, map)
  BY Zenon DEF Knowing, HasError
<1>5. /\ LineEmpty(s) \/ LineComment(s) => x.kind = "nothing"
      /\ IsError(s) => x.kind = "error"
  BY Branches, Zenon DEF Grown
<1> HIDE DEF says, saying, n, x
<1>6. HasError(saying) <=> HasError(says) \/ x.kind = "error"
  BY <1>1, ErrorsMore
<1>7. ASSUME x.kind \in {"nothing", "error"}
      PROVE  sec = Above(saying, Len(more.done)) /\ Agrees(saying, map)
  <2>1. x.kind # "section" /\ x.kind # "setting"
    BY <1>7
  <2>2. Above(saying, n + 1) = Above(says, n)
    BY <1>1, <2>1, AboveStays
  <2>3. Agrees(saying, map)
    BY <1>1, <1>2, <2>1, OtherAgrees
  <2> QED BY <1>1, <1>2, <2>2, <2>3
<1>8. ASSUME LineEmpty(s) \/ LineComment(s) PROVE Knowing(more, <<>>, sec, errors, map)
  <2>1. x.kind = "nothing"
    BY <1>5, <1>8
  <2>2. errors > 0 <=> HasError(saying)
    BY <1>2, <1>6, <2>1
  <2> QED BY <1>3, <1>4, <1>7, <2>1, <2>2
<1>9. ASSUME IsError(s) PROVE Knowing(more, <<>>, sec, errors + 1, map)
  <2>1. x.kind = "error"
    BY <1>5, <1>9
  <2>2. errors + 1 > 0 <=> HasError(saying)
    BY <1>6, <2>1
  <2> QED BY <1>3, <1>4, <1>7, <2>1, <2>2
<1> QED BY <1>8, <1>9

\* A header, which names the section of what follows.
LEMMA HeaderRead ==
  ASSUME NEW read, NEW more, NEW l, Grown(read, more, l),
         NEW t, NEW sec, NEW errors \in Nat, NEW map, Knowing(read, t, sec, errors, map),
         NEW s, s = strstrip(l), LineSection(s),
         NEW new, NEW v, new = map \/ new = With(map, SectionName(s, sec), v)
  PROVE  Knowing(more, <<>>, SectionName(s, sec), errors, new)
<1> DEFINE says == Saying(read.done)
           saying == Saying(more.done)
           n == Len(read.done)
           x == Means(l)
<1>1. OneMore(says, saying, n) /\ saying[n + 1] = x /\ Len(more.done) = n + 1
  BY SayingMore
<1>2. ~read.long /\ (errors > 0 <=> HasError(says)) /\ Agrees(says, map)
  BY Zenon DEF Knowing, HasError
<1>3. ~more.long /\ more.rest = <<>>
  BY <1>2, Zenon DEF Grown
<1>4. x.kind = "section" /\ SectionName(s, sec) = x.name /\ x.name \notin OptionKeys
  BY Branches, Zenon DEF Grown
<1>5. /\ ~more.long /\ <<>> = more.rest /\ x.name = Above(saying, Len(more.done))
      /\ (errors > 0 <=> HasError(saying)) /\ Agrees(saying, new)
      => Knowing(more, <<>>, x.name, errors, new)
  BY Zenon DEF Knowing, HasError
<1> HIDE DEF says, saying, n, x
<1>6. HasError(saying) <=> HasError(says)
  BY <1>1, <1>4, ErrorsMore
<1>7. Above(saying, n + 1) = x.name
  BY <1>1, <1>4, AboveStays
<1>8. Agrees(saying, new)
  <2>1. x.kind # "setting"
    BY <1>4
  <2> QED BY <1>1, <1>2, <1>4, <2>1, OtherAgrees
<1> QED BY <1>1, <1>2, <1>3, <1>4, <1>5, <1>6, <1>7, <1>8

\* A setting, and the key it sets.
SettingKey(sec, s) == sec \o <<":">> \o KeyName(s)

LEMMA SettingRead ==
  ASSUME NEW read, NEW more, NEW l, Grown(read, more, l),
         NEW t, NEW sec, NEW errors \in Nat, NEW map, Knowing(read, t, sec, errors, map),
         NULL \notin OptionKeys,
         NEW s, s = strstrip(l), LineValue(s),
         NEW k, k = SettingKey(sec, s),
         NEW new, Sets(map, k, Value(s), new)
  PROVE  Knowing(more, <<>>, sec, errors, new)
<1> DEFINE says == Saying(read.done)
           saying == Saying(more.done)
           n == Len(read.done)
           x == Means(l)
<1>1. OneMore(says, saying, n) /\ saying[n + 1] = x /\ Len(more.done) = n + 1
  BY SayingMore
<1>2. /\ ~read.long /\ sec = Above(says, n) /\ (errors > 0 <=> HasError(says))
      /\ Agrees(says, map)
  BY Zenon DEF Knowing, HasError
<1>3. ~more.long /\ more.rest = <<>>
  BY <1>2, Zenon DEF Grown
<1>4. x.kind = "setting" /\ KeyName(s) = x.name /\ Value(s) = x.value
  BY Branches, Zenon DEF Grown
<1>5. /\ ~more.long /\ <<>> = more.rest /\ sec = Above(saying, Len(more.done))
      /\ (errors > 0 <=> HasError(saying)) /\ Agrees(saying, new)
      => Knowing(more, <<>>, sec, errors, new)
  BY Zenon DEF Knowing, HasError
<1> HIDE DEF says, saying, n, x
<1>6. HasError(saying) <=> HasError(says)
  BY <1>1, <1>4, ErrorsMore
<1>7. Above(saying, n + 1) = sec
  <2>1. x.kind # "section"
    BY <1>4
  <2> QED BY <1>1, <1>2, <2>1, AboveStays
<1>8. Agrees(saying, new)
  <2>1. SettingKey(sec, s) = Above(says, n) \o <<":">> \o saying[n + 1].name
    BY <1>1, <1>2, <1>4, Zenon DEF SettingKey
  <2>2. saying[n + 1].kind = "setting" /\ Value(s) = saying[n + 1].value
    BY <1>1, <1>4, Zenon
  <2> HIDE DEF Agrees
  <2>3. Sets(map, k, x.value, new)
    BY <1>4, Zenon
  <2>4. StatesKey(says, n, x, k)
    BY <1>1, <2>1, <2>2, Zenon DEF AlsoStates, StatesKey
  <2> QED BY <1>1, <1>2, <2>3, <2>4, SettingAgrees
<1> QED BY <1>1, <1>2, <1>3, <1>5, <1>6, <1>7, <1>8

-----------------------------------------------------------------------------
(* The loading *)

Kinds ==
  /\ file \in Files
  /\ lineno \in 0..Len(Lines)
  /\ errs \in 0..lineno
  /\ pc \in {"open", "load", "parse", "ready", "refused", "crashed"}
  /\ line \in Seq(Token)
  /\ Len(line) < ASCIILINESZ
  /\ DOMAIN cfg = Members

Know == Knowing(Joined(Lines)[lineno], line, section, errs, AsMap(dict))

Started == ~Faulty /\ \A e \in CFG_GEN : cfg[e.var] = Meant(e)

ReadInv ==
  /\ Kinds
  /\ DictionaryCoherent
  /\ pc = "open" => Start
  /\ pc = "parse" => lineno = Len(Lines) /\ errs = 0
  /\ Plain =>
       /\ pc \in {"load", "parse"} => Know
       /\ pc = "ready" => Started
       /\ pc = "refused" /\ given /\ file.there => Faulty

LEMMA TextIs ==
  ASSUME FilesAreTexts, file \in Files
  PROVE  /\ Lines \in Seq(Seq(Token)) /\ Len(Lines) \in Nat
         /\ \A j \in 0..(Len(Lines) - 1) : Lines[j + 1] \in Seq(Token)
<1>1. Lines \in Seq(Seq(Token))
  BY DEF FilesAreTexts, Lines, Token
<1> QED BY <1>1

LEMMA JoinIs ==
  ASSUME NEW read, NEW l
  PROVE  LET all == read.rest \o l
             now == StripRight(all)
         IN  /\ Join(read, l).long <=> read.long \/ Len(all) + 2 > ASCIILINESZ
             /\ GoesOn(now) => /\ Join(read, l).done = read.done
                               /\ Join(read, l).rest = SubSeq(now, 1, Len(now) - 1)
             /\ ~GoesOn(now) => /\ Join(read, l).done = Append(read.done, now)
                                /\ Join(read, l).rest = <<>>
<1> DEFINE all == read.rest \o l
           now == StripRight(all)
           long == read.long \/ Len(all) + 2 > ASCIILINESZ
<1>1. CASE GoesOn(now)
  <2>1. Join(read, l) = [done |-> read.done, rest |-> SubSeq(now, 1, Len(now) - 1),
                         long |-> long]
    BY <1>1, Zenon DEF Join
  <2> HIDE DEF all, now, long
  <2>2. /\ Join(read, l).done = read.done
        /\ Join(read, l).rest = SubSeq(now, 1, Len(now) - 1)
        /\ Join(read, l).long = long
    BY <2>1
  <2> QED BY <1>1, <2>2, Zenon DEF all, now, long
<1>2. CASE ~GoesOn(now)
  <2>1. Join(read, l) = [done |-> Append(read.done, now), rest |-> <<>>, long |-> long]
    BY <1>2, Zenon DEF Join
  <2> HIDE DEF all, now, long
  <2>2. /\ Join(read, l).done = Append(read.done, now)
        /\ Join(read, l).rest = <<>>
        /\ Join(read, l).long = long
    BY <2>1
  <2> QED BY <1>2, <2>2, Zenon DEF all, now, long
<1> QED BY <1>1, <1>2

\* The next line, and what the whole file makes of it.
LEMMA NextLine ==
  ASSUME FilesAreTexts, LinesAreRead, file \in Files, lineno \in 0..(Len(Lines) - 1),
         NEW read, read = Joined(Lines)[lineno],
         NEW more, more = Joined(Lines)[lineno + 1]
  PROVE  /\ IsReading(read) /\ IsReading(more)
         /\ more = Join(read, Lines[lineno + 1])
         /\ more.long => Reading.long
         /\ Plain => \A l : more.done = Append(read.done, l) =>
                              ReadsAs(l) /\ Means(l).kind # "odd"
<1> DEFINE n == Len(Lines)
           done == Reading.done
<1>1. Lines \in Seq(Seq(Token)) /\ n \in Nat
  BY TextIs
<1>2. lineno \in 0..n /\ lineno + 1 \in 0..n /\ lineno + 1 \in lineno..n /\ n \in (lineno + 1)..n
  BY <1>1
<1>3. more = Join(read, Lines[lineno + 1])
  BY <1>1, JoinedIs
<1>4. IsReading(read) /\ IsReading(more)
  BY <1>1, <1>2, ReadingGoesOn
<1>5. /\ IsReading(Reading) /\ (more.long => Reading.long)
      /\ Leads(more.done, Reading.done)
  BY <1>1, <1>2, ReadingGoesOn DEF Reading
<1>6. ASSUME Plain, NEW l, more.done = Append(read.done, l)
      PROVE  ReadsAs(l) /\ Means(l).kind # "odd"
  <2> DEFINE m == Len(read.done) + 1
  <2>1. read.done \in Seq(Seq(Token)) /\ done \in Seq(Seq(Token))
        /\ more.done \in Seq(Seq(Token))
    BY <1>4, <1>5, Zenon DEF IsReading
  <2>2. Len(more.done) = m /\ m \in 1..m /\ more.done[m] = l /\ Len(more.done) <= Len(done)
    BY <1>5, <1>6, <2>1 DEF Leads
  <2>3. m \in DOMAIN done /\ done[m] = l
    <3>1. more.done[m] = done[m]
      BY <1>5, <2>2 DEF Leads
    <3> HIDE DEF done, m
    <3>2. m \in 1..Len(done)
      <4>1. Len(done) \in Nat
        BY <2>1
      <4> QED BY <2>2, <4>1
    <3> QED BY <2>1, <2>2, <3>1, <3>2
  <2>4. ReadsAs(done[m])
    BY <2>3 DEF LinesAreRead, Lines, Reading
  <2>5. Means(done[m]).kind # "odd"
    BY <1>6, <2>3 DEF Plain, Says, Saying
  <2> QED BY <2>3, <2>4, <2>5
<1> QED BY <1>3, <1>4, <1>5, <1>6

LEMMA NoText ==
  StripRight(<<>>) = <<>> /\ strstrip(<<>>) = <<>> /\ ~GoesOn(<<>>)
<1>1. Len(<<>>) = 0
  OBVIOUS
<1>2. \A s : Len(s) = 0 => {j \in 1..Len(s) : s[j] # " "} = {}
  OBVIOUS
<1>3. StripRight(<<>>) = <<>>
  BY <1>1, <1>2, Zenon DEF StripRight
<1>4. StripLeft(<<>>) = <<>>
  BY <1>1, <1>2, Zenon DEF StripLeft
<1>5. strstrip(<<>>) = <<>>
  BY <1>3, <1>4, Zenon DEF strstrip
<1> QED BY <1>3, <1>5, Zenon DEF GoesOn

\* A line that fgets does not see is an empty one, unless the file is not
\* plain.
LEMMA SkippedIsEmpty ==
  ASSUME FilesAreTexts, Kinds, Plain, SkipLine
  PROVE  line = <<>> /\ Lines[lineno + 1] = <<>>
<1> DEFINE l == Lines[lineno + 1]
           n == Len(Lines)
<1>1. lineno \in 0..(n - 1) /\ n \in Nat /\ l \in Seq(Token) /\ line \in Seq(Token)
  BY TextIs DEF Kinds, SkipLine
<1>2. \/ line \o l = <<>>
      \/ lineno + 1 >= n /\ ~file.newline /\ Len(line \o l) = 1
  BY <1>1 DEF SkipLine, OneCharacter, HasNewline
<1>3. Len(line \o l) = Len(line) + Len(l) /\ Len(line) \in Nat /\ Len(l) \in Nat
  BY <1>1
<1>4. ~(lineno + 1 >= n /\ ~file.newline /\ Len(line \o l) = 1)
  <2> SUFFICES ASSUME lineno + 1 >= n, ~file.newline, Len(line \o l) = 1 PROVE FALSE
    OBVIOUS
  <2>1. lineno + 1 = n /\ n # 0
    BY <1>1
  <2>2. Lines # <<>>
    BY <2>1
  <2>3. Len(Lines[n]) > 1
    BY <2>2 DEF Plain
  <2> QED BY <1>3, <2>1, <2>3
<1>5. Len(line \o l) = 0
  BY <1>2, <1>4
<1> HIDE DEF l
<1>6. Len(line) = 0 /\ Len(l) = 0
  BY <1>3, <1>5
<1>7. line = <<>> /\ l = <<>>
  BY <1>1, <1>6, EmptySeq
<1> QED BY <1>7 DEF l

\* What is put together in line is what the reading has for the next line.
LEMMA TextOfReading ==
  ASSUME FilesAreTexts, LinesAreRead, Kinds, Know, lineno < Len(Lines),
         NEW read, read = Joined(Lines)[lineno],
         NEW more, more = Joined(Lines)[lineno + 1]
  PROVE  /\ line = read.rest /\ ~read.long
         /\ more.long <=> TooLong
         /\ GoesOn(Text) => more.done = read.done /\ more.rest = SubSeq(Text, 1, Len(Text) - 1)
         /\ ~GoesOn(Text) => more.done = Append(read.done, Text) /\ more.rest = <<>>
<1> DEFINE l == Lines[lineno + 1]
           all == line \o l
<1>1. lineno \in 0..(Len(Lines) - 1) /\ l \in Seq(Token) /\ line \in Seq(Token)
  BY TextIs DEF Kinds
<1>2. line = read.rest /\ ~read.long
  BY Zenon DEF Know, Knowing
<1>3. more = Join(read, l)
  BY <1>1, NextLine DEF Kinds
<1>4. /\ Join(read, l).long <=> read.long \/ Len(all) + 2 > ASCIILINESZ
      /\ GoesOn(Text) => /\ Join(read, l).done = read.done
                         /\ Join(read, l).rest = SubSeq(Text, 1, Len(Text) - 1)
      /\ ~GoesOn(Text) => /\ Join(read, l).done = Append(read.done, Text)
                          /\ Join(read, l).rest = <<>>
  BY <1>2, JoinIs, Zenon DEF Text
<1>5. Len(all) + 2 > ASCIILINESZ <=> TooLong
  <2>1. Len(all) = Len(line) + Len(l) /\ Len(line) \in Nat /\ Len(l) \in Nat
    BY <1>1
  <2> QED BY <2>1, ConfigAssumption DEF TooLong
<1> HIDE DEF all, l
<1> QED BY <1>2, <1>3, <1>4, <1>5, Zenon

LEMMA SkipKnows ==
  ASSUME FilesAreTexts, LinesAreRead, Plain, Kinds, Know, SkipLine
  PROVE  Know'
<1> DEFINE read == Joined(Lines)[lineno]
           more == Joined(Lines)[lineno + 1]
           l == Lines[lineno + 1]
<1>1. lineno \in 0..(Len(Lines) - 1) /\ lineno < Len(Lines) /\ errs \in Nat /\ file \in Files
  BY TextIs DEF Kinds, SkipLine
<1>2. line = <<>> /\ l = <<>>
  BY SkippedIsEmpty
<1>3. Text = <<>> /\ ~TooLong
  <2>1. Len(<<>>) = 0 /\ <<>> \o <<>> = <<>>
    OBVIOUS
  <2>2. Text = <<>>
    BY <1>2, <2>1, NoText, Zenon DEF Text
  <2>3. ~TooLong
    BY <1>2, <2>1, ConfigAssumption DEF TooLong
  <2> QED BY <2>2, <2>3
<1> HIDE DEF read, more, l
<1>4. Grown(read, more, <<>>)
  <2>1. /\ more.long <=> TooLong
        /\ more.done = Append(read.done, <<>>) /\ more.rest = <<>>
    BY <1>1, <1>3, TextOfReading, NoText DEF read, more
  <2>2. /\ IsReading(read) /\ IsReading(more)
        /\ \A t : more.done = Append(read.done, t) => ReadsAs(t) /\ Means(t).kind # "odd"
    BY <1>1, NextLine DEF read, more
  <2> QED BY <1>3, <2>1, <2>2, Zenon DEF Grown
<1>5. Knowing(read, line, section, errs, AsMap(dict))
  BY DEF Know, read
<1>6. LineEmpty(<<>>) /\ <<>> = strstrip(<<>>) /\ NULL \notin OptionKeys
  BY NoText, Zenon DEF LineEmpty, LinesAreRead, OptionKeys
<1>7. Knowing(more, <<>>, section, errs, AsMap(dict))
  BY <1>1, <1>4, <1>5, <1>6, NoSetting
<1>8. /\ Joined(Lines)[lineno]' = more /\ line' = <<>> /\ section' = section
      /\ errs' = errs /\ dict' = dict
  BY <1>2 DEF SkipLine, Lines, more
<1> QED BY <1>7, <1>8, Zenon DEF Know

LEMMA ContinueKnows ==
  ASSUME FilesAreTexts, LinesAreRead, Kinds, Know, ContinueLine
  PROVE  Know'
<1> DEFINE read == Joined(Lines)[lineno]
           more == Joined(Lines)[lineno + 1]
<1>1. /\ lineno < Len(Lines) /\ ~TooLong /\ GoesOn(Text)
      /\ lineno' = lineno + 1 /\ file' = file
      /\ line' = SubSeq(Text, 1, Len(Text) - 1)
      /\ section' = section /\ dict' = dict /\ errs' = errs
  BY Zenon DEF ContinueLine, Reads
<1>2. /\ more.long <=> TooLong
      /\ more.done = read.done /\ more.rest = SubSeq(Text, 1, Len(Text) - 1)
  BY <1>1, TextOfReading
<1>3. Joined(Lines)[lineno]' = more
  BY <1>1 DEF Lines
<1>4. Knowing(read, line, section, errs, AsMap(dict))
  BY DEF Know
<1> HIDE DEF read, more
<1>5. Knowing(more, line', section, errs, AsMap(dict))
  BY <1>1, <1>2, <1>4, Zenon DEF Knowing
<1> QED BY <1>1, <1>3, <1>5, Zenon DEF Know

\* A whole line: nothing, a header, a setting or an error.
LEMMA WholeKnows ==
  ASSUME FilesAreTexts, LinesAreRead, Plain, Kinds, Know, DictionaryCoherent,
         IgnoreLine \/ EnterSection \/ StateValue \/ CountError
  PROVE  Know'
<1> DEFINE read == Joined(Lines)[lineno]
           more == Joined(Lines)[lineno + 1]
           s == strstrip(Text)
           map == AsMap(dict)
<1>1. /\ lineno < Len(Lines) /\ ~TooLong /\ ~GoesOn(Text) /\ line' = <<>>
      /\ lineno' = lineno + 1 /\ file' = file
  BY Zenon DEF IgnoreLine, EnterSection, StateValue, CountError, Whole, Reads
<1>2. lineno \in 0..(Len(Lines) - 1) /\ errs \in Nat /\ file \in Files
  BY <1>1, TextIs DEF Kinds
<1>3. Grown(read, more, Text)
  <2> HIDE DEF read, more
  <2>1. /\ more.long <=> TooLong
        /\ more.done = Append(read.done, Text) /\ more.rest = <<>>
    BY <1>1, TextOfReading DEF read, more
  <2>2. /\ IsReading(read) /\ IsReading(more)
        /\ \A t : more.done = Append(read.done, t) => ReadsAs(t) /\ Means(t).kind # "odd"
    BY <1>2, NextLine DEF read, more
  <2> QED BY <1>1, <2>1, <2>2, Zenon DEF Grown
<1>4. Knowing(read, line, section, errs, map)
  BY DEF Know
<1>5. NULL \notin OptionKeys
  BY Zenon DEF LinesAreRead, OptionKeys
<1>6. Joined(Lines)[lineno]' = more
  BY <1>1 DEF Lines
<1>7. ASSUME Knowing(more, <<>>, section', errs', AsMap(dict')) PROVE Know'
  <2> HIDE DEF read, more
  <2> QED BY <1>1, <1>6, <1>7, Zenon DEF Know
<1>8. \A k, v : dict' = dictionary_set(dict, k, v) =>
               Sets(map, k, v, AsMap(dict'))
  <2> SUFFICES ASSUME NEW k, NEW v, dict' = dictionary_set(dict, k, v)
               PROVE  \/ k = NULL /\ AsMap(dict') = map
                      \/ k # NULL /\ AsMap(dict') = With(map, k, v)
    BY DEF Sets
  <2>1. CASE k = NULL
    <3>1. dictionary_set(dict, k, v) = dict
      BY <2>1 DEF dictionary_set
    <3>2. dict' = dict
      BY <3>1
    <3> QED BY <2>1, <3>2
  <2>2. CASE k # NULL
    BY <2>2, SetSetsOne DEF DictionaryCoherent
  <2> QED BY <2>1, <2>2
<1> HIDE DEF read, more, s, map
<1>9. CASE IgnoreLine
  <2>1. /\ LineEmpty(s) \/ LineComment(s)
        /\ section' = section /\ errs' = errs /\ dict' = dict
    BY <1>9 DEF IgnoreLine, s
  <2>2. Knowing(more, <<>>, section, errs, map)
    BY <1>2, <1>3, <1>4, <1>5, <2>1, NoSetting DEF s
  <2> QED BY <1>7, <2>1, <2>2, Zenon DEF map
<1>10. CASE CountError
  <2>1. IsError(s) /\ section' = section /\ errs' = errs + 1 /\ dict' = dict
    BY <1>10 DEF CountError, s
  <2>2. Knowing(more, <<>>, section, errs + 1, map)
    BY <1>2, <1>3, <1>4, <1>5, <2>1, NoSetting DEF s
  <2> QED BY <1>7, <2>1, <2>2, Zenon DEF map
<1>11. CASE EnterSection
  <2>1. /\ LineSection(s) /\ section' = SectionName(s, section) /\ errs' = errs
        /\ dict' = dictionary_set(dict, SectionName(s, section), NULL)
    BY <1>11, Zenon DEF EnterSection, s
  <2>2. \/ AsMap(dict') = map
        \/ AsMap(dict') = With(map, SectionName(s, section), NULL)
    BY <1>8, <2>1, Zenon DEF Sets
  <2>3. Knowing(more, <<>>, SectionName(s, section), errs, AsMap(dict'))
    BY <1>2, <1>3, <1>4, <2>1, <2>2, HeaderRead, Zenon DEF s
  <2> QED BY <1>7, <2>1, <2>3, Zenon
<1>12. CASE StateValue
  <2> DEFINE k == section \o <<":">> \o KeyName(s)
  <2>1. /\ LineValue(s) /\ section' = section /\ errs' = errs
        /\ dict' = dictionary_set(dict, k, Value(s))
    BY <1>12, Zenon DEF StateValue, s
  <2> HIDE DEF k
  <2>2. Sets(map, k, Value(s), AsMap(dict'))
    BY <1>8, <2>1, Zenon
  <2>3. k = SettingKey(section, s)
    BY Zenon DEF k, SettingKey
  <2>4. Knowing(more, <<>>, section, errs, AsMap(dict'))
    BY <1>2, <1>3, <1>4, <1>5, <2>1, <2>2, <2>3, SettingRead, Zenon DEF s
  <2> QED BY <1>7, <2>1, <2>4, Zenon
<1> QED BY <1>9, <1>10, <1>11, <1>12

LEMMA KindsGoOn ==
  ASSUME FilesAreTexts, Kinds, [Next]_vars
  PROVE  Kinds'
<1>1. /\ file \in Files /\ lineno \in 0..Len(Lines) /\ errs \in 0..lineno
      /\ pc \in {"open", "load", "parse", "ready", "refused", "crashed"}
      /\ line \in Seq(Token) /\ Len(line) < ASCIILINESZ /\ DOMAIN cfg = Members
      /\ Len(Lines) \in Nat
  BY TextIs DEF Kinds
<1>2. CASE UNCHANGED vars
  BY <1>1, <1>2 DEF vars, Kinds, Lines
<1>3. CASE Open \/ ParseCrashes \/ RefuseLongLine \/ EndOfFile
  BY <1>1, <1>3 DEF Open, ParseCrashes, RefuseLongLine, EndOfFile, Kinds, Lines
<1>4. CASE SkipLine
  BY <1>1, <1>4 DEF SkipLine, Kinds, Lines
<1>5. CASE ContinueLine
  <2>1. /\ lineno < Len(Lines) /\ ~TooLong /\ GoesOn(Text)
        /\ lineno' = lineno + 1 /\ file' = file /\ errs' = errs /\ pc' = pc /\ cfg' = cfg
        /\ line' = SubSeq(Text, 1, Len(Text) - 1)
    BY <1>5 DEF ContinueLine, Reads
  <2> DEFINE l == Lines[lineno + 1]
             all == line \o l
  <2>2. l \in Seq(Token)
    BY <1>1, <2>1, TextIs
  <2>3. all \in Seq(Token) /\ Len(all) = Len(line) + Len(l)
        /\ Len(line) \in Nat /\ Len(l) \in Nat
    BY <1>1, <2>2
  <2>4. Len(all) + 2 <= ASCIILINESZ
    BY <2>1, <2>3, ConfigAssumption DEF TooLong
  <2> HIDE DEF all
  <2>5. Text \in Seq(Token) /\ Len(Text) <= Len(all)
    BY <2>3, Stripped DEF Text, all
  <2>6. Len(Text) # 0
    BY <2>1, <2>5 DEF GoesOn
  <2> DEFINE t == Text
  <2>7. t \in Seq(Token) /\ Len(t) \in Nat /\ Len(t) <= Len(all) /\ Len(t) # 0
    BY <2>5, <2>6
  <2>8. line' = SubSeq(t, 1, Len(t) - 1)
    BY <2>1
  <2> HIDE DEF t
  <2>9. SubSeq(t, 1, Len(t) - 1) \in Seq(Token) /\ Len(SubSeq(t, 1, Len(t) - 1)) = Len(t) - 1
    <3> DEFINE m == Len(t) - 1
    <3>1. m \in Nat /\ 1 \in Nat /\ m <= Len(t)
      BY <2>7
    <3>2. 1 \in 1..(Len(t) + 1) /\ m \in 0..Len(t)
      BY <2>7
    <3>3. /\ 1 <= m => Len(SubSeq(t, 1, m)) = m - 1 + 1
          /\ ~(1 <= m) => Len(SubSeq(t, 1, m)) = 0
      BY <2>7, <3>2, SubSeqProperties
    <3>4. SubSeq(t, 1, m) \in Seq(Token)
      BY <2>7, <3>2, SubSeqProperties
    <3> HIDE DEF m
    <3>5. /\ 1 <= m => m - 1 + 1 = m
          /\ ~(1 <= m) => m = 0
      BY <3>1
    <3>6. Len(SubSeq(t, 1, m)) = m
      BY <3>3, <3>5
    <3> QED BY <3>4, <3>6, Zenon DEF m
  <2>10. line' \in Seq(Token) /\ Len(line') < ASCIILINESZ
    <3>1. Len(t) - 1 < ASCIILINESZ
      BY <2>3, <2>4, <2>7, ConfigAssumption
    <3> QED BY <2>8, <2>9, <3>1
  <2> QED BY <1>1, <2>1, <2>10 DEF Kinds, Lines
<1>6. CASE IgnoreLine \/ EnterSection \/ StateValue \/ CountError
  <2>1. /\ lineno < Len(Lines) /\ line' = <<>> /\ lineno' = lineno + 1
        /\ file' = file /\ pc' = pc /\ cfg' = cfg
    BY <1>6, Zenon DEF IgnoreLine, EnterSection, StateValue, CountError, Whole, Reads
  <2>2. errs' = errs \/ errs' = errs + 1
    BY <1>6, Zenon DEF IgnoreLine, EnterSection, StateValue, CountError
  <2>3. <<>> \in Seq(Token) /\ Len(<<>>) < ASCIILINESZ
    BY ConfigAssumption
  <2>4. lineno' \in 0..Len(Lines) /\ errs' \in 0..lineno'
    BY <1>1, <2>1, <2>2
  <2> QED BY <1>1, <2>1, <2>3, <2>4 DEF Kinds, Lines
<1>7. CASE ParseOptions
  <2>1. DOMAIN cfg' = Members /\ pc' = "ready"
        /\ UNCHANGED <<file, lineno, line, errs>>
    BY <1>7 DEF ParseOptions
  <2> QED BY <1>1, <2>1 DEF Kinds, Lines
<1> QED BY <1>2, <1>3, <1>4, <1>5, <1>6, <1>7 DEF Next

LEMMA StartKinds ==
  ASSUME FilesAreTexts, Init
  PROVE  Kinds
<1>1. file \in Files /\ lineno = 0 /\ line = <<>> /\ errs = 0 /\ pc = "open" /\ cfg = Fresh
  BY DEF Init, Start
<1>2. DOMAIN Fresh = Members
  BY DEF Fresh
<1>3. <<>> \in Seq(Token) /\ Len(<<>>) < ASCIILINESZ
  BY ConfigAssumption
<1>4. Len(Lines) \in Nat
  BY <1>1, TextIs
<1> QED BY <1>1, <1>2, <1>3, <1>4 DEF Kinds

\* Before the first line.
LEMMA KnowsNothing ==
  ASSUME FilesAreTexts, file \in Files, Start
  PROVE  Know
<1>1. /\ lineno = 0 /\ line = <<>> /\ section = <<>> /\ errs = 0 /\ dict = dictionary_new
  BY DEF Start
<1>2. Joined(Lines)[0] = NothingRead
  BY TextIs, JoinedIs
<1>3. /\ NothingRead.done = <<>> /\ NothingRead.rest = <<>> /\ NothingRead.long = FALSE
  BY DEF NothingRead
<1> DEFINE says == Saying(<<>>)
<1>4. DOMAIN says = {} /\ Len(<<>>) = 0
  BY DEF Saying
<1>5. Above(says, 0) = <<>>
  <2>1. {m \in 1..0 : says[m].kind = "section"} = {}
    OBVIOUS
  <2> QED BY <2>1 DEF Above
<1> HIDE DEF says
<1>6. Agrees(says, AsMap(dictionary_new))
  <2>1. \A e : States(says, e) = {}
    BY <1>4 DEF States
  <2>2. DOMAIN AsMap(dictionary_new) = {}
    BY NewIsCoherent
  <2> QED BY <2>1, <2>2 DEF Agrees
<1>7. Knowing(NothingRead, <<>>, <<>>, 0, AsMap(dictionary_new))
  <2>1. ~HasError(says)
    BY <1>4 DEF HasError
  <2>2. ~(0 > 0)
    OBVIOUS
  <2> QED BY <1>3, <1>4, <1>5, <1>6, <2>1, <2>2, Zenon DEF Knowing, HasError, says
<1> QED BY <1>1, <1>2, <1>7, Zenon DEF Know

LEMMA FileStays ==
  ASSUME [Next]_vars
  PROVE  /\ file' = file /\ given' = given
         /\ Plain' <=> Plain
         /\ Faulty' <=> Faulty
         /\ \A e : Meant(e)' = Meant(e)
<1>1. file' = file /\ given' = given
  <2>1. CASE UNCHANGED vars
    BY <2>1 DEF vars
  <2>2. CASE Open \/ SkipLine \/ RefuseLongLine \/ EndOfFile \/ ParseOptions \/ ParseCrashes
    BY <2>2 DEF Open, SkipLine, RefuseLongLine, EndOfFile, ParseOptions, ParseCrashes
  <2>3. CASE ContinueLine \/ IgnoreLine \/ EnterSection \/ StateValue \/ CountError
    BY <2>3, Zenon DEF ContinueLine, IgnoreLine, EnterSection, StateValue, CountError, Whole, Reads
  <2> QED BY <2>1, <2>2, <2>3 DEF Next
<1>2. Lines' = Lines
  BY <1>1 DEF Lines
<1>3. Reading' = Reading
  BY <1>2, Zenon DEF Reading
<1>4. Says' = Says
  BY <1>3, Zenon DEF Says
<1>5. Plain' <=> Plain
  BY <1>1, <1>2, <1>4, Zenon DEF Plain
<1>6. Faulty' <=> Faulty
  BY <1>3, <1>4, Zenon DEF Faulty
<1>7. ASSUME NEW e PROVE Meant(e)' = Meant(e)
  BY <1>4 DEF Meant
<1> QED BY <1>1, <1>5, <1>6, <1>7

\* Nothing but the reading of a line changes what the loading knows.
LEMMA KnowStays ==
  ASSUME Know, UNCHANGED <<file, lineno, line, section, dict, errs>>
  PROVE  Know'
<1>1. Joined(Lines)[lineno]' = Joined(Lines)[lineno]
  BY DEF Lines
<1> QED BY <1>1, Zenon DEF Know

\* No two options have the same name.
LEMMA OneEntryEach ==
  ASSUME NEW e \in CFG_GEN
  PROVE  EntryOf(e.var) = e
<1>1. ASSUME NEW o \in CFG_GEN, o.var = e.var PROVE o = e
  BY <1>1 DEF CFG_GEN, Entry
<1> QED BY <1>1 DEF EntryOf

\* What the program starts with, once the file has been read.
LEMMA OptionsAsMeant ==
  ASSUME LinesAreRead, Kinds, DictionaryCoherent, Know, lineno = Len(Lines), ParseOptions
  PROVE  \A e \in CFG_GEN : cfg'[e.var] = Meant(e)
<1> SUFFICES ASSUME NEW e \in CFG_GEN PROVE cfg'[e.var] = Meant(e)
  OBVIOUS
<1> DEFINE map == AsMap(dict)
           places == States(Says, e)
<1>1. Agrees(Says, map)
  BY Zenon DEF Know, Knowing, Says, Reading
<1>2. /\ e.key \in DOMAIN map <=> places # {}
      /\ places # {} => map[e.key] = Says[Latest(places)].value
  BY <1>1, Zenon DEF Agrees
<1>3. e.key # NULL
  BY Zenon DEF LinesAreRead
<1>4. DOMAIN map = KeysOf(dict) /\ (e.key \in KeysOf(dict) => map[e.key] = Stated(e))
  BY DEF AsMap, Stated
<1>5. Found(dict, e.key) <=> e.key \in KeysOf(dict)
  <2>1. ASSUME Found(dict, e.key) PROVE e.key \in KeysOf(dict)
    BY <2>1, <1>3 DEF Found, Holds, KeysOf
  <2>2. ASSUME e.key \in KeysOf(dict) PROVE Found(dict, e.key)
    <3>1. PICK j \in Slots(dict) : dict.key[j] = e.key
      BY <2>2 DEF KeysOf
    <3> QED BY <1>3, <3>1, PlaceOf DEF DictionaryCoherent
  <2> QED BY <2>1, <2>2
<1> HIDE DEF map, places
<1>6. Absent(e) <=> places = {}
  BY <1>2, <1>4, <1>5 DEF Absent
<1>7. ~Absent(e) => Stated(e) = Says[Latest(places)].value
  BY <1>2, <1>4, <1>6
<1>8. cfg'[e.var] = PrintDefault(e, Parsed(e))
  <2>1. e.var \in Members
    BY DEF Members
  <2>2. EntryOf(e.var) = e
    BY OneEntryEach
  <2>3. cfg' = [m \in Members |-> PrintDefault(EntryOf(m), Parsed(EntryOf(m)))]
    BY Zenon DEF ParseOptions
  <2> QED BY <2>1, <2>2, <2>3
<1>9. e.type \in {"STRING", "INT", "BOOL"}
  BY DEF CFG_GEN, Entry
<1> DEFINE value == Says[Latest(places)].value
           read == CASE e.type = "STRING" -> value
                     [] e.type = "INT"    -> strtol(value)
                     [] e.type = "BOOL"   -> iniparser_getboolean(value)
<1>10. Meant(e) = IF places = {} \/ read = Unspecified(e) THEN e.def ELSE read
  BY Zenon DEF Meant, places
<1>11. CASE Absent(e)
  <2>1. Parsed(e) = Unspecified(e)
    BY <1>11 DEF Parsed
  <2> QED BY <1>6, <1>8, <1>10, <1>11, <2>1, Zenon DEF PrintDefault
<1>12. CASE ~Absent(e)
  <2>1. Parsed(e) = read
    <3>1. CASE e.type = "STRING"
      BY <1>7, <1>12, <3>1 DEF Parsed
    <3>2. CASE e.type = "INT"
      BY <1>7, <1>12, <3>2 DEF Parsed
    <3>3. CASE e.type = "BOOL"
      BY <1>7, <1>12, <3>3 DEF Parsed
    <3> QED BY <1>9, <3>1, <3>2, <3>3
  <2> HIDE DEF read
  <2>2. cfg'[e.var] = IF read = Unspecified(e) THEN e.def ELSE read
    BY <1>8, <2>1 DEF PrintDefault
  <2>3. Meant(e) = IF read = Unspecified(e) THEN e.def ELSE read
    BY <1>6, <1>10, <1>12
  <2> QED BY <2>2, <2>3
<1> QED BY <1>11, <1>12

-----------------------------------------------------------------------------
(* Settings as written *)

LEMMA ReadStarts ==
  ASSUME FilesAreTexts, Init
  PROVE  ReadInv
<1>1. Kinds /\ DictionaryCoherent /\ Start
  BY StartKinds, InitOfMap DEF Init
<1>2. pc = "open"
  BY <1>1 DEF Start
<1> QED BY <1>1, <1>2 DEF ReadInv

LEMMA ReadGoesOn ==
  ASSUME FilesAreTexts, LinesAreRead, ReadInv, [Next]_vars
  PROVE  ReadInv'
<1>1. /\ Kinds /\ DictionaryCoherent
      /\ pc = "open" => Start
      /\ pc = "parse" => lineno = Len(Lines) /\ errs = 0
      /\ Plain => /\ pc \in {"load", "parse"} => Know
                  /\ pc = "ready" => Started
                  /\ pc = "refused" /\ given /\ file.there => Faulty
  BY Zenon DEF ReadInv
<1>2. Kinds' /\ DictionaryCoherent'
  BY <1>1, KindsGoOn, StepOfMap
<1>3. /\ file' = file /\ given' = given
      /\ Plain' <=> Plain
      /\ Faulty' <=> Faulty
      /\ \A e : Meant(e)' = Meant(e)
  BY FileStays
<1>4. ASSUME pc' # "open",
             pc' = "parse" => (lineno = Len(Lines) /\ errs = 0)',
             Plain /\ pc' \in {"load", "parse"} => Know',
             Plain /\ pc' = "ready" => Started',
             Plain /\ pc' = "refused" /\ given /\ file.there => Faulty
      PROVE  ReadInv'
  BY <1>2, <1>3, <1>4, Zenon DEF ReadInv
<1>5. CASE UNCHANGED vars
  <2>1. pc' = pc /\ UNCHANGED <<lineno, line, section, dict, errs, cfg>>
    BY <1>5 DEF vars
  <2>2. pc' = "open" => Start'
    BY <1>1, <2>1 DEF Start
  <2>3. pc' = "parse" => (lineno = Len(Lines) /\ errs = 0)'
    BY <1>1, <1>3, <2>1 DEF Lines
  <2>4. Plain /\ pc' \in {"load", "parse"} => Know'
    BY <1>1, <1>3, <2>1, KnowStays
  <2>5. Plain /\ pc' = "ready" => Started'
    <3>1. ASSUME Started PROVE Started'
      <4>1. \A e \in CFG_GEN : cfg'[e.var] = Meant(e)'
        BY <1>3, <2>1, <3>1, Zenon DEF Started
      <4> QED BY <1>3, <3>1, <4>1, Zenon DEF Started
    <3> QED BY <1>1, <2>1, <3>1, Zenon
  <2>6. Plain /\ pc' = "refused" /\ given /\ file.there => Faulty
    BY <1>1, <2>1
  <2> QED BY <1>2, <1>3, <2>2, <2>3, <2>4, <2>5, <2>6, Zenon DEF ReadInv
<1>6. CASE Open
  <2>1. pc = "open" /\ UNCHANGED <<lineno, line, section, dict, errs, cfg>>
        /\ pc' \in {"load", "refused", "crashed"}
        /\ (pc' = "refused" => ~(given /\ file.there))
    BY <1>6 DEF Open
  <2>2. Know
    BY <1>1, <2>1, KnowsNothing DEF Kinds
  <2>3. Know'
    BY <1>3, <2>1, <2>2, KnowStays
  <2> QED BY <1>4, <2>1, <2>3
<1>7. CASE SkipLine \/ ContinueLine \/ IgnoreLine \/ EnterSection \/ StateValue \/ CountError
  <2>1. pc = "load" /\ pc' = pc
    BY <1>7, Zenon DEF SkipLine, ContinueLine, IgnoreLine, EnterSection, StateValue,
                       CountError, Whole, Reads
  <2>2. ASSUME Plain PROVE Know'
    <3>1. Know
      BY <1>1, <2>1, <2>2
    <3> QED BY <1>1, <1>7, <2>2, <3>1, SkipKnows, ContinueKnows, WholeKnows
  <2> QED BY <1>4, <2>1, <2>2
<1>8. CASE RefuseLongLine
  <2>1. pc = "load" /\ lineno < Len(Lines) /\ TooLong /\ pc' = "refused"
    BY <1>8, Zenon DEF RefuseLongLine
  <2>2. ASSUME Plain PROVE Faulty
    <3>1. Know /\ file \in Files /\ lineno \in 0..(Len(Lines) - 1)
      BY <1>1, <2>1, <2>2, TextIs DEF Kinds
    <3>2. Joined(Lines)[lineno + 1].long
      BY <1>1, <2>1, <3>1, TextOfReading
    <3>3. Reading.long
      BY <3>1, <3>2, NextLine
    <3> QED BY <3>3, Zenon DEF Faulty
  <2> QED BY <1>4, <2>1, <2>2
<1>9. CASE EndOfFile
  <2>1. /\ pc = "load" /\ lineno = Len(Lines)
        /\ UNCHANGED <<lineno, line, section, errs, cfg>>
        /\ \/ errs > 0 /\ pc' = "refused"
           \/ ~(errs > 0) /\ pc' = "parse" /\ dict' = dict
    BY <1>9 DEF EndOfFile
  <2>2. ASSUME Plain PROVE Know /\ (errs > 0 <=> HasError(Says))
    <3>1. Know
      BY <1>1, <2>1, <2>2
    <3> QED BY <2>1, <3>1, Zenon DEF Know, Knowing, HasError, Says, Reading
  <2>3. CASE pc' = "refused"
    <3>1. ASSUME Plain PROVE Faulty
      BY <2>1, <2>2, <2>3, <3>1 DEF Faulty, HasError
    <3> QED BY <1>4, <2>3, <3>1
  <2>4. CASE pc' = "parse"
    <3>1. errs = 0 /\ dict' = dict
      BY <1>1, <2>1, <2>4 DEF Kinds
    <3>2. (lineno = Len(Lines) /\ errs = 0)'
      BY <1>3, <2>1, <3>1 DEF Lines
    <3>3. ASSUME Plain PROVE Know'
      BY <1>3, <2>1, <2>2, <3>1, <3>3, KnowStays
    <3> QED BY <1>4, <2>4, <3>2, <3>3
  <2> QED BY <2>1, <2>3, <2>4
<1>10. CASE ParseOptions
  <2>1. pc = "parse" /\ pc' = "ready" /\ lineno = Len(Lines) /\ errs = 0
    BY <1>1, <1>10, Zenon DEF ParseOptions
  <2>2. ASSUME Plain PROVE Started'
    <3>1. Know
      BY <1>1, <2>1, <2>2
    <3>2. \A e \in CFG_GEN : cfg'[e.var] = Meant(e)
      BY <1>1, <1>10, <2>1, <3>1, OptionsAsMeant
    <3>3. ~Reading.long /\ (errs > 0 <=> HasError(Says))
      BY <2>1, <3>1, Zenon DEF Know, Knowing, HasError, Says, Reading
    <3>4. ~Faulty
      BY <2>1, <3>3 DEF Faulty, HasError
    <3>5. \A e \in CFG_GEN : cfg'[e.var] = Meant(e)'
      BY <1>3, <3>2, Zenon
    <3> QED BY <1>3, <3>4, <3>5, Zenon DEF Started
  <2> QED BY <1>4, <2>1, <2>2
<1>11. CASE ParseCrashes
  <2>1. pc' = "crashed"
    BY <1>11 DEF ParseCrashes
  <2> QED BY <1>4, <2>1
<1> QED BY <1>5, <1>6, <1>7, <1>8, <1>9, <1>10, <1>11 DEF Next

\* For every file whose lines mean what Means says, whatever their number,
\* their order and the size of the buffer: the program starts with what the
\* file says, and is refused the file only if that is at fault.
THEOREM SettingsAlwaysAsWritten ==
  ASSUME FilesAreTexts, LinesAreRead
  PROVE  Spec => []SettingsAsWritten
<1>1. Init => ReadInv
  BY ReadStarts
<1>2. ReadInv /\ [Next]_vars => ReadInv'
  BY ReadGoesOn
<1>3. ReadInv => SettingsAsWritten
  <2> SUFFICES ASSUME ReadInv PROVE SettingsAsWritten
    OBVIOUS
  <2>1. TypeOK
    <3>1. Kinds
      BY DEF ReadInv
    <3>2. Len(Lines) \in Nat
      BY <3>1, TextIs DEF Kinds
    <3> QED BY <3>1, <3>2 DEF Kinds, TypeOK
  <2>2. Plain => /\ pc = "ready" => Started
                 /\ pc = "refused" /\ given /\ file.there => Faulty
    BY Zenon DEF ReadInv
  <2> QED BY <2>1, <2>2, Zenon DEF SettingsAsWritten, Started
<1> QED
  BY <1>1, <1>2, <1>3, PTL DEF Spec

=============================================================================
