----------------------------- MODULE Dictionary -----------------------------
(***************************************************************************)
(* The dictionary of iniparser: three arrays of the same size, in which a  *)
(* slot is free when its key is NULL. A key is searched from the front, by *)
(* its hash and then by itself; a new key goes to the first free slot from *)
(* place n on, and the arrays double when there is none. The program only  *)
(* creates, fills, asks and deletes a dictionary; it never removes a key.  *)
(*                                                                         *)
(* These are operators; Config keeps a dictionary in a variable.           *)
(***************************************************************************)
EXTENDS Texts

CONSTANTS
  dictionary_hash(_),  \* any function of the keys: two keys may share a hash
  DICTMINSZ            \* the size of a new dictionary

ASSUME DictionaryAssumption == DICTMINSZ \in Nat \ {0}

-----------------------------------------------------------------------------
Slots(d) == 0..(d.size - 1)

Empty(size) == [j \in 0..(size - 1) |-> NULL]

dictionary_new ==
  [n |-> 0, size |-> DICTMINSZ, key |-> Empty(DICTMINSZ),
   val |-> Empty(DICTMINSZ), hash |-> Empty(DICTMINSZ)]

\* Slot j is not free and holds key k.
Holds(d, j, k) ==
  /\ d.key[j] # NULL
  /\ d.hash[j] = dictionary_hash(k)
  /\ d.key[j] = k

Found(d, k) == \E j \in Slots(d) : Holds(d, j, k)

\* The first slot that satisfies a search.
Place(d, k) ==
  CHOOSE j \in Slots(d) : Holds(d, j, k) /\ \A m \in 0..(j - 1) : ~Holds(d, m, k)

dictionary_get(d, k, def) == IF Found(d, k) THEN d.val[Place(d, k)] ELSE def

Doubled(array, size) ==
  [j \in 0..(2 * size - 1) |-> IF j < size THEN array[j] ELSE NULL]

\* Mutation: the hashes are not copied.
dictionary_grow_hashless(d) ==
  [n |-> d.n, size |-> 2 * d.size, key |-> Doubled(d.key, d.size),
   val |-> Doubled(d.val, d.size), hash |-> Empty(2 * d.size)]

dictionary_grow(d) ==
  [n |-> d.n, size |-> 2 * d.size, key |-> Doubled(d.key, d.size),
   val |-> Doubled(d.val, d.size), hash |-> Doubled(d.hash, d.size)]

\* How far behind n a slot is, for a search that wraps at the end.
Behind(d, j) == IF j >= d.n THEN j - d.n ELSE j - d.n + d.size

FreeSlot(d) ==
  CHOOSE j \in Slots(d) :
    /\ d.key[j] = NULL
    /\ \A m \in Slots(d) : d.key[m] = NULL => Behind(d, j) <= Behind(d, m)

Insert(d, k, v) ==
  LET j == FreeSlot(d)
  IN  [d EXCEPT !.key[j] = k, !.val[j] = v, !.hash[j] = dictionary_hash(k),
                !.n = @ + 1]

WithRoom(d) == IF d.n = d.size THEN dictionary_grow(d) ELSE d

dictionary_set(d, k, v) ==
  CASE k = NULL -> d
    [] k # NULL /\ d.n > 0 /\ Found(d, k) -> [d EXCEPT !.val[Place(d, k)] = v]
    [] OTHER -> Insert(WithRoom(d), k, v)

-----------------------------------------------------------------------------
(* What a dictionary is *)

\* Three arrays of the same size, and the count.
Arrays(d) ==
  /\ d.size \in Nat \ {0}
  /\ d.n \in 0..d.size
  /\ d = [n |-> d.n, size |-> d.size, key |-> d.key, val |-> d.val, hash |-> d.hash]
  /\ d.key = [j \in Slots(d) |-> d.key[j]]
  /\ d.val = [j \in Slots(d) |-> d.val[j]]
  /\ d.hash = [j \in Slots(d) |-> d.hash[j]]

\* The first n slots are in use and no other.
Packed(d) == \A j \in Slots(d) : d.key[j] # NULL <=> j < d.n

\* No key is in two slots, and each has its hash beside it: a key that is
\* there is found.
OneSlotEach(d) ==
  /\ \A j \in Slots(d) : d.key[j] # NULL => d.hash[j] = dictionary_hash(d.key[j])
  /\ \A j, m \in Slots(d) : d.key[j] # NULL /\ d.key[j] = d.key[m] => j = m

Coherent(d) == Arrays(d) /\ Packed(d) /\ OneSlotEach(d)

\* The keys of a dictionary, and the map from keys to values it stands for.
KeysOf(d) == {d.key[j] : j \in Slots(d)} \ {NULL}

AsMap(d) == [k \in KeysOf(d) |-> dictionary_get(d, k, NULL)]

=============================================================================
