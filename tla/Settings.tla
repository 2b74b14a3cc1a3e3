------------------------------ MODULE Settings ------------------------------
(***************************************************************************)
(* What the rest of the program takes a dictionary of settings for: a map  *)
(* in which each step states one key, again or for the first time, and     *)
(* leaves all others alone, or which is given up as a whole.               *)
(***************************************************************************)
VARIABLE map

NoSettings == [k \in {} |-> k]

Init == map = NoSettings

\* One key gets a value.
State(k, v) ==
  map' = [j \in DOMAIN map \cup {k} |-> IF j = k THEN v ELSE map[j]]

GiveUp == map' = NoSettings

Next == GiveUp \/ \E k \in DOMAIN map' : State(k, map'[k])

Spec == Init /\ [][Next]_map

=============================================================================
