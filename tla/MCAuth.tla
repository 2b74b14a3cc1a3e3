------------------------------- MODULE MCAuth -------------------------------
(***************************************************************************)
(* Small instances of Auth for TLC.                                        *)
(***************************************************************************)
EXTENDS Auth, TLC

CONSTANTS p1, p2, alice, bob

\* One name is longer than the other, so that it is not overwritten whole.
MCNameLen == (alice :> 2) @@ (bob :> 1)

\* Seeded processes differ in nothing else.
Symmetry == Permutations(Process)

=============================================================================
