----------------------------- MODULE MCWorkers -----------------------------
(***************************************************************************)
(* A small instance of Workers for TLC.                                    *)
(***************************************************************************)
EXTENDS Workers

CONSTANTS c1, c2

MCClients == {c1, c2}
MCSluggish == {c1}

\* A missing entry, a negative number, no workers, one and two.
MCWorkerCounts == {-1, -2, 0, 1}

=============================================================================
