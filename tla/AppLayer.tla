------------------------------ MODULE AppLayer ------------------------------
(***************************************************************************)
(* What a TcpSession relies on in its application layer (AppLayerDriver):  *)
(* in one OnRead it sends at most once, since a second Send would replace  *)
(* the first; it may call Shutdown, after what it has to send; and once it *)
(* has called Shutdown it never sends again, though OnRead may be called.  *)
(***************************************************************************)
EXTENDS Naturals

VARIABLES where,    \* "out" of OnRead, "in" it, or in it and "done" sending
          sends,    \* the calls of Send
          shut      \* Shutdown has been called

vars == <<where, sends, shut>>

Init == where = "out" /\ sends = 0 /\ shut = FALSE

OnRead ==
  /\ where = "out"
  /\ where' = IF shut THEN "done" ELSE "in"
  /\ UNCHANGED <<sends, shut>>

Send ==
  /\ where = "in"
  /\ sends' = sends + 1
  /\ where' \in {"out", "done"}
  /\ UNCHANGED shut

Shutdown ==
  /\ where = "done"
  /\ shut' = TRUE
  /\ where' = "out"
  /\ UNCHANGED sends

Return ==
  /\ where = "in"
  /\ where' = "out"
  /\ UNCHANGED <<sends, shut>>

Next == OnRead \/ Send \/ Shutdown \/ Return

Spec == Init /\ [][Next]_vars

=============================================================================
