--------------------------- MODULE MCHttpSession ---------------------------
(***************************************************************************)
(* Small instances of HttpSession for TLC.                                 *)
(***************************************************************************)
EXTENDS HttpSession

Sent(head, body, conn, target) ==
  [head |-> head, body |-> body, bad |-> 0, conn |-> conn, target |-> target]

Faulty(head, bad) ==
  [head |-> head, body |-> 0, bad |-> bad, conn |-> "none", target |-> "other"]

\* Headers of two lengths, with and without a body, and a faulty one. The
\* long one, when it comes in pieces, leaves a length that is greater than
\* the short ones, and not greater than one of them with its body.
MixedRequests ==
  {Sent(2, 0, "none", "root"), Sent(4, 2, "keep", "login"),
   Sent(2, 1, "close", "upload"), Sent(2, 0, "none", "static"), Faulty(3, 2)}

\* None with a fault.
SoundRequests == {r \in MixedRequests : r.bad = 0}

\* Headers of one length.
EvenRequests ==
  {Sent(3, 0, "none", "root"), Sent(3, 2, "keep", "login"),
   Sent(3, 1, "close", "upload"), Faulty(3, 2)}

=============================================================================
