---------------------------- MODULE ConnService ----------------------------
(***************************************************************************)
(* What the server promises about a connection, without its loop, lists,   *)
(* tables and descriptors: it is admitted at most once, heard only while   *)
(* it is open, and closed for one of two reasons: it was to be closed and  *)
(* nothing is left to write, or the moment it was due had passed when the  *)
(* server last looked at the clock.                                        *)
(***************************************************************************)
EXTENDS Integers

CONSTANTS Conn, IdleTimeout, MaxResponse

VARIABLES now, seen, phase, unsent, due

vars == <<now, seen, phase, unsent, due>>

Init ==
  /\ now = 0
  /\ seen = 0
  /\ phase = [c \in Conn |-> "waiting"]
  /\ unsent = [c \in Conn |-> 0]
  /\ due = [c \in Conn |-> 0]

\* Time passes, or is set back.
Clock == now' \in Nat /\ UNCHANGED <<seen, phase, unsent, due>>

Look == seen' \in {0, now} /\ UNCHANGED <<now, phase, unsent, due>>

Admit(c) ==
  /\ phase[c] = "waiting"
  /\ phase' = [phase EXCEPT ![c] = "serving"]
  /\ due' = [due EXCEPT ![c] = now + IdleTimeout]
  /\ UNCHANGED <<now, seen, unsent>>

Refuse(c) ==
  /\ phase[c] = "waiting"
  /\ phase' = [phase EXCEPT ![c] = "closed"]
  /\ UNCHANGED <<now, seen, unsent, due>>

\* Only a connection that is not closing gets a new response.
Hear(c) ==
  /\ phase[c] \in {"serving", "closing"}
  /\ due' = [due EXCEPT ![c] = now + IdleTimeout]
  /\ \E p \in {phase[c], "closing"} : phase' = [phase EXCEPT ![c] = p]
  /\ \/ UNCHANGED unsent
     \/ /\ phase[c] = "serving"
        /\ \E n \in 0..MaxResponse : unsent' = [unsent EXCEPT ![c] = n]
  /\ UNCHANGED <<now, seen>>

Written(c) ==
  /\ phase[c] \in {"serving", "closing"}
  /\ unsent' = [unsent EXCEPT ![c] = 0]
  /\ UNCHANGED <<now, seen, phase, due>>

WriteError(c) ==
  /\ phase[c] \in {"serving", "closing"}
  /\ phase' = [phase EXCEPT ![c] = "closing"]
  /\ UNCHANGED <<now, seen, unsent, due>>

Gone(c) ==
  /\ phase' = [phase EXCEPT ![c] = "closed"]
  /\ unsent' = [unsent EXCEPT ![c] = 0]
  /\ due' = [due EXCEPT ![c] = 0]
  /\ UNCHANGED <<now, seen>>

Finish(c) == phase[c] = "closing" /\ unsent[c] = 0 /\ Gone(c)

Expire(c) == phase[c] \in {"serving", "closing"} /\ due[c] < seen /\ Gone(c)

Next ==
  \/ Clock
  \/ Look
  \/ \E c \in Conn : \/ Admit(c) \/ Refuse(c) \/ Hear(c) \/ Written(c)
                     \/ WriteError(c) \/ Finish(c) \/ Expire(c)

Spec == Init /\ [][Next]_vars

=============================================================================
