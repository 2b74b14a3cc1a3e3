-------------------------------- MODULE Auth --------------------------------
(***************************************************************************)
(* Auth: the store of session tokens, one file for each session, shared by *)
(* the worker processes and the CGI processes. A token file is named by    *)
(* its session id and holds the name of the user.                          *)
(*                                                                         *)
(* Nothing locks the store: the processes meet between any two system      *)
(* calls, so each call that changes the store is a step.                   *)
(*                                                                         *)
(* Session ids come from rand(). Two of them are equal when they were      *)
(* drawn at the same place of the stream of the same seed, and only then.  *)
(***************************************************************************)
EXTENDS Integers, Sequences

CONSTANTS Process,   \* the processes that use the store
          Seeded,    \* those that call srand(): workers and CGI processes do, a
                     \* server without workers does not
          User,
          NameLen,   \* bytes of each user's name
          MaxStarts, \* bound: starts of a process
          MaxDraws   \* bound: draws from one stream, each of 16 characters

ASSUME AuthAssumption ==
  /\ Seeded \subseteq Process
  /\ NameLen \in [User -> Nat \ {0}]
  /\ MaxStarts \in Nat
  /\ MaxDraws \in Nat

VARIABLES
  starts,       \* processes started so far
  seed, draw,   \* each process's stream, and its place in it
  pc,           \* what each process is about to do
  sid, user,    \* the session it is about to do it with
  files, text,  \* the token files, and what is in them
  granted,      \* the cookies handed out
  signedOut     \* how many clients were told that they ended a session

streams == <<starts, seed, draw>>
store == <<files, text>>
vars == <<streams, pc, sid, user, store, granted, signedOut>>

Sid == (0..MaxStarts) \X (0..MaxDraws)

\* Each byte of a token is known by the user whose name it belongs to.
Name(u) == [i \in 1..NameLen[u] |-> u]

TypeOK ==
  /\ starts \in 0..MaxStarts
  /\ seed \in [Process -> 0..MaxStarts]
  /\ draw \in [Process -> 0..MaxDraws]
  /\ pc \in [Process -> {"down", "idle", "write", "remove"}]
  /\ sid \in [Process -> Sid]
  /\ user \in [Process -> User]
  /\ files \subseteq Sid
  /\ text \in [Sid -> Seq(User)]
  /\ granted \subseteq [sid : Sid, user : User]
  /\ signedOut \in [Sid -> Nat]

Init ==
  /\ starts = 0
  /\ seed = [p \in Process |-> 0]
  /\ draw = [p \in Process |-> 0]
  /\ pc = [p \in Process |-> "down"]
  /\ sid = [p \in Process |-> <<0, 0>>]
  /\ user \in [Process -> User]
  /\ files = {}
  /\ text = [s \in Sid |-> <<>>]
  /\ granted = {}
  /\ signedOut = [s \in Sid |-> 0]

-----------------------------------------------------------------------------
(* Processes and their random streams *)

\* Mutation: srand() is not called.
SameSeed(p) == 0

\* srand(time ^ pid) in a worker and in a CGI process, else the default seed.
StartSeed(p) == IF p \in Seeded THEN starts + 1 ELSE 0

\* The process starts, for the first time or after it ended.
Start(p) ==
  /\ pc[p] = "down"
  /\ starts < MaxStarts
  /\ starts' = starts + 1
  /\ seed' = [seed EXCEPT ![p] = StartSeed(p)]
  /\ draw' = [draw EXCEPT ![p] = 0]
  /\ pc' = [pc EXCEPT ![p] = "idle"]
  /\ UNCHANGED <<sid, user, store, granted, signedOut>>

\* The process ends, whatever it is doing.
Crash(p) ==
  /\ pc[p] # "down"
  /\ pc' = [pc EXCEPT ![p] = "down"]
  /\ UNCHANGED <<streams, sid, user, store, granted, signedOut>>

\* A session id takes 32 characters, the id of an album 16.
\* Mutation: the length of an id is counted double.
DoubleDraws == 4

SidDraws == 2

\* CreateAlbum draws the id of the album from the same stream.
DrawAlbumId(p) ==
  /\ pc[p] = "idle"
  /\ draw[p] < MaxDraws
  /\ draw' = [draw EXCEPT ![p] = @ + 1]
  /\ UNCHANGED <<starts, seed, pc, sid, user, store, granted, signedOut>>

-----------------------------------------------------------------------------
(* NewSession *)

NewSid(p) ==
  /\ pc[p] = "idle"
  /\ draw[p] + 2 <= MaxDraws
  /\ draw' = [draw EXCEPT ![p] = @ + SidDraws]
  /\ UNCHANGED <<starts, seed, granted, signedOut>>

\* The file is created unless it exists, and keeps what it holds.
OpenToken(p, u) ==
  /\ NewSid(p)
  /\ files' = files \cup {<<seed[p], draw[p]>>}
  /\ sid' = [sid EXCEPT ![p] = <<seed[p], draw[p]>>]
  /\ user' = [user EXCEPT ![p] = u]
  /\ pc' = [pc EXCEPT ![p] = "write"]
  /\ UNCHANGED text

\* open() fails: the client is told so.
OpenFails(p) == NewSid(p) /\ UNCHANGED <<pc, sid, user, store>>

\* What a file that held "old" holds after "new" is written from its start.
Overwrite(old, new) == new \o SubSeq(old, Len(new) + 1, Len(old))

\* write() reaches the file, unless it was removed since it was opened.
Write(p, bytes) ==
  /\ pc[p] = "write"
  /\ text' = IF sid[p] \in files
             THEN [text EXCEPT ![sid[p]] = Overwrite(@, bytes)]
             ELSE text
  /\ pc' = [pc EXCEPT ![p] = "idle"]
  /\ UNCHANGED <<streams, sid, user, files, signedOut>>

\* The whole name is written, and the client is given the cookie.
WriteToken(p) ==
  /\ Write(p, Name(user[p]))
  /\ granted' = granted \cup {[sid |-> sid[p], user |-> user[p]]}

\* write() takes a part of the name or nothing. The file stays, the client
\* is told that it failed.
WriteFails(p) ==
  /\ \E n \in 0..(NameLen[user[p]] - 1) :
       Write(p, SubSeq(Name(user[p]), 1, n))
  /\ UNCHANGED granted

-----------------------------------------------------------------------------
(* ProcessLogout: GetUserBySession, then DeleteSession *)

\* The client's cookie leads to a file, whatever is in it.
FindToken(p, s) ==
  /\ pc[p] = "idle"
  /\ s \in {g.sid : g \in granted}
  /\ s \in files
  /\ sid' = [sid EXCEPT ![p] = s]
  /\ pc' = [pc EXCEPT ![p] = "remove"]
  /\ UNCHANGED <<streams, user, store, granted, signedOut>>

Removing(p) ==
  /\ pc[p] = "remove"
  /\ pc' = [pc EXCEPT ![p] = "idle"]
  /\ UNCHANGED <<streams, sid, user, granted>>

\* Mutation: what remove() returns is not looked at.
RemoveUnchecked(p) ==
  /\ Removing(p)
  /\ files' = files \ {sid[p]}
  /\ text' = [text EXCEPT ![sid[p]] = <<>>]
  /\ signedOut' = [signedOut EXCEPT ![sid[p]] = @ + 1]

\* The client is told that the session has ended.
RemoveToken(p) ==
  /\ Removing(p)
  /\ sid[p] \in files
  /\ files' = files \ {sid[p]}
  /\ text' = [text EXCEPT ![sid[p]] = <<>>]
  /\ signedOut' = [signedOut EXCEPT ![sid[p]] = @ + 1]

\* remove() fails, because another process was faster or for any other
\* reason: the client is told that it could not be done.
RemoveFails(p) == Removing(p) /\ UNCHANGED <<store, signedOut>>

-----------------------------------------------------------------------------
ProcessStep(p) ==
  \/ Start(p) \/ Crash(p) \/ DrawAlbumId(p)
  \/ \E u \in User : OpenToken(p, u)
  \/ OpenFails(p) \/ WriteToken(p) \/ WriteFails(p)
  \/ \E s \in Sid : FindToken(p, s)
  \/ RemoveToken(p) \/ RemoveFails(p)

Next == \E p \in Process : ProcessStep(p)

Spec == Init /\ [][Next]_vars

-----------------------------------------------------------------------------
(* Properties *)

\* Whatever the processes do at the same time, fail to do or leave undone
\* when they end, a cookie leads to the user it was given to until its
\* session is ended by a logout, and to nobody afterwards.
CookiesHonest ==
  \A g \in granted :
    IF signedOut[g.sid] = 0
    THEN g.sid \in files /\ text[g.sid] = Name(g.user)
    ELSE g.sid \notin files

\* Of several logouts that race for one session, one is told that it ended
\* the session.
OneSignsOut == \A s \in Sid : signedOut[s] <= 1

=============================================================================
