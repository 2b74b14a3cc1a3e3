----------------------------- MODULE AuthProofs -----------------------------
(***************************************************************************)
(* Proofs about Auth, for any number of processes, users, starts and       *)
(* draws. What is proved about cookies is proved for processes that all    *)
(* call srand(), with no two seeds the same.                               *)
(*                                                                         *)
(* About SignIn, for every users file, every form and every cookie; and    *)
(* about Cgi, for every request that has the form of the page or states no *)
(* title, and every archive.                                               *)
(***************************************************************************)
EXTENDS Auth, SignIn, Cgi, FiniteSetTheorems, SequenceTheorems, WellFoundedInduction, TLAPS

\* Every process that runs has a stream of its own.
StreamsApart ==
  /\ \A p \in Process : pc[p] # "down" => seed[p] # 0
  /\ \A p \in Process : seed[p] <= starts
  /\ \A p, q \in Process : p # q /\ seed[p] = seed[q] => seed[p] = 0

\* The store or a client has seen the session.
InUse(s) ==
  \/ s \in files
  \/ \E g \in granted : g.sid = s
  \/ signedOut[s] > 0

\* What has been seen lies behind every stream's place, so the next draw of
\* a process is new.
DrawnBefore(s) ==
  /\ s[1] # 0
  /\ s[1] <= starts
  /\ \A p \in Process : s[1] = seed[p] => s[2] < draw[p]

AllDrawn == \A s \in Sid : InUse(s) => DrawnBefore(s)

\* A session that is being created belongs to one process, and no client.
Creating ==
  \A p \in Process : pc[p] = "write" =>
    /\ sid[p] \in files
    /\ text[sid[p]] = <<>>
    /\ signedOut[sid[p]] = 0
    /\ \A g \in granted : g.sid # sid[p]
    /\ \A q \in Process : pc[q] = "write" /\ sid[q] = sid[p] => q = p

\* A process removes the token of a client only.
Ending ==
  \A p \in Process : pc[p] = "remove" => \E g \in granted : g.sid = sid[p]

\* No file, no text; and a session that was signed out has no file.
StoreSound ==
  \A s \in Sid :
    /\ s \notin files => text[s] = <<>>
    /\ signedOut[s] > 0 => s \notin files

IInv ==
  /\ TypeOK
  /\ StreamsApart
  /\ AllDrawn
  /\ Creating
  /\ Ending
  /\ StoreSound
  /\ CookiesHonest
  /\ OneSignsOut

-----------------------------------------------------------------------------
(* What write() does to a file *)

\* An empty file holds what is written.
LEMMA OverwriteEmpty ==
  ASSUME NEW new \in Seq(User)
  PROVE  Overwrite(<<>>, new) = new
<1>1. SubSeq(<<>>, Len(new) + 1, Len(<<>>)) = <<>>
  OBVIOUS
<1> QED
  BY <1>1 DEF Overwrite

\* Whatever is written over whatever, the file holds bytes of names.
LEMMA OverwriteType ==
  ASSUME NEW old \in Seq(User), NEW new \in Seq(User)
  PROVE  Overwrite(old, new) \in Seq(User)
<1>1. SubSeq(old, Len(new) + 1, Len(old)) \in Seq(User)
  OBVIOUS
<1> QED
  BY <1>1 DEF Overwrite

\* Names, and what a short write() takes of them, are such bytes.
LEMMA NameType ==
  ASSUME NEW u \in User
  PROVE  /\ Name(u) \in Seq(User)
         /\ \A n \in 0..(NameLen[u] - 1) : SubSeq(Name(u), 1, n) \in Seq(User)
<1>1. NameLen[u] \in Nat
  BY AuthAssumption
<1>2. Name(u) \in Seq(User) /\ Len(Name(u)) = NameLen[u]
  BY <1>1 DEF Name
<1>3. ASSUME NEW n \in 0..(NameLen[u] - 1)
      PROVE  SubSeq(Name(u), 1, n) \in Seq(User)
  BY <1>1, <1>2, <1>3
<1> QED
  BY <1>2, <1>3

-----------------------------------------------------------------------------
(* The inductive invariant *)

LEMMA InitIInv == Init => IInv
<1> SUFFICES ASSUME Init PROVE IInv
  OBVIOUS
<1>1. <<0, 0>> \in Sid
  BY AuthAssumption DEF Sid
<1>2. TypeOK
  BY <1>1, AuthAssumption DEF Init, TypeOK
<1>3. StreamsApart /\ Creating /\ Ending
  BY DEF Init, StreamsApart, Creating, Ending
<1>4. AllDrawn
  BY DEF Init, AllDrawn, InUse
<1>5. StoreSound /\ CookiesHonest /\ OneSignsOut
  BY DEF Init, StoreSound, CookiesHonest, OneSignsOut
<1> QED
  BY <1>2, <1>3, <1>4, <1>5 DEF IInv

\* A process that starts opens a stream no process has read from.
LEMMA StartKeepsIInv ==
  ASSUME Seeded = Process, IInv, NEW p \in Process, Start(p)
  PROVE  IInv'
<1> USE DEF IInv, Start, store
<1>1. StartSeed(p) = starts + 1
  BY DEF StartSeed
<1>2. TypeOK'
  BY <1>1, AuthAssumption DEF TypeOK
<1>3. StreamsApart'
  <2>1. /\ starts \in Nat /\ starts' = starts + 1
        /\ \A q \in Process : seed[q] <= starts /\ seed[q] \in Nat
    BY DEF TypeOK, StreamsApart
  <2>2. \A q \in Process : seed'[q] = IF q = p THEN starts + 1 ELSE seed[q]
    BY <1>1 DEF TypeOK
  <2>3. \A q \in Process : q # p => pc'[q] = pc[q]
    BY DEF TypeOK
  <2> QED
    BY <2>1, <2>2, <2>3 DEF StreamsApart
<1>4. AllDrawn'
  <2> SUFFICES ASSUME NEW s \in Sid, InUse(s)'
               PROVE  DrawnBefore(s)'
    BY DEF AllDrawn
  <2>1. InUse(s) /\ DrawnBefore(s)
    BY DEF InUse, AllDrawn
  <2>2. s[1] \in Nat /\ starts \in Nat /\ s[1] <= starts
    BY <2>1 DEF Sid, TypeOK, DrawnBefore
  <2>3. /\ seed'[p] = starts + 1
        /\ \A q \in Process : q # p => seed'[q] = seed[q] /\ draw'[q] = draw[q]
    BY <1>1 DEF TypeOK
  <2>4. \A q \in Process : s[1] = seed'[q] => s[2] < draw'[q]
    BY <2>1, <2>2, <2>3 DEF DrawnBefore
  <2>5. starts' = starts + 1
    OBVIOUS
  <2> QED
    BY <2>1, <2>2, <2>4, <2>5 DEF DrawnBefore
<1>5. Creating' /\ Ending'
  BY DEF Creating, Ending, TypeOK
<1>6. StoreSound' /\ CookiesHonest' /\ OneSignsOut'
  BY DEF StoreSound, CookiesHonest, OneSignsOut
<1> QED
  BY <1>2, <1>3, <1>4, <1>5, <1>6

LEMMA CrashKeepsIInv ==
  ASSUME IInv, NEW p \in Process, Crash(p)
  PROVE  IInv'
<1> USE DEF IInv, Crash, streams, store
<1>1. TypeOK' /\ StreamsApart'
  BY DEF TypeOK, StreamsApart
<1>2. AllDrawn'
  BY DEF AllDrawn, InUse, DrawnBefore
<1>3. Creating' /\ Ending'
  BY DEF Creating, Ending, TypeOK
<1>4. StoreSound' /\ CookiesHonest' /\ OneSignsOut'
  BY DEF StoreSound, CookiesHonest, OneSignsOut
<1> QED
  BY <1>1, <1>2, <1>3, <1>4

\* Drawing more than is used only moves a stream on.
LEMMA DrawKeepsIInv ==
  ASSUME IInv, NEW p \in Process, DrawAlbumId(p) \/ OpenFails(p)
  PROVE  IInv'
<1> USE DEF IInv
<1>1. PICK n \in {1, 2} :
        /\ draw[p] + n <= MaxDraws
        /\ draw' = [draw EXCEPT ![p] = draw[p] + n]
        /\ UNCHANGED <<starts, seed, pc, sid, user, files, text, granted,
                       signedOut>>
  BY AuthAssumption
     DEF DrawAlbumId, OpenFails, NewSid, SidDraws, store, TypeOK
<1>2. TypeOK' /\ StreamsApart'
  <2>1. draw' \in [Process -> 0..MaxDraws]
    BY <1>1, AuthAssumption DEF TypeOK
  <2>2. TypeOK'
    BY <1>1, <2>1 DEF TypeOK
  <2>3. StreamsApart'
    BY <1>1 DEF StreamsApart
  <2> QED
    BY <2>2, <2>3
<1>3. AllDrawn'
  <2> SUFFICES ASSUME NEW s \in Sid, InUse(s)'
               PROVE  DrawnBefore(s)'
    BY DEF AllDrawn
  <2>1. InUse(s) /\ DrawnBefore(s)
    BY <1>1 DEF InUse, AllDrawn
  <2>2. s[2] \in Nat
    BY DEF Sid
  <2>3. \A q \in Process : draw[q] \in Nat /\ draw'[q] \in {draw[q], draw[q] + n}
    BY <1>1 DEF TypeOK
  <2>4. \A q \in Process : s[2] < draw[q] => s[2] < draw'[q]
    BY <2>2, <2>3
  <2> QED
    BY <1>1, <2>1, <2>4 DEF DrawnBefore
<1>4. Creating' /\ Ending'
  BY <1>1 DEF Creating, Ending
<1>5. StoreSound' /\ CookiesHonest' /\ OneSignsOut'
  BY <1>1 DEF StoreSound, CookiesHonest, OneSignsOut
<1> QED
  BY <1>2, <1>3, <1>4, <1>5

\* The session id that a process draws is in no use, so its file is new.
LEMMA OpenKeepsIInv ==
  ASSUME IInv, NEW p \in Process, NEW u \in User, OpenToken(p, u)
  PROVE  IInv'
<1> DEFINE s == <<seed[p], draw[p]>>
<1> USE DEF IInv
<1>1. /\ pc[p] = "idle"
      /\ draw[p] + 2 <= MaxDraws
      /\ draw' = [draw EXCEPT ![p] = draw[p] + 2]
      /\ files' = files \cup {s}
      /\ sid' = [sid EXCEPT ![p] = s]
      /\ user' = [user EXCEPT ![p] = u]
      /\ pc' = [pc EXCEPT ![p] = "write"]
      /\ UNCHANGED <<starts, seed, text, granted, signedOut>>
  BY DEF OpenToken, NewSid, SidDraws, TypeOK
<1>2. s \in Sid /\ s[1] = seed[p] /\ s[2] = draw[p] /\ draw[p] \in Nat
  BY <1>1, AuthAssumption DEF TypeOK, Sid
<1>3. ~InUse(s)
  BY <1>2 DEF AllDrawn, DrawnBefore
<1>4. TypeOK' /\ StreamsApart'
  <2>1. draw[p] + 2 \in 0..MaxDraws
    BY <1>1, <1>2, AuthAssumption
  <2>2. draw' \in [Process -> 0..MaxDraws]
    BY <1>1, <2>1 DEF TypeOK
  <2>3. sid' \in [Process -> Sid] /\ files' \subseteq Sid
    BY <1>1, <1>2 DEF TypeOK
  <2>4. /\ pc' \in [Process -> {"down", "idle", "write", "remove"}]
        /\ user' \in [Process -> User]
    BY <1>1 DEF TypeOK
  <2>5. TypeOK'
    BY <1>1, <2>2, <2>3, <2>4 DEF TypeOK
  <2>6. StreamsApart'
    BY <1>1 DEF TypeOK, StreamsApart
  <2> QED
    BY <2>5, <2>6
<1>5. AllDrawn'
  <2> SUFFICES ASSUME NEW t \in Sid, InUse(t)'
               PROVE  DrawnBefore(t)'
    BY DEF AllDrawn
  <2>1. t[1] \in Nat /\ t[2] \in Nat
    BY DEF Sid
  <2>2. CASE t = s
    <3>1. seed[p] # 0 /\ seed[p] <= starts
      BY <1>1 DEF StreamsApart
    <3>2. \A q \in Process : seed[q] = seed[p] => q = p
      BY <3>1 DEF StreamsApart
    <3>3. \A q \in Process : t[1] = seed'[q] => q = p
      BY <1>1, <1>2, <2>2, <3>2
    <3>4. t[2] = draw[p] /\ draw'[p] = draw[p] + 2
      BY <1>1, <1>2, <2>2 DEF TypeOK
    <3>5. \A q \in Process : t[1] = seed'[q] => t[2] < draw'[q]
      BY <1>2, <3>3, <3>4
    <3>6. t[1] # 0 /\ t[1] <= starts'
      BY <1>1, <1>2, <2>2, <3>1
    <3> QED
      BY <3>5, <3>6 DEF DrawnBefore
  <2>3. CASE t # s
    <3>1. InUse(t) /\ DrawnBefore(t)
      BY <1>1, <2>3 DEF InUse, AllDrawn
    <3>2. \A q \in Process : draw[q] \in Nat /\ draw'[q] \in {draw[q], draw[q] + 2}
      BY <1>1 DEF TypeOK
    <3>3. \A q \in Process : t[2] < draw[q] => t[2] < draw'[q]
      BY <2>1, <3>2
    <3> QED
      BY <1>1, <3>1, <3>3 DEF DrawnBefore
  <2> QED
    BY <2>2, <2>3
<1>6. s \notin files /\ text[s] = <<>> /\ signedOut[s] = 0
  BY <1>2, <1>3 DEF InUse, StoreSound, TypeOK
<1>7. \A g \in granted : g.sid # s
  BY <1>3 DEF InUse
<1>8. Creating'
  <2> SUFFICES ASSUME NEW q \in Process, pc'[q] = "write"
               PROVE  /\ sid'[q] \in files'
                      /\ text'[sid'[q]] = <<>>
                      /\ signedOut'[sid'[q]] = 0
                      /\ \A g \in granted' : g.sid # sid'[q]
                      /\ \A r \in Process :
                           pc'[r] = "write" /\ sid'[r] = sid'[q] => r = q
    BY DEF Creating
  <2>1. \A r \in Process \ {p} : pc'[r] = "write" =>
          pc[r] = "write" /\ sid'[r] = sid[r] /\ sid[r] \in files
    BY <1>1 DEF Creating, TypeOK
  <2>2. sid'[p] = s
    BY <1>1 DEF TypeOK
  <2>3. CASE q = p
    BY <1>1, <1>6, <1>7, <2>1, <2>2, <2>3
  <2>4. CASE q # p
    BY <1>1, <1>6, <2>1, <2>2, <2>4 DEF Creating
  <2> QED
    BY <2>3, <2>4
<1>9. Ending'
  BY <1>1 DEF Ending, TypeOK
<1>10. StoreSound' /\ OneSignsOut'
  BY <1>1, <1>6 DEF StoreSound, OneSignsOut
<1>11. CookiesHonest'
  BY <1>1, <1>7 DEF CookiesHonest
<1> QED
  BY <1>4, <1>5, <1>8, <1>9, <1>10, <1>11

\* A write() changes the file of the session that is being created, and
\* that session only; "new" is what is granted with it.
LEMMA WriteKeepsIInv ==
  ASSUME IInv, NEW p \in Process, NEW bytes \in Seq(User), Write(p, bytes),
         NEW new, granted' = granted \cup new,
         \/ new = {}
         \/ /\ new = {[sid |-> sid[p], user |-> user[p]]}
            /\ bytes = Name(user[p])
  PROVE  IInv'
<1> USE DEF IInv
<1>1. /\ pc[p] = "write"
      /\ sid[p] \in Sid
      /\ sid[p] \in files
      /\ text[sid[p]] = <<>>
      /\ signedOut[sid[p]] = 0
  BY DEF Write, Creating, TypeOK
<1>2. /\ text' = [text EXCEPT ![sid[p]] = bytes]
      /\ pc' = [pc EXCEPT ![p] = "idle"]
      /\ UNCHANGED <<starts, seed, draw, sid, user, files, signedOut>>
  BY <1>1, OverwriteEmpty DEF Write, streams, TypeOK
<1>3. /\ text'[sid[p]] = bytes
      /\ \A s \in Sid : s # sid[p] => text'[s] = text[s]
  BY <1>1, <1>2 DEF TypeOK
<1>4. \A g \in granted' : g \in granted \/ (g \in new /\ g.sid = sid[p] /\ g.user = user[p])
  OBVIOUS
<1>5. TypeOK' /\ StreamsApart'
  <2>1. granted' \subseteq [sid : Sid, user : User]
    BY <1>1 DEF TypeOK
  <2>2. text' \in [Sid -> Seq(User)]
    BY <1>2 DEF TypeOK
  <2>3. pc' \in [Process -> {"down", "idle", "write", "remove"}]
    BY <1>2 DEF TypeOK
  <2>4. TypeOK'
    BY <1>2, <2>1, <2>2, <2>3 DEF TypeOK
  <2>5. StreamsApart'
    BY <1>1, <1>2 DEF TypeOK, StreamsApart
  <2> QED
    BY <2>4, <2>5
<1>6. AllDrawn'
  <2> SUFFICES ASSUME NEW s \in Sid, InUse(s)'
               PROVE  DrawnBefore(s)'
    BY DEF AllDrawn
  <2>1. InUse(s)
    BY <1>1, <1>2, <1>4 DEF InUse
  <2> QED
    BY <1>2, <2>1 DEF AllDrawn, DrawnBefore
<1>7. \A q \in Process : pc'[q] = "write" =>
        q # p /\ pc[q] = "write" /\ sid[q] # sid[p] /\ sid[q] \in Sid
  BY <1>1, <1>2 DEF Creating, TypeOK
<1>8. Creating'
  <2> SUFFICES ASSUME NEW q \in Process, pc'[q] = "write"
               PROVE  /\ sid'[q] \in files'
                      /\ text'[sid'[q]] = <<>>
                      /\ signedOut'[sid'[q]] = 0
                      /\ \A g \in granted' : g.sid # sid'[q]
                      /\ \A r \in Process :
                           pc'[r] = "write" /\ sid'[r] = sid'[q] => r = q
    BY DEF Creating
  <2>1. pc[q] = "write" /\ sid[q] # sid[p] /\ sid[q] \in Sid
    BY <1>7
  <2>2. \A g \in granted' : g.sid # sid[q]
    BY <1>4, <2>1 DEF Creating
  <2>3. \A r \in Process : pc'[r] = "write" /\ sid[r] = sid[q] => r = q
    BY <1>7, <2>1 DEF Creating
  <2>4. sid[q] \in files /\ text'[sid[q]] = <<>> /\ signedOut[sid[q]] = 0
    BY <1>3, <2>1 DEF Creating
  <2> QED
    BY <1>2, <2>2, <2>3, <2>4
<1>9. Ending'
  <2> SUFFICES ASSUME NEW q \in Process, pc'[q] = "remove"
               PROVE  \E g \in granted' : g.sid = sid'[q]
    BY DEF Ending
  <2>1. pc[q] = "remove"
    BY <1>2 DEF TypeOK
  <2> QED
    BY <1>2, <2>1 DEF Ending
<1>10. StoreSound' /\ OneSignsOut'
  BY <1>1, <1>2, <1>3 DEF StoreSound, OneSignsOut
<1>11. CookiesHonest'
  <2> SUFFICES ASSUME NEW g \in granted'
               PROVE  IF signedOut'[g.sid] = 0
                      THEN g.sid \in files' /\ text'[g.sid] = Name(g.user)
                      ELSE g.sid \notin files'
    BY DEF CookiesHonest
  <2>1. CASE g \in granted
    <3>1. g.sid # sid[p] /\ g.sid \in Sid
      BY <1>1, <2>1 DEF Creating, TypeOK
    <3> QED
      BY <1>2, <1>3, <2>1, <3>1 DEF CookiesHonest
  <2>2. CASE g \in new /\ g.sid = sid[p] /\ g.user = user[p]
    BY <1>1, <1>2, <1>3, <2>2
  <2> QED
    BY <1>4, <2>1, <2>2
<1> QED
  BY <1>5, <1>6, <1>8, <1>9, <1>10, <1>11

LEMMA FindKeepsIInv ==
  ASSUME IInv, NEW p \in Process, NEW s \in Sid, FindToken(p, s)
  PROVE  IInv'
<1> USE DEF IInv, FindToken, streams, store
<1>1. TypeOK' /\ StreamsApart'
  BY DEF TypeOK, StreamsApart
<1>2. AllDrawn'
  BY DEF AllDrawn, InUse, DrawnBefore
<1>3. \A q \in Process : pc'[q] = "write" => pc[q] = "write" /\ sid'[q] = sid[q]
  BY DEF TypeOK
<1>4. Creating'
  BY <1>3 DEF Creating
<1>5. Ending'
  BY DEF Ending, TypeOK
<1>6. StoreSound' /\ CookiesHonest' /\ OneSignsOut'
  BY DEF StoreSound, CookiesHonest, OneSignsOut
<1> QED
  BY <1>1, <1>2, <1>4, <1>5, <1>6

\* The token that is removed is a client's, so no process is creating it.
LEMMA RemoveKeepsIInv ==
  ASSUME IInv, NEW p \in Process, RemoveToken(p)
  PROVE  IInv'
<1> USE DEF IInv
<1>1. /\ pc[p] = "remove"
      /\ sid[p] \in Sid
      /\ sid[p] \in files
      /\ signedOut[sid[p]] = 0
  BY DEF RemoveToken, Removing, TypeOK, StoreSound
<1>2. PICK g \in granted : g.sid = sid[p]
  BY <1>1 DEF Ending
<1>3. /\ files' = files \ {sid[p]}
      /\ text' = [text EXCEPT ![sid[p]] = <<>>]
      /\ signedOut' = [signedOut EXCEPT ![sid[p]] = 1]
      /\ pc' = [pc EXCEPT ![p] = "idle"]
      /\ UNCHANGED <<starts, seed, draw, sid, user, granted>>
  BY <1>1 DEF RemoveToken, Removing, streams, TypeOK
<1>4. /\ text'[sid[p]] = <<>>
      /\ signedOut'[sid[p]] = 1
      /\ \A s \in Sid : s # sid[p] =>
           text'[s] = text[s] /\ signedOut'[s] = signedOut[s]
  BY <1>1, <1>3 DEF TypeOK
<1>5. TypeOK' /\ StreamsApart'
  <2>1. text' \in [Sid -> Seq(User)] /\ signedOut' \in [Sid -> Nat]
    BY <1>1, <1>3 DEF TypeOK
  <2>2. pc' \in [Process -> {"down", "idle", "write", "remove"}]
    BY <1>3 DEF TypeOK
  <2>3. TypeOK'
    BY <1>3, <2>1, <2>2 DEF TypeOK
  <2>4. StreamsApart'
    BY <1>1, <1>3 DEF TypeOK, StreamsApart
  <2> QED
    BY <2>3, <2>4
<1>6. AllDrawn'
  <2> SUFFICES ASSUME NEW s \in Sid, InUse(s)'
               PROVE  DrawnBefore(s)'
    BY DEF AllDrawn
  <2>1. InUse(s)
    BY <1>1, <1>3, <1>4 DEF InUse
  <2> QED
    BY <1>3, <2>1 DEF AllDrawn, DrawnBefore
<1>7. Creating'
  <2> SUFFICES ASSUME NEW q \in Process, pc'[q] = "write"
               PROVE  /\ sid'[q] \in files'
                      /\ text'[sid'[q]] = <<>>
                      /\ signedOut'[sid'[q]] = 0
                      /\ \A h \in granted' : h.sid # sid'[q]
                      /\ \A r \in Process :
                           pc'[r] = "write" /\ sid'[r] = sid'[q] => r = q
    BY DEF Creating
  <2>1. \A r \in Process : pc'[r] = "write" => pc[r] = "write"
    BY <1>3 DEF TypeOK
  <2>2. sid[q] # sid[p] /\ sid[q] \in Sid
    BY <1>2, <2>1 DEF Creating, TypeOK
  <2> QED
    BY <1>3, <1>4, <2>1, <2>2 DEF Creating
<1>8. Ending'
  BY <1>3 DEF Ending, TypeOK
<1>9. StoreSound' /\ OneSignsOut'
  BY <1>3, <1>4 DEF StoreSound, OneSignsOut
<1>10. CookiesHonest'
  <2> SUFFICES ASSUME NEW h \in granted
               PROVE  IF signedOut'[h.sid] = 0
                      THEN h.sid \in files' /\ text'[h.sid] = Name(h.user)
                      ELSE h.sid \notin files'
    BY <1>3 DEF CookiesHonest
  <2>1. h.sid \in Sid
    BY DEF TypeOK
  <2>2. CASE h.sid = sid[p]
    BY <1>3, <1>4, <2>2
  <2>3. CASE h.sid # sid[p]
    BY <1>3, <1>4, <2>1, <2>3 DEF CookiesHonest
  <2> QED
    BY <2>2, <2>3
<1> QED
  BY <1>5, <1>6, <1>7, <1>8, <1>9, <1>10

LEMMA RemoveFailsKeepsIInv ==
  ASSUME IInv, NEW p \in Process, RemoveFails(p)
  PROVE  IInv'
<1> USE DEF IInv, RemoveFails, Removing, streams, store
<1>1. TypeOK' /\ StreamsApart'
  BY DEF TypeOK, StreamsApart
<1>2. AllDrawn'
  BY DEF AllDrawn, InUse, DrawnBefore
<1>3. Creating' /\ Ending'
  BY DEF Creating, Ending, TypeOK
<1>4. StoreSound' /\ CookiesHonest' /\ OneSignsOut'
  BY DEF StoreSound, CookiesHonest, OneSignsOut
<1> QED
  BY <1>1, <1>2, <1>3, <1>4

LEMMA StepKeepsIInv ==
  ASSUME Seeded = Process, IInv, NEW p \in Process, ProcessStep(p)
  PROVE  IInv'
<1>0. user[p] \in User
  BY DEF IInv, TypeOK
<1>1. CASE Start(p)
  BY <1>1, StartKeepsIInv
<1>2. CASE Crash(p)
  BY <1>2, CrashKeepsIInv
<1>3. CASE DrawAlbumId(p) \/ OpenFails(p)
  BY <1>3, DrawKeepsIInv
<1>4. CASE \E u \in User : OpenToken(p, u)
  BY <1>4, OpenKeepsIInv
<1>5. CASE WriteToken(p)
  <2>1. Write(p, Name(user[p])) /\ Name(user[p]) \in Seq(User)
    BY <1>0, <1>5, NameType DEF WriteToken
  <2>2. granted' = granted \cup {[sid |-> sid[p], user |-> user[p]]}
    BY <1>5 DEF WriteToken
  <2> QED
    BY <2>1, <2>2, WriteKeepsIInv
<1>6. CASE WriteFails(p)
  <2>1. PICK n \in 0..(NameLen[user[p]] - 1) : Write(p, SubSeq(Name(user[p]), 1, n))
    BY <1>6 DEF WriteFails
  <2>2. SubSeq(Name(user[p]), 1, n) \in Seq(User)
    BY <1>0, NameType
  <2>3. granted' = granted \cup {}
    BY <1>6 DEF WriteFails
  <2> QED
    BY <2>1, <2>2, <2>3, WriteKeepsIInv
<1>7. CASE \E s \in Sid : FindToken(p, s)
  BY <1>7, FindKeepsIInv
<1>8. CASE RemoveToken(p)
  BY <1>8, RemoveKeepsIInv
<1>9. CASE RemoveFails(p)
  BY <1>9, RemoveFailsKeepsIInv
<1> QED
  BY <1>1, <1>2, <1>3, <1>4, <1>5, <1>6, <1>7, <1>8, <1>9 DEF ProcessStep

LEMMA StutterKeepsIInv ==
  ASSUME IInv, UNCHANGED vars
  PROVE  IInv'
BY DEF IInv, vars, streams, store, TypeOK, StreamsApart, AllDrawn, InUse,
       DrawnBefore, Creating, Ending, StoreSound, CookiesHonest, OneSignsOut

\* With all processes seeded, every reachable state satisfies the inductive
\* invariant.
THEOREM Invariance ==
  ASSUME Seeded = Process
  PROVE  Spec => []IInv
<1>1. ASSUME IInv, [Next]_vars PROVE IInv'
  BY <1>1, StepKeepsIInv, StutterKeepsIInv DEF Next
<1> QED
  BY <1>1, InitIInv, PTL DEF Spec

\* A cookie leads to its user until the logout, and to nobody afterwards,
\* for any number of processes that log in and out, fail, end and restart.
THEOREM CookiesAlwaysHonest ==
  ASSUME Seeded = Process
  PROVE  Spec => []CookiesHonest
<1>1. IInv => CookiesHonest
  BY DEF IInv
<1> QED
  BY <1>1, Invariance, PTL

\* Of any number of logouts that race for one session, one ends it.
THEOREM OneAlwaysSignsOut ==
  ASSUME Seeded = Process
  PROVE  Spec => []OneSignsOut
<1>1. IInv => OneSignsOut
  BY DEF IInv
<1> QED
  BY <1>1, Invariance, PTL

-----------------------------------------------------------------------------
(* Types, which need no seeds *)

LEMMA StepKeepsTypes ==
  ASSUME TypeOK, NEW p \in Process, ProcessStep(p)
  PROVE  TypeOK'
<1> USE AuthAssumption DEF TypeOK, streams, store
<1>1. CASE Start(p)
  <2>1. StartSeed(p) \in 0..MaxStarts
    BY <1>1 DEF Start, StartSeed
  <2> QED
    BY <1>1, <2>1 DEF Start
<1>2. CASE Crash(p) \/ DrawAlbumId(p) \/ OpenFails(p)
  <2>1. CASE Crash(p)
    BY <2>1 DEF Crash
  <2>2. CASE DrawAlbumId(p)
    <3>1. draw' \in [Process -> 0..MaxDraws]
      BY <2>2 DEF DrawAlbumId
    <3> QED
      BY <2>2, <3>1 DEF DrawAlbumId
  <2>3. CASE OpenFails(p)
    <3>1. draw' \in [Process -> 0..MaxDraws]
      BY <2>3 DEF OpenFails, NewSid, SidDraws
    <3> QED
      BY <2>3, <3>1 DEF OpenFails, NewSid
  <2> QED
    BY <1>2, <2>1, <2>2, <2>3
<1>3. ASSUME NEW u \in User, OpenToken(p, u) PROVE TypeOK'
  <2>1. <<seed[p], draw[p]>> \in Sid
    BY DEF Sid
  <2>2. draw' \in [Process -> 0..MaxDraws]
    BY <1>3 DEF OpenToken, NewSid, SidDraws
  <2>3. sid' \in [Process -> Sid] /\ files' \subseteq Sid
    BY <1>3, <2>1 DEF OpenToken
  <2>4. /\ pc' \in [Process -> {"down", "idle", "write", "remove"}]
        /\ user' \in [Process -> User]
    BY <1>3 DEF OpenToken
  <2> QED
    BY <1>3, <2>2, <2>3, <2>4 DEF OpenToken, NewSid
<1>4. ASSUME NEW bytes \in Seq(User), Write(p, bytes),
             granted' \subseteq [sid : Sid, user : User]
      PROVE  TypeOK'
  <2>1. text' \in [Sid -> Seq(User)]
    BY <1>4, OverwriteType DEF Write
  <2>2. pc' \in [Process -> {"down", "idle", "write", "remove"}]
    BY <1>4 DEF Write
  <2> QED
    BY <1>4, <2>1, <2>2 DEF Write
<1>5. CASE WriteToken(p)
  <2>1. user[p] \in User /\ [sid |-> sid[p], user |-> user[p]] \in [sid : Sid, user : User]
    OBVIOUS
  <2>2. Name(user[p]) \in Seq(User)
    BY <2>1, NameType
  <2> QED
    BY <1>4, <1>5, <2>1, <2>2 DEF WriteToken
<1>6. CASE WriteFails(p)
  <2>1. PICK n \in 0..(NameLen[user[p]] - 1) :
          Write(p, SubSeq(Name(user[p]), 1, n))
    BY <1>6 DEF WriteFails
  <2>2. SubSeq(Name(user[p]), 1, n) \in Seq(User)
    BY <2>1, NameType
  <2> QED
    BY <1>4, <1>6, <2>1, <2>2 DEF WriteFails
<1>7. CASE \E s \in Sid : FindToken(p, s)
  <2>1. PICK s \in Sid : FindToken(p, s)
    BY <1>7
  <2>2. /\ sid' \in [Process -> Sid]
        /\ pc' \in [Process -> {"down", "idle", "write", "remove"}]
    BY <2>1 DEF FindToken
  <2> QED
    BY <2>1, <2>2 DEF FindToken
<1>8. CASE RemoveToken(p)
  <2>1. text' \in [Sid -> Seq(User)] /\ signedOut' \in [Sid -> Nat]
    BY <1>8 DEF RemoveToken
  <2> QED
    BY <1>8, <2>1 DEF RemoveToken, Removing
<1>9. CASE RemoveFails(p)
  BY <1>9 DEF RemoveFails, Removing
<1> QED
  BY <1>1, <1>2, <1>3, <1>5, <1>6, <1>7, <1>8, <1>9 DEF ProcessStep

\* The variables keep their types, whether or not a process is seeded.
THEOREM TypeCorrect == Spec => []TypeOK
<1>1. Init => TypeOK
  BY InitIInv DEF IInv
<1>2. ASSUME TypeOK, [Next]_vars PROVE TypeOK'
  <2>1. CASE Next
    BY <1>2, <2>1, StepKeepsTypes DEF Next
  <2>2. CASE UNCHANGED vars
    BY <1>2, <2>2 DEF TypeOK, vars, streams, store
  <2> QED
    BY <1>2, <2>1, <2>2
<1> QED
  BY <1>1, <1>2, PTL DEF Spec

-----------------------------------------------------------------------------
(* Who may sign in: induction, without operators as parameters             *)

LEMMA LeastNumber ==
  ASSUME NEW T, T \subseteq Nat, T # {}
  PROVE  \E x \in T : \A y \in T : x <= y
<1> DEFINE less == {r \in Nat \X Nat : r[1] < r[2]}
<1>1. IsWellFoundedOn(less, Nat)
  BY NatLessThanWellFounded, Zenon DEF OpToRel
<1> HIDE DEF less
<1>2. PICK x \in T : \A y \in T : ~(<<y, x>> \in less)
  BY <1>1, WFMin, Zenon
<1>3. ASSUME NEW y \in T PROVE x <= y
  <2>1. x \in Nat /\ y \in Nat /\ ~(<<y, x>> \in less)
    BY <1>2
  <2>2. <<y, x>> \in Nat \X Nat /\ <<y, x>>[1] = y /\ <<y, x>>[2] = x
    BY <2>1
  <2>3. ~(y < x)
    BY <2>1, <2>2, Zenon DEF less
  <2> QED BY <2>1, <2>3
<1> QED BY <1>3

LEMMA LeastIs ==
  ASSUME NEW T, T \subseteq Nat, NEW q \in T, \A m \in T : q <= m
  PROVE  (CHOOSE x \in T : \A m \in T : x <= m) = q
<1> DEFINE x == CHOOSE x \in T : \A m \in T : x <= m
<1>1. x \in T /\ \A m \in T : x <= m
  OBVIOUS
<1>2. x <= q /\ q <= x /\ x \in Nat /\ q \in Nat
  BY <1>1
<1> HIDE DEF x
<1>3. x = q
  BY <1>2
<1> QED BY <1>3 DEF x

-----------------------------------------------------------------------------
(* Pieces of a text *)

LEMMA PieceOf ==
  ASSUME NEW S, NEW s \in Seq(S), NEW m \in 0..Len(s), NEW n \in m..Len(s)
  PROVE  /\ SubSeq(s, m + 1, n) \in Seq(S)
         /\ Len(SubSeq(s, m + 1, n)) = n - m
         /\ \A k \in 1..(n - m) : SubSeq(s, m + 1, n)[k] = s[m + k]
<1> DEFINE a == m + 1
<1>1. /\ a \in Int /\ n \in Int /\ n - a + 1 = n - m
      /\ (IF a <= n THEN n - a + 1 ELSE 0) = n - m
      /\ \A k \in 1..(n - m) : a + k - 1 = m + k
  OBVIOUS
<1>2. \A k \in a..n : s[k] \in S
  OBVIOUS
<1> HIDE DEF a
<1>3. /\ SubSeq(s, a, n) \in Seq(S)
      /\ Len(SubSeq(s, a, n)) = IF a <= n THEN n - a + 1 ELSE 0
      /\ \A k \in 1..(n - a + 1) : SubSeq(s, a, n)[k] = s[a + k - 1]
  BY <1>1, <1>2, SubSeqProperties
<1>4. /\ SubSeq(s, a, n) \in Seq(S)
      /\ Len(SubSeq(s, a, n)) = n - m
      /\ \A k \in 1..(n - m) : SubSeq(s, a, n)[k] = s[m + k]
  BY <1>1, <1>3
<1> QED BY <1>4 DEF a

\* The part of a text in front of the first of some characters.
LEMMA UpToIs ==
  ASSUME NEW S, NEW s \in Seq(S), NEW chars
  PROVE  \E n \in 0..Len(s) :
           /\ UpTo(s, chars) = SubSeq(s, 1, n)
           /\ \A k \in 1..n : s[k] \notin chars
           /\ n < Len(s) => s[n + 1] \in chars
<1> DEFINE ends == {j \in 1..Len(s) : s[j] \in chars}
<1>1. CASE ends = {}
  <2>1. UpTo(s, chars) = s /\ s = SubSeq(s, 1, Len(s))
    BY <1>1, SubSeqFull DEF UpTo
  <2>2. Len(s) \in 0..Len(s) /\ ~(Len(s) < Len(s)) /\ \A k \in 1..Len(s) : s[k] \notin chars
    BY <1>1
  <2> QED BY <2>1, <2>2
<1>2. CASE ends # {}
  <2>1. ends \subseteq Nat
    OBVIOUS
  <2>2. PICK q \in ends : \A m \in ends : q <= m
    <3> HIDE DEF ends
    <3> QED BY <1>2, <2>1, LeastNumber
  <2>3. (CHOOSE j \in ends : \A m \in ends : j <= m) = q
    <3> HIDE DEF ends
    <3> QED BY <2>1, <2>2, LeastIs
  <2>4. UpTo(s, chars) = SubSeq(s, 1, q - 1)
    <3>1. UpTo(s, chars) = IF ends = {} THEN s
            ELSE SubSeq(s, 1, (CHOOSE j \in ends : \A m \in ends : j <= m) - 1)
      BY DEF UpTo
    <3> HIDE DEF ends
    <3> QED BY <1>2, <2>3, <3>1
  <2>5. q \in 1..Len(s) /\ s[q] \in chars
    OBVIOUS
  <2>6. \A k \in 1..(q - 1) : s[k] \notin chars
    <3> SUFFICES ASSUME NEW k \in 1..(q - 1), s[k] \in chars PROVE FALSE
      OBVIOUS
    <3>1. k \in ends /\ ~(q <= k)
      BY <2>5
    <3> QED BY <2>2, <3>1
  <2>7. q - 1 \in 0..Len(s) /\ (q - 1) + 1 = q
    BY <2>5
  <2> QED BY <2>4, <2>5, <2>6, <2>7
<1> QED BY <1>1, <1>2

\* There is only one such part.
LEMMA UpToIsAt ==
  ASSUME NEW S, NEW s \in Seq(S), NEW chars, NEW n \in 0..Len(s),
         \A k \in 1..n : s[k] \notin chars,
         n < Len(s) => s[n + 1] \in chars
  PROVE  UpTo(s, chars) = SubSeq(s, 1, n)
<1>1. PICK m \in 0..Len(s) :
        /\ UpTo(s, chars) = SubSeq(s, 1, m)
        /\ \A k \in 1..m : s[k] \notin chars
        /\ m < Len(s) => s[m + 1] \in chars
  BY UpToIs
<1>2. ~(m < n)
  <2> SUFFICES ASSUME m < n PROVE FALSE
    OBVIOUS
  <2>1. m + 1 \in 1..n /\ m < Len(s)
    OBVIOUS
  <2> QED BY <1>1, <2>1
<1>3. ~(n < m)
  <2> SUFFICES ASSUME n < m PROVE FALSE
    OBVIOUS
  <2>1. n + 1 \in 1..m /\ n < Len(s)
    OBVIOUS
  <2> QED BY <1>1, <2>1
<1>4. m = n
  BY <1>2, <1>3
<1> QED BY <1>1, <1>4

\* The letters and digits that a text begins with.
LEMMA WordIs ==
  ASSUME NEW S, NEW s \in Seq(S)
  PROVE  /\ Len(Word(s)) \in 0..Len(s)
         /\ Word(s) = SubSeq(s, 1, Len(Word(s)))
         /\ Word(s) \in Seq(S)
         /\ \A k \in 1..Len(Word(s)) : s[k] \in Alnum
         /\ Len(Word(s)) < Len(s) => s[Len(Word(s)) + 1] \notin Alnum
<1> DEFINE chars == {s[j] : j \in DOMAIN s} \ Alnum
<1>1. PICK n \in 0..Len(s) :
        /\ UpTo(s, chars) = SubSeq(s, 1, n)
        /\ \A k \in 1..n : s[k] \notin chars
        /\ n < Len(s) => s[n + 1] \in chars
  <2> HIDE DEF chars
  <2> QED BY UpToIs
<1>2. Word(s) = SubSeq(s, 1, n)
  BY <1>1 DEF Word
<1>3. Word(s) \in Seq(S) /\ Len(Word(s)) = n
  <2>1. 0 \in 0..Len(s) /\ n \in 0..Len(s) /\ n - 0 = n /\ 0 + 1 = 1
    OBVIOUS
  <2>2. SubSeq(s, 1, n) \in Seq(S) /\ Len(SubSeq(s, 1, n)) = n
    BY <2>1, PieceOf
  <2> QED BY <1>2, <2>2
<1>4. \A k \in 1..n : s[k] \in Alnum
  <2>1. \A k \in 1..n : k \in DOMAIN s
    OBVIOUS
  <2> QED BY <1>1, <2>1
<1>5. n < Len(s) => s[n + 1] \notin Alnum
  BY <1>1
<1> QED BY <1>2, <1>3, <1>4, <1>5

\* The same from some place of a text on.
LEMMA WordFrom ==
  ASSUME NEW S, NEW s \in Seq(S), NEW p \in 0..Len(s)
  PROVE  LET w == Word(From(s, p + 1))
             n == Len(w)
         IN  /\ n \in 0..(Len(s) - p)
             /\ w = SubSeq(s, p + 1, p + n)
             /\ w \in Seq(S)
             /\ IsWord(w)
             /\ \A k \in (p + 1)..(p + n) : s[k] \in Alnum
             /\ p + n < Len(s) => s[p + n + 1] \notin Alnum
             /\ Len(From(s, p + 1)) = Len(s) - p
             /\ p + n < Len(s) => From(s, p + 1)[n + 1] = s[p + n + 1]
<1> DEFINE r == From(s, p + 1)
           w == Word(r)
           n == Len(w)
<1>1. Len(s) \in Nat /\ Len(s) \in p..Len(s)
  OBVIOUS
<1>2. /\ r \in Seq(S) /\ Len(r) = Len(s) - p
      /\ \A k \in 1..(Len(s) - p) : r[k] = s[p + k]
  BY <1>1, PieceOf DEF From
<1> HIDE DEF r
<1>3. /\ n \in 0..Len(r) /\ w = SubSeq(r, 1, n) /\ w \in Seq(S)
      /\ \A k \in 1..n : r[k] \in Alnum
      /\ n < Len(r) => r[n + 1] \notin Alnum
  BY <1>2, WordIs
<1> HIDE DEF w
<1>4. n \in 0..(Len(s) - p) /\ p + n \in p..Len(s) /\ (p + n) - p = n
  BY <1>1, <1>2, <1>3
<1>5. \A k \in 1..n : w[k] = r[k] /\ r[k] = s[p + k]
  <2>1. 0 \in 0..Len(r) /\ n \in 0..Len(r) /\ n - 0 = n /\ 0 + 1 = 1
    BY <1>3, <1>2, <1>1
  <2>2. \A k \in 1..(n - 0) : SubSeq(r, 0 + 1, n)[k] = r[0 + k]
    BY <2>1, <1>2, PieceOf
  <2>3. \A k \in 1..n : SubSeq(r, 1, n)[k] = r[k] /\ r[k] = s[p + k]
    BY <2>1, <2>2, <1>2, <1>1, <1>4
  <2> QED BY <2>3, <1>3
<1>6. w = SubSeq(s, p + 1, p + n)
  <2>1. /\ SubSeq(s, p + 1, p + n) \in Seq(S)
        /\ Len(SubSeq(s, p + 1, p + n)) = n
        /\ \A k \in 1..n : SubSeq(s, p + 1, p + n)[k] = s[p + k]
    <3> DEFINE q == p + n
    <3>1. q \in p..Len(s) /\ q - p = n
      BY <1>4
    <3> HIDE DEF q, n
    <3>2. /\ SubSeq(s, p + 1, q) \in Seq(S)
          /\ Len(SubSeq(s, p + 1, q)) = q - p
          /\ \A k \in 1..(q - p) : SubSeq(s, p + 1, q)[k] = s[p + k]
      BY <3>1, PieceOf
    <3> QED BY <3>1, <3>2 DEF q, n
  <2> DEFINE u == SubSeq(s, p + 1, p + n)
  <2>2. u \in Seq(S) /\ Len(w) = Len(u) /\ \A k \in 1..Len(w) : w[k] = u[k]
    BY <2>1, <1>5
  <2> HIDE DEF u
  <2>3. w = u
    BY <2>2, <1>3, SeqEqual
  <2> QED BY <2>3 DEF u
<1>7. \A k \in (p + 1)..(p + n) : s[k] \in Alnum
  <2> SUFFICES ASSUME NEW k \in (p + 1)..(p + n) PROVE s[k] \in Alnum
    OBVIOUS
  <2>1. k - p \in 1..n /\ p + (k - p) = k
    BY <1>4
  <2> QED BY <2>1, <1>3, <1>5
<1>8. p + n < Len(s) => r[n + 1] = s[p + n + 1] /\ s[p + n + 1] \notin Alnum
  <2> SUFFICES ASSUME p + n < Len(s) PROVE r[n + 1] = s[p + n + 1] /\ s[p + n + 1] \notin Alnum
    OBVIOUS
  <2>1. n + 1 \in 1..(Len(s) - p) /\ n < Len(r) /\ p + (n + 1) = p + n + 1
    BY <1>4, <1>2, <1>1
  <2> QED BY <2>1, <1>2, <1>3
<1>9. IsWord(w)
  <2>1. DOMAIN w = 1..n
    BY <1>3
  <2> QED BY <2>1, <1>3, <1>5 DEF IsWord
<1> QED BY <1>2, <1>3, <1>4, <1>6, <1>7, <1>8, <1>9 DEF w, r

-----------------------------------------------------------------------------
(* The users file *)

\* The first n characters are as they should be.
WrittenUpTo(n) ==
  \A j \in 1..n :
    users_file[j] \notin Alnum => users_file[j] = IF BehindBlank(j) THEN "LF" ELSE "SP"

\* Behind a place a line begins.
AtLine(n) == n = 0 \/ (n \in 1..Len(users_file) /\ users_file[n] = "LF")

UsersAreWords ==
  /\ users_list \in Seq(Seq(STRING) \X Seq(STRING))
  /\ \A k \in DOMAIN users_list : IsWord(users_list[k][1]) /\ IsWord(users_list[k][2])

\* In front of a line, in its middle, and at the end of the file.
BetweenLines ==
  /\ users_file \in Seq(STRING)
  /\ read \in 0..Len(users_file)
  /\ AtLine(read) /\ WrittenUpTo(read) /\ ListedUpTo(read)

BehindLogin ==
  /\ users_file \in Seq(STRING)
  /\ read \in 1..Len(users_file)
  /\ users_file[read] = "SP" /\ WrittenUpTo(read)
  /\ IsWord(login)
  /\ \E start \in 0..(read - 1) :
       /\ login = SubSeq(users_file, start + 1, read - 1)
       /\ \A q \in (start + 1)..(read - 1) : users_file[q] \in Alnum
       /\ AtLine(start) /\ ListedUpTo(start)

SignInTypes ==
  /\ users_file \in UsersFiles
  /\ reader \in {"server", "cgi"}
  /\ UsersAreWords
  /\ users_file = NULL => users_list = <<>>
  /\ failing \in BOOLEAN

UsersInv ==
  /\ SignInTypes
  /\ step \in {"tokens", "open"} => read = 0 /\ users_list = <<>>
  /\ step \in {"line", "login"} => BetweenLines
  /\ step = "login" => read < Len(users_file)
  /\ step = "password" => BehindLogin
  /\ UsersAsWritten

LEMMA MarksApart ==
  ASSUME TextsAreSound
  PROVE  "SP" \notin Alnum /\ "LF" \notin Alnum /\ "&" \notin Alnum /\ "=" \notin Alnum
         /\ "SEMI" \notin Alnum /\ "CR" \notin Alnum /\ "TAB" \notin Alnum
         /\ "sid" \in Alnum /\ "login" \in Alnum /\ "password" \in Alnum
BY DEF TextsAreSound, LoginFields, Blanks

\* Behind letters and digits from a place on, a blank has to come in a line
\* that begins there, and a line feed behind a blank.
LEMMA BlankIs ==
  ASSUME TextsAreSound, users_file \in Seq(STRING),
         NEW p, NEW q, p \in 0..Len(users_file), q \in p..Len(users_file),
         \A k \in (p + 1)..q : users_file[k] \in Alnum
  PROVE  /\ AtLine(p) => ~BehindBlank(q + 1)
         /\ p \in 1..Len(users_file) /\ users_file[p] = "SP" => BehindBlank(q + 1)
<1>1. "SP" \notin Alnum /\ "LF" \notin Alnum
  BY MarksApart
<1>2. ASSUME AtLine(p), BehindBlank(q + 1) PROVE FALSE
  <2>1. PICK m \in 1..((q + 1) - 1) :
          users_file[m] = "SP" /\ \A k \in (m + 1)..((q + 1) - 1) : users_file[k] \in Alnum
    BY <1>2 DEF BehindBlank
  <2>2. m \in 1..q /\ ~(m \in (p + 1)..q)
    BY <1>1, <2>1
  <2>3. m <= p /\ p # 0
    BY <2>2
  <2>4. users_file[p] = "LF"
    BY <1>2, <2>3 DEF AtLine
  <2>5. m # p
    BY <2>1, <2>4
  <2>6. p \in (m + 1)..((q + 1) - 1)
    BY <2>2, <2>3, <2>5
  <2> QED BY <1>1, <2>1, <2>4, <2>6
<1>3. ASSUME p \in 1..Len(users_file), users_file[p] = "SP" PROVE BehindBlank(q + 1)
  <2>1. p \in 1..((q + 1) - 1) /\ (q + 1) - 1 = q
    BY <1>3
  <2> QED BY <1>3, <2>1 DEF BehindBlank
<1> QED BY <1>2, <1>3

\* The file is as it should be up to the mark behind them, when that is the
\* one that has to come.
LEMMA WrittenOn ==
  ASSUME TextsAreSound, users_file \in Seq(STRING),
         NEW p, NEW q, p \in 0..Len(users_file), q \in p..(Len(users_file) - 1),
         WrittenUpTo(p),
         \A k \in (p + 1)..q : users_file[k] \in Alnum,
         users_file[q + 1] = IF BehindBlank(q + 1) THEN "LF" ELSE "SP"
  PROVE  WrittenUpTo(q + 1)
<1> SUFFICES ASSUME NEW j \in 1..(q + 1), users_file[j] \notin Alnum
             PROVE  users_file[j] = IF BehindBlank(j) THEN "LF" ELSE "SP"
  BY DEF WrittenUpTo
<1>1. j \in 1..p \/ j \in (p + 1)..q \/ j = q + 1
  OBVIOUS
<1> QED BY <1>1 DEF WrittenUpTo

\* A file that is well written ends with a line feed.
LEMMA EndsInLine ==
  ASSUME TextsAreSound, users_file \in Seq(STRING), WellWritten,
         NEW p, p \in 0..(Len(users_file) - 1),
         \A k \in (p + 1)..Len(users_file) : users_file[k] \in Alnum
  PROVE  FALSE
<1>1. Len(users_file) \in (p + 1)..Len(users_file) /\ users_file # <<>>
  OBVIOUS
<1>2. users_file[Len(users_file)] = "LF"
  BY <1>1 DEF WellWritten
<1> QED BY <1>1, <1>2, MarksApart

\* A file is well written up to its end, or it is not.
LEMMA WrittenIs ==
  ASSUME users_file \in Seq(STRING)
  PROVE  /\ WellWritten => WrittenUpTo(Len(users_file))
         /\ WrittenUpTo(Len(users_file)) /\ AtLine(Len(users_file)) => WellWritten
<1>1. DOMAIN users_file = 1..Len(users_file)
  OBVIOUS
<1>2. Len(users_file) = 0 => users_file = <<>>
  OBVIOUS
<1> QED BY <1>1, <1>2 DEF WellWritten, WrittenUpTo, AtLine

-----------------------------------------------------------------------------
(* Its lines *)

LEMMA LineFeedsCount ==
  ASSUME NEW n \in Nat, NEW j, j \in LineFeeds(n)
  PROVE  /\ IsFiniteSet(LineFeeds(n)) /\ j \in 1..n /\ j \in Nat
         /\ Cardinality(LineFeeds(n)) \in Nat
         /\ Cardinality(LineFeeds(j)) \in 1..Cardinality(LineFeeds(n))
<1>1. j \in 1..n /\ j \in Nat /\ users_file[j] = "LF"
  BY DEF LineFeeds
<1>2. IsFiniteSet(1..n)
  BY FS_Interval
<1>3. LineFeeds(n) \subseteq 1..n
  BY DEF LineFeeds
<1>4. IsFiniteSet(LineFeeds(n)) /\ Cardinality(LineFeeds(n)) \in Nat
  BY <1>2, <1>3, FS_Subset, FS_CardinalityType
<1>5. LineFeeds(j) \subseteq LineFeeds(n)
  BY <1>1 DEF LineFeeds
<1>6. IsFiniteSet(LineFeeds(j)) /\ Cardinality(LineFeeds(j)) <= Cardinality(LineFeeds(n))
  BY <1>4, <1>5, FS_Subset
<1>7. j \in LineFeeds(j)
  BY <1>1 DEF LineFeeds
<1>8. Cardinality(LineFeeds(j)) \in Nat /\ Cardinality(LineFeeds(j)) # 0
  BY <1>6, <1>7, FS_CardinalityType, FS_EmptySet
<1> QED BY <1>1, <1>4, <1>6, <1>8

\* One more line.
LEMMA OneMoreLine ==
  ASSUME NEW m \in Nat, NEW n \in Nat, m <= n,
         \A k \in (m + 1)..n : users_file[k] # "LF",
         users_file[n + 1] = "LF"
  PROVE  /\ LineFeeds(n + 1) = LineFeeds(m) \cup {n + 1}
         /\ Cardinality(LineFeeds(m)) \in Nat
         /\ Cardinality(LineFeeds(n + 1)) = Cardinality(LineFeeds(m)) + 1
<1>1. LineFeeds(n + 1) = LineFeeds(m) \cup {n + 1}
  <2>1. ASSUME NEW j, j \in LineFeeds(n + 1) PROVE j \in LineFeeds(m) \cup {n + 1}
    <3>1. j \in 1..(n + 1) /\ users_file[j] = "LF"
      BY <2>1 DEF LineFeeds
    <3>2. j \in 1..m \/ j = n + 1
      BY <3>1
    <3> QED BY <3>1, <3>2 DEF LineFeeds
  <2>2. LineFeeds(m) \cup {n + 1} \subseteq LineFeeds(n + 1)
    BY DEF LineFeeds
  <2> QED BY <2>1, <2>2
<1>2. IsFiniteSet(1..m)
  BY FS_Interval
<1>3. LineFeeds(m) \subseteq 1..m /\ n + 1 \notin LineFeeds(m)
  BY DEF LineFeeds
<1>4. IsFiniteSet(LineFeeds(m)) /\ Cardinality(LineFeeds(m)) \in Nat
  BY <1>2, <1>3, FS_Subset, FS_CardinalityType
<1>5. Cardinality(LineFeeds(m) \cup {n + 1}) = Cardinality(LineFeeds(m)) + 1
  BY <1>3, <1>4, FS_AddElement
<1> QED BY <1>1, <1>4, <1>5

LEMMA Regroup ==
  ASSUME NEW a \in Seq(STRING), NEW b \in Seq(STRING), NEW c \in Seq(STRING)
  PROVE  (a \o b) \o c = a \o (b \o c)
BY ConcatAssociative

\* A line is its login, a blank, its password and a line feed.
LEMMA LineIs ==
  ASSUME users_file \in Seq(STRING),
         NEW m, NEW b, NEW e, m \in 0..Len(users_file), b \in (m + 1)..Len(users_file),
         e \in b..(Len(users_file) - 1),
         users_file[b] = "SP", users_file[e + 1] = "LF"
  PROVE  LET line == Written(<<SubSeq(users_file, m + 1, b - 1), SubSeq(users_file, b + 1, e)>>)
         IN  line = SubSeq(users_file, m + 1, e + 1) /\ Len(line) = e + 1 - m
<1> DEFINE s == users_file
           l == SubSeq(s, m + 1, b - 1)
           p == SubSeq(s, b + 1, e)
<1>1. s \in Seq(STRING) /\ m \in 0..Len(s) /\ b \in (m + 1)..Len(s) /\ e \in b..(Len(s) - 1)
      /\ s[b] = "SP" /\ s[e + 1] = "LF" /\ Len(s) \in Nat
  OBVIOUS
<1> HIDE DEF s
<1>2. SubSeq(s, m + 1, b) = l \o <<"SP">>
  <2>1. m + 1 \in 1..Len(s) /\ b \in (m + 1)..Len(s)
    BY <1>1
  <2>2. SubSeq(s, m + 1, b) = SubSeq(s, m + 1, b - 1) \o <<s[b]>>
    BY <1>1, <2>1, SubSeqRecursiveSecond
  <2> QED BY <1>1, <2>2
<1>3. SubSeq(s, b + 1, e + 1) = p \o <<"LF">>
  <2>1. b + 1 \in 1..Len(s) /\ e + 1 \in (b + 1)..Len(s) /\ (e + 1) - 1 = e
    BY <1>1
  <2>2. SubSeq(s, b + 1, e + 1) = SubSeq(s, b + 1, (e + 1) - 1) \o <<s[e + 1]>>
    BY <1>1, <2>1, SubSeqRecursiveSecond
  <2> QED BY <1>1, <2>1, <2>2
<1>4. SubSeq(s, m + 1, b) \o SubSeq(s, b + 1, e + 1) = SubSeq(s, m + 1, e + 1)
  <2>1. m + 1 \in 1..(Len(s) + 1) /\ b \in ((m + 1) - 1)..Len(s) /\ e + 1 \in b..Len(s)
    BY <1>1
  <2> QED BY <1>1, <2>1, ConcatAdjacentSubSeq
<1>5. l \in Seq(STRING) /\ p \in Seq(STRING) /\ Len(SubSeq(s, m + 1, e + 1)) = e + 1 - m
  <2>1. b - 1 \in m..Len(s) /\ b \in 0..Len(s) /\ e \in b..Len(s) /\ e + 1 \in m..Len(s)
        /\ (e + 1) - m = e + 1 - m
    BY <1>1
  <2>2. SubSeq(s, m + 1, b - 1) \in Seq(STRING)
    BY <1>1, <2>1, PieceOf
  <2>3. SubSeq(s, b + 1, e) \in Seq(STRING)
    BY <1>1, <2>1, PieceOf
  <2>4. Len(SubSeq(s, m + 1, e + 1)) = (e + 1) - m
    BY <1>1, <2>1, PieceOf
  <2> QED BY <2>1, <2>2, <2>3, <2>4
<1>6. <<"SP">> \in Seq(STRING) /\ <<"LF">> \in Seq(STRING)
  <2>1. b \in 1..Len(s) /\ e + 1 \in 1..Len(s)
    BY <1>1
  <2>2. s[b] \in STRING /\ s[e + 1] \in STRING
    BY <1>1, <2>1, ElementOfSeq
  <2>3. "SP" \in STRING /\ "LF" \in STRING
    BY <1>1, <2>2
  <2> QED BY <2>3
<1> HIDE DEF l, p
<1>7. Written(<<l, p>>) = (l \o <<"SP">>) \o (p \o <<"LF">>)
  <2> DEFINE x == <<"SP">>
             y == <<"LF">>
  <2>1. Written(<<l, p>>) = ((l \o x) \o p) \o y
    BY DEF Written
  <2>2. x \in Seq(STRING) /\ y \in Seq(STRING)
    BY <1>6
  <2> HIDE DEF x, y
  <2>3. l \o x \in Seq(STRING)
    BY <1>5, <2>2, ConcatProperties
  <2>4. ((l \o x) \o p) \o y = (l \o x) \o (p \o y)
    BY <1>5, <2>2, <2>3, Regroup, Zenon
  <2>5. Written(<<l, p>>) = (l \o x) \o (p \o y)
    BY <2>1, <2>4
  <2> QED BY <2>5 DEF x, y
<1>8. Written(<<l, p>>) = SubSeq(s, m + 1, e + 1) /\ Len(Written(<<l, p>>)) = e + 1 - m
  BY <1>2, <1>3, <1>4, <1>5, <1>7
<1> QED BY <1>8 DEF l, p, s

-----------------------------------------------------------------------------
(* The steps of Auth::Init *)

\* What is said of the file holds while it and the list stay the same.
LEMMA SameFile ==
  ASSUME users_file' = users_file, NEW n
  PROVE  /\ WrittenUpTo(n) => WrittenUpTo(n)'
         /\ AtLine(n) => AtLine(n)'
         /\ WellWritten' <=> WellWritten
         /\ LineFeeds(n)' = LineFeeds(n)
         /\ HasLongWord' <=> HasLongWord
         /\ users_list' = users_list /\ ListedUpTo(n) => ListedUpTo(n)'
<1>1. WrittenUpTo(n) => WrittenUpTo(n)'
  BY DEF WrittenUpTo, BehindBlank
<1>2. AtLine(n) => AtLine(n)'
  BY DEF AtLine
<1>3. WellWritten' <=> WellWritten
  BY DEF WellWritten, BehindBlank
<1>4. \A m : LineFeeds(m)' = LineFeeds(m)
  BY DEF LineFeeds
<1>5. users_list' = users_list /\ ListedUpTo(n) => ListedUpTo(n)'
  BY DEF ListedUpTo, Written, LineFeeds
<1>6. HasLongWord' <=> HasLongWord
  BY DEF HasLongWord
<1> QED BY <1>1, <1>2, <1>3, <1>4, <1>5, <1>6

\* Nothing changes that the invariant is about, but how far Auth::Init is.
LEMMA SameUsers ==
  ASSUME UsersInv, UNCHANGED <<users_file, users_list, reader>>, failing' \in BOOLEAN
  PROVE  SignInTypes'
BY DEF UsersInv, SignInTypes, UsersAreWords, IsWord

\* The letters and digits from where Auth::Init is, and what is behind them.
LEMMA NextWord ==
  ASSUME TextsAreSound, users_file \in Seq(STRING), read \in 0..Len(users_file)
  PROVE  \E q \in read..Len(users_file) :
           /\ Word(Rest) = SubSeq(users_file, read + 1, q)
           /\ Word(Rest) \in Seq(STRING) /\ IsWord(Word(Rest))
           /\ Len(Word(Rest)) = q - read
           /\ \A k \in (read + 1)..q : users_file[k] \in Alnum
           /\ q < Len(users_file) => users_file[q + 1] \notin Alnum
           /\ \A ch : EndsWith(ch) <=> q < Len(users_file) /\ users_file[q + 1] = ch
           /\ Rest = <<>> <=> read = Len(users_file)
<1> DEFINE s == users_file
           p == read
           w == Word(From(s, p + 1))
           n == Len(w)
           q == p + n
<1>1. s \in Seq(STRING) /\ p \in 0..Len(s) /\ Len(s) \in Nat
  OBVIOUS
<1> HIDE DEF s, p
<1>2. /\ n \in 0..(Len(s) - p)
      /\ w = SubSeq(s, p + 1, p + n)
      /\ w \in Seq(STRING)
      /\ IsWord(w)
      /\ \A k \in (p + 1)..(p + n) : s[k] \in Alnum
      /\ p + n < Len(s) => s[p + n + 1] \notin Alnum
      /\ Len(From(s, p + 1)) = Len(s) - p
      /\ p + n < Len(s) => From(s, p + 1)[n + 1] = s[p + n + 1]
  BY <1>1, WordFrom
<1>3. Rest = From(s, p + 1)
  BY DEF Rest, s, p
<1>4. q \in p..Len(s) /\ n = q - p /\ n \in Nat
  BY <1>1, <1>2
<1>5. Rest = <<>> <=> p = Len(s)
  <2>1. From(s, p + 1) \in Seq(STRING)
    <3>1. Len(s) \in p..Len(s)
      BY <1>1
    <3> QED BY <1>1, <3>1, PieceOf DEF From
  <2> QED BY <1>1, <1>2, <1>3, <2>1, EmptySeq
<1>6. \A ch : EndsWith(ch) <=> q < Len(s) /\ s[q + 1] = ch
  <2> TAKE ch
  <2>1. EndsWith(ch) <=> n < Len(From(s, p + 1)) /\ From(s, p + 1)[n + 1] = ch
    BY <1>3, Zenon DEF EndsWith
  <2>2. n < Len(From(s, p + 1)) <=> q < Len(s)
    BY <1>1, <1>2, <1>4
  <2> QED BY <1>2, <2>1, <2>2
<1> HIDE DEF w, n
<1>7. /\ q \in p..Len(s)
      /\ Word(Rest) = SubSeq(s, p + 1, q)
      /\ Word(Rest) \in Seq(STRING) /\ IsWord(Word(Rest))
      /\ Len(Word(Rest)) = q - p
      /\ \A k \in (p + 1)..q : s[k] \in Alnum
      /\ q < Len(s) => s[q + 1] \notin Alnum
  BY <1>2, <1>3, <1>4 DEF w, n
<1> HIDE DEF q
<1> QED BY <1>5, <1>6, <1>7 DEF s, p

\* A word that does not fit is one of the file.
LEMMA OverrunIs ==
  ASSUME TextsAreSound, BufLen \in Nat, Overrun,
         users_file \in Seq(STRING), read \in 0..Len(users_file)
  PROVE  HasLongWord
<1>1. PICK q \in read..Len(users_file) :
        /\ Len(Word(Rest)) = q - read
        /\ \A k \in (read + 1)..q : users_file[k] \in Alnum
  BY NextWord
<1>2. q - read > BufLen
  BY <1>1 DEF Overrun
<1> DEFINE j == read + 1
<1>3. j \in 1..Len(users_file) /\ j + BufLen <= Len(users_file) /\ j + BufLen <= q
  BY <1>2
<1>4. \A m \in j..(j + BufLen) : users_file[m] \in Alnum
  BY <1>1, <1>3
<1> HIDE DEF j
<1> QED BY <1>3, <1>4 DEF HasLongWord

LEMMA CheckEofKeeps ==
  ASSUME TextsAreSound, UsersInv, CheckEof
  PROVE  UsersInv'
<1>1. /\ BetweenLines /\ UNCHANGED <<users_file, read, users_list, reader, failing>>
      /\ step' = IF Rest = <<>> THEN "ready" ELSE "login"
  BY DEF CheckEof, UsersInv
<1>2. SignInTypes'
  BY <1>1, SameUsers DEF UsersInv, SignInTypes
<1>3. users_file \in Seq(STRING) /\ read \in 0..Len(users_file)
  BY <1>1 DEF BetweenLines
<1>4. Rest = <<>> <=> read = Len(users_file)
  BY <1>3, NextWord
<1>5. BetweenLines'
  <2>1. AtLine(read)'
    BY <1>1 DEF BetweenLines, AtLine
  <2>2. WrittenUpTo(read)'
    BY <1>1 DEF BetweenLines, WrittenUpTo, BehindBlank
  <2>3. ListedUpTo(read)'
    BY <1>1 DEF BetweenLines, ListedUpTo, LineFeeds, Written
  <2> QED BY <1>1, <1>3, <2>1, <2>2, <2>3 DEF BetweenLines
<1>6. CASE Rest = <<>>
  <2>1. WellWritten' /\ ListedUpTo(Len(users_file))'
    <3>1. WrittenUpTo(Len(users_file)) /\ AtLine(Len(users_file)) /\ ListedUpTo(Len(users_file))
      BY <1>1, <1>4, <1>6 DEF BetweenLines
    <3>2. WellWritten
      BY <1>3, <3>1, WrittenIs
    <3>3. ListedUpTo(Len(users_file))'
      BY <1>1, <3>1 DEF ListedUpTo, LineFeeds, Written
    <3> QED BY <1>1, <3>2, <3>3, SameFile
  <2> QED BY <1>1, <1>2, <1>6, <2>1 DEF UsersInv, UsersAsWritten
<1>7. CASE Rest # <<>>
  <2>1. read' < Len(users_file)'
    BY <1>1, <1>3, <1>4, <1>7
  <2> QED BY <1>1, <1>2, <1>5, <1>7, <2>1 DEF UsersInv, UsersAsWritten
<1> QED BY <1>6, <1>7

LEMMA ParseLoginKeeps ==
  ASSUME TextsAreSound, BufLen \in Nat, UsersInv, ParseLogin
  PROVE  UsersInv'
<1>1. /\ BetweenLines /\ read < Len(users_file)
      /\ UNCHANGED <<users_file, users_list, reader, failing>>
      /\ users_file \in Seq(STRING) /\ read \in 0..Len(users_file)
      /\ AtLine(read) /\ WrittenUpTo(read) /\ ListedUpTo(read)
  BY DEF ParseLogin, UsersInv, BetweenLines
<1>2. SignInTypes'
  BY <1>1, SameUsers DEF UsersInv, SignInTypes
<1>3. PICK q \in read..Len(users_file) :
        /\ Word(Rest) = SubSeq(users_file, read + 1, q)
        /\ Word(Rest) \in Seq(STRING) /\ IsWord(Word(Rest))
        /\ Len(Word(Rest)) = q - read
        /\ \A k \in (read + 1)..q : users_file[k] \in Alnum
        /\ q < Len(users_file) => users_file[q + 1] \notin Alnum
        /\ \A ch : EndsWith(ch) <=> q < Len(users_file) /\ users_file[q + 1] = ch
  BY <1>1, NextWord
<1>4. Len(users_file) \in Nat /\ q \in Nat
  BY <1>1
<1>5. ~BehindBlank(q + 1)
  BY <1>1, <1>3, BlankIs
<1>6. CASE ~Overrun /\ EndsWith("SP")
  <2>1. q < Len(users_file) /\ users_file[q + 1] = "SP"
    BY <1>3, <1>6
  <2>2. /\ login' = Word(Rest) /\ read' = q + 1 /\ step' = "password"
    BY <1>1, <1>3, <1>4, <1>6 DEF ParseLogin
  <2>3. WrittenUpTo(q + 1)
    <3>1. q \in read..(Len(users_file) - 1)
      BY <1>3, <1>4, <2>1
    <3> QED BY <1>1, <1>3, <1>5, <2>1, <3>1, WrittenOn
  <2>4. BehindLogin'
    <3>1. users_file' \in Seq(STRING) /\ read' \in 1..Len(users_file') /\ users_file'[read'] = "SP"
      BY <1>1, <1>4, <2>1, <2>2
    <3>2. WrittenUpTo(read)'
      BY <1>1, <2>2, <2>3 DEF WrittenUpTo, BehindBlank
    <3>3. IsWord(login)'
      BY <1>3, <2>2 DEF IsWord
    <3>4. PICK start : start = read
      OBVIOUS
    <3>5. start \in 0..(read' - 1) /\ read' - 1 = q
      BY <1>1, <1>3, <1>4, <2>2, <3>4
    <3>6. login' = SubSeq(users_file', start + 1, read' - 1)
      BY <1>1, <1>3, <2>2, <3>4, <3>5
    <3>7. \A k \in (start + 1)..(read' - 1) : users_file'[k] \in Alnum
      BY <1>1, <1>3, <3>4, <3>5
    <3>8. AtLine(start)' /\ ListedUpTo(start)'
      BY <1>1, <3>4, SameFile
    <3> QED BY <3>1, <3>2, <3>3, <3>5, <3>6, <3>7, <3>8 DEF BehindLogin
  <2> QED BY <1>2, <2>2, <2>4 DEF UsersInv, UsersAsWritten
<1>7. CASE ~Overrun /\ ~EndsWith("SP")
  <2>1. step' = "failed"
    BY <1>7 DEF ParseLogin
  <2>2. ~WellWritten
    <3> SUFFICES ASSUME WellWritten PROVE FALSE
      OBVIOUS
    <3>1. CASE q = Len(users_file)
      <4>1. read \in 0..(Len(users_file) - 1)
        BY <1>1, <1>4
      <4> QED BY <1>1, <1>3, <3>1, <4>1, EndsInLine
    <3>2. CASE q # Len(users_file)
      <4>1. q + 1 \in 1..Len(users_file) /\ q < Len(users_file)
        BY <1>3, <1>4, <3>2
      <4>2. users_file[q + 1] = "SP"
        BY <1>1, <1>3, <1>5, <4>1, WrittenIs DEF WrittenUpTo
      <4> QED BY <1>3, <1>7, <4>1, <4>2
    <3> QED BY <3>1, <3>2
  <2>3. ~WellWritten'
    BY <1>1, <2>2, SameFile
  <2> QED BY <1>2, <2>1, <2>3 DEF UsersInv, UsersAsWritten
<1>8. CASE Overrun
  <2>1. step' = "undefined"
    BY <1>8 DEF ParseLogin
  <2>2. HasLongWord'
    BY <1>1, <1>8, OverrunIs, SameFile
  <2> QED BY <1>2, <2>1, <2>2 DEF UsersInv, UsersAsWritten
<1> QED BY <1>6, <1>7, <1>8

\* The list goes on with a line of the file.
LEMMA ListedOn ==
  ASSUME users_file \in Seq(STRING), users_file' = users_file, UsersAreWords,
         NEW m, NEW b, NEW e, m \in 0..Len(users_file), b \in (m + 1)..Len(users_file),
         e \in b..(Len(users_file) - 1),
         users_file[b] = "SP", users_file[e + 1] = "LF",
         \A k \in (m + 1)..e : users_file[k] # "LF",
         AtLine(m), ListedUpTo(m),
         users_list' = Append(users_list, <<SubSeq(users_file, m + 1, b - 1),
                                            SubSeq(users_file, b + 1, e)>>)
  PROVE  ListedUpTo(e + 1)'
<1> DEFINE line == Written(<<SubSeq(users_file, m + 1, b - 1), SubSeq(users_file, b + 1, e)>>)
           new == <<SubSeq(users_file, m + 1, b - 1), SubSeq(users_file, b + 1, e)>>
<1>1. /\ Len(users_file) \in Nat /\ m \in Nat /\ e \in Nat /\ m <= e /\ b \in Nat
      /\ m < b /\ b <= e /\ e < Len(users_file)
  OBVIOUS
<1>2. /\ LineFeeds(e + 1) = LineFeeds(m) \cup {e + 1}
      /\ Cardinality(LineFeeds(m)) \in Nat
      /\ Cardinality(LineFeeds(e + 1)) = Cardinality(LineFeeds(m)) + 1
  BY <1>1, OneMoreLine
<1>3. line = SubSeq(users_file, m + 1, e + 1) /\ Len(line) = e + 1 - m
  BY LineIs
<1>4. /\ Len(users_list) = Cardinality(LineFeeds(m))
      /\ users_list' = Append(users_list, new)
  BY DEF ListedUpTo
<1>5. new \in Seq(STRING) \X Seq(STRING)
  <2>1. b - 1 \in m..Len(users_file) /\ b \in 0..Len(users_file) /\ e \in b..Len(users_file)
    BY <1>1
  <2> QED BY <2>1, PieceOf
<1> HIDE DEF new
<1>6. /\ Len(users_list') = Len(users_list) + 1
      /\ \A k \in 1..Len(users_list) : users_list'[k] = users_list[k]
      /\ users_list'[Len(users_list) + 1] = new
  <2> DEFINE S == Seq(STRING) \X Seq(STRING)
  <2>1. users_list \in Seq(S) /\ new \in S
    BY <1>5 DEF UsersAreWords
  <2> HIDE DEF S
  <2>2. /\ Len(Append(users_list, new)) = Len(users_list) + 1
        /\ \A k \in 1..Len(users_list) : Append(users_list, new)[k] = users_list[k]
        /\ Append(users_list, new)[Len(users_list) + 1] = new
    BY <2>1, AppendProperties
  <2>3. users_list' = Append(users_list, new)
    BY <1>4
  <2> QED BY <2>2, <2>3, Zenon
<1>7. \A n : LineFeeds(n)' = LineFeeds(n)
  BY DEF LineFeeds
<1>8. Len(users_list') = Cardinality(LineFeeds(e + 1)')
  BY <1>2, <1>4, <1>6, <1>7
<1>9. ASSUME NEW j, j \in LineFeeds(e + 1)
      PROVE  LET l == Written(users_list'[Cardinality(LineFeeds(j))])
                 start == j - Len(l)
             IN  /\ start = 0 \/ start \in LineFeeds(e + 1)
                 /\ SubSeq(users_file, start + 1, j) = l
  <2>1. CASE j = e + 1
    <3>1. users_list'[Cardinality(LineFeeds(j))] = new
      BY <1>2, <1>4, <1>6, <2>1
    <3>2. j - Len(line) = m
      <4> HIDE DEF line
      <4> QED BY <1>1, <1>3, <2>1
    <3>3. m = 0 \/ m \in LineFeeds(e + 1)
      BY <1>1 DEF AtLine, LineFeeds
    <3>4. Written(new) = line
      BY DEF new
    <3> HIDE DEF line
    <3> QED BY <1>3, <2>1, <3>1, <3>2, <3>3, <3>4
  <2>2. CASE j \in LineFeeds(m)
    <3>1. Cardinality(LineFeeds(j)) \in 1..Cardinality(LineFeeds(m))
      BY <1>1, <2>2, LineFeedsCount
    <3>2. users_list'[Cardinality(LineFeeds(j))] = users_list[Cardinality(LineFeeds(j))]
      BY <1>4, <1>6, <3>1
    <3>3. LET l == Written(users_list[Cardinality(LineFeeds(j))])
              start == j - Len(l)
          IN  /\ start = 0 \/ start \in LineFeeds(m)
              /\ SubSeq(users_file, start + 1, j) = l
      BY <2>2, Zenon DEF ListedUpTo
    <3> QED BY <1>2, <3>2, <3>3
  <2> QED BY <1>2, <1>9, <2>1, <2>2
<1> HIDE DEF line
<1>10. \A j \in LineFeeds(e + 1)' :
         LET l == Written(users_list'[Cardinality(LineFeeds(j)')])
             start == j - Len(l)
         IN  /\ start = 0 \/ start \in LineFeeds(e + 1)'
             /\ SubSeq(users_file', start + 1, j) = l
  BY <1>7, <1>9
<1> QED BY <1>8, <1>10 DEF ListedUpTo, Written

LEMMA ParsePasswordKeeps ==
  ASSUME TextsAreSound, BufLen \in Nat, UsersInv, ParsePassword
  PROVE  UsersInv'
<1>1. /\ BehindLogin /\ UNCHANGED <<users_file, reader, failing>>
      /\ users_file \in Seq(STRING) /\ read \in 1..Len(users_file)
      /\ read \in 0..Len(users_file)
      /\ users_file[read] = "SP" /\ WrittenUpTo(read) /\ IsWord(login)
      /\ UsersAreWords /\ Len(users_file) \in Nat /\ read \in Nat
  <2>1. BehindLogin /\ UNCHANGED <<users_file, reader, failing>> /\ UsersAreWords
    BY DEF ParsePassword, UsersInv, SignInTypes
  <2>2. /\ users_file \in Seq(STRING) /\ read \in 1..Len(users_file)
        /\ users_file[read] = "SP" /\ WrittenUpTo(read) /\ IsWord(login)
    BY <2>1 DEF BehindLogin
  <2>3. Len(users_file) \in Nat
    BY <2>2
  <2>4. read \in 0..Len(users_file) /\ read \in Nat
    BY <2>2, <2>3
  <2> QED BY <2>1, <2>2, <2>3, <2>4
<1>2. PICK start \in 0..(read - 1) :
        /\ login = SubSeq(users_file, start + 1, read - 1)
        /\ \A q \in (start + 1)..(read - 1) : users_file[q] \in Alnum
        /\ AtLine(start) /\ ListedUpTo(start)
  BY <1>1 DEF BehindLogin
<1>3. PICK q \in read..Len(users_file) :
        /\ Word(Rest) = SubSeq(users_file, read + 1, q)
        /\ Word(Rest) \in Seq(STRING) /\ IsWord(Word(Rest))
        /\ Len(Word(Rest)) = q - read
        /\ \A k \in (read + 1)..q : users_file[k] \in Alnum
        /\ q < Len(users_file) => users_file[q + 1] \notin Alnum
        /\ \A ch : EndsWith(ch) <=> q < Len(users_file) /\ users_file[q + 1] = ch
  BY <1>1, NextWord
<1>4. q \in Nat /\ start \in Nat
  BY <1>1
<1>5. BehindBlank(q + 1)
  BY <1>1, <1>3, BlankIs
<1>6. CASE ~Overrun /\ EndsWith("LF")
  <2>1. q < Len(users_file) /\ users_file[q + 1] = "LF" /\ q \in read..(Len(users_file) - 1)
    <3>1. q < Len(users_file) /\ users_file[q + 1] = "LF"
      BY <1>3, <1>6
    <3> QED BY <1>1, <1>3, <3>1
  <2>2. /\ users_list' = Append(users_list, <<login, Word(Rest)>>)
        /\ read' = q + 1 /\ step' = "line"
    BY <1>1, <1>3, <1>4, <1>6 DEF ParsePassword, UsersAppend
  <2>3. WrittenUpTo(q + 1)
    BY <1>1, <1>3, <1>5, <2>1, WrittenOn
  <2>4. ListedUpTo(q + 1)'
    <3>1. start \in 0..Len(users_file) /\ read \in (start + 1)..Len(users_file)
      BY <1>1, <1>4
    <3>2. \A k \in (start + 1)..q : users_file[k] # "LF"
      <4> SUFFICES ASSUME NEW k \in (start + 1)..q PROVE users_file[k] # "LF"
        OBVIOUS
      <4>1. k \in (start + 1)..(read - 1) \/ k = read \/ k \in (read + 1)..q
        BY <1>1, <1>4
      <4>2. CASE k = read
        BY <1>1, <4>2
      <4> QED BY <1>2, <1>3, <4>1, <4>2, MarksApart
    <3>3. users_list' = Append(users_list, <<SubSeq(users_file, start + 1, read - 1),
                                             SubSeq(users_file, read + 1, q)>>)
      BY <1>2, <1>3, <2>2
    <3> QED BY <1>1, <1>2, <2>1, <3>1, <3>2, <3>3, ListedOn
  <2>5. BetweenLines'
    <3>1. users_file' \in Seq(STRING) /\ read' \in 0..Len(users_file') /\ AtLine(read)'
      BY <1>1, <1>4, <2>1, <2>2 DEF AtLine
    <3>2. WrittenUpTo(read)'
      BY <1>1, <2>2, <2>3 DEF WrittenUpTo, BehindBlank
    <3>3. ListedUpTo(read)'
      BY <2>2, <2>4 DEF ListedUpTo, LineFeeds
    <3> QED BY <3>1, <3>2, <3>3 DEF BetweenLines
  <2>6. UsersAreWords'
    <3> DEFINE new == <<login, Word(Rest)>>
    <3>1. login \in Seq(STRING)
      <4>1. start \in 0..Len(users_file) /\ read - 1 \in start..Len(users_file)
        BY <1>1, <1>4
      <4> QED BY <1>1, <1>2, <4>1, PieceOf
    <3>2. new \in Seq(STRING) \X Seq(STRING) /\ IsWord(new[1]) /\ IsWord(new[2])
      BY <1>1, <1>3, <3>1
    <3> HIDE DEF new
    <3>3. users_list' = Append(users_list, new)
      BY <2>2 DEF new
    <3>4. /\ users_list' \in Seq(Seq(STRING) \X Seq(STRING))
          /\ Len(users_list') = Len(users_list) + 1
          /\ \A k \in 1..Len(users_list) : users_list'[k] = users_list[k]
          /\ users_list'[Len(users_list) + 1] = new
      BY <1>1, <3>2, <3>3, AppendProperties DEF UsersAreWords
    <3>5. DOMAIN users_list' = 1..(Len(users_list) + 1) /\ Len(users_list) \in Nat
          /\ DOMAIN users_list = 1..Len(users_list)
      BY <1>1, <3>4 DEF UsersAreWords
    <3>6. \A k \in DOMAIN users_list' : IsWord(users_list'[k][1]) /\ IsWord(users_list'[k][2])
      <4> SUFFICES ASSUME NEW k \in 1..(Len(users_list) + 1)
                   PROVE  IsWord(users_list'[k][1]) /\ IsWord(users_list'[k][2])
        BY <3>5
      <4>1. k \in 1..Len(users_list) \/ k = Len(users_list) + 1
        BY <3>5
      <4> QED BY <1>1, <3>2, <3>4, <3>5, <4>1 DEF UsersAreWords
    <3> QED BY <3>4, <3>6 DEF UsersAreWords, IsWord
  <2>7. SignInTypes'
    <3>1. users_file' # NULL
      BY <1>1 DEF TextsAreSound
    <3> QED BY <1>1, <2>6, <3>1 DEF UsersInv, SignInTypes
  <2> QED BY <2>2, <2>5, <2>7 DEF UsersInv, UsersAsWritten
<1>7. CASE ~Overrun /\ ~EndsWith("LF")
  <2>1. step' = "failed" /\ users_list' = users_list
    BY <1>7 DEF ParsePassword
  <2>2. SignInTypes'
    BY <1>1, <2>1, SameUsers DEF UsersInv, SignInTypes
  <2>3. ~WellWritten
    <3> SUFFICES ASSUME WellWritten PROVE FALSE
      OBVIOUS
    <3>1. CASE q = Len(users_file)
      <4>1. CASE read = Len(users_file)
        <5>1. users_file[Len(users_file)] = "LF"
          <6>1. users_file # <<>>
            BY <1>1, <4>1
          <6> QED BY <6>1 DEF WellWritten
        <5> QED BY <1>1, <4>1, <5>1
      <4>2. CASE read # Len(users_file)
        <5>1. read \in 0..(Len(users_file) - 1)
          BY <1>1, <4>2
        <5> QED BY <1>1, <1>3, <3>1, <5>1, EndsInLine
      <4> QED BY <4>1, <4>2
    <3>2. CASE q # Len(users_file)
      <4>1. q + 1 \in 1..Len(users_file) /\ q < Len(users_file)
        BY <1>1, <1>3, <1>4, <3>2
      <4>2. users_file[q + 1] = "LF"
        BY <1>1, <1>3, <1>5, <4>1, WrittenIs DEF WrittenUpTo
      <4> QED BY <1>3, <1>7, <4>1, <4>2
    <3> QED BY <3>1, <3>2
  <2>4. ~WellWritten'
    BY <1>1, <2>3, SameFile
  <2> QED BY <2>1, <2>2, <2>4 DEF UsersInv, UsersAsWritten
<1>8. CASE Overrun
  <2>1. step' = "undefined" /\ users_list' = users_list
    BY <1>8 DEF ParsePassword
  <2>2. HasLongWord'
    BY <1>1, <1>8, OverrunIs, SameFile
  <2>3. SignInTypes'
    BY <1>1, <2>1, SameUsers DEF UsersInv, SignInTypes
  <2> QED BY <2>1, <2>2, <2>3 DEF UsersInv, UsersAsWritten
<1> QED BY <1>6, <1>7, <1>8

-----------------------------------------------------------------------------
(* A form, as the server reads it *)

\* Where the value of a field is.
FilledAt(s, field, v, p) ==
  /\ Fields(field, s) = {p}
  /\ p + 1 + Len(v) <= Len(s)
  /\ s[p + 1] = "="
  /\ \A j \in 1..Len(v) : s[p + 1 + j] = v[j] /\ v[j] # "&"
  /\ p + 1 + Len(v) < Len(s) => s[p + Len(v) + 2] = "&"

LEMMA FilledInIs ==
  ASSUME NEW s \in Seq(STRING), NEW v \in Seq(STRING), NEW field, FilledIn(s, field, v)
  PROVE  \E p \in 1..Len(s) : FilledAt(s, field, v, p)
<1>1. PICK p \in 1..(Len(s) + 1), q \in 1..(Len(s) + 1) :
        /\ Fields(field, s) = {p}
        /\ s[p + 1] = "=" /\ Between(s, p + 1, q, v)
        /\ q = Len(s) + 1 \/ s[q] = "&"
        /\ \A j \in DOMAIN v : v[j] # "&"
  BY DEF FilledIn
<1>2. Len(s) \in Nat /\ Len(v) \in Nat /\ DOMAIN v = 1..Len(v)
  OBVIOUS
<1>3. p + 1 + Len(v) = q - 1 /\ SubSeq(s, (p + 1) + 1, q - 1) = v
  BY <1>1 DEF Between
<1>4. /\ p \in 1..Len(s) /\ p + 1 + Len(v) <= Len(s)
      /\ p + 1 \in 0..Len(s) /\ q - 1 \in (p + 1)..Len(s) /\ (q - 1) - (p + 1) = Len(v)
  BY <1>2, <1>3
<1>5. \A j \in 1..Len(v) : s[p + 1 + j] = v[j] /\ v[j] # "&"
  <2> DEFINE a == p + 1
             b == q - 1
  <2>1. a \in 0..Len(s) /\ b \in a..Len(s) /\ b - a = Len(v) /\ SubSeq(s, a + 1, b) = v
    BY <1>3, <1>4
  <2> HIDE DEF a, b
  <2>2. \A k \in 1..(b - a) : SubSeq(s, a + 1, b)[k] = s[a + k]
    BY <2>1, PieceOf
  <2> QED BY <1>1, <1>2, <2>1, <2>2 DEF a
<1>6. p + 1 + Len(v) < Len(s) => s[p + Len(v) + 2] = "&"
  <2>1. q = p + Len(v) + 2
    BY <1>2, <1>3
  <2> QED BY <1>1, <1>2, <2>1
<1> QED BY <1>1, <1>4, <1>5, <1>6 DEF FilledAt

\* The first place where a name is found is the one where it should be, when
\* nothing misleads.
LEMMA FirstMatch ==
  ASSUME NEW field, NEW s, NEW begins, NEW p \in Nat, Len(s) \in Nat,
         Matches(field, s) \cap begins = {p}, ~Misled(field, s, begins)
  PROVE  p \in Matches(field, s) /\ \A j \in Matches(field, s) : p <= j
<1>1. Matches(field, s) \subseteq Nat
  BY DEF Matches
<1>2. ASSUME NEW j \in Matches(field, s) PROVE p <= j
  <2>1. PICK m \in Matches(field, s) \cap begins : ~(j < m)
    BY DEF Misled
  <2>2. m = p /\ j \in Nat
    BY <1>1
  <2> QED BY <2>1, <2>2
<1> QED BY <1>2

LEMMA NoMatch ==
  ASSUME NEW field, NEW s, NEW begins,
         Matches(field, s) \cap begins = {}, ~Misled(field, s, begins)
  PROVE  Matches(field, s) = {}
BY DEF Misled

\* The word behind a name, and its "=".
LEMMA WordAfterIs ==
  ASSUME NEW s \in Seq(STRING), NEW field, NEW p \in Matches(field, s),
         \A j \in Matches(field, s) : p <= j
  PROVE  WordAfter(field, s) = Word(From(s, (p + 1) + 1))
<1> DEFINE places == Matches(field, s)
<1>1. places \subseteq Nat /\ p \in places /\ p \in Nat /\ (p + 1) + 1 = p + 2
  BY DEF Matches
<1>2. WordAfter(field, s) =
        IF places = {} THEN NULL
        ELSE Word(From(s, (CHOOSE j \in places : \A m \in places : j <= m) + 2))
  BY DEF WordAfter
<1>4. \A m \in places : p <= m
  OBVIOUS
<1> HIDE DEF places
<1>3. (CHOOSE j \in places : \A m \in places : j <= m) = p
  BY <1>1, <1>4, LeastIs
<1>5. places # {}
  BY <1>1
<1> QED BY <1>1, <1>2, <1>3, <1>5

\* A value that stands behind a place, up to something that is no letter or
\* digit, or the end, is read up to the first of its own that is none.
LEMMA ValueRead ==
  ASSUME NEW s \in Seq(STRING), NEW v \in Seq(STRING), NEW p \in 0..Len(s),
         p + Len(v) <= Len(s),
         \A j \in 1..Len(v) : s[p + j] = v[j],
         p + Len(v) < Len(s) => s[p + Len(v) + 1] \notin Alnum
  PROVE  LET w == Word(From(s, p + 1))
         IN  /\ w \in Seq(STRING) /\ IsWord(w) /\ StartsWith(v, w)
             /\ IsWord(v) => w = v
<1> DEFINE w == Word(From(s, p + 1))
           n == Len(w)
<1>1. /\ n \in 0..(Len(s) - p)
      /\ w = SubSeq(s, p + 1, p + n)
      /\ w \in Seq(STRING)
      /\ IsWord(w)
      /\ \A k \in (p + 1)..(p + n) : s[k] \in Alnum
      /\ p + n < Len(s) => s[p + n + 1] \notin Alnum
  BY WordFrom
<1> HIDE DEF w
<1>2. Len(s) \in Nat /\ Len(v) \in Nat /\ DOMAIN v = 1..Len(v) /\ n \in Nat
  BY <1>1
<1>3. n <= Len(v)
  <2> SUFFICES ASSUME Len(v) < n PROVE FALSE
    BY <1>2
  <2>0. n \in 0..(Len(s) - p) /\ p \in Nat
    BY <1>1, <1>2
  <2>1. p + Len(v) + 1 \in (p + 1)..(p + n) /\ p + Len(v) < Len(s)
    <3> HIDE DEF n
    <3> QED BY <2>0, <1>2
  <2> QED BY <1>1, <2>1
<1>4. \A k \in 1..n : w[k] = v[k]
  <2> DEFINE b == p + n
  <2>1. b \in p..Len(s) /\ b - p = n
    BY <1>1, <1>2
  <2>2. w = SubSeq(s, p + 1, b)
    BY <1>1
  <2> HIDE DEF b
  <2>3. \A k \in 1..(b - p) : SubSeq(s, p + 1, b)[k] = s[p + k]
    BY <2>1, PieceOf
  <2>4. \A k \in 1..n : w[k] = s[p + k] /\ k \in 1..Len(v)
    BY <1>2, <1>3, <2>1, <2>2, <2>3
  <2> QED BY <2>4
<1>5. StartsWith(v, w)
  <2>1. /\ SubSeq(v, 1, n) \in Seq(STRING) /\ Len(SubSeq(v, 1, n)) = n
        /\ \A k \in 1..n : SubSeq(v, 1, n)[k] = v[k]
    <3>1. 0 \in 0..Len(v) /\ n \in 0..Len(v) /\ n - 0 = n /\ 0 + 1 = 1
      BY <1>2, <1>3
    <3>2. /\ SubSeq(v, 0 + 1, n) \in Seq(STRING) /\ Len(SubSeq(v, 0 + 1, n)) = n - 0
          /\ \A k \in 1..(n - 0) : SubSeq(v, 0 + 1, n)[k] = v[0 + k]
      BY <3>1, PieceOf
    <3> QED BY <3>1, <3>2
  <2>2. SubSeq(v, 1, n) = w
    <3> DEFINE u == SubSeq(v, 1, n)
    <3>1. u \in Seq(STRING) /\ Len(u) = Len(w) /\ \A k \in 1..Len(u) : u[k] = w[k]
      BY <1>4, <2>1
    <3> HIDE DEF u
    <3>2. u = w
      BY <1>1, <3>1, SeqEqual
    <3> QED BY <3>2 DEF u
  <2> QED BY <1>3, <2>2 DEF StartsWith
<1>6. ASSUME IsWord(v) PROVE w = v
  <2>1. n = Len(v)
    <3> SUFFICES ASSUME n < Len(v) PROVE FALSE
      BY <1>2, <1>3
    <3>1. n + 1 \in 1..Len(v) /\ p + n < Len(s) /\ p + (n + 1) = p + n + 1
      BY <1>2
    <3>2. s[p + n + 1] = v[n + 1]
      BY <3>1
    <3>3. v[n + 1] \in Alnum
      BY <1>2, <1>6, <3>1 DEF IsWord
    <3> QED BY <1>1, <3>1, <3>2, <3>3
  <2>2. \A k \in 1..Len(w) : w[k] = v[k]
    BY <1>4
  <2> QED BY <1>1, <2>1, <2>2, SeqEqual
<1> QED BY <1>1, <1>5, <1>6 DEF w

LEMMA ServerReads ==
  ASSUME TextsAreSound, NEW s \in Seq(STRING), NEW v \in Seq(STRING), NEW field \in LoginFields,
         FilledIn(s, field, v), ~Misled(field, s, FieldStarts(s))
  PROVE  LET w == WordAfter(field, s)
         IN  /\ w \in Seq(STRING) /\ IsWord(w) /\ StartsWith(v, w)
             /\ IsWord(v) => w = v
<1>1. PICK p \in 1..Len(s) :
        /\ Fields(field, s) = {p}
        /\ p + 1 + Len(v) <= Len(s)
        /\ s[p + 1] = "="
        /\ \A j \in 1..Len(v) : s[p + 1 + j] = v[j] /\ v[j] # "&"
        /\ p + 1 + Len(v) < Len(s) => s[p + Len(v) + 2] = "&"
  <2>1. PICK p \in 1..Len(s) : FilledAt(s, field, v, p)
    BY FilledInIs
  <2> QED BY <2>1 DEF FilledAt
<1>2. Len(s) \in Nat /\ Len(v) \in Nat /\ DOMAIN s = 1..Len(s)
  OBVIOUS
<1>3. p + 1 <= Len(s) /\ p \in 1..(Len(s) - 1) /\ p \in Nat
  BY <1>1, <1>2
<1>4. Matches(field, s) \cap FieldStarts(s) = {p}
  <2>1. \A j \in 1..(Len(s) - 1) : j \in DOMAIN s
    BY <1>2
  <2>2. p \in FieldStarts(s) /\ s[p] = field /\ \A j \in FieldStarts(s) : s[j] = field => j = p
    BY <1>1 DEF Fields
  <2> QED BY <1>1, <1>3, <2>1, <2>2 DEF Matches
<1>5. WordAfter(field, s) = Word(From(s, (p + 1) + 1))
  BY <1>2, <1>3, <1>4, FirstMatch, WordAfterIs
<1>6. /\ p + 1 \in 0..Len(s) /\ (p + 1) + Len(v) <= Len(s)
      /\ \A j \in 1..Len(v) : s[(p + 1) + j] = v[j]
      /\ (p + 1) + Len(v) < Len(s) => s[(p + 1) + Len(v) + 1] \notin Alnum
  <2>1. (p + 1) + Len(v) + 1 = p + Len(v) + 2 /\ (p + 1) + Len(v) = p + 1 + Len(v)
    BY <1>2
  <2>2. p + 1 \in 0..Len(s)
    BY <1>2, <1>3
  <2>3. (p + 1) + Len(v) < Len(s) => s[(p + 1) + Len(v) + 1] \notin Alnum
    BY <1>1, <2>1, MarksApart
  <2> QED BY <1>1, <2>1, <2>2, <2>3
<1> DEFINE a == p + 1
<1>7. LET w == Word(From(s, a + 1))
      IN  /\ w \in Seq(STRING) /\ IsWord(w) /\ StartsWith(v, w)
          /\ IsWord(v) => w = v
  <2>1. /\ a \in 0..Len(s) /\ a + Len(v) <= Len(s)
        /\ \A j \in 1..Len(v) : s[a + j] = v[j]
        /\ a + Len(v) < Len(s) => s[a + Len(v) + 1] \notin Alnum
    BY <1>6
  <2> HIDE DEF a
  <2> QED BY <2>1, ValueRead
<1> QED BY <1>5, <1>7

LEMMA ServerReadsNone ==
  ASSUME NEW s \in Seq(STRING), NEW field, Fields(field, s) = {},
         ~Misled(field, s, FieldStarts(s))
  PROVE  WordAfter(field, s) = NULL
<1>1. Matches(field, s) \cap FieldStarts(s) = {}
  BY DEF Matches, Fields
<1>2. Matches(field, s) = {}
  BY <1>1, NoMatch
<1> QED BY <1>2 DEF WordAfter

-----------------------------------------------------------------------------
(* The lists of ccgi *)

IsSeq(s) == \E S : s \in Seq(S)

IsVars(v) ==
  /\ IsSeq(v)
  /\ \A j \in DOMAIN v : \E n, values :
       v[j] = [name |-> n, values |-> values] /\ IsSeq(values) /\ Len(values) >= 1

Lacks(v, n) == \A j \in DOMAIN v : v[j].name # n

\* The first value of a name.
Holds(v, n, x) ==
  /\ \E j \in DOMAIN v : v[j].name = n
  /\ \A j \in DOMAIN v : v[j].name = n => v[j].values[1] = x

LEMMA AppendIs ==
  ASSUME NEW s, IsSeq(s), NEW e
  PROVE  /\ IsSeq(Append(s, e))
         /\ Len(s) \in Nat /\ DOMAIN s = 1..Len(s)
         /\ Len(Append(s, e)) = Len(s) + 1
         /\ DOMAIN Append(s, e) = 1..(Len(s) + 1)
         /\ \A k \in 1..Len(s) : Append(s, e)[k] = s[k]
         /\ Append(s, e)[Len(s) + 1] = e
<1>1. PICK S : s \in Seq(S)
  BY DEF IsSeq
<1> DEFINE T == S \cup {e}
<1>2. S \subseteq T /\ e \in T
  OBVIOUS
<1> HIDE DEF T
<1>3. s \in Seq(T)
  BY <1>1, <1>2, SeqMonotonic
<1>4. /\ Append(s, e) \in Seq(T)
      /\ Len(Append(s, e)) = Len(s) + 1
      /\ \A k \in 1..Len(s) : Append(s, e)[k] = s[k]
      /\ Append(s, e)[Len(s) + 1] = e
  BY <1>2, <1>3, AppendProperties
<1>5. /\ Len(s) \in Nat /\ DOMAIN s = 1..Len(s)
      /\ DOMAIN Append(s, e) = 1..Len(Append(s, e))
  BY <1>3, <1>4, LenProperties
<1> QED BY <1>4, <1>5 DEF IsSeq

LEMMA FindvarIs ==
  ASSUME NEW v, IsVars(v), NEW n
  PROVE  /\ Lacks(v, n) => findvar(v, n) = 0
         /\ ~Lacks(v, n) => findvar(v, n) \in DOMAIN v /\ v[findvar(v, n)].name = n
         /\ Len(v) \in Nat /\ DOMAIN v = 1..Len(v)
<1> DEFINE there == {j \in DOMAIN v : v[j].name = n}
<1>1. findvar(v, n) = IF there = {} THEN 0 ELSE CHOOSE j \in there : TRUE
  BY DEF findvar
<1>2. Lacks(v, n) <=> there = {}
  BY DEF Lacks
<1>3. there # {} => (CHOOSE j \in there : TRUE) \in there
  <2> HIDE DEF there
  <2> QED OBVIOUS
<1>4. Len(v) \in Nat /\ DOMAIN v = 1..Len(v)
  BY AppendIs DEF IsVars
<1>5. Lacks(v, n) => findvar(v, n) = 0
  BY <1>1, <1>2
<1>6. ~Lacks(v, n) => findvar(v, n) \in there
  <2> HIDE DEF there
  <2> QED BY <1>1, <1>2, <1>3
<1> QED BY <1>4, <1>5, <1>6

LEMMA LookupIs ==
  ASSUME NEW v, IsVars(v), NEW n
  PROVE  /\ Lacks(v, n) => CGI_lookup(v, n) = NULL
         /\ \A x : Holds(v, n, x) => CGI_lookup(v, n) = x
<1> DEFINE j == findvar(v, n)
<1>1. /\ Lacks(v, n) => j = 0
      /\ ~Lacks(v, n) => j \in DOMAIN v /\ v[j].name = n
      /\ Len(v) \in Nat /\ DOMAIN v = 1..Len(v)
  BY FindvarIs
<1>2. CGI_lookup(v, n) = IF j = 0 THEN NULL ELSE v[j].values[1]
  BY DEF CGI_lookup
<1> HIDE DEF j
<1>3. Lacks(v, n) => CGI_lookup(v, n) = NULL
  BY <1>1, <1>2
<1>4. ASSUME NEW x, Holds(v, n, x) PROVE CGI_lookup(v, n) = x
  <2>1. ~Lacks(v, n)
    BY <1>4 DEF Holds, Lacks
  <2>2. j \in DOMAIN v /\ v[j].name = n /\ j # 0
    BY <1>1, <2>1
  <2> QED BY <1>2, <1>4, <2>2 DEF Holds
<1> QED BY <1>3, <1>4

\* A value goes to the end of its name's, or makes a new one.
LEMMA AddVarIs ==
  ASSUME NEW v, IsVars(v), NEW n, NEW x
  PROVE  LET w == CGI_add_var(v, n, x)
         IN  /\ IsVars(w) /\ Len(w) >= Len(v)
             /\ Len(v) \in Nat /\ Len(w) \in Nat
             /\ DOMAIN v = 1..Len(v) /\ DOMAIN w = 1..Len(w)
             /\ \A j \in 1..Len(v) : w[j].name = v[j].name /\ w[j].values[1] = v[j].values[1]
             /\ \A j \in DOMAIN w : j \notin DOMAIN v => w[j].name = n /\ w[j].values[1] = x
             /\ ~Lacks(w, n)
             /\ ~Lacks(v, n) => Len(w) = Len(v)
<1> DEFINE w == CGI_add_var(v, n, x)
           j == findvar(v, n)
<1>1. /\ Lacks(v, n) => j = 0
      /\ ~Lacks(v, n) => j \in DOMAIN v /\ v[j].name = n
      /\ Len(v) \in Nat /\ DOMAIN v = 1..Len(v)
  BY FindvarIs
<1>2. w = IF j = 0 THEN Append(v, [name |-> n, values |-> <<x>>])
          ELSE [v EXCEPT ![j].values = Append(@, x)]
  BY DEF CGI_add_var
<1> HIDE DEF j, w
<1>3. CASE Lacks(v, n)
  <2> DEFINE e == [name |-> n, values |-> <<x>>]
  <2>1. w = Append(v, e)
    BY <1>1, <1>2, <1>3
  <2>2. e.name = n /\ e.values[1] = x /\ IsSeq(e.values) /\ Len(e.values) >= 1
    <3>1. <<x>> \in Seq({x}) /\ Len(<<x>>) = 1 /\ <<x>>[1] = x
      OBVIOUS
    <3>2. IsSeq(<<x>>) /\ Len(<<x>>) >= 1
      <4>1. IsSeq(<<x>>)
        BY <3>1, Zenon DEF IsSeq
      <4>2. Len(<<x>>) >= 1
        BY <3>1
      <4> QED BY <4>1, <4>2
    <3>3. e.name = n /\ e.values = <<x>>
      OBVIOUS
    <3> HIDE DEF e
    <3> QED BY <3>1, <3>2, <3>3
  <2>3. \E m, values : e = [name |-> m, values |-> values] /\ IsSeq(values) /\ Len(values) >= 1
    BY <2>2
  <2> HIDE DEF e
  <2>4. /\ IsSeq(w) /\ Len(w) = Len(v) + 1 /\ DOMAIN w = 1..(Len(v) + 1)
        /\ \A k \in 1..Len(v) : w[k] = v[k]
        /\ w[Len(v) + 1] = e
    BY <2>1, AppendIs DEF IsVars
  <2>5. \A k \in DOMAIN w : k \in 1..Len(v) \/ (k = Len(v) + 1 /\ k \notin DOMAIN v)
    BY <1>1, <2>4
  <2>6. IsVars(w)
    <3> SUFFICES ASSUME NEW k \in DOMAIN w
                 PROVE  \E m, values : w[k] = [name |-> m, values |-> values]
                                       /\ IsSeq(values) /\ Len(values) >= 1
      BY <2>4, Zenon DEF IsVars
    <3>1. CASE k \in 1..Len(v)
      <4>1. w[k] = v[k] /\ k \in DOMAIN v
        BY <1>1, <2>4, <3>1
      <4> QED BY <4>1, Zenon DEF IsVars
    <3>2. CASE k = Len(v) + 1
      BY <2>3, <2>4, <3>2, Zenon
    <3> QED BY <2>5, <3>1, <3>2
  <2>7. ~Lacks(w, n)
    <3>1. Len(v) + 1 \in DOMAIN w
      BY <1>1, <2>4
    <3> QED BY <2>2, <2>4, <3>1 DEF Lacks
  <2>8. \A k \in DOMAIN w : k \notin DOMAIN v => w[k].name = n /\ w[k].values[1] = x
    BY <1>1, <2>2, <2>4, <2>5
  <2>9. Len(w) >= Len(v) /\ Len(w) \in Nat /\ DOMAIN w = 1..Len(w)
    BY <1>1, <2>4
  <2> QED BY <1>1, <1>3, <2>4, <2>6, <2>7, <2>8, <2>9 DEF w
<1>4. CASE ~Lacks(v, n)
  <2>1. j \in DOMAIN v /\ j # 0 /\ v[j].name = n
    BY <1>1, <1>4
  <2>2. PICK values : v[j] = [name |-> n, values |-> values] /\ IsSeq(values) /\ Len(values) >= 1
    <3>1. PICK m, values : v[j] = [name |-> m, values |-> values] /\ IsSeq(values) /\ Len(values) >= 1
      BY <2>1, Zenon DEF IsVars
    <3>2. m = n
      BY <2>1, <3>1
    <3> QED BY <3>1, <3>2
  <2>3. /\ IsSeq(Append(values, x)) /\ Len(Append(values, x)) >= 1
        /\ Append(values, x)[1] = values[1]
    <3>1. /\ IsSeq(Append(values, x)) /\ Len(values) \in Nat
          /\ Len(Append(values, x)) = Len(values) + 1
          /\ \A k \in 1..Len(values) : Append(values, x)[k] = values[k]
      BY <2>2, AppendIs
    <3>2. 1 \in 1..Len(values)
      BY <2>2, <3>1
    <3> QED BY <2>2, <3>1, <3>2
  <2> DEFINE e == [name |-> n, values |-> Append(values, x)]
  <2>4. w = [v EXCEPT ![j].values = Append(@, x)]
    BY <1>2, <2>1
  <2>5. [v[j] EXCEPT !.values = Append(@, x)] = e
    BY <2>2
  <2>6. w = [v EXCEPT ![j] = e]
    BY <2>4, <2>5
  <2> HIDE DEF e
  <2>7. PICK S : v \in Seq(S)
    BY DEF IsVars, IsSeq
  <2>8. /\ w \in Seq(S \cup {e}) /\ Len(w) = Len(v) /\ DOMAIN w = DOMAIN v
        /\ \A k \in DOMAIN v : w[k] = IF k = j THEN e ELSE v[k]
    <3>1. v \in Seq(S \cup {e})
      BY <2>7, SeqMonotonic
    <3> DEFINE T == S \cup {e}
    <3>2. v \in Seq(T) /\ e \in T /\ j \in 1..Len(v)
      BY <1>1, <2>1, <3>1
    <3> HIDE DEF T
    <3>3. /\ w \in Seq(T) /\ Len(w) = Len(v)
          /\ \A k \in 1..Len(v) : w[k] = IF k = j THEN e ELSE v[k]
      BY <2>6, <3>2, ExceptSeq
    <3>4. DOMAIN w = 1..Len(w)
      BY <3>3, LenProperties
    <3> QED BY <1>1, <3>3, <3>4 DEF T
  <2>9. IsVars(w)
    <3>1. IsSeq(w)
      BY <2>8 DEF IsSeq
    <3> SUFFICES ASSUME NEW k \in DOMAIN w
                 PROVE  \E m, vs : w[k] = [name |-> m, values |-> vs]
                                   /\ IsSeq(vs) /\ Len(vs) >= 1
      BY <3>1, Zenon DEF IsVars
    <3>2. CASE k = j
      <4>1. w[k] = [name |-> n, values |-> Append(values, x)]
        BY <2>8, <3>2 DEF e
      <4> QED BY <2>3, <4>1, Zenon
    <3>3. CASE k # j
      <4>1. w[k] = v[k] /\ k \in DOMAIN v
        BY <2>8, <3>3
      <4> QED BY <4>1, Zenon DEF IsVars
    <3> QED BY <3>2, <3>3
  <2>10. e.name = n /\ e.values[1] = v[j].values[1]
    BY <2>2, <2>3 DEF e
  <2>11. \A k \in 1..Len(v) : w[k].name = v[k].name /\ w[k].values[1] = v[k].values[1]
    BY <1>1, <2>1, <2>8, <2>10
  <2>12. ~Lacks(w, n)
    BY <1>1, <2>1, <2>8, <2>10 DEF Lacks
  <2>13. /\ Len(w) >= Len(v) /\ Len(w) = Len(v) /\ Len(w) \in Nat /\ DOMAIN w = 1..Len(w)
         /\ \A k \in DOMAIN w : k \notin DOMAIN v => w[k].name = n /\ w[k].values[1] = x
    BY <1>1, <2>8
  <2> QED BY <1>1, <2>9, <2>11, <2>12, <2>13 DEF w
<1> QED BY <1>3, <1>4

\* What a list says of a name, after something is added.
LEMMA AddVarSays ==
  ASSUME NEW v, IsVars(v), NEW n, NEW x
  PROVE  LET w == CGI_add_var(v, n, x)
         IN  /\ IsVars(w)
             /\ Lacks(v, n) => Holds(w, n, x)
             /\ \A m : m # n /\ Lacks(v, m) => Lacks(w, m)
             /\ \A m, y : Holds(v, m, y) => Holds(w, m, y)
<1> DEFINE w == CGI_add_var(v, n, x)
<1>1. /\ IsVars(w) /\ Len(w) >= Len(v) /\ Len(v) \in Nat /\ Len(w) \in Nat
      /\ DOMAIN v = 1..Len(v) /\ DOMAIN w = 1..Len(w)
      /\ \A j \in 1..Len(v) : w[j].name = v[j].name /\ w[j].values[1] = v[j].values[1]
      /\ \A j \in DOMAIN w : j \notin DOMAIN v => w[j].name = n /\ w[j].values[1] = x
      /\ ~Lacks(w, n)
      /\ ~Lacks(v, n) => Len(w) = Len(v)
  BY AddVarIs
<1> HIDE DEF w
<1>2. DOMAIN v \subseteq DOMAIN w
  <2>1. Len(v) \in Nat /\ Len(w) \in Nat /\ Len(w) >= Len(v) /\ DOMAIN v = 1..Len(v) /\ DOMAIN w = 1..Len(w)
    BY <1>1
  <2> QED BY <2>1
<1>3. Lacks(v, n) => Holds(w, n, x)
  BY <1>1 DEF Lacks, Holds
<1>4. \A m : m # n /\ Lacks(v, m) => Lacks(w, m)
  BY <1>1 DEF Lacks
<1>5. ASSUME NEW m, NEW y, Holds(v, m, y) PROVE Holds(w, m, y)
  <2>1. \E j \in DOMAIN w : w[j].name = m
    BY <1>1, <1>2, <1>5 DEF Holds
  <2>2. ASSUME NEW j \in DOMAIN w, w[j].name = m PROVE w[j].values[1] = y
    <3>1. CASE j \in DOMAIN v
      BY <1>1, <1>5, <2>2, <3>1 DEF Holds
    <3>2. CASE j \notin DOMAIN v
      <4>1. m = n /\ ~Lacks(v, n)
        BY <1>1, <1>5, <2>2, <3>2 DEF Holds, Lacks
      <4> QED BY <1>1, <2>2, <3>2, <4>1
    <3> QED BY <3>1, <3>2
  <2> QED BY <2>1, <2>2 DEF Holds
<1> QED BY <1>1, <1>3, <1>4, <1>5 DEF w

-----------------------------------------------------------------------------
(* A form, as ccgi reads it: character by character *)

Unscanned == [vars |-> <<>>, name |-> NULL, buf |-> <<>>]

Scans(f, n, s) ==
  f = [k \in 0..n |-> IF k = 0 THEN Unscanned ELSE Scan(f[k - 1], s[k])]

LEMMA NumbersReached ==
  ASSUME NEW S, NEW m \in Nat, 0 \in S, \A k \in 0..(m - 1) : k \in S => k + 1 \in S
  PROVE  m \in S
<1> DEFINE T == {k \in 0..m : k \notin S}
<1> SUFFICES ASSUME T # {} PROVE FALSE
  OBVIOUS
<1>1. T \subseteq Nat
  OBVIOUS
<1>2. PICK x \in T : \A y \in T : x <= y
  <2> HIDE DEF T
  <2> QED BY <1>1, LeastNumber
<1>3. x \in 0..m /\ x \notin S /\ x # 0
  OBVIOUS
<1>4. x - 1 \in 0..(m - 1) /\ x - 1 \in 0..m /\ (x - 1) + 1 = x
  BY <1>3
<1>5. x - 1 \notin T
  BY <1>2, <1>4
<1> QED BY <1>3, <1>4, <1>5

LEMMA DecodeIs ==
  ASSUME NEW s, Len(s) \in Nat
  PROVE  \E f : /\ f[0] = Unscanned
                /\ \A k \in 1..Len(s) : f[k] = Scan(f[k - 1], s[k])
                /\ CGI_decode_query(s) = EndField(f[Len(s)]).vars
<1> DEFINE S == {k \in Nat : \E f : Scans(f, k, s)}
           whole == CHOOSE f : Scans(f, Len(s), s)
<1>1. 0 \in S
  <2> DEFINE f == [k \in 0..0 |-> Unscanned]
  <2>1. f = [k \in 0..0 |-> IF k = 0 THEN Unscanned ELSE Scan(f[k - 1], s[k])]
    OBVIOUS
  <2> HIDE DEF f
  <2>2. Scans(f, 0, s)
    BY <2>1 DEF Scans
  <2> QED BY <2>2
<1>2. ASSUME NEW m \in 0..(Len(s) - 1), m \in S PROVE m + 1 \in S
  <2>1. PICK f : Scans(f, m, s)
    BY <1>2
  <2> DEFINE h == [k \in 0..(m + 1) |-> IF k = m + 1 THEN Scan(f[m], s[m + 1]) ELSE f[k]]
  <2>2. ASSUME NEW k \in 0..(m + 1)
        PROVE  h[k] = IF k = 0 THEN Unscanned ELSE Scan(h[k - 1], s[k])
    <3>1. CASE k = m + 1
      <4>1. k # 0 /\ k - 1 = m /\ m \in 0..(m + 1) /\ m # m + 1
        BY <3>1
      <4>2. h[k] = Scan(f[m], s[m + 1]) /\ h[m] = f[m]
        BY <3>1, <4>1
      <4> QED BY <3>1, <4>1, <4>2, Zenon
    <3>2. CASE k # m + 1
      <4>1. k \in 0..m /\ h[k] = f[k] /\ (k # 0 => h[k - 1] = f[k - 1])
        BY <3>2
      <4>2. f[k] = IF k = 0 THEN Unscanned ELSE Scan(f[k - 1], s[k])
        BY <2>1, <4>1, Zenon DEF Scans
      <4> QED BY <4>1, <4>2
    <3> QED BY <3>1, <3>2
  <2>3. Scans(h, m + 1, s)
    <3>1. h = [k \in 0..(m + 1) |-> h[k]]
      OBVIOUS
    <3>2. [k \in 0..(m + 1) |-> h[k]] =
            [k \in 0..(m + 1) |-> IF k = 0 THEN Unscanned ELSE Scan(h[k - 1], s[k])]
      <4> HIDE DEF h
      <4> QED BY <2>2
    <3> HIDE DEF h
    <3> QED BY <3>1, <3>2, Zenon DEF Scans
  <2>4. m + 1 \in Nat
    OBVIOUS
  <2> QED BY <2>3, <2>4
<1>3. Len(s) \in S
  <2> HIDE DEF S
  <2> QED BY <1>1, <1>2, NumbersReached
<1>4. Scans(whole, Len(s), s)
  <2>1. \E f : Scans(f, Len(s), s)
    BY <1>3
  <2> QED BY <2>1, Zenon
<1>5. CGI_decode_query(s) = EndField(whole[Len(s)]).vars
  BY Zenon DEF CGI_decode_query, Scans, Unscanned
<1> HIDE DEF whole
<1>6. \A k \in 0..Len(s) :
        whole[k] = IF k = 0 THEN Unscanned ELSE Scan(whole[k - 1], s[k])
  BY <1>4, Zenon DEF Scans
<1>7. whole[0] = Unscanned
  BY <1>6
<1>8. \A k \in 1..Len(s) : whole[k] = Scan(whole[k - 1], s[k])
  BY <1>6
<1> QED BY <1>5, <1>7, <1>8, Zenon

\* A text in memory, and that NULL is none.
IsText(s) == s \in Seq(STRING)

NullIsNone == \A s : IsText(s) => s # NULL

LEMMA StringIs ==
  /\ IsText(<<>>)
  /\ \A s : IsText(s) => IsSeq(s)
  /\ \A s, c : IsText(s) /\ c \in STRING => IsText(Append(s, c))
BY DEF IsText, IsSeq

\* Where a name has not been read as one.
Outside(t, n) ==
  /\ \E v, m, b : t = [vars |-> v, name |-> m, buf |-> b]
  /\ IsVars(t.vars) /\ IsText(t.buf)
  /\ t.name # n
  /\ t.name = NULL => t.buf # n

\* In the middle of a field.
Within(t) == t.name # NULL \/ t.buf # <<>>

\* What holds of the variables still holds.
VarsKeep(v, w, n) ==
  /\ Lacks(v, n) => Lacks(w, n)
  /\ \A x : Holds(v, n, x) => Holds(w, n, x)

LEMMA EmptyIsSeq == IsSeq(<<>>) /\ IsVars(<<>>)
<1>1. <<>> \in Seq({})
  BY EmptySeq
<1>2. IsSeq(<<>>)
  BY <1>1, Zenon DEF IsSeq
<1>3. DOMAIN <<>> = {}
  OBVIOUS
<1> QED BY <1>2, <1>3 DEF IsVars

LEMMA EndOutside ==
  ASSUME NEW n, NULL # n, <<>> # n, NEW t, Outside(t, n)
  PROVE  /\ Outside(EndField(t), n)
         /\ EndField(t).name = NULL /\ EndField(t).buf = <<>>
         /\ VarsKeep(t.vars, EndField(t).vars, n)
<1>1. PICK v, m, b : t = [vars |-> v, name |-> m, buf |-> b]
  BY DEF Outside
<1>2. t.vars = v /\ t.name = m /\ t.buf = b
  BY <1>1
<1>3. IsVars(v) /\ m # n /\ (m = NULL => b # n)
  BY <1>2 DEF Outside
<1> DEFINE w == CASE m # NULL -> CGI_add_var(v, m, b)
                  [] m = NULL /\ b # <<>> -> CGI_add_var(v, b, <<>>)
                  [] OTHER -> v
<1>4. EndField(t) = [vars |-> w, name |-> NULL, buf |-> <<>>]
  BY <1>2 DEF EndField
<1>5. IsVars(w) /\ VarsKeep(v, w, n)
  <2>1. CASE m # NULL
    <3>1. w = CGI_add_var(v, m, b)
      BY <2>1
    <3> HIDE DEF w
    <3>2. /\ IsVars(w)
          /\ Lacks(v, n) => Lacks(w, n)
          /\ \A x : Holds(v, n, x) => Holds(w, n, x)
      BY <1>3, <3>1, AddVarSays, Zenon
    <3> QED BY <3>2 DEF VarsKeep
  <2>2. CASE m = NULL /\ b # <<>>
    <3>1. w = CGI_add_var(v, b, <<>>)
      BY <2>2
    <3> HIDE DEF w
    <3>2. /\ IsVars(w)
          /\ Lacks(v, n) => Lacks(w, n)
          /\ \A x : Holds(v, n, x) => Holds(w, n, x)
      BY <1>3, <2>2, <3>1, AddVarSays, Zenon
    <3> QED BY <3>2 DEF VarsKeep
  <2>3. CASE m = NULL /\ b = <<>>
    <3>1. w = v
      BY <2>3
    <3> HIDE DEF w
    <3> QED BY <1>3, <3>1 DEF VarsKeep
  <2> QED BY <2>1, <2>2, <2>3
<1> HIDE DEF w
<1>6. EndField(t).vars = w /\ EndField(t).name = NULL /\ EndField(t).buf = <<>>
  BY <1>4
<1>7. Outside(EndField(t), n)
  BY <1>4, <1>5, <1>6, StringIs DEF Outside
<1> QED BY <1>2, <1>5, <1>6, <1>7

\* A text that ends with something else, or has something in front of it.
LEMMA OtherEnd ==
  ASSUME NEW b, IsSeq(b), NEW d, NEW c, d # c \/ b # <<>>
  PROVE  Append(b, d) # <<c>>
<1>1. Append(b, d)[Len(b) + 1] = d /\ Len(b) \in Nat /\ Len(Append(b, d)) = Len(b) + 1
  BY AppendIs
<1> SUFFICES ASSUME Append(b, d) = <<c>> PROVE FALSE
  OBVIOUS
<1>2. Len(<<c>>) = 1 /\ <<c>>[1] = c
  OBVIOUS
<1>3. Len(b) = 0
  BY <1>1, <1>2
<1>4. b = <<>>
  <2>1. PICK S : b \in Seq(S)
    BY DEF IsSeq
  <2> QED BY <1>3, <2>1, EmptySeq
<1> QED BY <1>1, <1>2, <1>3, <1>4

LEMMA ScanOutside ==
  ASSUME NullIsNone, NEW ch, NULL # <<ch>>, NEW t, Outside(t, <<ch>>),
         NEW c, Decode(c) \in STRING, Decode(c) = ch => Within(t)
  PROVE  /\ Outside(Scan(t, c), <<ch>>)
         /\ VarsKeep(t.vars, Scan(t, c).vars, <<ch>>)
         /\ c = "&" => Scan(t, c).name = NULL /\ Scan(t, c).buf = <<>>
         /\ c # "&" /\ (c = "=" => Within(t)) => Within(Scan(t, c))
<1> DEFINE n == <<ch>>
<1>1. PICK v, m, b : t = [vars |-> v, name |-> m, buf |-> b]
  BY DEF Outside
<1>2. t.vars = v /\ t.name = m /\ t.buf = b
  BY <1>1
<1>3. <<>> # n
  OBVIOUS
<1>4. n = <<ch>>
  OBVIOUS
<1> HIDE DEF n
<1>5. /\ IsVars(v) /\ IsText(b) /\ IsSeq(b) /\ b # NULL
      /\ m # n /\ (m = NULL => b # n) /\ NULL # n
  <2>1. IsVars(v) /\ IsText(b) /\ m # n /\ (m = NULL => b # n)
    BY <1>2, <1>4 DEF Outside
  <2> QED BY <2>1, <1>4, StringIs DEF NullIsNone
<1>6. VarsKeep(v, v, n)
  BY DEF VarsKeep
<1>0. Within(t) <=> m # NULL \/ b # <<>>
  BY <1>2 DEF Within
<1>7. CASE c = "&"
  <2>1. Scan(t, c) = EndField(t)
    BY <1>7 DEF Scan
  <2> QED BY <1>3, <1>4, <1>5, <1>7, <2>1, EndOutside
<1>8. CASE c = "=" /\ m = NULL /\ b # <<>>
  <2>1. Scan(t, c) = [vars |-> v, name |-> b, buf |-> <<>>]
    BY <1>1, <1>8 DEF Scan
  <2>2. Scan(t, c).vars = v /\ Scan(t, c).name = b /\ Scan(t, c).buf = <<>>
    BY <2>1
  <2>3. Outside(Scan(t, c), n)
    BY <1>3, <1>5, <1>8, <2>1, <2>2, StringIs DEF Outside
  <2>4. Within(Scan(t, c))
    BY <1>5, <2>2 DEF Within
  <2> QED BY <1>2, <1>4, <1>6, <1>8, <2>2, <2>3, <2>4
<1>9. CASE c = "=" /\ m = NULL /\ b = <<>>
  <2>1. Scan(t, c) = t
    BY <1>1, <1>9 DEF Scan
  <2> QED BY <1>0, <1>2, <1>4, <1>6, <1>9, <2>1
<1>10. CASE c # "&" /\ ~(c = "=" /\ m = NULL)
  <2>1. Scan(t, c) = [vars |-> v, name |-> m, buf |-> Append(b, Decode(c))]
    BY <1>1, <1>10 DEF Scan
  <2>2. Scan(t, c).vars = v /\ Scan(t, c).name = m /\ Scan(t, c).buf = Append(b, Decode(c))
    BY <2>1
  <2>3. (m = NULL => Append(b, Decode(c)) # n) /\ IsText(Append(b, Decode(c)))
    BY <1>0, <1>4, <1>5, OtherEnd, StringIs
  <2>4. Outside(Scan(t, c), n)
    BY <1>5, <2>1, <2>2, <2>3 DEF Outside
  <2>5. Within(Scan(t, c))
    <3>1. Append(b, Decode(c)) # <<>>
      <4>1. Len(Append(b, Decode(c))) = Len(b) + 1 /\ Len(b) \in Nat /\ Len(<<>>) = 0
        BY <1>5, AppendIs
      <4> QED BY <4>1
    <3> QED BY <2>2, <3>1 DEF Within
  <2> QED BY <1>2, <1>4, <1>6, <1>10, <2>2, <2>4, <2>5
<1> QED BY <1>7, <1>8, <1>9, <1>10

\* No field begins with "=", and none with a name, from a place to another.
NoField(s, ch, a, b) ==
  \A k \in (a + 1)..b :
    k = 1 \/ s[k - 1] = "&" => s[k] # "=" /\ Decode(s[k]) # ch

\* Over a part of the text without a field of the name nothing of it changes.
LEMMA ScansOutside ==
  ASSUME NullIsNone, NEW ch, NULL # <<ch>>, NEW s, Len(s) \in Nat, NEW f,
         \A k \in 1..Len(s) : f[k] = Scan(f[k - 1], s[k]) /\ Decode(s[k]) \in STRING,
         NEW a \in 0..Len(s), NEW b \in a..Len(s), NoField(s, ch, a, b),
         Outside(f[a], <<ch>>),
         a = 0 \/ s[a] = "&"
  PROVE  /\ Outside(f[b], <<ch>>)
         /\ VarsKeep(f[a].vars, f[b].vars, <<ch>>)
<1> DEFINE N == <<ch>>
           Mid(k) == k = 0 \/ s[k] = "&" \/ Within(f[k])
           S == {i \in Nat : /\ Outside(f[a + i], N) /\ VarsKeep(f[a].vars, f[a + i].vars, N)
                              /\ Mid(a + i)}
<1>1. 0 \in S
  <2>1. a + 0 = a
    OBVIOUS
  <2>2. VarsKeep(f[a].vars, f[a].vars, N)
    BY DEF VarsKeep
  <2> QED BY <2>1, <2>2
<1>2. ASSUME NEW i \in 0..((b - a) - 1), i \in S PROVE i + 1 \in S
  <2> DEFINE k == a + (i + 1)
  <2>1. k \in 1..Len(s) /\ k \in (a + 1)..b /\ k - 1 = a + i /\ i + 1 \in Nat
    OBVIOUS
  <2>2. Outside(f[k - 1], N) /\ VarsKeep(f[a].vars, f[k - 1].vars, N) /\ Mid(k - 1)
    BY <1>2, <2>1
  <2>3. f[k] = Scan(f[k - 1], s[k]) /\ Decode(s[k]) \in STRING
    BY <2>1
  <2>6. (s[k] = "=" => Within(f[k - 1])) /\ (Decode(s[k]) = ch => Within(f[k - 1]))
    <3> SUFFICES ASSUME s[k] = "=" \/ Decode(s[k]) = ch PROVE Within(f[k - 1])
      OBVIOUS
    <3> HIDE DEF k
    <3>1. k # 1 /\ s[k - 1] # "&"
      BY <2>1 DEF NoField
    <3>2. k - 1 # 0
      BY <2>1, <3>1
    <3> QED BY <2>2, <3>1, <3>2
  <2> HIDE DEF k
  <2>4. /\ Outside(f[k], N) /\ VarsKeep(f[k - 1].vars, f[k].vars, N)
        /\ s[k] # "&" => Within(f[k])
    BY <2>2, <2>3, <2>6, ScanOutside
  <2>5. VarsKeep(f[a].vars, f[k].vars, N)
    BY <2>2, <2>4 DEF VarsKeep
  <2> QED BY <2>1, <2>4, <2>5 DEF k
<1>3. b - a \in Nat /\ a + (b - a) = b
  OBVIOUS
<1>4. b - a \in S
  <2> HIDE DEF S
  <2> QED BY <1>1, <1>2, <1>3, NumbersReached
<1> QED BY <1>3, <1>4

\* A value stands in a text, behind a place of it.
Stands(s, a, v) ==
  /\ a \in 0..Len(s) /\ a + Len(v) <= Len(s)
  /\ \A j \in 1..Len(v) : s[a + j] = v[j] /\ v[j] # "&"

\* A text is scanned from its beginning on.
ScansText(f, s) == Len(s) \in Nat /\ \A k \in 1..Len(s) : f[k] = Scan(f[k - 1], s[k])

Reading(t, v, n, b) == t = [vars |-> v, name |-> n, buf |-> b]

\* What ccgi makes of a value.
StandsFor(x, v) ==
  IsSeq(x) /\ Len(x) = Len(v) /\ \A j \in 1..Len(v) : x[j] = Decode(v[j])

\* What stands behind the "=" is kept until its end.
LEMMA ScansValue ==
  ASSUME NEW N, NULL # N, NEW s, NEW f, ScansText(f, s),
         NEW v \in Seq(STRING), NEW a, Stands(s, a, v),
         NEW w, Reading(f[a], w, N, <<>>)
  PROVE  \E x : StandsFor(x, v) /\ Reading(f[a + Len(v)], w, N, x)
<1> DEFINE Kept(i, x) == /\ IsSeq(x) /\ Len(x) = i
                         /\ \A j \in 1..i : x[j] = Decode(v[j])
                         /\ Reading(f[a + i], w, N, x)
           S == {i \in Nat : \E x : Kept(i, x)}
<1>0. /\ Len(v) \in Nat /\ a \in 0..Len(s) /\ a + Len(v) <= Len(s)
      /\ \A j \in 1..Len(v) : s[a + j] = v[j] /\ v[j] # "&"
      /\ Len(s) \in Nat
  BY DEF Stands, ScansText
<1>1. 0 \in S
  <2>1. a + 0 = a /\ Len(<<>>) = 0 /\ 1..0 = {} /\ 0 \in Nat
    BY <1>0
  <2>2. Kept(0, <<>>)
    BY <2>1, EmptyIsSeq
  <2> HIDE DEF Kept
  <2> QED BY <2>1, <2>2
<1>2. ASSUME NEW i \in 0..(Len(v) - 1), i \in S PROVE i + 1 \in S
  <2>1. PICK x : Kept(i, x)
    BY <1>2
  <2> DEFINE k == a + (i + 1)
             d == Decode(v[i + 1])
             y == Append(x, d)
  <2>2. i + 1 \in 1..Len(v)
    BY <1>0
  <2>3. k \in 1..Len(s) /\ k - 1 = a + i /\ s[k] = v[i + 1] /\ v[i + 1] # "&"
    BY <1>0, <2>2
  <2>4. f[k] = Scan(f[k - 1], s[k])
    BY <2>3 DEF ScansText
  <2>5. f[k - 1] = [vars |-> w, name |-> N, buf |-> x]
    BY <2>1, <2>3 DEF Reading
  <2> HIDE DEF k, d
  <2>6. Scan([vars |-> w, name |-> N, buf |-> x], v[i + 1]) =
          [vars |-> w, name |-> N, buf |-> Append(x, Decode(v[i + 1]))]
    BY <2>3 DEF Scan
  <2>7. f[k] = [vars |-> w, name |-> N, buf |-> y]
    BY <2>3, <2>4, <2>5, <2>6, Zenon DEF d
  <2>8. IsSeq(y) /\ Len(y) = i + 1 /\ (\A j \in 1..i : y[j] = x[j]) /\ y[i + 1] = d
    BY <2>1, AppendIs
  <2> HIDE DEF y
  <2>9. \A j \in 1..(i + 1) : y[j] = Decode(v[j])
    <3> SUFFICES ASSUME NEW j \in 1..(i + 1) PROVE y[j] = Decode(v[j])
      OBVIOUS
    <3>1. j \in 1..i \/ j = i + 1
      OBVIOUS
    <3> QED BY <2>1, <2>8, <3>1 DEF d
  <2>10. Kept(i + 1, y)
    BY <2>7, <2>8, <2>9 DEF k, Reading
  <2> HIDE DEF Kept
  <2>11. i + 1 \in Nat
    OBVIOUS
  <2> QED BY <2>10, <2>11
<1>3. Len(v) \in S
  <2> HIDE DEF S
  <2> QED BY <1>0, <1>1, <1>2, NumbersReached
<1> QED BY <1>3 DEF StandsFor

\* Which characters an escape may stand for.
Decodes(c) ==
  /\ Decode(c) \in STRING
  /\ IF c \in Alnum THEN Decode(c) = c ELSE Decode(c) \notin Alnum

LEMMA DecodesTo ==
  ASSUME TextsAreSound, NEW c, Decodes(c)
  PROVE  /\ \A n \in LoginFields : Decode(c) = n <=> c = n
         /\ c \in Alnum => Decode(c) = c
         /\ c \notin Alnum => Decode(c) \notin Alnum
         /\ Decode(c) \in STRING
BY DEF Decodes, TextsAreSound

LEMMA OneIsSeq ==
  ASSUME NEW S, NEW e \in S
  PROVE  <<e>> \in Seq(S) /\ <<>> # <<e>>
OBVIOUS

LEMMA NullApart ==
  ASSUME TextsAreSound, NEW n \in LoginFields \cup {"sid"}
  PROVE  NULL # <<n>> /\ NULL \notin Seq(STRING) /\ <<>> # <<n>> /\ NullIsNone
<1> DEFINE S == STRING
<1>1. n \in S /\ NULL \notin Seq(S)
  BY DEF TextsAreSound, LoginFields
<1> HIDE DEF S
<1>2. <<n>> \in Seq(S) /\ <<>> # <<n>>
  BY <1>1, OneIsSeq
<1> QED BY <1>1, <1>2 DEF S, NullIsNone, IsText

LEMMA UnscannedIs ==
  ASSUME NEW n, NULL # n, <<>> # n
  PROVE  Outside(Unscanned, n) /\ Lacks(Unscanned.vars, n)
<1>1. /\ Unscanned.vars = <<>> /\ Unscanned.name = NULL /\ Unscanned.buf = <<>>
      /\ \E v, m, b : Unscanned = [vars |-> v, name |-> m, buf |-> b]
  BY DEF Unscanned
<1>2. DOMAIN <<>> = {}
  OBVIOUS
<1> QED BY <1>1, <1>2, EmptyIsSeq, StringIs DEF Outside, Lacks

\* The fields have names.
LEMMA NoFieldIs ==
  ASSUME TextsAreSound, NEW s \in Seq(STRING), NEW field \in LoginFields,
         \A j \in DOMAIN s : Decodes(s[j]),
         \A j \in FieldStarts(s) : s[j] # "=",
         NEW a \in 0..Len(s), NEW b \in a..Len(s),
         \A k \in (a + 1)..b : k \notin Fields(field, s)
  PROVE  NoField(s, field, a, b)
<1> SUFFICES ASSUME NEW k \in (a + 1)..b, k = 1 \/ s[k - 1] = "&"
             PROVE  s[k] # "=" /\ Decode(s[k]) # field
  BY DEF NoField
<1>1. k \in DOMAIN s
  OBVIOUS
<1>2. k \in FieldStarts(s)
  BY <1>1 DEF FieldStarts
<1>3. s[k] # field
  BY <1>2 DEF Fields
<1> QED BY <1>1, <1>2, <1>3, DecodesTo

\* A field that the form does not have is not found.
LEMMA CgiReadsNone ==
  ASSUME TextsAreSound, NEW s \in Seq(STRING), NEW field \in LoginFields,
         \A j \in DOMAIN s : Decodes(s[j]),
         \A j \in FieldStarts(s) : s[j] # "=", Fields(field, s) = {}
  PROVE  CGI_lookup(CGI_decode_query(s), <<field>>) = NULL
<1>1. Len(s) \in Nat /\ DOMAIN s = 1..Len(s)
  OBVIOUS
<1>2. PICK f : /\ f[0] = Unscanned
               /\ \A k \in 1..Len(s) : f[k] = Scan(f[k - 1], s[k])
               /\ CGI_decode_query(s) = EndField(f[Len(s)]).vars
  BY <1>1, DecodeIs
<1>3. NULL # <<field>> /\ <<>> # <<field>> /\ NullIsNone
  BY <1>1, NullApart
<1>9. \A k \in 1..Len(s) : f[k] = Scan(f[k - 1], s[k]) /\ Decode(s[k]) \in STRING
  BY <1>1, <1>2, DecodesTo
<1>4. NoField(s, field, 0, Len(s))
  BY <1>1, NoFieldIs
<1>5. Outside(f[0], <<field>>) /\ Lacks(f[0].vars, <<field>>)
  BY <1>2, <1>3, UnscannedIs
<1>6. Outside(f[Len(s)], <<field>>) /\ Lacks(f[Len(s)].vars, <<field>>)
  <2>1. 0 \in 0..Len(s) /\ Len(s) \in 0..Len(s) /\ 0 + 1 = 1
    BY <1>1
  <2>2. /\ Outside(f[Len(s)], <<field>>)
        /\ VarsKeep(f[0].vars, f[Len(s)].vars, <<field>>)
    BY <1>1, <1>3, <1>4, <1>5, <1>9, <2>1, ScansOutside
  <2> QED BY <1>5, <2>2 DEF VarsKeep
<1> DEFINE t == f[Len(s)]
           N == <<field>>
<1> HIDE DEF t, N
<1>7. IsVars(EndField(t).vars) /\ Lacks(EndField(t).vars, N)
  <2>1. Outside(t, N) /\ Lacks(t.vars, N) /\ NULL # N /\ <<>> # N
    BY <1>3, <1>6 DEF t, N
  <2>2. Outside(EndField(t), N) /\ VarsKeep(t.vars, EndField(t).vars, N)
    BY <2>1, EndOutside
  <2> QED BY <2>1, <2>2 DEF Outside, VarsKeep
<1>8. CGI_lookup(EndField(t).vars, N) = NULL
  BY <1>7, LookupIs
<1> QED BY <1>2, <1>8 DEF t, N

\* What was filled in is found, each of its characters as what it stands for.
LEMMA CgiReads ==
  ASSUME TextsAreSound, NEW s \in Seq(STRING), NEW v \in Seq(STRING), NEW field \in LoginFields,
         FilledIn(s, field, v),
         \A j \in DOMAIN s : Decodes(s[j]),
         \A j \in FieldStarts(s) : s[j] # "="
  PROVE  LET x == CGI_lookup(CGI_decode_query(s), <<field>>)
         IN  StandsFor(x, v)
<1>0. field # "&" /\ field # "="
  BY DEF LoginFields
<1>1. Len(s) \in Nat /\ Len(v) \in Nat
  OBVIOUS
<1>14. DOMAIN s = 1..Len(s)
  OBVIOUS
<1>2. PICK f : /\ f[0] = Unscanned
               /\ \A k \in 1..Len(s) : f[k] = Scan(f[k - 1], s[k])
               /\ CGI_decode_query(s) = EndField(f[Len(s)]).vars
  BY <1>1, DecodeIs
<1>3. PICK p \in 1..Len(s) :
        /\ Fields(field, s) = {p}
        /\ p + 1 + Len(v) <= Len(s)
        /\ s[p + 1] = "="
        /\ \A j \in 1..Len(v) : s[p + 1 + j] = v[j] /\ v[j] # "&"
        /\ p + 1 + Len(v) < Len(s) => s[p + Len(v) + 2] = "&"
  <2>1. PICK p \in 1..Len(s) : FilledAt(s, field, v, p)
    BY FilledInIs
  <2> QED BY <2>1 DEF FilledAt
<1>13. PICK e \in 1..Len(s) : e = p + 1 + Len(v)
  BY <1>1, <1>3
<1> DEFINE N == <<field>>
           last == f[Len(s)]
<1>4. NULL # N /\ <<>> # N /\ NullIsNone
  BY <1>1, NullApart
<1>17. \A k \in 1..Len(s) : f[k] = Scan(f[k - 1], s[k]) /\ Decode(s[k]) \in STRING
  BY <1>2, <1>14, DecodesTo
<1>5. s[p] = field /\ Decode(s[p]) = field /\ (p = 1 \/ s[p - 1] = "&")
  <2>1. p \in Fields(field, s)
    BY <1>3
  <2> QED BY <1>14, <2>1, DecodesTo DEF Fields, FieldStarts
<1>6. Outside(f[0], N) /\ Lacks(f[0].vars, N)
  BY <1>2, <1>4, UnscannedIs
\* In front of the name.
<1>7. ASSUME NEW b \in 0..(p - 1) PROVE Outside(f[b], N) /\ Lacks(f[b].vars, N)
  <2>1. 0 \in 0..Len(s) /\ b \in 0..Len(s) /\ \A k \in (0 + 1)..b : k # p
    BY <1>1
  <2>4. \A k \in (0 + 1)..b : k \notin Fields(field, s)
    BY <1>3, <2>1
  <2>2. NoField(s, field, 0, b)
    BY <2>1, <2>4, NoFieldIs
  <2>3. Outside(f[b], N) /\ VarsKeep(f[0].vars, f[b].vars, N)
    BY <1>1, <1>4, <1>6, <1>17, <2>1, <2>2, ScansOutside
  <2> QED BY <1>6, <2>3 DEF VarsKeep
<1>8. f[p - 1].name = NULL /\ f[p - 1].buf = <<>>
  <2>1. CASE p = 1
    BY <1>2, <2>1 DEF Unscanned
  <2>2. CASE p # 1
    <3>1. p - 2 \in 0..(p - 1) /\ p - 1 \in 1..Len(s) /\ (p - 1) - 1 = p - 2 /\ s[p - 1] = "&"
          /\ p - 1 # p
      BY <1>5, <2>2
    <3>2. Outside(f[p - 2], N)
      BY <1>7, <3>1
    <3>3. /\ f[p - 1] = Scan(f[p - 2], s[p - 1])
          /\ Decode(s[p - 1]) \in STRING /\ Decode(s[p - 1]) # field
      BY <1>0, <1>14, <1>17, <3>1, DecodesTo
    <3> QED BY <1>4, <3>1, <3>2, <3>3, ScanOutside
  <2> QED BY <2>1, <2>2
<1>9. PICK w : /\ f[p - 1] = [vars |-> w, name |-> NULL, buf |-> <<>>]
               /\ IsVars(w) /\ Lacks(w, N)
  <2>1. p - 1 \in 0..(p - 1)
    OBVIOUS
  <2>2. Outside(f[p - 1], N) /\ Lacks(f[p - 1].vars, N)
    BY <1>7, <2>1
  <2>3. PICK u, m, b : f[p - 1] = [vars |-> u, name |-> m, buf |-> b]
    BY <2>2 DEF Outside
  <2>4. f[p - 1].vars = u /\ f[p - 1].name = m /\ f[p - 1].buf = b
    BY <2>3
  <2> QED BY <1>8, <2>2, <2>3, <2>4 DEF Outside
\* The name and its "=".
<1>10. f[p + 1] = [vars |-> w, name |-> N, buf |-> <<>>]
  <2>1. /\ p \in 1..Len(s) /\ p + 1 \in 1..Len(s) /\ (p + 1) - 1 = p
    BY <1>1, <1>3
  <2>2. f[p] = Scan(f[p - 1], s[p]) /\ f[p + 1] = Scan(f[p], s[p + 1])
    BY <1>2, <2>1
  <2>3. s[p] = field /\ Decode(s[p]) = field
    BY <1>5
  <2>4. Append(<<>>, field) = N
    OBVIOUS
  <2>5. Scan([vars |-> w, name |-> NULL, buf |-> <<>>], s[p]) =
          [vars |-> w, name |-> NULL, buf |-> Append(<<>>, Decode(s[p]))]
    BY <1>0, <2>3 DEF Scan
  <2>6. f[p] = [vars |-> w, name |-> NULL, buf |-> N]
    BY <1>9, <2>2, <2>3, <2>4, <2>5, Zenon
  <2> HIDE DEF N
  <2>7. Scan([vars |-> w, name |-> NULL, buf |-> N], "=") =
          [vars |-> w, name |-> N, buf |-> <<>>]
    BY <1>4 DEF Scan
  <2> QED BY <1>3, <2>2, <2>6, <2>7, Zenon
\* Its value.
<1>11. PICK x : StandsFor(x, v) /\ f[e] = [vars |-> w, name |-> N, buf |-> x]
  <2>1. Stands(s, p + 1, v) /\ (p + 1) + Len(v) = e
    BY <1>1, <1>3, <1>13 DEF Stands
  <2>2. ScansText(f, s) /\ NULL # N
    BY <1>1, <1>2, <1>4 DEF ScansText
  <2> HIDE DEF N, last
  <2>3. Reading(f[p + 1], w, N, <<>>)
    BY <1>10 DEF Reading
  <2>4. \E x : StandsFor(x, v) /\ Reading(f[(p + 1) + Len(v)], w, N, x)
    BY <2>1, <2>2, <2>3, ScansValue
  <2> QED BY <2>1, <2>4 DEF Reading
\* The end of the field.
<1>12. /\ EndField(f[e]) = [vars |-> CGI_add_var(w, N, x), name |-> NULL, buf |-> <<>>]
       /\ IsVars(CGI_add_var(w, N, x)) /\ Holds(CGI_add_var(w, N, x), N, x)
  <2> HIDE DEF N
  <2>1. EndField(f[e]) = [vars |-> CGI_add_var(w, N, x), name |-> NULL, buf |-> <<>>]
    BY <1>4, <1>11 DEF EndField
  <2>2. IsVars(CGI_add_var(w, N, x)) /\ Holds(CGI_add_var(w, N, x), N, x)
    BY <1>9, AddVarSays
  <2> QED BY <2>1, <2>2
<1>16. IsVars(EndField(last).vars) /\ Holds(EndField(last).vars, N, x)
  <2>1. CASE e = Len(s)
    <3> HIDE DEF N
    <3> QED BY <1>12, <2>1
  <2>2. CASE e # Len(s)
    <3>1. e + 1 \in 1..Len(s) /\ (e + 1) - 1 = e /\ s[e + 1] = "&" /\ e + 1 \in 0..Len(s)
      <4>1. e + 1 = p + Len(v) + 2
        BY <1>1, <1>13
      <4>2. p + 1 + Len(v) < Len(s)
        BY <1>1, <1>13, <2>2
      <4>3. e \in Nat
        OBVIOUS
      <4> QED BY <1>1, <1>3, <4>1, <4>2, <4>3
    <3>2. NoField(s, field, e + 1, Len(s))
      <4>1. \A k \in ((e + 1) + 1)..Len(s) : k # p
        BY <1>1, <1>13
      <4>2. \A k \in ((e + 1) + 1)..Len(s) : k \notin Fields(field, s)
        BY <1>3, <4>1
      <4>3. Len(s) \in (e + 1)..Len(s)
        BY <1>1, <3>1
      <4> QED BY <3>1, <4>2, <4>3, NoFieldIs
    <3>3. f[e + 1] = EndField(f[e])
      <4>1. f[e + 1] = Scan(f[e], "&")
        BY <1>2, <3>1
      <4> QED BY <4>1 DEF Scan
    <3>4. Outside(f[e + 1], N) /\ Holds(f[e + 1].vars, N, x)
      <4> HIDE DEF N
      <4>1. f[e + 1] = [vars |-> CGI_add_var(w, N, x), name |-> NULL, buf |-> <<>>]
        BY <1>12, <3>3
      <4>2. /\ f[e + 1].vars = CGI_add_var(w, N, x) /\ f[e + 1].name = NULL
            /\ f[e + 1].buf = <<>>
        BY <4>1
      <4> QED BY <1>4, <1>12, <4>1, <4>2, StringIs DEF Outside
    <3>5. Outside(last, N) /\ VarsKeep(f[e + 1].vars, last.vars, N)
      <4>1. Len(s) \in (e + 1)..Len(s)
        BY <1>1, <3>1
      <4> QED BY <1>1, <1>4, <1>17, <3>1, <3>2, <3>4, <4>1, ScansOutside
    <3>6. Outside(EndField(last), N) /\ VarsKeep(last.vars, EndField(last).vars, N)
      <4> HIDE DEF N, last
      <4> QED BY <1>4, <3>5, EndOutside
    <3> HIDE DEF N, last
    <3> QED BY <3>4, <3>5, <3>6 DEF VarsKeep, Outside
  <2> QED BY <2>1, <2>2
<1>15. CGI_lookup(CGI_decode_query(s), N) = x
  <2> HIDE DEF N
  <2>1. CGI_lookup(EndField(last).vars, N) = x
    <3> HIDE DEF last
    <3> QED BY <1>16, LookupIs
  <2> QED BY <1>2, <2>1
<1> QED BY <1>11, <1>15

\* Letters and digits are found as they are, and nothing else is as they are.
LEMMA CgiReadsWords ==
  ASSUME TextsAreSound, NEW s \in Seq(STRING), NEW v \in Seq(STRING), NEW field \in LoginFields,
         FilledIn(s, field, v),
         \A j \in DOMAIN s : Decodes(s[j]),
         \A j \in FieldStarts(s) : s[j] # "="
  PROVE  LET x == CGI_lookup(CGI_decode_query(s), <<field>>)
         IN  IF IsWord(v) THEN x = v ELSE \A u \in Seq(STRING) : IsWord(u) => x # u
<1> DEFINE x == CGI_lookup(CGI_decode_query(s), <<field>>)
<1>1. IsSeq(x) /\ Len(x) = Len(v) /\ \A j \in 1..Len(v) : x[j] = Decode(v[j])
  BY CgiReads DEF StandsFor
<1> HIDE DEF x
<1>2. \A j \in 1..Len(v) : Decodes(v[j])
  <2>1. PICK p \in 1..Len(s) :
          /\ p + 1 + Len(v) <= Len(s)
          /\ \A j \in 1..Len(v) : s[p + 1 + j] = v[j]
    <3>1. PICK p \in 1..Len(s) : FilledAt(s, field, v, p)
      BY FilledInIs
    <3> QED BY <3>1 DEF FilledAt
  <2>2. \A j \in 1..Len(v) : p + 1 + j \in DOMAIN s
    BY <2>1
  <2> QED BY <2>1, <2>2
<1>3. DOMAIN v = 1..Len(v)
  OBVIOUS
<1>4. ASSUME IsWord(v) PROVE x = v
  <2>1. \A j \in 1..Len(v) : x[j] = v[j]
    BY <1>1, <1>2, <1>3, <1>4, DecodesTo DEF IsWord
  <2>2. PICK S : x \in Seq(S)
    BY <1>1 DEF IsSeq
  <2> DEFINE T == S \cup STRING
  <2>3. x \in Seq(T) /\ v \in Seq(T)
    <3>1. S \subseteq T /\ STRING \subseteq T
      OBVIOUS
    <3> HIDE DEF T
    <3> QED BY <2>2, <3>1, SeqMonotonic
  <2> HIDE DEF T
  <2> QED BY <1>1, <2>1, <2>3, SeqEqual
<1>5. ASSUME ~IsWord(v), NEW u \in Seq(STRING), IsWord(u), x = u PROVE FALSE
  <2>1. PICK j \in 1..Len(v) : v[j] \notin Alnum
    BY <1>3, <1>5 DEF IsWord
  <2>2. x[j] \notin Alnum
    BY <1>1, <1>2, <2>1, DecodesTo
  <2>3. DOMAIN u = 1..Len(u)
    OBVIOUS
  <2> QED BY <1>1, <1>5, <2>1, <2>2, <2>3 DEF IsWord
<1> QED BY <1>4, <1>5 DEF x

-----------------------------------------------------------------------------
(* A cookie *)

LEMMA FromIs ==
  ASSUME NEW S, NEW s \in Seq(S), NEW a \in 0..Len(s)
  PROVE  /\ From(s, a + 1) \in Seq(S)
         /\ Len(From(s, a + 1)) = Len(s) - a
         /\ \A k \in 1..(Len(s) - a) : From(s, a + 1)[k] = s[a + k]
<1>1. Len(s) \in Nat /\ Len(s) \in a..Len(s)
  OBVIOUS
<1> QED BY <1>1, PieceOf DEF From

LEMMA FromEnd ==
  ASSUME NEW S, NEW s \in Seq(S), NEW a \in Nat, a >= Len(s)
  PROVE  From(s, a + 1) = <<>>
<1> DEFINE m == a + 1
           n == Len(s)
<1>1. m \in Int /\ n \in Int /\ ~(m <= n) /\ \A k \in m..n : s[k] \in S
  OBVIOUS
<1> HIDE DEF m, n
<1>2. SubSeq(s, m, n) \in Seq(S) /\ Len(SubSeq(s, m, n)) = 0
  BY <1>1, SubSeqProperties
<1>3. SubSeq(s, m, n) = <<>>
  BY <1>2, EmptySeq
<1> QED BY <1>3 DEF From, m, n

LEMMA FromFrom ==
  ASSUME NEW S, NEW s \in Seq(S), NEW a \in 0..Len(s), NEW c \in Nat
  PROVE  From(From(s, a + 1), c + 1) = From(s, (a + c) + 1)
<1> DEFINE r == From(s, a + 1)
<1>1. r \in Seq(S) /\ Len(r) = Len(s) - a /\ \A k \in 1..(Len(s) - a) : r[k] = s[a + k]
  BY FromIs
<1>2. Len(s) \in Nat /\ a + c \in Nat
  OBVIOUS
<1> HIDE DEF r
<1>3. CASE c >= Len(r)
  <2>1. a + c >= Len(s)
    BY <1>1, <1>2, <1>3
  <2>2. From(r, c + 1) = <<>>
    BY <1>1, <1>3, FromEnd
  <2>3. From(s, (a + c) + 1) = <<>>
    BY <1>2, <2>1, FromEnd
  <2> QED BY <2>2, <2>3 DEF r
<1>4. CASE c < Len(r)
  <2> DEFINE d == a + c
             u == From(r, c + 1)
             w == From(s, d + 1)
  <2>1. c \in 0..Len(r) /\ d \in 0..Len(s) /\ Len(r) - c = Len(s) - d
    BY <1>1, <1>2, <1>4
  <2>2. u \in Seq(S) /\ Len(u) = Len(r) - c /\ \A k \in 1..(Len(r) - c) : u[k] = r[c + k]
    BY <1>1, <2>1, FromIs
  <2>3. w \in Seq(S) /\ Len(w) = Len(s) - d /\ \A k \in 1..(Len(s) - d) : w[k] = s[d + k]
    <3> HIDE DEF d
    <3> QED BY <2>1, FromIs
  <2> HIDE DEF u, w
  <2>4. \A k \in 1..(Len(r) - c) : r[c + k] = s[d + k]
    <3> SUFFICES ASSUME NEW k \in 1..(Len(r) - c) PROVE r[c + k] = s[d + k]
      OBVIOUS
    <3>1. c + k \in 1..(Len(s) - a) /\ a + (c + k) = d + k
      BY <1>1, <1>2, <1>4
    <3> QED BY <1>1, <3>1
  <2> HIDE DEF d
  <2>5. Len(u) = Len(w) /\ \A k \in 1..Len(u) : u[k] = w[k]
    BY <2>1, <2>2, <2>3, <2>4
  <2>6. u = w
    BY <2>2, <2>3, <2>5, SeqEqual
  <2> QED BY <2>6 DEF u, w, d, r
<1> QED BY <1>1, <1>2, <1>3, <1>4

\* Cookies as browsers write them.
CookieIsSound(s) ==
  /\ \A j \in DOMAIN s :
       /\ s[j] \notin {"TAB", "CR", "LF"}
       /\ s[j] = "SEMI" => j + 2 \in DOMAIN s
       /\ s[j] = "SP" <=> j > 1 /\ s[j - 1] = "SEMI"
  /\ \A j \in CookieStarts(s) :
       /\ s[j] # "="
       /\ \E e \in j..Len(s) : s[e] = "=" /\ \A m \in j..e : s[m] # "SEMI"

\* No value begins with a quote.
NoQuotes(s) == \A j \in 2..Len(s) : s[j - 1] = "=" => s[j] \notin Quotes

\* Behind a place a cookie begins, with the blank in front of it.
Behind(s, b) == b = 0 \/ s[b] = "SEMI"

\* A cookie's name, up to its "=".
NameIs(s, st, e) ==
  /\ st \in 1..Len(s) /\ e \in (st + 1)..Len(s)
  /\ s[e] = "=" /\ \A m \in st..(e - 1) : s[m] \notin {"=", "SEMI"}

\* A text is the name between two places.
NameRead(n, s, st, e) ==
  n \in Seq(STRING) /\ e = st + Len(n) /\ \A k \in 1..(e - st) : n[k] = s[(st - 1) + k]

LEMMA SoundIs ==
  ASSUME NEW s, IsText(s), CookieIsSound(s)
  PROVE  /\ Len(s) \in Nat /\ DOMAIN s = 1..Len(s)
         /\ \A j \in 1..Len(s) :
              /\ s[j] \notin {"TAB", "CR", "LF"}
              /\ s[j] = "SEMI" => j + 2 \in 1..Len(s)
              /\ s[j] = "SP" <=> j > 1 /\ s[j - 1] = "SEMI"
         /\ \A j : j \in CookieStarts(s) <=> j \in 1..Len(s) /\ (j = 1 \/ (j > 2 /\ s[j - 2] = "SEMI"))
<1>1. Len(s) \in Nat /\ DOMAIN s = 1..Len(s)
  BY DEF IsText
<1> QED BY <1>1 DEF CookieIsSound, CookieStarts

\* Where the next cookie starts, and its name.
LEMMA StartIs ==
  ASSUME NEW s, IsText(s), CookieIsSound(s),
         NEW b \in 0..(Len(s) - 1), Behind(s, b)
  PROVE  LET st == IF b = 0 THEN 1 ELSE b + 2
         IN  /\ st \in (b + 1)..Len(s) /\ st \in CookieStarts(s)
             /\ b # 0 => s[b + 1] = "SP"
             /\ s[st] \notin Blanks
             /\ \E e : NameIs(s, st, e)
<1> DEFINE st == IF b = 0 THEN 1 ELSE b + 2
<1>1. Len(s) \in Nat
  BY SoundIs
<1>2. \A j \in 1..Len(s) :
        /\ s[j] \notin {"TAB", "CR", "LF"}
        /\ s[j] = "SEMI" => j + 2 \in 1..Len(s)
        /\ s[j] = "SP" <=> j > 1 /\ s[j - 1] = "SEMI"
  BY SoundIs
<1>3. \A j : j \in CookieStarts(s) <=> j \in 1..Len(s) /\ (j = 1 \/ (j > 2 /\ s[j - 2] = "SEMI"))
  BY SoundIs
<1>4. b # 0 => b + 2 \in 1..Len(s) /\ s[b + 1] = "SP"
  <2> SUFFICES ASSUME b # 0 PROVE b + 2 \in 1..Len(s) /\ s[b + 1] = "SP"
    OBVIOUS
  <2>1. b \in 1..Len(s)
    BY <1>1
  <2>5. s[b] = "SEMI"
    BY <2>1 DEF Behind
  <2>2. b + 2 \in 1..Len(s)
    BY <1>2, <2>1, <2>5
  <2>3. b + 1 \in 1..Len(s) /\ b + 1 > 1 /\ (b + 1) - 1 = b
    BY <1>1, <2>1, <2>2
  <2>4. s[b + 1] = "SP"
    BY <1>2, <2>1, <2>5, <2>3
  <2> QED BY <2>2, <2>4
<1>5. st \in 1..Len(s) /\ st >= b + 1 /\ (b = 0 => st = 1) /\ (b # 0 => st = b + 2)
  BY <1>1, <1>4
<1> HIDE DEF st
<1>6. st \in CookieStarts(s)
  <2>1. CASE b = 0
    BY <1>3, <1>5, <2>1
  <2>2. CASE b # 0
    <3>1. st > 2 /\ st - 2 = b
      BY <1>5, <2>2
    <3>2. s[b] = "SEMI"
      BY <2>2 DEF Behind
    <3> QED BY <1>3, <1>5, <3>1, <3>2
  <2> QED BY <2>1, <2>2
<1>9. s[st] # "SP"
  <2>1. CASE b = 0
    BY <1>2, <1>5, <2>1
  <2>2. CASE b # 0
    <3>1. st - 1 = b + 1
      BY <1>5, <2>2
    <3> QED BY <1>2, <1>4, <1>5, <2>2, <3>1
  <2> QED BY <2>1, <2>2
<1>10. s[st] \notin Blanks
  BY <1>2, <1>5, <1>9 DEF Blanks
<1>11. PICK d \in st..Len(s) : s[d] = "=" /\ \A m \in st..d : s[m] # "SEMI"
  BY <1>6 DEF CookieIsSound
<1> DEFINE T == {m \in st..Len(s) : s[m] = "="}
<1>12. T \subseteq Nat /\ d \in T
  BY <1>1, <1>5, <1>11
<1>13. PICK e \in T : \A m \in T : e <= m
  <2> HIDE DEF T
  <2> QED BY <1>12, LeastNumber
<1>14. e \in st..Len(s) /\ s[e] = "=" /\ e <= d
  BY <1>12, <1>13
<1>15. s[st] # "="
  BY <1>6 DEF CookieIsSound
<1>16. e \in (st + 1)..Len(s)
  BY <1>1, <1>5, <1>14, <1>15
<1>17. \A m \in st..(e - 1) : s[m] \notin {"=", "SEMI"}
  <2> SUFFICES ASSUME NEW m \in st..(e - 1) PROVE s[m] # "=" /\ s[m] # "SEMI"
    OBVIOUS
  <2>1. m \in st..d /\ m \in st..Len(s) /\ ~(e <= m)
    BY <1>1, <1>5, <1>11, <1>14
  <2>2. m \notin T
    BY <1>13, <2>1
  <2> QED BY <1>11, <2>1, <2>2
<1>18. NameIs(s, st, e)
  BY <1>5, <1>14, <1>16, <1>17 DEF NameIs
<1>19. st \in (b + 1)..Len(s)
  BY <1>5
<1> QED BY <1>4, <1>6, <1>10, <1>18, <1>19 DEF st

\* No other cookie starts in front of the next "SEMI".
LEMMA OneStart ==
  ASSUME NEW s, IsText(s), CookieIsSound(s),
         NEW b \in 0..(Len(s) - 1), Behind(s, b),
         NEW st, st = IF b = 0 THEN 1 ELSE b + 2,
         NEW d \in st..Len(s), \A m \in st..d : s[m] # "SEMI",
         NEW k \in (b + 1)..(d + 1), k \in CookieStarts(s)
  PROVE  k = st
<1>1. Len(s) \in Nat
  BY SoundIs
<1>2. \A j \in 1..Len(s) : s[j] = "SP" <=> j > 1 /\ s[j - 1] = "SEMI"
  BY SoundIs
<1>3. k \in 1..Len(s) /\ (k = 1 \/ (k > 2 /\ s[k - 2] = "SEMI"))
  BY SoundIs
<1>4. CASE k = 1
  BY <1>1, <1>4
<1>5. CASE k > 2 /\ s[k - 2] = "SEMI"
  <2>1. ~(k - 2 \in st..d)
    BY <1>5
  <2>2. k - 2 < st
    BY <1>1, <1>3, <2>1
  <2>3. b # 0 /\ st = b + 2 /\ b \in 1..Len(s)
    BY <1>1, <1>5, <2>2
  <2>4. s[b] = "SEMI"
    BY <2>3 DEF Behind
  <2>5. k - 2 = b + 1 \/ k - 2 = b \/ k - 2 = b - 1
    BY <1>1, <2>2, <2>3
  <2>6. CASE k - 2 = b + 1
    <3>1. b + 1 \in 1..Len(s) /\ b + 1 > 1 /\ (b + 1) - 1 = b
      BY <1>1, <1>3, <2>3, <2>6
    <3>2. s[b + 1] = "SP"
      BY <1>2, <2>4, <3>1
    <3> QED BY <1>5, <2>6, <3>2
  <2>7. CASE k - 2 = b
    BY <1>3, <2>3, <2>7
  <2>8. CASE k - 2 = b - 1
    <3>1. b > 1
      BY <1>5, <2>3, <2>8
    <3>2. s[b] = "SP"
      BY <1>2, <1>5, <2>3, <2>8, <3>1
    <3> QED BY <2>4, <3>2
  <2> QED BY <2>5, <2>6, <2>7, <2>8
<1> QED BY <1>3, <1>4, <1>5

LEMMA WithoutBlanksIs ==
  ASSUME NEW s, IsText(s), Len(s) >= 2, s[1] \in Blanks => s[2] \notin Blanks
  PROVE  WithoutBlanks(s) = IF s[1] \in Blanks THEN From(s, 2) ELSE s
<1>1. Len(s) \in Nat /\ s # <<>>
  BY DEF IsText
<1>2. CASE s[1] \notin Blanks
  BY <1>2 DEF WithoutBlanks
<1>3. CASE s[1] \in Blanks
  <2> DEFINE P(j) == (j <= Len(s) => s[j] \notin Blanks) /\ \A m \in 1..(j - 1) : s[m] \in Blanks
             J == 1..(Len(s) + 1)
  <2>1. 2 \in J /\ P(2)
    BY <1>1, <1>3
  <2>2. ASSUME NEW j \in J, P(j) PROVE j = 2
    <3>1. j # 1
      BY <1>1, <1>3, <2>2
    <3>2. ~(j > 2)
      <4> SUFFICES ASSUME j > 2 PROVE FALSE
        OBVIOUS
      <4>1. 2 \in 1..(j - 1)
        BY <1>1
      <4> QED BY <1>3, <2>2, <4>1
    <3> QED BY <1>1, <3>1, <3>2
  <2>3. WithoutBlanks(s) = From(s, CHOOSE j \in J : P(j))
    BY <1>1, <1>3 DEF WithoutBlanks
  <2> HIDE DEF P, J
  <2>4. (CHOOSE j \in J : P(j)) = 2
    BY <2>1, <2>2
  <2> QED BY <1>3, <2>3, <2>4
<1> QED BY <1>2, <1>3

Marks == Blanks \cup {"SEMI", "CR", "LF"}

\* What one attribute is: the name and the value of the cookie that starts
\* next, and what is behind the ";" behind it.
LEMMA AttributeIs ==
  ASSUME NEW s, IsText(s), CookieIsSound(s), NoQuotes(s),
         NEW b \in 0..(Len(s) - 1), Behind(s, b),
         NEW st, st = IF b = 0 THEN 1 ELSE b + 2, NEW e, NameIs(s, st, e)
  PROVE  LET a == scanattr(From(s, b + 1))
             v == From(s, e + 1)
         IN  /\ a.ok /\ a.value = UpTo(v, Marks)
             /\ a.rest = From(v, Len(a.value) + 2)
             /\ NameRead(a.name, s, st, e)
<1> DEFINE t == From(s, b + 1)
           r == From(s, (st - 1) + 1)
           v == From(s, e + 1)
           l == e - st
<1>1. /\ st \in (b + 1)..Len(s)
      /\ b # 0 => s[b + 1] = "SP"
      /\ s[st] \notin Blanks
  BY StartIs
<1>0. /\ st \in 1..Len(s) /\ e \in (st + 1)..Len(s)
      /\ s[e] = "=" /\ \A m \in st..(e - 1) : s[m] \notin {"=", "SEMI"}
  BY DEF NameIs
<1>2. Len(s) \in Nat /\ b \in 0..Len(s) /\ st - 1 \in 0..Len(s) /\ e \in 1..Len(s)
      /\ e \in 0..Len(s) /\ l \in Nat /\ l >= 1 /\ (st - 1) + (l + 1) = e
  <2>1. Len(s) \in Nat
    BY DEF IsText
  <2> QED BY <1>0, <1>1, <2>1
<1> HIDE DEF l
<1>3. t \in Seq(STRING) /\ Len(t) = Len(s) - b /\ \A k \in 1..(Len(s) - b) : t[k] = s[b + k]
  BY <1>2, FromIs DEF IsText
<1>4. /\ r \in Seq(STRING) /\ Len(r) = Len(s) - (st - 1)
      /\ \A k \in 1..(Len(s) - (st - 1)) : r[k] = s[(st - 1) + k]
  <2> DEFINE a == st - 1
  <2>1. a \in 0..Len(s)
    BY <1>2
  <2> HIDE DEF a
  <2>2. /\ From(s, a + 1) \in Seq(STRING) /\ Len(From(s, a + 1)) = Len(s) - a
        /\ \A k \in 1..(Len(s) - a) : From(s, a + 1)[k] = s[a + k]
    BY <2>1, FromIs DEF IsText
  <2> QED BY <2>2 DEF a
<1>5. v \in Seq(STRING) /\ Len(v) = Len(s) - e /\ \A k \in 1..(Len(s) - e) : v[k] = s[e + k]
  BY <1>2, FromIs DEF IsText
<1>6. From(t, 2) = From(s, (b + 1) + 1)
  <2> DEFINE c == 1
  <2>0. c \in Nat /\ s \in Seq(STRING) /\ b \in 0..Len(s)
    BY <1>2 DEF IsText
  <2> HIDE DEF c
  <2>a. From(From(s, b + 1), c + 1) = From(s, (b + c) + 1)
    BY <2>0, FromFrom
  <2>1. From(t, 1 + 1) = From(s, (b + 1) + 1)
    BY <2>a DEF c, t
  <2> QED BY <2>1
<1> HIDE DEF t
<1>7. WithoutBlanks(t) = r
  <2>1. Len(t) >= 2 /\ 1 \in 1..(Len(s) - b) /\ 2 \in 1..(Len(s) - b)
    BY <1>0, <1>1, <1>2, <1>3
  <2>2. t[1] = s[b + 1] /\ t[2] = s[b + 2]
    BY <1>3, <2>1
  <2>3. CASE b = 0
    <3>1. st = 1 /\ b + 1 = st
      BY <2>3
    <3>2. t[1] \notin Blanks
      BY <1>1, <2>2, <3>1
    <3>3. t = r
      <4>1. (st - 1) + 1 = b + 1
        BY <3>1, <2>3
      <4> QED BY <4>1 DEF t
    <3> HIDE DEF r
    <3> QED BY <1>3, <2>1, <3>2, <3>3, WithoutBlanksIs DEF IsText
  <2>4. CASE b # 0
    <3>1. st = b + 2 /\ (st - 1) + 1 = (b + 1) + 1
      BY <2>4, <1>2
    <3>2. t[1] \in Blanks /\ t[2] \notin Blanks
      BY <1>1, <2>2, <2>4, <3>1 DEF Blanks
    <3>3. From(t, 2) = r
      BY <1>6, <3>1
    <3> HIDE DEF r
    <3> QED BY <1>3, <2>1, <3>2, <3>3, WithoutBlanksIs DEF IsText
  <2> QED BY <2>3, <2>4
<1>8. From(r, (l + 1) + 1) = v
  <2> DEFINE a == st - 1
             c == l + 1
  <2>1. a \in 0..Len(s) /\ a + c = e /\ c \in Nat /\ s \in Seq(STRING)
    BY <1>2 DEF IsText
  <2> HIDE DEF a, c
  <2>2. From(From(s, a + 1), c + 1) = From(s, (a + c) + 1)
    BY <2>1, FromFrom
  <2> QED BY <2>1, <2>2 DEF a, c
<1> HIDE DEF v, r
<1> DEFINE n == UpTo(r, {"="})
<1>9. l < Len(r) /\ l \in 0..Len(r)
  BY <1>0, <1>2, <1>4
<1>10. n = SubSeq(r, 1, l)
  <2> DEFINE C == {"="}
  <2>2. \A k \in 1..l : r[k] \notin C
    <3> SUFFICES ASSUME NEW k \in 1..l PROVE r[k] # "="
      OBVIOUS
    <3>1. k \in 1..(Len(s) - (st - 1)) /\ (st - 1) + k \in st..(e - 1)
      BY <1>0, <1>2
    <3> QED BY <1>0, <1>4, <3>1
  <2>3. r[l + 1] \in C
    <3>1. l + 1 \in 1..(Len(s) - (st - 1))
      BY <1>0, <1>2
    <3> QED BY <1>0, <1>2, <1>4, <3>1
  <2> HIDE DEF C
  <2>4. UpTo(r, C) = SubSeq(r, 1, l)
    BY <1>4, <1>9, <2>2, <2>3, UpToIsAt
  <2> QED BY <2>4 DEF C
<1>16. n \in Seq(STRING) /\ Len(n) = l /\ \A k \in 1..l : n[k] = r[k]
  <2>1. 0 \in 0..Len(r) /\ l - 0 = l /\ 0 + 1 = 1
    BY <1>2, <1>9
  <2>2. /\ SubSeq(r, 0 + 1, l) \in Seq(STRING) /\ Len(SubSeq(r, 0 + 1, l)) = l - 0
        /\ \A k \in 1..(l - 0) : SubSeq(r, 0 + 1, l)[k] = r[0 + k]
    BY <1>4, <1>9, <2>1, PieceOf
  <2>3. /\ SubSeq(r, 1, l) \in Seq(STRING) /\ Len(SubSeq(r, 1, l)) = l
        /\ \A k \in 1..l : SubSeq(r, 1, l)[k] = r[k]
    BY <1>2, <2>2
  <2> HIDE DEF n
  <2> QED BY <1>10, <2>3
<1> HIDE DEF n
<1>11. After(r, "=") = v
  <2>1. Len(n) + 2 = (l + 1) + 1
    BY <1>2, <1>16
  <2>2. After(r, "=") = SubSeq(r, Len(n) + 2, Len(r))
    BY DEF After, n
  <2> QED BY <1>8, <2>1, <2>2 DEF From
<1>12. ~(v # <<>> /\ v[1] \in Quotes)
  <2> SUFFICES ASSUME v # <<>> PROVE v[1] \notin Quotes
    OBVIOUS
  <2>1. Len(v) # 0
    BY <1>5, EmptySeq
  <2>2. 1 \in 1..(Len(s) - e) /\ e + 1 \in 2..Len(s) /\ (e + 1) - 1 = e
    BY <1>2, <1>5, <2>1
  <2> QED BY <1>0, <1>5, <2>2 DEF NoQuotes
<1>13. n \notin {<<>>, r}
  <2>1. Len(<<>>) = 0
    OBVIOUS
  <2> QED BY <1>2, <1>9, <1>16, <2>1
<1> DEFINE val == UpTo(v, Blanks \cup {"SEMI", "CR", "LF"})
<1>14. scanattr(t) = [ok |-> TRUE, name |-> n, value |-> val, rest |-> From(v, Len(val) + 2)]
  <2> HIDE DEF val
  <2> DEFINE q == v # <<>> /\ v[1] \in Quotes
  <2>1. q = FALSE
    BY <1>12
  <2> HIDE DEF q
  <2>2. scanattr(t) =
          LET given == IF q THEN UpTo(Tail(v), {v[1]}) ELSE val
              rest == From(v, Len(given) + IF q THEN 3 ELSE 2)
          IN [ok |-> n \notin {<<>>, r} /\ (q => given # Tail(v)),
              name |-> n, value |-> given,
              rest |-> IF q /\ rest # <<>> /\ rest[1] = "SEMI" THEN Tail(rest) ELSE rest]
    BY <1>7, <1>11, Zenon DEF scanattr, q, val, n
  <2> QED BY <1>13, <2>1, <2>2
<1>15. val = UpTo(v, Marks)
  BY DEF Marks
<1> HIDE DEF val
<1>17. /\ scanattr(t).ok = TRUE /\ scanattr(t).name = n
       /\ scanattr(t).value = val /\ scanattr(t).rest = From(v, Len(val) + 2)
  BY <1>14
<1>18. \A k \in 1..l : n[k] = s[(st - 1) + k]
  <2>1. \A k \in 1..l : k \in 1..(Len(s) - (st - 1))
    BY <1>2, <1>4, <1>9
  <2> QED BY <1>4, <1>16, <2>1
<1>19. NameRead(n, s, st, e)
  <2>1. l = e - st /\ e = st + l
    BY <1>2 DEF l
  <2> QED BY <1>16, <1>18, <2>1 DEF NameRead
<1> QED BY <1>15, <1>17, <1>19 DEF t, v

\* Behind the last cookie there is none.
LEMMA NoAttribute == scanattr(<<>>).ok = FALSE
<1>1. WithoutBlanks(<<>>) = <<>>
  BY DEF WithoutBlanks
<1>2. UpTo(<<>>, {"="}) = <<>>
  <2>1. Len(<<>>) = 0 /\ 1..0 = {}
    OBVIOUS
  <2> QED BY <2>1 DEF UpTo
<1>3. <<>> \in {<<>>, <<>>}
  OBVIOUS
<1> DEFINE v == After(<<>>, "=")
           q == v # <<>> /\ v[1] \in Quotes
           val == IF q THEN UpTo(Tail(v), {v[1]}) ELSE UpTo(v, Blanks \cup {"SEMI", "CR", "LF"})
           rest == From(v, Len(val) + IF q THEN 3 ELSE 2)
           e == <<>>
<1> HIDE DEF v, e
<1>4. scanattr(e) =
        [ok |-> UpTo(WithoutBlanks(e), {"="}) \notin {<<>>, WithoutBlanks(e)} /\ (q => val # Tail(v)),
         name |-> UpTo(WithoutBlanks(e), {"="}), value |-> val,
         rest |-> IF q /\ rest # <<>> /\ rest[1] = "SEMI" THEN Tail(rest) ELSE rest]
  <2>1. After(WithoutBlanks(e), "=") = v
    BY <1>1 DEF v, e
  <2> QED BY <2>1, Zenon DEF scanattr
<1>5. UpTo(WithoutBlanks(e), {"="}) \in {<<>>, WithoutBlanks(e)}
  BY <1>1, <1>2 DEF e
<1> DEFINE o == UpTo(WithoutBlanks(e), {"="}) \notin {<<>>, WithoutBlanks(e)} /\ (q => val # Tail(v))
           z == IF q /\ rest # <<>> /\ rest[1] = "SEMI" THEN Tail(rest) ELSE rest
           y == UpTo(WithoutBlanks(e), {"="})
<1>7. o = FALSE
  BY <1>5
<1> HIDE DEF q, val, rest, o, z, y
<1>8. scanattr(e) = [ok |-> o, name |-> y, value |-> val, rest |-> z]
  BY <1>4, Zenon DEF o, z, y
<1>6. scanattr(e).ok = FALSE
  BY <1>7, <1>8
<1> QED BY <1>6 DEF e

\* A cookie's value ends in front of the next ";".
LEMMA ValueIs ==
  ASSUME NEW s, IsText(s), CookieIsSound(s), NEW a \in 1..Len(s), s[a] = "="
  PROVE  \E e \in a..Len(s) :
           /\ Len(UpTo(From(s, a + 1), Marks)) = e - a
           /\ \A k \in a..e : s[k] # "SEMI"
           /\ e < Len(s) => s[e + 1] = "SEMI" /\ e + 1 < Len(s)
<1> DEFINE v == From(s, a + 1)
<1>1. Len(s) \in Nat /\ a \in 1..Len(s) /\ a \in 0..Len(s) /\ s[a] = "="
  BY DEF IsText
<1>2. \A j \in 1..Len(s) :
        /\ s[j] \notin {"TAB", "CR", "LF"}
        /\ s[j] = "SEMI" => j + 2 \in 1..Len(s)
        /\ s[j] = "SP" <=> j > 1 /\ s[j - 1] = "SEMI"
  BY SoundIs
<1>3. v \in Seq(STRING) /\ Len(v) = Len(s) - a /\ \A k \in 1..(Len(s) - a) : v[k] = s[a + k]
  BY <1>1, FromIs DEF IsText
<1> HIDE DEF v
<1>4. PICK n \in 0..Len(v) :
        /\ UpTo(v, Marks) = SubSeq(v, 1, n)
        /\ \A k \in 1..n : v[k] \notin Marks
        /\ n < Len(v) => v[n + 1] \in Marks
  BY <1>3, UpToIs
<1>5. Len(UpTo(v, Marks)) = n
  <2>1. 0 \in 0..Len(v) /\ n \in 0..Len(v) /\ n - 0 = n /\ 0 + 1 = 1
    BY <1>3
  <2>2. Len(SubSeq(v, 0 + 1, n)) = n - 0
    BY <1>3, <2>1, PieceOf
  <2> QED BY <1>4, <2>1, <2>2
<1>6. \A k \in 1..n : s[a + k] \notin Marks
  <2>1. \A k \in 1..n : k \in 1..(Len(s) - a)
    BY <1>1, <1>3
  <2> QED BY <1>3, <1>4, <2>1
<1>7. PICK e \in a..Len(s) : e = a + n
  <2>1. a + n \in a..Len(s)
    BY <1>1, <1>3
  <2> QED BY <2>1
<1>8. \A k \in a..e : s[k] # "SEMI"
  <2> SUFFICES ASSUME NEW k \in a..e PROVE s[k] # "SEMI"
    OBVIOUS
  <2>1. CASE k = a
    BY <1>1, <2>1
  <2>2. CASE k # a
    <3>1. k - a \in 1..n /\ a + (k - a) = k
      BY <1>1, <1>7, <2>2
    <3>2. s[k] \notin Marks
      BY <1>6, <3>1
    <3> QED BY <3>2 DEF Marks
  <2> QED BY <2>1, <2>2
<1>9. ASSUME e < Len(s) PROVE s[e + 1] = "SEMI" /\ e + 1 < Len(s)
  <2>1. n < Len(v) /\ n + 1 \in 1..(Len(s) - a) /\ a + (n + 1) = e + 1
    BY <1>1, <1>3, <1>7, <1>9
  <2>2. s[e + 1] \in Marks
    BY <1>3, <1>4, <2>1
  <2>3. e + 1 \in 1..Len(s) /\ (e + 1) - 1 = e /\ e \in a..e
    BY <1>1, <1>9
  <2>4. s[e + 1] # "SP"
    BY <1>2, <1>8, <2>3
  <2>5. s[e + 1] = "SEMI"
    BY <1>2, <2>2, <2>3, <2>4 DEF Marks, Blanks
  <2>6. (e + 1) + 2 \in 1..Len(s)
    BY <1>2, <2>3, <2>5
  <2> QED BY <1>1, <2>3, <2>5, <2>6
<1>10. Len(UpTo(v, Marks)) = e - a
  BY <1>1, <1>5, <1>7
<1> QED BY <1>8, <1>9, <1>10 DEF v

\* The session id among the cookies, or none.
SidIs(s, v) ==
  IF v = NULL THEN Matches("sid", s) \cap CookieStarts(s) = {}
  ELSE /\ v \in Seq(STRING) /\ IsWord(v)
       /\ \E p, q \in 1..(Len(s) + 1) :
            /\ Matches("sid", s) \cap CookieStarts(s) = {p}
            /\ Between(s, p + 1, q, v)
            /\ q = Len(s) + 1 \/ s[q] = "SEMI"

\* Where it is.
SidPlace(s, v, p) ==
  /\ Matches("sid", s) \cap CookieStarts(s) = {p}
  /\ p \in 1..Len(s) /\ p + 1 + Len(v) <= Len(s)
  /\ \A j \in 1..Len(v) : s[(p + 1) + j] = v[j]
  /\ (p + 1) + Len(v) < Len(s) => s[(p + 1) + Len(v) + 1] = "SEMI"

LEMMA SidAt ==
  ASSUME TextsAreSound, NEW s, IsText(s), NEW v, SidIs(s, v), v # NULL
  PROVE  /\ v \in Seq(STRING) /\ IsWord(v)
         /\ \E p : SidPlace(s, v, p)
<1>1. v \in Seq(STRING) /\ IsWord(v)
  BY DEF SidIs
<1>2. PICK p \in 1..(Len(s) + 1), q \in 1..(Len(s) + 1) :
        /\ Matches("sid", s) \cap CookieStarts(s) = {p}
        /\ Between(s, p + 1, q, v)
        /\ q = Len(s) + 1 \/ s[q] = "SEMI"
  BY DEF SidIs
<1>3. p + 1 + Len(v) = q - 1 /\ SubSeq(s, (p + 1) + 1, q - 1) = v
  BY <1>2 DEF Between
<1>4. Len(s) \in Nat /\ Len(v) \in Nat
  BY <1>1 DEF IsText
<1>6. /\ p \in 1..Len(s) /\ p + 1 + Len(v) <= Len(s)
      /\ p + 1 \in 0..Len(s) /\ q - 1 \in (p + 1)..Len(s) /\ (q - 1) - (p + 1) = Len(v)
  BY <1>3, <1>4
<1>7. \A j \in 1..Len(v) : s[(p + 1) + j] = v[j]
  <2> DEFINE a == p + 1
             b == q - 1
  <2>1. a \in 0..Len(s) /\ b \in a..Len(s) /\ b - a = Len(v) /\ SubSeq(s, a + 1, b) = v
    BY <1>3, <1>6
  <2> HIDE DEF a, b
  <2>2. \A k \in 1..(b - a) : SubSeq(s, a + 1, b)[k] = s[a + k]
    BY <2>1, PieceOf DEF IsText
  <2>3. \A j \in 1..Len(v) : s[a + j] = v[j]
    BY <2>1, <2>2
  <2> QED BY <2>3 DEF a
<1>8. (p + 1) + Len(v) < Len(s) => s[(p + 1) + Len(v) + 1] = "SEMI"
  <2>1. q = (p + 1) + Len(v) + 1
    BY <1>3, <1>4
  <2> QED BY <1>2, <1>4, <2>1
<1> QED BY <1>1, <1>2, <1>6, <1>7, <1>8 DEF SidPlace

\* Its value, as ccgi takes it.
LEMMA SidValue ==
  ASSUME TextsAreSound, NEW s, IsText(s), NEW v, SidIs(s, v),
         NEW st \in Matches("sid", s) \cap CookieStarts(s)
  PROVE  v # NULL /\ UpTo(From(s, (st + 1) + 1), Marks) = v
<1>1. v # NULL
  BY DEF SidIs
<1>0. PICK p : SidPlace(s, v, p)
  BY <1>1, SidAt
<1>2. /\ Matches("sid", s) \cap CookieStarts(s) = {p}
      /\ p \in 1..Len(s) /\ p + 1 + Len(v) <= Len(s)
      /\ \A j \in 1..Len(v) : s[(p + 1) + j] = v[j]
      /\ (p + 1) + Len(v) < Len(s) => s[(p + 1) + Len(v) + 1] = "SEMI"
  BY <1>0 DEF SidPlace
<1>3. v \in Seq(STRING) /\ IsWord(v)
  BY <1>1, SidAt
<1>4. st = p
  BY <1>2
<1> DEFINE a == p + 1
           r == From(s, a + 1)
           n == Len(v)
<1>5. Len(s) \in Nat /\ n \in Nat /\ a \in 0..Len(s) /\ a + n <= Len(s)
  <2>1. Len(s) \in Nat /\ n \in Nat
    BY <1>3 DEF IsText
  <2> QED BY <1>2, <2>1
<1>6. (\A j \in 1..n : s[a + j] = v[j]) /\ (a + n < Len(s) => s[a + n + 1] = "SEMI")
  BY <1>2
<1> HIDE DEF a
<1>7. r \in Seq(STRING) /\ Len(r) = Len(s) - a /\ \A k \in 1..(Len(s) - a) : r[k] = s[a + k]
  BY <1>5, FromIs DEF IsText
<1> HIDE DEF r
<1>8. \A k \in 1..n : r[k] = v[k] /\ v[k] \in Alnum
  <2>1. \A k \in 1..n : k \in 1..(Len(s) - a)
    BY <1>5
  <2>2. \A k \in 1..n : v[k] \in Alnum
    <3>1. DOMAIN v = 1..n
      BY <1>3
    <3> QED BY <1>3, <3>1 DEF IsWord
  <2> QED BY <1>6, <1>7, <2>1, <2>2
<1>9. \A k \in 1..n : r[k] \notin Marks
  BY <1>8, MarksApart DEF Marks, Blanks
<1>10. n < Len(r) => r[n + 1] \in Marks
  <2> SUFFICES ASSUME n < Len(r) PROVE r[n + 1] \in Marks
    OBVIOUS
  <2>1. n + 1 \in 1..(Len(s) - a) /\ a + (n + 1) = a + n + 1 /\ a + n < Len(s)
    BY <1>5, <1>7
  <2>2. r[n + 1] = "SEMI"
    BY <1>6, <1>7, <2>1
  <2> QED BY <2>2 DEF Marks
<1>11. n \in 0..Len(r)
  BY <1>5, <1>7
<1>12. UpTo(r, Marks) = SubSeq(r, 1, n)
  <2> HIDE DEF n
  <2>1. r \in Seq(STRING)
    BY <1>7
  <2> QED BY <2>1, <1>9, <1>10, <1>11, UpToIsAt, Zenon
<1>13. SubSeq(r, 1, n) = v
  <2> DEFINE u == SubSeq(r, 1, n)
  <2>1. 0 \in 0..Len(r) /\ n \in 0..Len(r) /\ n - 0 = n /\ 0 + 1 = 1
    BY <1>5, <1>7, <1>11
  <2>2. /\ SubSeq(r, 0 + 1, n) \in Seq(STRING) /\ Len(SubSeq(r, 0 + 1, n)) = n - 0
        /\ \A k \in 1..(n - 0) : SubSeq(r, 0 + 1, n)[k] = r[0 + k]
    BY <1>7, <2>1, PieceOf
  <2>3. u \in Seq(STRING) /\ Len(u) = n /\ \A k \in 1..n : u[k] = r[k]
    BY <2>1, <2>2
  <2> HIDE DEF u
  <2>4. Len(u) = Len(v) /\ \A k \in 1..Len(u) : u[k] = v[k]
    BY <1>8, <2>3
  <2>5. u = v
    BY <1>3, <2>3, <2>4, SeqEqual
  <2> QED BY <2>5 DEF u
<1>14. UpTo(r, Marks) = v
  BY <1>12, <1>13
<1> QED BY <1>1, <1>4, <1>14 DEF r, a

\* What ccgi does until it finds no other cookie.
Take(t) ==
  LET a == scanattr(t.text)
  IN  IF ~a.ok THEN t
      ELSE [vars |-> CGI_add_var(t.vars, a.name, a.value), text |-> a.rest]

Untaken(s) == [vars |-> <<>>, text |-> s]

Takes(f, n, s) ==
  f = [k \in 0..n |-> IF k = 0 THEN Untaken(s) ELSE Take(f[k - 1])]

LEMMA TakenIs ==
  ASSUME NEW s, Len(s) \in Nat, s # NULL
  PROVE  \E f : /\ f[0] = Untaken(s)
                /\ \A k \in 1..Len(s) : f[k] = Take(f[k - 1])
                /\ CGI_get_cookie(s) = f[Len(s)].vars
<1> DEFINE S == {k \in Nat : \E f : Takes(f, k, s)}
           whole == CHOOSE f : Takes(f, Len(s), s)
<1>1. 0 \in S
  <2> DEFINE f == [k \in 0..0 |-> Untaken(s)]
  <2>1. f = [k \in 0..0 |-> IF k = 0 THEN Untaken(s) ELSE Take(f[k - 1])]
    OBVIOUS
  <2> HIDE DEF f
  <2>2. Takes(f, 0, s)
    BY <2>1 DEF Takes
  <2> QED BY <2>2
<1>2. ASSUME NEW m \in 0..(Len(s) - 1), m \in S PROVE m + 1 \in S
  <2>1. PICK f : Takes(f, m, s)
    BY <1>2
  <2> DEFINE h == [k \in 0..(m + 1) |-> IF k = m + 1 THEN Take(f[m]) ELSE f[k]]
  <2>2. ASSUME NEW k \in 0..(m + 1)
        PROVE  h[k] = IF k = 0 THEN Untaken(s) ELSE Take(h[k - 1])
    <3>1. CASE k = m + 1
      <4>1. k # 0 /\ k - 1 = m /\ m \in 0..(m + 1) /\ m # m + 1
        BY <3>1
      <4>2. h[k] = Take(f[m]) /\ h[m] = f[m]
        BY <3>1, <4>1
      <4> QED BY <3>1, <4>1, <4>2, Zenon
    <3>2. CASE k # m + 1
      <4>1. k \in 0..m /\ h[k] = f[k] /\ (k # 0 => h[k - 1] = f[k - 1])
        BY <3>2
      <4>2. f[k] = IF k = 0 THEN Untaken(s) ELSE Take(f[k - 1])
        BY <2>1, <4>1, Zenon DEF Takes
      <4> QED BY <4>1, <4>2
    <3> QED BY <3>1, <3>2
  <2>3. Takes(h, m + 1, s)
    <3>1. h = [k \in 0..(m + 1) |-> h[k]]
      OBVIOUS
    <3>2. [k \in 0..(m + 1) |-> h[k]] =
            [k \in 0..(m + 1) |-> IF k = 0 THEN Untaken(s) ELSE Take(h[k - 1])]
      <4> HIDE DEF h
      <4> QED BY <2>2
    <3> HIDE DEF h
    <3> QED BY <3>1, <3>2, Zenon DEF Takes
  <2>4. m + 1 \in Nat
    OBVIOUS
  <2> QED BY <2>3, <2>4
<1>3. Len(s) \in S
  <2> HIDE DEF S
  <2> QED BY <1>1, <1>2, NumbersReached
<1>4. Takes(whole, Len(s), s)
  <2>1. \E f : Takes(f, Len(s), s)
    BY <1>3
  <2> QED BY <2>1, Zenon
<1>5. CGI_get_cookie(s) = whole[Len(s)].vars
  BY Zenon DEF CGI_get_cookie, Takes, Take, Untaken
<1> HIDE DEF whole
<1>6. \A k \in 0..Len(s) :
        whole[k] = IF k = 0 THEN Untaken(s) ELSE Take(whole[k - 1])
  BY <1>4, Zenon DEF Takes
<1>7. whole[0] = Untaken(s)
  BY <1>6
<1>8. \A k \in 1..Len(s) : whole[k] = Take(whole[k - 1])
  BY <1>6
<1> QED BY <1>5, <1>7, <1>8, Zenon

\* What the list says of the session id when a part of the cookies is taken.
SidUpTo(s, c) == \E k \in 1..c : k \in Matches("sid", s) \cap CookieStarts(s)

Said(w, s, c, v) ==
  /\ IsVars(w)
  /\ SidUpTo(s, c) => Holds(w, <<"sid">>, v)
  /\ ~SidUpTo(s, c) => Lacks(w, <<"sid">>)

TakenUpTo(t, s, c, v) ==
  /\ c \in 0..Len(s)
  /\ c < Len(s) => Behind(s, c)
  /\ \E w : t = [vars |-> w, text |-> From(s, c + 1)] /\ Said(w, s, c, v)

\* A cookie has the name that it is found by.
LEMMA NamedSid ==
  ASSUME TextsAreSound, NEW s, IsText(s),
         NEW st, NEW e, NameIs(s, st, e), st \in CookieStarts(s),
         NEW n, NameRead(n, s, st, e)
  PROVE  n = <<"sid">> <=> st \in Matches("sid", s) \cap CookieStarts(s)
<1>1. /\ Len(s) \in Nat /\ st \in 1..Len(s) /\ e \in (st + 1)..Len(s)
      /\ s[e] = "=" /\ \A m \in st..(e - 1) : s[m] # "="
  BY DEF NameIs, IsText
<1>5. n \in Seq(STRING) /\ e = st + Len(n) /\ Len(n) \in Nat
  BY DEF NameRead
<1>6. Len(n) = 1 => e = st + 1 /\ n[1] = s[st]
  <2> SUFFICES ASSUME Len(n) = 1 PROVE e = st + 1 /\ n[1] = s[st]
    OBVIOUS
  <2>1. e = st + 1
    BY <1>1, <1>5
  <2>2. 1 \in 1..(e - st) /\ (st - 1) + 1 = st
    BY <1>1, <2>1
  <2>3. n[1] = s[(st - 1) + 1]
    BY <2>2, Zenon DEF NameRead
  <2> QED BY <2>1, <2>2, <2>3
<1> DEFINE y == "sid"
<1>2. y \in STRING
  BY DEF TextsAreSound
<1> HIDE DEF y
<1>3. ASSUME n = <<y>> PROVE s[st] = y /\ s[st + 1] = "=" /\ st \in 1..(Len(s) - 1)
  <2>1. Len(n) = 1 /\ n[1] = y
    BY <1>2, <1>3
  <2>2. e = st + 1 /\ n[1] = s[st]
    BY <1>6, <2>1
  <2> QED BY <1>1, <2>1, <2>2
<1>4. ASSUME s[st] = y, s[st + 1] = "=" PROVE n = <<y>>
  <2>1. e = st + 1
    BY <1>1, <1>4
  <2>2. Len(n) = 1
    <3> DEFINE l == Len(n)
    <3>1. l \in Nat /\ e = st + l /\ st \in Nat
      BY <1>1, <1>5
    <3> HIDE DEF l
    <3>2. l = 1
      BY <2>1, <3>1
    <3> QED BY <3>2 DEF l
  <2>3. n[1] = y
    BY <1>4, <1>6, <2>2
  <2> DEFINE w == <<y>>
  <2>4. w \in Seq(STRING) /\ Len(w) = 1 /\ w[1] = y
    <3>1. w \in Seq(STRING)
      BY <1>2, OneIsSeq, Zenon
    <3>2. Len(w) = 1 /\ w[1] = y
      OBVIOUS
    <3> QED BY <3>1, <3>2
  <2> HIDE DEF w
  <2>5. \A k \in 1..Len(n) : n[k] = w[k]
    <3> SUFFICES ASSUME NEW k \in 1..Len(n) PROVE n[k] = w[k]
      OBVIOUS
    <3>1. k = 1
      BY <2>2
    <3> QED BY <2>3, <2>4, <3>1
  <2>7. n = w
    BY <1>5, <2>2, <2>4, <2>5, SeqEqual
  <2> QED BY <2>7 DEF w
<1> QED BY <1>3, <1>4 DEF Matches, y

\* One more cookie, when there is one.
LEMMA TakeOne ==
  ASSUME TextsAreSound, NEW s, IsText(s), CookieIsSound(s), NoQuotes(s), NEW v, SidIs(s, v),
         NEW t, NEW b, TakenUpTo(t, s, b, v), b < Len(s)
  PROVE  \E c \in (b + 1)..Len(s) : TakenUpTo(Take(t), s, c, v)
<1>1. Len(s) \in Nat /\ b \in 0..(Len(s) - 1) /\ b \in 0..Len(s) /\ Behind(s, b)
  BY DEF TakenUpTo, IsText
<1>2. PICK w : t = [vars |-> w, text |-> From(s, b + 1)] /\ Said(w, s, b, v)
  BY DEF TakenUpTo
<1>3. PICK st \in (b + 1)..Len(s) :
        /\ st = IF b = 0 THEN 1 ELSE b + 2
        /\ st \in CookieStarts(s)
        /\ \E e : NameIs(s, st, e)
  BY <1>1, StartIs
<1>20. PICK p : NameIs(s, st, p)
  BY <1>3
<1>21. /\ st \in 1..Len(s) /\ p \in (st + 1)..Len(s) /\ p \in 1..Len(s)
       /\ s[p] = "=" /\ \A m \in st..(p - 1) : s[m] # "SEMI"
  BY <1>1, <1>20 DEF NameIs
<1> DEFINE a == scanattr(From(s, b + 1))
           r == From(s, p + 1)
           x == UpTo(r, Marks)
           n == a.name
           N == <<"sid">>
           u == CGI_add_var(w, n, x)
<1>4. /\ a.ok /\ a.value = x /\ a.rest = From(r, Len(x) + 2)
      /\ NameRead(n, s, st, p)
  <2>1. /\ a.ok /\ a.value = x /\ a.rest = From(r, Len(a.value) + 2)
        /\ NameRead(n, s, st, p)
    BY <1>1, <1>3, <1>20, AttributeIs, Zenon
  <2> HIDE DEF a, r, x
  <2> QED BY <2>1
<1>6. PICK e \in p..Len(s) :
        /\ Len(x) = e - p
        /\ \A k \in p..e : s[k] # "SEMI"
        /\ e < Len(s) => s[e + 1] = "SEMI" /\ e + 1 < Len(s)
  BY <1>21, ValueIs
<1>7. PICK c \in (b + 1)..Len(s) : c = IF e < Len(s) THEN e + 1 ELSE Len(s)
  <2>1. (IF e < Len(s) THEN e + 1 ELSE Len(s)) \in (b + 1)..Len(s)
    BY <1>1, <1>3, <1>21
  <2> QED BY <2>1
<1> HIDE DEF n
<1>22. n = N <=> st \in Matches("sid", s) \cap CookieStarts(s)
  <2>1. n = <<"sid">> <=> st \in Matches("sid", s) \cap CookieStarts(s)
    <3>1. NameRead(n, s, st, p) /\ st \in CookieStarts(s)
      BY <1>3, <1>4
    <3> HIDE DEF a, r, x, N, u
    <3> QED BY <1>20, <3>1, NamedSid
  <2> QED BY <2>1 DEF N
<1> HIDE DEF a, x
<1>8. From(r, Len(x) + 2) = From(s, c + 1)
  <2> DEFINE l == e - p
  <2>1. p \in 0..Len(s) /\ l \in Nat /\ Len(x) + 2 = (l + 1) + 1 /\ l + 1 \in Nat
        /\ p + (l + 1) = e + 1
    BY <1>1, <1>6, <1>21
  <2> HIDE DEF l
  <2>2. From(From(s, p + 1), (l + 1) + 1) = From(s, (p + (l + 1)) + 1)
    BY <2>1, FromFrom DEF IsText
  <2>3. From(r, Len(x) + 2) = From(s, (e + 1) + 1)
    BY <2>1, <2>2
  <2>4. CASE e < Len(s)
    BY <1>7, <2>3, <2>4
  <2>5. CASE ~(e < Len(s))
    <3>1. e + 1 \in Nat /\ e + 1 >= Len(s) /\ c \in Nat /\ c >= Len(s)
      BY <1>1, <1>7, <1>21, <2>5
    <3>2. From(s, (e + 1) + 1) = <<>>
      BY <3>1, FromEnd DEF IsText
    <3>3. From(s, c + 1) = <<>>
      BY <3>1, FromEnd DEF IsText
    <3> QED BY <2>3, <3>2, <3>3
  <2> QED BY <2>4, <2>5
<1> HIDE DEF r, N, u
<1>9. Take(t) = [vars |-> u, text |-> From(s, c + 1)]
  <2>1. t.text = From(s, b + 1) /\ t.vars = w
    BY <1>2
  <2>2. Take(t) = IF ~a.ok THEN t
                  ELSE [vars |-> CGI_add_var(w, n, a.value), text |-> a.rest]
    BY <2>1, Zenon DEF Take, a, n
  <2>3. Take(t) = [vars |-> CGI_add_var(w, n, x), text |-> From(r, Len(x) + 2)]
    BY <1>4, <2>2, Zenon
  <2> QED BY <1>8, <2>3 DEF u
\* The only cookie that starts in this part.
<1>10. \A k \in (b + 1)..c : k \in CookieStarts(s) => k = st
  <2>1. \A m \in st..e : s[m] # "SEMI"
    <3>1. \A m \in st..e : m \in st..(p - 1) \/ m \in p..e
      BY <1>1, <1>21
    <3> QED BY <1>6, <1>21, <3>1
  <2>2. e \in st..Len(s) /\ \A k \in (b + 1)..c : k \in (b + 1)..(e + 1)
    BY <1>1, <1>6, <1>7, <1>21
  <2> QED BY <1>1, <1>3, <2>1, <2>2, OneStart
<1>11. SidUpTo(s, c) <=> SidUpTo(s, b) \/ n = N
  <2>1. st \in 1..c
    BY <1>1, <1>6, <1>7, <1>21
  <2>2. \A k \in 1..b : k \in 1..c
    BY <1>1
  <2>3. \A k \in 1..c : k \in 1..b \/ k \in (b + 1)..c
    BY <1>1
  <2> QED BY <1>3, <1>10, <1>22, <2>1, <2>2, <2>3 DEF SidUpTo
\* What it adds to the list.
<1>12. /\ IsVars(u)
       /\ Lacks(w, n) => Holds(u, n, x)
       /\ \A m : m # n /\ Lacks(w, m) => Lacks(u, m)
       /\ \A m, y : m # n /\ Holds(w, m, y) => Holds(u, m, y)
  <2>1. IsVars(w)
    BY <1>2 DEF Said
  <2> QED BY <2>1, AddVarSays DEF u
<1>13. Said(u, s, c, v)
  <2>1. CASE n = N
    <3>2. v # NULL /\ x = v
      <4>1. st \in Matches("sid", s) \cap CookieStarts(s) /\ s[st + 1] = "="
        BY <1>22, <2>1 DEF Matches
      <4>2. ~(st + 1 \in st..(p - 1))
        BY <1>20, <4>1 DEF NameIs
      <4>3. p = st + 1
        BY <1>1, <1>21, <4>2
      <4> QED BY <4>1, <4>3, SidValue DEF x, r
    <3>3. ~SidUpTo(s, b)
      <4> SUFFICES ASSUME NEW k \in 1..b, k \in Matches("sid", s) \cap CookieStarts(s) PROVE FALSE
        BY DEF SidUpTo
      <4>0. PICK m : SidPlace(s, v, m)
        BY <3>2, SidAt
      <4>2. k = st
        BY <1>22, <2>1, <4>0 DEF SidPlace
      <4> QED BY <1>1, <4>2
    <3>4. Lacks(w, N)
      BY <1>2, <3>3 DEF Said, N
    <3>5. Holds(u, N, v)
      BY <1>12, <2>1, <3>2, <3>4
    <3> QED BY <1>11, <1>12, <2>1, <3>5 DEF Said, N
  <2>2. CASE n # N
    <3>2. /\ Lacks(w, N) => Lacks(u, N)
          /\ Holds(w, N, v) => Holds(u, N, v)
      BY <1>12, <2>2
    <3>3. /\ SidUpTo(s, b) => Holds(w, N, v)
          /\ ~SidUpTo(s, b) => Lacks(w, N)
      BY <1>2 DEF Said, N
    <3> QED BY <1>11, <1>12, <2>2, <3>2, <3>3 DEF Said, N
  <2> QED BY <2>1, <2>2
<1>14. c < Len(s) => Behind(s, c)
  <2> SUFFICES ASSUME c < Len(s) PROVE Behind(s, c)
    OBVIOUS
  <2>1. e < Len(s) /\ c = e + 1
    BY <1>1, <1>7
  <2> QED BY <1>6, <2>1 DEF Behind
<1>15. c \in 0..Len(s)
  BY <1>1
<1>16. TakenUpTo(Take(t), s, c, v)
  BY <1>9, <1>13, <1>14, <1>15 DEF TakenUpTo
<1> QED BY <1>16

\* The session id is found among the cookies, or found not to be there.
LEMMA CgiReadsCookie ==
  ASSUME TextsAreSound, NEW s, IsText(s), CookieIsSound(s), NoQuotes(s), NEW v, SidIs(s, v)
  PROVE  CGI_lookup(CGI_get_cookie(s), <<"sid">>) = v
<1>1. Len(s) \in Nat /\ s # NULL
  BY DEF IsText, TextsAreSound
<1>2. PICK f : /\ f[0] = Untaken(s)
               /\ \A k \in 1..Len(s) : f[k] = Take(f[k - 1])
               /\ CGI_get_cookie(s) = f[Len(s)].vars
  BY <1>1, TakenIs
<1> DEFINE S == {n \in Nat : \E c \in n..Len(s) : TakenUpTo(f[n], s, c, v)}
           N == <<"sid">>
<1>3. 0 \in S
  <2>1. From(s, 0 + 1) = s
    BY SubSeqFull DEF From, IsText
  <2>2. f[0] = [vars |-> <<>>, text |-> From(s, 0 + 1)]
    BY <1>2, <2>1 DEF Untaken
  <2>3. ~SidUpTo(s, 0)
    <3>1. 1..0 = {}
      OBVIOUS
    <3> QED BY <3>1 DEF SidUpTo
  <2>4. Said(<<>>, s, 0, v)
    <3>1. DOMAIN <<>> = {}
      OBVIOUS
    <3>2. Lacks(<<>>, N)
      BY <3>1 DEF Lacks
    <3> QED BY <2>3, <3>2, EmptyIsSeq DEF Said
  <2>5. 0 \in 0..Len(s) /\ 0 \in Nat
    BY <1>1
  <2>6. TakenUpTo(f[0], s, 0, v)
    BY <2>2, <2>4, <2>5 DEF TakenUpTo, Behind
  <2> QED BY <2>5, <2>6
<1>4. ASSUME NEW n \in 0..(Len(s) - 1), n \in S PROVE n + 1 \in S
  <2>1. PICK b \in n..Len(s) : TakenUpTo(f[n], s, b, v)
    BY <1>4
  <2>2. f[n + 1] = Take(f[n])
    <3>1. n + 1 \in 1..Len(s) /\ (n + 1) - 1 = n
      BY <1>1
    <3> QED BY <1>2, <3>1
  <2>3. CASE b < Len(s)
    <3>1. PICK c \in (b + 1)..Len(s) : TakenUpTo(f[n + 1], s, c, v)
      BY <2>1, <2>2, <2>3, TakeOne
    <3>2. c \in (n + 1)..Len(s) /\ n + 1 \in Nat
      BY <1>1
    <3> QED BY <3>1, <3>2
  <2>4. CASE ~(b < Len(s))
    <3>1. b = Len(s) /\ b \in Nat /\ b >= Len(s) /\ b \in (n + 1)..Len(s) /\ n + 1 \in Nat
      BY <1>1, <2>4
    <3>2. PICK w : f[n] = [vars |-> w, text |-> From(s, b + 1)]
      BY <2>1 DEF TakenUpTo
    <3>3. From(s, b + 1) = <<>>
      BY <3>1, FromEnd DEF IsText
    <3>4. f[n].text = <<>>
      BY <3>2, <3>3
    <3>5. Take(f[n]) = f[n]
      <4>1. scanattr(f[n].text).ok = FALSE
        BY <3>4, NoAttribute
      <4> QED BY <4>1 DEF Take
    <3> QED BY <2>1, <2>2, <3>1, <3>5
  <2> QED BY <2>3, <2>4
<1>5. Len(s) \in S
  <2> HIDE DEF S
  <2> QED BY <1>1, <1>3, <1>4, NumbersReached
<1>6. PICK c \in Len(s)..Len(s) : TakenUpTo(f[Len(s)], s, c, v)
  BY <1>5
<1>7. c = Len(s)
  BY <1>1
<1>8. PICK w : f[Len(s)].vars = w /\ Said(w, s, Len(s), v)
  <2>1. PICK w : f[Len(s)] = [vars |-> w, text |-> From(s, c + 1)] /\ Said(w, s, c, v)
    BY <1>6 DEF TakenUpTo
  <2>2. f[Len(s)].vars = w
    BY <2>1
  <2> QED BY <1>7, <2>1, <2>2
<1>9. CGI_get_cookie(s) = w
  BY <1>2, <1>8
<1>10. \A j \in CookieStarts(s) : j \in 1..Len(s)
  <2>1. DOMAIN s = 1..Len(s)
    BY DEF IsText
  <2> QED BY <2>1 DEF CookieStarts
<1>11. CASE v = NULL
  <2>1. ~SidUpTo(s, Len(s))
    BY <1>11 DEF SidUpTo, SidIs
  <2>2. IsVars(w) /\ Lacks(w, N)
    BY <1>8, <2>1 DEF Said
  <2> HIDE DEF N
  <2>3. CGI_lookup(w, N) = NULL
    BY <2>2, LookupIs
  <2> QED BY <1>9, <1>11, <2>3 DEF N
<1>12. CASE v # NULL
  <2>1. SidUpTo(s, Len(s))
    BY <1>10, <1>12, SidAt DEF SidUpTo, SidPlace
  <2>2. IsVars(w) /\ Holds(w, N, v)
    BY <1>8, <2>1 DEF Said
  <2> HIDE DEF N
  <2>3. CGI_lookup(w, N) = v
    BY <2>2, LookupIs
  <2> QED BY <1>9, <2>3 DEF N
<1> QED BY <1>11, <1>12

\* So it is by the server.
LEMMA ServerReadsCookie ==
  ASSUME TextsAreSound, NEW s, IsText(s), NEW v, SidIs(s, v),
         ~Misled("sid", s, CookieStarts(s))
  PROVE  WordAfter("sid", s) = v
<1>1. Len(s) \in Nat /\ s \in Seq(STRING)
  BY DEF IsText
<1>3. CASE v = NULL
  <2>1. Matches("sid", s) = {}
    BY <1>3, NoMatch DEF SidIs
  <2> QED BY <1>3, <2>1 DEF WordAfter
<1>4. CASE v # NULL
  <2>1. v \in Seq(STRING) /\ IsWord(v)
    BY <1>4, SidAt
  <2>9. PICK p : SidPlace(s, v, p)
    BY <1>4, SidAt
  <2>2. /\ Matches("sid", s) \cap CookieStarts(s) = {p}
        /\ p \in 1..Len(s) /\ p + 1 + Len(v) <= Len(s)
        /\ \A j \in 1..Len(v) : s[(p + 1) + j] = v[j]
        /\ (p + 1) + Len(v) < Len(s) => s[(p + 1) + Len(v) + 1] = "SEMI"
    BY <2>9 DEF SidPlace
  <2>3. p \in Matches("sid", s) /\ \A j \in Matches("sid", s) : p <= j
    <3>1. p \in Nat
      BY <2>2
    <3> QED BY <1>1, <2>2, <3>1, FirstMatch, Zenon
  <2> DEFINE a == p + 1
  <2>4. a \in 0..Len(s) /\ p + 1 <= Len(s) /\ a + Len(v) <= Len(s)
    <3>1. Len(v) \in Nat
      BY <2>1
    <3> QED BY <1>1, <2>2, <3>1
  <2>6. WordAfter("sid", s) = Word(From(s, (p + 1) + 1))
    BY <1>1, <2>3, WordAfterIs
  <2>7. /\ \A j \in 1..Len(v) : s[a + j] = v[j]
        /\ a + Len(v) < Len(s) => s[a + Len(v) + 1] \notin Alnum
    BY <2>2, MarksApart
  <2> HIDE DEF a
  <2>8. Word(From(s, a + 1)) = v
    BY <1>1, <2>1, <2>4, <2>7, ValueRead
  <2> QED BY <2>6, <2>8 DEF a
<1> QED BY <1>3, <1>4

-----------------------------------------------------------------------------
(* Requests *)

LEMMA FormIs ==
  ASSUME FormsAreFilledIn, NEW f \in LoginForms
  PROVE  /\ f.text \in Seq(STRING) /\ f.login \in Seq(STRING) /\ f.password \in Seq(STRING)
         /\ \/ FilledIn(f.text, "login", f.login) /\ FilledIn(f.text, "password", f.password)
            \/ /\ \E field \in LoginFields : Fields(field, f.text) = {}
               /\ ~IsWord(f.login) \/ ~IsWord(f.password)
         /\ \A j \in FieldStarts(f.text) : f.text[j] # "="
         /\ \A j \in DOMAIN f.text : Decodes(f.text[j])
BY DEF FormsAreFilledIn, Decodes

LEMMA CookieIs ==
  ASSUME CookiesAreSent, NEW f \in Cookies
  PROVE  IsText(f.text) /\ CookieIsSound(f.text) /\ SidIs(f.text, f.sid)
BY DEF CookiesAreSent, IsText, CookieIsSound, SidIs

LEMMA SidRead ==
  ASSUME TextsAreSound, CookiesAreSent, NEW f \in Cookies, reader \in {"server", "cgi"},
         reader = "server" => ~Misled("sid", f.text, CookieStarts(f.text)),
         reader = "cgi" => NoQuotes(f.text)
  PROVE  SidIn(f.text) = f.sid
<1> DEFINE s == f.text
           v == f.sid
<1>1. IsText(s) /\ CookieIsSound(s) /\ SidIs(s, v)
  BY CookieIs
<1>5. /\ reader = "server" => ~Misled("sid", s, CookieStarts(s))
      /\ reader = "cgi" => NoQuotes(s)
  OBVIOUS
<1> HIDE DEF s, v
<1>2. reader = "cgi" => CGI_lookup(CGI_get_cookie(s), <<"sid">>) = v
  BY <1>1, <1>5, CgiReadsCookie
<1>3. reader = "server" => WordAfter("sid", s) = v
  BY <1>1, <1>5, ServerReadsCookie
<1>4. SidIn(s) = v
  BY <1>2, <1>3 DEF SidIn, ParseCookie
<1> QED BY <1>4 DEF s, v

\* What one of the programs takes for what was filled in: that, when these are
\* letters and digits, or else what no user has, or what it begins with.
LEMMA ServerTakes ==
  ASSUME TextsAreSound, FormsAreFilledIn, NEW f \in LoginForms, reader = "server",
         \A field \in LoginFields : ~Misled(field, f.text, FieldStarts(f.text))
  PROVE  \E l, p : /\ UserIn(f.text) = <<l, p>>
                   /\ IsWord(f.login) /\ IsWord(f.password) =>
                        l = f.login /\ p = f.password /\ NULL \notin {l, p}
                   /\ NULL \in {l, p} \/ (StartsWith(f.login, l) /\ StartsWith(f.password, p))
<1> DEFINE s == f.text
           v == f.login
           w == f.password
           l == WordAfter("login", s)
           p == WordAfter("password", s)
<1>1. /\ s \in Seq(STRING) /\ v \in Seq(STRING) /\ w \in Seq(STRING)
      /\ \/ FilledIn(s, "login", v) /\ FilledIn(s, "password", w)
         \/ /\ \E field \in LoginFields : Fields(field, s) = {}
            /\ ~IsWord(v) \/ ~IsWord(w)
      /\ \A field \in LoginFields : ~Misled(field, s, FieldStarts(s))
  BY FormIs
<1>2. "login" \in LoginFields /\ "password" \in LoginFields /\ NULL \notin Seq(STRING)
  BY DEF LoginFields, TextsAreSound
<1> HIDE DEF s, v, w
<1>3. UserIn(s) = <<l, p>>
  BY DEF UserIn, ParseLoginFromReq, ParsePasswordFromReq
<1> HIDE DEF l, p
<1>4. CASE FilledIn(s, "login", v) /\ FilledIn(s, "password", w)
  <2>1. l \in Seq(STRING) /\ StartsWith(v, l) /\ (IsWord(v) => l = v)
    BY <1>1, <1>2, <1>4, ServerReads DEF l
  <2>2. p \in Seq(STRING) /\ StartsWith(w, p) /\ (IsWord(w) => p = w)
    BY <1>1, <1>2, <1>4, ServerReads DEF p
  <2>3. NULL \notin {l, p}
    BY <1>2, <2>1, <2>2
  <2> QED BY <1>3, <2>1, <2>2, <2>3, Zenon DEF s, v, w
<1>5. CASE /\ \E field \in LoginFields : Fields(field, s) = {}
           /\ ~IsWord(v) \/ ~IsWord(w)
  <2>1. NULL \in {l, p}
    <3>1. PICK field \in LoginFields : Fields(field, s) = {}
      BY <1>5
    <3>2. WordAfter(field, s) = NULL
      BY <1>1, <3>1, ServerReadsNone
    <3> QED BY <3>2 DEF LoginFields, l, p
  <2> QED BY <1>3, <1>5, <2>1, Zenon DEF s, v, w
<1> QED BY <1>1, <1>4, <1>5

LEMMA CgiTakes ==
  ASSUME TextsAreSound, FormsAreFilledIn, NEW f \in LoginForms, reader = "cgi"
  PROVE  \E l, p : /\ UserIn(f.text) = <<l, p>>
                   /\ IsWord(f.login) /\ IsWord(f.password) =>
                        l = f.login /\ p = f.password /\ NULL \notin {l, p}
                   /\ ~(IsWord(f.login) /\ IsWord(f.password)) =>
                        \/ NULL \in {l, p}
                        \/ \A u \in Seq(STRING) : IsWord(u) => l # u
                        \/ \A u \in Seq(STRING) : IsWord(u) => p # u
<1> DEFINE s == f.text
           v == f.login
           w == f.password
           l == CGI_lookup(CGI_decode_query(s), <<"login">>)
           p == CGI_lookup(CGI_decode_query(s), <<"password">>)
<1>1. /\ s \in Seq(STRING) /\ v \in Seq(STRING) /\ w \in Seq(STRING)
      /\ \/ FilledIn(s, "login", v) /\ FilledIn(s, "password", w)
         \/ /\ \E field \in LoginFields : Fields(field, s) = {}
            /\ ~IsWord(v) \/ ~IsWord(w)
      /\ \A j \in FieldStarts(s) : s[j] # "="
      /\ \A j \in DOMAIN s : Decodes(s[j])
  BY FormIs
<1>2. "login" \in LoginFields /\ "password" \in LoginFields /\ NULL \notin Seq(STRING)
  BY DEF LoginFields, TextsAreSound
<1> HIDE DEF s, v, w
<1>3. UserIn(s) = <<l, p>>
  BY DEF UserIn
<1> HIDE DEF l, p
<1>4. CASE FilledIn(s, "login", v) /\ FilledIn(s, "password", w)
  <2>1. IF IsWord(v) THEN l = v ELSE \A u \in Seq(STRING) : IsWord(u) => l # u
    BY <1>1, <1>2, <1>4, CgiReadsWords DEF l
  <2>2. IF IsWord(w) THEN p = w ELSE \A u \in Seq(STRING) : IsWord(u) => p # u
    BY <1>1, <1>2, <1>4, CgiReadsWords DEF p
  <2>3. IsWord(v) /\ IsWord(w) => l = v /\ p = w /\ NULL \notin {l, p}
    BY <1>1, <1>2, <2>1, <2>2
  <2> QED BY <1>3, <2>1, <2>2, <2>3, Zenon DEF s, v, w
<1>5. CASE /\ \E field \in LoginFields : Fields(field, s) = {}
           /\ ~IsWord(v) \/ ~IsWord(w)
  <2>1. NULL \in {l, p}
    <3>1. PICK field \in LoginFields : Fields(field, s) = {}
      BY <1>5
    <3>2. CGI_lookup(CGI_decode_query(s), <<field>>) = NULL
      BY <1>1, <3>1, CgiReadsNone
    <3> QED BY <3>2 DEF LoginFields, l, p
  <2> QED BY <1>3, <1>5, <2>1, Zenon DEF s, v, w
<1> QED BY <1>1, <1>4, <1>5

-----------------------------------------------------------------------------
(* All steps *)

SignInInv == UsersInv /\ LoginAsListed /\ CookieAsSent

LEMMA MakeTokensKeeps ==
  ASSUME UsersInv, MakeTokens
  PROVE  UsersInv'
<1>1. /\ UNCHANGED <<users_file, read, users_list, reader>> /\ step = "tokens"
      /\ (step' = "open" /\ failing' = failing) \/ (step' = "failed" /\ failing' = TRUE)
  BY DEF MakeTokens
<1>2. read = 0 /\ users_list = <<>> /\ failing \in BOOLEAN
  BY <1>1 DEF UsersInv, SignInTypes
<1>3. SignInTypes'
  BY <1>1, <1>2, SameUsers
<1> QED BY <1>1, <1>2, <1>3 DEF UsersInv, UsersAsWritten

LEMMA OpenUsersKeeps ==
  ASSUME TextsAreSound, UsersInv, OpenUsers
  PROVE  UsersInv'
<1>1. /\ UNCHANGED <<users_file, read, users_list, reader, failing>> /\ step = "open"
      /\ step' = IF users_file = NULL THEN "ready" ELSE "line"
  BY DEF OpenUsers
<1>2. read = 0 /\ users_list = <<>> /\ failing \in BOOLEAN /\ users_file \in UsersFiles
  BY <1>1 DEF UsersInv, SignInTypes
<1>3. SignInTypes'
  BY <1>1, <1>2, SameUsers
<1>4. CASE users_file = NULL
  BY <1>1, <1>2, <1>3, <1>4 DEF UsersInv, UsersAsWritten
<1>5. CASE users_file # NULL
  <2>1. users_file \in Seq(STRING) /\ 0 \in 0..Len(users_file)
    <3>1. users_file \in Seq(STRING)
      BY <1>2, <1>5 DEF TextsAreSound
    <3> QED BY <3>1
  <2>2. 1..0 = {} /\ Len(<<>>) = 0
    OBVIOUS
  <2>3. AtLine(0) /\ WrittenUpTo(0)
    BY <2>2 DEF AtLine, WrittenUpTo
  <2>4. ListedUpTo(0)
    <3>1. LineFeeds(0) = {}
      BY <2>2 DEF LineFeeds
    <3>2. Cardinality(LineFeeds(0)) = 0
      BY <3>1, FS_EmptySet
    <3> QED BY <1>2, <2>2, <3>1, <3>2 DEF ListedUpTo
  <2>5. AtLine(0)' /\ WrittenUpTo(0)' /\ ListedUpTo(0)'
    BY <1>1, <2>3, <2>4, SameFile
  <2>6. BetweenLines'
    BY <1>1, <1>2, <2>1, <2>5 DEF BetweenLines
  <2> QED BY <1>1, <1>2, <1>3, <1>5, <2>6 DEF UsersInv, UsersAsWritten
<1> QED BY <1>4, <1>5

\* A request does not change what was read at the start.
LEMMA RequestKeeps ==
  ASSUME UsersInv, step = "ready", step' \in {"form", "cookie"},
         UNCHANGED <<users_file, read, users_list, reader>>, failing' \in BOOLEAN
  PROVE  UsersInv'
<1>1. SignInTypes'
  BY SameUsers
<1>2. users_file # NULL => WellWritten' /\ ListedUpTo(Len(users_file))'
  <2> SUFFICES ASSUME users_file # NULL PROVE WellWritten' /\ ListedUpTo(Len(users_file))'
    OBVIOUS
  <2>1. WellWritten /\ ListedUpTo(Len(users_file))
    BY DEF UsersInv, UsersAsWritten
  <2>2. ListedUpTo(Len(users_file))'
    BY <2>1 DEF ListedUpTo, LineFeeds, Written
  <2> QED BY <2>1, <2>2, SameFile
<1> QED BY <1>1, <1>2 DEF UsersInv, UsersAsWritten

LEMMA ProcessLoginKeeps ==
  ASSUME TextsAreSound, FormsAreFilledIn, UsersInv, ProcessLogin
  PROVE  UsersInv' /\ LoginAsListed' /\ CookieAsSent'
<1>0. CASE FormMisleads'
  <2>1. /\ step = "ready" /\ step' = "form" /\ failing' \in BOOLEAN
        /\ UNCHANGED <<users_file, read, users_list, reader>>
    BY DEF ProcessLogin
  <2>2. UsersInv'
    BY <2>1, RequestKeeps
  <2> QED BY <1>0, <2>1, <2>2 DEF LoginAsListed, CookieAsSent
<1> SUFFICES ASSUME ~FormMisleads' PROVE UsersInv' /\ LoginAsListed' /\ CookieAsSent'
  BY <1>0
<1> DEFINE f == sent'
           listed == Check(UserIn(f.text)) /\ NULL \notin {UserIn(f.text)[1], UserIn(f.text)[2]}
<1>1. /\ step = "ready" /\ step' = "form" /\ f \in LoginForms
      /\ UNCHANGED <<users_file, read, users_list, reader>>
      /\ failing' \in BOOLEAN
      /\ answer' = 400 <=> ~listed
  <2>1. IF listed THEN answer' \in {200, 500} ELSE answer' = 400
    BY DEF ProcessLogin
  <2> HIDE DEF listed
  <2>2. answer' = 400 <=> ~listed
    BY <2>1
  <2> QED BY <2>2 DEF ProcessLogin
<1>2. UsersInv'
  BY <1>1, RequestKeeps
<1>3. CookieAsSent'
  BY <1>1 DEF CookieAsSent
<1>4. /\ reader \in {"server", "cgi"}
      /\ users_file = NULL => users_list = <<>>
      /\ \A j \in DOMAIN users_list :
           /\ users_list[j][1] \in Seq(STRING) /\ IsWord(users_list[j][1])
           /\ users_list[j][2] \in Seq(STRING) /\ IsWord(users_list[j][2])
  <2>1. /\ reader \in {"server", "cgi"} /\ (users_file = NULL => users_list = <<>>)
        /\ UsersAreWords
    BY DEF UsersInv, SignInTypes
  <2>2. ASSUME NEW j \in DOMAIN users_list
        PROVE  users_list[j][1] \in Seq(STRING) /\ users_list[j][2] \in Seq(STRING)
    <3>1. users_list \in Seq(Seq(STRING) \X Seq(STRING))
      BY <2>1 DEF UsersAreWords
    <3> DEFINE P == Seq(STRING) \X Seq(STRING)
    <3>2. users_list \in Seq(P) /\ j \in 1..Len(users_list)
      BY <3>1
    <3> HIDE DEF P
    <3>3. users_list[j] \in P
      BY <3>2, ElementOfSeq
    <3> QED BY <3>3 DEF P
  <2> QED BY <2>1, <2>2 DEF UsersAreWords
<1> DEFINE given == IsWord(f.login) /\ IsWord(f.password)
<1>5. \E l, p :
        /\ UserIn(f.text) = <<l, p>>
        /\ given => l = f.login /\ p = f.password /\ NULL \notin {l, p}
        /\ ~given /\ reader = "server" =>
             NULL \in {l, p} \/ (StartsWith(f.login, l) /\ StartsWith(f.password, p))
        /\ ~given /\ reader = "cgi" =>
             \/ NULL \in {l, p}
             \/ \A u \in Seq(STRING) : IsWord(u) => l # u
             \/ \A u \in Seq(STRING) : IsWord(u) => p # u
  <2>1. CASE reader = "server"
    <3>2. reader # "cgi"
      <4> HIDE DEF f, given
      <4> QED BY <2>1
    <3>3. \A field \in LoginFields : ~Misled(field, f.text, FieldStarts(f.text))
      <4>1. reader' = "server"
        BY <1>1, <2>1
      <4> QED BY <4>1 DEF FormMisleads, Misled, FieldStarts, Matches
    <3>1. PICK l, p :
            /\ UserIn(f.text) = <<l, p>>
            /\ given => l = f.login /\ p = f.password /\ NULL \notin {l, p}
            /\ NULL \in {l, p} \/ (StartsWith(f.login, l) /\ StartsWith(f.password, p))
      BY <1>1, <2>1, <3>3, ServerTakes
    <3> HIDE DEF f, given
    <3> QED BY <3>1, <3>2, Zenon
  <2>2. CASE reader = "cgi"
    <3>2. reader # "server"
      <4> HIDE DEF f, given
      <4> QED BY <2>2
    <3>1. PICK l, p :
            /\ UserIn(f.text) = <<l, p>>
            /\ given => l = f.login /\ p = f.password /\ NULL \notin {l, p}
            /\ ~given =>
                 \/ NULL \in {l, p}
                 \/ \A u \in Seq(STRING) : IsWord(u) => l # u
                 \/ \A u \in Seq(STRING) : IsWord(u) => p # u
      BY <1>1, <2>2, CgiTakes
    <3> HIDE DEF f, given
    <3> QED BY <3>1, <3>2, Zenon
  <2> QED BY <1>4, <2>1, <2>2
<1>6. PICK l, p :
        /\ UserIn(f.text) = <<l, p>>
        /\ given => l = f.login /\ p = f.password /\ NULL \notin {l, p}
        /\ ~given /\ reader = "server" =>
             NULL \in {l, p} \/ (StartsWith(f.login, l) /\ StartsWith(f.password, p))
        /\ ~given /\ reader = "cgi" =>
             \/ NULL \in {l, p}
             \/ \A u \in Seq(STRING) : IsWord(u) => l # u
             \/ \A u \in Seq(STRING) : IsWord(u) => p # u
  BY <1>5
<1>7. listed <=> Check(<<l, p>>) /\ NULL \notin {l, p}
  BY <1>6
<1> HIDE DEF listed
<1>8. LoginAsListed'
  <2>1. ASSUME given
        PROVE  (answer = 400 <=> users_file = NULL \/ ~Check(<<sent.login, sent.password>>))'
    <3>1. answer' = 400 <=> ~Check(<<l, p>>)
      BY <1>1, <1>6, <1>7, <2>1
    <3>4. users_list' = users_list /\ <<sent'.login, sent'.password>> = <<l, p>>
      BY <1>1, <1>6, <2>1
    <3>2. Check(<<sent.login, sent.password>>)' <=> Check(<<l, p>>)
      <4>1. Check(<<sent.login, sent.password>>)' <=>
              \E j \in DOMAIN users_list' : users_list'[j] = <<sent'.login, sent'.password>>
        BY DEF Check
      <4>2. Check(<<l, p>>) <=> \E j \in DOMAIN users_list : users_list[j] = <<l, p>>
        BY DEF Check
      <4> QED BY <3>4, <4>1, <4>2
    <3>3. users_file' = NULL => ~Check(<<l, p>>)
      <4>1. DOMAIN <<>> = {}
        OBVIOUS
      <4> QED BY <1>1, <1>4, <4>1 DEF Check
    <3> QED BY <3>1, <3>2, <3>3
  <2>2. ASSUME ~given, answer' # 400
        PROVE  (/\ reader = "server"
                /\ \E j \in DOMAIN users_list :
                     /\ StartsWith(sent.login, users_list[j][1])
                     /\ StartsWith(sent.password, users_list[j][2]))'
    <3>1. Check(<<l, p>>) /\ NULL \notin {l, p}
      BY <1>1, <1>7, <2>2
    <3>2. PICK j \in DOMAIN users_list : users_list[j] = <<l, p>>
      BY <3>1 DEF Check
    <3>3. users_list[j][1] = l /\ users_list[j][2] = p
      BY <3>2
    <3>4. l \in Seq(STRING) /\ IsWord(l) /\ p \in Seq(STRING) /\ IsWord(p)
      BY <1>4, <3>3
    <3>5. reader # "cgi"
      BY <1>6, <2>2, <3>1, <3>4
    <3>6. StartsWith(f.login, l) /\ StartsWith(f.password, p)
      BY <1>4, <1>6, <2>2, <3>1, <3>5
    <3>7. StartsWith(sent'.login, users_list[j][1]) /\ StartsWith(sent'.password, users_list[j][2])
      BY <3>3, <3>6
    <3> QED BY <1>1, <1>4, <3>5, <3>7 DEF StartsWith
  <2>3. given <=> (IsWord(sent.login) /\ IsWord(sent.password))'
    BY DEF IsWord
  <2> HIDE DEF given, f
  <2> QED BY <2>1, <2>2, <2>3 DEF LoginAsListed
<1> QED BY <1>2, <1>3, <1>8

LEMMA ReadCookieKeeps ==
  ASSUME TextsAreSound, CookiesAreSent, UsersInv, ReadCookie
  PROVE  UsersInv' /\ LoginAsListed' /\ CookieAsSent'
<1>1. /\ step = "ready" /\ step' = "cookie" /\ sent' \in Cookies
      /\ UNCHANGED <<users_file, read, users_list, reader, failing>>
      /\ session' = SidIn(sent'.text)
  BY DEF ReadCookie
<1>2. failing' \in BOOLEAN
  BY <1>1 DEF UsersInv, SignInTypes
<1>3. UsersInv'
  BY <1>1, <1>2, RequestKeeps
<1>4. ~CookieMisleads' => SidIn(sent'.text) = sent'.sid
  <2> SUFFICES ASSUME ~CookieMisleads' PROVE SidIn(sent'.text) = sent'.sid
    OBVIOUS
  <2>1. reader \in {"server", "cgi"} /\ reader' = reader
    BY <1>1 DEF UsersInv, SignInTypes
  <2>2. reader = "server" => ~Misled("sid", sent'.text, CookieStarts(sent'.text))
    BY <2>1 DEF CookieMisleads, Misled, CookieStarts, Matches
  <2>3. reader = "cgi" => NoQuotes(sent'.text)
    BY <2>1 DEF CookieMisleads, NoQuotes
  <2> QED BY <1>1, <2>1, <2>2, <2>3, SidRead
<1>5. CookieAsSent'
  BY <1>1, <1>4 DEF CookieAsSent
<1>6. LoginAsListed'
  BY <1>1 DEF LoginAsListed
<1> QED BY <1>3, <1>5, <1>6

LEMMA StartUpIsNoRequest ==
  ASSUME StartUp
  PROVE  LoginAsListed' /\ CookieAsSent'
<1>1. step' \notin {"form", "cookie"}
  BY DEF StartUp, MakeTokens, OpenUsers, CheckEof, ParseLogin, ParsePassword
<1> QED BY <1>1 DEF LoginAsListed, CookieAsSent

\* Nothing happens.
LEMMA SignInStutters ==
  ASSUME SignInInv, UNCHANGED sign_in_vars
  PROVE  SignInInv'
<1>1. UNCHANGED <<users_file, step, read, login, users_list, reader, sent, answer, session, failing>>
  BY DEF sign_in_vars
<1>2. SignInTypes' /\ (UsersInv => UsersInv')
  <2>1. UsersInv /\ failing \in BOOLEAN
    BY DEF SignInInv, UsersInv, SignInTypes
  <2>2. SignInTypes'
    BY <1>1, <2>1, SameUsers
  <2>3. AtLine(read)' <=> AtLine(read)
    BY <1>1 DEF AtLine
  <2>4. WrittenUpTo(read)' <=> WrittenUpTo(read)
    BY <1>1 DEF WrittenUpTo, BehindBlank
  <2>5. ListedUpTo(read)' <=> ListedUpTo(read)
    BY <1>1 DEF ListedUpTo, LineFeeds, Written
  <2>6. BetweenLines' <=> BetweenLines
    BY <1>1, <2>3, <2>4, <2>5 DEF BetweenLines
  <2>7. BehindLogin' <=> BehindLogin
    <3>1. \A n : AtLine(n)' <=> AtLine(n)
      BY <1>1 DEF AtLine
    <3>2. \A n : ListedUpTo(n)' <=> ListedUpTo(n)
      BY <1>1 DEF ListedUpTo, LineFeeds, Written
    <3>3. IsWord(login)' <=> IsWord(login)
      BY <1>1 DEF IsWord
    <3> QED BY <1>1, <2>4, <3>1, <3>2, <3>3 DEF BehindLogin
  <2>8. UsersAsWritten' <=> UsersAsWritten
    BY <1>1 DEF UsersAsWritten, WellWritten, BehindBlank, ListedUpTo, LineFeeds, Written, HasLongWord
  <2> QED BY <1>1, <2>1, <2>2, <2>6, <2>7, <2>8 DEF UsersInv
<1>5. (FormMisleads' <=> FormMisleads) /\ (CookieMisleads' <=> CookieMisleads)
  BY <1>1 DEF FormMisleads, CookieMisleads, Misled, Matches, FieldStarts, CookieStarts
<1>3. LoginAsListed' <=> LoginAsListed
  BY <1>1, <1>5 DEF LoginAsListed, IsWord, Check, StartsWith
<1>4. CookieAsSent' <=> CookieAsSent
  BY <1>1, <1>5 DEF CookieAsSent
<1> QED BY <1>2, <1>3, <1>4 DEF SignInInv

LEMMA SignInStarts == SignInInit => SignInInv
<1> SUFFICES ASSUME SignInInit PROVE SignInInv
  OBVIOUS
<1>1. /\ users_file \in UsersFiles /\ reader \in {"server", "cgi"}
      /\ step = "tokens" /\ read = 0 /\ users_list = <<>> /\ failing = FALSE
  BY DEF SignInInit, SignInStart
<1>2. UsersAreWords
  <2>1. DOMAIN <<>> = {}
    OBVIOUS
  <2>2. <<>> \in Seq(Seq(STRING) \X Seq(STRING))
    BY EmptySeq
  <2> QED BY <1>1, <2>1, <2>2 DEF UsersAreWords
<1>3. UsersInv
  BY <1>1, <1>2 DEF UsersInv, SignInTypes, UsersAsWritten
<1> QED BY <1>1, <1>3 DEF SignInInv, LoginAsListed, CookieAsSent

\* Those sign in whom the users file names: Auth::Init takes every file as it
\* was written, or refuses it, unless a word in it is too long for its buffer;
\* and both programs find in every form and in every cookie what was filled in
\* and sent, unless what stands beside it misleads them.
THEOREM SignsInAsListed == SignInSpec => []SignInAsListed
<1>1. TextsAreSound /\ FormsAreFilledIn /\ CookiesAreSent /\ BufLen \in Nat
  BY SignInAssumption
<1>2. SignInInit => SignInInv
  BY SignInStarts
<1>3. SignInInv /\ [SignInNext]_sign_in_vars => SignInInv'
  <2> SUFFICES ASSUME SignInInv, [SignInNext]_sign_in_vars PROVE SignInInv'
    OBVIOUS
  <2>1. UsersInv
    BY DEF SignInInv
  <2>2. CASE MakeTokens
    BY <2>1, <2>2, MakeTokensKeeps, StartUpIsNoRequest DEF StartUp, SignInInv
  <2>3. CASE OpenUsers
    BY <1>1, <2>1, <2>3, OpenUsersKeeps, StartUpIsNoRequest DEF StartUp, SignInInv
  <2>4. CASE CheckEof
    BY <1>1, <2>1, <2>4, CheckEofKeeps, StartUpIsNoRequest DEF StartUp, SignInInv
  <2>5. CASE ParseLogin
    BY <1>1, <2>1, <2>5, ParseLoginKeeps, StartUpIsNoRequest DEF StartUp, SignInInv
  <2>6. CASE ParsePassword
    BY <1>1, <2>1, <2>6, ParsePasswordKeeps, StartUpIsNoRequest DEF StartUp, SignInInv
  <2>7. CASE ProcessLogin
    BY <1>1, <2>1, <2>7, ProcessLoginKeeps DEF SignInInv
  <2>8. CASE ReadCookie
    BY <1>1, <2>1, <2>8, ReadCookieKeeps DEF SignInInv
  <2>9. CASE UNCHANGED sign_in_vars
    BY <2>9, SignInStutters
  <2> QED BY <2>2, <2>3, <2>4, <2>5, <2>6, <2>7, <2>8, <2>9 DEF SignInNext, StartUp
<1>4. SignInInv => SignInAsListed
  BY DEF SignInInv, UsersInv, SignInAsListed
<1> QED BY <1>2, <1>3, <1>4, PTL DEF SignInSpec

-----------------------------------------------------------------------------
(* The form of the page *)

\* The provers do not know that these are strings.
Char == STRING \cup {"CR", "LF", "-"}

\* The text w stands in s behind the place p, as far as s goes.
StandsAt(s, p, w) == \A j \in 1..Len(w) : p + j <= Len(s) => s[p + j] = w[j]

FileOf(r) == IF r.sent.file = NULL THEN <<>> ELSE r.sent.file

LineBreak == <<"CR", "LF">>

LastLine == <<"-", "-", "CR", "LF">>

\* The form up to the end of each of its pieces: the first line, the two
\* lines of the head, the blank line, the archive, the delimiter, the line
\* behind it, the head of the title, the blank line, the title, the delimiter
\* and the last line.
E1(r) == <<"-", "-">> \o r.boundary \o LineBreak
E2(r) == E1(r) \o r.sent.heads[1]
E3(r) == E2(r) \o r.sent.heads[2]
E4(r) == E3(r) \o LineBreak
E5(r) == E4(r) \o FileOf(r)
E6(r) == E5(r) \o Delimit(r.boundary)
E7(r) == E6(r) \o LineBreak
E8(r) == E7(r) \o r.sent.heads[3]
E9(r) == E8(r) \o LineBreak
E10(r) == E9(r) \o r.sent.title
E11(r) == E10(r) \o Delimit(r.boundary)
E12(r) == E11(r) \o LastLine

P1(r) == Len(E1(r))
P2(r) == Len(E2(r))
P3(r) == Len(E3(r))
P4(r) == Len(E4(r))
P5(r) == Len(E5(r))
P6(r) == Len(E6(r))
P7(r) == Len(E7(r))
P8(r) == Len(E8(r))
P9(r) == Len(E9(r))
P10(r) == Len(E10(r))
P11(r) == Len(E11(r))
P12(r) == Len(E12(r))

LEMMA CharsOf ==
  ASSUME NEW s \in Seq(STRING)
  PROVE  s \in Seq(Char) /\ Len(s) \in Nat /\ DOMAIN s = 1..Len(s)
<1>1. Len(s) \in Nat /\ DOMAIN s = 1..Len(s) /\ \A k \in 1..Len(s) : s[k] \in Char
  BY DEF Char
<1> QED BY <1>1

LEMMA ShortPieces ==
  /\ <<"-", "-">> \in Seq(Char) /\ Len(<<"-", "-">>) = 2
  /\ LineBreak \in Seq(Char) /\ Len(LineBreak) = 2
  /\ <<"CR", "LF", "-", "-">> \in Seq(Char) /\ Len(<<"CR", "LF", "-", "-">>) = 4
  /\ LastLine \in Seq(Char) /\ Len(LastLine) = 4
<1>1. "CR" \in Char /\ "LF" \in Char /\ "-" \in Char
  BY DEF Char
<1> QED BY <1>1 DEF LineBreak, LastLine

LEMMA Joined ==
  ASSUME NEW u \in Seq(Char), NEW w \in Seq(Char)
  PROVE  /\ u \o w \in Seq(Char)
         /\ Len(u \o w) = Len(u) + Len(w) /\ Len(u) \in Nat /\ Len(w) \in Nat
         /\ Len(u \o w) \in Nat
BY ConcatProperties, LenProperties

LEMMA StandsJoined ==
  ASSUME NEW s, NEW p \in Nat, NEW u \in Seq(Char), NEW w \in Seq(Char), Len(s) \in Nat,
         StandsAt(s, p, u \o w)
  PROVE  StandsAt(s, p, u) /\ StandsAt(s, p + Len(u), w)
<1> DEFINE v == u \o w
<1>1. /\ Len(v) = Len(u) + Len(w) /\ Len(u) \in Nat /\ Len(w) \in Nat
      /\ \A k \in 1..(Len(u) + Len(w)) : v[k] = IF k <= Len(u) THEN u[k] ELSE w[k - Len(u)]
  BY ConcatProperties, LenProperties
<1>2. \A j \in 1..Len(v) : p + j <= Len(s) => s[p + j] = v[j]
  BY DEF StandsAt
<1> HIDE DEF v
<1>3. ASSUME NEW j \in 1..Len(u), p + j <= Len(s) PROVE s[p + j] = u[j]
  <2>1. j \in 1..Len(v) /\ j \in 1..(Len(u) + Len(w)) /\ j <= Len(u)
    BY <1>1
  <2> QED BY <1>1, <1>2, <1>3, <2>1
<1>4. ASSUME NEW j \in 1..Len(w), (p + Len(u)) + j <= Len(s) PROVE s[(p + Len(u)) + j] = w[j]
  <2> DEFINE k == Len(u) + j
  <2>1. /\ k \in 1..Len(v) /\ k \in 1..(Len(u) + Len(w)) /\ ~(k <= Len(u)) /\ k - Len(u) = j
        /\ p + k = (p + Len(u)) + j /\ p + k <= Len(s)
    BY <1>1, <1>4
  <2> HIDE DEF k
  <2>2. s[p + k] = v[k] /\ v[k] = w[k - Len(u)]
    BY <1>1, <1>2, <2>1
  <2> QED BY <2>1, <2>2
<1> QED BY <1>3, <1>4 DEF StandsAt

LEMMA PieceStands ==
  ASSUME NEW s, Len(s) \in Nat, NEW e \in Seq(Char), NEW u \in Seq(Char), StandsAt(s, 0, e \o u)
  PROVE  StandsAt(s, 0, e) /\ StandsAt(s, Len(e), u)
<1> DEFINE z == 0
<1>1. z \in Nat /\ Len(e) \in Nat /\ z + Len(e) = Len(e)
  OBVIOUS
<1>2. StandsAt(s, z, e \o u)
  OBVIOUS
<1> HIDE DEF z
<1>3. StandsAt(s, z, e) /\ StandsAt(s, z + Len(e), u)
  BY <1>1, <1>2, StandsJoined
<1> QED BY <1>1, <1>3 DEF z

\* How long the pieces are.
Places(r) ==
  LET d == Len(Delimit(r.boundary))
      h == r.sent.heads
  IN  /\ Len(r.boundary) \in Nat /\ d = Len(r.boundary) + 4
      /\ Len(h[1]) \in Nat /\ Len(h[2]) \in Nat /\ Len(h[3]) \in Nat
      /\ Len(FileOf(r)) \in Nat /\ Len(r.sent.title) \in Nat
      /\ P1(r) = Len(r.boundary) + 4
      /\ P2(r) = P1(r) + Len(h[1])
      /\ P3(r) = P2(r) + Len(h[2])
      /\ P4(r) = P3(r) + 2
      /\ P5(r) = P4(r) + Len(FileOf(r))
      /\ P6(r) = P5(r) + d
      /\ P7(r) = P6(r) + 2
      /\ P8(r) = P7(r) + Len(h[3])
      /\ P9(r) = P8(r) + 2
      /\ P10(r) = P9(r) + Len(r.sent.title)
      /\ P11(r) = P10(r) + d
      /\ P12(r) = P11(r) + 4

\* What stands in the body, as far as it goes.
Pieces(r) ==
  LET s == r.body
      h == r.sent.heads
  IN  /\ StandsAt(s, 0, E1(r)) /\ StandsAt(s, P1(r), h[1]) /\ StandsAt(s, P2(r), h[2])
      /\ StandsAt(s, P3(r), LineBreak) /\ StandsAt(s, P4(r), FileOf(r))
      /\ StandsAt(s, P5(r), Delimit(r.boundary)) /\ StandsAt(s, P6(r), LineBreak)
      /\ StandsAt(s, P7(r), h[3]) /\ StandsAt(s, P8(r), LineBreak)
      /\ StandsAt(s, P9(r), r.sent.title) /\ StandsAt(s, P10(r), Delimit(r.boundary))
      /\ StandsAt(s, P11(r), LastLine)

LEMMA PageStands ==
  ASSUME NEW r, IsPage(r), r.body \in Seq(STRING)
  PROVE  /\ Places(r) /\ Pieces(r)
         /\ r.body \in Seq(Char) /\ Len(r.body) \in Nat /\ Len(r.body) <= P12(r)
         /\ r.sent.whole => Len(r.body) = P12(r)
         /\ FileOf(r) \in Seq(Char) /\ r.sent.title \in Seq(Char) /\ r.boundary \in Seq(Char)
         /\ Delimit(r.boundary) \in Seq(Char)
<1> DEFINE h == r.sent.heads
           d == Delimit(r.boundary)
           s == r.body
<1>1. /\ r.boundary \in Seq(Char) /\ Len(r.boundary) \in Nat
      /\ r.sent.title \in Seq(Char) /\ h[1] \in Seq(Char) /\ h[2] \in Seq(Char) /\ h[3] \in Seq(Char)
  <2>1. /\ r.boundary \in Seq(STRING) /\ r.sent.title \in Seq(STRING)
        /\ h[1] \in Seq(STRING) /\ h[2] \in Seq(STRING) /\ h[3] \in Seq(STRING)
    <3>1. 1 \in 1..3 /\ 2 \in 1..3 /\ 3 \in 1..3
      OBVIOUS
    <3> QED BY <3>1, Zenon DEF IsPage, IsLine
  <2> QED BY <2>1, CharsOf
<1>2. FileOf(r) \in Seq(Char)
  <2>1. CASE r.sent.file = NULL
    <3>1. FileOf(r) = <<>>
      BY <2>1 DEF FileOf
    <3> QED BY <3>1, EmptySeq
  <2>2. CASE r.sent.file # NULL
    <3>1. FileOf(r) = r.sent.file /\ r.sent.file \in Seq(STRING)
      BY <2>2, Zenon DEF FileOf, IsPage
    <3> QED BY <3>1, CharsOf
  <2> QED BY <2>1, <2>2
<1>3. d \in Seq(Char) /\ Len(d) = Len(r.boundary) + 4
  <2> DEFINE f == <<"CR", "LF", "-", "-">>
  <2>1. f \in Seq(Char) /\ Len(f) = 4
    BY ShortPieces
  <2> HIDE DEF f
  <2>2. f \o r.boundary \in Seq(Char) /\ Len(f \o r.boundary) = Len(f) + Len(r.boundary)
    BY <1>1, <2>1, Joined
  <2>3. d = f \o r.boundary
    BY DEF f, Delimit
  <2> HIDE DEF d
  <2> QED BY <1>1, <2>1, <2>2, <2>3
<1>4. E1(r) \in Seq(Char) /\ P1(r) = Len(r.boundary) + 4
  <2> DEFINE f == <<"-", "-">>
  <2>1. f \in Seq(Char) /\ Len(f) = 2 /\ LineBreak \in Seq(Char) /\ Len(LineBreak) = 2
    BY ShortPieces
  <2> HIDE DEF f
  <2>2. f \o r.boundary \in Seq(Char) /\ Len(f \o r.boundary) = Len(f) + Len(r.boundary)
    BY <1>1, <2>1, Joined
  <2>3. /\ (f \o r.boundary) \o LineBreak \in Seq(Char)
        /\ Len((f \o r.boundary) \o LineBreak) = Len(f \o r.boundary) + Len(LineBreak)
    BY <2>1, <2>2, Joined
  <2>4. E1(r) = (f \o r.boundary) \o LineBreak
    BY DEF E1, f
  <2> QED BY <1>1, <2>1, <2>2, <2>3, <2>4 DEF P1
<1> HIDE DEF h, d, s
<1>5. LineBreak \in Seq(Char) /\ Len(LineBreak) = 2 /\ LastLine \in Seq(Char) /\ Len(LastLine) = 4
  BY ShortPieces
<1>6. /\ E2(r) \in Seq(Char) /\ P2(r) = P1(r) + Len(h[1])
      /\ E3(r) \in Seq(Char) /\ P3(r) = P2(r) + Len(h[2])
      /\ E4(r) \in Seq(Char) /\ P4(r) = P3(r) + Len(LineBreak)
      /\ E5(r) \in Seq(Char) /\ P5(r) = P4(r) + Len(FileOf(r))
      /\ E6(r) \in Seq(Char) /\ P6(r) = P5(r) + Len(d)
      /\ E7(r) \in Seq(Char) /\ P7(r) = P6(r) + Len(LineBreak)
      /\ E8(r) \in Seq(Char) /\ P8(r) = P7(r) + Len(h[3])
      /\ E9(r) \in Seq(Char) /\ P9(r) = P8(r) + Len(LineBreak)
      /\ E10(r) \in Seq(Char) /\ P10(r) = P9(r) + Len(r.sent.title)
      /\ E11(r) \in Seq(Char) /\ P11(r) = P10(r) + Len(d)
      /\ E12(r) \in Seq(Char) /\ P12(r) = P11(r) + Len(LastLine)
  <2>1. E2(r) \in Seq(Char) /\ P2(r) = P1(r) + Len(h[1])
    BY <1>1, <1>4, Joined DEF P1, P2, E2, h
  <2>2. E3(r) \in Seq(Char) /\ P3(r) = P2(r) + Len(h[2])
    BY <1>1, <2>1, Joined DEF P2, P3, E3, h
  <2>3. E4(r) \in Seq(Char) /\ P4(r) = P3(r) + Len(LineBreak)
    BY <1>5, <2>2, Joined DEF P3, P4, E4
  <2>4. E5(r) \in Seq(Char) /\ P5(r) = P4(r) + Len(FileOf(r))
    BY <1>2, <2>3, Joined DEF P4, P5, E5
  <2>5. E6(r) \in Seq(Char) /\ P6(r) = P5(r) + Len(d)
    BY <1>3, <2>4, Joined DEF P5, P6, E6, d
  <2>6. E7(r) \in Seq(Char) /\ P7(r) = P6(r) + Len(LineBreak)
    BY <1>5, <2>5, Joined DEF P6, P7, E7
  <2>7. E8(r) \in Seq(Char) /\ P8(r) = P7(r) + Len(h[3])
    BY <1>1, <2>6, Joined DEF P7, P8, E8, h
  <2>8. E9(r) \in Seq(Char) /\ P9(r) = P8(r) + Len(LineBreak)
    BY <1>5, <2>7, Joined DEF P8, P9, E9
  <2>9. E10(r) \in Seq(Char) /\ P10(r) = P9(r) + Len(r.sent.title)
    BY <1>1, <2>8, Joined DEF P9, P10, E10
  <2>10. E11(r) \in Seq(Char) /\ P11(r) = P10(r) + Len(d)
    BY <1>3, <2>9, Joined DEF P10, P11, E11, d
  <2>11. E12(r) \in Seq(Char) /\ P12(r) = P11(r) + Len(LastLine)
    BY <1>5, <2>10, Joined DEF P11, P12, E12
  <2> QED BY <2>1, <2>2, <2>3, <2>4, <2>5, <2>6, <2>7, <2>8, <2>9, <2>10, <2>11
<1>7. Page(r) = E12(r)
  BY DEF Page, E1, E2, E3, E4, E5, E6, E7, E8, E9, E10, E11, E12, FileOf, LineBreak, LastLine
<1>8. s \in Seq(Char) /\ Len(s) \in Nat
  BY CharsOf DEF s
<1>9. /\ Len(s) <= P12(r) /\ (r.sent.whole => Len(s) = P12(r))
      /\ StandsAt(s, 0, E12(r))
  <2>1. E12(r) \in Seq(Char) /\ Len(E12(r)) = P12(r) /\ P12(r) \in Nat
    BY <1>6, LenProperties DEF P12
  <2>2. CASE r.sent.whole
    <3>1. s = E12(r)
      BY <1>7, <2>2 DEF IsPage, s
    <3>2. StandsAt(s, 0, s)
      BY <1>8 DEF StandsAt
    <3> QED BY <2>1, <3>1, <3>2
  <2>3. CASE ~r.sent.whole
    <3>1. PICK n \in 0..P12(r) : s = SubSeq(E12(r), 1, n)
      BY <1>7, <2>3 DEF IsPage, s, P12
    <3> DEFINE e == E12(r)
               m == 0
    <3>2. e \in Seq(Char) /\ m \in 0..Len(e) /\ n \in m..Len(e) /\ m + 1 = 1 /\ n - m = n
      BY <2>1
    <3> HIDE DEF e, m
    <3>3. /\ Len(SubSeq(e, m + 1, n)) = n - m
          /\ \A k \in 1..(n - m) : SubSeq(e, m + 1, n)[k] = e[m + k]
      BY <3>2, PieceOf
    <3>4. SubSeq(e, m + 1, n) = s
      BY <3>1, <3>2 DEF e
    <3>5. Len(s) = n /\ \A k \in 1..n : s[k] = e[k]
      <4>1. \A k \in 1..n : m + k = k
        BY DEF m
      <4> QED BY <3>2, <3>3, <3>4, <4>1
    <3>6. StandsAt(s, 0, e)
      <4>1. Len(e) \in Nat
        BY <3>2, LenProperties
      <4> QED BY <3>5, <4>1 DEF StandsAt
    <3> QED BY <2>1, <2>3, <3>5, <3>6 DEF e
  <2> QED BY <2>2, <2>3
<1>10. Places(r)
  <2>1. /\ Len(h[1]) \in Nat /\ Len(h[2]) \in Nat /\ Len(h[3]) \in Nat
        /\ Len(FileOf(r)) \in Nat /\ Len(r.sent.title) \in Nat
    BY <1>1, <1>2, LenProperties
  <2> QED BY <1>1, <1>3, <1>4, <1>5, <1>6, <2>1 DEF Places, h, d
<1>11. Pieces(r)
  <2>1. StandsAt(s, 0, E11(r)) /\ StandsAt(s, P11(r), LastLine)
    BY <1>5, <1>6, <1>8, <1>9, PieceStands DEF E12, P11
  <2>2. StandsAt(s, 0, E10(r)) /\ StandsAt(s, P10(r), d)
    BY <1>3, <1>6, <1>8, <2>1, PieceStands DEF E11, P10, d
  <2>3. StandsAt(s, 0, E9(r)) /\ StandsAt(s, P9(r), r.sent.title)
    BY <1>1, <1>6, <1>8, <2>2, PieceStands DEF E10, P9
  <2>4. StandsAt(s, 0, E8(r)) /\ StandsAt(s, P8(r), LineBreak)
    BY <1>5, <1>6, <1>8, <2>3, PieceStands DEF E9, P8
  <2>5. StandsAt(s, 0, E7(r)) /\ StandsAt(s, P7(r), h[3])
    BY <1>1, <1>6, <1>8, <2>4, PieceStands DEF E8, P7, h
  <2>6. StandsAt(s, 0, E6(r)) /\ StandsAt(s, P6(r), LineBreak)
    BY <1>5, <1>6, <1>8, <2>5, PieceStands DEF E7, P6
  <2>7. StandsAt(s, 0, E5(r)) /\ StandsAt(s, P5(r), d)
    BY <1>3, <1>6, <1>8, <2>6, PieceStands DEF E6, P5, d
  <2>8. StandsAt(s, 0, E4(r)) /\ StandsAt(s, P4(r), FileOf(r))
    BY <1>2, <1>6, <1>8, <2>7, PieceStands DEF E5, P4
  <2>9. StandsAt(s, 0, E3(r)) /\ StandsAt(s, P3(r), LineBreak)
    BY <1>5, <1>6, <1>8, <2>8, PieceStands DEF E4, P3
  <2>10. StandsAt(s, 0, E2(r)) /\ StandsAt(s, P2(r), h[2])
    BY <1>1, <1>6, <1>8, <2>9, PieceStands DEF E3, P2, h
  <2>11. StandsAt(s, 0, E1(r)) /\ StandsAt(s, P1(r), h[1])
    BY <1>1, <1>4, <1>8, <2>10, PieceStands DEF E2, P1, h
  <2> QED BY <2>1, <2>2, <2>3, <2>4, <2>5, <2>6, <2>7, <2>8, <2>9, <2>10, <2>11 DEF Pieces, h, d, s
<1> QED BY <1>1, <1>2, <1>3, <1>8, <1>9, <1>10, <1>11 DEF s, d

-----------------------------------------------------------------------------
(* Its lines *)

OneLine(w) ==
  /\ w \in Seq(Char) /\ Len(w) >= 1
  /\ \A j \in 1..Len(w) : w[j] = "LF" <=> j = Len(w)

\* What readline() reads lies in the body.
LEMMA LineReads ==
  ASSUME req.body \in Seq(STRING), pos \in 0..Len(req.body)
  PROVE  /\ Len(Line) \in 0..(Len(req.body) - pos) /\ Len(req.body) \in Nat
         /\ pos = Len(req.body) => Line = <<>>
         /\ Len(Line) = 0 => pos = Len(req.body)
         /\ pos < Len(req.body) =>
              \E n \in (pos + 1)..Len(req.body) :
                /\ Line = SubSeq(req.body, pos + 1, n) /\ Len(Line) = n - pos
                /\ \A k \in 1..(n - pos) : Line[k] = req.body[pos + k]
                /\ \A k \in (pos + 1)..(n - 1) : req.body[k] # "LF"
                /\ req.body[n] = "LF" \/ n = Len(req.body)
<1> DEFINE s == req.body
           ends == {j \in (pos + 1)..Len(s) : s[j] = "LF"}
           n == IF ends = {} THEN Len(s) ELSE CHOOSE j \in ends : \A m \in ends : j <= m
<1>1. Line = SubSeq(s, pos + 1, n)
  BY DEF Line
<1>2. Len(s) \in Nat /\ s \in Seq(STRING)
  OBVIOUS
<1>3. CASE pos = Len(s)
  <2>1. ends = {} /\ n = Len(s)
    BY <1>2, <1>3
  <2> DEFINE m == pos
  <2>2. m \in 0..Len(s) /\ n \in m..Len(s) /\ n - m = 0
    BY <1>2, <1>3, <2>1
  <2> HIDE DEF s, n, m
  <2>3. SubSeq(s, m + 1, n) \in Seq(STRING) /\ Len(SubSeq(s, m + 1, n)) = n - m
    BY <1>2, <2>2, PieceOf
  <2>4. Line = <<>> /\ Len(Line) = 0
    BY <1>1, <2>2, <2>3, EmptySeq DEF m
  <2>5. /\ Len(Line) \in 0..(Len(s) - pos) /\ Len(s) \in Nat /\ ~(pos < Len(s))
        /\ Line = <<>> /\ pos = Len(s)
    BY <1>2, <1>3, <2>4
  <2> QED BY <2>5 DEF s
<1>4. CASE pos < Len(s)
  <2>1. /\ n \in (pos + 1)..Len(s)
        /\ \A k \in (pos + 1)..(n - 1) : s[k] # "LF"
        /\ s[n] = "LF" \/ n = Len(s)
    <3>1. CASE ends = {}
      <4>1. n = Len(s) /\ \A k \in (pos + 1)..Len(s) : s[k] # "LF"
        BY <3>1
      <4> HIDE DEF n, s
      <4> QED BY <1>2, <1>4, <4>1
    <3>2. CASE ends # {}
      <4>1. ends \subseteq Nat
        BY <1>2
      <4>2. PICK q \in ends : \A m \in ends : q <= m
        <5> HIDE DEF ends
        <5> QED BY <3>2, <4>1, LeastNumber
      <4>3. n = q
        <5>1. (CHOOSE j \in ends : \A m \in ends : j <= m) = q
          <6> HIDE DEF ends
          <6> QED BY <4>1, <4>2, LeastIs
        <5> QED BY <3>2, <5>1
      <4>4. q \in (pos + 1)..Len(s) /\ s[q] = "LF"
        BY <4>2
      <4>5. \A k \in (pos + 1)..(q - 1) : s[k] # "LF"
        <5> SUFFICES ASSUME NEW k \in (pos + 1)..(q - 1), s[k] = "LF" PROVE FALSE
          OBVIOUS
        <5>1. k \in (pos + 1)..Len(s) /\ ~(q <= k)
          BY <1>2, <4>4
        <5> QED BY <4>2, <5>1
      <4> HIDE DEF n, s
      <4> QED BY <4>3, <4>4, <4>5
    <3> QED BY <3>1, <3>2
  <2> DEFINE m == pos
  <2>2. m \in 0..Len(s) /\ n \in m..Len(s)
    <3> HIDE DEF n
    <3> QED BY <1>2, <1>4, <2>1
  <2> HIDE DEF s, n, m
  <2>3. /\ Len(SubSeq(s, m + 1, n)) = n - m
        /\ \A k \in 1..(n - m) : SubSeq(s, m + 1, n)[k] = s[m + k]
    BY <1>2, <2>2, PieceOf
  <2>4. Len(Line) = n - pos /\ \A k \in 1..(n - pos) : Line[k] = s[pos + k]
    BY <1>1, <2>3 DEF m
  <2>5. n - pos \in 1..(Len(s) - pos)
    BY <1>2, <1>4, <2>1
  <2>6. Len(Line) \in 0..(Len(s) - pos) /\ Len(Line) # 0 /\ pos # Len(s)
    BY <1>2, <1>4, <2>4, <2>5
  <2> QED BY <1>1, <1>2, <1>4, <2>1, <2>4, <2>6 DEF s
<1> QED BY <1>2, <1>3, <1>4 DEF s

\* When a line of the form has arrived it is read, and otherwise its
\* beginning, which is the end of the input.
LEMMA LineStands ==
  ASSUME req.body \in Seq(STRING), pos \in 0..Len(req.body),
         NEW w, OneLine(w), StandsAt(req.body, pos, w)
  PROVE  /\ Len(w) \in Nat /\ Len(req.body) \in Nat /\ Len(Line) \in Nat
         /\ pos + Len(w) <= Len(req.body) => Line = w
         /\ pos + Len(w) > Len(req.body) =>
              /\ Len(Line) < Len(w) /\ pos + Len(Line) = Len(req.body)
              /\ \A k \in 1..Len(Line) : Line[k] # "LF"
<1> DEFINE s == req.body
<1>1. /\ Len(w) \in Nat /\ Len(w) >= 1 /\ w \in Seq(Char)
      /\ \A j \in 1..Len(w) : w[j] = "LF" <=> j = Len(w)
  BY LenProperties DEF OneLine
<1>2. /\ Len(Line) \in 0..(Len(s) - pos) /\ Len(s) \in Nat
      /\ pos = Len(s) => Line = <<>>
      /\ Len(Line) = 0 => pos = Len(s)
      /\ pos < Len(s) =>
              \E n \in (pos + 1)..Len(s) :
                /\ Line = SubSeq(s, pos + 1, n) /\ Len(Line) = n - pos
                /\ \A k \in 1..(n - pos) : Line[k] = s[pos + k]
                /\ \A k \in (pos + 1)..(n - 1) : s[k] # "LF"
                /\ s[n] = "LF" \/ n = Len(s)
  BY LineReads
<1>3. s \in Seq(STRING) /\ pos \in 0..Len(s)
  OBVIOUS
<1>4. \A j \in 1..Len(w) : pos + j <= Len(s) => s[pos + j] = w[j]
  BY DEF StandsAt
<1> HIDE DEF s
<1>5. CASE pos = Len(s)
  <2>1. Len(Line) = 0 /\ \A k \in 1..Len(Line) : FALSE
    BY <1>2, <1>5
  <2> QED BY <1>1, <1>2, <1>5, <2>1 DEF s
<1>6. CASE pos < Len(s)
  <2>1. PICK n \in (pos + 1)..Len(s) :
                /\ Line = SubSeq(s, pos + 1, n) /\ Len(Line) = n - pos
                /\ \A k \in 1..(n - pos) : Line[k] = s[pos + k]
                /\ \A k \in (pos + 1)..(n - 1) : s[k] # "LF"
                /\ s[n] = "LF" \/ n = Len(s)
    BY <1>2, <1>6
  <2>2. CASE pos + Len(w) <= Len(s)
    <3>1. pos + Len(w) \in (pos + 1)..Len(s) /\ s[pos + Len(w)] = "LF"
      <4>1. Len(w) \in 1..Len(w) /\ pos + Len(w) \in (pos + 1)..Len(s)
        BY <1>1, <1>2, <1>3, <2>2
      <4> QED BY <1>1, <1>4, <2>2, <4>1
    <3>2. n <= pos + Len(w)
      <4> SUFFICES ASSUME n > pos + Len(w) PROVE FALSE
        BY <1>1, <1>2, <1>3
      <4>1. pos + Len(w) \in (pos + 1)..(n - 1)
        BY <1>1, <1>2, <1>3
      <4> QED BY <2>1, <3>1, <4>1
    <3>3. n = pos + Len(w)
      <4>0. n \in Int /\ pos + Len(w) \in Int
        BY <1>1, <1>2, <1>3
      <4> SUFFICES ASSUME n < pos + Len(w) PROVE FALSE
        BY <3>2, <4>0
      <4> DEFINE j == n - pos
      <4>1. j \in 1..Len(w) /\ j # Len(w) /\ pos + j = n /\ pos + j <= Len(s)
        BY <1>1, <1>2, <1>3
      <4> HIDE DEF j
      <4>2. s[n] = w[j] /\ w[j] # "LF"
        BY <1>1, <1>4, <4>1
      <4>3. n = Len(s)
        BY <2>1, <4>2
      <4> QED BY <1>1, <1>2, <1>3, <2>2, <4>3
    <3>4. Len(Line) = Len(w) /\ \A k \in 1..Len(w) : Line[k] = w[k]
      <4>1. n - pos = Len(w)
        BY <1>1, <1>2, <1>3, <3>3
      <4>2. \A k \in 1..Len(w) : pos + k <= Len(s)
        BY <1>1, <1>2, <1>3, <2>2
      <4> QED BY <1>4, <2>1, <4>1, <4>2
    <3>5. Line \in Seq(STRING)
      <4> DEFINE m == pos
      <4>1. m \in 0..Len(s) /\ n \in m..Len(s)
        BY <1>2, <1>3
      <4> HIDE DEF m
      <4>2. SubSeq(s, m + 1, n) \in Seq(STRING)
        BY <1>3, <4>1, PieceOf
      <4> QED BY <2>1, <4>2 DEF m
    <3>6. Line = w
      <4>1. Line \in Seq(Char)
        BY <3>5, CharsOf
      <4> QED BY <1>1, <3>4, <4>1, SeqEqual
    <3>7. ~(pos + Len(w) > Len(s))
      BY <1>1, <1>2, <1>3, <2>2
    <3> QED BY <1>1, <1>2, <3>6, <3>7 DEF s
  <2>3. CASE pos + Len(w) > Len(s)
    <3>1. n = Len(s)
      <4> SUFFICES ASSUME n < Len(s) PROVE FALSE
        BY <1>1, <1>2, <1>3
      <4> DEFINE j == n - pos
      <4>1. j \in 1..Len(w) /\ j # Len(w) /\ pos + j = n /\ pos + j <= Len(s)
        BY <1>1, <1>2, <1>3, <2>3
      <4> HIDE DEF j
      <4>2. s[n] = w[j] /\ w[j] # "LF"
        BY <1>1, <1>4, <4>1
      <4> QED BY <1>2, <2>1, <4>2
    <3>2. Len(Line) = Len(s) - pos /\ Len(Line) < Len(w) /\ pos + Len(Line) = Len(s)
      <4>1. Len(Line) = Len(s) - pos
        BY <2>1, <3>1
      <4>2. Len(s) - pos < Len(w) /\ pos + (Len(s) - pos) = Len(s)
        BY <1>1, <1>2, <1>3, <2>3
      <4> QED BY <4>1, <4>2
    <3>3. ~(pos + Len(w) <= Len(s))
      BY <1>1, <1>2, <1>3, <2>3
    <3>4. ASSUME NEW k \in 1..Len(Line) PROVE Line[k] # "LF"
      <4>0. /\ n - pos = Len(Line) /\ pos + Len(Line) = Len(s) /\ Len(Line) < Len(w)
            /\ pos \in Int /\ Len(Line) \in Int /\ Len(w) \in Int
        BY <1>1, <1>2, <1>3, <2>1, <3>2
      <4>1. k \in 1..(n - pos) /\ k \in 1..Len(w) /\ k # Len(w) /\ pos + k <= Len(s)
        BY <4>0
      <4>2. Line[k] = s[pos + k] /\ s[pos + k] = w[k]
        BY <1>4, <2>1, <4>1
      <4> QED BY <1>1, <4>1, <4>2
    <3> QED BY <1>1, <1>2, <3>2, <3>3, <3>4 DEF s
  <2> QED BY <1>1, <1>2, <1>3, <2>2, <2>3
<1> QED BY <1>2, <1>3, <1>5, <1>6

\* The lines of the form are lines.
LEMMA PageLines ==
  ASSUME NEW r, IsPage(r)
  PROVE  /\ OneLine(E1(r)) /\ OneLine(LineBreak) /\ OneLine(LastLine)
         /\ \A n \in 1..3 : OneLine(r.sent.heads[n])
<1>1. OneLine(LineBreak) /\ OneLine(LastLine)
  <2>1. /\ LineBreak \in Seq(Char) /\ Len(LineBreak) = 2
        /\ LastLine \in Seq(Char) /\ Len(LastLine) = 4
    BY ShortPieces
  <2>2. OneLine(LineBreak)
    <3>1. LineBreak[1] # "LF" /\ LineBreak[2] = "LF"
      BY DEF LineBreak
    <3>2. \A j \in 1..2 : j = 1 \/ j = 2
      OBVIOUS
    <3> QED BY <2>1, <3>1, <3>2 DEF OneLine
  <2>3. OneLine(LastLine)
    <3>1. LastLine[1] # "LF" /\ LastLine[2] # "LF" /\ LastLine[3] # "LF" /\ LastLine[4] = "LF"
      BY DEF LastLine
    <3>2. \A j \in 1..4 : j = 1 \/ j = 2 \/ j = 3 \/ j = 4
      OBVIOUS
    <3> QED BY <2>1, <3>1, <3>2 DEF OneLine
  <2> QED BY <2>2, <2>3
<1>2. ASSUME NEW n \in 1..3 PROVE OneLine(r.sent.heads[n])
  <2> DEFINE w == r.sent.heads[n]
  <2>1. w \in Seq(STRING) /\ w # <<>> /\ \A j \in DOMAIN w : w[j] = "LF" <=> j = Len(w)
    BY Zenon DEF IsPage, IsLine
  <2> HIDE DEF w
  <2>2. w \in Seq(Char) /\ Len(w) \in Nat /\ DOMAIN w = 1..Len(w)
    BY <2>1, CharsOf
  <2>3. Len(w) # 0
    BY <2>1, EmptySeq
  <2> QED BY <2>1, <2>2, <2>3 DEF OneLine, w
<1>3. OneLine(E1(r))
  <2> DEFINE f == <<"-", "-">>
             b == r.boundary
             w == f \o b
             e == w \o LineBreak
  <2>1. /\ f \in Seq(Char) /\ Len(f) = 2 /\ f[1] # "LF" /\ f[2] # "LF"
        /\ LineBreak \in Seq(Char) /\ Len(LineBreak) = 2
        /\ LineBreak[1] # "LF" /\ LineBreak[2] = "LF"
    BY ShortPieces DEF LineBreak
  <2>2. b \in Seq(Char) /\ Len(b) \in Nat /\ \A j \in 1..Len(b) : b[j] # "LF"
    <3>1. b \in Seq(STRING) /\ \A j \in DOMAIN b : b[j] # "LF"
      BY DEF IsPage
    <3> HIDE DEF b
    <3> QED BY <3>1, CharsOf
  <2> HIDE DEF f, b
  <2>3. /\ w \in Seq(Char) /\ Len(w) = Len(b) + 2
        /\ \A k \in 1..(Len(f) + Len(b)) : w[k] = IF k <= Len(f) THEN f[k] ELSE b[k - Len(f)]
    <3>1. /\ w \in Seq(Char) /\ Len(w) = Len(f) + Len(b)
          /\ \A k \in 1..(Len(f) + Len(b)) : w[k] = IF k <= Len(f) THEN f[k] ELSE b[k - Len(f)]
      BY <2>1, <2>2, ConcatProperties
    <3> HIDE DEF w
    <3> QED BY <2>1, <2>2, <3>1
  <2>4. \A k \in 1..Len(w) : w[k] # "LF"
    <3> SUFFICES ASSUME NEW k \in 1..Len(w) PROVE w[k] # "LF"
      OBVIOUS
    <3> HIDE DEF w
    <3>1. CASE k <= 2
      <4>1. k = 1 \/ k = 2
        BY <2>2, <2>3, <3>1
      <4> QED BY <2>1, <2>2, <2>3, <3>1, <4>1
    <3>2. CASE ~(k <= 2)
      <4>1. k - 2 \in 1..Len(b) /\ k \in 1..(Len(f) + Len(b))
        BY <2>1, <2>2, <2>3, <3>2
      <4> QED BY <2>1, <2>2, <2>3, <3>2, <4>1
    <3> QED BY <3>1, <3>2
  <2> HIDE DEF w
  <2>5. /\ e \in Seq(Char) /\ Len(e) = Len(w) + 2 /\ Len(w) \in Nat
        /\ \A k \in 1..(Len(w) + Len(LineBreak)) :
             e[k] = IF k <= Len(w) THEN w[k] ELSE LineBreak[k - Len(w)]
    <3>1. /\ e \in Seq(Char) /\ Len(e) = Len(w) + Len(LineBreak)
          /\ \A k \in 1..(Len(w) + Len(LineBreak)) :
               e[k] = IF k <= Len(w) THEN w[k] ELSE LineBreak[k - Len(w)]
      BY <2>1, <2>3, ConcatProperties
    <3> HIDE DEF e
    <3> QED BY <2>1, <2>2, <2>3, <3>1
  <2> HIDE DEF e
  <2>6. ASSUME NEW k \in 1..Len(e) PROVE e[k] = "LF" <=> k = Len(e)
    <3>1. k \in 1..(Len(w) + Len(LineBreak))
      BY <2>1, <2>5
    <3>2. CASE k <= Len(w)
      <4>1. k \in 1..Len(w) /\ k # Len(e)
        BY <2>5, <3>2
      <4> QED BY <2>4, <2>5, <3>1, <3>2, <4>1
    <3>3. CASE k = Len(w) + 1
      <4>1. k - Len(w) = 1 /\ ~(k <= Len(w)) /\ k # Len(e)
        BY <2>5, <3>3
      <4> QED BY <2>1, <2>5, <3>1, <4>1
    <3>4. CASE k = Len(w) + 2
      <4>1. k - Len(w) = 2 /\ ~(k <= Len(w)) /\ k = Len(e)
        BY <2>5, <3>4
      <4> QED BY <2>1, <2>5, <3>1, <4>1
    <3>5. k <= Len(w) \/ k = Len(w) + 1 \/ k = Len(w) + 2
      BY <2>5
    <3> QED BY <3>2, <3>3, <3>4, <3>5
  <2>7. OneLine(e)
    BY <2>5, <2>6 DEF OneLine
  <2>8. E1(r) = e
    BY DEF E1, e, w, f, b
  <2> QED BY <2>7, <2>8
<1> QED BY <1>1, <1>2, <1>3

\* The first line is the delimiter without its line break.
LEMMA FirstLineIs ==
  ASSUME NEW r, IsPage(r)
  PROVE  E1(r) = SubSeq(Delimit(r.boundary), 3, Len(Delimit(r.boundary))) \o <<"CR", "LF">>
<1> DEFINE b == r.boundary
           f == <<"CR", "LF", "-", "-">>
           d == f \o b
           g == <<"-", "-">>
           w == g \o b
           m == 2
           n == Len(d)
           p == SubSeq(d, m + 1, n)
<1>1. b \in Seq(Char) /\ Len(b) \in Nat
  <2>1. b \in Seq(STRING)
    BY DEF IsPage
  <2> HIDE DEF b
  <2> QED BY <2>1, CharsOf
<1>2. /\ f \in Seq(Char) /\ Len(f) = 4 /\ f[3] = "-" /\ f[4] = "-"
      /\ g \in Seq(Char) /\ Len(g) = 2 /\ g[1] = "-" /\ g[2] = "-"
  BY ShortPieces
<1>3. d = Delimit(b)
  BY DEF Delimit
<1> HIDE DEF b, f, g
<1>4. /\ d \in Seq(Char) /\ Len(d) = Len(f) + Len(b)
      /\ \A k \in 1..(Len(f) + Len(b)) : d[k] = IF k <= Len(f) THEN f[k] ELSE b[k - Len(f)]
  BY <1>1, <1>2, ConcatProperties
<1>5. /\ w \in Seq(Char) /\ Len(w) = Len(g) + Len(b)
      /\ \A k \in 1..(Len(g) + Len(b)) : w[k] = IF k <= Len(g) THEN g[k] ELSE b[k - Len(g)]
  BY <1>1, <1>2, ConcatProperties
<1>6. m \in 0..Len(d) /\ n \in m..Len(d)
  BY <1>1, <1>2, <1>4
<1>c. m = 2 /\ m + 1 = 3 /\ n = Len(d)
  OBVIOUS
<1> HIDE DEF d, m, n, w
<1>7. p \in Seq(Char) /\ Len(p) = n - m /\ \A k \in 1..(n - m) : p[k] = d[m + k]
  BY <1>4, <1>6, PieceOf
<1>8. n - m = Len(b) + 2 /\ Len(p) = Len(w)
  BY <1>1, <1>2, <1>4, <1>5, <1>7, <1>c
<1> HIDE DEF p
<1>9. ASSUME NEW k \in 1..Len(p) PROVE p[k] = w[k]
  <2>1. k \in 1..(n - m) /\ m + k = 2 + k /\ 2 + k \in 1..(Len(f) + Len(b)) /\ k \in 1..(Len(g) + Len(b))
    BY <1>1, <1>2, <1>4, <1>5, <1>8, <1>c
  <2>2. CASE k <= 2
    <3>1. k = 1 \/ k = 2
      BY <1>1, <1>8, <2>1, <2>2
    <3>2. p[k] = d[2 + k] /\ d[2 + k] = "-" /\ w[k] = "-"
      BY <1>2, <1>4, <1>5, <1>7, <2>1, <3>1
    <3> QED BY <3>2
  <2>3. CASE ~(k <= 2)
    <3>1. ~(2 + k <= 4) /\ (2 + k) - 4 = k - 2
      BY <1>1, <1>8, <2>1, <2>3
    <3>2. p[k] = d[2 + k]
      BY <1>7, <2>1
    <3>3. d[2 + k] = b[k - 2]
      BY <1>2, <1>4, <2>1, <3>1
    <3>4. w[k] = b[k - 2]
      BY <1>2, <1>5, <2>1, <2>3
    <3> QED BY <3>2, <3>3, <3>4
  <2> QED BY <2>2, <2>3
<1>10. p = w
  BY <1>5, <1>7, <1>8, <1>9, SeqEqual
<1>11. w \o <<"CR", "LF">> = E1(r)
  BY DEF E1, LineBreak, w, g, b
<1> QED BY <1>3, <1>10, <1>11, <1>c DEF p, b

-----------------------------------------------------------------------------
(* Its data *)

\* Of a text from place p of s on, m characters of d have been read last; d
\* does not begin before them.
InData(s, d, p, n, m) ==
  /\ p \in Nat /\ m \in 0..Len(d) /\ n \in (p + m)..Len(s)
  /\ \A j \in 1..m : s[(n - m) + j] = d[j]
  /\ \A q \in p..(n - m - 1) : \E j \in 1..Len(d) : q + j <= n /\ s[q + j] # d[j]

\* A delimiter begins with a carriage return, and has no other.
IsDelimiter(d) ==
  /\ d \in Seq(Char) /\ Len(d) >= 4 /\ d[1] = "CR"
  /\ \A j \in 2..Len(d) : d[j] # "CR"

LEMMA DelimiterIs ==
  ASSUME NEW r, IsPage(r)
  PROVE  IsDelimiter(Delimit(r.boundary))
<1> DEFINE b == r.boundary
           f == <<"CR", "LF", "-", "-">>
           d == f \o b
<1>1. b \in Seq(Char) /\ Len(b) \in Nat /\ \A j \in 1..Len(b) : b[j] # "CR"
  <2>1. b \in Seq(STRING) /\ \A j \in DOMAIN b : b[j] # "CR"
    BY DEF IsPage
  <2> HIDE DEF b
  <2> QED BY <2>1, CharsOf
<1>2. f \in Seq(Char) /\ Len(f) = 4 /\ f[1] = "CR" /\ f[2] # "CR" /\ f[3] # "CR" /\ f[4] # "CR"
  BY ShortPieces
<1> HIDE DEF b, f
<1>3. /\ d \in Seq(Char) /\ Len(d) = Len(f) + Len(b)
      /\ \A k \in 1..(Len(f) + Len(b)) : d[k] = IF k <= Len(f) THEN f[k] ELSE b[k - Len(f)]
  BY <1>1, <1>2, ConcatProperties
<1>4. d = Delimit(r.boundary)
  BY DEF Delimit, f, b
<1> HIDE DEF d
<1>5. 1 \in 1..(Len(f) + Len(b)) /\ 1 <= Len(f) /\ Len(d) >= 4
  BY <1>1, <1>2, <1>3
<1>6. d[1] = "CR"
  BY <1>2, <1>3, <1>5
<1>7. ASSUME NEW j \in 2..Len(d) PROVE d[j] # "CR"
  <2>1. j \in 1..(Len(f) + Len(b))
    BY <1>1, <1>2, <1>3
  <2>2. CASE j <= 4
    <3>1. j = 2 \/ j = 3 \/ j = 4
      BY <1>1, <1>2, <1>3, <2>2
    <3>2. d[j] = f[j]
      BY <1>2, <1>3, <2>1, <2>2
    <3> QED BY <1>2, <3>1, <3>2
  <2>3. CASE ~(j <= 4)
    <3>1. d[j] = b[j - 4]
      BY <1>2, <1>3, <2>1, <2>3
    <3>2. j - 4 \in 1..Len(b)
      BY <1>1, <1>2, <1>3, <2>3
    <3> QED BY <1>1, <3>1, <3>2
  <2> QED BY <2>2, <2>3
<1> QED BY <1>3, <1>4, <1>5, <1>6, <1>7 DEF IsDelimiter

\* Nothing of it has been read yet.
LEMMA DataBegins ==
  ASSUME NEW s, NEW d, Len(d) \in Nat, Len(s) \in Nat, NEW p \in 0..Len(s)
  PROVE  InData(s, d, p, p, 0)
<1>1. p - 0 = p /\ (p - 0) - 1 = p - 1 /\ p \in Nat /\ 0 \in 0..Len(d) /\ p \in (p + 0)..Len(s)
  OBVIOUS
<1>2. \A q \in p..(p - 1) : FALSE
  OBVIOUS
<1>3. \A j \in 1..0 : FALSE
  OBVIOUS
<1> QED BY <1>1, <1>2, <1>3 DEF InData

\* A character that goes on with the delimiter.
LEMMA DataFits ==
  ASSUME NEW s, NEW d, NEW p, NEW n, NEW m, Len(s) \in Nat, Len(d) \in Nat,
         InData(s, d, p, n, m), n < Len(s), m < Len(d), s[n + 1] = d[m + 1]
  PROVE  InData(s, d, p, n + 1, m + 1)
<1>1. /\ p \in Nat /\ m \in 0..Len(d) /\ n \in (p + m)..Len(s)
      /\ \A j \in 1..m : s[(n - m) + j] = d[j]
      /\ \A q \in p..(n - m - 1) : \E j \in 1..Len(d) : q + j <= n /\ s[q + j] # d[j]
  BY DEF InData
<1>2. (n + 1) - (m + 1) = n - m /\ m + 1 \in 0..Len(d) /\ n + 1 \in (p + (m + 1))..Len(s)
  BY <1>1
<1>3. ASSUME NEW j \in 1..(m + 1) PROVE s[(n - m) + j] = d[j]
  <2>1. CASE j = m + 1
    <3>1. (n - m) + j = n + 1
      BY <1>1, <2>1
    <3> QED BY <2>1, <3>1
  <2>2. CASE j # m + 1
    <3>1. j \in 1..m
      BY <1>1, <2>2
    <3> QED BY <1>1, <3>1
  <2> QED BY <2>1, <2>2
<1>4. ASSUME NEW q \in p..(n - m - 1)
      PROVE  \E j \in 1..Len(d) : q + j <= n + 1 /\ s[q + j] # d[j]
  <2>1. PICK j \in 1..Len(d) : q + j <= n /\ s[q + j] # d[j]
    BY <1>1
  <2>2. q + j <= n + 1
    BY <1>1, <2>1
  <2> QED BY <2>1, <2>2
<1> QED BY <1>2, <1>3, <1>4, <1>1 DEF InData

\* One that does not: the delimiter begins at none of the characters read.
LEMMA DataParts ==
  ASSUME NEW s, NEW d, NEW p, NEW n, NEW m, Len(s) \in Nat, IsDelimiter(d), Len(d) \in Nat,
         InData(s, d, p, n, m), n < Len(s), m < Len(d), s[n + 1] # d[m + 1]
  PROVE  /\ \A q \in p..(n - 1) : \E j \in 1..Len(d) : q + j <= n + 1 /\ s[q + j] # d[j]
         /\ s[n + 1] = d[1] => InData(s, d, p, n + 1, 1)
         /\ s[n + 1] # d[1] => InData(s, d, p, n + 1, 0)
<1>1. /\ p \in Nat /\ m \in 0..Len(d) /\ n \in (p + m)..Len(s)
      /\ \A j \in 1..m : s[(n - m) + j] = d[j]
      /\ \A q \in p..(n - m - 1) : \E j \in 1..Len(d) : q + j <= n /\ s[q + j] # d[j]
  BY DEF InData
<1>2. Len(d) >= 4 /\ d[1] = "CR" /\ \A j \in 2..Len(d) : d[j] # "CR"
  BY DEF IsDelimiter
<1>3. ASSUME NEW q \in p..(n - 1)
      PROVE  \E j \in 1..Len(d) : q + j <= n + 1 /\ s[q + j] # d[j]
  <2>1. CASE q < n - m
    <3>1. q \in p..(n - m - 1)
      BY <1>1, <2>1
    <3>2. PICK j \in 1..Len(d) : q + j <= n /\ s[q + j] # d[j]
      BY <1>1, <3>1
    <3>3. q + j <= n + 1
      BY <1>1, <3>2
    <3> QED BY <3>2, <3>3
  <2>2. CASE q = n - m
    <3>1. m + 1 \in 1..Len(d) /\ q + (m + 1) = n + 1
      BY <1>1, <2>2
    <3>2. q + (m + 1) <= n + 1 /\ s[q + (m + 1)] # d[m + 1]
      BY <1>1, <3>1
    <3> QED BY <3>1, <3>2
  <2>3. CASE q > n - m
    <3> DEFINE k == q + 1 - (n - m)
    <3>1. k \in 2..m /\ k \in 1..m /\ k \in 2..Len(d) /\ (n - m) + k = q + 1 /\ q + 1 <= n + 1
          /\ 1 \in 1..Len(d)
      BY <1>1, <1>2, <2>3
    <3> HIDE DEF k
    <3>2. s[q + 1] = d[k] /\ d[k] # d[1]
      <4>1. s[q + 1] = d[k]
        BY <1>1, <3>1
      <4> QED BY <1>2, <3>1, <4>1
    <3> QED BY <3>1, <3>2
  <2>4. q < n - m \/ q = n - m \/ q > n - m
    <3>1. q \in Int /\ n \in Int /\ m \in Int
      BY <1>1
    <3> QED BY <3>1
  <2> QED BY <2>1, <2>2, <2>3, <2>4, Zenon
<1>4. ASSUME s[n + 1] = d[1] PROVE InData(s, d, p, n + 1, 1)
  <2>1. (n + 1) - 1 = n /\ 1 \in 0..Len(d) /\ n + 1 \in (p + 1)..Len(s)
    BY <1>1, <1>2
  <2>2. ASSUME NEW j \in 1..1 PROVE s[n + j] = d[j]
    <3>1. j = 1
      OBVIOUS
    <3> QED BY <1>4, <3>1
  <2> QED BY <1>1, <1>3, <2>1, <2>2 DEF InData
<1>5. ASSUME s[n + 1] # d[1] PROVE InData(s, d, p, n + 1, 0)
  <2>1. /\ (n + 1) - 0 = n + 1 /\ (n + 1) - 1 = n /\ 0 \in 0..Len(d)
        /\ n + 1 \in (p + 0)..Len(s)
    BY <1>1, <1>2
  <2>2. \A j \in 1..0 : FALSE
    OBVIOUS
  <2>3. ASSUME NEW q \in p..n PROVE \E j \in 1..Len(d) : q + j <= n + 1 /\ s[q + j] # d[j]
    <3>1. CASE q = n
      <4>1. 1 \in 1..Len(d) /\ q + 1 = n + 1 /\ q + 1 <= n + 1
        BY <1>1, <1>2, <3>1
      <4> QED BY <1>5, <4>1
    <3>2. CASE q # n
      <4>1. q \in p..(n - 1)
        BY <1>1, <3>2
      <4> QED BY <1>3, <4>1
    <3> QED BY <3>1, <3>2
  <2> QED BY <1>1, <2>1, <2>2, <2>3 DEF InData
<1> QED BY <1>3, <1>4, <1>5

\* What was read of the data, but for what may be the delimiter.
Read(s, p, n, m) == SubSeq(s, p + 1, n - m)

Front(d, m) == SubSeq(d, 1, m)

LEMMA ReadIs ==
  ASSUME NEW s \in Seq(Char), NEW d \in Seq(Char), NEW p, NEW n, NEW m,
         InData(s, d, p, n, m)
  PROVE  /\ Read(s, p, n, m) \in Seq(Char) /\ SubSeq(d, 1, m) \in Seq(Char)
         /\ SubSeq(s, p + 1, n) \in Seq(Char)
         /\ Len(Read(s, p, n, m)) = (n - m) - p /\ Len(SubSeq(d, 1, m)) = m
         /\ Len(SubSeq(s, p + 1, n)) = n - p
         /\ \A k \in 1..((n - m) - p) : Read(s, p, n, m)[k] = s[p + k]
         /\ \A k \in 1..m : SubSeq(d, 1, m)[k] = d[k]
         /\ \A k \in 1..(n - p) : SubSeq(s, p + 1, n)[k] = s[p + k]
<1>1. /\ p \in Nat /\ m \in 0..Len(d) /\ n \in (p + m)..Len(s)
      /\ Len(s) \in Nat /\ Len(d) \in Nat
  BY LenProperties DEF InData
<1> DEFINE a == n - m
           z == 0
<1>2. /\ p \in 0..Len(s) /\ a \in p..Len(s) /\ n \in p..Len(s)
      /\ z \in 0..Len(d) /\ m \in z..Len(d) /\ m - z = m /\ z + 1 = 1 /\ \A k \in 1..m : z + k = k
  BY <1>1
<1>3. /\ SubSeq(s, p + 1, n) \in Seq(Char) /\ Len(SubSeq(s, p + 1, n)) = n - p
      /\ \A k \in 1..(n - p) : SubSeq(s, p + 1, n)[k] = s[p + k]
  BY <1>2, PieceOf
<1> HIDE DEF a, z
<1>4. /\ SubSeq(s, p + 1, a) \in Seq(Char) /\ Len(SubSeq(s, p + 1, a)) = a - p
      /\ \A k \in 1..(a - p) : SubSeq(s, p + 1, a)[k] = s[p + k]
  BY <1>2, PieceOf
<1>5. /\ SubSeq(d, z + 1, m) \in Seq(Char) /\ Len(SubSeq(d, z + 1, m)) = m - z
      /\ \A k \in 1..(m - z) : SubSeq(d, z + 1, m)[k] = d[z + k]
  BY <1>2, PieceOf
<1>6. /\ SubSeq(d, 1, m) \in Seq(Char) /\ Len(SubSeq(d, 1, m)) = m
      /\ \A k \in 1..m : SubSeq(d, 1, m)[k] = d[k]
  BY <1>2, <1>5
<1>7. /\ Read(s, p, n, m) \in Seq(Char) /\ Len(Read(s, p, n, m)) = (n - m) - p
      /\ \A k \in 1..((n - m) - p) : Read(s, p, n, m)[k] = s[p + k]
  BY <1>4 DEF a, Read
<1> QED BY <1>3, <1>6, <1>7

\* What is taken back is what was read last.
LEMMA ReadOn ==
  ASSUME NEW s \in Seq(Char), NEW d \in Seq(Char), NEW p, NEW n, NEW m,
         InData(s, d, p, n, m)
  PROVE  Read(s, p, n, m) \o Front(d, m) = Read(s, p, n, 0)
<1>1. /\ p \in Nat /\ m \in 0..Len(d) /\ n \in (p + m)..Len(s)
      /\ \A j \in 1..m : s[(n - m) + j] = d[j]
      /\ Len(s) \in Nat /\ Len(d) \in Nat
  BY LenProperties DEF InData
<1> DEFINE u == Read(s, p, n, m)
           w == SubSeq(d, 1, m)
           t == SubSeq(s, p + 1, n)
           a == n - m
<1>2. a \in Nat /\ n \in Nat /\ (a - p) + m = n - p /\ a - p \in Nat /\ n - p \in Nat
  BY <1>1
<1>3. /\ u \in Seq(Char) /\ Len(u) = a - p /\ \A k \in 1..(a - p) : u[k] = s[p + k]
      /\ w \in Seq(Char) /\ Len(w) = m /\ \A k \in 1..m : w[k] = d[k]
      /\ t \in Seq(Char) /\ Len(t) = n - p /\ \A k \in 1..(n - p) : t[k] = s[p + k]
  BY ReadIs
<1> HIDE DEF u, w, t
<1>6. /\ u \o w \in Seq(Char) /\ Len(u \o w) = Len(u) + Len(w)
      /\ \A k \in 1..(Len(u) + Len(w)) : (u \o w)[k] = IF k <= Len(u) THEN u[k] ELSE w[k - Len(u)]
  BY <1>3, ConcatProperties
<1>7. Len(u) + Len(w) = n - p /\ Len(t) = Len(u \o w) /\ Len(t) = n - p
  BY <1>2, <1>3, <1>6
<1>8. ASSUME NEW k \in 1..Len(t) PROVE (u \o w)[k] = t[k]
  <2>0. k \in 1..(n - p) /\ k \in 1..(Len(u) + Len(w))
    BY <1>7
  <2>1. CASE k <= a - p
    <3>1. k \in 1..(a - p)
      BY <1>2, <2>0, <2>1
    <3> QED BY <1>3, <1>6, <2>0, <2>1, <3>1
  <2>2. CASE ~(k <= a - p)
    <3> DEFINE j == k - (a - p)
    <3>1. j \in 1..m /\ a + j = p + k
      BY <1>1, <1>2, <2>0, <2>2
    <3>2. (u \o w)[k] = w[j]
      BY <1>3, <1>6, <2>0, <2>2
    <3> HIDE DEF j
    <3>3. w[j] = d[j] /\ s[a + j] = d[j]
      BY <1>1, <1>3, <3>1
    <3> QED BY <1>3, <2>0, <3>1, <3>2, <3>3
  <2> QED BY <2>1, <2>2
<1> HIDE DEF a
<1>9. u \o w = t
  BY <1>3, <1>6, <1>7, <1>8, SeqEqual
<1>10. t = Read(s, p, n, 0) /\ w = Front(d, m)
  <2>1. n - 0 = n
    BY <1>2
  <2> QED BY <2>1 DEF t, w, Read, Front
<1> QED BY <1>9, <1>10 DEF u

\* A longer piece is a piece and the next character.
LEMMA PieceGrows ==
  ASSUME NEW s \in Seq(Char), NEW p \in Nat, NEW n \in p..Len(s), n < Len(s)
  PROVE  Append(SubSeq(s, p + 1, n), s[n + 1]) = SubSeq(s, p + 1, n + 1)
<1> DEFINE k == n + 1
           t == SubSeq(s, p + 1, n)
           v == SubSeq(s, p + 1, k)
           c == s[n + 1]
<1>1. /\ Len(s) \in Nat /\ p \in 0..Len(s) /\ n \in p..Len(s) /\ k \in p..Len(s) /\ n \in Nat
      /\ k - p = (n - p) + 1 /\ p + (k - p) = n + 1 /\ n - p \in Nat /\ n + 1 \in 1..Len(s)
  BY LenProperties
<1>2. t \in Seq(Char) /\ Len(t) = n - p /\ \A j \in 1..(n - p) : t[j] = s[p + j]
  BY <1>1, PieceOf
<1>3. c \in Char
  BY <1>1, ElementOfSeq
<1> HIDE DEF t, c
<1>5. /\ Append(t, c) \in Seq(Char) /\ Len(Append(t, c)) = Len(t) + 1
      /\ \A j \in 1..Len(t) : Append(t, c)[j] = t[j]
      /\ Append(t, c)[Len(t) + 1] = c
  BY <1>2, <1>3, AppendProperties
<1>c. c = s[p + (k - p)]
  BY <1>1 DEF c
<1> HIDE DEF k
<1>4. v \in Seq(Char) /\ Len(v) = k - p /\ \A j \in 1..(k - p) : v[j] = s[p + j]
  BY <1>1, PieceOf
<1> HIDE DEF v
<1>6. Len(v) = Len(Append(t, c))
  BY <1>1, <1>2, <1>4, <1>5
<1>7. ASSUME NEW j \in 1..Len(v) PROVE Append(t, c)[j] = v[j]
  <2>0. j \in 1..(k - p)
    BY <1>4
  <2>1. CASE j = k - p
    <3>1. j = Len(t) + 1
      BY <1>1, <1>2, <2>1
    <3> QED BY <1>4, <1>5, <1>c, <2>0, <2>1, <3>1
  <2>2. CASE j # k - p
    <3>1. j \in 1..(n - p)
      BY <1>1, <2>0, <2>2
    <3> QED BY <1>2, <1>4, <1>5, <2>0, <3>1
  <2> QED BY <2>1, <2>2
<1>8. Append(t, c) = v
  BY <1>4, <1>5, <1>6, <1>7, SeqEqual
<1> QED BY <1>8 DEF t, c, v, k

\* A piece of a text that stands somewhere is the beginning of it.
LEMMA FrontRead ==
  ASSUME NEW s \in Seq(Char), NEW w \in Seq(Char), NEW p \in Nat, NEW n \in p..Len(s),
         StandsAt(s, p, w), n <= p + Len(w)
  PROVE  /\ StartsWith(w, SubSeq(s, p + 1, n))
         /\ n = p + Len(w) => SubSeq(s, p + 1, n) = w
<1> DEFINE t == SubSeq(s, p + 1, n)
           k == n - p
           z == 0
<1>1. /\ Len(s) \in Nat /\ Len(w) \in Nat /\ p \in 0..Len(s) /\ k \in 0..Len(w)
      /\ z \in 0..Len(w) /\ k \in z..Len(w) /\ k - z = k /\ z + 1 = 1
      /\ \A j \in 1..k : z + j = j /\ p + j <= Len(s) /\ j \in 1..Len(w)
  BY LenProperties
<1>2. t \in Seq(Char) /\ Len(t) = k /\ \A j \in 1..k : t[j] = s[p + j]
  BY <1>1, PieceOf
<1>3. \A j \in 1..Len(w) : p + j <= Len(s) => s[p + j] = w[j]
  BY DEF StandsAt
<1>4. n = p + Len(w) => k = Len(w)
  BY <1>1
<1> HIDE DEF t, k, z
<1>5. /\ SubSeq(w, z + 1, k) \in Seq(Char) /\ Len(SubSeq(w, z + 1, k)) = k - z
      /\ \A j \in 1..(k - z) : SubSeq(w, z + 1, k)[j] = w[z + j]
  BY <1>1, PieceOf
<1>6. /\ SubSeq(w, 1, k) \in Seq(Char) /\ Len(SubSeq(w, 1, k)) = k
      /\ \A j \in 1..k : SubSeq(w, 1, k)[j] = w[j]
  BY <1>1, <1>5
<1>7. \A j \in 1..k : t[j] = w[j]
  BY <1>1, <1>2, <1>3
<1>8. SubSeq(w, 1, k) = t
  BY <1>2, <1>6, <1>7, SeqEqual
<1>9. StartsWith(w, t)
  <2>1. Len(t) <= Len(w)
    BY <1>1, <1>2
  <2> QED BY <1>2, <1>8, <2>1 DEF StartsWith
<1>10. k = Len(w) => t = w
  BY <1>2, <1>7, SeqEqual
<1> QED BY <1>4, <1>9, <1>10 DEF t

\* The data ends where the delimiter stands behind it, or with the input.
LEMMA DataEnds ==
  ASSUME NEW s \in Seq(Char), NEW w \in Seq(Char), NEW b, NEW p, NEW n, NEW m,
         IsDelimiter(Delimit(b)), IsApart(w, b),
         StandsAt(s, p, w), StandsAt(s, p + Len(w), Delimit(b)),
         InData(s, Delimit(b), p, n, m)
  PROVE  /\ n - m <= p + Len(w) /\ n - m \in p..Len(s)
         /\ m = Len(Delimit(b)) => n - m = p + Len(w)
<1> DEFINE d == Delimit(b)
<1>1. /\ p \in Nat /\ m \in 0..Len(d) /\ n \in (p + m)..Len(s)
      /\ \A j \in 1..m : s[(n - m) + j] = d[j]
      /\ \A q \in p..(n - m - 1) : \E j \in 1..Len(d) : q + j <= n /\ s[q + j] # d[j]
  BY DEF InData
<1>2. /\ Len(d) \in Nat /\ Len(d) >= 4 /\ d[1] = "CR" /\ \A j \in 2..Len(d) : d[j] # "CR"
  BY LenProperties DEF IsDelimiter
<1>3. Len(s) \in Nat /\ Len(w) \in Nat
  BY LenProperties
<1>4. \A j \in 1..Len(d) : (p + Len(w)) + j <= Len(s) => s[(p + Len(w)) + j] = d[j]
  BY DEF StandsAt
<1>5. \A j \in 1..Len(w) : p + j <= Len(s) => s[p + j] = w[j]
  BY DEF StandsAt
<1>6. \A k \in 0..(Len(w) - Len(d)) : \E j \in 1..Len(d) : w[k + j] # d[j]
  BY DEF IsApart
<1> HIDE DEF d
<1> DEFINE a == n - m
           e == p + Len(w)
<1>7. /\ a \in p..Len(s) /\ a \in Nat /\ e \in Nat /\ e >= p /\ a + m = n /\ n \in Nat
      /\ n <= Len(s)
  BY <1>1, <1>3
<1>8. a <= e
  <2> SUFFICES ASSUME a > e PROVE FALSE
    <3> HIDE DEF a, e
    <3> QED BY <1>7
  <2>1. e \in p..(n - m - 1)
    BY <1>1, <1>3, <1>7
  <2>2. PICK j \in 1..Len(d) : e + j <= n /\ s[e + j] # d[j]
    BY <1>1, <2>1
  <2>3. e + j <= Len(s)
    <3> HIDE DEF a, e
    <3> QED BY <1>2, <1>7, <1>3, <2>2
  <2> QED BY <1>4, <2>2, <2>3
<1>9. ASSUME m = Len(d) PROVE a = e
  <2> SUFFICES ASSUME a < e PROVE FALSE
    <3> HIDE DEF a, e
    <3> QED BY <1>7, <1>8
  <2>1. CASE a - p <= Len(w) - Len(d)
    <3> DEFINE k == a - p
    <3>1. k \in 0..(Len(w) - Len(d))
      BY <1>1, <1>2, <1>3, <1>7, <2>1
    <3>2. PICK j \in 1..Len(d) : w[k + j] # d[j]
      BY <1>6, <3>1
    <3>3. /\ k + j \in 1..Len(w) /\ p + (k + j) = a + j /\ p + (k + j) <= Len(s) /\ j \in 1..m
      BY <1>1, <1>2, <1>3, <1>7, <1>9, <2>1
    <3> HIDE DEF k
    <3>4. s[p + (k + j)] = w[k + j]
      BY <1>5, <3>3
    <3>5. s[a + j] = d[j]
      BY <1>1, <3>3
    <3> QED BY <3>2, <3>3, <3>4, <3>5
  <2>2. CASE ~(a - p <= Len(w) - Len(d))
    <3> DEFINE j == (e + 1) - a
    <3>1. /\ j \in 2..Len(d) /\ j \in 1..m /\ a + j = e + 1 /\ e + 1 <= Len(s) /\ 1 \in 1..Len(d)
      BY <1>1, <1>2, <1>3, <1>7, <1>9, <2>2
    <3> HIDE DEF j, e
    <3>2. s[a + j] = d[j] /\ d[j] # "CR"
      BY <1>1, <1>2, <3>1
    <3>3. s[e + 1] = "CR"
      BY <1>2, <1>4, <3>1 DEF e
    <3> QED BY <3>1, <3>2, <3>3
  <2> QED BY <2>1, <2>2
<1> QED BY <1>7, <1>8, <1>9 DEF d

-----------------------------------------------------------------------------
(* The invariant *)

FromPage == req.sent.heads # <<>>

Lost == req.sent.file = NULL \/ fault

\* The first file holds a text, or not all of it could be written.
Unwritten == lost

Holding(s) == tmp[1] = s \/ Unwritten

\* The archive was left out or lost, or its file holds it.
FileSaid ==
  /\ IsVars(post_body) /\ Lacks(post_body, <<"title">>)
  /\ \/ Lacks(post_body, <<"file">>) /\ Lost
     \/ /\ Holds(post_body, <<"file">>, TmpName(1))
        /\ 1 \in DOMAIN tmp /\ Holding(req.sent.file)

TitleFits ==
  /\ title # NULL
  /\ IF req.sent.whole THEN title = req.sent.title ELSE StartsWith(req.sent.title, title)

\* An album is made of what was sent, or there is a reason for none.
Fit ==
  \/ title = NULL /\ (~req.sent.whole \/ req.sent.file = NULL)
  \/ archive = NULL /\ Lost
  \/ archive = TmpName(1) /\ 1 \in DOMAIN tmp /\ Holding(req.sent.file) /\ TitleFits

AtHead ==
  \/ /\ post_body = <<>> /\ tmp = <<>>
     /\ \/ pos = P1(req) /\ name = NULL /\ filename = NULL
        \/ /\ pos \in {P2(req), P3(req)}
           /\ name = <<"file">> /\ filename = Headers(req.sent.heads[1]).filename
  \/ /\ FileSaid /\ filename = NULL
     /\ \/ pos = P7(req) /\ name = NULL
        \/ pos = P8(req) /\ name = <<"title">>
  \/ pos = Len(req.body) /\ Fit

InFile ==
  /\ post_body = <<>> /\ name = <<"file">> /\ filename # NULL
  /\ InData(req.body, delimiter, P4(req), pos, matched)
  /\ \/ out = 0 /\ Lost
     \/ /\ out = 1 /\ req.sent.file # NULL
        /\ 1 \in DOMAIN tmp /\ Holding(Read(req.body, P4(req), pos, matched))

InTitle ==
  /\ FileSaid /\ name = <<"title">> /\ filename = NULL /\ out = 0
  /\ InData(req.body, delimiter, P9(req), pos, matched)
  /\ value = Read(req.body, P9(req), pos, matched)

AtRest ==
  \/ pos = P6(req) /\ FileSaid
  \/ pos = P11(req) /\ Fit
  \/ pos = Len(req.body) /\ Fit

\* The form of the page goes through its places.
OfPage ==
  /\ at = "head" => AtHead
  /\ at = "part" => InFile \/ InTitle
  /\ at = "rest" => AtRest

\* Any other never states a title.
OfAnother == IsVars(post_body) /\ Lacks(post_body, <<"title">>) /\ name # <<"title">>

CgiInv ==
  /\ req \in Requests /\ pos \in 0..Len(req.body)
  /\ at \in {"start", "first_line", "urlencoded"} =>
       pos = 0 /\ post_body = <<>> /\ tmp = <<>>
  /\ at = "urlencoded" => req.type # "multipart"
  /\ at \in {"first_line", "head", "part", "rest"} => req.type = "multipart"
  /\ at \in {"head", "part", "rest"} => IF FromPage THEN OfPage ELSE OfAnother
  /\ at \in {"routine", "upload_photos"} => Fit
  /\ at \notin {"upload_photos", "logout", "done"} => cgi_user = NULL
  /\ at # "done" => album = NULL /\ status = 0
  /\ at = "done" => AlbumAsSent

-----------------------------------------------------------------------------
(* What the steps rest on *)

\* NULL is not among the texts.
LEMMA NoText ==
  /\ NULL # <<"title">> /\ NULL # <<"file">> /\ NULL # TmpName(1) /\ <<"title">> # <<"file">>
  /\ \A s \in Seq(STRING) : s # NULL
<1>1. NULL \notin Seq(STRING \cup Nat) /\ {"title", "file", "tmp"} \subseteq STRING
  BY CgiAssumption, Zenon DEF RequestsAreSound
<1>2. /\ <<"title">> \in Seq(STRING \cup Nat) /\ <<"file">> \in Seq(STRING \cup Nat)
      /\ <<"tmp", 1>> \in Seq(STRING \cup Nat)
  <2>1. "title" \in STRING \cup Nat /\ "file" \in STRING \cup Nat /\ "tmp" \in STRING \cup Nat /\ 1 \in STRING \cup Nat
    BY <1>1
  <2> DEFINE T == STRING \cup Nat
  <2> HIDE DEF T
  <2>2. <<"title">> \in Seq(T) /\ <<"file">> \in Seq(T) /\ <<"tmp", 1>> \in Seq(T)
    BY <2>1 DEF T
  <2> QED BY <2>2 DEF T
<1>3. \A s \in Seq(STRING) : s # NULL
  <2> SUFFICES ASSUME NEW s \in Seq(STRING) PROVE s # NULL
    OBVIOUS
  <2>1. STRING \subseteq STRING \cup Nat
    OBVIOUS
  <2>2. s \in Seq(STRING \cup Nat)
    BY <2>1, SeqMonotonic, Zenon
  <2> QED BY <1>1, <2>2, Zenon
<1>4. <<"title">> # <<"file">>
  OBVIOUS
<1> QED BY <1>1, <1>2, <1>3, <1>4, Zenon DEF TmpName

LEMMA RequestIs ==
  ASSUME req \in Requests
  PROVE  /\ req.body \in Seq(STRING) /\ req.body \in Seq(Char) /\ Len(req.body) \in Nat
         /\ FromPage => req.type = "multipart" /\ IsPage(req)
         /\ ~FromPage => req.sent.file = NULL /\ HasNoTitle(req)
<1>1. /\ req.body \in Seq(STRING)
      /\ IF req.sent.heads # <<>> THEN req.type = "multipart" /\ IsPage(req)
         ELSE req.sent.file = NULL /\ HasNoTitle(req)
  BY CgiAssumption, Zenon DEF RequestsAreSound
<1>2. req.body \in Seq(Char) /\ Len(req.body) \in Nat
  <2> DEFINE s == req.body
  <2>1. s \in Seq(STRING)
    BY <1>1
  <2> HIDE DEF s
  <2>2. s \in Seq(Char) /\ Len(s) \in Nat
    BY <2>1, CharsOf
  <2> QED BY <2>2 DEF s
<1> QED BY <1>1, <1>2, Zenon DEF FromPage

\* A list without a name has no value for it.
LEMMA NothingThere ==
  ASSUME NEW v, IsVars(v), NEW n, Lacks(v, n)
  PROVE  CGI_lookup(v, n) = NULL
BY LookupIs

LEMMA EmptyLacks == IsVars(<<>>) /\ \A n : Lacks(<<>>, n) /\ CGI_lookup(<<>>, n) = NULL
<1>1. \A n : Lacks(<<>>, n)
  <2>1. DOMAIN <<>> = {}
    OBVIOUS
  <2> QED BY <2>1 DEF Lacks
<1> QED BY <1>1, EmptyIsSeq, NothingThere

\* A form that broke off in front of its title is refused.
LEMMA NoTitleFits ==
  ASSUME IsVars(post_body), Lacks(post_body, <<"title">>), ~req.sent.whole \/ req.sent.file = NULL
  PROVE  Fit
BY NothingThere DEF Fit, title

LEMMA SameFit ==
  ASSUME Fit, req' = req, post_body' = post_body, UNCHANGED <<tmp, lost, fault>>
  PROVE  Fit'
BY DEF Fit, TitleFits, title, archive, Lost, Holding, Unwritten

LEMMA SameFileSaid ==
  ASSUME FileSaid, req' = req, post_body' = post_body, UNCHANGED <<tmp, lost, fault>>
  PROVE  FileSaid'
BY DEF FileSaid, Lost, Holding, Unwritten

\* A step of read_multipart.
LEMMA MovesKeeps ==
  ASSUME CgiInv, NEW from, NEW to, Moves(from, to),
         from \in {"first_line", "head", "part", "rest"},
         to \in {"head", "part", "rest", "routine"},
         pos' \in 0..Len(req.body),
         to \in {"head", "part", "rest"} => IF FromPage THEN OfPage' ELSE OfAnother',
         to = "routine" => Fit'
  PROVE  CgiInv'
<1>1. /\ at = from /\ at' = to
      /\ UNCHANGED <<req, query_list, cookies, removed, cgi_user, album, status>>
  BY DEF Moves
<1>2. req.type = "multipart" /\ cgi_user = NULL /\ album = NULL /\ status = 0 /\ req \in Requests
  BY <1>1 DEF CgiInv
<1>3. FromPage' <=> FromPage
  BY <1>1 DEF FromPage
<1>4. at' \in {"head", "part", "rest"} => IF FromPage' THEN OfPage' ELSE OfAnother'
  BY <1>1, <1>3
<1>5. at' \in {"routine", "upload_photos"} => Fit'
  BY <1>1
<1> QED BY <1>1, <1>2, <1>4, <1>5 DEF CgiInv

\* Where the form of the page is whole and where it is not.
LEMMA LineOfPage ==
  ASSUME req \in Requests, FromPage, pos \in 0..Len(req.body),
         NEW w, OneLine(w), StandsAt(req.body, pos, w), pos + Len(w) <= P12(req)
  PROVE  \/ Line = w /\ pos + Len(Line) \in 0..Len(req.body)
         \/ /\ pos + Len(Line) = Len(req.body) /\ Len(Line) < Len(w)
            /\ ~IsBlank /\ ~req.sent.whole
<1>1. req.body \in Seq(STRING) /\ IsPage(req)
  BY RequestIs
<1>2. /\ Len(w) \in Nat /\ Len(req.body) \in Nat /\ Len(Line) \in Nat
      /\ pos + Len(w) <= Len(req.body) => Line = w
      /\ pos + Len(w) > Len(req.body) =>
           /\ Len(Line) < Len(w) /\ pos + Len(Line) = Len(req.body)
           /\ \A k \in 1..Len(Line) : Line[k] # "LF"
  BY <1>1, LineStands
<1>3. req.sent.whole => Len(req.body) = P12(req)
  BY <1>1, PageStands
<1>4. CASE pos + Len(w) <= Len(req.body)
  <2>1. pos + Len(w) \in 0..Len(req.body)
    BY <1>2, <1>4
  <2> QED BY <1>2, <1>4, <2>1
<1>5. CASE ~(pos + Len(w) <= Len(req.body))
  <2>1. pos + Len(w) > Len(req.body)
    BY <1>2, <1>5
  <2>2. ~IsBlank
    <3> SUFFICES ASSUME IsBlank PROVE FALSE
      OBVIOUS
    <3>1. Len(Line) > 1 /\ Line[2] = "LF"
      BY DEF IsBlank
    <3>2. 2 \in 1..Len(Line)
      BY <1>2, <3>1
    <3> QED BY <1>2, <2>1, <3>1, <3>2
  <2>3. ~req.sent.whole
    BY <1>2, <1>3, <2>1
  <2> QED BY <1>2, <2>1, <2>2, <2>3
<1> QED BY <1>4, <1>5

\* The pieces of the form lie one behind the other.
LEMMA InOrder ==
  ASSUME NEW r, Places(r)
  PROVE  /\ P1(r) + Len(r.sent.heads[1]) = P2(r) /\ P2(r) + Len(r.sent.heads[2]) = P3(r)
         /\ P3(r) + 2 = P4(r) /\ P4(r) + Len(FileOf(r)) = P5(r)
         /\ P5(r) + Len(Delimit(r.boundary)) = P6(r) /\ P6(r) + 2 = P7(r)
         /\ P7(r) + Len(r.sent.heads[3]) = P8(r) /\ P8(r) + 2 = P9(r)
         /\ P9(r) + Len(r.sent.title) = P10(r)
         /\ P10(r) + Len(Delimit(r.boundary)) = P11(r) /\ P11(r) + 4 = P12(r)
         /\ P1(r) \in Nat /\ P4(r) \in Nat /\ P5(r) \in Nat /\ P9(r) \in Nat /\ P10(r) \in Nat
         /\ P12(r) \in Nat
         /\ P5(r) + Len(Delimit(r.boundary)) + 4 <= P12(r)
         /\ P10(r) + Len(Delimit(r.boundary)) + 4 <= P12(r)
         /\ \A p \in {P1(r), P2(r), P3(r), P4(r), P5(r), P6(r), P7(r), P8(r), P9(r), P10(r), P11(r)} :
              p <= P12(r) /\ p \in Nat
<1> DEFINE b == Len(r.boundary)
           d == Len(Delimit(r.boundary))
           x == Len(r.sent.heads[1])
           y == Len(r.sent.heads[2])
           z == Len(r.sent.heads[3])
           f == Len(FileOf(r))
           t == Len(r.sent.title)
<1>1. /\ b \in Nat /\ d = b + 4 /\ x \in Nat /\ y \in Nat /\ z \in Nat /\ f \in Nat /\ t \in Nat
      /\ P1(r) = b + 4 /\ P2(r) = P1(r) + x /\ P3(r) = P2(r) + y /\ P4(r) = P3(r) + 2
      /\ P5(r) = P4(r) + f /\ P6(r) = P5(r) + d /\ P7(r) = P6(r) + 2 /\ P8(r) = P7(r) + z
      /\ P9(r) = P8(r) + 2 /\ P10(r) = P9(r) + t /\ P11(r) = P10(r) + d /\ P12(r) = P11(r) + 4
  BY Zenon DEF Places
<1> HIDE DEF b, d, x, y, z, f, t
<1>2. /\ P1(r) \in Nat /\ P2(r) \in Nat /\ P3(r) \in Nat /\ P4(r) \in Nat /\ P5(r) \in Nat
      /\ P6(r) \in Nat /\ P7(r) \in Nat /\ P8(r) \in Nat /\ P9(r) \in Nat /\ P10(r) \in Nat
      /\ P11(r) \in Nat /\ P12(r) \in Nat
  BY <1>1
<1>3. /\ P1(r) <= P12(r) /\ P2(r) <= P12(r) /\ P3(r) <= P12(r) /\ P4(r) <= P12(r) /\ P5(r) <= P12(r)
      /\ P6(r) <= P12(r) /\ P7(r) <= P12(r) /\ P8(r) <= P12(r) /\ P9(r) <= P12(r) /\ P10(r) <= P12(r)
      /\ P11(r) <= P12(r)
  BY <1>1
<1>4. P5(r) + d + 4 <= P12(r) /\ P10(r) + d + 4 <= P12(r)
  BY <1>1
<1> QED BY <1>1, <1>2, <1>3, <1>4 DEF b, d, x, y, z, f, t

\* Where a line of a head is read.
LEMMA HeadLine ==
  ASSUME CgiInv, FromPage, at = "head"
  PROVE  \/ /\ pos + Len(Line) \in 0..Len(req.body)
            /\ post_body = <<>> /\ tmp = <<>>
            /\ \/ /\ pos = P1(req) /\ name = NULL /\ filename = NULL
                  /\ Line = req.sent.heads[1] /\ pos + Len(Line) = P2(req)
               \/ /\ pos = P2(req) /\ name = <<"file">>
                  /\ filename = Headers(req.sent.heads[1]).filename
                  /\ Line = req.sent.heads[2] /\ pos + Len(Line) = P3(req)
               \/ /\ pos = P3(req) /\ name = <<"file">>
                  /\ filename = Headers(req.sent.heads[1]).filename
                  /\ Line = LineBreak /\ pos + Len(Line) = P4(req)
         \/ /\ pos + Len(Line) \in 0..Len(req.body)
            /\ FileSaid /\ filename = NULL
            /\ \/ /\ pos = P7(req) /\ name = NULL
                  /\ Line = req.sent.heads[3] /\ pos + Len(Line) = P8(req)
               \/ /\ pos = P8(req) /\ name = <<"title">>
                  /\ Line = LineBreak /\ pos + Len(Line) = P9(req)
         \/ pos + Len(Line) = Len(req.body) /\ Fit /\ ~IsBlank
<1>1. req \in Requests /\ pos \in 0..Len(req.body) /\ AtHead
  BY DEF CgiInv, OfPage
<1>2. /\ req.body \in Seq(STRING) /\ Len(req.body) \in Nat /\ IsPage(req)
  BY <1>1, RequestIs
<1>3. Places(req) /\ Pieces(req) /\ Len(LineBreak) = 2
  BY <1>2, PageStands, ShortPieces
<1>o. /\ P1(req) + Len(req.sent.heads[1]) = P2(req) /\ P2(req) + Len(req.sent.heads[2]) = P3(req)
      /\ P3(req) + 2 = P4(req) /\ P7(req) + Len(req.sent.heads[3]) = P8(req) /\ P8(req) + 2 = P9(req)
      /\ \A p \in {P2(req), P3(req), P4(req), P8(req), P9(req)} : p <= P12(req)
  BY <1>3, InOrder
<1>4. OneLine(LineBreak) /\ \A n \in 1..3 : OneLine(req.sent.heads[n])
  BY <1>2, PageLines
<1>5. ASSUME NEW w, OneLine(w), StandsAt(req.body, pos, w), pos + Len(w) <= P12(req)
      PROVE  \/ Line = w /\ pos + Len(Line) \in 0..Len(req.body)
             \/ pos + Len(Line) = Len(req.body) /\ ~IsBlank /\ ~req.sent.whole
  BY <1>1, <1>5, LineOfPage
<1>6. post_body = <<>> /\ ~req.sent.whole => Fit
  BY EmptyLacks, NoTitleFits
<1>7. FileSaid /\ ~req.sent.whole => Fit
  BY NoTitleFits DEF FileSaid
<1>8. CASE post_body = <<>> /\ tmp = <<>> /\ pos = P1(req) /\ name = NULL /\ filename = NULL
  <2> DEFINE w == req.sent.heads[1]
  <2>1. OneLine(w) /\ StandsAt(req.body, pos, w)
    BY <1>3, <1>4, <1>8 DEF Pieces
  <2>2. pos + Len(w) <= P12(req) /\ pos + Len(w) = P2(req)
    BY <1>3, <1>o, <1>8
  <2> HIDE DEF w
  <2>3. \/ Line = w /\ pos + Len(Line) \in 0..Len(req.body)
        \/ pos + Len(Line) = Len(req.body) /\ ~IsBlank /\ ~req.sent.whole
    BY <1>5, <2>1, <2>2
  <2> QED BY <1>6, <1>8, <2>2, <2>3 DEF w
<1>9. CASE /\ post_body = <<>> /\ tmp = <<>> /\ pos = P2(req) /\ name = <<"file">>
           /\ filename = Headers(req.sent.heads[1]).filename
  <2> DEFINE w == req.sent.heads[2]
  <2>1. OneLine(w) /\ StandsAt(req.body, pos, w)
    BY <1>3, <1>4, <1>9 DEF Pieces
  <2>2. pos + Len(w) <= P12(req) /\ pos + Len(w) = P3(req)
    BY <1>3, <1>o, <1>9
  <2> HIDE DEF w
  <2>3. \/ Line = w /\ pos + Len(Line) \in 0..Len(req.body)
        \/ pos + Len(Line) = Len(req.body) /\ ~IsBlank /\ ~req.sent.whole
    BY <1>5, <2>1, <2>2
  <2> QED BY <1>6, <1>9, <2>2, <2>3 DEF w
<1>10. CASE /\ post_body = <<>> /\ tmp = <<>> /\ pos = P3(req) /\ name = <<"file">>
            /\ filename = Headers(req.sent.heads[1]).filename
  <2>1. OneLine(LineBreak) /\ StandsAt(req.body, pos, LineBreak)
    BY <1>3, <1>4, <1>10 DEF Pieces
  <2>2. pos + Len(LineBreak) <= P12(req) /\ pos + Len(LineBreak) = P4(req)
    BY <1>3, <1>o, <1>10
  <2>3. \/ Line = LineBreak /\ pos + Len(Line) \in 0..Len(req.body)
        \/ pos + Len(Line) = Len(req.body) /\ ~IsBlank /\ ~req.sent.whole
    BY <1>5, <2>1, <2>2
  <2> QED BY <1>6, <1>10, <2>2, <2>3
<1>11. CASE FileSaid /\ filename = NULL /\ pos = P7(req) /\ name = NULL
  <2> DEFINE w == req.sent.heads[3]
  <2>1. OneLine(w) /\ StandsAt(req.body, pos, w)
    BY <1>3, <1>4, <1>11 DEF Pieces
  <2>2. pos + Len(w) <= P12(req) /\ pos + Len(w) = P8(req)
    BY <1>3, <1>o, <1>11
  <2> HIDE DEF w
  <2>3. \/ Line = w /\ pos + Len(Line) \in 0..Len(req.body)
        \/ pos + Len(Line) = Len(req.body) /\ ~IsBlank /\ ~req.sent.whole
    BY <1>5, <2>1, <2>2
  <2> QED BY <1>7, <1>11, <2>2, <2>3 DEF w
<1>12. CASE FileSaid /\ filename = NULL /\ pos = P8(req) /\ name = <<"title">>
  <2>1. OneLine(LineBreak) /\ StandsAt(req.body, pos, LineBreak)
    BY <1>3, <1>4, <1>12 DEF Pieces
  <2>2. pos + Len(LineBreak) <= P12(req) /\ pos + Len(LineBreak) = P9(req)
    BY <1>3, <1>o, <1>12
  <2>3. \/ Line = LineBreak /\ pos + Len(Line) \in 0..Len(req.body)
        \/ pos + Len(Line) = Len(req.body) /\ ~IsBlank /\ ~req.sent.whole
    BY <1>5, <2>1, <2>2
  <2> QED BY <1>7, <1>12, <2>2, <2>3
<1>13. CASE pos = Len(req.body) /\ Fit
  <2>1. Line = <<>> /\ Len(Line) = 0
    BY <1>1, <1>2, <1>13, LineReads, EmptySeq
  <2>2. ~IsBlank
    BY <2>1 DEF IsBlank
  <2>3. pos + Len(Line) = Len(req.body)
    BY <1>2, <1>13, <2>1
  <2> QED BY <1>13, <2>2, <2>3
<1> QED BY <1>1, <1>8, <1>9, <1>10, <1>11, <1>12, <1>13 DEF AtHead

-----------------------------------------------------------------------------
(* The constructor *)

LEMMA CgiStarts == CgiInit => CgiInv
<1> SUFFICES ASSUME CgiInit PROVE CgiInv
  OBVIOUS
<1>1. /\ req \in Requests /\ at = "start" /\ pos = 0 /\ post_body = <<>> /\ tmp = <<>>
      /\ cgi_user = NULL /\ album = NULL /\ status = 0
  BY DEF CgiInit, CgiStart
<1>2. pos \in 0..Len(req.body)
  BY <1>1, RequestIs
<1> QED BY <1>1, <1>2 DEF CgiInv

LEMMA GetQueryAndCookiesKeeps ==
  ASSUME CgiInv, GetQueryAndCookies PROVE CgiInv'
<1>1. /\ at = "start" /\ at' = IF req.type = "multipart" THEN "first_line" ELSE "urlencoded"
      /\ UNCHANGED <<req, part, post_body, tmp, lost, removed, cgi_user, album, fault, status>>
  BY DEF GetQueryAndCookies
<1>2. /\ req \in Requests /\ pos \in 0..Len(req.body) /\ pos = 0 /\ post_body = <<>> /\ tmp = <<>>
      /\ cgi_user = NULL /\ album = NULL /\ status = 0
  BY <1>1 DEF CgiInv
<1>3. pos' = pos
  BY <1>1 DEF part
<1>4. at' \in {"first_line", "urlencoded"} /\ (at' = "first_line" <=> req.type = "multipart")
  BY <1>1
<1> QED BY <1>1, <1>2, <1>3, <1>4 DEF CgiInv

LEMMA GetUrlencodedKeeps ==
  ASSUME CgiInv, GetUrlencoded PROVE CgiInv'
<1>1. /\ at = "urlencoded" /\ at' = "routine"
      /\ UNCHANGED <<req, part, query_list, cookies, tmp, lost, removed, cgi_user, album, fault, status>>
  BY DEF GetUrlencoded
<1>2. /\ req \in Requests /\ pos \in 0..Len(req.body) /\ req.type # "multipart"
      /\ cgi_user = NULL /\ album = NULL /\ status = 0
  BY <1>1 DEF CgiInv
<1>3. pos' = pos
  BY <1>1 DEF part
<1>4. req.sent.file = NULL /\ HasNoTitle(req)
  BY <1>2, RequestIs
<1>5. CGI_lookup(post_body', <<"title">>) = NULL
  <2>1. CASE req.type = "urlencoded" /\ req.length \in 1..Len(req.body)
    <3>1. post_body' = CGI_decode_query(SubSeq(req.body, 1, req.length))
      BY <2>1 DEF GetUrlencoded
    <3> QED BY <1>4, <2>1, <3>1 DEF HasNoTitle
  <2>2. CASE ~(req.type = "urlencoded" /\ req.length \in 1..Len(req.body))
    <3>1. post_body' = <<>>
      BY <2>2 DEF GetUrlencoded
    <3> QED BY <3>1, EmptyLacks
  <2> QED BY <2>1, <2>2
<1>6. Fit'
  BY <1>1, <1>4, <1>5 DEF Fit, title
<1> QED BY <1>1, <1>2, <1>3, <1>6 DEF CgiInv

LEMMA ReadFirstLineKeeps ==
  ASSUME CgiInv, ReadFirstLine PROVE CgiInv'
<1> DEFINE w == SubSeq(delimiter, 3, Len(delimiter)) \o <<"CR", "LF">>
           to == IF Line = w THEN "head" ELSE "routine"
<1>1. /\ Moves("first_line", to) /\ pos' = pos + Len(Line) /\ name' = NULL /\ filename' = NULL
      /\ UNCHANGED <<value, out, matched, post_body, tmp, lost, fault>>
  BY DEF ReadFirstLine
<1>2. /\ at = "first_line" /\ req' = req /\ (to = "head" \/ to = "routine")
  BY <1>1 DEF Moves
<1>3. /\ req \in Requests /\ pos \in 0..Len(req.body) /\ pos = 0 /\ post_body = <<>> /\ tmp = <<>>
  BY <1>2 DEF CgiInv
<1>4. req.body \in Seq(STRING) /\ Len(req.body) \in Nat
  BY <1>3, RequestIs
<1>5. pos' \in 0..Len(req.body)
  <2>1. Len(Line) \in 0..(Len(req.body) - pos)
    BY <1>3, <1>4, LineReads
  <2> QED BY <1>1, <1>3, <1>4, <2>1
<1>6. \A n : CGI_lookup(post_body, n) = NULL /\ Lacks(post_body, n) /\ IsVars(post_body)
  BY <1>3, EmptyLacks
<1> HIDE DEF to
<1>7. CASE FromPage
  <2>1. IsPage(req)
    BY <1>3, <1>7, RequestIs
  <2>2. E1(req) = w
    BY <2>1, FirstLineIs DEF delimiter
  <2>3. OneLine(w) /\ StandsAt(req.body, pos, w) /\ Len(w) = P1(req)
    BY <1>3, <1>4, <2>1, <2>2, PageLines, PageStands DEF Pieces, P1
  <2>4. pos + Len(w) <= P12(req) /\ pos + Len(w) = P1(req) /\ Len(w) \in Nat
    <3>1. P1(req) <= P12(req) /\ P1(req) \in Nat
      BY <1>4, <2>1, PageStands, InOrder
    <3> QED BY <1>3, <2>3, <3>1
  <2> HIDE DEF w
  <2>5. \/ Line = w /\ pos + Len(Line) \in 0..Len(req.body)
        \/ /\ pos + Len(Line) = Len(req.body) /\ Len(Line) < Len(w)
           /\ ~IsBlank /\ ~req.sent.whole
    BY <1>3, <1>7, <2>3, <2>4, LineOfPage
  <2>6. to = "routine" => Fit'
    <3> SUFFICES ASSUME to = "routine" PROVE Fit'
      OBVIOUS
    <3>1. ~req.sent.whole
      BY <2>5 DEF to
    <3>2. Fit
      BY <1>6, <3>1, NoTitleFits
    <3> QED BY <1>1, <1>2, <3>2, SameFit
  <2>7. to = "head" => OfPage'
    <3> SUFFICES ASSUME to = "head" PROVE OfPage'
      OBVIOUS
    <3>1. Line = w
      BY DEF to
    <3>2. pos' = P1(req)
      BY <1>1, <2>4, <3>1
    <3>3. AtHead'
      BY <1>1, <1>2, <1>3, <3>2 DEF AtHead
    <3>4. at' = "head"
      BY <1>1 DEF Moves
    <3> QED BY <3>3, <3>4 DEF OfPage
  <2> QED BY <1>1, <1>2, <1>5, <1>7, <2>6, <2>7, MovesKeeps
<1>8. CASE ~FromPage
  <2>1. req.sent.file = NULL
    BY <1>3, <1>8, RequestIs
  <2>2. Fit
    BY <1>6, <2>1, NoTitleFits
  <2>3. Fit'
    BY <1>1, <1>2, <2>2, SameFit
  <2>4. OfAnother'
    BY <1>1, <1>6, NoText DEF OfAnother
  <2> QED BY <1>1, <1>2, <1>5, <1>8, <2>3, <2>4, MovesKeeps
<1> QED BY <1>7, <1>8

\* What holds where a line is read.
LEMMA LineRead ==
  ASSUME CgiInv
  PROVE  /\ req \in Requests /\ pos \in 0..Len(req.body) /\ req.body \in Seq(STRING)
         /\ Len(req.body) \in Nat /\ Len(Line) \in Nat /\ pos + Len(Line) \in 0..Len(req.body)
<1>1. req \in Requests /\ pos \in 0..Len(req.body)
  BY DEF CgiInv
<1>2. req.body \in Seq(STRING) /\ Len(req.body) \in Nat
  BY <1>1, RequestIs
<1>3. Len(Line) \in 0..(Len(req.body) - pos)
  BY <1>1, <1>2, LineReads
<1> QED BY <1>1, <1>2, <1>3

LEMMA ReadHeaderKeeps ==
  ASSUME CgiInv, ReadHeader PROVE CgiInv'
<1> DEFINE h == Headers(Line)
<1>1. /\ Line # <<>> /\ h.kind # "none"
      /\ Moves("head", "head") /\ pos' = pos + Len(Line)
      /\ name' = IF name = NULL THEN h.name ELSE name
      /\ filename' = IF filename = NULL THEN h.filename ELSE filename
      /\ UNCHANGED <<value, out, matched, post_body, tmp, lost, fault>>
  BY DEF ReadHeader
<1>2. at = "head" /\ at' = "head" /\ req' = req
  BY <1>1 DEF Moves
<1>3. /\ req \in Requests /\ pos \in 0..Len(req.body) /\ req.body \in Seq(STRING)
      /\ Len(req.body) \in Nat /\ pos' \in 0..Len(req.body)
  BY <1>1, LineRead
<1>4. CASE FromPage
  <2>1. IsPage(req)
    BY <1>3, <1>4, RequestIs
  <2>2. Headers(LineBreak).kind = "none"
    BY CgiAssumption DEF RequestsAreSound, LineBreak
  <2>3. Headers(req.sent.heads[1]).name = <<"file">> /\ Headers(req.sent.heads[1]).filename # NULL
        /\ Headers(req.sent.heads[3]).name = <<"title">> /\ Headers(req.sent.heads[3]).filename = NULL
    BY <2>1 DEF IsPage
  <2>4. AtHead'
    <3>1. CASE /\ post_body = <<>> /\ tmp = <<>> /\ pos = P1(req) /\ name = NULL /\ filename = NULL
               /\ Line = req.sent.heads[1] /\ pos + Len(Line) = P2(req)
      <4>1. name' = <<"file">> /\ filename' = Headers(req.sent.heads[1]).filename
        BY <1>1, <2>3, <3>1
      <4> QED BY <1>1, <1>2, <3>1, <4>1 DEF AtHead
    <3>2. CASE /\ post_body = <<>> /\ tmp = <<>> /\ name = <<"file">>
               /\ filename = Headers(req.sent.heads[1]).filename
               /\ Line = req.sent.heads[2] /\ pos + Len(Line) = P3(req)
      <4>1. name' = name /\ filename' = filename
        BY <1>1, <2>3, <3>2, NoText
      <4> QED BY <1>1, <1>2, <3>2, <4>1 DEF AtHead
    <3>3. CASE Line = LineBreak
      BY <1>1, <2>2, <3>3
    <3>4. CASE /\ FileSaid /\ filename = NULL /\ name = NULL
               /\ Line = req.sent.heads[3] /\ pos + Len(Line) = P8(req)
      <4>1. name' = <<"title">> /\ filename' = NULL
        BY <1>1, <2>3, <3>4
      <4>2. FileSaid'
        BY <1>1, <1>2, <3>4, SameFileSaid
      <4> QED BY <1>1, <1>2, <3>4, <4>1, <4>2 DEF AtHead
    <3>5. CASE pos + Len(Line) = Len(req.body) /\ Fit
      <4>1. Fit'
        BY <1>1, <1>2, <3>5, SameFit
      <4> QED BY <1>1, <1>2, <3>5, <4>1 DEF AtHead
    <3> QED BY <1>2, <1>4, <3>1, <3>2, <3>3, <3>4, <3>5, HeadLine
  <2>5. OfPage'
    BY <1>2, <2>4 DEF OfPage
  <2> QED BY <1>1, <1>3, <1>4, <2>5, MovesKeeps
<1>5. CASE ~FromPage
  <2>1. OfAnother /\ req.type = "multipart" /\ HasNoTitle(req)
    BY <1>2, <1>3, <1>5, RequestIs DEF CgiInv
  <2>2. h.name # <<"title">>
    <3>1. pos < Len(req.body)
      BY <1>1, <1>3, LineReads
    <3>2. PICK n \in (pos + 1)..Len(req.body) : Line = SubSeq(req.body, pos + 1, n)
      BY <1>3, <3>1, LineReads
    <3>3. pos + 1 \in 1..Len(req.body) /\ n \in 1..Len(req.body)
      BY <1>3, <3>1
    <3> QED BY <1>1, <2>1, <3>2, <3>3 DEF HasNoTitle
  <2>3. name' # <<"title">>
    BY <1>1, <2>1, <2>2 DEF OfAnother
  <2>4. OfAnother'
    BY <1>1, <2>1, <2>3 DEF OfAnother
  <2> QED BY <1>1, <1>3, <1>5, <2>4, MovesKeeps
<1> QED BY <1>4, <1>5

\* Another form fits wherever it ends.
LEMMA AnotherFits ==
  ASSUME CgiInv, ~FromPage, at \in {"head", "part", "rest"} PROVE Fit /\ OfAnother
<1>1. OfAnother /\ req \in Requests
  BY DEF CgiInv
<1>2. req.sent.file = NULL
  BY <1>1, RequestIs
<1> QED BY <1>1, <1>2, NoTitleFits DEF OfAnother

LEMMA GiveUpKeeps ==
  ASSUME CgiInv, GiveUp PROVE CgiInv'
<1>1. /\ HeadEnds /\ (name = NULL \/ ~IsBlank)
      /\ Moves("head", "routine") /\ pos' = pos + Len(Line)
      /\ UNCHANGED <<name, filename, value, out, matched, post_body, tmp, lost, fault>>
  BY DEF GiveUp
<1>2. at = "head" /\ at' = "routine" /\ req' = req
  BY <1>1 DEF Moves
<1>3. req \in Requests /\ pos' \in 0..Len(req.body)
  BY <1>1, LineRead
<1>4. Fit
  <2>1. CASE FromPage
    <3>1. IsPage(req)
      BY <1>3, <2>1, RequestIs
    <3>2. \A n \in 1..3 : Headers(req.sent.heads[n]).kind # "none" /\ req.sent.heads[n] # <<>>
      BY <3>1, Zenon DEF IsPage, IsLine
    <3>3. ASSUME NEW n \in 1..3 PROVE Line # req.sent.heads[n]
      BY <1>1, <3>2 DEF HeadEnds
    <3>4. Line # req.sent.heads[1] /\ Line # req.sent.heads[2] /\ Line # req.sent.heads[3]
      BY <3>3
    <3>5. Line = LineBreak => IsBlank
      <4> SUFFICES ASSUME Line = LineBreak PROVE IsBlank
        OBVIOUS
      <4>1. Len(Line) > 1 /\ Line[1] = "CR" /\ Line[2] = "LF"
        BY DEF LineBreak
      <4> QED BY <4>1 DEF IsBlank
    <3>6. Line = LineBreak => name = NULL
      BY <1>1, <3>5
    <3> QED BY <1>2, <2>1, <3>4, <3>6, HeadLine, NoText
  <2>2. CASE ~FromPage
    BY <1>2, <2>2, AnotherFits
  <2> QED BY <2>1, <2>2
<1>5. Fit'
  BY <1>1, <1>2, <1>4, SameFit
<1> QED BY <1>1, <1>3, <1>5, MovesKeeps

LEMMA AppendJoined ==
  ASSUME NEW S, NEW u \in Seq(S), NEW w \in Seq(S), NEW c \in S
  PROVE  u \o Append(w, c) = Append(u \o w, c)
OBVIOUS

LEMMA BeginPartKeeps ==
  ASSUME CgiInv, BeginPart PROVE CgiInv'
<1>1. /\ HeadEnds /\ name # NULL /\ IsBlank
      /\ Moves("head", "part") /\ pos' = pos + Len(Line)
      /\ value' = <<>> /\ matched' = 0
      /\ UNCHANGED <<name, filename, post_body, lost>>
  BY DEF BeginPart
<1>2. at = "head" /\ at' = "part" /\ req' = req
  BY <1>1 DEF Moves
<1>3. /\ req \in Requests /\ pos \in 0..Len(req.body) /\ Len(req.body) \in Nat
      /\ pos' \in 0..Len(req.body)
  BY <1>1, LineRead
<1>4. CASE FromPage
  <2>1. IsPage(req)
    BY <1>3, <1>4, RequestIs
  <2>2. \A n \in 1..3 : Headers(req.sent.heads[n]).kind # "none" /\ req.sent.heads[n] # <<>>
    BY <2>1, Zenon DEF IsPage, IsLine
  <2>3. ASSUME NEW n \in 1..3 PROVE Line # req.sent.heads[n]
    BY <1>1, <2>2 DEF HeadEnds
  <2>4. Line # req.sent.heads[1] /\ Line # req.sent.heads[2] /\ Line # req.sent.heads[3]
    BY <2>3
  <2>5. /\ Headers(req.sent.heads[1]).filename # NULL
        /\ Headers(req.sent.heads[1]).filename = <<>> <=> req.sent.file = NULL
    BY <2>1 DEF IsPage
  <2>6. /\ Len(delimiter) \in Nat /\ delimiter' = delimiter
    <3>1. Delimit(req.boundary) \in Seq(Char)
      BY <1>3, <1>4, <2>1, PageStands, RequestIs
    <3> QED BY <1>2, <3>1, LenProperties DEF delimiter
  <2>7. InData(req.body, delimiter, pos', pos', 0)
    BY <1>3, <2>6, DataBegins
  <2>8. Read(req.body, pos', pos', 0) = <<>>
    <3> DEFINE p == pos'
               s == req.body
    <3>0. s \in Seq(Char)
      BY <1>3, RequestIs
    <3>1. p \in 0..Len(s) /\ Len(s) \in Nat
      BY <1>3
    <3> HIDE DEF p, s
    <3>c. p \in p..Len(s) /\ p - p = 0 /\ p - 0 = p
      BY <3>1
    <3>2. SubSeq(s, p + 1, p) \in Seq(Char) /\ Len(SubSeq(s, p + 1, p)) = p - p
      BY <3>0, <3>1, <3>c, PieceOf
    <3>3. SubSeq(s, p + 1, p) = <<>>
      BY <3>c, <3>2, EmptySeq
    <3>4. Read(s, p, p, 0) = <<>>
      BY <3>c, <3>3 DEF Read
    <3> QED BY <3>4 DEF p, s
  <2>9. CASE /\ post_body = <<>> /\ tmp = <<>> /\ name = <<"file">>
             /\ filename = Headers(req.sent.heads[1]).filename
             /\ Line = LineBreak /\ pos + Len(Line) = P4(req)
    <3>1. /\ pos' = P4(req) /\ post_body' = <<>> /\ name' = <<"file">> /\ filename' # NULL
      BY <1>1, <2>5, <2>9
    <3>2. InData(req.body, delimiter, P4(req), pos', matched')
      BY <1>1, <2>7, <3>1
    <3>3. InFile'
      <4>1. CASE filename \notin {NULL, <<>>} /\ out' = Len(tmp) + 1 /\ tmp' = Append(tmp, <<>>)
        <5>1. req.sent.file # NULL
          BY <2>5, <2>9, <4>1
        <5>2. IsSeq(tmp) /\ Len(tmp) = 0
          BY <2>9, EmptyIsSeq
        <5>3. DOMAIN tmp' = 1..(Len(tmp) + 1) /\ tmp'[Len(tmp) + 1] = <<>>
          BY <4>1, <5>2, AppendIs
        <5>4. out' = 1 /\ 1 \in DOMAIN tmp' /\ tmp'[1] = <<>>
          BY <4>1, <5>2, <5>3
        <5>5. Holding(Read(req.body, P4(req), pos, matched))'
          <6>1. tmp'[1] = Read(req.body, P4(req), pos', matched')
            BY <1>1, <2>8, <3>1, <5>4
          <6> QED BY <1>2, <6>1 DEF Holding
        <5> QED BY <1>2, <2>6, <3>1, <3>2, <5>1, <5>4, <5>5 DEF InFile
      <4>2. CASE filename \in {NULL, <<>>} /\ out' = 0
        <5>1. req.sent.file = NULL
          BY <2>5, <2>9, <4>2
        <5>2. Lost'
          BY <1>2, <5>1 DEF Lost
        <5> QED BY <1>2, <2>6, <3>1, <3>2, <4>2, <5>2 DEF InFile
      <4>3. CASE out' = 0 /\ fault' = TRUE
        <5>1. Lost'
          BY <4>3 DEF Lost
        <5> QED BY <1>2, <2>6, <3>1, <3>2, <4>3, <5>1 DEF InFile
      <4> QED BY <4>1, <4>2, <4>3 DEF BeginPart
    <3>4. OfPage'
      BY <1>2, <3>3 DEF OfPage
    <3> QED BY <1>1, <1>3, <1>4, <3>4, MovesKeeps
  <2>10. CASE /\ FileSaid /\ filename = NULL /\ name = <<"title">>
              /\ Line = LineBreak /\ pos + Len(Line) = P9(req)
    <3>1. out' = 0 /\ UNCHANGED <<tmp, lost, fault>>
      BY <2>10 DEF BeginPart
    <3>2. FileSaid'
      BY <1>1, <1>2, <2>10, <3>1, SameFileSaid
    <3>3. pos' = P9(req) /\ name' = <<"title">> /\ filename' = NULL
      BY <1>1, <2>10
    <3>4. InData(req.body, delimiter, P9(req), pos', matched')
      BY <1>1, <2>7, <3>3
    <3>5. value' = Read(req.body, P9(req), pos', matched')
      BY <1>1, <2>8, <3>3
    <3>6. InTitle'
      BY <1>2, <2>6, <3>1, <3>2, <3>3, <3>4, <3>5 DEF InTitle
    <3>7. OfPage'
      BY <1>2, <3>6 DEF OfPage
    <3> QED BY <1>1, <1>3, <1>4, <3>7, MovesKeeps
  <2> QED BY <1>1, <1>2, <1>4, <2>4, <2>9, <2>10, HeadLine
<1>5. CASE ~FromPage
  <2>1. OfAnother
    BY <1>2, <1>5, AnotherFits
  <2>2. OfAnother'
    BY <1>1, <2>1 DEF OfAnother
  <2> QED BY <1>1, <1>3, <1>5, <2>2, MovesKeeps
<1> QED BY <1>4, <1>5

\* A character is taken into the data of the form of the page.
LEMMA CopyData ==
  ASSUME req \in Requests, FromPage, CopyByte, NEW p,
         InData(req.body, delimiter, p, pos, matched)
  PROVE  /\ InData(req.body, delimiter, p, pos', matched')
         /\ \E piece :
              /\ Copy(piece)
              /\ Read(req.body, p, pos', matched') = Read(req.body, p, pos, matched) \o piece
<1> DEFINE s == req.body
           d == delimiter
           again == SubSeq(d, 1, matched)
           u == Read(s, p, pos, matched)
<1>1. /\ matched < Len(d) /\ pos < Len(s) /\ pos' = pos + 1
  BY DEF CopyByte, InPart
<1>2. /\ s \in Seq(Char) /\ Len(s) \in Nat /\ IsPage(req)
  BY RequestIs
<1>3. IsDelimiter(d) /\ d \in Seq(Char) /\ Len(d) \in Nat
  <2>1. IsDelimiter(d)
    BY <1>2, DelimiterIs DEF delimiter
  <2> HIDE DEF d
  <2> QED BY <2>1, LenProperties DEF IsDelimiter
<1>4. /\ p \in Nat /\ matched \in 0..Len(d) /\ pos \in (p + matched)..Len(s)
      /\ InData(s, d, p, pos, matched)
  BY DEF InData
<1>5. next = s[pos + 1] /\ (Fits <=> s[pos + 1] = d[matched + 1])
  BY DEF next, Fits
<1>6. /\ u \o again = SubSeq(s, p + 1, pos) /\ u \in Seq(Char) /\ again \in Seq(Char)
      /\ SubSeq(s, p + 1, pos) \in Seq(Char)
  <2>1. s \in Seq(Char) /\ d \in Seq(Char) /\ InData(s, d, p, pos, matched)
    BY <1>2, <1>3, <1>4
  <2> HIDE DEF s, d
  <2>2. Read(s, p, pos, matched) \o Front(d, matched) = Read(s, p, pos, 0)
    BY <2>1, ReadOn
  <2>3. Read(s, p, pos, matched) \in Seq(Char) /\ SubSeq(d, 1, matched) \in Seq(Char)
    BY <2>1, ReadIs
  <2>4. SubSeq(s, p + 1, pos) \in Seq(Char)
    BY <2>1, ReadIs
  <2>5. Read(s, p, pos, 0) = SubSeq(s, p + 1, pos) /\ Front(d, matched) = again
    <3>1. pos - 0 = pos
      BY <1>2, <1>3, <1>4
    <3> QED BY <3>1 DEF Read, Front
  <2> QED BY <2>2, <2>3, <2>4, <2>5
<1>7. CASE Fits
  <2>1. Copy(<<>>) /\ matched' = matched + 1
    BY <1>7 DEF CopyByte
  <2>2. InData(s, d, p, pos + 1, matched + 1)
    <3> HIDE DEF s, d
    <3> QED BY <1>1, <1>2, <1>3, <1>4, <1>5, <1>7, DataFits
  <2>3. Read(s, p, pos + 1, matched + 1) = u
    <3>1. (pos + 1) - (matched + 1) = pos - matched
      BY <1>2, <1>3, <1>4
    <3> QED BY <3>1 DEF Read
  <2>4. u \o <<>> = u
    <3> HIDE DEF u
    <3> QED BY <1>6
  <2> QED BY <1>1, <2>1, <2>2, <2>3, <2>4
<1>8. CASE ~Fits /\ next = d[1]
  <2>1. Copy(again) /\ matched' = 1
    BY <1>8 DEF CopyByte
  <2>2. InData(s, d, p, pos + 1, 1)
    <3> HIDE DEF s, d
    <3> QED BY <1>1, <1>2, <1>3, <1>4, <1>5, <1>8, DataParts
  <2>3. Read(s, p, pos + 1, 1) = SubSeq(s, p + 1, pos)
    <3>1. (pos + 1) - 1 = pos
      BY <1>2, <1>3, <1>4
    <3> QED BY <3>1 DEF Read
  <2> QED BY <1>1, <1>6, <2>1, <2>2, <2>3
<1>9. CASE ~Fits /\ next # d[1]
  <2>1. Copy(Append(again, next)) /\ matched' = 0
    BY <1>9 DEF CopyByte
  <2>2. InData(s, d, p, pos + 1, 0)
    <3> HIDE DEF s, d
    <3> QED BY <1>1, <1>2, <1>3, <1>4, <1>5, <1>9, DataParts
  <2>3. Read(s, p, pos + 1, 0) = SubSeq(s, p + 1, pos + 1)
    <3>1. (pos + 1) - 0 = pos + 1
      BY <1>2, <1>3, <1>4
    <3> QED BY <3>1 DEF Read
  <2>4. pos \in p..Len(s) /\ pos + 1 \in 1..Len(s) /\ pos \in Nat
    BY <1>1, <1>2, <1>3, <1>4
  <2>5. Append(SubSeq(s, p + 1, pos), next) = SubSeq(s, p + 1, pos + 1)
    <3> HIDE DEF s
    <3> QED BY <1>1, <1>2, <1>4, <1>5, <2>4, PieceGrows
  <2>6. next \in Char
    <3> HIDE DEF s
    <3> QED BY <1>2, <1>5, <2>4, ElementOfSeq
  <2>7. u \o Append(again, next) = Append(u \o again, next)
    <3>1. u \in Seq(Char) /\ again \in Seq(Char) /\ next \in Char
      BY <1>6, <2>6
    <3> HIDE DEF u, again
    <3> QED BY <3>1, AppendJoined
  <2> QED BY <1>1, <1>6, <2>1, <2>2, <2>3, <2>5, <2>7
<1> QED BY <1>7, <1>8, <1>9

LEMMA CopyByteKeeps ==
  ASSUME CgiInv, CopyByte PROVE CgiInv'
<1>1. /\ pos < Len(req.body) /\ Moves("part", "part") /\ pos' = pos + 1
      /\ UNCHANGED <<name, filename, out, post_body, fault>>
  BY DEF CopyByte, InPart
<1>2. at = "part" /\ at' = "part" /\ req' = req
  BY <1>1 DEF Moves
<1>3. /\ req \in Requests /\ pos \in 0..Len(req.body) /\ Len(req.body) \in Nat
      /\ pos' \in 0..Len(req.body)
  BY <1>1, LineRead
<1>4. delimiter' = delimiter
  BY <1>2 DEF delimiter
<1>5. CASE FromPage /\ InFile
  <2>1. InData(req.body, delimiter, P4(req), pos, matched)
    BY <1>5 DEF InFile
  <2>2. InData(req.body, delimiter, P4(req), pos', matched')
    BY <1>3, <1>5, <2>1, CopyData
  <2>3. PICK piece :
          /\ Copy(piece)
          /\ Read(req.body, P4(req), pos', matched') = Read(req.body, P4(req), pos, matched) \o piece
    BY <1>3, <1>5, <2>1, CopyData
  <2>4. InFile'
    <3>1. CASE out = 0 /\ Lost
      <4>1. Lost'
        BY <1>1, <1>2, <3>1 DEF Lost
      <4> QED BY <1>1, <1>2, <1>4, <1>5, <2>2, <3>1, <4>1 DEF InFile
    <3>2. CASE /\ out = 1 /\ req.sent.file # NULL
               /\ 1 \in DOMAIN tmp /\ Holding(Read(req.body, P4(req), pos, matched))
      <4>1. 1 \in DOMAIN tmp' /\ Holding(Read(req.body, P4(req), pos, matched))'
        <5>1. CASE tmp' = [tmp EXCEPT ![1] = @ \o piece] /\ UNCHANGED lost
          <6>1. 1 \in DOMAIN tmp' /\ tmp'[1] = tmp[1] \o piece
            BY <3>2, <5>1
          <6>2. CASE Unwritten
            <7>1. Unwritten'
              BY <5>1, <6>2, Zenon DEF Unwritten
            <7> QED BY <6>1, <7>1 DEF Holding
          <6>3. CASE tmp[1] = Read(req.body, P4(req), pos, matched)
            <7>1. tmp'[1] = Read(req.body, P4(req), pos', matched')
              BY <2>3, <6>1, <6>3
            <7> QED BY <1>2, <6>1, <7>1 DEF Holding
          <6> QED BY <3>2, <6>2, <6>3 DEF Holding
        <5>2. CASE lost' = TRUE /\ UNCHANGED tmp
          <6>1. Unwritten'
            BY <5>2 DEF Unwritten
          <6> QED BY <3>2, <5>2, <6>1 DEF Holding
        <5>3. \/ tmp' = [tmp EXCEPT ![1] = @ \o piece] /\ UNCHANGED lost
              \/ lost' = TRUE /\ UNCHANGED tmp
          <6>1. Copy(piece) /\ out = 1
            BY <2>3, <3>2
          <6> QED BY <6>1 DEF Copy
        <5> QED BY <5>1, <5>2, <5>3, Zenon
      <4> QED BY <1>1, <1>2, <1>4, <1>5, <2>2, <3>2, <4>1 DEF InFile
    <3> QED BY <1>5, <3>1, <3>2 DEF InFile
  <2>5. OfPage'
    BY <1>2, <2>4 DEF OfPage
  <2> QED BY <1>1, <1>3, <1>5, <2>5, MovesKeeps
<1>6. CASE FromPage /\ InTitle
  <2>1. InData(req.body, delimiter, P9(req), pos, matched)
    BY <1>6 DEF InTitle
  <2>2. InData(req.body, delimiter, P9(req), pos', matched')
    BY <1>3, <1>6, <2>1, CopyData
  <2>3. PICK piece :
          /\ Copy(piece)
          /\ Read(req.body, P9(req), pos', matched') = Read(req.body, P9(req), pos, matched) \o piece
    BY <1>3, <1>6, <2>1, CopyData
  <2>4. filename = NULL /\ out = 0 /\ FileSaid /\ name = <<"title">>
        /\ value = Read(req.body, P9(req), pos, matched)
    BY <1>6 DEF InTitle
  <2>5. value' = value \o piece /\ UNCHANGED <<tmp, lost>>
    BY <2>3, <2>4 DEF Copy
  <2>6. FileSaid'
    BY <1>1, <1>2, <2>4, <2>5, SameFileSaid
  <2>7. InTitle'
    BY <1>1, <1>2, <1>4, <2>2, <2>3, <2>4, <2>5, <2>6 DEF InTitle
  <2>8. OfPage'
    BY <1>2, <2>7 DEF OfPage
  <2> QED BY <1>1, <1>3, <1>6, <2>8, MovesKeeps
<1>7. CASE ~FromPage
  <2>1. OfAnother
    BY <1>2, <1>7, AnotherFits
  <2>2. OfAnother'
    BY <1>1, <2>1 DEF OfAnother
  <2> QED BY <1>1, <1>3, <1>7, <2>2, MovesKeeps
<1> QED BY <1>2, <1>5, <1>6, <1>7 DEF CgiInv, OfPage

\* What the data of the form of the page is where it ends.
LEMMA DataOfPage ==
  ASSUME req \in Requests, FromPage, NEW p, NEW w,
         (p = P4(req) /\ w = FileOf(req)) \/ (p = P9(req) /\ w = req.sent.title),
         InData(req.body, delimiter, p, pos, matched),
         matched = Len(delimiter) \/ pos = Len(req.body)
  PROVE  /\ Read(req.body, p, pos, matched) \in Seq(STRING)
         /\ StartsWith(w, Read(req.body, p, pos, matched))
         /\ matched = Len(delimiter) =>
              /\ Read(req.body, p, pos, matched) = w
              /\ pos = p + Len(w) + Len(delimiter)
         /\ matched # Len(delimiter) => pos = Len(req.body) /\ ~req.sent.whole
<1> DEFINE s == req.body
           b == req.boundary
           d == Delimit(b)
           n == pos - matched
<1>1. IsPage(req) /\ s \in Seq(Char) /\ s \in Seq(STRING) /\ Len(s) \in Nat
  BY RequestIs
<1>2. /\ Places(req) /\ Pieces(req) /\ w \in Seq(Char)
      /\ req.sent.whole => Len(s) = P12(req)
  BY <1>1, PageStands
<1>3. IsDelimiter(d) /\ d = delimiter /\ d \in Seq(Char) /\ Len(d) \in Nat /\ Len(d) >= 4
  <2>1. IsDelimiter(d)
    BY <1>1, DelimiterIs
  <2>2. d = delimiter
    BY DEF delimiter
  <2> HIDE DEF d
  <2> QED BY <2>1, <2>2, LenProperties DEF IsDelimiter
<1>4. IsApart(w, b)
  <2>1. CASE w = req.sent.title
    BY <1>1, <2>1 DEF IsPage
  <2>2. CASE w = FileOf(req) /\ req.sent.file # NULL
    <3>1. w = req.sent.file
      BY <2>2 DEF FileOf
    <3> QED BY <1>1, <2>2, <3>1 DEF IsPage
  <2>3. CASE w = FileOf(req) /\ req.sent.file = NULL
    <3>1. w = <<>> /\ Len(w) = 0
      BY <2>3 DEF FileOf
    <3>2. \A k \in 0..(Len(w) - Len(d)) : FALSE
      <4> HIDE DEF d
      <4> QED BY <1>3, <3>1
    <3> QED BY <3>2 DEF IsApart
  <2> QED BY <2>1, <2>2, <2>3
<1>5. /\ StandsAt(s, p, w) /\ StandsAt(s, p + Len(w), d) /\ p \in Nat /\ Len(w) \in Nat
      /\ p + Len(w) + Len(d) + 4 <= P12(req) /\ P12(req) \in Nat
  <2>0. Len(w) \in Nat /\ Len(d) \in Nat /\ P12(req) \in Nat
    BY <1>2, <1>3, LenProperties, InOrder
  <2>1. CASE p = P4(req) /\ w = FileOf(req)
    <3>1. P4(req) + Len(FileOf(req)) = P5(req) /\ P4(req) \in Nat
          /\ P5(req) + Len(d) + 4 <= P12(req)
      BY <1>2, InOrder
    <3> QED BY <1>2, <2>0, <2>1, <3>1 DEF Pieces
  <2>2. CASE p = P9(req) /\ w = req.sent.title
    <3>1. P9(req) + Len(req.sent.title) = P10(req) /\ P9(req) \in Nat
          /\ P10(req) + Len(d) + 4 <= P12(req)
      BY <1>2, InOrder
    <3> QED BY <1>2, <2>0, <2>2, <3>1 DEF Pieces
  <2> QED BY <2>1, <2>2
<1>6. InData(s, d, p, pos, matched)
  BY <1>3
<1>7. /\ matched \in 0..Len(d) /\ pos \in (p + matched)..Len(s)
  BY <1>6 DEF InData
<1>8. /\ n <= p + Len(w) /\ n \in p..Len(s) /\ (matched = Len(d) => n = p + Len(w))
  <2> HIDE DEF s
  <2> QED BY <1>1, <1>2, <1>3, <1>4, <1>5, <1>6, DataEnds
<1>c. pos \in Nat /\ matched \in Nat /\ n + matched = pos /\ n \in Nat
  <2> HIDE DEF s, d
  <2> QED BY <1>1, <1>3, <1>5, <1>7
<1> HIDE DEF s, d, n
<1>9. StartsWith(w, SubSeq(s, p + 1, n)) /\ (n = p + Len(w) => SubSeq(s, p + 1, n) = w)
  BY <1>1, <1>2, <1>5, <1>8, FrontRead
<1>10. SubSeq(s, p + 1, n) \in Seq(STRING)
  <2> DEFINE S == STRING
  <2>1. s \in Seq(S) /\ p \in 0..Len(s) /\ n \in p..Len(s)
    BY <1>1, <1>5, <1>8
  <2> HIDE DEF S
  <2>2. SubSeq(s, p + 1, n) \in Seq(S)
    BY <2>1, PieceOf
  <2> QED BY <2>2 DEF S
<1>11. Read(s, p, pos, matched) = SubSeq(s, p + 1, n)
  BY DEF Read, n
<1>12. matched = Len(d) => pos = p + Len(w) + Len(d)
  BY <1>3, <1>5, <1>8, <1>c
<1>13. ASSUME matched # Len(d) PROVE pos = Len(s) /\ ~req.sent.whole
  <2>1. pos = Len(s)
    BY <1>3, <1>13 DEF s
  <2>2. ~(Len(s) = P12(req))
    BY <1>3, <1>5, <1>7, <1>8, <1>c, <2>1
  <2> QED BY <1>2, <2>1, <2>2
<1> QED BY <1>3, <1>8, <1>9, <1>10, <1>11, <1>12, <1>13 DEF s

LEMMA EndPartKeeps ==
  ASSUME CgiInv, EndPart PROVE CgiInv'
<1>1. /\ matched = Len(delimiter) \/ pos = Len(req.body)
      /\ Moves("part", "rest")
      /\ post_body' = CASE filename = NULL -> CGI_add_var(post_body, name, value)
                        [] filename # NULL /\ out # 0 ->
                             CGI_add_var(CGI_add_var(post_body, name, TmpName(out)), name, filename)
                        [] OTHER -> post_body
      /\ UNCHANGED <<part, tmp, lost, fault>>
  BY DEF EndPart
<1>2. at = "part" /\ at' = "rest" /\ req' = req /\ pos' = pos /\ name' = name
  BY <1>1 DEF Moves, part
<1>3. /\ req \in Requests /\ pos \in 0..Len(req.body) /\ pos' \in 0..Len(req.body)
  BY <1>2, LineRead
<1>4. CASE FromPage /\ InFile
  <2> DEFINE u == Read(req.body, P4(req), pos, matched)
  <2>1. /\ post_body = <<>> /\ name = <<"file">> /\ filename # NULL
        /\ InData(req.body, delimiter, P4(req), pos, matched)
        /\ \/ out = 0 /\ Lost
           \/ out = 1 /\ req.sent.file # NULL /\ 1 \in DOMAIN tmp /\ Holding(u)
    BY <1>4 DEF InFile
  <2>2. /\ matched = Len(delimiter) =>
             u = FileOf(req) /\ pos = P4(req) + Len(FileOf(req)) + Len(delimiter)
        /\ matched # Len(delimiter) => pos = Len(req.body) /\ ~req.sent.whole
    BY <1>1, <1>3, <1>4, <2>1, DataOfPage
  <2>3. /\ IsVars(post_body') /\ Lacks(post_body', <<"title">>)
        /\ \/ Lacks(post_body', <<"file">>) /\ Lost'
           \/ /\ Holds(post_body', <<"file">>, TmpName(1))
              /\ req.sent.file # NULL /\ 1 \in DOMAIN tmp' /\ (tmp'[1] = u \/ Unwritten')
    <3>1. CASE out = 0 /\ Lost
      <4>1. post_body' = <<>>
        BY <1>1, <2>1, <3>1
      <4>2. Lost'
        BY <1>1, <1>2, <3>1 DEF Lost
      <4> QED BY <4>1, <4>2, EmptyLacks
    <3>2. CASE out = 1 /\ req.sent.file # NULL /\ 1 \in DOMAIN tmp /\ Holding(u)
      <4> DEFINE v == CGI_add_var(<<>>, <<"file">>, TmpName(1))
                 z == CGI_add_var(v, <<"file">>, filename)
      <4>1. post_body' = z
        BY <1>1, <2>1, <3>2
      <4>2. IsVars(v) /\ Holds(v, <<"file">>, TmpName(1)) /\ Lacks(v, <<"title">>)
        BY EmptyLacks, NoText, AddVarSays
      <4> HIDE DEF v
      <4>3. IsVars(z) /\ Holds(z, <<"file">>, TmpName(1)) /\ Lacks(z, <<"title">>)
        BY <4>2, NoText, AddVarSays
      <4> HIDE DEF z
      <4>4. 1 \in DOMAIN tmp' /\ (tmp'[1] = u \/ Unwritten')
        <5>1. tmp' = tmp /\ (Unwritten => Unwritten')
          BY <1>1, Zenon DEF Unwritten
        <5> QED BY <3>2, <5>1 DEF Holding
      <4> QED BY <3>2, <4>1, <4>3, <4>4
    <3> QED BY <2>1, <3>1, <3>2
  <2>4. CASE matched = Len(delimiter)
    <3>1. Places(req)
      BY <1>3, <1>4, RequestIs, PageStands
    <3>2. pos' = P6(req)
      BY <1>2, <2>2, <2>4, <3>1, InOrder DEF delimiter
    <3>3. req.sent.file # NULL => u = req.sent.file
      BY <2>2, <2>4 DEF FileOf
    <3> HIDE DEF u
    <3>4. FileSaid'
      BY <1>2, <2>3, <3>3 DEF FileSaid, Holding
    <3>5. AtRest'
      BY <1>2, <3>2, <3>4 DEF AtRest
    <3>6. OfPage'
      BY <1>2, <3>5 DEF OfPage
    <3> QED BY <1>1, <1>3, <1>4, <3>6, MovesKeeps
  <2>5. CASE matched # Len(delimiter)
    <3>1. title' = NULL
      BY <2>3, NothingThere DEF title
    <3>2. Fit'
      BY <1>2, <2>2, <2>5, <3>1 DEF Fit
    <3>3. pos' = Len(req'.body)
      BY <1>2, <2>2, <2>5
    <3>4. AtRest'
      BY <1>2, <3>2, <3>3 DEF AtRest
    <3>5. OfPage'
      BY <1>2, <3>4 DEF OfPage
    <3> QED BY <1>1, <1>3, <1>4, <3>5, MovesKeeps
  <2> QED BY <2>4, <2>5
<1>5. CASE FromPage /\ InTitle
  <2>1. /\ FileSaid /\ name = <<"title">> /\ filename = NULL
        /\ InData(req.body, delimiter, P9(req), pos, matched)
        /\ value = Read(req.body, P9(req), pos, matched)
    BY <1>5 DEF InTitle
  <2>2. /\ value \in Seq(STRING) /\ StartsWith(req.sent.title, value)
        /\ matched = Len(delimiter) =>
             value = req.sent.title /\ pos = P9(req) + Len(req.sent.title) + Len(delimiter)
        /\ matched # Len(delimiter) => pos = Len(req.body) /\ ~req.sent.whole
    BY <1>1, <1>3, <1>5, <2>1, DataOfPage
  <2>3. post_body' = CGI_add_var(post_body, <<"title">>, value)
    BY <1>1, <2>1
  <2>4. /\ IsVars(post_body') /\ Holds(post_body', <<"title">>, value)
        /\ Lacks(post_body, <<"file">>) => Lacks(post_body', <<"file">>)
        /\ \A x : Holds(post_body, <<"file">>, x) => Holds(post_body', <<"file">>, x)
    BY <2>1, <2>3, NoText, AddVarSays DEF FileSaid
  <2>5. title' = value /\ value # NULL
    BY <2>2, <2>4, LookupIs, NoText DEF title
  <2>6. TitleFits'
    <3>1. req.sent.whole => value = req.sent.title
      BY <2>2
    <3> QED BY <1>2, <2>2, <2>5, <3>1 DEF TitleFits
  <2>7. Fit'
    <3>1. CASE Lacks(post_body, <<"file">>) /\ Lost
      <4>1. archive' = NULL
        BY <2>4, <3>1, NothingThere DEF archive
      <4>2. Lost'
        BY <1>1, <1>2, <3>1 DEF Lost
      <4> QED BY <4>1, <4>2 DEF Fit
    <3>2. CASE /\ Holds(post_body, <<"file">>, TmpName(1))
               /\ 1 \in DOMAIN tmp /\ Holding(req.sent.file)
      <4>1. archive' = TmpName(1)
        BY <2>4, <3>2, LookupIs DEF archive
      <4>2. 1 \in DOMAIN tmp' /\ Holding(req.sent.file)'
        BY <1>1, <1>2, <3>2 DEF Holding, Unwritten
      <4> QED BY <2>6, <4>1, <4>2 DEF Fit
    <3> QED BY <2>1, <3>1, <3>2 DEF FileSaid
  <2>8. AtRest'
    <3>1. CASE matched = Len(delimiter)
      <4>1. Places(req)
        BY <1>3, <1>5, RequestIs, PageStands
      <4>2. pos' = P11(req)
        BY <1>2, <2>2, <3>1, <4>1, InOrder DEF delimiter
      <4> QED BY <1>2, <2>7, <4>2 DEF AtRest
    <3>2. CASE matched # Len(delimiter)
      <4>1. pos' = Len(req'.body)
        BY <1>2, <2>2, <3>2
      <4> QED BY <2>7, <4>1 DEF AtRest
    <3> QED BY <3>1, <3>2
  <2>9. OfPage'
    BY <1>2, <2>8 DEF OfPage
  <2> QED BY <1>1, <1>3, <1>5, <2>9, MovesKeeps
<1>6. CASE ~FromPage
  <2>1. IsVars(post_body) /\ Lacks(post_body, <<"title">>) /\ name # <<"title">>
    BY <1>2, <1>6, AnotherFits DEF OfAnother
  <2>2. ASSUME NEW x
        PROVE  /\ IsVars(CGI_add_var(post_body, name, x))
               /\ Lacks(CGI_add_var(post_body, name, x), <<"title">>)
    BY <2>1, AddVarSays
  <2>3. ASSUME NEW x, NEW y
        PROVE  /\ IsVars(CGI_add_var(CGI_add_var(post_body, name, x), name, y))
               /\ Lacks(CGI_add_var(CGI_add_var(post_body, name, x), name, y), <<"title">>)
    <3> DEFINE v == CGI_add_var(post_body, name, x)
    <3>1. IsVars(v) /\ Lacks(v, <<"title">>)
      BY <2>2
    <3> HIDE DEF v
    <3>2. IsVars(CGI_add_var(v, name, y)) /\ Lacks(CGI_add_var(v, name, y), <<"title">>)
      BY <2>1, <3>1, AddVarSays
    <3> QED BY <3>2 DEF v
  <2>4. IsVars(post_body') /\ Lacks(post_body', <<"title">>)
    <3>1. CASE filename = NULL
      BY <1>1, <2>2, <3>1
    <3>2. CASE filename # NULL /\ out # 0
      BY <1>1, <2>3, <3>2
    <3>3. CASE filename # NULL /\ out = 0
      BY <1>1, <2>1, <3>3
    <3> QED BY <3>1, <3>2, <3>3
  <2>5. OfAnother'
    BY <1>2, <2>1, <2>4 DEF OfAnother
  <2> QED BY <1>1, <1>3, <1>6, <2>5, MovesKeeps
<1>7. FromPage => InFile \/ InTitle
  BY <1>2 DEF CgiInv, OfPage
<1> QED BY <1>4, <1>5, <1>6, <1>7

LEMMA ReadRestKeeps ==
  ASSUME CgiInv, ReadRest PROVE CgiInv'
<1> DEFINE ends == Len(Line) > 3 /\ SubSeq(Line, 1, 4) = <<"-", "-", "CR", "LF">>
           to == IF ends THEN "routine" ELSE "head"
<1>1. /\ Moves("rest", to) /\ pos' = pos + Len(Line) /\ name' = NULL /\ filename' = NULL
      /\ UNCHANGED <<value, out, matched, post_body, tmp, lost, fault>>
  BY DEF ReadRest
<1>2. at = "rest" /\ at' = to /\ req' = req /\ (to = "routine" \/ to = "head")
  BY <1>1 DEF Moves
<1>3. /\ req \in Requests /\ pos \in 0..Len(req.body) /\ req.body \in Seq(STRING)
      /\ Len(req.body) \in Nat /\ pos' \in 0..Len(req.body)
  BY <1>1, LineRead
<1>c. Len(Line) <= 3 => to = "head"
  BY LineRead
<1> HIDE DEF to
<1>4. CASE FromPage
  <2>1. IsPage(req) /\ AtRest
    BY <1>2, <1>3, <1>4, RequestIs DEF CgiInv, OfPage
  <2>2. /\ Places(req) /\ Pieces(req) /\ Len(req.body) <= P12(req)
        /\ OneLine(LineBreak) /\ OneLine(LastLine) /\ Len(LineBreak) = 2 /\ Len(LastLine) = 4
    BY <1>3, <2>1, PageStands, PageLines, ShortPieces
  <2>3. /\ P6(req) + 2 = P7(req) /\ P7(req) <= P12(req) /\ P11(req) + 4 = P12(req)
        /\ P12(req) \in Nat /\ P11(req) \in Nat
    BY <2>2, InOrder
  <2>4. ASSUME pos + Len(Line) = Len(req.body), Fit PROVE CgiInv'
    <3>1. Fit'
      BY <1>1, <1>2, <2>4, SameFit
    <3>2. AtHead'
      BY <1>1, <1>2, <2>4, <3>1 DEF AtHead
    <3>3. to = "head" => OfPage'
      BY <1>2, <3>2 DEF OfPage
    <3> QED BY <1>1, <1>2, <1>3, <1>4, <3>1, <3>3, MovesKeeps
  <2>5. CASE pos = P6(req) /\ FileSaid
    <3>1. \/ Line = LineBreak /\ pos + Len(Line) \in 0..Len(req.body)
          \/ pos + Len(Line) = Len(req.body) /\ ~req.sent.whole
      <4>1. StandsAt(req.body, pos, LineBreak) /\ pos + Len(LineBreak) <= P12(req)
        BY <2>2, <2>3, <2>5 DEF Pieces
      <4> QED BY <1>3, <1>4, <2>2, <4>1, LineOfPage
    <3>2. CASE Line = LineBreak
      <4>0. Len(Line) = 2
        BY <2>2, <3>2
      <4>1. to = "head" /\ pos' = P7(req)
        BY <1>1, <1>c, <2>3, <2>5, <4>0
      <4>2. FileSaid'
        BY <1>1, <1>2, <2>5, SameFileSaid
      <4>3. AtHead'
        BY <1>1, <1>2, <4>1, <4>2 DEF AtHead
      <4>4. OfPage'
        BY <1>2, <4>1, <4>3 DEF OfPage
      <4> QED BY <1>1, <1>3, <1>4, <4>1, <4>4, MovesKeeps
    <3>3. CASE pos + Len(Line) = Len(req.body) /\ ~req.sent.whole
      <4>1. Fit
        BY <2>5, <3>3, NoTitleFits DEF FileSaid
      <4> QED BY <2>4, <3>3, <4>1
    <3> QED BY <3>1, <3>2, <3>3
  <2>6. CASE pos = P11(req) /\ Fit
    <3>1. \/ Line = LastLine /\ pos + Len(Line) \in 0..Len(req.body)
          \/ pos + Len(Line) = Len(req.body)
      <4>1. StandsAt(req.body, pos, LastLine) /\ pos + Len(LastLine) <= P12(req)
        BY <2>2, <2>3, <2>6 DEF Pieces
      <4> QED BY <1>3, <1>4, <2>2, <4>1, LineOfPage
    <3>2. pos + Len(Line) = Len(req.body)
      <4>1. CASE Line = LastLine /\ pos + Len(Line) \in 0..Len(req.body)
        <5>1. pos + Len(Line) = P12(req)
          BY <2>2, <2>3, <2>6, <4>1
        <5> QED BY <1>3, <2>2, <2>3, <4>1, <5>1
      <4> QED BY <3>1, <4>1
    <3> QED BY <2>4, <2>6, <3>2
  <2>7. CASE pos = Len(req.body) /\ Fit
    <3>1. Line = <<>> /\ Len(Line) = 0
      BY <1>3, <2>7, LineReads, EmptySeq
    <3>2. pos + Len(Line) = Len(req.body)
      BY <1>3, <2>7, <3>1
    <3> QED BY <2>4, <2>7, <3>2
  <2> QED BY <2>1, <2>5, <2>6, <2>7 DEF AtRest
<1>5. CASE ~FromPage
  <2>1. Fit /\ OfAnother
    BY <1>2, <1>5, AnotherFits
  <2>2. Fit'
    BY <1>1, <1>2, <2>1, SameFit
  <2>3. OfAnother'
    BY <1>1, <2>1, NoText DEF OfAnother
  <2> QED BY <1>1, <1>2, <1>3, <1>5, <2>2, <2>3, MovesKeeps
<1> QED BY <1>4, <1>5

-----------------------------------------------------------------------------
(* Routine *)

\* A step of Routine that ends it.
LEMMA RoutineEnds ==
  ASSUME CgiInv, NEW from, Routine(from), at' = "done", AlbumAsSent' PROVE CgiInv'
<1>1. req' = req /\ pos' = pos
  BY DEF Routine, part
<1> QED BY <1>1 DEF CgiInv

\* One that makes no album answers what it likes, but that nothing is wrong
\* with the upload of a user.
LEMMA NoAlbum ==
  ASSUME NEW from, Routine(from), album' = NULL,
         status' = 400 /\ cgi_user' # NULL /\ query = <<"upload_photos">> =>
           ~req.sent.whole \/ req.sent.file = NULL \/ fault'
  PROVE  AlbumAsSent'
<1>1. req' = req /\ query' = query
  BY DEF Routine, lists, query
<1> QED BY <1>1 DEF AlbumAsSent

LEMMA RefuseKeeps ==
  ASSUME CgiInv, Refuse PROVE CgiInv'
<1>1. Routine("routine") /\ at = "routine" /\ UNCHANGED <<removed, cgi_user, album, fault>>
  BY DEF Refuse, Routine
<1>2. album = NULL /\ cgi_user = NULL
  BY <1>1 DEF CgiInv
<1>3. at' = "done"
  BY DEF Refuse, Respond
<1>4. AlbumAsSent'
  BY <1>1, <1>2, NoAlbum
<1> QED BY <1>1, <1>3, <1>4, RoutineEnds

LEMMA ListKeeps ==
  ASSUME CgiInv, List PROVE CgiInv'
<1>1. Routine("routine") /\ at = "routine" /\ UNCHANGED <<removed, cgi_user, album, fault>>
  BY DEF List, Routine
<1>2. album = NULL /\ cgi_user = NULL
  BY <1>1 DEF CgiInv
<1>3. at' = "done"
  BY DEF List, Respond
<1>4. AlbumAsSent'
  BY <1>1, <1>2, NoAlbum
<1> QED BY <1>1, <1>3, <1>4, RoutineEnds

LEMMA FindUserKeeps ==
  ASSUME CgiInv, FindUser PROVE CgiInv'
<1>1. /\ Routine("routine") /\ at = "routine" /\ UNCHANGED <<removed, album>>
      /\ query = <<"upload_photos">> \/ query = <<"logout">>
      /\ UNCHANGED <<req, part, lists, tmp, lost>>
  BY DEF FindUser, Routine, Asked
<1>2. /\ album = NULL /\ cgi_user = NULL /\ status = 0 /\ Fit
      /\ req \in Requests /\ pos \in 0..Len(req.body)
  BY <1>1 DEF CgiInv
<1>3. CASE /\ Respond(IF query = <<"logout">> THEN 400 ELSE 403)
           /\ UNCHANGED <<cgi_user, fault>>
  <2>1. at' = "done"
    BY <1>3 DEF Respond
  <2>2. AlbumAsSent'
    BY <1>1, <1>2, <1>3, NoAlbum
  <2> QED BY <1>1, <2>1, <2>2, RoutineEnds
<1>4. CASE at' = query[1] /\ UNCHANGED <<fault, status>>
  <2>1. at' \in {"upload_photos", "logout"}
    BY <1>1, <1>4
  <2>2. req' = req /\ pos' = pos /\ post_body' = post_body /\ UNCHANGED <<tmp, lost>>
    BY <1>1 DEF part, lists
  <2>3. Fit'
    BY <1>2, <1>4, <2>2, SameFit
  <2> QED BY <1>1, <1>2, <1>4, <2>1, <2>2, <2>3 DEF CgiInv
<1>5. CASE fault' = TRUE /\ Respond(500) /\ UNCHANGED cgi_user
  <2>1. at' = "done"
    BY <1>5 DEF Respond
  <2>2. AlbumAsSent'
    BY <1>1, <1>2, <1>5, NoAlbum
  <2> QED BY <1>1, <2>1, <2>2, RoutineEnds
<1> QED BY <1>3, <1>4, <1>5 DEF FindUser

LEMMA UploadKeeps ==
  ASSUME CgiInv, Upload PROVE CgiInv'
<1>1. /\ Routine("upload_photos") /\ at = "upload_photos"
      /\ UNCHANGED <<req, part, lists, tmp, lost, cgi_user>>
  BY DEF Upload, Routine
<1>2. album = NULL /\ Fit
  BY <1>1 DEF CgiInv
<1>3. req' = req /\ query' = query
  BY <1>1 DEF lists, query
<1>4. CASE archive = NULL \/ title = NULL
  <2>1. at' = "done" /\ status' = 400 /\ album' = NULL /\ fault' = fault
    BY <1>2, <1>4 DEF Upload, Respond
  <2>2. ~req.sent.whole \/ req.sent.file = NULL \/ fault'
    <3>1. CASE ~req.sent.whole \/ req.sent.file = NULL
      BY <3>1
    <3>2. CASE archive = NULL /\ Lost
      BY <2>1, <3>2 DEF Lost
    <3>3. CASE archive = TmpName(1) /\ TitleFits
      BY <1>4, <3>3, NoText DEF TitleFits
    <3> QED BY <1>2, <3>1, <3>2, <3>3 DEF Fit
  <2>3. AlbumAsSent'
    BY <1>1, <2>1, <2>2, NoAlbum
  <2> QED BY <1>1, <2>1, <2>3, RoutineEnds
<1>5. CASE ~(archive = NULL \/ title = NULL)
  <2>1. /\ album' = [user |-> cgi_user, title |-> title,
                     file |-> IF IsTmp(archive) THEN tmp[archive[2]] ELSE NULL]
        /\ at' = "done" /\ (status' = 400 => fault')
    <3>1. PICK s \in {303, 400, 500, 507} : Respond(s) /\ fault' = (fault \/ s # 303)
      BY <1>5 DEF Upload
    <3>2. at' = "done" /\ status' = s /\ (s = 400 => s # 303)
      BY <3>1 DEF Respond
    <3>3. s # 303 => fault'
      BY <3>1, Zenon
    <3>4. album' = [user |-> cgi_user, title |-> title,
                    file |-> IF IsTmp(archive) THEN tmp[archive[2]] ELSE NULL]
      BY <1>5 DEF Upload
    <3> QED BY <3>2, <3>3, <3>4
  <2>2. archive = TmpName(1) /\ 1 \in DOMAIN tmp /\ Holding(req.sent.file) /\ TitleFits
    BY <1>2, <1>5 DEF Fit
  <2>3. IsTmp(archive) /\ archive[2] = 1
    <3>1. archive[2] = 1
      BY <2>2 DEF TmpName
    <3> QED BY <2>2, <3>1 DEF IsTmp
  <2>4. (album'.file = req.sent.file \/ Unwritten) /\ album'.title = title
    BY <2>1, <2>2, <2>3 DEF Holding
  <2>5. IF req.sent.whole THEN title = req.sent.title ELSE StartsWith(req.sent.title, title)
    BY <2>2 DEF TitleFits
  <2>6. AlbumAsSent'
    <3>1. /\ album'.file = req'.sent.file \/ lost'
          /\ IF req'.sent.whole THEN album'.title = req'.sent.title
                                ELSE StartsWith(req'.sent.title, album'.title)
      <4>1. album'.file = req'.sent.file \/ lost'
        <5>1. Unwritten => lost'
          BY <1>1, Zenon DEF Unwritten
        <5> QED BY <1>3, <2>4, <5>1
      <4> QED BY <1>3, <2>4, <2>5, <4>1
    <3>2. status' = 400 => fault'
      BY <2>1
    <3> QED BY <3>1, <3>2 DEF AlbumAsSent
  <2> QED BY <1>1, <2>1, <2>6, RoutineEnds
<1> QED BY <1>4, <1>5

LEMMA LoginKeeps ==
  ASSUME CgiInv, Login PROVE CgiInv'
<1>1. /\ Routine("routine") /\ at = "routine" /\ UNCHANGED <<removed, album>>
      /\ query = <<"login">>
  BY DEF Login, Routine, Asked
<1>2. album = NULL /\ at' = "done"
  BY <1>1 DEF CgiInv, Login, Respond
<1>3. query # <<"upload_photos">>
  BY <1>1
<1>4. AlbumAsSent'
  BY <1>1, <1>2, <1>3, NoAlbum
<1> QED BY <1>1, <1>2, <1>4, RoutineEnds

LEMMA LogoutKeeps ==
  ASSUME CgiInv, Logout PROVE CgiInv'
<1>1. Routine("logout") /\ at = "logout" /\ UNCHANGED <<removed, cgi_user, album>>
  BY DEF Logout, Routine
<1>2. album = NULL /\ at' = "done" /\ status' # 400
  BY <1>1 DEF CgiInv, Logout, Respond
<1>3. AlbumAsSent'
  BY <1>1, <1>2, NoAlbum
<1> QED BY <1>1, <1>2, <1>3, RoutineEnds

-----------------------------------------------------------------------------
(* The theorem *)

LEMMA CgiStepKeeps ==
  ASSUME CgiInv, [CgiNext]_cgi_vars PROVE CgiInv'
<1>1. CASE CgiNext
  BY <1>1, GetQueryAndCookiesKeeps, GetUrlencodedKeeps, ReadFirstLineKeeps, ReadHeaderKeeps,
     GiveUpKeeps, BeginPartKeeps, CopyByteKeeps, EndPartKeeps, ReadRestKeeps, RefuseKeeps,
     ListKeeps, FindUserKeeps, UploadKeeps, LoginKeeps, LogoutKeeps DEF CgiNext
<1>2. CASE UNCHANGED cgi_vars
  <2>1. /\ UNCHANGED <<req, at, tmp, lost, cgi_user, album, fault, status, query_list, post_body>>
        /\ UNCHANGED <<pos, name, filename, value, out, matched>>
    BY <1>2 DEF cgi_vars, part, lists
  <2>2. FileSaid' <=> FileSaid
    BY <2>1 DEF FileSaid, Lost, Holding, Unwritten
  <2>3. (Fit' <=> Fit) /\ (AlbumAsSent' <=> AlbumAsSent)
    BY <2>1 DEF Fit, TitleFits, Lost, Holding, Unwritten, title, archive, AlbumAsSent, query
  <2>4. (InFile' <=> InFile) /\ (InTitle' <=> InTitle)
    BY <2>1, <2>2 DEF InFile, InTitle, Lost, Holding, Unwritten, delimiter
  <2>5. (AtHead' <=> AtHead) /\ (AtRest' <=> AtRest)
    BY <2>1, <2>2, <2>3 DEF AtHead, AtRest
  <2>6. (FromPage' <=> FromPage) /\ (OfPage' <=> OfPage) /\ (OfAnother' <=> OfAnother)
    BY <2>1, <2>4, <2>5 DEF FromPage, OfPage, OfAnother
  <2> QED BY <2>1, <2>3, <2>6 DEF CgiInv
<1> QED BY <1>1, <1>2

\* AlbumAsSent, for every request that is from the page or states no title:
\* an album is made of the archive and the title as they were sent, byte by
\* byte, unless the archive could not be written, and a whole form is refused
\* for a reason only (ccgi.c, read_multipart and copyvalue; cgi.cpp,
\* CreateWebAlbum).
THEOREM AlbumsAsSent == CgiSpec => []AlbumAsSent
<1>1. CgiInv => AlbumAsSent
  <2> SUFFICES ASSUME CgiInv, at # "done" PROVE AlbumAsSent
    BY DEF CgiInv
  <2>1. album = NULL /\ status # 400
    BY DEF CgiInv
  <2> QED BY <2>1 DEF AlbumAsSent
<1>2. CgiInv /\ [CgiNext]_cgi_vars => CgiInv'
  BY CgiStepKeeps
<1> QED BY <1>1, <1>2, CgiStarts, PTL DEF CgiSpec

=============================================================================
