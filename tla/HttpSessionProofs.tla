------------------------- MODULE HttpSessionProofs -------------------------
(***************************************************************************)
(* What holds of a session of HttpSession for any requests, however many   *)
(* and however their bytes are cut up on the way.                          *)
(*                                                                         *)
(* The invariant looks at the units the session has not consumed yet: in   *)
(* the buffer first, then on the way, and behind them the first unit of    *)
(* the request that will be sent next. From each of them the rest of its   *)
(* request follows, and then the next request; and what the state of the   *)
(* machine says has been consumed is where they begin.                     *)
(***************************************************************************)
EXTENDS HttpSession, SequenceTheorems, TLAPS

Unconsumed == Len(read_buf) + Len(wire)

Upcoming(i) == IF i <= Len(read_buf) THEN read_buf[i]
               ELSE IF i <= Unconsumed THEN wire[i - Len(read_buf)]
               ELSE Unit(Len(plan) + 1, 1)

Units == (1..MaxRequests) \X Nat

Size(n) == plan[n].head + plan[n].body

\* From the k-th unit of the n-th request, the i-th in the row, all goes on
\* as it was sent.
GoesOn(i, n, k) ==
  /\ n \in 1..Len(plan)
  /\ k \in 1..Size(n)
  /\ i + Size(n) - k <= Unconsumed
  /\ \A j \in 0..(Size(n) - k) : Upcoming(i + j) = Unit(n, k + j)
  /\ Upcoming(i + Size(n) - k + 1) = Unit(n + 1, 1)

InOrder ==
  \A i \in 1..Unconsumed : GoesOn(i, Upcoming(i)[1], Upcoming(i)[2])

\* The number of the request to be answered next.
Current == Len(answers) + 1

\* The machine has the current request in hand.
HasRequest ==
  /\ request.n = Current
  /\ Current <= Len(plan)
  /\ plan[Current].bad = 0

\* The next unit of the stream, as the state of the machine has it.
AtHeader ==
  /\ Upcoming(1) = Unit(Current, 1)
  /\ ~should_wait => Len(read_buf) >= 1

AtBody ==
  /\ HasRequest
  /\ Upcoming(1) = IF plan[Current].body = 0 THEN Unit(Current + 1, 1)
                   ELSE Unit(Current, plan[Current].head + 1)

AtEnd == Upcoming(1) = Unit(Current + 1, 1)

BodyInHand ==
  request.body = [k \in 1..plan[request.n].body |->
                    Unit(request.n, plan[request.n].head + k)]

\* A request that was, or looked, invalid.
Suspect(n) == plan[n].bad > 0 \/ last_headers_len > 0

\* The response in hand answers the current request, or turns it down.
GoodResponse ==
  /\ response.code \in Codes(plan[Current].target)
  /\ plan[Current].bad = 0
  /\ response.keep = keep_alive
  /\ AtEnd

Refusal ==
  /\ response.code = 400
  /\ Suspect(Current)
  /\ ~keep_alive

Place ==
  /\ state \in {"idle", "waiting_for_headers"} => AtHeader
  /\ state \in {"processing_headers", "waiting_for_body"} => AtBody
  /\ state = "processing_request" => HasRequest /\ AtEnd /\ BodyInHand
  /\ state = "responding" =>
       /\ response.n = Current
       /\ Current <= Len(plan)
       /\ GoodResponse \/ Refusal

Response == [n : Nat, code : Nat, keep : BOOLEAN]

Types ==
  /\ state \in States
  /\ should_wait \in BOOLEAN
  /\ read_buf \in Seq(Units)
  /\ last_headers_len \in Nat
  /\ keep_alive \in BOOLEAN
  /\ request \in [n : 0..MaxRequests, body : Seq(Units)]
  /\ response \in Response
  /\ plan \in Seq(Requests)
  /\ wire \in Seq(Units)
  /\ answers \in Seq(Response)
  /\ Len(answers) <= Len(plan)
  /\ Len(plan) <= MaxRequests
  /\ shut \in BOOLEAN
  /\ rushed \in BOOLEAN

\* The answers given answer their requests.
Answers ==
  \A i \in 1..Len(answers) :
    /\ answers[i].n = i
    /\ \/ answers[i].code \in Codes(plan[i].target) /\ plan[i].bad = 0
       \/ answers[i].code = 400 /\ Suspect(i)

\* Until it closes, the session has promised to go on; when it closes, its
\* last answer said so or turned the request down.
Promises ==
  /\ state \in {"idle", "waiting_for_headers", "processing_headers"} =>
       keep_alive
  /\ \A i \in 1..Len(answers) :
       answers[i].keep \/ (i = Len(answers) /\ state = "shutting_down")
  /\ state = "shutting_down" =>
       /\ answers # <<>>
       /\ ~answers[Len(answers)].keep \/ Suspect(Len(answers))
       /\ should_wait => shut
  /\ shut => state = "shutting_down"

SessionInv ==
  /\ Types
  /\ InOrder
  /\ Place
  /\ Answers
  /\ Promises

-----------------------------------------------------------------------------
(* Sequences *)

LEMMA Rest ==
  ASSUME NEW S, NEW s \in Seq(S), NEW d \in 0..Len(s)
  PROVE  /\ SubSeq(s, d + 1, Len(s)) \in Seq(S)
         /\ Len(SubSeq(s, d + 1, Len(s))) = Len(s) - d
         /\ \A i \in 1..(Len(s) - d) : SubSeq(s, d + 1, Len(s))[i] = s[i + d]
<1>1. Len(s) \in Nat /\ \A i \in 1..Len(s) : s[i] \in S
  BY ElementOfSeq, LenProperties
<1>2. /\ d + 1 \in Int /\ Len(s) \in Int /\ d \in Nat
      /\ \A i \in (d + 1)..Len(s) : s[i] \in S
  BY <1>1
<1>3. /\ SubSeq(s, d + 1, Len(s)) \in Seq(S)
      /\ Len(SubSeq(s, d + 1, Len(s))) =
           IF d + 1 <= Len(s) THEN Len(s) - (d + 1) + 1 ELSE 0
      /\ \A i \in 1..(Len(s) - (d + 1) + 1) :
           SubSeq(s, d + 1, Len(s))[i] = s[(d + 1) + i - 1]
  BY <1>2, SubSeqProperties
<1> QED
  BY <1>1, <1>2, <1>3

LEMMA Beginning ==
  ASSUME NEW S, NEW s \in Seq(S), NEW d \in 0..Len(s)
  PROVE  /\ SubSeq(s, 1, d) \in Seq(S)
         /\ Len(SubSeq(s, 1, d)) = d
         /\ \A i \in 1..d : SubSeq(s, 1, d)[i] = s[i]
<1>1. Len(s) \in Nat /\ \A i \in 1..Len(s) : s[i] \in S
  BY ElementOfSeq, LenProperties
<1>2. d \in Int /\ 1 \in Int /\ d \in Nat /\ \A i \in 1..d : s[i] \in S
  BY <1>1
<1>3. /\ SubSeq(s, 1, d) \in Seq(S)
      /\ Len(SubSeq(s, 1, d)) = IF 1 <= d THEN d - 1 + 1 ELSE 0
      /\ \A i \in 1..(d - 1 + 1) : SubSeq(s, 1, d)[i] = s[1 + i - 1]
  BY <1>2, SubSeqProperties
<1> QED
  BY <1>1, <1>2, <1>3

-----------------------------------------------------------------------------
(* The row of units, step by step *)

LEMMA Numbers ==
  ASSUME Types
  PROVE  /\ Len(read_buf) \in Nat /\ Len(wire) \in Nat /\ Len(plan) \in Nat
         /\ Len(answers) \in Nat
         /\ Unconsumed \in Nat
         /\ \A n \in 1..Len(plan) : /\ plan[n] \in Request
                                    /\ plan[n].head \in Nat \ {0}
                                    /\ plan[n].body \in Nat
                                    /\ plan[n].bad \in Nat
                                    /\ plan[n].bad <= plan[n].head
                                    /\ Size(n) \in Nat \ {0}
<1>1. /\ Len(read_buf) \in Nat /\ Len(wire) \in Nat /\ Len(plan) \in Nat
      /\ Len(answers) \in Nat
  BY LenProperties DEF Types
<1>2. ASSUME NEW n \in 1..Len(plan)
      PROVE  /\ plan[n] \in Requests
             /\ plan[n] \in Request
  BY <1>2, ElementOfSeq, HttpSessionAssumption DEF Types
<1>3. ASSUME NEW r \in Request
      PROVE  /\ r.head \in Nat \ {0} /\ r.body \in Nat /\ r.bad \in Nat
             /\ r.head + r.body \in Nat \ {0}
  BY DEF Request
<1> QED
  BY <1>1, <1>2, <1>3, HttpSessionAssumption DEF Unconsumed, Size

\* Reading takes units from the way into the buffer.
LEMMA ReadingKeeps ==
  ASSUME Types, OnRead
  PROVE  /\ read_buf' \in Seq(Units) /\ wire' \in Seq(Units)
         /\ Len(read_buf)' >= 1
         /\ Unconsumed' = Unconsumed
         /\ \A i \in Nat \ {0} : Upcoming(i)' = Upcoming(i)
<1>1. PICK k \in 1..Len(wire) :
        /\ read_buf' = read_buf \o SubSeq(wire, 1, k)
        /\ wire' = SubSeq(wire, k + 1, Len(wire))
  BY DEF OnRead
<1>2. /\ read_buf \in Seq(Units) /\ wire \in Seq(Units) /\ plan' = plan
      /\ Len(read_buf) \in Nat /\ Len(wire) \in Nat /\ k \in 0..Len(wire)
  BY Numbers DEF Types, OnRead
<1> DEFINE taken == SubSeq(wire, 1, k)
<1>3. /\ taken \in Seq(Units)
      /\ Len(taken) = k
      /\ \A i \in 1..k : taken[i] = wire[i]
  BY <1>2, Beginning
<1>4. /\ wire' \in Seq(Units)
      /\ Len(wire') = Len(wire) - k
      /\ \A i \in 1..(Len(wire) - k) : wire'[i] = wire[i + k]
  BY <1>1, <1>2, Rest
<1>5. /\ read_buf' \in Seq(Units)
      /\ Len(read_buf') = Len(read_buf) + k
      /\ \A i \in 1..(Len(read_buf) + k) :
           read_buf'[i] = IF i <= Len(read_buf) THEN read_buf[i]
                          ELSE taken[i - Len(read_buf)]
  <2> HIDE DEF taken
  <2> QED
    BY <1>1, <1>2, <1>3, ConcatProperties DEF taken
<1>6. Unconsumed' = Unconsumed /\ Len(read_buf') >= 1
  BY <1>2, <1>4, <1>5 DEF Unconsumed
<1>7. ASSUME NEW i \in Nat \ {0}
      PROVE  Upcoming(i)' = Upcoming(i)
  <2> HIDE DEF taken
  <2>1. CASE i <= Len(read_buf)
    BY <1>2, <1>5, <2>1 DEF Upcoming
  <2>2. CASE i > Len(read_buf) /\ i <= Len(read_buf) + k
    <3>1. Upcoming(i)' = wire[i - Len(read_buf)]
      BY <1>2, <1>3, <1>5, <2>2 DEF Upcoming
    <3> QED
      BY <1>2, <2>2, <3>1 DEF Upcoming, Unconsumed
  <2>3. CASE i > Len(read_buf) + k /\ i <= Unconsumed
    <3>1. Upcoming(i)' = wire'[i - (Len(read_buf) + k)]
      BY <1>2, <1>5, <1>6, <2>3 DEF Upcoming
    <3>2. i - (Len(read_buf) + k) \in 1..(Len(wire) - k)
      BY <1>2, <2>3 DEF Unconsumed
    <3>3. Upcoming(i)' = wire[(i - (Len(read_buf) + k)) + k]
      BY <1>4, <3>1, <3>2
    <3>4. (i - (Len(read_buf) + k)) + k = i - Len(read_buf)
      BY <1>2
    <3> QED
      BY <1>2, <2>3, <3>3, <3>4 DEF Upcoming
  <2>4. CASE i > Unconsumed
    BY <1>2, <1>5, <1>6, <2>4 DEF Upcoming, Unconsumed
  <2> QED
    BY <1>2, <2>1, <2>2, <2>3, <2>4 DEF Unconsumed
<1> QED
  BY <1>4, <1>5, <1>6, <1>7

\* Truncate moves the row forward.
LEMMA TruncatingShifts ==
  ASSUME Types, NEW d \in 0..Len(read_buf),
         read_buf' = Truncate(read_buf, d), UNCHANGED <<wire, plan>>
  PROVE  /\ read_buf' \in Seq(Units)
         /\ Unconsumed' = Unconsumed - d
         /\ \A i \in Nat \ {0} : Upcoming(i)' = Upcoming(i + d)
<1>1. /\ read_buf' \in Seq(Units)
      /\ Len(read_buf') = Len(read_buf) - d
      /\ \A i \in 1..(Len(read_buf) - d) : read_buf'[i] = read_buf[i + d]
  BY Rest DEF Types, Truncate
<1>2. Len(read_buf) \in Nat /\ Len(wire) \in Nat /\ d \in Nat
  BY Numbers
<1>3. Unconsumed' = Unconsumed - d
  BY <1>1, <1>2 DEF Unconsumed
<1>4. ASSUME NEW i \in Nat \ {0}
      PROVE  Upcoming(i)' = Upcoming(i + d)
  <2>1. CASE i <= Len(read_buf) - d
    BY <1>1, <1>2, <2>1 DEF Upcoming
  <2>2. CASE i > Len(read_buf) - d /\ i <= Unconsumed - d
    <3>1. i - (Len(read_buf) - d) = (i + d) - Len(read_buf)
      BY <1>2
    <3>2. Upcoming(i)' = wire[i - (Len(read_buf) - d)]
      BY <1>1, <1>2, <1>3, <2>2 DEF Upcoming
    <3>3. Upcoming(i + d) = wire[(i + d) - Len(read_buf)]
      BY <1>2, <2>2 DEF Upcoming, Unconsumed
    <3> QED
      BY <3>1, <3>2, <3>3
  <2>3. CASE i > Unconsumed - d
    BY <1>1, <1>2, <1>3, <2>3 DEF Upcoming, Unconsumed
  <2> QED
    BY <1>2, <2>1, <2>2, <2>3 DEF Unconsumed
<1> QED
  BY <1>1, <1>3, <1>4

\* What a client sends comes where the next request was due.
LEMMA SendingExtends ==
  ASSUME Types, NEW r \in Requests, ClientSends(r)
  PROVE  /\ plan' \in Seq(Requests) /\ wire' \in Seq(Units)
         /\ Len(plan)' = Len(plan) + 1 /\ Len(plan)' <= MaxRequests
         /\ \A n \in 1..Len(plan) : plan'[n] = plan[n]
         /\ plan'[Len(plan) + 1] = r
         /\ Unconsumed' = Unconsumed + (r.head + r.body)
         /\ \A i \in 1..(Unconsumed + 1) : Upcoming(i)' = Upcoming(i)
         /\ \A i \in (Unconsumed + 1)..(Unconsumed + (r.head + r.body)) :
              Upcoming(i)' = Unit(Len(plan) + 1, i - Unconsumed)
         /\ \A i : i = Unconsumed + (r.head + r.body) + 1 =>
                     Upcoming(i)' = Unit(Len(plan) + 2, 1)
<1>1. /\ Len(read_buf) \in Nat /\ Len(wire) \in Nat /\ Len(plan) \in Nat
      /\ r.head \in Nat \ {0} /\ r.body \in Nat
  BY Numbers, HttpSessionAssumption DEF Request
<1>2. /\ plan' = Append(plan, r) /\ read_buf' = read_buf
      /\ plan \in Seq(Requests) /\ wire \in Seq(Units)
      /\ Len(plan) < MaxRequests
  BY DEF ClientSends, Types, session
<1>3. /\ plan' \in Seq(Requests)
      /\ Len(plan') = Len(plan) + 1
      /\ \A n \in 1..Len(plan) : plan'[n] = plan[n]
      /\ plan'[Len(plan) + 1] = r
  BY <1>1, <1>2
<1> DEFINE size == r.head + r.body
           sent == [k \in 1..size |-> Unit(Len(plan) + 1, k)]
<1>4. size \in Nat \ {0}
  BY <1>1
<1>5. sent \in Seq(Units) /\ Len(sent) = size
  <2>1. \A k \in 1..size : Unit(Len(plan) + 1, k) \in Units
    BY <1>1, <1>2, HttpSessionAssumption DEF Unit, Units
  <2> QED
    BY <1>4, <2>1
<1>6. wire' = wire \o sent
  BY <1>3 DEF ClientSends
<1>7. /\ wire' \in Seq(Units)
      /\ Len(wire') = Len(wire) + size
      /\ \A i \in 1..(Len(wire) + size) :
           wire'[i] = IF i <= Len(wire) THEN wire[i] ELSE sent[i - Len(wire)]
  <2> HIDE DEF sent, size
  <2> QED
    BY <1>2, <1>5, <1>6, ConcatProperties
<1>8. Unconsumed' = Unconsumed + size
  BY <1>1, <1>2, <1>7 DEF Unconsumed
<1>9. ASSUME NEW i \in 1..Unconsumed
      PROVE  Upcoming(i)' = Upcoming(i)
  <2> HIDE DEF sent
  <2> QED
    BY <1>1, <1>2, <1>4, <1>7, <1>8, SMTT(30) DEF Upcoming, Unconsumed
<1>10. Unconsumed \in Nat /\ Unconsumed = Len(read_buf) + Len(wire)
  BY Numbers DEF Unconsumed
<1>11. ASSUME NEW i \in (Unconsumed + 1)..(Unconsumed + size)
       PROVE  Upcoming(i)' = Unit(Len(plan) + 1, i - Unconsumed)
  <2> HIDE DEF size
  <2>1. Upcoming(i)' = wire'[i - Len(read_buf)]
    BY <1>1, <1>2, <1>4, <1>8, <1>10 DEF Upcoming
  <2>2. /\ i - Len(read_buf) \in 1..(Len(wire) + size)
        /\ ~(i - Len(read_buf) <= Len(wire))
        /\ i - Len(read_buf) - Len(wire) = i - Unconsumed
        /\ i - Unconsumed \in 1..size
    BY <1>1, <1>4, <1>10
  <2>3. wire'[i - Len(read_buf)] = sent[i - Unconsumed]
    <3> HIDE DEF sent
    <3> QED
      BY <1>7, <2>2
  <2> QED
    BY <2>1, <2>2, <2>3
<1>12. ASSUME NEW i, i = Unconsumed + size + 1
       PROVE  Upcoming(i)' = Unit(Len(plan) + 2, 1)
  <2> HIDE DEF size, sent
  <2>1. ~(i <= Len(read_buf')) /\ ~(i <= Unconsumed')
    BY <1>1, <1>2, <1>4, <1>8, <1>10, <1>12
  <2> QED
    BY <1>1, <1>3, <2>1 DEF Upcoming
<1>13. \A i \in 1..(Unconsumed + 1) : Upcoming(i)' = Upcoming(i)
  <2>1. ASSUME NEW i, i = Unconsumed + 1
        PROVE  Upcoming(i)' = Upcoming(i)
    <3>1. /\ i \in (Unconsumed + 1)..(Unconsumed + size) /\ i - Unconsumed = 1
          /\ ~(i <= Len(read_buf)) /\ ~(i <= Unconsumed)
      BY <1>1, <1>4, <1>10, <2>1, SMTT(30)
    <3> QED
      BY <1>11, <3>1 DEF Upcoming
  <2> QED
    BY <1>9, <1>10, <2>1
<1> QED
  BY <1>2, <1>3, <1>7, <1>8, <1>11, <1>12, <1>13, HttpSessionAssumption

\* A unit of the row that is known is where it says.
LEMMA InOrderAt ==
  ASSUME Types, InOrder, NEW i \in 1..Unconsumed, NEW n, NEW k,
         Upcoming(i) = Unit(n, k)
  PROVE  GoesOn(i, n, k)
BY DEF InOrder, Unit

\* A step that leaves the requests alone and moves the row forward keeps it
\* in order.
LEMMA ShiftKeepsOrder ==
  ASSUME Types, InOrder, NEW d \in 0..Unconsumed, plan' = plan,
         Unconsumed' = Unconsumed - d,
         \A i \in Nat \ {0} : Upcoming(i)' = Upcoming(i + d)
  PROVE  InOrder'
<1> SUFFICES ASSUME NEW i \in 1..(Unconsumed - d)
             PROVE  GoesOn(i, Upcoming(i)[1], Upcoming(i)[2])'
  BY DEF InOrder
<1>1. Unconsumed \in Nat /\ d \in Nat /\ i \in Nat \ {0} /\ i + d \in 1..Unconsumed
  BY Numbers, SMTT(30)
<1>8. PICK n, k : n = Upcoming(i + d)[1] /\ k = Upcoming(i + d)[2]
  OBVIOUS
<1>2. GoesOn(i + d, n, k) /\ Upcoming(i)' = Upcoming(i + d)
  BY <1>1, <1>8 DEF InOrder
<1>3. Size(n) \in Nat /\ k \in 1..Size(n) /\ Size(n)' = Size(n)
  BY <1>2, Numbers DEF GoesOn, Size
<1>4. i + Size(n) - k <= Unconsumed'
  BY <1>1, <1>2, <1>3, SMTT(30) DEF GoesOn
<1>5. ASSUME NEW j \in 0..(Size(n) - k)
      PROVE  Upcoming(i + j)' = Unit(n, k + j)
  <2>1. Upcoming(i + j)' = Upcoming((i + j) + d) /\ (i + j) + d = (i + d) + j
    BY <1>1, <1>3
  <2> QED
    BY <1>2, <2>1 DEF GoesOn
<1>6. Upcoming(i + Size(n) - k + 1)' = Unit(n + 1, 1)
  <2>1. PICK m : m = i + Size(n) - k + 1
    OBVIOUS
  <2>2. m \in Nat \ {0} /\ m + d = (i + d) + Size(n) - k + 1
    BY <1>1, <1>3, <2>1
  <2>3. Upcoming(m)' = Unit(n + 1, 1)
    BY <1>2, <2>2 DEF GoesOn
  <2> QED
    BY <1>3, <2>1, <2>3
<1>7. GoesOn(i, n, k)'
  BY <1>2, <1>3, <1>4, <1>5, <1>6 DEF GoesOn
<1> QED
  BY <1>2, <1>7, <1>8

LEMMA SendingKeepsOrder ==
  ASSUME Types, InOrder, NEW r \in Requests, ClientSends(r)
  PROVE  InOrder'
<1> DEFINE size == r.head + r.body
<1>1. /\ Unconsumed \in Nat /\ Len(plan) \in Nat /\ size \in Nat \ {0}
      /\ \A n \in 1..Len(plan) : Size(n) \in Nat \ {0}
  BY Numbers, HttpSessionAssumption DEF Request
<1>2. /\ Len(plan)' = Len(plan) + 1
      /\ \A n \in 1..Len(plan) : plan'[n] = plan[n]
      /\ plan'[Len(plan) + 1] = r
      /\ Unconsumed' = Unconsumed + size
      /\ \A i \in 1..(Unconsumed + 1) : Upcoming(i)' = Upcoming(i)
      /\ \A i \in (Unconsumed + 1)..(Unconsumed + size) :
           Upcoming(i)' = Unit(Len(plan) + 1, i - Unconsumed)
      /\ \A i : i = Unconsumed + size + 1 => Upcoming(i)' = Unit(Len(plan) + 2, 1)
  BY SendingExtends
<1> HIDE DEF size
<1>3. ASSUME NEW i \in 1..Unconsumed
      PROVE  GoesOn(i, Upcoming(i)[1], Upcoming(i)[2])'
  <2>1. PICK n, k : n = Upcoming(i)[1] /\ k = Upcoming(i)[2]
    OBVIOUS
  <2>2. GoesOn(i, n, k)
    BY <2>1 DEF InOrder
  <2>3. /\ n \in 1..Len(plan) /\ Size(n) \in Nat \ {0} /\ k \in 1..Size(n)
        /\ Size(n)' = Size(n)
        /\ i + Size(n) - k <= Unconsumed
    BY <1>1, <1>2, <2>2 DEF GoesOn, Size
  <2>4. n \in 1..Len(plan)' /\ i + Size(n) - k <= Unconsumed'
    BY <1>1, <1>2, <2>3
  <2>5. ASSUME NEW j \in 0..(Size(n) - k)
        PROVE  Upcoming(i + j)' = Unit(n, k + j)
    <3>1. i + j \in 1..(Unconsumed + 1)
      BY <1>1, <2>3
    <3> QED
      BY <1>2, <2>2, <3>1 DEF GoesOn
  <2>6. ASSUME NEW m, m = i + Size(n) - k + 1
        PROVE  Upcoming(m)' = Unit(n + 1, 1)
    <3>1. m \in 1..(Unconsumed + 1)
      BY <1>1, <2>3, <2>6
    <3> QED
      BY <1>2, <2>2, <2>6, <3>1 DEF GoesOn
  <2>7. Upcoming(i + Size(n) - k + 1)' = Unit(n + 1, 1)
    BY <2>3, <2>6
  <2>8. GoesOn(i, n, k)'
    BY <2>3, <2>4, <2>5, <2>7 DEF GoesOn
  <2>9. Upcoming(i)' = Upcoming(i)
    BY <1>1, <1>2
  <2> QED
    BY <2>1, <2>8, <2>9
<1>4. ASSUME NEW i \in (Unconsumed + 1)..(Unconsumed + size)
      PROVE  GoesOn(i, Upcoming(i)[1], Upcoming(i)[2])'
  <2>1. PICK n, k : n = Len(plan) + 1 /\ k = i - Unconsumed
    OBVIOUS
  <2>2. n \in 1..Len(plan)' /\ k \in 1..size /\ Size(n)' = size
    BY <1>1, <1>2, <2>1 DEF Size, size
  <2>3. i + size - k = Unconsumed + size
    BY <1>1, <2>1
  <2>5. ASSUME NEW j \in 0..(size - k)
        PROVE  Upcoming(i + j)' = Unit(n, k + j)
    <3>1. /\ i + j \in (Unconsumed + 1)..(Unconsumed + size)
          /\ (i + j) - Unconsumed = k + j
      BY <1>1, <2>1, <2>2
    <3> QED
      BY <1>2, <2>1, <3>1
  <2>6. ASSUME NEW m, m = i + size - k + 1
        PROVE  Upcoming(m)' = Unit(n + 1, 1)
    <3>1. m = Unconsumed + size + 1 /\ n + 1 = Len(plan) + 2
      BY <1>1, <2>1, <2>6
    <3> QED
      BY <1>2, <3>1
  <2>7. Upcoming(i + Size(n) - k + 1)' = Unit(n + 1, 1)
    BY <2>2, <2>6
  <2>8. GoesOn(i, n, k)'
    BY <1>1, <1>2, <2>2, <2>3, <2>5, <2>7 DEF GoesOn
  <2>9. Upcoming(i)'[1] = n /\ Upcoming(i)'[2] = k
    BY <1>2, <2>1 DEF Unit
  <2> QED
    BY <2>8, <2>9
<1> QED
  BY <1>1, <1>2, <1>3, <1>4 DEF InOrder

\* Steps of the machine that consume nothing.
LEMMA StillInOrder ==
  ASSUME InOrder, UNCHANGED <<read_buf, wire, plan>>
  PROVE  /\ InOrder'
         /\ \A i : Upcoming(i)' = Upcoming(i)
         /\ \A n : Size(n)' = Size(n)
<1>1. Unconsumed' = Unconsumed /\ \A n : Size(n)' = Size(n)
  BY DEF Unconsumed, Size
<1>2. \A i : Upcoming(i)' = Upcoming(i)
  BY <1>1 DEF Upcoming
<1>3. \A i, n, k : GoesOn(i, n, k)' = GoesOn(i, n, k)
  BY <1>1, <1>2 DEF GoesOn
<1> QED
  BY <1>1, <1>2, <1>3 DEF InOrder

-----------------------------------------------------------------------------
(* The header *)

LEMMA HeaderInHand ==
  ASSUME SessionInv, state = "waiting_for_headers", ~should_wait
  PROVE  /\ Len(read_buf) \in Nat \ {0}
         /\ read_buf[1] = Unit(Current, 1)
         /\ Current \in 1..Len(plan)
         /\ GoesOn(1, Current, 1)
         /\ ParseFrom(read_buf) =
              IF plan[Current].bad \in 1..Len(read_buf) THEN invalid_request
              ELSE IF plan[Current].head <= Len(read_buf) THEN plan[Current].head
              ELSE incomplete_headers
<1>1. Len(read_buf) \in Nat \ {0} /\ Upcoming(1) = Unit(Current, 1)
  BY Numbers DEF SessionInv, Place, AtHeader
<1>2. read_buf[1] = Unit(Current, 1)
  BY <1>1 DEF Upcoming
<1>3. 1 \in 1..Unconsumed
  BY <1>1, Numbers DEF Unconsumed, SessionInv
<1>4. GoesOn(1, Current, 1)
  BY <1>1, <1>3, InOrderAt DEF SessionInv
<1>5. Current \in 1..Len(plan)
  BY <1>4 DEF GoesOn
<1>6. read_buf[1][1] = Current
  BY <1>2 DEF Unit
<1> QED
  BY <1>1, <1>2, <1>4, <1>5, <1>6 DEF ParseFrom

\* A header is taken off the buffer only when it is whole and without fault.
LEMMA HeaderTaken ==
  ASSUME SessionInv, state = "waiting_for_headers", ~should_wait,
         NEW len \in ParseResults(read_buf, last_headers_len), len > 0
  PROVE  /\ len = plan[Current].head
         /\ plan[Current].bad = 0
         /\ len \in 1..Len(read_buf)
<1>1. len = ParseFrom(read_buf)
  BY DEF ParseResults, invalid_request, incomplete_headers, crash
<1>2. /\ plan[Current].bad \in Nat /\ plan[Current].head \in Nat \ {0}
      /\ plan[Current].bad <= plan[Current].head
      /\ Len(read_buf) \in Nat
  BY HeaderInHand, Numbers DEF SessionInv
<1>3. /\ ~(plan[Current].bad \in 1..Len(read_buf))
      /\ plan[Current].head <= Len(read_buf)
      /\ len = plan[Current].head
  BY <1>1, <1>2, HeaderInHand DEF invalid_request, incomplete_headers
<1> QED
  BY <1>2, <1>3

LEMMA RefusedForCause ==
  ASSUME SessionInv, state = "waiting_for_headers", ~should_wait,
         invalid_request \in ParseResults(read_buf, last_headers_len)
  PROVE  Suspect(Current)
<1>1. last_headers_len \in Nat /\ Len(read_buf) \in Nat
  BY HeaderInHand DEF SessionInv, Types
<1>2. CASE last_headers_len = 0
  <2>1. ParseFrom(read_buf) = invalid_request
    BY <1>2 DEF ParseResults
  <2>2. plan[Current].head \in Nat /\ plan[Current].bad \in Nat
    BY HeaderInHand, Numbers DEF SessionInv
  <2>3. plan[Current].bad \in 1..Len(read_buf)
    BY <2>1, <2>2, HeaderInHand DEF invalid_request, incomplete_headers
  <2> QED
    BY <1>1, <2>3 DEF Suspect
<1> QED
  BY <1>1, <1>2 DEF Suspect

\* What follows the header of the current request in the row.
LEMMA BehindHeader ==
  ASSUME SessionInv, state = "waiting_for_headers", ~should_wait
  PROVE  Upcoming(1 + plan[Current].head) =
           IF plan[Current].body = 0 THEN Unit(Current + 1, 1)
           ELSE Unit(Current, plan[Current].head + 1)
<1>1. /\ plan[Current].head \in Nat \ {0} /\ plan[Current].body \in Nat
      /\ GoesOn(1, Current, 1)
      /\ Size(Current) = plan[Current].head + plan[Current].body
  BY HeaderInHand, Numbers DEF SessionInv, Size
<1>2. CASE plan[Current].body = 0
  <2>1. 1 + Size(Current) - 1 + 1 = 1 + plan[Current].head
    BY <1>1, <1>2
  <2> QED
    BY <1>1, <1>2, <2>1 DEF GoesOn
<1>3. CASE plan[Current].body # 0
  <2>1. /\ plan[Current].head \in 0..(Size(Current) - 1)
        /\ 1 + plan[Current].head = plan[Current].head + 1
    BY <1>1, <1>3
  <2> QED
    BY <1>1, <1>3, <2>1 DEF GoesOn
<1> QED
  BY <1>2, <1>3

\* What follows the body, and that the body is the one that was sent.
LEMMA WholeBody ==
  ASSUME SessionInv, AtBody, Len(read_buf) = plan[Current].body
  PROVE  /\ SubSeq(read_buf, 1, plan[Current].body) =
              [k \in 1..plan[Current].body |-> Unit(Current, plan[Current].head + k)]
         /\ SubSeq(read_buf, 1, plan[Current].body) \in Seq(Units)
         /\ Upcoming(1 + plan[Current].body) = Unit(Current + 1, 1)
<1> DEFINE head == plan[Current].head
           body == plan[Current].body
<1>1. /\ head \in Nat \ {0} /\ body \in Nat /\ Size(Current) = head + body
      /\ Current \in 1..Len(plan) /\ Len(wire) \in Nat
  BY Numbers DEF SessionInv, Size, AtBody, HasRequest, Current
<1>2. /\ SubSeq(read_buf, 1, body) \in Seq(Units)
      /\ Len(SubSeq(read_buf, 1, body)) = body
      /\ \A k \in 1..body : SubSeq(read_buf, 1, body)[k] = read_buf[k]
  BY <1>1, Beginning DEF SessionInv, Types
<1>3. CASE body = 0
  <2>1. SubSeq(read_buf, 1, body) = <<>>
    BY <1>2, <1>3, EmptySeq
  <2>2. [k \in 1..body |-> Unit(Current, head + k)] = <<>>
    BY <1>3
  <2> QED
    BY <1>2, <1>3, <2>1, <2>2 DEF AtBody
<1>4. CASE body # 0
  <2>1. Upcoming(1) = Unit(Current, head + 1) /\ 1 \in 1..Unconsumed
    BY <1>1, <1>4 DEF AtBody, Unconsumed
  <2>2. GoesOn(1, Current, head + 1)
    BY <2>1, InOrderAt DEF SessionInv
  <2>3. ASSUME NEW k \in 1..body
        PROVE  read_buf[k] = Unit(Current, head + k)
    <3>1. /\ k - 1 \in 0..(Size(Current) - (head + 1)) /\ 1 + (k - 1) = k
          /\ (head + 1) + (k - 1) = head + k
      BY <1>1, SMTT(30)
    <3>2. Upcoming(k) = Unit(Current, head + k)
      BY <2>2, <3>1 DEF GoesOn
    <3> QED
      BY <3>2 DEF Upcoming
  <2>4. 1 + Size(Current) - (head + 1) + 1 = 1 + body
    BY <1>1, SMTT(30)
  <2>5. Upcoming(1 + body) = Unit(Current + 1, 1)
    BY <2>2, <2>4 DEF GoesOn
  <2>6. SubSeq(read_buf, 1, body) = [k \in 1..body |-> Unit(Current, head + k)]
    <3> DEFINE sent == [k \in 1..body |-> Unit(Current, head + k)]
    <3>1. \A k \in 1..body : Unit(Current, head + k) \in Units
      <4>1. \A k \in 1..body : read_buf[k] \in Units
        BY ElementOfSeq DEF SessionInv, Types
      <4> QED
        BY <2>3, <4>1
    <3>2. sent \in Seq(Units) /\ Len(sent) = body /\ \A k \in 1..body : sent[k] = read_buf[k]
      <4> HIDE DEF head, body
      <4> QED
        BY <1>1, <2>3, <3>1
    <3> HIDE DEF sent
    <3>3. SubSeq(read_buf, 1, body) = sent
      BY <1>2, <3>2, SeqEqual
    <3> QED
      BY <3>3 DEF sent
  <2> QED
    BY <1>2, <2>5, <2>6
<1> QED
  BY <1>3, <1>4

-----------------------------------------------------------------------------
(* The steps keep the invariant *)

\* A body is taken off the buffer only when it is all there is.
LEMMA BodyIsAll ==
  ASSUME SessionInv, BodyComplete
  PROVE  /\ AtBody
         /\ request.n = Current
         /\ plan[Current].body = Len(read_buf)
<1>1. AtBody /\ request.n = Current
  BY DEF SessionInv, Place, BodyComplete, InState, AtBody, HasRequest
<1>2. Len(read_buf) \in Nat /\ plan[Current].body \in Nat
  BY <1>1, Numbers DEF SessionInv, AtBody, HasRequest, Current
<1>3. plan[Current].body - Len(read_buf) = 0
  BY <1>1 DEF BodyComplete, BodyArrived
<1> QED
  BY <1>1, <1>2, <1>3

\* How a step moves the row of units.
LEMMA RowMoves ==
  ASSUME SessionInv
  PROVE  /\ OnRead => /\ InOrder'
                      /\ \A i \in Nat \ {0} : Upcoming(i)' = Upcoming(i)
         /\ HeadersComplete =>
              /\ InOrder'
              /\ Upcoming(1)' = Upcoming(1 + plan[Current].head)
              /\ read_buf' \in Seq(Units)
         /\ BodyComplete =>
              /\ InOrder'
              /\ AtBody => Upcoming(1)' = Upcoming(1 + plan[Current].body)
              /\ read_buf' \in Seq(Units)
<1>1. ASSUME OnRead
      PROVE  InOrder' /\ \A i \in Nat \ {0} : Upcoming(i)' = Upcoming(i)
  <2>1. /\ Unconsumed \in Nat /\ plan' = plan
        /\ Unconsumed' = Unconsumed
        /\ \A i \in Nat \ {0} : Upcoming(i)' = Upcoming(i)
    BY <1>1, Numbers, ReadingKeeps DEF OnRead, SessionInv
  <2>2. /\ 0 \in 0..Unconsumed /\ Unconsumed' = Unconsumed - 0
        /\ \A i \in Nat \ {0} : Upcoming(i)' = Upcoming(i + 0)
    BY <2>1
  <2> QED
    BY <2>1, <2>2, ShiftKeepsOrder DEF SessionInv
<1>2. ASSUME NEW d \in 0..Len(read_buf), read_buf' = Truncate(read_buf, d),
             UNCHANGED <<wire, plan>>
      PROVE  /\ InOrder' /\ Upcoming(1)' = Upcoming(1 + d)
             /\ read_buf' \in Seq(Units)
  <2>1. /\ read_buf' \in Seq(Units)
        /\ Unconsumed' = Unconsumed - d
        /\ \A i \in Nat \ {0} : Upcoming(i)' = Upcoming(i + d)
    BY <1>2, TruncatingShifts DEF SessionInv
  <2>2. d \in 0..Unconsumed
    BY Numbers DEF SessionInv, Unconsumed
  <2> QED
    BY <1>2, <2>1, <2>2, ShiftKeepsOrder DEF SessionInv
<1>3. ASSUME HeadersComplete
      PROVE  /\ InOrder' /\ Upcoming(1)' = Upcoming(1 + plan[Current].head)
             /\ read_buf' \in Seq(Units)
  <2>1. PICK len \in ParseResults(read_buf, last_headers_len) :
          len > 0 /\ read_buf' = Truncate(read_buf, len)
    BY <1>3 DEF HeadersComplete
  <2>2. len = plan[Current].head /\ len \in 0..Len(read_buf)
    BY <1>3, <2>1, HeaderTaken, HeaderInHand DEF HeadersComplete, InState
  <2> QED
    BY <1>2, <1>3, <2>1, <2>2 DEF HeadersComplete, InState
<1>4. ASSUME BodyComplete
      PROVE  /\ InOrder' /\ (AtBody => Upcoming(1)' = Upcoming(1 + plan[Current].body))
             /\ read_buf' \in Seq(Units)
  <2>1. AtBody /\ request.n = Current
    BY <1>4, BodyIsAll
  <2>2. plan[Current].body = Len(read_buf)
    BY <1>4, BodyIsAll
  <2>3. plan[Current].body \in 0..Len(read_buf)
    BY <2>2, Numbers DEF SessionInv
  <2> QED
    BY <1>2, <1>4, <2>1, <2>3 DEF BodyComplete, InState
<1> QED
  BY <1>1, <1>3, <1>4

LEMMA OrderStep == ASSUME SessionInv, Next PROVE InOrder'
<1>1. CASE OnRead \/ HeadersComplete \/ BodyComplete
  BY <1>1, RowMoves
<1>2. ASSUME NEW r \in Requests, ClientSends(r)
      PROVE  InOrder'
  BY <1>2, SendingKeepsOrder DEF SessionInv
<1>3. CASE UNCHANGED <<read_buf, wire, plan>>
  BY <1>3, StillInOrder DEF SessionInv
<1> QED
  BY <1>1, <1>2, <1>3 DEF Next, Routine, InState, Idle, HeadersIncomplete,
     HeadersInvalid, HeadersCrash, ProcessingHeaders, BodyIncomplete,
     ProcessingRequest, StatThrows, RespondAndKeep, RespondAndClose, Respond,
     ShuttingDown

LEMMA TypesStep == ASSUME SessionInv, Next PROVE Types'
<1>1. ASSUME OnRead PROVE Types'
  BY <1>1, ReadingKeeps DEF SessionInv, Types, OnRead
<1>2. ASSUME NEW r \in Requests, ClientSends(r)
      PROVE  Types'
  <2>1. /\ plan' \in Seq(Requests) /\ wire' \in Seq(Units)
        /\ Len(plan)' = Len(plan) + 1 /\ Len(plan)' <= MaxRequests
    BY <1>2, SendingExtends DEF SessionInv
  <2>2. Len(answers) \in Nat /\ Len(plan) \in Nat /\ rushed' \in BOOLEAN
    BY <1>2, Numbers DEF SessionInv, ClientSends, Types
  <2> QED
    BY <1>2, <2>1, <2>2 DEF SessionInv, Types, ClientSends, session
<1>3. ASSUME HeadersComplete PROVE Types'
  <2>1. read_buf[1][1] = Current /\ Current \in 0..MaxRequests
    BY <1>3, HeaderInHand, Numbers, HttpSessionAssumption, SMTT(30)
    DEF HeadersComplete, InState, Unit, SessionInv, Types
  <2>2. request' \in [n : 0..MaxRequests, body : Seq(Units)]
    BY <1>3, <2>1 DEF HeadersComplete, SessionInv, Types
  <2> QED
    BY <1>3, <2>2, RowMoves
    DEF HeadersComplete, InState, SessionInv, Types, States
<1>4. ASSUME HeadersIncomplete PROVE Types'
  <2>1. request' \in [n : 0..MaxRequests, body : Seq(Units)]
    BY <1>4, HttpSessionAssumption, EmptySeq DEF HeadersIncomplete, NoRequest
  <2> QED
    BY <1>4, <2>1, Numbers DEF HeadersIncomplete, InState, SessionInv, Types
<1>5. ASSUME HeadersInvalid PROVE Types'
  <2>1. read_buf[1][1] \in Nat
    BY <1>5, HeaderInHand DEF HeadersInvalid, InState, Unit
  <2>2. InitHttpResponse(400) \in Response
    BY DEF InitHttpResponse, Response, SessionInv, Types
  <2>3. \A r \in Response, n \in Nat : [r EXCEPT !.n = n] \in Response
    BY DEF Response
  <2>4. response' \in Response
    BY <1>5, <2>1, <2>2, <2>3 DEF HeadersInvalid
  <2> QED
    BY <1>5, <2>4 DEF HeadersInvalid, InState, SessionInv, Types, States
<1>6. ASSUME BodyComplete PROVE Types'
  <2>1. AtBody /\ request.n = Current
    BY <1>6, BodyIsAll
  <2>2. plan[Current].body = Len(read_buf)
    BY <1>6, BodyIsAll
  <2>3. request' \in [n : 0..MaxRequests, body : Seq(Units)]
    BY <1>6, <2>1, <2>2, WholeBody DEF BodyComplete, SessionInv, Types
  <2> QED
    BY <1>6, <2>3, RowMoves DEF BodyComplete, InState, SessionInv, Types, States
<1>7. ASSUME ProcessingRequest PROVE Types'
  <2>1. PICK code \in Codes(plan[request.n].target) :
          response' = InitHttpResponse(code)
    BY <1>7 DEF ProcessingRequest
  <2>2. code \in Nat
    BY <2>1 DEF Codes, StaticCodes
  <2>3. response' \in Response
    BY <2>1, <2>2 DEF InitHttpResponse, Response, SessionInv, Types
  <2> QED
    BY <1>7, <2>3 DEF ProcessingRequest, InState, SessionInv, Types, States
<1>8. ASSUME Respond, UNCHANGED <<plan, wire, rushed>>, state = "responding",
             state' \in States, should_wait' \in BOOLEAN
      PROVE  Types'
  <2>1. request' \in [n : 0..MaxRequests, body : Seq(Units)]
    BY <1>8, HttpSessionAssumption, EmptySeq DEF Respond, NoRequest
  <2>2. response' \in Response
    BY <1>8 DEF Respond, NoResponse, Response
  <2>3. answers' \in Seq(Response) /\ Len(answers') = Current
    BY <1>8 DEF Respond, SessionInv, Types, Current
  <2>4. Current <= Len(plan)
    BY <1>8 DEF SessionInv, Place
  <2> QED
    BY <1>8, <2>1, <2>2, <2>3, <2>4 DEF Respond, SessionInv, Types
<1>9. ASSUME RespondAndKeep \/ RespondAndClose PROVE Types'
  <2>1. Respond /\ UNCHANGED <<plan, wire, rushed>> /\ state = "responding"
    BY <1>9 DEF RespondAndKeep, RespondAndClose, Respond, InState
  <2>2. state' \in States /\ should_wait' \in BOOLEAN
    BY <1>9 DEF RespondAndKeep, RespondAndClose, States, SessionInv, Types
  <2> QED
    BY <1>8, <2>1, <2>2
<1>10. ASSUME \/ Idle \/ HeadersCrash \/ BodyIncomplete \/ StatThrows
              \/ ShuttingDown \/ ProcessingHeaders
       PROVE  Types'
  BY <1>10 DEF Idle, HeadersCrash, BodyIncomplete, StatThrows, ShuttingDown,
     ProcessingHeaders, InState, SessionInv, Types, States
<1> QED
  BY <1>1, <1>2, <1>3, <1>4, <1>5, <1>6, <1>7, <1>9, <1>10 DEF Next, Routine

\* What a client sends changes nothing of what is in hand.
LEMMA SendingKeepsPlace ==
  ASSUME SessionInv, NEW r \in Requests, ClientSends(r)
  PROVE  Place'
<1>1. /\ UNCHANGED session
      /\ Len(plan)' = Len(plan) + 1
      /\ \A n \in 1..Len(plan) : plan'[n] = plan[n]
      /\ Upcoming(1)' = Upcoming(1)
  <2>1. 1 \in 1..(Unconsumed + 1) /\ Types
    BY Numbers DEF SessionInv
  <2>2. UNCHANGED session
    BY DEF ClientSends
  <2> QED
    BY <2>1, <2>2, SendingExtends
<1>2. UNCHANGED <<state, should_wait, read_buf, last_headers_len, keep_alive,
                  request, response, answers, shut>>
  BY <1>1 DEF session
<1>3. Len(plan) \in Nat /\ Current \in Nat \ {0} /\ Current' = Current
  BY <1>2, Numbers DEF SessionInv, Current
<1>4. AtHeader => AtHeader'
  BY <1>1, <1>2, <1>3 DEF AtHeader
<1>5. HasRequest => HasRequest' /\ plan'[Current] = plan[Current]
  BY <1>1, <1>2, <1>3 DEF HasRequest
<1>6. AtBody => AtBody'
  BY <1>1, <1>3, <1>5 DEF AtBody
<1>7. AtEnd => AtEnd'
  BY <1>1, <1>3 DEF AtEnd
<1>8. HasRequest /\ BodyInHand => BodyInHand'
  BY <1>2, <1>5 DEF BodyInHand, HasRequest
<1>9. Current <= Len(plan) => /\ Current' <= Len(plan)'
                              /\ GoodResponse => GoodResponse'
                              /\ Refusal => Refusal'
  BY <1>1, <1>2, <1>3, <1>7 DEF GoodResponse, Refusal, Suspect
<1> QED
  BY <1>2, <1>3, <1>4, <1>5, <1>6, <1>7, <1>8, <1>9 DEF SessionInv, Place

LEMMA PlaceStep == ASSUME SessionInv, Next PROVE Place'
<1> USE DEF SessionInv
<1>0. Current \in Nat \ {0} /\ Len(read_buf) \in Nat
  BY Numbers DEF Current
<1>1. ASSUME OnRead PROVE Place'
  <2>1. Upcoming(1)' = Upcoming(1) /\ Len(read_buf)' >= 1 /\ Current' = Current
    <3>1. Len(read_buf)' >= 1 /\ Current' = Current
      BY <1>1, ReadingKeeps DEF OnRead, Current
    <3>2. 1 \in Nat \ {0} /\ \A i \in Nat \ {0} : Upcoming(i)' = Upcoming(i)
      BY <1>1, RowMoves
    <3> QED
      BY <3>1, <3>2
  <2> QED
    BY <1>1, <2>1 DEF OnRead, Place, AtHeader, AtBody, HasRequest, AtEnd,
       BodyInHand, GoodResponse, Refusal, Suspect
<1>2. ASSUME HeadersComplete PROVE Place'
  <2>1. /\ state' = "processing_headers" /\ plan' = plan /\ Current' = Current
        /\ read_buf[1][1] = Current /\ Current \in 1..Len(plan)
    BY <1>2, HeaderInHand DEF HeadersComplete, InState, Unit, Current
  <2>2. request'.n = Current
    BY <1>2, <2>1 DEF HeadersComplete, Types
  <2>3. plan[Current].bad = 0
    BY <1>2, HeaderTaken DEF HeadersComplete, InState
  <2>4. Upcoming(1)' = IF plan[Current].body = 0 THEN Unit(Current + 1, 1)
                       ELSE Unit(Current, plan[Current].head + 1)
    BY <1>2, RowMoves, BehindHeader DEF HeadersComplete, InState
  <2>5. AtBody'
    BY <2>1, <2>2, <2>3, <2>4 DEF AtBody, HasRequest
  <2> QED
    BY <2>1, <2>5 DEF Place
<1>3. ASSUME HeadersInvalid PROVE Place'
  <2>1. /\ state' = "responding" /\ plan' = plan /\ Current' = Current
        /\ read_buf[1][1] = Current /\ Current \in 1..Len(plan)
        /\ Suspect(Current)
    BY <1>3, HeaderInHand, RefusedForCause DEF HeadersInvalid, InState, Unit, Current
  <2>2. response'.n = Current /\ response'.code = 400
    BY <1>3, <2>1 DEF HeadersInvalid, InitHttpResponse
  <2>3. Refusal'
    BY <1>3, <2>1, <2>2 DEF HeadersInvalid, Refusal, Suspect
  <2> QED
    BY <2>1, <2>2, <2>3 DEF Place
<1>4. ASSUME BodyComplete PROVE Place'
  <2>1. /\ AtBody /\ request.n = Current /\ plan[Current].body = Len(read_buf)
        /\ state' = "processing_request" /\ plan' = plan /\ Current' = Current
    BY <1>4, BodyIsAll DEF BodyComplete, InState, Current
  <2>2. AtEnd'
    BY <1>4, <2>1, RowMoves, WholeBody DEF AtEnd
  <2>3. /\ request'.n = Current
        /\ request'.body = [k \in 1..plan[Current].body |->
                              Unit(Current, plan[Current].head + k)]
    BY <1>4, <2>1, WholeBody DEF BodyComplete, Types
  <2>4. HasRequest' /\ BodyInHand'
    BY <2>1, <2>3 DEF AtBody, HasRequest, BodyInHand
  <2> QED
    BY <2>1, <2>2, <2>4 DEF Place
<1>5. ASSUME ProcessingRequest PROVE Place'
  <2>1. /\ HasRequest /\ AtEnd /\ state' = "responding"
        /\ Upcoming(1)' = Upcoming(1) /\ Current' = Current /\ plan' = plan
    BY <1>5, StillInOrder DEF ProcessingRequest, InState, Place, Current
  <2>2. PICK code \in Codes(plan[Current].target) :
          response' = InitHttpResponse(code)
    BY <1>5, <2>1 DEF ProcessingRequest, HasRequest
  <2>3. response'.n = Current /\ response'.code = code
    BY <2>1, <2>2 DEF InitHttpResponse, HasRequest
  <2>4. response'.keep = keep_alive'
    BY <1>5, <2>2 DEF InitHttpResponse, ProcessingRequest
  <2>5. GoodResponse'
    BY <2>1, <2>2, <2>3, <2>4 DEF GoodResponse, HasRequest, AtEnd
  <2> QED
    BY <2>1, <2>3, <2>5 DEF Place, HasRequest
<1>6. ASSUME RespondAndKeep PROVE Place'
  <2>1. /\ state' = "idle" /\ should_wait' /\ keep_alive
        /\ Upcoming(1)' = Upcoming(1) /\ Current' = Current + 1
    BY <1>6, StillInOrder DEF RespondAndKeep, Respond, InState, Types, Current
  <2>2. AtEnd
    BY <1>6, <2>1 DEF RespondAndKeep, Respond, InState, Place, Refusal, GoodResponse
  <2>3. AtHeader'
    BY <2>1, <2>2 DEF AtHeader, AtEnd
  <2> QED
    BY <2>1, <2>3 DEF Place
<1>7. ASSUME \/ RespondAndClose \/ ShuttingDown \/ HeadersCrash \/ StatThrows
      PROVE  Place'
  BY <1>7 DEF RespondAndClose, ShuttingDown, HeadersCrash, StatThrows, InState, Place
<1>8. ASSUME Idle \/ HeadersIncomplete PROVE Place'
  <2>1. Upcoming(1)' = Upcoming(1) /\ Current' = Current
    BY <1>8, StillInOrder DEF Idle, HeadersIncomplete, InState, Current
  <2>2. AtHeader'
    BY <1>8, <2>1 DEF Idle, HeadersIncomplete, InState, Place, AtHeader
  <2> QED
    BY <1>8, <2>2 DEF Idle, HeadersIncomplete, InState, Place
<1>9. ASSUME ProcessingHeaders \/ BodyIncomplete PROVE Place'
  <2>1. /\ Upcoming(1)' = Upcoming(1) /\ Current' = Current /\ plan' = plan
        /\ state' = "waiting_for_body" /\ request' = request
    BY <1>9, StillInOrder DEF ProcessingHeaders, BodyIncomplete, InState, Current
  <2>2. AtBody'
    BY <1>9, <2>1
    DEF ProcessingHeaders, BodyIncomplete, InState, Place, AtBody, HasRequest
  <2> QED
    BY <2>1, <2>2 DEF Place
<1>10. ASSUME NEW r \in Requests, ClientSends(r) PROVE Place'
  BY <1>10, SendingKeepsPlace
<1> QED
  BY <1>1, <1>2, <1>3, <1>4, <1>5, <1>6, <1>7, <1>8, <1>9, <1>10
  DEF Next, Routine

\* What an answer adds to the answers.
LEMMA AnswerGiven ==
  ASSUME SessionInv, Respond
  PROVE  /\ Len(answers)' = Current
         /\ \A i \in 1..Len(answers) : answers'[i] = answers[i]
         /\ answers'[Current] = response
         /\ Current \in Nat \ {0} /\ Current = Len(answers) + 1
         /\ Len(answers) \in Nat
         /\ UNCHANGED <<plan, last_headers_len, keep_alive, shut>>
         /\ state = "responding" /\ ~should_wait
         /\ response.n = Current
         /\ GoodResponse \/ Refusal
<1>1. answers \in Seq(Response) /\ response \in Response /\ Len(answers) \in Nat
  BY Numbers DEF SessionInv, Types
<1>2. answers' = Append(answers, response)
  BY DEF Respond
<1>3. /\ Len(answers') = Len(answers) + 1
      /\ \A i \in 1..Len(answers) : answers'[i] = answers[i]
      /\ answers'[Len(answers) + 1] = response
  BY <1>1, <1>2
<1>4. /\ UNCHANGED <<plan, last_headers_len, keep_alive, shut>>
      /\ state = "responding" /\ ~should_wait
      /\ response.n = Current
      /\ GoodResponse \/ Refusal
  BY DEF Respond, InState, SessionInv, Place
<1> QED
  BY <1>1, <1>3, <1>4 DEF Current

LEMMA AnswersStep == ASSUME SessionInv, Next PROVE Answers'
<1>1. /\ Len(answers) \in Nat /\ Len(answers) <= Len(plan) /\ Len(plan) \in Nat
      /\ last_headers_len \in Nat
  BY Numbers DEF SessionInv, Types
<1>2. ASSUME Respond PROVE Answers'
  <2>1. ASSUME NEW i \in 1..Len(answers)
        PROVE  /\ answers'[i].n = i
               /\ \/ answers'[i].code \in Codes(plan'[i].target) /\ plan'[i].bad = 0
                  \/ answers'[i].code = 400 /\ Suspect(i)'
    BY <1>2, AnswerGiven DEF SessionInv, Answers, Suspect
  <2>2. /\ answers'[Current].n = Current
        /\ \/ /\ answers'[Current].code \in Codes(plan'[Current].target)
              /\ plan'[Current].bad = 0
           \/ answers'[Current].code = 400 /\ Suspect(Current)
    BY <1>2, AnswerGiven DEF GoodResponse, Refusal
  <2>3. Suspect(Current) => plan'[Current].bad > 0 \/ last_headers_len' > 0
    BY <1>2, AnswerGiven DEF Suspect
  <2>4. \A i \in 1..Len(answers)' : i \in 1..Len(answers) \/ i = Current
    BY <1>2, AnswerGiven
  <2>5. ASSUME NEW i \in 1..Len(answers)'
        PROVE  /\ answers'[i].n = i
               /\ \/ answers'[i].code \in Codes(plan'[i].target) /\ plan'[i].bad = 0
                  \/ answers'[i].code = 400 /\ Suspect(i)'
    <3>1. CASE i = Current
      BY <2>2, <2>3, <3>1 DEF Suspect
    <3> QED
      BY <2>1, <2>4, <3>1
  <2> QED
    BY <2>5 DEF Answers
<1>3. ASSUME NEW r \in Requests, ClientSends(r) PROVE Answers'
  <2>1. \A n \in 1..Len(plan) : plan'[n] = plan[n]
    BY <1>3, SendingExtends DEF SessionInv
  <2>2. UNCHANGED <<answers, last_headers_len>>
    BY <1>3 DEF ClientSends, session
  <2> QED
    BY <1>1, <2>1, <2>2 DEF SessionInv, Answers, Suspect
<1>4. CASE UNCHANGED <<plan, answers, last_headers_len>>
  BY <1>4 DEF SessionInv, Answers, Suspect
<1>5. CASE HeadersIncomplete
  <2>1. last_headers_len' > 0 /\ UNCHANGED <<plan, answers>>
    BY <1>5, HeaderInHand DEF HeadersIncomplete, InState
  <2> QED
    BY <2>1 DEF SessionInv, Answers, Suspect
<1> QED
  BY <1>2, <1>3, <1>4, <1>5
  DEF Next, Routine, InState, OnRead, Idle, HeadersComplete, HeadersInvalid,
      HeadersCrash, ProcessingHeaders, BodyIncomplete, BodyComplete,
      ProcessingRequest, StatThrows, RespondAndKeep, RespondAndClose,
      ShuttingDown

LEMMA PromisesStep == ASSUME SessionInv, Next PROVE Promises'
<1>1. /\ Len(answers) \in Nat /\ Len(answers) <= Len(plan) /\ Len(plan) \in Nat
      /\ last_headers_len \in Nat /\ answers \in Seq(Response)
  BY Numbers DEF SessionInv, Types
<1>2. ASSUME RespondAndKeep PROVE Promises'
  <2>1. Respond /\ keep_alive /\ state' = "idle"
    BY <1>2 DEF RespondAndKeep
  <2>2. response.keep
    BY <2>1, AnswerGiven DEF GoodResponse, Refusal
  <2>3. \A i \in 1..Len(answers) : answers[i].keep
    BY <2>1, AnswerGiven DEF SessionInv, Promises
  <2>4. \A i \in 1..Len(answers)' : answers'[i].keep
    BY <2>1, <2>2, <2>3, AnswerGiven
  <2>5. ~shut'
    BY <2>1, AnswerGiven DEF SessionInv, Promises
  <2> QED
    BY <2>1, <2>4, <2>5, AnswerGiven DEF Promises
<1>3. ASSUME RespondAndClose PROVE Promises'
  <2>1. Respond /\ ~keep_alive /\ state' = "shutting_down" /\ ~should_wait'
    BY <1>3, AnswerGiven DEF RespondAndClose
  <2>2. \/ ~answers'[Current].keep
        \/ plan'[Current].bad > 0 \/ last_headers_len' > 0
    <3>1. ~response.keep \/ Suspect(Current)
      BY <2>1, AnswerGiven DEF GoodResponse, Refusal
    <3> QED
      BY <2>1, <3>1, AnswerGiven DEF Suspect
  <2>3. \A i \in 1..Len(answers) : answers[i].keep
    BY <2>1, AnswerGiven DEF SessionInv, Promises
  <2>4. \A i \in 1..Len(answers)' : answers'[i].keep \/ i = Len(answers)'
    BY <2>1, <2>3, AnswerGiven
  <2>5. ~shut'
    BY <2>1, AnswerGiven DEF SessionInv, Promises
  <2>6. answers' # <<>>
    BY <2>1, AnswerGiven
  <2>7. ~answers'[Len(answers')].keep \/ Suspect(Len(answers))'
    BY <2>1, <2>2, AnswerGiven DEF Suspect
  <2> QED
    BY <2>1, <2>4, <2>5, <2>6, <2>7 DEF Promises
<1>4. ASSUME NEW r \in Requests, ClientSends(r) PROVE Promises'
  <2>1. \A n \in 1..Len(plan) : plan'[n] = plan[n]
    BY <1>4, SendingExtends DEF SessionInv
  <2>2. UNCHANGED <<state, should_wait, keep_alive, shut, answers, last_headers_len>>
    BY <1>4 DEF ClientSends, session
  <2>3. answers # <<>> => Len(answers) \in 1..Len(plan)
    BY <1>1, EmptySeq
  <2> QED
    BY <2>1, <2>2, <2>3 DEF SessionInv, Promises, Suspect
<1>5. ASSUME ShuttingDown PROVE Promises'
  BY <1>5 DEF ShuttingDown, InState, SessionInv, Promises, Suspect
<1>6. ASSUME OnRead PROVE Promises'
  BY <1>6 DEF OnRead, SessionInv, Promises, Suspect
<1>7. ASSUME HeadersIncomplete PROVE Promises'
  BY <1>7 DEF HeadersIncomplete, InState, SessionInv, Promises, Suspect
<1>8. ASSUME \/ Idle \/ HeadersComplete \/ HeadersInvalid \/ HeadersCrash
             \/ ProcessingHeaders \/ BodyIncomplete \/ BodyComplete
             \/ ProcessingRequest \/ StatThrows
      PROVE  Promises'
  <2>1. /\ state # "shutting_down" /\ state' # "shutting_down"
        /\ UNCHANGED <<shut, answers>>
    BY <1>8 DEF Idle, HeadersComplete, HeadersInvalid, HeadersCrash,
       ProcessingHeaders, BodyIncomplete, BodyComplete, ProcessingRequest,
       StatThrows, InState
  <2>2. state' \in {"idle", "waiting_for_headers", "processing_headers"} =>
          /\ state \in {"idle", "waiting_for_headers", "processing_headers"}
          /\ UNCHANGED keep_alive
    BY <1>8 DEF Idle, HeadersComplete, HeadersInvalid, HeadersCrash,
       ProcessingHeaders, BodyIncomplete, BodyComplete, ProcessingRequest,
       StatThrows, InState
  <2> QED
    BY <2>1, <2>2 DEF SessionInv, Promises
<1> QED
  BY <1>2, <1>3, <1>4, <1>5, <1>6, <1>7, <1>8 DEF Next, Routine

-----------------------------------------------------------------------------
(* The theorems *)

LEMMA InitSessionInv == Init => SessionInv
<1> SUFFICES ASSUME Init PROVE SessionInv
  OBVIOUS
<1>1. Types
  <2>1. <<>> \in Seq(Units) /\ <<>> \in Seq(Requests) /\ <<>> \in Seq(Response)
    BY EmptySeq
  <2>2. Len(answers) <= Len(plan) /\ Len(plan) <= MaxRequests
    BY HttpSessionAssumption DEF Init
  <2>3. /\ request \in [n : 0..MaxRequests, body : Seq(Units)]
        /\ response \in Response
    BY <2>1, HttpSessionAssumption DEF Init, NoRequest, NoResponse, Response
  <2> QED
    BY <2>1, <2>2, <2>3 DEF Init, Types, States
<1>2. Len(read_buf) = 0 /\ Len(wire) = 0 /\ Len(answers) = 0 /\ Len(plan) = 0
  BY DEF Init
<1>3. InOrder
  BY <1>2 DEF InOrder, Unconsumed
<1>4. Place
  BY <1>2 DEF Init, Place, AtHeader, Upcoming, Unconsumed, Current
<1>5. Answers /\ Promises
  BY <1>2 DEF Init, Answers, Promises
<1> QED
  BY <1>1, <1>3, <1>4, <1>5 DEF SessionInv

LEMMA SessionInvStep == SessionInv /\ [Next]_vars => SessionInv'
<1>1. SessionInv /\ Next => SessionInv'
  BY TypesStep, OrderStep, PlaceStep, AnswersStep, PromisesStep DEF SessionInv
<1>2. SessionInv /\ UNCHANGED vars => SessionInv'
  <2> SUFFICES ASSUME SessionInv, UNCHANGED vars PROVE SessionInv'
    OBVIOUS
  <2>1. UNCHANGED <<state, should_wait, read_buf, last_headers_len, keep_alive,
                    request, response, answers, shut, plan, wire, rushed>>
    BY DEF vars, session
  <2>2. Types' /\ Answers' /\ Promises'
    BY <2>1 DEF SessionInv, Types, Answers, Promises, Suspect
  <2>3. InOrder' /\ Upcoming(1)' = Upcoming(1)
    BY <2>1, StillInOrder DEF SessionInv
  <2>4. Place'
    BY <2>1, <2>3 DEF SessionInv, Place, AtHeader, AtBody, HasRequest, AtEnd,
       BodyInHand, GoodResponse, Refusal, Suspect, Current
  <2> QED
    BY <2>2, <2>3, <2>4 DEF SessionInv
<1> QED
  BY <1>1, <1>2

\* The inductive invariant of a session.
THEOREM Invariance == Spec => []SessionInv
  BY InitSessionInv, SessionInvStep, PTL DEF Spec

\* Whichever requests are sent, however many, and however their bytes arrive,
\* a handler gets the whole body of its own request and nothing else, and the
\* n-th response answers the n-th request.
THEOREM RequestsAlwaysIntact == Spec => []RequestsIntact
<1>1. SessionInv => RequestsIntact
  <2> SUFFICES ASSUME SessionInv PROVE RequestsIntact
    OBVIOUS
  <2>1. Seq(Units) \subseteq Seq((1..MaxRequests) \X Nat)
    BY DEF Units
  <2>2. Len(answers) \in 0..MaxRequests
    BY Numbers, HttpSessionAssumption DEF SessionInv, Types
  <2>3. TypeOK
    BY <2>1, <2>2 DEF SessionInv, Types, TypeOK, Response
  <2> QED
    BY <2>3 DEF SessionInv, Place, BodyInHand, Answers, Suspect, RequestsIntact
<1> QED
  BY <1>1, Invariance, PTL

\* A response that promises to keep the connection is followed by a shutdown
\* only where a header was found invalid, and nothing follows a response that
\* announces the end.
THEOREM PromiseAlwaysKept == Spec => []PromiseKept
<1>1. SessionInv => PromiseKept
  BY DEF SessionInv, Promises, Suspect, PromiseKept
<1> QED
  BY <1>1, Invariance, PTL

-----------------------------------------------------------------------------
(* What a TcpSession relies on *)

\* Where the session is, as AppLayer has it.
Where == IF should_wait \/ state = "crashed" THEN "out"
         ELSE IF state = "shutting_down" THEN "done" ELSE "in"

LEMMA LayerStep == SessionInv /\ [Next]_vars => [Layer!Next]_(Layer!vars)
<1> SUFFICES ASSUME SessionInv, [Next]_vars
             PROVE  Layer!Next \/ UNCHANGED <<Where, Len(answers), shut>>
  BY DEF Layer!vars, Where
<1>1. ASSUME OnRead PROVE Layer!Next
  <2>1. shut <=> state = "shutting_down"
    BY <1>1 DEF OnRead, SessionInv, Promises
  <2>2. Where = "out" /\ Where' = (IF shut THEN "done" ELSE "in")
    BY <1>1, <2>1 DEF OnRead, Where
  <2>3. Layer!OnRead
    BY <1>1, <2>2 DEF OnRead, Where, Layer!OnRead
  <2> QED
    BY <2>3 DEF Layer!Next
<1>2. ASSUME RespondAndKeep \/ RespondAndClose PROVE Layer!Next
  <2>1. Respond /\ UNCHANGED shut /\ Len(answers)' = Len(answers) + 1
    <3>1. Respond
      BY <1>2 DEF RespondAndKeep, RespondAndClose
    <3> QED
      BY <3>1, AnswerGiven
  <2>2. state = "responding" /\ ~should_wait
    BY <2>1, AnswerGiven
  <2>3. Where = "in"
    BY <2>2 DEF Where
  <2>4. Where' \in {"out", "done"}
    BY <1>2, <2>2 DEF RespondAndKeep, RespondAndClose, Where
  <2>5. Layer!Send
    BY <2>1, <2>3, <2>4 DEF Where, Layer!Send
  <2> QED
    BY <2>5 DEF Layer!Next
<1>3. ASSUME ShuttingDown PROVE Layer!Next
  <2>1. Where = "done" /\ Where' = "out" /\ shut' = TRUE /\ UNCHANGED answers
    BY <1>3 DEF ShuttingDown, InState, Where
  <2>2. Layer!Shutdown
    BY <2>1 DEF Where, Layer!Shutdown
  <2> QED
    BY <2>2 DEF Layer!Next
<1>4. ASSUME HeadersIncomplete \/ BodyIncomplete \/ HeadersCrash \/ StatThrows
      PROVE  Layer!Next
  <2>1. Where = "in" /\ Where' = "out" /\ UNCHANGED <<answers, shut>>
    BY <1>4 DEF HeadersIncomplete, BodyIncomplete, HeadersCrash, StatThrows,
       InState, Where
  <2>2. Layer!Return
    BY <2>1 DEF Where, Layer!Return
  <2> QED
    BY <2>2 DEF Layer!Next
<1>5. ASSUME \/ Idle \/ HeadersComplete \/ HeadersInvalid \/ ProcessingHeaders
             \/ BodyComplete \/ ProcessingRequest
      PROVE  UNCHANGED <<Where, Len(answers), shut>>
  <2>1. /\ ~should_wait /\ UNCHANGED <<should_wait, answers, shut>>
        /\ state \notin {"shutting_down", "crashed"}
        /\ state' \notin {"shutting_down", "crashed"}
    BY <1>5 DEF Idle, HeadersComplete, HeadersInvalid, ProcessingHeaders,
       BodyComplete, ProcessingRequest, InState
  <2> QED
    BY <2>1 DEF Where
<1>6. ASSUME NEW r \in Requests, ClientSends(r)
      PROVE  UNCHANGED <<Where, Len(answers), shut>>
  BY <1>6 DEF ClientSends, session, Where
<1>7. CASE UNCHANGED vars
  BY <1>7 DEF vars, session, Where
<1> QED
  BY <1>1, <1>2, <1>3, <1>4, <1>5, <1>6, <1>7 DEF Next, Routine

\* A session calls Send at most once in one OnRead, Shutdown only after it,
\* and never Send again after Shutdown: it is the application layer that
\* TcpSession needs.
THEOREM SessionIsAppLayer == Spec => ImplementsAppLayer
<1>1. Init => Layer!Init
  BY DEF Init, Layer!Init
<1> QED
  BY <1>1, LayerStep, Invariance, PTL DEF Spec, ImplementsAppLayer, Layer!Spec

=============================================================================
