---------------------------- MODULE HttpSession ----------------------------
(***************************************************************************)
(* HttpSession: the state machine that takes the bytes of one connection   *)
(* apart into requests and answers them.                                   *)
(*                                                                         *)
(* The bytes are counted in units, of as many bytes as the blank line that *)
(* ends a header takes. A request is a header of "head" units, the last of *)
(* them the blank line, and "body" units of body. The parser meets a fault *)
(* at the unit "bad" of the header, or none (0). "conn" is what the        *)
(* Connection header says and "target" the handler the request reaches.    *)
(*                                                                         *)
(* OnRead and the loop in Routine are cut into one step per state.         *)
(***************************************************************************)
EXTENDS Integers, Sequences

CONSTANTS Requests,     \* the requests clients may send
          Targets,      \* the handlers they may name
          MaxRequests,  \* bound: requests on one connection
          Pipelining,   \* whether the client sends before it is answered
          CutHeaders    \* bound: the requests, from the first, whose headers
                        \* may arrive in pieces

Request == [head : Nat \ {0}, body : Nat, bad : Nat,
            conn : {"none", "keep", "close"}, target : Targets]

ASSUME HttpSessionAssumption ==
  /\ Targets \subseteq {"escape", "root", "static", "upload", "login",
                        "logout", "other"}
  /\ Requests \subseteq Request
  /\ \A r \in Requests : r.bad <= r.head
  /\ MaxRequests \in Nat
  /\ Pipelining \in BOOLEAN
  /\ CutHeaders \in Nat

VARIABLES
  state, should_wait,        \* the machine; should_wait_for_more_data
  read_buf,                  \* units read and not yet consumed
  last_headers_len,
  keep_alive,
  request,                   \* the request in hand: its number and its body
  response,                  \* the response in hand
  plan, wire,                \* what the client has sent; what is still on the way
  answers,                   \* the responses handed to TcpSession::Send
  shut,                      \* TcpSession::Shutdown has been called
  rushed                     \* the client has sent without waiting for an answer

session == <<state, should_wait, read_buf, last_headers_len, keep_alive,
             request, response, answers, shut>>
vars == <<session, plan, wire, rushed>>

States == {"idle", "waiting_for_headers", "processing_headers",
           "waiting_for_body", "processing_request", "responding",
           "shutting_down", "crashed"}

NoRequest == [n |-> 0, body |-> <<>>]
NoResponse == [n |-> 0, code |-> 0, keep |-> FALSE]

\* The k-th unit of the n-th request.
Unit(n, k) == <<n, k>>

Init ==
  /\ state = "idle"
  /\ should_wait = TRUE
  /\ read_buf = <<>>
  /\ last_headers_len = 0
  /\ keep_alive = TRUE
  /\ request = NoRequest
  /\ response = NoResponse
  /\ plan = <<>>
  /\ wire = <<>>
  /\ answers = <<>>
  /\ shut = FALSE
  /\ rushed = FALSE

-----------------------------------------------------------------------------
(* The client *)

\* A client that does not pipeline waits for the answer, and for its leave
\* to go on.
Invited ==
  /\ Len(answers) = Len(plan)
  /\ answers # <<>> => answers[Len(answers)].keep

ClientSends(r) ==
  /\ Len(plan) < MaxRequests
  /\ Pipelining \/ Invited
  /\ rushed' = (rushed \/ ~Invited)
  /\ plan' = Append(plan, r)
  /\ wire' = wire \o [k \in 1..(r.head + r.body) |-> Unit(Len(plan'), k)]
  /\ UNCHANGED session

-----------------------------------------------------------------------------
(* The parser *)

\* The blank lines in the buffer, by the units up to and including them.
HeaderEnds(buf) ==
  {i \in 1..Len(buf) : buf[i][2] = plan[buf[i][1]].head}

\* A unit of a body, which may be a blank line itself.
InBody(u) == u[2] > plan[u[1]].head

invalid_request == -1
incomplete_headers == -2
crash == -3                \* not a result: the process ends

\* parse_request, from the start of the buffer: the length of the header,
\* a fault, or a header that is not all there.
ParseFrom(buf) ==
  LET r == plan[buf[1][1]]
  IN  CASE r.bad \in 1..Len(buf) -> invalid_request
        [] r.bad \notin 1..Len(buf) /\ r.head <= Len(buf) -> r.head
        [] OTHER -> incomplete_headers

\* phr_parse_request may return: unless this is the first try, is_complete
\* looks for a blank line that does not lie before the last length, and does
\* not ask whether it is one in a body. When the buffer is shorter than that,
\* it reads past the end of the buffer, so it may find anything, or end the
\* process.
ParseResults(buf, last) ==
  IF last = 0 THEN {ParseFrom(buf)}
  ELSE IF last > Len(buf) THEN {ParseFrom(buf), invalid_request, crash}
  ELSE IF \E i \in HeaderEnds(buf) : i >= last THEN {ParseFrom(buf)}
  ELSE {incomplete_headers} \cup {ParseFrom(buf) : i \in {j \in last..Len(buf) : InBody(buf[j])}}

-----------------------------------------------------------------------------
(* The states *)

\* ByteArray::Truncate drops the first n units.
\* Mutation: it drops one more.
TruncateMore(buf, n) == SubSeq(buf, n + 2, Len(buf))

Truncate(buf, n) == SubSeq(buf, n + 1, Len(buf))

\* Mutation: the Connection header is always the same.
InitKeepingResponse(code) == [n |-> request.n, code |-> code, keep |-> TRUE]

InitHttpResponse(code) == [n |-> request.n, code |-> code, keep |-> keep_alive]

CutsHeader(u) == u[2] < plan[u[1]].head

\* TcpSession hands over what it read.
OnRead ==
  /\ should_wait
  /\ state # "crashed"
  /\ \E k \in 1..Len(wire) :
       /\ CutsHeader(wire[k]) => wire[k][1] <= CutHeaders
       /\ read_buf' = read_buf \o SubSeq(wire, 1, k)
       /\ wire' = SubSeq(wire, k + 1, Len(wire))
  /\ should_wait' = FALSE
  /\ UNCHANGED <<state, last_headers_len, keep_alive, request, response, plan,
                 answers, shut, rushed>>

InState(s) ==
  /\ state = s
  /\ ~should_wait
  /\ UNCHANGED <<plan, wire, rushed>>

Idle ==
  /\ InState("idle")
  /\ state' = "waiting_for_headers"
  /\ UNCHANGED <<should_wait, read_buf, last_headers_len, keep_alive, request,
                 response, answers, shut>>

HeadersComplete ==
  /\ InState("waiting_for_headers")
  /\ \E len \in ParseResults(read_buf, last_headers_len) :
       len > 0 /\ read_buf' = Truncate(read_buf, len)
  /\ request' = [request EXCEPT !.n = read_buf[1][1]]
  /\ state' = "processing_headers"
  /\ UNCHANGED <<should_wait, last_headers_len, keep_alive, response, answers,
                 shut>>

HeadersIncomplete ==
  /\ InState("waiting_for_headers")
  /\ incomplete_headers \in ParseResults(read_buf, last_headers_len)
  /\ request' = NoRequest
  /\ last_headers_len' = Len(read_buf)
  /\ should_wait' = TRUE
  /\ UNCHANGED <<state, read_buf, keep_alive, response, answers, shut>>

\* The response is begun before the session is marked for closing, so its
\* Connection header does not say so.
HeadersInvalid ==
  /\ InState("waiting_for_headers")
  /\ invalid_request \in ParseResults(read_buf, last_headers_len)
  /\ response' = [InitHttpResponse(400) EXCEPT !.n = read_buf[1][1]]
  /\ keep_alive' = FALSE
  /\ state' = "responding"
  /\ UNCHANGED <<should_wait, read_buf, last_headers_len, request, answers,
                 shut>>

HeadersCrash ==
  /\ InState("waiting_for_headers")
  /\ crash \in ParseResults(read_buf, last_headers_len)
  /\ state' = "crashed"
  /\ UNCHANGED <<should_wait, read_buf, last_headers_len, keep_alive, request,
                 response, answers, shut>>

ProcessingHeaders ==
  /\ InState("processing_headers")
  /\ keep_alive' = \/ plan[request.n].conn = "keep"
                   \/ plan[request.n].conn = "none" /\ keep_alive
  /\ state' = "waiting_for_body"
  /\ UNCHANGED <<should_wait, read_buf, last_headers_len, request, response,
                 answers, shut>>

\* Mutation: the body counts as complete when there is more than it.
BodyExceeded(len) == len - Len(read_buf) < 0

\* The buffer is to hold the body exactly, not at least: the number of
\* missing bytes may be negative.
BodyArrived(len) == len - Len(read_buf) = 0

BodyIncomplete ==
  /\ InState("waiting_for_body")
  /\ ~BodyArrived(plan[request.n].body)
  /\ should_wait' = TRUE
  /\ UNCHANGED <<state, read_buf, last_headers_len, keep_alive, request,
                 response, answers, shut>>

BodyComplete ==
  /\ InState("waiting_for_body")
  /\ BodyArrived(plan[request.n].body)
  /\ request' = [request EXCEPT !.body = SubSeq(read_buf, 1, plan[request.n].body)]
  /\ read_buf' = Truncate(read_buf, plan[request.n].body)
  /\ state' = "processing_request"
  /\ UNCHANGED <<should_wait, last_headers_len, keep_alive, response, answers,
                 shut>>

\* A file not modified since, a date that is none, a file that is missing, or
\* that is there and cannot be read.
StaticCodes == {200, 304, 400, 404, 500}

\* The codes each handler may answer with.
Codes(target) ==
  CASE target = "escape" -> {400}
    [] target = "root"   -> {303}
    [] target = "static" -> StaticCodes
    [] target = "upload" -> {303, 400, 403, 500, 507}
    [] target = "login"  -> {200, 400, 500}
    [] target = "logout" -> {200, 400, 500}
    [] OTHER             -> {404}

ProcessingRequest ==
  /\ InState("processing_request")
  /\ \E code \in Codes(plan[request.n].target) :
       response' = InitHttpResponse(code)
  /\ state' = "responding"
  /\ UNCHANGED <<should_wait, read_buf, last_headers_len, keep_alive, request,
                 answers, shut>>

\* GetFileStat throws when stat() fails for any reason but a missing file,
\* and ProcessStatic, ProcessGetRequest and Routine let it pass.
StatThrows ==
  /\ InState("processing_request")
  /\ plan[request.n].target = "static"
  /\ state' = "crashed"
  /\ UNCHANGED <<should_wait, read_buf, last_headers_len, keep_alive, request,
                 response, answers, shut>>

\* Respond, and the resets of request and response.
Respond ==
  /\ InState("responding")
  /\ answers' = Append(answers, response)
  /\ request' = NoRequest
  /\ response' = NoResponse
  /\ UNCHANGED <<read_buf, last_headers_len, keep_alive, shut>>

\* Mutation: after an answer the machine goes on with what it has.
RespondAndGoOn ==
  /\ Respond
  /\ keep_alive
  /\ state' = "idle"
  /\ UNCHANGED should_wait

RespondAndKeep ==
  /\ Respond
  /\ keep_alive
  /\ state' = "idle"
  /\ should_wait' = TRUE

\* Mutation: the session waits before it shuts down.
RespondAndWait ==
  /\ Respond
  /\ ~keep_alive
  /\ state' = "idle"
  /\ should_wait' = TRUE

RespondAndClose ==
  /\ Respond
  /\ ~keep_alive
  /\ state' = "shutting_down"
  /\ UNCHANGED should_wait

ShuttingDown ==
  /\ InState("shutting_down")
  /\ shut' = TRUE
  /\ should_wait' = TRUE
  /\ UNCHANGED <<state, read_buf, last_headers_len, keep_alive, request,
                 response, answers>>

-----------------------------------------------------------------------------
Routine ==
  \/ Idle
  \/ HeadersComplete \/ HeadersIncomplete \/ HeadersInvalid \/ HeadersCrash
  \/ ProcessingHeaders
  \/ BodyIncomplete \/ BodyComplete
  \/ ProcessingRequest \/ StatThrows
  \/ RespondAndKeep \/ RespondAndClose
  \/ ShuttingDown

Next == OnRead \/ Routine \/ \E r \in Requests : ClientSends(r)

Spec == Init /\ [][Next]_vars

\* The loop of the server reads what has come, and Routine does not stop
\* before it has to wait.
FairSpec == Spec /\ WF_vars(OnRead \/ Routine)

TypeOK ==
  /\ state \in States
  /\ should_wait \in BOOLEAN
  /\ read_buf \in Seq((1..MaxRequests) \X Nat)
  /\ last_headers_len \in Nat
  /\ keep_alive \in BOOLEAN
  /\ request.n \in 0..MaxRequests
  /\ request.body \in Seq((1..MaxRequests) \X Nat)
  /\ response.keep \in BOOLEAN
  /\ plan \in Seq(Requests)
  /\ wire \in Seq((1..MaxRequests) \X Nat)
  /\ Len(answers) \in 0..MaxRequests
  /\ shut \in BOOLEAN
  /\ rushed \in BOOLEAN

-----------------------------------------------------------------------------
(* Properties *)

\* However the bytes are cut up on the way, a handler is given the body of
\* its own request, whole, and the n-th response answers the n-th request,
\* in a way its handler may answer; and everything has its type.
RequestsIntact ==
  /\ TypeOK
  /\ state = "processing_request" =>
       request.body = [k \in 1..plan[request.n].body |->
                         Unit(request.n, plan[request.n].head + k)]
  /\ \A i \in 1..Len(answers) :
       /\ answers[i].n = i
       /\ \/ answers[i].code \in Codes(plan[i].target) /\ plan[i].bad = 0
          \/ answers[i].code = 400 /\ (plan[i].bad > 0 \/ last_headers_len > 0)

\* A response that promises to keep the connection is not followed by a
\* shutdown, and one that announces the end is the last one. A header that
\* is found invalid is the exception: see HeadersInvalid.
PromiseKept ==
  \A i \in 1..Len(answers) :
    IF answers[i].keep
    THEN shut /\ i = Len(answers) => plan[i].bad > 0 \/ last_headers_len > 0
    ELSE i = Len(answers)

\* A client that waits for each answer is answered, or the connection is
\* shut down or lost with the process, unless the search for the end of the
\* header starts behind it, where an earlier header had got to.
Answered ==
  \A n \in 1..MaxRequests :
    Len(plan) >= n ~> \/ Len(answers) >= n \/ shut \/ state = "crashed"
                      \/ rushed
                      \/ n <= Len(plan) /\ last_headers_len > plan[n].head

\* After a response that announces the end, Shutdown is called.
EndsAsAnnounced ==
  (\E i \in 1..Len(answers) : ~answers[i].keep) ~> shut

\* picohttpparser.h: the parser returns -2 "if request is partial". The
\* session waits although the header in its buffer is whole, when the header
\* of an earlier request was longer and came in pieces.
WaitsForMissingHeader ==
  state = "waiting_for_headers" /\ should_wait =>
    ParseFrom(read_buf) = incomplete_headers

\* ProcessStateWaitingForBody logs that bytes of the body are missing. With
\* a client that does not wait for the answer, there are too many.
WaitsForMissingBody ==
  state = "waiting_for_body" /\ should_wait =>
    Len(read_buf) < plan[request.n].body

\* What TcpSession relies on.
Layer == INSTANCE AppLayer WITH
  where <- IF should_wait \/ state = "crashed" THEN "out"
           ELSE IF state = "shutting_down" THEN "done" ELSE "in",
  sends <- Len(answers)

ImplementsAppLayer == Layer!Spec

=============================================================================
