---------------------------- MODULE RequestHead ----------------------------
(***************************************************************************)
(* How the server reads the head of a request: what has arrived of it is   *)
(* given to picohttpparser from its beginning, again with every piece that *)
(* comes, until the blank line is there; then HttpSession takes out of the *)
(* fields what it wants to know.                                           *)
(*                                                                         *)
(* A text is a sequence of characters, or of words where their characters  *)
(* do not matter: "HTTP/1." is one. Control characters are "CR", "LF" and  *)
(* "NUL".                                                                  *)
(***************************************************************************)
EXTENDS Texts, SequencesExt

CONSTANTS
  Heads,           \* texts of requests, and what the client means by them
  MAX_HTTP_HEADERS,
  NameStarts(_, _) \* the name of a field is the beginning of a known name

VARIABLES
  request,          \* what the client sends
  arrived,          \* how much of it has arrived
  progress,         \* "waiting", "headers", "processing", "refused" or "read"
  last_headers_len,
  n_headers,
  head,             \* what the parser returned
  taken             \* what the session has taken out of it

head_vars == <<request, arrived, progress, last_headers_len, n_headers, head, taken>>

Defaults == [keep_alive |-> TRUE, body_len |-> 0, cookie |-> NULL,
             if_modified_since |-> NULL, boundary |-> NULL]

\* Before anything is read.
HeadStart ==
  /\ arrived = 0
  /\ progress = "waiting"
  /\ last_headers_len = 0
  /\ n_headers = MAX_HTTP_HEADERS
  /\ head = NULL
  /\ taken = Defaults

HeadInit ==
  /\ request \in Heads
  /\ HeadStart

-----------------------------------------------------------------------------
(* The parser. Its functions take a place in the text and return the place *)
(* where they stop, or why they cannot, which they also take and pass on.  *)

invalid == -1
incomplete == -2

\* The first place from p on with one of the characters, or the end.
Find(s, p, chars) ==
  CHOOSE q \in p..Len(s) \cup {Len(s) + 1} :
    (q <= Len(s) => s[q] \in chars) /\ \A m \in p..(q - 1) : s[m] \notin chars

SP == " "
Control == {"CR", "LF", "NUL"}
Blank == {SP, "HT"}

EndOfLine(s, p) ==
  IF p < 0 THEN p
  ELSE CASE p > Len(s) \/ (p = Len(s) /\ s[p] = "CR") -> incomplete
         [] p <= Len(s) /\ s[p] = "LF" -> p + 1
         [] p < Len(s) /\ s[p] = "CR" /\ s[p + 1] = "LF" -> p + 2
         [] OTHER -> invalid

\* To the blank behind a token.
ADVANCE_TOKEN(s, p) ==
  IF p < 0 THEN p
  ELSE LET q == Find(s, p, Control \cup {SP})
       IN  IF q > Len(s) THEN incomplete ELSE IF s[q] = SP THEN q ELSE invalid

Digits == {"0", "1"}

parse_http_version(s, p) ==
  CASE p < 0 -> p
    [] p > Len(s) -> incomplete
    [] p \in 1..Len(s) /\ s[p] # "HTTP/1." -> invalid
    [] p \in 1..Len(s) /\ s[p] = "HTTP/1." ->
         LET q == Find(s, p + 1, {s[m] : m \in (p + 1)..Len(s)} \ Digits)
         IN  IF q > Len(s) THEN incomplete ELSE IF q = p + 1 THEN invalid ELSE q

\* A field that begins at p: a line that begins with a blank has no name.
Field(s, p, folded) ==
  LET colon == Find(s, p, {":", "/"} \cup Blank \cup Control)
      from  == IF folded THEN p
               ELSE Find(s, colon + 1, {s[m] : m \in (colon + 1)..Len(s)} \ Blank)
      eol   == Find(s, from, Control)
  IN  [name  |-> IF folded THEN <<>> ELSE SubSeq(s, p, colon - 1),
       value |-> SubSeq(s, from, eol - 1),
       next  |-> CASE folded -> EndOfLine(s, eol)
                   [] ~folded /\ colon > Len(s) -> incomplete
                   [] ~folded /\ colon <= Len(s) /\ (s[colon] # ":" \/ colon = p) -> invalid
                   [] OTHER -> EndOfLine(s, eol)]

\* The next field, unless the head ends or an error was met.
NextField(s, h) ==
  LET f == Field(s, h.next, h.fields # <<>> /\ s[h.next] \in Blank)
  IN  IF h.next < 0 \/ h.next > Len(s) \/ s[h.next] \in {"CR", "LF"} THEN h
      ELSE [next   |-> f.next,
            fields |-> IF f.next < 0 THEN h.fields
                       ELSE Append(h.fields, [name |-> f.name, value |-> f.value])]

\* What has been read after each of so many fields.
FieldsFrom(s, p, max) ==
  LET after[n \in 0..max] ==
        IF n = 0 THEN [next |-> p, fields |-> <<>>] ELSE NextField(s, after[n - 1])
  IN  after

parse_headers(s, p, max) ==
  LET h == FieldsFrom(s, p, max)[max]
  IN  [ret |-> IF h.next \in 1..Len(s) /\ s[h.next] \notin {"CR", "LF"} THEN invalid
               ELSE EndOfLine(s, h.next),
       fields |-> h.fields]

\* An empty line in front is skipped.
parse_request(s, max) ==
  LET b == IF s # <<>> /\ s[1] \in {"CR", "LF"} THEN EndOfLine(s, 1) ELSE 1
      m == ADVANCE_TOKEN(s, b)
      p == IF m < 0 THEN m ELSE ADVANCE_TOKEN(s, m + 1)
      v == IF p < 0 THEN p ELSE parse_http_version(s, p + 1)
      h == parse_headers(s, EndOfLine(s, v), max)
  IN  [ret |-> IF h.ret > 0 THEN h.ret - 1 ELSE h.ret, fields |-> h.fields,
       method |-> IF m > 0 THEN SubSeq(s, b, m - 1) ELSE NULL,
       path   |-> IF p > 0 THEN SubSeq(s, m + 1, p - 1) ELSE NULL]

\* Two line ends in a row, from a place on, if there is no half of one before.
TwoLineEnds(s, p) ==
  LET there == {q \in p..Len(s) :
                  \/ s[q] = "CR" /\ EndOfLine(s, q) < 0
                  \/ s[q] \in {"CR", "LF"} /\ q > p /\ s[q - 1] = "LF"}
  IN  IF there = {} THEN incomplete
      ELSE EndOfLine(s, CHOOSE q \in there : \A m \in there : q <= m)

\* The place is a little before what arrived last.
is_complete(s, last) == TwoLineEnds(s, IF last < 3 THEN 1 ELSE last - 2)

phr_parse_request(s, max, last) ==
  IF last # 0 /\ is_complete(s, last) < 0
  THEN [ret |-> is_complete(s, last), fields |-> <<>>, method |-> NULL, path |-> NULL]
  ELSE parse_request(s, max)

-----------------------------------------------------------------------------
(* HttpSession *)

\* The next piece.
Receive ==
  /\ progress = "waiting"
  /\ arrived' \in (arrived + 1)..Len(request.text)
  /\ progress' = "headers"
  /\ UNCHANGED <<request, last_headers_len, n_headers, head, taken>>

ParsedHead == phr_parse_request(SubSeq(request.text, 1, arrived), n_headers, last_headers_len)

HeadComplete ==
  /\ progress = "headers"
  /\ \E h \in {ParsedHead} :
       h.ret > 0 /\ head' = h /\ n_headers' = Len(h.fields)
  /\ progress' = "processing"
  /\ UNCHANGED <<request, arrived, last_headers_len, taken>>

\* Mutation: the request is not reset.
HeadIncompleteKept ==
  /\ progress = "headers"
  /\ ParsedHead.ret = incomplete
  /\ n_headers' = Len(ParsedHead.fields)
  /\ last_headers_len' = arrived
  /\ progress' = "waiting"
  /\ UNCHANGED <<request, arrived, head, taken>>

HeadIncomplete ==
  /\ progress = "headers"
  /\ ParsedHead.ret = incomplete
  /\ n_headers' = MAX_HTTP_HEADERS
  /\ last_headers_len' = arrived
  /\ progress' = "waiting"
  /\ UNCHANGED <<request, arrived, head, taken>>

HeadInvalid ==
  /\ progress = "headers"
  /\ ParsedHead.ret = invalid
  /\ progress' = "refused"
  /\ UNCHANGED <<request, arrived, last_headers_len, n_headers, head, taken>>

\* The first of the known names that the name of the field begins, which is
\* any for a field without a name.
TakeField(t, f) ==
  CASE NameStarts(f.name, "Connection") ->
         [t EXCEPT !.keep_alive = f.value # <<>> /\ Initial(f.value[1]) \in {"k", "K"}]
    [] ~NameStarts(f.name, "Connection") /\ NameStarts(f.name, "Content-Length") ->
         [t EXCEPT !.body_len = strtol(f.value)]
    [] NameStarts(f.name, "Cookie") /\ ~NameStarts(f.name, "Connection")
         /\ ~NameStarts(f.name, "Content-Length") -> [t EXCEPT !.cookie = f.value]
    [] NameStarts(f.name, "If-Modified-Since") /\ f.name # <<>> ->
         [t EXCEPT !.if_modified_since = f.value]
    [] OTHER -> t

\* Of the first field that is taken for Content-Type.
GetMultipartBondary(fields) ==
  LET types == {j \in DOMAIN fields : NameStarts(fields[j].name, "Content-Type")}
      value == fields[CHOOSE j \in types : \A m \in types : j <= m].value
  IN  IF types = {} \/ "boundary=" \notin {value[j] : j \in DOMAIN value} THEN NULL
      ELSE UpTo(After(value, "boundary="), {";"})

\* What has been taken out of so many of the fields.
Taking(fields) ==
  LET taking[n \in 0..Len(fields)] ==
        IF n = 0 THEN Defaults ELSE TakeField(taking[n - 1], fields[n])
  IN  taking

TakeFields(fields) == Taking(fields)[Len(fields)]

ProcessHeaders ==
  /\ progress = "processing"
  /\ taken' = [TakeFields(head.fields) EXCEPT !.boundary = GetMultipartBondary(head.fields)]
  /\ progress' = "read"
  /\ UNCHANGED <<request, arrived, last_headers_len, n_headers, head>>

-----------------------------------------------------------------------------
HeadRoutine == HeadComplete \/ HeadIncomplete \/ HeadInvalid \/ ProcessHeaders

HeadNext == Receive \/ HeadRoutine

HeadSpec == HeadInit /\ [][HeadNext]_head_vars

-----------------------------------------------------------------------------
(* What a client writes *)

Names == {"Connection", "Content-Length", "Cookie", "If-Modified-Since", "Content-Type"}

\* The fields that are taken for one with that name.
TakenFor(fields, known) == {j \in DOMAIN fields : NameStarts(fields[j].name, known)}

\* The value of a Content-Type field names a boundary, or none.
NamesBoundary(value, b) ==
  LET places == {j \in DOMAIN value : value[j] = "boundary="}
  IN  IF places = {} THEN b = NULL
      ELSE \E j \in places, k \in 0..Len(value) :
             /\ \A m \in places : j <= m
             /\ j <= k /\ b = SubSeq(value, j + 1, k)
             /\ \A m \in DOMAIN b : b[m] # ";"
             /\ k < Len(value) => value[k + 1] = ";"

\* What the fields say, each known name at most once, is what was meant.
SayWhatIsMeant(fields, meant) ==
  LET Given(known) == TakenFor(fields, known) # {}
      Value(known) == fields[CHOOSE j \in TakenFor(fields, known) : TRUE].value
      length == Value("Content-Length")
      keep == Value("Connection")
  IN  /\ \A known \in Names : \A i, j \in TakenFor(fields, known) : i = j
      /\ \A i, j \in Names : i # j => TakenFor(fields, i) \cap TakenFor(fields, j) = {}
      /\ meant = [keep_alive |-> Given("Connection") =>
                                   keep # <<>> /\ Initial(keep[1]) \in {"k", "K"},
                  body_len |-> IF Given("Content-Length") THEN strtol(length) ELSE 0,
                  cookie |-> IF Given("Cookie") THEN Value("Cookie") ELSE NULL,
                  if_modified_since |-> IF Given("If-Modified-Since")
                                        THEN Value("If-Modified-Since") ELSE NULL,
                  boundary |-> meant.boundary]
      /\ IF Given("Content-Type") THEN NamesBoundary(Value("Content-Type"), meant.boundary)
         ELSE meant.boundary = NULL

\* The head of a request as a client writes it.
IsHead(r) ==
  LET Line(f) == f.name \o <<":", SP>> \o f.value \o r.end
      Without(s, chars) == \A j \in DOMAIN s : s[j] \notin chars
  IN  /\ {r.method, r.path, r.body} \subseteq Seq(STRING)
      /\ r.end \in {<<"CR", "LF">>, <<"LF">>}
      /\ r.fields \in Seq([name : Seq(STRING), value : Seq(STRING)])
      /\ Without(r.method \o r.path, Control \cup {SP})
      /\ Len(r.fields) <= MAX_HTTP_HEADERS
      /\ \A j \in DOMAIN r.fields :
           /\ r.fields[j].name # <<>>
           /\ Without(r.fields[j].name, Control \cup Blank \cup {":", "/"})
           /\ Without(r.fields[j].value, Control)
           /\ r.fields[j].value # <<>> => r.fields[j].value[1] \notin Blank
      /\ SayWhatIsMeant(r.fields, r.meant)
      /\ r.text = r.method \o <<SP>> \o r.path \o <<SP, "HTTP/1.", "1">> \o r.end
                    \o FlattenSeq([j \in DOMAIN r.fields |-> Line(r.fields[j])])
                    \o r.end \o r.body

\* The sound ones are such heads.
ASSUME HeadsAssumption ==
  /\ MAX_HTTP_HEADERS \in Nat
  /\ \A r \in Heads : r.text \in Seq(STRING) /\ (r.sound => IsHead(r))

-----------------------------------------------------------------------------
(* Properties *)

\* In however many pieces a head arrives, and wherever it is cut, the session
\* comes to the end that it comes to when all of it arrives at once: it reads
\* the same head, or refuses it, and when it still waits for more, if only to
\* refuse it, the blank line is not there. And of a head that a browser writes
\* the session knows what was meant: the request line, the fields it looks
\* for, in whatever order they come, and where the body begins.
HeadAsSent ==
  LET whole == parse_request(request.text, MAX_HTTP_HEADERS)
  IN  /\ progress \in {"processing", "read"} => head = whole
      /\ progress = "refused" => whole.ret = invalid
      /\ progress = "waiting" /\ arrived = Len(request.text) =>
           whole.ret < 0 /\ TwoLineEnds(request.text, 1) = incomplete
      /\ progress = "refused" => ~request.sound
      /\ progress = "read" /\ request.sound =>
           /\ <<head.method, head.path>> = <<request.method, request.path>>
           /\ head.ret = Len(request.text) - Len(request.body)
           /\ taken = request.meant

=============================================================================
