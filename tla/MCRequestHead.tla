--------------------------- MODULE MCRequestHead ---------------------------
(***************************************************************************)
(* The requests RequestHead reads, for TLC.                                *)
(***************************************************************************)
EXTENDS Texts

LOCAL INSTANCE SequencesExt
LOCAL INSTANCE FiniteSetsExt

\* "C" and "Content" are beginnings of several names.
LOCAL BeginningsOf(known) ==
  {<<>>, <<known>>, <<"C">>} \cup
  (IF known \in {"Content-Length", "Content-Type"} THEN {<<"Content">>} ELSE {})

Begins(name, known) ==
  name \in BeginningsOf(known) \ IF known = "If-Modified-Since" THEN {<<"C">>} ELSE {}

\* A field, and what it sets. Other names and other cases set nothing.
LOCAL Field(name, value) == [name |-> name, value |-> value]
LOCAL KnownFields == {
  Field("Connection", <<"close">>), Field("Connection", <<"Keep-Alive">>),
  Field("Content-Length", <<"4">>), Field("Cookie", <<"sid", "=", "1">>),
  Field("If-Modified-Since", <<"date">>),
  Field("Content-Type", <<"multipart", ";", " ", "boundary=", "-", "b">>),
  Field("Content-Type", <<"form">>), Field("Host", <<"h">>)}

LOCAL MeantBy(fields) ==
  LET value(n) == LET with == {f \in fields : f.name = n}
                  IN  IF with = {} THEN NULL ELSE (CHOOSE f \in with : TRUE).value
  IN  [keep_alive |-> value("Connection") # <<"close">>,
       body_len   |-> IF value("Content-Length") = NULL THEN 0 ELSE 4,
       cookie     |-> value("Cookie"),
       if_modified_since |-> value("If-Modified-Since"),
       boundary   |-> IF value("Content-Type") \in {NULL, <<"form">>} THEN NULL
                      ELSE <<"-", "b">>]

LOCAL Head1(method, lines, end) ==
  <<method, " ", "/", " ", "HTTP/1.", "1">> \o end
    \o FlattenSeq([j \in DOMAIN lines |-> lines[j] \o end]) \o end

LOCAL FieldLine(f) == <<f.name, ":", " ">> \o f.value

LOCAL Ends == {<<"CR", "LF">>, <<"LF">>}

\* Up to two fields with different names, in both orders, and bodies.
LOCAL SoundHeads ==
  {[text |-> Head1(mb[1], [j \in DOMAIN fs |-> FieldLine(fs[j])], end) \o mb[2],
    sound |-> TRUE, method |-> <<mb[1]>>, path |-> <<"/">>, end |-> end, body |-> mb[2],
    fields |-> [j \in DOMAIN fs |-> [fs[j] EXCEPT !.name = <<@>>]], meant |-> MeantBy(ToSet(fs))] :
     end \in Ends,
     mb \in {<<"GET", <<>>>>, <<"POST", <<"b", "LF">>>>, <<"POST", <<"CR", "LF", "CR", "LF">>>>},
     fs \in {s \in SeqOf(KnownFields, 2) : Cardinality({f.name : f \in ToSet(s)}) = Len(s)}}

LOCAL Odd(text) ==
  [text |-> text, sound |-> FALSE, method |-> <<"GET">>, path |-> <<"/">>, end |-> <<"LF">>,
   body |-> <<>>, fields |-> <<>>, meant |-> NULL]

\* Line ends of both kinds in front, between and behind, one field more than
\* there is room for, lines that go on, shortened and empty names, faults in
\* the request line, and heads that break off.
LOCAL OddHeads ==
  LET line == <<"GET", " ", "/", " ", "HTTP/1.", "1">>
      field == <<"Host", ":", "h">>
  IN  {Odd(f \o line \o e) : f \in {<<>>, <<"CR", "LF">>, <<"LF">>, <<"LF", "LF">>},
                             e \in SeqOf({"CR", "LF"}, 4)} \cup
      {Odd(line \o <<"LF">> \o field \o e \o field) : e \in SeqOf({"CR", "LF", "NUL"}, 3)} \cup
      {Odd(Head1("GET", [j \in 1..n |-> field], e)) : n \in 3..4, e \in Ends} \cup
      {Odd(Head1("GET", <<field, l, FieldLine(f)>>, <<"LF">>)) :
         l \in {<<" ", "x">>, <<"HT", "k">>, <<"C", ":", "close">>, <<"Content", ":", "4">>,
                <<":", "x">>, <<"Host", " ", ":", "x">>, <<"x">>, <<"Connection", ":">>},
         f \in KnownFields} \cup
      {Odd(l \o <<"CR", "LF", "CR", "LF">>) :
         l \in {<<"GET", " ", "/">>, <<"GET", " ", "/", " ">>, <<" ", "/", " ", "HTTP/1.", "1">>,
                <<"GET", " ", "/", " ", "HTTP/1.", "x">>, <<"GET", " ", "/", " ", "HTTP/1.">>,
                <<"GET", " ", "/", " ", "HTTP/2", "1">>, line \o <<"x">>, <<"NUL">>}}

OneHead == Odd(<<"NUL">>)

AllHeads == SoundHeads \cup OddHeads

=============================================================================
