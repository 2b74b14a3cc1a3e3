----------------------------- MODULE Multipart -----------------------------
(***************************************************************************)
(* How an archive is taken out of the form it was sent in.                 *)
(*                                                                         *)
(* GetFileFromRequest gives the body of the request, without its first two *)
(* bytes, and the boundary of the Content-Type header to the multipart     *)
(* parser. The parser looks at one byte after the other and emits the data *)
(* of the parts in pieces; ReadBody collects the pieces, and GetBody       *)
(* returns all but the last six bytes of them.                             *)
(*                                                                         *)
(* A byte is a string of one character, or "CR" or "LF". What the headers  *)
(* of a part say goes to ReadHeaderValue, and nobody asks for it: "mark"   *)
(* is followed in the data of the parts only.                              *)
(***************************************************************************)
EXTENDS Integers, SequencesExt

CONSTANTS Forms,    \* what clients send
          Letters   \* the bytes that are letters

\* A form: its parts, each a header and data, the boundary between them and
\* the text of the request body. ReadBody takes two bytes off the boundary,
\* and Execute two off the text, so neither is shorter.
FormsAreLegible ==
  \A f \in Forms : /\ f.boundary \in Seq(STRING) /\ Len(f.boundary) >= 2
                   /\ f.text \in Seq(STRING) /\ Len(f.text) >= 2

VARIABLES
  form,                \* what the client sent
  i,                   \* how many bytes of it the parser has passed
  state, index, mark, lookbehind,  \* the parser
  body,                \* what ReadBody has collected
  returned,            \* multipart_parser_execute has returned
  from, before,        \* where the data of the part began, and what body was
  skipped              \* ReadBody has dropped a piece of this part

parser == <<index, mark, lookbehind>>
history == <<from, before, skipped>>
form_vars == <<form, i, state, parser, body, returned, history>>

InData == {"part_data", "part_data_almost_boundary", "part_data_boundary"}

\* MAGIC_NUMBER: the two hyphens in front of a boundary.
DropHyphens(s) == SubSeq(s, 3, Len(s))

boundary == form.boundary
text == DropHyphens(form.text)

\* Before anything is read.
FormStart ==
  /\ i = 0
  /\ state = "start"
  /\ index = 0
  /\ mark = 0
  /\ lookbehind = <<>>
  /\ body = <<>>
  /\ returned = FALSE
  /\ from = 0
  /\ before = <<>>
  /\ skipped = FALSE

FormInit ==
  /\ form \in Forms
  /\ FormStart

-----------------------------------------------------------------------------
(* Helpers *)

c == text[i + 1]
is_last == i + 1 = Len(text)

\* How much of the first delimiter has been seen: boundary, CR, LF.
Seen == IF state = "start" THEN 0 ELSE index

\* Whether the parser goes on with the byte, or returns.
Accepts(b) ==
  CASE state \in {"start", "start_boundary"} ->
         b = (boundary \o <<"CR", "LF">>)[Seen + 1]
    [] state \in {"header_field_start", "header_field"} ->
         b \in Letters \cup {"-", ":", "CR"}
    [] state \in {"headers_almost_done", "header_value_almost_done",
                  "part_data_end"} -> b = "LF"
    [] state = "part_data_almost_end" -> b \in {"-", "CR"}
    [] state = "part_data_final_hyphen" -> b = "-"
    [] OTHER -> TRUE

\* The parser looks at a byte, in one of the states S.
Look(S) ==
  /\ ~returned
  /\ i < Len(text)
  /\ state \in S
  /\ Accepts(c)
  /\ UNCHANGED <<form, returned>>

Pass(next) == i' = i + 1 /\ state' = next

\* ReadBody drops a piece that is the boundary without its first two bytes,
\* which is what the parser emits of a delimiter between two parts when
\* the boundary begins with four hyphens.
IsBoundary(piece) == piece = DropHyphens(boundary)

\* Mutation: ReadBody does not compare the lengths.
ReadBodyByPrefix(piece, was) ==
  LET b == DropHyphens(boundary)
      alike == \A k \in 1..Len(piece) : k <= Len(b) => piece[k] = b[k]
  IN  /\ body' = IF alike THEN body ELSE body \o piece
      /\ skipped' = (was \/ IsBoundary(piece))

ReadBody(piece, was) ==
  /\ body' = IF IsBoundary(piece) THEN body ELSE body \o piece
  /\ skipped' = (was \/ IsBoundary(piece))

-----------------------------------------------------------------------------
(* The first delimiter, and the headers of a part *)

FirstBoundary ==
  /\ Look({"start", "start_boundary"})
  /\ IF Seen <= Len(boundary)
     THEN index' = Seen + 1 /\ Pass("start_boundary")
     ELSE index' = 0 /\ Pass("header_field_start")
  /\ UNCHANGED <<mark, lookbehind, body, history>>

HeaderField ==
  /\ Look({"header_field_start", "header_field"})
  /\ Pass(CASE c = "CR" -> "headers_almost_done"
            [] c = ":"  -> "header_value_start"
            [] OTHER    -> "header_field")
  /\ UNCHANGED <<parser, body, history>>

HeaderValue ==
  /\ Look({"header_value_start", "header_value"})
  /\ Pass(CASE c = "CR" -> "header_value_almost_done"
            [] c = " "  -> state
            [] OTHER    -> "header_value")
  /\ UNCHANGED <<parser, body, history>>

HeaderEnd ==
  /\ \/ Look({"header_value_almost_done"}) /\ Pass("header_field_start")
     \/ Look({"headers_almost_done"}) /\ Pass("part_data_start")
  /\ UNCHANGED <<parser, body, history>>

-----------------------------------------------------------------------------
(* The data of a part *)

\* A byte of data, with the mark at m. What lies between the mark and a
\* carriage return, or the end of the text, is emitted.
Data(m, was) ==
  IF c = "CR"
  THEN /\ ReadBody(SubSeq(text, m + 1, i), was)
       /\ mark' = i
       /\ lookbehind' = <<"CR">>
       /\ Pass("part_data_almost_boundary")
       /\ UNCHANGED index
  ELSE /\ IF is_last THEN ReadBody(SubSeq(text, m + 1, i + 1), was)
                     ELSE UNCHANGED body /\ skipped' = was
       /\ mark' = m
       /\ Pass("part_data")
       /\ UNCHANGED <<index, lookbehind>>

PartDataStart ==
  /\ Look({"part_data_start"})
  /\ Data(i, FALSE)
  /\ from' = i
  /\ before' = body

PartData ==
  /\ Look({"part_data"})
  /\ Data(mark, skipped)
  /\ UNCHANGED <<from, before>>

\* The byte does not go on with a delimiter: what looked like one is
\* emitted, and the byte is looked at again, as data.
DataAfterAll(piece) ==
  /\ ReadBody(piece, skipped)
  /\ state' = "part_data"
  /\ mark' = i
  /\ UNCHANGED <<i, index, lookbehind, from, before>>

MaybeBoundary ==
  /\ lookbehind' = <<"CR", "LF">>
  /\ index' = 0
  /\ Pass("part_data_boundary")
  /\ UNCHANGED <<mark, body, history>>

\* Mutation: instead of emitting the carriage return the parser goes back
\* to it.
AlmostBoundaryRewound ==
  /\ Look({"part_data_almost_boundary"})
  /\ IF c = "LF" THEN MaybeBoundary
     ELSE /\ state' = "part_data"
          /\ i' = i - 1
          /\ mark' = i - 1
          /\ UNCHANGED <<index, lookbehind, body, history>>

AlmostBoundary ==
  /\ Look({"part_data_almost_boundary"})
  /\ IF c = "LF" THEN MaybeBoundary ELSE DataAfterAll(<<"CR">>)

\* Mutation: the last byte that fitted is left out.
LookedBehindLess == SubSeq(lookbehind, 1, 1 + index)

\* The part of lookbehind that is in use.
LookedBehind == SubSeq(lookbehind, 1, 2 + index)

Boundary ==
  /\ Look({"part_data_boundary"})
  /\ IF c = boundary[index + 1]
     THEN /\ lookbehind' = Append(LookedBehind, c)
          /\ index' = index + 1
          /\ Pass(IF index' = Len(boundary) THEN "part_data_almost_end"
                                            ELSE "part_data_boundary")
          /\ UNCHANGED <<mark, body, history>>
     ELSE DataAfterAll(LookedBehind)

\* After a delimiter: another part, or the end of the form.
AfterBoundary ==
  /\ \/ Look({"part_data_almost_end"})
        /\ Pass(IF c = "-" THEN "part_data_final_hyphen" ELSE "part_data_end")
     \/ Look({"part_data_end"}) /\ Pass("header_field_start")
     \/ Look({"part_data_final_hyphen", "end"}) /\ Pass("end")
  /\ UNCHANGED <<parser, body, history>>

\* The text is at its end, or a byte does not fit.
Return ==
  /\ ~returned
  /\ i < Len(text) => ~Accepts(c)
  /\ returned' = TRUE
  /\ UNCHANGED <<form, i, state, parser, body, history>>

-----------------------------------------------------------------------------
FormNext ==
  \/ FirstBoundary
  \/ HeaderField \/ HeaderValue \/ HeaderEnd
  \/ PartDataStart \/ PartData \/ AlmostBoundary \/ Boundary
  \/ AfterBoundary
  \/ Return

FormSpec == FormInit /\ [][FormNext]_form_vars

-----------------------------------------------------------------------------
(* Properties *)

\* What the parser holds back, because it may belong to a delimiter or
\* because there may be more of it.
Pending ==
  CASE state = "part_data" -> IF i = Len(text) THEN <<>>
                                               ELSE SubSeq(text, mark + 1, i)
    [] state = "part_data_almost_boundary" -> <<"CR">>
    [] state = "part_data_boundary" -> LookedBehind

\* Wherever the parser is in the data of a part, what was collected of it
\* and what is held back are together the bytes it has passed: none is lost,
\* none comes twice and none comes too early, unless ReadBody took a piece
\* for the boundary.
NothingLost ==
  state \in InData /\ ~skipped =>
    body \o Pending = before \o SubSeq(text, from + 1, i)

Occurs(s, in) ==
  \E k \in 1..(Len(in) - Len(s) + 1) : SubSeq(in, k, k + Len(s) - 1) = s

\* The delimiter that follows a part.
Delimiter(b) == <<"CR", "LF", "-", "-">> \o b

\* The header of a part: lines, each with a name, a colon and a value.
IsHeader(h) ==
  /\ h # <<>> => h[Len(h)] = "LF"
  /\ \A j \in 1..Len(h) :
       /\ h[j] = "CR" => j < Len(h) /\ h[j + 1] = "LF"
       /\ h[j] = "LF" => j > 1 /\ h[j - 1] = "CR"
       /\ \/ h[j] \in Letters \cup {"-", ":", "LF"}
          \/ \E m \in 1..(j - 1) : h[m] = ":" /\ \A q \in m..j : h[q] # "LF"

\* A form as a browser sends it: the first part between two delimiters, and
\* behind it the end of the form or other parts. The boundary is more than
\* hyphens.
IsForm(f) ==
  LET b == f.boundary
      part == f.parts[1]
      behind == IF Len(f.parts) = 1 THEN <<"-", "-", "CR", "LF">> ELSE <<"CR", "LF">>
      front == <<"-", "-">> \o b \o <<"CR", "LF">> \o part.header \o <<"CR", "LF">>
                 \o part.data \o Delimiter(b) \o behind
  IN  /\ \A j \in 1..Len(b) : b[j] \notin {"CR", "LF"}
      /\ \E j \in 1..Len(b) : b[j] # "-"
      /\ part \in [header : Seq(STRING), data : Seq(STRING)]
      /\ IsHeader(part.header)
      /\ IF Len(f.parts) = 1 THEN f.text = front ELSE IsPrefix(front, f.text)

\* The sound ones are such forms.
FormsAreSound ==
  /\ "CR" \notin Letters /\ "LF" \notin Letters
  /\ \A f \in Forms : f.sound => IsForm(f)

\* GetBody cuts off the last six bytes.
GetBody(s) == SubSeq(s, 1, Len(s) - 6)

\* From every form that is sent as it should be, with a boundary that does
\* not occur in the data, the file is saved whole, at the beginning of what
\* is saved. Behind it is a part of the delimiter as long as the boundary
\* when the form has no other field, and the rest of the form otherwise: the
\* parser is not given the two hyphens of a delimiter and so never meets one.
FileIsSaved ==
  LET file == form.parts[1].data
      rest == Delimiter(boundary) \o <<"-", "-">>
  IN  returned /\ form.sound /\ ~Occurs(DropHyphens(boundary), file) =>
        /\ Len(body) >= 6
        /\ IF Len(form.parts) = 1
           THEN GetBody(body) = file \o SubSeq(rest, 1, Len(boundary))
           ELSE SubSeq(GetBody(body), 1, Len(file)) = file

=============================================================================
