-------------------------- MODULE MultipartProofs --------------------------
(***************************************************************************)
(* No byte of an archive is lost on its way out of the form.               *)
(*                                                                         *)
(* The parser holds bytes back that may belong to a delimiter: a carriage  *)
(* return, or what of a boundary is in its lookbehind, and it emits data   *)
(* in pieces, from its mark on. The invariant says how long the lookbehind *)
(* is and where the mark lies in each state, which is what makes a piece   *)
(* that is emitted later the bytes that were passed earlier.               *)
(*                                                                         *)
(* That the file is saved needs more: in which states the parser can be at *)
(* each place of a form, up to the end of the delimiter behind the file.   *)
(***************************************************************************)
EXTENDS Multipart, SequenceTheorems, WellFoundedInduction, TLAPS

\* The provers do not know that these are strings.
Byte == STRING \cup {"CR", "LF", "-"}

Types ==
  /\ form \in Forms
  /\ i \in 0..Len(text)
  /\ body \in Seq(Byte)
  /\ before \in Seq(Byte)

\* Where the data of the part began, how far of it has been emitted, and
\* what the parser holds back of a delimiter.
Places ==
  /\ state \in InData => from \in 0..i
  /\ state = "part_data" => mark \in 0..i
  /\ state = "part_data_boundary" =>
       /\ lookbehind \in Seq(Byte)
       /\ index \in 0..(Len(boundary) - 1)
       /\ Len(lookbehind) = 2 + index

PartInv == Types /\ Places /\ NothingLost

-----------------------------------------------------------------------------
(* Texts, and pieces of them *)

LEMMA TextIsText ==
  ASSUME FormsAreLegible, form \in Forms
  PROVE  text \in Seq(Byte) /\ Len(boundary) \in Nat /\ Len(boundary) >= 2
<1>1. /\ form.text \in Seq(STRING)
      /\ form.boundary \in Seq(STRING) /\ Len(form.boundary) >= 2
  BY DEF FormsAreLegible
<1>2. \A k \in 3..Len(form.text) : form.text[k] \in Byte
  BY <1>1 DEF Byte
<1>3. text \in Seq(Byte)
  BY <1>1, <1>2, SubSeqProperties DEF text, DropHyphens
<1>4. Len(boundary) \in Nat
  BY <1>1 DEF boundary
<1> QED BY <1>1, <1>3, <1>4 DEF boundary

\* A piece of a text is a text.
LEMMA PieceIsText ==
  ASSUME NEW S, NEW s \in Seq(S), NEW m \in Nat, NEW n \in 0..Len(s)
  PROVE  SubSeq(s, m + 1, n) \in Seq(S)
<1>1. \A k \in (m + 1)..n : s[k] \in S
  OBVIOUS
<1> QED BY <1>1, SubSeqProperties

\* A piece goes on with the next byte.
LEMMA PieceAndByte ==
  ASSUME NEW S, NEW s \in Seq(S), NEW n \in 0..(Len(s) - 1), NEW m \in 0..n
  PROVE  SubSeq(s, m + 1, n + 1) = SubSeq(s, m + 1, n) \o <<s[n + 1]>>
<1>1. m + 1 \in 1..Len(s) /\ n + 1 \in (m + 1)..Len(s) /\ (n + 1) - 1 = n
  OBVIOUS
<1>2. SubSeq(s, m + 1, n + 1) = SubSeq(s, m + 1, (n + 1) - 1) \o <<s[n + 1]>>
  BY <1>1, SubSeqRecursiveSecond
<1> QED BY <1>1, <1>2

LEMMA Regroup ==
  ASSUME NEW b \in Seq(Byte), NEW p \in Seq(Byte), NEW x \in Byte
  PROVE  /\ p \o <<x>> \in Seq(Byte)
         /\ (b \o p) \o <<x>> = b \o (p \o <<x>>)
<1> DEFINE e == <<x>>
<1>1. e \in Seq(Byte)
  OBVIOUS
<1> HIDE DEF e
<1>2. (b \o p) \o e = b \o (p \o e)
  BY <1>1, ConcatAssociative
<1>3. p \o e \in Seq(Byte)
  BY <1>1
<1> QED BY <1>2, <1>3 DEF e

\* The byte the parser looks at, and what it has passed of a part with it.
LEMMA Passed ==
  ASSUME FormsAreLegible, Types, i < Len(text), NEW m \in 0..i
  PROVE  /\ c \in Byte
         /\ SubSeq(text, m + 1, i) \in Seq(Byte)
         /\ SubSeq(text, m + 1, i + 1) = SubSeq(text, m + 1, i) \o <<c>>
<1>1. text \in Seq(Byte)
  BY TextIsText DEF Types
<1>2. i \in 0..(Len(text) - 1) /\ i \in 0..Len(text) /\ m \in Nat
  BY <1>1 DEF Types
<1>3. c \in Byte
  <2>1. i + 1 \in 1..Len(text)
    BY <1>1, <1>2
  <2> QED BY <1>1, <2>1 DEF c
<1>4. SubSeq(text, m + 1, i) \in Seq(Byte)
  BY <1>1, <1>2, PieceIsText
<1>5. SubSeq(text, m + 1, i + 1) = SubSeq(text, m + 1, i) \o <<text[i + 1]>>
  BY <1>1, <1>2, PieceAndByte
<1> QED BY <1>3, <1>4, <1>5 DEF c

\* What was collected and held back is what was passed, and stays so with
\* one byte more.
LEMMA OneMore ==
  ASSUME FormsAreLegible, Types, i < Len(text),
         NEW f \in 0..i, NEW p \in Seq(Byte), NEW q \in Seq(Byte)
  PROVE  body \o p = q \o SubSeq(text, f + 1, i) =>
           body \o (p \o <<c>>) = q \o SubSeq(text, f + 1, i + 1)
<1> DEFINE r == SubSeq(text, f + 1, i)
<1>1. r \in Seq(Byte) /\ c \in Byte /\ body \in Seq(Byte)
  BY Passed DEF Types
<1>2. SubSeq(text, f + 1, i + 1) = r \o <<c>>
  BY Passed
<1> HIDE DEF r
<1>3. (body \o p) \o <<c>> = body \o (p \o <<c>>)
  BY <1>1, Regroup, Zenon
<1>4. (q \o r) \o <<c>> = q \o (r \o <<c>>)
  BY <1>1, Regroup, Zenon
<1> QED BY <1>2, <1>3, <1>4, Zenon DEF r

\* What ReadBody does with a piece.
LEMMA Collected ==
  ASSUME Types, NEW piece \in Seq(Byte), NEW was, ReadBody(piece, was)
  PROVE  /\ body' \in Seq(Byte)
         /\ ~skipped' => ~was /\ body' = body \o piece
<1>1. body \o piece \in Seq(Byte)
  BY ConcatProperties DEF Types
<1> QED BY <1>1, Zenon DEF ReadBody, Types

-----------------------------------------------------------------------------
(* The steps that stay in the data of a part *)

\* A byte of data that was begun at f.
LEMMA DataKeeps ==
  ASSUME FormsAreLegible, Types, i < Len(text), form' = form,
         NEW m \in 0..i, NEW was, NEW f \in 0..i, NEW q \in Seq(Byte),
         ~was => body \o SubSeq(text, m + 1, i) = q \o SubSeq(text, f + 1, i),
         Data(m, was)
  PROVE  /\ i' = i + 1 /\ body' \in Seq(Byte)
         /\ state' \in {"part_data", "part_data_almost_boundary"}
         /\ state' = "part_data" => mark' \in 0..i'
         /\ ~skipped' => body' \o Pending' = q \o SubSeq(text, f + 1, i + 1)
<1> DEFINE p == SubSeq(text, m + 1, i)
<1>1. /\ p \in Seq(Byte) /\ c \in Byte
      /\ SubSeq(text, m + 1, i + 1) = p \o <<c>>
  BY Passed
<1>2. text' = text
  BY DEF text
<1>3. ~was => body \o (p \o <<c>>) = q \o SubSeq(text, f + 1, i + 1)
  BY <1>1, OneMore
<1>4. p \o <<c>> \in Seq(Byte) /\ (body \o p) \o <<c>> = body \o (p \o <<c>>)
  BY <1>1, Regroup, Zenon DEF Types
<1> HIDE DEF p
<1>5. i \in Nat /\ Len(text) \in Nat /\ body \in Seq(Byte) /\ <<>> \in Seq(Byte)
  BY DEF Types
<1>6. CASE c = "CR"
  <2>1. ReadBody(p, was) /\ i' = i + 1 /\ state' = "part_data_almost_boundary"
    BY <1>6 DEF Data, Pass, p
  <2>2. body' \in Seq(Byte) /\ (~skipped' => ~was /\ body' = body \o p)
    BY <1>1, <2>1, Collected
  <2>3. Pending' = <<c>>
    BY <1>6, <2>1 DEF Pending
  <2>4. ~skipped' => body' \o Pending' = q \o SubSeq(text, f + 1, i + 1)
    BY <1>3, <1>4, <2>2, <2>3, Zenon
  <2> QED BY <2>1, <2>2, <2>4, Zenon
<1>7. CASE c # "CR" /\ is_last
  <2>1. ReadBody(p \o <<c>>, was) /\ i' = i + 1 /\ state' = "part_data" /\ mark' = m
    BY <1>1, <1>7, Zenon DEF Data, Pass
  <2>2. body' \in Seq(Byte) /\ (~skipped' => ~was /\ body' = body \o (p \o <<c>>))
    BY <1>4, <2>1, Collected
  <2>3. Pending' = <<>>
    BY <1>2, <1>7, <2>1 DEF Pending, is_last
  <2>4. body' \o <<>> = body'
    BY <2>2, ConcatEmptySeq
  <2>5. ~skipped' => body' \o Pending' = q \o SubSeq(text, f + 1, i + 1)
    BY <1>3, <2>2, <2>3, <2>4, Zenon
  <2>6. mark' \in 0..i'
    BY <1>5, <2>1
  <2> QED BY <2>1, <2>2, <2>5, <2>6, Zenon
<1>8. CASE c # "CR" /\ ~is_last
  <2>1. /\ body' = body /\ skipped' = was /\ i' = i + 1
        /\ state' = "part_data" /\ mark' = m
    BY <1>8, Zenon DEF Data, Pass
  <2>2. i' # Len(text')
    BY <1>2, <1>8, <2>1 DEF is_last
  <2>3. Pending' = SubSeq(text, m + 1, i + 1)
    BY <1>2, <2>1, <2>2 DEF Pending
  <2>4. ~skipped' => body' \o Pending' = q \o SubSeq(text, f + 1, i + 1)
    BY <1>1, <1>3, <2>1, <2>3, Zenon
  <2>5. mark' \in 0..i'
    BY <1>5, <2>1
  <2> QED BY <1>5, <2>1, <2>4, <2>5, Zenon
<1> QED BY <1>6, <1>7, <1>8

\* What looked like a delimiter is emitted after all.
LEMMA AfterAllKeeps ==
  ASSUME FormsAreLegible, PartInv, i < Len(text), form' = form,
         state \in InData, NEW piece \in Seq(Byte), Pending = piece,
         DataAfterAll(piece)
  PROVE  PartInv'
<1>1. text' = text
  BY DEF text
<1>2. i' = i /\ state' = "part_data" /\ mark' = i /\ from' = from /\ before' = before
  BY DEF DataAfterAll
<1>3. body' \in Seq(Byte) /\ (~skipped' => ~skipped /\ body' = body \o piece)
  BY Collected DEF DataAfterAll, PartInv
<1>4. i \in Nat /\ Len(text) \in Nat
  BY DEF PartInv, Types
<1>5. Pending' = <<>>
  <2>1. i' # Len(text')
    BY <1>1, <1>2, <1>4
  <2>2. Pending' = SubSeq(text, i + 1, i)
    BY <1>1, <1>2, <2>1 DEF Pending
  <2> QED BY <1>4, <2>2, SubSeqEmpty
<1>6. body' \o <<>> = body'
  BY <1>3, ConcatEmptySeq
<1>7. NothingLost'
  BY <1>1, <1>2, <1>3, <1>5, <1>6, Zenon DEF NothingLost, PartInv
<1>8. Types'
  BY <1>1, <1>2, <1>3, Zenon DEF Types, PartInv
<1>9. Places'
  BY <1>2, <1>4 DEF Places, PartInv, InData
<1> QED BY <1>7, <1>8, <1>9 DEF PartInv

\* The first byte of a part.
LEMMA StartKeeps ==
  ASSUME FormsAreLegible, PartInv, PartDataStart
  PROVE  PartInv'
<1>1. /\ i < Len(text) /\ form' = form /\ from' = i /\ before' = body
      /\ Data(i, FALSE)
  BY DEF PartDataStart, Look
<1>2. Types /\ i \in Nat /\ Len(text) \in Nat /\ body \in Seq(Byte)
  BY DEF PartInv, Types
<1>3. text' = text
  BY <1>1 DEF text
<1>4. i \in 0..i
  BY <1>2
<1>5. /\ i' = i + 1 /\ body' \in Seq(Byte)
      /\ state' \in {"part_data", "part_data_almost_boundary"}
      /\ state' = "part_data" => mark' \in 0..i'
      /\ ~skipped' => body' \o Pending' = body \o SubSeq(text, i + 1, i + 1)
  <2> DEFINE n == i
             b == body
  <2>1. n \in 0..i /\ b \in Seq(Byte) /\ Data(n, FALSE)
    BY <1>1, <1>2, <1>4
  <2>2. ~FALSE => body \o SubSeq(text, n + 1, i) = b \o SubSeq(text, n + 1, i)
    OBVIOUS
  <2> QED BY <1>1, <1>2, <2>1, <2>2, DataKeeps
<1>6. NothingLost'
  BY <1>1, <1>3, <1>5, Zenon DEF NothingLost
<1>7. Types'
  <2>1. i' \in 0..Len(text') /\ before' \in Seq(Byte)
    BY <1>1, <1>2, <1>3, <1>5
  <2>2. form' \in Forms
    BY <1>1 DEF PartInv, Types
  <2> QED BY <1>5, <2>1, <2>2 DEF Types
<1>8. Places'
  BY <1>1, <1>2, <1>5 DEF Places
<1> QED BY <1>6, <1>7, <1>8 DEF PartInv

\* Another byte of data.
LEMMA PartDataKeeps ==
  ASSUME FormsAreLegible, PartInv, PartData
  PROVE  PartInv'
<1>1. /\ i < Len(text) /\ form' = form /\ from' = from /\ before' = before
      /\ state = "part_data" /\ Data(mark, skipped)
  BY DEF PartData, Look
<1>2. /\ Types /\ i \in Nat /\ Len(text) \in Nat /\ before \in Seq(Byte)
      /\ mark \in 0..i /\ from \in 0..i /\ state \in InData
  BY <1>1 DEF PartInv, Types, Places, InData
<1>3. text' = text
  BY <1>1 DEF text
<1>4. ~skipped => body \o SubSeq(text, mark + 1, i) = before \o SubSeq(text, from + 1, i)
  <2>1. i # Len(text)
    BY <1>1, <1>2
  <2>2. Pending = SubSeq(text, mark + 1, i)
    BY <1>1, <2>1 DEF Pending
  <2> QED BY <1>2, <2>2, Zenon DEF PartInv, NothingLost
<1>5. /\ i' = i + 1 /\ body' \in Seq(Byte)
      /\ state' \in {"part_data", "part_data_almost_boundary"}
      /\ state' = "part_data" => mark' \in 0..i'
      /\ ~skipped' => body' \o Pending' = before \o SubSeq(text, from + 1, i + 1)
  BY <1>1, <1>2, <1>4, DataKeeps
<1>6. NothingLost'
  BY <1>1, <1>3, <1>5, Zenon DEF NothingLost
<1>7. Types'
  <2>1. i' \in 0..Len(text') /\ before' \in Seq(Byte)
    BY <1>1, <1>2, <1>3, <1>5
  <2>2. form' \in Forms
    BY <1>1 DEF PartInv, Types
  <2> QED BY <1>5, <2>1, <2>2 DEF Types
<1>8. Places'
  BY <1>1, <1>2, <1>5 DEF Places
<1> QED BY <1>6, <1>7, <1>8 DEF PartInv

\* What the parser holds back of a delimiter, with the byte that goes on
\* with it.
LEMMA HeldBackKeeps ==
  ASSUME FormsAreLegible, PartInv, i < Len(text), form' = form,
         state \in InData, Pending \in Seq(Byte),
         i' = i + 1, UNCHANGED <<body, from, before, skipped>>,
         state' \in InData => Pending' = Pending \o <<c>>
  PROVE  Types' /\ NothingLost' /\ from' \in 0..i'
<1> DEFINE p == Pending
<1>1. /\ Types /\ i \in Nat /\ Len(text) \in Nat /\ before \in Seq(Byte)
      /\ from \in 0..i
  BY DEF PartInv, Types, Places
<1>2. text' = text
  BY DEF text
<1>3. p \in Seq(Byte) /\ (~skipped => body \o p = before \o SubSeq(text, from + 1, i))
  BY Zenon DEF PartInv, NothingLost
<1> HIDE DEF p
<1>4. ~skipped => body \o (p \o <<c>>) = before \o SubSeq(text, from + 1, i + 1)
  BY <1>1, <1>3, OneMore
<1>5. NothingLost'
  BY <1>2, <1>4, Zenon DEF NothingLost, p
<1>6. Types'
  <2>1. i' \in 0..Len(text')
    BY <1>1, <1>2
  <2> QED BY <2>1, Zenon DEF PartInv, Types
<1>7. from' \in 0..i'
  BY <1>1
<1> QED BY <1>5, <1>6, <1>7

\* The byte after a carriage return.
LEMMA AlmostKeeps ==
  ASSUME FormsAreLegible, PartInv, AlmostBoundary
  PROVE  PartInv'
<1>1. i < Len(text) /\ form' = form /\ state = "part_data_almost_boundary"
  BY DEF AlmostBoundary, Look
<1>2. state \in InData /\ Pending = <<"CR">>
  BY <1>1 DEF InData, Pending
<1>3. <<"CR">> \in Seq(Byte) /\ <<"CR", "LF">> \in Seq(Byte)
  <2>1. "CR" \in Byte /\ "LF" \in Byte
    BY DEF Byte
  <2> QED BY <2>1
<1>4. CASE c = "LF"
  <2>1. MaybeBoundary
    BY <1>4 DEF AlmostBoundary
  <2>2. /\ i' = i + 1 /\ UNCHANGED <<body, from, before, skipped>>
        /\ state' = "part_data_boundary" /\ index' = 0 /\ lookbehind' = <<"CR", "LF">>
    BY <2>1 DEF MaybeBoundary, Pass, history
  <2>3. lookbehind' \in Seq(Byte) /\ Len(lookbehind') = 2
    BY <1>3, <2>2
  <2>4. Pending' = lookbehind'
    <3>1. Pending' = SubSeq(lookbehind', 1, 2)
      BY <2>2 DEF Pending, LookedBehind
    <3> QED BY <2>3, <3>1, SubSeqFull
  <2>5. <<"CR", "LF">> = <<"CR">> \o <<c>>
    BY <1>4
  <2>6. Types' /\ NothingLost' /\ from' \in 0..i'
    BY <1>1, <1>2, <1>3, <2>2, <2>4, <2>5, HeldBackKeeps
  <2>7. Len(boundary') >= 2 /\ Len(boundary') \in Nat
    BY <1>1, TextIsText DEF PartInv, Types, boundary
  <2>8. Places'
    BY <2>2, <2>3, <2>6, <2>7 DEF Places
  <2> QED BY <2>6, <2>8 DEF PartInv
<1>5. CASE c # "LF"
  <2>1. DataAfterAll(<<"CR">>)
    BY <1>5 DEF AlmostBoundary
  <2> QED BY <1>1, <1>2, <1>3, <2>1, AfterAllKeeps
<1> QED BY <1>4, <1>5

\* A byte where a delimiter may be.
LEMMA BoundaryKeeps ==
  ASSUME FormsAreLegible, PartInv, Boundary
  PROVE  PartInv'
<1>1. i < Len(text) /\ form' = form /\ state = "part_data_boundary"
  BY DEF Boundary, Look
<1>2. /\ state \in InData /\ lookbehind \in Seq(Byte) /\ Len(lookbehind) = 2 + index
      /\ index \in 0..(Len(boundary) - 1)
  BY <1>1 DEF InData, PartInv, Places
<1>3. LookedBehind = lookbehind
  BY <1>2, SubSeqFull DEF LookedBehind
<1>4. Pending = lookbehind
  BY <1>1, <1>3 DEF Pending
<1>5. c \in Byte
  <2>1. Types /\ i \in 0..i
    BY DEF PartInv, Types
  <2> QED BY <1>1, <2>1, Passed
<1>6. Len(boundary) \in Nat /\ boundary' = boundary
  BY <1>1, TextIsText DEF PartInv, Types, boundary
<1>7. CASE c = boundary[index + 1]
  <2>1. /\ lookbehind' = Append(lookbehind, c) /\ index' = index + 1 /\ i' = i + 1
        /\ UNCHANGED <<body, from, before, skipped>>
        /\ state' = IF index' = Len(boundary) THEN "part_data_almost_end"
                                              ELSE "part_data_boundary"
    BY <1>3, <1>7 DEF Boundary, Pass, history
  <2>2. /\ lookbehind' \in Seq(Byte) /\ Len(lookbehind') = 2 + index'
        /\ lookbehind' = lookbehind \o <<c>>
    <3>1. /\ Append(lookbehind, c) \in Seq(Byte)
          /\ Len(Append(lookbehind, c)) = Len(lookbehind) + 1
      BY <1>2, <1>5, AppendProperties
    <3>2. Append(lookbehind, c) = lookbehind \o <<c>>
      BY <1>2, <1>5, AppendIsConcat
    <3>3. Len(Append(lookbehind, c)) = 2 + (index + 1)
      BY <1>2, <3>1
    <3> QED BY <2>1, <3>1, <3>2, <3>3, Zenon
  <2>3. state' \in InData => /\ state' = "part_data_boundary"
                             /\ index' \in 0..(Len(boundary') - 1)
    BY <1>2, <1>6, <2>1 DEF InData
  <2>4. state' \in InData => Pending' = lookbehind'
    <3>1. state' \in InData => Pending' = SubSeq(lookbehind', 1, 2 + index')
      BY <2>3 DEF Pending, LookedBehind
    <3> QED BY <2>2, <3>1, SubSeqFull
  <2>5. Types' /\ NothingLost' /\ from' \in 0..i'
    BY <1>1, <1>2, <1>4, <2>1, <2>2, <2>4, HeldBackKeeps
  <2>6. Places'
    BY <2>1, <2>2, <2>3, <2>5 DEF Places, InData
  <2> QED BY <2>5, <2>6 DEF PartInv
<1>8. CASE c # boundary[index + 1]
  <2>1. DataAfterAll(lookbehind)
    BY <1>3, <1>8 DEF Boundary
  <2> QED BY <1>1, <1>2, <1>4, <2>1, AfterAllKeeps
<1> QED BY <1>7, <1>8

-----------------------------------------------------------------------------
(* The steps elsewhere *)

\* A step that does not come into the data of a part.
LEMMA ElsewhereKeeps ==
  ASSUME FormsAreLegible, PartInv, i < Len(text), form' = form, i' = i + 1,
         state' \notin InData, UNCHANGED <<body, before>>
  PROVE  PartInv'
<1>1. text' = text /\ i \in Nat /\ Len(text) \in Nat
  BY DEF text, PartInv, Types
<1>2. Types'
  <2>1. i' \in 0..Len(text')
    BY <1>1
  <2> QED BY <2>1 DEF PartInv, Types
<1>3. Places' /\ NothingLost'
  BY DEF Places, NothingLost, InData
<1> QED BY <1>2, <1>3 DEF PartInv

LEMMA InvKept ==
  ASSUME FormsAreLegible, PartInv, [FormNext]_form_vars
  PROVE  PartInv'
<1>1. CASE FirstBoundary
  BY <1>1, ElsewhereKeeps DEF FirstBoundary, Look, Pass, InData, history
<1>2. CASE HeaderField
  BY <1>2, ElsewhereKeeps DEF HeaderField, Look, Pass, InData, history
<1>3. CASE HeaderValue
  BY <1>3, ElsewhereKeeps DEF HeaderValue, Look, Pass, InData, history
<1>4. CASE HeaderEnd
  BY <1>4, ElsewhereKeeps DEF HeaderEnd, Look, Pass, InData, history
<1>5. CASE AfterBoundary
  BY <1>5, ElsewhereKeeps DEF AfterBoundary, Look, Pass, InData, history
<1>6. CASE Return \/ UNCHANGED form_vars
  <2>1. UNCHANGED <<form, i, state, parser, body, history>>
    BY <1>6 DEF Return, form_vars
  <2> QED BY <2>1 DEF parser, history, PartInv, Types, Places, NothingLost,
                      Pending, LookedBehind, text, boundary
<1> QED BY <1>1, <1>2, <1>3, <1>4, <1>5, <1>6, StartKeeps, PartDataKeeps,
           AlmostKeeps, BoundaryKeeps DEF FormNext

-----------------------------------------------------------------------------
(* Whatever is in the forms, and however they end: where the parser is in  *)
(* the data of a part, what ReadBody has collected of it and what the      *)
(* parser holds back are the bytes it has passed.                          *)
THEOREM NothingEverLost ==
  ASSUME FormsAreLegible
  PROVE  FormSpec => []NothingLost
<1>1. FormInit => PartInv
  <2> SUFFICES ASSUME FormInit PROVE PartInv
    OBVIOUS
  <2>1. /\ form \in Forms /\ i = 0 /\ state = "start"
        /\ body = <<>> /\ before = <<>>
    BY DEF FormInit, FormStart
  <2>2. text \in Seq(Byte)
    BY <2>1, TextIsText
  <2>3. Types
    BY <2>1, <2>2 DEF Types
  <2>4. Places /\ NothingLost
    BY <2>1 DEF Places, NothingLost, InData
  <2> QED BY <2>3, <2>4 DEF PartInv
<1>2. PartInv /\ [FormNext]_form_vars => PartInv'
  BY InvKept
<1>3. PartInv => NothingLost
  BY DEF PartInv
<1> QED BY <1>1, <1>2, <1>3, PTL DEF FormSpec

-----------------------------------------------------------------------------
(* Where the file is saved *)

\* The first part: its header, the file, and where in the text they are. The
\* data begin behind place D and end at place E, and Z is the last place in
\* front of the line end behind the delimiter.
N == Len(boundary)
header == form.parts[1].header
data == form.parts[1].data
OnePart == Len(form.parts) = 1
D == N + Len(header) + 4
E == D + Len(data)
Z == E + N + (IF OnePart THEN 6 ELSE 4)

\* What the theorem is about.
Plain == form.sound /\ ~Occurs(DropHyphens(boundary), data)

\* There is a colon in the line of the header, so far.
Colon(k) == \E m \in 1..k : header[m] = ":" /\ \A q \in m..k : header[q] # "LF"

\* Where the parser is before the data.
InFront ==
  /\ body = <<>>
  /\ \/ state = "start" /\ i = 0
     \/ state = "start_boundary" /\ index \in 1..(N + 1) /\ i = index
     \/ /\ state \in {"header_field_start", "header_field"}
        /\ i \in (N + 2)..(D - 2) /\ ~Colon(i - (N + 2))
     \/ /\ state \in {"header_value_start", "header_value"}
        /\ i \in (N + 2)..(D - 2) /\ Colon(i - (N + 2)) /\ text[i] # "CR"
     \/ state = "header_value_almost_done" /\ i \in (N + 3)..(D - 2) /\ text[i] = "CR"
     \/ state = "headers_almost_done" /\ i = D - 1
     \/ state = "part_data_start" /\ i = D

\* So much of the boundary is behind the place q.
Alike(q, k) == \A j \in 1..k : boundary[j] = text[q + j]

\* Nothing of the data has been dropped.
AllKept == state \in InData /\ ~skipped /\ from = D /\ before = <<>>

\* Where the parser is in the data and in the delimiter behind them.
Within ==
  /\ AllKept /\ i >= D
  /\ state = "part_data" =>
       /\ mark >= D
       /\ text[i] = "CR" => text[i + 1] # "LF"
       /\ i >= E + 2 => index \in 0..(N - 1) /\ mark = E + 2 + index /\ Alike(E + 2, index)
  /\ state = "part_data_almost_boundary" => i > D /\ text[i] = "CR"
  /\ state = "part_data_boundary" =>
       /\ i - index >= D + 2
       /\ text[i - index] = "LF" /\ text[i - index - 1] = "CR"
       /\ Alike(i - index, index)
       /\ lookbehind[1] = "CR"

\* And behind it: at the end of the form, or with the file saved.
Behind ==
  IF OnePart
  THEN /\ AllKept
       /\ \/ i = Z + 1 /\ state = "part_data_almost_boundary" /\ ~returned
          \/ i = Z + 2 /\ state = "part_data_boundary" /\ index = 0
  ELSE Len(body) >= Len(data) + 6 /\ \A j \in 1..Len(data) : body[j] = data[j]

PlaceInv == Plain => IF i <= Z THEN ~returned /\ (InFront \/ Within) ELSE Behind

-----------------------------------------------------------------------------
(* What stands in the text of a form *)

\* The text w stands in s behind the place p.
At(s, p, w) == /\ p \in Nat /\ p + Len(w) <= Len(s)
               /\ \A j \in 1..Len(w) : s[p + j] = w[j]

LEMMA AtConcat ==
  ASSUME NEW s, NEW p, NEW u \in Seq(Byte), NEW w \in Seq(Byte), Len(s) \in Nat,
         At(s, p, u \o w)
  PROVE  At(s, p, u) /\ At(s, p + Len(u), w)
<1> DEFINE v == u \o w
<1>1. /\ Len(v) = Len(u) + Len(w) /\ Len(u) \in Nat /\ Len(w) \in Nat
      /\ \A k \in 1..(Len(u) + Len(w)) : v[k] = IF k <= Len(u) THEN u[k] ELSE w[k - Len(u)]
  BY ConcatProperties, LenProperties
<1>2. p \in Nat /\ p + Len(v) <= Len(s) /\ \A j \in 1..Len(v) : s[p + j] = v[j]
  BY DEF At
<1> HIDE DEF v
<1>3. ASSUME NEW j \in 1..Len(u) PROVE s[p + j] = u[j]
  <2>1. j \in 1..Len(v) /\ j \in 1..(Len(u) + Len(w)) /\ j <= Len(u)
    BY <1>1
  <2> QED BY <1>1, <1>2, <2>1
<1>4. ASSUME NEW j \in 1..Len(w) PROVE s[(p + Len(u)) + j] = w[j]
  <2> DEFINE k == Len(u) + j
  <2>1. /\ k \in 1..Len(v) /\ k \in 1..(Len(u) + Len(w)) /\ ~(k <= Len(u)) /\ k - Len(u) = j
        /\ p + k = (p + Len(u)) + j
    BY <1>1, <1>2
  <2> HIDE DEF k
  <2>2. s[p + k] = v[k] /\ v[k] = w[k - Len(u)]
    BY <1>1, <1>2, <2>1
  <2> QED BY <2>1, <2>2
<1>5. /\ p + Len(u) <= Len(s) /\ p + Len(u) \in Nat
      /\ (p + Len(u)) + Len(w) <= Len(s)
  BY <1>1, <1>2
<1> QED BY <1>2, <1>3, <1>4, <1>5 DEF At

\* What stands in a text that begins with two hyphens stands in what the
\* parser is given.
LEMMA AtText ==
  ASSUME NEW s \in Seq(STRING), NEW p \in Nat, NEW w, At(s, p + 2, w), Len(w) \in Nat
  PROVE  At(DropHyphens(s), p, w)
<1>1. Len(s) \in Nat /\ p + 2 + Len(w) <= Len(s) /\ \A j \in 1..Len(w) : s[p + 2 + j] = w[j]
  BY DEF At
<1>2. /\ Len(DropHyphens(s)) = Len(s) - 2
      /\ \A j \in 1..(Len(s) - 2) : DropHyphens(s)[j] = s[j + 2]
  <2>1. 3 - 1 = 2 /\ Len(s) - 3 + 1 = Len(s) - 2 /\ 3 <= Len(s) + 1
    BY <1>1
  <2>2. \A k \in 3..Len(s) : s[k] \in STRING
    OBVIOUS
  <2>3. /\ Len(SubSeq(s, 3, Len(s))) = IF 3 <= Len(s) THEN Len(s) - 3 + 1 ELSE 0
        /\ \A j \in 1..(Len(s) - 3 + 1) : SubSeq(s, 3, Len(s))[j] = s[3 + j - 1]
    BY <1>1, <2>2, SubSeqProperties
  <2>4. \A j \in 1..(Len(s) - 2) : 3 + j - 1 = j + 2
    BY <1>1
  <2> QED BY <1>1, <2>1, <2>3, <2>4 DEF DropHyphens
<1>3. p + Len(w) <= Len(DropHyphens(s))
  BY <1>1, <1>2
<1>4. ASSUME NEW j \in 1..Len(w) PROVE DropHyphens(s)[p + j] = w[j]
  <2>1. p + j \in 1..(Len(s) - 2) /\ (p + j) + 2 = p + 2 + j
    <3>1. p + 2 + Len(w) <= Len(s) /\ Len(s) \in Nat /\ Len(w) \in Nat
      BY <1>1
    <3> QED BY <3>1
  <2> QED BY <1>1, <1>2, <2>1
<1> QED BY <1>3, <1>4 DEF At

\* How long the pieces of a form are.
Layout ==
  /\ N \in Nat /\ N >= 3
  /\ Len(header) \in Nat /\ Len(data) \in Nat
  /\ D = N + Len(header) + 4 /\ E = D + Len(data)
  /\ OnePart => Z = E + N + 6
  /\ ~OnePart => Z = E + N + 4
  /\ Len(text) \in Nat /\ Z + 2 <= Len(text) /\ (OnePart => Len(text) = Z + 2)

\* What the text holds, place by place.
Text ==
  /\ Layout
  /\ text \in Seq(Byte) /\ data \in Seq(Byte) /\ boundary \in Seq(STRING)
  /\ \A j \in 1..N : boundary[j] \notin {"CR", "LF"}
  /\ \E j \in 1..N : boundary[j] # "-"
  /\ IsHeader(header)
  /\ \A j \in 1..N : text[j] = boundary[j]
  /\ text[N + 1] = "CR" /\ text[N + 2] = "LF"
  /\ \A j \in 1..Len(header) : text[N + 2 + j] = header[j]
  /\ text[D - 1] = "CR" /\ text[D] = "LF"
  /\ \A j \in 1..Len(data) : text[D + j] = data[j]
  /\ text[E + 1] = "CR" /\ text[E + 2] = "LF" /\ text[E + 3] = "-" /\ text[E + 4] = "-"
  /\ \A j \in 1..N : text[E + 4 + j] = boundary[j]
  /\ OnePart => text[Z - 1] = "-" /\ text[Z] = "-"
  /\ text[Z + 1] = "CR" /\ text[Z + 2] = "LF"

\* A text is one of bytes.
LEMMA BytesOf ==
  ASSUME NEW s \in Seq(STRING)
  PROVE  s \in Seq(Byte) /\ Len(s) \in Nat
<1>1. Len(s) \in Nat /\ \A k \in 1..Len(s) : s[k] \in Byte
  BY DEF Byte
<1> QED BY <1>1

LEMMA ShortTexts ==
  /\ <<"-", "-">> \in Seq(Byte) /\ Len(<<"-", "-">>) = 2
  /\ <<"CR", "LF">> \in Seq(Byte) /\ Len(<<"CR", "LF">>) = 2
  /\ <<"CR", "LF", "-", "-">> \in Seq(Byte) /\ Len(<<"CR", "LF", "-", "-">>) = 4
  /\ <<"-", "-", "CR", "LF">> \in Seq(Byte) /\ Len(<<"-", "-", "CR", "LF">>) = 4
<1>1. "CR" \in Byte /\ "LF" \in Byte /\ "-" \in Byte
  BY DEF Byte
<1> QED BY <1>1

LEMMA TwoTexts ==
  ASSUME NEW u \in Seq(Byte), NEW w \in Seq(Byte)
  PROVE  u \o w \in Seq(Byte) /\ Len(u \o w) = Len(u) + Len(w) /\ Len(u \o w) \in Nat
BY ConcatProperties, LenProperties

\* The boundary is longer than the bytes ReadBody takes off it.
LEMMA BoundaryLong ==
  ASSUME FormsAreLegible, form \in Forms, Plain, data \in Seq(Byte)
  PROVE  N \in Nat /\ N >= 3
<1>1. boundary \in Seq(STRING) /\ N \in Nat /\ N >= 2 /\ Len(data) \in Nat
  BY DEF FormsAreLegible, boundary, N
<1>2. SUFFICES ASSUME N = 2 PROVE FALSE
  BY <1>1
<1>3. DropHyphens(boundary) = <<>>
  <2>1. SubSeq(boundary, 2 + 1, 2) = <<>>
    BY <1>1, SubSeqEmpty
  <2> QED BY <1>2, <2>1 DEF DropHyphens, N
<1>4. SubSeq(data, 1, 1 + 0 - 1) = <<>>
  <2>1. SubSeq(data, 0 + 1, 0) = <<>>
    BY SubSeqEmpty
  <2> QED BY <2>1
<1>5. 1 \in 1..(Len(data) - 0 + 1) /\ Len(<<>>) = 0
  BY <1>1
<1>6. Occurs(<<>>, data)
  BY <1>4, <1>5 DEF Occurs
<1> QED BY <1>3, <1>6 DEF Plain

\* The first part of a form between its delimiters.
Upto(b, h, d, z) ==
  <<"-", "-">> \o b \o <<"CR", "LF">> \o h \o <<"CR", "LF">> \o d \o Delimiter(b) \o z

\* Its pieces stand in s.
Pieces(s, b, h, d, z) ==
  LET n == Len(b)
      p == n + Len(h) + 4
      e == p + Len(d)
  IN  /\ At(s, 2, b) /\ At(s, n + 2, <<"CR", "LF">>) /\ At(s, n + 2 + 2, h)
      /\ At(s, (p - 2) + 2, <<"CR", "LF">>) /\ At(s, p + 2, d)
      /\ At(s, e + 2, <<"CR", "LF", "-", "-">>) /\ At(s, (e + 4) + 2, b)
      /\ At(s, (e + n + 4) + 2, z)
      /\ n \in Nat /\ Len(h) \in Nat /\ Len(d) \in Nat
      /\ Len(Upto(b, h, d, z)) = e + n + 4 + 2 + Len(z)

\* Where the pieces of a form are: behind each place stands the next.
LEMMA PiecesStand ==
  ASSUME NEW s, Len(s) \in Nat, NEW b \in Seq(Byte), NEW h \in Seq(Byte), NEW d \in Seq(Byte),
         NEW z \in Seq(Byte), At(s, 0, Upto(b, h, d, z))
  PROVE  Pieces(s, b, h, d, z)
<1> DEFINE n == Len(b)
           p == n + Len(h) + 4
           e == p + Len(d)
           w == Upto(b, h, d, z)
<1> DEFINE hh == <<"-", "-">>
           le == <<"CR", "LF">>
           dd == <<"CR", "LF", "-", "-">>
<1>1. /\ hh \in Seq(Byte) /\ Len(hh) = 2 /\ le \in Seq(Byte) /\ Len(le) = 2
      /\ dd \in Seq(Byte) /\ Len(dd) = 4
  BY ShortTexts
<1>2. n \in Nat /\ Len(h) \in Nat /\ Len(d) \in Nat /\ Len(z) \in Nat
  BY LenProperties
<1> HIDE DEF w
<1>3. Delimiter(b) = dd \o b
  BY DEF Delimiter
<1> HIDE DEF hh, le, dd
<1> DEFINE s1 == hh \o b
           s2 == s1 \o le
           s3 == s2 \o h
           s4 == s3 \o le
           s5 == s4 \o d
           del == dd \o b
           s6 == s5 \o del
<1>4. s1 \in Seq(Byte) /\ Len(s1) = 2 + n
  <2>1. hh \in Seq(Byte) /\ Len(hh) = 2
    BY <1>1
  <2>2. s1 \in Seq(Byte) /\ Len(s1) = Len(hh) + Len(b)
    BY <2>1, TwoTexts
  <2> QED BY <2>1, <2>2
<1> HIDE DEF s1
<1>5. s2 \in Seq(Byte) /\ Len(s2) = 2 + n + 2
  BY <1>1, <1>4, TwoTexts, ZenonT(60)
<1> HIDE DEF s2
<1>6. s3 \in Seq(Byte) /\ Len(s3) = 2 + n + 2 + Len(h)
  BY <1>5, TwoTexts, ZenonT(60)
<1> HIDE DEF s3
<1>7. s4 \in Seq(Byte) /\ Len(s4) = 2 + n + 2 + Len(h) + 2
  BY <1>1, <1>6, TwoTexts, ZenonT(60)
<1> HIDE DEF s4
<1>8. s5 \in Seq(Byte) /\ Len(s5) = 2 + n + 2 + Len(h) + 2 + Len(d)
  BY <1>7, TwoTexts, ZenonT(60)
<1> HIDE DEF s5
<1>9. del \in Seq(Byte) /\ Len(del) = 4 + n
  BY <1>1, TwoTexts, ZenonT(60)
<1> HIDE DEF del
<1>10. s6 \in Seq(Byte) /\ Len(s6) = 2 + n + 2 + Len(h) + 2 + Len(d) + (4 + n)
  BY <1>8, <1>9, TwoTexts, ZenonT(60)
<1> HIDE DEF s6
<1>11. At(s, 0, s6 \o z) /\ 0 + Len(s6) = (e + n + 4) + 2
  <2>1. At(s, 0, s6 \o z)
    BY <1>3 DEF s6, s5, s4, s3, s2, s1, del, hh, le, dd, Upto, w
  <2> QED BY <1>2, <1>10, <2>1
<1>12. At(s, 0, s6) /\ At(s, (e + n + 4) + 2, z)
  BY <1>10, <1>11, AtConcat, ZenonT(60)
<1>13. At(s, 0, s5) /\ At(s, e + 2, del)
  <2>1. 0 + Len(s5) = e + 2
    BY <1>2, <1>8
  <2>2. At(s, 0, s5 \o del)
    BY <1>12 DEF s6
  <2> QED BY <1>8, <1>9, <2>1, <2>2, AtConcat, ZenonT(60)
<1>14. At(s, e + 2, dd) /\ At(s, (e + 4) + 2, b)
  <2>1. (e + 2) + Len(dd) = (e + 4) + 2
    BY <1>1, <1>2
  <2>2. At(s, e + 2, dd \o b)
    BY <1>13 DEF del
  <2> DEFINE q == e + 2
  <2> HIDE DEF q
  <2>3. At(s, q, dd) /\ At(s, q + Len(dd), b)
    BY <1>1, <2>2, AtConcat, Zenon DEF q
  <2> QED BY <2>1, <2>3 DEF q
<1>15. At(s, 0, s4) /\ At(s, p + 2, d)
  <2>1. 0 + Len(s4) = p + 2
    BY <1>2, <1>7
  <2>2. At(s, 0, s4 \o d)
    BY <1>13 DEF s5
  <2> QED BY <1>7, <2>1, <2>2, AtConcat, ZenonT(60)
<1>16. At(s, 0, s3) /\ At(s, (p - 2) + 2, le)
  <2>1. 0 + Len(s3) = (p - 2) + 2
    BY <1>2, <1>6
  <2>2. At(s, 0, s3 \o le)
    BY <1>15 DEF s4
  <2> QED BY <1>1, <1>6, <2>1, <2>2, AtConcat, ZenonT(60)
<1>17. At(s, 0, s2) /\ At(s, n + 2 + 2, h)
  <2>1. 0 + Len(s2) = n + 2 + 2
    BY <1>2, <1>5
  <2>2. At(s, 0, s2 \o h)
    BY <1>16 DEF s3
  <2> QED BY <1>5, <2>1, <2>2, AtConcat, ZenonT(60)
<1>18. At(s, 0, s1) /\ At(s, n + 2, le)
  <2>1. 0 + Len(s1) = n + 2
    BY <1>2, <1>4
  <2>2. At(s, 0, s1 \o le)
    BY <1>17 DEF s2
  <2> QED BY <1>1, <1>4, <2>1, <2>2, AtConcat, ZenonT(60)
<1>19. At(s, 2, b)
  <2>1. 0 + Len(hh) = 2
    BY <1>1
  <2>2. At(s, 0, hh \o b) /\ hh \in Seq(Byte)
    BY <1>1, <1>18 DEF s1
  <2>3. At(s, 0 + Len(hh), b)
    BY <2>2, AtConcat
  <2> QED BY <2>1, <2>3
<1>20. Len(s6 \o z) = e + n + 4 + 2 + Len(z)
  <2>1. Len(s6 \o z) = Len(s6) + Len(z)
    BY <1>10, TwoTexts, ZenonT(60)
  <2> QED BY <1>2, <1>10, <2>1
<1>21. s6 \o z = w
  BY <1>3 DEF s6, s5, s4, s3, s2, s1, del, hh, le, dd, Upto, w
<1> QED BY <1>2, <1>12, <1>14, <1>15, <1>16, <1>17, <1>18, <1>19, <1>20, <1>21, Zenon
        DEF hh, le, dd, Pieces, w

\* The bytes of a short text, one by one.
LEMMA ShortStands ==
  ASSUME NEW s, NEW p
  PROVE  /\ At(s, p, <<"CR", "LF">>) => s[p + 1] = "CR" /\ s[p + 2] = "LF"
         /\ At(s, p, <<"CR", "LF", "-", "-">>) =>
              /\ s[p + 1] = "CR" /\ s[p + 2] = "LF"
              /\ s[p + 3] = "-" /\ s[p + 4] = "-"
         /\ At(s, p, <<"-", "-", "CR", "LF">>) =>
              /\ s[p + 1] = "-" /\ s[p + 2] = "-"
              /\ s[p + 3] = "CR" /\ s[p + 4] = "LF"
<1>1. ASSUME At(s, p, <<"CR", "LF">>) PROVE s[p + 1] = "CR" /\ s[p + 2] = "LF"
  <2>1. \A j \in 1..2 : s[p + j] = <<"CR", "LF">>[j]
    BY <1>1, ShortTexts DEF At
  <2> QED BY <2>1
<1>2. ASSUME At(s, p, <<"CR", "LF", "-", "-">>)
      PROVE  /\ s[p + 1] = "CR" /\ s[p + 2] = "LF"
             /\ s[p + 3] = "-" /\ s[p + 4] = "-"
  <2>1. \A j \in 1..4 : s[p + j] = <<"CR", "LF", "-", "-">>[j]
    BY <1>2, ShortTexts DEF At
  <2> QED BY <2>1
<1>3. ASSUME At(s, p, <<"-", "-", "CR", "LF">>)
      PROVE  /\ s[p + 1] = "-" /\ s[p + 2] = "-"
             /\ s[p + 3] = "CR" /\ s[p + 4] = "LF"
  <2>1. \A j \in 1..4 : s[p + j] = <<"-", "-", "CR", "LF">>[j]
    BY <1>3, ShortTexts DEF At
  <2> QED BY <2>1
<1> QED BY <1>1, <1>2, <1>3

\* The text of a sound form holds its pieces.
LEMMA TextStands ==
  ASSUME FormsAreLegible, FormsAreSound, form \in Forms, Plain
  PROVE  Text
<1> DEFINE s == form.text
           b == boundary
           z == IF OnePart THEN <<"-", "-", "CR", "LF">> ELSE <<"CR", "LF">>
           front == <<"-", "-">> \o b \o <<"CR", "LF">> \o header \o <<"CR", "LF">> \o data
                      \o Delimiter(b) \o z
<1>1. IsForm(form)
  BY DEF FormsAreSound, Plain
<1>2. s \in Seq(STRING) /\ b \in Seq(STRING)
  BY DEF FormsAreLegible, boundary
<1>3. /\ header \in Seq(STRING) /\ data \in Seq(STRING) /\ IsHeader(header)
      /\ \A j \in 1..Len(b) : b[j] \notin {"CR", "LF"}
      /\ \E j \in 1..Len(b) : b[j] # "-"
      /\ IF OnePart THEN s = front ELSE IsPrefix(front, s)
  BY <1>1 DEF IsForm, header, data, boundary, OnePart
<1>4. /\ s \in Seq(Byte) /\ Len(s) \in Nat /\ b \in Seq(Byte) /\ header \in Seq(Byte)
      /\ data \in Seq(Byte)
  BY <1>2, <1>3, BytesOf
<1>5. z \in Seq(Byte) /\ Len(z) = IF OnePart THEN 4 ELSE 2
  BY ShortTexts
<1>6. N \in Nat /\ N >= 3 /\ N = Len(b)
  BY <1>4, BoundaryLong DEF N
<1> HIDE DEF s, b
<1>7. At(s, 0, front) /\ (OnePart => Len(s) = Len(front))
  <2>1. Len(front) \in Nat
    <3>1. /\ <<"-", "-">> \in Seq(Byte) /\ <<"CR", "LF">> \in Seq(Byte)
          /\ Delimiter(b) \in Seq(Byte)
      BY <1>4, ShortTexts, TwoTexts DEF Delimiter
    <3> HIDE DEF z
    <3> QED BY <1>4, <1>5, <3>1, TwoTexts, ZenonT(60)
  <2> HIDE DEF front
  <2>2. CASE OnePart
    <3>1. s = front
      BY <1>3, <2>2
    <3> QED BY <1>4, <3>1 DEF At
  <2>3. CASE ~OnePart
    <3>1. Len(front) <= Len(s) /\ SubSeq(front, 1, Len(front)) = SubSeq(s, 1, Len(front))
      BY <1>3, <2>3 DEF IsPrefix
    <3>2. \A j \in 1..Len(front) : s[j] = front[j]
      BY <1>4, <2>1, <3>1
    <3> QED BY <1>4, <2>1, <2>3, <3>1, <3>2 DEF At
  <2> QED BY <2>2, <2>3
<1>8. /\ At(s, 2, b) /\ At(s, N + 2, <<"CR", "LF">>) /\ At(s, N + 2 + 2, header)
      /\ At(s, (D - 2) + 2, <<"CR", "LF">>) /\ At(s, D + 2, data)
      /\ At(s, E + 2, <<"CR", "LF", "-", "-">>) /\ At(s, (E + 4) + 2, b)
      /\ At(s, (E + N + 4) + 2, z)
      /\ Len(header) \in Nat /\ Len(data) \in Nat
      /\ Len(front) = E + N + 4 + 2 + Len(z)
  <2> HIDE DEF z
  <2>1. Len(s) \in Nat /\ At(s, 0, front) /\ N = Len(b)
    BY <1>4, <1>6, <1>7
  <2>2. N = Len(b) /\ D = N + Len(header) + 4 /\ E = D + Len(data)
    BY <2>1 DEF D, E
  <2>3. front = Upto(b, header, data, z)
    BY DEF Upto
  <2> HIDE DEF front
  <2>4. Pieces(s, b, header, data, z)
    BY <1>4, <1>5, <2>1, <2>3, PiecesStand
  <2> QED BY <2>2, <2>3, <2>4, Zenon DEF Pieces
<1> HIDE DEF front
<1>9. /\ D = N + Len(header) + 4 /\ E = D + Len(data)
      /\ Z = E + N + (IF OnePart THEN 6 ELSE 4)
      /\ D \in Nat /\ E \in Nat /\ D - 2 \in Nat
  BY <1>6, <1>8 DEF D, E, Z
<1>10. /\ At(text, 0, b) /\ At(text, N, <<"CR", "LF">>) /\ At(text, N + 2, header)
       /\ At(text, D - 2, <<"CR", "LF">>) /\ At(text, D, data)
       /\ At(text, E, <<"CR", "LF", "-", "-">>) /\ At(text, E + 4, b)
       /\ At(text, E + N + 4, z)
  <2>1. \A p \in Nat : 0 + 2 = 2 /\ p + 2 \in Nat /\ p + 4 \in Nat /\ p + N + 4 \in Nat
    BY <1>6
  <2>2. text = DropHyphens(s)
    BY DEF text, s
  <2>3. s \in Seq(STRING)
    BY <1>2 DEF s
  <2>4. /\ Len(b) \in Nat /\ Len(<<"CR", "LF">>) \in Nat
        /\ Len(<<"CR", "LF", "-", "-">>) \in Nat /\ Len(z) \in Nat
    BY <1>5, <1>6, ShortTexts
  <2> HIDE DEF z
  <2> QED BY <1>6, <1>8, <1>9, <2>1, <2>2, <2>3, <2>4, AtText
<1>11. text \in Seq(Byte) /\ Len(text) \in Nat /\ (OnePart => Len(text) = Z + 2)
  <2>1. text \in Seq(Byte)
    BY TextIsText
  <2>2. OnePart => Len(s) = Z + 4
    <3> HIDE DEF z
    <3>1. SUFFICES ASSUME OnePart PROVE Len(s) = Z + 4
      OBVIOUS
    <3>2. Len(s) = E + N + 4 + 2 + 4 /\ Z = E + N + 6
      BY <1>5, <1>7, <1>8, <1>9, <3>1
    <3> QED BY <1>6, <1>9, <3>2
  <2>3. Len(text) = IF 3 <= Len(s) THEN Len(s) - 3 + 1 ELSE 0
    <3>1. (\A k \in 3..Len(s) : s[k] \in Byte) /\ 3 \in Int /\ Len(s) \in Int
      BY <1>4
    <3>2. text = SubSeq(s, 3, Len(s))
      BY DEF text, DropHyphens, s
    <3>3. Len(SubSeq(s, 3, Len(s))) = IF 3 <= Len(s) THEN Len(s) - 3 + 1 ELSE 0
      BY <3>1, SubSeqProperties
    <3> QED BY <3>2, <3>3
  <2>4. OnePart => Len(text) = Z + 2
    <3>1. Z \in Nat
      BY <1>6, <1>9
    <3> QED BY <1>4, <2>2, <2>3, <3>1
  <2>5. Len(text) \in Nat
    BY <2>1
  <2> QED BY <2>1, <2>4, <2>5
<1>12. Z + 2 <= Len(text)
  <2>1. (E + N + 4) + Len(z) <= Len(text)
    BY <1>10 DEF At
  <2>2. (E + N + 4) + Len(z) = Z + 2
    <3> HIDE DEF z
    <3>1. CASE OnePart
      BY <1>5, <1>6, <1>9, <3>1
    <3>2. CASE ~OnePart
      BY <1>5, <1>6, <1>9, <3>2
    <3> QED BY <3>1, <3>2
  <2> QED BY <2>1, <2>2
<1> HIDE DEF z
<1>13. Layout
  BY <1>6, <1>8, <1>9, <1>11, <1>12 DEF Layout
<1>14. /\ \A j \in 1..N : text[j] = b[j]
       /\ text[N + 1] = "CR" /\ text[N + 2] = "LF"
       /\ \A j \in 1..Len(header) : text[N + 2 + j] = header[j]
  <2>1. \A j \in 1..N : text[0 + j] = b[j] /\ 0 + j = j
    BY <1>6, <1>10 DEF At
  <2>2. text[N + 1] = "CR" /\ text[N + 2] = "LF"
    BY <1>10, ShortStands
  <2>3. \A j \in 1..Len(header) : text[N + 2 + j] = header[j]
    BY <1>10 DEF At
  <2> QED BY <2>1, <2>2, <2>3
<1>15. /\ text[D - 1] = "CR" /\ text[D] = "LF"
       /\ \A j \in 1..Len(data) : text[D + j] = data[j]
  <2>1. (D - 2) + 1 = D - 1 /\ (D - 2) + 2 = D
    BY <1>9
  <2>2. text[(D - 2) + 1] = "CR" /\ text[(D - 2) + 2] = "LF"
    BY <1>10, ShortStands
  <2>3. \A j \in 1..Len(data) : text[D + j] = data[j]
    BY <1>10 DEF At
  <2> QED BY <2>1, <2>2, <2>3
<1>16. /\ text[E + 1] = "CR" /\ text[E + 2] = "LF" /\ text[E + 3] = "-" /\ text[E + 4] = "-"
       /\ \A j \in 1..N : text[E + 4 + j] = b[j]
  <2>1. /\ text[E + 1] = "CR" /\ text[E + 2] = "LF"
        /\ text[E + 3] = "-" /\ text[E + 4] = "-"
    BY <1>10, ShortStands
  <2>2. \A j \in 1..N : text[E + 4 + j] = b[j]
    BY <1>6, <1>10 DEF At
  <2> QED BY <2>1, <2>2
<1>17. /\ OnePart => text[Z - 1] = "-" /\ text[Z] = "-"
       /\ text[Z + 1] = "CR" /\ text[Z + 2] = "LF"
  <2>1. CASE OnePart
    <3>1. /\ (E + N + 4) + 1 = Z - 1 /\ (E + N + 4) + 2 = Z
          /\ (E + N + 4) + 3 = Z + 1 /\ (E + N + 4) + 4 = Z + 2
      BY <1>6, <1>9, <2>1
    <3>2. At(text, E + N + 4, <<"-", "-", "CR", "LF">>)
      BY <1>10, <2>1 DEF z
    <3>3. /\ text[(E + N + 4) + 1] = "-" /\ text[(E + N + 4) + 2] = "-"
          /\ text[(E + N + 4) + 3] = "CR" /\ text[(E + N + 4) + 4] = "LF"
      BY <3>2, ShortStands
    <3> QED BY <3>1, <3>3
  <2>2. CASE ~OnePart
    <3>1. (E + N + 4) + 1 = Z + 1 /\ (E + N + 4) + 2 = Z + 2
      BY <1>6, <1>9, <2>2
    <3>2. At(text, E + N + 4, <<"CR", "LF">>)
      BY <1>10, <2>2 DEF z
    <3>3. text[(E + N + 4) + 1] = "CR" /\ text[(E + N + 4) + 2] = "LF"
      BY <3>2, ShortStands
    <3> QED BY <2>2, <3>1, <3>3
  <2> QED BY <2>1, <2>2
<1> QED BY <1>2, <1>3, <1>4, <1>6, <1>11, <1>13, <1>14, <1>15, <1>16, <1>17 DEF Text, b

\* A piece of a text, byte by byte.
LEMMA PieceOf ==
  ASSUME NEW s \in Seq(Byte), NEW m \in Nat, NEW q \in m..Len(s)
  PROVE  /\ SubSeq(s, m + 1, q) \in Seq(Byte)
         /\ Len(SubSeq(s, m + 1, q)) = q - m
         /\ \A j \in 1..(q - m) : SubSeq(s, m + 1, q)[j] = s[m + j]
<1>1. Len(s) \in Nat /\ \A k \in (m + 1)..q : s[k] \in Byte
  OBVIOUS
<1>2. m + 1 \in Int /\ q \in Int /\ m <= q
  BY <1>1
<1>3. /\ SubSeq(s, m + 1, q) \in Seq(Byte)
      /\ Len(SubSeq(s, m + 1, q)) = IF m + 1 <= q THEN q - (m + 1) + 1 ELSE 0
      /\ \A j \in 1..(q - (m + 1) + 1) : SubSeq(s, m + 1, q)[j] = s[m + 1 + j - 1]
  BY <1>1, <1>2, SubSeqProperties
<1>4. q - (m + 1) + 1 = q - m /\ (~(m + 1 <= q) => q - m = 0)
  BY <1>2
<1>5. \A j \in 1..(q - m) : m + 1 + j - 1 = m + j
  BY <1>2
<1> QED BY <1>3, <1>4, <1>5

LEMMA LeastNumber ==
  ASSUME NEW T, T \subseteq Nat, T # {}
  PROVE  \E x \in T : \A y \in T : x <= y
<1> DEFINE less == {r \in Nat \X Nat : r[1] < r[2]}
<1>1. IsWellFoundedOn(less, Nat)
  BY NatLessThanWellFounded, Zenon DEF OpToRel
<1> HIDE DEF less
<1>2. PICK x \in T : \A y \in T : ~(<<y, x>> \in less)
  BY <1>1, WFMin, Zenon
<1>3. ASSUME NEW y \in T PROVE x <= y
  <2>1. x \in Nat /\ y \in Nat /\ ~(<<y, x>> \in less)
    BY <1>2
  <2>2. <<y, x>> \in Nat \X Nat /\ <<y, x>>[1] = y /\ <<y, x>>[2] = x
    BY <2>1
  <2>3. ~(y < x)
    BY <2>1, <2>2, Zenon DEF less
  <2> QED BY <2>1, <2>3
<1> QED BY <1>3

\* The places, as numbers.
LEMMA Numbers ==
  ASSUME Text
  PROVE  /\ N \in Nat /\ D \in Nat /\ E \in Nat /\ Z \in Nat /\ Len(text) \in Nat
         /\ Len(header) \in Nat /\ Len(data) \in Nat
         /\ N >= 3 /\ D = N + Len(header) + 4 /\ E = D + Len(data)
         /\ D <= E /\ D <= Z /\ E + 7 <= Z /\ E + N + 4 <= Z /\ Z + 2 <= Len(text)
         /\ OnePart => Z = E + N + 6 /\ Len(text) = Z + 2
         /\ ~OnePart => Z = E + N + 4
<1>1. Layout
  BY DEF Text
<1>2. /\ N \in Nat /\ N >= 3 /\ Len(header) \in Nat /\ Len(data) \in Nat /\ Len(text) \in Nat
      /\ D = N + Len(header) + 4 /\ E = D + Len(data)
  BY <1>1 DEF Layout
<1>3. D \in Nat /\ E \in Nat
  BY <1>2
<1>4. CASE OnePart
  BY <1>1, <1>2, <1>3, <1>4 DEF Layout
<1>5. CASE ~OnePart
  BY <1>1, <1>2, <1>3, <1>5 DEF Layout
<1> QED BY <1>4, <1>5

\* The first byte of the boundary that is not a hyphen.
LEMMA NoHyphen ==
  ASSUME Text
  PROVE  \E j \in 1..N : boundary[j] # "-" /\ \A k \in 1..(j - 1) : boundary[k] = "-"
<1> DEFINE T == {j \in 1..N : boundary[j] # "-"}
<1>1. N \in Nat /\ \E j \in 1..N : boundary[j] # "-"
  BY Numbers DEF Text
<1>2. PICK j \in T : \A y \in T : j <= y
  <2>1. T # {} /\ T \subseteq Nat
    BY <1>1
  <2> HIDE DEF T
  <2> QED BY <2>1, LeastNumber
<1>3. ASSUME NEW k \in 1..(j - 1) PROVE boundary[k] = "-"
  <2>1. k \in 1..N /\ ~(j <= k)
    BY <1>1, <1>2
  <2> QED BY <1>2, <2>1
<1> QED BY <1>2, <1>3

\* From the delimiter to Z there is no line end but the one it begins with.
LEMMA NoLineEnds ==
  ASSUME Text, NEW q \in (E + 1)..Z
  PROVE  (text[q] = "CR" => q = E + 1) /\ (text[q] = "LF" => q = E + 2)
<1>1. N \in Nat /\ E \in Nat /\ Z \in Nat
  BY Numbers
<1>2. CASE q <= E + 4
  <2>1. q = E + 1 \/ q = E + 2 \/ q = E + 3 \/ q = E + 4
    BY <1>1, <1>2
  <2> QED BY <2>1 DEF Text
<1>3. CASE q > E + 4 /\ q <= E + 4 + N
  <2> DEFINE j == q - (E + 4)
  <2>1. j \in 1..N /\ E + 4 + j = q
    BY <1>1, <1>3
  <2> HIDE DEF j
  <2>2. text[q] = boundary[j] /\ boundary[j] \notin {"CR", "LF"}
    BY <2>1 DEF Text
  <2> QED BY <2>2
<1>4. CASE q > E + 4 + N
  <2>1. OnePart /\ (q = Z - 1 \/ q = Z)
    BY <1>1, <1>4, Numbers
  <2> QED BY <2>1 DEF Text
<1> QED BY <1>1, <1>2, <1>3, <1>4

\* What ReadBody takes for the boundary.
LEMMA Shortened ==
  ASSUME Text
  PROVE  /\ DropHyphens(boundary) \in Seq(Byte)
         /\ Len(DropHyphens(boundary)) = N - 2
         /\ \A j \in 1..(N - 2) : DropHyphens(boundary)[j] = boundary[j + 2]
<1>1. boundary \in Seq(Byte) /\ N \in Nat /\ N >= 3 /\ N = Len(boundary)
  BY Numbers, BytesOf DEF Text, N
<1>2. 2 \in Nat /\ N \in 2..Len(boundary)
  BY <1>1
<1>3. /\ SubSeq(boundary, 2 + 1, N) \in Seq(Byte)
      /\ Len(SubSeq(boundary, 2 + 1, N)) = N - 2
      /\ \A j \in 1..(N - 2) : SubSeq(boundary, 2 + 1, N)[j] = boundary[2 + j]
  BY <1>1, <1>2, PieceOf
<1>4. DropHyphens(boundary) = SubSeq(boundary, 2 + 1, N)
  BY <1>1 DEF DropHyphens
<1>5. \A j \in 1..(N - 2) : 2 + j = j + 2
  BY <1>1
<1> QED BY <1>3, <1>4, <1>5

\* It is not in the data.
LEMMA NotInData ==
  ASSUME Text, Plain, NEW m \in D..E, m + (N - 2) <= E,
         \A j \in 1..(N - 2) : text[m + j] = boundary[j + 2]
  PROVE  FALSE
<1>1. /\ N \in Nat /\ D \in Nat /\ E \in Nat /\ N >= 3 /\ Len(data) \in Nat
      /\ E = D + Len(data)
  BY Numbers
<1> DEFINE l == m - D
           s == DropHyphens(boundary)
           p == SubSeq(data, l + 1, l + (N - 2))
<1>2. l \in Nat /\ l + (N - 2) \in l..Len(data) /\ (l + (N - 2)) - l = N - 2 /\ D + l = m
  BY <1>1
<1>3. /\ p \in Seq(Byte) /\ Len(p) = N - 2
      /\ \A j \in 1..(N - 2) : p[j] = data[l + j]
  <2> DEFINE r == l + (N - 2)
  <2>1. data \in Seq(Byte)
    BY DEF Text
  <2>2. l \in Nat /\ r \in l..Len(data) /\ r - l = N - 2
    BY <1>2
  <2> HIDE DEF l, r
  <2>3. /\ SubSeq(data, l + 1, r) \in Seq(Byte) /\ Len(SubSeq(data, l + 1, r)) = r - l
        /\ \A j \in 1..(r - l) : SubSeq(data, l + 1, r)[j] = data[l + j]
    BY <2>1, <2>2, PieceOf
  <2> QED BY <2>2, <2>3 DEF r
<1>4. s \in Seq(Byte) /\ Len(s) = N - 2 /\ \A j \in 1..(N - 2) : s[j] = boundary[j + 2]
  BY Shortened
<1> HIDE DEF s, p
<1>5. ASSUME NEW j \in 1..(N - 2) PROVE p[j] = s[j]
  <2>1. l + j \in 1..Len(data) /\ D + (l + j) = m + j
    BY <1>1, <1>2
  <2>2. text[D + (l + j)] = data[l + j]
    BY <2>1 DEF Text
  <2>3. text[m + j] = boundary[j + 2]
    OBVIOUS
  <2> QED BY <1>3, <1>4, <2>1, <2>2, <2>3
<1>6. p = s
  BY <1>3, <1>4, <1>5, SeqEqual
<1>7. Occurs(s, data)
  <2>1. l + 1 \in 1..(Len(data) - Len(s) + 1) /\ (l + 1) + Len(s) - 1 = l + (N - 2)
    BY <1>1, <1>2, <1>4
  <2>2. SubSeq(data, l + 1, (l + 1) + Len(s) - 1) = s
    BY <1>6, <2>1 DEF p
  <2> QED BY <2>1, <2>2 DEF Occurs
<1> QED BY <1>7 DEF Plain, s

\* Nothing that is emitted before the delimiter is taken for the boundary.
LEMMA PieceIsKept ==
  ASSUME Text, Plain, NEW m \in D..E, NEW q \in m..E
  PROVE  ~IsBoundary(SubSeq(text, m + 1, q))
<1> SUFFICES ASSUME IsBoundary(SubSeq(text, m + 1, q)) PROVE FALSE
  OBVIOUS
<1>1. N \in Nat /\ D \in Nat /\ E \in Nat /\ E <= Len(text) /\ Len(text) \in Nat
  <2>1. E + 7 <= Z /\ Z + 2 <= Len(text) /\ E \in Nat /\ Z \in Nat /\ Len(text) \in Nat
    BY Numbers
  <2> QED BY <2>1, Numbers
<1>2. text \in Seq(Byte) /\ m \in Nat /\ q \in m..Len(text)
  BY <1>1 DEF Text
<1> DEFINE p == SubSeq(text, m + 1, q)
<1>3. Len(p) = q - m /\ \A j \in 1..(q - m) : p[j] = text[m + j]
  BY <1>2, PieceOf
<1>4. Len(p) = N - 2 /\ \A j \in 1..(N - 2) : p[j] = boundary[j + 2]
  BY Shortened DEF IsBoundary
<1> HIDE DEF p
<1>5. m + (N - 2) <= E
  BY <1>1, <1>2, <1>3, <1>4
<1>6. \A j \in 1..(N - 2) : text[m + j] = boundary[j + 2]
  BY <1>3, <1>4
<1> QED BY <1>5, <1>6, NotInData

\* Nor is what begins with a carriage return.
LEMMA LineEndIsKept ==
  ASSUME Text, NEW piece, piece[1] = "CR"
  PROVE  ~IsBoundary(piece)
<1>1. 1 \in 1..(N - 2) /\ 1 + 2 \in 1..N
  BY Numbers
<1>2. DropHyphens(boundary)[1] = boundary[1 + 2] /\ boundary[1 + 2] # "CR"
  BY <1>1, Shortened DEF Text
<1> QED BY <1>2 DEF IsBoundary

\* The parser never meets a whole boundary: behind a line end of the data
\* there is none, and the delimiter begins with two hyphens more.
LEMMA NeverWhole ==
  ASSUME Text, Plain, NEW q \in (D + 2)..Z, text[q] = "LF", Alike(q, N)
  PROVE  FALSE
<1>1. N \in Nat /\ D \in Nat /\ E \in Nat /\ Z \in Nat /\ N >= 3 /\ D <= E
  BY Numbers
<1>2. \A j \in 1..N : boundary[j] = text[q + j]
  BY DEF Alike
<1>3. CASE q + N <= E
  <2>1. q + 2 \in D..E /\ (q + 2) + (N - 2) <= E
    BY <1>1, <1>3
  <2>2. ASSUME NEW j \in 1..(N - 2) PROVE text[(q + 2) + j] = boundary[j + 2]
    <3>1. j + 2 \in 1..N /\ q + (j + 2) = (q + 2) + j
      BY <1>1
    <3> QED BY <1>2, <3>1
  <2> QED BY <2>1, <2>2, NotInData
<1>4. CASE q <= E /\ q + N > E
  <2>1. (E + 1) - q \in 1..N /\ q + ((E + 1) - q) = E + 1
    BY <1>1, <1>4
  <2>2. boundary[(E + 1) - q] = "CR"
    BY <1>2, <2>1 DEF Text
  <2> QED BY <2>1, <2>2 DEF Text
<1>5. CASE q = E + 2
  <2>1. PICK j \in 1..N : boundary[j] # "-" /\ \A k \in 1..(j - 1) : boundary[k] = "-"
    BY NoHyphen
  <2>2. boundary[j] = text[(E + 2) + j]
    BY <1>2, <1>5
  <2>3. CASE j <= 2
    <3>1. (E + 2) + j = E + 3 \/ (E + 2) + j = E + 4
      BY <1>1, <2>3
    <3> QED BY <2>1, <2>2, <3>1 DEF Text
  <2>4. CASE j > 2
    <3>1. j - 2 \in 1..N /\ (E + 2) + j = E + 4 + (j - 2) /\ j - 2 \in 1..(j - 1)
      BY <1>1, <2>4
    <3>2. boundary[j] = boundary[j - 2]
      BY <2>2, <3>1 DEF Text
    <3> QED BY <2>1, <3>1, <3>2
  <2> QED BY <1>1, <2>3, <2>4
<1>6. CASE q > E
  BY <1>1, <1>5, <1>6, NoLineEnds
<1> QED BY <1>1, <1>3, <1>4, <1>6

\* What is emitted at the end of a form with one part is not taken for the
\* boundary either: it would have to be all hyphens.
LEMMA EndIsKept ==
  ASSUME Text, OnePart, NEW k \in 0..(N - 1), Alike(E + 2, k)
  PROVE  ~IsBoundary(SubSeq(text, (E + 2 + k) + 1, Z))
<1> SUFFICES ASSUME IsBoundary(SubSeq(text, (E + 2 + k) + 1, Z)) PROVE FALSE
  OBVIOUS
<1>1. /\ N \in Nat /\ E \in Nat /\ Z \in Nat /\ N >= 3 /\ Z = E + N + 6
      /\ Len(text) = Z + 2
  BY Numbers
<1> DEFINE m == E + 2 + k
           p == SubSeq(text, m + 1, Z)
<1>2. text \in Seq(Byte) /\ m \in Nat /\ Z \in m..Len(text)
  BY <1>1 DEF Text
<1>3. Len(p) = Z - m /\ \A j \in 1..(Z - m) : p[j] = text[m + j]
  <2> HIDE DEF m
  <2> QED BY <1>2, PieceOf
<1>4. Len(p) = N - 2 /\ \A j \in 1..(N - 2) : p[j] = boundary[j + 2]
  BY Shortened DEF IsBoundary
<1> HIDE DEF p
<1>5. k = 6 /\ m = E + 8 /\ Z - m = N - 2 /\ N >= 7
  BY <1>1, <1>3, <1>4
<1> HIDE DEF m
<1>6. PICK j \in 1..N : boundary[j] # "-" /\ \A h \in 1..(j - 1) : boundary[h] = "-"
  BY NoHyphen
<1>7. \A h \in 1..6 : boundary[h] = text[(E + 2) + h]
  BY <1>5 DEF Alike
<1>8. CASE j <= 2
  <2>1. j \in 1..6 /\ ((E + 2) + j = E + 3 \/ (E + 2) + j = E + 4)
    BY <1>1, <1>8
  <2>2. boundary[j] = text[(E + 2) + j]
    BY <1>7, <2>1
  <2> QED BY <1>6, <2>1, <2>2 DEF Text
<1>9. CASE j \in 3..6
  <2>1. j \in 1..6 /\ j - 2 \in 1..N /\ (E + 2) + j = E + 4 + (j - 2) /\ j - 2 \in 1..(j - 1)
    BY <1>1, <1>5, <1>9
  <2>2. boundary[j] = text[(E + 2) + j]
    BY <1>7, <2>1
  <2>3. boundary[j] = boundary[j - 2]
    BY <2>1, <2>2 DEF Text
  <2> QED BY <1>6, <2>1, <2>3
<1>10. CASE j > 6
  <2>1. /\ j - 4 \in 1..(N - 2) /\ (j - 4) + 2 = j - 2 /\ m + (j - 4) = E + 4 + j
        /\ j - 2 \in 1..(j - 1)
    BY <1>1, <1>5, <1>10
  <2>2. text[m + (j - 4)] = boundary[(j - 4) + 2]
    BY <1>3, <1>4, <1>5, <2>1
  <2>3. text[E + 4 + j] = boundary[j]
    BY DEF Text
  <2> QED BY <1>6, <2>1, <2>2, <2>3
<1> QED BY <1>1, <1>8, <1>9, <1>10

-----------------------------------------------------------------------------
(* The header *)

LEMMA SameForm ==
  ASSUME form' = form
  PROVE  /\ text' = text /\ boundary' = boundary /\ header' = header /\ data' = data
         /\ N' = N /\ D' = D /\ E' = E /\ Z' = Z /\ OnePart' = OnePart
<1>1. text' = text /\ boundary' = boundary /\ header' = header /\ data' = data
  BY DEF text, boundary, header, data
<1>2. N' = N /\ OnePart' = OnePart
  BY <1>1 DEF N, OnePart
<1>3. D' = D
  BY <1>1, <1>2 DEF D
<1>4. E' = E
  BY <1>1, <1>3 DEF E
<1> QED BY <1>1, <1>2, <1>3, <1>4 DEF Z

\* The place k of the header in the text.
LEMMA HeaderByte ==
  ASSUME Text, NEW q \in (N + 2)..(D - 3)
  PROVE  q - (N + 2) \in 0..(Len(header) - 1) /\ text[q + 1] = header[(q - (N + 2)) + 1]
<1> DEFINE k == q - (N + 2)
<1>1. /\ k \in 0..(Len(header) - 1) /\ k + 1 \in 1..Len(header)
      /\ N + 2 + (k + 1) = q + 1
  <2>1. N \in Nat /\ Len(header) \in Nat /\ D = N + Len(header) + 4
    BY Numbers
  <2> QED BY <2>1
<1> HIDE DEF k
<1>2. text[N + 2 + (k + 1)] = header[k + 1]
  BY <1>1 DEF Text
<1> QED BY <1>1, <1>2 DEF k

\* In front of the colon a line has only bytes the parser takes.
LEMMA NameByte ==
  ASSUME Text, FormsAreSound, NEW k \in 0..(Len(header) - 1), ~Colon(k)
  PROVE  /\ header[k + 1] \in Letters \cup {"-", ":"}
         /\ header[k + 1] \notin {"CR", "LF"}
         /\ header[k + 1] = ":" => Colon(k + 1)
         /\ header[k + 1] # ":" => ~Colon(k + 1)
<1> DEFINE h == header[k + 1]
<1>1. Len(header) \in Nat /\ k \in Nat /\ k + 1 \in 1..Len(header)
  BY Numbers
<1>2. ASSUME NEW m \in 1..k, header[m] = ":", \A q \in m..k : header[q] # "LF"
      PROVE  FALSE
  BY <1>2 DEF Colon
<1>3. IsHeader(header) /\ "CR" \notin Letters /\ "LF" \notin Letters
  BY DEF Text, FormsAreSound
<1>4. h \in Letters \cup {"-", ":", "LF"}
  <2>1. SUFFICES ASSUME NEW m \in 1..((k + 1) - 1), header[m] = ":",
                        \A q \in m..(k + 1) : header[q] # "LF"
                 PROVE  FALSE
    BY <1>1, <1>3 DEF IsHeader
  <2>2. m \in 1..k /\ \A q \in m..k : q \in m..(k + 1)
    BY <1>1
  <2> QED BY <1>2, <2>1, <2>2
<1>5. h # "LF"
  <2>1. SUFFICES ASSUME h = "LF" PROVE FALSE
    OBVIOUS
  <2>2. k + 1 > 1 /\ header[(k + 1) - 1] = "CR"
    BY <1>1, <1>3, <2>1 DEF IsHeader
  <2>3. k \in 1..Len(header) /\ header[k] = "CR"
    BY <1>1, <2>2
  <2>4. PICK m \in 1..(k - 1) : header[m] = ":" /\ \A q \in m..k : header[q] # "LF"
    <3>1. header[k] \notin Letters \cup {"-", ":", "LF"}
      BY <1>3, <2>3
    <3> QED BY <1>3, <2>3, <3>1 DEF IsHeader
  <2>5. m \in 1..k
    BY <1>1, <2>3
  <2> QED BY <1>2, <2>4, <2>5
<1>6. h = ":" => Colon(k + 1)
  <2>1. k + 1 \in 1..(k + 1) /\ \A q \in (k + 1)..(k + 1) : q = k + 1
    BY <1>1
  <2>2. h = ":" => h # "LF"
    BY <1>5
  <2> QED BY <2>1, <2>2 DEF Colon
<1>7. ASSUME h # ":", Colon(k + 1) PROVE FALSE
  <2>1. PICK m \in 1..(k + 1) : header[m] = ":" /\ \A q \in m..(k + 1) : header[q] # "LF"
    BY <1>7 DEF Colon
  <2>2. m # k + 1
    BY <1>7, <2>1
  <2>3. m \in 1..k /\ \A q \in m..k : q \in m..(k + 1)
    BY <1>1, <2>2
  <2> QED BY <1>2, <2>1, <2>3
<1> QED BY <1>3, <1>4, <1>5, <1>6, <1>7

\* Behind the colon the line goes on to its end.
LEMMA ValueByte ==
  ASSUME Text, NEW k \in 0..(Len(header) - 1), Colon(k), header[k] # "CR"
  PROVE  header[k + 1] # "LF" /\ Colon(k + 1) /\ k >= 1
<1>1. Len(header) \in Nat /\ k \in Nat /\ k + 1 \in 1..Len(header)
  BY Numbers
<1>2. PICK m \in 1..k : header[m] = ":" /\ \A q \in m..k : header[q] # "LF"
  BY DEF Colon
<1>3. header[k + 1] # "LF"
  <2>1. header[k + 1] = "LF" => header[(k + 1) - 1] = "CR"
    BY <1>1 DEF Text, IsHeader
  <2>2. (k + 1) - 1 = k
    BY <1>1
  <2> QED BY <2>1, <2>2
<1>4. Colon(k + 1)
  <2>1. m \in 1..(k + 1) /\ \A q \in m..(k + 1) : q \in m..k \/ q = k + 1
    BY <1>1
  <2> QED BY <1>2, <1>3, <2>1 DEF Colon
<1> QED BY <1>1, <1>2, <1>3, <1>4

\* And behind its end there is another one, or none.
LEMMA LineByte ==
  ASSUME Text, NEW k \in 1..Len(header), header[k] = "CR"
  PROVE  k < Len(header) /\ header[k + 1] = "LF" /\ ~Colon(k + 1)
<1>1. Len(header) \in Nat
  BY Numbers
<1>2. k < Len(header) /\ header[k + 1] = "LF"
  BY DEF Text, IsHeader
<1>3. \A m \in 1..(k + 1) : k + 1 \in m..(k + 1)
  BY <1>1
<1> QED BY <1>2, <1>3 DEF Colon

\* The last line is at its end.
LEMMA NoOpenLine ==
  ASSUME Text
  PROVE  ~Colon(Len(header))
<1>1. Len(header) \in Nat
  BY Numbers
<1>2. SUFFICES ASSUME NEW m \in 1..Len(header), \A q \in m..Len(header) : header[q] # "LF"
               PROVE  FALSE
  BY DEF Colon
<1>3. Len(header) \in m..Len(header) /\ header # <<>>
  BY <1>1
<1>4. header[Len(header)] = "LF"
  BY <1>3 DEF Text, IsHeader
<1> QED BY <1>2, <1>3, <1>4

\* Where a step in front of the data leads.
LEMMA InFrontNext ==
  ASSUME form' = form, body' = <<>>,
         \/ state' = "start_boundary" /\ index' \in 1..(N + 1) /\ i' = index'
         \/ /\ state' \in {"header_field_start", "header_field"}
            /\ i' \in (N + 2)..(D - 2) /\ ~Colon(i' - (N + 2))
         \/ /\ state' \in {"header_value_start", "header_value"}
            /\ i' \in (N + 2)..(D - 2) /\ Colon(i' - (N + 2)) /\ text[i'] # "CR"
         \/ /\ state' = "header_value_almost_done"
            /\ i' \in (N + 3)..(D - 2) /\ text[i'] = "CR"
         \/ state' = "headers_almost_done" /\ i' = D - 1
         \/ state' = "part_data_start" /\ i' = D
  PROVE  InFront'
<1>1. N' = N /\ D' = D /\ text' = text /\ header' = header
  BY SameForm
<1> QED BY <1>1 DEF InFront, Colon

\* The parser passes the bytes in front of the data, one after the other.
LEMMA FirstBoundaryStands ==
  ASSUME Text, InFront, FirstBoundary
  PROVE  i' <= Z /\ returned' = returned /\ InFront'
<1>1. /\ N \in Nat /\ D \in Nat /\ Z \in Nat /\ Len(header) \in Nat /\ D <= Z
      /\ D = N + Len(header) + 4
  BY Numbers
<1>2. /\ form' = form /\ returned' = returned /\ body' = <<>>
      /\ state \in {"start", "start_boundary"} /\ i' = i + 1
      /\ IF Seen <= N THEN index' = Seen + 1 /\ state' = "start_boundary"
                      ELSE index' = 0 /\ state' = "header_field_start"
  <2>1. body = <<>>
    BY DEF InFront
  <2> QED BY <2>1 DEF FirstBoundary, Look, Pass, N
<1>3. Seen = i /\ i \in 0..(N + 1)
  BY <1>1, <1>2 DEF InFront, Seen
<1>4. CASE i <= N
  <2>1. state' = "start_boundary" /\ index' \in 1..(N + 1) /\ i' = index' /\ i' <= Z
    BY <1>1, <1>2, <1>3, <1>4
  <2> QED BY <1>2, <2>1, InFrontNext
<1>5. CASE i = N + 1
  <2>1. state' = "header_field_start" /\ i' = N + 2 /\ i' <= Z
    BY <1>1, <1>2, <1>3, <1>5
  <2>2. i' \in (N + 2)..(D - 2) /\ i' - (N + 2) = 0
    BY <1>1, <2>1
  <2>3. ~Colon(0)
    BY DEF Colon
  <2> QED BY <1>2, <2>1, <2>2, <2>3, InFrontNext
<1> QED BY <1>1, <1>3, <1>4, <1>5

LEMMA HeaderFieldStands ==
  ASSUME Text, FormsAreSound, InFront, HeaderField
  PROVE  i' <= Z /\ returned' = returned /\ InFront'
<1> DEFINE k == i - (N + 2)
<1>1. /\ N \in Nat /\ D \in Nat /\ Z \in Nat /\ Len(header) \in Nat /\ D <= Z
      /\ D = N + Len(header) + 4
  BY Numbers
<1>2. /\ form' = form /\ returned' = returned /\ body' = <<>> /\ i' = i + 1
      /\ state' = CASE c = "CR" -> "headers_almost_done"
                    [] c = ":"  -> "header_value_start"
                    [] OTHER    -> "header_field"
  <2>1. body = <<>>
    BY DEF InFront
  <2> QED BY <2>1, ZenonT(60) DEF HeaderField, Look, Pass
<1>3. i \in (N + 2)..(D - 2) /\ ~Colon(k)
  BY DEF InFront, HeaderField, Look
<1>4. c = text[i + 1]
  BY DEF c
<1>5. CASE i = D - 2
  <2>1. c = "CR"
    <3>1. i + 1 = D - 1
      BY <1>1, <1>5
    <3> QED BY <1>4, <3>1 DEF Text
  <2>2. state' = "headers_almost_done" /\ i' = D - 1 /\ i' <= Z
    BY <1>1, <1>2, <1>5, <2>1
  <2> QED BY <1>2, <2>2, InFrontNext
<1>6. CASE i # D - 2
  <2>1. i \in (N + 2)..(D - 3) /\ i' \in (N + 2)..(D - 2) /\ i' - (N + 2) = k + 1 /\ i' <= Z
    <3>1. i' = i + 1
      BY <1>2
    <3> QED BY <1>1, <1>3, <1>6, <3>1
  <2>2. k \in 0..(Len(header) - 1) /\ c = header[k + 1]
    BY <1>4, <2>1, HeaderByte
  <2> HIDE DEF k
  <2>3. /\ c \notin {"CR", "LF"} /\ (c = ":" => Colon(k + 1)) /\ (c # ":" => ~Colon(k + 1))
    BY <1>3, <2>2, NameByte
  <2>4. CASE c = ":"
    <3>1. state' = "header_value_start" /\ text[i'] # "CR"
      BY <1>2, <1>4, <2>4
    <3> QED BY <1>2, <2>1, <2>3, <2>4, <3>1, InFrontNext
  <2>5. CASE c # ":"
    <3>1. state' = "header_field"
      BY <1>2, <2>3, <2>5
    <3> QED BY <1>2, <2>1, <2>3, <2>5, <3>1, InFrontNext
  <2> QED BY <2>4, <2>5
<1> QED BY <1>5, <1>6

LEMMA HeaderValueStands ==
  ASSUME Text, InFront, HeaderValue
  PROVE  i' <= Z /\ returned' = returned /\ InFront'
<1> DEFINE k == i - (N + 2)
<1>1. /\ N \in Nat /\ D \in Nat /\ Z \in Nat /\ Len(header) \in Nat /\ D <= Z
      /\ D = N + Len(header) + 4
  BY Numbers
<1>2. /\ form' = form /\ returned' = returned /\ body' = <<>> /\ i' = i + 1
      /\ state \in {"header_value_start", "header_value"}
      /\ state' = CASE c = "CR" -> "header_value_almost_done"
                    [] c = " "  -> state
                    [] OTHER    -> "header_value"
  <2>1. body = <<>>
    BY DEF InFront
  <2> QED BY <2>1, ZenonT(60) DEF HeaderValue, Look, Pass
<1>3. i \in (N + 2)..(D - 2) /\ Colon(k) /\ text[i] # "CR"
  BY DEF InFront, HeaderValue, Look
<1>4. c = text[i + 1]
  BY DEF c
<1>5. i # D - 2
  <2>1. SUFFICES ASSUME i = D - 2 PROVE FALSE
    OBVIOUS
  <2>2. k = Len(header)
    BY <1>1, <2>1
  <2> QED BY <1>3, <2>2, NoOpenLine
<1>6. i \in (N + 2)..(D - 3) /\ i' \in (N + 2)..(D - 2) /\ i' - (N + 2) = k + 1 /\ i' <= Z
  <2>1. i' = i + 1
    BY <1>2
  <2> QED BY <1>1, <1>3, <1>5, <2>1
<1>7. k \in 0..(Len(header) - 1) /\ c = header[k + 1]
  BY <1>4, <1>6, HeaderByte
<1>8. header[k] # "CR"
  <2>1. k >= 1
    <3>1. PICK m \in 1..k : TRUE
      BY <1>3 DEF Colon
    <3> QED BY <1>7, <3>1
  <2>2. k \in 1..Len(header) /\ N + 2 + k = i
    BY <1>1, <1>6, <1>7, <2>1
  <2>3. text[N + 2 + k] = header[k]
    BY <2>2 DEF Text
  <2> QED BY <1>3, <2>2, <2>3
<1>9. k >= 1 /\ Colon(k + 1)
  <2> HIDE DEF k
  <2> QED BY <1>3, <1>7, <1>8, ValueByte
<1>10. CASE c = "CR"
  <2>1. state' = "header_value_almost_done" /\ text[i'] = "CR"
    BY <1>2, <1>4, <1>10
  <2>2. i' \in (N + 3)..(D - 2)
    <3>1. i' = i + 1
      BY <1>2
    <3>2. i \in (N + 2)..(D - 3)
      BY <1>6
    <3> QED BY <1>1, <3>1, <3>2
  <2> QED BY <1>2, <1>6, <2>1, <2>2, InFrontNext
<1>11. CASE c # "CR"
  <2>1. state' \in {"header_value_start", "header_value"} /\ text[i'] # "CR"
    BY <1>2, <1>4, <1>11
  <2>2. Colon(i' - (N + 2))
    BY <1>6, <1>9
  <2> QED BY <1>2, <1>6, <2>1, <2>2, InFrontNext
<1> QED BY <1>10, <1>11

LEMMA HeaderEndStands ==
  ASSUME Text, InFront, HeaderEnd
  PROVE  i' <= Z /\ returned' = returned /\ InFront'
<1>1. /\ N \in Nat /\ D \in Nat /\ Z \in Nat /\ Len(header) \in Nat /\ D <= Z
      /\ D = N + Len(header) + 4
  BY Numbers
<1>2. form' = form /\ returned' = returned /\ body' = <<>> /\ i' = i + 1
  <2>1. form' = form /\ returned' = returned /\ body' = body /\ i' = i + 1
    BY DEF HeaderEnd, Look, Pass
  <2> QED BY <2>1 DEF InFront
<1>3. CASE state = "header_value_almost_done"
  <2> DEFINE k == i - (N + 2)
  <2>1. i \in (N + 3)..(D - 2) /\ text[i] = "CR" /\ state' = "header_field_start"
    BY <1>3 DEF InFront, HeaderEnd, Look, Pass
  <2>2. k \in 1..Len(header) /\ N + 2 + k = i
    BY <1>1, <2>1
  <2>3. header[k] = "CR"
    BY <2>1, <2>2 DEF Text
  <2>4. k < Len(header) /\ ~Colon(k + 1)
    <3> HIDE DEF k
    <3> QED BY <2>2, <2>3, LineByte
  <2>5. i' \in (N + 2)..(D - 2) /\ i' - (N + 2) = k + 1 /\ i' <= Z
    BY <1>1, <1>2, <2>1, <2>4
  <2>6. ~Colon(i' - (N + 2))
    BY <2>4, <2>5
  <2> QED BY <1>2, <2>1, <2>5, <2>6, InFrontNext
<1>4. CASE state = "headers_almost_done"
  <2>1. i = D - 1 /\ state' = "part_data_start"
    BY <1>4 DEF InFront, HeaderEnd, Look, Pass
  <2>2. i' = D /\ i' <= Z
    BY <1>1, <1>2, <2>1
  <2> QED BY <1>2, <2>1, <2>2, InFrontNext
<1> QED BY <1>3, <1>4 DEF HeaderEnd, Look

-----------------------------------------------------------------------------
(* The data and the delimiter behind them *)

\* Where a step in the data leads.
LEMMA WithinNext ==
  ASSUME form' = form, ~skipped', from' = D, before' = <<>>, i' >= D,
         \/ /\ state' = "part_data" /\ mark' >= D
            /\ text[i'] = "CR" => text[i' + 1] # "LF"
            /\ i' >= E + 2 =>
                 /\ index' \in 0..(N - 1) /\ mark' = E + 2 + index'
                 /\ Alike(E + 2, index')
         \/ state' = "part_data_almost_boundary" /\ i' > D /\ text[i'] = "CR"
         \/ /\ state' = "part_data_boundary"
            /\ i' - index' >= D + 2
            /\ text[i' - index'] = "LF" /\ text[i' - index' - 1] = "CR"
            /\ Alike(i' - index', index')
            /\ lookbehind'[1] = "CR"
  PROVE  Within'
<1>1. N' = N /\ D' = D /\ E' = E /\ text' = text /\ boundary' = boundary
  BY SameForm
<1>2. AllKept'
  BY <1>1 DEF AllKept, InData
<1> QED BY <1>1, <1>2 DEF Within, Alike

\* A byte of data up to Z, with the mark at m.
LEMMA DataStands ==
  ASSUME Text, Plain, i \in D..(Z - 1), NEW m \in D..i, NEW was, ~was, Data(m, was)
  PROVE  /\ ~skipped' /\ i' = i + 1
         /\ \/ state' = "part_data_almost_boundary" /\ text[i + 1] = "CR"
            \/ state' = "part_data" /\ mark' = m /\ index' = index /\ text[i + 1] # "CR"
<1>1. D \in Nat /\ E \in Nat /\ Z \in Nat /\ Len(text) \in Nat /\ D <= E /\ Z + 2 <= Len(text)
  BY Numbers
<1>2. c = text[i + 1]
  BY DEF c
<1>3. CASE c = "CR"
  <2>1. /\ ReadBody(SubSeq(text, m + 1, i), was) /\ i' = i + 1
        /\ state' = "part_data_almost_boundary"
    BY <1>3 DEF Data, Pass
  <2>2. i <= E
    <3>1. i + 1 \in (E + 1)..Z => i + 1 = E + 1
      BY <1>2, <1>3, NoLineEnds
    <3> QED BY <1>1, <3>1
  <2>3. ~IsBoundary(SubSeq(text, m + 1, i))
    <3>1. m \in D..E /\ i \in m..E
      BY <1>1, <2>2
    <3> QED BY <3>1, PieceIsKept
  <2>4. ~skipped'
    BY <2>1, <2>3 DEF ReadBody
  <2> QED BY <1>2, <1>3, <2>1, <2>4
<1>4. CASE c # "CR"
  <2>1. ~is_last
    BY <1>1 DEF is_last
  <2>2. skipped' = was /\ mark' = m /\ index' = index /\ i' = i + 1 /\ state' = "part_data"
    BY <1>4, <2>1, Zenon DEF Data, Pass
  <2> QED BY <1>2, <1>4, <2>2
<1> QED BY <1>3, <1>4

LEMMA PartDataStartStands ==
  ASSUME Text, Plain, InFront, PartDataStart
  PROVE  i' <= Z /\ returned' = returned /\ Within'
<1>1. D \in Nat /\ E \in Nat /\ Z \in Nat /\ D <= E /\ E + 7 <= Z
  BY Numbers
<1>2. /\ form' = form /\ returned' = returned /\ state = "part_data_start"
      /\ Data(i, FALSE) /\ from' = i /\ before' = body
  BY DEF PartDataStart, Look
<1>3. i = D /\ body = <<>>
  BY <1>2 DEF InFront
<1>4. i \in D..(Z - 1) /\ i \in D..i
  BY <1>1, <1>3
<1>5. /\ ~skipped' /\ i' = i + 1
      /\ \/ state' = "part_data_almost_boundary" /\ text[i + 1] = "CR"
         \/ state' = "part_data" /\ mark' = i /\ text[i + 1] # "CR"
  <2> DEFINE m == i
             was == FALSE
  <2>1. m \in D..i /\ ~was /\ Data(m, was)
    BY <1>2, <1>4
  <2> HIDE DEF m, was
  <2>2. /\ ~skipped' /\ i' = i + 1
        /\ \/ state' = "part_data_almost_boundary" /\ text[i + 1] = "CR"
           \/ state' = "part_data" /\ mark' = m /\ text[i + 1] # "CR"
    BY <1>4, <2>1, DataStands
  <2> QED BY <2>2 DEF m
<1>6. from' = D /\ before' = <<>> /\ i' = D + 1 /\ i' >= D /\ i' > D /\ i' <= Z
  BY <1>1, <1>2, <1>3, <1>5
<1>7. ~(i' >= E + 2) /\ i >= D
  BY <1>1, <1>3, <1>6
<1>8. CASE state' = "part_data_almost_boundary" /\ text[i + 1] = "CR"
  BY <1>2, <1>5, <1>6, <1>8, WithinNext
<1>9. CASE state' = "part_data" /\ mark' = i /\ text[i + 1] # "CR"
  BY <1>2, <1>5, <1>6, <1>7, <1>9, WithinNext
<1> QED BY <1>2, <1>5, <1>6, <1>8, <1>9

LEMMA PartDataStands ==
  ASSUME Text, Plain, PartInv, Within, i < Z, PartData
  PROVE  i' <= Z /\ returned' = returned /\ Within'
<1>1. D \in Nat /\ E \in Nat /\ Z \in Nat /\ D <= E
  BY Numbers
<1>2. /\ form' = form /\ returned' = returned /\ state = "part_data"
      /\ Data(mark, skipped) /\ from' = from /\ before' = before
  BY DEF PartData, Look
<1>3. /\ ~skipped /\ from = D /\ before = <<>> /\ i >= D /\ mark >= D
      /\ text[i] = "CR" => text[i + 1] # "LF"
      /\ i >= E + 2 => index \in 0..(N - 1) /\ mark = E + 2 + index /\ Alike(E + 2, index)
  BY <1>2 DEF Within, AllKept
<1>4. mark \in 0..i /\ i \in Nat
  BY <1>2 DEF PartInv, Types, Places
<1>5. i \in D..(Z - 1) /\ mark \in D..i
  BY <1>1, <1>3, <1>4
<1>6. /\ ~skipped' /\ i' = i + 1
      /\ \/ state' = "part_data_almost_boundary" /\ text[i + 1] = "CR"
         \/ state' = "part_data" /\ mark' = mark /\ index' = index /\ text[i + 1] # "CR"
  BY <1>2, <1>3, <1>5, DataStands
<1>7. from' = D /\ before' = <<>> /\ i' >= D /\ i' > D /\ i' <= Z
  BY <1>1, <1>2, <1>3, <1>5, <1>6
<1>8. CASE state' = "part_data_almost_boundary" /\ text[i + 1] = "CR"
  BY <1>2, <1>6, <1>7, <1>8, WithinNext
<1>9. CASE /\ state' = "part_data" /\ mark' = mark /\ index' = index
           /\ text[i + 1] # "CR"
  <2>1. i' >= E + 2 => i >= E + 2
    <3>1. SUFFICES ASSUME i + 1 = E + 2 PROVE FALSE
      BY <1>1, <1>4, <1>6
    <3>2. i = E + 1
      BY <1>1, <1>4, <3>1
    <3>3. text[i] = "CR" /\ text[i + 1] = "LF"
      BY <3>1, <3>2 DEF Text
    <3> QED BY <1>3, <3>3
  <2>2. i' >= E + 2 => index' \in 0..(N - 1) /\ mark' = E + 2 + index' /\ Alike(E + 2, index')
    BY <1>3, <1>9, <2>1
  <2> QED BY <1>2, <1>3, <1>6, <1>7, <1>9, <2>2, WithinNext
<1> QED BY <1>2, <1>6, <1>7, <1>8, <1>9

LEMMA AlmostStands ==
  ASSUME Text, PartInv, Within, i <= Z, AlmostBoundary
  PROVE  i' <= Z /\ returned' = returned /\ Within'
<1>1. D \in Nat /\ E \in Nat /\ Z \in Nat /\ D <= E /\ E + 7 <= Z
  BY Numbers
<1>2. /\ form' = form /\ returned' = returned /\ state = "part_data_almost_boundary"
      /\ IF c = "LF" THEN MaybeBoundary ELSE DataAfterAll(<<"CR">>)
  BY DEF AlmostBoundary, Look
<1>3. /\ ~skipped /\ from = D /\ before = <<>> /\ i > D /\ text[i] = "CR" /\ i \in Nat
  BY <1>2 DEF Within, AllKept, PartInv, Types
<1>4. c = text[i + 1]
  BY DEF c
<1>5. i <= E + 1
  <2>1. i \in (E + 1)..Z => i = E + 1
    BY <1>3, NoLineEnds
  <2> QED BY <1>1, <1>3, <2>1
<1>6. CASE c = "LF"
  <2>1. /\ i' = i + 1 /\ state' = "part_data_boundary" /\ index' = 0
        /\ lookbehind' = <<"CR", "LF">> /\ skipped' = skipped /\ from' = from
        /\ before' = before
    BY <1>2, <1>6 DEF MaybeBoundary, Pass, history
  <2>2. /\ i' - index' = i + 1 /\ i' - index' - 1 = i /\ i' - index' >= D + 2 /\ i' >= D
        /\ i' <= Z
    BY <1>1, <1>3, <1>5, <2>1
  <2>3. Alike(i' - index', index') /\ lookbehind'[1] = "CR"
    BY <2>1 DEF Alike
  <2> QED BY <1>2, <1>3, <1>4, <1>6, <2>1, <2>2, <2>3, WithinNext
<1>7. CASE c # "LF"
  <2>1. /\ ReadBody(<<"CR">>, skipped) /\ state' = "part_data" /\ mark' = i /\ i' = i
        /\ from' = from /\ before' = before
    BY <1>2, <1>7 DEF DataAfterAll
  <2>2. ~IsBoundary(<<"CR">>)
    BY LineEndIsKept
  <2>3. ~skipped'
    BY <1>3, <2>1, <2>2 DEF ReadBody
  <2>4. i' >= D /\ mark' >= D /\ ~(i' >= E + 2) /\ i' <= Z
    BY <1>1, <1>3, <1>5, <2>1
  <2> QED BY <1>2, <1>3, <1>4, <1>7, <2>1, <2>3, <2>4, WithinNext
<1> QED BY <1>6, <1>7

LEMMA BoundaryStands ==
  ASSUME Text, Plain, PartInv, Within, i <= Z, Boundary
  PROVE  i' <= Z /\ returned' = returned /\ Within'
<1> DEFINE q == i - index
<1>1. /\ N \in Nat /\ D \in Nat /\ E \in Nat /\ Z \in Nat /\ N >= 3 /\ D <= E
      /\ E + N + 4 <= Z
  BY Numbers
<1>2. /\ form' = form /\ returned' = returned /\ state = "part_data_boundary"
      /\ from' = from /\ before' = before
  BY DEF Boundary, Look, DataAfterAll, history
<1>3. /\ ~skipped /\ from = D /\ before = <<>> /\ i >= D
      /\ q >= D + 2 /\ text[q] = "LF" /\ text[q - 1] = "CR"
      /\ Alike(q, index) /\ lookbehind[1] = "CR"
  BY <1>2 DEF Within, AllKept
<1>4. /\ i \in Nat /\ index \in 0..(N - 1)
      /\ lookbehind \in Seq(Byte) /\ Len(lookbehind) = 2 + index
  BY <1>2 DEF PartInv, Types, Places, N
<1>5. q \in Nat /\ q + index = i /\ q \in (D + 2)..Z
  BY <1>1, <1>3, <1>4
<1> HIDE DEF q
<1>6. q <= E \/ q = E + 2
  <2>1. q \in (E + 1)..Z => q = E + 2
    BY <1>3, NoLineEnds
  <2> QED BY <1>1, <1>5, <2>1
<1>7. c = text[i + 1] /\ LookedBehind = lookbehind
  BY <1>4, SubSeqFull DEF c, LookedBehind
<1>8. CASE c = boundary[index + 1]
  <2>1. /\ lookbehind' = Append(lookbehind, c) /\ index' = index + 1 /\ i' = i + 1
        /\ skipped' = skipped
        /\ state' = IF index' = N THEN "part_data_almost_end" ELSE "part_data_boundary"
    BY <1>7, <1>8 DEF Boundary, Pass, history, N
  <2>2. Alike(q, index + 1)
    <3>1. \A j \in 1..index : boundary[j] = text[q + j]
      BY <1>3 DEF Alike
    <3>2. boundary[index + 1] = text[q + (index + 1)]
      <4>1. q + (index + 1) = i + 1
        BY <1>4, <1>5
      <4> QED BY <1>7, <1>8, <4>1
    <3>3. \A j \in 1..(index + 1) : j \in 1..index \/ j = index + 1
      BY <1>4
    <3> QED BY <3>1, <3>2, <3>3 DEF Alike
  <2>3. index + 1 # N
    BY <1>3, <1>5, <2>2, NeverWhole
  <2>4. state' = "part_data_boundary"
    BY <2>1, <2>3
  <2>5. i' - index' = q /\ i' - index' - 1 = q - 1 /\ i' >= D /\ i' - index' >= D + 2
    BY <1>1, <1>3, <1>4, <1>5, <2>1
  <2>6. i' <= Z
    BY <1>1, <1>4, <1>5, <1>6, <2>1, <2>3
  <2>7. lookbehind'[1] = "CR"
    <3>1. 1 \in 1..Len(lookbehind) /\ Len(lookbehind) \in Nat
      BY <1>4
    <3>2. Append(lookbehind, c)[1] = lookbehind[1]
      BY <1>4, <3>1
    <3> QED BY <1>3, <2>1, <3>2
  <2>8. Alike(i' - index', index')
    BY <2>1, <2>2, <2>5
  <2> QED BY <1>2, <1>3, <2>1, <2>4, <2>5, <2>6, <2>7, <2>8, WithinNext
<1>9. CASE c # boundary[index + 1]
  <2>1. /\ ReadBody(lookbehind, skipped) /\ state' = "part_data" /\ mark' = i
        /\ i' = i /\ index' = index
    BY <1>7, <1>9 DEF Boundary, DataAfterAll
  <2>2. ~skipped'
    <3>1. ~IsBoundary(lookbehind)
      BY <1>3, LineEndIsKept
    <3> QED BY <1>3, <2>1, <3>1 DEF ReadBody
  <2>3. text[i] # "CR"
    <3>1. CASE index = 0
      <4>1. i = q
        BY <1>5, <3>1
      <4> QED BY <1>3, <4>1
    <3>2. CASE index # 0
      <4>1. index \in 1..N /\ index \in 1..index
        BY <1>1, <1>4, <3>2
      <4>2. boundary[index] = text[q + index]
        BY <1>3, <4>1 DEF Alike
      <4> QED BY <1>5, <4>1, <4>2 DEF Text
    <3> QED BY <3>1, <3>2
  <2>4. i >= E + 2 => q = E + 2
    <3>1. SUFFICES ASSUME i >= E + 2, q <= E PROVE FALSE
      BY <1>6
    <3> DEFINE j == (E + 1) - q
    <3>2. j \in 1..index /\ j \in 1..N /\ q + j = E + 1
      BY <1>1, <1>4, <1>5, <3>1
    <3> HIDE DEF j
    <3>3. boundary[j] = text[q + j]
      BY <1>3, <3>2 DEF Alike
    <3> QED BY <3>2, <3>3 DEF Text
  <2>5. i' >= E + 2 => index' \in 0..(N - 1) /\ mark' = E + 2 + index' /\ Alike(E + 2, index')
    BY <1>3, <1>4, <1>5, <2>1, <2>4
  <2>6. mark' >= D /\ i' >= D /\ i' <= Z /\ text[i'] # "CR"
    BY <1>3, <2>1, <2>3
  <2> QED BY <1>2, <1>3, <2>1, <2>2, <2>5, <2>6, WithinNext
<1> QED BY <1>8, <1>9

\* At Z the parser has passed the delimiter as data.
LEMMA StateAtEnd ==
  ASSUME Text, PartInv, Within, i = Z
  PROVE  state = "part_data"
<1>1. /\ N \in Nat /\ D \in Nat /\ E \in Nat /\ Z \in Nat /\ N >= 3 /\ D <= E
      /\ E + N + 4 <= Z /\ E + 7 <= Z
  BY Numbers
<1>2. state # "part_data_almost_boundary"
  <2>1. SUFFICES ASSUME state = "part_data_almost_boundary" PROVE FALSE
    OBVIOUS
  <2>2. text[Z] = "CR"
    BY <2>1 DEF Within
  <2>3. Z \in (E + 1)..Z /\ Z # E + 1
    BY <1>1
  <2> QED BY <2>2, <2>3, NoLineEnds
<1>3. state # "part_data_boundary"
  <2>1. SUFFICES ASSUME state = "part_data_boundary" PROVE FALSE
    OBVIOUS
  <2>2. text[i - index] = "LF" /\ i - index >= D + 2
    BY <2>1 DEF Within
  <2>3. index \in 0..(N - 1)
    BY <2>1 DEF PartInv, Places, N
  <2>4. i - index \in (E + 1)..Z /\ i - index # E + 2
    BY <1>1, <2>3
  <2> QED BY <2>2, <2>4, NoLineEnds
<1> QED BY <1>2, <1>3 DEF Within, AllKept, InData

\* Until then there is a byte left, and the parser goes on with it.
LEMMA GoesOn ==
  ASSUME Text, FormsAreSound, i \in Nat, i <= Z, InFront \/ Within
  PROVE  i < Len(text) /\ Accepts(c)
<1>1. /\ N \in Nat /\ D \in Nat /\ Z \in Nat /\ Len(header) \in Nat /\ Len(text) \in Nat
      /\ D = N + Len(header) + 4 /\ Z + 2 <= Len(text)
  BY Numbers
<1>2. c = text[i + 1]
  BY DEF c
<1>3. CASE state \in {"start", "start_boundary"}
  <2> DEFINE le == <<"CR", "LF">>
             s == boundary \o le
  <2>1. InFront
    BY <1>3 DEF Within, AllKept, InData
  <2>2. Seen = i /\ i \in 0..(N + 1)
    BY <1>1, <1>3, <2>1 DEF InFront, Seen
  <2>3. s[i + 1] = text[i + 1]
    <3>1. boundary \in Seq(Byte) /\ le \in Seq(Byte) /\ Len(boundary) = N /\ Len(le) = 2
      BY BytesOf, ShortTexts DEF Text, N
    <3>2. le[1] = "CR" /\ le[2] = "LF"
      OBVIOUS
    <3> HIDE DEF le
    <3>3. \A k \in 1..(N + 2) : s[k] = IF k <= N THEN boundary[k] ELSE le[k - N]
      <4>1. \A k \in 1..(Len(boundary) + Len(le)) :
              s[k] = IF k <= Len(boundary) THEN boundary[k] ELSE le[k - Len(boundary)]
        BY <3>1, ConcatProperties
      <4> HIDE DEF s
      <4> QED BY <3>1, <4>1
    <3> HIDE DEF s
    <3>4. i + 1 \in 1..N \/ i + 1 = N + 1 \/ i + 1 = N + 2
      BY <1>1, <2>2
    <3>5. CASE i + 1 \in 1..N
      <4>1. s[i + 1] = boundary[i + 1]
        BY <1>1, <3>3, <3>5
      <4> QED BY <3>5, <4>1 DEF Text
    <3>6. CASE i + 1 = N + 1
      <4>1. s[N + 1] = le[(N + 1) - N] /\ (N + 1) - N = 1
        BY <1>1, <3>3
      <4>2. text[N + 1] = "CR"
        BY DEF Text
      <4> QED BY <3>2, <3>6, <4>1, <4>2
    <3>7. CASE i + 1 = N + 2
      <4>1. s[N + 2] = le[(N + 2) - N] /\ (N + 2) - N = 2
        BY <1>1, <3>3
      <4>2. text[N + 2] = "LF"
        BY DEF Text
      <4> QED BY <3>2, <3>7, <4>1, <4>2
    <3> QED BY <3>4, <3>5, <3>6, <3>7
  <2> HIDE DEF s
  <2>4. Accepts(c) <=> c = s[Seen + 1]
    BY <1>3 DEF Accepts, s
  <2> QED BY <1>1, <1>2, <2>2, <2>3, <2>4
<1>4. CASE state \in {"header_field_start", "header_field"}
  <2> DEFINE k == i - (N + 2)
  <2>1. i \in (N + 2)..(D - 2) /\ ~Colon(k)
    BY <1>4 DEF InFront, Within, AllKept, InData
  <2>2. CASE i = D - 2
    <3>1. i + 1 = D - 1
      BY <1>1, <2>2
    <3>2. c = "CR"
      BY <1>2, <3>1 DEF Text
    <3> QED BY <1>1, <1>4, <3>2 DEF Accepts
  <2>3. CASE i # D - 2
    <3>1. i \in (N + 2)..(D - 3)
      BY <1>1, <2>1, <2>3
    <3>2. k \in 0..(Len(header) - 1) /\ c = header[k + 1]
      BY <1>2, <3>1, HeaderByte
    <3> HIDE DEF k
    <3>3. c \in Letters \cup {"-", ":"}
      BY <2>1, <3>2, NameByte
    <3> QED BY <1>1, <1>4, <3>3 DEF Accepts
  <2> QED BY <2>2, <2>3
<1>5. CASE state = "header_value_almost_done"
  <2> DEFINE k == i - (N + 2)
  <2>1. i \in (N + 3)..(D - 2) /\ text[i] = "CR"
    BY <1>5 DEF InFront, Within, AllKept, InData
  <2>2. k \in 1..Len(header) /\ N + 2 + k = i
    BY <1>1, <2>1
  <2>3. header[k] = "CR"
    BY <2>1, <2>2 DEF Text
  <2>4. k < Len(header) /\ header[k + 1] = "LF"
    <3> HIDE DEF k
    <3> QED BY <2>2, <2>3, LineByte
  <2>5. k + 1 \in 1..Len(header) /\ N + 2 + (k + 1) = i + 1
    BY <1>1, <2>2, <2>4
  <2> HIDE DEF k
  <2>6. c = "LF"
    BY <1>2, <2>4, <2>5 DEF Text
  <2> QED BY <1>1, <1>5, <2>6 DEF Accepts
<1>6. CASE state = "headers_almost_done"
  <2>1. i + 1 = D
    BY <1>1, <1>6 DEF InFront, Within, AllKept, InData
  <2>2. c = "LF"
    BY <1>2, <2>1 DEF Text
  <2> QED BY <1>1, <1>6, <2>2 DEF Accepts
<1>7. CASE \/ state \in InData
           \/ state \in {"header_value_start", "header_value", "part_data_start"}
  BY <1>1, <1>7 DEF Accepts, InData
<1> QED BY <1>3, <1>4, <1>5, <1>6, <1>7 DEF InFront, Within, AllKept

\* With a form of one part the rest is held back, and what is in front of it
\* is collected. With several the file is.
LEMMA LastByteStands ==
  ASSUME Text, Plain, PartInv, Within, i = Z, PartData
  PROVE  i' = Z + 1 /\ Behind'
<1> DEFINE p == SubSeq(text, mark + 1, Z)
           q == SubSeq(text, D + 1, Z)
<1>1. /\ N \in Nat /\ D \in Nat /\ E \in Nat /\ Z \in Nat /\ Len(text) \in Nat
      /\ Len(data) \in Nat /\ E = D + Len(data) /\ E + 7 <= Z /\ Z + 2 <= Len(text)
  BY Numbers
<1>2. /\ form' = form /\ returned' = returned /\ ~returned /\ state = "part_data"
      /\ Data(mark, skipped) /\ from' = from /\ before' = before
  BY DEF PartData, Look
<1>3. c = "CR"
  BY DEF c, Text
<1>4. /\ ReadBody(p, skipped) /\ i' = Z + 1 /\ state' = "part_data_almost_boundary"
  BY <1>2, <1>3 DEF Data, Pass
<1>5. /\ ~skipped /\ from = D /\ before = <<>>
      /\ index \in 0..(N - 1) /\ mark = E + 2 + index /\ Alike(E + 2, index)
  <2>1. i >= E + 2
    BY <1>1
  <2> QED BY <1>2, <2>1 DEF Within, AllKept
<1>6. N' = N /\ D' = D /\ Z' = Z /\ data' = data /\ OnePart' = OnePart
  BY <1>2, SameForm
<1>7. mark \in 0..Z /\ body \in Seq(Byte) /\ text \in Seq(Byte)
  BY <1>2 DEF PartInv, Types, Places, Text
<1>8. CASE OnePart
  <2>1. ~IsBoundary(p)
    BY <1>5, <1>8, EndIsKept
  <2>2. ~skipped'
    BY <1>4, <1>5, <2>1 DEF ReadBody
  <2>3. AllKept'
    BY <1>2, <1>4, <1>5, <1>6, <2>2 DEF AllKept, InData
  <2> QED BY <1>2, <1>4, <1>6, <1>8, <2>3 DEF Behind
<1>9. CASE ~OnePart
  <2>1. /\ p \in Seq(Byte) /\ Len(p) = Z - mark
    <3>1. mark \in Nat /\ Z \in mark..Len(text)
      BY <1>1, <1>7
    <3> QED BY <1>7, <3>1, PieceOf
  <2>2. /\ q \in Seq(Byte) /\ Len(q) = Z - D /\ \A j \in 1..(Z - D) : q[j] = text[D + j]
    <3>1. Z \in D..Len(text)
      BY <1>1
    <3> QED BY <1>1, <1>7, <3>1, PieceOf
  <2>3. body \o p = q
    <3>1. i # Len(text)
      BY <1>1
    <3>2. Pending = p
      BY <1>2, <3>1 DEF Pending
    <3>3. body \o Pending = before \o SubSeq(text, from + 1, i)
      BY <1>2, <1>5, Zenon DEF PartInv, NothingLost, InData
    <3>4. <<>> \o q = q
      BY <2>2, ConcatEmptySeq
    <3>5. body \o Pending = <<>> \o q
      BY <1>5, <3>3
    <3> QED BY <3>2, <3>4, <3>5
  <2> HIDE DEF p, q
  <2>4. /\ Len(body) \in Nat /\ Len(q) = Len(body) + Len(p)
        /\ \A j \in 1..Len(body) : j \in 1..(Len(body) + Len(p)) /\ q[j] = body[j]
    <3>1. /\ Len(body \o p) = Len(body) + Len(p) /\ Len(body) \in Nat /\ Len(p) \in Nat
          /\ \A j \in 1..(Len(body) + Len(p)) :
               (body \o p)[j] = IF j <= Len(body) THEN body[j] ELSE p[j - Len(body)]
      BY <1>7, <2>1, ConcatProperties, LenProperties
    <3>2. \A j \in 1..Len(body) : j \in 1..(Len(body) + Len(p)) /\ j <= Len(body)
      BY <3>1
    <3> QED BY <2>3, <3>1, <3>2
  <2>5. Len(body) = mark - D /\ Len(body) >= Len(data)
    <3>1. Len(body) + (Z - mark) = Z - D /\ Len(body) \in Nat /\ mark \in Nat
      BY <1>7, <2>1, <2>2, <2>4
    <3>2. mark >= E
      BY <1>1, <1>5
    <3> QED BY <1>1, <3>1, <3>2
  <2>6. ASSUME NEW j \in 1..Len(data) PROVE q[j] = data[j] /\ body[j] = data[j]
    <3>1. j \in 1..Len(body) /\ j \in 1..(Z - D)
      BY <1>1, <2>5
    <3>2. text[D + j] = data[j]
      BY DEF Text
    <3> QED BY <2>2, <2>4, <3>1, <3>2
  <2>7. CASE IsBoundary(p)
    <3>1. body' = body
      BY <1>4, <2>7 DEF ReadBody
    <3>2. Len(p) = N - 2
      BY <2>7, Shortened DEF IsBoundary
    <3>3. Z = E + N + 4
      BY <1>9, Numbers
    <3>4. Len(body) >= Len(data) + 6
      BY <1>1, <2>1, <2>5, <3>2, <3>3, <1>7
    <3> QED BY <1>1, <1>4, <1>6, <1>9, <2>6, <3>1, <3>4 DEF Behind
  <2>8. CASE ~IsBoundary(p)
    <3>1. body' = q
      BY <1>4, <2>3, <2>8 DEF ReadBody
    <3>2. Len(q) >= Len(data) + 6
      BY <1>1, <2>2
    <3> QED BY <1>1, <1>4, <1>6, <1>9, <2>6, <3>1, <3>2 DEF Behind
  <2> QED BY <2>7, <2>8
<1> QED BY <1>4, <1>8, <1>9

-----------------------------------------------------------------------------
(* Behind the delimiter *)

\* A step adds to what was collected, or leaves it.
Longer == body' = body \/ \E p \in Seq(Byte) : body' = body \o p

LEMMA DataGrows ==
  ASSUME FormsAreLegible, Types, i < Len(text), NEW m \in 0..i, NEW was, Data(m, was)
  PROVE  Longer /\ i' = i + 1
<1>1. SubSeq(text, m + 1, i) \in Seq(Byte) /\ c \in Byte
  BY Passed
<1>2. SubSeq(text, m + 1, i + 1) \in Seq(Byte)
  BY <1>1, Passed, Regroup DEF Types
<1>3. i' = i + 1
  BY DEF Data, Pass
<1>4. Longer
  <2>1. CASE c = "CR"
    BY <1>1, <2>1, Zenon DEF Data, ReadBody, Longer
  <2>2. CASE c # "CR"
    BY <1>2, <2>2, Zenon DEF Data, ReadBody, Longer
  <2> QED BY <2>1, <2>2
<1> QED BY <1>3, <1>4

LEMMA BodyGrows ==
  ASSUME FormsAreLegible, PartInv, [FormNext]_form_vars
  PROVE  Longer /\ form' = form /\ i' >= i
<1>1. Types /\ i \in Nat
  BY DEF PartInv, Types
<1>2. CASE FirstBoundary
  BY <1>1, <1>2 DEF FirstBoundary, Look, Pass, Longer
<1>3. CASE HeaderField
  <2>1. i' = i + 1 /\ form' = form /\ body' = body
    BY <1>3, Zenon DEF HeaderField, Look, Pass
  <2> QED BY <1>1, <2>1 DEF Longer
<1>4. CASE HeaderValue
  <2>1. i' = i + 1 /\ form' = form /\ body' = body
    BY <1>4, Zenon DEF HeaderValue, Look, Pass
  <2> QED BY <1>1, <2>1 DEF Longer
<1>5. CASE HeaderEnd
  BY <1>1, <1>5 DEF HeaderEnd, Look, Pass, Longer
<1>6. CASE AfterBoundary
  BY <1>1, <1>6 DEF AfterBoundary, Look, Pass, Longer
<1>7. CASE Return \/ UNCHANGED form_vars
  BY <1>1, <1>7 DEF Return, form_vars, Longer
<1>8. CASE PartDataStart
  <2> DEFINE m == i
             was == FALSE
  <2>1. i < Len(text) /\ form' = form /\ m \in 0..i /\ Data(m, was)
    <3>1. i < Len(text) /\ form' = form /\ Data(i, FALSE)
      BY <1>8 DEF PartDataStart, Look
    <3>2. i \in 0..i
      BY <1>1
    <3> QED BY <3>1, <3>2, Zenon
  <2> HIDE DEF m, was
  <2>2. Longer /\ i' = i + 1
    BY <1>1, <2>1, DataGrows
  <2> QED BY <1>1, <2>1, <2>2
<1>9. CASE PartData
  <2>1. i < Len(text) /\ form' = form /\ mark \in 0..i /\ Data(mark, skipped)
    BY <1>9 DEF PartData, Look, PartInv, Places
  <2>2. Longer /\ i' = i + 1
    BY <1>1, <2>1, DataGrows
  <2> QED BY <1>1, <2>1, <2>2
<1>10. CASE AlmostBoundary
  <2>1. form' = form
    BY <1>10 DEF AlmostBoundary, Look
  <2>2. CASE c = "LF"
    BY <1>1, <1>10, <2>1, <2>2 DEF AlmostBoundary, MaybeBoundary, Pass, Longer
  <2>3. CASE c # "LF"
    <3>1. ReadBody(<<"CR">>, skipped) /\ i' = i
      BY <1>10, <2>3 DEF AlmostBoundary, DataAfterAll
    <3>2. <<"CR">> \in Seq(Byte)
      <4>1. "CR" \in Byte
        BY DEF Byte
      <4> QED BY <4>1
    <3>3. Longer
      BY <3>1, <3>2, Zenon DEF ReadBody, Longer
    <3> QED BY <1>1, <2>1, <3>1, <3>3
  <2> QED BY <2>2, <2>3
<1>11. CASE Boundary
  <2>1. form' = form /\ state = "part_data_boundary"
    BY <1>11 DEF Boundary, Look
  <2>2. CASE c = boundary[index + 1]
    BY <1>1, <1>11, <2>1, <2>2 DEF Boundary, Pass, Longer
  <2>3. CASE c # boundary[index + 1]
    <3>1. ReadBody(LookedBehind, skipped) /\ i' = i
      BY <1>11, <2>3 DEF Boundary, DataAfterAll
    <3>2. LookedBehind \in Seq(Byte)
      <4>1. lookbehind \in Seq(Byte) /\ Len(lookbehind) = 2 + index
        BY <2>1 DEF PartInv, Places
      <4> QED BY <4>1, SubSeqFull DEF LookedBehind
    <3>3. Longer
      BY <3>1, <3>2, Zenon DEF ReadBody, Longer
    <3> QED BY <1>1, <2>1, <3>1, <3>3
  <2> QED BY <2>2, <2>3
<1> QED BY <1>2, <1>3, <1>4, <1>5, <1>6, <1>7, <1>8, <1>9, <1>10, <1>11 DEF FormNext

\* A file that was saved stays saved.
LEMMA SavedStays ==
  ASSUME FormsAreLegible, PartInv, Text, ~OnePart, i > Z, Behind, [FormNext]_form_vars
  PROVE  i' > Z /\ Behind'
<1>1. Longer /\ form' = form /\ i' >= i /\ body \in Seq(Byte)
  BY BodyGrows DEF PartInv, Types
<1>2. OnePart' = OnePart /\ data' = data
  BY <1>1, SameForm
<1>3. Len(body) >= Len(data) + 6 /\ \A j \in 1..Len(data) : body[j] = data[j]
  BY DEF Behind
<1>4. Len(data) \in Nat /\ Z \in Nat /\ i \in Nat
  BY Numbers DEF PartInv, Types
<1>5. ASSUME NEW p \in Seq(Byte)
      PROVE  /\ Len(body \o p) >= Len(data) + 6
             /\ \A j \in 1..Len(data) : (body \o p)[j] = data[j]
  <2>1. /\ Len(body \o p) = Len(body) + Len(p) /\ Len(body) \in Nat /\ Len(p) \in Nat
        /\ \A j \in 1..(Len(body) + Len(p)) :
             (body \o p)[j] = IF j <= Len(body) THEN body[j] ELSE p[j - Len(body)]
    BY <1>1, ConcatProperties, LenProperties
  <2>2. \A j \in 1..Len(data) : j \in 1..(Len(body) + Len(p)) /\ j <= Len(body)
    BY <1>3, <1>4, <2>1
  <2> QED BY <1>3, <1>4, <2>1, <2>2
<1>6. Len(body') >= Len(data) + 6 /\ \A j \in 1..Len(data) : body'[j] = data[j]
  <2>1. CASE body' = body
    BY <1>3, <2>1
  <2>2. CASE \E p \in Seq(Byte) : body' = body \o p
    BY <1>5, <2>2
  <2> QED BY <1>1, <2>1, <2>2 DEF Longer
<1>7. i' > Z
  <2>1. i' \in Nat
    BY InvKept DEF PartInv, Types
  <2> QED BY <1>1, <1>4, <2>1
<1> QED BY <1>2, <1>6, <1>7 DEF Behind

\* Of a form with one part the last two bytes are held back for ever.
LEMMA EndStays ==
  ASSUME PartInv, Text, OnePart, i > Z, Behind, [FormNext]_form_vars
  PROVE  i' > Z /\ Behind'
<1>1. Z \in Nat /\ Len(text) = Z + 2 /\ Len(text) \in Nat
  BY Numbers
<1>2. AllKept /\ text[Z + 2] = "LF"
  BY DEF Behind, Text
<1>3. form' = form
  BY DEF FormNext, form_vars, FirstBoundary, HeaderField, HeaderValue, HeaderEnd,
         PartDataStart, PartData, AlmostBoundary, Boundary, AfterBoundary, Return, Look
<1>4. Z' = Z /\ OnePart' = OnePart /\ D' = D
  BY <1>3, SameForm
<1>5. CASE i = Z + 1 /\ state = "part_data_almost_boundary" /\ ~returned
  <2>1. i + 1 = Z + 2 /\ c = "LF" /\ Accepts(c)
    BY <1>1, <1>2, <1>5 DEF c, Accepts
  <2>2. CASE UNCHANGED form_vars
    BY <1>2, <1>4, <1>5, <2>2, <1>1
       DEF form_vars, history, Behind, AllKept, InData
  <2>3. CASE FormNext
    <3>1. AlmostBoundary
      BY <1>1, <1>5, <2>1, <2>3
         DEF FormNext, FirstBoundary, HeaderField, HeaderValue, HeaderEnd, PartDataStart,
             PartData, Boundary, AfterBoundary, Return, Look
    <3>2. /\ i' = i + 1 /\ state' = "part_data_boundary" /\ index' = 0
          /\ UNCHANGED <<from, before, skipped>>
      BY <2>1, <3>1 DEF AlmostBoundary, MaybeBoundary, Pass, history
    <3>3. i' = Z + 2 /\ i' > Z
      BY <1>1, <1>5, <3>2
    <3>4. AllKept'
      BY <1>2, <1>4, <3>2 DEF AllKept, InData
    <3> QED BY <1>4, <3>2, <3>3, <3>4 DEF Behind
  <2> QED BY <2>2, <2>3
<1>6. CASE i = Z + 2 /\ state = "part_data_boundary" /\ index = 0
  <2>1. UNCHANGED <<i, state, index, from, before, skipped>>
    <3>1. ~(i < Len(text))
      BY <1>1, <1>6
    <3>2. Return \/ UNCHANGED form_vars
      BY <3>1 DEF FormNext, FirstBoundary, HeaderField, HeaderValue, HeaderEnd, PartDataStart,
             PartData, AlmostBoundary, Boundary, AfterBoundary, Look
    <3> QED BY <3>2 DEF Return, form_vars, parser, history
  <2>2. i' > Z /\ i' = Z + 2
    BY <1>1, <1>6, <2>1
  <2>3. AllKept'
    BY <1>2, <1>4, <2>1 DEF AllKept, InData
  <2> QED BY <1>4, <1>6, <2>1, <2>2, <2>3 DEF Behind
<1> QED BY <1>5, <1>6 DEF Behind

-----------------------------------------------------------------------------
(* The file *)

LEMMA PlaceKept ==
  ASSUME FormsAreLegible, FormsAreSound, PartInv, PlaceInv, [FormNext]_form_vars
  PROVE  PlaceInv'
<1>1. form' = form /\ form \in Forms /\ i \in Nat
  BY BodyGrows DEF PartInv, Types
<1>2. SUFFICES ASSUME Plain PROVE IF i' <= Z THEN ~returned' /\ (InFront' \/ Within') ELSE Behind'
  <2>1. Z' = Z /\ (Plain' => Plain)
    BY <1>1, SameForm DEF Plain
  <2> QED BY <2>1 DEF PlaceInv
<1>3. Text /\ Z \in Nat
  <2>1. Text
    BY <1>1, <1>2, TextStands
  <2> QED BY <2>1, Numbers
<1>4. CASE i > Z
  <2>1. Behind
    BY <1>1, <1>2, <1>3, <1>4 DEF PlaceInv
  <2>2. i' > Z /\ Behind'
    BY <1>3, <1>4, <2>1, SavedStays, EndStays
  <2>3. i' \in Nat
    BY InvKept DEF PartInv, Types
  <2> QED BY <1>3, <2>2, <2>3
<1>5. CASE i <= Z
  <2>1. ~returned /\ (InFront \/ Within)
    BY <1>2, <1>5 DEF PlaceInv
  <2>2. ~Return
    BY <1>1, <1>3, <1>5, <2>1, GoesOn DEF Return
  <2>3. CASE UNCHANGED form_vars
    <3>1. UNCHANGED <<i, state, index, mark, lookbehind, body, returned, from, before, skipped>>
      BY <2>3 DEF form_vars, parser, history
    <3>2. /\ text' = text /\ N' = N /\ D' = D /\ E' = E /\ boundary' = boundary
          /\ header' = header
      BY <1>1, SameForm
    <3>3. InFront => InFront'
      BY <3>1, <3>2 DEF InFront, Colon
    <3>4. Within => Within'
      BY <3>1, <3>2 DEF Within, AllKept, Alike, InData
    <3> QED BY <1>5, <2>1, <3>1, <3>3, <3>4
  <2>4. CASE InFront /\ FormNext
    <3>1. ~PartData /\ ~AlmostBoundary /\ ~Boundary /\ ~AfterBoundary
      BY <2>4 DEF InFront, PartData, AlmostBoundary, Boundary, AfterBoundary, Look
    <3>2. i' <= Z /\ returned' = returned /\ (InFront' \/ Within')
      BY <1>2, <1>3, <2>2, <2>4, <3>1, FirstBoundaryStands, HeaderFieldStands,
         HeaderValueStands, HeaderEndStands, PartDataStartStands DEF FormNext
    <3> QED BY <2>1, <3>2
  <2>5. CASE Within /\ FormNext
    <3>1. PartData \/ AlmostBoundary \/ Boundary
      BY <2>2, <2>5
         DEF FormNext, Within, AllKept, InData, FirstBoundary, HeaderField, HeaderValue,
             HeaderEnd, PartDataStart, AfterBoundary, Look
    <3>2. CASE PartData /\ i = Z
      <4>1. i' = Z + 1 /\ Behind'
        BY <1>2, <1>3, <2>5, <3>2, LastByteStands
      <4> QED BY <1>3, <4>1
    <3>3. CASE ~(PartData /\ i = Z)
      <4>1. i < Z \/ ~PartData
        BY <1>1, <1>3, <1>5, <3>3
      <4>2. i' <= Z /\ returned' = returned /\ Within'
        BY <1>2, <1>3, <1>5, <2>5, <3>1, <4>1, PartDataStands, AlmostStands, BoundaryStands
      <4> QED BY <2>1, <4>2
    <3> QED BY <3>2, <3>3
  <2> QED BY <2>1, <2>3, <2>4, <2>5
<1> QED BY <1>1, <1>3, <1>4, <1>5

\* What was collected of a form with one part: the file, and the delimiter
\* up to the line end.
LEMMA OneFile ==
  ASSUME Text, PartInv, OnePart, AllKept, i = Z + 2, state = "part_data_boundary", index = 0
  PROVE  /\ Len(body) = Len(data) + N + 6
         /\ \A j \in 1..(Len(data) + N) : body[j] = text[D + j]
<1> DEFINE q == SubSeq(text, D + 1, Z + 2)
           n == Len(data) + N + 6
<1>1. /\ N \in Nat /\ D \in Nat /\ E \in Nat /\ Z \in Nat /\ Len(data) \in Nat
      /\ E = D + Len(data) /\ Z = E + N + 6 /\ Len(text) = Z + 2 /\ D <= E
  BY Numbers
<1>2. /\ q \in Seq(Byte) /\ Len(q) = n + 2 /\ \A j \in 1..(n + 2) : q[j] = text[D + j]
  <2>1. Z + 2 \in D..Len(text) /\ (Z + 2) - D = n + 2 /\ text \in Seq(Byte)
    BY <1>1 DEF Text
  <2> DEFINE z == Z + 2
  <2> HIDE DEF n
  <2>2. z \in D..Len(text) /\ z - D = n + 2
    BY <2>1
  <2> HIDE DEF z
  <2>3. /\ SubSeq(text, D + 1, z) \in Seq(Byte) /\ Len(SubSeq(text, D + 1, z)) = z - D
        /\ \A j \in 1..(z - D) : SubSeq(text, D + 1, z)[j] = text[D + j]
    BY <1>1, <2>1, <2>2, PieceOf
  <2> QED BY <2>2, <2>3 DEF z
<1>3. /\ body \in Seq(Byte) /\ lookbehind \in Seq(Byte) /\ Len(lookbehind) = 2
  BY DEF PartInv, Types, Places
<1>4. body \o lookbehind = q
  <2>1. Pending = lookbehind
    <3>1. Pending = SubSeq(lookbehind, 1, 2)
      BY DEF Pending, LookedBehind
    <3> QED BY <1>3, <3>1, SubSeqFull
  <2>2. body \o Pending = before \o SubSeq(text, from + 1, i)
    BY Zenon DEF PartInv, NothingLost, AllKept, InData
  <2>3. body \o Pending = <<>> \o q
    BY <2>2 DEF AllKept
  <2>4. <<>> \o q = q
    BY <1>2, ConcatEmptySeq
  <2> QED BY <2>1, <2>3, <2>4
<1> HIDE DEF q
<1>5. /\ Len(q) = Len(body) + 2 /\ Len(body) \in Nat
      /\ \A k \in 1..(Len(body) + 2) : k <= Len(body) => q[k] = body[k]
  <2>1. /\ Len(body \o lookbehind) = Len(body) + Len(lookbehind) /\ Len(body) \in Nat
        /\ \A k \in 1..(Len(body) + Len(lookbehind)) :
             (body \o lookbehind)[k] = IF k <= Len(body) THEN body[k]
                                       ELSE lookbehind[k - Len(body)]
    BY <1>3, ConcatProperties, LenProperties
  <2> QED BY <1>3, <1>4, <2>1
<1>6. Len(body) = n
  BY <1>1, <1>2, <1>5
<1>7. ASSUME NEW j \in 1..(Len(data) + N) PROVE body[j] = text[D + j]
  <2>1. j \in 1..(n + 2) /\ j \in 1..(Len(body) + 2) /\ j <= Len(body)
    BY <1>1, <1>6
  <2> QED BY <1>2, <1>5, <2>1
<1> QED BY <1>6, <1>7

LEMMA PlacesSave ==
  ASSUME FormsAreLegible, FormsAreSound, PartInv, PlaceInv
  PROVE  FileIsSaved
<1> DEFINE rest == Delimiter(boundary) \o <<"-", "-">>
<1>1. SUFFICES ASSUME returned, Plain
               PROVE  /\ Len(body) >= 6
                      /\ IF OnePart
                         THEN GetBody(body) = data \o SubSeq(rest, 1, N)
                         ELSE SubSeq(GetBody(body), 1, Len(data)) = data
  BY Zenon DEF FileIsSaved, Plain, OnePart, data, N
<1>2. Text /\ i \in Nat /\ body \in Seq(Byte)
  <2>1. form \in Forms
    BY DEF PartInv, Types
  <2> QED BY <1>1, <2>1, TextStands DEF PartInv, Types
<1>3. /\ N \in Nat /\ N >= 3 /\ D \in Nat /\ E \in Nat /\ Z \in Nat /\ Len(data) \in Nat
      /\ E = D + Len(data) /\ data \in Seq(Byte)
  BY <1>2, Numbers DEF Text
<1>4. i > Z /\ Behind
  <2>1. ~(i <= Z)
    BY <1>1 DEF PlaceInv
  <2> QED BY <1>1, <1>2, <1>3, <2>1 DEF PlaceInv
<1>5. CASE ~OnePart
  <2>1. Len(body) >= Len(data) + 6 /\ \A j \in 1..Len(data) : body[j] = data[j]
    BY <1>4, <1>5 DEF Behind
  <2> DEFINE n == Len(body) - 6
             g == GetBody(body)
  <2>2. n \in Nat /\ n \in 0..Len(body) /\ n >= Len(data) /\ Len(body) >= 6
    BY <1>2, <1>3, <2>1
  <2>3. g \in Seq(Byte) /\ Len(g) = n /\ \A j \in 1..n : g[j] = body[j]
    <3> HIDE DEF n
    <3>1. 0 \in Nat /\ n \in 0..Len(body) /\ n - 0 = n /\ \A j \in 1..n : 0 + j = j
      BY <2>2
    <3>2. /\ SubSeq(body, 0 + 1, n) \in Seq(Byte) /\ Len(SubSeq(body, 0 + 1, n)) = n - 0
          /\ \A j \in 1..(n - 0) : SubSeq(body, 0 + 1, n)[j] = body[0 + j]
      BY <1>2, <3>1, PieceOf
    <3>3. g = SubSeq(body, 0 + 1, n)
      BY DEF GetBody, n
    <3> QED BY <3>1, <3>2, <3>3
  <2> HIDE DEF g, n
  <2> DEFINE f == SubSeq(g, 0 + 1, Len(data))
  <2>4. f \in Seq(Byte) /\ Len(f) = Len(data) /\ \A j \in 1..Len(data) : f[j] = g[j]
    <3>1. /\ 0 \in Nat /\ Len(data) \in 0..Len(g) /\ Len(data) - 0 = Len(data)
          /\ \A j \in 1..Len(data) : 0 + j = j
      BY <1>3, <2>2, <2>3
    <3>2. /\ f \in Seq(Byte) /\ Len(f) = Len(data) - 0
          /\ \A j \in 1..(Len(data) - 0) : f[j] = g[0 + j]
      BY <2>3, <3>1, PieceOf
    <3> QED BY <3>1, <3>2
  <2> HIDE DEF f
  <2>5. ASSUME NEW j \in 1..Len(data) PROVE f[j] = data[j]
    <3>1. j \in 1..n
      BY <1>3, <2>2
    <3> QED BY <2>1, <2>3, <2>4, <3>1
  <2>6. f = data
    BY <1>3, <2>4, <2>5, SeqEqual
  <2> QED BY <1>5, <2>2, <2>6 DEF f, g
<1>6. CASE OnePart
  <2> DEFINE n == Len(data) + N
             g == GetBody(body)
             r == SubSeq(rest, 1, N)
  <2>1. Len(body) = n + 6 /\ \A j \in 1..n : body[j] = text[D + j]
    <3>1. i = Z + 2 /\ state = "part_data_boundary" /\ index = 0 /\ AllKept
      BY <1>1, <1>4, <1>6 DEF Behind
    <3> QED BY <1>2, <1>6, <3>1, OneFile
  <2>2. n \in Nat /\ Len(body) >= 6 /\ Len(body) - 6 = n /\ n \in 0..Len(body)
    BY <1>3, <2>1
  <2>3. g \in Seq(Byte) /\ Len(g) = n /\ \A j \in 1..n : g[j] = body[j]
    <3>1. g = SubSeq(body, 0 + 1, n)
      BY <2>2 DEF GetBody
    <3> HIDE DEF n, g
    <3>2. 0 \in Nat /\ n \in 0..Len(body) /\ n - 0 = n /\ \A j \in 1..n : 0 + j = j
      BY <2>2
    <3>3. /\ SubSeq(body, 0 + 1, n) \in Seq(Byte) /\ Len(SubSeq(body, 0 + 1, n)) = n - 0
          /\ \A j \in 1..(n - 0) : SubSeq(body, 0 + 1, n)[j] = body[0 + j]
      BY <1>2, <3>2, PieceOf
    <3> QED BY <3>1, <3>2, <3>3
  <2>4. r \in Seq(Byte) /\ Len(r) = N /\ \A j \in 1..N : r[j] = text[E + j]
    <3> DEFINE dd == <<"CR", "LF", "-", "-">>
               hh == <<"-", "-">>
               b == boundary
    <3>1. /\ dd \in Seq(Byte) /\ Len(dd) = 4 /\ hh \in Seq(Byte) /\ Len(hh) = 2
          /\ dd[1] = "CR" /\ dd[2] = "LF" /\ dd[3] = "-" /\ dd[4] = "-"
      BY ShortTexts
    <3>2. b \in Seq(Byte) /\ Len(b) = N
      BY <1>2, BytesOf DEF Text, N
    <3> HIDE DEF dd, hh, b
    <3>3. /\ dd \o b \in Seq(Byte) /\ Len(dd \o b) = 4 + N
          /\ \A k \in 1..(4 + N) : (dd \o b)[k] = IF k <= 4 THEN dd[k] ELSE b[k - 4]
      <4>1. \A k \in 1..(Len(dd) + Len(b)) :
              (dd \o b)[k] = IF k <= Len(dd) THEN dd[k] ELSE b[k - Len(dd)]
        BY <3>1, <3>2, ConcatProperties
      <4>2. dd \o b \in Seq(Byte) /\ Len(dd \o b) = Len(dd) + Len(b)
        BY <3>1, <3>2, TwoTexts
      <4> DEFINE u == dd \o b
      <4> HIDE DEF u
      <4>3. \A k \in 1..(Len(dd) + Len(b)) :
              u[k] = IF k <= Len(dd) THEN dd[k] ELSE b[k - Len(dd)]
        BY <4>1 DEF u
      <4>4. u \in Seq(Byte) /\ Len(u) = Len(dd) + Len(b)
        BY <4>2 DEF u
      <4>5. /\ u \in Seq(Byte) /\ Len(u) = 4 + N
            /\ \A k \in 1..(4 + N) : u[k] = IF k <= 4 THEN dd[k] ELSE b[k - 4]
        BY <3>1, <3>2, <4>3, <4>4
      <4> QED BY <4>5 DEF u
    <3> DEFINE d == dd \o b
    <3> HIDE DEF d
    <3>4. d \in Seq(Byte) /\ Len(d) = 4 + N
      BY <3>3 DEF d
    <3>5. /\ d \o hh \in Seq(Byte) /\ Len(d \o hh) = Len(d) + Len(hh)
          /\ \A k \in 1..(Len(d) + Len(hh)) :
               (d \o hh)[k] = IF k <= Len(d) THEN d[k] ELSE hh[k - Len(d)]
      <4>1. \A k \in 1..(Len(d) + Len(hh)) :
               (d \o hh)[k] = IF k <= Len(d) THEN d[k] ELSE hh[k - Len(d)]
        BY <3>1, <3>4, ConcatProperties
      <4>2. d \o hh \in Seq(Byte) /\ Len(d \o hh) = Len(d) + Len(hh)
        BY <3>1, <3>4, TwoTexts
      <4> QED BY <4>1, <4>2
    <3>6. rest = d \o hh
      BY DEF Delimiter, d, dd, hh, b
    <3> HIDE DEF rest
    <3>7. rest \in Seq(Byte) /\ Len(rest) = 6 + N /\ \A k \in 1..N : rest[k] = d[k]
      <4>1. \A k \in 1..N : k \in 1..(Len(d) + Len(hh)) /\ k <= Len(d)
        BY <1>3, <3>1, <3>4
      <4>2. Len(d) + Len(hh) = 6 + N
        BY <1>3, <3>1, <3>4
      <4> QED BY <3>5, <3>6, <4>1, <4>2
    <3>8. r \in Seq(Byte) /\ Len(r) = N /\ \A k \in 1..N : r[k] = rest[k]
      <4>1. 0 \in Nat /\ N \in 0..Len(rest) /\ N - 0 = N /\ \A k \in 1..N : 0 + k = k
        BY <1>3, <3>7
      <4>2. /\ SubSeq(rest, 0 + 1, N) \in Seq(Byte) /\ Len(SubSeq(rest, 0 + 1, N)) = N - 0
            /\ \A k \in 1..(N - 0) : SubSeq(rest, 0 + 1, N)[k] = rest[0 + k]
        BY <3>7, <4>1, PieceOf
      <4> QED BY <4>1, <4>2
    <3>9. ASSUME NEW j \in 1..N PROVE d[j] = text[E + j]
      <4>1. d[j] = IF j <= 4 THEN dd[j] ELSE b[j - 4]
        <5>1. j \in 1..(4 + N)
          BY <1>3
        <5> QED BY <3>3, <5>1 DEF d
      <4>2. CASE j <= 4
        <5>1. j = 1 \/ j = 2 \/ j = 3 \/ j = 4
          BY <1>3, <4>2
        <5>2. /\ text[E + 1] = "CR" /\ text[E + 2] = "LF"
              /\ text[E + 3] = "-" /\ text[E + 4] = "-"
          BY <1>2 DEF Text
        <5> QED BY <3>1, <4>1, <4>2, <5>1, <5>2
      <4>3. CASE j > 4
        <5>1. j - 4 \in 1..N /\ E + 4 + (j - 4) = E + j /\ ~(j <= 4)
          BY <1>3, <4>3
        <5>2. text[E + 4 + (j - 4)] = boundary[j - 4]
          BY <1>2, <5>1 DEF Text
        <5> QED BY <4>1, <5>1, <5>2 DEF b
      <4> QED BY <1>3, <4>2, <4>3
    <3> QED BY <3>7, <3>8, <3>9
  <2> HIDE DEF g, r
  <2>5. /\ data \o r \in Seq(Byte) /\ Len(data \o r) = n
        /\ \A j \in 1..n : (data \o r)[j] = IF j <= Len(data) THEN data[j] ELSE r[j - Len(data)]
    <3>1. \A j \in 1..(Len(data) + Len(r)) :
             (data \o r)[j] = IF j <= Len(data) THEN data[j] ELSE r[j - Len(data)]
      BY <1>3, <2>4, ConcatProperties
    <3>2. data \o r \in Seq(Byte) /\ Len(data \o r) = Len(data) + Len(r)
      BY <1>3, <2>4, TwoTexts
    <3> QED BY <2>4, <3>1, <3>2
  <2> DEFINE w == data \o r
  <2> HIDE DEF w
  <2>6. /\ w \in Seq(Byte) /\ Len(w) = n
        /\ \A j \in 1..n : w[j] = IF j <= Len(data) THEN data[j] ELSE r[j - Len(data)]
    BY <2>5 DEF w
  <2>7. ASSUME NEW j \in 1..n PROVE g[j] = w[j]
    <3>1. CASE j <= Len(data)
      <4>1. j \in 1..Len(data)
        BY <1>3, <3>1
      <4>2. text[D + j] = data[j]
        BY <1>2, <4>1 DEF Text
      <4> QED BY <2>1, <2>3, <2>6, <3>1, <4>2
    <3>2. CASE j > Len(data)
      <4>1. j - Len(data) \in 1..N /\ E + (j - Len(data)) = D + j /\ ~(j <= Len(data))
        BY <1>3, <3>2
      <4>2. r[j - Len(data)] = text[D + j]
        BY <2>4, <4>1
      <4> QED BY <2>1, <2>3, <2>6, <4>1, <4>2
    <3> QED BY <1>3, <3>1, <3>2
  <2>8. g = w
    BY <2>3, <2>6, <2>7, SeqEqual
  <2> QED BY <1>6, <2>2, <2>8 DEF g, w, r
<1> QED BY <1>5, <1>6

\* Whatever a client sends, once the parser has returned from a form as a
\* browser sends it, with a boundary that is not in the data, the file is
\* whole in what GetBody returns: at its beginning, and with nothing behind
\* it but a part of the delimiter when the form has no other field. The
\* parser is not given the hyphens of a delimiter, so it takes one for data;
\* that costs the file no byte, because neither a piece of the data nor what
\* is held back is ever taken for the boundary that ReadBody drops.
THEOREM FilesAlwaysSaved ==
  ASSUME FormsAreLegible, FormsAreSound
  PROVE  FormSpec => []FileIsSaved
<1> DEFINE Saving == PartInv /\ PlaceInv
<1>1. FormInit => Saving
  <2> SUFFICES ASSUME FormInit PROVE Saving
    OBVIOUS
  <2>1. /\ form \in Forms /\ i = 0 /\ state = "start" /\ returned = FALSE
        /\ body = <<>> /\ before = <<>>
    BY DEF FormInit, FormStart
  <2>2. text \in Seq(Byte)
    BY <2>1, TextIsText
  <2>3. PartInv
    BY <2>1, <2>2 DEF PartInv, Types, Places, NothingLost, InData
  <2>4. ASSUME Plain PROVE i <= Z /\ ~returned /\ InFront
    <3>1. Z \in Nat
      BY <2>1, <2>4, TextStands, Numbers
    <3> QED BY <2>1, <3>1 DEF InFront
  <2> QED BY <2>3, <2>4 DEF PlaceInv
<1>2. Saving /\ [FormNext]_form_vars => Saving'
  BY InvKept, PlaceKept
<1>3. Saving => FileIsSaved
  BY PlacesSave
<1> HIDE DEF Saving
<1> QED BY <1>1, <1>2, <1>3, PTL DEF FormSpec

=============================================================================
