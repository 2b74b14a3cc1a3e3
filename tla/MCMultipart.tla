---------------------------- MODULE MCMultipart ----------------------------
(***************************************************************************)
(* The forms Multipart reads, for TLC.                                     *)
(***************************************************************************)
EXTENDS Texts

LOCAL INSTANCE SequencesExt

\* No hyphen at the front of the boundary, one, two and four, as browsers
\* send them.
LOCAL Boundaries == {<<"w", "x", "x">>, <<"-", "w", "x">>, <<"-", "-", "w">>,
               <<"-", "-", "-", "-", "w", "x">>}

LOCAL Datas == SeqOf({"CR", "LF", "-", "w"}, 4)

LOCAL Header == <<"n", ":", " ", "w", "CR", "LF">>
LOCAL EndOfHeaders == <<"CR", "LF">>

LOCAL Part(header, data) == [header |-> header, data |-> data]

\* A form as a browser writes it, without the line break in front.
LOCAL FormText(b, parts) ==
  LET Text(p) == <<"-", "-">> \o b \o <<"CR", "LF">> \o p.header
                   \o EndOfHeaders \o p.data \o <<"CR", "LF">>
  IN  FlattenSeq([k \in 1..Len(parts) |-> Text(parts[k])])
        \o <<"-", "-">> \o b \o <<"-", "-", "CR", "LF">>

LOCAL Sound(b, parts) ==
  [boundary |-> b, parts |-> parts, sound |-> TRUE, text |-> FormText(b, parts)]

\* Forms of one field and of two, as that of new_album.html.
LOCAL SoundForms ==
  {Sound(b, <<Part(Header, d)>>) : b \in Boundaries, d \in Datas} \cup
  {Sound(b, <<Part(Header, d), Part(<<>>, e)>>) :
     b \in Boundaries, d \in Datas, e \in {<<"w">>, <<>>}}

\* Forms with a delimiter without its hyphens, a fault in a header, a missing
\* end, and a boundary of nothing but hyphens.
LOCAL OddForms ==
  LET b == <<"-", "w", "x">>
      Odd(bd, t) == [boundary |-> bd, parts |-> <<Part(Header, <<>>)>>,
                     sound |-> FALSE, text |-> t]
      start == <<"-", "-">> \o b \o <<"CR", "LF">> \o Header \o EndOfHeaders
      next == <<"CR", "LF">> \o b
  IN  {Odd(b, start \o d \o next \o e) : d \in Datas,
         e \in {<<"CR", "LF">> \o Header \o EndOfHeaders \o <<"w", "CR">>,
                <<"-", "-", "CR", "LF">>, <<"-", "w">>, <<"w">>, <<"CR", "w">>}} \cup
      {Odd(b, start \o d) : d \in Datas} \cup
      {Odd(b, <<"-", "-">> \o t) : t \in SeqOf({"-", "w", "x", "CR", "0"}, 4)} \cup
      {Odd(b, SubSeq(start, 1, 7) \o t) : t \in SeqOf({"n", ":", "CR", "LF", "0"}, 4)} \cup
      {Odd(<<"-", "-", "-">>,
           FormText(<<"-", "-", "-">>, <<Part(Header, d), Part(<<>>, d)>>)) : d \in Datas}

OneForm == Sound(<<"-", "w", "x">>, <<Part(Header, <<>>)>>)

AllForms == SoundForms \cup OddForms

=============================================================================
