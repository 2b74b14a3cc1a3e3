------------------------------ MODULE MCConfig ------------------------------
(***************************************************************************)
(* The configuration files Config reads, for TLC.                          *)
(***************************************************************************)
EXTENDS Config

Lowered(w) == CASE w = "Server" -> "server" [] w = "Port" -> "port" [] OTHER -> w

\* The words that are one character.
OneCharWords == {"x", "a", "4", "=", "#", "[", "\\"}

First(w) ==
  CASE w = "server" -> "s" [] w = "log" -> "l" [] w = "true" -> "t"
    [] w = "no" -> "n" [] w = "maybe" -> "m"
    [] w = "close" -> "c" [] w = "Keep-Alive" -> "K" [] OTHER -> w

Number(v) ==
  IF v = <<>> THEN 0
  ELSE CASE v[1] = "8080" -> 8080 [] v[1] = "4" -> 4 [] v[1] = "-1" -> -1
         [] OTHER -> 0

\* A line and what it says.
LOCAL Nothing == [kind |-> "nothing"]
LOCAL Fault == [kind |-> "error"]
LOCAL Odd == [kind |-> "odd"]
LOCAL Header(s) == [kind |-> "section", name |-> <<s>>]
LOCAL Setting(k, v) == [kind |-> "setting", name |-> <<k>>, value |-> v]

LOCAL Phrases == {
  <<<<>>, Nothing>>,
  <<<<"#", " ", "port", "=", "4">>, Nothing>>,
  <<<<"[", "Server", "]">>, Header("server")>>,
  <<<<" ", "[", " ", "log", " ", "]">>, Header("log")>>,
  <<<<"[", "]">>, Odd>>,
  <<<<"[", "server", ":", "port", "]">>, Odd>>,
  <<<<"[", "log", ":", "level", "]">>, Odd>>,
  <<<<"[", "server", "]", " ", ";", "x">>, Fault>>,
  <<<<"Port", " ", "=", " ", "8080">>, Setting("port", <<"8080">>)>>,
  <<<<" ", "port", "=", "4", " ", "#", "x">>, Setting("port", <<"4">>)>>,
  <<<<"port", "=", "-1">>, Setting("port", <<"-1">>)>>,
  <<<<"port", " ", "=", ";", "4">>, Setting("port", <<>>)>>,
  <<<<"level", "=", "dq", "a", ";", " ", "dq", " ", ";", "x">>,
    Setting("level", <<"a", ";", " ">>)>>,
  <<<<"level", "=", "sq", "sq">>, Setting("level", <<>>)>>,
  <<<<"colour", "=", "true">>, Setting("colour", <<"true">>)>>,
  <<<<"colour", "=", "no">>, Setting("colour", <<"no">>)>>,
  <<<<"colour", "=", "maybe">>, Setting("colour", <<"maybe">>)>>,
  <<<<"=", "4">>, Fault>>,
  <<<<"x">>, Fault>>,
  \* the first half of a line, and what it is with some of the others
  <<<<"port", " ", "=", " ", "8080", " ">>, Setting("port", <<"8080">>)>>,
  <<<<"port", " ", "=", " ", "8080", " ", "x">>, Setting("port", <<"8080", " ", "x">>)>>}

Meaning(l) ==
  LET found == {p \in Phrases : p[1] = l \/ StripRight(p[1]) = l}
  IN  IF found = {} THEN Odd ELSE (CHOOSE p \in found : TRUE)[2]

\* Lines that go on, a line of blanks, and one that is too long.
LOCAL Written ==
  {p[1] : p \in Phrases} \cup
  {<<"port", " ", "=", " ", "8080", " ", "\\">>, <<"\\">>, <<" ", " ">>,
   <<"level", "=", "a", " ", "a", " ", "a", " ", "a", " ", "a", " ", "a">>}

LOCAL Starts == {<<>>} \cup {<<p[1]>> : p \in {q \in Phrases : q[2].kind = "section"}}

LOCAL File(ls, nl) == [lines |-> ls, newline |-> nl, there |-> TRUE]

NoFile == [File(<<>>, TRUE) EXCEPT !.there = FALSE]

\* A file does not end with a line of nothing that has no newline.
AllFiles ==
  {f \in {File(s \o <<a, b>>, nl) : s \in Starts, a \in Written, b \in Written,
                                    nl \in BOOLEAN} :
     f.lines[Len(f.lines)] = <<>> => f.newline}
  \cup {File(<<<<"[", "Server", "]">>, a, <<" ", "[", " ", "log", " ", "]">>, b>>, TRUE) :
          a \in Written, b \in Written}
  \cup {NoFile}

\* Meaning is right about every line of these files.
ASSUME FilesAssumption == FilesAreTexts /\ LinesAreRead

\* Two hashes for all keys.
Hash(k) == Len(k) % 2

=============================================================================
