------------------------------- MODULE Config -------------------------------
(***************************************************************************)
(* How the configuration is read when the program starts: iniparser loads  *)
(* the file line by line into a dictionary, Config::Parse takes the options*)
(* out of it, and PrintDefaults fills in those that are still at -1 or     *)
(* NULL.                                                                   *)
(*                                                                         *)
(* A text is a sequence of tokens: words, and the characters that mean     *)
(* something, a blank among them. A file is a sequence of lines and says   *)
(* whether the last of them ends with a newline.                           *)
(***************************************************************************)
EXTENDS Dictionary

CONSTANTS
  Files,       \* what an administrator may have written
  ASCIILINESZ, \* the size of the buffer for a line, here in tokens
  Lower(_),    \* tolower() of a word
  OneChar,     \* the words of one character
  Means(_)     \* what a line says to its reader, see SettingsAsWritten

ASSUME ConfigAssumption == ASCIILINESZ \in Nat /\ ASCIILINESZ >= 2

VARIABLES
  file,      \* the file path_to_cfg names: its lines, and whether it is there
  given,     \* path_to_cfg was given on the command line
  lineno,    \* how many lines fgets has read
  line,      \* what is kept of a line that goes on in the next
  section,   \* the section the last header named
  dict, errs, pc,
  cfg        \* the members of Config

vars == <<file, given, lineno, line, section, dict, errs, pc, cfg>>

\* CFG_GEN, with the types and what stands for "not specified".
Entry(var, sec, name, type, def) ==
  [var |-> var, key |-> <<sec, ":", name>>, type |-> type, def |-> def]

CFG_GEN ==
  {Entry("log_level", "log", "level", "STRING", <<"LOG_INFO">>),
   Entry("log_colour", "log", "colour", "BOOL", 0),
   Entry("port", "server", "port", "INT", 80),
   Entry("addr", "server", "addr", "STRING", <<"0.0.0.0">>),
   Entry("n_workers", "server", "workers", "INT", 2),
   Entry("path_to_static", "server", "path_to_static", "STRING", <<".">>),
   Entry("runas", "server", "runas", "STRING", NULL),
   Entry("path_to_css", "photohosting", "path_to_css", "STRING", <<".">>),
   Entry("path_to_store", "photohosting", "path_to_store", "STRING", <<".">>),
   Entry("path_to_tmp_files", "photohosting", "path_to_tmp_files", "STRING", <<".">>),
   Entry("path_to_tokens", "auth", "path_to_tokens", "STRING", <<".">>),
   Entry("path_to_pwd", "auth", "users", "STRING", <<"./users">>)}

Unspecified(e) == IF e.type = "STRING" THEN NULL ELSE -1

Members == {e.var : e \in CFG_GEN}
EntryOf(m) == CHOOSE e \in CFG_GEN : e.var = m

\* Config::Config
Fresh == [m \in Members |-> Unspecified(EntryOf(m))]

-----------------------------------------------------------------------------
(* One line: iniparser_line *)

StripLeft(s) ==
  LET words == {j \in 1..Len(s) : s[j] # " "}
  IN  IF words = {} THEN <<>>
      ELSE SubSeq(s, CHOOSE j \in words : \A m \in words : j <= m, Len(s))

StripRight(s) ==
  LET words == {j \in 1..Len(s) : s[j] # " "}
  IN  IF words = {} THEN <<>>
      ELSE SubSeq(s, 1, CHOOSE j \in words : \A m \in words : m <= j)

strstrip(s) == StripRight(StripLeft(s))
strlwc(s) == [j \in DOMAIN s |-> Lower(s[j])]

LineEmpty(l) == l = <<>>
LineComment(l) == l # <<>> /\ l[1] \in {"#", ";"}
LineSection(l) == l # <<>> /\ l[1] = "[" /\ l[Len(l)] = "]"

\* Something in front of the first "=", which follows.
LineValue(l) ==
  /\ ~LineEmpty(l) /\ ~LineComment(l) /\ ~LineSection(l)
  /\ UpTo(l, {"="}) \notin {<<>>, l}

\* A pair of brackets with nothing between them leaves the name that was
\* there before, cut off at the length of the line: one character of it.
SectionName(l, old) ==
  LET name == UpTo(Tail(l), {"]"})
  IN  CASE name # <<>> -> strlwc(strstrip(name))
        [] name = <<>> /\ old # <<>> -> <<Initial(old[1])>>
        [] OTHER -> old

KeyName(l) == strlwc(strstrip(UpTo(l, {"="})))

\* A value in quotes, which must not be empty and need not end.
Quoted(v) ==
  \E q \in {"dq", "sq"} : v # <<>> /\ v[1] = q /\ UpTo(Tail(v), {q}) # <<>>

Value(l) ==
  LET v    == StripLeft(After(l, "="))
      bare == strstrip(UpTo(v, {";", "#"}))
  IN  CASE Quoted(v) -> UpTo(Tail(v), {v[1]})
        [] bare \in {<<"dq", "dq">>, <<"sq", "sq">>} -> <<>>
        [] OTHER -> bare

-----------------------------------------------------------------------------
(* The file: iniparser_load *)

Lines == file.lines
HasNewline(j) == j < Len(Lines) \/ file.newline

\* A string of one character, its newline counted: fgets is called again.
OneCharacter ==
  LET l == line \o Lines[lineno + 1]
  IN  l = <<>> \/ (~HasNewline(lineno + 1) /\ Len(l) = 1 /\ l[1] \in OneChar)

\* With its newline, or its end, the line does not fit what is left of the
\* buffer.
TooLong ==
  Len(Lines[lineno + 1]) + 1 > ASCIILINESZ - Len(line) - 1

\* The text fgets has completed, without what is blank at its end.
Text == StripRight(line \o Lines[lineno + 1])

\* The line has a newline or is the last, fits the buffer, and is no blank.
Reads ==
  /\ pc = "load"
  /\ lineno < Len(Lines)
  /\ ~OneCharacter /\ ~TooLong
  /\ lineno' = lineno + 1
  /\ UNCHANGED <<file, given, pc, cfg>>

GoesOn(l) == l # <<>> /\ l[Len(l)] = "\\"

SkipLine ==
  /\ pc = "load"
  /\ lineno < Len(Lines)
  /\ OneCharacter
  /\ lineno' = lineno + 1
  /\ UNCHANGED <<file, given, line, section, dict, errs, pc, cfg>>

RefuseLongLine ==
  /\ pc = "load"
  /\ lineno < Len(Lines)
  /\ ~OneCharacter /\ TooLong
  /\ dict' = dictionary_new
  /\ pc' = "refused"
  /\ UNCHANGED <<file, given, lineno, line, section, errs, cfg>>

ContinueLine ==
  /\ Reads
  /\ GoesOn(Text)
  /\ line' = SubSeq(Text, 1, Len(Text) - 1)
  /\ UNCHANGED <<section, dict, errs>>

\* A whole line.
Whole ==
  /\ Reads
  /\ ~GoesOn(Text)
  /\ line' = <<>>

IgnoreLine ==
  /\ Whole
  /\ LineEmpty(strstrip(Text)) \/ LineComment(strstrip(Text))
  /\ UNCHANGED <<section, dict, errs>>

\* Mutation: the section is not kept for the lines that follow.
EnterSectionOnce ==
  /\ Whole
  /\ LineSection(strstrip(Text))
  /\ dict' = dictionary_set(dict, SectionName(strstrip(Text), section), NULL)
  /\ UNCHANGED <<section, errs>>

EnterSection ==
  /\ Whole
  /\ LineSection(strstrip(Text))
  /\ section' = SectionName(strstrip(Text), section)
  /\ dict' = dictionary_set(dict, section', NULL)
  /\ UNCHANGED errs

StateValue ==
  /\ Whole
  /\ LET l == strstrip(Text)
     IN  /\ LineValue(l)
         /\ dict' = dictionary_set(dict, section \o <<":">> \o KeyName(l), Value(l))
  /\ UNCHANGED <<section, errs>>

IsError(l) ==
  ~LineEmpty(l) /\ ~LineComment(l) /\ ~LineSection(l) /\ ~LineValue(l)

CountError ==
  /\ Whole
  /\ IsError(strstrip(Text))
  /\ errs' = errs + 1
  /\ UNCHANGED <<section, dict>>

EndOfFile ==
  /\ pc = "load"
  /\ lineno = Len(Lines)
  /\ IF errs > 0 THEN pc' = "refused" /\ dict' = dictionary_new
                 ELSE pc' = "parse" /\ UNCHANGED dict
  /\ UNCHANGED <<file, given, lineno, line, section, errs, cfg>>

-----------------------------------------------------------------------------
(* Config::Parse *)

\* main() passes path_to_cfg on, which the constructor does not initialise:
\* without -c it is whatever lies there, NULL, which stands for the default,
\* or a string, of a file that is not there in all likelihood, or an address
\* that ends the process.
Open ==
  /\ pc = "open"
  /\ \/ file.there /\ pc' = "load"
     \/ ~file.there /\ pc' = "refused"
     \/ ~given /\ pc' \in {"refused", "crashed"}
  /\ UNCHANGED <<file, given, lineno, line, section, dict, errs, cfg>>

\* The value of a key: the absent one is the caller's mark, and so differs
\* from NULL, which the header of a section has.
Absent(e) == ~Found(dict, e.key)
Stated(e) == dictionary_get(dict, e.key, NULL)

iniparser_getboolean(v) ==
  CASE v # <<>> /\ Initial(v[1]) \in {"y", "Y", "1", "t", "T"} -> 1
    [] v # <<>> /\ Initial(v[1]) \in {"n", "N", "0", "f", "F"} -> 0
    [] OTHER -> -1

Parsed(e) ==
  CASE Absent(e) -> Unspecified(e)
    [] ~Absent(e) /\ e.type = "STRING" -> Stated(e)
    [] ~Absent(e) /\ e.type = "INT" -> strtol(Stated(e))
    [] ~Absent(e) /\ e.type = "BOOL" -> iniparser_getboolean(Stated(e))

\* The number of a section's header: strtol() and c[0] of NULL.
NoNumber == \E e \in CFG_GEN : e.type # "STRING" /\ ~Absent(e) /\ Stated(e) = NULL

PrintDefault(e, v) == IF v = Unspecified(e) THEN e.def ELSE v

ParseOptions ==
  /\ pc = "parse"
  /\ ~NoNumber
  /\ cfg' = [m \in Members |-> LET e == EntryOf(m) IN PrintDefault(e, Parsed(e))]
  /\ dict' = dictionary_new
  /\ pc' = "ready"
  /\ UNCHANGED <<file, given, lineno, line, section, errs>>

ParseCrashes ==
  /\ pc = "parse"
  /\ NoNumber
  /\ pc' = "crashed"
  /\ UNCHANGED <<file, given, lineno, line, section, dict, errs, cfg>>

-----------------------------------------------------------------------------
\* Before anything is read.
Start ==
  /\ lineno = 0
  /\ line = <<>>
  /\ section = <<>>
  /\ dict = dictionary_new
  /\ errs = 0
  /\ pc = "open"
  /\ cfg = Fresh

Init ==
  /\ file \in Files
  /\ given \in BOOLEAN
  /\ Start

Next ==
  \/ Open
  \/ SkipLine \/ RefuseLongLine \/ ContinueLine \/ IgnoreLine
  \/ EnterSection \/ StateValue \/ CountError \/ EndOfFile
  \/ ParseOptions \/ ParseCrashes

Spec == Init /\ [][Next]_vars

-----------------------------------------------------------------------------
(* Properties *)

TypeOK ==
  /\ lineno \in 0..Len(Lines)
  /\ Len(line) < ASCIILINESZ
  /\ errs \in 0..Len(Lines)
  /\ pc \in {"open", "load", "parse", "ready", "refused", "crashed"}
  /\ DOMAIN cfg = Members

\* After every line the dictionary is coherent: its count is right, no key
\* is in two slots, each has its hash beside it, also after it has grown.
DictionaryCoherent == Coherent(dict)

\* The lines as an administrator understands them: one that ends with a
\* backslash goes on in the next, and is nothing without a next. "long" is
\* whether one of them is beyond ASCIILINESZ, with its newline and its end.
NothingRead == [done |-> <<>>, rest |-> <<>>, long |-> FALSE]

Join(was, l) ==
  LET all  == was.rest \o l
      now  == StripRight(all)
      long == was.long \/ Len(all) + 2 > ASCIILINESZ
  IN  IF GoesOn(now)
      THEN [done |-> was.done, rest |-> SubSeq(now, 1, Len(now) - 1), long |-> long]
      ELSE [done |-> Append(was.done, now), rest |-> <<>>, long |-> long]

Joined(lines) ==
  LET joined[j \in 0..Len(lines)] ==
        IF j = 0 THEN NothingRead ELSE Join(joined[j - 1], lines[j])
  IN  joined

Reading == Joined(Lines)[Len(Lines)]

\* What lines say, one by one, in the words of Means: a section, a setting,
\* nothing, or an error.
Saying(lines) == [j \in DOMAIN lines |-> Means(lines[j])]

Says == Saying(Reading.done)

\* Means is right about a line: what iniparser_line makes of it is what it
\* says to its reader, unless that is beyond Means.
ReadsAs(l) ==
  LET s == strstrip(l)
      m == Means(l)
  IN  \/ m.kind = "odd"
      \/ m.kind = "nothing" /\ (LineEmpty(s) \/ LineComment(s))
      \/ /\ m.kind = "section" /\ LineSection(s)
         /\ UpTo(Tail(s), {"]"}) # <<>> /\ SectionName(s, <<>>) = m.name
         /\ m.name \notin {e.key : e \in CFG_GEN}
      \/ m.kind = "setting" /\ LineValue(s) /\ KeyName(s) = m.name /\ Value(s) = m.value
      \/ m.kind = "error" /\ IsError(s)

FilesAreTexts == \A f \in Files : f.lines \in Seq(Seq(STRING))

LinesAreRead ==
  /\ \A f \in Files :
       LET done == Joined(f.lines)[Len(f.lines)].done
       IN  \A j \in DOMAIN done : ReadsAs(done[j])
  /\ NULL \notin {e.key : e \in CFG_GEN}

\* No line is beyond Means, and none is a single character that fgets would
\* not tell from an empty line.
Plain ==
  /\ \A j \in DOMAIN Says : Says[j].kind # "odd"
  /\ Lines # <<>> => file.newline \/ Len(Lines[Len(Lines)]) > 1

Faulty == Reading.long \/ \E j \in DOMAIN Says : Says[j].kind = "error"

Latest(places) == CHOOSE j \in places : \A m \in places : m <= j

\* The section line j belongs to.
Above(says, j) ==
  LET headers == {m \in 1..j : says[m].kind = "section"}
  IN  IF headers = {} THEN <<>> ELSE says[Latest(headers)].name

\* The lines that state an option.
States(says, e) ==
  {j \in DOMAIN says : says[j].kind = "setting"
                       /\ Above(says, j) \o <<":">> \o says[j].name = e.key}

\* The last of them states its value.
Meant(e) ==
  LET value == Says[Latest(States(Says, e))].value
      read  == CASE e.type = "STRING" -> value
                 [] e.type = "INT"    -> strtol(value)
                 [] e.type = "BOOL"   -> iniparser_getboolean(value)
  IN  IF States(Says, e) = {} \/ read = Unspecified(e) THEN e.def ELSE read

\* The program starts with what the file says and with the default for the
\* rest, whatever the order of the lines, the letters' case, blanks, comments,
\* quotes and lines that go on; and the file is used as a whole or not at
\* all: the program does not start with one that has a line that it does not
\* understand or cannot hold, and starts with every other it was told of.
SettingsAsWritten ==
  /\ TypeOK
  /\ Plain =>
    /\ pc = "ready" => ~Faulty /\ \A e \in CFG_GEN : cfg[e.var] = Meant(e)
    /\ pc = "refused" /\ given /\ file.there => Faulty

\* The dictionary is a map to which each line adds one key, or none, until
\* it is deleted.
Map == INSTANCE Settings WITH map <- AsMap(dict)

ImplementsMap == Map!Spec

=============================================================================
