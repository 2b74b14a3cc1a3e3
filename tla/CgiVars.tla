------------------------------ MODULE CgiVars -------------------------------
(***************************************************************************)
(* What ccgi makes of the text of a query and of a cookie: a list of       *)
(* names, each with its values in the order they came in.                  *)
(*                                                                         *)
(* A text is a sequence of characters; an escape, %xx or "+", is one.      *)
(***************************************************************************)
EXTENDS Texts

CONSTANT Decode(_)  \* what a character, an escape among them, stands for

\* The place of a name in a list, 0 when it is not there.
findvar(v, name) ==
  LET there == {j \in DOMAIN v : v[j].name = name}
  IN  IF there = {} THEN 0 ELSE CHOOSE j \in there : TRUE

CGI_add_var(v, name, value) ==
  LET j == findvar(v, name)
  IN  IF j = 0 THEN Append(v, [name |-> name, values |-> <<value>>])
      ELSE [v EXCEPT ![j].values = Append(@, value)]

CGI_lookup(v, name) ==
  LET j == findvar(v, name) IN IF j = 0 THEN NULL ELSE v[j].values[1]

-----------------------------------------------------------------------------
(* name=value&name=value *)

\* The end of a field: one without "=" has no value, one of nothing is none.
EndField(s) ==
  [vars |-> CASE s.name # NULL -> CGI_add_var(s.vars, s.name, s.buf)
              [] s.name = NULL /\ s.buf # <<>> -> CGI_add_var(s.vars, s.buf, <<>>)
              [] OTHER -> s.vars,
   name |-> NULL, buf |-> <<>>]

\* One character. The "=" that counts is the first behind something.
Scan(s, c) ==
  CASE c = "&" -> EndField(s)
    [] c = "=" /\ s.name = NULL /\ s.buf # <<>> -> [s EXCEPT !.name = s.buf, !.buf = <<>>]
    [] c = "=" /\ s.name = NULL /\ s.buf = <<>> -> s
    [] OTHER -> [s EXCEPT !.buf = Append(@, Decode(c))]

CGI_decode_query(query) ==
  LET scanned[n \in 0..Len(query)] ==
        IF n = 0 THEN [vars |-> <<>>, name |-> NULL, buf |-> <<>>]
        ELSE Scan(scanned[n - 1], query[n])
  IN  EndField(scanned[Len(query)]).vars

-----------------------------------------------------------------------------
(* name=value; name="value" *)

Blanks == {"SP", "TAB"}

WithoutBlanks(s) ==
  IF s = <<>> \/ s[1] \notin Blanks THEN s
  ELSE From(s, CHOOSE j \in 1..(Len(s) + 1) :
                 (j <= Len(s) => s[j] \notin Blanks) /\ \A m \in 1..(j - 1) : s[m] \in Blanks)

Quotes == {"dq", "sq", "bq"}  \* ", ' and `

\* The attribute that a text begins with, and the rest of the text; a name
\* without "=", an empty name or a quote that does not end is none.
scanattr(text) ==
  LET s      == WithoutBlanks(text)
      attr   == UpTo(s, {"="})
      v      == After(s, "=")
      quoted == v # <<>> /\ v[1] \in Quotes
      value  == IF quoted THEN UpTo(Tail(v), {v[1]}) ELSE UpTo(v, Blanks \cup {"SEMI", "CR", "LF"})
      rest   == From(v, Len(value) + IF quoted THEN 3 ELSE 2)
  IN  [ok |-> attr \notin {<<>>, s} /\ (quoted => value # Tail(v)),
       name |-> attr, value |-> value,
       rest |-> IF quoted /\ rest # <<>> /\ rest[1] = "SEMI" THEN Tail(rest) ELSE rest]

\* Attributes are taken until one is none.
CGI_get_cookie(text) ==
  LET taken[n \in 0..Len(text)] ==
        IF n = 0 THEN [vars |-> <<>>, text |-> text]
        ELSE LET t == taken[n - 1]
                 a == scanattr(t.text)
             IN  IF ~a.ok THEN t
                 ELSE [vars |-> CGI_add_var(t.vars, a.name, a.value), text |-> a.rest]
  IN  IF text = NULL THEN <<>> ELSE taken[Len(text)].vars

=============================================================================
