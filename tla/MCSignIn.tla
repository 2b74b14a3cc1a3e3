------------------------------ MODULE MCSignIn ------------------------------
(***************************************************************************)
(* What is read by SignIn, for TLC.                                        *)
(***************************************************************************)
EXTENDS Texts

LOCAL INSTANCE SequencesExt

LettersAndDigits == {"a", "b", "1", "2", "login", "password", "sid"}

\* Every users file of up to five characters, and longer ones.
AllUsersFiles ==
  {NULL} \cup SeqOf({"a", "1", "SP", "LF"}, 5) \cup
  {<<"a", "SP", "1", "LF", "b", "SP", "2", "LF">>,
   <<"a", "SP", "1", "LF", "b", "SP", "2", "LF", "b", "SP", "1", "LF">>,
   <<"a", "SP", "1", "LF", "b", "SP", "2", "LF", "a", "b", "SP", "1", "2", "LF", "a", "SP", "LF">>,
   <<"a", "SP", "1", "LF", "b", "SP", "2", "LF", "a", "b", "SP", "1", "2">>,
   <<"a", "SP", "1", "LF", "LF", "b", "SP", "2", "LF">>,
   <<"a", "SP", "1", "!", "LF">>}

\* What may be filled in; "%21" and "+" are escapes.
LOCAL Logins == {<<>>, <<"a">>, <<"b">>, <<"a", "b">>, <<"a", "%21">>, <<"b", "+", "b">>}
LOCAL Passwords == {<<>>, <<"1">>, <<"2">>, <<"1", "2">>, <<"1", "%21">>}

LOCAL FilledIn(l, p, s) == [login |-> l, password |-> p, text |-> s]
LOCAL LoginField(l) == <<"login", "=">> \o l
LOCAL PasswordField(p) == <<"password", "=">> \o p

\* The form of the page, its fields in another order, with another field in
\* front, whose name may end with one of theirs; and forms no page sends,
\* without one of them.
AllLoginForms ==
  UNION {{FilledIn(l, p, LoginField(l) \o <<"&">> \o PasswordField(p)),
          FilledIn(l, p, PasswordField(p) \o <<"&">> \o LoginField(l)),
          FilledIn(l, p, <<"x", "=", "&">> \o LoginField(l) \o <<"&">> \o PasswordField(p)),
          FilledIn(l, p, <<"x", "login", "=", "b", "&">> \o LoginField(l) \o <<"&">> \o
                         PasswordField(p)),
          FilledIn(l, p, LoginField(l) \o <<"&">> \o PasswordField(p) \o
                         <<"&", "x", "password", "=", "2">>)} :
           l \in Logins, p \in Passwords} \cup
  {FilledIn(<<"%21">>, <<"%21">>, s) :
     s \in {<<>>, <<"login", "=", "a">>, <<"x", "login", "=", "a", "&", "password", "=", "1">>,
             <<"password", "=", "1">>, <<"login", "=", "&">>}}

LOCAL Cookie(n, v) == <<n, "=">> \o v
LOCAL Behind == <<"SEMI", "SP">>

\* A browser's cookies: the session id alone, before and behind others, and
\* after signing out; none, and other ones. Names of others may end with its
\* name, and values may have "=", its name and quotes in them.
AllCookies ==
  UNION {{[sid |-> v, text |-> Cookie("sid", v)],
          [sid |-> v, text |-> Cookie("x", <<"1">>) \o Behind \o Cookie("sid", v)],
          [sid |-> v, text |-> Cookie("x", <<"sid">>) \o Behind \o Cookie("sid", v)],
          [sid |-> v, text |-> Cookie("x", <<"1", "=", "sid">>) \o Behind \o Cookie("sid", v)],
          [sid |-> v, text |-> Cookie("x", <<"sid", "=", "2">>) \o Behind \o Cookie("sid", v)],
          [sid |-> v, text |-> <<"x">> \o Cookie("sid", <<"2">>) \o Behind \o Cookie("sid", v)],
          [sid |-> v, text |-> Cookie("sid", v) \o Behind \o <<"x">> \o Cookie("sid", <<"2">>)],
          [sid |-> v, text |-> <<"sid">> \o Cookie("x", <<"2">>) \o Behind \o Cookie("sid", v)],
          [sid |-> v, text |-> Cookie("x", <<"sq", "a">>) \o Behind \o Cookie("sid", v)],
          [sid |-> v, text |-> Cookie("x", <<"a", "bq">>) \o Behind \o Cookie("sid", v)],
          [sid |-> v, text |-> Cookie("sid", v) \o Behind \o Cookie("x", <<"2">>)]} :
           v \in {<<>>, <<"1">>, <<"a", "1">>}} \cup
  {[sid |-> NULL, text |-> Cookie("x", <<"1">>)], [sid |-> NULL, text |-> <<>>],
   [sid |-> NULL, text |-> <<"x">> \o Cookie("sid", <<"1">>)]}

=============================================================================
