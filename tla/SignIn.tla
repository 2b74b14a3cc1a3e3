------------------------------- MODULE SignIn -------------------------------
(***************************************************************************)
(* Who may sign in: Auth::Init reads the users file when a process starts, *)
(* and a login form, or the session cookie of a later request, is read by  *)
(* the server with its own few lines, or by the CGI program with ccgi.     *)
(*                                                                         *)
(* The letters of "login", "password" and "sid" are one character wherever *)
(* they stand in a row, also in a longer word: connect.sid is two.         *)
(***************************************************************************)
EXTENDS CgiVars, FiniteSets

CONSTANTS
  UsersFiles,  \* the texts path_to_pwd may have, NULL for no file
  LoginForms,  \* the forms sent to log in: the text, and what was filled in
  Cookies,     \* the Cookie headers of requests, and the session id in them
  Alnum,       \* the characters isalnum() is true of
  BufLen       \* the room for a word of the users file: 256 in the code

VARIABLES
  users_file,
  step,        \* where Auth::Init is, or what the request was
  read,        \* how much of the file has been read
  login,       \* the login of the line that is being read
  users_list,  \* pairs of a login and a password
  reader,      \* the program: "server" or "cgi"
  sent,        \* the form or the cookie that came
  answer,      \* the response to the form
  session,     \* the session id in the cookie
  failing      \* a call has failed that need not fail

sign_in_vars == <<users_file, step, read, login, users_list, reader, sent, answer, session, failing>>

\* Before anything is read.
SignInStart ==
  /\ step = "tokens"
  /\ read = 0
  /\ login = NULL
  /\ users_list = <<>>
  /\ sent = NULL
  /\ answer = 0
  /\ session = NULL
  /\ failing = FALSE

SignInInit ==
  /\ users_file \in UsersFiles
  /\ reader \in {"server", "cgi"}
  /\ SignInStart

-----------------------------------------------------------------------------
(* Auth::Init *)

\* The directory of the tokens is there, or is made, or cannot be made.
MakeTokens ==
  /\ step = "tokens"
  /\ \/ step' = "open" /\ UNCHANGED failing
     \/ step' = "failed" /\ failing' = TRUE
  /\ UNCHANGED <<users_file, read, login, users_list, reader, sent, answer, session>>

\* Without a file nobody can sign in.
OpenUsers ==
  /\ step = "open"
  /\ step' = IF users_file = NULL THEN "ready" ELSE "line"
  /\ UNCHANGED <<users_file, read, login, users_list, reader, sent, answer, session, failing>>

\* The letters and digits from a place on.
Word(s) == UpTo(s, {s[j] : j \in DOMAIN s} \ Alnum)

Rest == From(users_file, read + 1)

EndsWith(ch) == Len(Word(Rest)) < Len(Rest) /\ Rest[Len(Word(Rest)) + 1] = ch

CheckEof ==
  /\ step = "line"
  /\ step' = IF Rest = <<>> THEN "ready" ELSE "login"
  /\ UNCHANGED <<users_file, read, login, users_list, reader, sent, answer, session, failing>>

\* Nothing looks whether a word fits. When it does not, the characters behind
\* the buffer's end go where its index is, and the model ends: whatever the
\* program does then is nothing that the code says.
Overrun == Len(Word(Rest)) > BufLen

\* A word with a blank behind it, or the file is refused.
ParseLogin ==
  /\ step = "login"
  /\ \/ Overrun /\ step' = "undefined" /\ UNCHANGED <<login, read>>
     \/ /\ ~Overrun /\ EndsWith("SP")
        /\ login' = Word(Rest)
        /\ read' = read + Len(Word(Rest)) + 1
        /\ step' = "password"
     \/ ~Overrun /\ ~EndsWith("SP") /\ step' = "failed" /\ UNCHANGED <<login, read>>
  /\ UNCHANGED <<users_file, users_list, reader, sent, answer, session, failing>>

\* Mutation: the list keeps its first node and the one that came last.
UsersAppendShort(list, user) ==
  IF Len(list) < 2 THEN Append(list, user) ELSE <<list[1], user>>

UsersAppend(list, user) == Append(list, user)

\* A word with a line feed behind it, also in the last line.
ParsePassword ==
  /\ step = "password"
  /\ \/ Overrun /\ step' = "undefined" /\ UNCHANGED <<users_list, read>>
     \/ /\ ~Overrun /\ EndsWith("LF")
        /\ users_list' = UsersAppend(users_list, <<login, Word(Rest)>>)
        /\ read' = read + Len(Word(Rest)) + 1
        /\ step' = "line"
     \/ ~Overrun /\ ~EndsWith("LF") /\ step' = "failed" /\ UNCHANGED <<users_list, read>>
  /\ UNCHANGED <<users_file, login, reader, sent, answer, session, failing>>

Check(user) == \E j \in DOMAIN users_list : users_list[j] = user

-----------------------------------------------------------------------------
(* Requests *)

\* Where strstr() finds a name and an "=", also as the end of a longer name.
Matches(name, s) == {j \in 1..(Len(s) - 1) : s[j] = name /\ s[j + 1] = "="}

\* The word behind the first of these places.
WordAfter(name, s) ==
  LET places == Matches(name, s)
  IN  IF places = {} THEN NULL
      ELSE Word(From(s, (CHOOSE j \in places : \A m \in places : j <= m) + 2))

ParseLoginFromReq(body) == WordAfter("login", body)
ParsePasswordFromReq(body) == WordAfter("password", body)
ParseCookie(value) == WordAfter("sid", value)

\* What each program takes for the login and the password, and for the
\* session id.
UserIn(body) ==
  IF reader = "server" THEN <<ParseLoginFromReq(body), ParsePasswordFromReq(body)>>
  ELSE LET post_body == CGI_decode_query(body)
       IN  <<CGI_lookup(post_body, <<"login">>), CGI_lookup(post_body, <<"password">>)>>

SidIn(value) ==
  IF reader = "server" THEN ParseCookie(value)
  ELSE CGI_lookup(CGI_get_cookie(value), <<"sid">>)

\* ProcessLogin, of either program: Authorise may not be able to make a
\* session.
ProcessLogin ==
  /\ step = "ready"
  /\ sent' \in LoginForms
  /\ step' = "form"
  /\ LET user == UserIn(sent'.text)
     IN  IF NULL \notin {user[1], user[2]} /\ Check(user)
         THEN answer' \in {200, 500} ELSE answer' = 400
  /\ failing' = (answer' = 500)
  /\ UNCHANGED <<users_file, read, login, users_list, reader, session>>

ReadCookie ==
  /\ step = "ready"
  /\ sent' \in Cookies
  /\ step' = "cookie"
  /\ session' = SidIn(sent'.text)
  /\ UNCHANGED <<users_file, read, login, users_list, reader, answer, failing>>

-----------------------------------------------------------------------------
StartUp == MakeTokens \/ OpenUsers \/ CheckEof \/ ParseLogin \/ ParsePassword

SignInNext == StartUp \/ ProcessLogin \/ ReadCookie

SignInSpec == SignInInit /\ [][SignInNext]_sign_in_vars

-----------------------------------------------------------------------------
(* What comes *)

IsWord(s) == \A j \in DOMAIN s : s[j] \in Alnum

\* What is between two places of a text.
Between(s, p, q, v) == p + Len(v) = q - 1 /\ SubSeq(s, p + 1, q - 1) = v

\* Where a field of a form begins, and where a cookie does, behind "; ".
FieldStarts(s) == {j \in DOMAIN s : j = 1 \/ s[j - 1] = "&"}
CookieStarts(s) == {j \in DOMAIN s : j = 1 \/ (j > 2 /\ s[j - 2] = "SEMI")}

\* The fields of a form whose names begin with a name.
Fields(name, s) == {j \in FieldStarts(s) : s[j] = name}

\* A form has a field of a name, and its value.
FilledIn(s, name, v) ==
  \E p, q \in 1..(Len(s) + 1) :
    /\ Fields(name, s) = {p}
    /\ s[p + 1] = "=" /\ Between(s, p + 1, q, v)
    /\ q = Len(s) + 1 \/ s[q] = "&"
    /\ \A j \in DOMAIN v : v[j] # "&"

LoginFields == {"login", "password"}

\* Every field has a name. What is escaped stands for a character, and for no
\* letter or digit.
FormsAreFilledIn ==
  \A f \in LoginForms :
    /\ f.text \in Seq(STRING) /\ f.login \in Seq(STRING) /\ f.password \in Seq(STRING)
    /\ \/ FilledIn(f.text, "login", f.login) /\ FilledIn(f.text, "password", f.password)
       \/ /\ \E name \in LoginFields : Fields(name, f.text) = {}
          /\ ~IsWord(f.login) \/ ~IsWord(f.password)
    /\ \A j \in FieldStarts(f.text) : f.text[j] # "="
    /\ \A j \in DOMAIN f.text :
         /\ Decode(f.text[j]) \in STRING
         /\ IF f.text[j] \in Alnum THEN Decode(f.text[j]) = f.text[j]
            ELSE Decode(f.text[j]) \notin Alnum

\* Every cookie has a name, and its first "=" behind it.
CookiesAreSent ==
  \A f \in Cookies :
    LET s == f.text
    IN  /\ s \in Seq(STRING)
        /\ \A j \in DOMAIN s :
             /\ s[j] \notin {"TAB", "CR", "LF"}
             /\ s[j] = "SEMI" => j + 2 \in DOMAIN s
             /\ s[j] = "SP" <=> j > 1 /\ s[j - 1] = "SEMI"
        /\ \A j \in CookieStarts(s) :
             /\ s[j] # "="
             /\ \E e \in j..Len(s) : s[e] = "=" /\ \A m \in j..e : s[m] # "SEMI"
        /\ IF f.sid = NULL THEN Matches("sid", s) \cap CookieStarts(s) = {}
           ELSE /\ f.sid \in Seq(STRING) /\ IsWord(f.sid)
                /\ \E p, q \in 1..(Len(s) + 1) :
                     /\ Matches("sid", s) \cap CookieStarts(s) = {p}
                     /\ Between(s, p + 1, q, f.sid)
                     /\ q = Len(s) + 1 \/ s[q] = "SEMI"

\* The names are letters, and the marks that texts are made of are no letters
\* or digits. A users file, if there is one, is a text.
TextsAreSound ==
  /\ LoginFields \cup {"sid"} \subseteq Alnum
  /\ Alnum \cap ({"LF", "CR", "&", "=", "SEMI"} \cup Blanks \cup Quotes) = {}
  /\ LoginFields \cup {"sid"} \subseteq STRING
  /\ NULL \notin Seq(STRING)
  /\ \A s \in UsersFiles : s = NULL \/ s \in Seq(STRING)

ASSUME SignInAssumption ==
  FormsAreFilledIn /\ CookiesAreSent /\ TextsAreSound /\ BufLen \in Nat

-----------------------------------------------------------------------------
(* Properties *)

\* The last character in front of a place that is no letter or digit is a
\* blank.
BehindBlank(j) ==
  \E m \in 1..(j - 1) :
    users_file[m] = "SP" /\ \A q \in (m + 1)..(j - 1) : users_file[q] \in Alnum

\* Lines of a login, a blank, a password and a line feed.
WellWritten ==
  /\ \A j \in DOMAIN users_file :
       users_file[j] \notin Alnum => users_file[j] = IF BehindBlank(j) THEN "LF" ELSE "SP"
  /\ users_file = <<>> \/ users_file[Len(users_file)] = "LF"

LineFeeds(n) == {j \in 1..n : users_file[j] = "LF"}

Written(user) == user[1] \o <<"SP">> \o user[2] \o <<"LF">>

\* The first n characters are the list, each user in a line.
ListedUpTo(n) ==
  /\ Len(users_list) = Cardinality(LineFeeds(n))
  /\ \A j \in LineFeeds(n) :
       LET line  == Written(users_list[Cardinality(LineFeeds(j))])
           start == j - Len(line)
       IN  /\ start = 0 \/ start \in LineFeeds(n)
           /\ SubSeq(users_file, start + 1, j) = line

\* A word of the file does not fit.
HasLongWord ==
  \E j \in 1..Len(users_file) :
    j + BufLen <= Len(users_file) /\ \A m \in j..(j + BufLen) : users_file[m] \in Alnum

\* The users file is taken as it was written or not at all: the program goes
\* on exactly when all of the file is well written, and then its list, written
\* out again line by line, is the file. Only a word that does not fit takes it
\* anywhere else.
UsersAsWritten ==
  /\ users_file # NULL /\ step \in {"ready", "form", "cookie"} =>
       WellWritten /\ ListedUpTo(Len(users_file))
  /\ step = "failed" => failing \/ ~WellWritten
  /\ step = "undefined" => HasLongWord

\* A longer name that ends with this one, or a value, has it and an "=" behind
\* it in front of the field or cookie itself.
Misled(name, s, starts) ==
  \E j \in Matches(name, s) : \A m \in Matches(name, s) \cap starts : j < m

\* The server takes a part of some other field for the login or the password.
FormMisleads ==
  reader = "server" /\ \E name \in LoginFields : Misled(name, sent.text, FieldStarts(sent.text))

\* Who fills in letters and digits is signed in exactly when a line of the
\* file says so, in whatever order the fields come, by the server as by the
\* CGI program. They differ when something else is filled in: the CGI program
\* turns it down, for the server it ends a word, and the words in front of it
\* may be a user's. And they differ when a field whose name ends with "login"
\* or "password" stands in front of that one: the server is misled.
LoginAsListed ==
  step = "form" /\ ~FormMisleads =>
    IF IsWord(sent.login) /\ IsWord(sent.password)
    THEN answer = 400 <=> users_file = NULL \/ ~Check(<<sent.login, sent.password>>)
    ELSE answer # 400 =>
           /\ reader = "server"
           /\ \E j \in DOMAIN users_list :
                /\ StartsWith(sent.login, users_list[j][1])
                /\ StartsWith(sent.password, users_list[j][2])

\* Another cookie's name or value has "sid=" in it, for the server; some value
\* begins with a quote, for the CGI program, to which a ";" in quotes ends
\* nothing.
CookieMisleads ==
  IF reader = "server" THEN Misled("sid", sent.text, CookieStarts(sent.text))
  ELSE \E j \in 2..Len(sent.text) : sent.text[j - 1] = "=" /\ sent.text[j] \in Quotes

\* Both find the session id that a browser sends among its other cookies, each
\* unless those mislead it in its own way.
CookieAsSent == step = "cookie" /\ ~CookieMisleads => session = sent.sid

\* Those sign in whom the users file names.
SignInAsListed == UsersAsWritten /\ LoginAsListed /\ CookieAsSent

=============================================================================
