-------------------------------- MODULE Cgi ---------------------------------
(***************************************************************************)
(* The CGI program, from its start to its response: a process for each     *)
(* request, which reads the query, the cookies and the form with ccgi,     *)
(* before it looks who sent them, and then does what the query asks for.   *)
(*                                                                         *)
(* A text is a sequence of characters. The head of a part of a form is one *)
(* character, with its line break: Headers says what it states.            *)
(*                                                                         *)
(* What the rest of the program does, Auth and Photohosting, is here what  *)
(* it answers; it is modelled in Auth and Albums.                          *)
(***************************************************************************)
EXTENDS CgiVars

CONSTANTS
  Requests,      \* the requests, with the forms behind them
  Headers(_),    \* a line of a head: its kind, and the names it states
  SessionUser(_),\* the user a session id belongs to, NULL for none
  Listed         \* the logins and passwords of the users file

VARIABLES
  req,                  \* the environment, the standard input and the form
  at,                   \* how far the process is
  pos,                  \* how much of the input it has read
  query_list, cookies, post_body,
  name, filename,       \* what the head of a part says
  value, out, matched,  \* copyvalue: the text so far, the file it goes to, how
                        \* much of a delimiter has been seen
  tmp,                  \* the temporary files
  lost,                 \* some of the text did not get into one
  removed,              \* those that were removed
  cgi_user, album,      \* whose session it is, and the album that is made
  fault,                \* a call has failed that need not fail
  status

part == <<pos, name, filename, value, out, matched>>
lists == <<query_list, cookies, post_body>>
cgi_vars == <<req, at, part, lists, tmp, lost, removed, cgi_user, album, fault,
              status>>

\* Before anything is read.
CgiStart ==
  /\ at = "start"
  /\ pos = 0
  /\ query_list = <<>> /\ cookies = <<>> /\ post_body = <<>>
  /\ name = NULL /\ filename = NULL
  /\ value = <<>> /\ out = 0 /\ matched = 0
  /\ tmp = <<>> /\ lost = FALSE /\ removed = {}
  /\ cgi_user = NULL /\ album = NULL
  /\ fault = FALSE
  /\ status = 0

CgiInit ==
  /\ req \in Requests
  /\ CgiStart

-----------------------------------------------------------------------------
(* The constructor *)

GetQueryAndCookies ==
  /\ at = "start"
  /\ query_list' = CGI_decode_query(req.query)
  /\ cookies' = CGI_get_cookie(req.cookie)
  /\ at' = IF req.type = "multipart" THEN "first_line" ELSE "urlencoded"
  /\ UNCHANGED <<req, part, post_body, tmp, lost, removed, cgi_user, album, fault, status>>

\* A form in one line is taken when all of it is there.
GetUrlencoded ==
  /\ at = "urlencoded"
  /\ post_body' = IF req.type = "urlencoded" /\ req.length \in 1..Len(req.body)
                  THEN CGI_decode_query(SubSeq(req.body, 1, req.length)) ELSE <<>>
  /\ at' = "routine"
  /\ UNCHANGED <<req, part, query_list, cookies, tmp, lost, removed, cgi_user, album, fault,
                 status>>

Delimit(b) == <<"CR", "LF", "-", "-">> \o b

delimiter == Delimit(req.boundary)

\* The line the input goes on with, up to a line feed or the end.
Line ==
  LET ends == {j \in (pos + 1)..Len(req.body) : req.body[j] = "LF"}
  IN  SubSeq(req.body, pos + 1,
             IF ends = {} THEN Len(req.body) ELSE CHOOSE j \in ends : \A m \in ends : j <= m)

\* A step of read_multipart, from one place of it to the next.
Moves(from, to) ==
  /\ at = from
  /\ at' = to
  /\ UNCHANGED <<req, query_list, cookies, removed, cgi_user, album, status>>

ReadFirstLine ==
  /\ Moves("first_line",
           IF Line = SubSeq(delimiter, 3, Len(delimiter)) \o <<"CR", "LF">>
           THEN "head" ELSE "routine")
  /\ pos' = pos + Len(Line)
  /\ name' = NULL /\ filename' = NULL
  /\ UNCHANGED <<value, out, matched, post_body, tmp, lost, fault>>

\* A line of the head of a part; the first name and file name count.
ReadHeader ==
  /\ Line # <<>> /\ Headers(Line).kind # "none"
  /\ Moves("head", "head")
  /\ pos' = pos + Len(Line)
  /\ LET h == Headers(Line)
     IN  /\ name' = IF name = NULL THEN h.name ELSE name
         /\ filename' = IF filename = NULL THEN h.filename ELSE filename
  /\ UNCHANGED <<value, out, matched, post_body, tmp, lost, fault>>

HeadEnds == Line = <<>> \/ Headers(Line).kind = "none"

IsBlank == Len(Line) > 1 /\ Line[1] = "CR" /\ Line[2] = "LF"

\* No blank line behind the head, or no name in it: the form is given up.
GiveUp ==
  /\ HeadEnds
  /\ name = NULL \/ ~IsBlank
  /\ Moves("head", "routine")
  /\ pos' = pos + Len(Line)
  /\ UNCHANGED <<name, filename, value, out, matched, post_body, tmp, lost, fault>>

\* A part that is a file gets a temporary file, unless its name is empty or
\* mkstemp() fails; then its data goes nowhere.
BeginPart ==
  /\ HeadEnds
  /\ name # NULL /\ IsBlank
  /\ Moves("head", "part")
  /\ pos' = pos + Len(Line)
  /\ value' = <<>> /\ matched' = 0
  /\ \/ /\ filename \notin {NULL, <<>>}
        /\ out' = Len(tmp) + 1
        /\ tmp' = Append(tmp, <<>>)
        /\ UNCHANGED fault
     \/ /\ filename \in {NULL, <<>>}
        /\ out' = 0
        /\ UNCHANGED <<tmp, fault>>
     \/ /\ filename \notin {NULL, <<>>}
        /\ out' = 0
        /\ fault' = TRUE
        /\ UNCHANGED tmp
  /\ UNCHANGED <<name, filename, post_body, lost>>

InPart ==
  /\ matched < Len(delimiter)
  /\ pos < Len(req.body)
  /\ Moves("part", "part")
  /\ pos' = pos + 1

next == req.body[pos + 1]

\* Where the text goes: to the value, to the file, or nowhere. Nothing looks
\* at what fputc() and fclose() return, so what does not get into the file, on
\* a full disk, is left out of it.
Copy(text) ==
  /\ value' = IF filename = NULL THEN value \o text ELSE value
  /\ \/ /\ tmp' = IF out # 0 THEN [tmp EXCEPT ![out] = @ \o text] ELSE tmp
        /\ UNCHANGED lost
     \/ /\ out # 0 /\ text # <<>>
        /\ lost' = TRUE
        /\ UNCHANGED tmp

Fits == next = delimiter[matched + 1]

\* Mutation: the character that ends a match is not looked at again.
CopyByteOnce ==
  /\ InPart
  /\ IF Fits THEN Copy(<<>>) /\ matched' = matched + 1
             ELSE Copy(Append(SubSeq(delimiter, 1, matched), next)) /\ matched' = 0
  /\ UNCHANGED <<name, filename, out, post_body, fault>>

\* A character that does not go on with the delimiter may begin one; what
\* had been matched is text after all.
CopyByte ==
  /\ InPart
  /\ LET again == SubSeq(delimiter, 1, matched)
     IN  CASE Fits -> Copy(<<>>) /\ matched' = matched + 1
           [] ~Fits /\ next = delimiter[1] -> Copy(again) /\ matched' = 1
           [] ~Fits /\ next # delimiter[1] -> Copy(Append(again, next)) /\ matched' = 0
  /\ UNCHANGED <<name, filename, out, post_body, fault>>

TmpName(n) == <<"tmp", n>>

\* The delimiter, or the end of the input, which is taken for one.
EndPart ==
  /\ matched = Len(delimiter) \/ pos = Len(req.body)
  /\ Moves("part", "rest")
  /\ post_body' = CASE filename = NULL -> CGI_add_var(post_body, name, value)
                    [] filename # NULL /\ out # 0 ->
                         CGI_add_var(CGI_add_var(post_body, name, TmpName(out)), name, filename)
                    [] OTHER -> post_body
  /\ UNCHANGED <<part, tmp, lost, fault>>

\* The rest of the line says whether it was the last part.
ReadRest ==
  /\ Moves("rest", IF Len(Line) > 3 /\ SubSeq(Line, 1, 4) = <<"-", "-", "CR", "LF">>
                   THEN "routine" ELSE "head")
  /\ pos' = pos + Len(Line)
  /\ name' = NULL /\ filename' = NULL
  /\ UNCHANGED <<value, out, matched, post_body, tmp, lost, fault>>

-----------------------------------------------------------------------------
(* Routine *)

query == CGI_lookup(query_list, <<"q">>)
sid_sent == CGI_lookup(cookies, <<"sid">>)

\* A step of Routine, which leaves what was read alone.
Routine(from) == at = from /\ UNCHANGED <<req, part, lists, tmp, lost>>

Respond(s) == at' = "done" /\ status' = s

Asked(method, q) == req.method = method /\ query_list # <<>> /\ query = q

\* Nothing that can be asked for.
Refuse ==
  /\ Routine("routine")
  /\ CASE req.method = NULL -> Respond(500)
       [] req.method # NULL /\ query_list = <<>> -> Respond(400)
       [] OTHER ->
            /\ <<req.method, query>> \notin
                 {<<"GET", <<"list_users">>>>, <<"GET", <<"list_albums">>>>,
                  <<"POST", <<"upload_photos">>>>, <<"POST", <<"login">>>>,
                  <<"POST", <<"logout">>>>}
            /\ Respond(404)
  /\ UNCHANGED <<removed, cgi_user, album, fault>>

\* The directory of the users, or of the albums of one, may not be read.
List ==
  /\ Routine("routine")
  /\ \/ Asked("GET", <<"list_users">>) /\ \E s \in {200, 500} : Respond(s)
     \/ /\ Asked("GET", <<"list_albums">>)
        /\ IF CGI_lookup(query_list, <<"user">>) = NULL THEN Respond(404)
           ELSE \E s \in {200, 404, 500} : Respond(s)
  /\ UNCHANGED <<removed, cgi_user, album, fault>>

\* GetUserBySession: a cookie of nothing has no user; the token may not be
\* readable.
NoUser == sid_sent \in {NULL, <<>>} \/ SessionUser(sid_sent) = NULL

FindUser ==
  /\ Routine("routine")
  /\ \/ Asked("POST", <<"upload_photos">>) \/ Asked("POST", <<"logout">>)
  /\ \/ /\ NoUser
        /\ Respond(IF query = <<"logout">> THEN 400 ELSE 403)
        /\ UNCHANGED <<cgi_user, fault>>
     \/ /\ ~NoUser
        /\ cgi_user' = SessionUser(sid_sent)
        /\ at' = query[1]
        /\ UNCHANGED <<fault, status>>
     \/ /\ sid_sent \notin {NULL, <<>>}
        /\ fault' = TRUE
        /\ Respond(500)
        /\ UNCHANGED cgi_user
  /\ UNCHANGED <<removed, album>>

archive == CGI_lookup(post_body, <<"file">>)
title == CGI_lookup(post_body, <<"title">>)

IsTmp(path) == \E n \in DOMAIN tmp : path = TmpName(n)

\* CreateWebAlbum, and what CreateAlbum answers; the archive goes in either
\* case.
Upload ==
  /\ Routine("upload_photos")
  /\ IF archive = NULL \/ title = NULL
     THEN Respond(400) /\ UNCHANGED <<removed, album, fault>>
     ELSE /\ album' = [user |-> cgi_user, title |-> title,
                       file |-> IF IsTmp(archive) THEN tmp[archive[2]] ELSE NULL]
          /\ removed' \in {removed, removed \cup {archive}}
          /\ \E s \in {303, 400, 500, 507} : Respond(s) /\ fault' = (fault \/ s # 303)
  /\ UNCHANGED cgi_user

Login ==
  /\ Routine("routine")
  /\ Asked("POST", <<"login">>)
  /\ LET login    == CGI_lookup(post_body, <<"login">>)
         password == CGI_lookup(post_body, <<"password">>)
     IN  \/ <<login, password>> \in Listed /\ Respond(200) /\ cgi_user' = login /\ UNCHANGED fault
         \/ <<login, password>> \in Listed /\ Respond(500) /\ fault' = TRUE /\ UNCHANGED cgi_user
         \/ <<login, password>> \notin Listed /\ Respond(400) /\ UNCHANGED <<cgi_user, fault>>
  /\ UNCHANGED <<removed, album>>

\* The token is removed, or cannot be.
Logout ==
  /\ Routine("logout")
  /\ \/ Respond(200) /\ UNCHANGED fault
     \/ Respond(500) /\ fault' = TRUE
  /\ UNCHANGED <<removed, cgi_user, album>>

-----------------------------------------------------------------------------
CgiNext ==
  \/ GetQueryAndCookies \/ GetUrlencoded
  \/ ReadFirstLine \/ ReadHeader \/ GiveUp \/ BeginPart \/ CopyByte \/ EndPart \/ ReadRest
  \/ Refuse \/ List \/ FindUser \/ Upload \/ Login \/ Logout

CgiSpec == CgiInit /\ [][CgiNext]_cgi_vars

-----------------------------------------------------------------------------
(* The requests *)

\* A line, with its end.
IsLine(s) ==
  /\ s \in Seq(STRING) /\ s # <<>>
  /\ \A j \in DOMAIN s : s[j] = "LF" <=> j = Len(s)

\* The delimiter of a form does not occur in a text.
IsApart(s, b) ==
  \A k \in 0..(Len(s) - Len(Delimit(b))) :
    \E j \in 1..Len(Delimit(b)) : s[k + j] # Delimit(b)[j]

\* The form of the page as a browser sends it: the archive, then its title.
\* Without an archive its part is there all the same, and empty.
Page(r) ==
  LET first == <<"-", "-">> \o r.boundary \o <<"CR", "LF">>
      heads == r.sent.heads
      file  == IF r.sent.file = NULL THEN <<>> ELSE r.sent.file
  IN  first \o heads[1] \o heads[2] \o <<"CR", "LF">> \o file \o Delimit(r.boundary)
        \o <<"CR", "LF">> \o heads[3] \o <<"CR", "LF">> \o r.sent.title \o Delimit(r.boundary)
        \o <<"-", "-", "CR", "LF">>

\* The body is this form or, when it breaks off, the beginning of it.
IsPage(r) ==
  /\ r.boundary \in Seq(STRING)
  /\ \A j \in DOMAIN r.boundary : r.boundary[j] \notin {"CR", "LF"}
  /\ r.sent.title \in Seq(STRING) /\ IsApart(r.sent.title, r.boundary)
  /\ r.sent.file # NULL => r.sent.file \in Seq(STRING) /\ IsApart(r.sent.file, r.boundary)
  /\ \A n \in 1..3 : IsLine(r.sent.heads[n]) /\ Headers(r.sent.heads[n]).kind # "none"
  /\ LET h == Headers(r.sent.heads[1])
     IN  h.name = <<"file">> /\ h.filename # NULL /\ (h.filename = <<>> <=> r.sent.file = NULL)
  /\ LET h == Headers(r.sent.heads[3]) IN h.name = <<"title">> /\ h.filename = NULL
  /\ IF r.sent.whole THEN r.body = Page(r)
     ELSE \E n \in 0..Len(Page(r)) : r.body = SubSeq(Page(r), 1, n)

\* No line of a form that is not from the page, and no field of a query,
\* states a title.
HasNoTitle(r) ==
  /\ r.type = "multipart" =>
       \A j, k \in 1..Len(r.body) :
         LET h == Headers(SubSeq(r.body, j, k)) IN h.kind # "none" => h.name # <<"title">>
  /\ r.type = "urlencoded" /\ r.length \in 1..Len(r.body) =>
       CGI_lookup(CGI_decode_query(SubSeq(r.body, 1, r.length)), <<"title">>) = NULL

\* And NULL is no text, and no name of a file.
RequestsAreSound ==
  /\ {"title", "file", "tmp"} \subseteq STRING
  /\ NULL \notin Seq(STRING \cup Nat)
  /\ Headers(<<"CR", "LF">>).kind = "none"
  /\ \A r \in Requests :
       /\ r.body \in Seq(STRING)
       /\ IF r.sent.heads # <<>> THEN r.type = "multipart" /\ IsPage(r)
          ELSE r.sent.file = NULL /\ HasNoTitle(r)

ASSUME CgiAssumption == RequestsAreSound

-----------------------------------------------------------------------------
(* Properties *)

\* An album is made of what was sent in the form of the page: of all of the
\* archive, byte by byte, whatever the archive looks like, unless some of it
\* could not be written, which nobody is told; and also when the form breaks
\* off, because the title comes behind the archive and has to be there; only of
\* the title there may be less. And a form that arrived whole is refused for a
\* reason.
AlbumAsSent ==
  /\ album # NULL =>
       /\ album.file = req.sent.file \/ lost
       /\ IF req.sent.whole THEN album.title = req.sent.title
                            ELSE StartsWith(req.sent.title, album.title)
  /\ status = 400 /\ cgi_user # NULL /\ query = <<"upload_photos">> =>
       ~req.sent.whole \/ req.sent.file = NULL \/ fault

=============================================================================
