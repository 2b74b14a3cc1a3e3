------------------------------- MODULE MCCgi --------------------------------
(***************************************************************************)
(* The requests the CGI program reads, for TLC.                            *)
(***************************************************************************)
EXTENDS Texts

LOCAL INSTANCE SequencesExt

Escaped(ch) == CASE ch = "+" -> "SP" [] ch = "%21" -> "!" [] OTHER -> ch

LOCAL HeadFile == <<"Disposition file", "CR", "LF">>
LOCAL HeadNoFile == <<"Disposition no file", "CR", "LF">>
LOCAL HeadTitle == <<"Disposition title", "CR", "LF">>
LOCAL HeadType == <<"Type", "CR", "LF">>

\* The head of a field without a file name states none.
HeadOf(line) ==
  CASE line = HeadFile -> [kind |-> "disposition", name |-> <<"file">>, filename |-> <<"n">>]
    [] line = HeadNoFile -> [kind |-> "disposition", name |-> <<"file">>, filename |-> <<>>]
    [] line = HeadTitle -> [kind |-> "disposition", name |-> <<"title">>, filename |-> NULL]
    [] line = HeadType -> [kind |-> "other", name |-> NULL, filename |-> NULL]
    [] OTHER -> [kind |-> "none"]

UserOf(s) == CASE s = <<"1">> -> <<"a">> [] OTHER -> NULL

Users == {<<<<"a">>, <<"1">>>>}

LOCAL Request(method, q, cookie, type, body, sent) ==
  [method |-> method, query |-> q, cookie |-> cookie, type |-> type,
   boundary |-> <<"-", "b">>, length |-> Len(body), body |-> body, sent |-> sent]

LOCAL Sent(heads, file, title, whole) ==
  [heads |-> heads, file |-> file, title |-> title, whole |-> whole]

LOCAL Nothing == Sent(<<>>, NULL, <<>>, TRUE)

LOCAL Ask(q) == <<"q", "=", q>>
LOCAL SignedIn == <<"x", "=", "dq", "SEMI", "dq", "SEMI", "SP", "sid", "=", "1">>

\* Everything but an upload.
LOCAL OtherRequests ==
  {Request(m, q, <<"sid", "=", "1">>, "none", <<>>, Nothing) :
     m \in {NULL, "GET", "POST", "HEAD"},
     q \in {<<>>, <<"&", "=", "q">>, <<"x", "=", "1">>, Ask("login"), Ask("logout"),
            Ask("list_users"), Ask("list_albums"),
            Ask("list_albums") \o <<"&", "user", "=", "a">>}} \cup
  {Request("POST", Ask(q), cookie, "none", <<>>, Nothing) :
     q \in {"logout", "upload_photos"},
     cookie \in {NULL, <<"sid", "=">>, <<"sid">>, <<"sid", "=", "dq", "1">>, <<"=", "1">>,
                 <<"sid", "=", "2", "SEMI", "sid", "=", "1">>, SignedIn}} \cup
  {[Request("POST", Ask("login"), NULL, type, form, Nothing) EXCEPT !.length = @ + more] :
     type \in {"urlencoded", "none"}, more \in {0, 1, -1},
     form \in {<<"login", "=", "a", "&", "password", "=", "1">>,
               <<"login", "=", "a", "&", "password", "=", "1", "=">>,
               <<"password", "=", "1">>}}

LOCAL PageHeads(head) == <<head, HeadType, HeadTitle>>

\* The form of the page, for a boundary: the archive, then its title.
LOCAL PageForm(b, head, file, title) ==
  LET dashes == <<"-", "-">> \o b
      break  == <<"CR", "LF">>
  IN  dashes \o break \o head \o HeadType \o break \o file \o break \o dashes \o break
        \o HeadTitle \o break \o title \o break \o dashes \o <<"-", "-">> \o break

LOCAL Post(cookie, body, sent) == Request("POST", Ask("upload_photos"), cookie, "multipart", body, sent)

LOCAL Archives == SeqOf({"CR", "LF", "-", "b"}, 4)

LOCAL WholeForm(cookie, f, t) ==
  Post(cookie, PageForm(<<"-", "b">>, HeadFile, f, t), Sent(PageHeads(HeadFile), f, t, TRUE))

LOCAL WholeForms ==
  {WholeForm(SignedIn, f, t) :
     f \in Archives, t \in {<<>>, <<"CR", "CR">>, <<"CR", "LF", "-">>}} \cup
  {WholeForm(NULL, f, <<"b">>) : f \in {<<>>, <<"b">>}} \cup
  {Post(SignedIn, PageForm(<<"-", "b">>, HeadNoFile, <<>>, <<"b">>),
        Sent(PageHeads(HeadNoFile), NULL, <<"b">>, TRUE))}

\* Forms that break off.
LOCAL BrokenForms ==
  {Post(SignedIn, SubSeq(PageForm(<<"-", "b">>, HeadFile, f, t), 1, n),
        Sent(PageHeads(HeadFile), f, t, FALSE)) :
     f \in SeqOf({"CR", "b"}, 2), t \in {<<"b", "CR">>, <<"CR", "LF", "-", "b">>}, n \in 0..34}

\* Forms that are not what they should be, none of which states a title.
LOCAL OddForms ==
  {Post(SignedIn, body, [Nothing EXCEPT !.whole = FALSE]) :
     body \in {<<"-", "-", "CR", "LF">>,
               <<"-", "-", "-", "b", "CR", "LF">> \o HeadType \o <<"CR", "LF">>,
               <<"-", "-", "-", "b", "CR", "LF">> \o HeadFile \o <<"x", "LF">>}}

OneRequest == Request(NULL, <<>>, NULL, "none", <<>>, Nothing)

AllRequests == OtherRequests \cup WholeForms \cup BrokenForms \cup OddForms

=============================================================================
