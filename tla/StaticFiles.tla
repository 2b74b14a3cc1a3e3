---------------------------- MODULE StaticFiles ----------------------------
(***************************************************************************)
(* A page under /static, the program that writes it, and a browser that    *)
(* keeps a copy and asks later whether the copy is still good.             *)
(*                                                                         *)
(* ProcessStatic asks for the time of the last change (stat), compares it  *)
(* with the date that the browser sends, and only then opens, measures and *)
(* reads the file. Meanwhile another process writes: the album library, or *)
(* who puts the pages there. Dates are whole seconds.                      *)
(*                                                                         *)
(* Nothing in the repository removes a page. A page is its text and how    *)
(* much of it there is: a program that writes begins with another text at  *)
(* length 0 and appends.                                                   *)
(***************************************************************************)
EXTENDS Integers

CONSTANTS MaxTime, MaxText, MaxLength  \* bounds

VARIABLES
  now,        \* the second it is
  page,       \* the file
  fetching,   \* where ProcessStatic is
  asked_at,   \* when it asked for the time of the last change,
  st_mtime,   \*   which is what it learned then,
  st_size,    \*   and the length it learned later
  reply,      \* the answer to the latest request, 0 while there is none
  copy        \* what the browser keeps: "asked_at" is that of its request

process_static == <<fetching, asked_at, st_mtime, st_size, reply>>
fetch_vars == <<now, page, process_static, copy>>

Page == [there : BOOLEAN, text : Nat, length : Nat, mtime : Nat]
Copy == [kept : BOOLEAN, text : Nat, length : Nat,
         last_modified : Nat, asked_at : Nat]

FetchInit ==
  /\ now = 0
  /\ page = [there |-> FALSE, text |-> 0, length |-> 0, mtime |-> 0]
  /\ fetching = "no"
  /\ asked_at = 0
  /\ st_mtime = 0
  /\ st_size = 0
  /\ reply = 0
  /\ copy = [kept |-> FALSE, text |-> 0, length |-> 0,
             last_modified |-> 0, asked_at |-> 0]

-----------------------------------------------------------------------------
(* Time, and the program that writes the page *)

Tick ==
  /\ now < MaxTime
  /\ now' = now + 1
  /\ UNCHANGED <<page, process_static, copy>>

WriteAnew ==
  /\ page.text < MaxText
  /\ page' = [there |-> TRUE, text |-> page.text + 1, length |-> 0, mtime |-> now]
  /\ UNCHANGED <<now, process_static, copy>>

WriteMore ==
  /\ page.there
  /\ page.length < MaxLength
  /\ page' = [page EXCEPT !.length = @ + 1, !.mtime = now]
  /\ UNCHANGED <<now, process_static, copy>>

-----------------------------------------------------------------------------
(* HttpSession::ProcessStatic *)

Reply(code) == fetching' = "no" /\ reply' = code

\* A request comes. stat() fails for a reason other than ENOENT: StatEx ends
\* the process, and there is no answer.
GetFileStatThrows ==
  /\ fetching = "no"
  /\ reply' = 0
  /\ UNCHANGED <<now, page, fetching, asked_at, st_mtime, st_size, copy>>

NotFound ==
  /\ fetching = "no"
  /\ ~page.there
  /\ Reply(404)
  /\ UNCHANGED <<now, page, asked_at, st_mtime, st_size, copy>>

\* If-Modified-Since is not a date.
BadDate ==
  /\ fetching = "no"
  /\ page.there
  /\ Reply(400)
  /\ UNCHANGED <<now, page, asked_at, st_mtime, st_size, copy>>

\* If-Modified-Since is what the browser was told with its copy. The answer
\* has a Last-Modified of its own.
NotModified ==
  /\ fetching = "no"
  /\ page.there
  /\ copy.kept
  /\ page.mtime - copy.last_modified <= 0
  /\ Reply(304)
  /\ copy' = [copy EXCEPT !.last_modified = page.mtime]
  /\ UNCHANGED <<now, page, asked_at, st_mtime, st_size>>

\* The file is newer, or the browser has sent no date.
Modified ==
  /\ fetching = "no"
  /\ page.there
  /\ fetching' = "open"
  /\ asked_at' = now
  /\ st_mtime' = page.mtime
  /\ reply' = 0
  /\ UNCHANGED <<now, page, st_size, copy>>

\* read_file opens the file and asks for its length.
OpenFile ==
  /\ fetching = "open"
  /\ fetching' = "read"
  /\ st_size' = page.length
  /\ UNCHANGED <<now, page, asked_at, st_mtime, reply, copy>>

\* As many bytes as that are read of what the file is by now, and go out
\* with the date of the first look at it.
\* Mutation: they go out with the date of the last one.
ReadFileDatedNow ==
  /\ fetching = "read"
  /\ st_size <= page.length
  /\ Reply(200)
  /\ copy' = [kept |-> TRUE, text |-> page.text, length |-> st_size,
              last_modified |-> page.mtime, asked_at |-> asked_at]
  /\ UNCHANGED <<now, page, asked_at, st_mtime, st_size>>

ReadFile ==
  /\ fetching = "read"
  /\ st_size <= page.length
  /\ Reply(200)
  /\ copy' = [kept |-> TRUE, text |-> page.text, length |-> st_size,
              last_modified |-> st_mtime, asked_at |-> asked_at]
  /\ UNCHANGED <<now, page, asked_at, st_mtime, st_size>>

\* A call fails, or the file has become shorter in between.
ReadFileFails ==
  /\ fetching \in {"open", "read"}
  /\ Reply(500)
  /\ UNCHANGED <<now, page, asked_at, st_mtime, st_size, copy>>

ProcessStatic ==
  \/ GetFileStatThrows \/ NotFound \/ BadDate \/ NotModified \/ Modified
  \/ OpenFile \/ ReadFile \/ ReadFileFails

FetchNext == Tick \/ WriteAnew \/ WriteMore \/ ProcessStatic

FetchSpec == FetchInit /\ [][FetchNext]_fetch_vars

-----------------------------------------------------------------------------
(* Properties *)

\* "Not modified" (304) is true whenever the browser asked for its copy in a
\* later second than the one the file had been changed in: however the file
\* was written while ProcessStatic looked at it, measured it and read it. A
\* copy that was asked for within that second may be of another text, or cut
\* off, and the browser is told to keep it.
NotModifiedHonest ==
  [][NotModified =>
       \/ copy.text = page.text /\ copy.length = page.length
       \/ copy.asked_at = copy.last_modified]_fetch_vars

=============================================================================
