# Photohosting in TLA+

A model of the photo hosting in this repository: TLA+ modules for the parts
of the program whose correctness depends on order, on concurrency or on
failure, TLC configurations that check small instances of them, and proofs of
the most important results for instances of any size, checked by TLAPS.

Line numbers refer to `src/src` and `src/include` unless a path is given.

## The system

A standalone server (`standalone_main.cpp`) forks workers. Each worker is one
thread that runs an event loop over its connections and the listening socket
it shares with the others. Requests are parsed in place, and handlers work on
the file system: a directory of session tokens, one of temporary files and a
directory tree for each user. A CGI program (`cgi_main.cpp`) offers the same
functions, process by process, on the same directories. Nothing is locked.

| Part | State | Operations | What is hard about it |
|---|---|---|---|
| Event selector (`externals/sue/sue_base.c`) | sorted list of timeouts, table of descriptor handlers, `max_fd` | register, remove, the `pselect` loop | the order of its phases: readiness is old when it is used; early returns that rely on a sorted list; a table that grows by one step |
| TCP server and sessions (`tcp_server.cpp`, `tcp_session.cpp`) | `sessions`, and for each session its handlers, write buffer and cursor, `want_to_close` | accept, read, flush, time out, close | three registries of one session; blocking writes; closing in several iterations |
| Start-up and worker pool (`standalone_main.cpp`, `tcp_server.cpp:47-132`, `279-292`) | processes, the user they run as, who has the listening socket open | initialise, fork, wait, change user | partial failure of `fork`; the order of `fork`, `close`, `wait` and `change_user`; races for connections |
| HTTP session (`http_session_fsm.cpp`, `http_session.cpp`) | state of the machine, `read_buf`, `last_headers_len`, `keep_alive`, request, response | one step for each state of `Routine` | bytes arrive in any pieces; state of one request that outlives it |
| picohttpparser (`externals`) | none of its own: the session keeps `last_headers_len` and `n_headers` | parse a head, from its beginning, each time a piece of it comes | the search for its end, which does not begin at the beginning |
| Static files (`http_server.cpp`, `http_session.cpp:102-140`, `common.cpp:112-146`) | none: the file, its date, what the browser keeps | look, compare, open, measure, read | the file changes between any two of them |
| Configuration (`cfg.cpp`, `externals/iniparser`) | lines, section, dictionary, the options | load line by line, take out the options, fill in defaults | a table that grows; lines that go on; all or nothing |
| Users file and login (`auth.cpp`, `http_request.cpp`) | the place in the file, the list | read logins and passwords, compare | two programs that read the same form with different code |
| CGI program (`cgi.cpp`, `externals/ccgi-1.2`) | query, cookies, form, temporary file | read everything, then do what is asked | a delimiter half seen; input that ends early |
| Session tokens (`auth.cpp`) | token files named by session id | `NewSession`, `GetUserBySession`, `DeleteSession` | processes meet between system calls; short writes; ids that come twice |
| Albums (`photohosting.cpp`, `web_album_creator_helper.cpp`, `users_api.cpp`) | temporary files, directories, photos, thumbnails, pages | save, make directories, create, clean up, list | failures half way; races of uploads with each other and with listings |
| Forms (`multipart.cpp`, `externals/multipart-parser-c`) | parser state, collected body | parse a byte, collect a piece, cut off the end | bytes that are looked at twice; how three pieces of code agree about the delimiters |
| Responses as text, pages, log | | formatting | see "Not modelled" |

How they interact: the loop calls `TcpServer`'s handlers; `FdHandler` calls
`TcpSession::OnRead` and `OnWrite`; `OnRead` calls the application layer
(`AppLayerDriver`, here `HttpSession`), which calls back `Send`, `Shutdown`;
the handlers of requests call `Photohosting`, which calls `Auth` and the album
library (not part of the repository). Workers and CGI processes share the
file system and, the workers, the listening socket.

## The modules

| Module | Models | Composed with |
|---|---|---|
| `Sue` | the timeout list and the table of descriptors, as operators | extended by `TcpServer` |
| `TcpServer` | one serving process: the loop, the registries, the sessions; clients, kernel and clock | implements `ConnService` |
| `ConnService` | what a server promises about a connection (abstract) | |
| `HttpSession` | the machine of one connection, its buffer, its client | implements `AppLayer` |
| `AppLayer` | what a `TcpSession` relies on in its application layer (abstract) | |
| `Workers` | start-up, master, workers, the shared listening socket | |
| `Auth` | the token store and the processes that use it | |
| `Albums` | uploads of several processes, and a listing meanwhile | |
| `StaticFiles` | a page that is written, fetched and asked for again | |
| `Multipart` | how the server takes the archive out of a form | |
| `RequestHead` | the head of a request, from its pieces to its fields | |
| `Texts`, `CgiVars` | texts; queries and cookies as ccgi reads them, as operators | extended by the modules on text |
| `SignIn` | the users file, the login form and the session cookie, in both programs | extends `CgiVars` |
| `Cgi` | a request to the CGI program, from its start to its response | extends `CgiVars` |
| `Dictionary` | the dictionary of iniparser, as operators | extended by `Config` |
| `Config` | how the configuration is read | implements `Settings` |
| `Settings` | settings as a map (abstract) | |
| `MC*` | small instances; `MCInputs` puts the readers of text side by side, `MCAlbums` albums and static files | |
| `TcpServerProofs` (with `Sue`), `HttpSessionProofs`, `AuthProofs` (with `SignIn` and `Cgi`), `WorkersProofs`, `AlbumsProofs` (with static files), `MultipartProofs`, `ConfigProofs`, `RequestHeadProofs` | theorems | |

`PROJECT.json` maps every definition to the lines it stands for, and lists
the hazards of the code with the properties that cover them.

### Sue and TcpServer

`timeouts`, `fdhandlers`, `fdhandlerssize`, `max_fd` are those of `struct
sue_event_selector`; `sessions`, and in `tcp` the buffer length, offset,
`want_write` and `want_to_close` those of the server and its sessions. `pc`
says where the loop is: in `pselect` (`Select`), in `handle_timeouts`
(`TimeoutFires`, `TimeoutsDone`), in `handle_fds` at descriptor `scan`
(`Accept`, `Decline`, `AcceptFails`, `ReadData`, ...) and inside `FdHandler`
after reading ("onwrite") and after writing ("close"). The process is single
threaded; a handler is cut only where it may sleep: in `read()` and `write()`,
whose sockets block. A step that would sleep is disabled, while clients and
kernel go on. The response is a number of units up to `MaxResponse`, so that
partial writes can happen.

The constant `Conditions` says what clients and environment may do, so that a
run, or a theorem, can say which of its results depend on it: pipelining,
resets, clients that stop reading, a clock that is set back, other workers
that accept first, descriptors leaked by `rm_rf` or by an `fcntl` that fails
(`Decline`). In `ReadData` the application layer is open: it may answer, ask
for the connection to be shut down, or neither. What it may not do is
`AppLayer`, which `HttpSession` is checked to implement. Without "pipelining" a client sends nothing while its
response is pending, which is how `ReadData` gets to send only with an empty
buffer.

### HttpSession

Bytes are counted in units as long as the blank line that ends a header, and
each unit knows the request and the place it comes from, so mixing up two
requests is visible. `wire` is what the client has sent and the session has
not read; `OnRead` takes any number of units of it. One action for each exit
of each state of `Routine`. The resumed search of picohttpparser's
`is_complete` is `ParseResults`: with a `last_headers_len` it looks only for
ends that are not before it, and reads past the end of the buffer when the
buffer is shorter, after which the result is arbitrary or the process has
crashed. Handlers are abstracted to the codes they may answer with (`Codes`).

### Workers

`main()` from the configuration to the loop. The master binds, listens, forks
(each fork may fail), closes the listening socket, waits once for each
configured worker, and then goes where each worker has gone before: through
`change_user` into the loop. There `pselect` fails for it, because the closed
descriptor is still registered (`SelectFails`). Each serving process takes a
snapshot of what is ready (`Wakes`), accepts, perhaps too late
(`AcceptFails`), and answers. Everything else about serving is `TcpServer`.

### Auth

One step for each system call that changes the store. A session id is the
place in a random stream where it was drawn: the stream's seed and the number
of characters drawn. `NewSession` opens a file with `O_CREAT` and without
`O_TRUNC` or `O_EXCL`, so a file that exists keeps the end of a longer name
(`Overwrite`). That two `srand()` seeds (time and process id) are never the
same, and that different seeds never draw the same id, is an assumption.

### Albums

One step for each call that changes the file system, and for its failure:
`mkstemp`, `write`, the
look and the `mkdir` of each directory in `mkdir_p`, the parts of the album
library, the removals of `clean_paths`, the removal of the archive. The
directories begin with `users/`, which no start-up makes and the first upload of
all has to. The album
library is external; it makes the photos, the thumbnails and the page in this
order, may leave a part of what it was making when it throws, and needs the
directories it is given. A second kind of process lists the albums of the
user meanwhile: it opens the directory, reads the title of one page after the
other in any order, and fails as a whole with the first page that has none.

### StaticFiles

`ProcessStatic` is cut where another process can come between: after `stat`
and the comparison with If-Modified-Since, after `open` and `fstat`, after
`read`. The page has a text, a length and the second of its last change;
another program begins a new text or appends at any moment. `copy` is what the
browser keeps, with the Last-Modified it was told and the moment its request
was looked at. Nothing in the repository removes a page, and no action does.

### The modules on text

Texts are sequences of characters, or of words where the characters of a word
do not matter; the inputs are sets of texts that contain what each reader can
trip over. Functions of the environment (`tolower`, `strtol`, `isalnum`, the
hash) are constants.

- `Config` has one action for each way a line can take through
  `iniparser_load` (skip, refuse, keep for the next, ignore, section, setting,
  error), `Config::Parse` and `PrintDefaults`. `SettingsAsWritten` compares the
  outcome with a reading of the file line by line, in which what a line says is
  a constant (`Means`), stated independently of the operators.
- `Dictionary` has the three arrays, the search by hash and key, and the
  doubling.
- `RequestHead` has picohttpparser's functions as operators from a place in the
  text to the place where they stop or the reason why they cannot, and the
  states of `HttpSession` up to the fields it takes. `Receive` delivers any
  next piece. The requests are texts, with what the client means by them. What
  a client writes is `IsHead`: method, path and version, the fields line by line,
  the blank line and the body, with line ends of either kind, and each known
  field at most once. That every request said to be sound is one, is an
  assumption (`HeadsAssumption`) that TLC evaluates for those of the run.
- `Cgi` reads the form as `read_multipart` does, `copyvalue` byte by byte, and
  then acts for each of the things that can be asked for. `Auth` and
  `Photohosting` are here what they answer. A write to the temporary file may
  fail, and nothing looks at what `fputc` and `fclose` return: what got lost is
  left out of the file, and `lost` remembers that something was. The head of a
  part is a line whose meaning is a constant (`Headers`). Requests come with
  what the client means by them; that they have the form of the page, whole or
  broken off, or state no title, is an assumption (`CgiAssumption`) that TLC
  evaluates for those of the run.
- `SignIn` reads the users file character by character, then takes a login form
  or a cookie as the server does (`strstr` and `isalnum`) or as the CGI program
  does (ccgi). A text is a sequence of characters, in which the marks that these
  readers look for are called `SP`, `TAB`, `LF`, `CR`, `SEMI`, and `dq`, `sq` and `bq`
  for the three quotes; the letters of "login", "password" and "sid" are one
  character wherever they stand in a row, so that `connect.sid` has one of them
  at its end (`Matches`, which is `strstr`). The texts come with
  what the client means by them: `FormsAreFilledIn` says what a form looks like
  in which something is filled in, `CookiesAreSent` what a header of cookies is.
  `BufLen` is the room for a word of the users file, 256 in the code. A longer word
  is written past it, over the index it is written with, and what the program
  does then has no meaning: the model stops there ("undefined").
  That all texts which are said to be sound are so, is an assumption
  (`SignInAssumption`) that TLC evaluates for those of the run.

### Multipart

The parser of multipart-parser-c byte by byte with its look-behind buffer,
`ReadBody`, which drops a piece that looks like a boundary, and `GetBody`,
which cuts off six bytes. `Execute` gives the parser the text without its
first two bytes and the constructor the boundary without its hyphens, so
inside the data the parser looks for CR LF and the boundary, while the text
has two more hyphens between them: it never meets a delimiter. What
`FileIsSaved` says is therefore exact: the archive comes first in the file
that is saved, and a piece of the text behind it follows. It speaks of forms that
are sent as a browser sends them. What these are is `IsForm`: the first part with its
header, line by line, between two delimiters, and the end of the form or other
parts behind it. That every form said to be sound is one, with a boundary that
is more than hyphens, is an assumption (`FormsAssumption` in `MCInputs`) that TLC
evaluates for those of the run.

## The runs

| Run | Checks | Instance |
|---|---|---|
| `core` | `TypeOK`, `RegistriesAgree`, `WriteCursor`, `HandlersPolled`, `HandlersInTable`, `NoResponseLost`, `ImplementsService` | two connections, resets, a competing worker, table steps of 2 |
| `edges` | `TimeoutsSorted`, `SessionsFit` | three connections with room for two, leaked descriptors, clock set back, pipelining |
| `live` | `FinishedIsClosed`, `OutputDrains` | two connections that may stop reading for a while |
| `expired` | `ExpiredFire` is violated | two connections, no condition |
| `stale_event` | `EventsAreReal` is violated | two connections, no condition |
| `http_mixed` | `RequestsIntact` (with `TypeOK`), `PromiseKept`, `ImplementsAppLayer`, `Answered`, `EndsAsAnnounced` | three requests of five kinds, cut up anywhere, pipelined or not |
| `http_header` | `WaitsForMissingHeader` is violated | as above, no pipelining, no faulty request |
| `http_body` | `WaitsForMissingBody` is violated | pipelining, headers not cut |
| `pool` | `TypeOK`, `ServesUnprivileged`, `MasterNeverServes`, `WaitsForAll`, `MasterFollows`, `QueuedIsTaken`, `SessionsServed` | 0, 1 or 2 workers, a missing and a negative setting, two clients, two processes that end |
| `auth_workers` | `TypeOK`, `CookiesHonest`, `OneSignsOut` | two processes, three starts, three draws, names of two lengths |
| `albums` | `TypeOK`, `CreatedIsWhole`, `FailureLeavesNothing`, `FailuresHaveCauses`, `ListingHonest`, `NotModifiedHonest` | two processes, two uploads, of one user or of two, two faults, one listing; or one page with three texts of up to two units, four seconds, one browser |
| `inputs` | `NothingLost`, `FileIsSaved`, `SettingsAsWritten` (with `TypeOK`), `AlbumAsSent`, `SignInAsListed`, `HeadAsSent`, `ImplementsMap`, `ReadersReturn` | one reader in a behaviour; see below |

What the properties say is stated beside each of them in the modules; the
newer ones in short:

- `NotModifiedHonest`: "304" is true, whatever was written while the page was
  fetched, unless the browser asked for its copy in the second the page was
  changed in.
- `SettingsAsWritten`: the program starts with what the file says and the
  defaults, or not at all. `ImplementsMap`: line by line, the dictionary is a map.
- `HeadAsSent`: in whatever pieces a head arrives, the session ends where it
  ends when all of it arrives at once, and of a head a browser writes it knows
  what was meant.
- `AlbumAsSent`: the CGI program makes an album of all of the archive or none,
  unless a part of the archive could not be written, which nobody is told.
- `SignInAsListed`: the program starts exactly with a users file that is well
  written, if its words fit in the buffer, and those sign in whom it names; where
  the two programs differ, or are misled by what stands beside a field or a
  cookie, it says how.
- `ReadersReturn`: the parser of forms and `Auth::Init` return.

The bounds:

- *core, live, expired, stale_event*: with two connections one can be accepted
  on the descriptor the other has left, one can sit behind the other in the
  timeout list, and removals happen at both ends of the sessions array. The
  limit of descriptors makes `accept` fail with one free place less than
  connections in *edges*. `MaxResponse = 2` is the smallest with a partial
  write. The clock needs `IdleTimeout + 2` values for a timeout that fires
  late. What two connections cannot show is proved for any number.
- *http*: the defects come from a second request behind a first one; a third
  shows what happens to a session after it. Two lengths of headers are needed
  for the resumed search to go wrong, and a body longer than one unit to be
  cut up.
- *pool*: a race needs two workers and a connection; starvation needs a second
  client whose session waits; the end of the pool needs as many ends as
  workers. The theorems cover any number.
- *auth*: a collision needs two draws; a restart a third start.
- *albums*: a race for a directory needs two uploads, of one user for the
  directories of that user, of two for `users/`, which all share; the run has
  both. The second fault is one that meets the cleaning after the first.
- *albums*, the page: two seconds are needed for a copy and a later change, and
  another for the time between them; a text that is replaced while it is
  fetched, and one that is replaced again before it is asked for, make three.
- *inputs*, forms for the server: four bytes of data hold CR LF and the first two bytes of every
  boundary, or two carriage returns one after the other; longer data repeat
  these.
- *inputs*, the others: `DICTMINSZ = 1` and a hash that two keys share, so that
  the dictionary grows several times and searches meet both; lines up to the
  size of the buffer and one more, files with and without a last newline, lines that
  go on once and twice. Heads are cut anywhere, in any number of pieces, with
  room for three fields; they have every field the session looks for, in
  different orders, and faults in each part. Users files have all texts of up
  to five characters (a letter, a digit, a blank, a line feed) and longer ones, with
  room for words of three. CGI forms have archives that begin like the delimiter, and are cut off at each
  of their characters.

Stopping is not a defect in any of these models: clients may stop sending,
bounds are used up, and processes end. So deadlock is not checked.

Fairness, where liveness is checked: *live* assumes that the loop takes a step
when it can (the kernel runs the process) and that a client that stopped
reading reads on, which the code relies on, since `write` blocks. *http* assumes
that `OnRead` is called when bytes are there and that `Routine` goes on until
it has to wait: both are one loop in the code. *pool* assumes that the kernel
runs every process that is not asleep; clients owe nothing. *inputs* assumes
that the parser of forms and `Auth::Init` go on: each is a loop in one call. The
other readers are checked for what they come to, not for coming to it; browsers
owe nothing.

### What the code does not do

Four runs show where code and documentation disagree:

- `expired`: the timeout list is kept latest first, but `handle_timeouts`
  stops at the first handler that is not due. An idle session stays as long
  as any session has a later moment.
- `stale_event`: `handle_timeouts` closes sessions between `pselect` and
  `handle_fds`. The listener, visited first, may accept a connection on such
  a descriptor, and the new session is called with the readiness of the old.
- `http_header`: `last_headers_len` is never reset. After a header that came in
  pieces, a shorter one of a later request, whole and with a body behind it, is
  taken for incomplete.
- `http_body`: the session waits until the buffer holds *exactly* the body.

Others are part of the models as they are, and of the properties as
exceptions:

- A client that pipelines makes `Send` replace a response that is still
  queued (`NoResponseLost` and `WriteCursor` hold without "pipelining").
- Descriptors leaked by `rm_rf` can bring a process to a descriptor beyond
  the table, which grows by one step only (`HandlersInTable` holds without
  "leak").
- The descriptor `MAX_FD` is accepted, though an `fd_set` of `MAX_FD` bits has no
  place for it; the sessions array has (`SessionsFit`).
- `max_fd` never falls: the walk down in `remove_fd_handler` goes on while a
  handler is there, and begins where one has just been removed. It is an upper
  bound, which is what `HandlersPolled` needs.
- A blocking `write` to a client that does not read stops every session of its
  process (`Stuck` in `QueuedIsTaken` and `SessionsServed`).
- A second `write` after a reset ends the process by `SIGPIPE`, and so does a
  `stat` that fails for a static file (`KilledByPipe`, `StatThrows`).
- A header found invalid is answered with a Connection header that does not
  announce the end that follows (`PromiseKept`).
- After a failed `fork` the master leaves, and the workers it has forked go on.
  A worker that ends is not replaced. `Wait` takes every exit for a normal one,
  and the master returns 0 whatever became of the workers.
- A server without workers never calls `srand()`: after a restart it draws the
  same session ids again and takes over the token files of its last life.
  `Auth` holds for processes that are seeded.
- A token file that could not be written stays.
- A short `write` of the archive leaves the temporary file, and is answered 507
  or 500 by an `errno` it did not set. An album that failed leaves its page,
  and that page makes every listing of the user fail.
- The first uploads of a user, or of all users, can get into each other's way: `mkdir_p` looks
  first and makes later, and nobody looks at its result.
- The saved archive is followed by bytes of the form.
- `http_forbidden` has the status line "401 FORBIDDEN"
  (`http_status_code.h`), while the log says 403 (`http_session.cpp:175`).
- Without `-c` the path of the configuration is a member no constructor sets:
  the default, some other file or a crash (`Open`).
- A header of a section named like a number's key gives that key no value, and
  asking for the number ends the process (`ParseCrashes`). A configuration line of
  one character at the end of the file is not read (`OneCharacter`).
- A field is compared with as many characters as its name has: "C: ..." and a
  line that begins with a blank, which has no name, are taken for Connection
  (`TakeField`, where `HeadAsSent` speaks of heads that browsers write).
- A faulty head is refused at once only in its first piece; later its blank line
  is waited for.
- The server ends a login at the first character that is no letter or digit
  and signs in `a%21` as `a`; the CGI program does not (`SignInAsListed`).
- The server looks for "login=", "password=" and "sid=" anywhere: in a longer name
  such as `connect.sid`, or in a value, that stands in front, it takes that for the
  field or the cookie (`FormMisleads`). The CGI program takes any of the three
  quotes at the beginning of a cookie's value for the beginning of a quoted one, and
  a cookie behind a quote that does not end, or inside it, is not seen
  (`CookieMisleads`).
- A word of the users file that is longer than 256 characters is not noticed
  (`Overrun`).
- On a full disk the CGI program makes an album of an archive that was cut short,
  as far as the album library takes it for one (`lost` in `AlbumAsSent`).
- The CGI program writes the archive to a temporary file before it looks who
  sends it, and takes the end of the input for the end of a part: the file of
  a request that is refused stays (`tmp` without `removed` in `Cgi`).
- A page that another process is writing is served as far as it is written, and a
  browser that asked within the second keeps that copy (`NotModifiedHonest`).
- `cgi_main.cpp` calls `Config::Init` and `Config::Check`, which are gone: the
  CGI program does not build. Its listing is modelled from `cgi.cpp` and
  `users_api.cpp`.

## The proofs

Every theorem is for all values of the constants, that is for any number of
connections, descriptors, processes, workers, users, requests, lines and steps.
The inductive invariants were invariants of TLC runs before they were proved.

**Sue.** `RegisterTimeoutCorrect`: inserting into a sorted list without
duplicates gives such a list. `RemoveTimeoutCorrect`: in a sorted list the
search that gives up early does not miss the handler. Both are about the list
as a sequence, by its indices.

**TcpServer.** The invariant `IInv` joins the types, `ListsAgree` and
`TableAgree` (together `RegistriesAgree`), `TimeoutsSorted`,
`HandlersPolled`, what the place of the loop says about the handler at hand,
the room in the table, and the write cursor. None of these is inductive
alone: the list is sorted only if a handler is removed before its moment
changes, which needs the early return to find it, which needs the list to be
sorted; a handler is found in the table only if the registries agree about
its descriptor. `TableHasRoom` assumes that no descriptor leaks and that the
listener's descriptor is within the first step of the table.
`WriteCursorSound` and `ResponsesKept` assume clients that do not pipeline.

- `SessionsAlwaysFit` needs the descriptors besides: every session has one of
  its own between the listener's and the greatest that `accept` may return, so
  as many sessions as the array has places leave no descriptor for another (the
  pigeonhole principle).
- `ServerProvidesService` is the refinement: with clients that do not pipeline,
  every step of the loop is, for one connection, a step of `ConnService`, or
  none of its business. It needs to know when a session that is to be closed
  has sent what it had (`ClosingInv`). With pipelining a response may be
  replaced, and the theorem is false.

**HttpSession.** `RequestsAlwaysIntact` and `PromiseAlwaysKept` follow from
`SessionInv`. It looks at the units that have been sent and not been consumed,
in the buffer or on the way, as one row: from each of them its request goes on
to its end, and the next follows (`InOrder`); the state of the machine says
which of them is the first. `keep_alive`, the response and the state say
together what has been promised. `SessionIsAppLayer`: every step of the session
is one that `AppLayer` allows, or none, so `TcpServer` may rely on `AppLayer` for
any requests.

**Auth.** `CookiesAlwaysHonest` and `OneAlwaysSignsOut`, for processes that are
all seeded (`Seeded = Process`). The argument: processes that run have
different streams (`StreamsApart`), and what the store or a client has seen
lies behind the place of every stream (`AllDrawn`), so a new id is new. A
session that is being created belongs to one process and no client
(`Creating`).

**Workers.** `PrivilegesDropped`, `MasterOnlyWaits`, `WaitIsComplete`. A process
that handles events has the listening socket open, and a master of workers
has it open only while it forks (`WhoListens`). `Wait` never counts more than
have ended (`Counted`), and there are no processes but the master and those
forked (`Born`), so when it has counted all, all have ended: an argument
about the size of finite sets.

**Albums.** `CreatedStaysWhole`, `FailuresLeaveNothing`, `FailuresAlwaysHaveCauses`
and `ListingsAlwaysHonest`, from `AlbumsInv`. An upload is the work of one
process until it has an answer (`OneOwner`), so where the process is says what
of the album has been made and what the cleaning has removed (`StagesDone`). An
upload that found the directories it shares made and met no fault finds every
directory it walks to (`UnharmedWalks`), so it fails only for a cause. What
`FailureLeavesNothing` says of directories needs that nobody makes or removes
a directory of an upload but its own process (`FrameDirs`); it says nothing of
the page, which `clean_paths` does not remove. A
listing reads what was there when it opened the directory, and an album that
was answered for before is among that and has its page (`ListingInv`).

**StaticFiles** (in `AlbumsProofs`). `NotModifiedAlwaysHonest`. The invariant:
what `ProcessStatic` knows of the page is either still so or the page has been
changed since it asked (`FetchSound`, `LengthSound`), and so for the copy
afterwards (`CopySound`); a change since then has a date that is not before the
moment it asked, so the page is newer than a copy from an earlier second.

**Multipart.** `NothingEverLost`, for every set of forms whose text and boundary
are texts and not shorter than the two bytes the code takes off each
(`FormsAreLegible`). `PartInv` adds to the property where the data of the part
began, where the mark is, and that the look-behind buffer holds the carriage
return, the line feed and as much of the boundary as `index` says: these are
the bytes that have been passed and not been emitted, so a piece emitted
later is made of them.

`FilesAlwaysSaved`, for forms with headers, files and boundaries of any length, as
long as every sound form is one (`FormsAreSound`). `NothingLost` alone does not give
it: `ReadBody` may drop a piece, and the parser may take bytes of the file for a
delimiter. `PlaceInv` says, for every place in the text up to the end of the
delimiter behind the file (`Z`), in which states the parser can be there, and so
that it does not return before. The argument:

- The pieces of the form stand in the text one behind the other (`TextStands`), and
  in front of the data the parser accepts each byte (`GoesOn`, `NameByte`,
  `ValueByte`).
- It never meets a whole boundary behind a line end (`NeverWhole`): in the data
  there is none, across their end there would be a carriage return in it, and the
  delimiter has two hyphens more, so a boundary that went on with it would be
  all hyphens.
- `ReadBody` drops nothing of the file: a piece of the data is not the boundary
  (`PieceIsKept`), and what is held back begins with a carriage return
  (`LineEndIsKept`).
- At `Z` the delimiter has become data, with the mark as far behind its line end as
  it looked like a boundary (`Within`). With one part the piece emitted there is
  not dropped, since the boundary would again be all hyphens (`EndIsKept`), the
  last two bytes are held back for ever (`EndStays`), and six bytes less are the
  file and a part of the delimiter. With several parts the piece may be dropped,
  but then six bytes of the delimiter have been collected behind the file
  already (`LastByteStands`), and a file that was saved stays so (`SavedStays`).

**Config.** `SetSetsOne`: setting a key in a coherent dictionary gives a coherent
one that differs, as a map, in this key only, for any hash function and any
initial size. It rests on lemmas about each step of `dictionary_set`: a key
that is there is found, and only in its slot (`PlaceOf`), growing changes no
value (`Grow`), and the first free slot is number n because no key is ever
removed (`FreeIsNext`). `AlwaysCoherent` and `LoadingIsAMap` follow for every file:
the dictionary implements `Settings`, each step a step or a stutter.

`SettingsAlwaysAsWritten`: for any number of lines, any size of the buffer and
any hash, the program starts with what the file says and refuses only a file
at fault. Two assumptions: files are sequences of texts (`FilesAreTexts`), and
`Means` is right about each single line of them (`LinesAreRead`: it says that a
line is a header, a setting, nothing or an error just when the code's operators
take it for one). Both are assumptions that TLC evaluates for the files of the
run (`FilesAssumption` in `MCConfig`). What the theorem adds is everything that
is about more than one line: lines that go on, sections that last until the
next, the last of several settings, errors that count wherever they are, the
dictionary as it grows, and the options and defaults at the end. `ReadInv` says
that the loading knows, after n lines, what a reader knows of them (`Knowing`):
the text kept is the reader's (`TextOfReading`), the section is the last header's
(`AboveStays`), and the dictionary has, of every option, the last value that was
stated (`StatesMore`, `SettingAgrees`). A line that `fgets` does not tell from an
empty one is empty in a plain file (`SkippedIsEmpty`), and a line that is too
long makes the file too long, whatever follows (`ReadingGoesOn`).

The reading itself is a recursive function over the lines. Induction over its
length is a lemma about sets of numbers (`Induction`, from the least number of a
set that is not empty), since the library's theorems take an operator; it shows
that the recursion has a solution (`JoinedSolves`), from which its equations
follow (`JoinedIs`).

**RequestHead.** `HeadsAlwaysAsSent`: for any requests, of any length, cut anywhere
into any number of pieces, any `MAX_HTTP_HEADERS`, any `strtol` and any way of
comparing names. The assumption is `HeadsAssumption`. The argument:

- What the parser has read to its end, or refused, is read or refused the same
  way when more of the text is there (`RequestMore`). For the fields this is an
  induction over their number, each field being looked at by itself
  (`FieldMore`, `HeadersMore`); `FieldsFrom` is the recursive function over it.
- When the parser reads a head to its end, the search of `is_complete` finds the
  blank line, and it finds none in a text whose head is incomplete (`BlankLine`):
  they agree, though one reads fields and the other looks for two line ends.
- The search that is resumed two characters before the last piece misses
  nothing: what it passes over has been searched before (`SearchGoesOn`).
- So the parser, with its shortcut, returns what it would return for the whole
  text, or that it needs more (`ParsedIsWhole`), which `HeadInv` needs in every
  state; `n_headers` is again `MAX_HTTP_HEADERS` whenever it is asked.
- A head as a client writes it stands in the text piece by piece (`At`), and the
  parser goes from each piece to the next (`TokenStands`, `FieldStands`,
  `HeadersStand`, `HeadReads`). What is taken out of the fields, one after the
  other, is what each known one says, whatever their order (`TakenAsSaid`,
  `BoundaryIs`, `TakenAsMeant`).

**SignIn** (in `AuthProofs`). `SignsInAsListed`: for any users file, any forms and
any headers of cookies, of any length, with any `BufLen`. The assumption is
`SignInAssumption`. Of a users file with a word that does not fit, only that
is claimed (`OverrunIs`); of a form or a header in which something else
misleads the reader (`FormMisleads`, `CookieMisleads`), nothing. The argument:

- What has been read of the users file is well written, and the list so far,
  written out again, is what has been read (`UsersInv`). Between two lines this
  is `BetweenLines`; between a login and its password the login read is what
  stands there (`BehindLogin`). That each line is the user of its number needs
  the line feeds to be counted (`LineFeedsCount`, `LineIs`, `OneMoreLine`). When
  the parser refuses, what it stands at contradicts `WellWritten`.
- The first place where the server finds a name and "=" is the field's own, unless
  it is misled (`FirstMatch`), and behind it, up to the first character
  that is no letter or digit, is what was filled in (`ServerReads`), or only a word
  at its front (`ValueRead`).
- ccgi takes the form character by character, with what it has of a name or a
  value in hand. Outside the field in question it adds other names to its
  list only (`ScansOutside`), inside it collects the value (`ScansValue`), and a
  lookup then finds this value, for the list has no other of that name
  (`CgiReads`). What is no word is never read as one (`CgiReadsWords`).
- Of a header of cookies ccgi takes one cookie after the other: where each
  begins (`StartIs`), its name (`AttributeIs`), its value (`ValueIs`), and the
  rest, which is again such a header (`TakeOne`). The server looks for the
  name and takes the word behind it. Both find the id that was sent, or
  none (`CgiReadsCookie`, `ServerReadsCookie`).
- `CGI_decode_query` and `CGI_get_cookie` fold a recursive function; that it has
  a solution is shown first (`DecodeIs`, `TakenIs`), by induction over a number
  (`NumbersReached`, from the least number of a set that is not empty).

**Cgi** (in `AuthProofs`). `AlbumsAsSent`: for any requests that have the form of the
page, whole or broken off anywhere, or that state no title, with archives,
titles and boundaries of any length, whatever heads lines may have (`Headers`)
and whatever calls fail. The assumption is `CgiAssumption`. The invariant
`CgiInv` says where in the form the program can be. The argument:

- The form is a row of pieces, each of which stands in the body behind the one before,
  as far as the body goes (`PageStands`, for the places `P1` to `P12`). A line that
  is read is a piece, or, where the form breaks off, a part of one that ends it
  (`LineRead`, `LineOfPage`).
- In the data of a part, `InData` says that the last `matched` characters are the
  front of the delimiter, and that none begins at a place before them. A
  delimiter begins with a carriage return and has no other, so the one that is
  given up has no second beginning inside (`DataParts`): this is why
  `copyvalue` need not go back. The text so far is what was read without these
  characters (`Read`, `ReadOn`), and it ends where the data does, because the
  delimiter occurs neither in the data nor across its end (`DataEnds`).
- So the first file holds the archive when its part has ended, unless a write
  or `mkstemp` failed (`FileSaid`, `Holding`), and the title is the one that was
  sent, or its beginning.
- A form that breaks off before the title's part has no title, also when a head is
  cut short: then its line is no blank one, or the part is never begun. Without a
  title there is no album (`Fit`).
- Any other form never states a title (`OfAnother`), and no album is made of it.

Only model-checked: liveness, under fairness (`FinishedIsClosed`, `OutputDrains`,
`Answered`, `EndsAsAnnounced`, `MasterFollows`, `QueuedIsTaken`, `SessionsServed`,
`ReadersReturn`).

## Not modelled

- The text of responses, of the two lists and of pages, paths and the log:
  sequential formatting. Where its effect matters (the Connection header, the
  dates of static files) the effect is modelled.
- What the CGI program's operations do to the store and to the albums: its
  processes are processes of `Auth` and `Albums`; `Cgi` has what they are given
  and what they answer.
- The listing of all users: it reads one directory.
- Signal handlers and loop hooks of the selector, which the program never
  registers; those functions of iniparser, ccgi and picohttpparser that nothing calls.
- Character by character, what `tolower`, `strtol` and the like make of a word;
  the copy of the Content-Type header that is freed before the boundary is
  copied out of it: the boundary is taken as sent.
- Allocation failures.
- Characters of value zero in a head, at which `strndup` ends its copy
  (`http_session_fsm.cpp:60`), and a negative Content-Length: lengths and texts
  are those a client may write.
- Two bases of `strtol`, 0 for the configuration (`iniparser.c:460`) and 10 for
  Content-Length (`http_session_fsm.cpp:126`): it is one constant operator, and the
  numbers of the run are decimal without a leading zero, where the two agree.
- Supplementary groups: `change_user` (`common.cpp:310`) sets the user and the group and
  keeps them, so `ServesUnprivileged` speaks of the user only.
- The tab and the other separators among the heads of parts (`scanheader`): a head is a
  line with a meaning.
- The album library and the pages it writes, which are not in the repository.

## Plan

Done: the loop and its sessions, the HTTP machine, the tokens, the albums, the
worker pool, static files, and the readers of all that comes from outside;
proofs for all of these, and of every
refinement of an abstract specification.

To do, in this order:

1. The composition of `HttpSession` with the sessions of `TcpServer`, beyond
   the contract `AppLayer`, and of `RequestHead` with `HttpSession`, beyond
   `ParseResults`.
2. The text of responses, for the length that the client is told.
