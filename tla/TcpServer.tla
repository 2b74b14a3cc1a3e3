----------------------------- MODULE TcpServer -----------------------------
(***************************************************************************)
(* One process of the standalone server: TcpServer and its TcpSessions     *)
(* driven by the main loop of the event selector.                          *)
(*                                                                         *)
(* The process is single-threaded, so each handler is one step, cut only   *)
(* where the process may sleep in the kernel: pselect(), and read() and    *)
(* write() on the sessions' blocking sockets. A step that would sleep is   *)
(* disabled. The clients and the kernel act between any two steps.         *)
(*                                                                         *)
(* The application layer (AppLayerDriver) is open here: OnRead may queue   *)
(* a response, ask for the connection to be shut down, or neither.         *)
(***************************************************************************)
EXTENDS Sue, FiniteSets

CONSTANTS Conn,        \* the connections clients may open, each at most once
          Listener,    \* listen_fd_h
          ListenFd,    \* its descriptor; the lower ones are always in use
          OsLimit,     \* RLIMIT_NOFILE: descriptors are below it
          MaxFd,       \* MAX_FD
          IdleTimeout, \* IDLE_TIMEOUT
          MaxResponse, \* bound: units of data in one response
          MaxClock,    \* bound: the latest time of day
          Conditions   \* what clients and the environment may do, see below

\* "pipelining": a client sends a request while a response is pending;
\* "reset": a client resets the connection; "stall": a client stops reading;
\* "clockback": the time of day is set back; "workers": another worker
\* accepts from the shared listening socket; "leak": a descriptor is lost
\* (rm_rf's early returns leave a DIR open; fcntl() fails on a new one).
AllConditions ==
  {"pipelining", "reset", "stall", "clockback", "workers", "leak"}

Fds == 0..(OsLimit - 1)

ASSUME TcpServerAssumption ==
  /\ Listener \notin Conn
  /\ NoHandler \notin Conn
  /\ NoHandler # Listener
  /\ OsLimit \in Nat
  /\ ListenFd \in Fds
  /\ MaxFd \in Nat
  /\ IdleTimeout \in Nat
  /\ MaxResponse \in Nat
  /\ MaxClock \in Nat
  /\ Conditions \subseteq AllConditions

VARIABLES
  clock,          \* gettimeofday()
  timeouts, due,  \* the timeout list, and each session's tout_h.sec/usec
  fdhandlers, fdhandlerssize, max_fd,
  pc,             \* where the loop is
  ct,             \* handle_timeouts' reading of the clock
  rd, wr,         \* the sets pselect() returned
  scan,           \* handle_fds' loop variable
  sessions,       \* TcpServer::sessions, n_sessions is its length
  tcp,            \* the fields of each TcpSession
  sock,           \* kernel and client side of each connection
  leaked          \* descriptors that are open and nobody knows of

selector == <<fdhandlers, fdhandlerssize, max_fd>>
loop == <<pc, ct, rd, wr, scan>>
server == <<timeouts, due, selector, sessions, tcp, leaked>>
vars == <<clock, loop, server, sock>>

TcpSession == [fd : Fds \cup {-1},
               len : 0..MaxResponse, off : 0..MaxResponse,
               want_write : BOOLEAN, want_to_close : BOOLEAN,
               app_closing : BOOLEAN]

Socket == [st : {"idle", "queued", "open", "gone"},
           data : BOOLEAN, fin : BOOLEAN,
           rst : {"no", "pending", "done"},
           peer : {"reads", "stalled", "resumed"}]

NoSession == [fd |-> -1, len |-> 0, off |-> 0,
              want_write |-> FALSE, want_to_close |-> FALSE,
              app_closing |-> FALSE]

NewSocket == [st |-> "idle", data |-> FALSE, fin |-> FALSE,
              rst |-> "no", peer |-> "reads"]

TypeOK ==
  /\ clock \in 0..MaxClock
  /\ ct \in 0..MaxClock
  /\ timeouts \in Seq(Conn)
  /\ due \in [Conn -> 0..(MaxClock + IdleTimeout)]
  /\ fdhandlers \in [Fds -> Conn \cup {Listener, NoHandler}]
  /\ fdhandlerssize \in Nat
  /\ max_fd \in Fds
  /\ pc \in {"select", "timeouts", "fds", "onwrite", "close", "dead"}
  /\ rd \in SUBSET Fds
  /\ wr \in SUBSET Fds
  /\ scan \in 0..OsLimit
  /\ sessions \in Seq(Conn)
  /\ tcp \in [Conn -> TcpSession]
  /\ sock \in [Conn -> Socket]
  /\ leaked \in SUBSET Fds

Init ==
  /\ clock = 0
  /\ ct = 0
  /\ timeouts = <<>>
  /\ due = [c \in Conn |-> 0]
  /\ fdhandlers = [f \in Fds |-> IF f = ListenFd THEN Listener ELSE NoHandler]
  /\ fdhandlerssize = GrownSize(0, ListenFd)
  /\ max_fd = ListenFd
  /\ pc = "select"
  /\ rd = {}
  /\ wr = {}
  /\ scan = 0
  /\ sessions = <<>>
  /\ tcp = [c \in Conn |-> NoSession]
  /\ sock = [c \in Conn |-> NewSocket]
  /\ leaked = {}

-----------------------------------------------------------------------------
(* The clients, the kernel and the clock *)

Exists(c) == sock[c].st \in {"queued", "open"}

ClientStep(c, k) ==
  /\ sock' = [sock EXCEPT ![c] = k]
  /\ UNCHANGED <<clock, loop, server>>

Connect(c) ==
  /\ sock[c].st = "idle"
  /\ ClientStep(c, [sock[c] EXCEPT !.st = "queued"])

\* Another worker was faster.
Stolen(c) ==
  /\ "workers" \in Conditions
  /\ sock[c].st = "queued"
  /\ ClientStep(c, [NewSocket EXCEPT !.st = "gone"])

\* A client that does not pipeline waits for the pending response.
ClientSends(c) ==
  /\ Exists(c)
  /\ ~sock[c].data
  /\ ~sock[c].fin
  /\ sock[c].rst = "no"
  /\ "pipelining" \in Conditions \/ tcp[c].len = 0
  /\ ClientStep(c, [sock[c] EXCEPT !.data = TRUE])

ClientFinishes(c) ==
  /\ Exists(c)
  /\ ~sock[c].fin
  /\ sock[c].rst = "no"
  /\ ClientStep(c, [sock[c] EXCEPT !.fin = TRUE])

ClientResets(c) ==
  /\ "reset" \in Conditions
  /\ Exists(c)
  /\ sock[c].rst = "no"
  /\ ClientStep(c, [sock[c] EXCEPT !.rst = "pending"])

ClientStalls(c) ==
  /\ "stall" \in Conditions
  /\ Exists(c)
  /\ sock[c].peer = "reads"
  /\ ClientStep(c, [sock[c] EXCEPT !.peer = "stalled"])

ClientResumes(c) ==
  /\ sock[c].peer = "stalled"
  /\ ClientStep(c, [sock[c] EXCEPT !.peer = "resumed"])

Tick ==
  /\ clock < MaxClock
  /\ clock' = clock + 1
  /\ UNCHANGED <<loop, server, sock>>

ClockSetBack ==
  /\ "clockback" \in Conditions
  /\ clock' \in 0..clock
  /\ UNCHANGED <<loop, server, sock>>

-----------------------------------------------------------------------------
(* What the kernel answers *)

\* shutdown(fd, SHUT_RD) makes read() return 0 once the data is drained.
Readable(c) ==
  \/ sock[c].data
  \/ sock[c].fin
  \/ sock[c].rst # "no"
  \/ tcp[c].want_to_close

Writable(c) == sock[c].peer # "stalled" \/ sock[c].rst # "no"

Queued == {c \in Conn : sock[c].st = "queued"}

UsedFds ==
  (0..ListenFd) \cup leaked \cup
  {tcp[c].fd : c \in {d \in Conn : sock[d].st = "open"}}

FreeFds == Fds \ UsedFds

LowestFree == CHOOSE f \in FreeFds : \A g \in FreeFds : f <= g

-----------------------------------------------------------------------------
(* The main loop *)

\* fill_select_sets: sessions always want to read.
ReadReady ==
  {f \in 0..max_fd :
     \/ fdhandlers[f] = Listener /\ Queued # {}
     \/ fdhandlers[f] \in Conn /\ Readable(fdhandlers[f])}

WriteReady ==
  {f \in 0..max_fd : /\ fdhandlers[f] \in Conn
                     /\ tcp[fdhandlers[f]].want_write
                     /\ Writable(fdhandlers[f])}

\* pselect() sleeps until a descriptor is ready or the moment of the list's
\* first handler has come.
Select ==
  /\ pc = "select"
  /\ \/ ReadReady \cup WriteReady # {}
     \/ timeouts # <<>> /\ due[Head(timeouts)] <= clock
  /\ rd' = ReadReady
  /\ wr' = WriteReady
  /\ ct' = clock
  /\ pc' = "timeouts"
  /\ UNCHANGED <<clock, scan, server, sock>>

\* CloseTcpSession, with "list" the timeout list it finds.
CloseTcpSession(c, list) ==
  /\ fdhandlers' = [fdhandlers EXCEPT ![tcp[c].fd] = NoHandler]
  /\ max_fd' = MaxFdAfterRemove(max_fd, tcp[c].fd, fdhandlers')
  /\ timeouts' = RemoveTimeout(list, due, c)
  /\ sessions' =
       LET Match(i) == tcp[sessions[i]].fd = tcp[c].fd
       IN  RemoveAt(sessions, CHOOSE i \in 1..Len(sessions) :
                       Match(i) /\ \A j \in 1..(i - 1) : ~Match(j))
  /\ due' = [due EXCEPT ![c] = 0]
  /\ tcp' = [tcp EXCEPT ![c] = NoSession]
  /\ sock' = [sock EXCEPT ![c] = [NewSocket EXCEPT !.st = "gone"]]
  /\ UNCHANGED <<fdhandlerssize, leaked>>

\* handle_timeouts pops the first handler; ToutHandler closes its session.
TimeoutFires ==
  /\ pc = "timeouts"
  /\ timeouts # <<>>
  /\ EarlierThan(due, Head(timeouts), ct)
  /\ CloseTcpSession(Head(timeouts), Tail(timeouts))
  /\ UNCHANGED <<clock, loop>>

TimeoutsDone ==
  /\ pc = "timeouts"
  /\ timeouts # <<>> => ~EarlierThan(due, Head(timeouts), ct)
  /\ IF rd \cup wr # {}
     THEN pc' = "fds" /\ UNCHANGED ct
     ELSE pc' = "select" /\ ct' = 0
  /\ UNCHANGED <<clock, rd, wr, scan, server, sock>>

\* The descriptors handle_fds has still to visit, by the table as it is now.
Pending == {f \in scan..max_fd : fdhandlers[f] # NoHandler /\ f \in rd \cup wr}

IsNext(f) == f \in Pending /\ \A g \in Pending : f <= g

EventsDone ==
  /\ pc = "fds"
  /\ Pending = {}
  /\ pc' = "select"
  /\ ct' = 0
  /\ rd' = {}
  /\ wr' = {}
  /\ scan' = 0
  /\ UNCHANGED <<clock, server, sock>>

-----------------------------------------------------------------------------
(* The listening socket *)

ListenEvent ==
  /\ pc = "fds"
  /\ IsNext(ListenFd)
  /\ fdhandlers[ListenFd] = Listener
  /\ scan' = ListenFd + 1
  /\ UNCHANGED <<clock, pc, ct, rd, wr>>

\* Mutation: the limit of the process is tested in place of MAX_FD.
OverOsLimit(f) == f > OsLimit

OverMaxFd(f) == f > MaxFd

Accept(c) ==
  /\ ListenEvent
  /\ c \in Queued
  /\ FreeFds # {}
  /\ ~OverMaxFd(LowestFree)
  /\ LET f == LowestFree IN
       /\ fdhandlers' = [fdhandlers EXCEPT ![f] = c]
       /\ fdhandlerssize' = GrownSize(fdhandlerssize, f)
       /\ max_fd' = MaxFdAfterRegister(max_fd, f)
       /\ tcp' = [tcp EXCEPT ![c] = [NoSession EXCEPT !.fd = f]]
  /\ due' = [due EXCEPT ![c] = clock + IdleTimeout]
  /\ timeouts' = RegisterTimeout(timeouts, due', c)
  /\ sessions' = Append(sessions, c)
  /\ sock' = [sock EXCEPT ![c].st = "open"]
  /\ UNCHANGED leaked

\* A descriptor beyond MAX_FD is closed. One that cannot be made blocking is
\* not: the function returns, and the connection stays open, and unserved.
Decline(c) ==
  /\ ListenEvent
  /\ c \in Queued
  /\ FreeFds # {}
  /\ \/ OverMaxFd(LowestFree) /\ UNCHANGED leaked
     \/ "leak" \in Conditions /\ leaked' = leaked \cup {LowestFree}
  /\ sock' = [sock EXCEPT ![c] = [NewSocket EXCEPT !.st = "gone"]]
  /\ UNCHANGED <<timeouts, due, selector, sessions, tcp>>

\* accept() fails with EAGAIN when another worker was faster, or with EMFILE,
\* and then the connection stays in the queue.
AcceptFails ==
  /\ ListenEvent
  /\ Queued = {} \/ FreeFds = {}
  /\ UNCHANGED <<server, sock>>

-----------------------------------------------------------------------------
(* FdHandler of a session: r, then w, then ShouldClose *)

\* ResetIdleTout. The list is searched by the value the handler still has.
\* Mutation: the idle time is added to the old moment, not to the present.
ProlongIdleTout(c) ==
  /\ due' = [due EXCEPT ![c] = @ + clock + IdleTimeout]
  /\ timeouts' = RegisterTimeout(RemoveTimeout(timeouts, due, c), due', c)

ResetIdleTout(c) ==
  /\ due' = [due EXCEPT ![c] = clock + IdleTimeout]
  /\ timeouts' = RegisterTimeout(RemoveTimeout(timeouts, due, c), due', c)

\* Send replaces the buffer and its length, and leaves the offset.
\* Mutation: Send does not ask to be polled for writing.
SendUnpolled(t, n) == [t EXCEPT !.len = n]

Send(t, n) == [t EXCEPT !.len = n, !.want_write = TRUE]

\* Mutation: Shutdown drops what is still to be written.
ShutdownDropping(t) == [t EXCEPT !.want_to_close = TRUE, !.len = 0, !.off = 0,
                                 !.want_write = FALSE]

\* Mutation: Shutdown forgets to mark the session.
ShutdownUnmarked(t) == t

Shutdown(t) == [t EXCEPT !.want_to_close = TRUE]

\* The application layer calls Shutdown and remembers it.
AppShutdown(t) == [Shutdown(t) EXCEPT !.app_closing = TRUE]

ReadEvent(c) ==
  /\ pc = "fds"
  /\ IsNext(tcp[c].fd)
  /\ fdhandlers[tcp[c].fd] = c
  /\ tcp[c].fd \in rd
  /\ ResetIdleTout(c)
  /\ pc' = "onwrite"
  /\ scan' = tcp[c].fd
  /\ UNCHANGED <<clock, ct, rd, wr, selector, sessions>>

\* The application layer takes the data. It answers with n units, or with
\* none, and may call Shutdown; having called it, it answers no more. A
\* Shutdown after a failed write it does not know of.
ReadData(c) ==
  /\ ReadEvent(c)
  /\ sock[c].data
  /\ \E n \in 0..MaxResponse, closing \in BOOLEAN :
       /\ tcp[c].app_closing => n = 0
       /\ LET answered == IF n = 0 THEN tcp[c] ELSE Send(tcp[c], n)
          IN  tcp' = [tcp EXCEPT ![c] = IF closing THEN AppShutdown(answered)
                                                   ELSE answered]
  /\ sock' = [sock EXCEPT ![c].data = FALSE]
  /\ \/ UNCHANGED leaked
     \/ /\ "leak" \in Conditions
        /\ FreeFds # {}
        /\ leaked' = leaked \cup {LowestFree}

\* ReadToBuf returns false: a reset, or the end of the stream.
ReadFails(c) ==
  /\ ReadEvent(c)
  /\ ~sock[c].data
  /\ \/ sock[c].rst = "pending" /\ sock' = [sock EXCEPT ![c].rst = "done"]
     \/ /\ sock[c].rst # "pending"
        /\ sock[c].fin \/ sock[c].rst = "done" \/ tcp[c].want_to_close
        /\ UNCHANGED sock
  /\ tcp' = [tcp EXCEPT ![c] = Shutdown(@)]
  /\ UNCHANGED leaked

NoReadEvent(c) ==
  /\ pc = "fds"
  /\ IsNext(tcp[c].fd)
  /\ fdhandlers[tcp[c].fd] = c
  /\ tcp[c].fd \notin rd
  /\ pc' = "onwrite"
  /\ scan' = tcp[c].fd
  /\ UNCHANGED <<clock, ct, rd, wr, server, sock>>

WriteEvent(c) ==
  /\ pc = "onwrite"
  /\ fdhandlers[scan] = c
  /\ scan \in wr
  /\ UNCHANGED <<clock, ct, rd, wr, scan, timeouts, due, selector, sessions,
                 leaked>>

Unsent(t) == t.len - t.off

\* A blocking write() takes everything, unless the client stopped reading.
\* Mutation: the session goes on polling for writing.
FlushAllPolling(c) ==
  /\ WriteEvent(c)
  /\ Unsent(tcp[c]) > 0
  /\ sock[c].rst = "no"
  /\ sock[c].peer # "stalled"
  /\ tcp' = [tcp EXCEPT ![c] = [@ EXCEPT !.len = 0, !.off = 0]]
  /\ pc' = "close"
  /\ UNCHANGED sock

FlushAll(c) ==
  /\ WriteEvent(c)
  /\ Unsent(tcp[c]) > 0
  /\ sock[c].rst = "no"
  /\ sock[c].peer # "stalled"
  /\ tcp' = [tcp EXCEPT ![c] = [@ EXCEPT !.len = 0, !.off = 0,
                                         !.want_write = FALSE]]
  /\ pc' = "close"
  /\ UNCHANGED sock

\* The reset arrives while write() sleeps: it returns what it has taken.
FlushPartly(c) ==
  /\ WriteEvent(c)
  /\ sock[c].rst = "pending"
  /\ \E n \in 1..(Unsent(tcp[c]) - 1) :
       tcp' = [tcp EXCEPT ![c].off = @ + n]
  /\ pc' = "close"
  /\ UNCHANGED sock

\* write() returns -1 after a reset, 0 when there was nothing to write, and -1
\* when there was less than nothing: the length wraps round and is refused.
FlushFails(c) ==
  /\ WriteEvent(c)
  /\ \/ sock[c].rst = "pending" /\ sock' = [sock EXCEPT ![c].rst = "done"]
     \/ sock[c].rst = "no" /\ Unsent(tcp[c]) <= 0 /\ UNCHANGED sock
  /\ tcp' = [tcp EXCEPT ![c] = Shutdown(@)]
  /\ pc' = "close"

\* A further write() to a reset connection raises SIGPIPE, which the
\* program neither handles nor ignores.
KilledByPipe(c) ==
  /\ WriteEvent(c)
  /\ sock[c].rst = "done"
  /\ pc' = "dead"
  /\ UNCHANGED <<tcp, sock>>

NoWriteEvent(c) ==
  /\ pc = "onwrite"
  /\ fdhandlers[scan] = c
  /\ scan \notin wr
  /\ pc' = "close"
  /\ UNCHANGED <<clock, ct, rd, wr, scan, server, sock>>

\* Mutation: a session is closed with output pending.
ShouldCloseAtOnce(c) == tcp[c].want_to_close

ShouldClose(c) == tcp[c].want_to_close /\ tcp[c].len = 0

HandlerCloses(c) ==
  /\ pc = "close"
  /\ fdhandlers[scan] = c
  /\ ShouldClose(c)
  /\ CloseTcpSession(c, timeouts)
  /\ pc' = "fds"
  /\ scan' = scan + 1
  /\ UNCHANGED <<clock, ct, rd, wr>>

HandlerReturns(c) ==
  /\ pc = "close"
  /\ fdhandlers[scan] = c
  /\ ~ShouldClose(c)
  /\ pc' = "fds"
  /\ scan' = scan + 1
  /\ UNCHANGED <<clock, ct, rd, wr, server, sock>>

-----------------------------------------------------------------------------
SessionStep(c) ==
  \/ Accept(c) \/ Decline(c)
  \/ ReadData(c) \/ ReadFails(c) \/ NoReadEvent(c)
  \/ FlushAll(c) \/ FlushPartly(c) \/ FlushFails(c) \/ KilledByPipe(c)
  \/ NoWriteEvent(c)
  \/ HandlerCloses(c) \/ HandlerReturns(c)

ServerStep ==
  \/ Select \/ TimeoutFires \/ TimeoutsDone \/ EventsDone \/ AcceptFails
  \/ \E c \in Conn : SessionStep(c)

ClientNext(c) ==
  \/ Connect(c) \/ Stolen(c) \/ ClientSends(c) \/ ClientFinishes(c)
  \/ ClientResets(c) \/ ClientStalls(c) \/ ClientResumes(c)

Environment == Tick \/ ClockSetBack \/ \E c \in Conn : ClientNext(c)

Next == ServerStep \/ Environment

Spec == Init /\ [][Next]_vars

\* The loop runs as long as it can; a client that stopped reading reads on.
Fairness ==
  /\ WF_vars(ServerStep)
  /\ \A c \in Conn : WF_vars(ClientResumes(c))

FairSpec == Spec /\ Fairness

-----------------------------------------------------------------------------
(* Safety *)

OpenConns == {c \in Conn : sock[c].st = "open"}

\* The three registries of a session, the sessions array, the timeout list
\* and the table of descriptor handlers, hold the same sessions, each once:
\* the assertion of remove_fd_handler and the search of CloseTcpSession
\* never fail, and no registry points to a deleted session.
RegistriesAgree ==
  /\ Distinct(sessions) /\ Range(sessions) = OpenConns
  /\ Distinct(timeouts) /\ Range(timeouts) = OpenConns
  /\ fdhandlers[ListenFd] = Listener
  /\ \A c \in OpenConns : /\ tcp[c].fd \in Fds \ (0..ListenFd)
                          /\ fdhandlers[tcp[c].fd] = c
  /\ \A f \in Fds \ {ListenFd} :
       fdhandlers[f] # NoHandler =>
         fdhandlers[f] \in OpenConns /\ tcp[fdhandlers[f]].fd = f

\* The order that the early return of remove_timeout_handler relies on
\* survives every registration, also when the time of day is set back.
TimeoutsSorted == Descending(timeouts, due)

\* Every registered handler is in reach of the select sets, and inside the
\* array that register_fd_handler grows by a single step.
HandlersPolled == \A f \in Fds : fdhandlers[f] # NoHandler => f <= max_fd

HandlersInTable ==
  \A f \in Fds : fdhandlers[f] # NoHandler => f < fdhandlerssize

\* The write cursor stays inside the buffer, and the session polls for
\* writing exactly while it has something to write: Flush never hands
\* write() a length of zero or below for a session that asked to write.
WriteCursor ==
  \A c \in OpenConns :
    /\ tcp[c].want_write <=> tcp[c].len > 0
    /\ tcp[c].len > 0 => tcp[c].off < tcp[c].len
    /\ tcp[c].len = 0 => tcp[c].off = 0

\* The sessions array has MAX_FD places.
SessionsFit == Len(sessions) <= MaxFd

\* A response that is queued is written out or goes with its connection;
\* no later response takes its place.
NoResponseLost ==
  [][\A c \in Conn :
       tcp[c].len > 0 =>
         \/ tcp'[c].len = tcp[c].len
         \/ tcp'[c].len = 0 /\ (pc = "onwrite" \/ sock'[c].st = "gone")]_vars

-----------------------------------------------------------------------------
(* What the documentation says and the code does not do *)

\* sue_base.h on sue_event_selector_go: the handlers whose time is in the
\* past are each removed and called.
ExpiredFire ==
  pc = "fds" => \A c \in Range(timeouts) : ~EarlierThan(due, c, ct)

\* sue_base.h on handle_fd_event: the parameters tell what the descriptor
\* was detected to be ready for. A session that took over the descriptor
\* of one closed by its timeout gets the events of the other.
EventsAreReal ==
  pc = "fds" =>
    \A f \in Pending :
      fdhandlers[f] \in Conn =>
        /\ f \in rd => Readable(fdhandlers[f])
        /\ f \in wr => tcp[fdhandlers[f]].want_write

-----------------------------------------------------------------------------
(* Liveness *)

\* A session whose client has finished sending is closed.
FinishedIsClosed ==
  \A c \in Conn : sock[c].st = "open" /\ sock[c].fin ~> sock[c].st = "gone"

\* What is queued is written out.
OutputDrains == \A c \in Conn : tcp[c].len > 0 ~> tcp[c].len = 0

-----------------------------------------------------------------------------
(* Refinement *)

Phase(c) ==
  IF c \in Range(sessions)
  THEN IF tcp[c].want_to_close THEN "closing" ELSE "serving"
  ELSE IF sock[c].st = "gone" THEN "closed" ELSE "waiting"

Service == INSTANCE ConnService WITH
  now <- clock,
  seen <- ct,
  phase <- [c \in Conn |-> Phase(c)],
  unsent <- [c \in Conn |-> tcp[c].len],
  due <- due

\* The loop, the three registries and the descriptors together behave as
\* one set of connections, each admitted once and closed for a reason.
ImplementsService == Service!Spec

=============================================================================
