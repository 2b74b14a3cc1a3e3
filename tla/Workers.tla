------------------------------ MODULE Workers ------------------------------
(***************************************************************************)
(* The standalone server from main() on: the start-up, the workers forked  *)
(* by TcpServer::Init, the master that waits for them, and the listening   *)
(* socket all workers accept from.                                         *)
(*                                                                         *)
(* A process that serves goes round the loop of the event selector. Here   *)
(* the loop is cut down to what the processes share: whether the listener  *)
(* is ready when it wakes up, the accept() that may come too late, and a   *)
(* write() that may sleep. TcpServer models the rest of one such process.  *)
(* A client sends its only request as it connects.                         *)
(***************************************************************************)
EXTENDS Integers, Sequences, FiniteSets

CONSTANTS Clients,
          Sluggish,     \* the clients that may stop reading
          WorkerCounts, \* what the configuration may say of the workers
          MaxWorkers,   \* bound: workers
          MaxKills      \* bound: processes that end by themselves while serving

Master == 0
Nobody == -1

\* -1 is what Config takes for an entry that is missing.
Configured(n) == IF n = -1 THEN 2 ELSE n

ASSUME WorkersAssumption ==
  /\ Sluggish \subseteq Clients
  /\ MaxWorkers \in Nat
  /\ MaxKills \in Nat
  /\ WorkerCounts \subseteq Int
  /\ \A n \in WorkerCounts : Configured(n) <= MaxWorkers

Processes == Master..MaxWorkers

VARIABLES
  n_workers, runas,  \* the configuration
  pc,                \* where main(), Init, Wait and the loop are
  user,              \* "root", or the user that runas names
  listening,         \* the processes that have the listening socket open
  spawned, waited,   \* the loop counters of SpawnWorkers and Wait
  rd,                \* what pselect() found ready, and is not handled yet
  writing,           \* the client a process is writing to
  backlog,           \* the connections nobody has accepted
  conn, owner,       \* each client's connection, and who accepted it
  reads,             \* whether a client reads
  kills              \* processes that ended by themselves

config == <<n_workers, runas>>
clients == <<backlog, conn, owner, reads>>
vars == <<config, pc, user, listening, spawned, waited, rd, writing, clients,
          kills>>

Starting == {"config", "auth", "store", "bind", "listen", "fork"}
Serving  == {"select", "handle", "write"}
Ended    == {"failed", "ended", "killed"}

Listener == "listener"

TypeOK ==
  /\ n_workers \in Int
  /\ runas \in BOOLEAN
  /\ pc \in [Processes -> {"unborn", "wait", "runas"} \cup Starting \cup Serving \cup Ended]
  /\ user \in [Processes -> {"root", "runas"}]
  /\ listening \subseteq Processes
  /\ spawned \in 0..MaxWorkers
  /\ waited \in 0..spawned
  /\ rd \in [Processes -> SUBSET (Clients \cup {Listener})]
  /\ writing \in [Processes -> Clients \cup {Nobody}]
  /\ backlog \in Seq(Clients)
  /\ conn \in [Clients -> {"away", "queued", "open", "answered", "served", "reset",
                           "refused"}]
  /\ owner \in [Clients -> Processes \cup {Nobody}]
  /\ reads \in [Clients -> {"yes", "stalled", "again"}]
  /\ kills \in 0..MaxKills

Init ==
  /\ n_workers \in {Configured(n) : n \in WorkerCounts}
  /\ runas \in BOOLEAN
  /\ pc = [p \in Processes |-> IF p = Master THEN "config" ELSE "unborn"]
  /\ user = [p \in Processes |-> "root"]
  /\ listening = {}
  /\ spawned = 0
  /\ waited = 0
  /\ rd = [p \in Processes |-> {}]
  /\ writing = [p \in Processes |-> Nobody]
  /\ backlog = <<>>
  /\ conn = [c \in Clients |-> "away"]
  /\ owner = [c \in Clients |-> Nobody]
  /\ reads = [c \in Clients |-> "yes"]
  /\ kills = 0

GoesTo(p, where) == pc' = [pc EXCEPT ![p] = where]

-----------------------------------------------------------------------------
(* The listening socket and the end of a process *)

Queued == {backlog[i] : i \in DOMAIN backlog}

\* The kernel drops the backlog with the last descriptor of the socket.
Resets(lost) ==
  conn' = [c \in Clients |-> IF c \in lost THEN "reset" ELSE conn[c]]

SessionsOf(p) ==
  {c \in Clients : conn[c] \in {"open", "answered"} /\ owner[c] = p}

StopsListening(p, lost) ==
  /\ listening' = listening \ {p}
  /\ IF listening' = {}
     THEN Resets(lost \cup Queued) /\ backlog' = <<>>
     ELSE Resets(lost) /\ UNCHANGED backlog
  /\ UNCHANGED <<owner, reads>>

\* The end of a process closes its descriptors.
Exits(p, how) ==
  /\ GoesTo(p, how)
  /\ StopsListening(p, SessionsOf(p))
  /\ rd' = [rd EXCEPT ![p] = {}]
  /\ writing' = [writing EXCEPT ![p] = Nobody]
  /\ UNCHANGED <<config, user, spawned, waited>>

-----------------------------------------------------------------------------
(* main() and TcpServer::Init *)

Stage == [config |-> "auth", auth |-> "store", store |-> "bind", bind |-> "listen"]

\* Config, Auth::Init, Photohosting::Init, and socket() and bind() in Init.
\* The array of workers cannot be made with a negative length.
Starts ==
  /\ pc[Master] \in DOMAIN Stage
  /\ pc[Master] = "bind" => n_workers >= 0
  /\ GoesTo(Master, Stage[pc[Master]])
  /\ UNCHANGED <<config, user, listening, spawned, waited, rd, writing, clients,
                 kills>>

StartFails ==
  /\ pc[Master] \in DOMAIN Stage \cup {"listen"}
  /\ Exits(Master, "failed")
  /\ UNCHANGED kills

Listens ==
  /\ pc[Master] = "listen"
  /\ listening' = listening \cup {Master}
  /\ GoesTo(Master, IF n_workers = 0 THEN "runas" ELSE "fork")
  /\ UNCHANGED <<config, user, spawned, waited, rd, writing, clients, kills>>

\* Mutation: the loop of SpawnWorkers goes round once too often.
ForksOneMore ==
  /\ pc[Master] = "fork"
  /\ spawned <= n_workers
  /\ spawned' = spawned + 1
  /\ GoesTo(spawned', "runas")
  /\ user' = [user EXCEPT ![spawned'] = user[Master]]
  /\ listening' = listening \cup {spawned'}
  /\ UNCHANGED <<config, waited, rd, writing, clients, kills>>

\* The child returns from SpawnWorkers and Init.
ForksWorker ==
  /\ pc[Master] = "fork"
  /\ spawned < n_workers
  /\ spawned' = spawned + 1
  /\ GoesTo(spawned', "runas")
  /\ user' = [user EXCEPT ![spawned'] = user[Master]]
  /\ listening' = listening \cup {spawned'}
  /\ UNCHANGED <<config, waited, rd, writing, clients, kills>>

\* The workers forked so far are left alone.
ForkFails ==
  /\ pc[Master] = "fork"
  /\ spawned < n_workers
  /\ Exits(Master, "failed")
  /\ UNCHANGED kills

\* Mutation: the master keeps the listening socket.
AllForkedKeeping ==
  /\ pc[Master] = "fork"
  /\ spawned = n_workers
  /\ GoesTo(Master, "wait")
  /\ UNCHANGED <<config, user, listening, spawned, waited, rd, writing,
                 clients, kills>>

AllForked ==
  /\ pc[Master] = "fork"
  /\ spawned = n_workers
  /\ GoesTo(Master, "wait")
  /\ StopsListening(Master, {})
  /\ UNCHANGED <<config, user, spawned, waited, rd, writing, kills>>

Dead == {w \in Processes \ {Master} : pc[w] \in Ended}

\* TcpServer::Wait: one wait() for each worker, however it ended.
Waits ==
  /\ pc[Master] = "wait"
  /\ waited < n_workers
  /\ waited < Cardinality(Dead)
  /\ waited' = waited + 1
  /\ UNCHANGED <<config, pc, user, listening, spawned, rd, writing, clients,
                 kills>>

\* Mutation: the loop of Wait ends one short.
HasWaitedOneShort == waited >= n_workers - 1

\* Mutation: the loop of Wait goes round once too often.
HasWaitedOneMore == waited > n_workers

HasWaited == waited >= n_workers

WaitReturns ==
  /\ pc[Master] = "wait"
  /\ HasWaited
  /\ GoesTo(Master, "runas")
  /\ UNCHANGED <<config, user, listening, spawned, waited, rd, writing, clients,
                 kills>>

\* Mutation: the change of the user may fail unnoticed.
ChangesUserOrNot(p) ==
  /\ pc[p] = "runas"
  /\ runas => user' \in {user, [user EXCEPT ![p] = "runas"]}
  /\ ~runas => UNCHANGED user
  /\ GoesTo(p, "select")
  /\ UNCHANGED <<config, listening, spawned, waited, rd, writing, clients, kills>>

\* change_user, when runas is set, in a worker and in the master.
ChangesUser(p) ==
  /\ pc[p] = "runas"
  /\ user' = IF runas THEN [user EXCEPT ![p] = "runas"] ELSE user
  /\ GoesTo(p, "select")
  /\ UNCHANGED <<config, listening, spawned, waited, rd, writing, clients, kills>>

ChangeUserFails(p) ==
  /\ pc[p] = "runas"
  /\ runas
  /\ Exits(p, "failed")
  /\ UNCHANGED kills

-----------------------------------------------------------------------------
(* The loop of a process *)

Ready(p) ==
  SessionsOf(p) \cup (IF backlog # <<>> THEN {Listener} ELSE {})

Wakes(p) ==
  /\ pc[p] = "select"
  /\ p \in listening
  /\ Ready(p) # {}
  /\ rd' = [rd EXCEPT ![p] = Ready(p)]
  /\ GoesTo(p, "handle")
  /\ UNCHANGED <<config, user, listening, spawned, waited, writing, clients,
                 kills>>

\* The descriptor of the listener is closed but still registered: pselect()
\* fails, sue_event_selector_go returns, and so does main().
SelectFails(p) ==
  /\ pc[p] = "select"
  /\ p \notin listening
  /\ Exits(p, "ended")
  /\ UNCHANGED kills

\* The listener has the lowest descriptor and is served first.
Accepts(p) ==
  /\ pc[p] = "handle"
  /\ Listener \in rd[p]
  /\ backlog # <<>>
  /\ conn' = [conn EXCEPT ![Head(backlog)] = "open"]
  /\ owner' = [owner EXCEPT ![Head(backlog)] = p]
  /\ backlog' = Tail(backlog)
  /\ rd' = [rd EXCEPT ![p] = @ \ {Listener}]
  /\ UNCHANGED <<config, pc, user, listening, spawned, waited, writing, reads,
                 kills>>

\* Mutation: accept() sleeps.
AcceptSleeps(p) ==
  /\ pc[p] = "handle"
  /\ Listener \in rd[p]
  /\ FALSE
  /\ UNCHANGED vars

\* Another worker was faster. The listening socket does not block.
AcceptFails(p) ==
  /\ pc[p] = "handle"
  /\ Listener \in rd[p]
  /\ backlog = <<>>
  /\ rd' = [rd EXCEPT ![p] = @ \ {Listener}]
  /\ UNCHANGED <<config, pc, user, listening, spawned, waited, writing, clients,
                 kills>>

\* The answer to a request is queued, to be written in the next iteration.
Answers(p) ==
  /\ pc[p] = "handle"
  /\ Listener \notin rd[p]
  /\ \E c \in rd[p] :
       /\ conn[c] = "open"
       /\ conn' = [conn EXCEPT ![c] = "answered"]
       /\ rd' = [rd EXCEPT ![p] = @ \ {c}]
  /\ UNCHANGED <<config, pc, user, listening, spawned, waited, writing, backlog,
                 owner, reads, kills>>

StartsWriting(p) ==
  /\ pc[p] = "handle"
  /\ Listener \notin rd[p]
  /\ \E c \in rd[p] :
       /\ conn[c] = "answered"
       /\ writing' = [writing EXCEPT ![p] = c]
       /\ rd' = [rd EXCEPT ![p] = @ \ {c}]
  /\ GoesTo(p, "write")
  /\ UNCHANGED <<config, user, listening, spawned, waited, clients, kills>>

\* write() on the blocking socket returns when the client reads.
Writes(p) ==
  /\ pc[p] = "write"
  /\ reads[writing[p]] # "stalled"
  /\ conn' = [conn EXCEPT ![writing[p]] = "served"]
  /\ writing' = [writing EXCEPT ![p] = Nobody]
  /\ GoesTo(p, "handle")
  /\ UNCHANGED <<config, user, listening, spawned, waited, rd, backlog, owner,
                 reads, kills>>

GoesRound(p) ==
  /\ pc[p] = "handle"
  /\ rd[p] = {}
  /\ GoesTo(p, "select")
  /\ UNCHANGED <<config, user, listening, spawned, waited, rd, writing, clients,
                 kills>>

\* An exception nobody catches, a signal.
Dies(p) ==
  /\ pc[p] \in Serving \cup {"wait"}
  /\ kills < MaxKills
  /\ kills' = kills + 1
  /\ Exits(p, "killed")

-----------------------------------------------------------------------------
(* The clients *)

Connects(c) ==
  /\ conn[c] = "away"
  /\ IF listening = {}
     THEN conn' = [conn EXCEPT ![c] = "refused"] /\ UNCHANGED backlog
     ELSE /\ conn' = [conn EXCEPT ![c] = "queued"]
          /\ backlog' = Append(backlog, c)
  /\ UNCHANGED <<config, pc, user, listening, spawned, waited, rd, writing,
                 owner, reads, kills>>

Stalls(c) ==
  /\ c \in Sluggish
  /\ conn[c] \in {"queued", "open"}
  /\ reads[c] = "yes"
  /\ reads' = [reads EXCEPT ![c] = "stalled"]
  /\ UNCHANGED <<config, pc, user, listening, spawned, waited, rd, writing,
                 backlog, conn, owner, kills>>

ReadsAgain(c) ==
  /\ reads[c] = "stalled"
  /\ reads' = [reads EXCEPT ![c] = "again"]
  /\ UNCHANGED <<config, pc, user, listening, spawned, waited, rd, writing,
                 backlog, conn, owner, kills>>

-----------------------------------------------------------------------------
MasterStep ==
  \/ Starts \/ StartFails \/ Listens
  \/ ForksWorker \/ ForkFails \/ AllForked
  \/ Waits \/ WaitReturns

LoopStep(p) ==
  \/ ChangesUser(p) \/ ChangeUserFails(p)
  \/ Wakes(p) \/ SelectFails(p)
  \/ Accepts(p) \/ AcceptFails(p)
  \/ Answers(p) \/ StartsWriting(p) \/ Writes(p) \/ GoesRound(p)

Next ==
  \/ MasterStep
  \/ \E p \in Processes : LoopStep(p) \/ Dies(p)
  \/ \E c \in Clients : Connects(c) \/ Stalls(c) \/ ReadsAgain(c)

Spec == Init /\ [][Next]_vars

\* The kernel runs every process that is not asleep.
FairSpec ==
  /\ Spec
  /\ WF_vars(MasterStep)
  /\ \A p \in Processes : WF_vars(LoopStep(p))

-----------------------------------------------------------------------------
(* Properties *)

\* When runas is set, no process serves with the rights of root, whichever
\* of the changes of user failed: TcpServer::Init comes back in each worker,
\* and main() changes the user there, before the loop.
ServesUnprivileged ==
  runas => \A p \in Processes : pc[p] \in Serving => user[p] = "runas"

\* A server with workers serves in its workers only. The master goes from
\* Wait into the loop with the listener still registered: it is the closed
\* descriptor that stops it.
MasterNeverServes ==
  n_workers > 0 => \A c \in Clients : owner[c] # Master

\* The master does not come back from Wait before every worker has ended.
WaitsForAll ==
  n_workers > 0 /\ pc[Master] \in {"runas", "ended"} \cup Serving =>
    \A w \in 1..n_workers : pc[w] \in Ended

\* Once all workers have ended, the master ends, too: nobody is left of a
\* server that no longer listens.
MasterFollows ==
  (n_workers > 0 /\ spawned = n_workers /\ Cardinality(Dead) = n_workers)
    ~> pc[Master] \in Ended

Stuck(p) == pc[p] = "write" /\ reads[writing[p]] = "stalled"

\* As long as some process that listens is not stuck in a write(), a queued
\* connection is accepted, or dropped with the listening socket: whichever
\* processes end, and also when a fork failed and the master has gone.
QueuedIsTaken ==
  \/ <>[](listening # {} /\ \A p \in listening : Stuck(p))
  \/ \A c \in Clients : conn[c] = "queued" ~> conn[c] # "queued"

\* A worker that loses the race for a connection goes on to its sessions:
\* each is answered, unless its process ends or is stuck in a write().
SessionsServed ==
  \A c \in Clients :
    conn[c] \in {"open", "answered"} ~>
      \/ conn[c] \notin {"open", "answered"}
      \/ \E p \in Processes : owner[c] = p /\ Stuck(p)

=============================================================================
