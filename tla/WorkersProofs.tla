--------------------------- MODULE WorkersProofs ---------------------------
(***************************************************************************)
(* Proofs about Workers, for any number of workers, clients and processes  *)
(* that end.                                                               *)
(***************************************************************************)
EXTENDS Workers, FiniteSetTheorems, TLAPS

\* What the configuration leaves possible.
CountType == n_workers <= MaxWorkers

\* The processes there are: the master, and the workers forked so far.
Born ==
  /\ pc[Master] # "unborn"
  /\ spawned = 0 \/ spawned <= n_workers
  /\ \A w \in Processes \ {Master} : spawned < w => pc[w] = "unborn"

\* A process that handles events can accept, and a master of workers can do
\* so only while it forks.
WhoListens ==
  /\ \A p \in Processes : pc[p] \in {"handle", "write"} => p \in listening
  /\ n_workers > 0 /\ Master \in listening => pc[Master] = "fork"

\* The master waits when it has forked all workers.
AllAtWork == pc[Master] = "wait" => spawned = n_workers

\* Wait has not counted more workers than have ended.
Counted == waited <= Cardinality(Dead)

IInv ==
  /\ TypeOK
  /\ CountType
  /\ Born
  /\ WhoListens
  /\ AllAtWork
  /\ Counted
  /\ WaitsForAll
  /\ ServesUnprivileged
  /\ MasterNeverServes

-----------------------------------------------------------------------------
(* Types *)

LEMMA ResetsType ==
  ASSUME TypeOK, NEW lost, Resets(lost)
  PROVE  conn' \in [Clients -> {"away", "queued", "open", "answered", "served",
                                "reset", "refused"}]
BY DEF TypeOK, Resets

LEMMA StopsListeningType ==
  ASSUME TypeOK, NEW p \in Processes, NEW lost, StopsListening(p, lost)
  PROVE  /\ listening' \subseteq Processes
         /\ conn' \in [Clients -> {"away", "queued", "open", "answered", "served",
                                   "reset", "refused"}]
         /\ backlog' \in Seq(Clients)
         /\ owner' \in [Clients -> Processes \cup {Nobody}]
         /\ reads' \in [Clients -> {"yes", "stalled", "again"}]
<1>1. /\ listening' \subseteq Processes
      /\ owner' \in [Clients -> Processes \cup {Nobody}]
      /\ reads' \in [Clients -> {"yes", "stalled", "again"}]
  BY DEF StopsListening, TypeOK
<1>2. CASE listening' = {}
  <2>1. Resets(lost \cup Queued) /\ backlog' = <<>>
    BY <1>2 DEF StopsListening
  <2> QED
    BY <1>1, <2>1, ResetsType
<1>3. CASE listening' # {}
  <2>1. Resets(lost) /\ backlog' = backlog
    BY <1>3 DEF StopsListening
  <2> QED
    BY <1>1, <2>1, ResetsType DEF TypeOK
<1> QED
  BY <1>2, <1>3

LEMMA ExitsType ==
  ASSUME TypeOK, NEW p \in Processes, NEW how \in Ended, Exits(p, how),
         kills' \in 0..MaxKills
  PROVE  TypeOK'
<1>1. /\ listening' \subseteq Processes
      /\ conn' \in [Clients -> {"away", "queued", "open", "answered", "served",
                                "reset", "refused"}]
      /\ backlog' \in Seq(Clients)
      /\ owner' \in [Clients -> Processes \cup {Nobody}]
      /\ reads' \in [Clients -> {"yes", "stalled", "again"}]
  BY StopsListeningType DEF Exits
<1>2. pc' \in [Processes -> {"unborn", "wait", "runas"} \cup Starting \cup Serving \cup Ended]
  BY DEF TypeOK, Exits, GoesTo
<1>3. /\ rd' \in [Processes -> SUBSET (Clients \cup {Listener})]
      /\ writing' \in [Processes -> Clients \cup {Nobody}]
  BY DEF TypeOK, Exits
<1> QED
  BY <1>1, <1>2, <1>3 DEF TypeOK, Exits, config

LEMMA TypeStep ==
  ASSUME TypeOK, CountType, AllAtWork, Next
  PROVE  TypeOK'
<1> USE WorkersAssumption DEF Starting, Serving, Ended, Processes, Master, Nobody, GoesTo,
        config, clients
<1>1. CASE Starts
  BY <1>1 DEF Starts, Stage, TypeOK
<1>2. CASE StartFails
  BY <1>2, ExitsType DEF StartFails, TypeOK
<1>3. CASE Listens
  BY <1>3 DEF Listens, TypeOK
<1>4. CASE ForksWorker
  <2>1. spawned' \in 1..MaxWorkers
    BY <1>4 DEF ForksWorker, TypeOK, CountType
  <2> QED
    BY <1>4, <2>1 DEF ForksWorker, TypeOK
<1>5. CASE ForkFails
  BY <1>5, ExitsType DEF ForkFails, TypeOK
<1>6. CASE AllForked
  <2>1. StopsListening(Master, {})
    BY <1>6 DEF AllForked
  <2>2. /\ listening' \subseteq Processes
        /\ conn' \in [Clients -> {"away", "queued", "open", "answered", "served",
                                  "reset", "refused"}]
        /\ backlog' \in Seq(Clients)
        /\ owner' \in [Clients -> Processes \cup {Nobody}]
        /\ reads' \in [Clients -> {"yes", "stalled", "again"}]
    BY <2>1, StopsListeningType, Master \in Processes
  <2> QED
    BY <1>6, <2>2 DEF AllForked, TypeOK
<1>7. CASE Waits
  BY <1>7 DEF Waits, TypeOK, AllAtWork
<1>8. CASE WaitReturns
  BY <1>8 DEF WaitReturns, TypeOK
<1>9. ASSUME NEW p \in Processes, LoopStep(p) \/ Dies(p)
      PROVE  TypeOK'
  <2>1. CASE ChangesUser(p)
    BY <2>1 DEF ChangesUser, TypeOK
  <2>2. CASE ChangeUserFails(p)
    BY <2>2, ExitsType DEF ChangeUserFails, TypeOK
  <2>3. CASE Wakes(p)
    BY <2>3 DEF Wakes, Ready, SessionsOf, TypeOK
  <2>4. CASE SelectFails(p)
    BY <2>4, ExitsType DEF SelectFails, TypeOK
  <2>5. CASE Accepts(p)
    <3>1. Head(backlog) \in Clients /\ Tail(backlog) \in Seq(Clients)
      BY <2>5 DEF Accepts, TypeOK
    <3> QED
      BY <2>5, <3>1 DEF Accepts, TypeOK
  <2>6. CASE AcceptFails(p)
    BY <2>6 DEF AcceptFails, TypeOK
  <2>7. CASE Answers(p)
    BY <2>7 DEF Answers, TypeOK
  <2>8. CASE StartsWriting(p)
    <3>1. PICK c \in rd[p] :
            /\ conn[c] = "answered"
            /\ writing' = [writing EXCEPT ![p] = c]
            /\ rd' = [rd EXCEPT ![p] = @ \ {c}]
      BY <2>8 DEF StartsWriting
    <3>2. c \in Clients
      BY <2>8, <3>1 DEF StartsWriting, TypeOK
    <3>3. writing' \in [Processes -> Clients \cup {Nobody}]
      BY <3>1, <3>2 DEF TypeOK
    <3>4. rd' \in [Processes -> SUBSET (Clients \cup {Listener})]
      BY <3>1 DEF TypeOK
    <3> QED
      BY <2>8, <3>3, <3>4 DEF StartsWriting, TypeOK
  <2>9. CASE Writes(p)
    BY <2>9 DEF Writes, TypeOK
  <2>10. CASE GoesRound(p)
    BY <2>10 DEF GoesRound, TypeOK
  <2>11. CASE Dies(p)
    <3>1. kills' \in 0..MaxKills
      BY <2>11 DEF Dies, TypeOK
    <3> QED
      BY <2>11, <3>1, ExitsType DEF Dies
  <2> QED
    BY <1>9, <2>1, <2>2, <2>3, <2>4, <2>5, <2>6, <2>7, <2>8, <2>9, <2>10, <2>11
    DEF LoopStep
<1>10. ASSUME NEW c \in Clients, Connects(c) \/ Stalls(c) \/ ReadsAgain(c)
       PROVE  TypeOK'
  <2>1. CASE Connects(c)
    <3>1. backlog' \in Seq(Clients)
      <4>1. backlog' = backlog \/ backlog' = Append(backlog, c)
        BY <2>1 DEF Connects
      <4>2. backlog \in Seq(Clients)
        BY DEF TypeOK
      <4> QED
        BY <4>1, <4>2
    <3>2. conn' \in [Clients -> {"away", "queued", "open", "answered", "served",
                                "reset", "refused"}]
      <4>1. \E to \in {"refused", "queued"} : conn' = [conn EXCEPT ![c] = to]
        BY <2>1 DEF Connects
      <4> QED
        BY <4>1 DEF TypeOK
    <3>3. /\ pc' = pc /\ user' = user /\ listening' = listening
          /\ n_workers' = n_workers /\ runas' = runas
          /\ spawned' = spawned /\ waited' = waited /\ rd' = rd
          /\ writing' = writing /\ owner' = owner /\ reads' = reads
          /\ kills' = kills
      BY <2>1 DEF Connects
    <3> HIDE DEF Starting, Serving, Ended, Processes, Master, Nobody
    <3> QED
      BY <3>1, <3>2, <3>3 DEF TypeOK
  <2>2. CASE Stalls(c)
    BY <2>2 DEF Stalls, TypeOK
  <2>3. CASE ReadsAgain(c)
    BY <2>3 DEF ReadsAgain, TypeOK
  <2> QED
    BY <1>10, <2>1, <2>2, <2>3
<1> QED
  BY <1>1, <1>2, <1>3, <1>4, <1>5, <1>6, <1>7, <1>8, <1>9, <1>10 DEF Next, MasterStep

-----------------------------------------------------------------------------
(* The end of a process is final *)

LEMMA EndedStay ==
  ASSUME TypeOK, CountType, Born, Next, NEW w \in Processes, pc[w] \in Ended
  PROVE  pc'[w] = pc[w]
<1> USE DEF Starting, Serving, Ended, Processes, Master, Nobody, GoesTo, TypeOK
<1>1. CASE MasterStep
  <2>1. CASE Starts
    BY <2>1 DEF Starts, Stage
  <2>2. CASE StartFails
    BY <2>2 DEF StartFails, Exits, Stage
  <2>3. CASE Listens \/ ForkFails \/ AllForked \/ Waits \/ WaitReturns
    BY <2>3 DEF Listens, ForkFails, Exits, AllForked, Waits, WaitReturns
  <2>4. CASE ForksWorker
    BY <2>4 DEF ForksWorker, Born, CountType
  <2> QED
    BY <1>1, <2>1, <2>2, <2>3, <2>4 DEF MasterStep
<1>2. ASSUME NEW p \in Processes, LoopStep(p) \/ Dies(p)
      PROVE  pc'[w] = pc[w]
  BY <1>2 DEF LoopStep, Dies, ChangesUser, ChangeUserFails, Wakes, SelectFails,
              Accepts, AcceptFails, Answers, StartsWriting, Writes, GoesRound, Exits
<1>3. ASSUME NEW c \in Clients, Connects(c) \/ Stalls(c) \/ ReadsAgain(c)
      PROVE  pc'[w] = pc[w]
  BY <1>3 DEF Connects, Stalls, ReadsAgain
<1> QED
  BY <1>1, <1>2, <1>3 DEF Next

\* There are finitely many processes.
LEMMA DeadFinite ==
  ASSUME TypeOK, CountType, Born
  PROVE  /\ IsFiniteSet(Dead)
         /\ Dead \subseteq 1..spawned
<1>1. Dead \subseteq 1..spawned
  BY DEF Dead, Born, TypeOK, Ended, Processes, Master
<1>2. IsFiniteSet(1..spawned)
  BY FS_Interval DEF TypeOK
<1> QED
  BY <1>1, <1>2, FS_Subset

-----------------------------------------------------------------------------
(* The steps *)

LEMMA ConfigStays ==
  ASSUME Next
  PROVE  n_workers' = n_workers /\ runas' = runas
BY DEF Next, MasterStep, Starts, StartFails, Listens, ForksWorker, ForkFails, AllForked,
       Waits, WaitReturns, LoopStep, ChangesUser, ChangeUserFails, Wakes, SelectFails,
       Accepts, AcceptFails, Answers, StartsWriting, Writes, GoesRound, Dies, Exits,
       Connects, Stalls, ReadsAgain, config

LEMMA MasterIn == Master \in Processes
BY WorkersAssumption DEF Processes, Master

\* What the master does before it serves moves it on, and a child it forks.
LEMMA MasterMoves ==
  ASSUME TypeOK, MasterStep, ~ForksWorker
  PROVE  /\ user' = user
         /\ pc'[Master] \notin Serving
         /\ \A q \in Processes \ {Master} : pc'[q] = pc[q]
<1> USE MasterIn DEF TypeOK, GoesTo, Serving
<1>1. CASE Starts
  BY <1>1 DEF Starts, Stage
<1>2. CASE StartFails \/ ForkFails
  BY <1>2 DEF StartFails, ForkFails, Exits
<1>3. CASE Listens \/ AllForked
  BY <1>3 DEF Listens, AllForked
<1>4. CASE Waits \/ WaitReturns
  BY <1>4 DEF Waits, WaitReturns
<1> QED
  BY <1>1, <1>2, <1>3, <1>4 DEF MasterStep

\* What a process does after it was started moves it on alone.
LEMMA LoopMoves ==
  ASSUME TypeOK, NEW p \in Processes, LoopStep(p) \/ Dies(p)
  PROVE  /\ spawned' = spawned
         /\ waited' = waited
         /\ pc[p] \in Serving \cup {"runas", "wait"}
         /\ pc'[p] \in Serving \cup Ended
         /\ pc[p] \notin Serving \cup {"runas"} => pc'[p] = "killed"
         /\ \A q \in Processes \ {p} : pc'[q] = pc[q]
BY DEF LoopStep, ChangesUser, ChangeUserFails, Wakes, SelectFails, Accepts, AcceptFails,
       Answers, StartsWriting, Writes, GoesRound, Dies, Exits, GoesTo, TypeOK, Serving,
       Ended

LEMMA BornStep ==
  ASSUME TypeOK, CountType, Born, AllAtWork, Next
  PROVE  CountType' /\ Born' /\ AllAtWork'
<1>1. n_workers' = n_workers
  BY ConfigStays
<1> USE MasterIn DEF Born, AllAtWork, CountType
<1>2. CASE MasterStep
  <2>1. CASE ForksWorker
    BY <2>1, <1>1 DEF ForksWorker, TypeOK, GoesTo, Processes, Master
  <2>2. CASE ~ForksWorker
    <3>1. \A q \in Processes \ {Master} : pc'[q] = pc[q]
      BY <1>2, <2>2, MasterMoves
    <3>2. spawned' = spawned
      BY <1>2, <2>2 DEF MasterStep, Starts, StartFails, Listens, ForkFails, AllForked,
                        Waits, WaitReturns, Exits
    <3>3. pc'[Master] # "unborn"
      BY <1>2, <2>2 DEF MasterStep, Starts, Stage, StartFails, Listens, ForkFails,
                        AllForked, Waits, WaitReturns, Exits, GoesTo, TypeOK
    <3>4. pc'[Master] = "wait" => spawned = n_workers
      BY <1>2, <2>2 DEF MasterStep, Starts, Stage, StartFails, Listens, ForkFails,
                        AllForked, Waits, WaitReturns, Exits, GoesTo, TypeOK
    <3> QED
      BY <1>1, <3>1, <3>2, <3>3, <3>4
  <2> QED
    BY <2>1, <2>2
<1>3. ASSUME NEW p \in Processes, LoopStep(p) \/ Dies(p)
      PROVE  CountType' /\ Born' /\ AllAtWork'
  <2>1. /\ spawned' = spawned
        /\ pc[p] \in Serving \cup {"runas", "wait"}
        /\ pc'[p] \in Serving \cup Ended
        /\ \A q \in Processes \ {p} : pc'[q] = pc[q]
    BY <1>3, LoopMoves
  <2>2. CountType' /\ AllAtWork' /\ pc'[Master] # "unborn"
    BY <1>1, <2>1 DEF Serving, Ended
  <2>3. ASSUME NEW w \in Processes \ {Master}, spawned < w
        PROVE  pc'[w] = "unborn"
    BY <2>1, <2>3 DEF Serving
  <2> QED
    BY <1>1, <2>1, <2>2, <2>3
<1>4. ASSUME NEW c \in Clients, Connects(c) \/ Stalls(c) \/ ReadsAgain(c)
      PROVE  CountType' /\ Born' /\ AllAtWork'
  <2>1. pc' = pc /\ spawned' = spawned
    BY <1>4 DEF Connects, Stalls, ReadsAgain
  <2> QED
    BY <1>1, <2>1
<1> QED
  BY <1>2, <1>3, <1>4 DEF Next

LEMMA ListensStep ==
  ASSUME TypeOK, WhoListens, Next
  PROVE  WhoListens'
<1>1. n_workers' = n_workers
  BY ConfigStays
<1> USE MasterIn DEF GoesTo, TypeOK, WhoListens
<1>2. CASE MasterStep
  <2>1. CASE Starts
    BY <2>1, <1>1 DEF Starts, Stage, clients
  <2>2. CASE StartFails \/ ForkFails
    <3>1. /\ pc' = [pc EXCEPT ![Master] = "failed"]
          /\ listening' = listening \ {Master}
      BY <2>2 DEF StartFails, ForkFails, Exits, StopsListening
    <3> QED
      BY <1>1, <3>1
  <2>3. CASE Listens
    BY <2>3, <1>1 DEF Listens
  <2>4. CASE ForksWorker
    BY <2>4, <1>1 DEF ForksWorker, Master
  <2>5. CASE AllForked
    <3>1. /\ pc' = [pc EXCEPT ![Master] = "wait"]
          /\ listening' = listening \ {Master}
      BY <2>5 DEF AllForked, StopsListening
    <3> QED
      BY <1>1, <3>1
  <2>6. CASE Waits \/ WaitReturns
    BY <2>6, <1>1 DEF Waits, WaitReturns
  <2> QED
    BY <1>2, <2>1, <2>2, <2>3, <2>4, <2>5, <2>6 DEF MasterStep
<1>3. ASSUME NEW p \in Processes, LoopStep(p) \/ Dies(p)
      PROVE  WhoListens'
  <2>1. CASE ChangeUserFails(p) \/ SelectFails(p) \/ Dies(p)
    <3>1. /\ pc'[p] \in Ended
          /\ \A q \in Processes \ {p} : pc'[q] = pc[q]
          /\ listening' = listening \ {p}
      BY <2>1 DEF ChangeUserFails, SelectFails, Dies, Exits, StopsListening, Ended
    <3> QED
      BY <1>1, <3>1 DEF Ended
  <2>2. CASE ~(ChangeUserFails(p) \/ SelectFails(p) \/ Dies(p))
    <3>1. listening' = listening
      BY <1>3, <2>2 DEF LoopStep, ChangesUser, Wakes, Accepts, AcceptFails, Answers,
                        StartsWriting, Writes, GoesRound, clients
    <3>2. pc[p] # "fork" /\ (pc'[p] \in {"handle", "write"} => p \in listening)
      BY <1>3, <2>2 DEF LoopStep, ChangesUser, Wakes, Accepts, AcceptFails, Answers,
                        StartsWriting, Writes, GoesRound
    <3>3. \A q \in Processes \ {p} : pc'[q] = pc[q]
      BY <1>3, LoopMoves
    <3> QED
      BY <1>1, <3>1, <3>2, <3>3
  <2> QED
    BY <2>1, <2>2
<1>4. ASSUME NEW c \in Clients, Connects(c) \/ Stalls(c) \/ ReadsAgain(c)
      PROVE  WhoListens'
  BY <1>4, <1>1 DEF Connects, Stalls, ReadsAgain
<1> QED
  BY <1>2, <1>3, <1>4 DEF Next

\* The dead only become more.
LEMMA CountedStep ==
  ASSUME TypeOK, CountType, Born, AllAtWork, Counted, Next
  PROVE  Counted'
<1>1. TypeOK' /\ CountType' /\ Born'
  BY TypeStep, BornStep
<1>2. IsFiniteSet(Dead) /\ IsFiniteSet(Dead')
  <2>1. IsFiniteSet(Dead)
    BY DeadFinite
  <2>2. Dead' \subseteq 1..spawned'
    BY <1>1 DEF Dead, Born, TypeOK, Ended, Processes, Master
  <2>3. IsFiniteSet(1..spawned')
    BY <1>1, FS_Interval DEF TypeOK
  <2> QED
    BY <2>1, <2>2, <2>3, FS_Subset
<1>3. Dead \subseteq Dead'
  BY EndedStay DEF Dead, Ended
<1>4. Cardinality(Dead) <= Cardinality(Dead')
  BY <1>2, <1>3, FS_Subset
<1>5. Cardinality(Dead) \in Nat /\ Cardinality(Dead') \in Nat
  BY <1>2, FS_CardinalityType
<1>6. waited' = waited \/ waited' <= Cardinality(Dead)
  <2>1. CASE Waits
    BY <2>1, <1>5 DEF Waits, TypeOK
  <2>2. CASE MasterStep /\ ~Waits
    BY <2>2 DEF MasterStep, Starts, StartFails, Listens, ForksWorker, ForkFails, Exits,
                AllForked, WaitReturns
  <2>3. ASSUME NEW p \in Processes, LoopStep(p) \/ Dies(p)
        PROVE  waited' = waited
    BY <2>3 DEF LoopStep, Dies, ChangesUser, ChangeUserFails, Wakes, SelectFails,
                Accepts, AcceptFails, Answers, StartsWriting, Writes, GoesRound, Exits
  <2>4. ASSUME NEW c \in Clients, Connects(c) \/ Stalls(c) \/ ReadsAgain(c)
        PROVE  waited' = waited
    BY <2>4 DEF Connects, Stalls, ReadsAgain
  <2> QED
    BY <2>1, <2>2, <2>3, <2>4 DEF Next
<1> QED
  BY <1>1, <1>4, <1>5, <1>6 DEF Counted, TypeOK

\* When Wait returns, as many workers have ended as there are.
LEMMA AllDead ==
  ASSUME TypeOK, CountType, Born, AllAtWork, Counted, n_workers > 0, WaitReturns,
         NEW w \in 1..n_workers
  PROVE  pc[w] \in Ended
<1>1. IsFiniteSet(Dead) /\ Dead \subseteq 1..spawned
  BY DeadFinite
<1>2. spawned = n_workers /\ n_workers <= Cardinality(Dead)
  BY <1>1, FS_CardinalityType DEF WaitReturns, HasWaited, AllAtWork, Counted, TypeOK
<1>3. IsFiniteSet(1..spawned) /\ Cardinality(1..spawned) = spawned
  BY <1>2, FS_Interval DEF TypeOK
<1>4. Cardinality(Dead) <= spawned /\ Cardinality(Dead) \in Nat
  BY <1>1, <1>3, FS_Subset, FS_CardinalityType
<1>5. Cardinality(1..spawned) = Cardinality(Dead)
  BY <1>2, <1>3, <1>4 DEF TypeOK
<1>6. Dead = 1..spawned
  BY <1>1, <1>3, <1>5, FS_Subset
<1> QED
  BY <1>2, <1>6 DEF Dead

LEMMA WaitsForAllStep ==
  ASSUME TypeOK, CountType, Born, AllAtWork, Counted, WaitsForAll, Next
  PROVE  WaitsForAll'
<1> DEFINE After == {"runas", "ended"} \cup Serving
<1>1. SUFFICES ASSUME n_workers' > 0, pc'[Master] \in After, NEW w \in 1..n_workers'
               PROVE  pc'[w] \in Ended
  BY DEF WaitsForAll
<1>2. n_workers' = n_workers
  BY ConfigStays
<1>3. pc[Master] \in After \/ WaitReturns
  <2> USE DEF Starting, Serving, Ended, Processes, Master, GoesTo, TypeOK
  <2>1. CASE MasterStep
    <3>1. CASE Starts
      BY <3>1, <1>1 DEF Starts, Stage
    <3>2. CASE StartFails
      BY <3>2, <1>1 DEF StartFails, Exits, Stage
    <3>3. CASE Listens
      BY <3>3, <1>1, <1>2 DEF Listens
    <3>4. CASE ForksWorker
      BY <3>4, <1>1 DEF ForksWorker
    <3>5. CASE ForkFails \/ AllForked
      BY <3>5, <1>1 DEF ForkFails, Exits, AllForked
    <3>6. CASE Waits \/ WaitReturns
      BY <3>6, <1>1 DEF Waits
    <3> QED
      BY <2>1, <3>1, <3>2, <3>3, <3>4, <3>5, <3>6 DEF MasterStep
  <2>2. ASSUME NEW p \in Processes, LoopStep(p) \/ Dies(p)
        PROVE  pc[Master] \in After
    <3>1. /\ pc[p] \notin Serving \cup {"runas"} => pc'[p] = "killed"
          /\ \A q \in Processes \ {p} : pc'[q] = pc[q]
      BY <2>2, LoopMoves
    <3> QED
      BY <1>1, <3>1, MasterIn
  <2>3. ASSUME NEW c \in Clients, Connects(c) \/ Stalls(c) \/ ReadsAgain(c)
        PROVE  pc[Master] \in After
    BY <2>3, <1>1 DEF Connects, Stalls, ReadsAgain
  <2> QED
    BY <2>1, <2>2, <2>3 DEF Next
<1>4. pc[w] \in Ended
  BY <1>1, <1>2, <1>3, AllDead DEF WaitsForAll
<1>5. w \in Processes
  BY <1>1, <1>2, WorkersAssumption DEF CountType, TypeOK, Processes, Master
<1> QED
  BY <1>4, <1>5, EndedStay

LEMMA ServesStep ==
  ASSUME TypeOK, CountType, ServesUnprivileged, Next
  PROVE  ServesUnprivileged'
<1>1. runas' = runas
  BY ConfigStays
<1>2. CASE MasterStep
  <2>1. CASE ForksWorker
    BY <2>1, <1>1 DEF ForksWorker, CountType, TypeOK, GoesTo, Processes, Master, Serving,
                      ServesUnprivileged
  <2>2. CASE ~ForksWorker
    BY <2>2, <1>1, <1>2, MasterMoves DEF ServesUnprivileged
  <2> QED
    BY <2>1, <2>2
<1>3. ASSUME NEW p \in Processes, LoopStep(p) \/ Dies(p)
      PROVE  ServesUnprivileged'
  <2>1. CASE ChangesUser(p)
    BY <2>1, <1>1 DEF ChangesUser, TypeOK, GoesTo, ServesUnprivileged
  <2>2. CASE ~ChangesUser(p)
    <3>1. user' = user
      BY <1>3, <2>2 DEF LoopStep, Dies, ChangeUserFails, Wakes, SelectFails, Accepts,
                        AcceptFails, Answers, StartsWriting, Writes, GoesRound, Exits
    <3>2. pc'[p] \in Serving => pc[p] \in Serving
      BY <1>3, <2>2 DEF LoopStep, Dies, ChangeUserFails, Wakes, SelectFails, Accepts,
                        AcceptFails, Answers, StartsWriting, Writes, GoesRound, Exits,
                        GoesTo, TypeOK, Serving
    <3>3. \A q \in Processes \ {p} : pc'[q] = pc[q]
      BY <1>3, LoopMoves
    <3> QED
      BY <1>1, <3>1, <3>2, <3>3 DEF ServesUnprivileged
  <2> QED
    BY <2>1, <2>2
<1>4. ASSUME NEW c \in Clients, Connects(c) \/ Stalls(c) \/ ReadsAgain(c)
      PROVE  ServesUnprivileged'
  BY <1>4, <1>1 DEF Connects, Stalls, ReadsAgain, ServesUnprivileged
<1> QED
  BY <1>2, <1>3, <1>4 DEF Next

\* Accepts is the only step that gives a connection an owner.
LEMMA AcceptsStep ==
  ASSUME TypeOK, WhoListens, MasterNeverServes, Next
  PROVE  MasterNeverServes'
<1> USE DEF Starting, Serving, Ended, Processes, Master, Nobody, GoesTo, TypeOK,
            MasterNeverServes, config, clients
<1>1. CASE MasterStep
  BY <1>1 DEF MasterStep, Starts, StartFails, Listens, ForksWorker, ForkFails, AllForked,
              Waits, WaitReturns, Exits, StopsListening
<1>2. ASSUME NEW p \in Processes, LoopStep(p) \/ Dies(p)
      PROVE  MasterNeverServes'
  <2>1. CASE Accepts(p)
    <3>1. n_workers > 0 => p # Master
      BY <2>1 DEF Accepts, WhoListens
    <3> QED
      BY <2>1, <3>1 DEF Accepts
  <2>2. CASE ~Accepts(p)
    BY <1>2, <2>2 DEF LoopStep, Dies, ChangesUser, ChangeUserFails, Wakes, SelectFails,
                AcceptFails, Answers, StartsWriting, Writes, GoesRound, Exits,
                StopsListening
  <2> QED
    BY <2>1, <2>2
<1>3. ASSUME NEW c \in Clients, Connects(c) \/ Stalls(c) \/ ReadsAgain(c)
      PROVE  MasterNeverServes'
  BY <1>3 DEF Connects, Stalls, ReadsAgain
<1> QED
  BY <1>1, <1>2, <1>3 DEF Next

-----------------------------------------------------------------------------
(* Theorems *)

LEMMA InitHolds ==
  Init => IInv
<1> SUFFICES ASSUME Init PROVE IInv
  OBVIOUS
<1> USE WorkersAssumption DEF Init, Starting, Serving, Ended, Processes, Master, Nobody
<1>1. TypeOK /\ CountType
  <2>1. n_workers \in Int /\ n_workers <= MaxWorkers
    BY DEF Configured
  <2> QED
    BY <2>1 DEF TypeOK, CountType
<1>2. Born /\ WhoListens /\ AllAtWork
  BY DEF Born, WhoListens, AllAtWork
<1>3. Counted
  <2>1. Dead = {}
    BY DEF Dead
  <2> QED
    BY <2>1, FS_EmptySet DEF Counted
<1>4. WaitsForAll /\ ServesUnprivileged /\ MasterNeverServes
  BY DEF WaitsForAll, ServesUnprivileged, MasterNeverServes
<1> QED
  BY <1>1, <1>2, <1>3, <1>4 DEF IInv

LEMMA StepHolds ==
  IInv /\ [Next]_vars => IInv'
<1> SUFFICES ASSUME IInv, [Next]_vars PROVE IInv'
  OBVIOUS
<1>1. CASE Next
  BY <1>1, TypeStep, BornStep, ListensStep, CountedStep, WaitsForAllStep, ServesStep,
     AcceptsStep
  DEF IInv
<1>2. CASE UNCHANGED vars
  <2>1. TypeOK' /\ CountType' /\ Born' /\ AllAtWork' /\ WhoListens'
    BY <1>2 DEF vars, config, clients, IInv, TypeOK, CountType, Born, AllAtWork, WhoListens
  <2>2. Counted' /\ WaitsForAll' /\ ServesUnprivileged' /\ MasterNeverServes'
    BY <1>2 DEF vars, config, clients, IInv, Counted, Dead, WaitsForAll, ServesUnprivileged,
                MasterNeverServes
  <2> QED
    BY <2>1, <2>2 DEF IInv
<1> QED
  BY <1>1, <1>2

LEMMA Invariance ==
  Spec => []IInv
<1> QED
  BY InitHolds, StepHolds, PTL DEF Spec

\* Every variable keeps its type.
THEOREM TypeCorrect ==
  Spec => []TypeOK
<1>1. IInv => TypeOK
  BY DEF IInv
<1> QED
  BY <1>1, Invariance, PTL

\* When runas is set, no process of the server serves as root, however many
\* workers there are and whichever start, end or fail to start.
THEOREM PrivilegesDropped ==
  Spec => []ServesUnprivileged
<1>1. IInv => ServesUnprivileged
  BY DEF IInv
<1> QED
  BY <1>1, Invariance, PTL

\* A master of workers never accepts a connection.
THEOREM MasterOnlyWaits ==
  Spec => []MasterNeverServes
<1>1. IInv => MasterNeverServes
  BY DEF IInv
<1> QED
  BY <1>1, Invariance, PTL

\* When the master has come back from Wait, every worker has ended: as many
\* processes have as Wait counts, and there are no others.
THEOREM WaitIsComplete ==
  Spec => []WaitsForAll
<1>1. IInv => WaitsForAll
  BY DEF IInv
<1> QED
  BY <1>1, Invariance, PTL

=============================================================================
