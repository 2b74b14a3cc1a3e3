-------------------------------- MODULE Sue --------------------------------
(***************************************************************************)
(* The data structures of the event selector (externals/sue/sue_base.c):   *)
(* the list of timeout handlers and the table of descriptor handlers.      *)
(*                                                                         *)
(* The list is a sequence of handlers; "due" maps a handler to the moment  *)
(* it is to fire, the pair (sec, usec) taken as one number of ticks.       *)
(* The table is a function from descriptors to handlers or NoHandler; its  *)
(* allocated length is a number of its own, as in the C structure.         *)
(***************************************************************************)
EXTENDS Integers, Sequences, SequencesExt

CONSTANTS SizeStep,    \* fdhandlers_size_step
          NoHandler    \* the NULL pointer of the fdhandlers array

ASSUME SizeStepAssumption == SizeStep \in Nat \ {0}

-----------------------------------------------------------------------------
(* Timeout handlers *)

EarlierThan(due, h, t) == due[h] < t

\* The place register_timeout_handler's walk stops at: it passes every item
\* that the new handler is strictly earlier than.
Place(list, due, h) ==
  CHOOSE k \in 1..(Len(list) + 1) :
    /\ \A j \in 1..(k - 1) : EarlierThan(due, h, due[list[j]])
    /\ k <= Len(list) => ~EarlierThan(due, h, due[list[k]])

\* Mutation: the newest handler goes first, whatever its moment.
RegisterFirst(list, due, h) == <<h>> \o list

RegisterTimeout(list, due, h) == InsertAt(list, Place(list, due, h), h)

\* remove_timeout_handler's walk gives up at the first item, other than the
\* handler sought, that is earlier than it.
ReachedAt(list, due, h, k) ==
  /\ list[k] = h
  /\ \A j \in 1..(k - 1) :
        list[j] # h /\ ~EarlierThan(due, list[j], due[h])

\* Mutation: the walk gives up at an item the handler is earlier than, as
\* if the list were ascending.
RemoveAscending(list, due, h) ==
  LET Found(k) == list[k] = h /\ \A j \in 1..(k - 1) : due[list[j]] <= due[h]
  IN  IF \E k \in 1..Len(list) : Found(k)
      THEN RemoveAt(list, CHOOSE k \in 1..Len(list) : Found(k))
      ELSE list

RemoveTimeout(list, due, h) ==
  IF \E k \in 1..Len(list) : ReachedAt(list, due, h, k)
  THEN RemoveAt(list, CHOOSE k \in 1..Len(list) : ReachedAt(list, due, h, k))
  ELSE list

\* What the two operators above keep: no item is earlier than a later one.
Descending(list, due) ==
  \A j, k \in 1..Len(list) : j < k => due[list[j]] >= due[list[k]]

Distinct(list) ==
  \A j, k \in 1..Len(list) : j # k => list[j] # list[k]

-----------------------------------------------------------------------------
(* Descriptor handlers *)

\* register_fd_handler grows the array once, by one step.
\* Mutation: an off-by-one in the test for room.
GrownSizeOffByOne(size, fd) == IF size < fd THEN size + SizeStep ELSE size

GrownSize(size, fd) == IF size <= fd THEN size + SizeStep ELSE size

MaxFdAfterRegister(max, fd) == IF fd > max THEN fd ELSE max

\* remove_fd_handler walks max_fd down WHILE the slot it is at is occupied.
\* Mutation: max_fd steps down once for every handler removed.
MaxFdStepsDown(max, fd, table) == max - 1

MaxFdAfterRemove(max, fd, table) ==
  IF fd # max
  THEN max
  ELSE CHOOSE m \in -1..max :
         /\ m >= 0 => table[m] = NoHandler
         /\ \A j \in (m + 1)..max : table[j] # NoHandler

=============================================================================
