----------------------------- MODULE Disruptor ------------------------------
(***************************************************************************)
(* The side of the disruptor that every producer shares: the ring buffer,  *)
(* the consumer threads that the builder starts (consumer.rs), the event   *)
(* pollers driven by client threads (consumer/event_poller.rs), and the    *)
(* gated sequences advanced by client threads (sequence.rs).               *)
(*                                                                         *)
(* Consumers stand in stages, which is the only dependency graph the       *)
(* fluent builder can build: stage 1 reads what the producers published,   *)
(* stage k + 1 reads what every consumer of stage k has signalled, capped  *)
(* by the gates given to and_then_with_dependents.                         *)
(*                                                                         *)
(* One action is one access to shared memory together with the thread's    *)
(* local computation up to the next access.  A handler or an update        *)
(* closure is not atomic: it owns its slots from the step that grants them *)
(* to the step that signals them.                                          *)
(*                                                                         *)
(* The wait strategies of this module are the spinning ones, whose         *)
(* notifier does nothing; the blocking ones are the subject of             *)
(* BlockingWait.                                                           *)
(***************************************************************************)
EXTENDS RingBuffer, Sequences

CONSTANTS
  Managed,          \* Consumers that run on a thread of the disruptor.
  Pollers,          \* Consumers driven through an EventPoller.
  Gates,            \* External gated sequences.
  LastStage,        \* The number of stages.
  Stage,            \* The stage of every consumer.
  StageGates,       \* The gates of every stage (none for stage 1).
  ProducerBarrier,  \* Names the producer barrier, the source of stage 1.
  Faulty,           \* Managed consumers whose handler may panic.
  Limits,           \* The limits that clients pass to poll_take.
  GateValues        \* The values that clients store into gates.

Consumers == Managed \cup Pollers

ConsumersAt(k) == {c \in Consumers : Stage[c] = k}

ASSUME TopologyAssumption ==
  /\ LastStage \in Nat \ {0}
  /\ Stage \in [Consumers -> 1 .. LastStage]
  /\ \A k \in 1 .. LastStage : ConsumersAt(k) # {}
  /\ StageGates \in [1 .. LastStage -> SUBSET Gates]
  /\ StageGates[1] = {}
  /\ Managed \cap Pollers = {}
  /\ Consumers \cap Gates = {}
  /\ ProducerBarrier \notin Consumers \cup Gates
  /\ Faulty \subseteq Managed
  /\ Limits \subseteq Nat
  /\ GateValues \subseteq Int

VARIABLES
  slots,                 \* The event in every slot: the sequence it was written for.
  counter,               \* The atomic of every consumer cursor and of every gate.
  shutdown_at_sequence,
  pc,                    \* Where every consumer is.
  todo,                  \* The cells of its barrier a consumer has yet to load.
  available,             \* The least value loaded so far, then the upper bound granted.
  next,                  \* The next sequence a consumer will read.
  limit,                 \* The limit of a poller's current poll_take.
  seen,                  \* History: the events a consumer has been handed.
  handed,                \* History: the sequences it has been told they have.
  skipped,               \* History: what a client has dropped a guard on unread.
  gateHigh               \* History: the highest value each gate has had.

consumerVars == <<pc, todo, available, next, limit, seen, handed, skipped>>
sharedVars   == <<slots, shutdown_at_sequence>>
disruptorVars == <<sharedVars, counter, consumerVars, gateHigh>>

\* Mutant: the dependents of and_then_with_dependents are left out.
BarrierMutantNoGates(k) ==
  IF k = 1 THEN {ProducerBarrier} ELSE ConsumersAt(k - 1)

\* Mutant: every stage waits for the producer only.
BarrierMutantNoStages(k) == {ProducerBarrier}

\* The cells that get_after loads for a consumer of stage k.
Barrier(k) ==
  IF k = 1 THEN {ProducerBarrier} ELSE ConsumersAt(k - 1) \cup StageGates[k]

\* poll() is poll_take(u64::MAX): no limit.
NoLimit == -1

DisruptorInit ==
  /\ slots = [i \in SlotIndices |-> NONE]
  /\ counter = [x \in Consumers \cup Gates |-> NONE]
  /\ shutdown_at_sequence = NONE
  /\ pc = [c \in Consumers |-> IF c \in Managed THEN "scan" ELSE "idle"]
  /\ todo = [c \in Consumers |-> Barrier(Stage[c])]
  /\ available = [c \in Consumers |-> NONE]
  /\ next = [c \in Consumers |-> 0]
  /\ limit = [c \in Consumers |-> NoLimit]
  /\ seen = [c \in Consumers |-> <<>>]
  /\ handed = [c \in Consumers |-> <<>>]
  /\ skipped = [p \in Pollers |-> {}]
  /\ gateHigh = [g \in Gates |-> NONE]
-----------------------------------------------------------------------------
(* Waiting for events.                                                     *)

\* Mutant: `>` for `>=` in the wait strategy.
IsAvailableMutant(c, upper) == upper > next[c]

\* The wait strategy's test: something at or after the requested sequence.
IsAvailable(c, upper) == upper >= next[c]

\* The upper bound of the grant: poll_take never yields more than its limit.
Granted(c, upper) ==
  IF pc[c] = "poll" /\ limit[c] # NoLimit
    THEN Least(upper, next[c] - 1 + limit[c])
    ELSE upper

\* One load of get_after: consumer c reads the value v in cell x of its
\* barrier.  The last load decides: events are available, or the wait strategy
\* goes on to check for shutdown ("miss"), or poll_take returns NoEvents.
LoadCell(c, x, v) ==
  LET least == IF todo[c] = Barrier(Stage[c]) THEN v ELSE Least(available[c], v)
      last  == todo[c] = {x}
  IN  /\ pc[c] \in {"scan", "poll"}
      /\ x \in todo[c]
      /\ todo' = [todo EXCEPT ![c] = @ \ {x}]
      /\ available' = [available EXCEPT ![c] =
                         IF last /\ IsAvailable(c, least) THEN Granted(c, least) ELSE least]
      /\ pc' = [pc EXCEPT ![c] =
                  IF ~last THEN @
                  ELSE IF IsAvailable(c, least) THEN "read"
                  ELSE IF @ = "poll" THEN "idle" ELSE "miss"]
      /\ UNCHANGED <<sharedVars, counter, next, limit, seen, handed, skipped, gateHigh>>

\* Mutant: any requested shutdown stops a consumer.
StopsAtMutant(s) == shutdown_at_sequence # NONE

\* A thread stops only at the sequence it waits for, not at any shutdown.
StopsAt(s) == shutdown_at_sequence = s

\* No event is available: stop if shutdown was requested at exactly the
\* sequence we wait for, else load the barrier again.
CheckShutdown(c) ==
  /\ pc[c] = "miss"
  /\ IF StopsAt(next[c])
       THEN /\ pc' = [pc EXCEPT ![c] = "stopped"]
            /\ UNCHANGED todo
       ELSE /\ pc' = [pc EXCEPT ![c] = "scan"]
            /\ todo' = [todo EXCEPT ![c] = Barrier(Stage[c])]
  /\ UNCHANGED <<sharedVars, counter, available, next, limit, seen, handed, skipped, gateHigh>>
-----------------------------------------------------------------------------
(* Reading events.                                                         *)

\* A managed thread calls its handler, or the iterator of an event guard yields:
\* both are given the event together with its sequence.
ReadEvent(c) ==
  /\ pc[c] = "read"
  /\ next[c] <= available[c]
  /\ seen' = [seen EXCEPT ![c] = Append(@, slots[slot_index(next[c])])]
  /\ handed' = [handed EXCEPT ![c] = Append(@, next[c])]
  /\ next' = [next EXCEPT ![c] = @ + 1]
  /\ UNCHANGED <<sharedVars, counter, pc, todo, available, limit, skipped, gateHigh>>

\* The handler unwinds, and with it the consumer thread: its cursor stays put.
HandlerPanics(c) ==
  /\ c \in Faulty
  /\ pc[c] = "read"
  /\ next[c] <= available[c]
  /\ pc' = [pc EXCEPT ![c] = "panicked"]
  /\ UNCHANGED <<sharedVars, counter, todo, available, next, limit, seen, handed, skipped, gateHigh>>

\* Mutant: the sequence that follows the batch is released too.
ReleasedMutant(c) == next[c]

\* `sequence` of run_processor_loop has moved past the batch.
Released(c) == next[c] - 1

\* The batch is done: release it to producers and to the next stage.
SignalDone(c) ==
  /\ c \in Managed
  /\ pc[c] = "read"
  /\ next[c] > available[c]
  /\ counter' = [counter EXCEPT ![c] = Released(c)]
  /\ pc' = [pc EXCEPT ![c] = "scan"]
  /\ todo' = [todo EXCEPT ![c] = Barrier(Stage[c])]
  /\ UNCHANGED <<sharedVars, available, next, limit, seen, handed, skipped, gateHigh>>
-----------------------------------------------------------------------------
(* Event pollers.                                                          *)

\* poll and poll_take look for shutdown first, then load the barrier once.
PollTake(p, l) ==
  /\ p \in Pollers
  /\ pc[p] = "idle"
  /\ IF StopsAt(counter[p] + 1)
       THEN /\ pc' = [pc EXCEPT ![p] = "stopped"]
            /\ UNCHANGED <<todo, limit>>
       ELSE /\ pc' = [pc EXCEPT ![p] = "poll"]
            /\ todo' = [todo EXCEPT ![p] = Barrier(Stage[p])]
            /\ limit' = [limit EXCEPT ![p] = l]
  /\ UNCHANGED <<sharedVars, counter, available, next, seen, handed, skipped, gateHigh>>

\* poll_wait hands the loop to a waiter, and takes whatever there is.
PollWait(p) ==
  /\ p \in Pollers
  /\ pc[p] = "idle"
  /\ pc' = [pc EXCEPT ![p] = "scan"]
  /\ todo' = [todo EXCEPT ![p] = Barrier(Stage[p])]
  /\ limit' = [limit EXCEPT ![p] = NoLimit]
  /\ UNCHANGED <<sharedVars, counter, available, next, seen, handed, skipped, gateHigh>>

\* Mutant: the last event of the guard is given back.
DropGuardMutant(p) ==
  /\ p \in Pollers
  /\ pc[p] = "read"
  /\ counter' = [counter EXCEPT ![p] = available[p] - 1]
  /\ next' = [next EXCEPT ![p] = available[p]]
  /\ pc' = [pc EXCEPT ![p] = "idle"]
  /\ skipped' = [skipped EXCEPT ![p] = @ \cup next[p] .. available[p]]
  /\ UNCHANGED <<sharedVars, todo, available, limit, seen, handed, gateHigh>>

\* The guard goes out of scope: everything it was granted counts as read,
\* whether or not the client iterated over it.
DropGuard(p) ==
  /\ p \in Pollers
  /\ pc[p] = "read"
  /\ counter' = [counter EXCEPT ![p] = available[p]]
  /\ next' = [next EXCEPT ![p] = available[p] + 1]
  /\ pc' = [pc EXCEPT ![p] = "idle"]
  /\ skipped' = [skipped EXCEPT ![p] = @ \cup next[p] .. available[p]]
  /\ UNCHANGED <<sharedVars, todo, available, limit, seen, handed, gateHigh>>
-----------------------------------------------------------------------------
(* Gates.                                                                  *)

\* GatedSequence::set, and compare_and_set when it succeeds.  The client may
\* move a gate in either direction.
SetGate(g, v) ==
  /\ counter' = [counter EXCEPT ![g] = v]
  /\ gateHigh' = [gateHigh EXCEPT ![g] = IF v > @ THEN v ELSE @]
  /\ UNCHANGED <<sharedVars, consumerVars>>
-----------------------------------------------------------------------------
(* Properties that hold with either kind of producer.                      *)

DisruptorTypeOK ==
  /\ slots \in [SlotIndices -> Int]
  /\ counter \in [Consumers \cup Gates -> Int]
  /\ shutdown_at_sequence \in Int
  /\ pc \in [Consumers -> {"idle", "scan", "poll", "miss", "read", "stopped", "panicked"}]
  /\ todo \in [Consumers -> SUBSET ({ProducerBarrier} \cup Consumers \cup Gates)]
  /\ available \in [Consumers -> Int]
  /\ next \in [Consumers -> Nat]
  /\ limit \in [Consumers -> Nat \cup {NoLimit}]
  /\ seen \in [Consumers -> Seq(Int)]
  /\ handed \in [Consumers -> Seq(Int)]
  /\ skipped \in [Pollers -> SUBSET Int]
  /\ gateHigh \in [Gates -> Int]

\* The sequences whose slots a handler or an event guard may read.  A handler
\* gives an event back when it returns; what a guard has yielded stays borrowed
\* until the guard is dropped.
Reading(c) ==
  IF pc[c] # "read" THEN {}
  ELSE IF c \in Pollers THEN counter[c] + 1 .. available[c]
  ELSE next[c] .. available[c]

\* A handler is called for every event, once, in sequence order, and finds in
\* the slot the event that was published under that sequence - through batches
\* that wrap the ring, closures that panic, and cached clearances.
ExactlyOnceInOrder ==
  \A c \in Managed : seen[c] = [i \in 1 .. next[c] |-> i - 1]

\* The sequences of the events that poller p has yielded.
Yielded(p) == {handed[p][i] : i \in 1 .. Len(handed[p])}

\* Every event that a guard has yielded was the one of the sequence it came with,
\* and sequence by sequence each one was yielded, in order and once, or given up
\* by a client that dropped a guard before it had iterated over it.
GuardsAccountForAll ==
  \A p \in Pollers :
    /\ seen[p] = handed[p]
    /\ \A i, j \in 1 .. Len(handed[p]) : i < j => handed[p][i] < handed[p][j]
    /\ Yielded(p) \cap skipped[p] = {}
    /\ Yielded(p) \cup skipped[p] = 0 .. next[p] - 1

\* A guard has no more events than poll_take was asked for.
GuardsWithinLimit ==
  \A p \in Pollers :
    /\ pc[p] = "read" /\ limit[p] # NoLimit => available[p] <= counter[p] + limit[p]
    /\ pc[p] \in {"scan", "miss"} => limit[p] = NoLimit

\* What a guard was granted stays in its slots until the guard is dropped, what
\* it has yielded already included.
GuardsHoldEvents ==
  \A p \in Pollers : \A s \in Reading(p) : slots[slot_index(s)] = s

\* Event guards are never stale and never out of order, and no two of them
\* yield the same event; a capped guard leaves the rest to the next one, an
\* empty one leaves everything, and one that is dropped early loses only what
\* it was granted itself.
GuardsYieldInOrder ==
  /\ GuardsAccountForAll
  /\ GuardsWithinLimit
  /\ GuardsHoldEvents

\* and_then: an event reaches a stage only after every consumer of every
\* earlier stage has finished with the batch it belongs to.
StageOrder ==
  \A c, d \in Consumers : Stage[d] < Stage[c] => next[c] - 1 <= counter[d]

\* and_then_with_dependents: no event reaches a gated stage unless each of its
\* gates has stood at or beyond the event's sequence, even if a gate has moved
\* back since.
GateRespected ==
  \A c \in Consumers : \A g \in StageGates[Stage[c]] : next[c] - 1 <= gateHigh[g]
\* Consumer c depends on no other consumer: it has a batch in hand, or has
\* panicked over it, or its next round of loads will find something if the gates
\* let it and the producer barrier is at `upper`.
OnItsOwn(c, upper) ==
  \/ pc[c] \in {"read", "panicked"}
  \/ /\ pc[c] # "stopped"
     /\ \A x \in Barrier(Stage[c]) \ Gates :
          IsAvailable(c, IF x = ProducerBarrier THEN upper ELSE counter[x])

\* Consumer d is the one, or one of those, that keeps c from releasing the event
\* after counter[c]: it has yet to release it too, in an earlier stage or as c.
HoldsUp(d, c) == Stage[d] <= Stage[c] /\ counter[d] = counter[c]

\* The join of consumer c will come to an end: it is over, or it stops as soon as
\* it looks, or it has something to do first (if it stands before `end`).
WillStop(c, end) ==
  \/ pc[c] \in {"read", "stopped", "panicked"}
  \/ counter[c] < end
  \/ StopsAt(next[c])
=============================================================================
