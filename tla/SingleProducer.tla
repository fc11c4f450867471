--------------------------- MODULE SingleProducer ---------------------------
(***************************************************************************)
(* A disruptor with a single producer (src/src/producer/single.rs): the    *)
(* publishing thread claims sequences against the cursors of the last      *)
(* stage, updates the slots in place, and publishes them by storing its    *)
(* own cursor.  Dropping the producer requests shutdown at the sequence    *)
(* it would publish next and joins the managed consumer threads.           *)
(***************************************************************************)
EXTENDS Disruptor

CONSTANTS
  MaxSequence,   \* Bound: the producer stops before this sequence.
  MaxBatch       \* Bound: the largest batch a client asks for.

ASSUME BoundsAssumption == MaxSequence \in Nat /\ MaxBatch \in Nat

VARIABLES
  published,     \* The cursor of SingleProducerBarrier.
  ppc,           \* Where the producer is.
  sequence,      \* The next sequence to be published.
  sequence_clear_of_consumers,
  batch,         \* The n of the call in progress.
  blocking,      \* Does the call spin until there is room?
  ptodo,         \* The consumer cursors the producer has yet to load.
  rear,          \* The least cursor loaded so far.
  filled,        \* How many events of the batch the closure has updated.
  joined,        \* The consumers that drop has joined.
  missing,       \* What the last call returned: 0, or how many slots it lacked.
  roomAtCall     \* History: the sizes there was room for when the call began.

callVars == <<batch, blocking, missing, roomAtCall>>
producerVars == <<published, ppc, sequence, sequence_clear_of_consumers,
                  callVars, ptodo, rear, filled, joined>>
vars == <<disruptorVars, producerVars>>

\* build() gives the producer the cursors of the last stage.
ConsumerBarrier == ConsumersAt(LastStage)

Init ==
  /\ DisruptorInit
  /\ published = NONE
  /\ ppc = "idle"
  /\ sequence = 0
  /\ sequence_clear_of_consumers = Capacity - 1
  /\ batch = 0
  /\ blocking = FALSE
  /\ ptodo = {}
  /\ rear = NONE
  /\ filled = 0
  /\ joined = {}
  /\ missing = 0
  /\ roomAtCall = {}
-----------------------------------------------------------------------------
(* Publishing.                                                             *)

last_published == sequence - 1

\* The slots are there for the taking: no final consumer is a round behind.
HasRoomFor(n) ==
  \A c \in ConsumerBarrier : n <= available_capacity(last_published, counter[c])

\* next_sequences, up to its first load: the cached clearance may suffice.
\* A client calls the spinning variants only with batches that fit the ring,
\* as batch_publish asserts.
BeginPublish(n, spin) ==
  /\ ppc = "idle"
  /\ sequence + n <= MaxSequence
  /\ spin => n <= Capacity
  /\ batch' = n
  /\ blocking' = spin
  /\ missing' = 0
  /\ roomAtCall' = {m \in 0 .. Capacity : HasRoomFor(m)}
  /\ filled' = 0
  /\ IF sequence_clear_of_consumers < last_published + n
       THEN ppc' = "claim" /\ ptodo' = ConsumerBarrier
       ELSE ppc' = "update" /\ UNCHANGED ptodo
  /\ UNCHANGED <<disruptorVars, published, sequence, sequence_clear_of_consumers,
                 rear, joined>>

\* Mutant: the last free slot is never claimed.
EnoughRoomMutant(room) == room > batch

EnoughRoom(room) == room >= batch

\* Mutant: the size of the batch, whatever is free.
MissingFreeSlotsMutant(room) == batch

\* The payload of the error MissingFreeSlots.
MissingFreeSlots(room) == batch - room

\* One load of the consumer barrier and, after the last one, the decision:
\* claim the batch, report the missing slots, or spin and load again.
LoadConsumerCursor(c) ==
  LET least == IF ptodo = ConsumerBarrier THEN counter[c] ELSE Least(rear, counter[c])
      room  == available_capacity(last_published, least)
  IN  /\ ppc = "claim"
      /\ c \in ptodo
      /\ rear' = least
      /\ \/ /\ ptodo # {c}
            /\ ptodo' = ptodo \ {c}
            /\ UNCHANGED <<ppc, sequence_clear_of_consumers, missing>>
         \/ /\ ptodo = {c}
            /\ EnoughRoom(room)
            /\ ptodo' = {}
            /\ ppc' = "update"
            /\ sequence_clear_of_consumers' = last_published + room
            /\ UNCHANGED missing
         \/ /\ ptodo = {c}
            /\ ~EnoughRoom(room)
            /\ ptodo' = IF blocking THEN ConsumerBarrier ELSE {}
            /\ ppc' = IF blocking THEN "claim" ELSE "idle"
            /\ missing' = IF blocking THEN 0 ELSE MissingFreeSlots(room)
            /\ UNCHANGED sequence_clear_of_consumers
      /\ UNCHANGED <<disruptorVars, published, sequence, batch, blocking, roomAtCall, filled,
                     joined>>

\* Mutant: the iterator yields one event too many.
HasNextMutant == filled <= batch

\* MutBatchIter has another event: current <= last.
HasNext == filled < batch

\* The closure updates the next event of the batch.
UpdateEvent ==
  /\ ppc = "update"
  /\ HasNext
  /\ slots' = [slots EXCEPT ![slot_index(sequence + filled)] = sequence + filled]
  /\ filled' = filled + 1
  /\ UNCHANGED <<shutdown_at_sequence, counter, consumerVars, gateHigh, published, ppc,
                 sequence, sequence_clear_of_consumers, callVars, ptodo, rear, joined>>

\* The closure unwinds out of apply_update(s): nothing is published, and the
\* next call claims the same sequences again.
UpdatePanics ==
  /\ ppc = "update"
  /\ ppc' = "idle"
  /\ UNCHANGED <<disruptorVars, published, sequence, sequence_clear_of_consumers,
                 callVars, ptodo, rear, filled, joined>>

\* The closure has returned, having updated the whole batch (a client whose
\* closure drops the iterator early publishes the old contents of the rest):
\* one release store makes all of it visible.
Publish ==
  /\ ppc = "update"
  /\ filled = batch
  /\ published' = sequence + batch - 1
  /\ sequence' = sequence + batch
  /\ ppc' = "idle"
  /\ UNCHANGED <<disruptorVars, sequence_clear_of_consumers, callVars, ptodo, rear,
                 filled, joined>>
-----------------------------------------------------------------------------
(* Shutdown.                                                               *)

\* Mutant: shutdown at the last published sequence.
FinalSequenceMutant == sequence - 1

FinalSequence == sequence

DropProducer ==
  /\ ppc = "idle"
  /\ shutdown_at_sequence' = FinalSequence
  /\ ppc' = IF Managed = {} THEN "dropped" ELSE "joining"
  /\ UNCHANGED <<slots, counter, consumerVars, gateHigh, published, sequence,
                 sequence_clear_of_consumers, callVars, ptodo, rear, filled, joined>>

\* Threads are joined in the order the builder started them, hence stage by
\* stage.  A panicked one makes drop itself panic: the rest is not joined.
JoinConsumer(c) ==
  /\ ppc = "joining"
  /\ c \in Managed \ joined
  /\ \A d \in Managed \ joined : Stage[c] <= Stage[d]
  /\ pc[c] \in {"stopped", "panicked"}
  /\ joined' = joined \cup {c}
  /\ ppc' = IF pc[c] = "panicked" THEN "panicked"
            ELSE IF joined' = Managed THEN "dropped" ELSE "joining"
  /\ UNCHANGED <<disruptorVars, published, sequence, sequence_clear_of_consumers,
                 callVars, ptodo, rear, filled>>
-----------------------------------------------------------------------------
CellValue(x) == IF x = ProducerBarrier THEN published ELSE counter[x]

LoadBarrier(c) == \E x \in todo[c] : LoadCell(c, x, CellValue(x))

\* The steps of a consumer's wait loop and handler loop.
ConsumerStep(c) ==
  /\ \/ LoadBarrier(c)
     \/ CheckShutdown(c)
     \/ ReadEvent(c)
     \/ SignalDone(c)
  /\ UNCHANGED producerVars

\* What a client may do with a poller, a gate or a handler, or may not.
ClientStep ==
  /\ \/ \E c \in Faulty : HandlerPanics(c)
     \/ \E p \in Pollers, l \in Limits \cup {NoLimit} : PollTake(p, l)
     \/ \E p \in Pollers : PollWait(p)
     \/ \E p \in Pollers : DropGuard(p)
     \/ \E g \in Gates, v \in GateValues : SetGate(g, v)
  /\ UNCHANGED producerVars

\* The steps of a call of the producer that is under way.
ProducerStep ==
  \/ \E c \in ConsumerBarrier : LoadConsumerCursor(c)
  \/ UpdateEvent
  \/ Publish
  \/ \E c \in Managed : JoinConsumer(c)

\* Every thread of the disruptor has ended.
Terminated ==
  /\ ppc \in {"dropped", "panicked"}
  /\ \A c \in Consumers : pc[c] \in {"stopped", "panicked"}
  /\ UNCHANGED vars

Next ==
  \/ \E n \in 0 .. MaxBatch, spin \in BOOLEAN : BeginPublish(n, spin)
  \/ ProducerStep
  \/ UpdatePanics
  \/ DropProducer
  \/ \E c \in Consumers : ConsumerStep(c)
  \/ ClientStep
  \/ Terminated

Spec == Init /\ [][Next]_vars

\* Threads that have something to do are scheduled, and closures and handlers
\* return; nobody has to publish, to drop the producer, to poll or to move a
\* gate.
Fairness ==
  /\ WF_vars(ProducerStep)
  /\ \A c \in Consumers : WF_vars(ConsumerStep(c))

FairSpec == Spec /\ Fairness
-----------------------------------------------------------------------------
(* Properties.                                                             *)

TypeOK ==
  /\ DisruptorTypeOK
  /\ published \in NONE .. MaxSequence - 1
  /\ ppc \in {"idle", "claim", "update", "joining", "dropped", "panicked"}
  /\ sequence \in 0 .. MaxSequence
  /\ sequence_clear_of_consumers \in Int
  /\ batch \in 0 .. MaxBatch
  /\ blocking \in BOOLEAN
  /\ ptodo \in SUBSET Consumers
  /\ rear \in Int
  /\ filled \in 0 .. MaxBatch
  /\ joined \in SUBSET Managed
  /\ missing \in Int
  /\ roomAtCall \in SUBSET (0 .. Capacity)

\* The sequences whose slots the update closure may write.
Writing == IF ppc = "update" THEN sequence .. sequence + batch - 1 ELSE {}

\* No data race (the SAFETY comments of ringbuffer.rs, producer/single.rs and
\* consumer.rs): no slot is granted to the update closure while it is granted
\* to a handler or to an event guard.
NoDataRace ==
  \A c \in Consumers : \A r \in Reading(c), w \in Writing : slot_index(r) # slot_index(w)

\* lib.rs: "all events published are processed and then the processing
\* thread(s) will be stopped".  No consumer leaves early, and drop returns only
\* when every managed one has handled everything.
DrainBeforeStop ==
  /\ \A c \in Consumers : pc[c] = "stopped" => next[c] = sequence
  /\ ppc = "dropped" => \A c \in Managed : pc[c] = "stopped" /\ Len(seen[c]) = sequence

\* try_publish and try_batch_publish report a full ring only if it was full, and
\* how many slots were missing: no more than when the call began, although the
\* cursors they take the minimum of are loaded at different times while all of
\* them move; and a batch that is smaller by that number fits the ring.
NoSpuriousFull ==
  [][ppc = "claim" /\ ppc' = "idle" =>
       /\ missing' > 0
       /\ \A m \in roomAtCall : missing' <= batch - m
       /\ HasRoomFor(batch - missing')]_vars

\* Deadlock freedom, the safety half of the liveness properties below.  Whatever
\* is published and not released is held up by a consumer that waits for no other
\* one, a spinning call that lacks room by such an event, and drop joins nobody
\* who does not get to the shutdown sequence.
NobodyWaitsInVain ==
  /\ \A c \in Consumers : counter[c] < published =>
       \E d \in Consumers : HoldsUp(d, c) /\ OnItsOwn(d, published)
  /\ ppc = "claim" /\ blocking =>
       \A c \in ConsumerBarrier :
         EnoughRoom(available_capacity(last_published, counter[c])) \/ counter[c] < published
  /\ ppc = "joining" => \A c \in Managed \ joined : WillStop(c, published)

\* A handler that has panicked may hold up everybody who waits for its slots.
SomeHandlerPanicked == \E c \in Consumers : pc[c] = "panicked"

\* publish and batch_publish return, unless a handler panics.
PublishReturns == (ppc = "claim" /\ blocking) ~> (ppc = "update" \/ SomeHandlerPanicked)

\* Every published event is eventually handled by every managed consumer,
\* unless a handler panics.
EveryEventHandled ==
  \A c \in Managed : \A s \in 0 .. MaxSequence - 1 :
    (published >= s) ~> (next[c] > s \/ SomeHandlerPanicked)

\* Dropping the producer never hangs on a consumer thread, not even when a
\* handler has panicked and its thread will never release another slot.
DropReturns == (ppc = "joining") ~> (ppc \in {"dropped", "panicked"})
-----------------------------------------------------------------------------
(* The inductive invariant.                                                *)

\* A cursor is right behind the next sequence to read, except inside a batch,
\* where it lags behind.
CursorBehindNext ==
  \A c \in Consumers :
    /\ NONE <= counter[c]
    /\ IF pc[c] \in {"read", "panicked"}
         THEN counter[c] <= next[c] - 1 /\ next[c] - 1 <= available[c]
         ELSE counter[c] = next[c] - 1

\* No cursor overtakes the producer or a cursor of an earlier stage.
CursorOrder ==
  \A c \in Consumers :
    /\ counter[c] <= published
    /\ \A d \in Consumers : Stage[d] < Stage[c] => counter[c] <= counter[d]

\* What a gate has been read as is no higher than it has ever stood.
Reached(x) == IF x \in Gates THEN gateHigh[x] ELSE CellValue(x)

\* A barrier scan has a lower bound of the cells it has loaded so far.
ScanBehindCells ==
  \A c \in Consumers :
    pc[c] \in {"scan", "poll"} =>
      /\ todo[c] \subseteq Barrier(Stage[c])
      /\ \A x \in Barrier(Stage[c]) \ todo[c] : available[c] <= Reached(x)

\* A grant covers only what has been published, what every consumer of every
\* earlier stage has released, and what the gates have let through.
GrantBehindEarlierStages ==
  \A c \in Consumers :
    pc[c] \in {"read", "panicked"} =>
      /\ available[c] <= published
      /\ \A d \in Consumers : Stage[d] < Stage[c] => available[c] <= counter[d]
      /\ \A h \in StageGates[Stage[c]] : available[c] <= gateHigh[h]

\* The cached clearance never reaches the slot of an event that is not yet
\* released by every consumer, and the claimed batch is within it.
ClearanceBehindConsumers ==
  /\ \A c \in Consumers : sequence_clear_of_consumers <= counter[c] + Capacity
  /\ ppc = "claim" =>
       /\ ptodo \subseteq ConsumerBarrier
       /\ \A c \in ConsumerBarrier \ ptodo : rear <= counter[c]
  /\ ppc = "update" => sequence + batch - 1 <= sequence_clear_of_consumers
  /\ ppc \in {"claim", "update"} => filled <= batch
  /\ sequence + (IF ppc \in {"claim", "update"} THEN batch ELSE 0) <= MaxSequence
  /\ published = sequence - 1

\* Gates remember their highest value, and no event has passed one unseen.
GatesBehindHigh ==
  /\ \A h \in Gates : counter[h] <= gateHigh[h]
  /\ GateRespected

IndInv ==
  /\ TypeOK
  /\ CursorBehindNext
  /\ CursorOrder
  /\ ScanBehindCells
  /\ GrantBehindEarlierStages
  /\ GatesBehindHigh
  /\ ClearanceBehindConsumers
-----------------------------------------------------------------------------
(* What IndInv says of positions, LogInv says of events, calls and shutdown. *)

\* A slot holds its event from the update on until the producer may overwrite
\* it, which is later than the last consumer needs it.
SlotsHoldEvents ==
  /\ \A s \in 0 .. published :
       sequence_clear_of_consumers < s + Capacity => slots[slot_index(s)] = s
  /\ ppc \in {"claim", "update"} =>
       \A s \in sequence .. sequence + filled - 1 : slots[slot_index(s)] = s

\* A call that looks at the consumers had to: its clearance is too small.  What
\* there was room for when it began, there still is room for, and it has seen no
\* less.  It spins only for a batch that fits the ring.
ClaimSeesRoom ==
  ppc = "claim" =>
    /\ sequence_clear_of_consumers < last_published + batch
    /\ \A m \in roomAtCall :
         /\ HasRoomFor(m)
         /\ ptodo # ConsumerBarrier => m <= available_capacity(last_published, rear)
    /\ blocking => batch <= Capacity

Ended == ppc \in {"joining", "dropped", "panicked"}

\* Shutdown is requested at the final sequence, consumers stop there, and
\* joining is over when all managed ones have.
ShutdownAtSequence ==
  /\ shutdown_at_sequence = IF Ended THEN sequence ELSE NONE
  /\ \A c \in Consumers : pc[c] = "stopped" => Ended /\ next[c] = sequence
  /\ ~Ended => joined = {}
  /\ ppc \in {"joining", "dropped"} => \A c \in joined : pc[c] = "stopped"
  /\ ppc = "dropped" => joined = Managed

LogInv ==
  /\ IndInv
  /\ SlotsHoldEvents
  /\ ExactlyOnceInOrder
  /\ GuardsAccountForAll
  /\ ClaimSeesRoom
  /\ ShutdownAtSequence
-----------------------------------------------------------------------------
(* The implementation of Broadcast.                                        *)

Promise ==
  INSTANCE Broadcast WITH
    topology <- [capacity |-> Capacity, stage |-> Stage, gates |-> StageGates,
                 managed |-> Managed],
    written  <- 0 .. published,
    granted  <- [c \in Consumers |-> IF pc[c] \in {"read", "panicked"} THEN available[c]
                                                                      ELSE counter[c]],
    released <- [c \in Consumers |-> counter[c]],
    high     <- gateHigh,
    final    <- shutdown_at_sequence,
    stopped  <- {c \in Consumers : pc[c] = "stopped"},
    returned <- ppc = "dropped" /\ Managed # {}

\* Cursors, caches and slots together are the bounded, staged log of
\* Broadcast: what is written is never overwritten before everybody has
\* released it, batches never run ahead, and nobody stops early.
ImplementsBroadcast == Promise!LogSpec
=============================================================================
