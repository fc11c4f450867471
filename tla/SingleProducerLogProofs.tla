---------------------- MODULE SingleProducerLogProofs -----------------------
(***************************************************************************)
(* Proofs that the single producer's disruptor is the log of Broadcast,    *)
(* for every capacity, topology, batch size and number of events: events   *)
(* arrive once, in order and unharmed, shutdown comes after the last one,  *)
(* nobody waits in vain, and every step is one of Broadcast or none.       *)
(*                                                                         *)
(* IndInv says how far everybody may be; LogInv adds what is in the slots, *)
(* what consumers have been handed, what a call may conclude from the      *)
(* cursors it loads, and where shutdown stands.  There is one lemma for    *)
(* each of these parts.                                                    *)
(***************************************************************************)
EXTENDS SingleProducerProofs

\* The typed facts of the invariant about the producer.
LEMMA ProducerTypes ==
  ASSUME TypeOK
  PROVE  /\ published \in Int /\ sequence \in Nat /\ sequence_clear_of_consumers \in Int
         /\ batch \in Nat /\ filled \in Nat /\ rear \in Int
         /\ ptodo \in SUBSET Consumers
         /\ shutdown_at_sequence \in Int
         /\ slots \in [SlotIndices -> Int]
         /\ Capacity \in Nat \ {0}
         /\ NONE \in Int
BY BoundsAssumption, CapacityAssumption DEF TypeOK, DisruptorTypeOK, NONE

\* Somebody reads: without consumers there would be nobody to keep up with.
LEMMA SomeConsumer == \E c \in Consumers : c \in ConsumerBarrier
BY TopologyAssumption DEF ConsumerBarrier, ConsumersAt

\* The steps of consumers and clients change none of the producer's variables,
\* no slot and no shutdown.
LEMMA ConsumersLeaveProducerAlone ==
  ASSUME (\E c \in Consumers : ConsumerStep(c)) \/ ClientStep
  PROVE  /\ UNCHANGED <<slots, shutdown_at_sequence>>
         /\ UNCHANGED <<published, ppc, sequence, sequence_clear_of_consumers, batch, blocking,
                        missing, roomAtCall, ptodo, rear, filled, joined>>
BY DEF ConsumerStep, ClientStep, LoadBarrier, LoadCell, CheckShutdown, ReadEvent, SignalDone,
       HandlerPanics, PollTake, PollWait, DropGuard, SetGate, sharedVars, producerVars, callVars

\* The steps of the producer move no consumer and no cursor.
LEMMA ProducerLeavesConsumersAlone ==
  ASSUME \/ \E n \in 0 .. MaxBatch, spin \in BOOLEAN : BeginPublish(n, spin)
         \/ ProducerStep
         \/ UpdatePanics
         \/ DropProducer
  PROVE  UNCHANGED <<counter, consumerVars, gateHigh>>
BY DEF BeginPublish, ProducerStep, LoadConsumerCursor, UpdateEvent, Publish, JoinConsumer,
       UpdatePanics, DropProducer, disruptorVars

\* No consumer's cursor ever moves back.
LEMMA CursorsAdvance ==
  ASSUME IndInv, [Next]_vars
  PROVE  \A c \in Consumers : counter[c] <= counter'[c]
<1> SUFFICES ASSUME NEW c \in Consumers PROVE counter[c] <= counter'[c]
  OBVIOUS
<1> USE Topology
<1>0. /\ TypeOK /\ CursorBehindNext
      /\ counter \in [Consumers \cup Gates -> Int]
      /\ counter[c] \in Int
  BY DEF IndInv, TypeOK, DisruptorTypeOK
<1>1. CASE counter' = counter
  BY <1>0, <1>1
<1>2. ASSUME NEW d \in Consumers, SignalDone(d) PROVE counter[c] <= counter'[c]
  <2>1. counter' = [counter EXCEPT ![d] = next[d] - 1] /\ counter[d] <= next[d] - 1
    BY <1>0, <1>2 DEF SignalDone, Released, CursorBehindNext
  <2> QED
    BY <1>0, <2>1
<1>3. ASSUME NEW d \in Pollers, DropGuard(d) PROVE counter[c] <= counter'[c]
  <2>1. counter' = [counter EXCEPT ![d] = available[d]]
    BY <1>3 DEF DropGuard
  <2>2. counter[d] <= next[d] - 1 /\ next[d] - 1 <= available[d]
    BY <1>0, <1>3 DEF DropGuard, CursorBehindNext
  <2>3. next[d] \in Int /\ available[d] \in Int /\ counter[d] \in Int
    BY <1>0, ConsumerTypes
  <2>4. counter[d] <= available[d]
    BY <2>2, <2>3
  <2> QED
    BY <1>0, <2>1, <2>4
<1>4. ASSUME NEW h \in Gates, NEW v \in GateValues, SetGate(h, v) PROVE counter[c] <= counter'[c]
  BY <1>0, <1>4 DEF SetGate
<1>5. CASE \/ \E n \in 0 .. MaxBatch, spin \in BOOLEAN : BeginPublish(n, spin)
           \/ ProducerStep
           \/ UpdatePanics
           \/ DropProducer
  BY <1>1, <1>5, ProducerLeavesConsumersAlone
<1>6. CASE \E d \in Consumers : ConsumerStep(d)
  BY <1>1, <1>2, <1>6 DEF ConsumerStep, LoadBarrier, LoadCell, CheckShutdown, ReadEvent
<1>7. CASE ClientStep
  BY <1>1, <1>3, <1>4, <1>7 DEF ClientStep, HandlerPanics, PollTake, PollWait
<1>8. CASE UNCHANGED vars
  BY <1>1, <1>8 DEF vars, disruptorVars
<1> QED
  BY <1>5, <1>6, <1>7, <1>8 DEF Next, Terminated

\* Every slot a consumer may still need holds its own event.  The closure only
\* writes slots within the clearance, hence more than a round behind nobody.
LEMMA SlotsHoldEventsStep ==
  ASSUME IndInv, SlotsHoldEvents, ClaimSeesRoom, [Next]_vars
  PROVE  SlotsHoldEvents'
<1>0. TypeOK /\ ClearanceBehindConsumers /\ CursorOrder
  BY DEF IndInv
<1>1. /\ published \in Int /\ sequence \in Nat /\ sequence_clear_of_consumers \in Int
      /\ batch \in Nat /\ filled \in Nat /\ slots \in [SlotIndices -> Int]
      /\ Capacity \in Nat \ {0}
  BY <1>0, ProducerTypes
<1>2. published = sequence - 1
  BY <1>0 DEF ClearanceBehindConsumers
<1>3. CASE UNCHANGED <<slots, published, ppc, sequence, sequence_clear_of_consumers, filled>>
  BY <1>3 DEF SlotsHoldEvents
<1>4. ASSUME NEW n \in 0 .. MaxBatch, NEW spin \in BOOLEAN, BeginPublish(n, spin)
      PROVE  SlotsHoldEvents'
  <2>1. /\ UNCHANGED <<slots, published, sequence, sequence_clear_of_consumers>>
        /\ filled' = 0
    BY <1>4 DEF BeginPublish, disruptorVars, sharedVars
  <2>2. sequence .. sequence + 0 - 1 = {}
    BY <1>1
  <2> QED
    BY <2>1, <2>2 DEF SlotsHoldEvents
<1>5. ASSUME NEW c \in ConsumerBarrier, LoadConsumerCursor(c)
      PROVE  SlotsHoldEvents'
  <2> DEFINE least == IF ptodo = ConsumerBarrier THEN counter[c] ELSE Least(rear, counter[c])
             room  == available_capacity(last_published, least)
  <2>1. /\ UNCHANGED <<slots, published, sequence, filled>>
        /\ ppc = "claim"
    BY <1>5 DEF LoadConsumerCursor, disruptorVars, sharedVars
  <2>2. CASE ppc' # "update" /\ sequence_clear_of_consumers' = sequence_clear_of_consumers
    BY <2>1, <2>2 DEF SlotsHoldEvents
  <2>3. CASE ppc' = "update"
    <3>1. EnoughRoom(room) /\ sequence_clear_of_consumers' = last_published + room
      BY <1>5, <2>3 DEF LoadConsumerCursor
    <3>2. room \in Int
      <4>1. least \in Int
        BY <1>0, ConsumerTypes, ProducerTypes, ConsumerBarrierType DEF Least
      <4> HIDE DEF least
      <4> QED
        BY <1>1, <4>1 DEF available_capacity, wrap_point, last_published
    <3>3. sequence_clear_of_consumers < last_published + batch
      BY <2>1 DEF ClaimSeesRoom
    <3> HIDE DEF room
    <3>4. sequence_clear_of_consumers <= sequence_clear_of_consumers'
      BY <1>1, <3>1, <3>2, <3>3 DEF EnoughRoom, last_published
    <3>5. sequence_clear_of_consumers' \in Int
      BY <1>1, <3>1, <3>2 DEF last_published
    <3>6. \A s \in 0 .. published' : sequence_clear_of_consumers' < s + Capacity =>
            sequence_clear_of_consumers < s + Capacity
      BY <1>1, <2>1, <3>4, <3>5
    <3> QED
      BY <2>1, <3>6 DEF SlotsHoldEvents
  <2> QED
    BY <1>5, <2>2, <2>3 DEF LoadConsumerCursor
<1>6. CASE UpdateEvent
  <2> DEFINE w == sequence + filled
  <2>1. /\ ppc = "update" /\ ppc' = "update" /\ filled < batch /\ filled' = filled + 1
        /\ UNCHANGED <<published, sequence, sequence_clear_of_consumers>>
        /\ slots' = [slots EXCEPT ![slot_index(w)] = w]
    BY <1>6 DEF UpdateEvent, HasNext
  <2>2. w \in Int /\ w <= sequence_clear_of_consumers /\ sequence <= w
    BY <1>0, <1>1, <2>1 DEF ClearanceBehindConsumers
  <2>3. w < sequence + Capacity
    <3>1. PICK c \in Consumers : c \in ConsumerBarrier
      BY SomeConsumer
    <3>2. /\ sequence_clear_of_consumers <= counter[c] + Capacity
          /\ counter[c] <= published /\ counter[c] \in Int
      BY <1>0, <3>1, ConsumerTypes DEF ClearanceBehindConsumers, CursorOrder
    <3> QED
      BY <1>1, <1>2, <2>2, <3>2
  <2>4. slots'[slot_index(w)] = w
    BY <1>1, <2>1, <2>2, SlotType
  <2>5. ASSUME NEW s \in Int, s < w, w < s + Capacity
        PROVE  slots'[slot_index(s)] = slots[slot_index(s)]
    <3>1. slot_index(s) # slot_index(w)
      BY <2>2, <2>5, SlotsDiffer
    <3> QED
      BY <1>1, <2>1, <2>5, <3>1, SlotType
  <2> HIDE DEF w
  <2>6. ASSUME NEW s \in 0 .. published', sequence_clear_of_consumers' < s + Capacity
        PROVE  slots'[slot_index(s)] = s
    <3>1. s \in Int /\ s < w /\ w < s + Capacity
      BY <1>1, <1>2, <2>1, <2>2, <2>6
    <3>2. slots[slot_index(s)] = s
      BY <2>1, <2>6 DEF SlotsHoldEvents
    <3> QED
      BY <2>5, <3>1, <3>2
  <2>7. ASSUME NEW s \in sequence' .. sequence' + filled' - 1
        PROVE  slots'[slot_index(s)] = s
    <3>1. CASE s = w
      BY <2>4, <3>1
    <3>2. CASE s # w
      <4>1. s \in sequence .. sequence + filled - 1 /\ s \in Int /\ s < w /\ w < s + Capacity
        BY <1>1, <2>1, <2>2, <2>3, <2>7, <3>2 DEF w
      <4>2. slots[slot_index(s)] = s
        BY <2>1, <4>1 DEF SlotsHoldEvents
      <4> QED
        BY <2>5, <4>1, <4>2
    <3> QED
      BY <3>1, <3>2
  <2> QED
    BY <2>6, <2>7 DEF SlotsHoldEvents
<1>7. CASE UpdatePanics
  <2>1. ppc' = "idle" /\ UNCHANGED <<slots, published, sequence_clear_of_consumers>>
    BY <1>7 DEF UpdatePanics, disruptorVars, sharedVars
  <2> QED
    BY <2>1 DEF SlotsHoldEvents
<1>8. CASE Publish
  <2>1. /\ ppc = "update" /\ ppc' = "idle" /\ filled = batch
        /\ published' = sequence + batch - 1
        /\ UNCHANGED <<slots, sequence_clear_of_consumers>>
    BY <1>8 DEF Publish, disruptorVars, sharedVars
  <2>2. \A s \in 0 .. published' : s \in 0 .. published \/ s \in sequence .. sequence + filled - 1
    BY <1>1, <1>2, <2>1
  <2> QED
    BY <2>1, <2>2 DEF SlotsHoldEvents
<1>9. CASE DropProducer
  BY <1>9 DEF DropProducer, SlotsHoldEvents
<1>10. ASSUME NEW c \in Managed, JoinConsumer(c) PROVE SlotsHoldEvents'
  BY <1>10 DEF JoinConsumer, SlotsHoldEvents, disruptorVars, sharedVars
<1>11. CASE (\E c \in Consumers : ConsumerStep(c)) \/ ClientStep
  BY <1>3, <1>11, ConsumersLeaveProducerAlone
<1>12. CASE UNCHANGED vars
  BY <1>3, <1>12 DEF vars, disruptorVars, sharedVars, producerVars
<1> QED
  BY <1>4, <1>5, <1>6, <1>7, <1>8, <1>9, <1>10, <1>11, <1>12 DEF Next, ProducerStep, Terminated

\* A consumer within its grant finds the event of its position in the slot.
LEMMA ReadsNextEvent ==
  ASSUME IndInv, SlotsHoldEvents, NEW c \in Consumers, pc[c] = "read", next[c] <= available[c]
  PROVE  slots[slot_index(next[c])] = next[c]
<1>0. TypeOK /\ CursorBehindNext /\ GrantBehindEarlierStages /\ ClearanceBehindConsumers
  BY DEF IndInv
<1>1. /\ published \in Int /\ sequence_clear_of_consumers \in Int /\ Capacity \in Int
      /\ counter[c] \in Int /\ next[c] \in Nat /\ available[c] \in Int
  BY <1>0, ConsumerTypes, ProducerTypes
<1>2. /\ available[c] <= published
      /\ counter[c] <= next[c] - 1
      /\ sequence_clear_of_consumers <= counter[c] + Capacity
  BY <1>0 DEF CursorBehindNext, GrantBehindEarlierStages, ClearanceBehindConsumers
<1>3. next[c] \in 0 .. published /\ sequence_clear_of_consumers < next[c] + Capacity
  BY <1>1, <1>2
<1> QED
  BY <1>3 DEF SlotsHoldEvents

\* Only a read extends what a consumer has been handed, only the drop of a guard
\* what it has given up, and only they change its position.
LEMMA ReadingStepsOnly ==
  ASSUME IndInv, [Next]_vars,
         \A d \in Consumers : ~ReadEvent(d), \A p \in Pollers : ~DropGuard(p)
  PROVE  UNCHANGED <<next, seen, handed, skipped>>
<1>1. CASE (\E n \in 0 .. MaxBatch, spin \in BOOLEAN : BeginPublish(n, spin)) \/ ProducerStep
            \/ UpdatePanics \/ DropProducer
  BY <1>1, ProducerLeavesConsumersAlone DEF consumerVars
<1>2. CASE \E c \in Consumers : ConsumerStep(c)
  BY <1>2 DEF ConsumerStep, LoadBarrier, LoadCell, CheckShutdown, SignalDone
<1>3. CASE ClientStep
  BY <1>3 DEF ClientStep, HandlerPanics, PollTake, PollWait, SetGate, consumerVars
<1>4. CASE UNCHANGED vars
  BY <1>4 DEF vars, disruptorVars, consumerVars
<1> QED
  BY <1>1, <1>2, <1>3, <1>4 DEF Next, Terminated

\* Handlers are called for every event, once, in order.
LEMMA ExactlyOnceStep ==
  ASSUME IndInv, SlotsHoldEvents, ExactlyOnceInOrder, [Next]_vars
  PROVE  ExactlyOnceInOrder'
<1>0. DisruptorTypeOK
  BY DEF IndInv, TypeOK
<1>1. ASSUME NEW d \in Consumers, ReadEvent(d) PROVE ExactlyOnceInOrder'
  <2>1. slots[slot_index(next[d])] = next[d]
    BY <1>1, ReadsNextEvent DEF ReadEvent
  <2> QED
    BY <1>0, <1>1, <2>1, ReadsInOrder
<1>2. ASSUME NEW p \in Pollers, DropGuard(p) PROVE ExactlyOnceInOrder'
  BY <1>0, <1>2, ReadsInOrder, Topology
<1>3. CASE UNCHANGED <<next, seen>>
  BY <1>3 DEF ExactlyOnceInOrder
<1> QED
  BY <1>1, <1>2, <1>3, ReadingStepsOnly

\* What an event guard yields comes with its own sequence, after everything
\* yielded before, and nothing is left out but what a client gives up.
LEMMA GuardsYieldStep ==
  ASSUME IndInv, SlotsHoldEvents, GuardsAccountForAll, [Next]_vars
  PROVE  GuardsAccountForAll'
<1>0. DisruptorTypeOK /\ CursorBehindNext
  BY DEF IndInv, TypeOK
<1>1. ASSUME NEW d \in Consumers, ReadEvent(d) PROVE GuardsAccountForAll'
  <2>1. slots[slot_index(next[d])] = next[d]
    BY <1>1, ReadsNextEvent DEF ReadEvent
  <2> QED
    BY <1>0, <1>1, <2>1, YieldsInOrder
<1>2. ASSUME NEW p \in Pollers, DropGuard(p) PROVE GuardsAccountForAll'
  <2>1. p \in Consumers /\ next[p] - 1 <= available[p]
    BY <1>0, <1>2, Topology DEF DropGuard, CursorBehindNext
  <2> QED
    BY <1>0, <1>2, <2>1, YieldsInOrder
<1>3. CASE UNCHANGED <<next, seen, handed, skipped>>
  BY <1>3 DEF GuardsAccountForAll, Yielded
<1> QED
  BY <1>1, <1>2, <1>3, ReadingStepsOnly

\* What a failed call reports.
FullAsReported ==
  /\ missing' > 0
  /\ \A m \in roomAtCall : missing' <= batch - m
  /\ HasRoomFor(batch - missing')

\* A call that fails has found too little room in the least of the final cursors
\* it has loaded.  Cursors only advance, so none of them left more when the call
\* began, and all of them leave as much now.
LEMMA ClaimSeesRoomStep ==
  ASSUME IndInv, ClaimSeesRoom, [Next]_vars
  PROVE  /\ ClaimSeesRoom'
         /\ ppc = "claim" /\ ppc' = "idle" => FullAsReported
<1> USE ConsumerBarrierType
<1>0. TypeOK /\ ClearanceBehindConsumers
  BY DEF IndInv
<1>1. /\ sequence \in Nat /\ batch \in Nat /\ rear \in Int /\ Capacity \in Nat \ {0}
      /\ sequence_clear_of_consumers \in Int
      /\ \A c \in ConsumerBarrier : counter[c] \in Int
      /\ roomAtCall \in SUBSET (0 .. Capacity)
  BY <1>0, ConsumerTypes, ProducerTypes DEF TypeOK
<1>2. ConsumerBarrier' = ConsumerBarrier
  BY DEF ConsumerBarrier, ConsumersAt, Consumers
<1>3. ASSUME NEW n \in 0 .. MaxBatch, NEW spin \in BOOLEAN, BeginPublish(n, spin)
      PROVE  ClaimSeesRoom' /\ ppc # "claim"
  <2>1. /\ UNCHANGED <<counter, sequence, sequence_clear_of_consumers>>
        /\ ppc = "idle"
        /\ batch' = n
        /\ roomAtCall' = {m \in 0 .. Capacity : HasRoomFor(m)}
        /\ blocking' => batch' <= Capacity
    BY <1>3 DEF BeginPublish, disruptorVars
  <2>2. ppc' = "claim" =>
          ptodo' = ConsumerBarrier /\ sequence_clear_of_consumers < last_published + n
    BY <1>3 DEF BeginPublish
  <2>3. \A m \in roomAtCall' : HasRoomFor(m)'
    BY <1>2, <2>1 DEF HasRoomFor, last_published, available_capacity, wrap_point
  <2> QED
    BY <1>2, <2>1, <2>2, <2>3 DEF ClaimSeesRoom, last_published
<1>4. ASSUME NEW c \in ConsumerBarrier, LoadConsumerCursor(c)
      PROVE  ClaimSeesRoom' /\ (ppc = "claim" /\ ppc' = "idle" => FullAsReported)
  <2> DEFINE least == IF ptodo = ConsumerBarrier THEN counter[c] ELSE Least(rear, counter[c])
             room  == available_capacity(last_published, least)
  <2>1. /\ UNCHANGED <<counter, sequence, batch, blocking, roomAtCall>>
        /\ ppc = "claim" /\ rear' = least
    BY <1>4 DEF LoadConsumerCursor, disruptorVars, callVars
  <2>2. sequence_clear_of_consumers < last_published + batch /\ (blocking => batch <= Capacity)
    BY <2>1 DEF ClaimSeesRoom
  <2>3. ASSUME NEW m \in roomAtCall PROVE HasRoomFor(m) /\ m <= room
    <3>1. /\ HasRoomFor(m)
          /\ ptodo # ConsumerBarrier => m <= available_capacity(last_published, rear)
      BY <2>1 DEF ClaimSeesRoom
    <3>2. m <= available_capacity(last_published, counter[c])
      BY <3>1 DEF HasRoomFor
    <3> QED
      BY <3>1, <3>2 DEF Least
  <2>4. least \in Int /\ room \in Int
    BY <1>1 DEF available_capacity, wrap_point, last_published, Least
  <2>5. CASE ppc' = "claim"
    <3> HIDE DEF least
    <3>1. sequence_clear_of_consumers' = sequence_clear_of_consumers
      BY <1>4, <2>5 DEF LoadConsumerCursor
    <3>2. \A m \in roomAtCall : HasRoomFor(m)'
      BY <1>2, <2>1, <2>3 DEF HasRoomFor, last_published, available_capacity, wrap_point
    <3>3. \A m \in roomAtCall : (m <= available_capacity(last_published, rear))'
      BY <2>1, <2>3 DEF last_published, available_capacity, wrap_point
    <3> QED
      BY <2>1, <2>2, <3>1, <3>2, <3>3, <2>5 DEF ClaimSeesRoom, last_published
  <2>6. CASE ppc' = "update"
    BY <2>6 DEF ClaimSeesRoom
  <2>7. CASE ppc' = "idle"
    <3>1. ptodo = {c} /\ ~(room >= batch) /\ missing' = batch - room
      BY <1>4, <2>1, <2>7 DEF LoadConsumerCursor, EnoughRoom, MissingFreeSlots
    <3>2. \A d \in ConsumerBarrier : least <= counter[d]
      <4>1. \A d \in ConsumerBarrier \ ptodo : rear <= counter[d]
        BY <1>0, <2>1 DEF ClearanceBehindConsumers
      <4> QED
        BY <1>1, <3>1, <4>1 DEF Least
    <3> HIDE DEF least
    <3>3. HasRoomFor(room)
      BY <1>1, <2>4, <3>2 DEF HasRoomFor, available_capacity, wrap_point, last_published
    <3> HIDE DEF room
    <3>4. \A m \in roomAtCall : m \in Int /\ m <= room
      BY <1>1, <2>3
    <3>5. batch - missing' = room /\ missing' > 0
      BY <1>1, <2>4, <3>1
    <3>6. \A m \in roomAtCall : missing' <= batch - m
      BY <1>1, <2>4, <3>1, <3>4
    <3>7. HasRoomFor(batch - missing')
      BY <3>3, <3>5
    <3> QED
      BY <2>7, <3>5, <3>6, <3>7 DEF FullAsReported, ClaimSeesRoom
  <2> QED
    BY <1>4, <2>5, <2>6, <2>7 DEF LoadConsumerCursor
<1>5. CASE UpdateEvent \/ UpdatePanics \/ Publish \/ DropProducer \/ \E c \in Managed : JoinConsumer(c)
  BY <1>5 DEF UpdateEvent, UpdatePanics, Publish, DropProducer, JoinConsumer, ClaimSeesRoom
<1>6. CASE \/ (\E c \in Consumers : ConsumerStep(c)) \/ ClientStep
           \/ UNCHANGED vars
  <2>1. UNCHANGED <<ppc, sequence, sequence_clear_of_consumers, batch, blocking, roomAtCall, ptodo,
                    rear>>
    BY <1>6, ConsumersLeaveProducerAlone DEF vars, producerVars, callVars
  <2>2. \A c \in ConsumerBarrier : counter[c] <= counter'[c] /\ counter'[c] \in Int
    <3>1. IndInv'
      BY NextIndInv
    <3>2. TypeOK'
      BY <3>1 DEF IndInv
    <3>3. counter' \in [Consumers \cup Gates -> Int]
      BY <3>2 DEF TypeOK, DisruptorTypeOK
    <3> QED
      BY <3>3, CursorsAdvance
  <2>3. ASSUME NEW m \in roomAtCall PROVE m \in Int /\ (HasRoomFor(m) => HasRoomFor(m)')
    <3>1. m \in Int
      BY <1>1
    <3>2. last_published' = last_published /\ last_published \in Int
      BY <1>1, <2>1 DEF last_published
    <3> HIDE DEF last_published
    <3>3. ASSUME NEW c \in ConsumerBarrier, m <= available_capacity(last_published, counter[c])
          PROVE  m <= available_capacity(last_published, counter'[c])
      BY <1>1, <2>2, <3>1, <3>2, <3>3 DEF available_capacity, wrap_point
    <3>4. \A c \in ConsumerBarrier :
            available_capacity(last_published, counter[c])' =
              available_capacity(last_published, counter'[c])
      BY <3>2 DEF available_capacity, wrap_point
    <3> QED
      BY <1>2, <3>1, <3>3, <3>4 DEF HasRoomFor
  <2>4. UNCHANGED available_capacity(last_published, rear)
    BY <2>1 DEF last_published, available_capacity, wrap_point
  <2> QED
    BY <1>2, <2>1, <2>3, <2>4 DEF ClaimSeesRoom, last_published
<1> QED
  BY <1>3, <1>4, <1>5, <1>6 DEF Next, ProducerStep, Terminated

\* Consumers stop at the final sequence, and only when it is final.
LEMMA ShutdownStep ==
  ASSUME IndInv, ShutdownAtSequence, [Next]_vars
  PROVE  ShutdownAtSequence'
<1> USE Topology
<1>0. /\ TypeOK /\ CursorBehindNext
      /\ pc \in [Consumers -> {"idle", "scan", "poll", "miss", "read", "stopped", "panicked"}]
      /\ next \in [Consumers -> Nat]
      /\ sequence \in Nat /\ NONE = -1
  BY ProducerTypes DEF IndInv, TypeOK, DisruptorTypeOK, NONE
<1>1. CASE /\ ~Ended /\ ~Ended'
           /\ UNCHANGED <<shutdown_at_sequence, pc, joined>>
  BY <1>1 DEF ShutdownAtSequence, NONE, Ended
<1>2. CASE \/ \E n \in 0 .. MaxBatch, spin \in BOOLEAN : BeginPublish(n, spin)
           \/ \E c \in ConsumerBarrier : LoadConsumerCursor(c)
           \/ UpdateEvent
           \/ Publish
           \/ UpdatePanics
  <2>1. ~Ended /\ ~Ended'
    BY <1>2 DEF BeginPublish, LoadConsumerCursor, UpdateEvent, Publish, UpdatePanics, Ended
  <2>2. UNCHANGED <<shutdown_at_sequence, pc, joined>>
    BY <1>2 DEF BeginPublish, LoadConsumerCursor, UpdateEvent, Publish, UpdatePanics,
                disruptorVars, sharedVars, consumerVars
  <2> QED
    BY <1>1, <2>1, <2>2
<1>3. CASE DropProducer
  <2>1. /\ ~Ended /\ Ended'
        /\ shutdown_at_sequence' = sequence
        /\ UNCHANGED <<pc, next, sequence, joined>>
        /\ ppc' = IF Managed = {} THEN "dropped" ELSE "joining"
    BY <1>3 DEF DropProducer, FinalSequence, Ended, consumerVars
  <2> QED
    BY <2>1 DEF ShutdownAtSequence
<1>4. ASSUME NEW c \in Managed, JoinConsumer(c) PROVE ShutdownAtSequence'
  <2>1. /\ ppc = "joining" /\ Ended /\ Ended'
        /\ joined' = joined \cup {c}
        /\ UNCHANGED <<pc, next, sequence, shutdown_at_sequence>>
        /\ ppc' = IF pc[c] = "panicked" THEN "panicked"
                  ELSE IF joined' = Managed THEN "dropped" ELSE "joining"
        /\ pc[c] \in {"stopped", "panicked"}
    BY <1>4 DEF JoinConsumer, Ended, disruptorVars, sharedVars, consumerVars
  <2> QED
    BY <2>1 DEF ShutdownAtSequence
<1>5. ASSUME UNCHANGED <<shutdown_at_sequence, ppc, sequence, joined>>,
             \A c \in Consumers : pc[c] = "stopped" => pc'[c] = "stopped",
             \A c \in Consumers : pc'[c] = "stopped" =>
               next'[c] = next[c] /\ (pc[c] = "stopped" \/ next[c] = shutdown_at_sequence)
      PROVE  ShutdownAtSequence'
  <2>1. joined \subseteq Consumers
    BY <1>0 DEF TypeOK
  <2>2. \A c \in Consumers : pc'[c] = "stopped" => Ended /\ next'[c] = sequence
    BY <1>0, <1>5 DEF ShutdownAtSequence
  <2> QED
    BY <1>5, <2>1, <2>2 DEF ShutdownAtSequence, Ended, NONE
<1>6. ASSUME NEW c \in Consumers, ConsumerStep(c) PROVE ShutdownAtSequence'
  <2>1. UNCHANGED <<shutdown_at_sequence, ppc, sequence, joined>>
    BY <1>6, ConsumersLeaveProducerAlone
  <2>2. /\ pc[c] # "stopped"
        /\ \A d \in Consumers \ {c} : pc'[d] = pc[d] /\ next'[d] = next[d]
        /\ pc'[c] = "stopped" => next'[c] = next[c] /\ next[c] = shutdown_at_sequence
    BY <1>0, <1>6 DEF ConsumerStep, LoadBarrier, LoadCell, CheckShutdown, StopsAt, ReadEvent, SignalDone
  <2> QED
    BY <1>5, <2>1, <2>2
<1>7. CASE ClientStep
  <2>1. UNCHANGED <<shutdown_at_sequence, ppc, sequence, joined>>
    BY <1>7, ConsumersLeaveProducerAlone
  <2>2. ASSUME NEW p \in Pollers, NEW l \in Limits \cup {NoLimit}, PollTake(p, l)
        PROVE  ShutdownAtSequence'
    <3>1. counter[p] = next[p] - 1 /\ next[p] \in Nat /\ counter[p] \in Int
      BY <1>0, <2>2, ConsumerTypes DEF PollTake, CursorBehindNext
    <3>2. /\ next' = next /\ pc[p] = "idle"
          /\ \A d \in Consumers \ {p} : pc'[d] = pc[d]
          /\ pc'[p] = "stopped" => next[p] = shutdown_at_sequence
      BY <1>0, <2>2, <3>1 DEF PollTake, StopsAt
    <3> QED
      BY <1>5, <2>1, <3>2
  <2>3. ASSUME NEW p \in Pollers, PollWait(p) \/ DropGuard(p) PROVE ShutdownAtSequence'
    <3>1. /\ pc[p] # "stopped" /\ pc'[p] # "stopped"
          /\ \A d \in Consumers \ {p} : pc'[d] = pc[d] /\ next'[d] = next[d]
      BY <1>0, <2>3 DEF PollWait, DropGuard
    <3> QED
      BY <1>5, <2>1, <3>1
  <2>4. ASSUME NEW c \in Faulty, HandlerPanics(c) PROVE ShutdownAtSequence'
    <3>1. /\ pc[c] # "stopped" /\ pc'[c] # "stopped" /\ c \in Consumers
          /\ \A d \in Consumers \ {c} : pc'[d] = pc[d] /\ next'[d] = next[d]
      BY <1>0, <2>4, TopologyAssumption DEF HandlerPanics
    <3> QED
      BY <1>5, <2>1, <3>1
  <2>5. ASSUME NEW h \in Gates, NEW v \in GateValues, SetGate(h, v) PROVE ShutdownAtSequence'
    <3>1. UNCHANGED <<pc, next>>
      BY <2>5 DEF SetGate, consumerVars
    <3> QED
      BY <1>5, <2>1, <3>1
  <2> QED
    BY <1>7, <2>2, <2>3, <2>4, <2>5 DEF ClientStep
<1>8. CASE UNCHANGED vars
  <2>1. UNCHANGED <<shutdown_at_sequence, ppc, sequence, joined, pc, next>>
    BY <1>8 DEF vars, disruptorVars, sharedVars, consumerVars, producerVars
  <2> QED
    BY <1>5, <2>1
<1> QED
  BY <1>2, <1>3, <1>4, <1>6, <1>7, <1>8 DEF Next, ProducerStep, Terminated
-----------------------------------------------------------------------------
\* Before the first call, everything is as a new log has it.
LEMMA InitLogInv == Init => LogInv
<1> SUFFICES ASSUME Init PROVE LogInv
  OBVIOUS
<1> USE CapacityAssumption, Topology DEF Init, DisruptorInit, NONE
<1>1. IndInv
  BY InitIndInv
<1>2. SlotsHoldEvents
  BY DEF SlotsHoldEvents
<1>3. ExactlyOnceInOrder
  <2> SUFFICES ASSUME NEW c \in Managed PROVE seen[c] = [i \in 1 .. next[c] |-> i - 1]
    BY DEF ExactlyOnceInOrder
  <2>1. seen[c] = <<>> /\ next[c] = 0
    OBVIOUS
  <2>2. <<>> = [i \in 1 .. 0 |-> i - 1]
    OBVIOUS
  <2> QED
    BY <2>1, <2>2
<1>4. GuardsAccountForAll
  BY InitAccounts
<1>5. ClaimSeesRoom
  BY DEF ClaimSeesRoom
<1>6. ShutdownAtSequence
  BY DEF ShutdownAtSequence, Ended
<1> QED
  BY <1>1, <1>2, <1>3, <1>4, <1>5, <1>6 DEF LogInv

\* Every step keeps the invariant.
LEMMA NextLogInv == LogInv /\ [Next]_vars => LogInv'
BY NextIndInv, SlotsHoldEventsStep, ExactlyOnceStep, GuardsYieldStep, ClaimSeesRoomStep, ShutdownStep
   DEF LogInv

\* The inductive invariant about events, calls and shutdown: an unread slot
\* holds its own event, a call's view of the consumers is never too pessimistic,
\* and consumers stop at the final sequence.
THEOREM SingleProducerLogInductive == Spec => []LogInv
<1>1. Init => LogInv
  BY InitLogInv
<1>2. LogInv /\ [Next]_vars => LogInv'
  BY NextLogInv
<1> QED
  BY <1>1, <1>2, PTL DEF Spec

\* Every handler is called for every event, once, in order, with the event that
\* was published under that sequence.
THEOREM SingleProducerExactlyOnce == Spec => []ExactlyOnceInOrder
<1>1. LogInv => ExactlyOnceInOrder
  BY DEF LogInv
<1> QED
  BY <1>1, SingleProducerLogInductive, PTL

\* A guard holds no more than its limit, whoever else moves.
LEMMA GuardsWithinLimitAlways == Spec => []GuardsWithinLimit
<1>1. Init => GuardsWithinLimit
  BY Topology DEF Init, DisruptorInit, GuardsWithinLimit
<1>2. ASSUME IndInv, GuardsWithinLimit, [Next]_vars PROVE GuardsWithinLimit'
  <2>0. /\ DisruptorTypeOK /\ TypeOK /\ Faulty \subseteq Consumers /\ Pollers \subseteq Consumers
        /\ \A c \in Consumers : pc[c] = "poll" => counter[c] = next[c] - 1
    BY <1>2, TopologyAssumption DEF IndInv, TypeOK, CursorBehindNext, Consumers
  <2>1. ASSUME \A p \in Pollers : counter'[p] = counter[p], UNCHANGED consumerVars
        PROVE  GuardsWithinLimit'
    BY <1>2, <2>1 DEF consumerVars, GuardsWithinLimit
  <2>2. CASE \/ \E n \in 0 .. MaxBatch, spin \in BOOLEAN : BeginPublish(n, spin)
             \/ ProducerStep
             \/ UpdatePanics
             \/ DropProducer
    BY <2>1, <2>2, ProducerLeavesConsumersAlone
  <2>3. ASSUME NEW c \in Consumers, ConsumerStep(c) PROVE GuardsWithinLimit'
    <3>1. ASSUME NEW x \in todo[c], LoadCell(c, x, CellValue(x)) PROVE GuardsWithinLimit'
      <4>1. x \in {ProducerBarrier} \cup Consumers \cup Gates
        BY <2>0 DEF DisruptorTypeOK
      <4>2. CellValue(x) \in Int
        BY <2>0, <4>1, ConsumerTypes DEF CellValue, DisruptorTypeOK
      <4> QED
        BY <1>2, <2>0, <3>1, <4>2, KeepsWithinLimit
    <3>2. CASE CheckShutdown(c) \/ ReadEvent(c) \/ SignalDone(c)
      BY <1>2, <2>0, <3>2, KeepsWithinLimit
    <3> QED
      BY <2>3, <3>1, <3>2 DEF ConsumerStep, LoadBarrier
  <2>4. ASSUME NEW h \in Gates, NEW v \in GateValues, SetGate(h, v) PROVE GuardsWithinLimit'
    BY <2>0, <2>1, <2>4, Topology DEF SetGate, DisruptorTypeOK
  <2>5. CASE ClientStep
    <3>1. ASSUME NEW c \in Faulty, HandlerPanics(c) PROVE GuardsWithinLimit'
      BY <1>2, <2>0, <3>1, KeepsWithinLimit
    <3>2. ASSUME NEW p \in Pollers,
                 PollWait(p) \/ DropGuard(p) \/ \E l \in Limits \cup {NoLimit} : PollTake(p, l)
          PROVE  GuardsWithinLimit'
      BY <1>2, <2>0, <3>2, KeepsWithinLimit
    <3> QED
      BY <2>4, <2>5, <3>1, <3>2 DEF ClientStep
  <2>6. CASE UNCHANGED vars
    BY <2>1, <2>6 DEF vars, disruptorVars
  <2> QED
    BY <1>2, <2>2, <2>3, <2>5, <2>6 DEF Next, Terminated
<1> QED
  BY <1>1, <1>2, SingleProducerInductive, PTL DEF Spec

\* Event guards yield every event under its own sequence, in order and once,
\* except what a client gives up by dropping a guard early; they have no more
\* than they were asked for, and it stays in its slots while they exist.
THEOREM SingleProducerGuardsYield == Spec => []GuardsYieldInOrder
<1>1. LogInv => GuardsAccountForAll /\ GuardsHoldEvents
  <2> SUFFICES ASSUME LogInv, NEW p \in Pollers, NEW s \in Reading(p)
               PROVE  slots[slot_index(s)] = s
    BY DEF GuardsHoldEvents, LogInv
  <2>1. pc[p] = "read" /\ p \in Consumers /\ s \in counter[p] + 1 .. available[p]
    BY Topology DEF Reading
  <2>2. /\ counter[p] \in Int /\ available[p] \in Int /\ published \in Int
        /\ sequence_clear_of_consumers \in Int /\ Capacity \in Int
    BY <2>1, ConsumerTypes, ProducerTypes DEF LogInv, IndInv
  <2>3. /\ NONE <= counter[p] /\ available[p] <= published
        /\ sequence_clear_of_consumers <= counter[p] + Capacity
    BY <2>1 DEF LogInv, IndInv, CursorBehindNext, GrantBehindEarlierStages,
                ClearanceBehindConsumers
  <2>4. s \in 0 .. published /\ sequence_clear_of_consumers < s + Capacity
    BY <2>1, <2>2, <2>3 DEF NONE
  <2> QED
    BY <2>4 DEF LogInv, SlotsHoldEvents
<1>2. GuardsAccountForAll /\ GuardsHoldEvents /\ GuardsWithinLimit => GuardsYieldInOrder
  BY DEF GuardsYieldInOrder
<1> QED
  BY <1>1, <1>2, SingleProducerLogInductive, GuardsWithinLimitAlways, PTL

\* Consumers stop at the end of the log only, and drop returns only when every
\* handler has been called for every event.
THEOREM SingleProducerDrains == Spec => []DrainBeforeStop
<1>1. LogInv => DrainBeforeStop
  <2> SUFFICES ASSUME LogInv PROVE DrainBeforeStop
    OBVIOUS
  <2>1. \A c \in Consumers : pc[c] = "stopped" => next[c] = sequence
    BY DEF LogInv, ShutdownAtSequence
  <2>2. ASSUME ppc = "dropped", NEW c \in Managed
        PROVE  pc[c] = "stopped" /\ Len(seen[c]) = sequence
    <3>1. pc[c] = "stopped"
      BY <2>2 DEF LogInv, ShutdownAtSequence
    <3>2. next[c] = sequence /\ next[c] \in Nat
      BY <2>1, <3>1, Topology, ConsumerTypes DEF LogInv, IndInv
    <3>3. seen[c] = [i \in 1 .. next[c] |-> i - 1]
      BY DEF LogInv, ExactlyOnceInOrder
    <3> QED
      BY <3>1, <3>2, <3>3, FirstEvents
  <2> QED
    BY <2>1, <2>2 DEF DrainBeforeStop
<1> QED
  BY <1>1, SingleProducerLogInductive, PTL

\* try_publish and try_batch_publish report as missing no more slots than there
\* were when the call began, and a batch smaller by that many would fit.
THEOREM SingleProducerNoSpuriousFull == Spec => NoSpuriousFull
<1>1. LogInv /\ [Next]_vars => [ppc = "claim" /\ ppc' = "idle" => FullAsReported]_vars
  BY ClaimSeesRoomStep DEF LogInv
<1> QED
  BY <1>1, SingleProducerLogInductive, PTL DEF Spec, NoSpuriousFull, FullAsReported

\* The first consumer, by stage, of those that stand at the same place waits for
\* no other one: the stage before it has released the next event.
LEMMA FirstOfEquals ==
  ASSUME LogInv, NEW c \in Consumers, counter[c] < published
  PROVE  \E d \in Consumers : HoldsUp(d, c) /\ OnItsOwn(d, published)
<1> DEFINE S == {Stage[d] : d \in {e \in Consumers : counter[e] = counter[c]}}
<1> USE Topology
<1>0. /\ TypeOK /\ CursorBehindNext /\ CursorOrder /\ ClearanceBehindConsumers
      /\ ShutdownAtSequence
  BY DEF LogInv, IndInv
<1>1. /\ \A e \in Consumers : counter[e] \in Int /\ next[e] \in Nat /\ Stage[e] \in Nat
      /\ published \in Int /\ sequence \in Nat
  BY <1>0, ConsumerTypes, ProducerTypes, TopologyAssumption
<1>2. PICK d \in Consumers :
        counter[d] = counter[c] /\ \A e \in Consumers : counter[e] = counter[c] => Stage[d] <= Stage[e]
  <2>1. S \subseteq Nat /\ S # {}
    BY <1>1
  <2>2. PICK k \in S : \A l \in S : k <= l
    BY <2>1, LeastElement
  <2> QED
    BY <2>2
<1>3. HoldsUp(d, c)
  BY <1>2 DEF HoldsUp
<1>4. CASE pc[d] \in {"read", "panicked"}
  BY <1>3, <1>4 DEF OnItsOwn
<1>5. CASE pc[d] \notin {"read", "panicked"}
  <2>1. next[d] = counter[d] + 1
    BY <1>0, <1>1, <1>5 DEF CursorBehindNext
  <2>2. pc[d] # "stopped"
    BY <1>0, <1>1, <1>2, <2>1 DEF ShutdownAtSequence, ClearanceBehindConsumers
  <2>3. ASSUME NEW x \in Barrier(Stage[d]) \ Gates
        PROVE  IsAvailable(d, IF x = ProducerBarrier THEN published ELSE counter[x])
    <3>1. CASE x = ProducerBarrier
      BY <1>1, <1>2, <2>1, <3>1 DEF IsAvailable
    <3>2. CASE x # ProducerBarrier
      <4>1. x \in Consumers /\ Stage[x] < Stage[d]
        BY <1>1, <2>3, <3>2 DEF Barrier, ConsumersAt
      <4>2. counter[d] <= counter[x] /\ counter[x] # counter[d]
        BY <1>0, <1>1, <1>2, <4>1 DEF CursorOrder
      <4> QED
        BY <1>1, <2>1, <3>2, <4>1, <4>2 DEF IsAvailable
    <3> QED
      BY <3>1, <3>2
  <2>4. OnItsOwn(d, published)
    BY <2>2, <2>3 DEF OnItsOwn
  <2> QED
    BY <1>3, <2>4
<1> QED
  BY <1>4, <1>5

\* Deadlock freedom: whoever waits waits, in the end, for a consumer or a client
\* that waits for nobody; a spinning call waits only for consumers that have
\* something to release; and drop joins consumers that get to the shutdown
\* sequence.
THEOREM SingleProducerNobodyWaitsInVain == Spec => []NobodyWaitsInVain
<1>1. ASSUME LogInv PROVE NobodyWaitsInVain
  <2> USE Topology
  <2>0. /\ TypeOK /\ CursorBehindNext /\ CursorOrder /\ ClearanceBehindConsumers
        /\ ShutdownAtSequence /\ ClaimSeesRoom
    BY <1>1 DEF LogInv, IndInv
  <2>1. /\ \A e \in Consumers : counter[e] \in Int /\ next[e] \in Nat
        /\ published \in Int /\ sequence \in Nat /\ batch \in Nat /\ Capacity \in Nat
        /\ published = sequence - 1
    BY <2>0, ConsumerTypes, ProducerTypes DEF ClearanceBehindConsumers
  <2>2. ASSUME NEW c \in Consumers, counter[c] < published
        PROVE  \E d \in Consumers : HoldsUp(d, c) /\ OnItsOwn(d, published)
    BY <1>1, <2>2, FirstOfEquals
  <2>3. ASSUME ppc = "claim", blocking, NEW c \in ConsumerBarrier, ~ (counter[c] < published)
        PROVE  EnoughRoom(available_capacity(last_published, counter[c]))
    <3>1. batch <= Capacity
      BY <2>0, <2>3 DEF ClaimSeesRoom
    <3>2. counter[c] \in Int
      BY <2>1, ConsumerBarrierType
    <3> QED
      BY <2>1, <2>3, <3>1, <3>2 DEF EnoughRoom, available_capacity, wrap_point, last_published
  <2>4. ASSUME ppc = "joining", NEW c \in Managed, ~ (counter[c] < published),
               pc[c] \notin {"read", "panicked"}
        PROVE  StopsAt(next[c])
    <3>1. counter[c] = next[c] - 1 /\ counter[c] <= published
      BY <2>0, <2>4 DEF CursorBehindNext, CursorOrder
    <3>2. shutdown_at_sequence = sequence
      BY <2>0, <2>4 DEF ShutdownAtSequence, Ended
    <3> QED
      BY <2>1, <2>4, <3>1, <3>2 DEF StopsAt
  <2> QED
    BY <2>2, <2>3, <2>4 DEF NobodyWaitsInVain, WillStop
<1> QED
  BY <1>1, SingleProducerLogInductive, PTL
-----------------------------------------------------------------------------
(* The refinement of Broadcast.                                            *)

\* What the abstract variables are.
LEMMA Mapping ==
  /\ Promise!Readers = Consumers
  /\ Promise!NotYet = NONE
BY TopologyAssumption DEF Promise!Readers, Promise!NotYet, NONE

\* An empty log, before anything is published.
LEMMA InitLog == Init => Promise!LogInit
<1> SUFFICES ASSUME Init PROVE Promise!LogInit
  OBVIOUS
<1> USE Mapping, Topology DEF Init, DisruptorInit, NONE
<1>1. 0 .. published = {}
  OBVIOUS
<1>2. gateHigh = [g \in DOMAIN gateHigh |-> NONE]
  OBVIOUS
<1>3. {c \in Consumers : pc[c] = "stopped"} = {}
  OBVIOUS
<1>4. [c \in Consumers |-> IF pc[c] \in {"read", "panicked"} THEN available[c] ELSE counter[c]]
        = [c \in Consumers |-> NONE]
  OBVIOUS
<1>5. [c \in Consumers |-> counter[c]] = [c \in Consumers |-> NONE]
  OBVIOUS
<1> QED
  BY <1>1, <1>2, <1>3, <1>4, <1>5 DEF Promise!LogInit

\* The mapped variables that are functions of several others.
grantedMap  == [c \in Consumers |-> IF pc[c] \in {"read", "panicked"} THEN available[c] ELSE counter[c]]
releasedMap == [c \in Consumers |-> counter[c]]
stoppedMap  == {c \in Consumers : pc[c] = "stopped"}
returnedMap == ppc = "dropped" /\ Managed # {}

\* A step that moves no position, no grant and no cursor, and neither requests
\* nor notices shutdown, is invisible in the log.
LEMMA InvisibleStep ==
  ASSUME UNCHANGED <<published, next, seen, gateHigh, shutdown_at_sequence>>,
         UNCHANGED <<grantedMap, releasedMap, stoppedMap, returnedMap>>
  PROVE  UNCHANGED Promise!logVars
BY DEF Promise!logVars, grantedMap, releasedMap, stoppedMap, returnedMap

\* Calls that begin, load cursors, update slots or unwind are invisible.
LEMMA InvisibleProducerSteps ==
  ASSUME \/ \E n \in 0 .. MaxBatch, spin \in BOOLEAN : BeginPublish(n, spin)
         \/ \E c \in ConsumerBarrier : LoadConsumerCursor(c)
         \/ UpdateEvent
         \/ UpdatePanics
  PROVE  UNCHANGED Promise!logVars
<1>1. UNCHANGED <<counter, pc, available, next, seen, gateHigh, published, shutdown_at_sequence>>
  BY DEF BeginPublish, LoadConsumerCursor, UpdateEvent, UpdatePanics, disruptorVars, sharedVars,
         consumerVars
<1>2. ppc # "dropped" /\ ppc' # "dropped"
  BY DEF BeginPublish, LoadConsumerCursor, UpdateEvent, UpdatePanics
<1> QED
  BY <1>1, <1>2, InvisibleStep DEF grantedMap, releasedMap, stoppedMap, returnedMap

\* Publishing writes the batch, for which everybody has made room.
LEMMA PublishWrites ==
  ASSUME LogInv, Publish
  PROVE  Promise!Write((0 .. published)' \ (0 .. published))
<1>0. TypeOK /\ ClearanceBehindConsumers /\ ShutdownAtSequence
  BY DEF LogInv, IndInv
<1>1. /\ published \in Int /\ sequence \in Nat /\ batch \in Nat /\ Capacity \in Int
      /\ sequence_clear_of_consumers \in Int
      /\ \A c \in Consumers : counter[c] \in Int
  BY <1>0, ConsumerTypes, ProducerTypes
<1>2. /\ UNCHANGED <<counter, pc, available, next, seen, gateHigh, shutdown_at_sequence>>
      /\ ppc = "update" /\ ppc' = "idle"
      /\ published' = sequence + batch - 1
  BY DEF Publish, disruptorVars, sharedVars, consumerVars
<1>3. /\ published = sequence - 1
      /\ sequence + batch - 1 <= sequence_clear_of_consumers
      /\ \A c \in Consumers : sequence_clear_of_consumers <= counter[c] + Capacity
  BY <1>0, <1>2 DEF ClearanceBehindConsumers
<1>4. shutdown_at_sequence = Promise!NotYet
  BY <1>0, <1>2, Mapping DEF ShutdownAtSequence, Ended
<1> DEFINE events == (0 .. published)' \ (0 .. published)
<1>5. \A s \in events : Promise!HasSlot(s)
  <2> SUFFICES ASSUME NEW s \in events, NEW c \in Consumers PROVE s <= counter[c] + Capacity
    BY Mapping DEF Promise!HasSlot
  <2>1. s \in Int /\ s <= published'
    BY <1>1, <1>2
  <2> QED
    BY <1>1, <1>2, <1>3, <2>1
<1>6. (0 .. published)' = (0 .. published) \cup events
  BY <1>1, <1>2, <1>3
<1>7. UNCHANGED <<grantedMap, releasedMap, stoppedMap, returnedMap>>
  BY <1>2 DEF grantedMap, releasedMap, stoppedMap, returnedMap
<1>8. events \cap (0 .. published) = {}
  OBVIOUS
<1> QED
  BY <1>2, <1>4, <1>5, <1>6, <1>7, <1>8
     DEF Promise!Write, grantedMap, releasedMap, stoppedMap, returnedMap

\* Dropping the producer closes the log behind everything published.
LEMMA DropProducerCloses ==
  ASSUME LogInv, DropProducer
  PROVE  Promise!Close(shutdown_at_sequence')
<1>0. TypeOK /\ ClearanceBehindConsumers /\ ShutdownAtSequence
  BY DEF LogInv, IndInv
<1>1. published \in Int /\ sequence \in Nat /\ published = sequence - 1
  BY <1>0, ProducerTypes DEF ClearanceBehindConsumers
<1>2. /\ UNCHANGED <<counter, pc, available, next, seen, gateHigh, published>>
      /\ ppc = "idle" /\ (ppc' = "dropped" => Managed = {})
      /\ shutdown_at_sequence' = sequence
  BY DEF DropProducer, FinalSequence, consumerVars
<1>3. shutdown_at_sequence = Promise!NotYet
  BY <1>0, <1>2, Mapping DEF ShutdownAtSequence, Ended
<1>4. \A w \in 0 .. published : w < sequence
  BY <1>1
<1>5. UNCHANGED <<grantedMap, releasedMap, stoppedMap, returnedMap>>
  BY <1>2 DEF grantedMap, releasedMap, stoppedMap, returnedMap
<1> QED
  BY <1>1, <1>2, <1>3, <1>4, <1>5
     DEF Promise!Close, grantedMap, releasedMap, stoppedMap, returnedMap

\* Joining the last handler's thread is the return of drop.
LEMMA JoinConsumerReturns ==
  ASSUME LogInv, NEW c \in Managed, JoinConsumer(c)
  PROVE  Promise!Return \/ UNCHANGED Promise!logVars
<1>1. /\ UNCHANGED <<counter, pc, available, next, seen, gateHigh, published, shutdown_at_sequence>>
      /\ ppc = "joining"
      /\ joined' = joined \cup {c}
      /\ ppc' = IF pc[c] = "panicked" THEN "panicked"
                ELSE IF joined' = Managed THEN "dropped" ELSE "joining"
      /\ pc[c] \in {"stopped", "panicked"}
  BY DEF JoinConsumer, disruptorVars, sharedVars, consumerVars
<1>2. UNCHANGED <<grantedMap, releasedMap, stoppedMap>>
  BY <1>1 DEF grantedMap, releasedMap, stoppedMap
<1>3. CASE ppc' # "dropped"
  BY <1>1, <1>2, <1>3, InvisibleStep DEF returnedMap
<1>4. CASE ppc' = "dropped"
  <2>1. ~returnedMap /\ returnedMap'
    BY <1>1, <1>4 DEF returnedMap
  <2>2. Managed \subseteq stoppedMap
    BY <1>1, <1>4, Topology DEF LogInv, ShutdownAtSequence, stoppedMap
  <2>3. shutdown_at_sequence # Promise!NotYet
    BY <1>1, Mapping, ProducerTypes DEF LogInv, IndInv, ShutdownAtSequence, Ended, NONE
  <2> QED
    BY <1>1, <1>2, <2>1, <2>2, <2>3
       DEF Promise!Return, grantedMap, releasedMap, stoppedMap, returnedMap
<1> QED
  BY <1>3, <1>4

\* The last load of a barrier grants a batch to which every earlier stage and
\* every gate has agreed, unless it finds nothing (or the limit is zero).
LEMMA LoadCellGrants ==
  ASSUME LogInv, NEW c \in Consumers, NEW x \in todo[c], LoadCell(c, x, CellValue(x)),
         UNCHANGED producerVars
  PROVE  Promise!Grant(c, grantedMap'[c]) \/ UNCHANGED Promise!logVars
<1>0. /\ TypeOK /\ CursorBehindNext
      /\ IndInv'
  BY LoadCellStep DEF LogInv, IndInv
<1>1. /\ UNCHANGED <<published, next, counter, seen, gateHigh, shutdown_at_sequence>>
      /\ UNCHANGED returnedMap
      /\ pc[c] \in {"scan", "poll"}
      /\ pc'[c] \in {"scan", "poll", "read", "idle", "miss"}
      /\ \A d \in Consumers \ {c} : pc'[d] = pc[d] /\ available'[d] = available[d]
  BY <1>0 DEF LoadCell, sharedVars, producerVars, returnedMap, TypeOK, DisruptorTypeOK
<1>2. UNCHANGED <<releasedMap, stoppedMap>>
  BY <1>1 DEF releasedMap, stoppedMap
<1>3. CASE pc'[c] # "read"
  <2>1. UNCHANGED grantedMap
    BY <1>1, <1>3 DEF grantedMap
  <2> QED
    BY <1>1, <1>2, <2>1, InvisibleStep
<1>4. CASE pc'[c] = "read"
  <2>1. /\ counter[c] = next[c] - 1
        /\ counter[c] \in Int /\ next[c] \in Nat /\ available'[c] \in Int
    <3>1. available'[c] \in Int
      BY <1>0, ConsumerTypes DEF IndInv, TypeOK, DisruptorTypeOK
    <3> QED
      BY <1>0, <1>1, <3>1, ConsumerTypes DEF CursorBehindNext
  <2>2. /\ next[c] - 1 <= available'[c]
        /\ available'[c] <= published
        /\ \A d \in Consumers : Stage[d] < Stage[c] => available'[c] <= counter[d]
        /\ \A h \in StageGates[Stage[c]] : available'[c] <= gateHigh[h]
    BY <1>0, <1>1, <1>4 DEF IndInv, CursorBehindNext, GrantBehindEarlierStages
  <2>3. /\ grantedMap' = [grantedMap EXCEPT ![c] = available'[c]]
        /\ grantedMap'[c] = available'[c]
        /\ grantedMap[c] = counter[c]
    BY <1>1, <1>4 DEF grantedMap
  <2>4. CASE available'[c] = counter[c]
    <3>1. UNCHANGED grantedMap
      BY <2>3, <2>4 DEF grantedMap
    <3> QED
      BY <1>1, <1>2, <3>1, InvisibleStep
  <2>5. CASE available'[c] # counter[c]
    <3>1. available'[c] >= next[c]
      BY <2>1, <2>2, <2>5
    <3>2. Promise!MayRead(c, available'[c])
      <4>1. 0 .. available'[c] \subseteq 0 .. published
        <5>1. published \in Int
          BY <1>0, ConsumerTypes
        <5> QED
          BY <2>1, <2>2, <5>1
      <4> QED
        BY <2>2, <4>1, Mapping DEF Promise!MayRead
    <3> QED
      BY <1>1, <1>2, <2>3, <3>1, <3>2
         DEF Promise!Grant, grantedMap, releasedMap, stoppedMap, returnedMap
  <2> QED
    BY <2>4, <2>5
<1> QED
  BY <1>3, <1>4

\* A consumer that notices shutdown has reached the end of the log.
LEMMA NoticingShutdownStops ==
  ASSUME LogInv, NEW c \in Consumers, UNCHANGED producerVars,
         CheckShutdown(c) \/ \E l \in Limits \cup {NoLimit} : PollTake(c, l)
  PROVE  Promise!Stop(c) \/ UNCHANGED Promise!logVars
<1>0. TypeOK /\ CursorBehindNext
  BY DEF LogInv, IndInv
<1>1. /\ UNCHANGED <<published, next, counter, available, seen, gateHigh, shutdown_at_sequence>>
      /\ UNCHANGED returnedMap
      /\ pc[c] \in {"miss", "idle"}
      /\ pc'[c] \in {"scan", "poll", "stopped"}
      /\ \A d \in Consumers \ {c} : pc'[d] = pc[d]
  <2>1. pc \in [Consumers -> {"idle", "scan", "poll", "miss", "read", "stopped", "panicked"}]
    BY <1>0 DEF TypeOK, DisruptorTypeOK
  <2>2. CASE CheckShutdown(c)
    BY <2>1, <2>2 DEF CheckShutdown, sharedVars, producerVars, returnedMap
  <2>3. CASE \E l \in Limits \cup {NoLimit} : PollTake(c, l)
    BY <2>1, <2>3 DEF PollTake, sharedVars, producerVars, returnedMap
  <2> QED
    BY <2>2, <2>3
<1>2. UNCHANGED <<grantedMap, releasedMap>>
  BY <1>1 DEF grantedMap, releasedMap
<1>3. CASE pc'[c] # "stopped"
  <2>1. UNCHANGED stoppedMap
    BY <1>1, <1>3 DEF stoppedMap
  <2> QED
    BY <1>1, <1>2, <2>1, InvisibleStep
<1>4. CASE pc'[c] = "stopped"
  <2>1. counter[c] = next[c] - 1 /\ counter[c] \in Int /\ next[c] \in Nat
    BY <1>0, <1>1, ConsumerTypes DEF CursorBehindNext
  <2>2. shutdown_at_sequence = next[c]
    BY <1>0, <1>4, <2>1 DEF CheckShutdown, PollTake, StopsAt, TypeOK, DisruptorTypeOK
  <2>3. stoppedMap' = stoppedMap \cup {c} /\ c \notin stoppedMap
    BY <1>1, <1>4 DEF stoppedMap
  <2>4. grantedMap[c] = releasedMap[c]
    BY <1>1 DEF grantedMap, releasedMap
  <2> QED
    BY <1>1, <1>2, <2>2, <2>3, <2>4
       DEF Promise!Stop, grantedMap, releasedMap, stoppedMap, returnedMap
<1> QED
  BY <1>3, <1>4

\* A handler, or a guard's iterator, reads the next event of the log.
LEMMA ReadEventReads ==
  ASSUME LogInv, NEW c \in Consumers, ReadEvent(c), UNCHANGED producerVars
  PROVE  Promise!Read(c)
<1>1. /\ UNCHANGED <<published, counter, available, pc, gateHigh, shutdown_at_sequence>>
      /\ UNCHANGED returnedMap
      /\ pc[c] = "read" /\ next[c] <= available[c]
  BY DEF ReadEvent, sharedVars, producerVars, returnedMap
<1>2. UNCHANGED <<grantedMap, releasedMap, stoppedMap>>
  BY <1>1 DEF grantedMap, releasedMap, stoppedMap
<1>3. slots[slot_index(next[c])] = next[c]
  BY <1>1, ReadsNextEvent DEF LogInv
<1>4. /\ seen' = [seen EXCEPT ![c] = Append(@, next[c])]
      /\ next' = [next EXCEPT ![c] = @ + 1]
  BY <1>3 DEF ReadEvent
<1>5. next[c] <= grantedMap[c]
  BY <1>1 DEF grantedMap
<1> QED
  BY <1>1, <1>2, <1>4, <1>5
     DEF Promise!Read, grantedMap, releasedMap, stoppedMap, returnedMap

\* Signalling a batch and dropping a guard release what was granted.
LEMMA GivingBackReleases ==
  ASSUME LogInv, NEW c \in Consumers, UNCHANGED producerVars, SignalDone(c) \/ DropGuard(c)
  PROVE  Promise!Release(c) \/ UNCHANGED Promise!logVars
<1>0. TypeOK /\ CursorBehindNext
  BY DEF LogInv, IndInv
<1>1. /\ UNCHANGED <<published, available, seen, gateHigh, shutdown_at_sequence>>
      /\ UNCHANGED returnedMap
      /\ pc[c] = "read" /\ pc'[c] \in {"scan", "idle"}
      /\ \A d \in Consumers \ {c} : /\ pc'[d] = pc[d]
                                     /\ counter'[d] = counter[d]
  BY <1>0 DEF SignalDone, DropGuard, sharedVars, producerVars, returnedMap, TypeOK, DisruptorTypeOK
<1>2. /\ counter[c] <= next[c] - 1 /\ next[c] - 1 <= available[c]
      /\ counter[c] \in Int /\ next[c] \in Nat /\ available[c] \in Int
      /\ next \in [Consumers -> Nat]
      /\ counter \in [Consumers \cup Gates -> Int]
  BY <1>0, <1>1, ConsumerTypes DEF CursorBehindNext, TypeOK, DisruptorTypeOK
<1>3. c \in Managed => next[c] > available[c]
  BY TopologyAssumption DEF SignalDone, DropGuard
<1>4. /\ counter'[c] = available[c]
      /\ next' = [next EXCEPT ![c] = available[c] + 1]
  <2>1. CASE SignalDone(c)
    <3>1. next[c] = available[c] + 1
      BY <1>2, <2>1 DEF SignalDone
    <3>2. counter'[c] = next[c] - 1 /\ next' = next
      BY <1>2, <2>1 DEF SignalDone, Released
    <3> QED
      BY <1>2, <3>1, <3>2
  <2>2. CASE DropGuard(c)
    BY <1>2, <2>2 DEF DropGuard
  <2> QED
    BY <2>1, <2>2
<1>5. /\ grantedMap[c] = available[c] /\ releasedMap[c] = counter[c]
      /\ grantedMap' = grantedMap
      /\ releasedMap' = [releasedMap EXCEPT ![c] = available[c]]
      /\ stoppedMap' = stoppedMap
  BY <1>1, <1>4 DEF grantedMap, releasedMap, stoppedMap
<1>6. CASE available[c] = counter[c]
  <2>1. next[c] = available[c] + 1
    BY <1>2, <1>6
  <2>2. next' = next
    BY <1>2, <1>4, <2>1
  <2>3. releasedMap' = releasedMap
    BY <1>5, <1>6 DEF releasedMap
  <2> QED
    BY <1>1, <1>5, <2>2, <2>3, InvisibleStep
<1>7. CASE available[c] > counter[c]
  BY <1>1, <1>3, <1>4, <1>5, <1>7
     DEF Promise!Release, grantedMap, releasedMap, stoppedMap, returnedMap
<1> QED
  BY <1>2, <1>6, <1>7

\* A panic keeps the grant, and poll_wait only starts to look.
LEMMA PanickingIsInvisible ==
  ASSUME LogInv, NEW c \in Consumers, UNCHANGED producerVars, HandlerPanics(c) \/ PollWait(c)
  PROVE  UNCHANGED Promise!logVars
<1>1. TypeOK
  BY DEF LogInv, IndInv
<1>2. /\ UNCHANGED <<published, next, counter, available, seen, gateHigh, shutdown_at_sequence>>
      /\ UNCHANGED returnedMap
      /\ \A d \in Consumers : (pc[d] \in {"read", "panicked"} <=> pc'[d] \in {"read", "panicked"})
      /\ \A d \in Consumers : (pc[d] = "stopped" <=> pc'[d] = "stopped")
  BY <1>1 DEF HandlerPanics, PollWait, sharedVars, producerVars, returnedMap, TypeOK,
              DisruptorTypeOK
<1>3. UNCHANGED <<grantedMap, releasedMap, stoppedMap>>
  BY <1>2 DEF grantedMap, releasedMap, stoppedMap
<1> QED
  BY <1>2, <1>3, InvisibleStep

\* Moving a gate forward opens it further; moving it back is invisible.
LEMMA SetGateOpens ==
  ASSUME LogInv, NEW h \in Gates, NEW v \in GateValues, SetGate(h, v), UNCHANGED producerVars
  PROVE  Promise!Open(h, gateHigh'[h]) \/ UNCHANGED Promise!logVars
<1>1. /\ UNCHANGED <<published, next, seen, pc, available, shutdown_at_sequence>>
      /\ UNCHANGED returnedMap
      /\ \A c \in Consumers : counter'[c] = counter[c]
      /\ gateHigh \in [Gates -> Int]
      /\ gateHigh' = [gateHigh EXCEPT ![h] = IF v > @ THEN v ELSE @]
  BY Topology DEF SetGate, sharedVars, consumerVars, producerVars, returnedMap, LogInv, IndInv,
                  TypeOK, DisruptorTypeOK
<1>2. UNCHANGED <<grantedMap, releasedMap, stoppedMap>>
  BY <1>1 DEF grantedMap, releasedMap, stoppedMap
<1>3. CASE v > gateHigh[h]
  <2>1. gateHigh' = [gateHigh EXCEPT ![h] = v] /\ gateHigh'[h] = v
    BY <1>1, <1>3
  <2> QED
    BY <1>1, <1>2, <1>3, <2>1
       DEF Promise!Open, grantedMap, releasedMap, stoppedMap, returnedMap
<1>4. CASE ~(v > gateHigh[h])
  <2>1. gateHigh' = gateHigh
    BY <1>1, <1>4
  <2> QED
    BY <1>1, <1>2, <2>1, InvisibleStep
<1> QED
  BY <1>3, <1>4

\* Every step is a step of the log, or none.
LEMMA NextLog == LogInv /\ [Next]_vars => [Promise!LogNext]_(Promise!logVars)
<1> SUFFICES ASSUME LogInv, [Next]_vars
             PROVE  Promise!LogNext \/ UNCHANGED Promise!logVars
  OBVIOUS
<1> USE Mapping, Topology
<1>1. CASE (\E n \in 0 .. MaxBatch, spin \in BOOLEAN : BeginPublish(n, spin)) \/ UpdatePanics
  BY <1>1, InvisibleProducerSteps
<1>2. CASE ProducerStep
  <2>1. CASE Publish
    BY <2>1, PublishWrites DEF Promise!LogNext
  <2>2. ASSUME NEW c \in Managed, JoinConsumer(c)
        PROVE  Promise!LogNext \/ UNCHANGED Promise!logVars
    BY <2>2, JoinConsumerReturns DEF Promise!LogNext
  <2> QED
    BY <1>2, <2>1, <2>2, InvisibleProducerSteps DEF ProducerStep
<1>3. CASE DropProducer
  BY <1>3, DropProducerCloses DEF Promise!LogNext
<1>4. ASSUME NEW c \in Consumers, ConsumerStep(c)
      PROVE  Promise!LogNext \/ UNCHANGED Promise!logVars
  <2>1. ASSUME NEW x \in todo[c], LoadCell(c, x, CellValue(x)), UNCHANGED producerVars
        PROVE  Promise!LogNext \/ UNCHANGED Promise!logVars
    BY <2>1, LoadCellGrants DEF Promise!LogNext, grantedMap
  <2>2. CASE CheckShutdown(c) /\ UNCHANGED producerVars
    BY <2>2, NoticingShutdownStops DEF Promise!LogNext
  <2>3. CASE ReadEvent(c) /\ UNCHANGED producerVars
    BY <2>3, ReadEventReads DEF Promise!LogNext
  <2>4. CASE SignalDone(c) /\ UNCHANGED producerVars
    BY <2>4, GivingBackReleases DEF Promise!LogNext
  <2> QED
    BY <1>4, <2>1, <2>2, <2>3, <2>4 DEF ConsumerStep, LoadBarrier
<1>5. CASE ClientStep
  <2>1. ASSUME NEW c \in Faulty, HandlerPanics(c), UNCHANGED producerVars
        PROVE  UNCHANGED Promise!logVars
    BY <2>1, PanickingIsInvisible, TopologyAssumption
  <2>2. ASSUME NEW p \in Pollers, NEW l \in Limits \cup {NoLimit}, PollTake(p, l),
               UNCHANGED producerVars
        PROVE  Promise!LogNext \/ UNCHANGED Promise!logVars
    BY <2>2, NoticingShutdownStops DEF Promise!LogNext
  <2>3. ASSUME NEW p \in Pollers, PollWait(p), UNCHANGED producerVars
        PROVE  UNCHANGED Promise!logVars
    BY <2>3, PanickingIsInvisible
  <2>4. ASSUME NEW p \in Pollers, DropGuard(p), UNCHANGED producerVars
        PROVE  Promise!LogNext \/ UNCHANGED Promise!logVars
    BY <2>4, GivingBackReleases DEF Promise!LogNext
  <2>5. ASSUME NEW h \in Gates, NEW v \in GateValues, SetGate(h, v), UNCHANGED producerVars
        PROVE  Promise!LogNext \/ UNCHANGED Promise!logVars
    <3>1. DOMAIN gateHigh = Gates
      BY DEF LogInv, IndInv, TypeOK, DisruptorTypeOK
    <3> QED
      BY <2>5, <3>1, SetGateOpens DEF Promise!LogNext
  <2> QED
    BY <1>5, <2>1, <2>2, <2>3, <2>4, <2>5 DEF ClientStep
<1>6. CASE UNCHANGED vars
  <2>1. UNCHANGED <<published, next, counter, available, pc, ppc, seen, gateHigh,
                    shutdown_at_sequence>>
    BY <1>6 DEF vars, disruptorVars, sharedVars, consumerVars, producerVars
  <2>2. UNCHANGED <<grantedMap, releasedMap, stoppedMap, returnedMap>>
    BY <2>1 DEF grantedMap, releasedMap, stoppedMap, returnedMap
  <2> QED
    BY <2>1, <2>2, InvisibleStep
<1> QED
  BY <1>1, <1>2, <1>3, <1>4, <1>5, <1>6 DEF Next, Terminated

\* The single producer's cursors, cached clearance and slots together are the
\* bounded, staged log of Broadcast.
THEOREM SingleProducerImplementsBroadcast == Spec => ImplementsBroadcast
<1>1. Init => Promise!LogInit
  BY InitLog
<1>2. LogInv /\ [Next]_vars => [Promise!LogNext]_(Promise!logVars)
  BY NextLog
<1> QED
  BY <1>1, <1>2, SingleProducerLogInductive, PTL DEF Spec, ImplementsBroadcast, Promise!LogSpec
=============================================================================
