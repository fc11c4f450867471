------------------------ MODULE SingleProducerProofs ------------------------
(***************************************************************************)
(* Proofs about SingleProducer, for every capacity, topology, batch size   *)
(* and number of published events.                                         *)
(*                                                                         *)
(* The core is that IndInv is inductive.  Two lemmas reduce that to what a *)
(* step changes: ConsumerChange for the steps that move one consumer, and  *)
(* ProducerChange for those of the producer; then comes one lemma per      *)
(* action.  The safety properties follow from IndInv, NoDataRace with some *)
(* arithmetic: two sequences share a slot only if they are at least        *)
(* Capacity apart, and whatever is read lies less than Capacity behind     *)
(* whatever is written.                                                    *)
(***************************************************************************)
EXTENDS SingleProducer, DisruptorProofs

\* The producer waits for consumers only.
LEMMA ConsumerBarrierType == ConsumerBarrier \subseteq Consumers
BY DEF ConsumerBarrier, ConsumersAt
-----------------------------------------------------------------------------
\* The invariant holds when build() returns.
LEMMA InitIndInv == Init => IndInv
<1> SUFFICES ASSUME Init PROVE IndInv
  OBVIOUS
<1> USE CapacityAssumption, BoundsAssumption, Topology, ConsumerBarrierType
      DEF Init, DisruptorInit, NONE, NoLimit
<1>1. TypeOK
  <2>1. DisruptorTypeOK
    <3>1. /\ slots \in [SlotIndices -> Int]
          /\ counter \in [Consumers \cup Gates -> Int]
          /\ shutdown_at_sequence \in Int
      OBVIOUS
    <3>2. pc \in [Consumers -> {"idle", "scan", "poll", "miss", "read", "stopped", "panicked"}]
      OBVIOUS
    <3>3. todo \in [Consumers -> SUBSET ({ProducerBarrier} \cup Consumers \cup Gates)]
      OBVIOUS
    <3>4. /\ available \in [Consumers -> Int]
          /\ next \in [Consumers -> Nat]
          /\ limit \in [Consumers -> Nat \cup {NoLimit}]
          /\ gateHigh \in [Gates -> Int]
      OBVIOUS
    <3>5. seen \in [Consumers -> Seq(Int)] /\ handed \in [Consumers -> Seq(Int)]
      BY NothingRead, Zenon
    <3>6. skipped \in [Pollers -> SUBSET Int]
      BY Zenon
    <3> QED
      BY <3>1, <3>2, <3>3, <3>4, <3>5, <3>6 DEF DisruptorTypeOK
  <2>2. blocking \in BOOLEAN /\ roomAtCall \in SUBSET (0 .. Capacity)
    BY Zenon
  <2>5. missing \in Int
    OBVIOUS
  <2>3. /\ published \in NONE .. MaxSequence - 1
        /\ sequence \in 0 .. MaxSequence
        /\ sequence_clear_of_consumers \in Int
        /\ batch \in 0 .. MaxBatch /\ filled \in 0 .. MaxBatch
        /\ rear \in Int
    OBVIOUS
  <2>4. /\ ppc \in {"idle", "claim", "update", "joining", "dropped", "panicked"}
        /\ ptodo \in SUBSET Consumers
        /\ joined \in SUBSET Managed
    OBVIOUS
  <2> QED
    BY <2>1, <2>2, <2>3, <2>4, <2>5, Zenon DEF TypeOK
<1>2. CursorBehindNext
  BY DEF CursorBehindNext
<1>3. CursorOrder
  BY DEF CursorOrder
<1>4. ScanBehindCells
  BY DEF ScanBehindCells
<1>5. GrantBehindEarlierStages
  BY DEF GrantBehindEarlierStages
<1>6. GatesBehindHigh
  BY DEF GatesBehindHigh, GateRespected
<1>7. ClearanceBehindConsumers
  BY DEF ClearanceBehindConsumers
<1> QED
  BY <1>1, <1>2, <1>3, <1>4, <1>5, <1>6, <1>7 DEF IndInv

\* The typed facts of the invariant about one consumer.
LEMMA ConsumerTypes ==
  ASSUME TypeOK
  PROVE  /\ published \in Int
         /\ \A c \in Consumers :
              /\ counter[c] \in Int /\ next[c] \in Nat /\ available[c] \in Int
              /\ Stage[c] \in Int
              /\ Reached(c) = counter[c]
              /\ \A h \in StageGates[Stage[c]] : gateHigh[h] \in Int
BY Topology, BoundsAssumption DEF TypeOK, DisruptorTypeOK, NONE, Reached, CellValue

\* A step of consumer c keeps the invariant if it keeps the part about c and
\* does not move the cursor of c back.
LEMMA ConsumerChange ==
  ASSUME IndInv, NEW c \in Consumers, TypeOK',
         UNCHANGED producerVars, UNCHANGED gateHigh,
         \A h \in Gates : counter'[h] = counter[h],
         \A e \in Consumers \ {c} :
           /\ pc'[e] = pc[e] /\ todo'[e] = todo[e] /\ available'[e] = available[e]
           /\ next'[e] = next[e] /\ counter'[e] = counter[e],
         counter'[c] >= counter[c],
         IF pc'[c] \in {"read", "panicked"}
           THEN counter'[c] <= next'[c] - 1 /\ next'[c] - 1 <= available'[c]
           ELSE counter'[c] = next'[c] - 1,
         counter'[c] <= published,
         \A d \in Consumers : Stage[d] < Stage[c] => counter'[c] <= counter[d],
         pc'[c] \in {"scan", "poll"} =>
           /\ todo'[c] \subseteq Barrier(Stage[c])
           /\ \A x \in Barrier(Stage[c]) \ todo'[c] : available'[c] <= Reached(x),
         pc'[c] \in {"read", "panicked"} =>
           /\ available'[c] <= published
           /\ \A d \in Consumers : Stage[d] < Stage[c] => available'[c] <= counter[d]
           /\ \A h \in StageGates[Stage[c]] : available'[c] <= gateHigh[h],
         \A h \in StageGates[Stage[c]] : next'[c] - 1 <= gateHigh[h]
  PROVE  IndInv'
<1> USE Topology
<1>0. /\ TypeOK /\ CursorBehindNext /\ CursorOrder /\ ScanBehindCells
      /\ GrantBehindEarlierStages /\ GatesBehindHigh /\ ClearanceBehindConsumers
  BY DEF IndInv
<1>1. /\ UNCHANGED <<published, ppc, sequence, sequence_clear_of_consumers, batch, ptodo,
                     rear, filled>>
      /\ \A d \in Consumers : counter[d] <= counter'[d] /\ counter[d] \in Int /\ counter'[d] \in Int
  <2>1. UNCHANGED <<published, ppc, sequence, sequence_clear_of_consumers, batch, ptodo,
                    rear, filled>>
    BY DEF producerVars, callVars
  <2>2. \A d \in Consumers : counter[d] \in Int /\ counter'[d] \in Int
    BY <1>0 DEF TypeOK, DisruptorTypeOK
  <2>3. \A d \in Consumers : counter[d] <= counter'[d]
    BY <2>2
  <2> QED
    BY <2>1, <2>2, <2>3
<1>2. CursorBehindNext'
  <2>1. \A d \in Consumers : NONE <= counter'[d]
    BY <1>0, <1>1 DEF CursorBehindNext, NONE
  <2> QED
    BY <1>0, <2>1 DEF CursorBehindNext
<1>3. CursorOrder'
  <2>1. ASSUME NEW e \in Consumers
        PROVE  /\ counter'[e] <= published
               /\ \A d \in Consumers : Stage[d] < Stage[e] => counter'[e] <= counter[d]
    BY <1>0 DEF CursorOrder
  <2>2. ASSUME NEW e \in Consumers, NEW d \in Consumers, Stage[d] < Stage[e]
        PROVE  counter'[e] <= counter'[d]
    BY <1>1, <2>1, <2>2
  <2> QED
    BY <1>1, <2>1, <2>2 DEF CursorOrder
<1>4. \A e \in Consumers : \A x \in Barrier(Stage[e]) :
        Reached(x) <= Reached(x)' /\ Reached(x) \in Int /\ Reached(x)' \in Int
  <2>1. published \in Int /\ gateHigh \in [Gates -> Int]
    BY <1>0, BoundsAssumption DEF TypeOK, DisruptorTypeOK, NONE
  <2>2. \A x \in Gates : Reached(x) = gateHigh[x] /\ Reached(x)' = gateHigh[x]
    BY DEF Reached
  <2>3. Reached(ProducerBarrier) = published /\ Reached(ProducerBarrier)' = published
    BY <1>1 DEF Reached, CellValue
  <2>4. \A x \in Consumers : Reached(x) = counter[x] /\ Reached(x)' = counter'[x]
    BY DEF Reached, CellValue
  <2>5. \A x \in {ProducerBarrier} \cup Consumers \cup Gates :
          Reached(x) <= Reached(x)' /\ Reached(x) \in Int /\ Reached(x)' \in Int
    BY <1>1, <2>1, <2>2, <2>3, <2>4
  <2> QED
    BY <2>5
<1>5. ScanBehindCells'
  <2> SUFFICES ASSUME NEW e \in Consumers, pc'[e] \in {"scan", "poll"}
               PROVE  /\ todo'[e] \subseteq Barrier(Stage[e])
                      /\ \A x \in Barrier(Stage[e]) \ todo'[e] : available'[e] <= Reached(x)'
    BY DEF ScanBehindCells
  <2>1. /\ todo'[e] \subseteq Barrier(Stage[e])
        /\ \A x \in Barrier(Stage[e]) \ todo'[e] : available'[e] <= Reached(x)
    BY <1>0 DEF ScanBehindCells
  <2>2. available'[e] \in Int
    BY DEF TypeOK, DisruptorTypeOK
  <2> QED
    BY <1>4, <2>1, <2>2
<1>6. GrantBehindEarlierStages'
  <2> SUFFICES ASSUME NEW e \in Consumers, pc'[e] \in {"read", "panicked"}
               PROVE  /\ available'[e] <= published
                      /\ \A d \in Consumers : Stage[d] < Stage[e] => available'[e] <= counter'[d]
                      /\ \A h \in StageGates[Stage[e]] : available'[e] <= gateHigh[h]
    BY <1>1 DEF GrantBehindEarlierStages
  <2>1. /\ available'[e] <= published
        /\ \A d \in Consumers : Stage[d] < Stage[e] => available'[e] <= counter[d]
        /\ \A h \in StageGates[Stage[e]] : available'[e] <= gateHigh[h]
    BY <1>0 DEF GrantBehindEarlierStages
  <2>2. available'[e] \in Int
    BY DEF TypeOK, DisruptorTypeOK
  <2> QED
    BY <1>1, <2>1, <2>2
<1>7. GatesBehindHigh'
  BY <1>0 DEF GatesBehindHigh, GateRespected
<1>8. ClearanceBehindConsumers'
  <2>1. sequence_clear_of_consumers \in Int /\ rear \in Int
    BY <1>0 DEF TypeOK
  <2>2. \A d \in Consumers : sequence_clear_of_consumers <= counter'[d] + Capacity
    BY <1>0, <1>1, <2>1, CapacityAssumption DEF ClearanceBehindConsumers
  <2>3. ppc = "claim" => \A d \in ConsumerBarrier \ ptodo : rear <= counter'[d]
    BY <1>0, <1>1, <2>1, ConsumerBarrierType DEF ClearanceBehindConsumers
  <2> QED
    BY <1>0, <1>1, <2>2, <2>3 DEF ClearanceBehindConsumers, ConsumerBarrier, ConsumersAt
<1> QED
  BY <1>2, <1>3, <1>5, <1>6, <1>7, <1>8 DEF IndInv

\* What a step of a consumer or of a client leaves alone.
LEMMA ProducerTypesKept ==
  ASSUME TypeOK, DisruptorTypeOK', UNCHANGED producerVars PROVE TypeOK'
BY DEF TypeOK, producerVars, callVars

\* A grant ends no earlier than before the first event.
LEMMA GrantsReachBack ==
  ASSUME IndInv, NEW c \in Consumers PROVE pc[c] = "read" => 0 <= available[c] + 1
BY ConsumerTypes DEF IndInv, CursorBehindNext

\* Loading a cell of a barrier: the scan stays below the cells it has loaded,
\* and the last load turns that into a grant below all of them.
LEMMA LoadCellStep ==
  ASSUME IndInv, NEW c \in Consumers, NEW x \in todo[c], LoadCell(c, x, CellValue(x)),
         UNCHANGED producerVars
  PROVE  IndInv'
<1> DEFINE v == CellValue(x)
           least == IF todo[c] = Barrier(Stage[c]) THEN v ELSE Least(available[c], v)
<1> USE Topology
<1>0. /\ TypeOK /\ CursorBehindNext /\ CursorOrder /\ ScanBehindCells
      /\ GrantBehindEarlierStages /\ GatesBehindHigh /\ ClearanceBehindConsumers
  BY DEF IndInv
<1>1. /\ pc[c] \in {"scan", "poll"}
      /\ x \in Barrier(Stage[c])
      /\ v \in Int
      /\ v <= Reached(x)
      /\ Reached(x) \in Int
  BY <1>0 DEF LoadCell, ScanBehindCells, CellValue, Reached, GatesBehindHigh, TypeOK,
              DisruptorTypeOK
<1>2. least \in Int /\ least <= v
  BY <1>0, <1>1 DEF Least, TypeOK, DisruptorTypeOK
<1>3. \A y \in Barrier(Stage[c]) \ todo[c] : least <= Reached(y) /\ Reached(y) \in Int
  <2> SUFFICES ASSUME NEW y \in Barrier(Stage[c]) \ todo[c]
               PROVE  least <= Reached(y) /\ Reached(y) \in Int
    OBVIOUS
  <2>1. available[c] <= Reached(y)
    BY <1>0, <1>1 DEF ScanBehindCells
  <2>2. available[c] \in Int
    BY <1>0 DEF TypeOK, DisruptorTypeOK
  <2>3. Reached(y) \in Int
    BY <1>0 DEF TypeOK, DisruptorTypeOK, CellValue, Reached
  <2>4. least <= available[c]
    BY <1>1, <2>2 DEF Least
  <2> QED
    BY <1>2, <2>1, <2>2, <2>3, <2>4
<1> HIDE DEF least, v
<1>4. \A y \in Barrier(Stage[c]) \ todo'[c] : least <= Reached(y)
  BY <1>0, <1>1, <1>2, <1>3 DEF LoadCell, TypeOK, DisruptorTypeOK
<1>5. pc'[c] = "read" =>
        /\ todo'[c] = {}
        /\ least >= next[c]
        /\ available'[c] <= least
        /\ available'[c] >= next[c] - 1
        /\ available'[c] \in Int
  <2>1. pc'[c] = "read" =>
          /\ todo'[c] = {}
          /\ least >= next[c]
          /\ available'[c] = Granted(c, least)
    BY <1>0, <1>1 DEF LoadCell, TypeOK, DisruptorTypeOK, IsAvailable, least, v
  <2>2. next[c] \in Int /\ (limit[c] # NoLimit => limit[c] \in Nat)
    BY <1>0 DEF TypeOK, DisruptorTypeOK
  <2>3. least >= next[c] =>
          /\ Granted(c, least) \in Int
          /\ Granted(c, least) <= least
          /\ Granted(c, least) >= next[c] - 1
    BY <1>2, <2>2 DEF Granted, Least
  <2> QED
    BY <2>1, <2>3
<1>6. /\ available'[c] \in Int
      /\ pc'[c] # "read" => available'[c] = least
      /\ pc'[c] \in {"scan", "poll", "read", "idle", "miss"}
  BY <1>0, <1>1, <1>2 DEF LoadCell, TypeOK, DisruptorTypeOK, Granted, IsAvailable, Least, least, v
<1>7. /\ \A e \in Consumers \ {c} :
            /\ pc'[e] = pc[e]
            /\ todo'[e] = todo[e]
            /\ available'[e] = available[e]
      /\ UNCHANGED <<slots, shutdown_at_sequence, counter, next, limit, seen, gateHigh>>
      /\ UNCHANGED producerVars
      /\ todo'[c] \subseteq todo[c]
  BY <1>0 DEF LoadCell, sharedVars, TypeOK, DisruptorTypeOK
<1>8. TypeOK'
  BY <1>0, <1>1, LoadCellTypes, ProducerTypesKept DEF TypeOK, v
<1>9. ASSUME pc'[c] = "read"
      PROVE  /\ available'[c] <= published
             /\ \A d \in Consumers : Stage[d] < Stage[c] => available'[c] <= counter[d]
             /\ \A h \in StageGates[Stage[c]] : available'[c] <= gateHigh[h]
  <2>1. \A y \in Barrier(Stage[c]) : available'[c] <= Reached(y)
    <3>1. available'[c] <= least /\ \A y \in Barrier(Stage[c]) : least <= Reached(y)
      BY <1>4, <1>5, <1>9
    <3>2. \A y \in Barrier(Stage[c]) : Reached(y) \in Int
      BY <1>1, <1>3, <1>5, <1>9 DEF LoadCell
    <3> QED
      BY <1>2, <1>5, <1>9, <3>1, <3>2
  <2>2. CASE Stage[c] = 1
    BY <2>1, <2>2, TopologyAssumption DEF Barrier, Reached, CellValue
  <2>3. CASE Stage[c] # 1
    <3>1. \A d \in ConsumersAt(Stage[c] - 1) : available'[c] <= counter[d]
      BY <2>1, <2>3 DEF Barrier, Reached, CellValue, ConsumersAt
    <3>2. PICK d \in ConsumersAt(Stage[c] - 1) : TRUE
      BY <2>3, TopologyAssumption
    <3>3. /\ d \in Consumers /\ Stage[d] = Stage[c] - 1
          /\ counter[d] \in Int /\ available'[c] \in Int /\ published \in Int
      BY <1>0, <1>6, <3>2 DEF ConsumersAt, TypeOK, DisruptorTypeOK, NONE
    <3>4. available'[c] <= published
      BY <1>0, <3>1, <3>3 DEF CursorOrder, ConsumersAt
    <3>5. ASSUME NEW e \in Consumers, Stage[e] < Stage[c] PROVE available'[c] <= counter[e]
      <4>1. Stage[e] \in Int /\ Stage[c] \in Int
        OBVIOUS
      <4>2. CASE Stage[e] = Stage[c] - 1
        BY <3>1, <4>2 DEF ConsumersAt
      <4>3. CASE Stage[e] < Stage[d]
        <5>1. available'[c] <= counter[d] /\ counter[d] <= counter[e] /\ counter[e] \in Int
          BY <1>0, <3>1, <3>2, <3>3, <4>3 DEF CursorOrder, TypeOK, DisruptorTypeOK
        <5> QED
          BY <3>3, <5>1
      <4> QED
        BY <3>3, <3>5, <4>1, <4>2, <4>3
    <3>6. \A h \in StageGates[Stage[c]] : available'[c] <= gateHigh[h]
      BY <2>1, <2>3 DEF Barrier, Reached
    <3> QED
      BY <3>4, <3>5, <3>6
  <2> QED
    BY <2>2, <2>3
<1>10. IF pc'[c] \in {"read", "panicked"}
         THEN counter'[c] <= next'[c] - 1 /\ next'[c] - 1 <= available'[c]
         ELSE counter'[c] = next'[c] - 1
  <2>1. counter[c] = next[c] - 1 /\ counter[c] \in Int /\ next[c] \in Int
    <3>1. counter[c] \in Int /\ next[c] \in Int
      BY <1>0 DEF TypeOK, DisruptorTypeOK
    <3>2. pc[c] \notin {"read", "panicked"}
      BY <1>1
    <3>3. counter[c] = next[c] - 1
      BY <1>0, <3>2, Zenon DEF CursorBehindNext
    <3> QED
      BY <3>1, <3>3
  <2> QED
    BY <1>5, <1>6, <1>7, <2>1
<1>11. pc'[c] \in {"scan", "poll"} =>
         /\ todo'[c] \subseteq Barrier(Stage[c])
         /\ \A y \in Barrier(Stage[c]) \ todo'[c] : available'[c] <= Reached(y)
  BY <1>0, <1>1, <1>4, <1>6, <1>7 DEF ScanBehindCells
<1>12. /\ counter'[c] <= published
       /\ \A d \in Consumers : Stage[d] < Stage[c] => counter'[c] <= counter[d]
       /\ \A h \in StageGates[Stage[c]] : next'[c] - 1 <= gateHigh[h]
       /\ counter'[c] >= counter[c]
  BY <1>0, <1>7, ConsumerTypes DEF CursorOrder, GatesBehindHigh, GateRespected
<1> QED
  BY <1>6, <1>7, <1>8, <1>9, <1>10, <1>11, <1>12, ConsumerChange

\* Stopping, or starting another scan with nothing loaded yet.
LEMMA CheckShutdownStep ==
  ASSUME IndInv, NEW c \in Consumers, CheckShutdown(c), UNCHANGED producerVars
  PROVE  IndInv'
<1> USE Topology
<1>0. /\ TypeOK /\ CursorBehindNext /\ CursorOrder /\ ScanBehindCells
      /\ GrantBehindEarlierStages /\ GatesBehindHigh /\ ClearanceBehindConsumers
  BY DEF IndInv
<1>1. /\ counter[c] \in Int /\ next[c] \in Nat /\ available[c] \in Int /\ published \in Int
      /\ Stage[c] \in Int
      /\ \A d \in Consumers : counter[d] \in Int
      /\ \A h \in StageGates[Stage[c]] : gateHigh[h] \in Int
  BY <1>0, ConsumerTypes
<1>2. /\ pc[c] = "miss"
      /\ pc'[c] \in {"scan", "stopped"}
      /\ pc'[c] = "scan" => todo'[c] = Barrier(Stage[c])
      /\ UNCHANGED <<slots, shutdown_at_sequence, counter, available, next, limit, seen, gateHigh>>
      /\ \A e \in Consumers \ {c} : pc'[e] = pc[e] /\ todo'[e] = todo[e]
  BY <1>0 DEF CheckShutdown, sharedVars, TypeOK, DisruptorTypeOK
<1>3. TypeOK'
  BY <1>0, <1>1, GrantsReachBack, ConsumerStepTypes, ProducerTypesKept DEF TypeOK
<1>4. counter[c] = next[c] - 1
  BY <1>0, <1>2 DEF CursorBehindNext
<1> QED
  BY <1>0, <1>1, <1>2, <1>3, <1>4, ConsumerChange DEF CursorOrder, GatesBehindHigh, GateRespected

\* Reading an event moves within the grant.
LEMMA ReadEventStep ==
  ASSUME IndInv, NEW c \in Consumers, ReadEvent(c), UNCHANGED producerVars
  PROVE  IndInv'
<1> USE Topology
<1>0. /\ TypeOK /\ CursorBehindNext /\ CursorOrder /\ ScanBehindCells
      /\ GrantBehindEarlierStages /\ GatesBehindHigh /\ ClearanceBehindConsumers
  BY DEF IndInv
<1>1. /\ counter[c] \in Int /\ next[c] \in Nat /\ available[c] \in Int /\ published \in Int
      /\ Stage[c] \in Int
      /\ \A d \in Consumers : counter[d] \in Int
      /\ \A h \in StageGates[Stage[c]] : gateHigh[h] \in Int
  BY <1>0, ConsumerTypes
<1>2. /\ pc[c] = "read"
      /\ next[c] <= available[c]
      /\ next'[c] = next[c] + 1
      /\ UNCHANGED <<slots, shutdown_at_sequence, counter, pc, todo, available, limit, gateHigh>>
      /\ \A e \in Consumers \ {c} : next'[e] = next[e]
  BY <1>0 DEF ReadEvent, sharedVars, TypeOK, DisruptorTypeOK
<1>3. TypeOK'
  BY <1>0, <1>1, GrantsReachBack, ConsumerStepTypes, ProducerTypesKept DEF TypeOK
<1>4. /\ counter[c] <= next[c] - 1
      /\ counter[c] <= published
      /\ available[c] <= published
      /\ \A d \in Consumers : Stage[d] < Stage[c] => available[c] <= counter[d] /\ counter[c] <= counter[d]
      /\ \A h \in StageGates[Stage[c]] : available[c] <= gateHigh[h]
  BY <1>0, <1>2 DEF CursorBehindNext, GrantBehindEarlierStages, CursorOrder
<1>5. \A h \in StageGates[Stage[c]] : next'[c] - 1 <= gateHigh[h]
  BY <1>1, <1>2, <1>4
<1> QED
  BY <1>1, <1>2, <1>3, <1>4, <1>5, ConsumerChange

\* A panic leaves cursor and grant as they are.
LEMMA HandlerPanicsStep ==
  ASSUME IndInv, NEW c \in Consumers, HandlerPanics(c), UNCHANGED producerVars
  PROVE  IndInv'
<1> USE Topology
<1>0. /\ TypeOK /\ CursorBehindNext /\ CursorOrder /\ ScanBehindCells
      /\ GrantBehindEarlierStages /\ GatesBehindHigh /\ ClearanceBehindConsumers
  BY DEF IndInv
<1>1. /\ counter[c] \in Int /\ next[c] \in Nat /\ available[c] \in Int /\ published \in Int
      /\ Stage[c] \in Int
      /\ \A d \in Consumers : counter[d] \in Int
      /\ \A h \in StageGates[Stage[c]] : gateHigh[h] \in Int
  BY <1>0, ConsumerTypes
<1>2. /\ pc[c] = "read" /\ pc'[c] = "panicked"
      /\ UNCHANGED <<slots, shutdown_at_sequence, counter, next, todo, available, limit, seen, gateHigh>>
      /\ \A e \in Consumers \ {c} : pc'[e] = pc[e]
  BY <1>0 DEF HandlerPanics, sharedVars, TypeOK, DisruptorTypeOK
<1>3. TypeOK'
  BY <1>0, <1>1, GrantsReachBack, ConsumerStepTypes, ProducerTypesKept DEF TypeOK
<1>4. /\ counter[c] <= next[c] - 1 /\ next[c] - 1 <= available[c]
      /\ counter[c] <= published
      /\ available[c] <= published
      /\ \A d \in Consumers : Stage[d] < Stage[c] => available[c] <= counter[d] /\ counter[c] <= counter[d]
      /\ \A h \in StageGates[Stage[c]] : available[c] <= gateHigh[h] /\ next[c] - 1 <= gateHigh[h]
  BY <1>0, <1>2 DEF CursorBehindNext, GrantBehindEarlierStages, CursorOrder, GatesBehindHigh,
                    GateRespected
<1> QED
  BY <1>1, <1>2, <1>3, <1>4, ConsumerChange

\* Releasing a batch moves the cursor forward to the end of its grant.
LEMMA SignalDoneStep ==
  ASSUME IndInv, NEW c \in Consumers, SignalDone(c), UNCHANGED producerVars
  PROVE  IndInv'
<1> USE Topology
<1>0. /\ TypeOK /\ CursorBehindNext /\ CursorOrder /\ ScanBehindCells
      /\ GrantBehindEarlierStages /\ GatesBehindHigh /\ ClearanceBehindConsumers
  BY DEF IndInv
<1>1. /\ counter[c] \in Int /\ next[c] \in Nat /\ available[c] \in Int /\ published \in Int
      /\ Stage[c] \in Int
      /\ \A d \in Consumers : counter[d] \in Int
      /\ \A h \in StageGates[Stage[c]] : gateHigh[h] \in Int
  BY <1>0, ConsumerTypes
<1>2. /\ pc[c] = "read" /\ pc'[c] = "scan"
      /\ next[c] > available[c]
      /\ counter'[c] = next[c] - 1
      /\ todo'[c] = Barrier(Stage[c])
      /\ UNCHANGED <<slots, shutdown_at_sequence, next, available, limit, seen, gateHigh>>
      /\ \A e \in Consumers \ {c} :
           pc'[e] = pc[e] /\ todo'[e] = todo[e] /\ counter'[e] = counter[e]
      /\ \A h \in Gates : counter'[h] = counter[h]
  BY <1>0 DEF SignalDone, Released, sharedVars, TypeOK, DisruptorTypeOK
<1>3. TypeOK'
  BY <1>0, <1>1, GrantsReachBack, ConsumerStepTypes, ProducerTypesKept DEF TypeOK
<1>4. /\ counter[c] <= next[c] - 1 /\ next[c] - 1 <= available[c]
      /\ available[c] <= published
      /\ \A d \in Consumers : Stage[d] < Stage[c] => available[c] <= counter[d]
      /\ \A h \in StageGates[Stage[c]] : next[c] - 1 <= gateHigh[h]
  BY <1>0, <1>2 DEF CursorBehindNext, GrantBehindEarlierStages, GatesBehindHigh, GateRespected
<1>5. /\ counter'[c] <= published
      /\ counter'[c] >= counter[c]
      /\ \A d \in Consumers : Stage[d] < Stage[c] => counter'[c] <= counter[d]
  BY <1>1, <1>2, <1>4
<1> QED
  BY <1>1, <1>2, <1>3, <1>4, <1>5, ConsumerChange

\* poll_take starts a scan with nothing loaded yet, or sees the shutdown.
LEMMA PollTakeStep ==
  ASSUME IndInv, NEW p \in Pollers, NEW l \in Limits \cup {NoLimit}, PollTake(p, l),
         UNCHANGED producerVars
  PROVE  IndInv'
<1> USE Topology
<1>0. /\ TypeOK /\ CursorBehindNext /\ CursorOrder /\ ScanBehindCells
      /\ GrantBehindEarlierStages /\ GatesBehindHigh /\ ClearanceBehindConsumers
  BY DEF IndInv
<1>1. /\ counter[p] \in Int /\ next[p] \in Nat /\ available[p] \in Int /\ published \in Int
      /\ Stage[p] \in Int
      /\ \A d \in Consumers : counter[d] \in Int
      /\ \A h \in StageGates[Stage[p]] : gateHigh[h] \in Int
  BY <1>0, ConsumerTypes
<1>2. /\ pc[p] = "idle"
      /\ pc'[p] \in {"poll", "stopped"}
      /\ pc'[p] = "poll" => todo'[p] = Barrier(Stage[p])
      /\ UNCHANGED <<slots, shutdown_at_sequence, counter, available, next, seen, gateHigh>>
      /\ \A e \in Consumers \ {p} : pc'[e] = pc[e] /\ todo'[e] = todo[e]
  BY <1>0 DEF PollTake, sharedVars, TypeOK, DisruptorTypeOK
<1>3. TypeOK'
  BY <1>0, <1>1, GrantsReachBack, ConsumerStepTypes, ProducerTypesKept DEF TypeOK
<1>4. counter[p] = next[p] - 1
  BY <1>0, <1>2 DEF CursorBehindNext
<1> QED
  BY <1>0, <1>1, <1>2, <1>3, <1>4, ConsumerChange DEF CursorOrder, GatesBehindHigh, GateRespected

\* poll_wait starts a scan with nothing loaded yet.
LEMMA PollWaitStep ==
  ASSUME IndInv, NEW p \in Pollers, PollWait(p), UNCHANGED producerVars
  PROVE  IndInv'
<1> USE Topology
<1>0. /\ TypeOK /\ CursorBehindNext /\ CursorOrder /\ ScanBehindCells
      /\ GrantBehindEarlierStages /\ GatesBehindHigh /\ ClearanceBehindConsumers
  BY DEF IndInv
<1>1. /\ counter[p] \in Int /\ next[p] \in Nat /\ available[p] \in Int /\ published \in Int
      /\ Stage[p] \in Int
      /\ \A d \in Consumers : counter[d] \in Int
      /\ \A h \in StageGates[Stage[p]] : gateHigh[h] \in Int
  BY <1>0, ConsumerTypes
<1>2. /\ pc[p] = "idle"
      /\ pc'[p] = "scan"
      /\ todo'[p] = Barrier(Stage[p])
      /\ UNCHANGED <<slots, shutdown_at_sequence, counter, available, next, gateHigh>>
      /\ \A e \in Consumers \ {p} : pc'[e] = pc[e] /\ todo'[e] = todo[e]
  BY <1>0 DEF PollWait, sharedVars, TypeOK, DisruptorTypeOK
<1>3. TypeOK'
  BY <1>0, <1>1, GrantsReachBack, ConsumerStepTypes, ProducerTypesKept DEF TypeOK
<1>4. counter[p] = next[p] - 1
  BY <1>0, <1>2 DEF CursorBehindNext
<1> QED
  BY <1>0, <1>1, <1>2, <1>3, <1>4, ConsumerChange DEF CursorOrder, GatesBehindHigh, GateRespected

\* Dropping a guard moves the cursor forward to the end of its grant.
LEMMA DropGuardStep ==
  ASSUME IndInv, NEW p \in Pollers, DropGuard(p), UNCHANGED producerVars
  PROVE  IndInv'
<1> USE Topology
<1>0. /\ TypeOK /\ CursorBehindNext /\ CursorOrder /\ ScanBehindCells
      /\ GrantBehindEarlierStages /\ GatesBehindHigh /\ ClearanceBehindConsumers
  BY DEF IndInv
<1>1. /\ counter[p] \in Int /\ next[p] \in Nat /\ available[p] \in Int /\ published \in Int
      /\ Stage[p] \in Int
      /\ \A d \in Consumers : counter[d] \in Int
      /\ \A h \in StageGates[Stage[p]] : gateHigh[h] \in Int
  BY <1>0, ConsumerTypes
<1>2. /\ pc[p] = "read" /\ pc'[p] = "idle"
      /\ counter'[p] = available[p]
      /\ next'[p] = available[p] + 1
      /\ UNCHANGED <<slots, shutdown_at_sequence, todo, available, limit, seen, gateHigh>>
      /\ \A e \in Consumers \ {p} :
           pc'[e] = pc[e] /\ counter'[e] = counter[e] /\ next'[e] = next[e]
      /\ \A h \in Gates : counter'[h] = counter[h]
  BY <1>0 DEF DropGuard, sharedVars, TypeOK, DisruptorTypeOK
<1>3. /\ counter[p] <= next[p] - 1 /\ next[p] - 1 <= available[p]
      /\ available[p] <= published
      /\ \A d \in Consumers : Stage[d] < Stage[p] => available[p] <= counter[d]
      /\ \A h \in StageGates[Stage[p]] : available[p] <= gateHigh[h]
  BY <1>0, <1>2 DEF CursorBehindNext, GrantBehindEarlierStages
<1>4. TypeOK'
  BY <1>0, <1>1, GrantsReachBack, ConsumerStepTypes, ProducerTypesKept DEF TypeOK
<1>5. counter'[p] >= counter[p]
  BY <1>1, <1>2, <1>3
<1> QED
  BY <1>1, <1>2, <1>3, <1>4, <1>5, ConsumerChange

\* Moving a gate, in either direction, never lowers its highest value.
LEMMA SetGateStep ==
  ASSUME IndInv, NEW h \in Gates, NEW v \in GateValues, SetGate(h, v), UNCHANGED producerVars
  PROVE  IndInv'
<1> USE Topology
<1>0. /\ TypeOK /\ CursorBehindNext /\ CursorOrder /\ ScanBehindCells
      /\ GrantBehindEarlierStages /\ GatesBehindHigh /\ ClearanceBehindConsumers
  BY DEF IndInv
<1>1. /\ v \in Int /\ gateHigh[h] \in Int /\ counter[h] \in Int
      /\ counter'[h] = v
      /\ v <= gateHigh'[h] /\ gateHigh[h] <= gateHigh'[h] /\ gateHigh'[h] \in Int
      /\ \A e \in (Consumers \cup Gates) \ {h} : counter'[e] = counter[e]
      /\ \A k \in Gates \ {h} : gateHigh'[k] = gateHigh[k]
      /\ UNCHANGED <<slots, shutdown_at_sequence, pc, todo, available, next, limit, seen>>
  BY <1>0, TopologyAssumption DEF SetGate, sharedVars, consumerVars, TypeOK, DisruptorTypeOK
<1>2. TypeOK'
  BY <1>0, SetGateTypes, ProducerTypesKept DEF TypeOK
<1>3. UNCHANGED <<published, ppc, sequence, sequence_clear_of_consumers, batch, ptodo, rear,
                  filled>>
  BY DEF producerVars, callVars
<1>4. \A k \in Gates : /\ gateHigh[k] \in Int /\ gateHigh'[k] \in Int
                        /\ gateHigh[k] <= gateHigh'[k]
  <2>1. \A k \in Gates : gateHigh[k] \in Int /\ gateHigh'[k] \in Int
    BY <1>0, <1>2 DEF TypeOK, DisruptorTypeOK
  <2> QED
    BY <1>1, <2>1
<1>5. \A c \in Consumers : /\ counter'[c] = counter[c]
                            /\ next[c] \in Nat /\ available[c] \in Int
  BY <1>0, <1>1, ConsumerTypes
<1>6. CursorBehindNext'
  BY <1>0, <1>1, <1>5 DEF CursorBehindNext
<1>7. CursorOrder'
  BY <1>0, <1>3, <1>5 DEF CursorOrder
<1>8. ScanBehindCells'
  <2>1. \A x \in Gates : Reached(x) = gateHigh[x] /\ Reached(x)' = gateHigh'[x]
    BY DEF Reached
  <2>2. \A x \in {ProducerBarrier} \cup Consumers : Reached(x)' = Reached(x)
    BY <1>3, <1>5 DEF Reached, CellValue
  <2> SUFFICES ASSUME NEW c \in Consumers, pc[c] \in {"scan", "poll"}
               PROVE  /\ todo[c] \subseteq Barrier(Stage[c])
                      /\ \A x \in Barrier(Stage[c]) \ todo[c] : available[c] <= Reached(x)'
    BY <1>1 DEF ScanBehindCells
  <2>3. /\ todo[c] \subseteq Barrier(Stage[c])
        /\ \A x \in Barrier(Stage[c]) \ todo[c] : available[c] <= Reached(x)
    BY <1>0 DEF ScanBehindCells
  <2> QED
    BY <1>4, <1>5, <2>1, <2>2, <2>3
<1>9. GrantBehindEarlierStages'
  <2> SUFFICES ASSUME NEW c \in Consumers, pc[c] \in {"read", "panicked"}
               PROVE  /\ available[c] <= published
                      /\ \A d \in Consumers : Stage[d] < Stage[c] => available[c] <= counter[d]
                      /\ \A k \in StageGates[Stage[c]] : available[c] <= gateHigh'[k]
    BY <1>1, <1>3, <1>5 DEF GrantBehindEarlierStages
  <2>1. /\ available[c] <= published
        /\ \A d \in Consumers : Stage[d] < Stage[c] => available[c] <= counter[d]
        /\ \A k \in StageGates[Stage[c]] : available[c] <= gateHigh[k]
    BY <1>0 DEF GrantBehindEarlierStages
  <2> QED
    BY <1>4, <1>5, <2>1
<1>10. GatesBehindHigh'
  <2>1. \A k \in Gates : counter'[k] <= gateHigh'[k]
    BY <1>0, <1>1 DEF GatesBehindHigh
  <2>2. ASSUME NEW c \in Consumers, NEW k \in StageGates[Stage[c]]
        PROVE  next[c] - 1 <= gateHigh'[k]
    <3>1. next[c] - 1 <= gateHigh[k]
      BY <1>0 DEF GatesBehindHigh, GateRespected
    <3> QED
      BY <1>4, <1>5, <3>1
  <2> QED
    BY <1>1, <2>1, <2>2 DEF GatesBehindHigh, GateRespected
<1>11. ClearanceBehindConsumers'
  BY <1>0, <1>3, <1>5, ConsumerBarrierType DEF ClearanceBehindConsumers, ConsumerBarrier, ConsumersAt
<1> QED
  BY <1>2, <1>6, <1>7, <1>8, <1>9, <1>10, <1>11 DEF IndInv

\* A step of the producer keeps the invariant if it keeps the producer's part
\* and does not take back what is published.
LEMMA ProducerChange ==
  ASSUME IndInv, TypeOK', ClearanceBehindConsumers',
         UNCHANGED <<counter, consumerVars, gateHigh>>, published' >= published
  PROVE  IndInv'
<1> USE Topology
<1>0. /\ TypeOK /\ CursorBehindNext /\ CursorOrder /\ ScanBehindCells
      /\ GrantBehindEarlierStages /\ GatesBehindHigh /\ ClearanceBehindConsumers
  BY DEF IndInv
<1>1. UNCHANGED <<counter, pc, todo, available, next, gateHigh>>
  BY DEF consumerVars
<1>2. /\ published \in Int /\ published' \in Int /\ published <= published'
      /\ \A c \in Consumers : counter[c] \in Int /\ available[c] \in Int
  BY <1>0, ConsumerTypes, BoundsAssumption DEF TypeOK, NONE
<1>3. CursorBehindNext'
  BY <1>0, <1>1 DEF CursorBehindNext
<1>4. CursorOrder'
  BY <1>0, <1>1, <1>2 DEF CursorOrder
<1>5. ScanBehindCells'
  <2>1. \A x \in Gates \cup Consumers : Reached(x)' = Reached(x)
    BY <1>1 DEF Reached, CellValue
  <2>2. Reached(ProducerBarrier)' = published' /\ Reached(ProducerBarrier) = published
    BY DEF Reached, CellValue
  <2> SUFFICES ASSUME NEW c \in Consumers, pc[c] \in {"scan", "poll"}
               PROVE  /\ todo[c] \subseteq Barrier(Stage[c])
                      /\ \A x \in Barrier(Stage[c]) \ todo[c] : available[c] <= Reached(x)'
    BY <1>1 DEF ScanBehindCells
  <2>3. /\ todo[c] \subseteq Barrier(Stage[c])
        /\ \A x \in Barrier(Stage[c]) \ todo[c] : available[c] <= Reached(x)
    BY <1>0 DEF ScanBehindCells
  <2> QED
    BY <1>2, <2>1, <2>2, <2>3
<1>6. GrantBehindEarlierStages'
  BY <1>0, <1>1, <1>2 DEF GrantBehindEarlierStages
<1>7. GatesBehindHigh'
  BY <1>0, <1>1 DEF GatesBehindHigh, GateRespected
<1> QED
  BY <1>3, <1>4, <1>5, <1>6, <1>7 DEF IndInv

\* The slowest final consumer is the slowest of all.
LEMMA FinalConsumersTrail ==
  ASSUME IndInv, NEW c \in Consumers
  PROVE  \E d \in ConsumerBarrier : counter[d] <= counter[c]
<1>1. CASE Stage[c] = LastStage
  BY <1>1, ConsumerTypes DEF IndInv, ConsumerBarrier, ConsumersAt
<1>2. CASE Stage[c] # LastStage
  <2>1. Stage[c] < LastStage
    BY <1>2, Topology, TopologyAssumption
  <2>2. PICK d \in ConsumersAt(LastStage) : TRUE
    BY TopologyAssumption
  <2> QED
    BY <2>1, <2>2 DEF IndInv, CursorOrder, ConsumerBarrier, ConsumersAt
<1> QED
  BY <1>1, <1>2

\* A call that needs no load has a clearance that covers its batch.
LEMMA BeginPublishStep ==
  ASSUME IndInv, NEW n \in 0 .. MaxBatch, NEW spin \in BOOLEAN, BeginPublish(n, spin)
  PROVE  IndInv'
<1> USE Topology
<1>0. /\ TypeOK /\ CursorBehindNext /\ CursorOrder /\ ScanBehindCells
      /\ GrantBehindEarlierStages /\ GatesBehindHigh /\ ClearanceBehindConsumers
  BY DEF IndInv
<1>1. /\ published \in Int /\ sequence \in 0 .. MaxSequence /\ sequence_clear_of_consumers \in Int
      /\ batch \in 0 .. MaxBatch /\ rear \in Int /\ filled \in 0 .. MaxBatch
      /\ ptodo \in SUBSET Consumers
      /\ MaxSequence \in Nat /\ MaxBatch \in Nat /\ Capacity \in Nat \ {0}
      /\ \A d \in Consumers : counter[d] \in Int
  BY <1>0, ConsumerTypes, BoundsAssumption, CapacityAssumption DEF TypeOK
<1>2. /\ UNCHANGED <<slots, shutdown_at_sequence, counter, consumerVars, gateHigh, published,
                     sequence, sequence_clear_of_consumers, rear, joined>>
      /\ batch' = n /\ blocking' = spin /\ filled' = 0
      /\ sequence + n <= MaxSequence
      /\ missing' = 0 /\ roomAtCall' = {m \in 0 .. Capacity : HasRoomFor(m)}
      /\ \/ ppc' = "claim" /\ ptodo' = ConsumerBarrier
         \/ /\ ppc' = "update" /\ ptodo' = ptodo
            /\ ~(sequence_clear_of_consumers < sequence - 1 + n)
  BY DEF BeginPublish, disruptorVars, sharedVars, last_published
<1>3. TypeOK'
  <2>1. DisruptorTypeOK'
    BY <1>0, <1>2 DEF TypeOK, DisruptorTypeOK, consumerVars
  <2>2. roomAtCall' \in SUBSET (0 .. Capacity) /\ missing' \in Int
    BY <1>2
  <2>3. blocking' \in BOOLEAN
    BY <1>2, Zenon
  <2>4. /\ published' \in NONE .. MaxSequence - 1
        /\ ppc' \in {"idle", "claim", "update", "joining", "dropped", "panicked"}
        /\ sequence' \in 0 .. MaxSequence
        /\ sequence_clear_of_consumers' \in Int
        /\ batch' \in 0 .. MaxBatch
        /\ ptodo' \in SUBSET Consumers
        /\ rear' \in Int
        /\ filled' \in 0 .. MaxBatch
        /\ joined' \in SUBSET Managed
    BY <1>0, <1>1, <1>2, ConsumerBarrierType DEF TypeOK
  <2> QED
    BY <2>1, <2>2, <2>3, <2>4, Zenon DEF TypeOK
<1>4. ClearanceBehindConsumers'
  <2>1. ppc' = "update" => sequence' + batch' - 1 <= sequence_clear_of_consumers'
    BY <1>1, <1>2
  <2> QED
    BY <1>0, <1>1, <1>2, <2>1 DEF ClearanceBehindConsumers, ConsumerBarrier, ConsumersAt
<1> QED
  BY <1>1, <1>2, <1>3, <1>4, ProducerChange

\* The clearance computed from the least of the loaded cursors lies within a
\* round of all of them, hence of every consumer.
LEMMA LoadConsumerCursorStep ==
  ASSUME IndInv, NEW c \in ConsumerBarrier, LoadConsumerCursor(c)
  PROVE  IndInv'
<1> DEFINE least == IF ptodo = ConsumerBarrier THEN counter[c] ELSE Least(rear, counter[c])
           room  == available_capacity(last_published, least)
<1> USE Topology
<1>0. /\ TypeOK /\ CursorBehindNext /\ CursorOrder /\ ScanBehindCells
      /\ GrantBehindEarlierStages /\ GatesBehindHigh /\ ClearanceBehindConsumers
  BY DEF IndInv
<1>1. /\ published \in Int /\ sequence \in 0 .. MaxSequence /\ sequence_clear_of_consumers \in Int
      /\ batch \in 0 .. MaxBatch /\ rear \in Int /\ filled \in 0 .. MaxBatch
      /\ ptodo \in SUBSET Consumers
      /\ MaxSequence \in Nat /\ MaxBatch \in Nat /\ Capacity \in Nat \ {0}
      /\ \A d \in Consumers : counter[d] \in Int
  BY <1>0, ConsumerTypes, BoundsAssumption, CapacityAssumption DEF TypeOK
<1>2. /\ UNCHANGED <<slots, shutdown_at_sequence, counter, consumerVars, gateHigh, published,
                     sequence, batch, blocking, roomAtCall, filled, joined>>
      /\ ppc = "claim" /\ c \in ptodo /\ rear' = least
      /\ \/ ptodo' = ptodo \ {c} /\ UNCHANGED <<ppc, sequence_clear_of_consumers>>
         \/ /\ ptodo = {c} /\ room >= batch /\ ptodo' = {} /\ ppc' = "update"
            /\ sequence_clear_of_consumers' = last_published + room
         \/ /\ ptodo' = ConsumerBarrier /\ ppc' = "claim"
            /\ UNCHANGED sequence_clear_of_consumers
         \/ ptodo' = {} /\ ppc' = "idle" /\ UNCHANGED sequence_clear_of_consumers
  BY DEF LoadConsumerCursor, EnoughRoom, disruptorVars, sharedVars, callVars
<1>3. /\ c \in Consumers /\ least \in Int
      /\ least <= counter[c]
      /\ \A d \in ConsumerBarrier \ ptodo : least <= counter[d]
  BY <1>0, <1>1, <1>2, ConsumerBarrierType DEF Least, ClearanceBehindConsumers
<1>4. room \in Int /\ last_published + room = least + Capacity
  BY <1>1, <1>3 DEF available_capacity, wrap_point, last_published
<1> HIDE DEF least, room
<1>5. TypeOK'
  <2>1. DisruptorTypeOK'
    BY <1>0, <1>2 DEF TypeOK, DisruptorTypeOK, consumerVars
  <2>2. ptodo' \in SUBSET Consumers
    BY <1>1, <1>2, ConsumerBarrierType
  <2>3. sequence_clear_of_consumers' \in Int
    BY <1>1, <1>2, <1>3, <1>4
  <2>4. missing' \in Int
    BY <1>0, <1>1, <1>4 DEF TypeOK, LoadConsumerCursor, MissingFreeSlots, room, least
  <2> QED
    BY <1>0, <1>2, <1>3, <2>1, <2>2, <2>3, <2>4 DEF TypeOK
<1>6. ClearanceBehindConsumers'
  <2>1. \A d \in ConsumerBarrier \ ptodo' : ppc' = "claim" => rear' <= counter[d]
    BY <1>2, <1>3
  <2>2. ppc' = "update" => \A d \in Consumers : sequence_clear_of_consumers' <= counter[d] + Capacity
    <3> SUFFICES ASSUME ppc' = "update", NEW d \in Consumers
                 PROVE  sequence_clear_of_consumers' <= counter[d] + Capacity
      OBVIOUS
    <3>1. PICK f \in ConsumerBarrier : counter[f] <= counter[d]
      BY FinalConsumersTrail
    <3>2. least <= counter[f] /\ f \in Consumers
      BY <1>2, <1>3, ConsumerBarrierType
    <3>3. sequence_clear_of_consumers' = least + Capacity
      BY <1>2, <1>4
    <3> QED
      BY <1>1, <1>3, <3>1, <3>2, <3>3
  <2>3. ppc' = "update" =>
          sequence + batch - 1 <= sequence_clear_of_consumers' /\ filled <= batch
    BY <1>0, <1>1, <1>2, <1>3, <1>4 DEF last_published, ClearanceBehindConsumers
  <2>4. \A d \in Consumers : sequence_clear_of_consumers' <= counter[d] + Capacity
    BY <1>0, <1>2, <2>2 DEF ClearanceBehindConsumers
  <2>5. ppc' = "claim" => ptodo' \subseteq ConsumerBarrier
    BY <1>0, <1>2 DEF ClearanceBehindConsumers
  <2>6. sequence + (IF ppc' \in {"claim", "update"} THEN batch ELSE 0) <= MaxSequence
    BY <1>0, <1>1, <1>2 DEF ClearanceBehindConsumers
  <2> QED
    BY <1>0, <1>2, <2>1, <2>3, <2>4, <2>5, <2>6
       DEF ClearanceBehindConsumers, ConsumerBarrier, ConsumersAt
<1> QED
  BY <1>1, <1>2, <1>5, <1>6, ProducerChange

\* The closure writes slots only.
LEMMA UpdateEventStep == IndInv /\ UpdateEvent => IndInv'
<1> SUFFICES ASSUME IndInv, UpdateEvent PROVE IndInv'
  OBVIOUS
<1> USE Topology
<1>0. /\ TypeOK /\ CursorBehindNext /\ CursorOrder /\ ScanBehindCells
      /\ GrantBehindEarlierStages /\ GatesBehindHigh /\ ClearanceBehindConsumers
  BY DEF IndInv
<1>1. /\ published \in Int /\ sequence \in 0 .. MaxSequence /\ sequence_clear_of_consumers \in Int
      /\ batch \in 0 .. MaxBatch /\ rear \in Int /\ filled \in 0 .. MaxBatch
      /\ ptodo \in SUBSET Consumers
      /\ MaxSequence \in Nat /\ MaxBatch \in Nat /\ Capacity \in Nat \ {0}
      /\ \A d \in Consumers : counter[d] \in Int
  BY <1>0, ConsumerTypes, BoundsAssumption, CapacityAssumption DEF TypeOK
<1>2. /\ UNCHANGED <<shutdown_at_sequence, counter, consumerVars, gateHigh, published, ppc, sequence,
                     sequence_clear_of_consumers, batch, blocking, missing, roomAtCall, ptodo, rear, joined>>
      /\ ppc = "update" /\ filled < batch /\ filled' = filled + 1
      /\ slots' = [slots EXCEPT ![slot_index(sequence + filled)] = sequence + filled]
  BY DEF UpdateEvent, HasNext, callVars
<1>3. TypeOK'
  <2>1. slots' \in [SlotIndices -> Int]
    <3>1. slots \in [SlotIndices -> Int] /\ sequence + filled \in Int
      BY <1>0, <1>1 DEF TypeOK, DisruptorTypeOK
    <3> QED
      BY <1>2, <3>1
  <2>2. DisruptorTypeOK'
    BY <1>0, <1>2, <2>1 DEF TypeOK, DisruptorTypeOK, consumerVars
  <2>3. filled' \in 0 .. MaxBatch
    BY <1>1, <1>2
  <2> QED
    BY <1>0, <1>2, <2>2, <2>3 DEF TypeOK
<1>4. ClearanceBehindConsumers'
  BY <1>0, <1>1, <1>2 DEF ClearanceBehindConsumers, ConsumerBarrier, ConsumersAt
<1> QED
  BY <1>1, <1>2, <1>3, <1>4, ProducerChange

\* A closure that unwinds leaves sequence and clearance as they are.
LEMMA UpdatePanicsStep == IndInv /\ UpdatePanics => IndInv'
<1> SUFFICES ASSUME IndInv, UpdatePanics PROVE IndInv'
  OBVIOUS
<1> USE Topology
<1>0. /\ TypeOK /\ CursorBehindNext /\ CursorOrder /\ ScanBehindCells
      /\ GrantBehindEarlierStages /\ GatesBehindHigh /\ ClearanceBehindConsumers
  BY DEF IndInv
<1>1. /\ published \in Int /\ sequence \in 0 .. MaxSequence /\ sequence_clear_of_consumers \in Int
      /\ batch \in 0 .. MaxBatch /\ rear \in Int /\ filled \in 0 .. MaxBatch
      /\ ptodo \in SUBSET Consumers
      /\ MaxSequence \in Nat /\ MaxBatch \in Nat /\ Capacity \in Nat \ {0}
      /\ \A d \in Consumers : counter[d] \in Int
  BY <1>0, ConsumerTypes, BoundsAssumption, CapacityAssumption DEF TypeOK
<1>2. /\ UNCHANGED <<slots, shutdown_at_sequence, counter, consumerVars, gateHigh, published, sequence,
                     sequence_clear_of_consumers, batch, blocking, missing, roomAtCall, ptodo, rear,
                     filled, joined>>
      /\ ppc' = "idle"
  BY DEF UpdatePanics, callVars, disruptorVars, sharedVars
<1>3. TypeOK'
  BY <1>0, <1>2 DEF TypeOK, DisruptorTypeOK, consumerVars
<1>4. ClearanceBehindConsumers'
  BY <1>0, <1>1, <1>2 DEF ClearanceBehindConsumers, ConsumerBarrier, ConsumersAt
<1> QED
  BY <1>1, <1>2, <1>3, <1>4, ProducerChange

\* Publishing moves the producer's cursor forward.
LEMMA PublishStep == IndInv /\ Publish => IndInv'
<1> SUFFICES ASSUME IndInv, Publish PROVE IndInv'
  OBVIOUS
<1> USE Topology
<1>0. /\ TypeOK /\ CursorBehindNext /\ CursorOrder /\ ScanBehindCells
      /\ GrantBehindEarlierStages /\ GatesBehindHigh /\ ClearanceBehindConsumers
  BY DEF IndInv
<1>1. /\ published \in Int /\ sequence \in 0 .. MaxSequence /\ sequence_clear_of_consumers \in Int
      /\ batch \in 0 .. MaxBatch /\ rear \in Int /\ filled \in 0 .. MaxBatch
      /\ ptodo \in SUBSET Consumers
      /\ MaxSequence \in Nat /\ MaxBatch \in Nat /\ Capacity \in Nat \ {0}
      /\ \A d \in Consumers : counter[d] \in Int
  BY <1>0, ConsumerTypes, BoundsAssumption, CapacityAssumption DEF TypeOK
<1>2. /\ UNCHANGED <<slots, shutdown_at_sequence, counter, consumerVars, gateHigh,
                     sequence_clear_of_consumers, batch, blocking, missing, roomAtCall, ptodo, rear,
                     filled, joined>>
      /\ ppc = "update" /\ ppc' = "idle"
      /\ published' = sequence + batch - 1
      /\ sequence' = sequence + batch
  BY DEF Publish, callVars, disruptorVars, sharedVars
<1>3. sequence + batch <= MaxSequence /\ published = sequence - 1
  BY <1>0, <1>2 DEF ClearanceBehindConsumers
<1>4. TypeOK'
  <2>1. /\ sequence' \in 0 .. MaxSequence
        /\ published' \in NONE .. MaxSequence - 1
    BY <1>1, <1>2, <1>3 DEF NONE
  <2> QED
    BY <1>0, <1>2, <2>1 DEF TypeOK, DisruptorTypeOK, consumerVars
<1>5. ClearanceBehindConsumers'
  BY <1>0, <1>1, <1>2, <1>3 DEF ClearanceBehindConsumers, ConsumerBarrier, ConsumersAt
<1> QED
  BY <1>1, <1>2, <1>3, <1>4, <1>5, ProducerChange

\* Requesting shutdown moves no cursor.
LEMMA DropProducerStep == IndInv /\ DropProducer => IndInv'
<1> SUFFICES ASSUME IndInv, DropProducer PROVE IndInv'
  OBVIOUS
<1> USE Topology
<1>0. /\ TypeOK /\ CursorBehindNext /\ CursorOrder /\ ScanBehindCells
      /\ GrantBehindEarlierStages /\ GatesBehindHigh /\ ClearanceBehindConsumers
  BY DEF IndInv
<1>1. /\ published \in Int /\ sequence \in 0 .. MaxSequence /\ sequence_clear_of_consumers \in Int
      /\ batch \in 0 .. MaxBatch /\ rear \in Int /\ filled \in 0 .. MaxBatch
      /\ ptodo \in SUBSET Consumers
      /\ MaxSequence \in Nat /\ MaxBatch \in Nat /\ Capacity \in Nat \ {0}
      /\ \A d \in Consumers : counter[d] \in Int
  BY <1>0, ConsumerTypes, BoundsAssumption, CapacityAssumption DEF TypeOK
<1>2. /\ UNCHANGED <<slots, counter, consumerVars, gateHigh, published, sequence,
                     sequence_clear_of_consumers, batch, blocking, missing, roomAtCall, ptodo, rear,
                     filled, joined>>
      /\ shutdown_at_sequence' = sequence
      /\ ppc' \in {"joining", "dropped"}
  BY DEF DropProducer, FinalSequence, callVars
<1>3. TypeOK'
  BY <1>0, <1>1, <1>2 DEF TypeOK, DisruptorTypeOK, consumerVars
<1>4. ClearanceBehindConsumers'
  BY <1>0, <1>1, <1>2 DEF ClearanceBehindConsumers, ConsumerBarrier, ConsumersAt
<1> QED
  BY <1>1, <1>2, <1>3, <1>4, ProducerChange

\* Joining moves no cursor.
LEMMA JoinConsumerStep ==
  ASSUME IndInv, NEW c \in Managed, JoinConsumer(c)
  PROVE  IndInv'
<1> USE Topology
<1>0. /\ TypeOK /\ CursorBehindNext /\ CursorOrder /\ ScanBehindCells
      /\ GrantBehindEarlierStages /\ GatesBehindHigh /\ ClearanceBehindConsumers
  BY DEF IndInv
<1>1. /\ published \in Int /\ sequence \in 0 .. MaxSequence /\ sequence_clear_of_consumers \in Int
      /\ batch \in 0 .. MaxBatch /\ rear \in Int /\ filled \in 0 .. MaxBatch
      /\ ptodo \in SUBSET Consumers
      /\ MaxSequence \in Nat /\ MaxBatch \in Nat /\ Capacity \in Nat \ {0}
      /\ \A d \in Consumers : counter[d] \in Int
  BY <1>0, ConsumerTypes, BoundsAssumption, CapacityAssumption DEF TypeOK
<1>2. /\ UNCHANGED <<slots, shutdown_at_sequence, counter, consumerVars, gateHigh, published,
                     sequence, sequence_clear_of_consumers, batch, blocking, missing, roomAtCall, ptodo,
                     rear, filled>>
      /\ joined' = joined \cup {c}
      /\ ppc' \in {"panicked", "dropped", "joining"}
  BY DEF JoinConsumer, callVars, disruptorVars, sharedVars
<1>3. TypeOK'
  <2>1. joined' \in SUBSET Managed
    BY <1>0, <1>2 DEF TypeOK
  <2> QED
    BY <1>0, <1>2, <2>1 DEF TypeOK, DisruptorTypeOK, consumerVars
<1>4. ClearanceBehindConsumers'
  BY <1>0, <1>1, <1>2 DEF ClearanceBehindConsumers, ConsumerBarrier, ConsumersAt
<1> QED
  BY <1>1, <1>2, <1>3, <1>4, ProducerChange
-----------------------------------------------------------------------------
\* Every step keeps the invariant.
LEMMA NextIndInv == IndInv /\ [Next]_vars => IndInv'
<1> SUFFICES ASSUME IndInv, [Next]_vars PROVE IndInv'
  OBVIOUS
<1>1. ASSUME NEW n \in 0 .. MaxBatch, NEW spin \in BOOLEAN, BeginPublish(n, spin) PROVE IndInv'
  BY <1>1, BeginPublishStep
<1>2. CASE ProducerStep
  <2>1. ASSUME NEW c \in ConsumerBarrier, LoadConsumerCursor(c) PROVE IndInv'
    BY <2>1, LoadConsumerCursorStep
  <2>2. ASSUME NEW c \in Managed, JoinConsumer(c) PROVE IndInv'
    BY <2>2, JoinConsumerStep
  <2> QED
    BY <1>2, <2>1, <2>2, UpdateEventStep, PublishStep DEF ProducerStep
<1>3. ASSUME NEW c \in Consumers, ConsumerStep(c) PROVE IndInv'
  <2>1. ASSUME NEW x \in todo[c], LoadCell(c, x, CellValue(x)), UNCHANGED producerVars
        PROVE  IndInv'
    BY <2>1, LoadCellStep
  <2> QED
    BY <1>3, <2>1, CheckShutdownStep, ReadEventStep, SignalDoneStep DEF ConsumerStep, LoadBarrier
<1>4. CASE ClientStep
  <2>1. ASSUME NEW c \in Faulty, HandlerPanics(c), UNCHANGED producerVars PROVE IndInv'
    BY <2>1, HandlerPanicsStep, TopologyAssumption DEF Consumers
  <2>2. ASSUME NEW p \in Pollers, NEW l \in Limits \cup {NoLimit}, PollTake(p, l),
               UNCHANGED producerVars
        PROVE  IndInv'
    BY <2>2, PollTakeStep
  <2>3. ASSUME NEW p \in Pollers, PollWait(p), UNCHANGED producerVars PROVE IndInv'
    BY <2>3, PollWaitStep
  <2>4. ASSUME NEW p \in Pollers, DropGuard(p), UNCHANGED producerVars PROVE IndInv'
    BY <2>4, DropGuardStep
  <2>5. ASSUME NEW h \in Gates, NEW v \in GateValues, SetGate(h, v), UNCHANGED producerVars
        PROVE  IndInv'
    BY <2>5, SetGateStep
  <2> QED
    BY <1>4, <2>1, <2>2, <2>3, <2>4, <2>5 DEF ClientStep
<1>5. CASE UNCHANGED vars
  <2>1. /\ UNCHANGED <<slots, shutdown_at_sequence, counter, consumerVars, gateHigh, published, ppc,
                       sequence, sequence_clear_of_consumers, batch, blocking, missing, roomAtCall, ptodo,
                       rear, filled, joined>>
    BY <1>5 DEF vars, disruptorVars, sharedVars, producerVars, callVars
  <2>2. TypeOK'
    BY <2>1 DEF IndInv, TypeOK, DisruptorTypeOK, consumerVars
  <2>3. ClearanceBehindConsumers'
    BY <2>1 DEF IndInv, ClearanceBehindConsumers, ConsumerBarrier, ConsumersAt
  <2>4. published' >= published
    BY <2>1, ConsumerTypes DEF IndInv
  <2> QED
    BY <2>1, <2>2, <2>3, <2>4, ProducerChange
<1> QED
  BY <1>1, <1>2, <1>3, <1>4, <1>5, UpdatePanicsStep, DropProducerStep DEF Next, Terminated

\* The inductive invariant: whatever the topology, the capacity and the batch
\* sizes, every reachable state keeps cursors behind what they wait for and the
\* cached clearance behind the slowest consumer.
THEOREM SingleProducerInductive == Spec => []IndInv
<1>1. Init => IndInv
  BY InitIndInv
<1>2. IndInv /\ [Next]_vars => IndInv'
  BY NextIndInv
<1> QED
  BY <1>1, <1>2, PTL DEF Spec

\* Every variable keeps its type.
THEOREM SingleProducerTypeOK == Spec => []TypeOK
<1>1. IndInv => TypeOK
  BY DEF IndInv
<1> QED
  BY <1>1, SingleProducerInductive, PTL

\* No slot is granted to the update closure while a handler may read it or an
\* event guard exists that was granted it, what the guard has yielded included.
THEOREM SingleProducerNoDataRace == Spec => []NoDataRace
<1>1. IndInv => NoDataRace
  <2> SUFFICES ASSUME IndInv, NEW c \in Consumers, pc[c] = "read", ppc = "update",
                      NEW r \in Reading(c), NEW w \in sequence .. sequence + batch - 1
               PROVE  slot_index(r) # slot_index(w)
    BY DEF NoDataRace, Reading, Writing
  <2>0. r \in next[c] .. available[c] \/ r \in counter[c] + 1 .. available[c]
    BY DEF Reading
  <2>1. /\ counter[c] \in Int /\ next[c] \in Nat /\ available[c] \in Int /\ published \in Int
        /\ sequence \in Int /\ batch \in Int /\ sequence_clear_of_consumers \in Int
        /\ Capacity \in Int /\ r \in Int /\ w \in Int
    BY <2>0, ConsumerTypes, BoundsAssumption, CapacityAssumption DEF IndInv, TypeOK
  <2>2. /\ counter[c] <= next[c] - 1
        /\ available[c] <= published
        /\ published = sequence - 1
        /\ sequence + batch - 1 <= sequence_clear_of_consumers
        /\ sequence_clear_of_consumers <= counter[c] + Capacity
    BY DEF IndInv, CursorBehindNext, GrantBehindEarlierStages, ClearanceBehindConsumers
  <2>3. r < w /\ w < r + Capacity
    BY <2>0, <2>1, <2>2
  <2> QED
    BY <2>1, <2>3, SlotsDiffer
<1> QED
  BY <1>1, SingleProducerInductive, PTL

\* No event reaches a stage before every consumer of every earlier stage has
\* released it.
THEOREM SingleProducerStageOrder == Spec => []StageOrder
<1>1. IndInv => StageOrder
  <2> SUFFICES ASSUME IndInv, NEW c \in Consumers, NEW d \in Consumers, Stage[d] < Stage[c]
               PROVE  next[c] - 1 <= counter[d]
    BY DEF StageOrder
  <2>1. /\ counter[c] \in Int /\ next[c] \in Nat /\ available[c] \in Int /\ counter[d] \in Int
    BY ConsumerTypes DEF IndInv
  <2>2. CASE pc[c] \in {"read", "panicked"}
    BY <2>1, <2>2 DEF IndInv, CursorBehindNext, GrantBehindEarlierStages
  <2>3. CASE pc[c] \notin {"read", "panicked"}
    BY <2>1, <2>3 DEF IndInv, CursorBehindNext, CursorOrder
  <2> QED
    BY <2>2, <2>3
<1> QED
  BY <1>1, SingleProducerInductive, PTL

\* No event reaches a gated stage before each of its gates has let it through.
THEOREM SingleProducerGateRespected == Spec => []GateRespected
<1>1. IndInv => GateRespected
  BY DEF IndInv, GatesBehindHigh
<1> QED
  BY <1>1, SingleProducerInductive, PTL
=============================================================================
