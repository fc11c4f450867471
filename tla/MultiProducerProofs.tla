------------------------- MODULE MultiProducerProofs -------------------------
(***************************************************************************)
(* Proofs about MultiProducer, for every capacity, word size, topology,    *)
(* set of handles and batch size: MultiInv is inductive and implies the    *)
(* safety properties.                                                      *)
(*                                                                         *)
(* A step of a consumer leaves everything about handles alone and only     *)
(* moves cursors forward (ConsumerMoves); a step of a handle leaves        *)
(* everything about consumers alone and only publishes more                *)
(* (ConsumersUnharmed), inside of its call (CallMoves) or outside of one   *)
(* (OutsideMoves).  What is left are the parts of the invariant about      *)
(* whoever moves, one lemma per action.                                    *)
(***************************************************************************)
EXTENDS MultiProducer, DisruptorProofs, FiniteSetTheorems

\* Claimed sequences stay below a bound.
LEMMA SequencesType ==
  /\ Cardinality(Producers) \in Nat
  /\ MaxSequence \in Nat /\ MaxBatch \in Nat
  /\ MaxBatch * Cardinality(Producers) \in Nat
  /\ \A s \in Sequences : s \in Int /\ NONE <= s
<1>1. Cardinality(Producers) \in Nat
  BY FS_CardinalityType, MultiProducerAssumption
<1>2. MaxSequence \in Nat /\ MaxBatch \in Nat
  BY MultiProducerAssumption
<1>3. MaxBatch * Cardinality(Producers) \in Nat
  BY <1>1, <1>2
<1> QED
  BY <1>1, <1>2, <1>3 DEF Sequences, NONE

\* Ranges of the variables, as they are used in sums and comparisons.
LEMMA Types ==
  ASSUME TypeOK
  PROVE  /\ Capacity \in Nat /\ Capacity >= 1
         /\ cursor \in Int
         /\ \A s \in published : s \in Int
         /\ \A c \in Consumers :
              /\ counter[c] \in Int /\ next[c] \in Nat /\ available[c] \in Int
              /\ walk[c] \in Int /\ Stage[c] \in Int
              /\ \A h \in StageGates[Stage[c]] : gateHigh[h] \in Int
         /\ \A q \in Producers :
              /\ call[q].n \in Nat /\ call[q].filled \in Nat /\ call[q].flipped \in Nat
              /\ call[q].current \in Int /\ call[q].claimed_sequence \in Int
              /\ call[q].rear \in Int /\ call[q].todo \subseteq ConsumerBarrier
              /\ sequence_clear_of_consumers[q] \in Int /\ lower(q) \in Int
<1>1. Capacity \in Nat /\ Capacity >= 1
  BY CapacityAssumption
<1>2. cursor \in Int /\ \A s \in published : s \in Int
  BY SequencesType DEF TypeOK
<1>3. ASSUME NEW c \in Consumers
      PROVE  /\ counter[c] \in Int /\ next[c] \in Nat /\ available[c] \in Int
             /\ walk[c] \in Int /\ Stage[c] \in Int
             /\ \A h \in StageGates[Stage[c]] : gateHigh[h] \in Int
  <2>1. walk[c] \in Int
    BY SequencesType DEF TypeOK
  <2> QED
    BY <2>1, Topology DEF TypeOK, DisruptorTypeOK
<1>4. ASSUME NEW q \in Producers
      PROVE  /\ call[q].n \in Nat /\ call[q].filled \in Nat /\ call[q].flipped \in Nat
             /\ call[q].current \in Int /\ call[q].claimed_sequence \in Int
             /\ call[q].rear \in Int /\ call[q].todo \subseteq ConsumerBarrier
             /\ sequence_clear_of_consumers[q] \in Int /\ lower(q) \in Int
  <2>1. /\ call[q] \in [n : 0 .. MaxBatch, spin : BOOLEAN, current : Sequences,
                        todo : SUBSET ConsumerBarrier, rear : Int, claimed_sequence : Sequences,
                        filled : 0 .. MaxBatch, flipped : 0 .. MaxBatch]
        /\ sequence_clear_of_consumers[q] \in Int
    BY DEF TypeOK
  <2>2. call[q].n \in Nat /\ call[q].filled \in Nat /\ call[q].flipped \in Nat
    BY <2>1, SequencesType
  <2>3. call[q].current \in Int /\ call[q].claimed_sequence \in Int
    BY <2>1, SequencesType
  <2> QED
    BY <2>1, <2>2, <2>3 DEF lower
<1> QED
  BY <1>1, <1>2, <1>3, <1>4

\* The producer waits for consumers only.
LEMMA ConsumerBarrierType == ConsumerBarrier \subseteq Consumers
BY DEF ConsumerBarrier, ConsumersAt

\* There is a consumer, and the last stage has one.
LEMMA SomeConsumer == \E c \in Consumers : c \in ConsumerBarrier
BY TopologyAssumption DEF ConsumerBarrier, ConsumersAt
-----------------------------------------------------------------------------
(* What consumers may have.                                                *)

\* Who may have everything up to t may have everything up to an earlier s.
LEMMA MayPassDown ==
  ASSUME TypeOK, NEW c \in Consumers, NEW s \in Int, NEW t \in Int, s <= t, MayPass(c, t)
  PROVE  MayPass(c, s)
<1>1. Ready(s)
  BY DEF MayPass, Ready
<1>2. ASSUME NEW d \in Consumers, Stage[d] < Stage[c] PROVE s <= counter[d]
  BY <1>2, Types DEF MayPass
<1>3. ASSUME NEW h \in StageGates[Stage[c]] PROVE s <= gateHigh[h]
  BY <1>3, Types DEF MayPass
<1> QED
  BY <1>1, <1>2, <1>3 DEF MayPass

\* What has been let through stays so: publications, cursors and the highest
\* values of gates only grow.
LEMMA PermissionsStay ==
  ASSUME TypeOK, TypeOK',
         published \subseteq published',
         \A d \in Consumers : counter[d] <= counter'[d],
         \A h \in Gates : gateHigh[h] <= gateHigh'[h],
         NEW s \in Int
  PROVE  /\ Ready(s) => Ready(s)'
         /\ \A x : Covers(x, s) => Covers(x, s)'
         /\ \A c \in Consumers : MayPass(c, s) => MayPass(c, s)'
<1>1. Ready(s) => Ready(s)'
  BY DEF Ready
<1>2. ASSUME NEW d \in Consumers, s <= counter[d] PROVE s <= counter'[d]
  <2>1. counter[d] \in Int /\ counter'[d] \in Int
    BY DEF TypeOK, DisruptorTypeOK
  <2> QED
    BY <1>2, <2>1
<1>3. ASSUME NEW h \in Gates, s <= gateHigh[h] PROVE s <= gateHigh'[h]
  <2>1. gateHigh[h] \in Int /\ gateHigh'[h] \in Int
    BY DEF TypeOK, DisruptorTypeOK
  <2> QED
    BY <1>3, <2>1
<1>4. \A x : Covers(x, s) => Covers(x, s)'
  BY <1>1, <1>2, <1>3 DEF Covers
<1>5. \A c \in Consumers : MayPass(c, s) => MayPass(c, s)'
  BY <1>1, <1>2, <1>3, Topology DEF MayPass
<1> QED
  BY <1>1, <1>4, <1>5

\* What all cells of its barrier cover, a consumer may have: the stage before
\* stands for all earlier ones.
LEMMA BarrierPasses ==
  ASSUME TypeOK, ConsumersFollow, NEW c \in Consumers, NEW s \in Int,
         \A x \in Barrier(Stage[c]) : Covers(x, s)
  PROVE  MayPass(c, s)
<1> USE Topology
<1>1. CASE Stage[c] = 1
  <2>1. Ready(s)
    BY <1>1 DEF Barrier, Covers
  <2>2. \A d \in Consumers : ~(Stage[d] < Stage[c])
    BY <1>1
  <2>3. StageGates[Stage[c]] = {}
    BY <1>1, TopologyAssumption
  <2> QED
    BY <2>1, <2>2, <2>3 DEF MayPass
<1>2. CASE Stage[c] # 1
  <2>1. Stage[c] - 1 \in 1 .. LastStage
    BY <1>2, TopologyAssumption
  <2>2. PICK d \in ConsumersAt(Stage[c] - 1) : TRUE
    BY <2>1, TopologyAssumption
  <2>3. \A e \in ConsumersAt(Stage[c] - 1) : e \in Consumers /\ s <= counter[e]
    BY <1>2 DEF Barrier, Covers, ConsumersAt
  <2>4. d \in Consumers /\ Stage[d] = Stage[c] - 1 /\ s <= counter[d]
    BY <2>3 DEF ConsumersAt
  <2>5. counter[d] \in Int /\ MayPass(d, counter[d])
    BY <2>4, Types DEF ConsumersFollow, Follows
  <2>6. MayPass(d, s)
    BY <2>4, <2>5, MayPassDown
  <2>7. ASSUME NEW e \in Consumers, Stage[e] < Stage[c] PROVE s <= counter[e]
    <3>1. Stage[e] \in Int /\ Stage[c] \in Int
      OBVIOUS
    <3>2. CASE Stage[e] = Stage[c] - 1
      BY <2>3, <3>2 DEF ConsumersAt
    <3>3. CASE Stage[e] < Stage[d]
      BY <2>6, <3>3 DEF MayPass
    <3> QED
      BY <2>4, <2>7, <3>1, <3>2, <3>3
  <2>8. \A h \in StageGates[Stage[c]] : s <= gateHigh[h]
    BY <1>2 DEF Barrier, Covers
  <2> QED
    BY <2>6, <2>7, <2>8 DEF MayPass
<1> QED
  BY <1>1, <1>2
-----------------------------------------------------------------------------
(* Steps of consumers and clients.                                         *)

\* What a step of a consumer cannot harm, as it leaves the handles alone and
\* moves cursors forward only.
LEMMA HandlesUnharmed ==
  ASSUME MultiInv, TypeOK', UNCHANGED <<slots, producerVars>>,
         \A d \in Consumers : counter[d] <= counter'[d]
  PROVE  /\ WithinOneRound' /\ CallsInPhase' /\ ClaimsDisjoint' /\ BitsTellRounds'
         /\ SlotsHoldEvents' /\ ClaimsBounded' /\ HandlesCounted'
<1> USE DEF producerVars, endVars
<1>0. TypeOK
  BY DEF MultiInv
<1>1. \A d \in Consumers : counter[d] \in Int /\ counter'[d] \in Int
  BY <1>0 DEF TypeOK, DisruptorTypeOK
<1>2. WithinOneRound'
  <2> SUFFICES ASSUME NEW c \in Consumers
               PROVE  /\ cursor' <= counter'[c] + Capacity
                      /\ \A q \in Producers :
                           sequence_clear_of_consumers'[q] <= counter'[c] + Capacity
    BY DEF WithinOneRound
  <2>1. /\ cursor <= counter[c] + Capacity
        /\ \A q \in Producers : sequence_clear_of_consumers[q] <= counter[c] + Capacity
    BY DEF MultiInv, WithinOneRound
  <2>2. cursor \in Int /\ \A q \in Producers : sequence_clear_of_consumers[q] \in Int
    BY <1>0, Types
  <2> QED
    BY <1>1, <2>1, <2>2, CapacityAssumption
<1>3. CallsInPhase'
  <2> SUFFICES ASSUME NEW q \in Producers PROVE InPhase(q)'
    BY DEF CallsInPhase
  <2>1. InPhase(q)
    BY DEF MultiInv, CallsInPhase
  <2>2. ASSUME ppc[q] = "claim", NEW c \in ConsumerBarrier \ call[q].todo
        PROVE  call[q].rear <= counter'[c]
    <3>1. call[q].rear <= counter[c]
      BY <2>1, <2>2 DEF InPhase
    <3> QED
      BY <1>0, <1>1, <3>1, Types, ConsumerBarrierType
  <2> QED
    BY <2>1, <2>2 DEF InPhase, lower
<1>4. ClaimsDisjoint'
  BY DEF MultiInv, ClaimsDisjoint, Pending, lower
<1>5. BitsTellRounds'
  BY DEF MultiInv, BitsTellRounds
<1>6. SlotsHoldEvents'
  <2>1. ASSUME NEW c \in Consumers, NEW s \in published, counter'[c] < s PROVE counter[c] < s
    BY <1>0, <1>1, <2>1, Types
  <2> QED
    BY <2>1 DEF MultiInv, SlotsHoldEvents, Updated, Pending, lower
<1>7. ClaimsBounded' /\ HandlesCounted'
  BY DEF MultiInv, ClaimsBounded, HandlesCounted, Unclaimed, Alive
<1> QED
  BY <1>2, <1>3, <1>4, <1>5, <1>6, <1>7

\* Whoever does not move still follows when others move forward, gates open
\* and more is published.
LEMMA FollowersStay ==
  ASSUME TypeOK, TypeOK', published \subseteq published',
         \A e \in Consumers : counter[e] <= counter'[e],
         \A h \in Gates : gateHigh[h] <= gateHigh'[h],
         NEW d \in Consumers, Follows(d),
         counter'[d] = counter[d], pc'[d] = pc[d], todo'[d] = todo[d],
         available'[d] = available[d], next'[d] = next[d], walk'[d] = walk[d]
  PROVE  Follows(d)'
<1>1. counter[d] \in Int /\ available[d] \in Int /\ walk[d] - 1 \in Int
  BY Types
<1>2. MayPass(d, counter[d])'
  <2>1. PICK s \in Int : s = counter[d]
    BY <1>1
  <2>2. MayPass(d, s)'
    BY <2>1, PermissionsStay DEF Follows
  <2> QED
    BY <2>1, <2>2 DEF MayPass, Ready
<1>3. ASSUME MayPass(d, available[d]) PROVE MayPass(d, available[d])'
  <2>1. PICK s \in Int : s = available[d]
    BY <1>1
  <2>2. MayPass(d, s)'
    BY <1>3, <2>1, PermissionsStay
  <2> QED
    BY <2>1, <2>2 DEF MayPass, Ready
<1>4. ASSUME NEW x, Covers(x, available[d]) PROVE Covers(x, available[d])'
  <2>1. PICK s \in Int : s = available[d]
    BY <1>1
  <2>2. Covers(x, s)'
    BY <1>4, <2>1, PermissionsStay
  <2> QED
    BY <2>1, <2>2 DEF Covers, Ready
<1>5. ASSUME Ready(walk[d] - 1) PROVE Ready(walk[d] - 1)'
  BY <1>5 DEF Ready
<1> QED
  BY <1>2, <1>3, <1>4, <1>5 DEF Follows

\* A step of consumer c keeps the invariant if it keeps the part about c, moves
\* the cursor of c forward if at all, and stops at the shutdown sequence only.
LEMMA ConsumerMoves ==
  ASSUME MultiInv, TypeOK', NEW c \in Consumers,
         UNCHANGED <<slots, shutdown_at_sequence, gateHigh, producerVars>>,
         \A h \in Gates : counter'[h] = counter[h],
         \A d \in Consumers \ {c} :
           /\ counter'[d] = counter[d] /\ pc'[d] = pc[d] /\ todo'[d] = todo[d]
           /\ available'[d] = available[d] /\ next'[d] = next[d] /\ walk'[d] = walk[d],
         counter[c] <= counter'[c],
         Follows(c)',
         pc[c] # "stopped",
         pc'[c] = "stopped" => shutdown_at_sequence = next'[c],
         ExactlyOnceInOrder', GuardsAccountForAll'
  PROVE  MultiInv'
<1>0. TypeOK /\ ConsumersFollow /\ GatesBehindHigh /\ ShutdownAtCursor
  BY DEF MultiInv
<1>1. \A d \in Consumers : counter[d] \in Int /\ counter[d] <= counter'[d]
  BY <1>0, Types
<1>2. /\ WithinOneRound' /\ CallsInPhase' /\ ClaimsDisjoint' /\ BitsTellRounds'
      /\ SlotsHoldEvents' /\ ClaimsBounded' /\ HandlesCounted'
  BY <1>1, HandlesUnharmed
<1>3. ConsumersFollow'
  <2> SUFFICES ASSUME NEW d \in Consumers \ {c} PROVE Follows(d)'
    BY DEF ConsumersFollow
  <2>1. Follows(d)
    BY <1>0 DEF ConsumersFollow
  <2>2. \A h \in Gates : gateHigh[h] <= gateHigh'[h]
    BY <1>0 DEF TypeOK, DisruptorTypeOK
  <2>3. published' = published
    BY DEF producerVars
  <2> QED
    BY <1>0, <1>1, <2>1, <2>2, <2>3, FollowersStay
<1>4. GatesBehindHigh'
  BY <1>0 DEF GatesBehindHigh
<1>5. ShutdownAtCursor'
  <2>1. /\ \A q \in Producers : ppc'[q] = ppc[q]
        /\ cursor' = cursor /\ joined' = joined
    BY DEF producerVars, endVars
  <2>2. \A d \in Consumers : pc[d] = "stopped" => pc'[d] = "stopped" /\ next'[d] = next[d]
    OBVIOUS
  <2>3. ASSUME NEW d \in Consumers, pc'[d] = "stopped"
        PROVE  next'[d] = cursor + 1 /\ \E q \in Producers : Ended(q)
    <3>1. CASE d # c
      BY <1>0, <2>3, <3>1 DEF ShutdownAtCursor
    <3>2. CASE d = c
      <4>1. shutdown_at_sequence = next'[d] /\ next'[d] \in Nat
        BY <2>3, <3>2 DEF TypeOK, DisruptorTypeOK
      <4> QED
        BY <1>0, <4>1 DEF ShutdownAtCursor, NONE
    <3> QED
      BY <3>1, <3>2
  <2>4. joined \subseteq Consumers
    BY <1>0, Topology DEF TypeOK
  <2>5. \A q \in Producers : Ended(q)' = Ended(q)
    BY <2>1 DEF Ended
  <2> QED
    BY <1>0, <2>1, <2>2, <2>3, <2>4, <2>5 DEF ShutdownAtCursor
<1> QED
  BY <1>2, <1>3, <1>4, <1>5 DEF MultiInv

\* The types of a step that leaves the handles alone.
LEMMA ConsumerMoveTypes ==
  ASSUME TypeOK, DisruptorTypeOK', UNCHANGED producerVars, walk' \in [Consumers -> Sequences]
  PROVE  TypeOK'
BY DEF TypeOK, producerVars, endVars

\* A cell covers less if it covers more.
LEMMA CoversDown ==
  ASSUME TypeOK, NEW x, NEW s \in Int, NEW t \in Int, s <= t, Covers(x, t)
  PROVE  Covers(x, s)
<1>1. Ready(t) => Ready(s)
  BY DEF Ready
<1>2. ASSUME x \in Consumers, t <= counter[x] PROVE s <= counter[x]
  BY <1>2, Types
<1>3. ASSUME x \in Gates, t <= gateHigh[x] PROVE s <= gateHigh[x]
  <2>1. gateHigh[x] \in Int
    BY <1>3 DEF TypeOK, DisruptorTypeOK
  <2> QED
    BY <1>3, <2>1
<1> QED
  BY <1>1, <1>2, <1>3 DEF Covers

\* One more cell is loaded: the least value is covered by all cells loaded so
\* far, and a grant by the whole barrier.
LEMMA LoadCellMoves ==
  ASSUME MultiInv, NEW c \in Consumers, NEW x \in todo[c], NEW v \in Int, Covers(x, v),
         LoadCell(c, x, v), UNCHANGED producerVars,
         walk' = walk \/ walk' = [walk EXCEPT ![c] = NONE]
  PROVE  MultiInv'
<1> DEFINE least == IF todo[c] = Barrier(Stage[c]) THEN v ELSE Least(available[c], v)
<1> USE Topology
<1>0. TypeOK /\ DisruptorTypeOK /\ ConsumersFollow /\ ExactlyOnceInOrder /\ GuardsAccountForAll
  BY DEF MultiInv, TypeOK
<1>1. /\ pc[c] \in {"scan", "poll"}
      /\ counter[c] \in Int /\ next[c] \in Nat /\ available[c] \in Int
      /\ limit[c] # NoLimit => limit[c] \in Nat
      /\ UNCHANGED <<slots, shutdown_at_sequence, counter, next, limit, seen, handed, skipped, gateHigh>>
      /\ published' = published
  BY <1>0, Types DEF LoadCell, sharedVars, producerVars, DisruptorTypeOK
<1>2. least \in Int /\ least <= v /\ (todo[c] # Barrier(Stage[c]) => least <= available[c])
  BY <1>1 DEF Least
<1>3. /\ todo'[c] = todo[c] \ {x}
      /\ available'[c] = IF todo[c] = {x} /\ IsAvailable(c, least) THEN Granted(c, least)
                                                                  ELSE least
      /\ pc'[c] = IF todo[c] # {x} THEN pc[c]
                  ELSE IF IsAvailable(c, least) THEN "read"
                  ELSE IF pc[c] = "poll" THEN "idle" ELSE "miss"
      /\ \A d \in Consumers \ {c} :
           pc'[d] = pc[d] /\ todo'[d] = todo[d] /\ available'[d] = available[d]
  BY <1>0 DEF LoadCell, DisruptorTypeOK
<1> HIDE DEF least
<1>4. Follows(c)
  BY <1>0 DEF ConsumersFollow
<1>5. \A y \in Barrier(Stage[c]) \ todo'[c] : Covers(y, least)
  <2> SUFFICES ASSUME NEW y \in Barrier(Stage[c]) \ todo'[c] PROVE Covers(y, least)
    OBVIOUS
  <2>1. CASE y = x
    BY <1>0, <1>2, <2>1, CoversDown
  <2>2. CASE y # x
    <3>1. y \in Barrier(Stage[c]) \ todo[c]
      BY <1>3, <2>2
    <3>2. Covers(y, available[c])
      BY <1>1, <1>4, <3>1 DEF Follows
    <3>3. least <= available[c]
      BY <1>2, <3>1
    <3> QED
      BY <1>0, <1>1, <1>2, <3>2, <3>3, CoversDown
  <2> QED
    BY <2>1, <2>2
<1>6. MayPass(c, counter[c])'
  BY <1>1, <1>4 DEF Follows, MayPass, Ready
<1>7. ASSUME todo[c] = {x}, IsAvailable(c, least)
      PROVE  /\ next[c] - 1 <= available'[c]
             /\ MayPass(c, available[c])'
  <2>1. /\ available'[c] = Granted(c, least)
        /\ next[c] <= least
    BY <1>3, <1>7 DEF IsAvailable
  <2>2. /\ available'[c] \in Int
        /\ available'[c] <= least
        /\ next[c] - 1 <= available'[c]
    BY <1>1, <1>2, <2>1 DEF Granted, Least
  <2>3. \A y \in Barrier(Stage[c]) : Covers(y, least)
    BY <1>3, <1>5, <1>7
  <2>4. MayPass(c, least)
    BY <1>0, <1>2, <2>3, BarrierPasses
  <2>5. MayPass(c, available'[c])
    BY <1>0, <1>2, <2>2, <2>4, MayPassDown
  <2> QED
    BY <1>1, <2>2, <2>5 DEF MayPass, Ready
<1>8. IF pc'[c] \in {"read", "panicked"}
        THEN /\ counter'[c] <= next'[c] - 1
             /\ next'[c] - 1 <= available'[c]
             /\ MayPass(c, available[c])'
        ELSE counter'[c] = next'[c] - 1
  <2>1. counter[c] = next[c] - 1
    BY <1>1, <1>4 DEF Follows
  <2>2. pc'[c] \in {"read", "panicked"} => todo[c] = {x} /\ IsAvailable(c, least)
    BY <1>1, <1>3
  <2> QED
    BY <1>1, <1>7, <2>1, <2>2
<1>9. pc'[c] \in {"scan", "poll"} =>
        /\ todo'[c] \subseteq Barrier(Stage[c])
        /\ \A y \in Barrier(Stage[c]) \ todo'[c] : Covers(y, available[c])'
  <2> SUFFICES ASSUME pc'[c] \in {"scan", "poll"}
               PROVE  /\ todo'[c] \subseteq Barrier(Stage[c])
                      /\ \A y \in Barrier(Stage[c]) \ todo'[c] : Covers(y, available[c])'
    OBVIOUS
  <2>1. todo[c] # {x} /\ available'[c] = least
    BY <1>3
  <2>2. todo'[c] \subseteq Barrier(Stage[c])
    BY <1>1, <1>3, <1>4 DEF Follows
  <2> QED
    BY <1>1, <1>5, <2>1, <2>2 DEF Covers, Ready
<1>10. walk'[c] # NONE => Ready(walk[c] - 1)'
  <2>1. walk'[c] # NONE => walk'[c] = walk[c]
    BY <1>0 DEF TypeOK
  <2> QED
    BY <1>1, <1>4, <2>1 DEF Follows, Ready
<1>11. Follows(c)'
  BY <1>1, <1>4, <1>6, <1>8, <1>9, <1>10 DEF Follows
<1>12. TypeOK'
  <2>1. DisruptorTypeOK'
    BY <1>0, LoadCellTypes
  <2>2. walk' \in [Consumers -> Sequences]
    BY <1>0, SequencesType DEF TypeOK, Sequences, NONE
  <2> QED
    BY <1>0, <2>1, <2>2, ConsumerMoveTypes
<1>13. \A d \in Consumers \ {c} : walk'[d] = walk[d]
  BY <1>0 DEF TypeOK
<1>14. ExactlyOnceInOrder' /\ GuardsAccountForAll'
  BY <1>0, <1>1 DEF ExactlyOnceInOrder, GuardsAccountForAll, Yielded
<1>15. pc[c] # "stopped" /\ pc'[c] # "stopped"
  BY <1>1, <1>3
<1> QED
  BY <1>1, <1>3, <1>11, <1>12, <1>13, <1>14, <1>15, ConsumerMoves
-----------------------------------------------------------------------------
(* The walk over the availability words.                                   *)

\* The parity changes from round to round, in the same slot.
LEMMA FlagFlips ==
  ASSUME NEW s \in Int
  PROVE  /\ calculate_availability_flag(s) \in {0, 1}
         /\ calculate_availability_flag(s + Capacity) = 1 - calculate_availability_flag(s)
         /\ slot_index(s + Capacity) = slot_index(s)
<1>1. s \div Capacity \in Int
  BY Division, CapacityAssumption
<1> QED
  BY <1>1, RoundLater DEF calculate_availability_flag

\* The bits start in the state before the first round.
LEMMA FirstFlag ==
  ASSUME NEW s \in SlotIndices
  PROVE  calculate_availability_flag(s) = 0 /\ slot_index(s) = s
BY FirstRound DEF calculate_availability_flag

\* A word ends less than a round after any of its sequences.
LEMMA RestOfWordType ==
  ASSUME NEW s \in Int
  PROVE  \E e \in Int : RestOfWord(s) = s .. e /\ s <= e /\ e < s + Capacity
<1> DEFINE r == slot_index(s) % WordBits
<1>1. /\ WordBits \in Nat \ {0} /\ Capacity \in Nat \ {0} /\ Capacity % WordBits = 0
  BY MultiProducerAssumption, CapacityAssumption
<1>2. slot_index(s) \in Int
  BY SlotType, <1>1 DEF SlotIndices
<1>3. r \in 0 .. WordBits - 1
  BY <1>1, <1>2, Division
<1>4. WordBits <= Capacity
  <2> DEFINE q == Capacity \div WordBits
  <2>1. q \in Int /\ Capacity = WordBits * q
    BY <1>1, Division
  <2> HIDE DEF q
  <2>2. CASE q >= 1
    <3>1. WordBits * q >= WordBits
      BY <1>1, <2>1, <2>2
    <3> QED
      BY <2>1, <3>1
  <2>3. CASE q <= 0
    <3>1. WordBits * q <= 0
      BY <1>1, <2>1, <2>3
    <3> QED
      BY <1>1, <2>1, <3>1
  <2> QED
    BY <2>1, <2>2, <2>3
<1> DEFINE e == s + WordBits - 1 - r
<1>5. RestOfWord(s) = s .. e
  BY DEF RestOfWord
<1> HIDE DEF r
<1>6. e \in Int /\ s <= e /\ e < s + Capacity
  BY <1>1, <1>3, <1>4
<1> HIDE DEF e
<1> QED
  BY <1>5, <1>6

\* The bit of an event that is not published has the wrong value, if all events
\* up to a round earlier are: the slot was last published in the round before, or
\* never.
LEMMA UnpublishedBit ==
  ASSUME MultiInv, NEW m \in Nat, m \notin published, Ready(m - Capacity)
  PROVE  bit[slot_index(m)] = 1 - calculate_availability_flag(m)
<1>0. BitsTellRounds
  BY DEF MultiInv
<1>1. CASE m < Capacity
  <2>1. m \in SlotIndices
    BY <1>1, CapacityAssumption DEF SlotIndices
  <2>2. bit[m] = 1
    BY <1>0, <2>1 DEF BitsTellRounds
  <2> QED
    BY <2>1, <2>2, FirstFlag
<1>2. CASE m >= Capacity
  <2> DEFINE k == m - Capacity
  <2>1. k \in Int /\ k \in 0 .. k /\ k + Capacity = m
    BY <1>2, CapacityAssumption
  <2>2. k \in published
    BY <2>1 DEF Ready
  <2>3. bit[slot_index(k)] = calculate_availability_flag(k)
    BY <1>0, <2>1, <2>2 DEF BitsTellRounds
  <2>4. /\ calculate_availability_flag(k) \in {0, 1}
        /\ calculate_availability_flag(m) = 1 - calculate_availability_flag(k)
        /\ slot_index(m) = slot_index(k)
    BY <2>1, FlagFlips
  <2> QED
    BY <2>3, <2>4
<1> QED
  BY <1>1, <1>2, CapacityAssumption

\* When everything before s is published, a word shows no sequence from s on
\* as published that is not.
LEMMA UnpublishedMismatches ==
  ASSUME MultiInv, NEW s \in Nat, Ready(s - 1), NEW m \in RestOfWord(s), m \notin published
  PROVE  ~IsPublished(m)
<1>1. m \in Int /\ s <= m /\ m < s + Capacity
  <2>1. PICK e \in Int : RestOfWord(s) = s .. e /\ s <= e /\ e < s + Capacity
    BY RestOfWordType
  <2>2. m \in s .. e
    BY <2>1
  <2> QED
    BY <2>1, <2>2, CapacityAssumption
<1>2. m \in Nat /\ Ready(m - Capacity)
  BY <1>1, CapacityAssumption DEF Ready
<1>3. bit[slot_index(m)] = 1 - calculate_availability_flag(m)
  BY <1>2, UnpublishedBit
<1> QED
  BY <1>1, <1>3, FlagFlips DEF IsPublished

\* The cursor stays below the bound of all sequences.
LEMMA CursorBounded == ASSUME MultiInv PROVE cursor + 1 \in Sequences
<1>1. TypeOK /\ ClaimsBounded
  BY DEF MultiInv
<1>2. cursor \in Int /\ NONE <= cursor
  BY <1>1, SequencesType DEF TypeOK
<1> DEFINE m == Cardinality(Producers \ Unclaimed)
           n == Cardinality(Producers)
<1>3. m \in Nat /\ n \in Nat /\ m <= n
  BY FS_Subset, FS_CardinalityType, MultiProducerAssumption
<1>4. cursor < MaxSequence + MaxBatch * m
  BY <1>1 DEF ClaimsBounded
<1>5. MaxSequence \in Nat /\ MaxBatch \in Nat
  BY MultiProducerAssumption
<1>6. Sequences = NONE .. MaxSequence + MaxBatch * n
  BY DEF Sequences
<1> HIDE DEF m, n
<1>7. MaxBatch * m <= MaxBatch * n /\ MaxBatch * m \in Nat /\ MaxBatch * n \in Nat
  BY <1>3, <1>5
<1> QED
  BY <1>2, <1>4, <1>5, <1>6, <1>7 DEF NONE

\* The walk ends at a sequence of the word.
LEMMA FirstMismatchType ==
  ASSUME NEW s \in Nat, Mismatches(s) # {}
  PROVE  FirstMismatch(s) \in Int
<1>1. PICK e \in Int : RestOfWord(s) = s .. e
  BY RestOfWordType
<1>2. Mismatches(s) \subseteq Nat
  BY <1>1 DEF Mismatches
<1>3. \E x \in Mismatches(s) : \A k \in Mismatches(s) : x <= k
  BY <1>2, LeastElement
<1>4. FirstMismatch(s) \in Mismatches(s)
  BY <1>3, Zenon DEF FirstMismatch
<1> QED
  BY <1>2, <1>4

\* A load of a word grants what is published without a gap, or moves the walk
\* over such a stretch.
LEMMA LoadWordMoves ==
  ASSUME MultiInv, NEW c \in Consumers, LoadWord(c), UNCHANGED producerVars
  PROVE  MultiInv'
<1> DEFINE s == IF walk[c] = NONE THEN next[c] ELSE walk[c]
<1> USE Topology
<1>0. TypeOK /\ Follows(c) /\ pc[c] \in {"scan", "poll"} /\ ClaimsDisjoint
  BY DEF MultiInv, ConsumersFollow, LoadWord
<1>1. s \in Nat
  BY <1>0, Types, SequencesType DEF TypeOK, NONE
<1>2. Ready(s - 1)
  BY <1>0 DEF Follows, MayPass
<1>3. \/ /\ Mismatches(s) # {}
         /\ LoadCell(c, ProducerBarrier, FirstMismatch(s) - 1)
         /\ walk' = [walk EXCEPT ![c] = NONE]
      \/ /\ Mismatches(s) = {}
         /\ walk' = [walk EXCEPT ![c] = s + Cardinality(RestOfWord(s))]
         /\ UNCHANGED disruptorVars
  BY DEF LoadWord
<1>4. ProducerBarrier \in todo[c]
  BY DEF LoadWord
<1> HIDE DEF s
<1>5. PICK e \in Int : RestOfWord(s) = s .. e /\ s <= e /\ e < s + Capacity
  BY <1>1, RestOfWordType
<1>6. ASSUME NEW m \in s .. e, m \notin published PROVE m \in Mismatches(s)
  BY <1>1, <1>2, <1>5, <1>6, UnpublishedMismatches DEF Mismatches
<1>7. CASE Mismatches(s) # {}
  <2> DEFINE m == FirstMismatch(s)
  <2>1. Mismatches(s) \subseteq Nat
    BY <1>1, <1>5 DEF Mismatches
  <2>2. m \in Mismatches(s) /\ \A k \in Mismatches(s) : m <= k
    <3>1. \E x \in Mismatches(s) : \A k \in Mismatches(s) : x <= k
      BY <1>7, <2>1, LeastElement
    <3> QED
      BY <3>1, Zenon DEF FirstMismatch
  <2>3. m \in s .. e /\ m \in Nat
    BY <1>5, <2>1, <2>2 DEF Mismatches
  <2> HIDE DEF m
  <2>4. Ready(m - 1)
    <3> SUFFICES ASSUME NEW k \in 0 .. m - 1, k \notin published PROVE FALSE
      BY DEF Ready
    <3>1. k < m /\ k \in Int
      BY <2>3
    <3>2. CASE k < s
      BY <1>1, <1>2, <3>1, <3>2 DEF Ready
    <3>3. CASE k >= s
      <4>1. k \in s .. e
        BY <1>1, <2>3, <3>1, <3>3
      <4> QED
        BY <1>6, <2>2, <2>3, <3>1, <4>1
    <3> QED
      BY <1>1, <3>1, <3>2, <3>3
  <2>5. Covers(ProducerBarrier, m - 1)
    BY <2>4 DEF Covers
  <2>6. /\ LoadCell(c, ProducerBarrier, m - 1)
        /\ walk' = [walk EXCEPT ![c] = NONE]
    BY <1>3, <1>7 DEF m
  <2>7. m - 1 \in Int
    BY <2>3
  <2> QED
    BY <1>4, <2>5, <2>6, <2>7, LoadCellMoves
<1>8. CASE Mismatches(s) = {}
  <2>1. s .. e \subseteq published
    BY <1>6, <1>8
  <2>2. Ready(e)
    BY <1>1, <1>2, <1>5, <2>1 DEF Ready
  <2>3. walk' = [walk EXCEPT ![c] = e + 1] /\ UNCHANGED disruptorVars
    <3>1. Cardinality(RestOfWord(s)) = e - s + 1
      BY <1>1, <1>5, FS_Interval
    <3>2. s + (e - s + 1) = e + 1
      BY <1>1
    <3> QED
      BY <1>3, <1>8, <3>1, <3>2
  <2>4. e + 1 \in Sequences
    <3>1. e \in published
      BY <1>1, <1>5, <2>1
    <3>2. e <= cursor /\ cursor \in Int /\ 0 <= e
      BY <1>0, <1>1, <1>5, <3>1, Types DEF ClaimsDisjoint
    <3>3. cursor + 1 \in Sequences
      BY CursorBounded
    <3> QED
      BY <3>2, <3>3, SequencesType DEF Sequences, NONE
  <2>5. UNCHANGED <<slots, shutdown_at_sequence, gateHigh, counter, pc, todo, available, next, seen,
                    handed, skipped>>
        /\ published' = published
    BY <2>3 DEF disruptorVars, sharedVars, consumerVars, producerVars
  <2>6. TypeOK'
    <3>1. walk' \in [Consumers -> Sequences]
      BY <1>0, <2>3, <2>4 DEF TypeOK
    <3>2. DisruptorTypeOK'
      BY <1>0, <2>3 DEF TypeOK, DisruptorTypeOK, disruptorVars, sharedVars, consumerVars
    <3> QED
      BY <1>0, <3>1, <3>2, ConsumerMoveTypes
  <2>7. Follows(c)'
    <3>1. walk'[c] - 1 = e
      BY <1>0, <2>3 DEF TypeOK
    <3>2. Ready(walk[c] - 1)'
      BY <2>2, <2>5, <3>1 DEF Ready
    <3> QED
      BY <1>0, <2>5, <3>2 DEF Follows, MayPass, Covers, Ready
  <2>8. \A d \in Consumers \ {c} : walk'[d] = walk[d]
    BY <1>0, <2>3 DEF TypeOK
  <2>9. ExactlyOnceInOrder' /\ GuardsAccountForAll'
    BY <2>5 DEF MultiInv, ExactlyOnceInOrder, GuardsAccountForAll, Yielded
  <2>10. counter[c] <= counter'[c]
    BY <1>0, <2>5, Types
  <2> QED
    BY <1>0, <2>5, <2>6, <2>7, <2>8, <2>9, <2>10, ConsumerMoves
<1> QED
  BY <1>7, <1>8
-----------------------------------------------------------------------------
(* The other steps of consumers, and gates.                                *)

\* Noticing shutdown, starting to look, panicking: no position changes.
LEMMA StayingMoves ==
  ASSUME MultiInv, NEW c \in Consumers,
         \/ CheckShutdown(c) \/ HandlerPanics(c) \/ PollWait(c)
         \/ \E l \in Limits \cup {NoLimit} : PollTake(c, l),
         UNCHANGED <<walk, producerVars>>
  PROVE  MultiInv'
<1>0. TypeOK /\ DisruptorTypeOK /\ Follows(c)
  BY DEF MultiInv, TypeOK, ConsumersFollow
<1>1. /\ UNCHANGED <<slots, shutdown_at_sequence, counter, available, next, seen, handed, skipped,
                     gateHigh>>
      /\ published' = published
      /\ \A d \in Consumers \ {c} : pc'[d] = pc[d] /\ todo'[d] = todo[d]
  BY <1>0 DEF CheckShutdown, HandlerPanics, PollWait, PollTake, sharedVars, producerVars,
              DisruptorTypeOK
<1>2. /\ counter[c] \in Int /\ next[c] \in Nat /\ available[c] \in Int
  BY <1>0, Types
<1>3. pc[c] = "read" => 0 <= available[c] + 1
  BY <1>0, <1>2 DEF Follows
<1>4. DisruptorTypeOK'
  BY <1>0, <1>3, ConsumerStepTypes
<1>5. TypeOK'
  BY <1>0, <1>4, ConsumerMoveTypes DEF TypeOK
<1>6. /\ pc[c] \in {"miss", "idle", "read"}
      /\ pc'[c] = "panicked" => pc[c] = "read"
      /\ pc'[c] # "panicked" => pc[c] # "read"
      /\ pc'[c] \in {"scan", "poll", "stopped", "panicked"}
      /\ pc'[c] \in {"scan", "poll"} => todo'[c] = Barrier(Stage[c])
  BY <1>0 DEF CheckShutdown, HandlerPanics, PollWait, PollTake, DisruptorTypeOK
<1>7. Follows(c)'
  <2>1. MayPass(c, counter[c])' /\ (MayPass(c, available[c]) => MayPass(c, available[c])')
    BY <1>0, <1>1 DEF Follows, MayPass, Ready
  <2>2. (Ready(walk[c] - 1) => Ready(walk[c] - 1)') /\ walk' = walk
    BY <1>1 DEF Ready
  <2> QED
    BY <1>0, <1>1, <1>6, <2>1, <2>2 DEF Follows
<1>8. pc'[c] = "stopped" => shutdown_at_sequence = next'[c]
  <2>1. CASE CheckShutdown(c)
    BY <1>0, <1>1, <2>1 DEF CheckShutdown, StopsAt, DisruptorTypeOK
  <2>2. ASSUME NEW l \in Limits \cup {NoLimit}, PollTake(c, l), pc'[c] = "stopped"
        PROVE  shutdown_at_sequence = next'[c]
    <3>1. counter[c] = next[c] - 1
      BY <1>0, <2>2 DEF Follows, PollTake
    <3>2. shutdown_at_sequence = counter[c] + 1
      BY <1>0, <2>2 DEF PollTake, StopsAt, DisruptorTypeOK
    <3> QED
      BY <1>1, <1>2, <3>1, <3>2
  <2>3. CASE HandlerPanics(c) \/ PollWait(c)
    BY <1>0, <2>3 DEF HandlerPanics, PollWait, DisruptorTypeOK
  <2> QED
    BY <2>1, <2>2, <2>3
<1>9. ExactlyOnceInOrder' /\ GuardsAccountForAll'
  BY <1>1 DEF MultiInv, ExactlyOnceInOrder, GuardsAccountForAll, Yielded
<1> QED
  BY <1>1, <1>2, <1>5, <1>6, <1>7, <1>8, <1>9, ConsumerMoves

\* A consumer within its grant finds the event of its position in the slot.
LEMMA ReadsNextEvent ==
  ASSUME MultiInv, NEW c \in Consumers, pc[c] = "read", next[c] <= available[c]
  PROVE  slots[slot_index(next[c])] = next[c]
<1>1. TypeOK /\ Follows(c) /\ SlotsHoldEvents
  BY DEF MultiInv, ConsumersFollow
<1>2. counter[c] \in Int /\ next[c] \in Nat /\ available[c] \in Int
  BY <1>1, Types
<1>3. next[c] \in published
  BY <1>1, <1>2 DEF Follows, MayPass, Ready
<1>4. counter[c] < next[c]
  BY <1>1, <1>2 DEF Follows
<1> QED
  BY <1>1, <1>3, <1>4 DEF SlotsHoldEvents

\* Reading an event moves the position.
LEMMA ReadEventMoves ==
  ASSUME MultiInv, NEW c \in Consumers, ReadEvent(c), UNCHANGED <<walk, producerVars>>
  PROVE  MultiInv'
<1>0. /\ TypeOK /\ DisruptorTypeOK /\ Follows(c)
      /\ ExactlyOnceInOrder /\ GuardsAccountForAll
  BY DEF MultiInv, TypeOK, ConsumersFollow
<1>1. /\ UNCHANGED <<slots, shutdown_at_sequence, counter, available, todo, pc, gateHigh>>
      /\ published' = published
      /\ pc[c] = "read" /\ next[c] <= available[c] /\ next'[c] = next[c] + 1
      /\ \A d \in Consumers \ {c} : next'[d] = next[d]
  BY <1>0 DEF ReadEvent, sharedVars, producerVars, DisruptorTypeOK
<1>2. counter[c] \in Int /\ next[c] \in Nat /\ available[c] \in Int
  BY <1>0, Types
<1>3. DisruptorTypeOK'
  <2>1. 0 <= available[c] + 1
    BY <1>1, <1>2
  <2> QED
    BY <1>0, <2>1, ConsumerStepTypes
<1>4. TypeOK'
  BY <1>0, <1>3, ConsumerMoveTypes DEF TypeOK
<1>5. Follows(c)'
  <2>1. MayPass(c, counter[c])' /\ MayPass(c, available[c])'
    BY <1>0, <1>1 DEF Follows, MayPass, Ready
  <2>2. (Ready(walk[c] - 1) => Ready(walk[c] - 1)') /\ walk' = walk
    BY <1>1 DEF Ready
  <2>3. counter[c] <= next[c] - 1
    BY <1>0, <1>1 DEF Follows
  <2> QED
    BY <1>0, <1>1, <1>2, <2>1, <2>2, <2>3 DEF Follows
<1>6. ExactlyOnceInOrder' /\ GuardsAccountForAll'
  BY <1>0, <1>1, ReadsNextEvent, ReadsInOrder, YieldsInOrder
<1> QED
  BY <1>1, <1>2, <1>4, <1>5, <1>6, ConsumerMoves

\* Signalling a batch and dropping a guard move the cursor up to what was
\* granted.
LEMMA GivingBackMoves ==
  ASSUME MultiInv, NEW c \in Consumers, SignalDone(c) \/ DropGuard(c),
         UNCHANGED <<walk, producerVars>>
  PROVE  MultiInv'
<1>0. /\ TypeOK /\ DisruptorTypeOK /\ Follows(c)
      /\ ExactlyOnceInOrder /\ GuardsAccountForAll
  BY DEF MultiInv, TypeOK, ConsumersFollow
<1>1. /\ UNCHANGED <<slots, shutdown_at_sequence, available, seen, gateHigh>>
      /\ published' = published
      /\ pc[c] = "read" /\ pc'[c] \in {"scan", "idle"}
      /\ pc'[c] = "scan" => todo'[c] = Barrier(Stage[c])
      /\ \A d \in Consumers \ {c} :
           /\ pc'[d] = pc[d] /\ todo'[d] = todo[d]
           /\ next'[d] = next[d] /\ counter'[d] = counter[d]
      /\ \A h \in Gates : counter'[h] = counter[h]
  BY <1>0, Topology DEF SignalDone, DropGuard, sharedVars, producerVars, DisruptorTypeOK
<1>2. /\ counter[c] \in Int /\ next[c] \in Nat /\ available[c] \in Int
      /\ counter[c] <= next[c] - 1 /\ next[c] - 1 <= available[c]
      /\ MayPass(c, available[c])
  BY <1>0, <1>1, Types DEF Follows
<1>3. counter'[c] = available[c] /\ next'[c] = available[c] + 1
  <2>1. CASE SignalDone(c)
    <3>1. next[c] = available[c] + 1
      BY <1>2, <2>1 DEF SignalDone
    <3> QED
      BY <1>0, <1>2, <2>1, <3>1 DEF SignalDone, Released, DisruptorTypeOK
  <2>2. CASE DropGuard(c)
    BY <1>0, <2>2 DEF DropGuard, DisruptorTypeOK
  <2> QED
    BY <2>1, <2>2
<1>4. DisruptorTypeOK'
  <2>1. 0 <= available[c] + 1
    BY <1>2
  <2> QED
    BY <1>0, <2>1, ConsumerStepTypes
<1>5. TypeOK'
  BY <1>0, <1>4, ConsumerMoveTypes DEF TypeOK
<1>6. Follows(c)'
  <2>1. MayPass(c, counter[c])'
    <3>1. Ready(available[c]) /\ Ready(counter[c])'
      BY <1>1, <1>2, <1>3 DEF MayPass, Ready
    <3>2. ASSUME NEW d \in Consumers, Stage[d] < Stage[c] PROVE counter'[c] <= counter'[d]
      <4>1. d # c
        BY <3>2, <1>0, Types
      <4> QED
        BY <1>1, <1>2, <1>3, <3>2, <4>1 DEF MayPass
    <3>3. \A h \in StageGates[Stage[c]] : counter'[c] <= gateHigh'[h]
      BY <1>1, <1>2, <1>3 DEF MayPass
    <3> QED
      BY <3>1, <3>2, <3>3 DEF MayPass
  <2>2. (Ready(walk[c] - 1) => Ready(walk[c] - 1)') /\ walk' = walk
    BY <1>1 DEF Ready
  <2>3. NONE <= counter'[c] /\ counter'[c] = next'[c] - 1
    BY <1>2, <1>3 DEF NONE
  <2> QED
    BY <1>0, <1>1, <2>1, <2>2, <2>3 DEF Follows
<1>7. ExactlyOnceInOrder' /\ GuardsAccountForAll'
  <2>1. CASE SignalDone(c)
    <3>1. UNCHANGED <<seen, handed, skipped, next>>
      BY <2>1 DEF SignalDone
    <3> QED
      BY <1>0, <3>1 DEF ExactlyOnceInOrder, GuardsAccountForAll, Yielded
  <2>2. CASE DropGuard(c)
    <3>1. c \in Pollers
      BY <2>2 DEF DropGuard
    <3> QED
      BY <1>0, <1>2, <2>2, <3>1, ReadsInOrder, YieldsInOrder
  <2> QED
    BY <2>1, <2>2
<1>8. counter[c] <= counter'[c]
  BY <1>2, <1>3
<1> QED
  BY <1>1, <1>5, <1>6, <1>7, <1>8, ConsumerMoves

\* Gates move to and fro, their highest values only up.
LEMMA SetGateMoves ==
  ASSUME MultiInv, NEW h \in Gates, NEW v \in GateValues, SetGate(h, v),
         UNCHANGED <<walk, producerVars>>
  PROVE  MultiInv'
<1>0. TypeOK /\ DisruptorTypeOK /\ ConsumersFollow /\ GatesBehindHigh
  BY DEF MultiInv, TypeOK
<1>1. /\ UNCHANGED <<slots, shutdown_at_sequence, available, seen, handed, skipped, pc, todo, next, walk>>
      /\ published' = published
      /\ \A c \in Consumers : counter'[c] = counter[c]
      /\ \A g \in Gates \ {h} : counter'[g] = counter[g] /\ gateHigh'[g] = gateHigh[g]
      /\ counter'[h] = v /\ gateHigh'[h] = IF v > gateHigh[h] THEN v ELSE gateHigh[h]
      /\ v \in Int /\ \A g \in Gates : gateHigh[g] \in Int
  BY <1>0, Topology, TopologyAssumption
     DEF SetGate, sharedVars, consumerVars, producerVars, DisruptorTypeOK
<1>2. TypeOK'
  <2>1. DisruptorTypeOK'
    BY <1>0, SetGateTypes
  <2> QED
    BY <1>0, <2>1, ConsumerMoveTypes DEF TypeOK
<1>3. \A g \in Gates : gateHigh[g] <= gateHigh'[g]
  BY <1>1
<1>4. \A c \in Consumers : counter[c] \in Int /\ counter[c] <= counter'[c]
  BY <1>0, <1>1, Types
<1>5. /\ WithinOneRound' /\ CallsInPhase' /\ ClaimsDisjoint' /\ BitsTellRounds'
      /\ SlotsHoldEvents' /\ ClaimsBounded' /\ HandlesCounted'
  BY <1>1, <1>2, <1>4, HandlesUnharmed
<1>6. ConsumersFollow'
  BY <1>0, <1>1, <1>2, <1>3, <1>4, FollowersStay DEF ConsumersFollow
<1>7. GatesBehindHigh'
  <2> SUFFICES ASSUME NEW g \in Gates PROVE counter'[g] <= gateHigh'[g]
    BY DEF GatesBehindHigh
  <2>1. CASE g = h
    BY <1>1, <2>1
  <2>2. CASE g # h
    BY <1>0, <1>1, <2>2 DEF GatesBehindHigh
  <2> QED
    BY <2>1, <2>2
<1>8. ShutdownAtCursor'
  BY <1>1 DEF MultiInv, ShutdownAtCursor, Ended, producerVars, endVars
<1>9. ExactlyOnceInOrder' /\ GuardsAccountForAll'
  BY <1>1 DEF MultiInv, ExactlyOnceInOrder, GuardsAccountForAll, Yielded
<1> QED
  BY <1>2, <1>5, <1>6, <1>7, <1>8, <1>9 DEF MultiInv
-----------------------------------------------------------------------------
(* Steps of handles.                                                       *)

\* What a step of a handle cannot harm, as it leaves the consumers alone and
\* publishes more if anything.
LEMMA ConsumersUnharmed ==
  ASSUME MultiInv, TypeOK', UNCHANGED <<counter, consumerVars, gateHigh, walk>>,
         published \subseteq published'
  PROVE  ConsumersFollow' /\ GatesBehindHigh' /\ ExactlyOnceInOrder' /\ GuardsAccountForAll'
<1>0. TypeOK /\ ConsumersFollow /\ GatesBehindHigh /\ ExactlyOnceInOrder /\ GuardsAccountForAll
  BY DEF MultiInv
<1>1. UNCHANGED <<pc, todo, available, next, seen, handed, skipped>>
  BY DEF consumerVars
<1>2. \A e \in Consumers : counter[e] <= counter'[e]
  BY <1>0, Types
<1>3. \A h \in Gates : gateHigh[h] <= gateHigh'[h]
  BY <1>0 DEF TypeOK, DisruptorTypeOK
<1>4. ASSUME NEW d \in Consumers PROVE Follows(d)'
  BY <1>0, <1>1, <1>2, <1>3, FollowersStay DEF ConsumersFollow
<1> QED
  BY <1>0, <1>1, <1>4
     DEF ConsumersFollow, GatesBehindHigh, ExactlyOnceInOrder, GuardsAccountForAll, Yielded

\* While a handle can be used, nobody has requested shutdown.
LEMMA NobodyEnded ==
  ASSUME MultiInv, NEW q \in Producers,
         ppc[q] \in {"idle", "retry", "claim", "cas", "update", "publish"}
  PROVE  /\ \A r \in Producers : ~Ended(r)
         /\ shutdown_at_sequence = NONE
         /\ \A c \in Consumers : pc[c] # "stopped"
         /\ joined = {}
<1>1. ShutdownAtCursor
  BY DEF MultiInv
<1>2. ASSUME NEW r \in Producers PROVE ~Ended(r)
  <2>1. CASE r = q
    BY <2>1 DEF Ended
  <2>2. CASE r # q
    BY <1>1, <2>2 DEF ShutdownAtCursor
  <2> QED
    BY <2>1, <2>2
<1> QED
  BY <1>1, <1>2 DEF ShutdownAtCursor

\* Fewer handles before their claim leave the cursor more room.
LEMMA BoundStays ==
  ASSUME TypeOK, ClaimsBounded, cursor' = cursor, Unclaimed' \subseteq Unclaimed
  PROVE  ClaimsBounded'
<1> DEFINE m == Cardinality(Producers \ Unclaimed)
           n == Cardinality(Producers \ Unclaimed')
<1>1. IsFiniteSet(Producers \ Unclaimed')
  BY FS_Subset, MultiProducerAssumption
<1>2. (Producers \ Unclaimed) \in SUBSET (Producers \ Unclaimed')
  OBVIOUS
<1>3. m \in Nat /\ n \in Nat /\ m <= n
  BY <1>1, <1>2, FS_Subset, FS_CardinalityType
<1>4. cursor < MaxSequence + MaxBatch * m
  BY DEF ClaimsBounded
<1>5. ClaimsBounded' <=> cursor' < MaxSequence + MaxBatch * n
  BY DEF ClaimsBounded
<1> HIDE DEF m, n
<1>6. MaxSequence \in Nat /\ MaxBatch \in Nat /\ cursor \in Int
  BY Types, MultiProducerAssumption
<1>7. MaxBatch * m <= MaxBatch * n /\ MaxBatch * m \in Nat /\ MaxBatch * n \in Nat
  BY <1>3, <1>6
<1> QED
  BY <1>4, <1>5, <1>6, <1>7

\* A handle stays in use: the reference count and the shutdown request are as
\* before.
LEMMA StaysInUse ==
  ASSUME MultiInv, NEW q \in Producers,
         ppc[q] \in {"idle", "retry", "claim", "cas", "update", "publish"},
         ppc'[q] \in {"idle", "retry", "claim", "cas", "update", "publish"},
         \A r \in Producers \ {q} : ppc'[r] = ppc[r],
         UNCHANGED <<shutdown_at_sequence, pc, next, endVars>>
  PROVE  HandlesCounted' /\ ShutdownAtCursor'
<1>1. ref_count' = ref_count /\ joined' = joined
  BY DEF endVars
<1>2. HandlesCounted'
  <2>1. Alive' = Alive
    BY DEF Alive
  <2> QED
    BY <1>1, <2>1 DEF MultiInv, HandlesCounted
<1>3. ShutdownAtCursor'
  <2>1. /\ \A r \in Producers : ~Ended(r)
        /\ shutdown_at_sequence = NONE /\ joined = {}
        /\ \A c \in Consumers : pc[c] # "stopped"
    BY NobodyEnded
  <2>2. \A r \in Producers : ~Ended(r)'
    BY <2>1 DEF Ended
  <2>3. \A r \in Producers : ppc'[r] \notin {"joining", "dropped", "panicked"}
    BY <2>2 DEF Ended
  <2> QED
    BY <1>1, <2>1, <2>2, <2>3 DEF ShutdownAtCursor
<1> QED
  BY <1>2, <1>3

\* A step in the call of handle q that claims and publishes nothing keeps the
\* invariant if it keeps the part about q.
LEMMA CallMoves ==
  ASSUME MultiInv, TypeOK', NEW q \in Producers,
         UNCHANGED <<disruptorVars, walk, cursor, bit, endVars, published>>,
         \A r \in Producers \ {q} :
           /\ ppc'[r] = ppc[r] /\ call'[r] = call[r]
           /\ sequence_clear_of_consumers'[r] = sequence_clear_of_consumers[r],
         ppc[q] \in {"idle", "retry", "claim", "cas", "update", "publish"},
         ppc'[q] \in {"idle", "retry", "claim", "cas", "update", "publish"},
         InPhase(q)',
         \A c \in Consumers : sequence_clear_of_consumers'[q] <= counter[c] + Capacity,
         Pending(q)' \subseteq Pending(q),
         Updated(q)' \subseteq Updated(q),
         ClaimsBounded'
  PROVE  MultiInv'
<1>0. /\ TypeOK /\ WithinOneRound /\ CallsInPhase /\ ClaimsDisjoint /\ BitsTellRounds
      /\ SlotsHoldEvents /\ HandlesCounted
  BY DEF MultiInv
<1>1. /\ UNCHANGED <<slots, shutdown_at_sequence, counter, consumerVars, gateHigh>>
      /\ UNCHANGED <<pc, next, walk, cursor, bit, published, ref_count, joined>>
  BY DEF disruptorVars, sharedVars, consumerVars, endVars
<1>2. ConsumersFollow' /\ GatesBehindHigh' /\ ExactlyOnceInOrder' /\ GuardsAccountForAll'
  BY <1>1, ConsumersUnharmed
<1>3. WithinOneRound'
  BY <1>0, <1>1 DEF WithinOneRound
<1>4. CallsInPhase'
  BY <1>0, <1>1 DEF CallsInPhase, InPhase, lower
<1>5. \A r \in Producers \ {q} : Pending(r)' = Pending(r) /\ Updated(r)' = Updated(r)
  BY DEF Pending, Updated, lower
<1>6. ClaimsDisjoint'
  <2>1. \A r \in Producers : Pending(r)' \subseteq Pending(r)
    BY <1>5
  <2> QED
    BY <1>0, <1>1, <2>1 DEF ClaimsDisjoint
<1>7. BitsTellRounds'
  BY <1>0, <1>1 DEF BitsTellRounds
<1>8. SlotsHoldEvents'
  <2>1. \A r \in Producers : Updated(r)' \subseteq Updated(r)
    BY <1>5
  <2> QED
    BY <1>0, <1>1, <2>1 DEF SlotsHoldEvents
<1>9. HandlesCounted' /\ ShutdownAtCursor'
  BY <1>1, StaysInUse
<1> QED
  BY <1>2, <1>3, <1>4, <1>6, <1>7, <1>8, <1>9 DEF MultiInv
-----------------------------------------------------------------------------
(* The steps of a call, one lemma per action.                              *)

CallType ==
  [n : 0 .. MaxBatch, spin : BOOLEAN, current : Sequences,
   todo : SUBSET ConsumerBarrier, rear : Int, claimed_sequence : Sequences,
   filled : 0 .. MaxBatch, flipped : 0 .. MaxBatch]

\* What a handle may be doing.
Phases == {"unborn", "idle", "retry", "claim", "cas", "update", "publish",
           "gone", "joining", "dropped", "panicked"}

\* Only handle q moves, to a phase and locals of the right kind.
LEMMA HandleTypes ==
  ASSUME TypeOK, NEW q \in Producers, NEW phase \in Phases, NEW locals \in CallType,
         NEW clear \in Int,
         ppc' = [ppc EXCEPT ![q] = phase],
         call' = [call EXCEPT ![q] = locals],
         sequence_clear_of_consumers' = [sequence_clear_of_consumers EXCEPT ![q] = clear],
         DisruptorTypeOK', UNCHANGED <<walk, endVars>>,
         cursor' \in Sequences, bit' \in [SlotIndices -> {0, 1}],
         published' \in SUBSET Sequences, holes' \in SUBSET Int
  PROVE  TypeOK'
<1>1. call \in [Producers -> CallType] /\ ppc \in [Producers -> Phases]
  BY DEF TypeOK, CallType, Phases
<1>2. call' \in [Producers -> CallType]
  <2> HIDE DEF CallType
  <2> QED
    BY <1>1
<1>3. ppc' \in [Producers -> Phases]
  BY <1>1
<1>4. sequence_clear_of_consumers' \in [Producers -> Int]
  BY DEF TypeOK
<1>5. ref_count' = ref_count /\ joined' = joined /\ walk' = walk
  BY DEF endVars
<1> QED
  BY <1>2, <1>3, <1>4, <1>5 DEF TypeOK, CallType, Phases

\* A handle between calls.
LEMMA NoCallType == NoCall \in CallType
<1>1. NONE \in Sequences
  BY SequencesType DEF Sequences, NONE
<1>2. 0 \in 0 .. MaxBatch /\ NONE \in Int
  BY SequencesType DEF NONE
<1> QED
  BY <1>1, <1>2 DEF NoCall, CallType

\* An attempt to claim begins: with a call, after a failed one, or after
\* another handle was faster.
LEMMA AttemptMoves ==
  ASSUME MultiInv, NEW q \in Producers, NEW locals \in CallType,
         locals.filled = 0, locals.flipped = 0,
         ppc[q] \in {"idle", "retry", "cas"},
         ppc[q] = "idle" => cursor + locals.n < MaxSequence,
         Attempt(q, locals, cursor),
         UNCHANGED <<disruptorVars, walk, cursor, bit, sequence_clear_of_consumers, endVars,
                     published, holes>>
  PROVE  MultiInv'
<1> DEFINE check == MustCheck(q, cursor, locals.n)
           locals1 == [locals EXCEPT !.current = cursor,
                                     !.todo = IF check THEN ConsumerBarrier ELSE {}]
           phase == IF check THEN "claim" ELSE "cas"
<1>0. TypeOK /\ WithinOneRound
  BY DEF MultiInv
<1>1. call' = [call EXCEPT ![q] = locals1] /\ ppc' = [ppc EXCEPT ![q] = phase]
  BY DEF Attempt
<1>2. locals1 \in CallType
  BY <1>0 DEF CallType, TypeOK
<1>3. phase \in Phases
  BY DEF Phases
<1>4. TypeOK'
  <2>1. DisruptorTypeOK'
    BY <1>0 DEF TypeOK, DisruptorTypeOK, disruptorVars, sharedVars, consumerVars
  <2>2. /\ sequence_clear_of_consumers[q] \in Int
        /\ sequence_clear_of_consumers' = [sequence_clear_of_consumers EXCEPT
             ![q] = sequence_clear_of_consumers[q]]
    BY <1>0 DEF TypeOK
  <2>3. /\ cursor' \in Sequences /\ bit' \in [SlotIndices -> {0, 1}]
        /\ published' \in SUBSET Sequences /\ holes' \in SUBSET Int
    BY <1>0 DEF TypeOK
  <2> HIDE DEF locals1, phase
  <2> QED
    BY <1>0, <1>1, <1>2, <1>3, <2>1, <2>2, <2>3, HandleTypes
<1>5. ppc'[q] = phase /\ call'[q] = locals1
  BY <1>0, <1>1 DEF TypeOK
<1>6. \A r \in Producers \ {q} : ppc'[r] = ppc[r] /\ call'[r] = call[r]
  BY <1>0, <1>1 DEF TypeOK
<1>7. InPhase(q)'
  <2>1. locals1.filled = 0 /\ locals1.flipped = 0
    BY DEF CallType
  <2>2. locals1.current = cursor /\ locals1.n = locals.n
    BY DEF CallType
  <2>3. phase = "claim" => locals1.todo = ConsumerBarrier
    BY DEF CallType
  <2>4. phase = "cas" => cursor + locals.n <= sequence_clear_of_consumers[q]
    <3>1. locals.n \in Int /\ cursor \in Int /\ sequence_clear_of_consumers[q] \in Int
      BY <1>0, Types, SequencesType DEF CallType
    <3> QED
      BY <3>1 DEF MustCheck
  <2>5. phase \in {"claim", "cas"}
    OBVIOUS
  <2> HIDE DEF locals1, phase
  <2> QED
    BY <1>5, <2>1, <2>2, <2>3, <2>4, <2>5 DEF InPhase
<1>8. Pending(q)' = {} /\ Updated(q)' = {}
  BY <1>5 DEF Pending, Updated
<1>9. ClaimsBounded'
  <2>1. CASE ppc[q] = "idle"
    <3>1. IsFiniteSet(Producers \ Unclaimed')
      BY FS_Subset, MultiProducerAssumption
    <3>2. Cardinality(Producers \ Unclaimed') \in Nat
      BY <3>1, FS_CardinalityType
    <3>3. MaxBatch * Cardinality(Producers \ Unclaimed') \in Nat
      BY <3>2, SequencesType
    <3>4. cursor < MaxSequence
      <4>1. locals.n \in Nat /\ cursor \in Int
        BY <1>0, Types, SequencesType DEF CallType
      <4> QED
        BY <2>1, <4>1, SequencesType
    <3>5. cursor' < MaxSequence + MaxBatch * Cardinality(Producers \ Unclaimed')
      <4>1. cursor \in Int /\ MaxSequence \in Nat /\ cursor' = cursor
        BY <1>0, Types, SequencesType
      <4> QED
        BY <3>3, <3>4, <4>1
    <3> QED
      BY <3>5 DEF ClaimsBounded
  <2>2. CASE ppc[q] # "idle"
    <3>1. Unclaimed' \subseteq Unclaimed
      <4>1. q \in Unclaimed
        BY <2>2 DEF Unclaimed
      <4> QED
        BY <1>6, <4>1 DEF Unclaimed
    <3> QED
      BY <1>0, <3>1, BoundStays DEF MultiInv
  <2> QED
    BY <2>1, <2>2
<1>10. \A c \in Consumers : sequence_clear_of_consumers'[q] <= counter[c] + Capacity
  BY <1>0 DEF WithinOneRound
<1> QED
  <2> HIDE DEF locals1, phase
  <2>1. ppc'[q] \in {"claim", "cas"}
    BY <1>5 DEF phase
  <2> QED
    BY <1>4, <1>6, <1>7, <1>8, <1>9, <1>10, <2>1, CallMoves

\* A call is over without having published anything more.
LEMMA ReturnMoves ==
  ASSUME MultiInv, NEW q \in Producers, ppc[q] \in {"claim", "update"}, Return(q),
         UNCHANGED <<disruptorVars, walk, cursor, bit, sequence_clear_of_consumers, endVars,
                     published>>,
         holes' \in SUBSET Int
  PROVE  MultiInv'
<1>0. TypeOK /\ WithinOneRound /\ ClaimsBounded
  BY DEF MultiInv
<1>1. ppc' = [ppc EXCEPT ![q] = "idle"] /\ call' = [call EXCEPT ![q] = NoCall]
  BY DEF Return
<1>2. TypeOK'
  <2>1. DisruptorTypeOK'
    BY <1>0 DEF TypeOK, DisruptorTypeOK, disruptorVars, sharedVars, consumerVars
  <2>2. /\ sequence_clear_of_consumers[q] \in Int
        /\ sequence_clear_of_consumers' = [sequence_clear_of_consumers EXCEPT
             ![q] = sequence_clear_of_consumers[q]]
    BY <1>0 DEF TypeOK
  <2>3. /\ cursor' \in Sequences /\ bit' \in [SlotIndices -> {0, 1}]
        /\ published' \in SUBSET Sequences /\ "idle" \in Phases
        /\ holes' \in SUBSET Int
    BY <1>0 DEF TypeOK, Phases
  <2> QED
    BY <1>0, <1>1, <2>1, <2>2, <2>3, HandleTypes, NoCallType
<1>3. /\ ppc'[q] = "idle"
      /\ \A r \in Producers \ {q} : ppc'[r] = ppc[r] /\ call'[r] = call[r]
  BY <1>0, <1>1 DEF TypeOK
<1>4. InPhase(q)' /\ Pending(q)' = {} /\ Updated(q)' = {}
  BY <1>3 DEF InPhase, Pending, Updated
<1>5. ClaimsBounded'
  <2>1. Unclaimed' \subseteq Unclaimed
    BY <1>3 DEF Unclaimed
  <2> QED
    BY <1>0, <2>1, BoundStays
<1>6. \A c \in Consumers : sequence_clear_of_consumers'[q] <= counter[c] + Capacity
  BY <1>0 DEF WithinOneRound
<1> QED
  BY <1>2, <1>3, <1>4, <1>5, <1>6, CallMoves

\* The closure unwinds: what was claimed remains a gap.
LEMMA UpdatePanicsMoves ==
  ASSUME MultiInv, NEW q \in Producers, UpdatePanics(q)
  PROVE  MultiInv'
<1>1. holes' \in SUBSET Int
  <2>1. holes' = holes \cup lower(q) .. call[q].claimed_sequence /\ holes \in SUBSET Int
    BY DEF UpdatePanics, MultiInv, TypeOK
  <2>2. lower(q) .. call[q].claimed_sequence \subseteq Int
    OBVIOUS
  <2> QED
    BY <2>1, <2>2
<1> QED
  BY <1>1, ReturnMoves DEF UpdatePanics

\* One more cursor of the consumer barrier is loaded: the least value is
\* covered by those loaded so far, and the new clearance by all consumers.
LEMMA LoadConsumerCursorMoves ==
  ASSUME MultiInv, NEW q \in Producers, NEW c \in ConsumerBarrier, LoadConsumerCursor(q, c)
  PROVE  MultiInv'
<1> DEFINE least == IF call[q].todo = ConsumerBarrier THEN counter[c]
                                                      ELSE Least(call[q].rear, counter[c])
           room == available_capacity(call[q].current, least)
           last == call[q].todo = {c}
           locals == [call[q] EXCEPT !.rear = least, !.todo = @ \ {c}]
           clear == sequence_clear_of_consumers[q]
<1>0. TypeOK /\ WithinOneRound /\ ClaimsBounded /\ CallsInPhase /\ ConsumersFollow
  BY DEF MultiInv
<1>1. /\ ppc[q] = "claim" /\ c \in call[q].todo
      /\ UNCHANGED <<disruptorVars, walk, cursor, bit, endVars, published, holes>>
  BY DEF LoadConsumerCursor
<1>2. /\ call[q] \in CallType
      /\ counter[c] \in Int /\ call[q].rear \in Int /\ call[q].current \in Int
      /\ call[q].n \in Nat /\ clear \in Int /\ Capacity \in Nat
      /\ \A d \in Consumers : counter[d] \in Int
  BY <1>0, Types, ConsumerBarrierType DEF TypeOK, CallType
<1>3. least \in Int
  BY <1>2 DEF Least
<1>4. locals \in CallType
  <2> HIDE DEF least
  <2> QED
    BY <1>2, <1>3 DEF CallType
<1>5. ASSUME NEW d \in ConsumerBarrier, d \notin call[q].todo \ {c} PROVE least <= counter[d]
  <2>1. counter[d] \in Int
    BY <1>2, ConsumerBarrierType
  <2>2. CASE d = c
    BY <1>2, <2>2 DEF Least
  <2>3. CASE d # c
    <3>1. d \notin call[q].todo /\ call[q].todo # ConsumerBarrier
      BY <1>5, <2>3
    <3>2. call[q].rear <= counter[d]
      BY <1>0, <1>1, <3>1 DEF CallsInPhase, InPhase
    <3> QED
      BY <1>2, <2>1, <3>1, <3>2 DEF Least
  <2> QED
    BY <2>2, <2>3
<1>6. locals.filled = call[q].filled /\ locals.flipped = call[q].flipped
  BY <1>2 DEF CallType
<1>7. locals.filled = 0 /\ locals.flipped = 0
  BY <1>0, <1>1, <1>6 DEF CallsInPhase, InPhase
<1>8. /\ locals.rear = least /\ locals.todo = call[q].todo \ {c}
      /\ locals.n = call[q].n /\ locals.current = call[q].current
  BY <1>2 DEF CallType
<1>9. ASSUME NEW phase \in {"claim", "cas", "retry"}, NEW v \in Int,
             call' = [call EXCEPT ![q] = locals],
             ppc' = [ppc EXCEPT ![q] = phase],
             sequence_clear_of_consumers' = [sequence_clear_of_consumers EXCEPT ![q] = v],
             phase = "cas" => call[q].current + call[q].n <= v,
             \A d \in Consumers : v <= counter[d] + Capacity
      PROVE  MultiInv'
  <2>0. call'[q] = locals /\ ppc'[q] = phase /\ sequence_clear_of_consumers'[q] = v
    BY <1>0, <1>9 DEF TypeOK
  <2>1. TypeOK'
    <3>1. DisruptorTypeOK'
      BY <1>0, <1>1 DEF TypeOK, DisruptorTypeOK, disruptorVars, sharedVars, consumerVars
    <3>2. /\ cursor' \in Sequences /\ bit' \in [SlotIndices -> {0, 1}]
          /\ published' \in SUBSET Sequences /\ phase \in Phases
          /\ holes' \in SUBSET Int
      BY <1>0, <1>1 DEF TypeOK, Phases
    <3> HIDE DEF locals, least
    <3> QED
      BY <1>0, <1>1, <1>4, <1>9, <3>1, <3>2, HandleTypes
  <2>2. \A r \in Producers \ {q} :
          /\ ppc'[r] = ppc[r] /\ call'[r] = call[r]
          /\ sequence_clear_of_consumers'[r] = sequence_clear_of_consumers[r]
    BY <1>0, <1>9 DEF TypeOK
  <2>3. InPhase(q)'
    <3>1. counter' = counter
      BY <1>1 DEF disruptorVars
    <3> HIDE DEF locals, least
    <3>2. phase = "cas" => locals.current + locals.n <= v
      BY <1>8, <1>9
    <3>3. \A d \in ConsumerBarrier \ locals.todo : locals.rear <= counter[d]
      BY <1>5, <1>8
    <3>4. phase # "update" /\ phase # "publish"
      BY <1>9
    <3> QED
      BY <1>7, <2>0, <3>1, <3>2, <3>3, <3>4 DEF InPhase
  <2>4. Pending(q)' = {} /\ Updated(q)' = {}
    BY <1>9, <2>0 DEF Pending, Updated
  <2>5. ClaimsBounded'
    <3>1. Unclaimed' \subseteq Unclaimed
      BY <1>1, <2>2 DEF Unclaimed
    <3> QED
      BY <1>0, <1>1, <3>1, BoundStays
  <2>6. /\ ppc[q] \in {"idle", "retry", "claim", "cas", "update", "publish"}
        /\ ppc'[q] \in {"idle", "retry", "claim", "cas", "update", "publish"}
    BY <1>1, <1>9, <2>0
  <2>7. \A d \in Consumers : sequence_clear_of_consumers'[q] <= counter[d] + Capacity
    BY <1>9, <2>0
  <2> QED
    BY <1>1, <2>1, <2>2, <2>3, <2>4, <2>5, <2>6, <2>7, CallMoves
<1>10. /\ sequence_clear_of_consumers =
            [sequence_clear_of_consumers EXCEPT ![q] = clear]
       /\ ppc = [ppc EXCEPT ![q] = "claim"]
       /\ \A d \in Consumers : clear <= counter[d] + Capacity
  BY <1>0, <1>1 DEF TypeOK, WithinOneRound
<1>11. CASE ~last /\ call' = [call EXCEPT ![q] = locals]
            /\ UNCHANGED <<ppc, sequence_clear_of_consumers>>
  <2> HIDE DEF locals, least, last
  <2> QED
    BY <1>2, <1>9, <1>10, <1>11
<1>12. CASE /\ last /\ room >= call[q].n
            /\ call' = [call EXCEPT ![q] = locals]
            /\ ppc' = [ppc EXCEPT ![q] = "cas"]
            /\ sequence_clear_of_consumers' =
                 [sequence_clear_of_consumers EXCEPT ![q] = call[q].current + room]
  <2>1. room \in Int /\ call[q].current + room = least + Capacity
    <3> HIDE DEF least
    <3> QED
      BY <1>2, <1>3 DEF available_capacity, wrap_point
  <2>2. \A e \in ConsumerBarrier : least <= counter[e]
    BY <1>5, <1>12
  <2>3. ASSUME NEW d \in Consumers PROVE least + Capacity <= counter[d] + Capacity
    <3>1. PICK e \in Consumers : e \in ConsumerBarrier
      BY SomeConsumer
    <3>2. Stage[e] = LastStage /\ Stage[d] \in 1 .. LastStage /\ LastStage \in Nat
      BY <3>1, Topology, TopologyAssumption DEF ConsumerBarrier, ConsumersAt
    <3>3. CASE Stage[d] = LastStage
      <4>1. d \in ConsumerBarrier
        BY <3>3 DEF ConsumerBarrier, ConsumersAt
      <4> HIDE DEF least
      <4> QED
        BY <1>2, <1>3, <2>2, <4>1
    <3>4. CASE Stage[d] < LastStage
      <4>1. counter[e] <= counter[d]
        BY <1>0, <3>1, <3>2, <3>4 DEF ConsumersFollow, Follows, MayPass
      <4>2. least <= counter[e]
        BY <2>2, <3>1
      <4> HIDE DEF least
      <4> QED
        BY <1>2, <1>3, <4>1, <4>2
    <3> QED
      BY <3>2, <3>3, <3>4
  <2>4. call[q].current + call[q].n <= call[q].current + room
    <3> HIDE DEF room
    <3> QED
      BY <1>2, <1>12, <2>1
  <2> HIDE DEF locals, least, last, room
  <2>5. call[q].current + room \in Int
    BY <1>2, <2>1
  <2>6. \A d \in Consumers : call[q].current + room <= counter[d] + Capacity
    BY <2>1, <2>3
  <2> QED
    BY <1>9, <1>12, <2>4, <2>5, <2>6
<1>13. CASE /\ call' = [call EXCEPT ![q] = locals]
            /\ ppc' = [ppc EXCEPT ![q] = "retry"]
            /\ UNCHANGED sequence_clear_of_consumers
  <2> HIDE DEF locals, least, last
  <2> QED
    BY <1>2, <1>9, <1>10, <1>13
<1>14. CASE Return(q) /\ UNCHANGED sequence_clear_of_consumers
  <2>1. holes' \in SUBSET Int
    BY <1>0, <1>1 DEF TypeOK
  <2> QED
    BY <1>1, <1>14, <2>1, ReturnMoves
<1>15. call' = [call EXCEPT ![q].rear = least, ![q].todo = @ \ {c}]
         => call' = [call EXCEPT ![q] = locals]
  <2> HIDE DEF least
  <2> QED
    BY <1>0 DEF TypeOK
<1> QED
  BY <1>11, <1>12, <1>13, <1>14, <1>15 DEF LoadConsumerCursor

\* The compare-and-exchange succeeds: the interval behind the cursor becomes
\* pending, nobody else has it, and it is within the clearance.
LEMMA ClaimMoves ==
  ASSUME MultiInv, NEW q \in Producers, CompareExchange(q), cursor = call[q].current
  PROVE  MultiInv'
<1> DEFINE n == call[q].n
           locals == [call[q] EXCEPT !.claimed_sequence = cursor + n]
           m == Cardinality(Producers \ Unclaimed)
<1>0. /\ TypeOK /\ WithinOneRound /\ ClaimsBounded /\ CallsInPhase /\ ClaimsDisjoint
      /\ BitsTellRounds /\ SlotsHoldEvents
  BY DEF MultiInv
<1>1. /\ ppc[q] = "cas" /\ cursor' = cursor + n
      /\ call' = [call EXCEPT ![q] = locals] /\ ppc' = [ppc EXCEPT ![q] = "update"]
      /\ UNCHANGED <<disruptorVars, walk, bit, sequence_clear_of_consumers, endVars, published, holes>>
  BY <1>0 DEF CompareExchange, TypeOK
<1>2. /\ call[q] \in CallType /\ n \in 0 .. MaxBatch /\ n \in Nat
      /\ cursor \in Int /\ NONE <= cursor /\ Capacity \in Nat
      /\ MaxSequence \in Nat /\ MaxBatch \in Nat /\ NONE \in Int
      /\ call[q].filled = 0 /\ call[q].flipped = 0
  <2>1. call[q] \in CallType
    BY <1>0 DEF TypeOK, CallType
  <2>2. n \in 0 .. MaxBatch
    BY <2>1 DEF CallType
  <2>3. NONE <= cursor
    BY <1>0, SequencesType DEF TypeOK
  <2> QED
    BY <1>0, <1>1, <2>1, <2>2, <2>3, Types, SequencesType DEF CallsInPhase, InPhase, NONE
<1>3. /\ UNCHANGED <<slots, shutdown_at_sequence, counter, consumerVars, gateHigh>>
      /\ UNCHANGED <<pc, next, walk, bit, published, sequence_clear_of_consumers>>
  BY <1>1 DEF disruptorVars, sharedVars, consumerVars
<1>4. ClaimsBounded' /\ cursor' \in Sequences
  <2>1. IsFiniteSet(Producers \ Unclaimed)
    BY FS_Subset, MultiProducerAssumption
  <2>2. Producers \ Unclaimed' = (Producers \ Unclaimed) \cup {q} /\ q \in Unclaimed
    BY <1>0, <1>1 DEF Unclaimed, TypeOK
  <2>3. m \in Nat /\ Cardinality(Producers \ Unclaimed') = m + 1
    BY <2>1, <2>2, FS_AddElement, FS_CardinalityType
  <2>4. m + 1 <= Cardinality(Producers)
    <3>1. (Producers \ Unclaimed') \in SUBSET Producers
      OBVIOUS
    <3>2. Cardinality(Producers \ Unclaimed') <= Cardinality(Producers)
      BY <3>1, FS_Subset, MultiProducerAssumption
    <3> QED
      BY <2>3, <3>2
  <2>5. cursor < MaxSequence + MaxBatch * m
    BY <1>0 DEF ClaimsBounded
  <2>6. ClaimsBounded' <=> cursor' < MaxSequence + MaxBatch * (m + 1)
    BY <2>3 DEF ClaimsBounded
  <2> HIDE DEF m, n
  <2>7. MaxBatch * (m + 1) = MaxBatch * m + MaxBatch /\ MaxBatch * m \in Nat
    BY <1>2, <2>3
  <2>8. cursor' < MaxSequence + MaxBatch * (m + 1)
    BY <1>1, <1>2, <2>5, <2>7
  <2>9. MaxBatch * (m + 1) <= MaxBatch * Cardinality(Producers)
    BY <1>2, <2>3, <2>4, SequencesType
  <2>10. cursor' <= MaxSequence + MaxBatch * Cardinality(Producers)
    BY <1>1, <1>2, <2>3, <2>7, <2>8, <2>9, SequencesType
  <2>11. cursor' \in Int /\ NONE <= cursor'
    BY <1>1, <1>2
  <2> QED
    BY <1>2, <2>6, <2>8, <2>10, <2>11, SequencesType DEF Sequences
<1>5. TypeOK'
  <2>1. DisruptorTypeOK'
    BY <1>0, <1>1 DEF TypeOK, DisruptorTypeOK, disruptorVars, sharedVars, consumerVars
  <2>2. /\ sequence_clear_of_consumers[q] \in Int
        /\ sequence_clear_of_consumers' = [sequence_clear_of_consumers EXCEPT
             ![q] = sequence_clear_of_consumers[q]]
    BY <1>0, <1>3 DEF TypeOK
  <2>3. /\ bit' \in [SlotIndices -> {0, 1}] /\ published' \in SUBSET Sequences
        /\ holes' \in SUBSET Int
    BY <1>0, <1>1 DEF TypeOK
  <2>4. locals \in CallType /\ "update" \in Phases
    BY <1>1, <1>2, <1>4 DEF CallType, Phases
  <2> HIDE DEF locals
  <2> QED
    BY <1>0, <1>1, <1>4, <2>1, <2>2, <2>3, <2>4, HandleTypes
<1>6. /\ call'[q] = locals /\ ppc'[q] = "update"
      /\ \A r \in Producers \ {q} : ppc'[r] = ppc[r] /\ call'[r] = call[r]
  BY <1>0, <1>1 DEF TypeOK
<1>7. /\ call'[q].n = n /\ call'[q].claimed_sequence = cursor + n
      /\ call'[q].filled = 0 /\ call'[q].flipped = 0
  BY <1>2, <1>6 DEF CallType
<1>8. lower(q)' = cursor + 1
  BY <1>2, <1>7 DEF lower
<1>9. Pending(q)' = cursor + 1 .. cursor + n /\ Updated(q)' = {}
  <2>1. Pending(q)' = lower(q)' + 0 .. cursor + n
    BY <1>6, <1>7 DEF Pending
  <2>2. Updated(q)' = lower(q)' .. lower(q)' + 0 - 1
    BY <1>6, <1>7 DEF Updated
  <2> QED
    BY <1>2, <1>8, <2>1, <2>2
<1>10. \A r \in Producers \ {q} : Pending(r)' = Pending(r) /\ Updated(r)' = Updated(r)
  BY <1>6 DEF Pending, Updated, lower
<1>11. cursor <= cursor' /\ cursor' \in Int
  BY <1>1, <1>2
<1>12. ConsumersFollow' /\ GatesBehindHigh' /\ ExactlyOnceInOrder' /\ GuardsAccountForAll'
  BY <1>3, <1>5, ConsumersUnharmed
<1>13. WithinOneRound'
  <2> SUFFICES ASSUME NEW c \in Consumers PROVE cursor' <= counter[c] + Capacity
    BY <1>0, <1>3 DEF WithinOneRound
  <2>1. cursor + n <= sequence_clear_of_consumers[q]
    BY <1>0, <1>1 DEF CallsInPhase, InPhase
  <2>2. sequence_clear_of_consumers[q] <= counter[c] + Capacity
    BY <1>0 DEF WithinOneRound
  <2>3. sequence_clear_of_consumers[q] \in Int /\ counter[c] \in Int
    BY <1>0, Types
  <2> QED
    BY <1>1, <1>2, <2>1, <2>2, <2>3
<1>14. CallsInPhase'
  <2>1. InPhase(q)'
    <3>1. 0 <= lower(q)' /\ 0 <= n
      BY <1>2, <1>8 DEF NONE
    <3> QED
      BY <1>1, <1>2, <1>6, <1>7, <3>1 DEF InPhase
  <2>2. ASSUME NEW r \in Producers \ {q} PROVE InPhase(r)'
    <3>1. InPhase(r)
      BY <1>0 DEF CallsInPhase
    <3>2. call[r].claimed_sequence <= cursor => call[r].claimed_sequence <= cursor'
      <4>1. call[r].claimed_sequence \in Int
        BY <1>0, Types
      <4> QED
        BY <1>2, <1>11, <4>1
    <3>3. lower(r)' = lower(r)
      BY <1>6 DEF lower
    <3> QED
      BY <1>3, <1>6, <3>1, <3>2, <3>3 DEF InPhase
  <2> QED
    BY <2>1, <2>2 DEF CallsInPhase
<1>15. ClaimsDisjoint'
  <2>1. published \subseteq 0 .. cursor /\ published' \subseteq 0 .. cursor'
    BY <1>0, <1>2, <1>3, <1>11 DEF ClaimsDisjoint
  <2>2. Pending(q)' \cap published' = {}
    BY <1>2, <1>3, <1>9, <2>1
  <2>3. ASSUME NEW r \in Producers \ {q} PROVE Pending(q)' \cap Pending(r)' = {}
    <3>1. \A s \in Pending(r) : s \in Int /\ s <= cursor
      BY <1>0, <1>2, Types DEF CallsInPhase, InPhase, Pending
    <3> QED
      BY <1>2, <1>9, <1>10, <3>1
  <2> QED
    BY <1>0, <1>3, <1>10, <2>1, <2>2, <2>3 DEF ClaimsDisjoint
<1>16. BitsTellRounds'
  BY <1>0, <1>3 DEF BitsTellRounds
<1>17. SlotsHoldEvents'
  BY <1>0, <1>3, <1>9, <1>10 DEF SlotsHoldEvents
<1>18. HandlesCounted' /\ ShutdownAtCursor'
  BY <1>1, <1>3, <1>6, StaysInUse
<1> QED
  BY <1>4, <1>5, <1>12, <1>13, <1>14, <1>15, <1>16, <1>17, <1>18 DEF MultiInv

\* What is claimed and not yet published is in front of every consumer, within
\* one round; what is published is within that round or behind it.
LEMMA PendingWindow ==
  ASSUME MultiInv, NEW q \in Producers, NEW s \in Pending(q), NEW c \in Consumers
  PROVE  /\ s \in Nat /\ s \notin published
         /\ s <= call[q].claimed_sequence /\ s <= cursor
         /\ counter[c] < s /\ s <= counter[c] + Capacity
<1>0. TypeOK /\ ClaimsDisjoint /\ WithinOneRound /\ CallsInPhase /\ ConsumersFollow
  BY DEF MultiInv
<1>1. /\ counter[c] \in Int /\ cursor \in Int /\ Capacity \in Nat /\ lower(q) \in Int
      /\ call[q].claimed_sequence \in Int /\ call[q].flipped \in Nat
  BY <1>0, Types
<1>2. /\ ppc[q] \in {"update", "publish"}
      /\ s \in lower(q) + call[q].flipped .. call[q].claimed_sequence
  BY DEF Pending
<1>3. 0 <= lower(q) /\ call[q].claimed_sequence <= cursor
  BY <1>0, <1>2 DEF CallsInPhase, InPhase
<1>4. s \in Nat /\ s <= call[q].claimed_sequence /\ s <= cursor
  BY <1>1, <1>2, <1>3
<1>5. s \notin published
  BY <1>0 DEF ClaimsDisjoint
<1>6. counter[c] < s
  <2>1. 0 .. counter[c] \subseteq published
    BY <1>0 DEF ConsumersFollow, Follows, MayPass, Ready
  <2> QED
    BY <1>1, <1>4, <1>5, <2>1
<1>7. s <= counter[c] + Capacity
  <2>1. cursor <= counter[c] + Capacity
    BY <1>0 DEF WithinOneRound
  <2> QED
    BY <1>1, <1>4, <2>1
<1> QED
  BY <1>4, <1>5, <1>6, <1>7

LEMMA PublishedWindow ==
  ASSUME MultiInv, NEW s \in published, NEW c \in Consumers
  PROVE  s \in Nat /\ s <= cursor /\ s <= counter[c] + Capacity
<1>0. TypeOK /\ ClaimsDisjoint /\ WithinOneRound
  BY DEF MultiInv
<1>1. counter[c] \in Int /\ cursor \in Int /\ Capacity \in Nat
  BY <1>0, Types
<1>2. s \in 0 .. cursor /\ cursor <= counter[c] + Capacity
  BY <1>0 DEF ClaimsDisjoint, WithinOneRound
<1> QED
  BY <1>1, <1>2

\* Events are updated before they are published.
LEMMA UpdatedPending ==
  ASSUME MultiInv, NEW q \in Producers
  PROVE  Updated(q) \subseteq Pending(q)
<1>0. TypeOK /\ InPhase(q)
  BY DEF MultiInv, CallsInPhase
<1>1. /\ lower(q) \in Int /\ call[q].claimed_sequence \in Int
      /\ call[q].n \in Nat /\ call[q].filled \in Nat
  BY <1>0, Types
<1>2. CASE ppc[q] = "update"
  <2>1. call[q].flipped = 0 /\ call[q].filled <= call[q].n
    BY <1>0, <1>2 DEF InPhase
  <2>2. call[q].claimed_sequence = lower(q) + call[q].n - 1
    BY <1>1 DEF lower
  <2> QED
    BY <1>1, <1>2, <2>1, <2>2 DEF Updated, Pending
<1>3. CASE ppc[q] # "update"
  BY <1>3 DEF Updated
<1> QED
  BY <1>2, <1>3

\* The closure updates an event: its slot holds nothing that anybody still
\* needs.
LEMMA UpdateEventMoves ==
  ASSUME MultiInv, NEW q \in Producers, UpdateEvent(q)
  PROVE  MultiInv'
<1> DEFINE s0 == lower(q) + call[q].filled
           locals == [call[q] EXCEPT !.filled = @ + 1]
<1>0. /\ TypeOK /\ WithinOneRound /\ ClaimsBounded /\ CallsInPhase /\ ClaimsDisjoint
      /\ BitsTellRounds /\ SlotsHoldEvents
  BY DEF MultiInv
<1>1. /\ ppc[q] = "update" /\ call[q].filled < call[q].n
      /\ slots' = [slots EXCEPT ![slot_index(s0)] = s0]
      /\ call' = [call EXCEPT ![q] = locals]
      /\ UNCHANGED <<shutdown_at_sequence, counter, consumerVars, gateHigh, walk, cursor, bit,
                     ppc, sequence_clear_of_consumers, endVars, published, holes>>
  BY <1>0 DEF UpdateEvent, HasNext, TypeOK
<1>2. /\ call[q] \in CallType /\ call[q].n \in 0 .. MaxBatch /\ call[q].filled \in Nat
      /\ MaxBatch \in Nat /\ lower(q) \in Int /\ call[q].claimed_sequence \in Int
      /\ call[q].n \in Nat /\ Capacity \in Nat /\ s0 \in Int
  <2>1. call[q] \in CallType
    BY <1>0 DEF TypeOK, CallType
  <2>2. call[q].n \in 0 .. MaxBatch
    BY <2>1 DEF CallType
  <2> QED
    BY <1>0, <2>1, <2>2, Types, SequencesType
<1>3. call[q].flipped = 0 /\ call[q].claimed_sequence = lower(q) + call[q].n - 1
  BY <1>0, <1>1, <1>2 DEF CallsInPhase, InPhase, lower
<1>4. locals \in CallType
  <2>1. call[q].filled + 1 \in 0 .. MaxBatch
    BY <1>1, <1>2
  <2> QED
    BY <1>2, <2>1 DEF CallType
<1>5. TypeOK'
  <2>1. DisruptorTypeOK'
    <3>1. slots' \in [SlotIndices -> Int]
      <4> HIDE DEF s0
      <4> QED
        BY <1>0, <1>1, <1>2 DEF TypeOK, DisruptorTypeOK
    <3> QED
      BY <1>0, <1>1, <3>1 DEF TypeOK, DisruptorTypeOK, consumerVars
  <2>2. /\ sequence_clear_of_consumers[q] \in Int
        /\ sequence_clear_of_consumers' = [sequence_clear_of_consumers EXCEPT
             ![q] = sequence_clear_of_consumers[q]]
        /\ ppc' = [ppc EXCEPT ![q] = "update"]
    BY <1>0, <1>1 DEF TypeOK
  <2>3. /\ cursor' \in Sequences /\ bit' \in [SlotIndices -> {0, 1}]
        /\ published' \in SUBSET Sequences /\ "update" \in Phases
        /\ holes' \in SUBSET Int
    BY <1>0, <1>1 DEF TypeOK, Phases
  <2> HIDE DEF locals
  <2> QED
    BY <1>0, <1>1, <1>4, <2>1, <2>2, <2>3, HandleTypes
<1>6. /\ call'[q] = locals /\ ppc' = ppc /\ counter' = counter
      /\ \A r \in Producers \ {q} : call'[r] = call[r]
  BY <1>0, <1>1 DEF TypeOK
<1>7. /\ call'[q].n = call[q].n /\ call'[q].claimed_sequence = call[q].claimed_sequence
      /\ call'[q].filled = call[q].filled + 1 /\ call'[q].flipped = 0
  BY <1>2, <1>3, <1>6 DEF CallType
<1>8. lower(q)' = lower(q)
  BY <1>7 DEF lower
<1>9. Pending(q)' = Pending(q)
  BY <1>3, <1>6, <1>7, <1>8 DEF Pending
<1>10. \A r \in Producers \ {q} : Pending(r)' = Pending(r) /\ Updated(r)' = Updated(r)
  BY <1>6 DEF Pending, Updated, lower
<1>11. Updated(q)' = lower(q) .. s0
  <2>1. Updated(q)' = lower(q) .. lower(q) + (call[q].filled + 1) - 1
    BY <1>1, <1>6, <1>7, <1>8 DEF Updated
  <2> QED
    BY <1>2, <2>1
<1>12. s0 \in Pending(q)
  <2>1. Pending(q) = lower(q) + 0 .. call[q].claimed_sequence
    BY <1>1, <1>3 DEF Pending
  <2> QED
    BY <1>1, <1>2, <1>3, <2>1, SMTT(30)
<1>13. CallsInPhase'
  <2>1. InPhase(q)'
    <3>1. InPhase(q)
      BY <1>0 DEF CallsInPhase
    <3> QED
      BY <1>1, <1>2, <1>6, <1>7, <1>8, <3>1 DEF InPhase
  <2>2. \A r \in Producers \ {q} : InPhase(r)'
    BY <1>0, <1>1, <1>6 DEF CallsInPhase, InPhase, lower
  <2> QED
    BY <2>1, <2>2 DEF CallsInPhase
<1>14. ClaimsDisjoint'
  BY <1>0, <1>1, <1>9, <1>10 DEF ClaimsDisjoint
<1>15. SlotsHoldEvents'
  <2>0. s0 \in Int /\ \A s \in Int : s # s0 => (slot_index(s) # slot_index(s0)
                                       => slots'[slot_index(s)] = slots[slot_index(s)])
    <3> HIDE DEF s0
    <3> QED
      BY <1>0, <1>1, <1>2, SlotType DEF TypeOK, DisruptorTypeOK
  <2>1. slots'[slot_index(s0)] = s0
    <3> HIDE DEF s0
    <3> QED
      BY <1>0, <1>1, <1>2, SlotType DEF TypeOK, DisruptorTypeOK
  <2>2. ASSUME NEW s \in Int, s # s0, NEW c \in Consumers,
               counter[c] < s, s <= counter[c] + Capacity
        PROVE  slots'[slot_index(s)] = slots[slot_index(s)]
    <3>1. counter[c] < s0 /\ s0 <= counter[c] + Capacity /\ counter[c] \in Int
      <4> HIDE DEF s0
      <4> QED
        BY <1>0, <1>12, PendingWindow, Types
    <3> HIDE DEF s0
    <3>2. CASE s < s0
      <4>1. s0 < s + Capacity
        BY <1>2, <2>2, <3>1
      <4> QED
        BY <1>2, <2>0, <2>2, <3>2, <4>1, SlotsDiffer
    <3>3. CASE s0 < s
      <4>1. s < s0 + Capacity
        BY <1>2, <2>2, <3>1
      <4> QED
        BY <1>2, <2>0, <2>2, <3>3, <4>1, SlotsDiffer
    <3> QED
      BY <1>2, <2>2, <3>2, <3>3
  <2>3. ASSUME NEW c \in Consumers, NEW s \in published, counter[c] < s
        PROVE  slots'[slot_index(s)] = s
    <3>1. s \in Int /\ s <= counter[c] + Capacity
      BY PublishedWindow
    <3>2. s # s0
      <4> HIDE DEF s0
      <4> QED
        BY <1>12, PendingWindow, SomeConsumer
    <3>3. slots[slot_index(s)] = s
      BY <1>0, <2>3 DEF SlotsHoldEvents
    <3> QED
      BY <2>2, <2>3, <3>1, <3>2, <3>3
  <2>4. ASSUME NEW r \in Producers, NEW s \in Updated(r), s # s0
        PROVE  slots'[slot_index(s)] = s
    <3>1. PICK c \in Consumers : TRUE
      BY SomeConsumer
    <3>2. s \in Pending(r)
      BY UpdatedPending
    <3>3. s \in Int /\ counter[c] < s /\ s <= counter[c] + Capacity
      BY <3>2, PendingWindow
    <3>4. slots[slot_index(s)] = s
      BY <1>0 DEF SlotsHoldEvents
    <3> QED
      BY <2>2, <2>4, <3>3, <3>4
  <2>5. ASSUME NEW r \in Producers, NEW s \in Updated(r)' PROVE slots'[slot_index(s)] = s
    <3>1. CASE s = s0
      BY <2>1, <3>1
    <3>2. CASE s # s0
      <4>1. s \in Updated(r)
        <5>1. CASE r # q
          BY <1>10, <5>1
        <5>2. CASE r = q
          <6>1. Updated(q) = lower(q) .. s0 - 1
            BY <1>1, <1>2 DEF Updated
          <6>2. s \in lower(q) .. s0
            BY <1>11, <5>2
          <6> HIDE DEF s0
          <6> QED
            BY <1>2, <3>2, <5>2, <6>1, <6>2
        <5> QED
          BY <5>1, <5>2
      <4> QED
        BY <2>4, <3>2, <4>1
    <3> QED
      BY <3>1, <3>2
  <2>6. published' = published
    BY <1>1
  <2> QED
    BY <1>6, <2>3, <2>5, <2>6 DEF SlotsHoldEvents
<1>16. ConsumersFollow' /\ GatesBehindHigh' /\ ExactlyOnceInOrder' /\ GuardsAccountForAll'
  BY <1>1, <1>5, ConsumersUnharmed
<1>17. HandlesCounted' /\ ShutdownAtCursor'
  BY <1>1, <1>6, StaysInUse DEF consumerVars
<1>18. ClaimsBounded'
  BY <1>0, <1>1 DEF ClaimsBounded, Unclaimed
<1>19. WithinOneRound' /\ BitsTellRounds'
  BY <1>0, <1>1 DEF WithinOneRound, BitsTellRounds
<1> QED
  BY <1>5, <1>13, <1>14, <1>15, <1>16, <1>17, <1>18, <1>19 DEF MultiInv
-----------------------------------------------------------------------------
(* Publishing: the bits of a word.                                         *)

\* One fetch_xor publishes an interval of the batch, from its first pending
\* event on.
LEMMA WordIsInterval ==
  ASSUME NEW from \in Int, NEW e \in Int, from <= e + 1
  PROVE  \E t \in from - 1 .. e :
           /\ RestOfWord(from) \cap from .. e = from .. t
           /\ Cardinality(RestOfWord(from) \cap from .. e) = t - from + 1
<1> DEFINE k == slot_index(from) % WordBits
           last == from + WordBits - 1 - k
           t == IF last <= e THEN last ELSE e
<1>1. WordBits \in Nat \ {0} /\ slot_index(from) \in Int
  BY MultiProducerAssumption, SlotType, CapacityAssumption DEF SlotIndices
<1>2. k \in 0 .. WordBits - 1
  BY <1>1, Division
<1> HIDE DEF k
<1>3. last \in Int /\ from <= last
  BY <1>1, <1>2
<1>4. RestOfWord(from) = from .. last
  BY DEF RestOfWord, k
<1> HIDE DEF last
<1>5. t \in from - 1 .. e /\ RestOfWord(from) \cap from .. e = from .. t
  BY <1>3, <1>4
<1> HIDE DEF t
<1>6. Cardinality(from .. t) = t - from + 1
  BY <1>5, FS_Interval
<1> QED
  BY <1>5, <1>6

\* Before an event is published, its bit has the other value.
LEMMA BitOfPending ==
  ASSUME MultiInv, NEW q \in Producers, NEW s \in Pending(q)
  PROVE  bit[slot_index(s)] = 1 - calculate_availability_flag(s)
<1>1. PICK c \in Consumers : TRUE
  BY SomeConsumer
<1>2. /\ s \in Nat /\ s \notin published /\ s <= counter[c] + Capacity
      /\ counter[c] \in Int
  BY PendingWindow, Types DEF MultiInv
<1>3. Ready(counter[c])
  BY DEF MultiInv, ConsumersFollow, Follows, MayPass
<1>4. Ready(s - Capacity)
  BY <1>2, <1>3, CapacityAssumption DEF Ready
<1> QED
  BY <1>2, <1>4, UnpublishedBit

\* Who shares a slot with a pending event w is of an earlier round: the round
\* before, or one whose successor every consumer has released.
LEMMA SlotOfPending ==
  ASSUME MultiInv, NEW q \in Producers, NEW w \in Pending(q), NEW c \in Consumers,
         NEW s \in Int, 0 <= s, s <= counter[c] + Capacity,
         slot_index(s) = slot_index(w), s # w
  PROVE  /\ s + Capacity <= w /\ s \in published
         /\ s + Capacity # w => s + Capacity \in published
<1>0. TypeOK /\ ConsumersFollow
  BY DEF MultiInv
<1>1. /\ w \in Nat /\ counter[c] < w /\ w <= counter[c] + Capacity
      /\ counter[c] \in Int /\ Capacity \in Nat /\ Capacity >= 1
  BY <1>0, PendingWindow, Types
<1>2. 0 .. counter[c] \subseteq published
  BY <1>0 DEF ConsumersFollow, Follows, MayPass, Ready
<1>3. s < w
  <2>1. CASE w < s
    <3>1. s < w + Capacity
      BY <1>1
    <3> QED
      BY <1>1, <2>1, <3>1, SlotsDiffer
  <2> QED
    BY <1>1, <2>1
<1>4. s + Capacity <= w
  BY <1>1, <1>3, SlotsDiffer
<1>5. s \in published
  BY <1>1, <1>2, <1>4
<1>6. ASSUME s + Capacity # w PROVE s + Capacity \in published
  <2>1. slot_index(s + Capacity) = slot_index(w)
    BY RoundLater
  <2>2. s + Capacity \in Int /\ s + Capacity < w
    BY <1>1, <1>4, <1>6
  <2>3. ~ (w < (s + Capacity) + Capacity)
    BY <1>1, <2>1, <2>2, SlotsDiffer
  <2>4. s + Capacity \in 0 .. counter[c]
    BY <1>1, <2>2, <2>3
  <2> QED
    BY <1>2, <2>4
<1> QED
  BY <1>4, <1>5, <1>6

\* Flipping the bits of some pending events, and of nobody else, publishes just
\* these.
LEMMA FlippedBits ==
  ASSUME MultiInv, NEW q \in Producers, NEW word, word \subseteq Pending(q),
         bit' = [i \in SlotIndices |->
                  IF i \in {slot_index(s) : s \in word} THEN 1 - bit[i] ELSE bit[i]],
         published' = published \cup word
  PROVE  BitsTellRounds'
<1> DEFINE mask == {slot_index(s) : s \in word}
<1>0. TypeOK /\ BitsTellRounds
  BY DEF MultiInv
<1>1. PICK c \in Consumers : TRUE
  BY SomeConsumer
<1>2. Capacity \in Nat /\ Capacity >= 1 /\ counter[c] \in Int /\ NONE <= counter[c]
  BY <1>0, Types DEF MultiInv, ConsumersFollow, Follows
<1>3. ASSUME NEW s \in published', s + Capacity \notin published'
      PROVE  bit'[slot_index(s)] = calculate_availability_flag(s)
  <2>1. CASE s \in word
    <3>1. s \in Pending(q) /\ s \in Int
      BY <1>1, <2>1, PendingWindow
    <3>2. bit[slot_index(s)] = 1 - calculate_availability_flag(s)
      BY <3>1, BitOfPending
    <3>3. bit'[slot_index(s)] = 1 - bit[slot_index(s)]
      BY <2>1, <3>1, SlotType
    <3> QED
      BY <3>1, <3>2, <3>3, FlagFlips
  <2>2. CASE s \notin word
    <3>1. s \in published /\ s \in Nat /\ s <= counter[c] + Capacity
      BY <1>3, <2>2, PublishedWindow
    <3>2. bit[slot_index(s)] = calculate_availability_flag(s)
      BY <1>0, <1>3, <3>1 DEF BitsTellRounds
    <3>3. slot_index(s) \notin mask
      <4> SUFFICES ASSUME NEW w \in word, slot_index(s) = slot_index(w) PROVE FALSE
        OBVIOUS
      <4>1. s # w /\ w \in Pending(q)
        BY <2>2
      <4>2. s + Capacity # w => s + Capacity \in published
        BY <3>1, <4>1, SlotOfPending
      <4> QED
        BY <1>3, <4>2
    <3> QED
      BY <3>1, <3>2, <3>3, SlotType
  <2> QED
    BY <2>1, <2>2
<1>4. ASSUME NEW s \in SlotIndices, s \notin published' PROVE bit'[s] = 1
  <2>1. s \in Int /\ 0 <= s /\ s <= Capacity - 1 /\ s \notin published /\ s \notin word
    BY <1>2, <1>4 DEF SlotIndices
  <2>2. bit[s] = 1 /\ slot_index(s) = s
    BY <1>0, <2>1, FirstRound DEF BitsTellRounds
  <2>3. s \notin mask
    <3> SUFFICES ASSUME NEW w \in word, s = slot_index(w) PROVE FALSE
      OBVIOUS
    <3>1. s <= counter[c] + Capacity
      BY <1>2, <2>1 DEF NONE
    <3>2. s # w /\ w \in Pending(q) /\ slot_index(s) = slot_index(w)
      BY <2>1, <2>2
    <3> QED
      BY <2>1, <3>1, <3>2, SlotOfPending
  <2> QED
    BY <2>2, <2>3
<1> QED
  BY <1>3, <1>4 DEF BitsTellRounds

\* What one fetch_xor does to the call: it publishes the first pending events,
\* all of them updated, and the others stay pending.
LEMMA PublishWordEffect ==
  ASSUME MultiInv, NEW q \in Producers, PublishWord(q)
  PROVE  \E word :
           /\ word \subseteq Pending(q)
           /\ \A s \in Pending(q) : slots[slot_index(s)] = s
           /\ bit' = [i \in SlotIndices |->
                       IF i \in {slot_index(s) : s \in word} THEN 1 - bit[i] ELSE bit[i]]
           /\ published' = published \cup word
           /\ Pending(q)' = Pending(q) \ word
           /\ Updated(q)' = Pending(q)'
           /\ ppc[q] \in {"update", "publish"} /\ ppc'[q] \in {"idle", "publish"}
           /\ \A r \in Producers \ {q} : ppc'[r] = ppc[r] /\ call'[r] = call[r]
           /\ InPhase(q)'
           /\ \E phase \in Phases, locals \in CallType :
                ppc' = [ppc EXCEPT ![q] = phase] /\ call' = [call EXCEPT ![q] = locals]
<1> DEFINE n == call[q].n
           e == call[q].claimed_sequence
           from == lower(q) + call[q].flipped
           word == RestOfWord(from) \cap from .. e
           done == call[q].flipped + Cardinality(word)
<1>0. TypeOK /\ CallsInPhase /\ SlotsHoldEvents
  BY DEF MultiInv
<1>1. /\ \/ ppc[q] = "update" /\ call[q].filled = n
         \/ ppc[q] = "publish"
      /\ bit' = [i \in SlotIndices |->
                  IF i \in {slot_index(s) : s \in word} THEN 1 - bit[i] ELSE bit[i]]
      /\ published' = published \cup word
      /\ cursor' = cursor
      /\ \/ done = n /\ Return(q)
         \/ /\ done # n
            /\ ppc' = [ppc EXCEPT ![q] = "publish"]
            /\ call' = [call EXCEPT ![q].flipped = done]
  BY DEF PublishWord
<1>2. /\ call[q] \in CallType /\ n \in 0 .. MaxBatch /\ MaxBatch \in Nat
      /\ n \in Nat /\ e \in Int /\ lower(q) \in Int /\ call[q].flipped \in Nat /\ from \in Int
      /\ call[q].filled \in Nat
  <2>1. call[q] \in CallType
    BY <1>0 DEF TypeOK, CallType
  <2>2. n \in 0 .. MaxBatch
    BY <2>1 DEF CallType
  <2> QED
    BY <1>0, <2>1, <2>2, Types, SequencesType
<1>3. /\ call[q].flipped <= n /\ e = lower(q) + n - 1
      /\ ppc[q] = "update" => call[q].flipped = 0
      /\ 0 <= lower(q) /\ e <= cursor
  BY <1>0, <1>1, <1>2 DEF CallsInPhase, InPhase, lower
<1>4. Pending(q) = from .. e /\ ppc[q] \in {"update", "publish"}
  BY <1>1 DEF Pending
<1>5. Updated(q) = Pending(q)
  <2>1. CASE ppc[q] = "update"
    <3>1. Updated(q) = lower(q) .. lower(q) + n - 1
      BY <1>1, <1>2, <2>1 DEF Updated
    <3> QED
      BY <1>2, <1>3, <1>4, <2>1, <3>1
  <2>2. CASE ppc[q] # "update"
    BY <2>2 DEF Updated
  <2> QED
    BY <2>1, <2>2
<1>6. PICK t \in from - 1 .. e : word = from .. t /\ Cardinality(word) = t - from + 1
  <2>1. from <= e + 1
    BY <1>2, <1>3
  <2> HIDE DEF from, e
  <2> QED
    BY <1>2, <2>1, WordIsInterval
<1>7. word \subseteq Pending(q) /\ Pending(q) \ word = t + 1 .. e
  <2> HIDE DEF from, e, word
  <2> QED
    BY <1>2, <1>4, <1>6
<1>8. done = t - lower(q) + 1 /\ done \in 0 .. n /\ (done = n <=> t = e) /\ t \in Int
  <2>1. t \in Int /\ from - 1 <= t /\ t <= e
    <3> HIDE DEF from, e
    <3> QED
      BY <1>2, <1>6
  <2>2. done = call[q].flipped + (t - from + 1)
    BY <1>6
  <2> HIDE DEF word, done
  <2> QED
    BY <1>2, <1>3, <2>1, <2>2
<1> HIDE DEF word
<1>9. \A s \in Pending(q) : slots[slot_index(s)] = s
  BY <1>0, <1>5, <1>7 DEF SlotsHoldEvents
<1>10. CASE done = n /\ Return(q)
  <2>1. /\ ppc' = [ppc EXCEPT ![q] = "idle"] /\ call' = [call EXCEPT ![q] = NoCall]
        /\ "idle" \in Phases /\ NoCall \in CallType
    BY <1>10, NoCallType DEF Return, Phases
  <2>2. /\ ppc'[q] = "idle"
        /\ \A r \in Producers \ {q} : ppc'[r] = ppc[r] /\ call'[r] = call[r]
    BY <1>0, <2>1 DEF TypeOK
  <2>3. Pending(q)' = {} /\ Updated(q)' = {} /\ InPhase(q)'
    BY <2>2 DEF Pending, Updated, InPhase
  <2>4. Pending(q) \ word = {}
    <3>1. t + 1 .. e = {}
      <4>1. t = e
        BY <1>8, <1>10
      <4> HIDE DEF e
      <4> QED
        BY <1>2, <4>1
    <3> QED
      BY <1>7, <3>1
  <2>5. \E phase \in Phases, locals \in CallType :
          ppc' = [ppc EXCEPT ![q] = phase] /\ call' = [call EXCEPT ![q] = locals]
    BY <2>1
  <2> QED
    BY <1>1, <1>4, <1>7, <1>9, <2>2, <2>3, <2>4, <2>5
<1>11. CASE /\ done # n
            /\ ppc' = [ppc EXCEPT ![q] = "publish"]
            /\ call' = [call EXCEPT ![q].flipped = done]
  <2> DEFINE locals == [call[q] EXCEPT !.flipped = done]
  <2>0. done \in 0 .. MaxBatch
    BY <1>2, <1>8
  <2> HIDE DEF done
  <2>1. /\ call' = [call EXCEPT ![q] = locals] /\ "publish" \in Phases
        /\ locals \in CallType
    BY <1>0, <1>2, <1>11, <2>0 DEF TypeOK, CallType, Phases
  <2>2. /\ ppc'[q] = "publish" /\ call'[q] = locals
        /\ \A r \in Producers \ {q} : ppc'[r] = ppc[r] /\ call'[r] = call[r]
    BY <1>0, <1>11, <2>1 DEF TypeOK
  <2>3. /\ call'[q].n = n /\ call'[q].claimed_sequence = e /\ call'[q].flipped = done
    BY <1>2, <2>2 DEF CallType
  <2>4. lower(q)' = lower(q)
    BY <2>3 DEF lower
  <2>5. Pending(q)' = t + 1 .. e
    <3>1. Pending(q)' = lower(q) + done .. e
      BY <2>2, <2>3, <2>4 DEF Pending
    <3>2. lower(q) + done = t + 1
      BY <1>2, <1>8
    <3> QED
      BY <3>1, <3>2
  <2>6. Updated(q)' = Pending(q)'
    BY <2>2 DEF Updated
  <2>7. InPhase(q)'
    <3>1. done <= n
      BY <1>2, <1>8
    <3> QED
      BY <1>1, <1>3, <2>2, <2>3, <2>4, <3>1 DEF InPhase
  <2>8. \E phase \in Phases, l \in CallType :
          ppc' = [ppc EXCEPT ![q] = phase] /\ call' = [call EXCEPT ![q] = l]
    BY <1>11, <2>1
  <2> QED
    BY <1>1, <1>4, <1>7, <1>9, <2>2, <2>5, <2>6, <2>7, <2>8
<1> QED
  BY <1>1, <1>10, <1>11

\* Publishing a word keeps the invariant.
LEMMA PublishWordMoves ==
  ASSUME MultiInv, NEW q \in Producers, PublishWord(q)
  PROVE  MultiInv'
<1>0. /\ TypeOK /\ WithinOneRound /\ ClaimsBounded /\ CallsInPhase /\ ClaimsDisjoint
      /\ BitsTellRounds /\ SlotsHoldEvents
  BY DEF MultiInv
<1>1. PICK word :
        /\ word \subseteq Pending(q)
        /\ \A s \in Pending(q) : slots[slot_index(s)] = s
        /\ bit' = [i \in SlotIndices |->
                    IF i \in {slot_index(s) : s \in word} THEN 1 - bit[i] ELSE bit[i]]
        /\ published' = published \cup word
        /\ Pending(q)' = Pending(q) \ word
        /\ Updated(q)' = Pending(q)'
        /\ ppc[q] \in {"update", "publish"} /\ ppc'[q] \in {"idle", "publish"}
        /\ \A r \in Producers \ {q} : ppc'[r] = ppc[r] /\ call'[r] = call[r]
        /\ InPhase(q)'
        /\ \E phase \in Phases, locals \in CallType :
             ppc' = [ppc EXCEPT ![q] = phase] /\ call' = [call EXCEPT ![q] = locals]
  BY PublishWordEffect
<1>2. UNCHANGED <<disruptorVars, walk, cursor, sequence_clear_of_consumers, endVars, holes>>
  BY DEF PublishWord
<1>3. /\ UNCHANGED <<slots, shutdown_at_sequence, counter, consumerVars, gateHigh>>
      /\ UNCHANGED <<pc, next, walk, cursor, sequence_clear_of_consumers>>
  BY <1>2 DEF disruptorVars, sharedVars, consumerVars
<1>4. PICK c \in Consumers : TRUE
  BY SomeConsumer
<1>5. \A s \in word : s \in 0 .. cursor
  <2>1. cursor \in Int
    BY <1>0, Types
  <2> QED
    BY <1>1, <1>4, <2>1, PendingWindow
<1>6. TypeOK'
  <2>1. DisruptorTypeOK'
    BY <1>0, <1>2 DEF TypeOK, DisruptorTypeOK, disruptorVars, sharedVars, consumerVars
  <2>2. /\ sequence_clear_of_consumers[q] \in Int
        /\ sequence_clear_of_consumers' = [sequence_clear_of_consumers EXCEPT
             ![q] = sequence_clear_of_consumers[q]]
    BY <1>0, <1>3 DEF TypeOK
  <2>3. bit' \in [SlotIndices -> {0, 1}]
    <3>1. \A i \in SlotIndices : bit[i] \in {0, 1} /\ 1 - bit[i] \in {0, 1}
      BY <1>0 DEF TypeOK
    <3> QED
      BY <1>1, <3>1
  <2>4. cursor' \in Sequences /\ published' \in SUBSET Sequences /\ holes' \in SUBSET Int
    <3>1. word \subseteq Sequences
      BY <1>0, <1>5, SequencesType DEF TypeOK, Sequences, NONE
    <3> QED
      BY <1>0, <1>1, <1>2, <1>3, <3>1 DEF TypeOK
  <2>5. PICK phase \in Phases, locals \in CallType :
             ppc' = [ppc EXCEPT ![q] = phase] /\ call' = [call EXCEPT ![q] = locals]
    BY <1>1
  <2> QED
    BY <1>0, <1>2, <2>1, <2>2, <2>3, <2>4, <2>5, HandleTypes
<1>7. \A r \in Producers \ {q} : Pending(r)' = Pending(r) /\ Updated(r)' = Updated(r)
  BY <1>1 DEF Pending, Updated, lower
<1>8. ConsumersFollow' /\ GatesBehindHigh' /\ ExactlyOnceInOrder' /\ GuardsAccountForAll'
  BY <1>1, <1>3, <1>6, ConsumersUnharmed
<1>9. WithinOneRound'
  BY <1>0, <1>3 DEF WithinOneRound
<1>10. CallsInPhase'
  <2>1. \A r \in Producers \ {q} : InPhase(r)'
    BY <1>0, <1>1, <1>3 DEF CallsInPhase, InPhase, lower
  <2> QED
    BY <1>1, <2>1 DEF CallsInPhase
<1>11. ClaimsDisjoint'
  <2>1. published' \subseteq 0 .. cursor'
    BY <1>0, <1>1, <1>3, <1>5 DEF ClaimsDisjoint
  <2>2. \A r \in Producers : Pending(r)' \subseteq Pending(r)
    BY <1>1, <1>7
  <2>3. \A r \in Producers : Pending(r)' \cap published' = {}
    BY <1>0, <1>1, <1>7 DEF ClaimsDisjoint
  <2>4. \A r \in Producers : \A p \in Producers \ {r} : Pending(r)' \cap Pending(p)' = {}
    BY <1>0, <2>2 DEF ClaimsDisjoint
  <2> QED
    BY <2>1, <2>3, <2>4 DEF ClaimsDisjoint
<1>12. BitsTellRounds'
  BY <1>1, FlippedBits
<1>13. SlotsHoldEvents'
  <2>1. \A s \in published' : s \in published \/ s \in word
    BY <1>1
  <2>2. \A d \in Consumers, s \in published' : counter[d] < s => slots[slot_index(s)] = s
    BY <1>0, <1>1, <2>1 DEF SlotsHoldEvents
  <2>3. ASSUME NEW s \in Updated(q)' PROVE slots[slot_index(s)] = s
    <3>1. s \in Pending(q)
      BY <1>1, <2>3
    <3> QED
      BY <1>1, <3>1
  <2> QED
    BY <1>0, <1>3, <1>7, <2>2, <2>3 DEF SlotsHoldEvents
<1>14. ClaimsBounded'
  <2>1. Unclaimed' \subseteq Unclaimed
    BY <1>1 DEF Unclaimed
  <2> QED
    BY <1>0, <1>3, <2>1, BoundStays
<1>15. HandlesCounted' /\ ShutdownAtCursor'
  BY <1>1, <1>2, <1>3, StaysInUse
<1> QED
  BY <1>6, <1>8, <1>9, <1>10, <1>11, <1>12, <1>13, <1>14, <1>15 DEF MultiInv
-----------------------------------------------------------------------------
(* Handles come and go.                                                    *)

\* Where a handle is when it is in no call.
OutsideCalls == {"unborn", "idle", "gone", "joining", "dropped", "panicked"}

\* What a handle that is in no call cannot harm.
LEMMA OutsideMoves ==
  ASSUME MultiInv, TypeOK', NEW q \in Producers,
         ppc[q] \in OutsideCalls, ppc'[q] \in OutsideCalls,
         \A r \in Producers \ {q} :
           /\ ppc'[r] = ppc[r]
           /\ sequence_clear_of_consumers'[r] = sequence_clear_of_consumers[r],
         sequence_clear_of_consumers'[q] \in {sequence_clear_of_consumers[q], 0},
         UNCHANGED <<slots, counter, consumerVars, gateHigh, walk, cursor, bit, call, published>>
  PROVE  /\ ConsumersFollow' /\ GatesBehindHigh' /\ WithinOneRound' /\ CallsInPhase'
         /\ ClaimsDisjoint' /\ BitsTellRounds' /\ SlotsHoldEvents' /\ ClaimsBounded'
         /\ ExactlyOnceInOrder' /\ GuardsAccountForAll'
<1>0. /\ TypeOK /\ ConsumersFollow /\ WithinOneRound /\ ClaimsBounded /\ CallsInPhase
      /\ ClaimsDisjoint /\ BitsTellRounds /\ SlotsHoldEvents
  BY DEF MultiInv
<1>1. ConsumersFollow' /\ GatesBehindHigh' /\ ExactlyOnceInOrder' /\ GuardsAccountForAll'
  BY ConsumersUnharmed
<1>2. WithinOneRound'
  <2> SUFFICES ASSUME NEW c \in Consumers, NEW r \in Producers
               PROVE  sequence_clear_of_consumers'[r] <= counter[c] + Capacity
    BY <1>0 DEF WithinOneRound
  <2>1. NONE <= counter[c] /\ counter[c] \in Int /\ Capacity \in Nat /\ Capacity >= 1
    BY <1>0, Types DEF ConsumersFollow, Follows
  <2>2. 0 <= counter[c] + Capacity
    BY <2>1 DEF NONE
  <2>3. sequence_clear_of_consumers[r] <= counter[c] + Capacity
    BY <1>0 DEF WithinOneRound
  <2> QED
    BY <2>2, <2>3
<1>3. CallsInPhase'
  <2>1. InPhase(q)'
    BY DEF InPhase, OutsideCalls
  <2>2. \A r \in Producers \ {q} : InPhase(r)'
    BY <1>0 DEF CallsInPhase, InPhase, lower
  <2> QED
    BY <2>1, <2>2 DEF CallsInPhase
<1>4. \A r \in Producers : Pending(r)' = Pending(r) /\ Updated(r)' = Updated(r)
  BY DEF Pending, Updated, lower, OutsideCalls
<1>5. ClaimsDisjoint' /\ BitsTellRounds' /\ SlotsHoldEvents'
  BY <1>0, <1>4 DEF ClaimsDisjoint, BitsTellRounds, SlotsHoldEvents
<1>6. ClaimsBounded'
  <2>1. Unclaimed' = Unclaimed
    BY DEF Unclaimed, OutsideCalls
  <2> QED
    BY <1>0, <2>1 DEF ClaimsBounded
<1> QED
  BY <1>1, <1>2, <1>3, <1>5, <1>6

\* A handle is cloned: one more can be used, and none was missing.
LEMMA CloneMoves ==
  ASSUME MultiInv, NEW q \in Producers, NEW r \in Producers, Clone(q, r)
  PROVE  MultiInv'
<1>0. TypeOK /\ HandlesCounted /\ ShutdownAtCursor
  BY DEF MultiInv
<1>1. /\ ppc[q] = "idle" /\ ppc[r] = "unborn"
      /\ ppc' = [ppc EXCEPT ![r] = "idle"] /\ ref_count' = ref_count + 1
      /\ sequence_clear_of_consumers' = [sequence_clear_of_consumers EXCEPT ![r] = 0]
      /\ UNCHANGED <<disruptorVars, walk, cursor, bit, call, joined, published, holes>>
  BY DEF Clone
<1>2. /\ ppc'[r] = "idle" /\ sequence_clear_of_consumers'[r] = 0
      /\ \A p \in Producers \ {r} :
           /\ ppc'[p] = ppc[p]
           /\ sequence_clear_of_consumers'[p] = sequence_clear_of_consumers[p]
  BY <1>0, <1>1 DEF TypeOK
<1>3. /\ UNCHANGED <<slots, shutdown_at_sequence, counter, consumerVars, gateHigh, pc, next>>
      /\ UNCHANGED <<walk, cursor, bit, call, joined, published, holes>>
  BY <1>1 DEF disruptorVars, sharedVars, consumerVars
<1>4. HandlesCounted' /\ ref_count' \in 0 .. Cardinality(Producers)
  <2>1. IsFiniteSet(Alive) /\ IsFiniteSet(Producers)
    BY FS_Subset, MultiProducerAssumption DEF Alive
  <2>2. Alive' = Alive \cup {r} /\ r \notin Alive
    BY <1>1, <1>2 DEF Alive
  <2>3. Cardinality(Alive') = Cardinality(Alive) + 1 /\ Cardinality(Alive) \in Nat
    BY <2>1, <2>2, FS_AddElement, FS_CardinalityType
  <2>4. Cardinality(Alive') <= Cardinality(Producers)
    <3>1. Alive' \in SUBSET Producers
      BY DEF Alive
    <3> QED
      BY <2>1, <3>1, FS_Subset
  <2>5. HandlesCounted' <=> ref_count' = Cardinality(Alive')
    BY DEF HandlesCounted
  <2> QED
    BY <1>0, <1>1, <2>3, <2>4, <2>5, SequencesType DEF HandlesCounted
<1>5. TypeOK'
  <2>1. DisruptorTypeOK'
    BY <1>0, <1>1 DEF TypeOK, DisruptorTypeOK, disruptorVars, sharedVars, consumerVars
  <2> QED
    BY <1>0, <1>1, <1>4, <2>1 DEF TypeOK
<1>6. /\ ConsumersFollow' /\ GatesBehindHigh' /\ WithinOneRound' /\ CallsInPhase'
      /\ ClaimsDisjoint' /\ BitsTellRounds' /\ SlotsHoldEvents' /\ ClaimsBounded'
      /\ ExactlyOnceInOrder' /\ GuardsAccountForAll'
  BY <1>1, <1>2, <1>3, <1>5, OutsideMoves DEF OutsideCalls
<1>7. ShutdownAtCursor'
  <2>1. /\ \A p \in Producers : ~Ended(p)
        /\ shutdown_at_sequence = NONE /\ joined = {}
        /\ \A c \in Consumers : pc[c] # "stopped"
    BY <1>1, NobodyEnded
  <2>2. \A p \in Producers : ppc'[p] \notin {"joining", "dropped", "panicked"}
    BY <1>2, <2>1 DEF Ended
  <2>3. \A p \in Producers : ~Ended(p)'
    BY <2>2 DEF Ended
  <2> QED
    BY <1>3, <2>1, <2>2, <2>3 DEF ShutdownAtCursor
<1> QED
  BY <1>4, <1>5, <1>6, <1>7 DEF MultiInv

\* A handle is dropped.  The reference count tells the last one, which is alone:
\* all others are gone or were never born.
LEMMA DropHandleMoves ==
  ASSUME MultiInv, NEW q \in Producers, DropHandle(q)
  PROVE  MultiInv'
<1>0. TypeOK /\ HandlesCounted /\ ShutdownAtCursor
  BY DEF MultiInv
<1>1. /\ ppc[q] = "idle" /\ ref_count' = ref_count - 1
      /\ UNCHANGED <<slots, counter, consumerVars, gateHigh, walk, cursor, bit, call,
                     sequence_clear_of_consumers, joined, published, holes>>
      /\ \/ /\ ref_count = 1
            /\ shutdown_at_sequence' = cursor + 1
            /\ ppc' = [ppc EXCEPT ![q] = IF Managed = {} THEN "dropped" ELSE "joining"]
         \/ /\ ref_count # 1
            /\ ppc' = [ppc EXCEPT ![q] = "gone"]
            /\ UNCHANGED shutdown_at_sequence
  BY DEF DropHandle, IsLast, FinalSequence
<1>2. /\ ppc'[q] \in {"gone", "joining", "dropped"}
      /\ \A r \in Producers \ {q} : ppc'[r] = ppc[r]
      /\ ppc' \in [Producers -> Phases]
      /\ ppc'[q] = "gone" <=> ref_count # 1
      /\ ppc'[q] = "dropped" => Managed = {}
  BY <1>0, <1>1 DEF TypeOK, Phases
<1>3. UNCHANGED <<pc, next, consumerVars>>
  BY <1>1 DEF consumerVars
<1>4. /\ HandlesCounted' /\ ref_count' \in 0 .. Cardinality(Producers)
      /\ ref_count = 1 => Alive = {q}
  <2>1. IsFiniteSet(Alive)
    BY FS_Subset, MultiProducerAssumption DEF Alive
  <2>2. Alive' = Alive \ {q} /\ q \in Alive
    BY <1>1, <1>2 DEF Alive
  <2>3. /\ IsFiniteSet(Alive')
        /\ Cardinality(Alive') = Cardinality(Alive) - 1
    BY <2>1, <2>2, FS_RemoveElement
  <2>4. Cardinality(Alive') \in Nat
    BY <2>3, FS_CardinalityType
  <2>5. HandlesCounted' <=> ref_count' = Cardinality(Alive')
    BY DEF HandlesCounted
  <2>6. ref_count = Cardinality(Alive) /\ ref_count \in 0 .. Cardinality(Producers)
    BY <1>0 DEF HandlesCounted, TypeOK
  <2>7. ASSUME ref_count = 1 PROVE Alive = {q}
    <3>1. PICK x : Alive = {x}
      BY <2>1, <2>6, <2>7, FS_Singleton
    <3> QED
      BY <2>2, <3>1
  <2> QED
    BY <1>1, <2>3, <2>4, <2>5, <2>6, <2>7, SequencesType
<1>5. TypeOK'
  <2>1. shutdown_at_sequence' \in Int
    <3>1. cursor \in Int
      BY <1>0, Types
    <3> QED
      BY <1>0, <1>1, <3>1 DEF TypeOK, DisruptorTypeOK
  <2>2. DisruptorTypeOK'
    BY <1>0, <1>1, <2>1 DEF TypeOK, DisruptorTypeOK, consumerVars
  <2> QED
    BY <1>0, <1>1, <1>2, <1>4, <2>2 DEF TypeOK, Phases
<1>6. /\ ConsumersFollow' /\ GatesBehindHigh' /\ WithinOneRound' /\ CallsInPhase'
      /\ ClaimsDisjoint' /\ BitsTellRounds' /\ SlotsHoldEvents' /\ ClaimsBounded'
      /\ ExactlyOnceInOrder' /\ GuardsAccountForAll'
  BY <1>1, <1>2, <1>5, OutsideMoves DEF OutsideCalls
<1>7. ShutdownAtCursor'
  <2>1. /\ \A p \in Producers : ~Ended(p)
        /\ shutdown_at_sequence = NONE /\ joined = {}
        /\ \A c \in Consumers : pc[c] # "stopped"
    BY <1>1, NobodyEnded
  <2>2. CASE ref_count = 1
    <3>1. \A r \in Producers \ {q} : ppc'[r] \in {"unborn", "gone"}
      <4>1. ASSUME NEW r \in Producers \ {q} PROVE ppc[r] \in {"unborn", "gone"}
        <5>1. r \notin Alive /\ ~Ended(r)
          BY <1>4, <2>1, <2>2
        <5> QED
          BY <1>0, <5>1 DEF TypeOK, Alive, Ended
      <4> QED
        BY <1>2, <4>1
    <3>2. ppc'[q] \in {"joining", "dropped"}
      BY <1>2, <2>2
    <3>3. Ended(q)' /\ \A r \in Producers \ {q} : ~Ended(r)'
      BY <3>1, <3>2 DEF Ended
    <3>4. shutdown_at_sequence' = cursor' + 1
      BY <1>1, <2>2
    <3>5. \A r \in Producers \ {q} : ppc'[r] \notin {"joining", "dropped"}
      BY <3>1
    <3> QED
      BY <1>1, <1>2, <1>3, <2>1, <3>1, <3>2, <3>3, <3>4, <3>5 DEF ShutdownAtCursor
  <2>3. CASE ref_count # 1
    <3>1. \A r \in Producers : ppc'[r] \notin {"joining", "dropped", "panicked"}
      BY <1>2, <2>1, <2>3 DEF Ended
    <3>2. \A r \in Producers : ~Ended(r)'
      BY <3>1 DEF Ended
    <3> QED
      BY <1>1, <1>3, <2>1, <2>3, <3>1, <3>2 DEF ShutdownAtCursor
  <2> QED
    BY <2>2, <2>3
<1> QED
  BY <1>4, <1>5, <1>6, <1>7 DEF MultiInv

\* The last handle joins a consumer that has ended.
LEMMA JoinConsumerMoves ==
  ASSUME MultiInv, NEW q \in Producers, NEW c \in Managed, JoinConsumer(q, c)
  PROVE  MultiInv'
<1>0. TypeOK /\ HandlesCounted /\ ShutdownAtCursor
  BY DEF MultiInv
<1>1. /\ ppc[q] = "joining" /\ pc[c] \in {"stopped", "panicked"}
      /\ joined' = joined \cup {c}
      /\ ppc' = [ppc EXCEPT ![q] = IF pc[c] = "panicked" THEN "panicked"
                                   ELSE IF joined' = Managed THEN "dropped" ELSE "joining"]
      /\ UNCHANGED <<disruptorVars, walk, cursor, bit, call, sequence_clear_of_consumers,
                     ref_count, published, holes>>
  BY DEF JoinConsumer
<1>2. /\ ppc'[q] \in {"joining", "dropped", "panicked"}
      /\ ppc'[q] \in {"joining", "dropped"} => pc[c] = "stopped"
      /\ ppc'[q] = "dropped" => joined' = Managed
      /\ \A r \in Producers \ {q} : ppc'[r] = ppc[r]
      /\ ppc' \in [Producers -> Phases]
  BY <1>0, <1>1 DEF TypeOK, Phases
<1>3. /\ UNCHANGED <<slots, shutdown_at_sequence, counter, consumerVars, gateHigh, pc, next>>
      /\ UNCHANGED <<walk, cursor, bit, call, sequence_clear_of_consumers, ref_count, published, holes>>
  BY <1>1 DEF disruptorVars, sharedVars, consumerVars
<1>4. TypeOK'
  <2>1. DisruptorTypeOK'
    BY <1>0, <1>1 DEF TypeOK, DisruptorTypeOK, disruptorVars, sharedVars, consumerVars
  <2> QED
    BY <1>0, <1>1, <1>2, <2>1 DEF TypeOK, Phases
<1>5. /\ ConsumersFollow' /\ GatesBehindHigh' /\ WithinOneRound' /\ CallsInPhase'
      /\ ClaimsDisjoint' /\ BitsTellRounds' /\ SlotsHoldEvents' /\ ClaimsBounded'
      /\ ExactlyOnceInOrder' /\ GuardsAccountForAll'
  BY <1>1, <1>2, <1>3, <1>4, OutsideMoves DEF OutsideCalls
<1>6. HandlesCounted'
  <2>1. Alive' = Alive
    BY <1>1, <1>2 DEF Alive
  <2> QED
    BY <1>0, <1>3, <2>1 DEF HandlesCounted
<1>7. ShutdownAtCursor'
  <2>1. Ended(q) /\ Ended(q)'
    BY <1>1, <1>2 DEF Ended
  <2>2. \A r \in Producers \ {q} : ppc[r] \in {"unborn", "gone"}
    BY <1>0, <2>1 DEF ShutdownAtCursor
  <2>3. \A r \in Producers \ {q} : ppc'[r] \in {"unborn", "gone"} /\ ~Ended(r)'
    BY <1>2, <2>2 DEF Ended
  <2>4. shutdown_at_sequence = cursor + 1
    BY <1>0, <2>1 DEF ShutdownAtCursor
  <2>5. /\ \A d \in Consumers : pc[d] = "stopped" => next[d] = cursor + 1
        /\ \A d \in joined : pc[d] = "stopped"
    BY <1>0, <1>1 DEF ShutdownAtCursor
  <2>6. ppc'[q] \in {"joining", "dropped"} => \A d \in joined' : pc[d] = "stopped"
    BY <1>1, <1>2, <2>5
  <2>7. \A r \in Producers \ {q} : ppc'[r] \notin {"joining", "dropped"}
    BY <2>3
  <2> QED
    BY <1>2, <1>3, <2>1, <2>3, <2>4, <2>5, <2>6, <2>7 DEF ShutdownAtCursor
<1> QED
  BY <1>4, <1>5, <1>6, <1>7 DEF MultiInv
-----------------------------------------------------------------------------
(* The invariant holds.                                                    *)

LEMMA InitMultiInv == Init => MultiInv
<1> SUFFICES ASSUME Init PROVE MultiInv
  OBVIOUS
<1> USE CapacityAssumption, Topology DEF Init, DisruptorInit, NONE
<1>1. Original \in Producers /\ IsFiniteSet(Producers)
  BY MultiProducerAssumption
<1>2. Alive = {Original} /\ Cardinality(Alive) = 1 /\ 1 <= Cardinality(Producers)
  <2>1. Alive = {Original}
    BY <1>1 DEF Alive
  <2>2. Cardinality({Original}) = 1
    BY FS_Singleton
  <2>3. Alive \in SUBSET Producers
    BY DEF Alive
  <2>4. Cardinality(Alive) <= Cardinality(Producers)
    BY <1>1, <2>3, FS_Subset
  <2> QED
    BY <2>1, <2>2, <2>4
<1>3. TypeOK
  <2>1. DisruptorTypeOK
    BY DEF DisruptorTypeOK, SlotIndices
  <2>2. NONE \in Sequences
    BY SequencesType DEF Sequences
  <2>3. call \in [Producers -> CallType]
    BY NoCallType
  <2>4. ref_count \in 0 .. Cardinality(Producers)
    BY <1>2, SequencesType
  <2>5. ppc \in [Producers -> Phases]
    BY DEF Phases
  <2> QED
    BY <2>1, <2>2, <2>3, <2>4, <2>5 DEF TypeOK, CallType, Phases
<1>4. ConsumersFollow
  <2> SUFFICES ASSUME NEW c \in Consumers PROVE Follows(c)
    BY DEF ConsumersFollow
  <2>1. Ready(NONE)
    BY DEF Ready
  <2>2. MayPass(c, NONE)
    BY <2>1 DEF MayPass
  <2> QED
    BY <2>2 DEF Follows
<1>5. GatesBehindHigh
  BY DEF GatesBehindHigh
<1>6. WithinOneRound
  BY DEF WithinOneRound
<1>7. CallsInPhase
  BY DEF CallsInPhase, InPhase
<1>8. \A q \in Producers : Pending(q) = {} /\ Updated(q) = {}
  BY DEF Pending, Updated
<1>9. ClaimsDisjoint
  BY <1>8 DEF ClaimsDisjoint
<1>10. BitsTellRounds
  BY DEF BitsTellRounds
<1>11. SlotsHoldEvents
  BY <1>8 DEF SlotsHoldEvents
<1>12. ClaimsBounded
  <2>1. Cardinality(Producers \ Unclaimed) \in Nat
    BY <1>1, FS_Subset, FS_CardinalityType
  <2>2. MaxBatch * Cardinality(Producers \ Unclaimed) \in Nat
    BY <2>1, SequencesType
  <2> QED
    BY <2>2, SequencesType DEF ClaimsBounded
<1>13. HandlesCounted
  BY <1>2 DEF HandlesCounted
<1>14. ShutdownAtCursor
  BY DEF ShutdownAtCursor, Ended
<1>15. ExactlyOnceInOrder
  <2> SUFFICES ASSUME NEW c \in Managed PROVE seen[c] = [i \in 1 .. next[c] |-> i - 1]
    BY DEF ExactlyOnceInOrder
  <2>1. seen[c] = <<>> /\ next[c] = 0
    OBVIOUS
  <2>2. <<>> = [i \in 1 .. 0 |-> i - 1]
    OBVIOUS
  <2> QED
    BY <2>1, <2>2
<1>16. GuardsAccountForAll
  BY InitAccounts
<1> QED
  BY <1>3, <1>4, <1>5, <1>6, <1>7, <1>9, <1>10, <1>11, <1>12, <1>13, <1>14, <1>15, <1>16
     DEF MultiInv

\* Nothing happens.
LEMMA StutteringMoves == ASSUME MultiInv, UNCHANGED vars PROVE MultiInv'
<1>0. TypeOK
  BY DEF MultiInv
<1>1. /\ UNCHANGED <<disruptorVars, walk, producerVars>>
      /\ UNCHANGED <<slots, shutdown_at_sequence, counter, consumerVars, gateHigh>>
      /\ UNCHANGED <<pc, next, published>>
  BY DEF vars, disruptorVars, sharedVars, consumerVars, producerVars
<1>2. TypeOK'
  BY <1>0, <1>1
     DEF TypeOK, DisruptorTypeOK, disruptorVars, sharedVars, consumerVars, producerVars, endVars
<1>3. ConsumersFollow' /\ GatesBehindHigh' /\ ExactlyOnceInOrder' /\ GuardsAccountForAll'
  BY <1>1, <1>2, ConsumersUnharmed
<1>4. \A d \in Consumers : counter[d] <= counter'[d]
  BY <1>0, <1>1, Types
<1>5. /\ WithinOneRound' /\ CallsInPhase' /\ ClaimsDisjoint' /\ BitsTellRounds'
      /\ SlotsHoldEvents' /\ ClaimsBounded' /\ HandlesCounted'
  BY <1>1, <1>2, <1>4, HandlesUnharmed
<1>6. ShutdownAtCursor'
  BY <1>1 DEF MultiInv, ShutdownAtCursor, Ended, producerVars, endVars
<1> QED
  BY <1>2, <1>3, <1>5, <1>6 DEF MultiInv

\* A load of a barrier, whichever kind of cell it loads.
LEMMA LoadBarrierMoves ==
  ASSUME MultiInv, NEW c \in Consumers, LoadBarrier(c), UNCHANGED producerVars
  PROVE  MultiInv'
<1>1. CASE LoadWord(c)
  BY <1>1, LoadWordMoves
<1>2. ASSUME NEW x \in todo[c] \ {ProducerBarrier}, LoadCell(c, x, counter[x]), UNCHANGED walk
      PROVE  MultiInv'
  <2>1. TypeOK /\ Follows(c) /\ GatesBehindHigh
    BY DEF MultiInv, ConsumersFollow
  <2>2. x \in Consumers \cup Gates
    <3>1. todo[c] \subseteq Barrier(Stage[c])
      BY <1>2, <2>1 DEF LoadCell, Follows
    <3> QED
      BY <3>1, Topology
  <2>3. counter[x] \in Int
    BY <2>1, <2>2 DEF TypeOK, DisruptorTypeOK
  <2>4. Covers(x, counter[x])
    BY <2>1, <2>2, <2>3, Topology DEF Covers, GatesBehindHigh
  <2>5. walk' = walk
    BY <1>2
  <2> QED
    BY <1>2, <2>3, <2>4, <2>5, LoadCellMoves
<1> QED
  BY <1>1, <1>2 DEF LoadBarrier

\* The steps of a call that is under way.
LEMMA HandleStepMoves ==
  ASSUME MultiInv, NEW q \in Producers, HandleStep(q)
  PROVE  MultiInv'
<1>0. TypeOK /\ InPhase(q)
  BY DEF MultiInv, CallsInPhase
<1>1. call[q] \in CallType
  BY <1>0 DEF TypeOK, CallType
<1>2. ppc[q] \in {"retry", "cas"} => call[q].filled = 0 /\ call[q].flipped = 0
  BY <1>0 DEF InPhase
<1>3. CASE RetryPublish(q)
  BY <1>1, <1>2, <1>3, AttemptMoves DEF RetryPublish
<1>4. ASSUME NEW c \in ConsumerBarrier, LoadConsumerCursor(q, c) PROVE MultiInv'
  BY <1>4, LoadConsumerCursorMoves
<1>5. CASE CompareExchange(q)
  <2>1. CASE cursor = call[q].current
    BY <1>5, <2>1, ClaimMoves
  <2>2. CASE cursor # call[q].current
    <3>1. /\ ppc[q] = "cas" /\ Attempt(q, call[q], cursor)
          /\ UNCHANGED <<disruptorVars, walk, cursor, bit, sequence_clear_of_consumers,
                         endVars, published, holes>>
      BY <1>5, <2>2 DEF CompareExchange
    <3> QED
      BY <1>1, <1>2, <3>1, AttemptMoves
  <2> QED
    BY <2>1, <2>2
<1>6. CASE UpdateEvent(q)
  BY <1>6, UpdateEventMoves
<1>7. CASE PublishWord(q)
  BY <1>7, PublishWordMoves
<1>8. ASSUME NEW c \in Managed, JoinConsumer(q, c) PROVE MultiInv'
  BY <1>8, JoinConsumerMoves
<1> QED
  BY <1>3, <1>4, <1>5, <1>6, <1>7, <1>8 DEF HandleStep

\* Every step keeps the invariant.
LEMMA NextMultiInv == MultiInv /\ [Next]_vars => MultiInv'
<1> SUFFICES ASSUME MultiInv, [Next]_vars PROVE MultiInv'
  OBVIOUS
<1>1. ASSUME NEW q \in Producers, NEW n \in 0 .. MaxBatch, NEW spin \in BOOLEAN,
             BeginPublish(q, n, spin)
      PROVE  MultiInv'
  <2> DEFINE locals == [NoCall EXCEPT !.n = n, !.spin = spin]
  <2>1. locals \in CallType /\ locals.filled = 0 /\ locals.flipped = 0 /\ locals.n = n
    BY NoCallType DEF CallType, NoCall
  <2>2. /\ ppc[q] = "idle" /\ cursor + n < MaxSequence /\ Attempt(q, locals, cursor)
        /\ UNCHANGED <<disruptorVars, walk, cursor, bit, sequence_clear_of_consumers, endVars,
                       published, holes>>
    BY <1>1 DEF BeginPublish
  <2> HIDE DEF locals
  <2> QED
    BY <2>1, <2>2, AttemptMoves
<1>2. ASSUME NEW q \in Producers, HandleStep(q) PROVE MultiInv'
  BY <1>2, HandleStepMoves
<1>3. ASSUME NEW q \in Producers, UpdatePanics(q) PROVE MultiInv'
  BY <1>3, UpdatePanicsMoves
<1>4. ASSUME NEW q \in Producers, NEW r \in Producers, Clone(q, r) PROVE MultiInv'
  BY <1>4, CloneMoves
<1>5. ASSUME NEW q \in Producers, DropHandle(q) PROVE MultiInv'
  BY <1>5, DropHandleMoves
<1>6. ASSUME NEW c \in Consumers, ConsumerStep(c) PROVE MultiInv'
  <2>1. CASE LoadBarrier(c)
    BY <1>6, <2>1, LoadBarrierMoves DEF ConsumerStep
  <2>2. CASE CheckShutdown(c) /\ UNCHANGED walk
    BY <1>6, <2>2, StayingMoves DEF ConsumerStep
  <2>3. CASE ReadEvent(c) /\ UNCHANGED walk
    BY <1>6, <2>3, ReadEventMoves DEF ConsumerStep
  <2>4. CASE SignalDone(c) /\ UNCHANGED walk
    BY <1>6, <2>4, GivingBackMoves DEF ConsumerStep
  <2> QED
    BY <1>6, <2>1, <2>2, <2>3, <2>4 DEF ConsumerStep
<1>7. ASSUME ClientStep PROVE MultiInv'
  <2>0. UNCHANGED <<walk, producerVars>>
    BY <1>7 DEF ClientStep
  <2>1. ASSUME NEW c \in Faulty, HandlerPanics(c) PROVE MultiInv'
    <3>1. c \in Consumers
      BY TopologyAssumption, Topology
    <3> QED
      BY <2>0, <2>1, <3>1, StayingMoves
  <2>2. ASSUME NEW p \in Pollers, NEW l \in Limits \cup {NoLimit}, PollTake(p, l)
        PROVE  MultiInv'
    BY <2>0, <2>2, StayingMoves, Topology
  <2>3. ASSUME NEW p \in Pollers, PollWait(p) PROVE MultiInv'
    BY <2>0, <2>3, StayingMoves, Topology
  <2>4. ASSUME NEW p \in Pollers, DropGuard(p) PROVE MultiInv'
    BY <2>0, <2>4, GivingBackMoves, Topology
  <2>5. ASSUME NEW g \in Gates, NEW v \in GateValues, SetGate(g, v) PROVE MultiInv'
    BY <2>0, <2>5, SetGateMoves
  <2> QED
    BY <1>7, <2>1, <2>2, <2>3, <2>4, <2>5 DEF ClientStep
<1>8. ASSUME Terminated \/ UNCHANGED vars PROVE MultiInv'
  BY <1>8, StutteringMoves DEF Terminated
<1> QED
  BY <1>1, <1>2, <1>3, <1>4, <1>5, <1>6, <1>7, <1>8 DEF Next
-----------------------------------------------------------------------------
(* The theorems.                                                           *)

\* The inductive invariant: however many handles compete for sequences,
\* publish out of order, unwind, are cloned and dropped, nothing is claimed
\* twice, nobody is a round ahead of a consumer, the bits tell the rounds of the
\* slots, and consumers stop behind the last claim.
THEOREM MultiProducerInductive == Spec => []MultiInv
<1>1. Init => MultiInv
  BY InitMultiInv
<1>2. MultiInv /\ [Next]_vars => MultiInv'
  BY NextMultiInv
<1> QED
  BY <1>1, <1>2, PTL DEF Spec

\* Every variable keeps its type; the cursor stays below the bound that the
\* handles before their claim leave it.
THEOREM MultiProducerTypeOK == Spec => []TypeOK
<1>1. MultiInv => TypeOK
  BY DEF MultiInv
<1> QED
  BY <1>1, MultiProducerInductive, PTL

\* Every handler is called for every event, once, in order, with the event that
\* was published under that sequence, whichever handle published it.
THEOREM MultiProducerExactlyOnce == Spec => []ExactlyOnceInOrder
<1>1. MultiInv => ExactlyOnceInOrder
  BY DEF MultiInv
<1> QED
  BY <1>1, MultiProducerInductive, PTL

\* What a handler or an event guard may read is published.
LEMMA ReadingPublished ==
  ASSUME MultiInv, NEW c \in Consumers, NEW r \in Reading(c)
  PROVE  r \in published /\ r \in Int /\ counter[c] < r
<1>1. TypeOK /\ Follows(c)
  BY DEF MultiInv, ConsumersFollow
<1>2. counter[c] \in Int /\ next[c] \in Nat /\ available[c] \in Int
  BY <1>1, Types
<1>3. pc[c] = "read" /\ (r \in next[c] .. available[c] \/ r \in counter[c] + 1 .. available[c])
  BY DEF Reading
<1>4. NONE <= counter[c] /\ counter[c] <= next[c] - 1 /\ Ready(available[c])
  BY <1>1, <1>3 DEF Follows, MayPass
<1> QED
  BY <1>2, <1>3, <1>4 DEF Ready, NONE

\* A guard holds no more than its limit, whoever else moves.
LEMMA GuardsWithinLimitAlways == Spec => []GuardsWithinLimit
<1>1. Init => GuardsWithinLimit
  BY Topology DEF Init, DisruptorInit, GuardsWithinLimit
<1>2. ASSUME MultiInv, GuardsWithinLimit, [Next]_vars PROVE GuardsWithinLimit'
  <2>0. /\ DisruptorTypeOK /\ TypeOK /\ Faulty \subseteq Consumers /\ Pollers \subseteq Consumers
        /\ \A c \in Consumers : pc[c] = "poll" => counter[c] = next[c] - 1
    BY <1>2, TopologyAssumption DEF MultiInv, TypeOK, ConsumersFollow, Follows, Consumers
  <2>1. ASSUME \A p \in Pollers : counter'[p] = counter[p], UNCHANGED consumerVars
        PROVE  GuardsWithinLimit'
    BY <1>2, <2>1 DEF consumerVars, GuardsWithinLimit
  <2>2. CASE \/ \E q \in Producers, n \in 0 .. MaxBatch, spin \in BOOLEAN : BeginPublish(q, n, spin)
             \/ \E q \in Producers : HandleStep(q)
             \/ \E q \in Producers : UpdatePanics(q)
             \/ \E q, r \in Producers : Clone(q, r)
             \/ \E q \in Producers : DropHandle(q)
    <3>1. ASSUME NEW q \in Producers, NEW n \in 0 .. MaxBatch, NEW spin \in BOOLEAN,
                 BeginPublish(q, n, spin)
          PROVE  UNCHANGED <<counter, consumerVars>>
      BY <3>1 DEF BeginPublish, disruptorVars
    <3>2. ASSUME NEW q \in Producers, HandleStep(q) PROVE UNCHANGED <<counter, consumerVars>>
      <4>1. CASE RetryPublish(q)
        BY <4>1 DEF RetryPublish, disruptorVars
      <4>2. ASSUME NEW c \in ConsumerBarrier, LoadConsumerCursor(q, c)
            PROVE  UNCHANGED <<counter, consumerVars>>
        BY <4>2 DEF LoadConsumerCursor, disruptorVars
      <4>3. CASE CompareExchange(q)
        BY <4>3 DEF CompareExchange, disruptorVars
      <4>4. CASE UpdateEvent(q)
        BY <4>4 DEF UpdateEvent
      <4>5. CASE PublishWord(q)
        BY <4>5 DEF PublishWord, disruptorVars
      <4>6. ASSUME NEW c \in Managed, JoinConsumer(q, c)
            PROVE  UNCHANGED <<counter, consumerVars>>
        BY <4>6 DEF JoinConsumer, disruptorVars
      <4> QED
        BY <3>2, <4>1, <4>2, <4>3, <4>4, <4>5, <4>6 DEF HandleStep
    <3>3. ASSUME NEW q \in Producers, UpdatePanics(q) PROVE UNCHANGED <<counter, consumerVars>>
      BY <3>3 DEF UpdatePanics, disruptorVars
    <3>4. ASSUME NEW q \in Producers, NEW r \in Producers, Clone(q, r)
          PROVE  UNCHANGED <<counter, consumerVars>>
      BY <3>4 DEF Clone, disruptorVars
    <3>5. ASSUME NEW q \in Producers, DropHandle(q) PROVE UNCHANGED <<counter, consumerVars>>
      BY <3>5 DEF DropHandle
    <3>6. UNCHANGED <<counter, consumerVars>>
      BY <2>2, <3>1, <3>2, <3>3, <3>4, <3>5
    <3> QED
      BY <2>1, <3>6
  <2>3. ASSUME NEW c \in Consumers, ConsumerStep(c) PROVE GuardsWithinLimit'
    <3>1. CASE LoadWord(c)
      <4> DEFINE s == IF walk[c] = NONE THEN next[c] ELSE walk[c]
      <4>1. CASE UNCHANGED disruptorVars
        BY <2>1, <4>1 DEF disruptorVars
      <4>2. CASE Mismatches(s) # {} /\ LoadCell(c, ProducerBarrier, FirstMismatch(s) - 1)
        <5>1. s \in Nat
          BY <2>0, Types, SequencesType, <1>2 DEF TypeOK, NONE, MultiInv, ConsumersFollow, Follows
        <5>2. FirstMismatch(s) \in Int
          BY <4>2, <5>1, FirstMismatchType
        <5> QED
          BY <1>2, <2>0, <4>2, <5>2, KeepsWithinLimit
      <4> QED
        BY <3>1, <4>1, <4>2 DEF LoadWord
    <3>2. ASSUME NEW x \in todo[c] \ {ProducerBarrier}, LoadCell(c, x, counter[x])
          PROVE  GuardsWithinLimit'
      <4>1. counter[x] \in Int
        BY <2>0, <3>2 DEF DisruptorTypeOK
      <4> QED
        BY <1>2, <2>0, <3>2, <4>1, KeepsWithinLimit
    <3>3. CASE CheckShutdown(c) \/ ReadEvent(c) \/ SignalDone(c)
      BY <1>2, <2>0, <3>3, KeepsWithinLimit
    <3> QED
      BY <2>3, <3>1, <3>2, <3>3 DEF ConsumerStep, LoadBarrier
  <2>4. ASSUME NEW h \in Gates, NEW v \in GateValues, SetGate(h, v) PROVE GuardsWithinLimit'
    BY <2>0, <2>1, <2>4, Topology DEF SetGate, DisruptorTypeOK
  <2>5. CASE ClientStep
    <3>1. ASSUME NEW c \in Faulty, HandlerPanics(c) PROVE GuardsWithinLimit'
      BY <1>2, <2>0, <3>1, KeepsWithinLimit
    <3>2. ASSUME NEW p \in Pollers,
                 PollWait(p) \/ DropGuard(p) \/ \E l \in Limits \cup {NoLimit} : PollTake(p, l)
          PROVE  GuardsWithinLimit'
      BY <1>2, <2>0, <3>2, KeepsWithinLimit
    <3> QED
      BY <2>4, <2>5, <3>1, <3>2 DEF ClientStep
  <2>6. CASE UNCHANGED vars
    BY <2>1, <2>6 DEF vars, disruptorVars
  <2> QED
    BY <1>2, <2>2, <2>3, <2>5, <2>6 DEF Next, Terminated
<1> QED
  BY <1>1, <1>2, MultiProducerInductive, PTL DEF Spec

\* Event guards yield every event under its own sequence, in order and once,
\* except what a client gives up by dropping a guard early; they have no more
\* than they were asked for, and it stays in its slots while they exist.
THEOREM MultiProducerGuardsYield == Spec => []GuardsYieldInOrder
<1>1. MultiInv => GuardsAccountForAll /\ GuardsHoldEvents
  <2> SUFFICES ASSUME MultiInv, NEW p \in Pollers, NEW s \in Reading(p)
               PROVE  slots[slot_index(s)] = s
    BY DEF GuardsHoldEvents, MultiInv
  <2>1. p \in Consumers
    BY Topology
  <2>2. s \in published /\ counter[p] < s
    BY <2>1, ReadingPublished
  <2> QED
    BY <2>1, <2>2 DEF MultiInv, SlotsHoldEvents
<1>2. GuardsAccountForAll /\ GuardsHoldEvents /\ GuardsWithinLimit => GuardsYieldInOrder
  BY DEF GuardsYieldInOrder
<1> QED
  BY <1>1, <1>2, MultiProducerInductive, GuardsWithinLimitAlways, PTL

\* A walk over the bits never grants an event that is not yet published,
\* wherever other handles publish meanwhile.
THEOREM MultiProducerOnlyPublishedGranted == Spec => []OnlyPublishedGranted
<1>1. MultiInv => OnlyPublishedGranted
  BY ReadingPublished DEF OnlyPublishedGranted
<1> QED
  BY <1>1, MultiProducerInductive, PTL

\* Two sequences of the round in front of a consumer have different slots.
LEMMA SameRoundSlotsDiffer ==
  ASSUME MultiInv, NEW c \in Consumers, NEW r \in Int, NEW w \in Int, r # w,
         counter[c] < r, r <= counter[c] + Capacity,
         counter[c] < w, w <= counter[c] + Capacity
  PROVE  slot_index(r) # slot_index(w)
<1>1. counter[c] \in Int /\ Capacity \in Nat
  BY Types DEF MultiInv
<1>2. CASE r < w
  <2>1. w < r + Capacity
    BY <1>1
  <2> QED
    BY <1>2, <2>1, SlotsDiffer
<1>3. CASE w < r
  <2>1. r < w + Capacity
    BY <1>1
  <2> QED
    BY <1>3, <2>1, SlotsDiffer
<1> QED
  BY <1>2, <1>3

\* No slot is granted to an update closure while a handler may read it, an event
\* guard exists that was granted it, what the guard has yielded included, or a
\* closure of another handle may write it.
THEOREM MultiProducerNoDataRace == Spec => []NoDataRace
<1>1. MultiInv => NoDataRace
  <2> SUFFICES ASSUME MultiInv, NEW q \in Producers, NEW w \in Writing(q)
               PROVE  /\ \A c \in Consumers : \A r \in Reading(c) :
                           slot_index(r) # slot_index(w)
                      /\ \A p \in Producers \ {q} : \A v \in Writing(p) :
                           slot_index(v) # slot_index(w)
    BY DEF NoDataRace
  <2>1. ASSUME NEW p \in Producers, NEW v \in Writing(p) PROVE v \in Pending(p)
    <3>1. TypeOK /\ InPhase(p) /\ ppc[p] = "update"
      BY DEF MultiInv, CallsInPhase, Writing
    <3>2. call[p].flipped = 0 /\ lower(p) \in Int
      BY <3>1, Types DEF InPhase
    <3> QED
      BY <3>1, <3>2 DEF Writing, Pending
  <2>2. w \in Pending(q)
    BY <2>1
  <2>3. ASSUME NEW c \in Consumers, NEW r \in Reading(c)
        PROVE  slot_index(r) # slot_index(w)
    <3>1. r \in published /\ r \in Int /\ counter[c] < r /\ r <= counter[c] + Capacity
      BY ReadingPublished, PublishedWindow
    <3>2. /\ w \in Int /\ w \notin published /\ counter[c] < w
          /\ w <= counter[c] + Capacity
      BY <2>2, PendingWindow
    <3> QED
      BY <3>1, <3>2, SameRoundSlotsDiffer
  <2>4. ASSUME NEW p \in Producers \ {q}, NEW v \in Writing(p)
        PROVE  slot_index(v) # slot_index(w)
    <3>1. PICK c \in Consumers : TRUE
      BY SomeConsumer
    <3>2. v \in Pending(p)
      BY <2>1
    <3>3. /\ v \in Int /\ counter[c] < v /\ v <= counter[c] + Capacity
          /\ w \in Int /\ counter[c] < w /\ w <= counter[c] + Capacity
      BY <2>2, <3>2, PendingWindow
    <3>4. v # w
      BY <2>2, <3>2 DEF MultiInv, ClaimsDisjoint
    <3> QED
      BY <3>3, <3>4, SameRoundSlotsDiffer
  <2> QED
    BY <2>3, <2>4
<1> QED
  BY <1>1, MultiProducerInductive, PTL

\* In the round in front of the slowest consumer, one bit per slot tells
\* exactly what is published.
THEOREM MultiProducerParity == Spec => []ParityTellsPublished
<1>1. MultiInv => ParityTellsPublished
  <2> SUFFICES ASSUME MultiInv, NEW c \in ConsumerBarrier,
                      NEW s \in counter[c] + 1 .. counter[c] + Capacity
               PROVE  IsPublished(s) <=> s \in published
    BY DEF ParityTellsPublished
  <2>1. /\ c \in Consumers /\ TypeOK /\ BitsTellRounds /\ Ready(counter[c])
        /\ NONE <= counter[c]
    BY ConsumerBarrierType DEF MultiInv, ConsumersFollow, Follows, MayPass
  <2>2. counter[c] \in Int /\ Capacity \in Nat /\ Capacity >= 1
    BY <2>1, Types
  <2>3. s \in Nat /\ s <= counter[c] + Capacity /\ counter[c] < s
    BY <2>1, <2>2 DEF NONE
  <2>4. ASSUME s \in published PROVE IsPublished(s)
    <3>1. s + Capacity \notin published
      <4> SUFFICES ASSUME s + Capacity \in published PROVE FALSE
        OBVIOUS
      <4>1. s + Capacity <= counter[c] + Capacity
        BY <2>1, PublishedWindow
      <4> QED
        BY <2>2, <2>3, <4>1
    <3> QED
      BY <2>1, <2>4, <3>1 DEF BitsTellRounds, IsPublished
  <2>5. ASSUME s \notin published PROVE ~IsPublished(s)
    <3>1. Ready(s - Capacity)
      BY <2>1, <2>2, <2>3 DEF Ready
    <3>2. bit[slot_index(s)] = 1 - calculate_availability_flag(s)
      BY <2>3, <2>5, <3>1, UnpublishedBit
    <3> QED
      BY <2>3, <3>2, FlagFlips DEF IsPublished
  <2> QED
    BY <2>4, <2>5
<1> QED
  BY <1>1, MultiProducerInductive, PTL

\* Consumers stop behind the last claim only, when no handle can be used any
\* more, and the drop of the last handle returns only when every handler has
\* been called for every published event.
THEOREM MultiProducerDrains == Spec => []DrainBeforeStop
<1>1. MultiInv => DrainBeforeStop
  <2> SUFFICES ASSUME MultiInv PROVE DrainBeforeStop
    OBVIOUS
  <2>0. TypeOK /\ ShutdownAtCursor /\ ClaimsDisjoint /\ ConsumersFollow
    BY DEF MultiInv
  <2>1. ASSUME NEW c \in Consumers, pc[c] = "stopped"
        PROVE  /\ next[c] = cursor + 1
               /\ \A q \in Producers :
                    ppc[q] \in {"unborn", "gone", "joining", "dropped", "panicked"}
    <3>1. next[c] = cursor + 1 /\ \E q \in Producers : Ended(q)
      BY <2>0, <2>1 DEF ShutdownAtCursor
    <3>2. PICK q \in Producers : Ended(q)
      BY <3>1
    <3>3. \A r \in Producers \ {q} : ppc[r] \in {"unborn", "gone"}
      BY <2>0, <3>2 DEF ShutdownAtCursor
    <3> QED
      BY <3>1, <3>2, <3>3 DEF Ended
  <2>2. ASSUME NEW q \in Producers, ppc[q] = "dropped", NEW c \in Managed
        PROVE  Len(seen[c]) = Cardinality(published)
    <3>1. c \in Consumers /\ pc[c] = "stopped"
      BY <2>0, <2>2, Topology DEF ShutdownAtCursor
    <3>2. next[c] = cursor + 1 /\ next[c] \in Nat /\ cursor \in Int
      BY <2>0, <2>1, <3>1, Types
    <3>3. counter[c] = cursor
      BY <2>0, <3>1, <3>2 DEF ConsumersFollow, Follows
    <3>4. published = 0 .. cursor
      BY <2>0, <3>1, <3>3 DEF ClaimsDisjoint, ConsumersFollow, Follows, MayPass, Ready
    <3>5. Cardinality(published) = cursor + 1
      BY <3>2, <3>4, FS_Interval
    <3>6. seen[c] = [i \in 1 .. next[c] |-> i - 1]
      BY DEF MultiInv, ExactlyOnceInOrder
    <3> QED
      BY <3>2, <3>5, <3>6, FirstEvents
  <2> QED
    BY <2>1, <2>2 DEF DrainBeforeStop
<1> QED
  BY <1>1, MultiProducerInductive, PTL

\* No event reaches a stage before every consumer of every earlier stage has
\* released it.
THEOREM MultiProducerStageOrder == Spec => []StageOrder
<1>1. MultiInv => StageOrder
  <2> SUFFICES ASSUME MultiInv, NEW c \in Consumers, NEW d \in Consumers, Stage[d] < Stage[c]
               PROVE  next[c] - 1 <= counter[d]
    BY DEF StageOrder
  <2>1. TypeOK /\ Follows(c)
    BY DEF MultiInv, ConsumersFollow
  <2>2. /\ counter[c] \in Int /\ next[c] \in Nat /\ available[c] \in Int /\ counter[d] \in Int
    BY <2>1, Types
  <2> QED
    BY <2>1, <2>2 DEF Follows, MayPass
<1> QED
  BY <1>1, MultiProducerInductive, PTL

\* No event reaches a gated stage before each of its gates has let it through.
THEOREM MultiProducerGateRespected == Spec => []GateRespected
<1>1. MultiInv => GateRespected
  <2> SUFFICES ASSUME MultiInv, NEW c \in Consumers, NEW g \in StageGates[Stage[c]]
               PROVE  next[c] - 1 <= gateHigh[g]
    BY DEF GateRespected
  <2>1. TypeOK /\ Follows(c)
    BY DEF MultiInv, ConsumersFollow
  <2>2. /\ counter[c] \in Int /\ next[c] \in Nat /\ available[c] \in Int /\ gateHigh[g] \in Int
    BY <2>1, Types
  <2> QED
    BY <2>1, <2>2 DEF Follows, MayPass
<1> QED
  BY <1>1, MultiProducerInductive, PTL
=============================================================================
