-------------------------- MODULE DisruptorProofs ---------------------------
(***************************************************************************)
(* What the proofs about both kinds of producer have in common: arithmetic *)
(* of the ring, the shape of a topology, and what the actions of Disruptor *)
(* do to types and to what has been read.                                  *)
(***************************************************************************)
EXTENDS Disruptor, IntegerFacts

\* slot_index stays within the ring.
LEMMA SlotType ==
  ASSUME NEW s \in Int PROVE slot_index(s) \in SlotIndices
BY Division, CapacityAssumption DEF slot_index, SlotIndices

\* Sequences less than a round apart live in different slots.
LEMMA SlotsDiffer ==
  ASSUME NEW r \in Int, NEW w \in Int, r < w, w < r + Capacity
  PROVE  slot_index(r) # slot_index(w)
<1> SUFFICES ASSUME slot_index(r) = slot_index(w) PROVE FALSE
  OBVIOUS
<1> DEFINE m == r % Capacity
<1>1. m = w % Capacity
  BY DEF slot_index
<1>2. m \in Int /\ (r \div Capacity) \in Int /\ r = Capacity * (r \div Capacity) + m
  BY Division, CapacityAssumption
<1>3. (w \div Capacity) \in Int /\ w = Capacity * (w \div Capacity) + m
  BY <1>1, Division, CapacityAssumption
<1> HIDE DEF m
<1>4. w - r >= Capacity
  BY <1>2, <1>3, SameRemainderFarApart, CapacityAssumption
<1> QED
  BY <1>4, CapacityAssumption

\* A round later, the slot is the same and the quotient is one more.
LEMMA RoundLater ==
  ASSUME NEW s \in Int
  PROVE  /\ slot_index(s + Capacity) = slot_index(s)
         /\ (s + Capacity) \div Capacity = s \div Capacity + 1
<1> DEFINE q1 == s \div Capacity
           q2 == (s + Capacity) \div Capacity
           r1 == s % Capacity
           r2 == (s + Capacity) % Capacity
<1> USE CapacityAssumption
<1>0. r1 = slot_index(s) /\ r2 = slot_index(s + Capacity)
  BY DEF slot_index
<1>1. q1 \in Int /\ r1 \in 0 .. Capacity - 1 /\ s = Capacity * q1 + r1
  BY Division
<1>2. s + Capacity \in Int
  OBVIOUS
<1>3. q2 \in Int /\ r2 \in 0 .. Capacity - 1 /\ s + Capacity = Capacity * q2 + r2
  BY <1>2, Division
<1> HIDE DEF q1, q2, r1, r2
<1>4. Capacity * (q1 + 1) = Capacity * q1 + Capacity
  BY <1>1
<1>5. Capacity * (q1 + 1) + r1 = Capacity * q2 + r2
  BY <1>1, <1>3, <1>4
<1>6. q1 + 1 = q2 /\ r1 = r2
  BY <1>1, <1>3, <1>5, DivisionUnique
<1> QED
  BY <1>0, <1>6 DEF q1, q2

\* In the first round, a sequence is its own slot.
LEMMA FirstRound ==
  ASSUME NEW s \in SlotIndices
  PROVE  slot_index(s) = s /\ s \div Capacity = 0
<1> USE CapacityAssumption
<1> DEFINE q == s \div Capacity
           r == s % Capacity
<1>0. s \in Int /\ s \in 0 .. Capacity - 1
  BY DEF SlotIndices
<1>1. q \in Int /\ r \in 0 .. Capacity - 1 /\ s = Capacity * q + r
  BY <1>0, Division
<1>2. r = slot_index(s)
  BY DEF slot_index
<1> HIDE DEF q, r
<1>3. Capacity * 0 + s = Capacity * q + r
  BY <1>0, <1>1
<1>4. 0 = q /\ s = r
  BY <1>0, <1>1, <1>3, DivisionUnique
<1> QED
  BY <1>2, <1>4 DEF q

\* Every consumer has a stage, and its barrier consists of known cells: the
\* producer barrier for stage 1, consumers of the stage before and gates for the
\* others, and never nothing.
LEMMA Topology ==
  /\ \A c \in Consumers : Stage[c] \in 1 .. LastStage /\ c \notin Gates /\ c # ProducerBarrier
  /\ \A h \in Gates : h \notin Consumers /\ h # ProducerBarrier
  /\ ProducerBarrier \notin Consumers /\ ProducerBarrier \notin Gates
  /\ Managed \subseteq Consumers /\ Pollers \subseteq Consumers
  /\ \A c \in Consumers : Barrier(Stage[c]) \subseteq {ProducerBarrier} \cup Consumers \cup Gates
  /\ \A c \in Consumers : StageGates[Stage[c]] \subseteq Gates
  /\ \A c \in Consumers : Barrier(Stage[c]) # {}
BY TopologyAssumption DEF Consumers, ConsumersAt, Barrier
-----------------------------------------------------------------------------
(* Types.                                                                  *)

\* Loading a cell, whatever integer it holds.
LEMMA LoadCellTypes ==
  ASSUME DisruptorTypeOK, NEW c \in Consumers, NEW x, NEW v \in Int, LoadCell(c, x, v)
  PROVE  DisruptorTypeOK'
<1> DEFINE least == IF todo[c] = Barrier(Stage[c]) THEN v ELSE Least(available[c], v)
<1>1. least \in Int /\ Granted(c, least) \in Int
  BY DEF Least, Granted, DisruptorTypeOK, NoLimit
<1>2. available' = [available EXCEPT ![c] = IF todo[c] = {x} /\ IsAvailable(c, least)
                                              THEN Granted(c, least) ELSE least]
  BY DEF LoadCell
<1>3. available' \in [Consumers -> Int]
  BY <1>1, <1>2 DEF DisruptorTypeOK
<1>4. /\ pc' \in [Consumers -> {"idle", "scan", "poll", "miss", "read", "stopped", "panicked"}]
      /\ todo' \in [Consumers -> SUBSET ({ProducerBarrier} \cup Consumers \cup Gates)]
  BY DEF LoadCell, DisruptorTypeOK
<1> QED
  BY <1>3, <1>4 DEF LoadCell, sharedVars, DisruptorTypeOK

\* All other steps of a consumer, given that a guard's grant is no smaller than
\* NONE.
LEMMA ConsumerStepTypes ==
  ASSUME DisruptorTypeOK, NEW c \in Consumers, pc[c] = "read" => 0 <= available[c] + 1,
         \/ CheckShutdown(c) \/ ReadEvent(c) \/ HandlerPanics(c) \/ SignalDone(c)
         \/ \E l \in Limits \cup {NoLimit} : PollTake(c, l)
         \/ PollWait(c) \/ DropGuard(c)
  PROVE  DisruptorTypeOK'
<1> USE Topology DEF DisruptorTypeOK, sharedVars
<1> DEFINE Cells == SUBSET ({ProducerBarrier} \cup Consumers \cup Gates)
<1>0. Barrier(Stage[c]) \in Cells /\ todo \in [Consumers -> Cells]
  OBVIOUS
<1>1. CASE CheckShutdown(c)
  <2>1. pc' \in [Consumers -> {"idle", "scan", "poll", "miss", "read", "stopped", "panicked"}]
    BY <1>1 DEF CheckShutdown
  <2>2. todo' \in [Consumers -> SUBSET ({ProducerBarrier} \cup Consumers \cup Gates)]
    <3>1. todo' = todo \/ todo' = [todo EXCEPT ![c] = Barrier(Stage[c])]
      BY <1>1 DEF CheckShutdown
    <3> HIDE DEF Cells
    <3>2. todo' \in [Consumers -> Cells]
      BY ONLY <1>0, <3>1
    <3> QED
      BY <3>2 DEF Cells
  <2> QED
    BY <1>1, <2>1, <2>2 DEF CheckShutdown
<1>2. CASE ReadEvent(c)
  <2>1. slots[slot_index(next[c])] \in Int
    BY SlotType
  <2>2. seen' \in [Consumers -> Seq(Int)]
    BY <1>2, <2>1 DEF ReadEvent
  <2>3. handed' \in [Consumers -> Seq(Int)]
    BY <1>2 DEF ReadEvent
  <2> QED
    BY <1>2, <2>2, <2>3 DEF ReadEvent
<1>3. CASE HandlerPanics(c)
  BY <1>3 DEF HandlerPanics
<1>4. CASE SignalDone(c)
  BY <1>4 DEF SignalDone, Released
<1>5. ASSUME NEW l \in Limits \cup {NoLimit}, PollTake(c, l) PROVE DisruptorTypeOK'
  <2>1. l \in Nat \cup {NoLimit}
    BY TopologyAssumption
  <2>2. pc' \in [Consumers -> {"idle", "scan", "poll", "miss", "read", "stopped", "panicked"}]
    BY <1>5 DEF PollTake
  <2>3. /\ todo' \in [Consumers -> SUBSET ({ProducerBarrier} \cup Consumers \cup Gates)]
        /\ limit' \in [Consumers -> Nat \cup {NoLimit}]
    <3>1. \/ todo' = todo /\ limit' = limit
          \/ todo' = [todo EXCEPT ![c] = Barrier(Stage[c])] /\ limit' = [limit EXCEPT ![c] = l]
      BY <1>5 DEF PollTake
    <3> HIDE DEF Cells
    <3>2. todo' \in [Consumers -> Cells]
      BY ONLY <1>0, <3>1
    <3>3. limit' \in [Consumers -> Nat \cup {NoLimit}]
      <4>1. limit \in [Consumers -> Nat \cup {NoLimit}]
        OBVIOUS
      <4> QED
        BY ONLY <2>1, <3>1, <4>1
    <3> QED
      BY <3>2, <3>3 DEF Cells
  <2> QED
    BY <1>5, <2>2, <2>3 DEF PollTake
<1>6. CASE PollWait(c)
  <2>1. limit' \in [Consumers -> Nat \cup {NoLimit}]
    BY <1>6 DEF PollWait
  <2> QED
    BY <1>6, <2>1 DEF PollWait
<1>7. CASE DropGuard(c)
  <2>1. skipped' \in [Pollers -> SUBSET Int]
    BY <1>7 DEF DropGuard
  <2> QED
    BY <1>7, <2>1 DEF DropGuard
<1> QED
  BY <1>1, <1>2, <1>3, <1>4, <1>5, <1>6, <1>7

LEMMA SetGateTypes ==
  ASSUME DisruptorTypeOK, NEW h \in Gates, NEW v \in GateValues, SetGate(h, v)
  PROVE  DisruptorTypeOK'
BY TopologyAssumption DEF SetGate, DisruptorTypeOK, sharedVars, consumerVars
-----------------------------------------------------------------------------
(* What is read.                                                           *)

\* The sequence of the first n events.
LEMMA FirstEvents ==
  ASSUME NEW n \in Nat
  PROVE  /\ [i \in 1 .. n |-> i - 1] \in Seq(Int)
         /\ Len([i \in 1 .. n |-> i - 1]) = n
         /\ Append([i \in 1 .. n |-> i - 1], n) = [i \in 1 .. n + 1 |-> i - 1]
<1> DEFINE s == [i \in 1 .. n |-> i - 1]
<1>1. s \in Seq(Int)
  OBVIOUS
<1>2. Len(s) = n
  OBVIOUS
<1>3. Append(s, n) = [i \in 1 .. n + 1 |-> i - 1]
  <2>1. \A i \in 1 .. n + 1 : Append(s, n)[i] = i - 1
    BY <1>1, <1>2
  <2>2. /\ Append(s, n) \in Seq(Int)
        /\ Len(Append(s, n)) = n + 1
    BY <1>1, <1>2
  <2>3. Append(s, n) = [i \in 1 .. Len(Append(s, n)) |-> Append(s, n)[i]]
    BY <2>2
  <2> QED
    BY <2>1, <2>2, <2>3
<1> QED
  BY <1>1, <1>2, <1>3

\* Handlers are called for every event, once, in order, if the slot they read
\* holds the event of their position.
LEMMA ReadsInOrder ==
  ASSUME DisruptorTypeOK, ExactlyOnceInOrder, NEW d \in Consumers,
         \/ ReadEvent(d) /\ slots[slot_index(next[d])] = next[d]
         \/ DropGuard(d)
  PROVE  ExactlyOnceInOrder'
<1> SUFFICES ASSUME NEW c \in Managed PROVE seen'[c] = [i \in 1 .. next'[c] |-> i - 1]
  BY DEF ExactlyOnceInOrder
<1> USE Topology
<1>0. /\ seen[c] = [i \in 1 .. next[c] |-> i - 1]
      /\ next[c] \in Nat
      /\ next \in [Consumers -> Nat] /\ seen \in [Consumers -> Seq(Int)]
  BY DEF ExactlyOnceInOrder, DisruptorTypeOK
<1>1. CASE ReadEvent(d) /\ slots[slot_index(next[d])] = next[d] /\ d = c
  <2>1. /\ seen'[c] = Append(seen[c], next[c])
        /\ next'[c] = next[c] + 1
    BY <1>0, <1>1 DEF ReadEvent
  <2> QED
    BY <1>0, <2>1, FirstEvents
<1>2. CASE ReadEvent(d) /\ d # c
  BY <1>0, <1>2 DEF ReadEvent
<1>3. CASE DropGuard(d)
  BY <1>0, <1>3, TopologyAssumption DEF DropGuard
<1> QED
  BY <1>1, <1>2, <1>3

\* Poller p has been given every sequence below n, or has been told of it.
AccountsFor(given, told, without, n) ==
  /\ given = told
  /\ \A i, j \in 1 .. Len(told) : i < j => told[i] < told[j]
  /\ {told[i] : i \in 1 .. Len(told)} \cap without = {}
  /\ {told[i] : i \in 1 .. Len(told)} \cup without = 0 .. n - 1

\* One more event is yielded.
LEMMA YieldsOne ==
  ASSUME NEW told \in Seq(Int), NEW without, NEW n \in Nat, AccountsFor(told, told, without, n)
  PROVE  AccountsFor(Append(told, n), Append(told, n), without, n + 1)
<1> DEFINE more == Append(told, n)
           before == {told[i] : i \in 1 .. Len(told)}
           after == {more[i] : i \in 1 .. Len(more)}
<1>1. /\ Len(told) \in Nat /\ Len(more) = Len(told) + 1
      /\ \A i \in 1 .. Len(told) : more[i] = told[i]
      /\ more[Len(told) + 1] = n
  OBVIOUS
<1>2. /\ \A i, j \in 1 .. Len(told) : i < j => told[i] < told[j]
      /\ before \cap without = {} /\ before \cup without = 0 .. n - 1
  BY DEF AccountsFor
<1> HIDE DEF more
<1>3. after = before \cup {n}
  <2>1. ASSUME NEW x \in before PROVE x \in after
    BY <1>1, <2>1
  <2>2. n \in after
    BY <1>1
  <2>3. ASSUME NEW x \in after PROVE x \in before \cup {n}
    <3>1. PICK i \in 1 .. Len(more) : x = more[i]
      BY <2>3
    <3>2. CASE i = Len(told) + 1
      BY <1>1, <3>1, <3>2
    <3>3. CASE i # Len(told) + 1
      <4>1. i \in 1 .. Len(told)
        BY <1>1, <3>1, <3>3
      <4> QED
        BY <1>1, <3>1, <4>1
    <3> QED
      BY <3>2, <3>3
  <2> QED
    BY <2>1, <2>2, <2>3
<1>4. ASSUME NEW i \in 1 .. Len(more), NEW j \in 1 .. Len(more), i < j
      PROVE  more[i] < more[j]
  <2>1. i \in 1 .. Len(told) /\ more[i] = told[i]
    BY <1>1, <1>4
  <2>2. CASE j = Len(told) + 1
    <3>1. told[i] \in before
      BY <2>1
    <3>2. told[i] \in 0 .. n - 1 /\ more[j] = n
      BY <1>1, <1>2, <2>2, <3>1
    <3> QED
      BY <2>1, <3>2
  <2>3. CASE j # Len(told) + 1
    <3>1. j \in 1 .. Len(told) /\ more[j] = told[j]
      BY <1>1, <2>3
    <3> QED
      BY <1>2, <1>4, <2>1, <3>1
  <2> QED
    BY <2>2, <2>3
<1>5. n \notin without /\ 0 .. n + 1 - 1 = 0 .. n - 1 \cup {n}
  <2>1. n \notin 0 .. n - 1
    OBVIOUS
  <2> QED
    BY <1>2, <2>1
<1>6. after \cap without = {} /\ after \cup without = 0 .. n + 1 - 1
  <2> HIDE DEF before, after
  <2>1. after \cap without = {}
    BY <1>2, <1>3, <1>5
  <2>2. after \cup without = (before \cup without) \cup {n}
    BY <1>3
  <2> QED
    BY <1>2, <1>5, <2>1, <2>2
<1>7. AccountsFor(more, more, without, n + 1)
  BY <1>4, <1>6 DEF AccountsFor
<1> QED
  BY <1>7 DEF more

\* A guard that ends at m is given up after n - 1.
LEMMA GivesUpRest ==
  ASSUME NEW told, NEW without, NEW n \in Nat, NEW m \in Int, n - 1 <= m,
         AccountsFor(told, told, without, n)
  PROVE  AccountsFor(told, told, without \cup n .. m, m + 1)
<1> DEFINE before == {told[i] : i \in 1 .. Len(told)}
<1>1. before \cap without = {} /\ before \cup without = 0 .. n - 1
  BY DEF AccountsFor
<1>2. before \subseteq 0 .. n - 1
  BY <1>1
<1>3. before \cap n .. m = {}
  BY <1>2
<1>4. 0 .. m + 1 - 1 = 0 .. n - 1 \cup n .. m
  OBVIOUS
<1> HIDE DEF before
<1>5. before \cap (without \cup n .. m) = {}
  BY <1>1, <1>3
<1>6. before \cup (without \cup n .. m) = 0 .. m + 1 - 1
  <2>1. before \cup (without \cup n .. m) = (before \cup without) \cup n .. m
    OBVIOUS
  <2> QED
    BY <1>1, <1>4, <2>1
<1> QED
  BY <1>5, <1>6 DEF AccountsFor, before

\* What an event guard yields comes with its sequence and after everything
\* yielded before, if the slot holds the event of the position and nothing is
\* given back.
LEMMA YieldsInOrder ==
  ASSUME DisruptorTypeOK, GuardsAccountForAll, NEW d \in Consumers,
         \/ ReadEvent(d) /\ slots[slot_index(next[d])] = next[d]
         \/ d \in Pollers /\ DropGuard(d) /\ next[d] - 1 <= available[d]
  PROVE  GuardsAccountForAll'
<1> SUFFICES ASSUME NEW p \in Pollers
             PROVE  AccountsFor(seen'[p], handed'[p], skipped'[p], next'[p])
  BY DEF GuardsAccountForAll, AccountsFor, Yielded
<1> USE Topology
<1>0. /\ AccountsFor(seen[p], handed[p], skipped[p], next[p])
      /\ next[p] \in Nat /\ handed[p] \in Seq(Int)
      /\ next \in [Consumers -> Nat] /\ skipped \in [Pollers -> SUBSET Int]
      /\ seen \in [Consumers -> Seq(Int)] /\ handed \in [Consumers -> Seq(Int)]
  BY DEF GuardsAccountForAll, AccountsFor, Yielded, DisruptorTypeOK
<1>00. seen[p] = handed[p]
  BY <1>0 DEF AccountsFor
<1>1. ASSUME ReadEvent(d), slots[slot_index(next[d])] = next[d]
      PROVE  AccountsFor(seen'[p], handed'[p], skipped'[p], next'[p])
  <2>1. CASE d = p
    <3>1. /\ seen'[p] = Append(seen[p], next[p])
          /\ handed'[p] = Append(handed[p], next[p])
          /\ skipped' = skipped
          /\ next'[p] = next[p] + 1
      BY <1>0, <1>1, <2>1 DEF ReadEvent
    <3> QED
      BY <1>0, <1>00, <3>1, YieldsOne
  <2>2. CASE d # p
    <3>1. /\ seen'[p] = seen[p] /\ handed'[p] = handed[p]
          /\ skipped' = skipped /\ next'[p] = next[p]
      BY <1>0, <1>1, <2>2 DEF ReadEvent
    <3> QED
      BY <1>0, <3>1
  <2> QED
    BY <2>1, <2>2
<1>2. ASSUME d \in Pollers, DropGuard(d), next[d] - 1 <= available[d]
      PROVE  AccountsFor(seen'[p], handed'[p], skipped'[p], next'[p])
  <2>1. /\ seen' = seen /\ handed' = handed
        /\ next' = [next EXCEPT ![d] = available[d] + 1]
        /\ skipped' = [skipped EXCEPT ![d] = @ \cup next[d] .. available[d]]
    BY <1>2 DEF DropGuard
  <2>2. available[d] \in Int
    BY DEF DisruptorTypeOK
  <2>3. CASE d = p
    <3>1. /\ next'[p] = available[p] + 1
          /\ skipped'[p] = skipped[p] \cup next[p] .. available[p]
      BY <1>0, <2>1, <2>3
    <3> QED
      BY <1>0, <1>00, <1>2, <2>1, <2>2, <2>3, <3>1, GivesUpRest
  <2>4. CASE d # p
    BY <1>0, <2>1, <2>4
  <2> QED
    BY <2>3, <2>4
<1> QED
  BY <1>1, <1>2

\* The history of somebody who has not read anything.
LEMMA NothingRead == <<>> \in Seq(Int)
OBVIOUS

\* At the beginning there is nothing to account for.
LEMMA InitAccounts == DisruptorInit => GuardsAccountForAll
<1> SUFFICES ASSUME DisruptorInit, NEW p \in Pollers
             PROVE  AccountsFor(seen[p], handed[p], skipped[p], next[p])
  BY DEF GuardsAccountForAll, AccountsFor, Yielded
<1>1. seen[p] = <<>> /\ handed[p] = <<>> /\ skipped[p] = {} /\ next[p] = 0
  BY Topology, Zenon DEF DisruptorInit
<1>2. AccountsFor(<<>>, <<>>, {}, 0)
  <2> DEFINE none == <<>>
  <2>1. Len(none) = 0 /\ 1 .. 0 = {} /\ 0 .. 0 - 1 = {}
    OBVIOUS
  <2> HIDE DEF none
  <2>2. {none[i] : i \in 1 .. Len(none)} = {}
    BY <2>1
  <2> QED
    BY <2>1, <2>2 DEF AccountsFor, none
<1> QED
  BY <1>1, <1>2

\* The limit of a poll_take stays what it was while its guard is there, and the
\* guard is granted no more than that behind its cursor.
LEMMA KeepsWithinLimit ==
  ASSUME DisruptorTypeOK, GuardsWithinLimit, NEW c \in Consumers,
         pc[c] = "poll" => counter[c] = next[c] - 1,
         \/ \E x, v : v \in Int /\ LoadCell(c, x, v)
         \/ CheckShutdown(c) \/ ReadEvent(c) \/ HandlerPanics(c) \/ SignalDone(c)
         \/ \E l \in Limits \cup {NoLimit} : PollTake(c, l)
         \/ PollWait(c) \/ DropGuard(c)
  PROVE  GuardsWithinLimit'
<1> DEFINE Kept(p) ==
             /\ pc'[p] = "read" /\ limit'[p] # NoLimit => available'[p] <= counter'[p] + limit'[p]
             /\ pc'[p] \in {"scan", "miss"} => limit'[p] = NoLimit
<1> SUFFICES ASSUME NEW p \in Pollers PROVE Kept(p)
  BY DEF GuardsWithinLimit
<1> USE Topology
<1>0. /\ p \in Consumers /\ p \notin Managed
      /\ pc[p] = "read" /\ limit[p] # NoLimit => available[p] <= counter[p] + limit[p]
      /\ pc[p] \in {"scan", "miss"} => limit[p] = NoLimit
      /\ next \in [Consumers -> Nat] /\ limit \in [Consumers -> Nat \cup {NoLimit}]
      /\ available \in [Consumers -> Int] /\ counter \in [Consumers \cup Gates -> Int]
      /\ pc \in [Consumers -> {"idle", "scan", "poll", "miss", "read", "stopped", "panicked"}]
  BY TopologyAssumption DEF GuardsWithinLimit, DisruptorTypeOK
<1>1. ASSUME NEW x, NEW v \in Int, LoadCell(c, x, v) PROVE Kept(p)
  <2> DEFINE least == IF todo[c] = Barrier(Stage[c]) THEN v ELSE Least(available[c], v)
  <2>1. /\ counter' = counter /\ limit' = limit
        /\ available' = [available EXCEPT ![c] =
                           IF todo[c] = {x} /\ IsAvailable(c, least)
                             THEN Granted(c, least) ELSE least]
        /\ pc' = [pc EXCEPT ![c] =
                    IF todo[c] # {x} THEN @
                    ELSE IF IsAvailable(c, least) THEN "read"
                    ELSE IF @ = "poll" THEN "idle" ELSE "miss"]
        /\ pc[c] \in {"scan", "poll"}
    BY <1>1 DEF LoadCell
  <2>2. least \in Int
    BY <1>0 DEF Least
  <2> HIDE DEF least
  <2>3. CASE c # p
    BY <1>0, <2>1, <2>3
  <2>4. CASE c = p
    <3>1. CASE pc'[p] = "read" /\ limit[p] # NoLimit
      <4>1. pc[p] = "poll" /\ todo[c] = {x} /\ IsAvailable(c, least)
        BY <1>0, <2>1, <2>4, <3>1
      <4>2. available'[p] = Least(least, next[p] - 1 + limit[p])
        BY <1>0, <2>1, <2>4, <3>1, <4>1 DEF Granted
      <4>3. limit[p] \in Nat /\ next[p] \in Nat /\ counter[p] \in Int /\ counter[p] = next[p] - 1
        BY <1>0, <2>4, <3>1, <4>1
      <4>4. available'[p] <= counter[p] + limit[p]
        BY <2>2, <4>2, <4>3 DEF Least
      <4> QED
        BY <2>1, <3>1, <4>4
    <3>2. CASE ~(pc'[p] = "read" /\ limit[p] # NoLimit)
      BY <1>0, <2>1, <2>4, <3>2
    <3> QED
      BY <3>1, <3>2
  <2> QED
    BY <2>3, <2>4
<1>2. CASE CheckShutdown(c)
  <2>1. /\ counter' = counter /\ limit' = limit /\ available' = available /\ pc[c] = "miss"
        /\ \/ pc' = [pc EXCEPT ![c] = "stopped"]
           \/ pc' = [pc EXCEPT ![c] = "scan"]
    BY <1>2 DEF CheckShutdown
  <2> QED
    BY <1>0, <2>1
<1>3. CASE ReadEvent(c) \/ HandlerPanics(c) \/ SignalDone(c)
  BY <1>0, <1>3, TopologyAssumption DEF ReadEvent, HandlerPanics, SignalDone
<1>4. ASSUME NEW l, PollTake(c, l) PROVE Kept(p)
  <2>1. /\ counter' = counter /\ available' = available
        /\ \/ pc' = [pc EXCEPT ![c] = "stopped"] /\ limit' = limit
           \/ pc' = [pc EXCEPT ![c] = "poll"] /\ limit' = [limit EXCEPT ![c] = l]
    BY <1>4 DEF PollTake
  <2> QED
    BY <1>0, <2>1
<1>5. CASE PollWait(c) \/ DropGuard(c)
  BY <1>0, <1>5 DEF PollWait, DropGuard
<1> QED
  BY <1>1, <1>2, <1>3, <1>4, <1>5
=============================================================================
