------------------------ MODULE BlockingWaitProofs --------------------------
(***************************************************************************)
(* Proofs about the wait strategies as modelled by BlockingWait: WaitInv   *)
(* is inductive, and implies that no wakeup is lost and nobody sleeps in   *)
(* vain while loads keep in order, and that the next notifier finds every  *)
(* parked waiter, for all numbers of consumers and gates and all barriers  *)
(* between them.                                                           *)
(***************************************************************************)
EXTENDS BlockingWait, IntegerFacts

LEMMA ThreadSets ==
  /\ Free = 0 /\ 0 \in Threads /\ 0 \notin Consumers /\ 0 \notin GateThreads
  /\ Consumers \subseteq Threads /\ GateThreads \subseteq Threads
  /\ Consumers \cap GateThreads = {}
<1>1. N \in Nat /\ NumGates \in Nat
  BY BlockingWaitAssumption
<1> QED
  BY <1>1 DEF Free, Consumers, GateThreads, Threads

(* What the steps are made of.                                             *)

LEMMA Strategy ==
  ASSUME strategy \in Strategies
  PROVE  /\ strategy \in Spinning \cup Parking
         /\ ~ (strategy \in Spinning /\ strategy \in Parking)
         /\ strategy \in Parking => strategy = "BlockingWaitStrategy" \/ Lite
         /\ Lite => strategy \in Parking
BY BlockingWaitAssumption DEF Spinning, Parking, Lite

\* wake() of a parking strategy begins with a step of its own.
LEMMA WakeGoes ==
  ASSUME strategy \in Strategies, NEW t \in Threads
  PROVE  /\ strategy \in Spinning => Wake(t) = AfterWake(t)
         /\ strategy = "BlockingWaitStrategy" => Wake(t) = "notify"
         /\ Lite => Wake(t) = "swap"
<1>1. ASSUME strategy \in Spinning PROVE Wake(t) = AfterWake(t)
  <2>1. strategy # "BlockingWaitStrategy" /\ strategy # "LiteBlockingWaitStrategy"
    BY <1>1 DEF Spinning
  <2> QED
    BY <1>1, <2>1, Zenon DEF Wake
<1>2. ASSUME strategy = "BlockingWaitStrategy" PROVE Wake(t) = "notify"
  <2>1. strategy \notin Spinning /\ strategy # "LiteBlockingWaitStrategy"
    BY <1>2 DEF Spinning
  <2> QED
    BY <1>2, <2>1, Zenon DEF Wake
<1>3. ASSUME Lite PROVE Wake(t) = "swap"
  <2>1. /\ strategy \notin Spinning /\ strategy # "BlockingWaitStrategy"
        /\ strategy = "LiteBlockingWaitStrategy"
    BY <1>3 DEF Spinning, Lite
  <2> QED
    BY <2>1, Zenon DEF Wake
<1> QED
  BY <1>1, <1>2, <1>3

LEMMA AfterWakeGoes ==
  ASSUME NEW t \in Threads
  PROVE  /\ t \in Consumers => AfterWake(t) = "load"
         /\ t \notin Consumers => AfterWake(t) \in {"idle", "joining"}
         /\ t \in GateThreads => AfterWake(t) = "idle"
<1>1. t \in GateThreads => t \notin Consumers /\ t # 0
  BY BlockingWaitAssumption DEF GateThreads, Consumers
<1> QED
  BY <1>1 DEF AfterWake

\* The cell that get_after loads next is one of those it has left to load.
LEMMA FirstIsLeft ==
  ASSUME NEW i \in Consumers, todo[i] \subseteq Threads, todo[i] # {}
  PROVE  First(i) \in todo[i] /\ First(i) \in Threads
<1>1. todo[i] \subseteq Nat
  BY BlockingWaitAssumption DEF Threads
<1>2. \E t \in todo[i] : \A u \in todo[i] : t <= u
  BY <1>1, LeastElement
<1>3. First(i) \in todo[i]
  BY <1>2, Zenon DEF First
<1> QED
  BY <1>3

\* One load of get_after: a round ends with all cells to load again, and as
\* long as the least value is behind what the waiter requests, some cell is, or
\* was when it was loaded.
LEMMA LoadCellEffect ==
  ASSUME TypeOK, TodoOK, NEW i \in Consumers, LoadCell(i)
  PROVE  /\ todo' \in [Consumers -> SUBSET Threads]
         /\ upper' \in [Consumers -> -1 .. MaxSequence - 1]
         /\ \A j \in Consumers \ {i} : todo'[j] = todo[j] /\ upper'[j] = upper[j]
         /\ Last(i) => todo'[i] = Sources[i]
         /\ ~Last(i) => todo'[i] # {} /\ todo'[i] \subseteq Sources[i] /\ todo'[i] # Sources[i]
         /\ upper'[i] < next[i] =>
              \/ \E t \in Sources[i] : ~ (cursor[t] >= next[i])
              \/ todo[i] # Sources[i] /\ upper[i] < next[i]
<1> DEFINE c == First(i)
<1>1. /\ todo \in [Consumers -> SUBSET Threads]
      /\ upper \in [Consumers -> -1 .. MaxSequence - 1]
      /\ cursor \in [Threads -> -1 .. MaxSequence - 1]
      /\ next \in [Consumers -> 0 .. MaxSequence]
      /\ MaxSequence \in Nat
      /\ Sources \in [Consumers -> SUBSET Threads]
  BY BlockingWaitAssumption DEF TypeOK
<1>2. todo[i] # {} /\ todo[i] \subseteq Sources[i]
  BY DEF TodoOK
<1>3. c \in todo[i] /\ c \in Threads /\ c \in Sources[i]
  BY <1>1, <1>2, FirstIsLeft
<1>4. /\ todo' = [todo EXCEPT ![i] = IF Last(i) THEN Sources[i] ELSE todo[i] \ {c}]
      /\ upper' = [upper EXCEPT ![i] = IF todo[i] = Sources[i] \/ cursor[c] < upper[i]
                                       THEN cursor[c] ELSE upper[i]]
  BY DEF LoadCell
<1>5. Last(i) <=> todo[i] = {c}
  BY DEF Last
<1> HIDE DEF c
<1>6. todo' \in [Consumers -> SUBSET Threads] /\ upper' \in [Consumers -> -1 .. MaxSequence - 1]
  BY <1>1, <1>3, <1>4
<1>7. \A j \in Consumers \ {i} : todo'[j] = todo[j] /\ upper'[j] = upper[j]
  BY <1>1, <1>4
<1>8. Last(i) => todo'[i] = Sources[i]
  BY <1>1, <1>4
<1>9. ~Last(i) => todo'[i] # {} /\ todo'[i] \subseteq Sources[i] /\ todo'[i] # Sources[i]
  BY <1>1, <1>2, <1>3, <1>4, <1>5
<1>10. ASSUME upper'[i] < next[i], \A t \in Sources[i] : cursor[t] >= next[i]
       PROVE  todo[i] # Sources[i] /\ upper[i] < next[i]
  <2>1. ~ (cursor[c] < next[i])
    BY <1>1, <1>3, <1>10
  <2>2. upper'[i] # cursor[c]
    BY <1>10, <2>1
  <2> QED
    BY <1>1, <1>4, <1>10, <2>2
<1> QED
  BY <1>6, <1>7, <1>8, <1>9, <1>10
-----------------------------------------------------------------------------
(* Type correctness, and where the threads are.                            *)

LEMMA TypeStep ==
  ASSUME TypeOK, TodoOK, [Next]_vars
  PROVE  TypeOK'
<1> USE DEF TypeOK
<1>0. /\ SpinTries \in Nat /\ MaxSequence \in Nat
      /\ Free = 0 /\ Consumers \subseteq Threads /\ GateThreads \subseteq Threads /\ 0 \in Threads
  BY BlockingWaitAssumption, ThreadSets
<1>1. ASSUME NEW t \in Threads
      PROVE  Wake(t) \in Labels
  <2>1. strategy \in Spinning \/ strategy = "BlockingWaitStrategy" \/ Lite
    BY Strategy
  <2> QED
    BY <2>1, WakeGoes, AfterWakeGoes DEF Labels
<1>2. ASSUME NEW i \in Consumers, Load(i) PROVE TypeOK'
  <2>1. /\ todo' \in [Consumers -> SUBSET Threads]
        /\ upper' \in [Consumers -> -1 .. MaxSequence - 1]
    BY <1>2, LoadCellEffect DEF Load
  <2> QED
    BY <1>0, <1>2, <2>1 DEF Labels, Load, Goto, blockVars
<1>3. ASSUME NEW i \in Consumers, LoadShutdown(i) PROVE TypeOK'
  <2>1. pc' \in [Threads -> Labels]
    BY <1>0, <1>3 DEF LoadShutdown, Goto, Labels
  <2>2. tries' \in [Consumers -> 0 .. SpinTries]
    BY <1>0, <1>3 DEF LoadShutdown, KeepsSpinning, SpinsLeft
  <2> QED
    BY <1>3, <2>1, <2>2 DEF LoadShutdown, blockVars
<1>4. ASSUME NEW i \in Consumers, Lock(i) PROVE TypeOK'
  BY <1>0, <1>1, <1>4 DEF Labels, Lock, BeforeParking, Goto, waiterVars
<1>5. ASSUME NEW i \in Consumers, Mark(i) PROVE TypeOK'
  BY <1>0, <1>1, <1>5 DEF Labels, Mark, Goto, waiterVars
<1>6. ASSUME NEW i \in Consumers, LoadLocked(i) PROVE TypeOK'
  <2>1. /\ todo' \in [Consumers -> SUBSET Threads]
        /\ upper' \in [Consumers -> -1 .. MaxSequence - 1]
    BY <1>6, LoadCellEffect DEF LoadLocked
  <2> QED
    BY <1>0, <1>6, <2>1 DEF Labels, LoadLocked, Overtakes, Unlock, Goto, blockVars
<1>7. ASSUME NEW i \in Consumers, LoadShutdownLocked(i) PROVE TypeOK'
  BY <1>0, <1>1, <1>7 DEF Labels, LoadShutdownLocked, Overtakes, Unlock, Goto, waiterVars
<1>8. ASSUME NEW i \in Consumers, Park(i) PROVE TypeOK'
  BY <1>0, <1>1, <1>8 DEF Labels, Park, Unlock, Goto, waiterVars
<1>9. ASSUME NEW i \in Consumers, Relock(i) PROVE TypeOK'
  BY <1>0, <1>1, <1>9 DEF Labels, Relock, BeforeParking, Goto, waiterVars
<1>10. ASSUME NEW i \in Consumers, Handle(i) PROVE TypeOK'
  <2>1. pc' \in [Threads -> Labels]
    BY <1>0, <1>1, <1>10 DEF Handle, Goto
  <2>2. /\ cursor' \in [Threads -> -1 .. MaxSequence - 1]
        /\ tries' \in [Consumers -> 0 .. SpinTries]
    BY <1>0, <1>10 DEF Handle
  <2>3. next' \in [Consumers -> 0 .. MaxSequence]
    <3>1. upper[i] + 1 \in 0 .. MaxSequence
      BY <1>0
    <3> QED
      BY <1>10, <3>1 DEF Handle
  <2> QED
    BY <1>10, <2>1, <2>2, <2>3 DEF Handle, blockVars
<1>11. ASSUME NEW i \in Consumers, Drain(i) PROVE TypeOK'
  BY <1>0, <1>1, <1>11 DEF Drain, waiterVars
<1>12. ASSUME NEW t \in Threads, Swap(t) PROVE TypeOK'
  BY <1>0, <1>12, AfterWakeGoes DEF Labels, Swap, Goto, waiterVars
<1>13. ASSUME NEW t \in Threads, Notify(t) PROVE TypeOK'
  BY <1>0, <1>13, AfterWakeGoes DEF Labels, Notify, Notified, waiterVars
<1>14. ASSUME NEW t \in GateThreads, SetGate(t) PROVE TypeOK'
  <2>1. pc' \in [Threads -> Labels]
    BY <1>0, <1>1, <1>14 DEF SetGate, AfterSet, Goto
  <2>2. cursor' \in [Threads -> -1 .. MaxSequence - 1]
    <3>1. PICK v \in cursor[t] + 1 .. MaxSequence - 1 : cursor' = [cursor EXCEPT ![t] = v]
      BY <1>14 DEF SetGate
    <3>2. v \in -1 .. MaxSequence - 1
      BY <1>0, <3>1
    <3> QED
      BY <3>1, <3>2
  <2> QED
    BY <1>14, <2>1, <2>2 DEF SetGate, blockVars, waiterVars
<1>15. CASE Publish
  <2>1. pc' \in [Threads -> Labels]
    BY <1>0, <1>1, <1>15 DEF Publish, AfterPublish, Goto
  <2>2. cursor' \in [Threads -> -1 .. MaxSequence - 1]
    BY <1>0, <1>15 DEF Publish
  <2> QED
    BY <1>15, <2>1, <2>2 DEF Publish, blockVars, waiterVars
<1>16. CASE DropProducer
  <2>1. pc' \in [Threads -> Labels]
    BY <1>0, <1>1, <1>16 DEF DropProducer, AfterShutdown, Goto, Labels
  <2>2. shutdown' \in -1 .. MaxSequence
    BY <1>0, <1>16 DEF DropProducer
  <2> QED
    BY <1>16, <2>1, <2>2 DEF DropProducer, blockVars, waiterVars
<1>17. CASE Join
  BY <1>0, <1>1, <1>17 DEF Labels, Join, Goto, blockVars, waiterVars
<1>18. CASE UNCHANGED vars
  BY <1>18 DEF vars, blockVars, waiterVars
<1> QED
  BY <1>2, <1>3, <1>4, <1>5, <1>6, <1>7, <1>8, <1>9, <1>10, <1>11, <1>12, <1>13, <1>14, <1>15, <1>16, <1>17, <1>18 DEF Next, ThreadStep, WaiterStep, NotifierStep, ClientStep
LEMMA ControlStep ==
  ASSUME TypeOK, ControlOK, [Next]_vars
  PROVE  ControlOK'
<1> USE DEF ControlOK, Parks, Locked, Notifies, Lite
<1>a. /\ strategy \in Strategies
      /\ Free = 0 /\ 0 \in Threads /\ 0 \notin Consumers /\ 0 \notin GateThreads
      /\ Consumers \subseteq Threads /\ GateThreads \subseteq Threads
      /\ Consumers \cap GateThreads = {}
      /\ pc \in [Threads -> Labels]
  BY ThreadSets DEF TypeOK
<1>b. ASSUME NEW t \in Threads
      PROVE  /\ Wake(t) \in Notifies => strategy \in Parking
             /\ Wake(t) = "swap" => Lite
             /\ t \in Consumers => Wake(t) \in Notifies \cup {"load"}
             /\ t \notin Consumers => Wake(t) \in Notifies \cup {"idle", "joining"}
  <2>1. strategy \in Spinning \/ strategy = "BlockingWaitStrategy" \/ Lite
    BY <1>a, Strategy
  <2> QED
    BY <1>a, <2>1, Strategy, WakeGoes, AfterWakeGoes DEF Notifies, Parking
<1>1. ASSUME NEW i \in Consumers, Load(i) PROVE ControlOK'
  BY <1>a, <1>b, <1>1 DEF Load, Goto, blockVars
<1>2. ASSUME NEW i \in Consumers, LoadShutdown(i) PROVE ControlOK'
  <2>1. CASE shutdown = next[i]
    BY <1>a, <1>2, <2>1 DEF LoadShutdown, Goto, blockVars
  <2>2. CASE shutdown # next[i] /\ KeepsSpinning(i)
    BY <1>a, <1>2, <2>2 DEF LoadShutdown, Goto, blockVars
  <2>3. CASE shutdown # next[i] /\ ~ KeepsSpinning(i)
    <3>1. strategy \in Parking
      BY <1>a, <2>3, Strategy DEF KeepsSpinning
    <3> QED
      BY <1>a, <1>2, <2>3, <3>1 DEF LoadShutdown, Goto, blockVars
  <2> QED
    BY <2>1, <2>2, <2>3
<1>3. ASSUME NEW i \in Consumers, Lock(i) PROVE ControlOK'
  BY <1>a, <1>b, <1>3 DEF Lock, BeforeParking, Goto, waiterVars
<1>4. ASSUME NEW i \in Consumers, Mark(i) PROVE ControlOK'
  BY <1>a, <1>b, <1>4 DEF Mark, Goto, waiterVars
<1>5. ASSUME NEW i \in Consumers, LoadLocked(i) PROVE ControlOK'
  BY <1>a, <1>b, <1>5 DEF LoadLocked, Unlock, Goto, Overtakes
<1>6. ASSUME NEW i \in Consumers, LoadShutdownLocked(i) PROVE ControlOK'
  BY <1>a, <1>b, <1>6 DEF LoadShutdownLocked, Overtakes, Unlock, Goto, waiterVars
<1>7. ASSUME NEW i \in Consumers, Park(i) PROVE ControlOK'
  BY <1>a, <1>b, <1>7 DEF Park, Unlock, Goto, waiterVars
<1>8. ASSUME NEW i \in Consumers, Relock(i) PROVE ControlOK'
  BY <1>a, <1>b, <1>8 DEF Relock, BeforeParking, Goto, waiterVars
<1>9. ASSUME NEW i \in Consumers, Handle(i) PROVE ControlOK'
  BY <1>a, <1>b, <1>9 DEF Handle, Goto, blockVars
<1>10. ASSUME NEW i \in Consumers, Drain(i) PROVE ControlOK'
  BY <1>a, <1>b, <1>10 DEF Drain, waiterVars
<1>11. ASSUME NEW t \in Threads, Swap(t) PROVE ControlOK'
  <2>1. t \in Consumers => AfterWake(t) = "load"
    BY AfterWakeGoes
  <2>2. t \notin Consumers => AfterWake(t) \in {"idle", "joining"}
    BY AfterWakeGoes
  <2> QED
    BY <1>a, <1>11, <2>1, <2>2 DEF Swap, Goto, waiterVars
<1>12. ASSUME NEW t \in Threads, Notify(t) PROVE ControlOK'
  <2>1. t \in Consumers => AfterWake(t) = "load"
    BY AfterWakeGoes
  <2>2. t \notin Consumers => AfterWake(t) \in {"idle", "joining"}
    BY AfterWakeGoes
  <2>3. \A u \in Threads :
          pc'[u] = IF u = t THEN AfterWake(t) ELSE IF pc[u] = "parked" THEN "relock" ELSE pc[u]
    BY <1>a, <1>12 DEF Notify, Notified
  <2>4. strategy' = strategy
    BY <1>12 DEF Notify
  <2> QED
    BY <1>a, <2>1, <2>2, <2>3, <2>4
<1>13. ASSUME NEW t \in GateThreads, SetGate(t) PROVE ControlOK'
  BY <1>a, <1>b, <1>13 DEF SetGate, AfterSet, Goto, blockVars, waiterVars
<1>14. CASE Publish
  BY <1>a, <1>b, <1>14 DEF Publish, AfterPublish, Goto, blockVars, waiterVars
<1>15. CASE DropProducer
  BY <1>a, <1>b, <1>15 DEF DropProducer, AfterShutdown, Goto, blockVars, waiterVars
<1>16. CASE Join
  BY <1>a, <1>b, <1>16 DEF Join, Goto, blockVars, waiterVars
<1>17. CASE UNCHANGED vars
  BY <1>17 DEF vars, blockVars, waiterVars
<1> QED
  BY <1>1, <1>2, <1>3, <1>4, <1>5, <1>6, <1>7, <1>8, <1>9, <1>10, <1>11, <1>12, <1>13, <1>14, <1>15, <1>16, <1>17 DEF Next, ThreadStep, WaiterStep, NotifierStep, ClientStep

LEMMA MutexStep ==
  ASSUME TypeOK, ControlOK, MutexHeld, [Next]_vars
  PROVE  MutexHeld'
<1> USE DEF MutexHeld, Locked
<1>a. /\ Free = 0 /\ 0 \in Threads /\ 0 \notin Consumers /\ 0 \notin GateThreads
      /\ Consumers \subseteq Threads /\ GateThreads \subseteq Threads
      /\ Consumers \cap GateThreads = {}
      /\ pc \in [Threads -> Labels] /\ strategy \in Strategies
  BY ThreadSets DEF TypeOK
<1>1. ASSUME NEW i \in Consumers, Load(i) PROVE MutexHeld'
  BY <1>a, <1>1 DEF Load, Goto, blockVars
<1>2. ASSUME NEW i \in Consumers, LoadShutdown(i) PROVE MutexHeld'
  BY <1>a, <1>2 DEF LoadShutdown, Goto, blockVars
<1>3. ASSUME NEW i \in Consumers, Lock(i) PROVE MutexHeld'
  BY <1>a, <1>3 DEF Lock, BeforeParking, Goto, waiterVars
<1>4. ASSUME NEW i \in Consumers, Mark(i) PROVE MutexHeld'
  BY <1>a, <1>4 DEF Mark, Goto, waiterVars
<1>5. ASSUME NEW i \in Consumers, LoadLocked(i) PROVE MutexHeld'
  <2>1. mutex = i
    BY <1>a, <1>5 DEF LoadLocked
  <2>2. \A j \in Consumers \ {i} : pc'[j] = pc[j]
    BY <1>a, <1>5 DEF LoadLocked, Goto
  <2>3. \/ mutex' = i /\ pc'[i] \in Locked
        \/ mutex' = Free /\ pc'[i] \notin Locked
    BY <1>a, <2>1, <1>5 DEF LoadLocked, Goto, Unlock
  <2> QED
    BY <1>a, <2>1, <2>2, <2>3
<1>6. ASSUME NEW i \in Consumers, LoadShutdownLocked(i) PROVE MutexHeld'
  <2>1. mutex = i
    BY <1>a, <1>6 DEF LoadShutdownLocked
  <2>2. \A j \in Consumers \ {i} : pc'[j] = pc[j]
    BY <1>a, <1>6 DEF LoadShutdownLocked, Goto
  <2>3. \/ mutex' = i /\ pc'[i] \in Locked
        \/ mutex' = Free /\ pc'[i] \notin Locked
    BY <1>a, <2>1, <1>6 DEF LoadShutdownLocked, Goto, Unlock
  <2> QED
    BY <1>a, <2>1, <2>2, <2>3
<1>7. ASSUME NEW i \in Consumers, Park(i) PROVE MutexHeld'
  BY <1>a, <1>7 DEF Park, Unlock, Goto, waiterVars
<1>8. ASSUME NEW i \in Consumers, Relock(i) PROVE MutexHeld'
  <2>1. mutex = Free
    BY <1>8 DEF Relock
  <2>4. \A j \in Consumers : pc[j] \notin Locked
    BY <1>a, <2>1
  <2>2. \A j \in Consumers \ {i} : pc'[j] = pc[j]
    BY <1>a, <1>8 DEF Relock, Goto
  <2>3. \/ mutex' = i /\ pc'[i] \in Locked
        \/ mutex' = Free /\ pc'[i] \notin Locked
    BY <1>a, <1>8 DEF Relock, BeforeParking, Goto
  <2> QED
    BY <1>a, <2>2, <2>3, <2>4
<1>9. ASSUME NEW i \in Consumers, Handle(i) PROVE MutexHeld'
  <2>1. Wake(i) \in {"load", "swap", "notify"}
    BY <1>a, Strategy, WakeGoes, AfterWakeGoes
  <2> QED
    BY <1>a, <1>9, <2>1 DEF Handle, Goto, blockVars
<1>10. ASSUME NEW i \in Consumers, Drain(i) PROVE MutexHeld'
  BY <1>a, <1>10 DEF Drain, waiterVars
<1>11. ASSUME NEW t \in Threads, Swap(t) PROVE MutexHeld'
  <2>1. t \in Consumers => AfterWake(t) = "load"
    BY AfterWakeGoes
  <2> QED
    BY <1>a, <1>11, <2>1 DEF Swap, Goto, waiterVars
<1>12. ASSUME NEW t \in Threads, Notify(t) PROVE MutexHeld'
  <2>1. t \in Consumers => AfterWake(t) = "load"
    BY AfterWakeGoes
  <2>2. \A u \in Consumers :
          pc'[u] = IF u = t THEN AfterWake(t) ELSE IF pc[u] = "parked" THEN "relock" ELSE pc[u]
    BY <1>a, <1>12 DEF Notify, Notified
  <2>3. mutex' = mutex /\ pc[t] = "notify"
    BY <1>12 DEF Notify
  <2> QED
    BY <1>a, <2>1, <2>2, <2>3
<1>13. ASSUME NEW t \in GateThreads, SetGate(t) PROVE MutexHeld'
  BY <1>a, <1>13 DEF SetGate, AfterSet, Goto, blockVars, waiterVars
<1>14. CASE Publish
  BY <1>a, <1>14 DEF Publish, AfterPublish, Goto, blockVars, waiterVars
<1>15. CASE DropProducer
  BY <1>a, <1>15 DEF DropProducer, AfterShutdown, Goto, blockVars, waiterVars
<1>16. CASE Join
  BY <1>a, <1>16 DEF Join, Goto, blockVars, waiterVars
<1>17. CASE UNCHANGED vars
  BY <1>17 DEF vars, blockVars, waiterVars
<1> QED
  BY <1>1, <1>2, <1>3, <1>4, <1>5, <1>6, <1>7, <1>8, <1>9, <1>10, <1>11, <1>12, <1>13, <1>14, <1>15, <1>16, <1>17 DEF Next, ThreadStep, WaiterStep, NotifierStep, ClientStep
-----------------------------------------------------------------------------
(* What a step leaves alone.                                               *)

\* A step of a waiter leaves the other threads where they are, takes no mark
\* away and delays no other waiter's store.
LEMMA WaiterFrame ==
  ASSUME TypeOK, TodoOK, BufferedOK, NEW i \in Consumers, WaiterStep(i) \/ Drain(i)
  PROVE  /\ \A u \in Threads \ {i} : pc'[u] = pc[u]
         /\ \A j \in Consumers \ {i} :
              /\ todo'[j] = todo[j] /\ upper'[j] = upper[j] /\ next'[j] = next[j]
              /\ j \in buffered' <=> j \in buffered
         /\ strategy' = strategy /\ shutdown' = shutdown
         /\ ~Handle(i) => cursor' = cursor /\ next' = next
         /\ reordered => reordered'
         /\ signal_needed => signal_needed'
         /\ pc[i] \notin Notifies /\ pc[i] \notin {"parked"}
<1>a. /\ Consumers \subseteq Threads
      /\ pc \in [Threads -> Labels] /\ next \in [Consumers -> 0 .. MaxSequence]
  BY ThreadSets DEF TypeOK
<1> USE DEF Notifies
<1>1. CASE Load(i)
  <2>1. \A j \in Consumers \ {i} : todo'[j] = todo[j] /\ upper'[j] = upper[j]
    BY <1>1, LoadCellEffect DEF Load
  <2> QED
    BY <1>a, <1>1, <2>1 DEF Load, Goto, blockVars
<1>2. CASE LoadShutdown(i)
  BY <1>a, <1>2 DEF LoadShutdown, Goto, blockVars
<1>3. CASE Lock(i)
  BY <1>a, <1>3 DEF Lock, BeforeParking, Goto, waiterVars
<1>4. CASE Mark(i)
  BY <1>a, <1>4 DEF Mark, Goto, waiterVars
<1>5. CASE LoadLocked(i)
  <2>1. \A j \in Consumers \ {i} : todo'[j] = todo[j] /\ upper'[j] = upper[j]
    BY <1>5, LoadCellEffect DEF LoadLocked
  <2> QED
    BY <1>a, <1>5, <2>1 DEF LoadLocked, Unlock, Goto, Overtakes
<1>6. CASE LoadShutdownLocked(i)
  BY <1>a, <1>6 DEF LoadShutdownLocked, Overtakes, Unlock, Goto, waiterVars
<1>7. CASE Park(i)
  BY <1>a, <1>7 DEF Park, Unlock, Goto, waiterVars
<1>8. CASE Relock(i)
  BY <1>a, <1>8 DEF Relock, BeforeParking, Goto, waiterVars
<1>9. CASE Handle(i)
  BY <1>a, <1>9 DEF Handle, Goto, blockVars
<1>10. CASE Drain(i)
  BY <1>a, <1>10 DEF Drain, waiterVars, BufferedOK
<1> QED
  BY <1>1, <1>2, <1>3, <1>4, <1>5, <1>6, <1>7, <1>8, <1>9, <1>10 DEF WaiterStep

\* What clients do, and the end of the join, leaves the waiters as they are and
\* keeps every notifier that is on its way.
LEMMA ClientFrame ==
  ASSUME TypeOK, ControlOK,
         Publish \/ DropProducer \/ Join \/ \E t \in GateThreads : SetGate(t)
  PROVE  /\ UNCHANGED <<strategy, blockVars, waiterVars>>
         /\ \A j \in Consumers : pc'[j] = pc[j]
         /\ \A t \in Threads : pc[t] \in Notifies => pc'[t] = pc[t]
<1>a. /\ 0 \in Threads /\ 0 \notin Consumers /\ GateThreads \subseteq Threads
      /\ Consumers \subseteq Threads /\ Consumers \cap GateThreads = {}
      /\ pc \in [Threads -> Labels]
  BY ThreadSets DEF TypeOK
<1>1. CASE Publish
  BY <1>a, <1>1 DEF Publish, Goto, Notifies
<1>2. CASE DropProducer
  BY <1>a, <1>2 DEF DropProducer, Goto, Notifies
<1>3. CASE Join
  BY <1>a, <1>3 DEF Join, Goto, Notifies
<1>4. ASSUME NEW t \in GateThreads, SetGate(t)
      PROVE  /\ UNCHANGED <<strategy, blockVars, waiterVars>>
             /\ \A j \in Consumers : pc'[j] = pc[j]
             /\ \A u \in Threads : pc[u] \in Notifies => pc'[u] = pc[u]
  BY <1>a, <1>4 DEF SetGate, Goto, Notifies
<1> QED
  BY <1>1, <1>2, <1>3, <1>4

\* A notifier's critical section: nobody else holds the mutex, and afterwards
\* nobody is parked.
LEMMA NotifyFrame ==
  ASSUME TypeOK, MutexHeld, NEW t \in Threads, Notify(t)
  PROVE  /\ \A j \in Consumers : pc[j] \notin Locked /\ pc'[j] \notin Locked \cup {"parked"}
         /\ \A u \in Threads :
              pc'[u] = IF u = t THEN AfterWake(t) ELSE IF pc[u] = "parked" THEN "relock" ELSE pc[u]
         /\ UNCHANGED <<strategy, cursor, shutdown, signal_needed, buffered, reordered, waiterVars>>
<1>1. \A j \in Consumers : pc[j] \notin Locked
  BY ThreadSets DEF Notify, MutexHeld
<1>2. \A u \in Threads :
        pc'[u] = IF u = t THEN AfterWake(t) ELSE IF pc[u] = "parked" THEN "relock" ELSE pc[u]
  BY DEF Notify, Notified
<1>3. t \in Consumers => AfterWake(t) = "load"
  BY AfterWakeGoes
<1>4. ASSUME NEW j \in Consumers PROVE pc'[j] \notin Locked \cup {"parked"}
  <2>1. j \in Threads
    BY ThreadSets
  <2>2. pc'[j] \in {"load", "relock", pc[j]} /\ pc'[j] # "parked"
    BY <1>2, <1>3, <2>1
  <2> QED
    BY <1>1, <2>2 DEF Locked
<1> QED
  BY <1>1, <1>2, <1>4 DEF Notify
-----------------------------------------------------------------------------
(* The barrier, the store buffers and the marks.                           *)

LEMMA SwapFrame ==
  ASSUME TypeOK, NEW t \in Threads, Swap(t)
  PROVE  /\ pc[t] = "swap" /\ pc'[t] = IF signal_needed THEN "notify" ELSE AfterWake(t)
         /\ t \in Consumers => pc'[t] \in {"load", "notify"}
         /\ \A u \in Threads \ {t} : pc'[u] = pc[u]
         /\ signal_needed' = FALSE
         /\ UNCHANGED <<strategy, cursor, shutdown, mutex, current, buffered, reordered, waiterVars>>
<1>1. /\ pc[t] = "swap" /\ pc'[t] = IF signal_needed THEN "notify" ELSE AfterWake(t)
      /\ \A u \in Threads \ {t} : pc'[u] = pc[u]
  BY DEF TypeOK, Swap, Goto
<1>2. t \in Consumers => pc'[t] \in {"load", "notify"}
  BY <1>1, AfterWakeGoes
<1> QED
  BY <1>1, <1>2 DEF Swap

LEMMA TodoStep ==
  ASSUME TypeOK, ControlOK, MutexHeld, TodoOK, BufferedOK, [Next]_vars
  PROVE  TodoOK'
<1>a. /\ pc \in [Threads -> Labels] /\ Consumers \subseteq Threads
      /\ \A i \in Consumers : Sources[i] # {}
  BY ThreadSets, BlockingWaitAssumption DEF TypeOK
<1>1. ASSUME NEW i \in Consumers, WaiterStep(i) \/ Drain(i) PROVE TodoOK'
  <2>1. \A j \in Consumers \ {i} : todo'[j] = todo[j] /\ pc'[j] = pc[j]
    BY <1>a, <1>1, WaiterFrame
  <2>2. CASE Load(i) \/ LoadLocked(i)
    <3>1. LoadCell(i)
      BY <2>2 DEF Load, LoadLocked
    <3>2. Last(i) => todo'[i] = Sources[i]
      BY <3>1, LoadCellEffect
    <3>3. ~Last(i) => todo'[i] # {} /\ todo'[i] \subseteq Sources[i]
      BY <3>1, LoadCellEffect
    <3>4. ~Last(i) => pc'[i] \in {"load", "load locked"}
      BY <1>a, <2>2 DEF Load, LoadLocked, Goto
    <3> QED
      BY <1>a, <2>1, <3>2, <3>3, <3>4 DEF TodoOK
  <2>3. CASE ~ (Load(i) \/ LoadLocked(i))
    <3>1. todo' = todo
      BY <1>1, <2>3 DEF WaiterStep, Drain, LoadShutdown, Lock, Mark, LoadShutdownLocked, Park, Relock,
           Handle, waiterVars
    <3>2. pc[i] \in {"load", "load locked"} => pc'[i] = pc[i]
      BY <1>1, <2>3 DEF WaiterStep, Drain, LoadShutdown, Lock, Mark, LoadShutdownLocked, Park, Relock,
           Handle
    <3> QED
      BY <2>1, <3>1, <3>2 DEF TodoOK
  <2> QED
    BY <2>2, <2>3
<1>2. ASSUME NEW t \in Threads, Swap(t) PROVE TodoOK'
  <2>1. pc[t] = "swap" /\ \A j \in Consumers \ {t} : pc'[j] = pc[j]
    BY <1>a, <1>2, SwapFrame
  <2> QED
    BY <1>a, <1>2, <2>1 DEF TodoOK, Swap, waiterVars
<1>3. ASSUME NEW t \in Threads, Notify(t) PROVE TodoOK'
  <2>1. \A j \in Consumers : pc'[j] = pc[j] \/ pc[j] \in {"parked", "notify"}
    BY <1>a, <1>3, NotifyFrame DEF Notify
  <2> QED
    BY <1>3, <2>1 DEF TodoOK, Notify, waiterVars
<1>4. CASE Join \/ ClientStep
  BY <1>4, ClientFrame DEF ClientStep, TodoOK, waiterVars
<1>5. CASE UNCHANGED vars
  BY <1>5 DEF vars, waiterVars, TodoOK
<1> QED
  BY <1>1, <1>2, <1>3, <1>4, <1>5 DEF Next, ThreadStep, NotifierStep

LEMMA BufferedStep ==
  ASSUME TypeOK, ControlOK, MutexHeld, TodoOK, BufferedOK, [Next]_vars
  PROVE  BufferedOK'
<1>a. /\ pc \in [Threads -> Labels] /\ Consumers \subseteq Threads
      /\ buffered \in SUBSET Consumers
  BY ThreadSets DEF TypeOK
<1>1. ASSUME NEW i \in Consumers, WaiterStep(i) \/ Drain(i) PROVE BufferedOK'
  <2>1. /\ \A j \in Consumers \ {i} :
             todo'[j] = todo[j] /\ pc'[j] = pc[j] /\ (j \in buffered' <=> j \in buffered)
        /\ reordered => reordered'
    BY <1>a, <1>1, WaiterFrame
  <2>2. buffered' \in SUBSET Consumers
    BY <1>1, TypeStep DEF TypeOK, Next, ThreadStep
  <2>3. ASSUME i \in buffered'
        PROVE  /\ pc'[i] \in {"load locked", "down locked", "park"}
               /\ ~reordered' => pc'[i] = "load locked" /\ todo'[i] = Sources[i]
    <3>1. CASE Mark(i)
      BY <1>a, <3>1 DEF Mark, Goto, TodoOK, waiterVars
    <3>2. CASE LoadLocked(i)
      BY <1>a, <2>3, <3>2 DEF LoadLocked, Goto, Overtakes, Unlock
    <3>3. CASE LoadShutdownLocked(i)
      BY <1>a, <2>3, <3>3 DEF LoadShutdownLocked, Goto, Overtakes, Unlock
    <3>4. ~Park(i) /\ ~Drain(i)
      BY <2>3 DEF Park, Unlock, Drain
    <3>5. CASE Load(i) \/ LoadShutdown(i) \/ Lock(i) \/ Relock(i) \/ Handle(i)
      BY <2>3, <3>5 DEF Load, LoadShutdown, Lock, Relock, Handle, blockVars, BufferedOK
    <3> QED
      BY <1>1, <3>1, <3>2, <3>3, <3>4, <3>5 DEF WaiterStep
  <2> QED
    <3>1. ASSUME NEW j \in buffered', j # i
          PROVE  /\ pc'[j] \in {"load locked", "down locked", "park"}
                 /\ ~reordered' => pc'[j] = "load locked" /\ todo'[j] = Sources[j]
      <4>1. j \in Consumers \ {i} /\ j \in buffered
        BY <2>1, <2>2, <3>1
      <4>2. /\ pc[j] \in {"load locked", "down locked", "park"}
            /\ ~reordered => pc[j] = "load locked" /\ todo[j] = Sources[j]
        BY <4>1 DEF BufferedOK
      <4>3. j \in Threads \ {i} /\ todo'[j] = todo[j] /\ pc'[j] = pc[j]
        BY <1>a, <2>1, <4>1
      <4>4. ~reordered' => ~reordered
        BY <2>1, Zenon
      <4> QED
        BY <4>2, <4>3, <4>4, Zenon
    <3>2. ASSUME NEW j \in buffered'
          PROVE  /\ pc'[j] \in {"load locked", "down locked", "park"}
                 /\ ~reordered' => pc'[j] = "load locked" /\ todo'[j] = Sources[j]
      BY <2>3, <3>1, Zenon
    <3> QED
      BY <3>2 DEF BufferedOK
<1>2. ASSUME NEW t \in Threads, Swap(t) PROVE BufferedOK'
  <2>1. pc[t] = "swap" /\ \A j \in Consumers \ {t} : pc'[j] = pc[j]
    BY <1>a, <1>2, SwapFrame
  <2> QED
    BY <1>a, <1>2, <2>1 DEF BufferedOK, Swap, waiterVars
<1>3. ASSUME NEW t \in Threads, Notify(t) PROVE BufferedOK'
  <2>1. buffered' = buffered /\ \A j \in Consumers : pc[j] \notin Locked
    BY <1>3, NotifyFrame
  <2>2. buffered = {}
    BY <1>a, <2>1 DEF BufferedOK, Locked
  <2> QED
    BY <2>1, <2>2 DEF BufferedOK
<1>4. CASE Join \/ ClientStep
  <2>1. UNCHANGED <<blockVars, waiterVars>> /\ \A j \in Consumers : pc'[j] = pc[j]
    BY <1>4, ClientFrame DEF ClientStep
  <2> QED
    BY <1>a, <2>1 DEF BufferedOK, blockVars, waiterVars
<1>5. CASE UNCHANGED vars
  BY <1>5 DEF vars, blockVars, waiterVars, BufferedOK
<1> QED
  BY <1>1, <1>2, <1>3, <1>4, <1>5 DEF Next, ThreadStep, NotifierStep

LEMMA MarkedStep ==
  ASSUME TypeOK, ControlOK, MutexHeld, TodoOK, BufferedOK, MarkedIsKnown, [Next]_vars
  PROVE  MarkedIsKnown'
<1> DEFINE Marked == {"load locked", "down locked", "park", "parked"}
<1>a. /\ pc \in [Threads -> Labels] /\ Consumers \subseteq Threads
      /\ buffered \in SUBSET Consumers /\ signal_needed \in BOOLEAN
  BY ThreadSets DEF TypeOK
<1>1. ASSUME NEW i \in Consumers, WaiterStep(i) \/ Drain(i) PROVE MarkedIsKnown'
  <2>1. /\ \A u \in Threads \ {i} : pc'[u] = pc[u]
        /\ \A j \in Consumers \ {i} : j \in buffered' <=> j \in buffered
        /\ strategy' = strategy /\ (signal_needed => signal_needed')
        /\ pc[i] \notin Notifies
    BY <1>1, WaiterFrame
  <2>2. \A t \in Threads : pc[t] = "notify" => pc'[t] = "notify"
    BY <1>a, <2>1 DEF Notifies
  <2>3. ASSUME Lite', pc'[i] \in Marked
        PROVE  i \in buffered' \/ signal_needed' \/ \E t \in Threads : pc'[t] = "notify"
    <3>1. CASE Mark(i)
      BY <3>1 DEF Mark
    <3>2. Lite
      BY <2>1, <2>3 DEF Lite
    <3>3. CASE pc[i] \in Marked
      <4>1. i \in buffered => i \in buffered' \/ signal_needed'
        BY <1>a, <1>1 DEF WaiterStep, Load, LoadShutdown, Lock, Mark, LoadLocked, LoadShutdownLocked,
             Park, Relock, Handle, Drain, Unlock, blockVars
      <4>2. i \in buffered \/ signal_needed \/ \E t \in Threads : pc[t] = "notify"
        BY <3>2, <3>3 DEF MarkedIsKnown
      <4> QED
        BY <2>1, <2>2, <4>1, <4>2
    <3>4. CASE pc[i] \notin Marked /\ ~Mark(i)
      <4>0. Wake(i) = "swap"
        BY <1>a, <3>2, WakeGoes DEF TypeOK
      <4>1. pc'[i] \notin Marked
        BY <1>a, <1>1, <3>2, <3>4, <4>0 DEF WaiterStep, Load, LoadShutdown, Lock, LoadLocked,
             LoadShutdownLocked, Park, Relock, Drain, Goto, BeforeParking, Handle
      <4> QED
        BY <2>3, <4>1
    <3> QED
      BY <3>1, <3>3, <3>4
  <2>4. ASSUME NEW j \in Consumers \ {i}, Lite', pc'[j] \in Marked
        PROVE  j \in buffered' \/ signal_needed' \/ \E t \in Threads : pc'[t] = "notify"
    <3>1. Lite /\ pc[j] \in Marked
      BY <1>a, <2>1, <2>4 DEF Lite
    <3>2. j \in buffered \/ signal_needed \/ \E t \in Threads : pc[t] = "notify"
      BY <3>1 DEF MarkedIsKnown
    <3> QED
      BY <2>1, <2>2, <3>2
  <2> QED
    BY <2>3, <2>4 DEF MarkedIsKnown
<1>2. ASSUME NEW t \in Threads, Swap(t) PROVE MarkedIsKnown'
  <2>1. CASE signal_needed
    <3>1. pc'[t] = "notify"
      BY <1>a, <1>2, <2>1 DEF Swap, Goto
    <3> QED
      BY <3>1 DEF MarkedIsKnown
  <2>2. CASE ~signal_needed
    <3>1. \A u \in Threads \ {t} : pc'[u] = pc[u]
      BY <1>a, <1>2 DEF Swap, Goto
    <3>2. pc[t] = "swap" /\ pc'[t] = AfterWake(t)
      BY <1>a, <1>2, <2>2 DEF Swap, Goto
    <3>3. t \in Consumers => pc'[t] = "load"
      BY <3>2, AfterWakeGoes
    <3>4. buffered' = buffered /\ strategy' = strategy
      BY <1>2 DEF Swap
    <3>5. ASSUME NEW j \in Consumers, Lite', pc'[j] \in Marked
          PROVE  j \in buffered' \/ \E u \in Threads : pc'[u] = "notify"
      <4>1. j # t /\ pc[j] \in Marked /\ Lite
        BY <1>a, <3>1, <3>3, <3>4, <3>5 DEF Lite
      <4>2. j \in buffered \/ \E u \in Threads : pc[u] = "notify"
        BY <2>2, <4>1 DEF MarkedIsKnown
      <4> QED
        BY <3>1, <3>2, <3>4, <4>2
    <3> QED
      BY <3>5 DEF MarkedIsKnown
  <2> QED
    BY <2>1, <2>2
<1>3. ASSUME NEW t \in Threads, Notify(t) PROVE MarkedIsKnown'
  <2>1. \A j \in Consumers : pc'[j] \notin Locked \cup {"parked"}
    BY <1>3, NotifyFrame
  <2> QED
    BY <2>1 DEF MarkedIsKnown, Locked
<1>4. CASE Join \/ ClientStep
  <2>1. /\ UNCHANGED <<strategy, blockVars>> /\ \A j \in Consumers : pc'[j] = pc[j]
        /\ \A t \in Threads : pc[t] \in Notifies => pc'[t] = pc[t]
    BY <1>4, ClientFrame DEF ClientStep
  <2>2. \A t \in Threads : pc[t] = "notify" => pc'[t] = "notify"
    BY <2>1 DEF Notifies
  <2> QED
    BY <2>1, <2>2 DEF MarkedIsKnown, Lite, blockVars
<1>5. CASE UNCHANGED vars
  BY <1>5 DEF vars, blockVars, MarkedIsKnown, Lite
<1> QED
  BY <1>1, <1>2, <1>3, <1>4, <1>5 DEF Next, ThreadStep, NotifierStep
-----------------------------------------------------------------------------
(* No cause to wake up is missed.                                          *)

LEMMA CauseStep ==
  ASSUME TypeOK, ControlOK, MutexHeld, TodoOK, BufferedOK, MarkedIsKnown, CauseIsPending,
         [Next]_vars
  PROVE  CauseIsPending'
<1> DEFINE Pending == \E t \in Threads : pc[t] \in Notifies
           Late(i) == \A t \in Sources[i] : cursor[t] >= next[i]
<1>a. /\ pc \in [Threads -> Labels] /\ Consumers \subseteq Threads
      /\ buffered \in SUBSET Consumers /\ signal_needed \in BOOLEAN /\ strategy \in Strategies
      /\ 0 \in Threads /\ GateThreads \subseteq Threads
      /\ cursor \in [Threads -> -1 .. MaxSequence - 1]
      /\ next \in [Consumers -> 0 .. MaxSequence]
      /\ upper \in [Consumers -> -1 .. MaxSequence - 1]
  BY ThreadSets DEF TypeOK
<1>b. ASSUME ~reordered, NEW i \in Consumers
      PROVE  /\ FoundNothing(i) /\ Late(i) => Pending
             /\ pc[i] \in {"park", "parked"} /\ shutdown = next[i] => Pending
  BY <1>b DEF CauseIsPending
<1>c. SUFFICES ASSUME ~reordered', NEW i \in Consumers
               PROVE  /\ FoundNothing(i)' /\ Late(i)' => Pending'
                      /\ pc'[i] \in {"park", "parked"} /\ shutdown' = next'[i] => Pending'
  BY DEF CauseIsPending
<1>d. \/ strategy = "BlockingWaitStrategy" \/ Lite
      \/ pc[i] \notin Parks
  BY <1>a, Strategy DEF ControlOK
<1> HIDE DEF Pending
<1>1. CASE WaiterStep(i) \/ Drain(i)
  <2>1. /\ \A u \in Threads \ {i} : pc'[u] = pc[u]
        /\ pc[i] \notin Notifies /\ pc[i] # "parked"
        /\ shutdown' = shutdown /\ ~reordered
        /\ ~Handle(i) => cursor' = cursor /\ next' = next
    BY <1>1, <1>c, WaiterFrame
  <2>2. Pending => Pending'
    BY <1>a, <2>1 DEF Pending
  <2>3. CASE Handle(i)
    <3>1. pc'[i] \in {"load", "swap", "notify"}
      BY <1>a, <2>3, Strategy, WakeGoes, AfterWakeGoes DEF Handle, Goto
    <3> QED
      BY <3>1 DEF FoundNothing
  <2>4. CASE LoadLocked(i)
    <3>1. todo'[i] # Sources[i] => ~Last(i)
      BY <2>4, LoadCellEffect DEF LoadLocked
    <3>2. pc'[i] \in {"load locked", "down locked", "handle"} /\ pc[i] = "load locked"
      BY <1>a, <2>4 DEF LoadLocked, Goto
    <3>3. pc'[i] = "down locked" => Last(i) /\ ~ (upper'[i] >= next[i])
      BY <1>a, <2>4 DEF LoadLocked, Goto
    <3>4. upper' \in [Consumers -> -1 .. MaxSequence - 1]
      BY <2>4, LoadCellEffect DEF LoadLocked
    <3>5. upper'[i] < next[i] =>
             \/ \E t \in Sources[i] : ~ (cursor[t] >= next[i])
             \/ todo[i] # Sources[i] /\ upper[i] < next[i]
      BY <2>4, LoadCellEffect DEF LoadLocked
    <3>6. cursor' = cursor /\ next' = next
      BY <2>4 DEF LoadLocked
    <3>7. FoundNothing(i)' => upper'[i] < next[i]
      <4>1. CASE pc'[i] = "down locked"
        <5>1. upper'[i] \in Int /\ next[i] \in Int
          BY <1>a, <3>4, BlockingWaitAssumption
        <5>2. ~ (upper'[i] >= next[i])
          BY <3>3, <4>1
        <5>3. upper'[i] < next[i]
          BY <5>1, <5>2
        <5> QED
          BY <5>3
      <4> QED
        BY <3>2, <3>6, <4>1 DEF FoundNothing
    <3>8. FoundNothing(i)' /\ Late(i)' => FoundNothing(i) /\ Late(i)
      BY <3>2, <3>5, <3>6, <3>7 DEF FoundNothing
    <3> QED
      BY <1>b, <2>1, <2>2, <3>2, <3>8
  <2>5. CASE LoadShutdownLocked(i)
    <3>1. /\ pc'[i] = "park" => shutdown # next[i]
          /\ pc'[i] \in {"park", "stopped"} /\ pc[i] = "down locked"
      BY <1>a, <2>5 DEF LoadShutdownLocked, Goto
    <3>2. cursor' = cursor /\ next' = next
      BY <2>5 DEF LoadShutdownLocked, waiterVars
    <3> QED
      BY <1>b, <2>1, <2>2, <3>1, <3>2 DEF FoundNothing
  <2>6. CASE Park(i)
    <3>1. pc'[i] = "parked" /\ pc[i] = "park"
      BY <1>a, <2>6 DEF Park, Goto
    <3>2. cursor' = cursor /\ next' = next
      BY <2>6 DEF Park, waiterVars
    <3> QED
      BY <1>b, <2>1, <2>2, <3>1, <3>2 DEF FoundNothing
  <2>7. CASE Drain(i)
    <3>1. UNCHANGED <<pc, cursor, next, todo, upper>>
      BY <2>7 DEF Drain, waiterVars
    <3> QED
      BY <1>b, <2>1, <2>2, <3>1 DEF FoundNothing
  <2>8. CASE Mark(i) \/ Lock(i) \/ Relock(i) \/ Load(i) \/ LoadShutdown(i)
    <3>1. pc'[i] \notin {"down locked", "park", "parked"}
      BY <1>a, <2>8 DEF Mark, Lock, Relock, Load, LoadShutdown, Goto, BeforeParking
    <3>2. CASE pc'[i] = "load locked"
      <4>1. pc[i] \notin {"load", "load locked"} /\ todo' = todo
        BY <1>a, <2>8, <3>2 DEF Mark, Lock, Relock, Load, LoadShutdown, Goto, waiterVars
      <4> QED
        BY <3>1, <4>1 DEF FoundNothing, TodoOK
    <3> QED
      BY <3>1, <3>2 DEF FoundNothing
  <2> QED
    BY <1>1, <2>3, <2>4, <2>5, <2>6, <2>7, <2>8 DEF WaiterStep
<1>2. ASSUME NEW k \in Consumers \ {i}, WaiterStep(k) \/ Drain(k)
      PROVE  /\ FoundNothing(i)' /\ Late(i)' => Pending'
             /\ pc'[i] \in {"park", "parked"} /\ shutdown' = next'[i] => Pending'
  <2>1. /\ \A u \in Threads \ {k} : pc'[u] = pc[u]
        /\ pc[k] \notin Notifies
        /\ todo'[i] = todo[i] /\ upper'[i] = upper[i] /\ next'[i] = next[i]
        /\ shutdown' = shutdown /\ ~reordered /\ strategy' = strategy
        /\ ~Handle(k) => cursor' = cursor
    BY <1>2, <1>c, WaiterFrame
  <2>2. Pending => Pending'
    BY <1>a, <2>1 DEF Pending
  <2>3. pc'[i] = pc[i]
    BY <1>a, <2>1
  <2>4. CASE Handle(k)
    <3>1. CASE pc[i] \in Parks
      <4>1. pc'[k] = Wake(k)
        BY <1>a, <2>4 DEF Handle, Goto
      <4>2. Wake(k) \in Notifies
        BY <1>a, <1>d, <3>1, WakeGoes DEF Notifies
      <4> QED
        BY <1>a, <4>1, <4>2 DEF Pending
    <3>2. CASE pc[i] \notin Parks
      BY <2>3, <3>2 DEF FoundNothing, Parks, Locked
    <3> QED
      BY <3>1, <3>2
  <2>5. CASE ~Handle(k)
    BY <1>b, <2>1, <2>2, <2>3, <2>5 DEF FoundNothing
  <2> QED
    BY <2>4, <2>5
<1>3. ASSUME NEW t \in Threads, Swap(t)
      PROVE  /\ FoundNothing(i)' /\ Late(i)' => Pending'
             /\ pc'[i] \in {"park", "parked"} /\ shutdown' = next'[i] => Pending'
  <2>1. /\ pc[t] = "swap" /\ \A u \in Threads \ {t} : pc'[u] = pc[u]
        /\ pc'[t] = IF signal_needed THEN "notify" ELSE AfterWake(t)
        /\ t \in Consumers => pc'[t] \in {"load", "notify"}
        /\ UNCHANGED <<cursor, shutdown, buffered, reordered, todo, upper, next>>
    BY <1>3, SwapFrame DEF waiterVars
  <2>2. CASE signal_needed
    BY <2>1, <2>2 DEF Pending, Notifies
  <2>3. CASE i # t /\ ~signal_needed
    <3>1. pc'[i] = pc[i] /\ (FoundNothing(i)' <=> FoundNothing(i)) /\ (Late(i)' <=> Late(i))
      BY <1>a, <2>1, <2>3 DEF FoundNothing
    <3>2. Lite
      BY <2>1 DEF ControlOK
    <3>3. FoundNothing(i) => i \notin buffered
      BY <1>c, <2>1 DEF FoundNothing, BufferedOK
    <3>4. FoundNothing(i) => \E u \in Threads : pc[u] = "notify"
      BY <2>3, <3>2, <3>3 DEF MarkedIsKnown, FoundNothing
    <3>5. (\E u \in Threads : pc[u] = "notify") => Pending'
      BY <2>1 DEF Pending, Notifies
    <3> QED
      BY <3>1, <3>4, <3>5 DEF FoundNothing
  <2>4. CASE i = t
    BY <2>1, <2>4 DEF FoundNothing
  <2> QED
    BY <2>2, <2>3, <2>4
<1>4. ASSUME NEW t \in Threads, Notify(t)
      PROVE  /\ FoundNothing(i)' /\ Late(i)' => Pending'
             /\ pc'[i] \in {"park", "parked"} /\ shutdown' = next'[i] => Pending'
  <2>1. pc'[i] \notin Locked \cup {"parked"}
    BY <1>4, NotifyFrame
  <2> QED
    BY <2>1 DEF FoundNothing, Locked
<1>5. CASE Join \/ ClientStep
  <2>1. /\ UNCHANGED <<strategy, blockVars, waiterVars>> /\ pc'[i] = pc[i]
        /\ \A t \in Threads : pc[t] \in Notifies => pc'[t] = pc[t]
    BY <1>5, ClientFrame DEF ClientStep
  <2>2. ~reordered /\ (FoundNothing(i)' <=> FoundNothing(i)) /\ next' = next
    BY <1>c, <2>1 DEF FoundNothing, blockVars, waiterVars
  <2>3. Pending => Pending'
    BY <2>1 DEF Pending
  <2>4. CASE pc[i] \in Parks
    <3>1. \A t \in Threads : Wake(t) \in Notifies
      BY <1>a, <1>d, <2>4, WakeGoes DEF Notifies
    <3>2. strategy \notin Spinning
      BY <1>d, <2>4 DEF Spinning, Lite
    <3>3. CASE Publish
      <4>1. pc'[0] \in Notifies
        BY <1>a, <3>1, <3>3 DEF Publish, AfterPublish, Goto
      <4> QED
        BY <1>a, <4>1 DEF Pending
    <3>4. CASE DropProducer
      <4>1. pc'[0] \in Notifies
        BY <1>a, <3>1, <3>2, <3>4 DEF DropProducer, AfterShutdown, Goto
      <4> QED
        BY <1>a, <4>1 DEF Pending
    <3>5. ASSUME NEW t \in GateThreads, SetGate(t) PROVE Pending'
      <4>1. pc'[t] \in Notifies
        BY <1>a, <3>1, <3>5 DEF SetGate, AfterSet, Goto
      <4> QED
        BY <1>a, <4>1 DEF Pending
    <3>6. CASE Join
      <4>1. cursor' = cursor /\ shutdown' = shutdown
        BY <3>6 DEF Join
      <4> QED
        BY <1>b, <2>1, <2>2, <2>3, <4>1
    <3> QED
      BY <1>5, <3>3, <3>4, <3>5, <3>6 DEF ClientStep
  <2>5. CASE pc[i] \notin Parks
    BY <2>1, <2>5 DEF FoundNothing, Parks, Locked
  <2> QED
    BY <2>4, <2>5
<1>6. CASE UNCHANGED vars
  <2>1. UNCHANGED <<pc, cursor, shutdown, reordered, todo, upper, next>>
    BY <1>6 DEF vars, blockVars, waiterVars
  <2> QED
    BY <1>b, <1>c, <2>1 DEF FoundNothing, Pending
<1> QED
  BY <1>1, <1>2, <1>3, <1>4, <1>5, <1>6 DEF Next, ThreadStep, NotifierStep
-----------------------------------------------------------------------------
(* The order of the cursors.                                               *)

LEMMA CursorsOnlyAdvance ==
  ASSUME TypeOK, InOrder, [Next]_vars
  PROVE  \A t \in Threads : cursor[t] <= cursor'[t]
<1>a. /\ cursor \in [Threads -> -1 .. MaxSequence - 1] /\ MaxSequence \in Nat
      /\ 0 \in Threads /\ GateThreads \subseteq Threads /\ Consumers \subseteq Threads
      /\ next \in [Consumers -> 0 .. MaxSequence]
      /\ upper \in [Consumers -> -1 .. MaxSequence - 1]
  BY ThreadSets, BlockingWaitAssumption DEF TypeOK
<1>1. ASSUME NEW i \in Consumers, Handle(i) PROVE \A t \in Threads : cursor[t] <= cursor'[t]
  <2>1. cursor[i] <= upper[i]
    BY <1>a, <1>1 DEF InOrder, KeepsBehind, Handle
  <2> QED
    BY <1>a, <1>1, <2>1 DEF Handle
<1>2. CASE Publish
  BY <1>a, <1>2 DEF Publish
<1>3. ASSUME NEW g \in GateThreads, SetGate(g) PROVE \A t \in Threads : cursor[t] <= cursor'[t]
  <2>1. PICK v \in cursor[g] + 1 .. MaxSequence - 1 : cursor' = [cursor EXCEPT ![g] = v]
    BY <1>3 DEF SetGate
  <2>2. cursor[g] \in Int /\ v \in Int /\ cursor[g] <= v
    BY <1>a, <2>1
  <2> QED
    BY <1>a, <2>1, <2>2
<1>4. CASE cursor' = cursor
  BY <1>a, <1>4
<1> QED
  <2>1. \/ \E i \in Consumers : Handle(i)
        \/ Publish
        \/ \E g \in GateThreads : SetGate(g)
        \/ cursor' = cursor
    BY DEF Next, ThreadStep, WaiterStep, NotifierStep, ClientStep, Load, LoadShutdown, Lock, Mark,
         LoadLocked, LoadShutdownLocked, Park, Relock, Drain, Swap, Notify, Join, DropProducer, vars
  <2> QED
    BY <2>1, <1>1, <1>2, <1>3, <1>4

\* A consumer whose locals stay as they are keeps behind, for what is in front of
\* it only advances.
LEMMA StillBehind ==
  ASSUME TypeOK, TypeOK', NEW i \in Consumers, KeepsBehind(i),
         \A t \in Threads : cursor[t] <= cursor'[t],
         cursor'[i] = cursor[i], next'[i] = next[i], upper'[i] = upper[i], todo'[i] = todo[i],
         pc'[i] = "handle" => pc[i] = "handle"
  PROVE  KeepsBehind(i)'
<1>a. /\ cursor \in [Threads -> -1 .. MaxSequence - 1] /\ cursor' \in [Threads -> -1 .. MaxSequence - 1]
      /\ 0 \in Threads /\ Sources[i] \subseteq Threads /\ i \in Threads /\ MaxSequence \in Nat
      /\ upper[i] \in -1 .. MaxSequence - 1 /\ next[i] \in 0 .. MaxSequence
  BY ThreadSets, BlockingWaitAssumption DEF TypeOK
<1> DEFINE t0 == 0
<1>1. \A t \in Threads : cursor[t] \in Int /\ cursor'[t] \in Int /\ cursor[t] <= cursor'[t]
  BY <1>a
<1>2. cursor'[i] <= cursor'[0] /\ upper'[i] <= cursor'[0]
  BY <1>a, <1>1 DEF KeepsBehind
<1>3. ASSUME NEW t \in Sources[i]
      PROVE  /\ cursor'[i] <= cursor'[t]
             /\ pc'[i] = "handle" \/ t \notin todo'[i] => upper'[i] <= cursor'[t]
  BY <1>a, <1>1, <1>3 DEF KeepsBehind
<1> QED
  BY <1>2, <1>3 DEF KeepsBehind

\* A load keeps the least value behind the producer: the first cell of a round is
\* not a gate.
LEMMA LoadCellKeepsBehind ==
  ASSUME TypeOK, TodoOK, InOrder, NEW i \in Consumers, LoadCell(i)
  PROVE  /\ upper'[i] <= cursor[0]
         /\ \A t \in Sources[i] : Last(i) \/ t \notin todo'[i] => upper'[i] <= cursor[t]
<1> DEFINE c == First(i)
<1>1. /\ todo \in [Consumers -> SUBSET Threads]
      /\ upper \in [Consumers -> -1 .. MaxSequence - 1]
      /\ cursor \in [Threads -> -1 .. MaxSequence - 1]
      /\ MaxSequence \in Nat /\ 0 \in Threads
      /\ Sources \in [Consumers -> SUBSET Threads]
  BY BlockingWaitAssumption, ThreadSets DEF TypeOK
<1>2. todo[i] # {} /\ todo[i] \subseteq Sources[i]
  BY DEF TodoOK
<1>3. c \in todo[i] /\ c \in Threads /\ \A u \in todo[i] : c <= u
  <2>1. todo[i] \subseteq Nat
    BY <1>1, BlockingWaitAssumption DEF Threads
  <2>2. \E t \in todo[i] : \A u \in todo[i] : t <= u
    BY <1>2, <2>1, LeastElement
  <2>3. c \in todo[i] /\ \A u \in todo[i] : c <= u
    BY <2>2, Zenon DEF First
  <2> QED
    BY <1>1, <2>3
<1>4. /\ todo' = [todo EXCEPT ![i] = IF Last(i) THEN Sources[i] ELSE todo[i] \ {c}]
      /\ upper' = [upper EXCEPT ![i] = IF todo[i] = Sources[i] \/ cursor[c] < upper[i]
                                       THEN cursor[c] ELSE upper[i]]
  BY DEF LoadCell
<1>5. Last(i) <=> todo[i] = {c}
  BY DEF Last
<1> HIDE DEF c
<1>6. ASSUME todo[i] = Sources[i] PROVE cursor[c] <= cursor[0]
  <2>1. c \notin GateThreads
    <3>1. PICK u \in Sources[i] : u \notin GateThreads
      BY BlockingWaitAssumption
    <3>2. c <= u /\ u \in Threads /\ c \in Threads
      BY <1>1, <1>3, <1>6, <3>1
    <3> QED
      BY <3>1, <3>2, BlockingWaitAssumption DEF GateThreads, Threads
  <2>2. c = 0 \/ c \in Consumers
    BY <1>3, <2>1, BlockingWaitAssumption DEF GateThreads, Threads, Consumers
  <2> QED
    BY <1>1, <2>2 DEF InOrder, KeepsBehind
<1>7. upper[i] <= cursor[0] /\ \A t \in Sources[i] \ todo[i] : upper[i] <= cursor[t]
  BY DEF InOrder, KeepsBehind
<1>8. cursor[c] \in Int /\ upper[i] \in Int /\ cursor[0] \in Int
  BY <1>1, <1>3
<1>9. upper'[i] <= cursor[0]
  BY <1>1, <1>4, <1>6, <1>7, <1>8
<1>10. ASSUME NEW t \in Sources[i], t \notin todo[i] \ {c} PROVE upper'[i] <= cursor[t]
  <2>1. cursor[t] \in Int
    BY <1>1
  <2>2. CASE t = c
    BY <1>1, <1>4, <1>8, <2>2
  <2>3. CASE t \notin todo[i]
    BY <1>1, <1>4, <1>7, <1>8, <2>1, <2>3
  <2> QED
    BY <1>10, <2>2, <2>3
<1>11. ASSUME NEW t \in Sources[i], Last(i) \/ t \notin todo'[i] PROVE t \notin todo[i] \ {c}
  BY <1>1, <1>4, <1>5, <1>11
<1> QED
  BY <1>9, <1>10, <1>11

LEMMA InOrderStep ==
  ASSUME TypeOK, TypeOK', ControlOK, MutexHeld, TodoOK, BufferedOK, InOrder, [Next]_vars
  PROVE  InOrder'
<1>a. /\ pc \in [Threads -> Labels] /\ Consumers \subseteq Threads
      /\ cursor \in [Threads -> -1 .. MaxSequence - 1] /\ MaxSequence \in Nat
      /\ next \in [Consumers -> 0 .. MaxSequence]
      /\ upper \in [Consumers -> -1 .. MaxSequence - 1] /\ 0 \in Threads
      /\ Sources \in [Consumers -> SUBSET Threads]
  BY ThreadSets, BlockingWaitAssumption DEF TypeOK
<1>b. \A t \in Threads : cursor[t] <= cursor'[t]
  BY CursorsOnlyAdvance
<1>1. ASSUME NEW i \in Consumers, WaiterStep(i) \/ Drain(i) PROVE InOrder'
  <2>1. \A j \in Consumers \ {i} :
          /\ todo'[j] = todo[j] /\ upper'[j] = upper[j] /\ next'[j] = next[j] /\ pc'[j] = pc[j]
    BY <1>a, <1>1, WaiterFrame
  <2>2. \A j \in Consumers \ {i} : cursor'[j] = cursor[j]
    BY <1>a, <1>1, WaiterFrame DEF Handle
  <2>3. ASSUME NEW j \in Consumers \ {i} PROVE KeepsBehind(j)'
    BY <1>b, <2>1, <2>2, StillBehind DEF InOrder
  <2>4. CASE Load(i) \/ LoadLocked(i)
    <3>1. LoadCell(i) /\ cursor' = cursor /\ next' = next /\ pc[i] # "handle"
      BY <2>4 DEF Load, LoadLocked
    <3>2. /\ upper'[i] <= cursor[0]
          /\ \A t \in Sources[i] : Last(i) \/ t \notin todo'[i] => upper'[i] <= cursor[t]
      BY <3>1, LoadCellKeepsBehind
    <3>3. pc'[i] = "handle" => Last(i) /\ upper'[i] >= next[i]
      BY <1>a, <2>4 DEF Load, LoadLocked, Goto
    <3>4. KeepsBehind(i)'
      BY <3>1, <3>2, <3>3 DEF InOrder, KeepsBehind
    <3> QED
      BY <2>3, <3>4 DEF InOrder
  <2>5. CASE Handle(i)
    <3>1. /\ cursor' = [cursor EXCEPT ![i] = upper[i]]
          /\ next' = [next EXCEPT ![i] = upper[i] + 1]
          /\ todo' = todo /\ upper' = upper /\ pc[i] = "handle" /\ pc'[i] = Wake(i)
      BY <1>a, <2>5 DEF Handle, Goto
    <3>2. pc'[i] # "handle"
      BY <1>a, <3>1, Strategy, WakeGoes, AfterWakeGoes DEF TypeOK, Parking
    <3>3. todo[i] = Sources[i]
      BY <3>1 DEF TodoOK
    <3>4. \A t \in Sources[i] : t # i
      BY BlockingWaitAssumption DEF Consumers
    <3>5. 0 # i
      BY ThreadSets
    <3>6. cursor'[i] = upper[i] /\ next'[i] = upper[i] + 1 /\ cursor'[0] = cursor[0]
      BY <1>a, <3>1, <3>5
    <3>7. \A t \in Sources[i] : cursor'[t] = cursor[t] /\ upper[i] <= cursor[t]
      BY <1>a, <3>1, <3>4 DEF InOrder, KeepsBehind
    <3>8. upper[i] \in Int /\ upper[i] <= cursor[0]
      BY <1>a DEF InOrder, KeepsBehind
    <3>9. cursor'[i] = next'[i] - 1
      BY <3>6, <3>8
    <3>10. KeepsBehind(i)'
      BY <3>1, <3>2, <3>3, <3>6, <3>7, <3>8, <3>9 DEF KeepsBehind
    <3> QED
      BY <2>3, <3>10 DEF InOrder
  <2>6. CASE ~ (Load(i) \/ LoadLocked(i) \/ Handle(i))
    <3>1. UNCHANGED <<cursor, next, upper, todo>>
      BY <1>1, <2>6 DEF WaiterStep, Drain, LoadShutdown, Lock, Mark, LoadShutdownLocked, Park, Relock,
           waiterVars
    <3>2. pc'[i] = "handle" => pc[i] = "handle"
      BY <1>a, <1>1, <2>6 DEF WaiterStep, Drain, LoadShutdown, Lock, Mark, LoadShutdownLocked, Park,
           Relock, Goto, BeforeParking
    <3>3. KeepsBehind(i)'
      BY <1>b, <3>1, <3>2, StillBehind DEF InOrder
    <3> QED
      BY <2>3, <3>3 DEF InOrder
  <2> QED
    BY <2>4, <2>5, <2>6
<1>2. ASSUME NEW t \in Threads, Swap(t) \/ Notify(t) PROVE InOrder'
  <2>1. UNCHANGED <<cursor, waiterVars>>
    BY <1>2 DEF Swap, Notify
  <2>2. ASSUME NEW j \in Consumers PROVE pc'[j] = "handle" => pc[j] = "handle"
    <3>1. CASE Swap(t)
      BY <1>a, <3>1, SwapFrame
    <3>2. CASE Notify(t)
      BY <1>a, <3>2, NotifyFrame, AfterWakeGoes
    <3> QED
      BY <1>2, <3>1, <3>2
  <2>3. ASSUME NEW j \in Consumers PROVE KeepsBehind(j)'
    BY <1>b, <2>1, <2>2, StillBehind DEF InOrder, waiterVars
  <2> QED
    BY <2>3 DEF InOrder
<1>3. CASE Join \/ ClientStep
  <2>1. UNCHANGED waiterVars /\ \A j \in Consumers : pc'[j] = pc[j]
    BY <1>3, ClientFrame DEF ClientStep
  <2>2. \A j \in Consumers : cursor'[j] = cursor[j]
    BY <1>a, <1>3, ThreadSets DEF ClientStep, Join, Publish, DropProducer, SetGate
  <2>3. ASSUME NEW j \in Consumers PROVE KeepsBehind(j)'
    BY <1>b, <2>1, <2>2, StillBehind DEF InOrder, waiterVars
  <2> QED
    BY <2>3 DEF InOrder
<1>4. CASE UNCHANGED vars
  BY <1>4 DEF vars, waiterVars, InOrder, KeepsBehind
<1> QED
  BY <1>1, <1>2, <1>3, <1>4 DEF Next, ThreadStep, NotifierStep

LEMMA StopsStep ==
  ASSUME TypeOK, ControlOK, MutexHeld, TodoOK, BufferedOK, StopsBehindLast, [Next]_vars
  PROVE  StopsBehindLast'
<1>a. /\ pc \in [Threads -> Labels] /\ Consumers \subseteq Threads
      /\ cursor \in [Threads -> -1 .. MaxSequence - 1] /\ MaxSequence \in Nat
      /\ next \in [Consumers -> 0 .. MaxSequence] /\ shutdown \in Int
      /\ 0 \in Threads /\ 0 \notin Consumers /\ 0 \notin GateThreads /\ GateThreads \subseteq Threads
      /\ Consumers \cap GateThreads = {}
  BY ThreadSets, BlockingWaitAssumption DEF TypeOK
<1>1. ASSUME NEW i \in Consumers, WaiterStep(i) \/ Drain(i) PROVE StopsBehindLast'
  <2>1. /\ pc'[0] = pc[0] /\ \A j \in Consumers \ {i} : pc'[j] = pc[j] /\ next'[j] = next[j]
        /\ shutdown' = shutdown
    BY <1>a, <1>1, WaiterFrame
  <2>2. cursor'[0] = cursor[0]
    BY <1>a, <1>1, WaiterFrame DEF Handle
  <2>3. pc'[i] = "stopped" => pc[i] # "handle" /\ (pc[i] = "stopped" \/ shutdown = next[i])
    BY <1>a, <1>1, Strategy, WakeGoes, AfterWakeGoes
       DEF TypeOK, WaiterStep, Drain, Load, LoadShutdown, Lock, Mark, LoadLocked, LoadShutdownLocked,
           Park, Relock, Handle, Goto, BeforeParking, Parking
  <2>4. pc'[i] = "stopped" => next'[i] = next[i]
    BY <1>a, <1>1, <2>3, WaiterFrame DEF Handle
  <2> QED
    BY <2>1, <2>2, <2>3, <2>4 DEF StopsBehindLast
<1>2. ASSUME NEW t \in Threads, Swap(t) \/ Notify(t) PROVE StopsBehindLast'
  <2>1. UNCHANGED <<cursor, shutdown, next>>
    BY <1>2 DEF Swap, Notify, waiterVars
  <2>2. \A u \in Threads \ {t} : pc'[u] = pc[u] \/ (pc[u] = "parked" /\ pc'[u] = "relock")
    BY <1>a, <1>2, SwapFrame, NotifyFrame
  <2>3. pc'[t] \in {"notify", AfterWake(t)} /\ pc[t] \in Notifies
    BY <1>a, <1>2, SwapFrame, NotifyFrame DEF Notify, Notifies
  <2>4. ASSUME NEW j \in Consumers, pc'[j] = "stopped" PROVE pc[j] = "stopped"
    BY <1>a, <2>2, <2>3, <2>4, AfterWakeGoes
  <2>5. t = 0 => AfterWake(t) = IF shutdown # -1 THEN "joining" ELSE "idle"
    BY <1>a DEF AfterWake
  <2>6. (shutdown # -1 => pc'[0] # "idle") /\ (pc'[0] \in {"joining", "dropped"} => shutdown # -1)
    BY <1>a, <2>2, <2>3, <2>5 DEF StopsBehindLast
  <2> QED
    BY <2>1, <2>4, <2>6 DEF StopsBehindLast
<1>3. CASE Join \/ ClientStep
  <2>1. UNCHANGED waiterVars /\ \A j \in Consumers : pc'[j] = pc[j]
    BY <1>3, ClientFrame DEF ClientStep
  <2>2. CASE Join
    BY <1>a, <2>1, <2>2 DEF Join, Goto, StopsBehindLast, waiterVars
  <2>3. CASE Publish
    <3>1. shutdown = -1 /\ shutdown' = -1 /\ pc'[0] = AfterPublish
      BY <1>a, <2>3 DEF Publish, Goto
    <3>2. AfterPublish \in {"idle", "notify", "swap"}
      <4>1. AfterWake(0) = "idle"
        BY <1>a, <3>1 DEF AfterWake
      <4> QED
        BY <1>a, <4>1, Strategy, WakeGoes DEF AfterPublish, TypeOK
    <3>3. \A j \in Consumers : pc[j] # "stopped"
      BY <1>a, <3>1 DEF StopsBehindLast
    <3> QED
      BY <2>1, <3>1, <3>2, <3>3 DEF StopsBehindLast
  <2>4. CASE DropProducer
    <3>1. pc[0] = "idle" /\ shutdown' = cursor[0] + 1 /\ cursor' = cursor /\ shutdown = -1
      BY <2>4 DEF DropProducer, StopsBehindLast
    <3>2. shutdown' # -1 /\ pc'[0] = AfterShutdown
      BY <1>a, <2>4, <3>1 DEF DropProducer, Goto
    <3>3. AfterShutdown # "idle"
      BY <1>a, Strategy, WakeGoes DEF AfterShutdown, TypeOK
    <3>4. \A j \in Consumers : pc[j] # "stopped"
      BY <1>a, <3>1 DEF StopsBehindLast
    <3> QED
      BY <2>1, <3>1, <3>2, <3>3, <3>4 DEF StopsBehindLast
  <2>5. ASSUME NEW g \in GateThreads, SetGate(g) PROVE StopsBehindLast'
    <3>1. pc'[0] = pc[0] /\ cursor'[0] = cursor[0] /\ shutdown' = shutdown
      BY <1>a, <2>5 DEF SetGate, Goto
    <3> QED
      BY <2>1, <3>1 DEF StopsBehindLast, waiterVars
  <2> QED
    BY <1>3, <2>2, <2>3, <2>4, <2>5 DEF ClientStep
<1>4. CASE UNCHANGED vars
  BY <1>4 DEF vars, waiterVars, StopsBehindLast
<1> QED
  BY <1>1, <1>2, <1>3, <1>4 DEF Next, ThreadStep, NotifierStep
-----------------------------------------------------------------------------
(* The theorems.                                                           *)

LEMMA InitWaitInv == Init => WaitInv
<1> SUFFICES ASSUME Init PROVE WaitInv
  OBVIOUS
<1>1. /\ N \in Nat /\ MaxSequence \in Nat /\ SpinTries \in Nat
      /\ Sources \in [Consumers -> SUBSET Threads] /\ \A i \in Consumers : Sources[i] # {}
      /\ Free = 0 /\ 0 \notin Consumers /\ Consumers \subseteq Threads
  BY BlockingWaitAssumption, ThreadSets
<1>2. TypeOK
  <2>1. cursor \in [Threads -> -1 .. MaxSequence - 1] /\ shutdown \in -1 .. MaxSequence
    BY <1>1 DEF Init
  <2>2. pc \in [Threads -> Labels]
    BY DEF Init, Labels
  <2>3. /\ todo \in [Consumers -> SUBSET Threads]
        /\ next \in [Consumers -> 0 .. MaxSequence]
        /\ upper \in [Consumers -> -1 .. MaxSequence - 1]
        /\ tries \in [Consumers -> 0 .. SpinTries]
    BY <1>1 DEF Init
  <2> QED
    BY <2>1, <2>2, <2>3 DEF Init, TypeOK
<1>3. \A i \in Consumers : pc[i] = "load"
  BY <1>1 DEF Init
<1>4. \A t \in Threads : pc[t] \in {"load", "idle"} /\ (t \notin Consumers => pc[t] = "idle")
  BY DEF Init
<1>5. ControlOK
  BY <1>3, <1>4 DEF ControlOK, Parks, Locked, Notifies
<1>6. MutexHeld
  BY <1>1, <1>3 DEF Init, MutexHeld, Locked
<1>7. TodoOK
  BY <1>1, <1>3 DEF Init, TodoOK
<1>8. BufferedOK /\ MarkedIsKnown /\ CauseIsPending
  BY <1>3 DEF Init, BufferedOK, MarkedIsKnown, CauseIsPending, FoundNothing
<1>9. InOrder /\ StopsBehindLast
  <2>1. /\ \A t \in Threads : cursor[t] = -1
        /\ \A i \in Consumers : next[i] = 0 /\ upper[i] = -1 /\ todo[i] = Sources[i]
    BY DEF Init
  <2>2. 0 \in Threads /\ \A i \in Consumers : Sources[i] \subseteq Threads
    BY <1>1, ThreadSets
  <2> QED
    BY <1>1, <1>3, <1>4, <2>1, <2>2 DEF Init, InOrder, KeepsBehind, StopsBehindLast
<1> QED
  BY <1>2, <1>5, <1>6, <1>7, <1>8, <1>9 DEF WaitInv

LEMMA NextWaitInv == WaitInv /\ [Next]_vars => WaitInv'
BY TypeStep, ControlStep, MutexStep, TodoStep, BufferedStep, MarkedStep, CauseStep, InOrderStep,
   StopsStep DEF WaitInv

\* WaitInv is an inductive invariant: for every number of consumers and gates,
\* every barrier and every wait strategy of wait_strategies.rs.
THEOREM BlockingWaitInductive == Spec => []WaitInv
BY InitWaitInv, NextWaitInv, PTL DEF Spec

\* The variables of the wait strategies keep their types; in particular the
\* spins left never go below zero and no cursor leaves the range of published
\* sequences.
THEOREM BlockingWaitTypeOK == Spec => []TypeOK
<1>1. WaitInv => TypeOK
  BY DEF WaitInv
<1> QED
  BY <1>1, BlockingWaitInductive, PTL

\* No lost wakeup while the loads of a waiter keep behind its store to
\* signal_needed: a waiter that is parked with no notifier on its way has
\* nothing to wake up for (wait_for and wake of both blocking strategies).
THEOREM BlockingWaitNoLostWakeup == Spec => []NoLostWakeupInOrder
<1>1. ASSUME WaitInv PROVE NoLostWakeupInOrder
  <2>1. SUFFICES ASSUME ~reordered, \A t \in Threads : pc[t] \notin {"swap", "notify"},
                        NEW i \in Consumers, pc[i] = "parked"
                 PROVE  ~HasCause(i)
    BY DEF NoLostWakeupInOrder, NoLostWakeup
  <2>2. ~ \E t \in Threads : pc[t] \in Notifies
    BY <2>1 DEF Notifies
  <2>3. FoundNothing(i)
    BY <2>1 DEF FoundNothing
  <2> QED
    BY <1>1, <2>1, <2>2, <2>3 DEF WaitInv, CauseIsPending, HasCause
<1> QED
  BY <1>1, BlockingWaitInductive, PTL

\* With store buffers too, the next notifier of LiteBlockingWaitStrategy finds
\* every parked waiter: signal_needed is set, or whoever has taken it is about
\* to notify.
THEOREM BlockingWaitNextSignalWakes == Spec => []NextSignalWakes
<1>1. ASSUME WaitInv PROVE NextSignalWakes
  <2>1. SUFFICES ASSUME Lite, NEW i \in Consumers, pc[i] = "parked"
                 PROVE  signal_needed \/ \E t \in Threads : pc[t] = "notify"
    BY DEF NextSignalWakes
  <2>2. i \notin buffered
    BY <1>1, <2>1 DEF WaitInv, BufferedOK
  <2> QED
    BY <1>1, <2>1, <2>2 DEF WaitInv, MarkedIsKnown
<1> QED
  BY <1>1, BlockingWaitInductive, PTL

\* Deadlock freedom: when all threads are blocked, every consumer has caught up
\* with the producer or with a gate that it or a stage before it waits for, and
\* the drop has returned unless a gate is behind (wake in wait_strategies.rs, set
\* in sequence.rs, drop in producer/single.rs).  The consumer to look at is the
\* first of those upstream that stand at the same place.
THEOREM BlockingWaitSleepersAreCaughtUp == Spec => []SleepersAreCaughtUp
<1>1. ASSUME WaitInv PROVE SleepersAreCaughtUp
  <2> SUFFICES ASSUME ~reordered, \A t \in Threads : Blocked(t)
               PROVE  /\ \A i \in Consumers :
                           \E t \in {0} \cup GateThreads : cursor[i] = cursor[t] /\ (t = 0 \/ Upstream(t, i))
                      /\ shutdown # -1 /\ (\A t \in GateThreads : cursor[t] >= cursor[0]) =>
                           pc[0] = "dropped"
    BY DEF SleepersAreCaughtUp
  <2>a. /\ TypeOK /\ ControlOK /\ MutexHeld /\ CauseIsPending /\ InOrder /\ StopsBehindLast
    BY <1>1 DEF WaitInv
  <2>b. /\ cursor \in [Threads -> -1 .. MaxSequence - 1] /\ MaxSequence \in Nat
        /\ next \in [Consumers -> 0 .. MaxSequence] /\ shutdown \in Int
        /\ mutex \in {Free} \cup Consumers
        /\ Consumers \subseteq Threads /\ 0 \in Threads /\ 0 \notin Consumers
        /\ GateThreads \subseteq Threads /\ Sources \in [Consumers -> SUBSET Threads]
    BY <2>a, ThreadSets, BlockingWaitAssumption DEF TypeOK
  <2>1. mutex = Free
    <3> SUFFICES ASSUME mutex \in Consumers PROVE FALSE
      BY <2>b
    <3>1. pc[mutex] \in Locked
      BY <2>a DEF MutexHeld
    <3> QED
      BY <2>b, <3>1 DEF Blocked, Locked
  <2>2. ASSUME NEW i \in Consumers PROVE pc[i] \in {"parked", "stopped"}
    BY <2>a, <2>b, <2>1 DEF Blocked, ControlOK
  <2>3. ~ \E t \in Threads : pc[t] \in Notifies
    <3>1. ASSUME NEW t \in Threads PROVE pc[t] \notin Notifies
      <4>1. CASE t \in Consumers
        BY <2>2, <4>1 DEF Notifies
      <4>2. CASE t \notin Consumers
        BY <2>a, <2>1, <4>2 DEF Blocked, Notifies, ControlOK, Lite, Parking
      <4> QED
        BY <4>1, <4>2
    <3> QED
      BY <3>1
  <2>4. ASSUME NEW i \in Consumers, pc[i] = "parked"
        PROVE  shutdown # next[i] /\ \E t \in Sources[i] : cursor[t] = cursor[i]
    <3>1. FoundNothing(i)
      BY <2>4 DEF FoundNothing
    <3>2. shutdown # next[i]
      BY <2>a, <2>3, <2>4 DEF CauseIsPending
    <3>3. PICK t \in Sources[i] : ~ (cursor[t] >= next[i])
      BY <2>a, <2>3, <3>1 DEF CauseIsPending
    <3>4. cursor[t] \in Int /\ cursor[i] \in Int /\ next[i] \in Int
      BY <2>b
    <3>5. cursor[i] = next[i] - 1 /\ cursor[i] <= cursor[t]
      BY <2>a DEF InOrder, KeepsBehind
    <3> QED
      BY <3>2, <3>3, <3>4, <3>5
  <2>5. ASSUME NEW i \in Consumers
        PROVE  \E t \in {0} \cup GateThreads : cursor[i] = cursor[t] /\ (t = 0 \/ Upstream(t, i))
    <3> DEFINE S == {j \in Consumers : cursor[j] = cursor[i] /\ Upstream(j, i)}
    <3>1. PICK x \in S : \A y \in S : x <= y
      <4>1. S \subseteq Nat /\ i \in S
        BY DEF Consumers, Upstream
      <4> QED
        BY <4>1, LeastElement
    <3>2. CASE pc[x] = "parked"
      <4>1. PICK t \in Sources[x] : cursor[t] = cursor[x]
        BY <2>4, <3>2
      <4>2. Upstream(t, i)
        BY DEF Upstream
      <4>3. t \notin Consumers
        <5>1. SUFFICES ASSUME t \in Consumers PROVE FALSE
          OBVIOUS
        <5>2. t \in S
          BY <4>2, <4>1, <5>1
        <5>3. t < x
          BY <5>1, BlockingWaitAssumption
        <5> QED
          BY <3>1, <5>2, <5>3 DEF Consumers
      <4>4. t \in {0} \cup GateThreads
        BY <2>b, <4>3, BlockingWaitAssumption DEF Threads, Consumers, GateThreads
      <4> QED
        BY <4>2, <4>1, <4>4
    <3>3. CASE pc[x] = "stopped"
      <4>1. shutdown = next[x] /\ cursor[x] = next[x] - 1 /\ next[x] \in 0 .. MaxSequence
        BY <2>a, <2>b, <3>3 DEF StopsBehindLast, InOrder, KeepsBehind
      <4>2. shutdown = cursor[0] + 1 /\ cursor[0] \in Int
        BY <2>a, <2>b, <4>1 DEF StopsBehindLast
      <4>3. cursor[x] = cursor[0]
        BY <4>1, <4>2
      <4> QED
        BY <4>3
    <3> QED
      BY <2>2, <3>2, <3>3
  <2>6. ASSUME shutdown # -1, \A t \in GateThreads : cursor[t] >= cursor[0]
        PROVE  pc[0] = "dropped"
    <3>1. ASSUME NEW i \in Consumers, pc[i] = "parked" PROVE FALSE
      <4>1. PICK t \in {0} \cup GateThreads : cursor[i] = cursor[t]
        BY <2>5
      <4>2. cursor[i] \in Int /\ cursor[0] \in Int /\ next[i] \in Int
        BY <2>b
      <4>3. cursor[i] >= cursor[0]
        BY <2>6, <4>1, <4>2
      <4>4. cursor[i] <= cursor[0] /\ cursor[i] = next[i] - 1
        BY <2>a DEF InOrder, KeepsBehind
      <4>5. shutdown = cursor[0] + 1
        BY <2>a, <2>6 DEF StopsBehindLast
      <4> QED
        BY <2>4, <3>1, <4>2, <4>3, <4>4, <4>5
    <3>2. \A i \in Consumers : pc[i] = "stopped"
      BY <2>2, <3>1
    <3>3. pc[0] \in {"idle", "joining", "dropped"}
      BY <2>a, <2>b, <2>3 DEF ControlOK
    <3> QED
      BY <2>a, <2>b, <2>6, <3>2, <3>3 DEF StopsBehindLast, Blocked
  <2> QED
    BY <2>5, <2>6
<1> QED
  BY <1>1, BlockingWaitInductive, PTL
=============================================================================
