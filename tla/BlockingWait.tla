---------------------------- MODULE BlockingWait ----------------------------
(***************************************************************************)
(* The wait strategies (src/src/wait_strategies.rs).  Three of them spin.  *)
(* With the blocking ones all waiters of a disruptor share one mutex,      *)
(* which guards an epoch, and one condition variable:                      *)
(* BlockingWaitStrategy takes the mutex in every wake,                     *)
(* LiteBlockingWaitStrategy only if a waiter has set signal_needed since   *)
(* the last wake.                                                          *)
(*                                                                         *)
(* Thread 0 is the producer.  A consumer i in 1 .. N waits for the cells   *)
(* of the threads Sources[i] and, having handled a batch, stores its own   *)
(* cursor and wakes the others; an event poller that is driven with        *)
(* poll_wait does the same, in the drop of the guard.  The other threads   *)
(* are clients that set a gate each.  The ring is left out: no producer    *)
(* ever waits on the condition variable.                                   *)
(*                                                                         *)
(* The code sets signal_needed with a release store and then loads the     *)
(* barrier with relaxed loads.  Nothing orders the store before the loads, *)
(* and a processor with a store buffer performs them first: the store of a *)
(* waiter reaches the other threads at any moment up to its next unlock of *)
(* the mutex.  `reordered` tells the behaviours in which a waiter has      *)
(* loaded something while its store was delayed.  The swap of a notifier   *)
(* is a read-modify-write with release semantics: its cursor store is      *)
(* never delayed past it.                                                  *)
(***************************************************************************)
EXTENDS Integers

CONSTANTS
  N,             \* The number of consumers.
  NumGates,      \* The number of gates.
  Sources,       \* The threads whose cells a consumer waits for.
  Strategies,    \* The wait strategies to choose from; see Spinning and Parking.
  SpinTries,     \* with_spin_tries, and SPIN_TRIES of YieldingWaitStrategy.
  MaxSequence    \* Bound: the producer stops before this sequence.

Consumers == 1 .. N
GateThreads == N + 1 .. N + NumGates
Threads == 0 .. N + NumGates

Spinning == {"BusySpin", "BusySpinWithSpinLoopHint", "YieldingWaitStrategy"}
Parking == {"BlockingWaitStrategy", "LiteBlockingWaitStrategy"}

ASSUME BlockingWaitAssumption ==
  /\ N \in Nat /\ NumGates \in Nat
  /\ Sources \in [Consumers -> SUBSET Threads]
  \* A barrier may have gates, but it always has a cursor.
  /\ \A i \in Consumers :
       Sources[i] \ GateThreads # {} /\ \A j \in Sources[i] \cap Consumers : j < i
  /\ Strategies \subseteq Spinning \cup Parking
  /\ SpinTries \in Nat
  /\ MaxSequence \in Nat

VARIABLES
  strategy,       \* Fixed when the disruptor is built.
  cursor,         \* The cell of every thread.
  shutdown,       \* shutdown_at_sequence.
  mutex,          \* The consumer that holds the mutex, or Free.
  current,        \* The waiters that have seen the epoch as it is now.
  signal_needed,
  buffered,       \* Consumers whose store to signal_needed is not yet visible.
  reordered,      \* History: has a waiter loaded something in front of its store?
  pc,
  todo,           \* The cells of its barrier that get_after has yet to load.
  next,           \* The sequence a consumer requests.
  upper,          \* The least value loaded, then the upper bound of the batch.
  tries           \* The spins a waiter has left.

waiterVars == <<todo, next, upper, tries>>
blockVars == <<mutex, current, signal_needed, buffered, reordered>>
vars == <<strategy, cursor, shutdown, blockVars, pc, waiterVars>>

Free == 0

Lite == strategy = "LiteBlockingWaitStrategy"

Init ==
  /\ strategy \in Strategies
  /\ cursor = [t \in Threads |-> -1]
  /\ shutdown = -1
  /\ mutex = Free
  /\ current = {}
  /\ signal_needed = FALSE
  /\ buffered = {}
  /\ reordered = FALSE
  /\ pc = [t \in Threads |-> IF t \in Consumers THEN "load" ELSE "idle"]
  /\ todo = Sources
  /\ next = [i \in Consumers |-> 0]
  /\ upper = [i \in Consumers |-> -1]
  /\ tries = [i \in Consumers |-> SpinTries]

Goto(t, label) == pc' = [pc EXCEPT ![t] = label]

\* A release by consumer i of the mutex makes its earlier stores visible.
Unlock(i) ==
  /\ mutex' = Free
  /\ signal_needed' = (signal_needed \/ i \in buffered)
  /\ buffered' = buffered \ {i}

\* The store of consumer i leaves the store buffer.
Drain(i) ==
  /\ i \in buffered
  /\ signal_needed' = TRUE
  /\ buffered' = buffered \ {i}
  /\ UNCHANGED <<strategy, cursor, shutdown, mutex, current, reordered, pc, waiterVars>>
-----------------------------------------------------------------------------
(* wait_for: return_if_available_or_shutdown!, first without the mutex.    *)

\* The cells of the barrier are loaded one by one, the gates after the cursors;
\* the last one decides.
First(i) == CHOOSE t \in todo[i] : \A u \in todo[i] : t <= u
Last(i) == todo[i] = {First(i)}

LoadCell(i) ==
  LET value == cursor[First(i)] IN
  /\ todo' = [todo EXCEPT ![i] = IF Last(i) THEN Sources[i] ELSE @ \ {First(i)}]
  /\ upper' = [upper EXCEPT ![i] = IF todo[i] = Sources[i] \/ value < @ THEN value ELSE @]

\* get_after.
Load(i) ==
  /\ pc[i] = "load"
  /\ LoadCell(i)
  /\ Goto(i, IF ~Last(i) THEN "load" ELSE IF upper'[i] >= next[i] THEN "handle" ELSE "down")
  /\ UNCHANGED <<strategy, cursor, shutdown, blockVars, next, tries>>

\* Mutant: one spin too many.
SpinsLeftMutant(i) == tries[i] >= 0

SpinsLeft(i) == tries[i] > 0

\* The spinning strategies never stop; YieldingWaitStrategy yields from some time
\* on.
KeepsSpinning(i) == strategy \in Spinning \/ SpinsLeft(i)

\* The load of shutdown: spin on, or go on to block.
LoadShutdown(i) ==
  /\ pc[i] = "down"
  /\ Goto(i, IF shutdown = next[i] THEN "stopped"
             ELSE IF KeepsSpinning(i) THEN "load" ELSE "lock")
  /\ tries' = [tries EXCEPT ![i] = IF SpinsLeft(i) THEN @ - 1
                                   ELSE IF strategy \in Spinning THEN 0 ELSE SpinTries]
  /\ UNCHANGED <<strategy, cursor, shutdown, blockVars, todo, next, upper>>
-----------------------------------------------------------------------------
(* wait_for: under the mutex.                                              *)

\* Mutant: signal_needed is not set.
BeforeParkingMutantNoMark == "load locked"

\* Mutant: the barrier is not loaded again under the mutex.
BeforeParkingMutantNoCheck == "park"

\* Before it parks, a waiter announces itself (Lite) and looks once more.
BeforeParking == IF Lite THEN "mark" ELSE "load locked"

Lock(i) ==
  /\ pc[i] = "lock"
  /\ mutex = Free
  /\ mutex' = i
  /\ current' = current \cup {i}
  /\ Goto(i, BeforeParking)
  /\ UNCHANGED <<strategy, cursor, shutdown, signal_needed, buffered, reordered, waiterVars>>

\* signal_needed.store(true, Release).
Mark(i) ==
  /\ pc[i] = "mark"
  /\ buffered' = buffered \cup {i}
  /\ Goto(i, "load locked")
  /\ UNCHANGED <<strategy, cursor, shutdown, mutex, current, signal_needed, reordered, waiterVars>>

\* A load by waiter i, in front of its store if that is delayed.
Overtakes(i) == reordered' = (reordered \/ i \in buffered)

LoadLocked(i) ==
  /\ pc[i] = "load locked"
  /\ Overtakes(i)
  /\ LoadCell(i)
  /\ IF Last(i) /\ upper'[i] >= next[i]
       THEN Goto(i, "handle") /\ Unlock(i)
       ELSE /\ Goto(i, IF Last(i) THEN "down locked" ELSE "load locked")
            /\ UNCHANGED <<mutex, signal_needed, buffered>>
  /\ UNCHANGED <<strategy, cursor, shutdown, current, next, tries>>

LoadShutdownLocked(i) ==
  /\ pc[i] = "down locked"
  /\ Overtakes(i)
  /\ IF shutdown = next[i]
       THEN Goto(i, "stopped") /\ Unlock(i)
       ELSE Goto(i, "park") /\ UNCHANGED <<mutex, signal_needed, buffered>>
  /\ UNCHANGED <<strategy, cursor, shutdown, current, waiterVars>>

\* condvar.wait: joining the wait set and unlocking are one step.
Park(i) ==
  /\ pc[i] = "park"
  /\ Goto(i, "parked")
  /\ Unlock(i)
  /\ UNCHANGED <<strategy, cursor, shutdown, current, reordered, waiterVars>>

\* condvar.wait returns with the mutex held.  If the epoch has changed, the
\* guard is dropped and wait_for starts over.
Relock(i) ==
  /\ pc[i] = "relock"
  /\ mutex = Free
  /\ IF i \in current
       THEN mutex' = i /\ Goto(i, BeforeParking)
       ELSE mutex' = Free /\ Goto(i, "load")
  /\ UNCHANGED <<strategy, cursor, shutdown, current, signal_needed, buffered, reordered, waiterVars>>
-----------------------------------------------------------------------------
(* Notifiers.                                                              *)

\* Back from wake(): a consumer waits again, the producer is free or joins.
AfterWake(t) ==
  IF t \in Consumers THEN "load" ELSE IF t = 0 /\ shutdown # -1 THEN "joining" ELSE "idle"

\* The first step of wake(); that of NoopWakeupNotifier has none.
Wake(t) ==
  CASE strategy \in Spinning -> AfterWake(t)
    [] strategy = "BlockingWaitStrategy" -> "notify"
    [] strategy = "LiteBlockingWaitStrategy" -> "swap"

\* signal_needed.swap(false, AcqRel).
Swap(t) ==
  /\ pc[t] = "swap"
  /\ signal_needed' = FALSE
  /\ Goto(t, IF signal_needed THEN "notify" ELSE AfterWake(t))
  /\ UNCHANGED <<strategy, cursor, shutdown, mutex, current, buffered, reordered, waiterVars>>

\* Mutant: notify_one for notify_all.
NotifiedMutant(t) == {u \in Threads : pc[u] = "parked" /\ \A v \in Threads : pc[v] = "parked" => u <= v}

\* Whom a notifier takes out of the wait set: notify_all, not notify_one.
Notified(t) == {u \in Threads : pc[u] = "parked"}

\* The critical section of wake(): advance the epoch, which nobody has seen yet,
\* and notify all.
Notify(t) ==
  /\ pc[t] = "notify"
  /\ mutex = Free
  /\ current' = {}
  /\ pc' = [u \in Threads |-> IF u = t THEN AfterWake(t)
                              ELSE IF u \in Notified(t) THEN "relock" ELSE pc[u]]
  /\ UNCHANGED <<strategy, cursor, shutdown, mutex, signal_needed, buffered, reordered, waiterVars>>

\* The batch has been handled, or the guard is dropped: the consumer stores its
\* cursor and wakes others.
Handle(i) ==
  /\ pc[i] = "handle"
  /\ cursor' = [cursor EXCEPT ![i] = upper[i]]
  /\ next' = [next EXCEPT ![i] = upper[i] + 1]
  /\ tries' = [tries EXCEPT ![i] = SpinTries]
  /\ Goto(i, Wake(i))
  /\ UNCHANGED <<strategy, shutdown, blockVars, todo, upper>>

\* Mutant: publishing does not wake.
AfterPublishMutant == "idle"

AfterPublish == Wake(0)

Publish ==
  /\ pc[0] = "idle"
  /\ shutdown = -1
  /\ cursor[0] + 1 < MaxSequence
  /\ cursor' = [cursor EXCEPT ![0] = @ + 1]
  /\ Goto(0, AfterPublish)
  /\ UNCHANGED <<strategy, shutdown, blockVars, waiterVars>>

\* Mutant: DependentSequence::set, which does not wake anybody.
AfterSetMutant(t) == "idle"

AfterSet(t) == Wake(t)

\* GatedSequence::set, or a successful compare_and_set: the value, then the wake.
SetGate(t) ==
  /\ pc[t] = "idle"
  /\ \E v \in cursor[t] + 1 .. MaxSequence - 1 : cursor' = [cursor EXCEPT ![t] = v]
  /\ Goto(t, AfterSet(t))
  /\ UNCHANGED <<strategy, shutdown, blockVars, waiterVars>>

\* Mutant: drop does not wake the consumers.
AfterShutdownMutant == "joining"

AfterShutdown == IF strategy \in Spinning THEN "joining" ELSE Wake(0)

\* Dropping the producer: request shutdown, wake, join.
DropProducer ==
  /\ pc[0] = "idle"
  /\ shutdown' = cursor[0] + 1
  /\ Goto(0, AfterShutdown)
  /\ UNCHANGED <<strategy, cursor, blockVars, waiterVars>>

Join ==
  /\ pc[0] = "joining"
  /\ \A i \in Consumers : pc[i] = "stopped"
  /\ Goto(0, "dropped")
  /\ UNCHANGED <<strategy, cursor, shutdown, blockVars, waiterVars>>
-----------------------------------------------------------------------------
WaiterStep(i) ==
  \/ Load(i)
  \/ LoadShutdown(i)
  \/ Lock(i)
  \/ Mark(i)
  \/ LoadLocked(i)
  \/ LoadShutdownLocked(i)
  \/ Park(i)
  \/ Relock(i)
  \/ Handle(i)

NotifierStep(t) == Swap(t) \/ Notify(t)

\* What a thread does of its own accord.
ThreadStep(t) ==
  \/ t \in Consumers /\ (WaiterStep(t) \/ Drain(t))
  \/ NotifierStep(t)
  \/ t = 0 /\ Join

\* What a client decides to do.
ClientStep ==
  \/ \E t \in GateThreads : SetGate(t)
  \/ Publish
  \/ DropProducer

Next == (\E t \in Threads : ThreadStep(t)) \/ ClientStep

Spec == Init /\ [][Next]_vars

\* Threads that can run do, and handlers return; nobody has to publish, to set a
\* gate or to drop the producer.
Fairness == \A t \in Threads : WF_vars(ThreadStep(t))

FairSpec == Spec /\ Fairness
-----------------------------------------------------------------------------
(* Properties.                                                             *)

Labels == {"idle", "load", "down", "lock", "mark", "load locked", "down locked", "park",
           "parked", "relock", "swap", "notify", "handle", "joining", "dropped", "stopped"}

TypeOK ==
  /\ strategy \in Strategies
  /\ cursor \in [Threads -> -1 .. MaxSequence - 1]
  /\ shutdown \in -1 .. MaxSequence
  /\ mutex \in {Free} \cup Consumers
  /\ current \in SUBSET Consumers
  /\ signal_needed \in BOOLEAN
  /\ buffered \in SUBSET Consumers
  /\ reordered \in BOOLEAN
  /\ pc \in [Threads -> Labels]
  /\ todo \in [Consumers -> SUBSET Threads]
  /\ next \in [Consumers -> 0 .. MaxSequence]
  /\ upper \in [Consumers -> -1 .. MaxSequence - 1]
  /\ tries \in [Consumers -> 0 .. SpinTries]

\* Consumer i has something to wake up for.
HasCause(i) == (\A t \in Sources[i] : cursor[t] >= next[i]) \/ shutdown = next[i]

\* No lost wakeup (wait_strategies.rs:223-224 and 355-358): when no notifier is
\* on its way, a parked waiter has nothing to wake up for.
NoLostWakeup ==
  (\A t \in Threads : pc[t] \notin {"swap", "notify"}) =>
    \A i \in Consumers : pc[i] = "parked" => ~HasCause(i)

\* The same, if no waiter's loads have overtaken its store.
NoLostWakeupInOrder == ~reordered => NoLostWakeup

\* Whatever happened before, the next notifier wakes every waiter that is
\* parked: signal_needed is set, or somebody has taken it and is about to
\* notify.  This holds with store buffers too, so a lost wakeup lasts until
\* the next publication, gate or shutdown - if there is one.
NextSignalWakes ==
  Lite /\ (\E i \in Consumers : pc[i] = "parked") =>
    signal_needed \/ \E t \in Threads : pc[t] = "notify"

\* What a thread cannot get out of by itself: it needs the mutex, a notifier, the
\* end of the consumers it joins, or a client's decision.
Blocked(t) ==
  \/ pc[t] \in {"idle", "parked", "stopped", "dropped"}
  \/ pc[t] \in {"lock", "relock", "notify"} /\ mutex # Free
  \/ pc[t] = "joining" /\ \E i \in Consumers : pc[i] # "stopped"

\* Consumer i waits for thread t, through whichever stages: every set of threads
\* that has i, and with a consumer all that its barrier loads, has t.
Upstream(t, i) ==
  \A U \in SUBSET Threads :
    i \in U /\ (\A j \in U \cap Consumers : Sources[j] \subseteq U) => t \in U

\* Deadlock freedom: if all threads are blocked, there is nothing left to do.
\* Every consumer has caught up with the producer or with a gate that it or a
\* stage before it waits for (sequence.rs:85-87), and a drop has returned unless
\* a gate is behind.
SleepersAreCaughtUp ==
  ~reordered /\ (\A t \in Threads : Blocked(t)) =>
    /\ \A i \in Consumers :
         \E t \in {0} \cup GateThreads : cursor[i] = cursor[t] /\ (t = 0 \/ Upstream(t, i))
    /\ shutdown # -1 /\ (\A t \in GateThreads : cursor[t] >= cursor[0]) => pc[0] = "dropped"
-----------------------------------------------------------------------------
(* The inductive invariant behind the safety properties.                   *)

Locked == {"mark", "load locked", "down locked", "park"}

Parks == Locked \cup {"lock", "parked", "relock"}

Notifies == {"swap", "notify"}

\* Where each kind of thread can be, and under which strategy.
ControlOK ==
  /\ \A i \in Consumers : pc[i] \notin {"idle", "joining", "dropped"}
  /\ \A t \in Threads \ Consumers : pc[t] \in Notifies \cup {"idle", "joining", "dropped"}
  /\ \A t \in Threads : pc[t] \in Parks \cup Notifies => strategy \in Parking
  /\ \A t \in Threads : pc[t] \in {"mark", "swap"} => Lite

\* Exactly the waiters in between lock and unlock hold the mutex.
MutexHeld == \A i \in Consumers : mutex = i <=> pc[i] \in Locked

\* Between two rounds of loads a waiter has all cells of its barrier to load.
TodoOK ==
  \A i \in Consumers :
    /\ todo[i] # {}
    /\ todo[i] \subseteq Sources[i]
    /\ pc[i] \notin {"load", "load locked"} => todo[i] = Sources[i]

\* A store to signal_needed is delayed only while its waiter holds the mutex;
\* if loads keep in order, only until the first of them.
BufferedOK ==
  \A i \in buffered :
    /\ pc[i] \in {"load locked", "down locked", "park"}
    /\ ~reordered => pc[i] = "load locked" /\ todo[i] = Sources[i]

\* A waiter that has announced itself is known: its store is on its way or
\* visible, or a notifier that has taken it is about to notify.
MarkedIsKnown ==
  \A i \in Consumers :
    Lite /\ pc[i] \in {"load locked", "down locked", "park", "parked"} =>
      i \in buffered \/ signal_needed \/ \E t \in Threads : pc[t] = "notify"

\* Consumer i is in a round of loads under the mutex that has found a cell which
\* is behind, or past it.
FoundNothing(i) ==
  \/ pc[i] = "load locked" /\ todo[i] # Sources[i] /\ upper[i] < next[i]
  \/ pc[i] \in {"down locked", "park", "parked"}

\* What comes in after the loads of a waiter comes with a notifier that has yet
\* to take signal_needed or to notify.
CauseIsPending ==
  ~reordered =>
    \A i \in Consumers :
      /\ FoundNothing(i) /\ (\A t \in Sources[i] : cursor[t] >= next[i]) =>
           \E t \in Threads : pc[t] \in Notifies
      /\ pc[i] \in {"park", "parked"} /\ shutdown = next[i] =>
           \E t \in Threads : pc[t] \in Notifies

\* Consumer i is in front of no cell of its barrier, nor of the producer, and is
\* not about to be: the least value loaded is behind every cell loaded so far.
KeepsBehind(i) ==
  /\ cursor[i] = next[i] - 1
  /\ cursor[i] <= cursor[0] /\ upper[i] <= cursor[0]
  /\ pc[i] = "handle" => upper[i] >= next[i]
  /\ \A t \in Sources[i] :
       /\ cursor[i] <= cursor[t]
       /\ pc[i] = "handle" \/ t \notin todo[i] => upper[i] <= cursor[t]

InOrder == \A i \in Consumers : KeepsBehind(i)

\* Shutdown is requested behind the last publication, for good, and a consumer
\* that has stopped has got there.
StopsBehindLast ==
  /\ shutdown # -1 => shutdown = cursor[0] + 1 /\ pc[0] # "idle"
  /\ pc[0] \in {"joining", "dropped"} => shutdown # -1
  /\ \A i \in Consumers : pc[i] = "stopped" => shutdown = next[i]

WaitInv ==
  /\ TypeOK /\ ControlOK /\ MutexHeld /\ TodoOK /\ BufferedOK /\ MarkedIsKnown
  /\ CauseIsPending /\ InOrder /\ StopsBehindLast
-----------------------------------------------------------------------------
(* Liveness.                                                               *)

Gated(i) == Sources[i] \cap GateThreads # {}

\* However long it has been asleep, a consumer without a gate catches up with the
\* producer: every published event is eventually handled.
EveryEventHandled ==
  \A i \in Consumers : ~Gated(i) => []<>(cursor[i] = cursor[0] \/ reordered)

\* Setting a gate releases a stage that sleeps in front of it (sequence.rs:85-87):
\* the stage catches up with the producer or with the gate, whichever is behind.
GateReleasesStage ==
  \A i \in Consumers :
    Gated(i) => []<>((\E t \in {0} \cup GateThreads : cursor[i] = cursor[t]) \/ reordered)

\* Dropping the producer wakes the consumers, so that they stop and are joined,
\* if the gates let them.
DropReturns ==
  (shutdown # -1 /\ \A t \in GateThreads : cursor[t] >= shutdown - 1) ~>
    (pc[0] = "dropped" \/ reordered)
=============================================================================
