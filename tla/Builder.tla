------------------------------ MODULE Builder -------------------------------
(***************************************************************************)
(* The fluent builder (src/src/builder.rs, builder/single.rs,              *)
(* builder/multi.rs), as operators on builder records: every operator is   *)
(* one method, applied to the builder and returning the builder that the   *)
(* chain goes on with.                                                     *)
(*                                                                         *)
(* A thread of the disruptor runs from the call that adds its handler on,  *)
(* before the chain is finished; nothing stops it but the producer that    *)
(* build() returns.                                                        *)
(***************************************************************************)
EXTENDS Integers, Sequences, FiniteSets

\* The barrier of the producer, as a cell to wait for.
PRODUCER == "producer barrier"

\* No affinity or no name has been asked for.
Unset == "unset"

\* The methods that a builder has in each of its type states, and the type
\* state of what they return.
SPBuilderNC == [handle_events_with |-> "SC", handle_events_and_state_with |-> "SC",
                event_poller |-> "SC"]
SPBuilderSC == [handle_events_with |-> "MC", handle_events_and_state_with |-> "MC",
                event_poller |-> "MC", and_then |-> "NC",
                and_then_with_dependents |-> "NC", build |-> "built"]
SPBuilderMC == SPBuilderSC

\* A multi producer cannot gate the stage behind a single consumer.
MPBuilderNC == SPBuilderNC
MPBuilderSC == [m \in DOMAIN SPBuilderSC \ {"and_then_with_dependents"} |-> SPBuilderSC[m]]
MPBuilderMC == SPBuilderMC

TypeStates ==
  [single |-> [NC |-> SPBuilderNC, SC |-> SPBuilderSC, MC |-> SPBuilderMC],
   multi  |-> [NC |-> MPBuilderNC, SC |-> MPBuilderSC, MC |-> MPBuilderMC]]

InChain(b) == b.state \in {"NC", "SC", "MC"}

Callable(b, method) == InChain(b) /\ method \in DOMAIN TypeStates[b.kind][b.state]

Returning(b, method) == [b EXCEPT !.state = TypeStates[b.kind][b.state][method]]
-----------------------------------------------------------------------------
(* Starting a chain.                                                       *)

\* Bits per availability word of MultiProducerBarrier.
Word == 64

PowersOfTwo == {2 ^ k : k \in 0 .. 16}

\* MultiProducerBarrier::new asserts the first, RingBuffer::new the second.
Accepts(kind, size) ==
  /\ kind = "multi" => size >= Word
  /\ size \in PowersOfTwo

\* No thread exists yet when new panics.
new(kind, size) ==
  [kind |-> kind,
   state |-> IF Accepts(kind, size) THEN "NC" ELSE "panicked",
   current_consumer_cursors |-> <<>>,
   dependent_barrier |-> {PRODUCER},
   consumers |-> <<>>,           \* The managed ones, in the order they were started.
   wiring |-> <<>>,              \* The barrier that each consumer was given.
   thread |-> <<>>,              \* Name and affinity of each managed one's thread.
   affinity |-> Unset, name |-> Unset, id |-> 0,
   gates |-> {},                 \* The gates that new_gates has returned.
   consumer_barrier |-> {},      \* What the producer is built with.
   stage |-> <<>>,               \* History: the stage of each consumer,
   stages |-> 1,                 \* the number of stages begun,
   stage_gates |-> <<{}>>]       \* and the gates of each.
-----------------------------------------------------------------------------
(* Consumers.                                                              *)

\* ThreadContext::name and affinity take what was set for the next handler.
thread_name_of(b) == IF b.name = Unset THEN <<"processor", b.id + 1>> ELSE <<b.name>>

take_context(b) ==
  [b EXCEPT !.affinity = Unset, !.name = Unset, !.id = IF b.name = Unset THEN @ + 1 ELSE @]

\* The records of the consumers f, with one more for x.
Put(f, x, v) == [y \in DOMAIN f \cup {x} |-> IF y = x THEN v ELSE f[y]]

\* The cursor of a new consumer, which waits for what the builder's
\* dependent_barrier is now.
add_cursor(b, c) ==
  [b EXCEPT !.current_consumer_cursors = Append(@, c),
            !.wiring = Put(@, c, b.dependent_barrier),
            !.stage = Put(@, c, b.stages)]

\* Mutant: the new consumer is put in front of the others.
start_processor_mutant(b, c) ==
  [take_context(b) EXCEPT
     !.consumers = <<c>> \o @,
     !.thread = Put(@, c, [name |-> thread_name_of(b), affinity |-> b.affinity])]

\* start_processor: the thread is running when this returns.
start_processor(b, c) ==
  [take_context(b) EXCEPT
     !.consumers = Append(@, c),
     !.thread = Put(@, c, [name |-> thread_name_of(b), affinity |-> b.affinity])]

\* add_event_handler, with or without state.
add_event_handler(b, c) == add_cursor(start_processor(b, c), c)

handle_events_with(b, c) == Returning(add_event_handler(b, c), "handle_events_with")

\* The state lives on the thread and concerns nobody else.
handle_events_and_state_with(b, c) ==
  Returning(add_event_handler(b, c), "handle_events_and_state_with")

\* Mutant: a poller uses up the thread settings.
event_poller_mutant(b, c) == Returning(add_cursor(take_context(b), c), "event_poller")

\* A poller has no thread: it leaves the thread settings to the next handler.
event_poller(b, c) == Returning(add_cursor(b, c), "event_poller")

\* thread::Builder::spawn fails, or the requested core does not exist: the
\* builder is dropped in the middle of the chain, and what it has started is
\* not joined by anybody.
panic(b) == [b EXCEPT !.state = "panicked"]

pin_at_core(b, core, cores) ==
  IF core \in cores THEN [b EXCEPT !.affinity = core] ELSE panic(b)

thread_name(b, name) == [b EXCEPT !.name = name]
-----------------------------------------------------------------------------
(* Stages.                                                                 *)

new_gates(b, gates) == [b EXCEPT !.gates = @ \cup gates]

Cells(cursors) == {cursors[i] : i \in 1 .. Len(cursors)}

\* The next stage waits for `cells`.
begin_stage(b, method, cells, left, gates) ==
  [Returning(b, method) EXCEPT
     !.dependent_barrier = cells,
     !.current_consumer_cursors = left,
     !.stages = @ + 1,
     !.stage_gates = Append(@, gates)]

\* Mutant: the cursor is not removed.
and_then_mutant_SC(b) ==
  begin_stage(b, "and_then", {Head(b.current_consumer_cursors)}, b.current_consumer_cursors, {})

\* SingleConsumerBarrier::new(consumer_cursors.remove(0)).
and_then_SC(b) ==
  begin_stage(b, "and_then", {Head(b.current_consumer_cursors)},
              Tail(b.current_consumer_cursors), {})

\* MultiConsumerBarrier::new(current_consumer_cursors.replace(vec![])).
and_then_MC(b) ==
  begin_stage(b, "and_then", Cells(b.current_consumer_cursors), <<>>, {})

and_then(b) == IF b.state = "SC" THEN and_then_SC(b) ELSE and_then_MC(b)

\* Mutant: the consumers are left out of MultiConsumerDependentsBarrier.
and_then_with_dependents_mutant(b, gates) ==
  begin_stage(b, "and_then_with_dependents", gates, <<>>, gates)

\* MultiConsumerDependentsBarrier::new(consumer_cursors, gating).
and_then_with_dependents(b, gates) ==
  begin_stage(b, "and_then_with_dependents", Cells(b.current_consumer_cursors) \cup gates,
              <<>>, gates)

\* Mutant: one consumer of several is taken into the barrier.
build_mutant_MC(b) == {Head(b.current_consumer_cursors)}

\* What the producer has to stay behind: the one consumer, or the group.
build_SC(b) == {Head(b.current_consumer_cursors)}
build_MC(b) == Cells(b.current_consumer_cursors)

build(b) ==
  [Returning(b, "build") EXCEPT
     !.consumer_barrier = IF b.state = "SC" THEN build_SC(b) ELSE build_MC(b),
     !.current_consumer_cursors = <<>>]
-----------------------------------------------------------------------------
(* A whole chain.                                                          *)

\* One call of a chain, as data.
H(c)         == [method |-> "handle_events_with", arg |-> c]
HS(c)        == [method |-> "handle_events_and_state_with", arg |-> c]
P(p)         == [method |-> "event_poller", arg |-> p]
AndThen      == [method |-> "and_then"]
Gated(gates) == [method |-> "and_then_with_dependents", arg |-> gates]
Pin(core)    == [method |-> "pin_at_core", arg |-> core]
Name(name)   == [method |-> "thread_name", arg |-> name]

\* The cores that are asked for exist, and the gates are the builder's own.
Call(b, step) ==
  CASE step.method = "handle_events_with" -> handle_events_with(b, step.arg)
    [] step.method = "handle_events_and_state_with" -> handle_events_and_state_with(b, step.arg)
    [] step.method = "event_poller" -> event_poller(b, step.arg)
    [] step.method = "and_then" -> and_then(b)
    [] step.method = "and_then_with_dependents" ->
         and_then_with_dependents(new_gates(b, step.arg), step.arg)
    [] step.method = "pin_at_core" -> pin_at_core(b, step.arg, {step.arg})
    [] step.method = "thread_name" -> thread_name(b, step.arg)

\* The builder after a chain of calls that ends in build().
Chain(kind, size, steps) ==
  LET after[n \in 0 .. Len(steps)] ==
        IF n = 0 THEN new(kind, size) ELSE Call(after[n - 1], steps[n])
  IN  build(after[Len(steps)])
=============================================================================
