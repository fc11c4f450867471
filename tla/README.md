# Verification of disrupt-rs in TLA+

disrupt-rs is a Disruptor: one ring buffer through which producers hand events
to a graph of consumers without locks. This directory holds TLA+ models of its
concurrent core, TLC configurations that check them on small instances, and
TLAPS proofs for all instances. Source paths below are relative to `src/src/`,
those of the examples to `src/`.

The repository has earlier models of its own in `src/verification/`; the ones
here are independent of them and follow the Rust code action by action.

## 1. The system

| Component | State | Operations | Correct if |
|---|---|---|---|
| Ring buffer, cursors (`ringbuffer.rs`, `cursor.rs`, `barrier.rs`) | slots; one atomic `i64` per cursor | slot index, wrap point, free capacity; load, store, compare-and-exchange | two sequences share a slot only a whole number of rounds apart |
| Consumers (`consumer.rs`) | own cursor; position in the batch | wait, call the handler for each event of the batch, store the cursor, wake others; panic; be joined | each event is handled once, in order, after all earlier stages, while nobody writes its slot |
| Event pollers (`consumer/event_poller.rs`) | own cursor; the guard in use | `poll`, `poll_take`, `poll_wait`; iterate; drop the guard | a guard yields fresh events only, and never one that an earlier guard has passed |
| Gates (`sequence.rs`) | one atomic | `set`, `compare_and_set`, then wake | a gated stage never passes the highest value of its gates |
| Single producer (`producer/single.rs`) | next sequence, cached clearance, published cursor | `try_publish`, `publish`, batches of both, drop | no slot is written while it is read; a full ring is reported only if it is full; drop waits until everything is handled |
| Multi producer (`producer/multi.rs`) | claimed cursor, availability words, a clearance per handle, reference count | the same calls per handle, clone, drop | as above, with handles that claim disjoint intervals and publish out of order |
| Spinning wait strategies (`wait_strategies.rs`) | spin counter | load the barrier, load shutdown, repeat | a waiter stops only when nothing is left |
| Blocking wait strategies (`wait_strategies.rs`) | mutex with an epoch, condition variable, `signal_needed` | wait, wake | no waiter sleeps through a publication, a release or a shutdown |
| Builders (`builder.rs`, `builder/*.rs`) | consumer threads and cursors so far, pending thread name and core | add handler or poller, `and_then`, `and_then_with_dependents`, `new_gates`, `build` | every stage waits for the whole stage before, the producer for the whole last stage; whatever order of calls type-checks works |
| Client programs (tests in `lib.rs`, `examples/`) | what their threads and handlers are doing | everything the library offers | their assertions hold and they end |

They interact through shared atomics only. A consumer of stage 1 loads the
producer's cursor (or its availability words), one of stage k + 1 loads the
cursors of stage k and the gates, a producer loads the cursors of the last
stage. `shutdown_at_sequence` is written by the last producer handle to go and
read by every waiter. Whoever stores something that others wait for calls
`wake()` of the notifier afterwards.

What is hard: a minimum over several cursors is taken while all of them move;
the cached clearance is stale by design; shutdown is noticed by equality with
one sequence; availability is one parity bit per slot, read word by word while
handles publish behind and in front of the reader; handlers and closures may
panic; gates may move backwards; a waiter must not park between somebody's
store and the wake that goes with it. `PROJECT.json` lists these hazards with
the line at which each bites and the properties that are about it.

## 2. Modules

| Module | Models |
|---|---|
| `Broadcast` | what a disruptor promises: a bounded log that consumers read in stages (abstract) |
| `RingBuffer` | the arithmetic of the ring |
| `Disruptor` | slots, consumers, pollers, gates: everything that is the same for both kinds of producer |
| `SingleProducer` | `Disruptor` with one producer; its inductive invariants; implements `Broadcast` |
| `MultiProducer` | `Disruptor` with handles that claim by compare-and-exchange; its inductive invariants; implements `Broadcast` |
| `BlockingWait` | the five wait strategies, with consumers, clients that set gates, and the producer as notifiers; its inductive invariant |
| `Builder` | the methods of both fluent builders, as operators on builder records |
| `BuilderChains` | every chain of calls that type-checks, as a state machine over `Builder`; its inductive invariant |
| `Programs` | client programs, as data, run against `Broadcast` on what `Builder` builds |
| `LibTests`, `Examples` | the unit tests and the examples as such programs |
| `MCSingleProducer`, `MCMultiProducer`, `MCBlockingWait`, `MCBuilderChains`, `MCPrograms` | instances for TLC |
| `IntegerFacts` | lemmas about division, remainders and the parity of quotients |
| `DisruptorProofs` | lemmas about slots, loads and handlers, for both kinds of producer |
| `SingleProducerProofs` | theorems about positions: `IndInv`, data races, stages, gates |
| `SingleProducerLogProofs` | theorems about events: `LogInv`, what consumers see, shutdown, freedom from deadlock, the implementation of `Broadcast` |
| `MultiProducerProofs` | theorems about `MultiProducer`: `MultiInv` and what follows from it alone |
| `MultiProducerLogProofs` | `ClaimInv`, freedom from deadlock, and that `MultiProducer` implements `Broadcast` |
| `BlockingWaitProofs` | theorems about `BlockingWait`: `WaitInv`, the lost wakeups, and who may be asleep |
| `BuilderChainsProofs` | theorems about `BuilderChains`: `BuilderInv` and what a chain comes out as |

They compose in three layers. `Broadcast` is in the middle: the detailed modules
implement it from below, and client programs use it from above, so that they
need not be run against every load and store of the library. `Builder` ties the
layers together: `StagesAreWired` shows that whatever a chain of calls builds is
a graph of the kind that `Disruptor` takes as constants and `Broadcast` as its
`topology` - every stage has a consumer, the first has no gates, and with a
multi producer only a stage behind several consumers has any - and `Programs`
takes its topologies from `Builder!Chain`.

**Steps.** One action is one access to shared memory and the local computation
up to the next. A barrier over several cells is loaded cell by cell
(`LoadCell`, `LoadConsumerCursor`), an availability word at a time
(`LoadWord`). The code loads the cells in a fixed order, the model in any
order, which includes the code's. Handlers and update closures are not atomic:
they own their slots from the step that grants them to the step that gives them
back, and `NoDataRace` says that no two owners of which one writes ever share a
slot.

**State.** Variables have the names of the fields they stand for. `counter` is
the atomic of every consumer cursor and gate, `published` (single) the cursor
of `SingleProducerBarrier`, `cursor` and `bit` (multi) those of
`MultiProducerBarrier`. An event is the sequence it was written for, so a
handler that meets a stale or torn slot shows in `seen`. History variables are
read by properties only:

| Variable | Records |
|---|---|
| `seen` | the events that a consumer has found in the slots |
| `handed` | the sequences that a poller's guards paired with the events in `seen` |
| `skipped` | the sequences that a client gave up by dropping a guard early |
| `gateHigh` | the highest value that a gate has had |
| `roomAtCall` | the batch sizes that there was room for when the call began |
| `published`, `holes` (`MultiProducer`) | what has been published, and what was claimed for a closure that panicked |
| `asked`, `askedName` (`BuilderChains`) | the core and the name that were asked for since the last handler |

`missing` is the return value of the last call, the payload of
`MissingFreeSlots`.

**Guards.** `EventGuard` yields `&'g E`: its events stay borrowed until it is
dropped, also those that it has yielded already. `Reading` of a poller is
therefore the whole grant, from the cursor to `available`, for as long as the
guard lives, while a handler reads the event of its current call and those that
its batch has still to come to. `GuardsYieldInOrder` has three parts:
`GuardsAccountForAll` (what guards have yielded and what clients gave up are,
without overlap, all sequences up to the position; each was yielded once, in
order, and with the event of that sequence in the slot), `GuardsWithinLimit`
(no more than `poll_take` was asked for) and `GuardsHoldEvents` (the slots of a
guard keep its events while it lives).

**Graphs.** The fluent builder can build stages only: `and_then` closes a stage
and every consumer of the next one waits for all of it. `Stage` and
`StageGates` are constants; the theorems hold for all of them.

**Panics.** A handler that panics unwinds its thread; its cursor stays put and
`join` panics in turn, which ends drop (`JoinConsumer`). A panicking update
closure leaves the single producer as if the call had not been made, and leaves
a hole in a multi producer.

**Memory model.** Except for `signal_needed`, memory is sequentially
consistent. The slots are plain memory in the code; `NoDataRace` together with
the release stores and acquire fences makes this adequate for them. In
`BlockingWait` the store to `signal_needed` may be delayed (`Drain`),
because the code reads other locations right after it.

**Refinement.** `Broadcast` has no cursors, caches, bits or slots: events are
written once, at their sequence, where every consumer has released the round
before; a consumer is granted a batch without gaps that all earlier stages have
released and all gates have let through, reads it in order and releases it; it
stops at the sequence at which the log is closed, and drop returns when all
managed consumers have stopped. `ImplementsBroadcast` of `SingleProducer` maps
the published cursor to what is written, the positions and cursors of consumers
to `next`, `granted` and `released`, and the history of a gate to `high`. In
`MultiProducer` an event is written when its availability bit is flipped: the
log has gaps then, and a batch over several words is written in several steps.
An aborted call, a retry and every load is a stutter.

**Builders.** A builder record holds what the Rust struct and its `Shared` hold.
Type states are tables from methods to type states (`SPBuilderNC` ...), taken
from the `impl` blocks; `Callable` is what the compiler accepts. The cursor of a
consumer is the consumer's name, and `wiring` records the barrier that each one
was given. `BuilderChains` lets a chain panic in `pin_at_core`, in spawning and
in `new`, and lets a program drop a builder. What that leaves behind - threads
that nobody joins - is in its states, but the library promises nothing for them.

**Programs.** A program is a record: a chain of builder calls, and a sequence of
statements for each of its threads; a handler can wait for a flag, set gates and
check its end-of-batch flag. Assertions of the tests are statements, and so are
joins, channels from which a known number of events is received, and scoped
threads. Ten events become `Few`, rings of a multi producer `Ring` slots; where
a test fills a ring, is one slot short or wraps around, the program does so.
`recv_timeout` that has to succeed is waiting, one that has to expire is the
check that no more than so many events have arrived yet. What a handler computes
from an event is left out.

**Clients.** An update closure iterates to the end of its batch, and the
spinning variants are called with batches that fit the ring, as the debug
assertion demands and the documentation warns. `try_batch_publish` is called
with larger batches too. Clients poll, take, wait, drop guards early, move
gates in both directions, or do nothing at all.

**Mutants.** A definition whose name ends in `Mutant` (or `_mutant`) is a
plausible bug in the definition after it. It is used in no specification; for
every property of every run, `PROJECT.json` names one that makes TLC find a
violation.

## 3. Runs

`tlc -config MCSingleProducer_diamond.cfg MCSingleProducer`, and so on.

| Run | Instance | Shows |
|---|---|---|
| `single_diamond` | ring 2, handlers a, b, then z, which may panic; 4 events, batches up to 2 | `NoDataRace`, `ExactlyOnceInOrder`, `StageOrder`, `DrainBeforeStop`, `ImplementsBroadcast` |
| `single_clients` | ring 2, poller p with limits 0, 1 and none, then a gate that is set to 0 and 2 in any order, then handler z; 3 events, try batches up to 3 | `GuardsYieldInOrder`, `GateRespected`, `NobodyWaitsInVain`, and the invariant `LogInv` of the proofs, of which `IndInv` is a part |
| `single_live` | ring 2, handler a, then b and z side by side, of which a and z may panic; 3 events, try batches up to 3 | `PublishReturns`, `EveryEventHandled`, `DropReturns`, `NoSpuriousFull` |
| `multi_rounds` | ring 2 with words of 1 bit, 2 handles, 1 handler, batches up to 2 | `NoDataRace`, `ParityTellsPublished`, `DrainBeforeStop`, `EveryClaimHandled`, `DropReturns` |
| `multi_words` | ring 4 with words of 2 bits, 2 handles of which one may panic, a handler that may panic, batches up to 3 | `OnlyPublishedGranted`, `NobodyWaitsInVain`, `ImplementsBroadcast`, and the invariant `ClaimInv` of the proofs, of which `MultiInv` is a part |
| `multi_clients` | ring 2, a handle that may panic, handler a and poller p, then a gate that is set to 0 and 1 in any order, then handler z; 3 events | `GateRespected`, `ImplementsBroadcast` |
| `waiting` | all five strategies; a consumer, then a gate, then a consumer; one spin; 2 events | the invariant `WaitInv` of the proofs, `SleepersAreCaughtUp`, `NoLostWakeupInOrder`, `NextSignalWakes`, `EveryEventHandled`, `GateReleasesStage`, `DropReturns` |
| `lite_lost` | LiteBlockingWaitStrategy, 2 consumers in a chain, no spin | **violates** `NoLostWakeup`, see section 6 |
| `chains` | both builders, 4 consumers, a gate, an existing core and a missing one, 2 thread names, sizes 3, 32, 64; 3 stages | the invariant `BuilderInv` of the proofs, `PresentByConstruction`, `StagesAreWired`, `BackpressureCoversAll`, `JoinedUpstreamFirst`, `SettingsGoToNextHandler` |
| `programs` | 28 unit tests and 8 examples, the one of section 6 with a thread more | `AssertionsHold`, `Terminates` |
| `gate_example` | `examples/event_poller_dependency_gate.rs` as it is | **violates** `Terminates`, see section 6 |
| `end_of_batch` | the test `end_of_batch_flag_sequences` | **violates** `AssertionsHold`, see section 6 |

What is proved (section 4) for every instance is checked by TLC on one or two
only. `ExactlyOnceInOrder` and `StageOrder` are invariants of a run of
`SingleProducer`; of `MultiProducer`, the first is a part of `MultiInv` and the
second follows from `ImplementsBroadcast`.

The type invariant of `MultiProducer` is checked in `multi_rounds`, those of the
other detailed modules as parts of `LogInv`, `WaitInv` and `BuilderInv`. Deadlock
in TLC's sense is checked in the runs of both producers. It is not checked where
the system may stop: in `waiting`, everybody sleeps when no client does anything
any more (`SleepersAreCaughtUp` and the liveness properties say when that must
not happen), a chain of builder calls
comes to its end, and so does a program (`Terminates` says that it does not stop
anywhere else).

**Why the bounds suffice.** Every hazard of a ring
concerns a slot that is used again: a ring of 2 with 3 or 4 events has slots
that are used twice, and with two handles that may both be in a call just below
`MaxSequence`, sequence 4 is claimed, so that slot 0 is used in three rounds
and its parity returns to the first one. `Capacity = 2` already
tells a batch that wraps from one that does not and leaves room for a stale
clearance. Batches up to `Capacity`, and beyond for the try variants, contain
0, 1, full and oversize. The availability word of 64 bits is scaled to
`WordBits`; a batch of 3 over words of 2 bits always straddles words, and the
walk of a consumer crosses words and the end of the ring. Two consumers of a
stage are enough for a minimum to be taken from different moments (in
`single_diamond` by a consumer, in `single_live` by the producer), a second
stage for order among stages. A gate that takes two values can be moved back and
be loaded before or after that. Two handles are enough for each race between
claims, since a compare-and-exchange distinguishes only "mine" and "somebody
else's". For the wait strategies, a chain of two with a gate
gives a notifier that is itself a waiter, two waiters that share one flag, a
barrier of two cells that are loaded at different times, a notifier that never
waits, and notifiers that overtake each other between swap and lock; one spin
leads to a block from a barrier that was loaded twice. Builders have three type
states, and a third stage is built from what two `and_then` have left; four
consumers allow each stage to have one or several. `MaxSequence`, `MaxBatch`,
`Limits`, `GateValues`, `SpinTries`, `MaxStages`, `Names` and `Sizes` are the
bounds; each is a constant. The programs are finite by themselves.

**Fairness.** Weak fairness of every thread that is inside the library: a
consumer loop, a publishing call under way, a drop. That is what an operating
system gives every runnable thread; the mutex needs no more, because nobody
locks it infinitely often in these runs. Handlers and closures return, or
panic where a run says so. Nobody is obliged to publish, poll, move a gate or
drop a handle: whatever must happen, must happen without their help. Since
calls are bounded by `MaxSequence`, a handle loses its compare-and-exchange
only finitely often: the runs do not claim that the claiming loop is wait-free,
and under weak fairness it is not. In `BlockingWait` nobody has to publish, to
set a gate or to drop the producer, either. `Programs` needs no more than that
some thread runs when one can, since waiting for something is no step there;
`Terminates` therefore speaks of the programs alone. That the calls they make
return when the log lets them is what `PublishReturns`, `EveryEventHandled`,
`DropReturns` and `GateReleasesStage` are about. In particular programs have no
wait strategy, and a handler that finds the log closed leaves (`Leave`): the
tests of the blocking and of the lite strategy come out as the same program.
That `Terminates` holds for the second says nothing about its wakeups; these are
in `BlockingWait` and in the finding of run `lite_lost`.

**With the store buffer.** `BlockingWait` always has it. `reordered` tells the
behaviours in which a waiter's load has overtaken its store; the properties
that the finding of section 6 breaks are stated for the others, and
`NextSignalWakes` for all.

## 4. Proofs

`tlapm` checks eight modules. The theorems hold for every value of the
constants: every capacity, every graph of stages with any gates, pollers and
panicking handlers, any number of handles with any word size, any number of
waiters under each of the five strategies, any chain of builder calls, and
whatever the bounds are. The assumptions are those named in the modules: a
positive capacity (the proofs do not need a power of two: `slot_index` is
modelled as the remainder), a word size that divides it, a finite set of handles,
non-empty stages, no gates in stage 1 and (multi) none behind a single consumer,
waiters that wait for earlier ones only and for at least one cursor (a barrier
may have gates, but is never made of gates only), names that do not clash. That
topologies are like this is itself proved of the builders (`BuilderWires`:
`StagesAreWired` contains these conditions for whatever `build()` returns).

| Module | Theorems |
|---|---|
| `SingleProducerProofs` | `SingleProducerInductive` (`IndInv`), `SingleProducerTypeOK`, `SingleProducerNoDataRace`, `SingleProducerStageOrder`, `SingleProducerGateRespected` |
| `SingleProducerLogProofs` | `SingleProducerLogInductive` (`LogInv`), `SingleProducerExactlyOnce`, `SingleProducerGuardsYield`, `SingleProducerDrains`, `SingleProducerNoSpuriousFull`, `SingleProducerNobodyWaitsInVain`, `SingleProducerImplementsBroadcast` |
| `MultiProducerProofs` | `MultiProducerInductive` (`MultiInv`), `MultiProducerTypeOK`, `MultiProducerOnlyPublishedGranted`, `MultiProducerParity`, `MultiProducerNoDataRace`, `MultiProducerStageOrder`, `MultiProducerGateRespected`, `MultiProducerExactlyOnce`, `MultiProducerGuardsYield`, `MultiProducerDrains` |
| `MultiProducerLogProofs` | `MultiProducerClaimsInductive` (`ClaimInv`), `MultiProducerNobodyWaitsInVain`, `MultiProducerImplementsBroadcast` |
| `BlockingWaitProofs` | `BlockingWaitInductive` (`WaitInv`), `BlockingWaitTypeOK`, `BlockingWaitNoLostWakeup`, `BlockingWaitNextSignalWakes`, `BlockingWaitSleepersAreCaughtUp` |
| `BuilderChainsProofs` | `BuilderInductive` (`BuilderInv`), `BuilderPresent`, `BuilderWires`, `BuilderCoversAll`, `BuilderJoinsInOrder`, `BuilderSettings` |

`IntegerFacts` and `DisruptorProofs` hold lemmas only: on quotients, remainders
and parities, on slots that differ, and on what loads and handlers do whichever
kind of producer there is.

None of the safety properties is inductive. For each module an invariant that is
one is stated in the module itself, checked by TLC in a run, and proved.

### One producer: positions (`IndInv`)

`NoDataRace` speaks of slots being read and slots being written; why they differ
goes back over several steps:

1. `CursorBehindNext`: a cursor lags behind its consumer's position inside a
   batch, and only there.
2. `ScanBehindCells`: while a barrier is being loaded, the least value so far is
   a lower bound of all cells already loaded, because cursors never move back
   (for gates: of the highest value they have had).
3. `GrantBehindEarlierStages`: hence a grant is bounded by what is published, by
   the cursors of *every* earlier stage (those of the stage before bound it by
   `ScanBehindCells`, the earlier ones by `CursorOrder`), and by the gates.
4. `CursorOrder`: hence no cursor overtakes an earlier one or the producer.
   The last stage is therefore behind all others.
5. `ClearanceBehindConsumers`: hence a clearance computed from the last stage is
   within a round of every consumer, and stays so, as cursors only move forward.
6. What a consumer reads lies above its cursor, what the producer writes is at
   most its cursor plus `Capacity`, and above everything granted: the two are
   less than `Capacity` apart and differ, so they have different slots
   (`SlotsDiffer`).

The lemma `ConsumerChange` shows once that a step of one consumer keeps the
invariant if it keeps the part about that consumer and does not move its cursor
back; `ProducerChange` does the same for the producer. Each action then has a
lemma of its own.

### One producer: events (`LogInv`)

* `SlotsHoldEvents`: a slot holds its event from the update on for as long as
  the clearance does not reach it. With `IndInv`, what a consumer is granted is
  not within reach, so it reads what was written there: `ExactlyOnceInOrder`
  follows step by step, however often a slot is used again.
* `ClaimSeesRoom`: a call that loads the consumers' cursors did so because its
  clearance was too small, and room that was there when the call began is still
  there, also in what the loads so far add up to. Without the first half the
  invariant is not inductive: a clearance that was sufficient would leave `rear`
  arbitrary. `NoSpuriousFull` follows: the number reported is no more than was
  missing at the begin of the call, and a batch smaller by it fits. That a
  call which spins asks for no more than `Capacity` is needed for
  `NobodyWaitsInVain`.
* `ShutdownAtSequence`: shutdown is requested at the final sequence, consumers
  stop there, and joined ones have stopped. `DrainBeforeStop` follows.
* `GuardsAccountForAll`: a guard's iterator moves the position by the event it
  yields (`YieldsOne`), its drop by what it gives up (`GivesUpRest`), and nothing
  else moves the position of a poller. `GuardsWithinLimit` is an invariant of its
  own (`KeepsWithinLimit`), and `GuardsHoldEvents` follows from
  `SlotsHoldEvents`, as a poller's grant is above its cursor until the guard is
  dropped.

### Several handles (`MultiInv`)

* `ConsumersFollow` is the counterpart of `CursorBehindNext` to
  `GrantBehindEarlierStages`. "Published" is a set with gaps here, so a consumer
  may pass s only if *everything* up to s is published (`Ready`), which every
  completed step of the walk over the words adds to.
* `WithinOneRound`, `CallsInPhase`: neither the claimed cursor nor any handle's
  clearance is more than a round ahead of any consumer, and a handle about to
  compare-and-exchange claims within its clearance, also if the cursor is not
  the one it computed the clearance for.
* `ClaimsDisjoint`: what handles have claimed and not published is disjoint from
  each other's claims and from what is published.
* `BitsTellRounds`: a bit has the parity of the last event published in its
  slot. A consumer reads the bit of s knowing that everything below s is
  published; s is at most a round and one event ahead of the slowest consumer, so
  the only other event the bit can be about is the one a round earlier, whose
  parity differs (`FlagFlips`). This is where `WithinOneRound` is needed, and
  why `ParityTellsPublished` is no local matter of one word.
* `SlotsHoldEvents`: a slot holds its event as long as any consumer needs it,
  and its new event from the update on, although it is not published yet.
* `ClaimsBounded`, `HandlesCounted`, `ShutdownAtCursor`: how far the cursor can
  be beyond the bound, that the reference count is the number of usable handles,
  and hence that the handle which requests shutdown is the last one and nothing
  is claimed after that.

A step of a consumer cannot disturb what concerns handles and moves cursors
forward only (`ConsumerMoves`); a step of a handle leaves consumers alone and
publishes more only (`ConsumersUnharmed`, `CallMoves`, `OutsideMoves`).

### Nothing claimed gets lost (`ClaimInv`)

`MultiInv` bounds what handles hold from above; that a consumer need not wait
forever for a hole that nobody will fill takes a bound from below.

* `ClaimsAccounted`: every sequence that was ever claimed is published, in the
  hands of a handle in the middle of its call, or one of the `holes`, which only
  a panicking closure leaves. The decisive step is the compare-and-exchange: the interval from the cursor it
  found to the one it wrote has to be, without a gap, what the handle goes on to
  publish, however often it has failed before.
* `SpinsFit`: a call that spins asks for no more than the ring can hold.

### Freedom from deadlock

The safety half of the liveness properties: in a state where somebody cannot go
on, who is to blame, and can that one move?

`NobodyWaitsInVain` of both producers: whatever event a consumer has not
released, there is a consumer of the same or an earlier stage, standing at the
same place, that waits for no other consumer (it has a batch in hand, has
panicked over it, or will find the event when it looks next, unless a gate is
behind), or, with several handles, the event is claimed and about to be
published, or is a hole. A call that spins on a full ring does so because of such an event,
and drop joins only consumers that get to the shutdown sequence. The proof
takes, of all consumers that stand at that place, one of the least stage
(`FirstOfEquals`). By `CursorOrder` nobody of an earlier stage is behind it, and
nobody at its place is in an earlier stage, so its barrier has moved on; with
several handles, `ClaimsAccounted` and `BitsTellRounds` say that the bit it
looks at shows the event, or that the event is in somebody's hands or a hole. No cycle of
waits is possible, because stages are numbered. The second part rests on
`ClaimSeesRoom` and `SpinsFit`: a batch that fits the ring lacks room only if
somebody is behind. The third rests on `ShutdownAtSequence` and
`ShutdownAtCursor`.

`SleepersAreCaughtUp` of the wait strategies: if no load has overtaken a store
and no thread can go on by itself, then every consumer has caught up with the
producer or with a gate that it, or a stage before it, waits for (`Upstream`),
and a drop has returned unless a gate is behind. By
`CauseIsPending` a parked consumer has some cell of its barrier at its own
place, for whoever stored more would be about to notify; of the consumers
upstream at that place take the first (`LeastElement`), and that cell can only
be the producer's or a gate's.

### Implementing Broadcast

`SingleProducerImplementsBroadcast` and `MultiProducerImplementsBroadcast` map
every action to one of `Broadcast` or to a stutter: loads, attempts, claims and
updates are invisible; publishing writes; completing a load grants, or stops the
consumer if shutdown was noticed; handlers and guards read; storing a cursor
releases; dropping closes the log; the last join returns. Each has a lemma that
proves the guard of the abstract action from `LogInv` or `MultiInv`: that a write
finds the round before released (`WithinOneRound`, `ClearanceBehindConsumers`),
that a grant is published, released and let through, that what a slot holds is
the event of the log.

### Wait strategies (`WaitInv`)

`MarkedIsKnown`: a waiter under the mutex or parked is in the store buffer, in
`signal_needed`, or a notifier has taken the flag and is about to notify.
`CauseIsPending`: if no load has overtaken a store, and something has come in
that a waiter has not seen in its loads under the mutex, then the thread that
stored it has yet to swap or to notify. `MutexHeld` makes "about to notify" last
until the waiter is parked, `TodoOK` and `BufferedOK` say how far its loads have
come. `NextSignalWakes` follows from the first without any assumption on the
order of stores, `NoLostWakeupInOrder` from the second. `InOrder` keeps every
consumer behind the cells of its barrier and behind the producer, also while it
is loading them one by one (`KeepsBehind`), and `StopsBehindLast` places the
shutdown sequence behind the last publication; `SleepersAreCaughtUp` needs both.

### Builders (`BuilderInv`)

`CursorsByState` ties the length of the `Vec` of cursors to the type state, which
is what makes `remove(0)` safe. `GatesBehindGroups` says where gates can be:
`and_then_with_dependents` needs a stage to follow, and the multi producer's
builder offers it only behind several consumers. `NextIsWired` is `StagesAreWired` for the
consumer that would come next. `FrontierCoversAll` says of a chain in the making
what `BackpressureCoversAll` says of a finished one: everybody is upstream of
the current stage, or, while that is empty, of its barrier. It is kept by one
more consumer because nobody waits for that consumer yet. "Upstream" is stated
as membership in every set that is closed under waiting, since a recursive
definition is out of the prover's reach.
`NamesNumbered` keeps the numbers of unnamed threads below the counter of
`ThreadContext`, so that each is used once; a name that was asked for twice
before a handler came is overwritten, as `thread_named` does.

### What is only model-checked

* The liveness properties `PublishReturns`, `EveryEventHandled`,
  `EveryClaimHandled`, `DropReturns`, `GateReleasesStage` and `Terminates`:
  liveness under fairness and `ENABLED` are beyond the prover. Their safety
  halves are the theorems about deadlock above.
* `AssertionsHold`: a finite set of concrete programs, each of which TLC runs
  completely. `Programs` builds them with `Chain`, which recurs over a sequence.
* The three violations of section 6, which are traces.

## 5. Not modelled

* Pinning itself (`set_affinity_if_defined`): a call of the operating system
  whose failure is only logged. The check that the core exists is in `Builder`.
* Widths of integers. The library documents 2^63 - 1 events as the client's
  responsibility, and nobody can write to a batch of `i64::MAX` events.
* `HandlerChain` and `ext()`: the handlers of a chain run one after the other in
  one call and are one handler here. A state factory that panics on the new
  thread is a handler that panics before its first event.
* `poll_wait` with a waiter of another instance of a blocking strategy, and
  gates of another builder: nobody notifies such a waiter. The library neither
  excludes this nor promises anything for it.
* The test `pipeline_of_two_spsc_disruptors` (two disruptors at once),
  `dependent_sequence_underlying_data_is_cacheline_padded` (no behaviour), the
  documentation's own examples and the benchmarks.
* Spurious wakeups of the condition variable, which parking_lot excludes.
* A closure that drops the batch iterator early: the rest of the batch keeps its
  old contents and is published.
* A thread that nobody joins because its builder was dropped, after that.

## 6. Findings

**A lost wakeup.** `LiteBlockingWaitStrategy` can lose a wakeup (run `lite_lost`,
`wait_strategies.rs:406`). The waiter sets `signal_needed` with a release store
and then looks at the barrier once more with relaxed loads. Nothing keeps the
loads behind the store. The trace: the waiter's store sits in its store buffer
and it loads the old cursor; the producer stores the cursor, swaps
`signal_needed`, finds it false and returns; the waiter loads shutdown and
parks. The comment at lines 355-358 claims that the swap avoids exactly this
"check-then-sleep" race. `NextSignalWakes` shows what saves the strategy as long
as traffic continues: the flag does become visible, so the next notifier wakes
everybody. Without a next one - after the last event, or when the lost wakeup
is the one of drop - the consumer sleeps on, and drop does not return.
`NoLostWakeupInOrder` shows that the algorithm is right if no load overtakes the
store, that is, with a sequentially consistent fence between them and another
between the notifier's cursor store and its swap.

**An example that hangs.** `examples/event_poller_dependency_gate.rs:35` says
`drop(producer); // signal shutdown once drained` and drives the poller after
that. But drop joins the handler `downstream`, which waits for the poller and
for the gate that the same thread moves only in the loop it never reaches (run
`gate_example`). With a thread of its own for the producer the program ends
(run `programs`). `examples/event_poller.rs` does the same without harm, as it
has no handler to join.

**A test that depends on timing.** `end_of_batch_flag_sequences` asserts that
three calls of `publish` are seen as one batch (`lib.rs:636`). The handler's
thread runs from the builder call on; if it takes the first event before the
second is published, the flags begin with `true` (run `end_of_batch`).

## 7. Plan

Done: the modules above, in the order `RingBuffer`, `Disruptor`,
`SingleProducer`, `MultiProducer`, `BlockingWait`, `Broadcast` with both
refinements, `Builder`, `Programs`; then the proofs, in the order
`SingleProducer`, `BlockingWait`, `MultiProducer`, `BuilderChains`.

Every safety property of the detailed modules and of the builder is a theorem,
and so is the safety half of their liveness properties. Open:

1. Invariants of `Broadcast` itself, as theorems of its own specification. Of
   the two producers that implement it they are proved directly (`StageOrder`,
   `GateRespected`, `DrainBeforeStop`).
2. A disruptor behind a disruptor, which one more test needs.
