------------------------------ MODULE LibTests ------------------------------
(***************************************************************************)
(* The unit tests of src/src/lib.rs as programs.  Counts that only make a  *)
(* test longer are scaled down: Few events stand for ten or more, and a    *)
(* ring of 64 slots for a multi producer is one of Ring slots.  What a     *)
(* handler computes from an event is one to one, so the events themselves  *)
(* stand for it.                                                           *)
(***************************************************************************)
EXTENDS Programs

Few == 3
Ring == 4

\* A handler that spins until the test lowers its barrier.
Held == [processor |-> WaitsFor("barrier lowered")]

Processor == <<H("processor")>>
-----------------------------------------------------------------------------
(* Backpressure.                                                           *)

spsc_full_ringbuffer ==
  Single(4, Processor,
    << TryEach(0, 3)
       \o << Try(<<4>>, 1), Try(<<4>>, 1), Raise("barrier lowered"), Publish(<<4>>),
             DropProducer, Expect("processor", Upto(5)) >> >>, Held)

mpsc_full_ringbuffer ==
  Multi(Ring, Processor, 2,
    << TryEach(0, Ring - 1)
       \o << Try(<<4>>, 1), Try(<<4>>, 1), Raise("barrier lowered"), Publish(<<Ring>>),
             Publish(<<Ring + 1>>), DropProducer, DropProducer,
             Expect("processor", Upto(Ring + 2)) >> >>, Held)

spsc_insufficient_space_for_batch_publication ==
  Single(4, Processor,
    << PublishEach(0, 1)
       \o << Try(Batch(4, 0), 2), Try(Batch(102, 0), 100), Raise("barrier lowered"),
             Try(Batch(2, 2), 0), DropProducer,
             Expect("processor", <<0, 1, 2, 2>>) >> >>, Held)

\* Six slots are free here, as in the test.
mpsc_insufficient_space_for_batch_publication ==
  Multi(8, Processor, 2,
    << PublishEach(0, 1)
       \o << Try(Batch(8, 0), 2), Try(Batch(106, 0), 100), Try(Batch(8, 0), 2),
             Try(Batch(106, 0), 100), Raise("barrier lowered"), Try(Batch(2, 2), 0),
             Try(Batch(2, 3), 0), DropProducer, DropProducer,
             ExpectSorted("processor", <<0, 1, 2, 2, 3, 3>>) >> >>, Held)

\* The ten attempts of the test stand for waiting until there is room.
gating_backpressure_prevents_overwrite ==
  Single(4, <<H("journaller"), AndThen, H("engine")>>,
    << TryEach(0, 3)
       \o << Try(<<99>>, 1), Raise("start engine"), Await("engine", 1), Publish(<<100>>),
             DropProducer >> >>, [engine |-> WaitsFor("start engine")])

dependent_gate_backpressure_blocks_overwrite ==
  Single(4, <<H("stage 1"), Gated({"gate"}), P("poller")>>,
    << TryEach(0, 3)
       \o << Try(<<99>>, 1), SetGate("gate", 3), PollWait("poller", 12),
             Iterate("poller"), DropGuard("poller"), Unless("poller", 4, 7),
             Try(<<100>>, 0), DropProducer >> >>, NoHandlers)
-----------------------------------------------------------------------------
(* One or more publishers.                                                 *)

Published(steps) == << steps \o <<DropProducer>>, <<Join(1), Expect("processor", Upto(Few))>> >>

spsc_disruptor == Single(8, Processor, Published(PublishEach(0, Few - 1)), NoHandlers)

spsc_disruptor_with_pinned_and_named_thread ==
  Single(8, <<Pin(0), Name("my-processor")>> \o Processor,
         Published(PublishEach(0, Few - 1)), NoHandlers)

spsc_disruptor_with_batch_publication ==
  Single(8, Processor,
    << << Publish(<<0, 1, 2>>), Publish(<<3, 4, 5>>), Publish(<<6, 7, 8>>), DropProducer,
          Expect("processor", Upto(9)) >> >>, NoHandlers)

end_of_batch_flag_sequences ==
  Single(8, Processor, << PublishEach(0, 2) \o <<DropProducer>> >>,
         [processor |-> Checks(<<FALSE, FALSE, TRUE>>)])

spsc_disruptor_with_zero_batch_publication ==
  Single(8, Processor, << << Publish(<<>>), DropProducer, Expect("processor", <<>>) >> >>,
         NoHandlers)

spsc_disruptor_with_state ==
  Single(8, <<HS("processor")>>, Published(PublishEach(0, Few - 1)), NoHandlers)

\* Two scoped threads publish half of the events each, in batches of `batch`
\* and one by one; the main thread looks at the result when both are gone.
TwoPublishers(batch) ==
  Multi(Ring, Processor, 2,
    << << Publish(batch), DropProducer >>,
       PublishEach(Len(batch), Len(batch) + 1) \o <<DropProducer>>,
       << Join(1), Join(2), ExpectSorted("processor", Upto(Len(batch) + 2)) >> >>, NoHandlers)

multi_publisher_disruptor == TwoPublishers(<<0>>)

multi_publisher_disruptor_with_batch_publication == TwoPublishers(<<0, 1>>)

\* Every slot of the ring is used at least twice.
multi_publisher_wraparound_under_contention ==
  Multi(2, Processor, 2,
    << PublishEach(0, 1) \o <<DropProducer>>, PublishEach(2, 3) \o <<DropProducer>>,
       << Join(1), Join(2), ExpectSorted("processor", Upto(4)) >> >>, NoHandlers)

\* Two of the four publishers, and the handle they were all cloned from.
stress_test ==
  Multi(2, <<H("pid 0"), H("pid 1"), H("pid 2")>>, 3,
    << <<Publish(<<0>>), DropProducer>>, <<Publish(<<1>>), DropProducer>>, <<DropProducer>>,
       << Join(1), Join(2), Join(3), ExpectSorted("pid 0", Upto(2)),
          ExpectSorted("pid 1", Upto(2)), ExpectSorted("pid 2", Upto(2)) >> >>, NoHandlers)
-----------------------------------------------------------------------------
(* Several consumers.                                                      *)

ExpectEach(consumers, vals) ==
  [i \in 1 .. Len(consumers) |-> Expect(consumers[i], vals)]

spmc_with_concurrent_consumers ==
  Single(8, <<H("c1"), H("c2"), H("c3")>>,
    << <<Publish(<<0>>), DropProducer>> \o ExpectEach(<<"c1", "c2", "c3">>, <<0>>) >>, NoHandlers)

Seven == <<"c1", "c2", "c3", "c4", "c5", "c6", "c7">>

spmc_with_dependent_consumers_and_some_with_state ==
  Single(8, <<H("c1"), HS("c2"), AndThen, HS("c3"), H("c4"), AndThen,
              H("c5"), HS("c6"), HS("c7")>>,
    << <<Publish(<<1>>), DropProducer>> \o ExpectEach(Seven, <<1>>) >>, NoHandlers)

\* The third stage with two of its three handlers.
mpmc_with_dependent_consumers_and_some_with_state ==
  Multi(Ring, <<H("c1"), HS("c2"), AndThen, H("c3"), HS("c4"), AndThen,
                H("c5"), HS("c6")>>, 2,
    << <<Publish(<<1>>), DropProducer>>, <<Publish(<<1>>), DropProducer>>,
       <<Join(1), Join(2)>> \o ExpectEach(SubSeq(Seven, 1, 6), <<1, 1>>) >>, NoHandlers)
-----------------------------------------------------------------------------
(* Event pollers.                                                          *)

PollAll(p, result) == Poll(p, NoMaximum, result)

PollersInStages == <<P("ep1"), AndThen, P("ep2"), AndThen, P("ep3")>>

\* The three pollers on the thread that publishes: before there is anything to
\* poll, the first with a guard, the second one event at a time, the third,
\* and after the producer has been dropped.
PolledInStages(drops) ==
  << << PollAll("ep1", NoEvents), PollAll("ep2", NoEvents), PollAll("ep3", NoEvents),
        Publish(<<1>>), Publish(<<2>>),
        PollAll("ep1", 2), PollAll("ep2", NoEvents), Poll("ep2", 2, NoEvents),
        PollAll("ep3", NoEvents), Poll("ep3", 2, NoEvents), Iterate("ep1"),
        Expect("ep1", <<1, 2>>), DropGuard("ep1"),
        Poll("ep2", 1, 1), PollAll("ep3", NoEvents), Iterate("ep2"), Expect("ep2", <<1>>),
        DropGuard("ep2"), Poll("ep2", 1, 1), Iterate("ep2"), Expect("ep2", <<1, 2>>),
        DropGuard("ep2"),
        PollAll("ep3", 2), Iterate("ep3"), Expect("ep3", <<1, 2>>), DropGuard("ep3") >>
     \o drops
     \o << PollAll("ep1", Shutdown), PollAll("ep2", Shutdown), PollAll("ep3", Shutdown) >> >>

spmc_with_event_pollers ==
  Single(8, PollersInStages, PolledInStages(<<DropProducer>>), NoHandlers)

mpmc_with_event_pollers ==
  Multi(Ring, PollersInStages, 2, PolledInStages(<<DropProducer, DropProducer>>), NoHandlers)

\* A handler and a poller side by side, and a poller behind both, which are
\* driven after the producer has been dropped.
PollersAndProcessor == <<H("processor"), P("ep1"), AndThen, P("ep2")>>

PolledAfterDrop(drops) ==
  << << PollAll("ep1", NoEvents), PollAll("ep2", NoEvents), Publish(<<1>>), Publish(<<2>>) >>
     \o drops
     \o << PollAll("ep1", 2), PollAll("ep2", NoEvents), Iterate("ep1"), Expect("ep1", <<1, 2>>),
           DropGuard("ep1"), PollAll("ep1", Shutdown), PollAll("ep2", 2), Iterate("ep2"),
           Expect("ep2", <<1, 2>>), DropGuard("ep2"), Expect("processor", <<1, 2>>) >> >>

spmc_with_mixed_event_pollers_and_processors ==
  Single(8, PollersAndProcessor, PolledAfterDrop(<<DropProducer>>), NoHandlers)

mpmc_with_mixed_event_pollers_and_processors ==
  Multi(Ring, PollersAndProcessor, 2, PolledAfterDrop(<<DropProducer, DropProducer>>), NoHandlers)

\* A poller on a thread of its own that ends when it is told to shut down.
PollLoop(p) == << PollWait(p, 5), Iterate(p), DropGuard(p), Goto(1) >>

blocking_wait_strategy_mixes_callback_and_polling_in_order ==
  Single(8, <<H("callback"), AndThen, P("poller")>>,
    << << Publish(<<1>>), Publish(<<2>>), DropProducer, Join(2),
          Expect("callback", <<1, 2>>), Expect("poller", <<1, 2>>) >>,
       PollLoop("poller") >>, NoHandlers)

blocking_wait_strategy_shutdown_wakes_idle_consumer ==
  Single(8, Processor, << <<DropProducer>>, <<Join(1)>> >>, NoHandlers)

lite_blocking_wait_strategy_shutdown_wakes_idle_consumer ==
  blocking_wait_strategy_shutdown_wakes_idle_consumer
-----------------------------------------------------------------------------
(* Gates.                                                                  *)

\* The events of these tests, more than the slots of the first one's ring, and
\* the last event for which the lagging gate is moved.
Total == 5
Lag == 1

\* The test publishes, sees the engine stop where the gate stands, opens the
\* gate, and sees the engine go on to the end.
SeenToLag(gate) ==
  << PublishEach(0, Total - 1)
     \o << Await("engine", Lag + 1), AtMost("engine", Lag + 1), SetGate(gate, Total - 1),
           DropProducer, Expect("engine", Upto(Total)) >> >>

gating_crash_safety_invariant ==
  Single(4, <<H("journal"), Gated({"flushed"}), H("engine")>>, SeenToLag("flushed"),
         [journal |-> Sets(<<[gate |-> "flushed", upto |-> Lag]>>)])

gating_min_across_multiple_sequences ==
  Single(8, <<H("journal"), Gated({"flushed", "acked"}), H("engine")>>, SeenToLag("acked"),
         [journal |-> Sets(<<[gate |-> "flushed", upto |-> Total],
                             [gate |-> "acked", upto |-> Lag]>>)])

gating_min_with_fanout_consumers ==
  Single(8, <<H("a"), H("b"), Gated({"gate"}), H("stage 2")>>,
    << << Publish(<<0>>), SetGate("gate", 0), Publish(<<1>>), SetGate("gate", 1),
          DropProducer, Expect("stage 2", Upto(2)) >> >>, NoHandlers)
=============================================================================
