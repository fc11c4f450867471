------------------------------ MODULE Examples ------------------------------
(***************************************************************************)
(* The programs of src/examples, scaled as in LibTests.  Their handlers    *)
(* keep to themselves, but for the two that set a gate.                    *)
(***************************************************************************)
EXTENDS LibTests

single_and_batch_publication ==
  Single(64, Processor,
    << PublishEach(0, Few - 1) \o << Publish(Batch(5, 42)), DropProducer >> >>, NoHandlers)

processor_with_state ==
  Single(64, <<HS("processor")>>, << PublishEach(0, Few - 1) \o <<DropProducer>> >>, NoHandlers)

splitting_workload_across_processors ==
  Single(256, <<H("processor0"), H("processor1")>>,
    << PublishEach(0, Few - 1)
       \o <<DropProducer>> \o ExpectEach(<<"processor0", "processor1">>, Upto(Few)) >>,
    NoHandlers)

\* Four handles, dropped in the reverse order of their declaration.
different_event_types ==
  Multi(Ring, Processor, 4,
    << << Publish(<<1>>), Publish(<<2>>), Publish(<<3>>), Publish(<<4>>),
          DropProducer, DropProducer, DropProducer, DropProducer >> >>, NoHandlers)

pinning_threads_and_dependencies ==
  Multi(Ring, <<Pin(0), H("h1"), Pin(1), H("h2"), AndThen, Pin(2), H("h3")>>, 2,
    << <<Publish(<<0>>), DropProducer>>, <<Publish(<<1>>), DropProducer>> >>, NoHandlers)

\* The poller is driven by the thread that has dropped the producer.
event_poller_example ==
  Single(64, <<P("poller")>>,
    << PublishEach(0, 1)
       \o << DropProducer, PollWait("poller", 8), Iterate("poller"), DropGuard("poller"),
             Goto(4) >> >>, NoHandlers)

consumer_dependency_graph ==
  Single(1024, <<H("journal"), Gated({"flushed"}), H("engine")>>,
    << PublishEach(0, Few - 1)
       \o << DropProducer, Expect("journal", Upto(Few)), Expect("engine", Upto(Few)) >> >>,
    [journal |-> Sets(<<[gate |-> "flushed", upto |-> NoMaximum]>>)])

\* A poller, and behind it a handler and a gate, which the thread of the poller
\* moves.  Statement k begins the loop around poll_wait, k + 5 is its end.
GateChain == <<P("poller"), Gated({"gated gate"}), H("downstream")>>

GateLoop(k) ==
  << PollWait("poller", k + 5), Iterate("poller"), SetGateToLast("gated gate", "poller"),
     DropGuard("poller"), Goto(k) >>

event_poller_dependency_gate ==
  Single(1024, GateChain, << PublishEach(0, 1) \o <<DropProducer>> \o GateLoop(4) >>, NoHandlers)
=============================================================================
