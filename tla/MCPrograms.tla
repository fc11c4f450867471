----------------------------- MODULE MCPrograms -----------------------------
(* All tests and examples but the two that the other runs are about.       *)
EXTENDS Examples

\* The last example again, with a thread of its own for the producer.
gate_example_with_publisher ==
  Single(1024, GateChain, << PublishEach(0, 1) \o <<DropProducer>>, GateLoop(1) >>, NoHandlers)

AllPrograms ==
  [spsc_full_ringbuffer |-> spsc_full_ringbuffer,
   mpsc_full_ringbuffer |-> mpsc_full_ringbuffer,
   spsc_insufficient |-> spsc_insufficient_space_for_batch_publication,
   mpsc_insufficient |-> mpsc_insufficient_space_for_batch_publication,
   gating_backpressure |-> gating_backpressure_prevents_overwrite,
   dependent_gate |-> dependent_gate_backpressure_blocks_overwrite,
   spsc_disruptor |-> spsc_disruptor,
   spsc_pinned |-> spsc_disruptor_with_pinned_and_named_thread,
   spsc_batch |-> spsc_disruptor_with_batch_publication,
   spsc_zero_batch |-> spsc_disruptor_with_zero_batch_publication,
   spsc_state |-> spsc_disruptor_with_state,
   multi_publisher |-> multi_publisher_disruptor,
   multi_publisher_batch |-> multi_publisher_disruptor_with_batch_publication,
   multi_publisher_wraparound |-> multi_publisher_wraparound_under_contention,
   stress_test |-> stress_test,
   spmc_concurrent |-> spmc_with_concurrent_consumers,
   spmc_dependent |-> spmc_with_dependent_consumers_and_some_with_state,
   mpmc_dependent |-> mpmc_with_dependent_consumers_and_some_with_state,
   spmc_pollers |-> spmc_with_event_pollers,
   mpmc_pollers |-> mpmc_with_event_pollers,
   spmc_mixed |-> spmc_with_mixed_event_pollers_and_processors,
   mpmc_mixed |-> mpmc_with_mixed_event_pollers_and_processors,
   blocking_mix |-> blocking_wait_strategy_mixes_callback_and_polling_in_order,
   blocking_idle |-> blocking_wait_strategy_shutdown_wakes_idle_consumer,
   lite_idle |-> lite_blocking_wait_strategy_shutdown_wakes_idle_consumer,
   gating_crash |-> gating_crash_safety_invariant,
   gating_min |-> gating_min_across_multiple_sequences,
   gating_fanout |-> gating_min_with_fanout_consumers,
   single_and_batch |-> single_and_batch_publication,
   processor_with_state |-> processor_with_state,
   splitting_workload |-> splitting_workload_across_processors,
   different_event_types |-> different_event_types,
   pinning |-> pinning_threads_and_dependencies,
   gate_example |-> gate_example_with_publisher,
   event_poller |-> event_poller_example,
   consumer_dependency_graph |-> consumer_dependency_graph]

GateExample == [gate_example |-> event_poller_dependency_gate]

EndOfBatch == [end_of_batch |-> end_of_batch_flag_sequences]
=============================================================================
