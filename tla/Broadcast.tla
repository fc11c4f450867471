----------------------------- MODULE Broadcast ------------------------------
(***************************************************************************)
(* What a disruptor promises to its clients, whichever producer and        *)
(* whichever wait strategy it is built with: a bounded log that every      *)
(* consumer reads from the first event to the last, in stages.             *)
(*                                                                         *)
(* There are no cursors, caches, bits or slots here.  An event is written  *)
(* at its sequence once and for all; how the topology, the capacity and    *)
(* shutdown constrain who may read and write what is all there is.         *)
(* SingleProducer and MultiProducer are shown to implement this            *)
(* specification; Programs runs clients against it.                        *)
(***************************************************************************)
EXTENDS Integers, Sequences

VARIABLES
  topology,   \* Fixed when the disruptor is built: a record of its
              \* capacity, the stage of every consumer, the gates of every
              \* stage, and the managed consumers.
  written,    \* The sequences that have been published.
  next,       \* The next sequence a consumer will read.
  granted,    \* The last sequence of the batch a consumer is working on.
  released,   \* The last sequence a consumer has finished with.
  seen,       \* The sequences a consumer has read, in the order it did.
  high,       \* The highest value every gate has stood at.
  final,      \* The sequence at which consumers stop, once it is known.
  stopped,    \* The consumers that have been told so.
  returned    \* Has dropping the (last) producer returned?

logVars == <<topology, written, next, granted, released, seen, high, final, stopped, returned>>

NotYet == -1

Readers == DOMAIN topology.stage

LogInit ==
  /\ written = {}
  /\ next = [c \in Readers |-> 0]
  /\ granted = [c \in Readers |-> NotYet]
  /\ released = [c \in Readers |-> NotYet]
  /\ seen = [c \in Readers |-> <<>>]
  /\ high = [g \in DOMAIN high |-> NotYet]
  /\ final = NotYet
  /\ stopped = {}
  /\ returned = FALSE

\* No consumer is a round behind sequence s.
HasSlot(s) == \A c \in Readers : s <= released[c] + topology.capacity

\* Events are published, in any order, where there is room for them, and never
\* after shutdown has been requested.
Write(events) ==
  /\ final = NotYet
  /\ events \cap written = {}
  /\ \A s \in events : HasSlot(s)
  /\ written' = written \cup events
  /\ UNCHANGED <<topology, next, granted, released, seen, high, final, stopped, returned>>

\* Consumer c may read up to sequence s: there is no gap before it, all earlier
\* stages are done with it, and the gates have let it through.
MayRead(c, s) ==
  /\ 0 .. s \subseteq written
  /\ \A d \in Readers : topology.stage[d] < topology.stage[c] => s <= released[d]
  /\ \A g \in topology.gates[topology.stage[c]] : s <= high[g]

\* Consumer c begins a batch that ends at s.
Grant(c, s) ==
  /\ granted[c] = released[c]
  /\ s >= next[c]
  /\ MayRead(c, s)
  /\ granted' = [granted EXCEPT ![c] = s]
  /\ UNCHANGED <<topology, written, next, released, seen, high, final, stopped, returned>>

Read(c) ==
  /\ next[c] <= granted[c]
  /\ seen' = [seen EXCEPT ![c] = Append(@, next[c])]
  /\ next' = [next EXCEPT ![c] = @ + 1]
  /\ UNCHANGED <<topology, written, granted, released, high, final, stopped, returned>>

\* Consumer c is done with its batch.  Managed consumers have read all of it,
\* pollers perhaps not.
Release(c) ==
  /\ granted[c] > released[c]
  /\ c \in topology.managed => next[c] > granted[c]
  /\ released' = [released EXCEPT ![c] = granted[c]]
  /\ next' = [next EXCEPT ![c] = granted[c] + 1]
  /\ UNCHANGED <<topology, written, granted, seen, high, final, stopped, returned>>

Open(g, v) ==
  /\ v > high[g]
  /\ high' = [high EXCEPT ![g] = v]
  /\ UNCHANGED <<topology, written, next, granted, released, seen, final, stopped, returned>>

\* Shutdown is requested, behind everything that has been published.
Close(s) ==
  /\ final = NotYet
  /\ s >= 0
  /\ \A w \in written : w < s
  /\ final' = s
  /\ UNCHANGED <<topology, written, next, granted, released, seen, high, stopped, returned>>

\* Consumer c has read everything.
Stop(c) ==
  /\ c \notin stopped
  /\ final = next[c]
  /\ granted[c] = released[c]
  /\ stopped' = stopped \cup {c}
  /\ UNCHANGED <<topology, written, next, granted, released, seen, high, final, returned>>

\* Dropping the producer returns when every managed consumer has stopped.
Return ==
  /\ ~returned
  /\ final # NotYet
  /\ topology.managed \subseteq stopped
  /\ returned' = TRUE
  /\ UNCHANGED <<topology, written, next, granted, released, seen, high, final, stopped>>

LogNext ==
  \/ Write(written' \ written)
  \/ \E c \in Readers : Grant(c, granted'[c]) \/ Read(c) \/ Release(c) \/ Stop(c)
  \/ \E g \in DOMAIN high : Open(g, high'[g])
  \/ Close(final')
  \/ Return

LogSpec == LogInit /\ [][LogNext]_logVars
=============================================================================
