--------------------------- MODULE MultiProducer ----------------------------
(***************************************************************************)
(* A disruptor whose producer handle can be cloned and used from several   *)
(* threads (src/src/producer/multi.rs).  Handles claim disjoint intervals  *)
(* of sequences by compare-and-exchange on one cursor, and then publish    *)
(* independently of each other: one availability bit per slot tells        *)
(* whether the slot was last published in an even or in an odd round, and  *)
(* the consumers of the first stage walk over these bits, one word at a    *)
(* time, up to the first one that has the wrong parity.                    *)
(*                                                                         *)
(* The word of 64 bits is scaled down to WordBits; the ring needs at least *)
(* one full word, as MultiProducerBarrier::new asserts.                    *)
(***************************************************************************)
EXTENDS Disruptor, FiniteSets

CONSTANTS
  Producers,     \* The handles that may ever exist.
  Original,      \* The handle that build() returns.
  WordBits,      \* The number of slots per availability word.
  FaultyUpdates, \* Handles whose update closure may panic.
  MaxSequence,   \* Bound: no call begins when the cursor is here.
  MaxBatch       \* Bound: the largest batch a client asks for.

ASSUME MultiProducerAssumption ==
  /\ Original \in Producers
  /\ IsFiniteSet(Producers)
  /\ WordBits \in Nat \ {0}
  /\ Capacity % WordBits = 0
  /\ FaultyUpdates \subseteq Producers
  \* MPBuilder has no and_then_with_dependents behind a single consumer.
  /\ \A k \in 2 .. LastStage : StageGates[k] # {} => Cardinality(ConsumersAt(k - 1)) > 1
  /\ MaxSequence \in Nat /\ MaxBatch \in Nat

VARIABLES
  cursor,        \* The highest sequence that a handle has claimed.
  bit,           \* The availability bit of every slot.
  walk,          \* The next sequence of a consumer's walk over the bits.
  ppc,           \* Where every handle is.
  call,          \* The locals of a handle's call of the Producer trait.
  sequence_clear_of_consumers,
  ref_count,
  joined,        \* The consumers that the last handle has joined.
  published,     \* History: the sequences that have been published.
  holes          \* History: those that were claimed by a closure which panicked.

endVars == <<ref_count, joined>>
producerVars == <<cursor, bit, ppc, call, sequence_clear_of_consumers, endVars, published, holes>>
vars == <<disruptorVars, walk, producerVars>>

\* Between calls.  The field claimed_sequence is among the locals: only the
\* call that writes it reads it.
NoCall ==
  [n |-> 0,              \* The number of events asked for.
   spin |-> FALSE,       \* Does the call spin until there is room?
   current |-> NONE,     \* The cursor as last seen.
   todo |-> {},          \* The consumer cursors yet to load.
   rear |-> NONE,        \* The least of those loaded so far.
   claimed_sequence |-> NONE,
   filled |-> 0,         \* How many events the closure has updated.
   flipped |-> 0]        \* How many events are published.

ConsumerBarrier == ConsumersAt(LastStage)

Init ==
  /\ DisruptorInit
  /\ cursor = NONE
  /\ bit = [i \in SlotIndices |-> 1]
  /\ walk = [c \in Consumers |-> NONE]
  /\ ppc = [q \in Producers |-> IF q = Original THEN "idle" ELSE "unborn"]
  /\ call = [q \in Producers |-> NoCall]
  /\ sequence_clear_of_consumers = [q \in Producers |-> Capacity - 1]
  /\ ref_count = 1
  /\ joined = {}
  /\ published = {}
  /\ holes = {}
-----------------------------------------------------------------------------
(* The availability bits.                                                  *)

\* Mutant: the round is left out.
calculate_availability_flag_mutant(s) == 0

\* The parity of the round that a sequence belongs to.
calculate_availability_flag(s) == (s \div Capacity) % 2

\* The sequences from s to the end of the word that holds the bit of s.
RestOfWord(s) == s .. s + WordBits - 1 - (slot_index(s) % WordBits)

\* Mutant: the flag of the slot instead of the sequence.
IsPublishedMutant(s) == bit[slot_index(s)] = calculate_availability_flag(slot_index(s))

IsPublished(s) == bit[slot_index(s)] = calculate_availability_flag(s)

\* The first sequence of the rest of the word that is not published.
Mismatches(s) == {m \in RestOfWord(s) : ~IsPublished(m)}
FirstMismatch(s) == CHOOSE m \in Mismatches(s) : \A k \in Mismatches(s) : m <= k

\* One load of a word in get_after, by a consumer of the first stage: it has
\* found the end of what is published, or goes on to the next word.
LoadWord(c) ==
  LET s == IF walk[c] = NONE THEN next[c] ELSE walk[c]
  IN  /\ pc[c] \in {"scan", "poll"}
      /\ ProducerBarrier \in todo[c]
      /\ IF Mismatches(s) # {}
           THEN /\ LoadCell(c, ProducerBarrier, FirstMismatch(s) - 1)
                /\ walk' = [walk EXCEPT ![c] = NONE]
           ELSE /\ walk' = [walk EXCEPT ![c] = s + Cardinality(RestOfWord(s))]
                /\ UNCHANGED disruptorVars
-----------------------------------------------------------------------------
(* Claiming sequences.                                                     *)

\* Mutant: the clearance covers the first event only.
MustCheckMutant(q, from, n) == sequence_clear_of_consumers[q] < from

\* Must handle q look at the consumers before it claims n sequences?
MustCheck(q, from, n) == sequence_clear_of_consumers[q] < from + n

\* The loop of next_sequences goes round with `from` as the current cursor.
Attempt(q, locals, from) ==
  /\ call' = [call EXCEPT ![q] = [locals EXCEPT
                !.current = from,
                !.todo = IF MustCheck(q, from, locals.n) THEN ConsumerBarrier ELSE {}]]
  /\ ppc' = [ppc EXCEPT ![q] = IF MustCheck(q, from, locals.n) THEN "claim" ELSE "cas"]

\* A call begins by loading the cursor.
BeginPublish(q, n, spin) ==
  /\ ppc[q] = "idle"
  /\ cursor + n < MaxSequence
  /\ spin => n <= Capacity
  /\ Attempt(q, [NoCall EXCEPT !.n = n, !.spin = spin], cursor)
  /\ UNCHANGED <<disruptorVars, walk, cursor, bit, sequence_clear_of_consumers, endVars,
                 published, holes>>

\* publish and batch_publish call next_sequences again until it succeeds.
RetryPublish(q) ==
  /\ ppc[q] = "retry"
  /\ Attempt(q, call[q], cursor)
  /\ UNCHANGED <<disruptorVars, walk, cursor, bit, sequence_clear_of_consumers, endVars,
                 published, holes>>

\* The call is over: it returns, or it unwinds.
Return(q) ==
  /\ ppc' = [ppc EXCEPT ![q] = "idle"]
  /\ call' = [call EXCEPT ![q] = NoCall]

\* One load of the consumer barrier and, after the last one, the decision: try
\* to claim, or report the missing slots.
LoadConsumerCursor(q, c) ==
  LET least == IF call[q].todo = ConsumerBarrier THEN counter[c]
                                                 ELSE Least(call[q].rear, counter[c])
      room  == available_capacity(call[q].current, least)
      last  == call[q].todo = {c}
      Loaded == call' = [call EXCEPT ![q].rear = least, ![q].todo = @ \ {c}]
  IN  /\ ppc[q] = "claim"
      /\ c \in call[q].todo
      /\ \/ /\ ~last
            /\ Loaded
            /\ UNCHANGED <<ppc, sequence_clear_of_consumers>>
         \/ /\ last
            /\ room >= call[q].n
            /\ Loaded
            /\ ppc' = [ppc EXCEPT ![q] = "cas"]
            /\ sequence_clear_of_consumers' =
                 [sequence_clear_of_consumers EXCEPT ![q] = call[q].current + room]
         \/ /\ last
            /\ room < call[q].n
            /\ call[q].spin
            /\ Loaded
            /\ ppc' = [ppc EXCEPT ![q] = "retry"]
            /\ UNCHANGED sequence_clear_of_consumers
         \/ /\ last
            /\ room < call[q].n
            /\ ~call[q].spin
            /\ Return(q)
            /\ UNCHANGED sequence_clear_of_consumers
      /\ UNCHANGED <<disruptorVars, walk, cursor, bit, endVars, published, holes>>

\* The interval after `current` is claimed, unless another handle was faster.
CompareExchange(q) ==
  /\ ppc[q] = "cas"
  /\ \/ /\ cursor = call[q].current
        /\ cursor' = cursor + call[q].n
        /\ call' = [call EXCEPT ![q].claimed_sequence = cursor']
        /\ ppc' = [ppc EXCEPT ![q] = "update"]
     \/ /\ cursor # call[q].current
        /\ Attempt(q, call[q], cursor)
        /\ UNCHANGED cursor
  /\ UNCHANGED <<disruptorVars, walk, bit, sequence_clear_of_consumers, endVars, published, holes>>
-----------------------------------------------------------------------------
(* Publishing.                                                             *)

\* Mutant: off by one in the lower end of the interval.
lowerMutant(q) == call[q].claimed_sequence - call[q].n

lower(q) == call[q].claimed_sequence - call[q].n + 1

\* Mutant: the iterator yields one event too many.
HasNextMutant(q) == call[q].filled <= call[q].n

HasNext(q) == call[q].filled < call[q].n

UpdateEvent(q) ==
  LET s == lower(q) + call[q].filled
  IN  /\ ppc[q] = "update"
      /\ HasNext(q)
      /\ slots' = [slots EXCEPT ![slot_index(s)] = s]
      /\ call' = [call EXCEPT ![q].filled = @ + 1]
      /\ UNCHANGED <<shutdown_at_sequence, counter, consumerVars, gateHigh, walk, cursor, bit,
                     ppc, sequence_clear_of_consumers, endVars, published, holes>>

\* The closure unwinds: the claimed sequences are never published.
UpdatePanics(q) ==
  /\ q \in FaultyUpdates
  /\ ppc[q] = "update"
  /\ Return(q)
  /\ holes' = holes \cup lower(q) .. call[q].claimed_sequence
  /\ UNCHANGED <<disruptorVars, walk, cursor, bit, sequence_clear_of_consumers, endVars,
                 published>>

\* One fetch_xor: publish (of a single event) and every round of
\* publish_range_relaxed flip the bits of the batch that are in one word.
PublishWord(q) ==
  LET from == lower(q) + call[q].flipped
      word == RestOfWord(from) \cap from .. call[q].claimed_sequence
      mask == {slot_index(s) : s \in word}
      done == call[q].flipped + Cardinality(word)
  IN  /\ \/ ppc[q] = "update" /\ call[q].filled = call[q].n
         \/ ppc[q] = "publish"
      /\ bit' = [i \in SlotIndices |-> IF i \in mask THEN 1 - bit[i] ELSE bit[i]]
      /\ published' = published \cup word
      /\ IF done = call[q].n
           THEN Return(q)
           ELSE /\ ppc' = [ppc EXCEPT ![q] = "publish"]
                /\ call' = [call EXCEPT ![q].flipped = done]
      /\ UNCHANGED <<disruptorVars, walk, cursor, sequence_clear_of_consumers, endVars, holes>>
-----------------------------------------------------------------------------
(* Handles come and go.                                                    *)

\* Clone: r is a new handle, which knows nothing about the consumers.
Clone(q, r) ==
  /\ ppc[q] = "idle"
  /\ ppc[r] = "unborn"
  /\ ppc' = [ppc EXCEPT ![r] = "idle"]
  /\ ref_count' = ref_count + 1
  /\ sequence_clear_of_consumers' = [sequence_clear_of_consumers EXCEPT ![r] = 0]
  /\ UNCHANGED <<disruptorVars, walk, cursor, bit, call, joined, published, holes>>

\* Mutant: off by one in the test of fetch_sub's result.
IsLastMutant == ref_count <= 2

IsLast == ref_count = 1

\* Mutant: shutdown at the last claimed sequence.
FinalSequenceMutant == cursor

FinalSequence == cursor + 1

\* Drop: the last handle requests shutdown right after the last claimed
\* sequence, and goes on to join the consumers.
DropHandle(q) ==
  /\ ppc[q] = "idle"
  /\ ref_count' = ref_count - 1
  /\ \/ /\ IsLast
        /\ shutdown_at_sequence' = FinalSequence
        /\ ppc' = [ppc EXCEPT ![q] = IF Managed = {} THEN "dropped" ELSE "joining"]
     \/ /\ ~IsLast
        /\ ppc' = [ppc EXCEPT ![q] = "gone"]
        /\ UNCHANGED shutdown_at_sequence
  /\ UNCHANGED <<slots, counter, consumerVars, gateHigh, walk, cursor, bit, call,
                 sequence_clear_of_consumers, joined, published, holes>>

JoinConsumer(q, c) ==
  /\ ppc[q] = "joining"
  /\ c \in Managed \ joined
  /\ \A d \in Managed \ joined : Stage[c] <= Stage[d]
  /\ pc[c] \in {"stopped", "panicked"}
  /\ joined' = joined \cup {c}
  /\ ppc' = [ppc EXCEPT ![q] = IF pc[c] = "panicked" THEN "panicked"
                               ELSE IF joined' = Managed THEN "dropped" ELSE "joining"]
  /\ UNCHANGED <<disruptorVars, walk, cursor, bit, call, sequence_clear_of_consumers, ref_count,
                 published, holes>>
-----------------------------------------------------------------------------
LoadBarrier(c) ==
  \/ LoadWord(c)
  \/ \E x \in todo[c] \ {ProducerBarrier} : LoadCell(c, x, counter[x]) /\ UNCHANGED walk

ConsumerStep(c) ==
  /\ \/ LoadBarrier(c)
     \/ CheckShutdown(c) /\ UNCHANGED walk
     \/ ReadEvent(c) /\ UNCHANGED walk
     \/ SignalDone(c) /\ UNCHANGED walk
  /\ UNCHANGED producerVars

ClientStep ==
  /\ \/ \E c \in Faulty : HandlerPanics(c)
     \/ \E p \in Pollers, l \in Limits \cup {NoLimit} : PollTake(p, l)
     \/ \E p \in Pollers : PollWait(p)
     \/ \E p \in Pollers : DropGuard(p)
     \/ \E g \in Gates, v \in GateValues : SetGate(g, v)
  /\ UNCHANGED <<walk, producerVars>>

\* The steps of handle q in a call that is under way.
HandleStep(q) ==
  \/ RetryPublish(q)
  \/ \E c \in ConsumerBarrier : LoadConsumerCursor(q, c)
  \/ CompareExchange(q)
  \/ UpdateEvent(q)
  \/ PublishWord(q)
  \/ \E c \in Managed : JoinConsumer(q, c)

\* All handles are gone and all consumers have ended.
Terminated ==
  /\ \A q \in Producers : ppc[q] \in {"unborn", "gone", "dropped", "panicked"}
  /\ \A c \in Consumers : pc[c] \in {"stopped", "panicked"}
  /\ UNCHANGED vars

Next ==
  \/ \E q \in Producers, n \in 0 .. MaxBatch, spin \in BOOLEAN : BeginPublish(q, n, spin)
  \/ \E q \in Producers : HandleStep(q)
  \/ \E q \in Producers : UpdatePanics(q)
  \/ \E q, r \in Producers : Clone(q, r)
  \/ \E q \in Producers : DropHandle(q)
  \/ \E c \in Consumers : ConsumerStep(c)
  \/ ClientStep
  \/ Terminated

Spec == Init /\ [][Next]_vars

\* Threads are scheduled, closures and handlers return; nobody has to publish,
\* clone, drop or poll.
Fairness ==
  /\ \A q \in Producers : WF_vars(HandleStep(q))
  /\ \A c \in Consumers : WF_vars(ConsumerStep(c))

FairSpec == Spec /\ Fairness
-----------------------------------------------------------------------------
(* Properties.                                                             *)

\* The highest sequence that can be claimed: every handle may be in a call
\* that began just below the bound.
Sequences == NONE .. MaxSequence + MaxBatch * Cardinality(Producers)

TypeOK ==
  /\ DisruptorTypeOK
  /\ cursor \in Sequences
  /\ bit \in [SlotIndices -> {0, 1}]
  /\ walk \in [Consumers -> Sequences]
  /\ ppc \in [Producers -> {"unborn", "idle", "retry", "claim", "cas", "update", "publish",
                            "gone", "joining", "dropped", "panicked"}]
  /\ call \in [Producers ->
               [n : 0 .. MaxBatch, spin : BOOLEAN, current : Sequences,
                todo : SUBSET ConsumerBarrier, rear : Int, claimed_sequence : Sequences,
                filled : 0 .. MaxBatch, flipped : 0 .. MaxBatch]]
  /\ sequence_clear_of_consumers \in [Producers -> Int]
  /\ ref_count \in 0 .. Cardinality(Producers)
  /\ joined \in SUBSET Managed
  /\ published \in SUBSET Sequences
  /\ holes \in SUBSET Int

\* The sequences whose slots the closure of handle q may write.
Writing(q) == IF ppc[q] = "update" THEN lower(q) .. call[q].claimed_sequence ELSE {}

\* No data race (the SAFETY comments of producer/multi.rs and consumer.rs): a
\* slot granted to an update closure is granted to no handler, no event guard
\* and no closure of another handle.
NoDataRace ==
  \A q \in Producers : \A w \in Writing(q) :
    /\ \A c \in Consumers : \A r \in Reading(c) : slot_index(r) # slot_index(w)
    /\ \A r \in Producers \ {q} : \A v \in Writing(r) : slot_index(v) # slot_index(w)

\* multi.rs:285-292, why one bit per slot is enough: handles never overtake
\* each other by a round, so in the round that follows the slowest consumer
\* the parity of a slot tells exactly whether its event is published.
ParityTellsPublished ==
  \A c \in ConsumerBarrier :
    (\A d \in ConsumerBarrier : counter[c] <= counter[d]) =>
      \A s \in counter[c] + 1 .. counter[c] + Capacity : IsPublished(s) <=> s \in published

\* A walk over the bits that straddles words, and publications that land
\* behind or in front of it, never grants an event that is not yet published.
OnlyPublishedGranted ==
  \A c \in Consumers : \A s \in Reading(c) : s \in published

\* "All events published are processed and then the processing thread(s) will
\* be stopped", whichever handle is dropped last and whatever the others were
\* doing meanwhile.
DrainBeforeStop ==
  /\ \A c \in Consumers : pc[c] = "stopped" =>
       /\ next[c] = cursor + 1
       /\ \A q \in Producers : ppc[q] \in {"unborn", "gone", "joining", "dropped", "panicked"}
  /\ \A q \in Producers : ppc[q] = "dropped" =>
       \A c \in Managed : Len(seen[c]) = Cardinality(published)

\* The sequences that handle q has claimed and not published yet.
Pending(q) ==
  IF ppc[q] \in {"update", "publish"}
    THEN lower(q) + call[q].flipped .. call[q].claimed_sequence
    ELSE {}

\* How far the bits let a consumer that loads them now.
NextUnlessUnpublished(c) == IF IsPublished(next[c]) THEN next[c] ELSE next[c] - 1

\* A handle is about to publish sequence s, or the closure that was to update
\* it has panicked: nobody else knows.
InTheHandsOf(s) ==
  \/ \E q \in Producers : s \in Pending(q)
  \/ s \in holes \ published

\* Deadlock freedom, the safety half of the liveness properties below.  Whatever
\* is claimed and not released is held up by a consumer that waits for no other
\* one or by a handle in the middle of its call, a spinning call that lacks room
\* by such a claim, and the last drop joins nobody who does not get to the
\* shutdown sequence.
NobodyWaitsInVain ==
  /\ \A c \in Consumers : counter[c] < cursor =>
       \/ \E d \in Consumers : HoldsUp(d, c) /\ OnItsOwn(d, NextUnlessUnpublished(d))
       \/ InTheHandsOf(counter[c] + 1)
  /\ \A q \in Producers : ppc[q] \in {"claim", "retry"} /\ call[q].spin =>
       \A c \in ConsumerBarrier :
         call[q].n <= available_capacity(cursor, counter[c]) \/ counter[c] < cursor
  /\ \A q \in Producers : ppc[q] = "joining" =>
       \A c \in Managed \ joined : WillStop(c, cursor)

\* What a handle has claimed is eventually handled by every managed consumer,
\* if update closures and handlers return.
EveryClaimHandled ==
  \A c \in Managed : \A s \in 0 .. MaxSequence - 1 : (cursor >= s) ~> (next[c] > s)

\* Dropping the last handle does not hang, if update closures return.
DropReturns ==
  \A q \in Producers : (ppc[q] = "joining") ~> (ppc[q] \in {"dropped", "panicked"})
-----------------------------------------------------------------------------
(* The inductive invariant behind the safety properties.                   *)

\* Everything up to s is published, without a gap.
Ready(s) == 0 .. s \subseteq published

\* The cell x of a barrier has let through everything up to s.
Covers(x, s) ==
  /\ x = ProducerBarrier => Ready(s)
  /\ x \in Consumers => s <= counter[x]
  /\ x \in Gates => s <= gateHigh[x]

\* Consumer c may have everything up to s: it is published, every consumer of
\* an earlier stage has released it and every gate has let it through.
MayPass(c, s) ==
  /\ Ready(s)
  /\ \A d \in Consumers : Stage[d] < Stage[c] => s <= counter[d]
  /\ \A h \in StageGates[Stage[c]] : s <= gateHigh[h]

\* Consumer c keeps to what it may have, with its cursor and with its grant;
\* between batches a cursor is right behind the position.  While a
\* barrier is loaded, the least value is covered by the cells behind it, and
\* the walk over the bits has only published events behind it.
Follows(c) ==
  /\ NONE <= counter[c]
  /\ MayPass(c, counter[c])
  /\ IF pc[c] \in {"read", "panicked"}
       THEN /\ counter[c] <= next[c] - 1
            /\ next[c] - 1 <= available[c]
            /\ MayPass(c, available[c])
       ELSE counter[c] = next[c] - 1
  /\ pc[c] \in {"scan", "poll"} =>
       /\ todo[c] \subseteq Barrier(Stage[c])
       /\ \A x \in Barrier(Stage[c]) \ todo[c] : Covers(x, available[c])
  /\ walk[c] # NONE => Ready(walk[c] - 1)

ConsumersFollow == \A c \in Consumers : Follows(c)

GatesBehindHigh == \A h \in Gates : counter[h] <= gateHigh[h]

\* No handle is ahead of any consumer by more than a round, neither with its
\* clearance nor with what it has claimed.
WithinOneRound ==
  \A c \in Consumers :
    /\ cursor <= counter[c] + Capacity
    /\ \A q \in Producers : sequence_clear_of_consumers[q] <= counter[c] + Capacity

\* What a call has done so far, by where it is.
InPhase(q) ==
  /\ ppc[q] \in {"retry", "claim", "cas"} => call[q].filled = 0 /\ call[q].flipped = 0
  /\ ppc[q] = "claim" =>
       \A c \in ConsumerBarrier \ call[q].todo : call[q].rear <= counter[c]
  /\ ppc[q] = "cas" => call[q].current + call[q].n <= sequence_clear_of_consumers[q]
  /\ ppc[q] = "update" => call[q].flipped = 0 /\ call[q].filled <= call[q].n
  /\ ppc[q] = "publish" => call[q].flipped <= call[q].n
  /\ ppc[q] \in {"update", "publish"} =>
       0 <= lower(q) /\ call[q].claimed_sequence <= cursor

CallsInPhase == \A q \in Producers : InPhase(q)

\* Those whose slots hold their events already.
Updated(q) ==
  IF ppc[q] = "update" THEN lower(q) .. lower(q) + call[q].filled - 1 ELSE Pending(q)

\* Nothing is claimed twice: not by two handles, and not again when it is
\* published.
ClaimsDisjoint ==
  /\ published \subseteq 0 .. cursor
  /\ \A q \in Producers :
       /\ Pending(q) \cap published = {}
       /\ \A r \in Producers \ {q} : Pending(q) \cap Pending(r) = {}

\* A bit has the parity of the last event that was published in its slot.
BitsTellRounds ==
  /\ \A s \in published :
       s + Capacity \notin published => bit[slot_index(s)] = calculate_availability_flag(s)
  /\ \A s \in SlotIndices : s \notin published => bit[s] = 1

\* A slot holds its event from the update on, as long as anybody needs it.
SlotsHoldEvents ==
  /\ \A c \in Consumers, s \in published : counter[c] < s => slots[slot_index(s)] = s
  /\ \A q \in Producers : \A s \in Updated(q) : slots[slot_index(s)] = s

\* Calls begin below the bound, so only those that have got past their claim
\* can have moved the cursor beyond it.
Unclaimed == {q \in Producers : ppc[q] \in {"retry", "claim", "cas"}}
ClaimsBounded == cursor < MaxSequence + MaxBatch * Cardinality(Producers \ Unclaimed)

\* The reference count counts the handles that can be used.
Alive == {q \in Producers : ppc[q] \in {"idle", "retry", "claim", "cas", "update", "publish"}}
HandlesCounted == ref_count = Cardinality(Alive)

Ended(q) == ppc[q] \in {"joining", "dropped", "panicked"}

\* The last handle requests shutdown behind the last claim, when all others
\* are gone; consumers stop there, and joining is over when the managed ones
\* have.
ShutdownAtCursor ==
  /\ shutdown_at_sequence = IF \E q \in Producers : Ended(q) THEN cursor + 1 ELSE NONE
  /\ \A q \in Producers : Ended(q) =>
       \A r \in Producers \ {q} : ppc[r] \in {"unborn", "gone"}
  /\ \A c \in Consumers : pc[c] = "stopped" =>
       next[c] = cursor + 1 /\ \E q \in Producers : Ended(q)
  /\ (\A q \in Producers : ~Ended(q)) => joined = {}
  /\ \A q \in Producers :
       /\ ppc[q] \in {"joining", "dropped"} => \A c \in joined : pc[c] = "stopped"
       /\ ppc[q] = "dropped" => joined = Managed

MultiInv ==
  /\ TypeOK
  /\ ConsumersFollow
  /\ GatesBehindHigh
  /\ WithinOneRound
  /\ CallsInPhase
  /\ ClaimsDisjoint
  /\ BitsTellRounds
  /\ SlotsHoldEvents
  /\ ClaimsBounded
  /\ HandlesCounted
  /\ ShutdownAtCursor
  /\ ExactlyOnceInOrder
  /\ GuardsAccountForAll

\* Nothing that is claimed gets lost, but by a closure that panics.
ClaimsAccounted ==
  /\ \A s \in 0 .. cursor : s \in published \/ s \in holes \/ \E q \in Producers : s \in Pending(q)
  /\ FaultyUpdates = {} => holes = {}

\* A call spins only for a batch that fits the ring.
SpinsFit ==
  \A q \in Producers :
    ppc[q] \in {"retry", "claim", "cas"} /\ call[q].spin => call[q].n <= Capacity

\* With these two, nobody waits in vain.
ClaimInv == MultiInv /\ ClaimsAccounted /\ SpinsFit
-----------------------------------------------------------------------------
(* The implementation of Broadcast.                                        *)

Promise ==
  INSTANCE Broadcast WITH
    topology <- [capacity |-> Capacity, stage |-> Stage, gates |-> StageGates,
                 managed |-> Managed],
    written  <- published,
    granted  <- [c \in Consumers |-> IF pc[c] \in {"read", "panicked"} THEN available[c]
                                                                      ELSE counter[c]],
    released <- [c \in Consumers |-> counter[c]],
    high     <- gateHigh,
    final    <- shutdown_at_sequence,
    stopped  <- {c \in Consumers : pc[c] = "stopped"},
    returned <- Managed # {} /\ \E q \in Producers : ppc[q] = "dropped"

\* Competing handles, parity bits and the walk over them are the same bounded,
\* staged log as the single cursor of SingleProducer: a claim that is never
\* published is a gap that nobody reads past.
ImplementsBroadcast == Promise!LogSpec
=============================================================================
