----------------------- MODULE MultiProducerLogProofs ------------------------
(***************************************************************************)
(* For every value of the constants: nothing that a handle of              *)
(* MultiProducer has claimed gets lost (ClaimInv), so nobody waits in      *)
(* vain; and MultiProducer implements Broadcast: each of its steps writes, *)
(* grants, reads, releases, opens, closes, stops or returns in the log, or *)
(* is invisible there.                                                     *)
(***************************************************************************)
EXTENDS MultiProducerProofs
-----------------------------------------------------------------------------
(* Nothing that is claimed gets lost.                                      *)

\* Another handle's pending events stay pending, and those of q do or become
\* holes.
LEMMA HandleKeepsClaims ==
  ASSUME ClaimsAccounted, SpinsFit, NEW q \in Producers,
         UNCHANGED <<cursor, published>>,
         \A r \in Producers \ {q} : ppc'[r] = ppc[r] /\ call'[r] = call[r],
         holes \subseteq holes', FaultyUpdates = {} => holes' = holes,
         Pending(q) \subseteq Pending(q)' \cup holes',
         ppc'[q] \in {"retry", "claim", "cas"} /\ call'[q].spin => call'[q].n <= Capacity
  PROVE  ClaimsAccounted' /\ SpinsFit'
<1>1. \A r \in Producers \ {q} : Pending(r)' = Pending(r)
  BY DEF Pending, lower
<1>2. ClaimsAccounted'
  BY <1>1 DEF ClaimsAccounted
<1>3. SpinsFit'
  BY DEF SpinsFit
<1> QED
  BY <1>2, <1>3

\* An attempt has nothing pending, and asks for as much as the call before it.
LEMMA AttemptKeepsClaims ==
  ASSUME ClaimInv, NEW q \in Producers, NEW locals \in CallType, Attempt(q, locals, cursor),
         ppc[q] \notin {"update", "publish"},
         locals.spin => locals.n <= Capacity,
         UNCHANGED <<cursor, published, holes>>
  PROVE  ClaimsAccounted' /\ SpinsFit'
<1> DEFINE more == MustCheck(q, cursor, locals.n)
<1>0. TypeOK
  BY DEF ClaimInv, MultiInv
<1>1. /\ ppc' = [ppc EXCEPT ![q] = IF more THEN "claim" ELSE "cas"]
      /\ call' = [call EXCEPT ![q] = [locals EXCEPT
                    !.current = cursor, !.todo = IF more THEN ConsumerBarrier ELSE {}]]
  BY DEF Attempt
<1> HIDE DEF more
<1>2. \A r \in Producers \ {q} : ppc'[r] = ppc[r] /\ call'[r] = call[r]
  BY <1>0, <1>1 DEF TypeOK
<1>3. call'[q].spin = locals.spin /\ call'[q].n = locals.n
  BY <1>0, <1>1 DEF TypeOK, CallType
<1>4. Pending(q) = {}
  BY DEF Pending
<1> QED
  BY <1>2, <1>3, <1>4, HandleKeepsClaims DEF ClaimInv

\* One load of the consumer barrier.
LEMMA LoadConsumerCursorKeepsClaims ==
  ASSUME ClaimInv, NEW q \in Producers, NEW c \in ConsumerBarrier, LoadConsumerCursor(q, c)
  PROVE  ClaimsAccounted' /\ SpinsFit'
<1>0. TypeOK /\ call[q] \in CallType
  BY DEF ClaimInv, MultiInv, TypeOK, CallType
<1>1. UNCHANGED <<cursor, published, holes>> /\ ppc[q] = "claim"
  BY DEF LoadConsumerCursor
<1>2. Pending(q) = {}
  BY <1>1 DEF Pending
<1>3. CASE Return(q)
  <2>1. ppc'[q] = "idle" /\ \A r \in Producers \ {q} : ppc'[r] = ppc[r] /\ call'[r] = call[r]
    BY <1>0, <1>3 DEF Return, TypeOK
  <2> QED
    BY <1>1, <1>2, <2>1, HandleKeepsClaims DEF ClaimInv
<1>4. CASE ~ Return(q)
  <2>1. /\ \A r \in Producers \ {q} : ppc'[r] = ppc[r] /\ call'[r] = call[r]
        /\ call'[q].spin = call[q].spin /\ call'[q].n = call[q].n
    BY <1>0, <1>4 DEF LoadConsumerCursor, TypeOK, CallType
  <2>2. call[q].spin => call[q].n <= Capacity
    BY <1>1 DEF ClaimInv, SpinsFit
  <2> QED
    BY <1>1, <1>2, <2>1, <2>2, HandleKeepsClaims DEF ClaimInv
<1> QED
  BY <1>3, <1>4

\* What a successful compare-and-exchange adds to the claims is pending.
LEMMA ClaimIsAccounted ==
  ASSUME ClaimInv, NEW q \in Producers, CompareExchange(q), cursor = call[q].current
  PROVE  ClaimsAccounted' /\ SpinsFit'
<1> DEFINE n == call[q].n
           locals == [call[q] EXCEPT !.claimed_sequence = cursor + n]
<1>0. /\ TypeOK /\ call[q] \in CallType /\ call[q].flipped = 0 /\ ppc[q] = "cas"
      /\ cursor \in Int /\ n \in Nat
  <2>1. TypeOK /\ InPhase(q) /\ ppc[q] = "cas"
    BY DEF ClaimInv, MultiInv, CallsInPhase, CompareExchange
  <2> QED
    BY <2>1, Types DEF TypeOK, CallType, InPhase
<1>1. /\ cursor' = cursor + n /\ UNCHANGED <<published, holes>>
      /\ call' = [call EXCEPT ![q] = locals] /\ ppc' = [ppc EXCEPT ![q] = "update"]
  BY <1>0 DEF CompareExchange
<1>2. /\ ppc'[q] = "update" /\ call'[q] = locals
      /\ \A r \in Producers \ {q} : ppc'[r] = ppc[r] /\ call'[r] = call[r]
  BY <1>0, <1>1 DEF TypeOK
<1>3. /\ locals.claimed_sequence = cursor + n /\ locals.n = n /\ locals.flipped = 0
  BY <1>0 DEF CallType
<1> HIDE DEF locals, n
<1>4. Pending(q)' = cursor + 1 .. cursor + n /\ Pending(q) = {}
  BY <1>0, <1>2, <1>3 DEF Pending, lower
<1>5. \A r \in Producers : Pending(r) \subseteq Pending(r)'
  BY <1>2, <1>4 DEF Pending, lower
<1>6. \A s \in 0 .. cursor' : s \in 0 .. cursor \/ s \in Pending(q)'
  BY <1>0, <1>1, <1>4
<1>7. ClaimsAccounted'
  BY <1>1, <1>5, <1>6 DEF ClaimInv, ClaimsAccounted
<1>8. SpinsFit'
  BY <1>2 DEF ClaimInv, SpinsFit
<1> QED
  BY <1>7, <1>8

\* A word of events is published, and no longer pending.
LEMMA PublishedIsAccounted ==
  ASSUME ClaimInv, NEW q \in Producers, PublishWord(q)
  PROVE  ClaimsAccounted' /\ SpinsFit'
<1>1. PICK word :
        /\ published' = published \cup word
        /\ Pending(q)' = Pending(q) \ word
        /\ ppc'[q] \in {"idle", "publish"}
        /\ \A r \in Producers \ {q} : ppc'[r] = ppc[r] /\ call'[r] = call[r]
  BY PublishWordEffect DEF ClaimInv
<1>2. UNCHANGED <<cursor, holes>>
  BY DEF PublishWord
<1>3. \A r \in Producers \ {q} : Pending(r)' = Pending(r)
  BY <1>1 DEF Pending, lower
<1>4. \A r \in Producers : \A s \in Pending(r) : s \in published' \/ s \in Pending(r)'
  BY <1>1, <1>3
<1>5. ClaimsAccounted'
  BY <1>1, <1>2, <1>4 DEF ClaimInv, ClaimsAccounted
<1>6. SpinsFit'
  BY <1>1 DEF ClaimInv, SpinsFit
<1> QED
  BY <1>5, <1>6

\* The steps of a call that is under way, and of a drop.
LEMMA HandleStepKeepsClaims ==
  ASSUME ClaimInv, NEW q \in Producers, HandleStep(q)
  PROVE  ClaimsAccounted' /\ SpinsFit'
<1>0. TypeOK /\ call[q] \in CallType
  BY DEF ClaimInv, MultiInv, TypeOK, CallType
<1>1. ppc[q] \in {"retry", "claim", "cas"} /\ call[q].spin => call[q].n <= Capacity
  BY DEF ClaimInv, SpinsFit
<1>2. CASE RetryPublish(q)
  BY <1>0, <1>1, <1>2, AttemptKeepsClaims DEF RetryPublish
<1>3. ASSUME NEW c \in ConsumerBarrier, LoadConsumerCursor(q, c)
      PROVE  ClaimsAccounted' /\ SpinsFit'
  BY <1>3, LoadConsumerCursorKeepsClaims
<1>4. CASE CompareExchange(q) /\ cursor = call[q].current
  BY <1>4, ClaimIsAccounted
<1>5. CASE CompareExchange(q) /\ cursor # call[q].current
  BY <1>0, <1>1, <1>5, AttemptKeepsClaims DEF CompareExchange
<1>6. CASE UpdateEvent(q)
  <2>1. /\ UNCHANGED <<cursor, published, holes, ppc>> /\ ppc[q] = "update"
        /\ call' = [call EXCEPT ![q].filled = @ + 1]
    BY <1>6 DEF UpdateEvent
  <2>2. /\ \A r \in Producers \ {q} : ppc'[r] = ppc[r] /\ call'[r] = call[r]
        /\ call'[q].n = call[q].n /\ call'[q].flipped = call[q].flipped
        /\ call'[q].claimed_sequence = call[q].claimed_sequence
    BY <1>0, <2>1 DEF TypeOK, CallType
  <2>3. Pending(q)' = Pending(q)
    BY <2>1, <2>2 DEF Pending, lower
  <2> QED
    BY <2>1, <2>2, <2>3, HandleKeepsClaims DEF ClaimInv
<1>7. CASE PublishWord(q)
  BY <1>7, PublishedIsAccounted
<1>8. ASSUME NEW c \in Managed, JoinConsumer(q, c) PROVE ClaimsAccounted' /\ SpinsFit'
  <2>1. /\ UNCHANGED <<cursor, published, holes, call>> /\ ppc[q] = "joining"
        /\ ppc'[q] \in {"joining", "dropped", "panicked"}
        /\ \A r \in Producers \ {q} : ppc'[r] = ppc[r]
    BY <1>0, <1>8 DEF JoinConsumer, TypeOK
  <2>2. Pending(q) = {}
    BY <2>1 DEF Pending
  <2> QED
    BY <2>1, <2>2, HandleKeepsClaims DEF ClaimInv
<1> QED
  BY <1>2, <1>3, <1>4, <1>5, <1>6, <1>7, <1>8 DEF HandleStep

\* Every step accounts for every claim.
LEMMA NextClaimInv == ClaimInv /\ [Next]_vars => ClaimInv'
<1> SUFFICES ASSUME ClaimInv, [Next]_vars PROVE ClaimsAccounted' /\ SpinsFit'
  BY NextMultiInv DEF ClaimInv
<1>0. TypeOK /\ ClaimsAccounted /\ SpinsFit
  BY DEF ClaimInv, MultiInv
<1>1. ASSUME NEW q \in Producers, NEW n \in 0 .. MaxBatch, NEW spin \in BOOLEAN,
             BeginPublish(q, n, spin)
      PROVE  ClaimsAccounted' /\ SpinsFit'
  <2> DEFINE locals == [NoCall EXCEPT !.n = n, !.spin = spin]
  <2>1. locals \in CallType /\ locals.n = n /\ locals.spin = spin
    BY NoCallType DEF CallType, NoCall
  <2>2. /\ ppc[q] = "idle" /\ (spin => n <= Capacity) /\ Attempt(q, locals, cursor)
        /\ UNCHANGED <<cursor, published, holes>>
    BY <1>1 DEF BeginPublish
  <2> HIDE DEF locals
  <2> QED
    BY <2>1, <2>2, AttemptKeepsClaims
<1>2. ASSUME NEW q \in Producers, HandleStep(q) PROVE ClaimsAccounted' /\ SpinsFit'
  BY <1>2, HandleStepKeepsClaims
<1>3. ASSUME NEW q \in Producers, UpdatePanics(q) PROVE ClaimsAccounted' /\ SpinsFit'
  <2>1. /\ ppc[q] = "update" /\ ppc'[q] = "idle" /\ FaultyUpdates # {}
        /\ UNCHANGED <<cursor, published>>
        /\ holes' = holes \cup lower(q) .. call[q].claimed_sequence
        /\ \A r \in Producers \ {q} : ppc'[r] = ppc[r] /\ call'[r] = call[r]
    BY <1>0, <1>3 DEF UpdatePanics, Return, TypeOK
  <2>2. Pending(q) = lower(q) .. call[q].claimed_sequence
    <3>1. call[q].flipped = 0 /\ lower(q) \in Int
      <4>1. InPhase(q)
        BY DEF ClaimInv, MultiInv, CallsInPhase
      <4> QED
        BY <1>0, <2>1, <4>1, Types DEF InPhase
    <3> QED
      BY <2>1, <3>1 DEF Pending
  <2> QED
    BY <1>0, <2>1, <2>2, HandleKeepsClaims
<1>4. ASSUME NEW q \in Producers, NEW r \in Producers, Clone(q, r)
      PROVE  ClaimsAccounted' /\ SpinsFit'
  <2>1. /\ ppc[r] = "unborn" /\ ppc'[r] = "idle" /\ UNCHANGED <<cursor, published, holes, call>>
        /\ \A x \in Producers \ {r} : ppc'[x] = ppc[x]
    BY <1>0, <1>4 DEF Clone, TypeOK
  <2>2. Pending(r) = {}
    BY <2>1 DEF Pending
  <2> QED
    BY <1>0, <2>1, <2>2, HandleKeepsClaims
<1>5. ASSUME NEW q \in Producers, DropHandle(q) PROVE ClaimsAccounted' /\ SpinsFit'
  <2>1. /\ ppc[q] = "idle" /\ ppc'[q] \in {"dropped", "joining", "gone"}
        /\ UNCHANGED <<cursor, published, holes, call>>
        /\ \A r \in Producers \ {q} : ppc'[r] = ppc[r]
    BY <1>0, <1>5 DEF DropHandle, TypeOK
  <2>2. Pending(q) = {}
    BY <2>1 DEF Pending
  <2> QED
    BY <1>0, <2>1, <2>2, HandleKeepsClaims
<1>6. ASSUME UNCHANGED producerVars PROVE ClaimsAccounted' /\ SpinsFit'
  BY <1>0, <1>6 DEF producerVars, ClaimsAccounted, SpinsFit, Pending, lower
<1>7. ASSUME (\E c \in Consumers : ConsumerStep(c)) \/ ClientStep \/ Terminated \/ UNCHANGED vars
      PROVE  UNCHANGED producerVars
  BY <1>7 DEF ConsumerStep, ClientStep, Terminated, vars
<1> QED
  BY <1>1, <1>2, <1>3, <1>4, <1>5, <1>6, <1>7 DEF Next

\* The inductive invariant: what is claimed is published, or pending with a
\* handle that is in its call, or was claimed by a closure that panicked; and a
\* call spins only for what fits the ring.
THEOREM MultiProducerClaimsInductive == Spec => []ClaimInv
<1>1. Init => ClaimInv
  <2>1. Init => ClaimsAccounted /\ SpinsFit
    BY DEF Init, ClaimsAccounted, SpinsFit, NONE
  <2> QED
    BY <2>1, InitMultiInv DEF ClaimInv
<1>2. ClaimInv /\ [Next]_vars => ClaimInv'
  BY NextClaimInv
<1> QED
  BY <1>1, <1>2, PTL DEF Spec

\* The first consumer, by stage, of those that stand at the same place waits for
\* no other one, if the next event is published: its bit says so, and the stages
\* before it have released the event.
LEMMA FirstOfEquals ==
  ASSUME MultiInv, NEW c \in Consumers, counter[c] < cursor, counter[c] + 1 \in published
  PROVE  \E d \in Consumers : HoldsUp(d, c) /\ OnItsOwn(d, NextUnlessUnpublished(d))
<1> DEFINE S == {Stage[d] : d \in {e \in Consumers : counter[e] = counter[c]}}
<1> USE Topology
<1>0. /\ TypeOK /\ ConsumersFollow /\ WithinOneRound /\ ClaimsDisjoint /\ BitsTellRounds
      /\ ShutdownAtCursor
  BY DEF MultiInv
<1>1. /\ \A e \in Consumers : counter[e] \in Int /\ next[e] \in Nat /\ Stage[e] \in Nat
      /\ cursor \in Int /\ Capacity \in Nat /\ \A s \in published : s <= cursor
  BY <1>0, Types, TopologyAssumption DEF ClaimsDisjoint
<1>2. PICK d \in Consumers :
        counter[d] = counter[c] /\ \A e \in Consumers : counter[e] = counter[c] => Stage[d] <= Stage[e]
  <2>1. S \subseteq Nat /\ S # {}
    BY <1>1
  <2>2. PICK k \in S : \A l \in S : k <= l
    BY <2>1, LeastElement
  <2> QED
    BY <2>2
<1>3. HoldsUp(d, c)
  BY <1>2 DEF HoldsUp
<1>4. CASE pc[d] \in {"read", "panicked"}
  BY <1>3, <1>4 DEF OnItsOwn
<1>5. CASE pc[d] \notin {"read", "panicked"}
  <2>1. next[d] = counter[d] + 1 /\ MayPass(d, counter[d])
    BY <1>0, <1>1, <1>5 DEF ConsumersFollow, Follows
  <2>2. pc[d] # "stopped"
    BY <1>0, <1>1, <1>2, <2>1 DEF ShutdownAtCursor
  <2>3. NextUnlessUnpublished(d) = next[d]
    <3>1. next[d] \in published /\ next[d] + Capacity \notin published
      BY <1>0, <1>1, <1>2, <2>1 DEF WithinOneRound
    <3> QED
      BY <1>0, <3>1 DEF BitsTellRounds, IsPublished, NextUnlessUnpublished
  <2>4. ASSUME NEW x \in Barrier(Stage[d]) \ Gates
        PROVE  IsAvailable(d, IF x = ProducerBarrier THEN NextUnlessUnpublished(d) ELSE counter[x])
    <3>1. CASE x = ProducerBarrier
      BY <1>1, <2>3, <3>1 DEF IsAvailable
    <3>2. CASE x # ProducerBarrier
      <4>1. x \in Consumers /\ Stage[x] < Stage[d]
        BY <1>1, <2>4, <3>2 DEF Barrier, ConsumersAt
      <4>2. counter[d] <= counter[x] /\ counter[x] # counter[d]
        BY <1>1, <1>2, <2>1, <4>1 DEF MayPass
      <4> QED
        BY <1>1, <2>1, <3>2, <4>1, <4>2 DEF IsAvailable
    <3> QED
      BY <3>1, <3>2
  <2>5. OnItsOwn(d, NextUnlessUnpublished(d))
    BY <2>2, <2>4 DEF OnItsOwn
  <2> QED
    BY <1>3, <2>5
<1> QED
  BY <1>4, <1>5

\* Deadlock freedom, with any number of handles: what is claimed and not released
\* waits, in the end, for a consumer or a client that waits for nobody, for a
\* handle in the middle of its call, or at the hole that a panicking closure
\* left; a spinning call waits only for such claims;
\* and the last drop joins consumers that get to the shutdown sequence.
THEOREM MultiProducerNobodyWaitsInVain == Spec => []NobodyWaitsInVain
<1>1. ASSUME ClaimInv PROVE NobodyWaitsInVain
  <2> USE Topology
  <2>0. /\ MultiInv /\ TypeOK /\ ConsumersFollow /\ ClaimsDisjoint /\ ShutdownAtCursor
        /\ ClaimsAccounted /\ SpinsFit
    BY <1>1 DEF ClaimInv, MultiInv
  <2>1. /\ \A e \in Consumers : counter[e] \in Int /\ next[e] \in Nat
        /\ \A q \in Producers : call[q].n \in Nat
        /\ cursor \in Int /\ NONE <= cursor /\ Capacity \in Nat
    BY <2>0, Types, SequencesType DEF TypeOK
  <2>2. ASSUME NEW c \in Consumers, counter[c] < cursor, ~ InTheHandsOf(counter[c] + 1)
        PROVE  \E d \in Consumers : HoldsUp(d, c) /\ OnItsOwn(d, NextUnlessUnpublished(d))
    <3>1. counter[c] + 1 \in 0 .. cursor
      BY <2>0, <2>1, <2>2 DEF ConsumersFollow, Follows, NONE
    <3>2. counter[c] + 1 \in published
      BY <2>0, <2>2, <3>1 DEF ClaimsAccounted, InTheHandsOf
    <3> QED
      BY <2>0, <2>2, <3>2, FirstOfEquals
  <2>3. ASSUME NEW q \in Producers, ppc[q] \in {"claim", "retry"}, call[q].spin,
               NEW c \in ConsumerBarrier, ~ (counter[c] < cursor)
        PROVE  call[q].n <= available_capacity(cursor, counter[c])
    <3>1. call[q].n <= Capacity
      BY <2>0, <2>3 DEF SpinsFit
    <3>2. counter[c] \in Int
      BY <2>1, ConsumerBarrierType
    <3> QED
      BY <2>1, <2>3, <3>1, <3>2 DEF available_capacity, wrap_point
  <2>4. ASSUME NEW q \in Producers, ppc[q] = "joining", NEW c \in Managed,
               ~ (counter[c] < cursor), pc[c] \notin {"read", "panicked"}
        PROVE  StopsAt(next[c])
    <3>1. counter[c] = next[c] - 1 /\ 0 .. counter[c] \subseteq published /\ NONE <= counter[c]
      BY <2>0, <2>1, <2>4 DEF ConsumersFollow, Follows, MayPass, Ready
    <3>2. counter[c] <= cursor
      BY <2>0, <2>1, <3>1 DEF ClaimsDisjoint, NONE
    <3>3. shutdown_at_sequence = cursor + 1
      BY <2>0, <2>4 DEF ShutdownAtCursor, Ended
    <3> QED
      BY <2>1, <2>4, <3>1, <3>2, <3>3 DEF StopsAt
  <2> QED
    BY <2>2, <2>3, <2>4 DEF NobodyWaitsInVain, WillStop
<1> QED
  BY <1>1, MultiProducerClaimsInductive, PTL
-----------------------------------------------------------------------------
(* The refinement of Broadcast.                                            *)

\* What the abstract variables are.
LEMMA Mapping ==
  /\ Promise!Readers = Consumers
  /\ Promise!NotYet = NONE
BY TopologyAssumption DEF Promise!Readers, Promise!NotYet, NONE

\* An empty log, before anything is published.
LEMMA InitLog == Init => Promise!LogInit
<1> SUFFICES ASSUME Init PROVE Promise!LogInit
  OBVIOUS
<1> USE Mapping, Topology DEF Init, DisruptorInit, NONE
<1>1. gateHigh = [g \in DOMAIN gateHigh |-> NONE]
  OBVIOUS
<1>2. {c \in Consumers : pc[c] = "stopped"} = {}
  OBVIOUS
<1>3. [c \in Consumers |-> IF pc[c] \in {"read", "panicked"} THEN available[c] ELSE counter[c]]
        = [c \in Consumers |-> NONE]
  OBVIOUS
<1>4. [c \in Consumers |-> counter[c]] = [c \in Consumers |-> NONE]
  OBVIOUS
<1>5. ~ \E q \in Producers : ppc[q] = "dropped"
  OBVIOUS
<1> QED
  BY <1>1, <1>2, <1>3, <1>4, <1>5 DEF Promise!LogInit

\* The mapped variables that are functions of several others.
grantedMap  == [c \in Consumers |-> IF pc[c] \in {"read", "panicked"} THEN available[c]
                                                                     ELSE counter[c]]
releasedMap == [c \in Consumers |-> counter[c]]
stoppedMap  == {c \in Consumers : pc[c] = "stopped"}
returnedMap == Managed # {} /\ \E q \in Producers : ppc[q] = "dropped"

\* A step that moves no position, no grant and no cursor, and neither requests
\* nor notices shutdown, is invisible in the log.
LEMMA InvisibleStep ==
  ASSUME UNCHANGED <<published, next, seen, gateHigh, shutdown_at_sequence>>,
         UNCHANGED <<grantedMap, releasedMap, stoppedMap, returnedMap>>
  PROVE  UNCHANGED Promise!logVars
BY DEF Promise!logVars, grantedMap, releasedMap, stoppedMap, returnedMap
-----------------------------------------------------------------------------
(* Steps of handles.                                                       *)

\* A handle's step that publishes nothing, requests no shutdown and does not
\* return from drop is invisible.
LEMMA InvisibleHandleStep ==
  ASSUME TypeOK, NEW q \in Producers, NEW phase, phase # "dropped", ppc[q] # "dropped",
         ppc' = [ppc EXCEPT ![q] = phase],
         UNCHANGED <<counter, pc, available, next, seen, gateHigh, published,
                     shutdown_at_sequence>>
  PROVE  UNCHANGED Promise!logVars
<1>1. \A r \in Producers : ppc'[r] = "dropped" <=> ppc[r] = "dropped"
  BY DEF TypeOK
<1>2. UNCHANGED <<grantedMap, releasedMap, stoppedMap, returnedMap>>
  BY <1>1 DEF grantedMap, releasedMap, stoppedMap, returnedMap
<1> QED
  BY <1>2, InvisibleStep

\* Attempts to claim, loads of cursors, updates, panics and clones.
LEMMA InvisibleHandleSteps ==
  ASSUME TypeOK, NEW q \in Producers,
         \/ \E n \in 0 .. MaxBatch, spin \in BOOLEAN : BeginPublish(q, n, spin)
         \/ RetryPublish(q)
         \/ \E c \in ConsumerBarrier : LoadConsumerCursor(q, c)
         \/ CompareExchange(q) \/ UpdateEvent(q) \/ UpdatePanics(q)
         \/ \E r \in Producers : Clone(q, r)
  PROVE  UNCHANGED Promise!logVars
<1> DEFINE clones == \E r \in Producers : Clone(q, r)
<1>1. UNCHANGED <<counter, pc, available, next, seen, gateHigh, published, shutdown_at_sequence>>
  BY DEF BeginPublish, RetryPublish, LoadConsumerCursor, CompareExchange, UpdateEvent,
         UpdatePanics, Clone, disruptorVars, sharedVars, consumerVars
<1>2. CASE clones
  <2>1. PICK r \in Producers : ppc[r] = "unborn" /\ ppc' = [ppc EXCEPT ![r] = "idle"]
    BY <1>2 DEF Clone
  <2> QED
    BY <1>1, <2>1, InvisibleHandleStep, Zenon
<1>3. CASE ~clones
  <2>1. ppc[q] # "dropped"
    BY <1>3 DEF BeginPublish, RetryPublish, LoadConsumerCursor, CompareExchange, UpdateEvent,
                UpdatePanics
  <2>2. \E phase \in Phases \ {"dropped"} : ppc' = [ppc EXCEPT ![q] = phase]
    <3>1. ppc = [ppc EXCEPT ![q] = ppc[q]] /\ ppc[q] \in Phases
      BY DEF TypeOK, Phases
    <3>2. CASE UNCHANGED ppc
      BY <2>1, <3>1, <3>2
    <3>3. ASSUME NEW locals, NEW from, Attempt(q, locals, from)
          PROVE  \E phase \in Phases \ {"dropped"} : ppc' = [ppc EXCEPT ![q] = phase]
      <4>1. PICK check \in BOOLEAN : ppc' = [ppc EXCEPT ![q] = IF check THEN "claim" ELSE "cas"]
        BY <3>3, Zenon DEF Attempt, MustCheck
      <4> QED
        BY <4>1 DEF Phases
    <3>4. CASE Return(q)
      BY <3>4 DEF Return, Phases
    <3>5. CASE \E c \in ConsumerBarrier : LoadConsumerCursor(q, c)
      BY <3>2, <3>4, <3>5 DEF LoadConsumerCursor, Phases
    <3>6. CASE CompareExchange(q)
      BY <3>3, <3>6 DEF CompareExchange, Phases
    <3>7. CASE \E n \in 0 .. MaxBatch, spin \in BOOLEAN : BeginPublish(q, n, spin)
      BY <3>3, <3>7, Zenon DEF BeginPublish
    <3>8. CASE RetryPublish(q)
      BY <3>3, <3>8, Zenon DEF RetryPublish
    <3>9. CASE UpdateEvent(q)
      BY <3>2, <3>9, Zenon DEF UpdateEvent
    <3>10. CASE UpdatePanics(q)
      BY <3>4, <3>10, Zenon DEF UpdatePanics
    <3> QED
      BY <1>3, <3>5, <3>6, <3>7, <3>8, <3>9, <3>10, Zenon
  <2> QED
    BY <1>1, <2>1, <2>2, InvisibleHandleStep, Zenon
<1> HIDE DEF clones
<1> QED
  BY <1>2, <1>3, Zenon

\* Publishing a word writes its events, for which everybody has made room.
LEMMA PublishWordWrites ==
  ASSUME MultiInv, NEW q \in Producers, PublishWord(q)
  PROVE  Promise!Write(published' \ published)
<1>1. UNCHANGED <<counter, pc, available, next, seen, gateHigh, shutdown_at_sequence>>
  BY DEF PublishWord, disruptorVars, sharedVars, consumerVars
<1>2. PICK word :
        /\ word \subseteq Pending(q)
        /\ published' = published \cup word
        /\ ppc[q] \in {"update", "publish"} /\ ppc'[q] \in {"idle", "publish"}
        /\ \A r \in Producers \ {q} : ppc'[r] = ppc[r]
  <2>1. \E word :
          /\ word \subseteq Pending(q)
          /\ published' = published \cup word
          /\ ppc[q] \in {"update", "publish"} /\ ppc'[q] \in {"idle", "publish"}
          /\ \A r \in Producers \ {q} : ppc'[r] = ppc[r]
    BY PublishWordEffect
  <2> QED
    BY <2>1
<1>3. shutdown_at_sequence = Promise!NotYet
  BY <1>2, NobodyEnded, Mapping
<1>4. \A s \in word : Promise!HasSlot(s) /\ s \notin published
  <2> SUFFICES ASSUME NEW s \in word, NEW c \in Consumers
               PROVE  s <= counter[c] + Capacity /\ s \notin published
    BY SomeConsumer, Mapping DEF Promise!HasSlot
  <2> QED
    BY <1>2, PendingWindow
<1>5. published' \ published = word
  BY <1>2, <1>4
<1>6. UNCHANGED <<grantedMap, releasedMap, stoppedMap, returnedMap>>
  <2>1. \A r \in Producers : ppc'[r] = "dropped" <=> ppc[r] = "dropped"
    BY <1>2
  <2> QED
    BY <1>1, <2>1 DEF grantedMap, releasedMap, stoppedMap, returnedMap
<1> QED
  BY <1>1, <1>2, <1>3, <1>4, <1>5, <1>6
     DEF Promise!Write, grantedMap, releasedMap, stoppedMap, returnedMap

\* Dropping the last handle closes the log behind the last claim; dropping
\* another one is invisible.
LEMMA DropHandleCloses ==
  ASSUME MultiInv, NEW q \in Producers, DropHandle(q)
  PROVE  Promise!Close(shutdown_at_sequence') \/ UNCHANGED Promise!logVars
<1>0. TypeOK /\ ClaimsDisjoint
  BY DEF MultiInv
<1>1. /\ UNCHANGED <<counter, pc, available, next, seen, gateHigh, published>>
      /\ ppc[q] = "idle"
  BY DEF DropHandle, consumerVars
<1>2. CASE ~IsLast
  <2>1. ppc' = [ppc EXCEPT ![q] = "gone"] /\ UNCHANGED shutdown_at_sequence
    BY <1>2 DEF DropHandle
  <2> QED
    BY <1>0, <1>1, <2>1, InvisibleHandleStep
<1>3. CASE IsLast
  <2>1. /\ shutdown_at_sequence' = cursor + 1
        /\ ppc' = [ppc EXCEPT ![q] = IF Managed = {} THEN "dropped" ELSE "joining"]
    BY <1>3 DEF DropHandle, FinalSequence
  <2>2. cursor \in Int /\ NONE <= cursor /\ NONE \in Int /\ published \subseteq 0 .. cursor
    BY <1>0, SequencesType, Types DEF TypeOK, ClaimsDisjoint, NONE
  <2>3. shutdown_at_sequence = Promise!NotYet
    BY <1>1, NobodyEnded, Mapping
  <2>4. \A w \in published : w < cursor + 1
    BY <2>2
  <2>5. cursor + 1 >= 0
    BY <2>2 DEF NONE
  <2>6. UNCHANGED <<grantedMap, releasedMap, stoppedMap, returnedMap>>
    <3>1. Managed # {} => \A r \in Producers : ppc'[r] = "dropped" <=> ppc[r] = "dropped"
      BY <1>0, <1>1, <2>1 DEF TypeOK
    <3> QED
      BY <1>1, <3>1 DEF grantedMap, releasedMap, stoppedMap, returnedMap
  <2> QED
    BY <1>1, <2>1, <2>3, <2>4, <2>5, <2>6
       DEF Promise!Close, grantedMap, releasedMap, stoppedMap, returnedMap
<1> QED
  BY <1>2, <1>3

\* Joining the last handler's thread is the return of drop.
LEMMA JoinConsumerReturns ==
  ASSUME MultiInv, NEW q \in Producers, NEW c \in Managed, JoinConsumer(q, c)
  PROVE  Promise!Return \/ UNCHANGED Promise!logVars
<1>0. TypeOK /\ ShutdownAtCursor /\ ShutdownAtCursor'
  BY JoinConsumerMoves DEF MultiInv
<1>1. /\ UNCHANGED <<counter, pc, available, next, seen, gateHigh, published,
                     shutdown_at_sequence>>
      /\ ppc[q] = "joining" /\ c \in Managed
      /\ \E phase \in {"panicked", "dropped", "joining"} :
           /\ ppc' = [ppc EXCEPT ![q] = phase]
           /\ phase = "dropped" => joined' = Managed
  BY DEF JoinConsumer, disruptorVars, sharedVars, consumerVars
<1>2. PICK phase \in {"panicked", "dropped", "joining"} :
        /\ ppc' = [ppc EXCEPT ![q] = phase]
        /\ phase = "dropped" => joined' = Managed
  BY <1>1
<1>3. UNCHANGED <<grantedMap, releasedMap, stoppedMap>>
  BY <1>1 DEF grantedMap, releasedMap, stoppedMap
<1>4. CASE phase # "dropped"
  BY <1>0, <1>1, <1>2, <1>4, InvisibleHandleStep
<1>5. CASE phase = "dropped"
  <2>1. ppc'[q] = "dropped" /\ joined' = Managed
    BY <1>0, <1>2, <1>5 DEF TypeOK
  <2>2. Ended(q)
    BY <1>1 DEF Ended
  <2>3. \A r \in Producers : ppc[r] # "dropped"
    <3>1. ASSUME NEW r \in Producers \ {q} PROVE ppc[r] \in {"unborn", "gone"}
      BY <1>0, <2>2 DEF ShutdownAtCursor
    <3> QED
      BY <1>1, <3>1
  <2>4. ~returnedMap /\ returnedMap'
    BY <1>1, <2>1, <2>3 DEF returnedMap
  <2>5. Managed \subseteq stoppedMap
    BY <1>0, <1>1, <2>1, Topology DEF ShutdownAtCursor, stoppedMap
  <2>6. shutdown_at_sequence # Promise!NotYet
    <3>1. shutdown_at_sequence = cursor + 1
      BY <1>0, <2>2 DEF ShutdownAtCursor
    <3>2. cursor \in Int /\ NONE <= cursor
      BY <1>0, SequencesType, Types DEF TypeOK
    <3> QED
      BY <3>1, <3>2, Mapping DEF NONE
  <2> QED
    BY <1>1, <1>3, <2>4, <2>5, <2>6
       DEF Promise!Return, grantedMap, releasedMap, stoppedMap, returnedMap
<1> QED
  BY <1>4, <1>5
-----------------------------------------------------------------------------
(* Steps of consumers and clients.                                         *)

\* What is left alone when the handles are.
LEMMA HandlesAlone ==
  ASSUME UNCHANGED producerVars
  PROVE  UNCHANGED <<published, returnedMap>>
BY DEF producerVars, returnedMap

\* The last load of a barrier grants a batch that is published, and to which
\* every earlier stage and every gate has agreed, unless it finds nothing (or
\* the limit is zero).
LEMMA LoadCellGrants ==
  ASSUME MultiInv, MultiInv', NEW c \in Consumers, NEW x, NEW v, LoadCell(c, x, v),
         UNCHANGED producerVars
  PROVE  Promise!Grant(c, grantedMap'[c]) \/ UNCHANGED Promise!logVars
<1>0. TypeOK /\ TypeOK' /\ Follows(c) /\ Follows(c)'
  BY DEF MultiInv, ConsumersFollow
<1>1. /\ UNCHANGED <<published, next, counter, seen, gateHigh, shutdown_at_sequence>>
      /\ UNCHANGED returnedMap
      /\ pc[c] \in {"scan", "poll"}
      /\ pc'[c] \in {"scan", "poll", "read", "idle", "miss"}
      /\ \A d \in Consumers \ {c} : pc'[d] = pc[d] /\ available'[d] = available[d]
  BY <1>0, HandlesAlone DEF LoadCell, sharedVars, TypeOK, DisruptorTypeOK
<1>2. UNCHANGED <<releasedMap, stoppedMap>>
  BY <1>1 DEF releasedMap, stoppedMap
<1>3. CASE pc'[c] # "read"
  <2>1. UNCHANGED grantedMap
    BY <1>1, <1>3 DEF grantedMap
  <2> QED
    BY <1>1, <1>2, <2>1, InvisibleStep
<1>4. CASE pc'[c] = "read"
  <2>1. /\ counter[c] = next[c] - 1
        /\ counter[c] \in Int /\ next[c] \in Nat /\ available'[c] \in Int
    <3>1. available'[c] \in Int
      BY <1>0 DEF TypeOK, DisruptorTypeOK
    <3> QED
      BY <1>0, <1>1, <3>1, Types DEF Follows
  <2>2. /\ next[c] - 1 <= available'[c]
        /\ 0 .. available'[c] \subseteq published
        /\ \A d \in Consumers : Stage[d] < Stage[c] => available'[c] <= counter[d]
        /\ \A h \in StageGates[Stage[c]] : available'[c] <= gateHigh[h]
    BY <1>0, <1>1, <1>4 DEF Follows, MayPass, Ready
  <2>3. /\ grantedMap' = [grantedMap EXCEPT ![c] = available'[c]]
        /\ grantedMap'[c] = available'[c]
        /\ grantedMap[c] = counter[c]
    BY <1>1, <1>4 DEF grantedMap
  <2>4. CASE available'[c] = counter[c]
    <3>1. UNCHANGED grantedMap
      BY <2>3, <2>4 DEF grantedMap
    <3> QED
      BY <1>1, <1>2, <3>1, InvisibleStep
  <2>5. CASE available'[c] # counter[c]
    <3>1. available'[c] >= next[c]
      BY <2>1, <2>2, <2>5
    <3>2. Promise!MayRead(c, available'[c])
      BY <2>2, Mapping DEF Promise!MayRead
    <3> QED
      BY <1>1, <1>2, <2>3, <3>1, <3>2
         DEF Promise!Grant, grantedMap, releasedMap, stoppedMap, returnedMap
  <2> QED
    BY <2>4, <2>5
<1> QED
  BY <1>3, <1>4

\* A load of a barrier grants something or is invisible: a walk that goes on to
\* the next word is.
LEMMA LoadBarrierGrants ==
  ASSUME MultiInv, NEW c \in Consumers, LoadBarrier(c), UNCHANGED producerVars
  PROVE  Promise!Grant(c, grantedMap'[c]) \/ UNCHANGED Promise!logVars
<1>1. MultiInv'
  BY LoadBarrierMoves
<1>2. CASE UNCHANGED disruptorVars
  <2>1. UNCHANGED <<counter, pc, available, next, seen, gateHigh, shutdown_at_sequence>>
    BY <1>2 DEF disruptorVars, sharedVars, consumerVars
  <2>2. UNCHANGED <<grantedMap, releasedMap, stoppedMap>>
    BY <2>1 DEF grantedMap, releasedMap, stoppedMap
  <2> QED
    BY <2>1, <2>2, HandlesAlone, InvisibleStep
<1>3. ASSUME NEW x, NEW v, LoadCell(c, x, v)
      PROVE  Promise!Grant(c, grantedMap'[c]) \/ UNCHANGED Promise!logVars
  BY <1>1, <1>3, LoadCellGrants
<1> QED
  BY <1>2, <1>3 DEF LoadBarrier, LoadWord

\* A consumer that notices shutdown has reached the end of the log.
LEMMA NoticingShutdownStops ==
  ASSUME MultiInv, NEW c \in Consumers, UNCHANGED producerVars,
         CheckShutdown(c) \/ \E l \in Limits \cup {NoLimit} : PollTake(c, l)
  PROVE  Promise!Stop(c) \/ UNCHANGED Promise!logVars
<1>0. TypeOK /\ Follows(c)
  BY DEF MultiInv, ConsumersFollow
<1>1. /\ UNCHANGED <<published, next, counter, available, seen, gateHigh, shutdown_at_sequence>>
      /\ UNCHANGED returnedMap
      /\ pc[c] \in {"miss", "idle"}
      /\ pc'[c] \in {"scan", "poll", "stopped"}
      /\ \A d \in Consumers \ {c} : pc'[d] = pc[d]
  BY <1>0, HandlesAlone DEF CheckShutdown, PollTake, sharedVars, TypeOK, DisruptorTypeOK
<1>2. UNCHANGED <<grantedMap, releasedMap>>
  BY <1>1 DEF grantedMap, releasedMap
<1>3. CASE pc'[c] # "stopped"
  <2>1. UNCHANGED stoppedMap
    BY <1>1, <1>3 DEF stoppedMap
  <2> QED
    BY <1>1, <1>2, <2>1, InvisibleStep
<1>4. CASE pc'[c] = "stopped"
  <2>1. counter[c] = next[c] - 1 /\ counter[c] \in Int /\ next[c] \in Nat
    BY <1>0, <1>1, Types DEF Follows
  <2>2. shutdown_at_sequence = next[c]
    BY <1>0, <1>4, <2>1 DEF CheckShutdown, PollTake, StopsAt, TypeOK, DisruptorTypeOK
  <2>3. stoppedMap' = stoppedMap \cup {c} /\ c \notin stoppedMap
    BY <1>1, <1>4 DEF stoppedMap
  <2>4. grantedMap[c] = releasedMap[c]
    BY <1>1 DEF grantedMap, releasedMap
  <2> QED
    BY <1>1, <1>2, <2>2, <2>3, <2>4
       DEF Promise!Stop, grantedMap, releasedMap, stoppedMap, returnedMap
<1> QED
  BY <1>3, <1>4

\* A handler, or a guard's iterator, reads the next event of the log.
LEMMA ReadEventReads ==
  ASSUME MultiInv, NEW c \in Consumers, ReadEvent(c), UNCHANGED producerVars
  PROVE  Promise!Read(c)
<1>1. /\ UNCHANGED <<published, counter, available, pc, gateHigh, shutdown_at_sequence>>
      /\ UNCHANGED returnedMap
      /\ pc[c] = "read" /\ next[c] <= available[c]
  BY HandlesAlone DEF ReadEvent, sharedVars
<1>2. UNCHANGED <<grantedMap, releasedMap, stoppedMap>>
  BY <1>1 DEF grantedMap, releasedMap, stoppedMap
<1>3. slots[slot_index(next[c])] = next[c]
  BY <1>1, ReadsNextEvent
<1>4. /\ seen' = [seen EXCEPT ![c] = Append(@, next[c])]
      /\ next' = [next EXCEPT ![c] = @ + 1]
  BY <1>3 DEF ReadEvent
<1>5. next[c] <= grantedMap[c]
  BY <1>1 DEF grantedMap
<1> QED
  BY <1>1, <1>2, <1>4, <1>5
     DEF Promise!Read, grantedMap, releasedMap, stoppedMap, returnedMap

\* Signalling a batch and dropping a guard release what was granted.
LEMMA GivingBackReleases ==
  ASSUME MultiInv, NEW c \in Consumers, UNCHANGED producerVars, SignalDone(c) \/ DropGuard(c)
  PROVE  Promise!Release(c) \/ UNCHANGED Promise!logVars
<1>0. TypeOK /\ Follows(c)
  BY DEF MultiInv, ConsumersFollow
<1>1. /\ UNCHANGED <<published, available, seen, gateHigh, shutdown_at_sequence>>
      /\ UNCHANGED returnedMap
      /\ pc[c] = "read" /\ pc'[c] \in {"scan", "idle"}
      /\ \A d \in Consumers \ {c} : /\ pc'[d] = pc[d]
                                     /\ counter'[d] = counter[d]
  BY <1>0, HandlesAlone DEF SignalDone, DropGuard, sharedVars, TypeOK, DisruptorTypeOK
<1>2. /\ counter[c] <= next[c] - 1 /\ next[c] - 1 <= available[c]
      /\ counter[c] \in Int /\ next[c] \in Nat /\ available[c] \in Int
      /\ next \in [Consumers -> Nat]
      /\ counter \in [Consumers \cup Gates -> Int]
  BY <1>0, <1>1, Types DEF Follows, TypeOK, DisruptorTypeOK
<1>3. c \in Managed => next[c] > available[c]
  BY TopologyAssumption DEF SignalDone, DropGuard
<1>4. /\ counter'[c] = available[c]
      /\ next' = [next EXCEPT ![c] = available[c] + 1]
  <2>1. CASE SignalDone(c)
    <3>1. next[c] = available[c] + 1
      BY <1>2, <2>1 DEF SignalDone
    <3>2. counter'[c] = next[c] - 1 /\ next' = next
      BY <1>2, <2>1 DEF SignalDone, Released
    <3> QED
      BY <1>2, <3>1, <3>2
  <2>2. CASE DropGuard(c)
    BY <1>2, <2>2 DEF DropGuard
  <2> QED
    BY <2>1, <2>2
<1>5. /\ grantedMap[c] = available[c] /\ releasedMap[c] = counter[c]
      /\ grantedMap' = grantedMap
      /\ releasedMap' = [releasedMap EXCEPT ![c] = available[c]]
      /\ stoppedMap' = stoppedMap
  BY <1>1, <1>4 DEF grantedMap, releasedMap, stoppedMap
<1>6. CASE available[c] = counter[c]
  <2>1. next[c] = available[c] + 1
    BY <1>2, <1>6
  <2>2. next' = next
    BY <1>2, <1>4, <2>1
  <2>3. releasedMap' = releasedMap
    BY <1>5, <1>6 DEF releasedMap
  <2> QED
    BY <1>1, <1>5, <2>2, <2>3, InvisibleStep
<1>7. CASE available[c] > counter[c]
  BY <1>1, <1>3, <1>4, <1>5, <1>7
     DEF Promise!Release, grantedMap, releasedMap, stoppedMap, returnedMap
<1> QED
  BY <1>2, <1>6, <1>7

\* A panic keeps the grant, and poll_wait only starts to look.
LEMMA PanickingIsInvisible ==
  ASSUME MultiInv, NEW c \in Consumers, UNCHANGED producerVars, HandlerPanics(c) \/ PollWait(c)
  PROVE  UNCHANGED Promise!logVars
<1>1. TypeOK
  BY DEF MultiInv
<1>2. /\ UNCHANGED <<published, next, counter, available, seen, gateHigh, shutdown_at_sequence>>
      /\ UNCHANGED returnedMap
      /\ \A d \in Consumers : (pc[d] \in {"read", "panicked"} <=> pc'[d] \in {"read", "panicked"})
      /\ \A d \in Consumers : (pc[d] = "stopped" <=> pc'[d] = "stopped")
  BY <1>1, HandlesAlone DEF HandlerPanics, PollWait, sharedVars, TypeOK, DisruptorTypeOK
<1>3. UNCHANGED <<grantedMap, releasedMap, stoppedMap>>
  BY <1>2 DEF grantedMap, releasedMap, stoppedMap
<1> QED
  BY <1>2, <1>3, InvisibleStep

\* Moving a gate forward opens it further; moving it back is invisible.
LEMMA SetGateOpens ==
  ASSUME MultiInv, NEW h \in Gates, NEW v \in GateValues, SetGate(h, v), UNCHANGED producerVars
  PROVE  Promise!Open(h, gateHigh'[h]) \/ UNCHANGED Promise!logVars
<1>1. /\ UNCHANGED <<published, next, seen, pc, available, shutdown_at_sequence>>
      /\ UNCHANGED returnedMap
      /\ \A c \in Consumers : counter'[c] = counter[c]
      /\ gateHigh \in [Gates -> Int]
      /\ gateHigh' = [gateHigh EXCEPT ![h] = IF v > @ THEN v ELSE @]
  BY Topology, HandlesAlone DEF SetGate, sharedVars, consumerVars, MultiInv, TypeOK,
                                DisruptorTypeOK
<1>2. UNCHANGED <<grantedMap, releasedMap, stoppedMap>>
  BY <1>1 DEF grantedMap, releasedMap, stoppedMap
<1>3. CASE v > gateHigh[h]
  <2>1. gateHigh' = [gateHigh EXCEPT ![h] = v] /\ gateHigh'[h] = v
    BY <1>1, <1>3
  <2> QED
    BY <1>1, <1>2, <1>3, <2>1
       DEF Promise!Open, grantedMap, releasedMap, stoppedMap, returnedMap
<1>4. CASE ~(v > gateHigh[h])
  <2>1. gateHigh' = gateHigh
    BY <1>1, <1>4
  <2> QED
    BY <1>1, <1>2, <2>1, InvisibleStep
<1> QED
  BY <1>3, <1>4
-----------------------------------------------------------------------------
(* The refinement.                                                         *)

\* Every step is a step of the log, or none.
LEMMA NextLog == MultiInv /\ [Next]_vars => [Promise!LogNext]_(Promise!logVars)
<1> SUFFICES ASSUME MultiInv, [Next]_vars
             PROVE  Promise!LogNext \/ UNCHANGED Promise!logVars
  OBVIOUS
<1> USE Mapping, Topology
<1>0. TypeOK
  BY DEF MultiInv
<1>1. ASSUME NEW q \in Producers,
             \/ \E n \in 0 .. MaxBatch, spin \in BOOLEAN : BeginPublish(q, n, spin)
             \/ UpdatePanics(q)
             \/ \E r \in Producers : Clone(q, r)
      PROVE  UNCHANGED Promise!logVars
  BY <1>0, <1>1, InvisibleHandleSteps
<1>2. ASSUME NEW q \in Producers, HandleStep(q)
      PROVE  Promise!LogNext \/ UNCHANGED Promise!logVars
  <2>1. CASE PublishWord(q)
    BY <2>1, PublishWordWrites DEF Promise!LogNext
  <2>2. ASSUME NEW c \in Managed, JoinConsumer(q, c)
        PROVE  Promise!LogNext \/ UNCHANGED Promise!logVars
    BY <2>2, JoinConsumerReturns DEF Promise!LogNext
  <2> QED
    BY <1>0, <1>2, <2>1, <2>2, InvisibleHandleSteps DEF HandleStep
<1>3. ASSUME NEW q \in Producers, DropHandle(q)
      PROVE  Promise!LogNext \/ UNCHANGED Promise!logVars
  BY <1>3, DropHandleCloses DEF Promise!LogNext
<1>4. ASSUME NEW c \in Consumers, ConsumerStep(c)
      PROVE  Promise!LogNext \/ UNCHANGED Promise!logVars
  <2>0. UNCHANGED producerVars
    BY <1>4 DEF ConsumerStep
  <2>1. CASE LoadBarrier(c)
    BY <2>0, <2>1, LoadBarrierGrants DEF Promise!LogNext, grantedMap
  <2>2. CASE CheckShutdown(c)
    BY <2>0, <2>2, NoticingShutdownStops DEF Promise!LogNext
  <2>3. CASE ReadEvent(c)
    BY <2>0, <2>3, ReadEventReads DEF Promise!LogNext
  <2>4. CASE SignalDone(c)
    BY <2>0, <2>4, GivingBackReleases DEF Promise!LogNext
  <2> QED
    BY <1>4, <2>1, <2>2, <2>3, <2>4 DEF ConsumerStep
<1>5. CASE ClientStep
  <2>0. UNCHANGED producerVars
    BY <1>5 DEF ClientStep
  <2>1. ASSUME NEW c \in Faulty, HandlerPanics(c) PROVE UNCHANGED Promise!logVars
    BY <2>0, <2>1, PanickingIsInvisible, TopologyAssumption
  <2>2. ASSUME NEW p \in Pollers, NEW l \in Limits \cup {NoLimit}, PollTake(p, l)
        PROVE  Promise!LogNext \/ UNCHANGED Promise!logVars
    BY <2>0, <2>2, NoticingShutdownStops DEF Promise!LogNext
  <2>3. ASSUME NEW p \in Pollers, PollWait(p) PROVE UNCHANGED Promise!logVars
    BY <2>0, <2>3, PanickingIsInvisible
  <2>4. ASSUME NEW p \in Pollers, DropGuard(p)
        PROVE  Promise!LogNext \/ UNCHANGED Promise!logVars
    BY <2>0, <2>4, GivingBackReleases DEF Promise!LogNext
  <2>5. ASSUME NEW h \in Gates, NEW v \in GateValues, SetGate(h, v)
        PROVE  Promise!LogNext \/ UNCHANGED Promise!logVars
    <3>1. DOMAIN gateHigh = Gates
      BY <1>0 DEF TypeOK, DisruptorTypeOK
    <3> QED
      BY <2>0, <2>5, <3>1, SetGateOpens DEF Promise!LogNext
  <2> QED
    BY <1>5, <2>1, <2>2, <2>3, <2>4, <2>5 DEF ClientStep
<1>6. CASE UNCHANGED vars
  <2>1. UNCHANGED <<published, next, counter, available, pc, ppc, seen, gateHigh,
                    shutdown_at_sequence>>
    BY <1>6 DEF vars, disruptorVars, sharedVars, consumerVars, producerVars
  <2>2. UNCHANGED <<grantedMap, releasedMap, stoppedMap, returnedMap>>
    BY <2>1 DEF grantedMap, releasedMap, stoppedMap, returnedMap
  <2> QED
    BY <2>1, <2>2, InvisibleStep
<1> QED
  BY <1>1, <1>2, <1>3, <1>4, <1>5, <1>6 DEF Next, Terminated

\* Competing handles, parity bits and the walk over them together are the
\* bounded, staged log of Broadcast.
THEOREM MultiProducerImplementsBroadcast == Spec => ImplementsBroadcast
<1>1. Init => Promise!LogInit
  BY InitLog
<1>2. MultiInv /\ [Next]_vars => [Promise!LogNext]_(Promise!logVars)
  BY NextLog
<1> QED
  BY <1>1, <1>2, MultiProducerInductive, PTL DEF Spec, ImplementsBroadcast, Promise!LogSpec
=============================================================================
