------------------------ MODULE BuilderChainsProofs ------------------------
(***************************************************************************)
(* Proofs about BuilderChains, for any consumers, gates, cores, ring sizes *)
(* and number of stages: BuilderInv is inductive and implies the           *)
(* properties of the chains.                                               *)
(*                                                                         *)
(* Three kinds of calls touch what the invariant is about: those that add  *)
(* a consumer, those that begin a stage, and build.  Each has lemmas that  *)
(* say which builder the method returns, field by field, and then one      *)
(* lemma for each part of the invariant.                                   *)
(***************************************************************************)
EXTENDS BuilderChains, FiniteSetTheorems, SequenceTheorems, TLAPS

-----------------------------------------------------------------------------
(* Methods and type states.                                                *)

States == {"NC", "SC", "MC", "built", "panicked", "dropped"}

\* What the tables of methods say: consumers can be added in every type state,
\* a stage or the chain is closed only behind a consumer.
LEMMA Tables ==
  ASSUME b.kind \in {"single", "multi"}, b.state \in States
  PROVE  /\ \A m \in {"handle_events_with", "handle_events_and_state_with", "event_poller"} :
              Callable(b, m) =>
                /\ InChain(b)
                /\ TypeStates[b.kind][b.state][m] = IF b.state = "NC" THEN "SC" ELSE "MC"
         /\ \A m \in {"and_then", "and_then_with_dependents"} :
              Callable(b, m) =>
                b.state \in {"SC", "MC"} /\ TypeStates[b.kind][b.state][m] = "NC"
         /\ b.kind = "multi" /\ Callable(b, "and_then_with_dependents") => b.state = "MC"
         /\ Callable(b, "build") =>
              b.state \in {"SC", "MC"} /\ TypeStates[b.kind][b.state]["build"] = "built"
<1>1. CASE b.kind = "single"
  BY <1>1 DEF Callable, InChain, States, TypeStates, SPBuilderNC, SPBuilderSC, SPBuilderMC
<1>2. CASE b.kind = "multi"
  BY <1>2 DEF Callable, InChain, States, TypeStates, MPBuilderNC, MPBuilderSC, MPBuilderMC,
              SPBuilderNC, SPBuilderSC, SPBuilderMC
<1> QED
  BY <1>1, <1>2
-----------------------------------------------------------------------------
(* What the calls return, field by field.                                  *)

\* The fields that say who waits for whom.
Wired == {"wiring", "stage", "dependent_barrier", "stages", "stage_gates"}

\* Starting a thread touches only what belongs to threads.
LEMMA Starts ==
  ASSUME TypeOK, NEW c
  PROVE  LET t == start_processor(b, c)
         IN  /\ t = [f \in Fields |-> t[f]]
             /\ t.consumers = Append(b.consumers, c)
             /\ t.thread = Put(b.thread, c, [name |-> thread_name_of(b), affinity |-> b.affinity])
             /\ t.affinity = Unset /\ t.name = Unset
             /\ t.id = IF b.name = Unset THEN b.id + 1 ELSE b.id
             /\ \A f \in Fields \ {"consumers", "thread", "affinity", "name", "id"} : t[f] = b[f]
<1> USE DEF Fields
<1>1. b = [f \in Fields |-> b[f]]
  BY DEF TypeOK
<1> DEFINE u == take_context(b)
<1>2. /\ u = [f \in Fields |-> u[f]]
      /\ u.consumers = b.consumers /\ u.thread = b.thread
      /\ u.affinity = Unset /\ u.name = Unset
      /\ u.id = IF b.name = Unset THEN b.id + 1 ELSE b.id
      /\ \A f \in Fields \ {"affinity", "name", "id"} : u[f] = b[f]
  BY <1>1 DEF take_context
<1>3. start_processor(b, c) =
        [u EXCEPT !.consumers = Append(u.consumers, c),
                  !.thread = Put(u.thread, c, [name |-> thread_name_of(b), affinity |-> b.affinity])]
  BY DEF start_processor
<1> HIDE DEF u
<1> QED
  BY <1>2, <1>3, ZenonT(60)

\* Adding consumer c, with a thread or without.
LEMMA Adds ==
  ASSUME TypeOK, NEW c \in Fresh, AddHandler(c) \/ AddPoller(c)
  PROVE  /\ b' = [f \in Fields |-> b'[f]]
         /\ InChain(b) /\ b'.kind = b.kind
         /\ b'.state = IF b.state = "NC" THEN "SC" ELSE "MC"
         /\ b'.current_consumer_cursors = Append(b.current_consumer_cursors, c)
         /\ b'.wiring = Put(b.wiring, c, b.dependent_barrier)
         /\ b'.stage = Put(b.stage, c, b.stages)
         /\ b'.dependent_barrier = b.dependent_barrier
         /\ b'.stages = b.stages /\ b'.stage_gates = b.stage_gates
         /\ b'.gates = b.gates
<1> USE DEF Fields
<1>1. b = [f \in Fields |-> b[f]] /\ b.kind \in {"single", "multi"} /\ b.state \in States
  BY DEF TypeOK, States
<1>2. CASE AddPoller(c)
  <2>1. InChain(b)
    BY <1>1, <1>2, Tables DEF AddPoller
  <2>2. TypeStates[b.kind][b.state]["event_poller"] = IF b.state = "NC" THEN "SC" ELSE "MC"
    BY <1>1, <1>2, Tables DEF AddPoller
  <2>3. b' = [add_cursor(b, c) EXCEPT !.state = TypeStates[b.kind][b.state]["event_poller"]]
    BY <1>1, <1>2 DEF AddPoller, event_poller, Returning, add_cursor
  <2> QED
    BY <1>1, <2>1, <2>2, <2>3 DEF add_cursor
<1>3. CASE AddHandler(c)
  <2>1. InChain(b)
    BY <1>1, <1>3, Tables DEF AddHandler
  <2>2. PICK m \in {"handle_events_with", "handle_events_and_state_with"} :
          /\ Callable(b, m)
          /\ b' = Returning(add_event_handler(b, c), m)
    BY <1>3 DEF AddHandler, handle_events_with, handle_events_and_state_with
  <2>3. TypeStates[b.kind][b.state][m] = IF b.state = "NC" THEN "SC" ELSE "MC"
    BY <1>1, <2>2, Tables
  <2> DEFINE t == start_processor(b, c)
             a == add_event_handler(b, c)
  <2>4. /\ t = [f \in Fields |-> t[f]]
        /\ \A f \in Fields \ {"consumers", "thread", "affinity", "name", "id"} : t[f] = b[f]
    BY Starts
  <2>5. /\ a = [f \in Fields |-> a[f]]
        /\ a.kind = b.kind /\ a.state = b.state
        /\ a.current_consumer_cursors = Append(b.current_consumer_cursors, c)
        /\ a.wiring = Put(b.wiring, c, b.dependent_barrier)
        /\ a.stage = Put(b.stage, c, b.stages)
        /\ a.dependent_barrier = b.dependent_barrier
        /\ a.stages = b.stages /\ a.stage_gates = b.stage_gates
        /\ a.gates = b.gates
    <3>1. a = add_cursor(t, c)
      BY DEF add_event_handler
    <3> HIDE DEF a, t
    <3> QED
      BY <2>4, <3>1 DEF add_cursor
  <2>6. b' = [a EXCEPT !.state = TypeStates[a.kind][a.state][m]]
    BY <2>2 DEF Returning
  <2> HIDE DEF a, t
  <2> QED
    BY <2>1, <2>3, <2>5, <2>6
<1> QED
  BY <1>2, <1>3

\* Only a handler takes a thread, and with it the thread settings.
LEMMA AddsThread ==
  ASSUME TypeOK, NEW c \in Fresh
  PROVE  /\ AddHandler(c) =>
              /\ b'.consumers = Append(b.consumers, c)
              /\ b'.thread =
                   Put(b.thread, c, [name |-> thread_name_of(b), affinity |-> b.affinity])
              /\ b'.affinity = Unset /\ b'.name = Unset
              /\ b'.id = IF b.name = Unset THEN b.id + 1 ELSE b.id
         /\ AddPoller(c) =>
              /\ b'.consumers = b.consumers /\ b'.thread = b.thread
              /\ b'.affinity = b.affinity /\ b'.name = b.name /\ b'.id = b.id
<1> USE DEF Fields
<1>1. b = [f \in Fields |-> b[f]]
  BY DEF TypeOK
<1>2. ASSUME AddPoller(c)
      PROVE  /\ b'.consumers = b.consumers /\ b'.thread = b.thread
             /\ b'.affinity = b.affinity /\ b'.name = b.name /\ b'.id = b.id
  BY <1>1, <1>2 DEF AddPoller, event_poller, Returning, add_cursor
<1>3. ASSUME AddHandler(c)
      PROVE  /\ b'.consumers = Append(b.consumers, c)
             /\ b'.thread =
                  Put(b.thread, c, [name |-> thread_name_of(b), affinity |-> b.affinity])
             /\ b'.affinity = Unset /\ b'.name = Unset
             /\ b'.id = IF b.name = Unset THEN b.id + 1 ELSE b.id
  <2>1. PICK m \in {"handle_events_with", "handle_events_and_state_with"} :
          b' = Returning(add_event_handler(b, c), m)
    BY <1>3 DEF AddHandler, handle_events_with, handle_events_and_state_with
  <2> DEFINE t == start_processor(b, c)
             a == add_event_handler(b, c)
  <2>2. /\ t = [f \in Fields |-> t[f]]
        /\ t.consumers = Append(b.consumers, c)
        /\ t.thread = Put(b.thread, c, [name |-> thread_name_of(b), affinity |-> b.affinity])
        /\ t.affinity = Unset /\ t.name = Unset
        /\ t.id = IF b.name = Unset THEN b.id + 1 ELSE b.id
    BY Starts
  <2>3. /\ a = [f \in Fields |-> a[f]]
        /\ a.consumers = t.consumers /\ a.thread = t.thread
        /\ a.affinity = t.affinity /\ a.name = t.name /\ a.id = t.id
    <3>1. a = add_cursor(t, c)
      BY DEF add_event_handler
    <3> HIDE DEF a, t
    <3> QED
      BY <2>2, <3>1 DEF add_cursor
  <2>4. b' = [a EXCEPT !.state = TypeStates[a.kind][a.state][m]]
    BY <2>1 DEF Returning
  <2> HIDE DEF a, t
  <2> QED
    BY <2>2, <2>3, <2>4
<1> QED
  BY <1>2, <1>3

\* The cursor of a lone consumer is all there is.
LEMMA LoneCursor ==
  ASSUME TypeOK, CursorsByState, b.state = "SC"
  PROVE  /\ {Head(b.current_consumer_cursors)} = Cells(b.current_consumer_cursors)
         /\ Tail(b.current_consumer_cursors) = <<>>
<1>1. b.current_consumer_cursors \in Seq(Names) /\ Len(b.current_consumer_cursors) = 1
  BY DEF TypeOK, CursorsByState
<1>2. Tail(b.current_consumer_cursors) = <<>>
  <2> DEFINE t == Tail(b.current_consumer_cursors)
  <2>1. b.current_consumer_cursors # <<>>
    BY <1>1, EmptySeq
  <2>2. t \in Seq(Names) /\ Len(t) = 0
    BY <1>1, <2>1, HeadTailProperties
  <2> HIDE DEF t
  <2>3. t = <<>>
    BY <2>2, EmptySeq
  <2> QED
    BY <2>3 DEF t
<1>3. Cells(b.current_consumer_cursors) = {b.current_consumer_cursors[1]}
  BY <1>1 DEF Cells
<1> QED
  BY <1>1, <1>2, <1>3

\* Beginning a stage, behind the cursors collected so far and the gates.
LEMMA Begins ==
  ASSUME TypeOK, CursorsByState, BeginStage
  PROVE  /\ b' = [f \in Fields |-> b'[f]]
         /\ b.state \in {"SC", "MC"} /\ b'.state = "NC" /\ b'.kind = b.kind
         /\ b'.current_consumer_cursors = <<>>
         /\ b'.stages = b.stages + 1
         /\ \E G \in SUBSET b.gates :
              /\ b'.dependent_barrier = Cells(b.current_consumer_cursors) \cup G
              /\ b'.stage_gates = Append(b.stage_gates, G)
              /\ b.kind = "multi" /\ G # {} => b.state = "MC"
         /\ b'.wiring = b.wiring /\ b'.stage = b.stage /\ b'.gates = b.gates
         /\ b'.consumers = b.consumers /\ b'.thread = b.thread
         /\ b'.affinity = b.affinity /\ b'.name = b.name /\ b'.id = b.id
<1> USE DEF Fields
<1>1. b = [f \in Fields |-> b[f]] /\ b.kind \in {"single", "multi"} /\ b.state \in States
  BY DEF TypeOK, States
<1>2. PICK m \in {"and_then", "and_then_with_dependents"}, G \in SUBSET b.gates :
        /\ Callable(b, m)
        /\ b.kind = "multi" /\ G # {} => b.state = "MC"
        /\ b' = begin_stage(b, m, Cells(b.current_consumer_cursors) \cup G, <<>>, G)
  <2>1. CASE Callable(b, "and_then") /\ b' = and_then(b)
    <3>1. b.state \in {"SC", "MC"}
      BY <1>1, <2>1, Tables
    <3>2. /\ b.state = "SC" =>
               /\ {Head(b.current_consumer_cursors)} = Cells(b.current_consumer_cursors)
               /\ Tail(b.current_consumer_cursors) = <<>>
      BY LoneCursor
    <3>3. b' = begin_stage(b, "and_then", Cells(b.current_consumer_cursors), <<>>, {})
      BY <2>1, <3>1, <3>2 DEF and_then, and_then_SC, and_then_MC
    <3> QED
      BY <2>1, <3>3
  <2>2. CASE /\ Callable(b, "and_then_with_dependents")
             /\ \E G \in SUBSET b.gates : b' = and_then_with_dependents(b, G)
    BY <1>1, <2>2, Tables DEF and_then_with_dependents
  <2> QED
    BY <2>1, <2>2 DEF BeginStage
<1>3. b.state \in {"SC", "MC"} /\ TypeStates[b.kind][b.state][m] = "NC"
  BY <1>1, <1>2, Tables
<1> QED
  BY <1>1, <1>2, <1>3 DEF begin_stage, Returning

\* Closing the chain, with the cursors of the last stage.
LEMMA Builds ==
  ASSUME TypeOK, CursorsByState, Build
  PROVE  /\ b' = [f \in Fields |-> b'[f]]
         /\ b.state \in {"SC", "MC"} /\ b'.state = "built" /\ b'.kind = b.kind
         /\ b'.current_consumer_cursors = <<>>
         /\ b'.consumer_barrier = Cells(b.current_consumer_cursors)
         /\ \A f \in Fields \ {"state", "current_consumer_cursors", "consumer_barrier"} :
              b'[f] = b[f]
<1> USE DEF Fields
<1>1. b = [f \in Fields |-> b[f]] /\ b.kind \in {"single", "multi"} /\ b.state \in States
  BY DEF TypeOK, States
<1>2. b.state \in {"SC", "MC"} /\ TypeStates[b.kind][b.state]["build"] = "built"
  BY <1>1, Tables DEF Build
<1>3. b.state = "SC" => {Head(b.current_consumer_cursors)} = Cells(b.current_consumer_cursors)
  BY LoneCursor
<1>4. b' = [b EXCEPT !.state = "built",
                     !.consumer_barrier = Cells(b.current_consumer_cursors),
                     !.current_consumer_cursors = <<>>]
  BY <1>1, <1>2, <1>3 DEF Build, build, build_SC, build_MC, Returning
<1> QED
  BY <1>1, <1>2, <1>4

\* All other calls, panics and the end of an abandoned builder leave alone what
\* has been added.
Others ==
  \/ SpawnFails
  \/ \E core \in AskedCores : PinAtCore(core)
  \/ \E name \in Titles : ThreadName(name)
  \/ \E G \in SUBSET Gates \ {{}} : NewGates(G)
  \/ Abandon

LEMMA LeavesAlone ==
  ASSUME TypeOK, Others
  PROVE  /\ b' = [f \in Fields |-> b'[f]]
         /\ InChain(b)
         /\ b'.state \in {b.state, "panicked", "dropped"}
         /\ \A f \in Fields \ {"state", "affinity", "name", "gates"} : b'[f] = b[f]
<1> USE DEF Fields
<1>1. b = [f \in Fields |-> b[f]] /\ b.kind \in {"single", "multi"} /\ b.state \in States
  BY DEF TypeOK, States
<1>2. CASE SpawnFails
  BY <1>1, <1>2, Tables DEF SpawnFails, panic
<1>3. CASE \E core \in AskedCores : PinAtCore(core)
  BY <1>1, <1>3 DEF PinAtCore, pin_at_core, panic
<1>4. CASE \E name \in Titles : ThreadName(name)
  BY <1>1, <1>4 DEF ThreadName, thread_name
<1>5. CASE \E G \in SUBSET Gates \ {{}} : NewGates(G)
  BY <1>1, <1>5 DEF NewGates, new_gates
<1>6. CASE Abandon
  BY <1>1, <1>6 DEF Abandon
<1> QED
  BY <1>2, <1>3, <1>4, <1>5, <1>6 DEF Others
-----------------------------------------------------------------------------
(* The invariant, when a consumer is added.                                *)

LEMMA CellsOfAppend ==
  ASSUME NEW S, NEW s \in Seq(S), NEW c \in S
  PROVE  /\ Append(s, c) \in Seq(S)
         /\ Len(Append(s, c)) = Len(s) + 1
         /\ \A i \in 1 .. Len(s) : Append(s, c)[i] = s[i]
         /\ Append(s, c)[Len(s) + 1] = c
         /\ Cells(Append(s, c)) = Cells(s) \cup {c}
<1>1. /\ Append(s, c) \in Seq(S)
      /\ Len(Append(s, c)) = Len(s) + 1
      /\ \A i \in 1 .. Len(s) : Append(s, c)[i] = s[i]
      /\ Append(s, c)[Len(s) + 1] = c
  BY AppendProperties
<1>2. Len(s) \in Nat
  BY LenProperties
<1> DEFINE t == Append(s, c)
<1> HIDE DEF t
<1>3. Cells(t) = Cells(s) \cup {c}
  BY <1>1, <1>2 DEF Cells, t
<1> QED
  BY <1>1, <1>3 DEF t

\* The new consumer joins the last stage, and no other.
LEMMA AddsToLastStage ==
  ASSUME TypeOK, NEW c \in Fresh, AddHandler(c) \/ AddPoller(c)
  PROVE  /\ c \in Names /\ c \notin DOMAIN b.stage
         /\ DOMAIN b'.stage = DOMAIN b.stage \cup {c}
         /\ b'.stage[c] = b.stages /\ b'.wiring[c] = b.dependent_barrier
         /\ DOMAIN b'.wiring = DOMAIN b'.stage
         /\ \A d \in DOMAIN b.stage :
              /\ d # c
              /\ b'.stage[d] = b.stage[d] /\ b'.wiring[d] = b.wiring[d]
              /\ b.stage[d] \in 1 .. b.stages
         /\ ConsumersAt(b.stages)' = ConsumersAt(b.stages) \cup {c}
         /\ \A k : k # b.stages => ConsumersAt(k)' = ConsumersAt(k)
<1>1. c \in Names /\ c \notin DOMAIN b.stage
  BY DEF Fresh
<1>2. DOMAIN b.wiring = DOMAIN b.stage /\ \A d \in DOMAIN b.stage : b.stage[d] \in 1 .. b.stages
  BY DEF TypeOK
<1>3. /\ b'.stage = Put(b.stage, c, b.stages)
      /\ b'.wiring = Put(b.wiring, c, b.dependent_barrier)
      /\ b'.stages = b.stages
  BY Adds
<1>4. /\ DOMAIN b'.stage = DOMAIN b.stage \cup {c}
      /\ b'.stage[c] = b.stages
      /\ \A d \in DOMAIN b.stage \ {c} : b'.stage[d] = b.stage[d]
  BY <1>3 DEF Put
<1>5. /\ DOMAIN b'.wiring = DOMAIN b.wiring \cup {c}
      /\ b'.wiring[c] = b.dependent_barrier
      /\ \A d \in DOMAIN b.wiring \ {c} : b'.wiring[d] = b.wiring[d]
  BY <1>3 DEF Put
<1>6. ConsumersAt(b.stages)' = ConsumersAt(b.stages) \cup {c}
  BY <1>1, <1>3, <1>4 DEF ConsumersAt
<1>7. \A k : k # b.stages => ConsumersAt(k)' = ConsumersAt(k)
  BY <1>1, <1>4 DEF ConsumersAt
<1> QED
  BY <1>1, <1>2, <1>4, <1>5, <1>6, <1>7

LEMMA AddsTypeOK ==
  ASSUME TypeOK, NEW c \in Fresh, AddHandler(c) \/ AddPoller(c)
  PROVE  TypeOK'
<1>1. /\ b' = [f \in Fields |-> b'[f]] /\ b'.kind = b.kind
      /\ InChain(b) /\ b'.state = IF b.state = "NC" THEN "SC" ELSE "MC"
      /\ b'.stages = b.stages /\ b'.stage_gates = b.stage_gates
      /\ b'.current_consumer_cursors = Append(b.current_consumer_cursors, c)
  BY Adds
<1>2. c \in Names /\ c \notin DOMAIN b.stage
  BY AddsToLastStage
<1>3. /\ b.current_consumer_cursors \in Seq(Names) /\ b.consumers \in Seq(DOMAIN b.stage)
      /\ IsFiniteSet(DOMAIN b.stage) /\ DOMAIN b.stage \subseteq Names
      /\ b.stages \in Nat \ {0}
  BY DEF TypeOK
<1>4. b'.current_consumer_cursors \in Seq(Names)
  BY <1>1, <1>2, <1>3
<1>5. b'.consumers \in Seq(DOMAIN b'.stage)
  <2>1. b'.consumers = b.consumers \/ b'.consumers = Append(b.consumers, c)
    BY AddsThread
  <2>2. DOMAIN b'.stage = DOMAIN b.stage \cup {c}
    BY AddsToLastStage
  <2>3. b.consumers \in Seq(DOMAIN b.stage \cup {c})
    BY <1>3, SeqMonotonic
  <2>4. Append(b.consumers, c) \in Seq(DOMAIN b.stage \cup {c})
    BY <2>3, AppendProperties
  <2> QED
    BY <2>1, <2>2, <2>3, <2>4
<1>6. IsFiniteSet(DOMAIN b'.stage) /\ DOMAIN b'.stage \subseteq Names
  <2>1. DOMAIN b'.stage = DOMAIN b.stage \cup {c}
    BY AddsToLastStage
  <2>2. IsFiniteSet(DOMAIN b.stage \cup {c})
    BY <1>3, FS_AddElement
  <2> QED
    BY <1>2, <1>3, <2>1, <2>2
<1>7. b'.stage \in [DOMAIN b'.stage -> 1 .. b'.stages]
  <2>1. b'.stage = [d \in DOMAIN b.stage \cup {c} |-> IF d = c THEN b.stages ELSE b.stage[d]]
    BY Adds DEF Put
  <2>2. b.stages \in 1 .. b.stages
    BY <1>3
  <2> QED
    BY <1>1, <2>1, <2>2, AddsToLastStage, ZenonT(40)
<1>8. DOMAIN b'.wiring = DOMAIN b'.stage
  BY AddsToLastStage
<1>9. b.kind \in {"single", "multi"} /\ b.stage_gates \in Seq(SUBSET Gates) /\ Len(b.stage_gates) = b.stages
      /\ b.gates \subseteq Gates /\ b'.gates = b.gates
  BY Adds DEF TypeOK
<1> QED
  BY <1>1, <1>3, <1>4, <1>5, <1>6, <1>7, <1>8, <1>9 DEF TypeOK

\* Vec::push makes one cursor out of none, and several out of one.
LEMMA AddsCursor ==
  ASSUME TypeOK, CursorsByState, PresentByConstruction,
         NEW c \in Fresh, AddHandler(c) \/ AddPoller(c)
  PROVE  CursorsByState' /\ PresentByConstruction'
<1> DEFINE s == b.current_consumer_cursors
           t == b'.current_consumer_cursors
           S == Cells(s)
<1>1. /\ InChain(b) /\ b'.state = IF b.state = "NC" THEN "SC" ELSE "MC"
      /\ t = Append(s, c) /\ b'.stages = b.stages
  BY Adds
<1>2. s \in Seq(Names) /\ Len(s) \in Nat
  BY LenProperties DEF TypeOK
<1>3. /\ Len(t) = Len(s) + 1
      /\ \A i \in 1 .. Len(s) : t[i] = s[i]
      /\ t[Len(s) + 1] = c
      /\ Cells(t) = S \cup {c}
  BY <1>1, <1>2, CellsOfAppend, AddsToLastStage
<1>4. /\ b.state = "NC" => Len(s) = 0 /\ Cardinality(S) = 0
      /\ b.state = "SC" => Len(s) = 1 /\ Cardinality(S) = 1
      /\ b.state = "MC" => Len(s) > 1 /\ Cardinality(S) > 1
      /\ \A i, j \in 1 .. Len(s) : s[i] = s[j] => i = j
  BY EmptySeq DEF CursorsByState, PresentByConstruction
<1>5. S = ConsumersAt(b.stages)
  BY <1>1 DEF PresentByConstruction
<1>6. c \notin S /\ S \subseteq DOMAIN b.stage
  BY <1>5, AddsToLastStage DEF ConsumersAt
<1>7. ConsumersAt(b.stages)' = S \cup {c}
  BY <1>5, AddsToLastStage
<1>8. \A i \in 1 .. Len(s) : s[i] # c
  BY <1>6 DEF Cells
<1> HIDE DEF S, s, t
<1>9. IsFiniteSet(S) /\ Cardinality(S) \in Nat
  <2>1. IsFiniteSet(DOMAIN b.stage)
    BY DEF TypeOK
  <2>2. IsFiniteSet(S)
    BY <1>6, <2>1, FS_Subset
  <2> QED
    BY <2>2, FS_CardinalityType
<1>10. Cardinality(S \cup {c}) = Cardinality(S) + 1
  BY <1>6, <1>9, FS_AddElement
<1>11. \A i, j \in 1 .. Len(t) : t[i] = t[j] => i = j
  BY <1>2, <1>3, <1>4, <1>8
<1>12. CursorsByState'
  BY <1>1, <1>2, <1>3, <1>4, <1>11 DEF CursorsByState, InChain, t
<1>13. Cells(b.current_consumer_cursors)' = S \cup {c}
  BY <1>3 DEF t, Cells
<1>14. PresentByConstruction'
  <2>1. b.state \in {"NC", "SC", "MC"}
    BY <1>1 DEF InChain
  <2>2. b'.state = "SC" => Cardinality(S \cup {c}) = 1
    BY <1>1, <1>4, <1>10
  <2>3. b'.state = "MC" => Cardinality(S \cup {c}) > 1
    BY <1>1, <1>4, <1>9, <1>10, <2>1
  <2>4. b'.state # "NC"
    BY <1>1
  <2> QED
    BY <1>7, <1>13, <2>2, <2>3, <2>4 DEF PresentByConstruction
<1> QED
  BY <1>12, <1>14

\* The new consumer waits for what its stage waits for.
LEMMA AddsWired ==
  ASSUME TypeOK, NextIsWired, StagesAreWired, NEW c \in Fresh, AddHandler(c) \/ AddPoller(c)
  PROVE  NextIsWired' /\ StagesAreWired'
<1>1. /\ InChain(b) /\ b'.state \in {"SC", "MC"}
      /\ b'.dependent_barrier = b.dependent_barrier
      /\ b'.stages = b.stages /\ b'.stage_gates = b.stage_gates
  BY Adds
<1>2. b.stages \in Nat \ {0} /\ DOMAIN b.wiring = DOMAIN b.stage
  BY DEF TypeOK
<1>3. /\ c \notin DOMAIN b.stage
      /\ DOMAIN b'.stage = DOMAIN b.stage \cup {c}
      /\ DOMAIN b'.wiring = DOMAIN b'.stage
      /\ b'.stage[c] = b.stages /\ b'.wiring[c] = b.dependent_barrier
      /\ \A d \in DOMAIN b.stage :
           b'.stage[d] = b.stage[d] /\ b'.wiring[d] = b.wiring[d] /\ b.stage[d] \in 1 .. b.stages
  BY AddsToLastStage
<1>4. \A k \in 1 .. b.stages - 1 :
        {d \in DOMAIN b'.stage : b'.stage[d] = k} = {d \in DOMAIN b.stage : b.stage[d] = k}
  BY <1>2, <1>3
<1>5. NextIsWired'
  <2>1. /\ b.dependent_barrier =
             IF b.stages = 1 THEN {PRODUCER}
             ELSE {d \in DOMAIN b.stage : b.stage[d] = b.stages - 1}
                  \cup b.stage_gates[b.stages]
        /\ \A k \in 1 .. b.stages - 1 : {d \in DOMAIN b.stage : b.stage[d] = k} # {}
    BY <1>1 DEF NextIsWired, ConsumersAt
  <2> QED
    BY <1>1, <1>2, <1>4, <2>1 DEF NextIsWired, ConsumersAt
<1>6. ASSUME NEW d \in DOMAIN b'.wiring
      PROVE  b'.wiring[d] =
               IF b'.stage[d] = 1 THEN {PRODUCER}
               ELSE {e \in DOMAIN b'.stage : b'.stage[e] = b'.stage[d] - 1}
                    \cup b'.stage_gates[b'.stage[d]]
  <2>1. CASE d = c
    <3>1. b.dependent_barrier =
            IF b.stages = 1 THEN {PRODUCER}
            ELSE {e \in DOMAIN b.stage : b.stage[e] = b.stages - 1}
                 \cup b.stage_gates[b.stages]
      BY <1>1 DEF NextIsWired, ConsumersAt
    <3>2. b.stages = 1 \/ b.stages - 1 \in 1 .. b.stages - 1
      BY <1>2
    <3> QED
      BY <1>1, <1>3, <1>4, <2>1, <3>1, <3>2
  <2>2. CASE d \in DOMAIN b.stage
    <3>1. b.wiring[d] =
            IF b.stage[d] = 1 THEN {PRODUCER}
            ELSE {e \in DOMAIN b.stage : b.stage[e] = b.stage[d] - 1}
                 \cup b.stage_gates[b.stage[d]]
      BY <1>2, <2>2 DEF StagesAreWired, ConsumersAt
    <3>2. b.stage[d] = 1 \/ b.stage[d] - 1 \in 1 .. b.stages - 1
      BY <1>2, <1>3, <2>2
    <3> QED
      BY <1>1, <1>3, <1>4, <2>2, <3>1, <3>2
  <2> QED
    BY <1>3, <2>1, <2>2
<1>7. StagesAreWired'
  <2>1. b'.state # "built"
    BY <1>1
  <2> QED
    BY <1>6, <2>1 DEF StagesAreWired, ConsumersAt
<1> QED
  BY <1>5, <1>7

\* The gates are behind earlier stages, which the new consumer does not join.
LEMMA AddsGates ==
  ASSUME TypeOK, GatesBehindGroups, NEW c \in Fresh, AddHandler(c) \/ AddPoller(c)
  PROVE  GatesBehindGroups'
<1>1. b'.kind = b.kind /\ b'.stages = b.stages /\ b'.stage_gates = b.stage_gates
  BY Adds
<1>2. \A k \in 2 .. b.stages : ConsumersAt(k - 1)' = ConsumersAt(k - 1)
  <2>1. b.stages \in Nat
    BY DEF TypeOK
  <2>2. \A k \in 2 .. b.stages : k - 1 # b.stages
    BY <2>1
  <2> QED
    BY <2>2, AddsToLastStage
<1> QED
  BY <1>1, <1>2 DEF GatesBehindGroups

\* Whoever was upstream of the stage's barrier, or of the stage, is upstream of
\* it with the new consumer in it.
LEMMA AddsCovered ==
  ASSUME TypeOK, FrontierCoversAll, NEW c \in Fresh, AddHandler(c) \/ AddPoller(c)
  PROVE  FrontierCoversAll' /\ BackpressureCoversAll'
<1>1. /\ InChain(b) /\ b'.state \in {"SC", "MC"}
      /\ b'.current_consumer_cursors = Append(b.current_consumer_cursors, c)
  BY Adds
<1>2. /\ c \notin DOMAIN b.stage
      /\ DOMAIN b'.stage = DOMAIN b.stage \cup {c}
      /\ b'.wiring[c] = b.dependent_barrier
      /\ \A d \in DOMAIN b.stage : b'.wiring[d] = b.wiring[d]
  BY AddsToLastStage
<1>3. Cells(b'.current_consumer_cursors) = Cells(b.current_consumer_cursors) \cup {c}
  <2>1. b.current_consumer_cursors \in Seq(Names) /\ c \in Names
    BY AddsToLastStage DEF TypeOK
  <2> QED
    BY <1>1, <2>1, CellsOfAppend
<1>4. ASSUME NEW T \in SUBSET DOMAIN b'.stage,
             \A d \in T : b'.wiring[d] \cap DOMAIN b'.stage \subseteq T,
             Cells(b'.current_consumer_cursors) \cap DOMAIN b'.stage \subseteq T
      PROVE  DOMAIN b'.stage \subseteq T
  <2> DEFINE S == T \ {c}
  <2>1. c \in T
    BY <1>2, <1>3, <1>4
  <2>2. S \in SUBSET DOMAIN b.stage
    BY <1>2
  <2>3. ClosedUpstream(S)
    BY <1>2, <1>4 DEF ClosedUpstream
  <2>4. Frontier \cap DOMAIN b.stage \subseteq S
    <3>1. CASE b.state = "NC"
      BY <1>2, <1>4, <2>1, <3>1 DEF Frontier
    <3>2. CASE b.state # "NC"
      BY <1>2, <1>3, <1>4, <3>2 DEF Frontier
    <3> QED
      BY <3>1, <3>2
  <2>5. DOMAIN b.stage \subseteq S
    BY <1>1, <2>2, <2>3, <2>4 DEF FrontierCoversAll, Upstream
  <2> QED
    BY <1>2, <2>1, <2>5
<1>5. FrontierCoversAll'
  BY <1>1, <1>4 DEF FrontierCoversAll, Frontier, Upstream, ClosedUpstream, Cells
<1> QED
  BY <1>1, <1>5 DEF BackpressureCoversAll

\* No thread was started in a later stage than the new one's.
LEMMA AddsInOrder ==
  ASSUME TypeOK, JoinedUpstreamFirst, NEW c \in Fresh, AddHandler(c) \/ AddPoller(c)
  PROVE  JoinedUpstreamFirst'
<1> DEFINE s == b.consumers
           t == b'.consumers
<1>1. s \in Seq(DOMAIN b.stage) /\ Len(s) \in Nat /\ b.stages \in Nat \ {0}
  BY LenProperties DEF TypeOK
<1>2. /\ c \in Names /\ c \notin DOMAIN b.stage
      /\ b'.stage[c] = b.stages
      /\ \A d \in DOMAIN b.stage : b'.stage[d] = b.stage[d] /\ b.stage[d] \in 1 .. b.stages
  BY AddsToLastStage
<1>3. /\ DOMAIN b.thread = Cells(s)
      /\ \A i \in 1 .. Len(s) : s[i] \in DOMAIN b.stage
      /\ \A i, j \in 1 .. Len(s) : i < j => b.stage[s[i]] <= b.stage[s[j]]
  <2>1. DOMAIN b.thread = Cells(s)
    BY DEF JoinedUpstreamFirst
  <2>2. \A i \in 1 .. Len(s) : s[i] \in DOMAIN b.stage
    BY <1>1, ElementOfSeq
  <2>3. \A i, j \in 1 .. Len(s) : i < j => b.stage[s[i]] <= b.stage[s[j]]
    BY DEF JoinedUpstreamFirst
  <2> QED
    BY <2>1, <2>2, <2>3
<1>4. CASE AddPoller(c)
  <2>1. t = s /\ b'.thread = b.thread
    BY <1>4, AddsThread
  <2>2. DOMAIN b'.thread = Cells(t)
    BY <1>3, <2>1
  <2>3. \A i, j \in 1 .. Len(t) : i < j => b'.stage[t[i]] <= b'.stage[t[j]]
    BY <1>2, <1>3, <2>1
  <2> QED
    BY <2>2, <2>3 DEF JoinedUpstreamFirst, Cells
<1>5. CASE AddHandler(c)
  <2>1. /\ t = Append(s, c)
        /\ DOMAIN b'.thread = DOMAIN b.thread \cup {c}
    BY <1>5, AddsThread DEF Put
  <2>2. /\ Len(t) = Len(s) + 1
        /\ \A i \in 1 .. Len(s) : t[i] = s[i]
        /\ t[Len(s) + 1] = c
        /\ Cells(t) = Cells(s) \cup {c}
    <3>1. s \in Seq(DOMAIN b.stage \cup {c})
      BY <1>1, SeqMonotonic
    <3> QED
      BY <2>1, <3>1, CellsOfAppend
  <2>3. DOMAIN b'.thread = Cells(t)
    BY <1>3, <2>1, <2>2
  <2> HIDE DEF s, t
  <2>4. ASSUME NEW i \in 1 .. Len(t), NEW j \in 1 .. Len(t), i < j
        PROVE  b'.stage[t[i]] <= b'.stage[t[j]]
    <3>1. i \in 1 .. Len(s) /\ (j \in 1 .. Len(s) \/ j = Len(s) + 1)
      BY <1>1, <2>2, <2>4
    <3>2. t[i] = s[i] /\ b'.stage[s[i]] = b.stage[s[i]] /\ b.stage[s[i]] \in 1 .. b.stages
      BY <1>2, <1>3, <2>2, <3>1
    <3>3. CASE j = Len(s) + 1
      BY <1>1, <1>2, <2>2, <3>2, <3>3
    <3>4. CASE j \in 1 .. Len(s)
      BY <1>2, <1>3, <2>2, <2>4, <3>1, <3>2, <3>4
    <3> QED
      BY <3>1, <3>3, <3>4
  <2> QED
    BY <2>3, <2>4 DEF JoinedUpstreamFirst, Cells, t
<1> QED
  BY <1>4, <1>5

\* The thread settings are as good as new, or untouched.
LEMMA AddsSettings ==
  ASSUME TypeOK, SettingsKept, NEW c \in Fresh, AddHandler(c) \/ AddPoller(c)
  PROVE  SettingsKept'
<1>1. InChain(b)
  BY Adds
<1>2. CASE AddHandler(c)
  BY <1>2, AddsThread DEF SettingsKept, AddHandler
<1>3. CASE AddPoller(c)
  BY <1>1, <1>3, AddsThread DEF SettingsKept, AddPoller
<1> QED
  BY <1>2, <1>3

LEMMA AddsInv ==
  ASSUME BuilderInv, NEW c \in Fresh, AddHandler(c) \/ AddPoller(c)
  PROVE  BuilderInv'
<1> USE DEF BuilderInv
<1>1. TypeOK'
  BY AddsTypeOK
<1>2. CursorsByState' /\ PresentByConstruction'
  BY AddsCursor
<1>3. NextIsWired' /\ StagesAreWired' /\ GatesBehindGroups'
  BY AddsWired, AddsGates
<1>4. FrontierCoversAll' /\ BackpressureCoversAll'
  BY AddsCovered
<1>5. SettingsKept' /\ JoinedUpstreamFirst'
  BY AddsSettings, AddsInOrder
<1> QED
  BY <1>1, <1>2, <1>3, <1>4, <1>5
-----------------------------------------------------------------------------
(* The invariant, when a stage begins.                                     *)

LEMMA NoCells == Cells(<<>>) = {}
BY EmptySeq DEF Cells

LEMMA BeginsInv ==
  ASSUME BuilderInv, BeginStage
  PROVE  BuilderInv'
<1>1. TypeOK /\ CursorsByState /\ PresentByConstruction
  BY DEF BuilderInv
<1>2. /\ b' = [f \in Fields |-> b'[f]]
      /\ b.state \in {"SC", "MC"} /\ b'.state = "NC" /\ b'.kind = b.kind
      /\ b'.current_consumer_cursors = <<>>
      /\ b'.stages = b.stages + 1
      /\ b'.wiring = b.wiring /\ b'.stage = b.stage /\ b'.gates = b.gates
      /\ b'.consumers = b.consumers /\ b'.thread = b.thread
      /\ b'.affinity = b.affinity /\ b'.name = b.name
  BY <1>1, Begins
<1>3. PICK G \in SUBSET Gates :
        /\ b'.dependent_barrier = Cells(b.current_consumer_cursors) \cup G
        /\ b'.stage_gates = Append(b.stage_gates, G)
        /\ b.kind = "multi" /\ G # {} => b.state = "MC"
  BY <1>1, Begins DEF TypeOK
<1>4. /\ InChain(b) /\ b.stages \in Nat \ {0}
      /\ b.stage_gates \in Seq(SUBSET Gates) /\ Len(b.stage_gates) = b.stages
      /\ DOMAIN b.wiring = DOMAIN b.stage
      /\ \A d \in DOMAIN b.stage : b.stage[d] \in 1 .. b.stages
  BY <1>1, <1>2 DEF TypeOK, InChain
<1>5. /\ b'.stage_gates \in Seq(SUBSET Gates) /\ Len(b'.stage_gates) = b.stages + 1
      /\ \A k \in 1 .. b.stages : b'.stage_gates[k] = b.stage_gates[k]
      /\ b'.stage_gates[b.stages + 1] = G
  BY <1>3, <1>4, CellsOfAppend
<1>6. TypeOK'
  <2>1. b.kind \in {"single", "multi"} /\ b.consumers \in Seq(DOMAIN b.stage) /\ b.gates \subseteq Gates
        /\ IsFiniteSet(DOMAIN b.stage) /\ DOMAIN b.stage \subseteq Names
        /\ b.stage \in [DOMAIN b.stage -> 1 .. b.stages]
    BY <1>1 DEF TypeOK
  <2>2. b.stage \in [DOMAIN b.stage -> 1 .. b.stages + 1]
    BY <1>4, <2>1
  <2>3. <<>> \in Seq(Names)
    BY EmptySeq
  <2> QED
    BY <1>2, <1>4, <1>5, <2>1, <2>2, <2>3 DEF TypeOK
<1>7. /\ Cells(b.current_consumer_cursors) = {d \in DOMAIN b.stage : b.stage[d] = b.stages}
      /\ Cells(b.current_consumer_cursors) # {}
  <2>1. Cells(b.current_consumer_cursors) = ConsumersAt(b.stages)
    BY <1>4 DEF PresentByConstruction, BuilderInv
  <2>2. Cardinality(Cells(b.current_consumer_cursors)) # 0
    BY <1>1, <1>2 DEF PresentByConstruction
  <2> QED
    BY <2>1, <2>2, FS_EmptySet DEF ConsumersAt
<1>8. CursorsByState'
  BY <1>2, EmptySeq DEF CursorsByState
<1>9. PresentByConstruction'
  <2>1. {d \in DOMAIN b'.stage : b'.stage[d] = b'.stages} = {}
    BY <1>2, <1>4
  <2>2. Cells(b.current_consumer_cursors)' = {}
    BY <1>2, NoCells DEF Cells
  <2> QED
    BY <1>2, <2>1, <2>2, FS_EmptySet DEF PresentByConstruction, ConsumersAt
<1>10. NextIsWired'
  <2>1. \A k \in 1 .. b.stages - 1 : {d \in DOMAIN b.stage : b.stage[d] = k} # {}
    BY <1>4 DEF BuilderInv, NextIsWired, ConsumersAt
  <2>2. \A k \in 1 .. b.stages : {d \in DOMAIN b.stage : b.stage[d] = k} # {}
    BY <1>4, <1>7, <2>1
  <2>3. b'.stages # 1 /\ b'.stages - 1 = b.stages
    BY <1>2, <1>4
  <2>4. b'.dependent_barrier =
          {d \in DOMAIN b'.stage : b'.stage[d] = b'.stages - 1} \cup b'.stage_gates[b'.stages]
    BY <1>2, <1>3, <1>5, <1>7, <2>3
  <2> QED
    BY <1>2, <2>2, <2>3, <2>4 DEF NextIsWired, ConsumersAt
<1>11. StagesAreWired'
  <2>1. ASSUME NEW d \in DOMAIN b.wiring
        PROVE  b.wiring[d] =
                 IF b.stage[d] = 1 THEN {PRODUCER}
                 ELSE {e \in DOMAIN b.stage : b.stage[e] = b.stage[d] - 1}
                      \cup b'.stage_gates[b.stage[d]]
    BY <1>4, <1>5 DEF BuilderInv, StagesAreWired, ConsumersAt
  <2>2. b'.state # "built" /\ b'.wiring = b.wiring /\ b'.stage = b.stage
    BY <1>2
  <2>3. ASSUME NEW d \in DOMAIN b'.wiring
        PROVE  b'.wiring[d] =
                 IF b'.stage[d] = 1 THEN {PRODUCER}
                 ELSE {e \in DOMAIN b'.stage : b'.stage[e] = b'.stage[d] - 1}
                      \cup b'.stage_gates[b'.stage[d]]
    <3>1. b.wiring[d] =
            IF b.stage[d] = 1 THEN {PRODUCER}
            ELSE {e \in DOMAIN b.stage : b.stage[e] = b.stage[d] - 1}
                 \cup b'.stage_gates[b.stage[d]]
      BY <2>1, <2>2
    <3> QED
      BY <2>2, <3>1
  <2>4. (\A d \in DOMAIN b.wiring :
           b.wiring[d] = IF b.stage[d] = 1 THEN {PRODUCER}
                         ELSE ConsumersAt(b.stage[d] - 1) \cup b.stage_gates[b.stage[d]])'
    BY <2>3, Zenon DEF ConsumersAt
  <2> QED
    BY <2>2, <2>4, Zenon DEF StagesAreWired
<1>12. FrontierCoversAll'
  <2>1. ASSUME NEW T \in SUBSET DOMAIN b.stage, ClosedUpstream(T),
               b'.dependent_barrier \cap DOMAIN b.stage \subseteq T
        PROVE  DOMAIN b.stage \subseteq T
    <3>1. Frontier \cap DOMAIN b.stage \subseteq T
      BY <1>2, <1>3, <2>1 DEF Frontier
    <3> QED
      BY <1>4, <2>1, <3>1 DEF BuilderInv, FrontierCoversAll, Upstream
  <2> QED
    BY <1>2, <2>1 DEF FrontierCoversAll, Frontier, Upstream, ClosedUpstream
<1>13. BackpressureCoversAll'
  BY <1>2 DEF BackpressureCoversAll
<1>14. SettingsKept'
  BY <1>2, <1>4 DEF BuilderInv, SettingsKept, BeginStage
<1>15. JoinedUpstreamFirst'
  BY <1>2 DEF BuilderInv, JoinedUpstreamFirst, Cells
<1>16. GatesBehindGroups'
  <2>1. GatesBehindGroups /\ \A k : ConsumersAt(k)' = ConsumersAt(k)
    BY <1>2 DEF BuilderInv, ConsumersAt
  <2>2. b.stage_gates[1] = {} /\ b'.stage_gates[1] = {}
    BY <1>4, <1>5, <2>1 DEF GatesBehindGroups
  <2>3. ASSUME b.kind = "multi", NEW k \in 2 .. b.stages + 1, b'.stage_gates[k] # {}
        PROVE  Cardinality(ConsumersAt(k - 1)) > 1
    <3>1. CASE k \in 2 .. b.stages
      BY <1>5, <2>1, <2>3, <3>1 DEF GatesBehindGroups
    <3>2. CASE k = b.stages + 1
      <4>1. b.state = "MC" /\ k - 1 = b.stages
        BY <1>3, <1>4, <1>5, <2>3, <3>2
      <4> QED
        BY <1>1, <1>4, <4>1 DEF PresentByConstruction
    <3> QED
      BY <1>4, <3>1, <3>2
  <2> QED
    BY <1>2, <2>1, <2>2, <2>3 DEF GatesBehindGroups
<1> QED
  BY <1>6, <1>8, <1>9, <1>10, <1>11, <1>12, <1>13, <1>14, <1>15, <1>16 DEF BuilderInv
-----------------------------------------------------------------------------
(* The invariant, when the chain is closed or broken off, and in general.  *)

LEMMA BuildsInv ==
  ASSUME BuilderInv, Build
  PROVE  BuilderInv'
<1>1. TypeOK /\ CursorsByState /\ PresentByConstruction
  BY DEF BuilderInv
<1>2. /\ b' = [f \in Fields |-> b'[f]]
      /\ b.state \in {"SC", "MC"} /\ b'.state = "built" /\ b'.kind = b.kind
      /\ b'.current_consumer_cursors = <<>>
      /\ b'.consumer_barrier = Cells(b.current_consumer_cursors)
      /\ b'.stages = b.stages /\ b'.stage_gates = b.stage_gates
      /\ b'.wiring = b.wiring /\ b'.stage = b.stage /\ b'.gates = b.gates
      /\ b'.consumers = b.consumers /\ b'.thread = b.thread
  BY <1>1, Builds DEF Fields
<1>3. InChain(b)
  BY <1>2 DEF InChain
<1>4. TypeOK'
  <2>1. <<>> \in Seq(Names)
    BY EmptySeq
  <2> QED
    BY <1>1, <1>2, <2>1 DEF TypeOK
<1>5. CursorsByState'
  BY <1>2, EmptySeq DEF CursorsByState
<1>6. PresentByConstruction'
  BY <1>2 DEF PresentByConstruction, InChain
<1>7. NextIsWired' /\ FrontierCoversAll' /\ SettingsKept' /\ GatesBehindGroups'
  BY <1>2 DEF NextIsWired, FrontierCoversAll, SettingsKept, InChain, BuilderInv,
              GatesBehindGroups, ConsumersAt
<1>8. StagesAreWired'
  <2>1. {d \in DOMAIN b.stage : b.stage[d] = b.stages} # {}
    <3>1. Cells(b.current_consumer_cursors) = {d \in DOMAIN b.stage : b.stage[d] = b.stages}
      BY <1>1, <1>3 DEF PresentByConstruction, ConsumersAt
    <3>2. Cardinality(Cells(b.current_consumer_cursors)) # 0
      BY <1>1, <1>2 DEF PresentByConstruction
    <3> QED
      BY <3>1, <3>2, FS_EmptySet
  <2>2. \A k \in 1 .. b.stages - 1 : {d \in DOMAIN b.stage : b.stage[d] = k} # {}
    BY <1>3 DEF BuilderInv, NextIsWired, ConsumersAt
  <2>3. b.stages \in Nat \ {0}
    BY <1>1 DEF TypeOK
  <2>4. \A k \in 1 .. b.stages : {d \in DOMAIN b.stage : b.stage[d] = k} # {}
    BY <2>1, <2>2, <2>3
  <2>5. ASSUME NEW d \in DOMAIN b.wiring
        PROVE  b.wiring[d] =
                 IF b.stage[d] = 1 THEN {PRODUCER}
                 ELSE {e \in DOMAIN b.stage : b.stage[e] = b.stage[d] - 1}
                      \cup b.stage_gates[b.stage[d]]
    BY DEF BuilderInv, StagesAreWired, ConsumersAt
  <2>6. /\ b'.wiring = b.wiring /\ b'.stage = b.stage
        /\ b'.stage_gates = b.stage_gates /\ b'.stages = b.stages
    BY <1>2
  <2>7. ASSUME NEW d \in DOMAIN b'.wiring
        PROVE  b'.wiring[d] =
                 IF b'.stage[d] = 1 THEN {PRODUCER}
                 ELSE {e \in DOMAIN b'.stage : b'.stage[e] = b'.stage[d] - 1}
                      \cup b'.stage_gates[b'.stage[d]]
    BY <2>5, <2>6
  <2>8. b'.stage_gates \in [1 .. b'.stages -> SUBSET Gates]
    BY <1>1, <2>6 DEF TypeOK
  <2>9. b'.consumer_barrier = {d \in DOMAIN b'.stage : b'.stage[d] = b'.stages}
    BY <1>1, <1>2, <1>3 DEF PresentByConstruction, ConsumersAt
  <2>10. \A k \in 1 .. b'.stages : {d \in DOMAIN b'.stage : b'.stage[d] = k} # {}
    BY <2>4, <2>6
  <2>11. GatesBehindGroups'
    BY <1>7
  <2> QED
    BY <2>7, <2>8, <2>9, <2>10, <2>11 DEF StagesAreWired, ConsumersAt
<1>9. BackpressureCoversAll'
  BY <1>2, <1>3 DEF BuilderInv, FrontierCoversAll, Frontier, BackpressureCoversAll,
                    Upstream, ClosedUpstream
<1>10. JoinedUpstreamFirst'
  BY <1>2 DEF BuilderInv, JoinedUpstreamFirst, Cells
<1> QED
  BY <1>4, <1>5, <1>6, <1>7, <1>8, <1>9, <1>10 DEF BuilderInv

\* What a panic or the end of a builder leaves is wired as it was.
LEMMA OthersInv ==
  ASSUME BuilderInv, Others
  PROVE  BuilderInv'
<1>1. TypeOK
  BY DEF BuilderInv
<1>2. /\ b' = [f \in Fields |-> b'[f]]
      /\ InChain(b) /\ b'.state \in {b.state, "panicked", "dropped"} /\ b'.kind = b.kind
      /\ b'.current_consumer_cursors = b.current_consumer_cursors
      /\ b'.dependent_barrier = b.dependent_barrier
      /\ b'.stages = b.stages /\ b'.stage_gates = b.stage_gates
      /\ b'.wiring = b.wiring /\ b'.stage = b.stage
      /\ b'.consumers = b.consumers /\ b'.thread = b.thread
  BY <1>1, LeavesAlone DEF Fields
<1>3. b'.gates \subseteq Gates
  <2>1. b = [f \in Fields |-> b[f]] /\ b.gates \subseteq Gates
    BY <1>1 DEF TypeOK
  <2> QED
    BY <2>1 DEF Others, SpawnFails, PinAtCore, ThreadName, NewGates, Abandon, panic,
                pin_at_core, thread_name, new_gates, Fields
<1>4. TypeOK'
  BY <1>1, <1>2, <1>3 DEF TypeOK
<1>5. CursorsByState'
  BY <1>2 DEF BuilderInv, CursorsByState, InChain
<1>6. PresentByConstruction'
  BY <1>2 DEF BuilderInv, PresentByConstruction, InChain, ConsumersAt, Cells
<1>7. NextIsWired'
  BY <1>2 DEF BuilderInv, NextIsWired, InChain, ConsumersAt
<1>8. FrontierCoversAll'
  BY <1>2 DEF BuilderInv, FrontierCoversAll, InChain, Frontier, Upstream, ClosedUpstream, Cells
<1>9. StagesAreWired'
  <2>1. ASSUME NEW d \in DOMAIN b.wiring
        PROVE  b.wiring[d] =
                 IF b.stage[d] = 1 THEN {PRODUCER}
                 ELSE {e \in DOMAIN b.stage : b.stage[e] = b.stage[d] - 1}
                      \cup b.stage_gates[b.stage[d]]
    BY DEF BuilderInv, StagesAreWired, ConsumersAt
  <2>2. b'.state # "built"
    BY <1>2 DEF InChain
  <2>3. /\ b'.wiring = b.wiring /\ b'.stage = b.stage
        /\ b'.stage_gates = b.stage_gates /\ b'.stages = b.stages
    BY <1>2
  <2>4. ASSUME NEW d \in DOMAIN b'.wiring
        PROVE  b'.wiring[d] =
                 IF b'.stage[d] = 1 THEN {PRODUCER}
                 ELSE {e \in DOMAIN b'.stage : b'.stage[e] = b'.stage[d] - 1}
                      \cup b'.stage_gates[b'.stage[d]]
    BY <2>1, <2>3
  <2> QED
    BY <2>2, <2>4, Zenon DEF StagesAreWired, ConsumersAt
<1>10. BackpressureCoversAll'
  BY <1>2 DEF BackpressureCoversAll, InChain
<1>11. JoinedUpstreamFirst'
  BY <1>2 DEF BuilderInv, JoinedUpstreamFirst, Cells
<1>12. GatesBehindGroups'
  BY <1>2 DEF BuilderInv, GatesBehindGroups, ConsumersAt
<1>13. SettingsKept'
  <2>1. b = [f \in Fields |-> b[f]]
    BY <1>1 DEF TypeOK
  <2> QED
    BY <1>2, <2>1 DEF BuilderInv, SettingsKept, Others, SpawnFails, PinAtCore, ThreadName,
                      NewGates, Abandon, panic, pin_at_core, thread_name, new_gates, InChain,
                      Fields
<1> QED
  BY <1>4, <1>5, <1>6, <1>7, <1>8, <1>9, <1>10, <1>11, <1>12, <1>13 DEF BuilderInv

\* A new builder has nothing but the producer's barrier, or has panicked.
LEMMA InitInv == Init => BuilderInv
<1> SUFFICES ASSUME NEW kind \in {"single", "multi"}, NEW size \in Sizes,
                    b = new(kind, size), asked = Unset, askedName = Unset
             PROVE  BuilderInv
  BY DEF Init
<1>1. /\ b = [f \in Fields |-> b[f]]
      /\ b.kind = kind /\ b.state \in {"NC", "panicked"}
      /\ b.current_consumer_cursors = <<>> /\ b.consumers = <<>>
      /\ b.dependent_barrier = {PRODUCER}
      /\ b.wiring = <<>> /\ b.stage = <<>> /\ b.thread = <<>>
      /\ b.affinity = Unset /\ b.name = Unset /\ b.gates = {}
      /\ b.stages = 1 /\ b.stage_gates = <<{}>>
  BY DEF new, Fields
<1>2. <<>> \in Seq(Names) /\ <<>> \in Seq({}) /\ Len(<<>>) = 0
  BY EmptySeq
<1>3. DOMAIN b.stage = {} /\ DOMAIN b.wiring = {} /\ DOMAIN b.thread = {}
  BY <1>1
<1>4. TypeOK
  <2>1. b.stage_gates \in Seq(SUBSET Gates) /\ Len(b.stage_gates) = 1
    <3>1. <<{}>> \in Seq(SUBSET Gates) /\ Len(<<{}>>) = 1
      OBVIOUS
    <3> QED
      BY <1>1, <3>1
  <2>2. b.stage \in [DOMAIN b.stage -> 1 .. b.stages]
    <3>1. <<>> \in [1 .. Len(<<>>) -> 1 .. 1]
      BY EmptySeq, LenProperties
    <3>2. DOMAIN <<>> = 1 .. Len(<<>>)
      BY <3>1
    <3> QED
      BY <1>1, <3>1, <3>2
  <2>3. IsFiniteSet(DOMAIN b.stage)
    BY <1>3, FS_EmptySet
  <2>4. b.consumers \in Seq(DOMAIN b.stage) /\ b.current_consumer_cursors \in Seq(Names)
    BY <1>1, <1>2, <1>3
  <2>5. b.stages \in Nat \ {0} /\ Len(b.stage_gates) = b.stages
    <3>1. b.stages = 1
      BY <1>1
    <3> QED
      BY <2>1, <3>1
  <2> QED
    BY <1>1, <1>3, <2>1, <2>2, <2>3, <2>4, <2>5 DEF TypeOK
<1>5. CursorsByState
  BY <1>1, <1>2 DEF CursorsByState
<1>6. Cells(b.current_consumer_cursors) = {} /\ Cells(b.consumers) = {}
  BY <1>1, NoCells
<1>7. PresentByConstruction
  BY <1>1, <1>3, <1>6, FS_EmptySet DEF PresentByConstruction, ConsumersAt
<1>8. NextIsWired
  <2>1. 1 .. b.stages - 1 = {}
    BY <1>1
  <2> QED
    BY <1>1, <2>1 DEF NextIsWired
<1>9. StagesAreWired /\ BackpressureCoversAll
  BY <1>1, <1>3 DEF StagesAreWired, BackpressureCoversAll
<1>10. FrontierCoversAll
  BY <1>3 DEF FrontierCoversAll
<1>11. SettingsKept /\ GatesBehindGroups
  <2>1. 2 .. b.stages = {} /\ b.stage_gates[1] = {}
    <3>1. b.stages = 1 /\ b.stage_gates = <<{}>>
      BY <1>1
    <3> QED
      BY <3>1
  <2> QED
    BY <1>1, <2>1 DEF SettingsKept, GatesBehindGroups
<1>12. JoinedUpstreamFirst
  <2>1. 1 .. Len(b.consumers) = {}
    BY <1>1, <1>2
  <2> QED
    BY <1>3, <1>6, <2>1 DEF JoinedUpstreamFirst
<1> QED
  BY <1>4, <1>5, <1>7, <1>8, <1>9, <1>10, <1>11, <1>12 DEF BuilderInv

\* Next, by what becomes of the consumers.
LEMMA NextCases ==
  ASSUME Next
  PROVE  (\E c \in Fresh : AddHandler(c) \/ AddPoller(c)) \/ BeginStage \/ Build \/ Others
BY DEF Next, Others

LEMMA StepInv == BuilderInv /\ [Next]_chainVars => BuilderInv'
<1> SUFFICES ASSUME BuilderInv, [Next]_chainVars
             PROVE  BuilderInv'
  OBVIOUS
<1>1. CASE \E c \in Fresh : AddHandler(c) \/ AddPoller(c)
  BY <1>1, AddsInv
<1>2. CASE BeginStage
  BY <1>2, BeginsInv
<1>3. CASE Build
  BY <1>3, BuildsInv
<1>4. CASE Others
  BY <1>4, OthersInv
<1>5. CASE UNCHANGED chainVars
  <2>1. b' = b /\ asked' = asked /\ askedName' = askedName
    BY <1>5 DEF chainVars
  <2> QED
    <3>1. TypeOK' /\ CursorsByState'
      BY <2>1 DEF BuilderInv, TypeOK, CursorsByState
    <3>2. NextIsWired' /\ SettingsKept' /\ GatesBehindGroups'
      BY <2>1 DEF BuilderInv, NextIsWired, SettingsKept, GatesBehindGroups, ConsumersAt, InChain
    <3>3. PresentByConstruction' /\ JoinedUpstreamFirst'
      BY <2>1 DEF BuilderInv, PresentByConstruction, JoinedUpstreamFirst, ConsumersAt, Cells,
                  InChain
    <3>4. StagesAreWired'
      BY <2>1 DEF BuilderInv, StagesAreWired, GatesBehindGroups, ConsumersAt
    <3>5. FrontierCoversAll' /\ BackpressureCoversAll'
      BY <2>1 DEF BuilderInv, FrontierCoversAll, BackpressureCoversAll, Frontier, Cells,
                  Upstream, ClosedUpstream, InChain
    <3> QED
      BY <3>1, <3>2, <3>3, <3>4, <3>5 DEF BuilderInv
<1> QED
  BY <1>1, <1>2, <1>3, <1>4, <1>5, NextCases
-----------------------------------------------------------------------------
(* The theorems.                                                           *)

\* BuilderInv holds after every sequence of calls that type-checks.
THEOREM BuilderInductive == Spec => []BuilderInv
<1> QED
  BY InitInv, StepInv, PTL DEF Spec

\* "Guaranteed to be present by construction" (builder/single.rs:176, 206):
\* remove(0) finds its cursor, whatever has been called before.
THEOREM BuilderPresent == Spec => []PresentByConstruction
<1>1. BuilderInv => PresentByConstruction
  BY DEF BuilderInv
<1> QED
  BY <1>1, BuilderInductive, PTL

\* Everybody is given the whole stage before and its gates to wait for
\* (builder/single.rs:355-391, builder/multi.rs), and no stage is empty.
THEOREM BuilderWires == Spec => []StagesAreWired
<1>1. BuilderInv => StagesAreWired
  BY DEF BuilderInv
<1> QED
  BY <1>1, BuilderInductive, PTL

\* The barrier that build() gives to the producer covers every consumer, though
\* it holds the cursors of the last stage only (builder/single.rs:173-186).
THEOREM BuilderCoversAll == Spec => []BackpressureCoversAll
<1>1. BuilderInv => BackpressureCoversAll
  BY DEF BuilderInv
<1> QED
  BY <1>1, BuilderInductive, PTL

\* Threads are joined in the order of their stages (producer/single.rs:197).
THEOREM BuilderJoinsInOrder == Spec => []JoinedUpstreamFirst
<1>1. BuilderInv => JoinedUpstreamFirst
  BY DEF BuilderInv
<1> QED
  BY <1>1, BuilderInductive, PTL

\* Only the call that takes the name for a thread counts default names.
LEMMA NamesStep ==
  ASSUME BuilderInv, NamesNumbered, [Next]_chainVars
  PROVE  NamesNumbered'
<1>0. TypeOK /\ CursorsByState
  BY DEF BuilderInv
<1>1. ASSUME UNCHANGED <<b.thread, b.id>>, b'.name \in Titles \cup {Unset}
      PROVE  NamesNumbered'
  BY <1>1 DEF NamesNumbered
<1>2. ASSUME NEW c \in Fresh, AddHandler(c) PROVE NamesNumbered'
  <2>1. /\ b'.thread = Put(b.thread, c, [name |-> thread_name_of(b), affinity |-> b.affinity])
        /\ b'.name = Unset
        /\ b'.id = IF b.name = Unset THEN b.id + 1 ELSE b.id
    BY <1>0, <1>2, AddsThread
  <2>2. b.id \in Nat /\ b'.id \in Nat /\ b.id <= b'.id
    BY <2>1 DEF NamesNumbered
  <2>3. ASSUME NEW d \in DOMAIN b'.thread
        PROVE  \/ \E t \in Titles : b'.thread[d].name = <<t>>
               \/ \E k \in 1 .. b'.id : b'.thread[d].name = <<"processor", k>>
    <3>1. CASE d = c
      <4>1. b'.thread[d].name = thread_name_of(b)
        BY <2>1, <3>1 DEF Put
      <4>2. CASE b.name = Unset
        <5>1. b'.thread[d].name = <<"processor", b.id + 1>> /\ b.id + 1 \in 1 .. b'.id
          BY <2>1, <2>2, <4>1, <4>2 DEF thread_name_of
        <5> QED
          BY <5>1
      <4>3. CASE b.name # Unset
        <5>1. b'.thread[d].name = <<b.name>> /\ b.name \in Titles
          BY <4>1, <4>3 DEF thread_name_of, NamesNumbered
        <5> QED
          BY <5>1
      <4> QED
        BY <4>2, <4>3
    <3>2. CASE d # c
      <4>1. d \in DOMAIN b.thread /\ b'.thread[d] = b.thread[d]
        BY <2>1, <2>3, <3>2 DEF Put
      <4>2. 1 .. b.id \subseteq 1 .. b'.id
        BY <2>2
      <4> QED
        BY <4>1, <4>2 DEF NamesNumbered
    <3> QED
      BY <3>1, <3>2
  <2> QED
    BY <2>1, <2>2, <2>3 DEF NamesNumbered
<1>3. ASSUME NEW c \in Fresh, AddPoller(c) PROVE NamesNumbered'
  BY <1>0, <1>1, <1>3, AddsThread DEF NamesNumbered
<1>4. CASE BeginStage
  BY <1>0, <1>1, <1>4, Begins DEF NamesNumbered
<1>5. CASE Build
  BY <1>0, <1>1, <1>5, Builds DEF NamesNumbered, Fields
<1>6. CASE Others
  <2>1. b = [f \in Fields |-> b[f]]
    BY <1>0 DEF TypeOK
  <2>2. b'.thread = b.thread /\ b'.id = b.id
    BY <1>0, <1>6, LeavesAlone DEF Fields
  <2>3. b'.name \in Titles \cup {Unset}
    BY <1>6, <2>1 DEF NamesNumbered, Others, SpawnFails, PinAtCore, ThreadName, NewGates, Abandon,
                      panic, pin_at_core, thread_name, new_gates, Fields
  <2> QED
    BY <1>1, <2>2, <2>3
<1>7. CASE UNCHANGED chainVars
  BY <1>1, <1>7 DEF chainVars, NamesNumbered
<1> QED
  BY <1>2, <1>3, <1>4, <1>5, <1>6, <1>7, NextCases

\* A new builder has no threads.
LEMMA NamesInit == Init => NamesNumbered
<1> SUFFICES ASSUME NEW kind \in {"single", "multi"}, NEW size \in Sizes, b = new(kind, size)
             PROVE  NamesNumbered
  BY DEF Init
<1>1. b.thread = <<>> /\ b.id = 0 /\ b.name = Unset
  BY DEF new
<1>2. DOMAIN b.thread = {}
  BY <1>1
<1> QED
  BY <1>1, <1>2 DEF NamesNumbered

\* What pin_at_core and thread_name asked for last is for the next handler
\* (builder.rs:164), and for no other; default names are never given twice.
THEOREM BuilderSettings == Spec => SettingsGoToNextHandler
<1> DEFINE Fits ==
      \A c \in DOMAIN b'.thread \ DOMAIN b.thread :
        /\ b'.thread[c].affinity = asked
        /\ askedName # Unset => b'.thread[c].name = <<askedName>>
        /\ askedName = Unset => \A d \in DOMAIN b.thread : b'.thread[c].name # b.thread[d].name
<1>1. ASSUME BuilderInv, NamesNumbered, [Next]_chainVars
      PROVE  [Fits]_chainVars
  <2>1. TypeOK /\ CursorsByState /\ SettingsKept
    BY <1>1 DEF BuilderInv
  <2>2. CASE \E c \in Fresh : AddHandler(c) \/ AddPoller(c)
    <3>1. PICK c \in Fresh : AddHandler(c) \/ AddPoller(c)
      BY <2>2
    <3>2. b.affinity = asked /\ b.name = askedName
      BY <2>1, <3>1, Adds DEF SettingsKept
    <3>3. CASE AddPoller(c)
      BY <2>1, <3>3, AddsThread
    <3>4. CASE AddHandler(c)
      <4>1. b'.thread = Put(b.thread, c, [name |-> thread_name_of(b), affinity |-> b.affinity])
        BY <2>1, <3>4, AddsThread
      <4>2. DOMAIN b'.thread = DOMAIN b.thread \cup {c}
        BY <4>1 DEF Put
      <4>3. b'.thread[c] = [name |-> thread_name_of(b), affinity |-> b.affinity]
        BY <4>1 DEF Put
      <4>4. b'.thread[c].affinity = asked
        BY <3>2, <4>3
      <4>5. askedName # Unset => b'.thread[c].name = <<askedName>>
        BY <3>2, <4>3 DEF thread_name_of
      <4>6. ASSUME askedName = Unset, NEW d \in DOMAIN b.thread
            PROVE  b'.thread[c].name # b.thread[d].name
        <5>1. b'.thread[c].name = <<"processor", b.id + 1>> /\ b.id \in Nat
          BY <1>1, <3>2, <4>3, <4>6 DEF thread_name_of, NamesNumbered
        <5>2. CASE \E t \in Titles : b.thread[d].name = <<t>>
          <6>1. PICK t \in Titles : b.thread[d].name = <<t>>
            BY <5>2
          <6>2. Len(b.thread[d].name) = 1 /\ Len(b'.thread[c].name) = 2
            BY <5>1, <6>1
          <6> QED
            BY <6>2
        <5>3. CASE \E k \in 1 .. b.id : b.thread[d].name = <<"processor", k>>
          <6>1. PICK k \in 1 .. b.id : b.thread[d].name = <<"processor", k>>
            BY <5>3
          <6>2. b.thread[d].name[2] = k /\ b'.thread[c].name[2] = b.id + 1 /\ k # b.id + 1
            BY <5>1, <6>1
          <6> QED
            BY <6>2
        <5> QED
          BY <1>1, <4>6, <5>2, <5>3 DEF NamesNumbered
      <4> QED
        BY <4>2, <4>4, <4>5, <4>6
    <3> QED
      BY <3>1, <3>3, <3>4
  <2>3. CASE BeginStage
    BY <2>1, <2>3, Begins
  <2>4. CASE Build
    BY <2>1, <2>4, Builds DEF Fields
  <2>5. CASE Others
    BY <2>1, <2>5, LeavesAlone DEF Fields
  <2> QED
    BY <1>1, <2>2, <2>3, <2>4, <2>5, NextCases
<1>2. Spec => []NamesNumbered
  BY BuilderInductive, NamesInit, NamesStep, PTL DEF Spec
<1> QED
  BY <1>1, <1>2, BuilderInductive, PTL DEF Spec, SettingsGoToNextHandler
=============================================================================
