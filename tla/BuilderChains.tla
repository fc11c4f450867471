--------------------------- MODULE BuilderChains ----------------------------
(***************************************************************************)
(* Every chain of calls that type-checks: the builder as a state machine,  *)
(* one action per method, with the panics that may interrupt a chain while *)
(* threads that it has started are already running.                        *)
(***************************************************************************)
EXTENDS Builder

CONSTANTS
  Names,       \* What consumers can be called here; each is used once.
  Gates,
  Cores,       \* The cores of the machine,
  AskedCores,  \* and those that the program asks for.
  Titles,      \* The thread names that the program asks for.
  Sizes,       \* The ring sizes that a program asks for.
  MaxStages    \* Bound: the number of stages.

ASSUME ChainsAssumption ==
  /\ Gates \cap Names = {} /\ PRODUCER \notin Names \cup Gates
  /\ Unset \notin AskedCores \cup Titles

VARIABLES
  b,          \* The builder.
  asked,      \* History: the affinity asked for since the last handler was added,
  askedName   \* and the name.

chainVars == <<b, asked, askedName>>

Fresh == Names \ DOMAIN b.stage

Init ==
  /\ \E kind \in {"single", "multi"}, size \in Sizes : b = new(kind, size)
  /\ asked = Unset
  /\ askedName = Unset

\* The call that adds a handler starts its thread, or panics if it cannot.
AddHandler(c) ==
  /\ \/ Callable(b, "handle_events_with") /\ b' = handle_events_with(b, c)
     \/ /\ Callable(b, "handle_events_and_state_with")
        /\ b' = handle_events_and_state_with(b, c)
  /\ asked' = Unset
  /\ askedName' = Unset

SpawnFails ==
  /\ Callable(b, "handle_events_with")
  /\ b' = panic(b)
  /\ UNCHANGED <<asked, askedName>>

AddPoller(c) ==
  /\ Callable(b, "event_poller")
  /\ b' = event_poller(b, c)
  /\ UNCHANGED <<asked, askedName>>

PinAtCore(core) ==
  /\ InChain(b)
  /\ b' = pin_at_core(b, core, Cores)
  /\ asked' = core
  /\ UNCHANGED askedName

\* A name that no handler has taken yet is overwritten.
ThreadName(name) ==
  /\ InChain(b)
  /\ b' = thread_name(b, name)
  /\ askedName' = name
  /\ UNCHANGED asked

NewGates(G) ==
  /\ InChain(b)
  /\ G \cap b.gates = {}
  /\ b' = new_gates(b, G)
  /\ UNCHANGED <<asked, askedName>>

BeginStage ==
  /\ b.stages < MaxStages
  /\ \/ Callable(b, "and_then") /\ b' = and_then(b)
     \/ /\ Callable(b, "and_then_with_dependents")
        /\ \E G \in SUBSET b.gates : b' = and_then_with_dependents(b, G)
  /\ UNCHANGED <<asked, askedName>>

Build ==
  /\ Callable(b, "build")
  /\ b' = build(b)
  /\ UNCHANGED <<asked, askedName>>

\* A program may give up a builder without building.
Abandon ==
  /\ InChain(b)
  /\ b' = [b EXCEPT !.state = "dropped"]
  /\ UNCHANGED <<asked, askedName>>

Next ==
  \/ \E c \in Fresh : AddHandler(c) \/ AddPoller(c)
  \/ SpawnFails
  \/ \E core \in AskedCores : PinAtCore(core)
  \/ \E name \in Titles : ThreadName(name)
  \/ \E G \in SUBSET Gates \ {{}} : NewGates(G)
  \/ BeginStage
  \/ Build
  \/ Abandon

Spec == Init /\ [][Next]_chainVars
-----------------------------------------------------------------------------
(* Properties.                                                             *)

ConsumersAt(k) == {c \in DOMAIN b.stage : b.stage[c] = k}

\* The comment "Guaranteed to be present by construction" (builder/single.rs:176
\* and 206) holds: whenever remove(0) is called there is exactly one cursor, and
\* no cursor is left behind for the stage after next.
PresentByConstruction ==
  LET cursors == Cells(b.current_consumer_cursors)
  IN  /\ InChain(b) => cursors = ConsumersAt(b.stages)
      /\ b.state = "NC" => Cardinality(cursors) = 0
      /\ b.state = "SC" => Cardinality(cursors) = 1
      /\ b.state = "MC" => Cardinality(cursors) > 1

\* Nothing gates the first stage, and of a multi producer's builder only the
\* stages behind several consumers have gates.
GatesBehindGroups ==
  /\ b.stage_gates[1] = {}
  /\ b.kind = "multi" =>
       \A k \in 2 .. b.stages : b.stage_gates[k] # {} => Cardinality(ConsumersAt(k - 1)) > 1

\* Whatever the order of the calls, what the threads and pollers have been given
\* to wait for are stages: the producer, or everybody of the stage before and
\* its gates.  What build() returns is a topology as TopologyAssumption and
\* MultiProducerAssumption take for granted, whose producer stays behind the
\* whole last stage.
StagesAreWired ==
  /\ \A c \in DOMAIN b.wiring : b.wiring[c] =
       IF b.stage[c] = 1 THEN {PRODUCER}
       ELSE ConsumersAt(b.stage[c] - 1) \cup b.stage_gates[b.stage[c]]
  /\ b.state = "built" =>
       /\ \A k \in 1 .. b.stages : ConsumersAt(k) # {}
       /\ b.stage_gates \in [1 .. b.stages -> SUBSET Gates]
       /\ GatesBehindGroups
       /\ b.consumer_barrier = ConsumersAt(b.stages)

\* Set T contains all consumers that its members wait for.
ClosedUpstream(T) == \A c \in T : b.wiring[c] \cap DOMAIN b.stage \subseteq T

\* The consumers that are upstream of the cells S, those in S included: they are
\* in every set that contains S and is closed.
Upstream(S) ==
  {c \in DOMAIN b.stage :
     \A T \in SUBSET DOMAIN b.stage :
       ClosedUpstream(T) /\ S \cap DOMAIN b.stage \subseteq T => c \in T}

\* The producer looks at the last stage only (builder/single.rs:173-186 and
\* 379-391).  That is enough: every consumer is upstream of it, so none can be
\* overtaken by a round.
BackpressureCoversAll ==
  b.state = "built" => DOMAIN b.stage \subseteq Upstream(b.consumer_barrier)

\* Dropping the producer joins the threads in the order they were started, each
\* one of them, and no thread before one that it depends on.
JoinedUpstreamFirst ==
  /\ DOMAIN b.thread = Cells(b.consumers)
  /\ \A i, j \in 1 .. Len(b.consumers) :
       i < j => b.stage[b.consumers[i]] <= b.stage[b.consumers[j]]

\* "Pin processor thread on the core with `id` for the next added event
\* handler" (builder.rs:164), and likewise a thread's name: what was asked for
\* last goes to the next handler and to no other, whatever pollers and stages are
\* put between; a thread for which no name was asked has one of its own.
SettingsGoToNextHandler ==
  [][\A c \in DOMAIN b'.thread \ DOMAIN b.thread :
       /\ b'.thread[c].affinity = asked
       /\ askedName # Unset => b'.thread[c].name = <<askedName>>
       /\ askedName = Unset => \A d \in DOMAIN b.thread : b'.thread[c].name # b.thread[d].name
    ]_chainVars
-----------------------------------------------------------------------------
(* The inductive invariant behind these properties.                        *)

Fields ==
  {"kind", "state", "current_consumer_cursors", "dependent_barrier", "consumers",
   "wiring", "thread", "affinity", "name", "id", "gates", "consumer_barrier", "stage",
   "stages", "stage_gates"}

TypeOK ==
  /\ b = [f \in Fields |-> b[f]]
  /\ b.kind \in {"single", "multi"}
  /\ b.state \in {"NC", "SC", "MC", "built", "panicked", "dropped"}
  /\ b.current_consumer_cursors \in Seq(Names) /\ b.consumers \in Seq(DOMAIN b.stage)
  /\ IsFiniteSet(DOMAIN b.stage) /\ DOMAIN b.stage \subseteq Names
  /\ b.stages \in Nat \ {0}
  /\ b.stage \in [DOMAIN b.stage -> 1 .. b.stages]
  /\ DOMAIN b.wiring = DOMAIN b.stage
  /\ b.stage_gates \in Seq(SUBSET Gates) /\ Len(b.stage_gates) = b.stages
  /\ b.gates \subseteq Gates

\* The Vec that remove(0) is called on holds one cursor, and no cursor is in a
\* Vec twice.
CursorsByState ==
  LET cursors == b.current_consumer_cursors
  IN  /\ b.state = "NC" => cursors = <<>>
      /\ b.state = "SC" => Len(cursors) = 1
      /\ b.state = "MC" => Len(cursors) > 1
      /\ \A i, j \in 1 .. Len(cursors) : cursors[i] = cursors[j] => i = j

\* What a consumer that is added now would be given to wait for.
NextIsWired ==
  InChain(b) =>
    /\ b.dependent_barrier =
         IF b.stages = 1 THEN {PRODUCER} ELSE ConsumersAt(b.stages - 1) \cup b.stage_gates[b.stages]
    /\ \A k \in 1 .. b.stages - 1 : ConsumersAt(k) # {}

\* The cells that the next stage or the producer will wait for, or that the
\* consumers of an empty stage will: everybody is upstream of them.
Frontier ==
  IF b.state = "NC" THEN b.dependent_barrier ELSE Cells(b.current_consumer_cursors)

FrontierCoversAll == InChain(b) => DOMAIN b.stage \subseteq Upstream(Frontier)

\* The last core and the last name asked for wait in the builder.
SettingsKept == InChain(b) => b.affinity = asked /\ b.name = askedName

BuilderInv ==
  /\ TypeOK
  /\ CursorsByState
  /\ NextIsWired
  /\ GatesBehindGroups
  /\ FrontierCoversAll
  /\ SettingsKept
  /\ PresentByConstruction
  /\ StagesAreWired
  /\ BackpressureCoversAll
  /\ JoinedUpstreamFirst

\* A thread has a name that was asked for, or one that is numbered.
NamesNumbered ==
  /\ b.id \in Nat
  /\ b.name \in Titles \cup {Unset}
  /\ \A d \in DOMAIN b.thread :
       \/ \E t \in Titles : b.thread[d].name = <<t>>
       \/ \E k \in 1 .. b.id : b.thread[d].name = <<"processor", k>>
=============================================================================
