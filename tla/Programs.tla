------------------------------ MODULE Programs ------------------------------
(***************************************************************************)
(* Client programs of a disruptor, run against what Broadcast promises     *)
(* them.  A program builds a disruptor with a chain of builder calls, and  *)
(* then its threads run their statements, the disruptor's threads call its *)
(* handlers, and every interleaving is possible.  An assertion that fails  *)
(* sets `failed`.                                                          *)
(*                                                                         *)
(* A call is one or two steps here.  The steps it takes in the code are    *)
(* those of SingleProducer and MultiProducer, which implement Broadcast.   *)
(***************************************************************************)
EXTENDS Broadcast, Builder, FiniteSetsExt, TLC

CONSTANT Programs   \* The programs, by name; see Program below.

VARIABLES
  program,   \* The program that is running.
  at,        \* The statement each thread of the program is at.
  values,    \* The value of every claimed event.
  hold,      \* The sequences that a call has claimed and not yet published.
  handles,   \* The producer handles that have not been dropped.
  flags,     \* The flags that have been raised for handlers to see.
  inside,    \* What is left to do for a handler that has been called.
  failed     \* Has an assertion failed?

threadVars == <<program, at, values, hold, handles, flags, inside, failed>>
vars == <<logVars, threadVars>>
-----------------------------------------------------------------------------
(* Programs as data.                                                       *)

\* A program: the chain that builds its disruptor, the handles it makes of the
\* producer, the statements of its threads, and the handlers that do more than
\* take notice of the event.  A multi producer's ring may be scaled down.
Program(kind, size, chain, capacity, n, threads, handlers) ==
  [chain |-> Chain(kind, size, chain), capacity |-> capacity, handles |-> n,
   threads |-> threads, handlers |-> handlers]

Single(size, chain, threads, handlers) ==
  Program("single", size, chain, size, 1, threads, handlers)
Multi(capacity, chain, n, threads, handlers) ==
  Program("multi", Word, chain, capacity, n, threads, handlers)

\* What a handler does: spin until a flag is raised, set gates to the sequence
\* of the event up to a limit, and compare end_of_batch with what is expected.
Plain           == [flag |-> "", sets |-> <<>>, ends |-> <<>>]
WaitsFor(flag)  == [Plain EXCEPT !.flag = flag]
Sets(sets)      == [Plain EXCEPT !.sets = sets]
Checks(flagged) == [Plain EXCEPT !.ends = flagged]
NoHandlers      == [c \in {} |-> Plain]

\* Statements, by what they call.  A thread that retries until it succeeds,
\* or receives with a timeout that the test does not expect to expire, is a
\* thread that waits.
Publish(vals)         == [op |-> "publish", values |-> vals]
Try(vals, missing)    == [op |-> "try", values |-> vals, missing |-> missing]
Raise(flag)           == [op |-> "raise", flag |-> flag]
SetGate(g, v)         == [op |-> "set gate", gate |-> g, value |-> v]
SetGateToLast(g, p)   == [op |-> "set gate to last", gate |-> g, poller |-> p]
DropProducer          == [op |-> "drop producer"]
Poll(p, n, result)    == [op |-> "poll", poller |-> p, limit |-> n, result |-> result]
PollWait(p, exit)     == [op |-> "poll wait", poller |-> p, exit |-> exit]
Iterate(p)            == [op |-> "iterate", poller |-> p]
DropGuard(p)          == [op |-> "drop guard", poller |-> p]
Goto(k)               == [op |-> "goto", to |-> k]
Unless(c, n, k)       == [op |-> "unless", consumer |-> c, n |-> n, to |-> k]
Await(c, n)           == [op |-> "await", consumer |-> c, n |-> n]
Join(t)               == [op |-> "join", thread |-> t]
AtMost(c, n)          == [op |-> "at most", consumer |-> c, n |-> n]
Expect(c, vals)       == [op |-> "expect", consumer |-> c, values |-> vals]
ExpectSorted(c, vals) == [op |-> "expect sorted", consumer |-> c, values |-> vals]

\* What a poll may answer, apart from the number of events of a guard.
NoEvents == -1
Shutdown == -2
NoMaximum == 99

Each(stmt(_), from, to) == [i \in 1 .. to - from + 1 |-> stmt(from + i - 1)]
PublishEach(from, to) == LET stmt(i) == Publish(<<i>>) IN Each(stmt, from, to)
TryEach(from, to) == LET stmt(i) == Try(<<i>>, 0) IN Each(stmt, from, to)
Upto(n) == [i \in 1 .. n |-> i - 1]
Batch(n, v) == [i \in 1 .. n |-> v]
-----------------------------------------------------------------------------
Threads == DOMAIN at

Handler(c) == IF c \in DOMAIN program.handlers THEN program.handlers[c] ELSE Plain

AllGates == UNION {program.chain.stage_gates[k] : k \in DOMAIN program.chain.stage_gates}

Init ==
  /\ \E name \in DOMAIN Programs : program = Programs[name]
  /\ topology = [capacity |-> program.capacity, stage |-> program.chain.stage,
                 gates |-> program.chain.stage_gates, managed |-> Cells(program.chain.consumers)]
  /\ high = [g \in AllGates |-> NotYet]
  /\ LogInit
  /\ at = [t \in DOMAIN program.threads |-> 1]
  /\ values = <<>>
  /\ hold = [t \in Threads |-> {}]
  /\ handles = program.handles
  /\ flags = {}
  /\ inside = [c \in topology.managed |-> <<>>]
  /\ failed = FALSE

Running(t) == at[t] <= Len(program.threads[t])
Stmt(t) == program.threads[t][at[t]]
At(t, op) == Running(t) /\ Stmt(t).op = op

GoTo(t, k) == at' = [at EXCEPT ![t] = k]
Advance(t) == GoTo(t, at[t] + 1)

\* An assertion of thread t: the thread goes on, and the failure is on record.
Asserting(t, holds) ==
  /\ failed' = (failed \/ ~holds)
  /\ Advance(t)
-----------------------------------------------------------------------------
(* Publishing.                                                             *)

\* Mutant: one slot too many.
RoomMutant == Min({released[c] : c \in program.chain.consumer_barrier}) + program.capacity + 2 - Len(values)

\* What next_sequences finds free: claimed events count, published or not.
Room == Min({released[c] : c \in program.chain.consumer_barrier}) + program.capacity + 1 - Len(values)

\* next_sequences returns: the events are claimed, in order.
Claim(t, vals) ==
  /\ values' = values \o vals
  /\ hold' = [hold EXCEPT ![t] = Len(values) .. Len(values) + Len(vals) - 1]
  /\ IF vals = <<>> THEN Advance(t) ELSE UNCHANGED at
  /\ UNCHANGED <<logVars, handles, failed>>

\* publish and batch_publish spin until there is room.
BeginPublish(t) ==
  /\ At(t, "publish")
  /\ hold[t] = {}
  /\ Room >= Len(Stmt(t).values)
  /\ Claim(t, Stmt(t).values)

\* try_publish and try_batch_publish report how much room is missing.
BeginTry(t) ==
  LET missing == Len(Stmt(t).values) - Room IN
  /\ At(t, "try")
  /\ hold[t] = {}
  /\ IF missing <= 0 /\ Stmt(t).missing = 0
       THEN Claim(t, Stmt(t).values)
       ELSE /\ Asserting(t, missing = Stmt(t).missing)
            /\ UNCHANGED <<logVars, values, hold, handles>>

\* The closure has run and the events become visible.
EndPublish(t) ==
  /\ hold[t] # {}
  /\ Write(hold[t])
  /\ hold' = [hold EXCEPT ![t] = {}]
  /\ Advance(t)
  /\ UNCHANGED <<values, handles, failed>>

\* Mutant: the count is looked at after it has been decremented.
IsLastMutant == handles = 0

\* The last handle requests shutdown and joins the consumers.
IsLast == handles = 1

\* Any other handle is just dropped.
BeginDrop(t) ==
  /\ At(t, "drop producer")
  /\ handles > 0
  /\ handles' = handles - 1
  /\ IF IsLast THEN Close(Len(values)) /\ UNCHANGED at
               ELSE Advance(t) /\ UNCHANGED logVars
  /\ UNCHANGED <<values, hold, failed>>

EndDrop(t) ==
  /\ At(t, "drop producer")
  /\ handles = 0
  /\ Return
  /\ Advance(t)
  /\ UNCHANGED <<values, hold, handles, failed>>
-----------------------------------------------------------------------------
(* Polling.                                                                *)

\* The last sequence consumer c may read; next[c] - 1 if there is none.  (The
\* cells of a barrier are loaded one by one in Disruptor.)
Upper(c) == Max({s \in next[c] - 1 .. Len(values) - 1 : s < next[c] \/ MayRead(c, s)})

\* The limit of poll_take.
Capped(p, n) == Min({Upper(p), next[p] - 1 + n})

\* What poll and poll_take answer.
Answer(p, n) ==
  IF final = next[p] THEN Shutdown
  ELSE IF Upper(p) < next[p] THEN NoEvents
  ELSE Capped(p, n) - next[p] + 1

PollTake(t) ==
  LET p == Stmt(t).poller
      n == Stmt(t).limit
  IN  /\ At(t, "poll")
      /\ IF Answer(p, n) > 0 THEN Grant(p, Capped(p, n))
         ELSE IF Answer(p, n) = Shutdown THEN Stop(p)
         ELSE UNCHANGED logVars
      /\ Asserting(t, Answer(p, n) = Stmt(t).result)
      /\ UNCHANGED <<values, hold, handles>>

\* poll_wait, or a loop around poll that yields on NoEvents.
WaitPoll(t) ==
  LET p == Stmt(t).poller IN
  /\ At(t, "poll wait")
  /\ \/ Grant(p, Upper(p)) /\ Advance(t)
     \/ Stop(p) /\ GoTo(t, Stmt(t).exit)
  /\ UNCHANGED <<values, hold, handles, failed>>

\* The guard is iterated to its end, one event a step.
IterateGuard(t) ==
  LET p == Stmt(t).poller IN
  /\ At(t, "iterate")
  /\ IF next[p] > granted[p] THEN Advance(t) /\ UNCHANGED logVars
                             ELSE Read(p) /\ UNCHANGED at
  /\ UNCHANGED <<values, hold, handles, failed>>

ReleaseGuard(t) ==
  /\ At(t, "drop guard")
  /\ Release(Stmt(t).poller)
  /\ Advance(t)
  /\ UNCHANGED <<values, hold, handles, failed>>
-----------------------------------------------------------------------------
(* Gates, flags, other threads and assertions.                             *)

\* GatedSequence::set.  These programs only ever move a gate forward.
MoveGate(t) ==
  /\ \/ At(t, "set gate") /\ Open(Stmt(t).gate, Stmt(t).value)
     \/ At(t, "set gate to last") /\ Open(Stmt(t).gate, next[Stmt(t).poller] - 1)
  /\ Advance(t)
  /\ UNCHANGED <<values, hold, handles, failed>>

Wait(t) ==
  /\ \/ At(t, "await") /\ Len(seen[Stmt(t).consumer]) >= Stmt(t).n
     \/ At(t, "join") /\ ~Running(Stmt(t).thread)
  /\ Advance(t)
  /\ UNCHANGED <<logVars, values, hold, handles, failed>>

Jump(t) ==
  /\ \/ At(t, "goto") /\ GoTo(t, Stmt(t).to)
     \/ /\ At(t, "unless")
        /\ IF Len(seen[Stmt(t).consumer]) >= Stmt(t).n THEN Advance(t)
                                                      ELSE GoTo(t, Stmt(t).to)
  /\ UNCHANGED <<logVars, values, hold, handles, failed>>

\* The values consumer c has been handed, in order.
Handed(c) == [i \in 1 .. Len(seen[c]) |-> values[seen[c][i] + 1]]

Check(t) ==
  LET c == Stmt(t).consumer IN
  /\ \/ At(t, "at most") /\ Asserting(t, Len(seen[c]) <= Stmt(t).n)
     \/ At(t, "expect") /\ Asserting(t, Handed(c) = Stmt(t).values)
     \/ At(t, "expect sorted") /\ Asserting(t, SortSeq(Handed(c), <) = Stmt(t).values)
  /\ UNCHANGED <<logVars, values, hold, handles>>

RaiseFlag(t) ==
  /\ At(t, "raise")
  /\ flags' = flags \cup {Stmt(t).flag}
  /\ Advance(t)
  /\ UNCHANGED <<logVars, values, hold, handles, failed>>

ThreadStep(t) ==
  /\ \/ /\ \/ BeginPublish(t) \/ BeginTry(t) \/ EndPublish(t) \/ BeginDrop(t) \/ EndDrop(t)
           \/ PollTake(t) \/ WaitPoll(t) \/ IterateGuard(t) \/ ReleaseGuard(t)
           \/ MoveGate(t) \/ Wait(t) \/ Jump(t) \/ Check(t)
        /\ UNCHANGED flags
     \/ RaiseFlag(t)
  /\ UNCHANGED <<program, inside>>
-----------------------------------------------------------------------------
(* The threads of the disruptor.                                           *)

TakeBatch(c) == Grant(c, Upper(c)) /\ UNCHANGED <<inside, failed>>

\* The handler is called with the next event of the batch.
CallHandler(c) ==
  LET h == Handler(c)
      moves(gate) == next[c] <= gate.upto
  IN  /\ inside[c] = <<>>
      /\ h.flag = "" \/ h.flag \in flags
      /\ Read(c)
      /\ inside' = [inside EXCEPT ![c] = SelectSeq(h.sets, moves)]
      /\ failed' = (failed \/ (/\ next[c] < Len(h.ends)
                               /\ h.ends[next[c] + 1] # (next[c] = granted[c])))

\* The handler sets a gate to the sequence of its event.
HandlerSetsGate(c) ==
  /\ inside[c] # <<>>
  /\ Open(Head(inside[c]).gate, next[c] - 1)
  /\ inside' = [inside EXCEPT ![c] = Tail(@)]
  /\ UNCHANGED failed

EndBatch(c) ==
  /\ inside[c] = <<>>
  /\ Release(c)
  /\ UNCHANGED <<inside, failed>>

Leave(c) == Stop(c) /\ UNCHANGED <<inside, failed>>

HandlerStep(c) ==
  /\ TakeBatch(c) \/ CallHandler(c) \/ HandlerSetsGate(c) \/ EndBatch(c) \/ Leave(c)
  /\ UNCHANGED <<program, at, values, hold, handles, flags>>
-----------------------------------------------------------------------------
Done == \A t \in Threads : ~Running(t)

Next ==
  \/ \E t \in Threads : ThreadStep(t)
  \/ \E c \in topology.managed : HandlerStep(c)

\* Some thread of the program or of the disruptor runs whenever one can.  That
\* is all the fairness it takes: waiting is not a step here, so that no thread
\* can go on forever.
FairSpec == Init /\ [][Next]_vars /\ WF_vars(Next)
-----------------------------------------------------------------------------
(* Properties.                                                             *)

\* No assertion of any program can fail, whatever the order in which its
\* threads and the disruptor's run.
AssertionsHold == ~failed

\* Every program comes to its end, which is where it stops: no publish, poll,
\* join or drop waits for something that only the waiting thread could bring
\* about.
Terminates == <>Done
=============================================================================
