-------------------------- MODULE MCSingleProducer --------------------------
(***************************************************************************)
(* Instances of SingleProducer for TLC.                                    *)
(***************************************************************************)
EXTENDS SingleProducer, TLC

CONSTANTS a, b, z, p, g

\* Handlers a and b side by side, then handler z.
DiamondStage == a :> 1 @@ b :> 1 @@ z :> 2

\* Handler a, then handlers b and z side by side.
ForkStage == a :> 1 @@ b :> 2 @@ z :> 2

\* Poller p, then (after gate g) handler z.
PolledStage == p :> 1 @@ z :> 2

NoGates == <<{}, {}>>
GateBeforeLast == <<{}, {g}>>

GateRange == {0, 2}

PowerOfTwo == \E k \in 0 .. Capacity : Capacity = 2 ^ k
ASSUME PowerOfTwo
=============================================================================
