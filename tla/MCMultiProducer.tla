--------------------------- MODULE MCMultiProducer --------------------------
(***************************************************************************)
(* Instances of MultiProducer for TLC.                                     *)
(***************************************************************************)
EXTENDS MultiProducer, TLC

CONSTANTS a, p, z, g, q1, q2

\* Handler a alone; handler a and poller p side by side, then (after gate g)
\* handler z.
AloneStage == a :> 1
GatedStage == a :> 1 @@ p :> 1 @@ z :> 2

NoGates1 == <<{}>>
GateBeforeLast == <<{}, {g}>>
GateRange == {0, 1}
=============================================================================
