--------------------------- MODULE MCBlockingWait ---------------------------
(***************************************************************************)
(* Instances of BlockingWait for TLC.                                      *)
(***************************************************************************)
EXTENDS BlockingWait

\* A consumer behind the producer, and one behind the first and a gate.
GatedChain == <<{0}, {1, 3}>>

\* Two consumers, one behind the other.
Chain == <<{0}, {1}>>
=============================================================================
