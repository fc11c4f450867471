-------------------------- MODULE MCBuilderChains ---------------------------
(***************************************************************************)
(* An instance of BuilderChains for TLC.                                   *)
(***************************************************************************)
EXTENDS BuilderChains, TLC

CONSTANTS c1, c2, c3, c4, g1, n1, n2

\* Consumers are interchangeable, and so are thread names.
Interchangeable == Permutations(Names) \cup Permutations(Titles)
=============================================================================
