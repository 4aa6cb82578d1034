---------------------------- MODULE MCPriceOrder ----------------------------
(***************************************************************************)
(* Small instances of PriceOrder for TLC.                                  *)
(***************************************************************************)
EXTENDS PriceOrder, TLC

\* Requests, prices and groups are interchangeable.
Symmetry == Permutations(Sessions) \cup Permutations(Prices) \cup Permutations(Groups)
=============================================================================
