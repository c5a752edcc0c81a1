----------------------------- MODULE MCBisCache -----------------------------
(***************************************************************************)
(* TLC instances of BisCache: three clusters compete for two slots, so the *)
(* cache wraps around and evicts.  The partitions, like the values, are    *)
(* interchangeable.                                                        *)
(***************************************************************************)
EXTENDS BisCache, TLC

Symmetry == Permutations(Value) \cup Permutations(Part)
=============================================================================
