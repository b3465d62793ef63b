----------------------------- MODULE MCRipCache -----------------------------
(* Instances of RipCache: three threads, sites a and b of one slot and, for  *)
(* the larger set, c in a slot of its own; b has a memory operand.           *)
EXTENDS RipCache, TLC

CONSTANTS a, b, c, t1, t2, t3, shared, alone

\* get_cache_index of the sites of the model
MCSlotOf == [s \in Site |-> IF s = c THEN alone ELSE shared]
=============================================================================
