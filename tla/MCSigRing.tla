----------------------------- MODULE MCSigRing -----------------------------
(* An instance of SigRing: three threads that install actions, one of which  *)
(* also asks for the action before it installs one, or alone.                *)
EXTENDS SigRing, TLC

CONSTANTS t1, t2, t3, h

(* Two of the threads run the same code: their exchange is a symmetry.       *)
MCSymmetry == Permutations({t1, t2})
=============================================================================
