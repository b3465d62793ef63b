---------------------------- MODULE MCCodePatch ----------------------------
(* Instances of CodePatch: aesenc, pclmul and aesdec are in three pages of  *)
(* one mapping, and the last two share a cache entry; far is in another       *)
(* library.                                                                  *)
EXTENDS CodePatch, TLC

CONSTANTS t1, t2, aesenc, aesdec, pclmul, far, near, beyond, e1, e2, e3

MCLength == [s \in Site |-> IF s = pclmul THEN 6 ELSE 5]
MCSlotOf == [s \in Site |-> CASE s = aesenc -> e1 [] s = far -> e3 [] OTHER -> e2]
MCRegion == [s \in Site |-> IF s = far THEN beyond ELSE near]
MCPageOf == [s \in Site |-> CASE s = aesenc -> 0 [] s = pclmul -> 1 [] s = aesdec -> 2 [] OTHER -> 9]
MCMapped == {0, 1, 2, 9, 10}

MCSymmetry == Permutations({t1, t2})
=============================================================================
