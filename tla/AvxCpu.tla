-------------------------------- MODULE AvxCpu --------------------------------
(***************************************************************************)
(* What the emulator stands in for: one thread on a processor with AVX,    *)
(* under a kernel that saves all of its registers when it delivers a       *)
(* signal and restores them when the handler returns.  The instructions    *)
(* are those of VexLanes, as the architecture defines them.                *)
(***************************************************************************)
EXTENDS AvxData

VARIABLES
    ymm,      \* the registers
    mem,      \* the memory operand, 32 bytes
    saved     \* the registers of the code interrupted by signals, the latest last

vars == <<ymm, mem, saved>>

File == [Register -> Whole]

\* How two doubles compare.
Order(a, b) == IF Ones \in {a, b} THEN "unordered"
               ELSE IF a < b THEN "less" ELSE IF a = b THEN "equal" ELSE "greater"

\* The comparisons for which a predicate is true.  Predicates 16 to 31 differ
\* from these in what they signal only.
TrueFor(p) ==
    CASE p = 0 -> {"equal"}
      [] p = 1 -> {"less"}
      [] p = 2 -> {"less", "equal"}
      [] p = 3 -> {"unordered"}
      [] p = 4 -> {"less", "greater", "unordered"}
      [] p = 5 -> {"equal", "greater", "unordered"}
      [] p = 6 -> {"greater", "unordered"}
      [] p = 7 -> {"less", "equal", "greater"}
      [] p = 8 -> {"equal", "unordered"}
      [] p = 9 -> {"less", "unordered"}
      [] p = 10 -> {"less", "equal", "unordered"}
      [] p = 11 -> {}
      [] p = 12 -> {"less", "greater"}
      [] p = 13 -> {"equal", "greater"}
      [] p = 14 -> {"greater"}
      [] p = 15 -> {"less", "equal", "greater", "unordered"}

Test(i, a, b) == IF Order(a, b) \in TrueFor(i.imm % 16) THEN Ones ELSE Zero

-----------------------------------------------------------------------------
(* What an instruction leaves in its destination *)

Source(i) == IF i.s = Mem THEN mem ELSE ymm[i.s]

\* A VEX.128 instruction zeroes the upper half.
Sized(i, q) == IF i.L = 1 THEN q ELSE <<q[1], q[2], Zero, Zero>>
Low(a, b) == <<a, b, Zero, Zero>>

Value(i) ==
    LET a == ymm[i.v]
        b == Source(i)
    IN CASE i.op = "vmovups" -> Sized(i, b)
         [] i.op = "vmovsd" -> Low(b[1], IF i.s = Mem THEN Zero ELSE a[2])
         [] i.op = "vmovq" -> Low(b[1], Zero)
         [] i.op = "vmovlps" -> Low(IF i.s = Mem THEN b[1] ELSE b[2], a[2])
         [] i.op = "vmovhps" -> Low(a[1], b[1])
         [] i.op = "vmovddup" -> Sized(i, <<b[1], b[1], b[3], b[3]>>)
         [] i.op = "vpermq" -> <<b[1 + (i.imm % 4)], b[1 + ((i.imm \div 4) % 4)],
                                 b[1 + ((i.imm \div 16) % 4)], b[1 + ((i.imm \div 64) % 4)]>>
         [] i.op = "vextract" -> IF i.imm % 2 = 1 THEN Low(b[3], b[4]) ELSE Low(b[1], b[2])
         [] i.op = "vinsert" -> IF i.imm % 2 = 1 THEN <<a[1], a[2], b[1], b[2]>>
                                ELSE <<b[1], b[2], a[3], a[4]>>
         [] i.op = "vpunpckqdq" -> IF i.imm = 0 THEN Sized(i, <<a[1], b[1], a[3], b[3]>>)
                                   ELSE Sized(i, <<a[2], b[2], a[4], b[4]>>)
         [] i.op = "vshufpd" -> Sized(i, <<a[1 + (i.imm % 2)], b[1 + ((i.imm \div 2) % 2)],
                                           a[3 + ((i.imm \div 4) % 2)], b[3 + ((i.imm \div 8) % 2)]>>)
         [] i.op = "vbroadcastsd" -> Sized(i, <<b[1], b[1], b[1], b[1]>>)
         [] i.op = "vcmppd" -> Sized(i, <<Test(i, a[1], b[1]), Test(i, a[2], b[2]),
                                          Test(i, a[3], b[3]), Test(i, a[4], b[4])>>)
         [] i.op = "vcmpsd" -> Low(Test(i, a[1], b[1]), a[2])
         [] i.op = "packed" -> Sized(i, <<Math(a[1], b[1]), Math(a[2], b[2]),
                                          Math(a[3], b[3]), Math(a[4], b[4])>>)
         [] i.op = "scalar" -> Low(Math(a[1], b[1]), a[2])

\* What a store leaves in memory.
Stored(i) ==
    LET b == ymm[i.s]
    IN CASE i.op = "vmovups" -> IF i.L = 1 THEN b ELSE <<b[1], b[2], mem[3], mem[4]>>
         [] i.op \in {"vmovsd", "vmovq", "vmovlps"} -> <<b[1], mem[2], mem[3], mem[4]>>
         [] i.op = "vmovhps" -> <<b[2], mem[2], mem[3], mem[4]>>
         [] i.op = "vextract" -> IF i.imm % 2 = 1 THEN <<b[3], b[4], mem[3], mem[4]>>
                                 ELSE <<b[1], b[2], mem[3], mem[4]>>

\* vzeroupper, or with VEX.L set vzeroall.
Zeroed(i) == [r \in Register |-> IF i.L = 1 THEN Low(Zero, Zero) ELSE Low(ymm[r][1], ymm[r][2])]

-----------------------------------------------------------------------------

Init == /\ ymm \in File
        /\ mem \in Whole
        /\ saved = <<>>

Execute(i) ==
    /\ ymm' = IF i.op = "vzero" THEN Zeroed(i)
              ELSE IF i.d = Mem THEN ymm ELSE [ymm EXCEPT ![i.d] = Value(i)]
    /\ mem' = IF i.d = Mem THEN Stored(i) ELSE mem
    /\ UNCHANGED saved

\* A handler may not rely on what it finds in the registers.
Deliver == /\ saved' = Append(saved, ymm)
           /\ ymm' \in File
           /\ UNCHANGED mem

Return == /\ saved # <<>>
          /\ ymm' = saved[Len(saved)]
          /\ saved' = SubSeq(saved, 1, Len(saved) - 1)
          /\ UNCHANGED mem

Next == (\E i \in Instructions : Execute(i)) \/ Deliver \/ Return

Spec == Init /\ [][Next]_vars
=============================================================================
