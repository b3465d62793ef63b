------------------------------- MODULE AvxData -------------------------------
(***************************************************************************)
(* The data of AvxCpu and VexLanes.  A 256-bit register is four quads; a   *)
(* quad is told apart as far as the instructions below do: as a double it  *)
(* is a number or, with every bit set, a NaN.                              *)
(***************************************************************************)
EXTENDS Integers, Sequences

CONSTANTS
    Register,        \* the vector registers
    MaxDouble,       \* the doubles are 0 .. MaxDouble, and NaN
    Instructions,    \* the instructions that the program and its handlers run
    Math(_, _)       \* one element of vaddpd, vpxor, ...: the lane functions of src/src/math

Mem == "mem"    \* the memory operand

Ones == -1
Zero == 0
Quad == Ones .. MaxDouble

Half == Quad \X Quad
Whole == Quad \X Quad \X Quad \X Quad

\* d is written, v and s are read.  An instruction that has no such operand
\* says "none", one without VEX.L, a selector or a predicate says 0.
Operand == Register \cup {Mem, "none"}

Mnemonic == {"vmovups", "vmovsd", "vmovq", "vmovlps", "vmovhps", "vmovddup",
             "vpermq", "vextract", "vinsert", "vpunpckqdq", "vshufpd", "vbroadcastsd",
             "vcmppd", "vcmpsd", "packed", "scalar"}

Instruction ==
    [op : Mnemonic \cup {"vzero"}, d : Operand, v : Operand, s : Operand, imm : 0 .. 255, L : {0, 1}]

Merging == {"vmovlps", "vmovhps", "vinsert", "vpunpckqdq", "vshufpd",
            "vcmppd", "vcmpsd", "packed", "scalar"}
Storing == {"vmovups", "vmovsd", "vmovq", "vmovlps", "vmovhps", "vextract"}

\* An instruction has one operand in memory at most, and each operand it needs.
WellFormed(i) ==
    \/ i.op = "vzero" /\ {i.d, i.v, i.s} = {"none"}
    \/ /\ i.op # "vzero"
       /\ i.d = Mem => i.op \in Storing /\ i.v = "none" /\ i.s \in Register
       /\ i.d # Mem =>
            /\ i.d \in Register
            /\ i.s \in IF i.op = "vextract" THEN Register ELSE Register \cup {Mem}
            /\ i.v \in IF i.op \in Merging \/ (i.op = "vmovsd" /\ i.s # Mem)
                       THEN Register ELSE {"none"}
       /\ i.op \in {"vcmppd", "vcmpsd"} => i.imm < 32
       /\ i.op \in {"vpermq", "vextract", "vinsert", "vbroadcastsd"} => i.L = 1

ASSUME DataAssumption ==
    /\ MaxDouble \in Nat
    /\ {Mem, "none"} \cap Register = {}
    /\ \A i \in Instructions : i \in Instruction /\ WellFormed(i)
    /\ \A a, b \in Quad : Math(a, b) \in Quad
=============================================================================
