------------------------------- MODULE VexLanes -------------------------------
(***************************************************************************)
(* Where the VEX emulation keeps the registers, and what it does to them.  *)
(* One thread: its host code, handlers of the host's signals, and the      *)
(* emulator's SIGILL handler.  The kernel saves and restores the low       *)
(* halves, the only ones the processor has, with the signal frame; the     *)
(* upper halves, ymm_upper, belong to the thread and to no frame.          *)
(*                                                                         *)
(* AvxCpu says what the instructions should do.  The instructions taken up *)
(* are those that move, select, compare or combine whole quads.  Decoding  *)
(* is in VexDispatch, the arithmetic in Math.                              *)
(***************************************************************************)
EXTENDS AvxData

CONSTANTS
    Start,                 \* what the low halves and the memory operand may hold at first
    MaxTraps, MaxDepth     \* bounds

ASSUME StartAssumption ==
    /\ Start \subseteq [low : [Register -> Half], mem : Whole]
    /\ MaxTraps \in Nat /\ MaxDepth \in Nat

VARIABLES
    low,       \* the XMM registers, as the host's code or its handler finds them
    upper,     \* ymm_upper
    mem,       \* the memory operand
    frames,    \* the low halves that the host's signals saved, the latest last
    trap,      \* "none"; "trapped", "emulated": the emulator's handler is on the stack
    insn,      \* the instruction it was entered for
    uc,        \* the registers in its frame
    at,        \* how many of the host's frames are below its own
    alive,
    traps,     \* how many instructions have trapped
    astray     \* has one of the known divergences happened?

vars == <<low, upper, mem, frames, trap, insn, uc, at, alive, traps, astray>>

Zeros == <<Zero, Zero>>
Cleared == [r \in Register |-> Zeros]
NoInsn == [op |-> "none"]

\* The emulator runs, and no handler of the host on top of it.
Emulating == trap # "none" /\ at = Len(frames)

-----------------------------------------------------------------------------
(* The branches of src/src/avx, on the registers of the frame (uc) *)

Lo(s) == IF s = Mem THEN <<mem[1], mem[2]>> ELSE uc[s]
Hi(s) == IF s = Mem THEN <<mem[3], mem[4]>> ELSE upper[s]
Gather(s) == <<Lo(s)[1], Lo(s)[2], Hi(s)[1], Hi(s)[2]>>

\* The comparisons of C, false if an operand is a NaN.
Ordered(a, b) == a # Ones /\ b # Ones
Lt(a, b) == Ordered(a, b) /\ a < b
Eq(a, b) == Ordered(a, b) /\ a = b

\* NEQ_UQ, which SIMDe evaluates like NEQ_OQ for scalars.
ScalarNeq(a, b) == Ordered(a, b) /\ ~Eq(a, b)
PackedNeq(a, b) == ~Eq(a, b)

\* What math_vcmp and SIMDe compute for each predicate.
Cmp(p, a, b, neq) ==
    \/ p % 16 = 0 /\ Eq(a, b)
    \/ p % 16 = 1 /\ Lt(a, b)
    \/ p % 16 = 2 /\ (Lt(a, b) \/ Eq(a, b))
    \/ p % 16 = 3 /\ ~Ordered(a, b)
    \/ p % 16 = 4 /\ neq
    \/ p % 16 = 5 /\ ~Lt(a, b)
    \/ p % 16 = 6 /\ ~(Lt(a, b) \/ Eq(a, b))
    \/ p % 16 = 7 /\ Ordered(a, b)
    \/ p % 16 = 8 /\ (~Ordered(a, b) \/ Eq(a, b))
    \/ p % 16 = 9 /\ ~(Lt(b, a) \/ Eq(a, b))
    \/ p % 16 = 10 /\ ~Lt(b, a)
    \/ p % 16 = 12 /\ Ordered(a, b) /\ ~Eq(a, b)
    \/ p % 16 = 13 /\ (Lt(b, a) \/ Eq(a, b))
    \/ p % 16 = 14 /\ Lt(b, a)
    \/ p % 16 = 15

\* Fault: the mask of a float, stored for a double.
Mask32(holds) == IF holds THEN 2 ^ 16 - 1 ELSE Zero
Mask(holds) == IF holds THEN Ones ELSE Zero

(* The lane functions of src/src/math, on vec256 and vec128 as quads *)

CmpLane(a, b, imm) == Mask(Cmp(imm, a, b, PackedNeq(a, b)))
math_vcmppd(a, b, imm) == <<CmpLane(a[1], b[1], imm), CmpLane(a[2], b[2], imm),
                            CmpLane(a[3], b[3], imm), CmpLane(a[4], b[4], imm)>>
math_vcmpsd(a, b, imm) == <<Mask(Cmp(imm, a[1], b[1], ScalarNeq(a[1], b[1]))), a[2]>>

math_vpermq(b, imm) == <<b[1 + (imm % 4)], b[1 + ((imm \div 4) % 4)],
                         b[1 + ((imm \div 16) % 4)], b[1 + ((imm \div 64) % 4)]>>
math_vextract128(b, imm) == IF imm % 2 = 1 THEN <<b[3], b[4]>> ELSE <<b[1], b[2]>>
math_vinsert128(a, b, imm) == IF imm % 2 = 1 THEN <<a[1], a[2], b[1], b[2]>>
                              ELSE <<b[1], b[2], a[3], a[4]>>

math_vpunpcklqdq(a, b) == <<a[1], b[1], a[3], b[3]>>
math_vpunpckhqdq(a, b) == <<a[2], b[2], a[4], b[4]>>
math_vshufpd(a, b, imm) == <<a[1 + (imm % 2)], b[1 + ((imm \div 2) % 2)],
                             a[3 + ((imm \div 4) % 2)], b[3 + ((imm \div 8) % 2)]>>
math_vbroadcastsd(b) == <<b[1], b[1], b[1], b[1]>>

\* math_vaddpd, math_vpxor, ... and math_vaddsd, ...
Packed(a, b) == <<Math(a[1], b[1]), Math(a[2], b[2]), Math(a[3], b[3]), Math(a[4], b[4])>>
Scalar(a, b) == <<Math(a[1], b[1]), a[2]>>

\* vmovlps, vmovlpd, vmovhlps; vmovhps, vmovhpd, vmovlhps
LoadLow(i, a, b) == <<IF i.s = Mem THEN b[1] ELSE b[2], a[2]>>
LoadHigh(a, b) == <<a[1], b[1]>>
vmovddup(b) == <<b[1], b[1], b[3], b[3]>>

Half128(h) == <<h[1], h[2], Zero, Zero>>

\* What a branch that copies its operands before it writes computes, as vec256.
Out(i) ==
    LET a == Gather(i.v)
        b == Gather(i.s)
    IN CASE i.op = "vmovups" -> b
         [] i.op = "vmovlps" -> Half128(LoadLow(i, a, b))
         [] i.op = "vmovhps" -> Half128(LoadHigh(a, b))
         [] i.op = "vmovddup" -> vmovddup(b)
         [] i.op = "vpermq" -> math_vpermq(b, i.imm)
         [] i.op = "vextract" -> Half128(math_vextract128(b, i.imm))
         [] i.op = "vinsert" -> math_vinsert128(a, b, i.imm)
         [] i.op = "vpunpckqdq" -> IF i.imm = 0 THEN math_vpunpcklqdq(a, b)
                                   ELSE math_vpunpckhqdq(a, b)
         [] i.op = "vshufpd" -> math_vshufpd(a, b, i.imm)
         [] i.op = "vbroadcastsd" -> math_vbroadcastsd(b)
         [] i.op = "vcmppd" -> math_vcmppd(a, b, i.imm)
         [] i.op = "vcmpsd" -> Half128(math_vcmpsd(a, b, i.imm))
         [] i.op = "packed" -> Packed(a, b)
         [] i.op = "scalar" -> Half128(Scalar(a, b))

\* The upper half of out is written by some branches without a look at VEX.L,
\* and never by those with a 128-bit result.
KeepsHigh(i) == i.L = 1 \/ i.op \in {"vpermq", "vinsert"}

\* Fault: VEX.128 leaves the upper half alone.
HighUnzeroed(i) == IF KeepsHigh(i) THEN <<Out(i)[3], Out(i)[4]>> ELSE upper[i.d]
High(i) == IF KeepsHigh(i) THEN <<Out(i)[3], Out(i)[4]>> ELSE Zeros

\* vmovss and vmovsd: the destination takes VEX.vvvv whole before the source is read.
vmovsd(i) ==
    IF i.s = Mem THEN [uc EXCEPT ![i.d] = <<mem[1], Zero>>]
    ELSE LET merged == [uc EXCEPT ![i.d] = uc[i.v]]
         IN [merged EXCEPT ![i.d] = <<merged[i.s][1], merged[i.d][2]>>]

\* vmovq: the destination is cleared before the source is read.
vmovq(i) ==
    LET cleared == [uc EXCEPT ![i.d] = Zeros]
    IN [cleared EXCEPT ![i.d] = <<IF i.s = Mem THEN mem[1] ELSE cleared[i.s][1], Zero>>]

InPlace == {"vmovsd", "vmovq"}

\* The registers of the frame after the instruction, and ymm_upper.
NewLow(i) == CASE i.op = "vmovsd" -> vmovsd(i)
               [] i.op = "vmovq" -> vmovq(i)
               [] i.op \notin InPlace -> [uc EXCEPT ![i.d] = <<Out(i)[1], Out(i)[2]>>]
NewHigh(i) == [upper EXCEPT ![i.d] = IF i.op \in InPlace THEN Zeros ELSE High(i)]

\* A store writes as much of memory as the operand has.
Stores(i) ==
    CASE i.op = "vmovups" /\ i.L = 1 -> Gather(i.s)
      [] i.op = "vmovups" /\ i.L = 0 -> <<Lo(i.s)[1], Lo(i.s)[2], mem[3], mem[4]>>
      [] i.op \in {"vmovsd", "vmovq", "vmovlps"} -> <<Lo(i.s)[1], mem[2], mem[3], mem[4]>>
      [] i.op = "vmovhps" -> <<Lo(i.s)[2], mem[2], mem[3], mem[4]>>
      [] i.op = "vextract" -> <<Out(i)[1], Out(i)[2], mem[3], mem[4]>>

-----------------------------------------------------------------------------
(* Known divergences from AvxCpu *)

\* A move whose source is its destination is overwritten before it is read.
Aliased(i) == \/ i.op = "vmovsd" /\ i.s = i.d /\ i.v # i.d
              \/ i.op = "vmovq" /\ i.s = i.d
Diverges(i) == \/ Aliased(i)
               \/ i.op = "vcmpsd" /\ i.imm % 16 = 4    \* NEQ_UQ of a NaN
               \/ i.op = "vzero" /\ i.L = 1            \* vzeroall keeps the low halves

-----------------------------------------------------------------------------

Init == /\ \E st \in Start : low = st.low /\ mem = st.mem
        /\ upper = Cleared
        /\ frames = <<>>
        /\ trap = "none" /\ insn = NoInsn /\ uc = Cleared /\ at = 0
        /\ alive = TRUE /\ traps = 0 /\ astray = FALSE

\* SIGILL.  The kernel starts a handler with its registers cleared.
Trap(i) == /\ alive /\ trap = "none"
           /\ traps < MaxTraps
           /\ traps' = traps + 1
           /\ trap' = "trapped" /\ insn' = i /\ uc' = low /\ at' = Len(frames)
           /\ low' = Cleared
           /\ UNCHANGED <<upper, mem, frames, alive, astray>>

\* The emulator's handler runs with SIGILL blocked (no SA_NODEFER), and what
\* interrupts it inherits that: a handler on top of it that executes an
\* instruction the processor has not ends the process.
TrapBlocked == /\ alive /\ trap # "none" /\ ~Emulating
               /\ alive' = FALSE
               /\ UNCHANGED <<low, upper, mem, frames, trap, insn, uc, at, traps, astray>>

Emulate == /\ alive /\ Emulating /\ trap = "trapped"
           /\ trap' = "emulated"
           /\ uc' = IF insn.op = "vzero" \/ insn.d = Mem THEN uc ELSE NewLow(insn)
           /\ upper' = IF insn.op = "vzero" THEN Cleared
                       ELSE IF insn.d = Mem THEN upper ELSE NewHigh(insn)
           /\ mem' = IF insn.d = Mem THEN Stores(insn) ELSE mem
           \* A handler's instruction changes the halves of the code it interrupted.
           /\ astray' = (astray \/ Diverges(insn) \/ (frames # <<>> /\ upper' # upper))
           /\ UNCHANGED <<low, frames, insn, at, alive, traps>>

\* sigreturn of the emulator.
Resume == /\ alive /\ Emulating /\ trap = "emulated"
          /\ trap' = "none" /\ insn' = NoInsn /\ uc' = Cleared /\ at' = 0
          /\ low' = uc
          /\ UNCHANGED <<upper, mem, frames, alive, traps, astray>>

\* Another signal; the emulator's sa_mask blocks none.
Deliver == /\ alive /\ Len(frames) < MaxDepth
           /\ frames' = Append(frames, low)
           /\ low' = Cleared
           /\ UNCHANGED <<upper, mem, trap, insn, uc, at, alive, traps, astray>>

\* sigreturn of its handler.
HandlerReturns == /\ alive /\ frames # <<>> /\ ~Emulating
                  /\ low' = frames[Len(frames)]
                  /\ frames' = SubSeq(frames, 1, Len(frames) - 1)
                  /\ UNCHANGED <<upper, mem, trap, insn, uc, at, alive, traps, astray>>

Next == \/ \E i \in Instructions : Trap(i)
        \/ TrapBlocked \/ Emulate \/ Resume \/ Deliver \/ HandlerReturns

Spec == Init /\ [][Next]_vars

-----------------------------------------------------------------------------
(* Properties *)

File == [Register -> Half]

\* Quads stay quads, and the emulator's frame is within the stack.
TypeOK == /\ low \in File /\ upper \in File /\ uc \in File
          /\ mem \in Whole
          /\ frames \in Seq(File) /\ Len(frames) <= MaxDepth
          /\ trap \in {"none", "trapped", "emulated"}
          /\ IF trap = "none" THEN insn = NoInsn ELSE insn \in Instruction /\ WellFormed(insn)
          /\ trap # "none" => at <= Len(frames)
          /\ at \in Nat
          /\ alive \in BOOLEAN /\ astray \in BOOLEAN
          /\ traps \in 0 .. MaxTraps

\* What the code of one level sees: the registers of the emulator's frame while
\* it serves that level, and the upper halves that the thread has now.
Joined(f) == [r \in Register |-> <<f[r][1], f[r][2], upper[r][1], upper[r][2]>>]
Running == Joined(IF Emulating THEN uc ELSE low)
Interrupted(k) == Joined(IF trap # "none" /\ at = k - 1 THEN uc ELSE frames[k])

Cpu == INSTANCE AvxCpu WITH ymm <- Running,
                            saved <- [k \in 1 .. Len(frames) |-> Interrupted(k)]

\* Until something goes astray the emulated thread is a thread on a processor
\* with AVX: what is emulated is the instruction that trapped, signals save and
\* restore whole registers, and nothing else changes what the code can see.
\* The upper halves, which are in no signal frame, are right as long as no
\* handler changes them; an operand that is read after the destination was
\* written, as long as the two differ.
ActsAsAvx ==
    /\ Cpu!Init
    /\ [][\/ astray'
          \/ Emulate /\ Cpu!Execute(insn)
          \/ Deliver /\ Cpu!Deliver
          \/ HandlerReturns /\ Cpu!Return
          \/ UNCHANGED Cpu!vars]_vars
=============================================================================
