--------------------------- MODULE VexLanesProofs ---------------------------
(***************************************************************************)
(* What TLAPS proves of VexLanes for any registers, any doubles, any       *)
(* element function, any instructions and any nesting of signals: the      *)
(* emulated thread implements AvxCpu until a known divergence happens.     *)
(***************************************************************************)
EXTENDS VexLanes, SequenceTheorems, TLAPS

-----------------------------------------------------------------------------
(* Operands                                                                  *)

\* AvxCpu has the same data.
LEMMA SameData ==
  Cpu!Ones = Ones /\ Cpu!Zero = Zero /\ Cpu!Mem = Mem /\ Cpu!Whole = Whole
BY DEF Ones, Zero, Mem, Whole, Quad, Cpu!Ones, Cpu!Zero, Cpu!Mem, Cpu!Whole, Cpu!Quad

\* An instruction with a destination register, other than vzeroupper.
Writes(i) == i \in Instruction /\ WellFormed(i) /\ i.op # "vzero" /\ i.d # Mem

\* An operand is a register or in memory, and reads as four quads.
LEMMA OperandType ==
  ASSUME TypeOK, NEW s \in Register \cup {Mem}
  PROVE  Gather(s) \in Whole /\ Lo(s) \in Half
BY DEF TypeOK, File, Half, Whole, Gather, Lo, Hi

\* The destination is a register, and so are the sources that are not in memory.
LEMMA OperandsOf ==
  ASSUME NEW i, Writes(i)
  PROVE  /\ i.d \in Register /\ i.s \in Register \cup {Mem}
         /\ i.op \in Mnemonic
         /\ i.op \in Merging => i.v \in Register
         /\ i.op = "vmovsd" /\ i.s # Mem => i.v \in Register
         /\ i.imm \in 0 .. 255 /\ i.L \in {0, 1}
BY DataAssumption DEF Writes, WellFormed, Instruction, Operand, Mem

\* The masks are quads, and so is what the element function returns.
LEMMA Lanes ==
  /\ Ones \in Quad /\ Zero \in Quad /\ Zeros \in Half
  /\ \A a, b \in Quad : Math(a, b) \in Quad
PROOF
<1>1. Ones \in Quad /\ Zero \in Quad BY DataAssumption, Z3 DEF Ones, Zero, Quad
<1>2. Zeros \in Half BY <1>1 DEF Zeros, Half
<1> QED BY <1>1, <1>2, DataAssumption

LEMMA LaneOfComparison ==
  ASSUME NEW i, NEW a, NEW b, NEW neq \in BOOLEAN
  PROVE  CmpLane(a, b, i.imm) \in Quad /\ Mask(Cmp(i.imm, a, b, neq)) \in Quad
BY Lanes DEF CmpLane, Mask

\* What the branches compute is four quads.
LEMMA OutType ==
  ASSUME TypeOK, NEW i, Writes(i), i.op \notin InPlace
  PROVE  Out(i) \in Whole
PROOF
<1> DEFINE a == Gather(i.v)
           b == Gather(i.s)
<1>1. b[1] \in Quad /\ b[2] \in Quad /\ b[3] \in Quad /\ b[4] \in Quad
  BY OperandsOf, OperandType DEF Whole
<1>2. ASSUME i.op \in Merging
      PROVE  a[1] \in Quad /\ a[2] \in Quad /\ a[3] \in Quad /\ a[4] \in Quad
  BY <1>2, OperandsOf, OperandType DEF Whole
<1>3. i.imm \in Nat BY OperandsOf
<1>4. CASE i.op \in {"vmovups", "vmovddup", "vextract", "vbroadcastsd"}
  <2>1. CASE i.op = "vmovups" BY <2>1, OperandsOf, OperandType DEF Out
  <2>2. CASE i.op # "vmovups" BY <1>1, <1>4, <2>2, Lanes
    DEF Out, Half128, vmovddup, math_vextract128, math_vbroadcastsd, Whole
  <2> QED BY <2>1, <2>2
<1>5. CASE i.op \in {"vmovlps", "vmovhps", "vinsert", "vpunpckqdq"}
  <2>1. i.op \in Merging BY <1>5 DEF Merging
  <2> QED BY <1>1, <1>2, <1>5, <2>1, Lanes
           DEF Out, Half128, LoadLow, LoadHigh, math_vinsert128, math_vpunpcklqdq,
               math_vpunpckhqdq, Whole
<1>6. CASE i.op = "vpermq"
  <2>1. \A k \in {1, 2, 3, 4} : b[k] \in Quad BY <1>1
  <2>2. /\ 1 + (i.imm % 4) \in {1, 2, 3, 4} /\ 1 + ((i.imm \div 4) % 4) \in {1, 2, 3, 4}
        /\ 1 + ((i.imm \div 16) % 4) \in {1, 2, 3, 4}
        /\ 1 + ((i.imm \div 64) % 4) \in {1, 2, 3, 4}
    BY <1>3
  <2>3. Out(i) = <<b[1 + (i.imm % 4)], b[1 + ((i.imm \div 4) % 4)],
                   b[1 + ((i.imm \div 16) % 4)], b[1 + ((i.imm \div 64) % 4)]>>
    BY <1>6 DEF Out, math_vpermq
  <2> HIDE DEF b
  <2> QED BY <2>1, <2>2, <2>3 DEF Whole
<1>7. CASE i.op = "vshufpd"
  <2>1. i.op \in Merging BY <1>7 DEF Merging
  <2>2. \A k \in {1, 2, 3, 4} : a[k] \in Quad /\ b[k] \in Quad BY <1>1, <1>2, <2>1
  <2>3. /\ 1 + (i.imm % 2) \in {1, 2, 3, 4} /\ 1 + ((i.imm \div 2) % 2) \in {1, 2, 3, 4}
        /\ 3 + ((i.imm \div 4) % 2) \in {1, 2, 3, 4}
        /\ 3 + ((i.imm \div 8) % 2) \in {1, 2, 3, 4}
    BY <1>3
  <2>4. Out(i) = <<a[1 + (i.imm % 2)], b[1 + ((i.imm \div 2) % 2)],
                   a[3 + ((i.imm \div 4) % 2)], b[3 + ((i.imm \div 8) % 2)]>>
    BY <1>7 DEF Out, math_vshufpd
  <2> HIDE DEF a, b
  <2> QED BY <2>2, <2>3, <2>4 DEF Whole
<1>8. CASE i.op \in {"vcmppd", "vcmpsd"}
  <2>1. i.op \in Merging BY <1>8 DEF Merging
  <2>2. ScalarNeq(a[1], b[1]) \in BOOLEAN BY DEF ScalarNeq
  <2>3. Mask(Cmp(i.imm, a[1], b[1], ScalarNeq(a[1], b[1]))) \in Quad
    BY <2>2, LaneOfComparison
  <2>4. /\ CmpLane(a[1], b[1], i.imm) \in Quad /\ CmpLane(a[2], b[2], i.imm) \in Quad
        /\ CmpLane(a[3], b[3], i.imm) \in Quad /\ CmpLane(a[4], b[4], i.imm) \in Quad
    BY LaneOfComparison
  <2>5. CASE i.op = "vcmppd"
    BY <2>4, <2>5 DEF Out, math_vcmppd, Whole
  <2>6. CASE i.op = "vcmpsd"
    BY <1>2, <2>1, <2>3, <2>6, Lanes DEF Out, Half128, math_vcmpsd, Whole
  <2> QED BY <1>8, <2>5, <2>6
<1>9. CASE i.op \in {"packed", "scalar"}
  <2>1. i.op \in Merging BY <1>9 DEF Merging
  <2> QED BY <1>1, <1>2, <1>9, <2>1, Lanes DEF Out, Half128, Packed, Scalar, Whole
<1> QED BY <1>4, <1>5, <1>6, <1>7, <1>8, <1>9, OperandsOf DEF Mnemonic, InPlace

\* The registers of the frame and ymm_upper stay quads.
LEMMA NewType ==
  ASSUME TypeOK, NEW i, Writes(i)
  PROVE  NewLow(i) \in File /\ NewHigh(i) \in File
PROOF
<1>1. uc \in File /\ upper \in File /\ mem \in Whole BY DEF TypeOK
<1>2. i.d \in Register /\ i.s \in Register \cup {Mem} BY OperandsOf
<1>3. Zero \in Quad /\ Zeros \in Half BY Lanes
<1>4. CASE i.op = "vmovsd"
  <2>1. vmovsd(i) \in File
    <3>1. CASE i.s = Mem
      BY <1>1, <1>2, <1>3, <3>1 DEF vmovsd, File, Half, Whole
    <3>2. CASE i.s # Mem
      <4> DEFINE merged == [uc EXCEPT ![i.d] = uc[i.v]]
      <4>1. i.v \in Register BY <1>4, <3>2, OperandsOf
      <4>2. merged \in File BY <1>1, <1>2, <4>1 DEF File
      <4>3. vmovsd(i) = [merged EXCEPT ![i.d] = <<merged[i.s][1], merged[i.d][2]>>]
        BY <3>2 DEF vmovsd
      <4> HIDE DEF merged
      <4> QED BY <1>2, <3>2, <4>2, <4>3 DEF File, Half
    <3> QED BY <3>1, <3>2
  <2> QED BY <1>1, <1>2, <1>3, <1>4, <2>1 DEF NewLow, NewHigh, InPlace, File
<1>5. CASE i.op = "vmovq"
  <2> DEFINE cleared == [uc EXCEPT ![i.d] = Zeros]
  <2>1. cleared \in File BY <1>1, <1>2, <1>3 DEF File
  <2>2. vmovq(i) = [cleared EXCEPT ![i.d] =
                      <<IF i.s = Mem THEN mem[1] ELSE cleared[i.s][1], Zero>>]
    BY DEF vmovq
  <2> HIDE DEF cleared
  <2>3. vmovq(i) \in File BY <1>1, <1>2, <1>3, <2>1, <2>2 DEF File, Half, Whole
  <2> QED BY <1>1, <1>2, <1>3, <1>5, <2>3 DEF NewLow, NewHigh, InPlace, File
<1>6. CASE i.op \notin InPlace
  <2>1. Out(i) \in Whole BY <1>6, OutType
  <2>2. High(i) \in Half BY <1>3, <2>1 DEF High, Half, Whole
  <2>3. NewLow(i) = [uc EXCEPT ![i.d] = <<Out(i)[1], Out(i)[2]>>]
    BY <1>6 DEF NewLow, InPlace
  <2>4. NewHigh(i) = [upper EXCEPT ![i.d] = High(i)]
    BY <1>6 DEF NewHigh
  <2>5. <<Out(i)[1], Out(i)[2]>> \in Half BY <2>1 DEF Half, Whole
  <2> QED BY <1>1, <1>2, <2>2, <2>3, <2>4, <2>5 DEF File
<1> QED BY <1>4, <1>5, <1>6 DEF InPlace

\* So does the memory operand.
LEMMA StoresType ==
  ASSUME TypeOK, NEW i \in Instruction, WellFormed(i), i.d = Mem
  PROVE  Stores(i) \in Whole
PROOF
<1>1. i.s \in Register /\ i.s # Mem /\ i.op \in Storing /\ i.L \in {0, 1}
  BY DataAssumption DEF WellFormed, Storing, Instruction, Mem
<1>2. Gather(i.s) \in Whole /\ Lo(i.s) \in Half BY <1>1, OperandType
<1>3. mem \in Whole BY DEF TypeOK
<1>4. CASE i.op = "vextract"
  <2>1. Out(i)[1] \in Quad /\ Out(i)[2] \in Quad BY <1>2, <1>4
    DEF Out, Half128, math_vextract128, Whole
  <2> QED BY <1>3, <1>4, <2>1 DEF Stores, Whole
<1>5. CASE i.op = "vmovups"
  BY <1>1, <1>2, <1>3, <1>5 DEF Stores, Whole, Half
<1>6. CASE i.op \in {"vmovsd", "vmovq", "vmovlps", "vmovhps"}
  BY <1>2, <1>3, <1>6 DEF Stores, Whole, Half
<1> QED BY <1>1, <1>4, <1>5, <1>6 DEF Storing

-----------------------------------------------------------------------------
(* The instructions                                                          *)

\* The comparisons of math_vcmp and of SIMDe's scalar twin are those of the
\* architecture, but for a scalar NEQ_UQ.
LEMMA Comparisons ==
  ASSUME NEW a \in Quad, NEW b \in Quad, NEW i, i.imm \in 0 .. 255
  PROVE  /\ CmpLane(a, b, i.imm) = Cpu!Test(i, a, b)
         /\ i.imm % 16 # 4 => Mask(Cmp(i.imm, a, b, ScalarNeq(a, b))) = Cpu!Test(i, a, b)
PROOF
<1> DEFINE p == i.imm % 16
           o == Cpu!Order(a, b)
<1>1. p \in 0 .. 15 OBVIOUS
<1>2. a \in Int /\ b \in Int BY DataAssumption DEF Quad, Ones
<1>3. /\ ~Ordered(a, b) <=> o = "unordered"
      /\ Lt(a, b) <=> o = "less"
      /\ Lt(b, a) <=> o = "greater"
      /\ Eq(a, b) <=> o = "equal"
      /\ o \in {"unordered", "less", "equal", "greater"}
  BY <1>2, SameData DEF Ordered, Lt, Eq, Cpu!Order
<1>4. Cmp(i.imm, a, b, PackedNeq(a, b)) <=> o \in Cpu!TrueFor(p)
  <2> HIDE DEF o
  <2>1. CASE p \in 0 .. 3 BY <1>3, <2>1 DEF Cmp, Cpu!TrueFor
  <2>2. CASE p \in 4 .. 7 BY <1>3, <2>2 DEF Cmp, PackedNeq, Cpu!TrueFor
  <2>3. CASE p \in 8 .. 11 BY <1>3, <2>3 DEF Cmp, Cpu!TrueFor
  <2>4. CASE p \in 12 .. 15 BY <1>3, <2>4 DEF Cmp, Cpu!TrueFor
  <2> QED BY <1>1, <2>1, <2>2, <2>3, <2>4
<1>5. p # 4 => (Cmp(i.imm, a, b, ScalarNeq(a, b)) <=> Cmp(i.imm, a, b, PackedNeq(a, b)))
  BY <1>1 DEF Cmp
<1> QED BY <1>4, <1>5, SameData DEF CmpLane, Mask, Cpu!Test

\* While the emulator runs, the code that trapped sees its operands as the
\* branches gather them.
LEMMA Operands ==
  ASSUME TypeOK, Emulating
  PROVE  /\ \A r \in Register : Running[r] = Gather(r)
         /\ \A i : i.s \in Register \cup {Mem} => Cpu!Source(i) = Gather(i.s)
PROOF
<1>1. Running = Joined(uc) BY DEF Running
<1>2. Mem \notin Register BY DataAssumption
<1>3. \A r \in Register : Running[r] = Gather(r)
  BY <1>1, <1>2 DEF Joined, Gather, Lo, Hi
<1>4. ASSUME NEW i, i.s \in Register \cup {Mem}
      PROVE  Cpu!Source(i) = Gather(i.s)
  <2>1. CASE i.s = Mem
    BY <2>1, SameData DEF TypeOK, Whole, Cpu!Source, Gather, Lo, Hi
  <2>2. CASE i.s \in Register
    BY <1>2, <1>3, <2>2, SameData DEF Cpu!Source
  <2> QED BY <1>4, <2>1, <2>2
<1> QED BY <1>3, <1>4

\* What a branch that copies its operands leaves in the destination is what the
\* architecture says.
LEMMA OutIsTheValue ==
  ASSUME TypeOK, Emulating, NEW i, Writes(i), i.op \notin InPlace, ~Diverges(i)
  PROVE  Cpu!Value(i) = <<Out(i)[1], Out(i)[2], High(i)[1], High(i)[2]>>
PROOF
<1> DEFINE a == Gather(i.v)
           b == Gather(i.s)
<1>1. Cpu!Source(i) = b BY OperandsOf, Operands
<1>2. i.op \in Merging => Running[i.v] = a BY OperandsOf, Operands
<1>3. i.L \in {0, 1} /\ i.imm \in 0 .. 255 BY OperandsOf
<1>4. i.op \in {"vpermq", "vextract", "vinsert", "vbroadcastsd"} => i.L = 1
  BY DEF Writes, WellFormed
<1>5. b \in Whole /\ (i.op \in Merging => a \in Whole) BY OperandsOf, OperandType
<1>6. CASE i.op = "vmovups"
  BY <1>1, <1>3, <1>5, <1>6, SameData
  DEF Cpu!Value, Cpu!Sized, Out, High, KeepsHigh, Zeros, Whole
<1>7. CASE i.op \in {"vmovddup", "vbroadcastsd"}
  BY <1>1, <1>3, <1>7, SameData
  DEF Cpu!Value, Cpu!Sized, Out, vmovddup, math_vbroadcastsd, High, KeepsHigh, Zeros
<1>8. CASE i.op \in {"vpermq", "vextract"}
  BY <1>1, <1>4, <1>8, SameData
  DEF Cpu!Value, Cpu!Low, Out, Half128, math_vpermq, math_vextract128, High, KeepsHigh, Zeros
<1>9. CASE i.op \in {"vmovlps", "vmovhps"}
  <2>1. Running[i.v] = a BY <1>2, <1>9 DEF Merging
  <2> QED BY <1>1, <1>9, <2>1, SameData
           DEF Cpu!Value, Cpu!Low, Out, Half128, LoadLow, LoadHigh, High, KeepsHigh, Zeros
<1>10. CASE i.op \in {"vinsert", "vpunpckqdq", "vshufpd"}
  <2>1. Running[i.v] = a BY <1>2, <1>10 DEF Merging
  <2>2. CASE i.op = "vinsert"
    BY <1>1, <1>4, <2>1, <2>2 DEF Cpu!Value, Out, math_vinsert128, High, KeepsHigh
  <2>3. CASE i.op = "vpunpckqdq"
    BY <1>1, <1>3, <2>1, <2>3, SameData
    DEF Cpu!Value, Cpu!Sized, Out, math_vpunpcklqdq, math_vpunpckhqdq, High, KeepsHigh, Zeros
  <2>4. CASE i.op = "vshufpd"
    BY <1>1, <1>3, <2>1, <2>4, SameData
    DEF Cpu!Value, Cpu!Sized, Out, math_vshufpd, High, KeepsHigh, Zeros
  <2> QED BY <1>10, <2>2, <2>3, <2>4
<1>11. CASE i.op = "vcmppd"
  <2>1. Running[i.v] = a /\ a \in Whole BY <1>2, <1>5, <1>11 DEF Merging
  <2>2. /\ CmpLane(a[1], b[1], i.imm) = Cpu!Test(i, a[1], b[1])
        /\ CmpLane(a[2], b[2], i.imm) = Cpu!Test(i, a[2], b[2])
        /\ CmpLane(a[3], b[3], i.imm) = Cpu!Test(i, a[3], b[3])
        /\ CmpLane(a[4], b[4], i.imm) = Cpu!Test(i, a[4], b[4])
    BY <1>3, <1>5, <2>1, Comparisons DEF Whole
  <2> QED BY <1>1, <1>3, <1>11, <2>1, <2>2, SameData
          DEF Cpu!Value, Cpu!Sized, Out, math_vcmppd, High, KeepsHigh, Zeros
<1>12. CASE i.op = "vcmpsd"
  <2>1. Running[i.v] = a /\ a \in Whole BY <1>2, <1>5, <1>12 DEF Merging
  <2>2. i.imm % 16 # 4 BY <1>12 DEF Diverges
  <2>3. Mask(Cmp(i.imm, a[1], b[1], ScalarNeq(a[1], b[1]))) = Cpu!Test(i, a[1], b[1])
    BY <1>3, <1>5, <2>1, <2>2, Comparisons DEF Whole
  <2> DEFINE m == Mask(Cmp(i.imm, a[1], b[1], ScalarNeq(a[1], b[1])))
  <2>4. Out(i) = <<m, a[2], Zero, Zero>> BY <1>12 DEF Out, Half128, math_vcmpsd
  <2>5. Cpu!Value(i) = <<Cpu!Test(i, a[1], b[1]), a[2], Zero, Zero>>
    BY <1>1, <1>12, <2>1, SameData DEF Cpu!Value, Cpu!Low
  <2> HIDE DEF m
  <2> QED BY <2>3, <2>4, <2>5 DEF m, High, Zeros
<1>13. CASE i.op \in {"packed", "scalar"}
  <2>1. Running[i.v] = a BY <1>2, <1>13 DEF Merging
  <2> QED BY <1>1, <1>3, <1>13, <2>1, SameData
          DEF Cpu!Value, Cpu!Sized, Cpu!Low, Out, Half128, Packed, Scalar, High, KeepsHigh, Zeros
<1> QED BY <1>6, <1>7, <1>8, <1>9, <1>10, <1>11, <1>12, <1>13, OperandsOf DEF Mnemonic, InPlace

\* The registers that low and high halves make up.
Wide(l, u) == [r \in Register |-> <<l[r][1], l[r][2], u[r][1], u[r][2]>>]

\* A write, by whichever branch, gives the destination its value and leaves the
\* other registers alone.
LEMMA WriteActs ==
  ASSUME TypeOK, Emulating, NEW i, Writes(i), ~Diverges(i)
  PROVE  Wide(NewLow(i), NewHigh(i)) = [Running EXCEPT ![i.d] = Cpu!Value(i)]
PROOF
<1>1. uc \in File /\ upper \in File BY DEF TypeOK
<1>2. i.d \in Register /\ i.s \in Register \cup {Mem} /\ Mem \notin Register
  BY OperandsOf, DataAssumption
<1>3. Running = Wide(uc, upper) BY DEF Running, Joined, Wide
<1>4. SUFFICES ASSUME NEW h, NEW g,
                      NewLow(i) = [uc EXCEPT ![i.d] = h],
                      NewHigh(i) = [upper EXCEPT ![i.d] = g],
                      Cpu!Value(i) = <<h[1], h[2], g[1], g[2]>>
               PROVE  Wide(NewLow(i), NewHigh(i)) = [Running EXCEPT ![i.d] = Cpu!Value(i)]
  <2>1. CASE i.op = "vmovsd"
    <3>1. NewLow(i) = vmovsd(i) /\ NewHigh(i) = [upper EXCEPT ![i.d] = Zeros]
      BY <2>1 DEF NewLow, NewHigh, InPlace
    <3>2. CASE i.s = Mem
      <4>1. vmovsd(i) = [uc EXCEPT ![i.d] = <<mem[1], Zero>>] BY <3>2 DEF vmovsd
      <4>2. Cpu!Value(i) = <<mem[1], Zero, Zero, Zero>>
        BY <2>1, <3>2, SameData DEF Cpu!Value, Cpu!Source, Cpu!Low
      <4> QED BY <1>4, <3>1, <4>1, <4>2 DEF Zeros
    <3>3. CASE i.s # Mem
      <4>1. i.v \in Register /\ i.s \in Register BY <1>2, <2>1, <3>3, OperandsOf
      <4>2. i.s = i.d => i.v = i.d BY <2>1 DEF Diverges, Aliased
      <4> DEFINE merged == [uc EXCEPT ![i.d] = uc[i.v]]
                 h == <<uc[i.s][1], uc[i.v][2]>>
      <4>3. merged[i.s] = uc[i.s] /\ merged[i.d] = uc[i.v]
        BY <1>1, <1>2, <4>1, <4>2 DEF File
      <4>4. vmovsd(i) = [merged EXCEPT ![i.d] = <<merged[i.s][1], merged[i.d][2]>>]
        BY <3>3 DEF vmovsd
      <4>5. vmovsd(i) = [uc EXCEPT ![i.d] = h] BY <1>1, <1>2, <4>3, <4>4 DEF File
      <4>6. Cpu!Source(i) = Gather(i.s) /\ Running[i.v] = Gather(i.v)
        BY <4>1, Operands
      <4>7. Gather(i.s)[1] = uc[i.s][1] /\ Gather(i.v)[2] = uc[i.v][2]
        BY <1>2, <4>1 DEF Gather, Lo
      <4>8. Cpu!Value(i) = <<uc[i.s][1], uc[i.v][2], Zero, Zero>>
        BY <2>1, <3>3, <4>6, <4>7, SameData DEF Cpu!Value, Cpu!Low
      <4> QED BY <1>4, <3>1, <4>5, <4>8 DEF Zeros
    <3> QED BY <3>2, <3>3
  <2>2. CASE i.op = "vmovq"
    <3> DEFINE cleared == [uc EXCEPT ![i.d] = Zeros]
               q == IF i.s = Mem THEN mem[1] ELSE uc[i.s][1]
    <3>1. i.s # i.d BY <2>2 DEF Diverges, Aliased
    <3>2. i.s # Mem => cleared[i.s] = uc[i.s] BY <1>1, <1>2, <3>1 DEF File
    <3>3. vmovq(i) = [cleared EXCEPT ![i.d] =
                        <<IF i.s = Mem THEN mem[1] ELSE cleared[i.s][1], Zero>>]
      BY DEF vmovq
    <3>4. vmovq(i) = [uc EXCEPT ![i.d] = <<q, Zero>>] BY <1>1, <1>2, <3>2, <3>3 DEF File
    <3>5. NewLow(i) = vmovq(i) /\ NewHigh(i) = [upper EXCEPT ![i.d] = Zeros]
      BY <2>2 DEF NewLow, NewHigh, InPlace
    <3>6. Gather(i.s)[1] = q BY <1>2 DEF Gather, Lo
    <3>7. Cpu!Source(i) = Gather(i.s) BY <1>2, Operands
    <3> HIDE DEF q
    <3>8. Cpu!Value(i) = <<q, Zero, Zero, Zero>>
      BY <2>2, <3>6, <3>7, SameData DEF Cpu!Value, Cpu!Low
    <3> QED BY <1>4, <3>4, <3>5, <3>8 DEF Zeros
  <2>3. CASE i.op \notin InPlace
    <3>1. /\ NewLow(i) = [uc EXCEPT ![i.d] = <<Out(i)[1], Out(i)[2]>>]
          /\ NewHigh(i) = [upper EXCEPT ![i.d] = High(i)]
      BY <2>3 DEF NewLow, NewHigh, InPlace
    <3>2. Cpu!Value(i) = <<Out(i)[1], Out(i)[2], High(i)[1], High(i)[2]>>
      BY <2>3, OutIsTheValue
    <3> QED BY <1>4, <3>1, <3>2
  <2> QED BY <2>1, <2>2, <2>3 DEF InPlace
<1> QED BY <1>1, <1>2, <1>3, <1>4 DEF File, Wide

\* A store leaves in memory what the architecture says.
LEMMA StoreActs ==
  ASSUME TypeOK, Emulating, NEW i, i \in Instruction, WellFormed(i), i.d = Mem
  PROVE  Cpu!Stored(i) = Stores(i)
PROOF
<1>1. i.s \in Register /\ i.s # Mem /\ i.op \in Storing /\ i.L \in {0, 1}
  BY DataAssumption DEF WellFormed, Storing, Instruction, Mem
<1>2. Running[i.s] = Gather(i.s) BY <1>1, Operands
<1>3. Gather(i.s)[1] = Lo(i.s)[1] /\ Gather(i.s)[2] = Lo(i.s)[2] BY DEF Gather
<1>4. CASE i.op = "vextract"
  BY <1>2, <1>4 DEF Cpu!Stored, Stores, Out, Half128, math_vextract128
<1>5. CASE i.op # "vextract"
  BY <1>1, <1>2, <1>3, <1>5 DEF Cpu!Stored, Stores, Storing
<1> QED BY <1>4, <1>5

-----------------------------------------------------------------------------
(* The thread                                                                *)

LEMMA InitTypeOK == Init => TypeOK
PROOF
<1> SUFFICES ASSUME Init PROVE TypeOK OBVIOUS
<1>1. Cleared \in File BY Lanes DEF Cleared, File
<1>2. low \in File /\ mem \in Whole BY StartAssumption DEF Init, File
<1>3. frames \in Seq(File) /\ Len(frames) <= MaxDepth
  BY StartAssumption, EmptySeq DEF Init
<1>4. trap = "none" /\ insn = NoInsn /\ upper \in File /\ uc \in File
  BY <1>1 DEF Init
<1>5. at \in Nat /\ traps \in 0 .. MaxTraps BY StartAssumption DEF Init
<1>6. alive \in BOOLEAN /\ astray \in BOOLEAN BY Zenon DEF Init
<1> QED BY <1>2, <1>3, <1>4, <1>5, <1>6 DEF TypeOK

\* The frame that a returning handler leaves was the last.
LEMMA Popped ==
  ASSUME TypeOK, frames # <<>>
  PROVE  LET n == Len(frames)
             rest == SubSeq(frames, 1, n - 1)
         IN /\ n \in Nat \ {0} /\ frames[n] \in File
            /\ rest \in Seq(File) /\ Len(rest) = n - 1
            /\ \A k \in 1 .. n - 1 : rest[k] = frames[k]
PROOF
<1> DEFINE n == Len(frames)
<1>1. frames \in Seq(File) BY DEF TypeOK
<1>2. n \in Nat \ {0} BY <1>1, EmptySeq
<1>3. \A k \in 1 .. n : frames[k] \in File BY <1>1
<1>4. 1 \in Int /\ n - 1 \in Int /\ \A k \in 1 .. n - 1 : frames[k] \in File
  BY <1>2, <1>3
<1> HIDE DEF n
<1>5. /\ SubSeq(frames, 1, n - 1) \in Seq(File)
      /\ Len(SubSeq(frames, 1, n - 1)) = IF 1 <= n - 1 THEN (n - 1) - 1 + 1 ELSE 0
      /\ \A k \in 1 .. (n - 1) - 1 + 1 : SubSeq(frames, 1, n - 1)[k] = frames[1 + k - 1]
  BY <1>4, SubSeqProperties
<1>6. Len(SubSeq(frames, 1, n - 1)) = n - 1 BY <1>2, <1>5
<1>7. \A k \in 1 .. n - 1 : SubSeq(frames, 1, n - 1)[k] = frames[k] BY <1>2, <1>5
<1> QED BY <1>2, <1>3, <1>5, <1>6, <1>7 DEF n

LEMMA NextTypeOK == TypeOK /\ [Next]_vars => TypeOK'
PROOF
<1> SUFFICES ASSUME TypeOK, [Next]_vars PROVE TypeOK' OBVIOUS
<1>1. Cleared \in File BY Lanes DEF Cleared, File
<1>2. ASSUME NEW i \in Instructions, Trap(i) PROVE TypeOK'
  <2>1. i \in Instruction /\ WellFormed(i) BY DataAssumption
  <2> QED BY <1>1, <1>2, <2>1, StartAssumption DEF TypeOK, Trap
<1>3. CASE TrapBlocked BY <1>3 DEF TypeOK, TrapBlocked
<1>4. CASE Emulate
  <2>1. trap = "trapped" /\ insn \in Instruction /\ WellFormed(insn)
    BY <1>4 DEF Emulate, TypeOK
  <2>2. uc' \in File /\ upper' \in File
    <3>1. CASE insn.op = "vzero" \/ insn.d = Mem
      BY <1>1, <1>4, <3>1 DEF Emulate, TypeOK
    <3>2. CASE ~(insn.op = "vzero" \/ insn.d = Mem)
      <4>1. Writes(insn) BY <2>1, <3>2 DEF Writes
      <4>2. NewLow(insn) \in File /\ NewHigh(insn) \in File BY <4>1, NewType
      <4> QED BY <1>4, <3>2, <4>2 DEF Emulate
    <3> QED BY <3>1, <3>2
  <2>3. mem' \in Whole
    <3>1. CASE insn.d = Mem BY <1>4, <2>1, <3>1, StoresType DEF Emulate
    <3>2. CASE insn.d # Mem BY <1>4, <3>2 DEF Emulate, TypeOK
    <3> QED BY <3>1, <3>2
  <2>4. astray' \in BOOLEAN
    BY <1>4, Zenon DEF Emulate
  <2> QED BY <1>4, <2>1, <2>2, <2>3, <2>4 DEF Emulate, TypeOK
<1>5. CASE Resume BY <1>1, <1>5 DEF TypeOK, Resume
<1>6. CASE Deliver
  <2>1. frames' \in Seq(File) /\ Len(frames') = Len(frames) + 1
    BY <1>6, AppendProperties DEF TypeOK, Deliver
  <2>2. Len(frames) \in Nat /\ Len(frames) < MaxDepth
    BY <1>6, LenProperties DEF TypeOK, Deliver
  <2>3. Len(frames') <= MaxDepth /\ (trap # "none" => at' <= Len(frames'))
    BY <1>6, <2>1, <2>2, StartAssumption DEF TypeOK, Deliver
  <2> QED BY <1>1, <1>6, <2>1, <2>3 DEF TypeOK, Deliver
<1>7. CASE HandlerReturns
  <2>1. /\ Len(frames) \in Nat \ {0} /\ frames[Len(frames)] \in File
        /\ frames' \in Seq(File) /\ Len(frames') = Len(frames) - 1
    BY <1>7, Popped DEF HandlerReturns
  <2>2. Len(frames') <= MaxDepth /\ (trap # "none" => at' <= Len(frames'))
    BY <1>7, <2>1, StartAssumption DEF TypeOK, HandlerReturns, Emulating
  <2> QED BY <1>7, <2>1, <2>2 DEF TypeOK, HandlerReturns
<1>8. CASE UNCHANGED vars BY <1>8 DEF TypeOK, vars
<1> QED BY <1>2, <1>3, <1>4, <1>5, <1>6, <1>7, <1>8 DEF Next

\* The registers and the memory operand hold quads at every step, and the frame
\* of the emulator is on the stack as long as it runs.
THEOREM TypeCorrect == Spec => []TypeOK
BY InitTypeOK, NextTypeOK, PTL DEF Spec

-----------------------------------------------------------------------------
(* Refinement                                                                *)

\* What the interrupted code sees, level by level.
Stack == [k \in 1 .. Len(frames) |-> Interrupted(k)]

\* The registers make up whole registers.
LEMMA WideType == \A l, u \in File : Wide(l, u) \in Cpu!File
BY SameData DEF File, Half, Whole, Wide, Cpu!File

LEMMA SeenIsWide ==
  /\ Running = Wide(IF Emulating THEN uc ELSE low, upper)
  /\ \A k : Interrupted(k) = Wide(IF trap # "none" /\ at = k - 1 THEN uc ELSE frames[k], upper)
BY DEF Running, Interrupted, Joined, Wide

LEMMA InitRefines == Init => Cpu!Init
PROOF
<1> SUFFICES ASSUME Init PROVE Cpu!Init OBVIOUS
<1>1. TypeOK BY InitTypeOK
<1>2. Running \in Cpu!File BY <1>1, WideType, SeenIsWide DEF TypeOK
<1>3. mem \in Cpu!Whole BY <1>1, SameData DEF TypeOK
<1>4. Stack = <<>>
  <2>1. Len(frames) = 0 BY EmptySeq DEF Init
  <2> QED BY <2>1 DEF Stack
<1> QED BY <1>2, <1>3, <1>4 DEF Cpu!Init, Stack

\* Without a divergence an emulated instruction does what the architecture says.
LEMMA EmulateRefines ==
  ASSUME TypeOK, Emulate, ~astray' PROVE Cpu!Execute(insn)
PROOF
<1>1. /\ trap = "trapped" /\ Emulating /\ Emulating'
      /\ insn \in Instruction /\ WellFormed(insn)
  BY DEF Emulate, Emulating, TypeOK
<1>2. ~Diverges(insn) /\ (frames = <<>> \/ upper' = upper)
  BY DEF Emulate
<1>3. Running = Wide(uc, upper) /\ Running' = Wide(uc', upper')
  BY <1>1, SeenIsWide DEF Wide, Running, Joined
<1>4. Running' = IF insn.op = "vzero" THEN Cpu!Zeroed(insn)
                 ELSE IF insn.d = Mem THEN Running
                 ELSE [Running EXCEPT ![insn.d] = Cpu!Value(insn)]
  <2>1. CASE insn.op = "vzero"
    <3>1. insn.L = 0 BY <1>1, <1>2, <2>1 DEF Diverges, Instruction
    <3>2. uc' = uc /\ upper' = Cleared BY <2>1 DEF Emulate
    <3>3. \A r \in Register : Running[r][1] = uc[r][1] /\ Running[r][2] = uc[r][2]
      BY <1>3 DEF Wide
    <3>4. \A r \in Register : Cleared[r] = <<Zero, Zero>> BY DEF Cleared, Zeros
    <3>5. Running' = [r \in Register |-> <<uc[r][1], uc[r][2], Zero, Zero>>]
      BY <1>3, <3>2, <3>4 DEF Wide
    <3>6. Cpu!Zeroed(insn) = [r \in Register |-> <<uc[r][1], uc[r][2], Zero, Zero>>]
      BY <3>1, <3>3, SameData DEF Cpu!Zeroed, Cpu!Low
    <3> QED BY <2>1, <3>5, <3>6
  <2>2. CASE insn.op # "vzero" /\ insn.d = Mem
    BY <1>3, <2>2 DEF Emulate
  <2>3. CASE insn.op # "vzero" /\ insn.d # Mem
    <3>1. uc' = NewLow(insn) /\ upper' = NewHigh(insn) BY <2>3 DEF Emulate
    <3>2. Writes(insn) BY <1>1, <2>3 DEF Writes
    <3>3. Wide(NewLow(insn), NewHigh(insn)) = [Running EXCEPT ![insn.d] = Cpu!Value(insn)]
      BY <1>1, <1>2, <3>2, WriteActs
    <3> QED BY <1>3, <2>3, <3>1, <3>3
  <2> QED BY <2>1, <2>2, <2>3
<1>5. mem' = IF insn.d = Mem THEN Cpu!Stored(insn) ELSE mem
  BY <1>1, StoreActs DEF Emulate
<1>6. Stack' = Stack
  <2>1. frames' = frames /\ at = Len(frames) /\ at' = at
    BY <1>1 DEF Emulate, Emulating
  <2>2. Len(frames) \in Nat BY LenProperties DEF TypeOK
  <2>3. ASSUME NEW k \in 1 .. Len(frames) PROVE Interrupted(k)' = Interrupted(k)
    <3>1. at # k - 1 /\ at' # k - 1 BY <2>1, <2>2
    <3>2. frames # <<>> BY <2>2, EmptySeq
    <3>3. upper' = upper BY <1>2, <3>2
    <3> QED BY <2>1, <3>1, <3>3 DEF Interrupted, Joined
  <2> QED BY <2>1, <2>3 DEF Stack
<1> QED BY <1>4, <1>5, <1>6, SameData DEF Cpu!Execute, Stack

\* A signal saves whole registers, and its handler finds some.
LEMMA DeliverRefines ==
  ASSUME TypeOK, Deliver PROVE Cpu!Deliver
PROOF
<1> DEFINE n == Len(frames)
<1>1. n \in Nat /\ frames \in Seq(File) /\ low \in File BY LenProperties DEF TypeOK
<1>2. /\ Len(frames') = n + 1 /\ frames'[n + 1] = low
      /\ \A k \in 1 .. n : frames'[k] = frames[k]
  BY <1>1, AppendProperties DEF Deliver
<1>3. trap' = trap /\ at' = at /\ uc' = uc /\ upper' = upper /\ low' = Cleared /\ mem' = mem
  BY DEF Deliver
<1>4. trap # "none" => at \in Nat /\ at <= n BY DEF TypeOK
<1> HIDE DEF n
<1>5. ~Emulating' BY <1>1, <1>2, <1>3, <1>4 DEF Emulating
<1>6. Running' \in Cpu!File
  <2>1. upper \in File /\ Cleared \in File BY Lanes DEF TypeOK, Cleared, File
  <2>2. Running' = Wide(Cleared, upper) BY <1>3, <1>5 DEF Running, Joined, Wide
  <2> QED BY <2>1, <2>2, WideType
<1>7. Stack' = Append(Stack, Running)
  <2>1. ASSUME NEW k \in 1 .. n PROVE Interrupted(k)' = Interrupted(k)
    BY <1>2, <1>3, <2>1 DEF Interrupted, Joined
  <2>2. ASSUME NEW k, k = n + 1 PROVE Interrupted(k)' = Running
    <3>1. Emulating <=> trap # "none" /\ at = k - 1 BY <1>1, <2>2 DEF Emulating, n
    <3> QED BY <1>2, <1>3, <2>2, <3>1 DEF Interrupted, Running, Joined
  <2>3. Stack' = [k \in 1 .. n + 1 |-> Interrupted(k)'] BY <1>2 DEF Stack
  <2>4. Append(Stack, Running) = [k \in 1 .. n + 1 |-> IF k = n + 1 THEN Running ELSE Stack[k]]
    <3>1. Stack = [k \in 1 .. n |-> Interrupted(k)] BY DEF Stack, n
    <3> QED BY <1>1, <3>1
  <2>5. ASSUME NEW k \in 1 .. n + 1
        PROVE  Interrupted(k)' = IF k = n + 1 THEN Running ELSE Stack[k]
    <3>1. CASE k = n + 1 BY <2>2, <3>1
    <3>2. CASE k # n + 1
      <4>1. k \in 1 .. n BY <1>1, <3>2
      <4>2. Stack[k] = Interrupted(k) BY <4>1 DEF Stack, n
      <4> QED BY <2>1, <3>2, <4>1, <4>2
    <3> QED BY <3>1, <3>2
  <2> QED BY <2>3, <2>4, <2>5
<1> QED BY <1>3, <1>6, <1>7 DEF Cpu!Deliver, Stack

\* When it returns, the interrupted code has its whole registers again.
LEMMA HandlerReturnsRefines ==
  ASSUME TypeOK, HandlerReturns PROVE Cpu!Return
PROOF
<1> DEFINE n == Len(frames)
<1>1. /\ n \in Nat \ {0} /\ Len(frames') = n - 1
      /\ \A k \in 1 .. n - 1 : frames'[k] = frames[k]
      /\ low' = frames[n]
  BY Popped DEF HandlerReturns
<1>2. trap' = trap /\ at' = at /\ uc' = uc /\ upper' = upper /\ mem' = mem
  BY DEF HandlerReturns
<1>3. Stack = [k \in 1 .. n |-> Interrupted(k)] BY DEF Stack
<1> HIDE DEF n
<1>4. Stack # <<>> /\ Len(Stack) = n /\ Stack[n] = Interrupted(n)
  <2>1. Len(Stack) = n /\ Stack[n] = Interrupted(n) BY <1>1, <1>3
  <2> QED BY <1>1, <2>1, EmptySeq
<1>5. Running' = Interrupted(n)
  <2>1. Emulating' <=> trap # "none" /\ at = n - 1 BY <1>1, <1>2 DEF Emulating
  <2> QED BY <1>1, <1>2, <2>1 DEF Running, Interrupted, Joined
<1>6. Stack' = SubSeq(Stack, 1, n - 1)
  <2>1. ASSUME NEW k \in 1 .. n - 1 PROVE Interrupted(k)' = Interrupted(k)
    BY <1>1, <1>2, <2>1 DEF Interrupted, Joined
  <2>2. Stack' = [k \in 1 .. n - 1 |-> Interrupted(k)'] BY <1>1 DEF Stack
  <2>3. SubSeq(Stack, 1, n - 1) = [k \in 1 .. n - 1 |-> Stack[k]]
    BY <1>1, <1>3
  <2>4. \A k \in 1 .. n - 1 : Stack[k] = Interrupted(k) BY <1>1, <1>3
  <2> QED BY <2>1, <2>2, <2>3, <2>4
<1> QED BY <1>2, <1>4, <1>5, <1>6 DEF Cpu!Return, Stack

\* Entering and leaving the emulator changes nothing that the code can see.
LEMMA OthersStutter ==
  ASSUME TypeOK, Resume \/ TrapBlocked \/ (\E i \in Instructions : Trap(i)) \/ UNCHANGED vars
  PROVE  UNCHANGED Cpu!vars
PROOF
<1>1. mem' = mem /\ frames' = frames /\ upper' = upper
  BY DEF Resume, TrapBlocked, Trap, vars
<1>2. Len(frames) \in Nat BY LenProperties DEF TypeOK
<1>3. CASE Resume
  <2>1. Emulating /\ ~Emulating' /\ low' = uc /\ at = Len(frames) /\ trap' = "none"
    BY <1>3 DEF Resume, Emulating
  <2>2. Running' = Running BY <1>1, <2>1 DEF Running, Joined
  <2>3. \A k \in 1 .. Len(frames) : Interrupted(k)' = Interrupted(k)
    BY <1>1, <1>2, <2>1 DEF Interrupted, Joined
  <2>4. Stack' = Stack BY <1>1, <2>3 DEF Stack
  <2> QED BY <1>1, <2>2, <2>4 DEF Cpu!vars, Stack
<1>4. CASE \E i \in Instructions : Trap(i)
  <2>1. trap = "none" /\ trap' = "trapped" /\ uc' = low /\ at' = Len(frames)
    BY <1>4 DEF Trap
  <2>2. Running' = Running BY <1>1, <2>1 DEF Running, Joined, Emulating
  <2>3. \A k \in 1 .. Len(frames) : Interrupted(k)' = Interrupted(k)
    BY <1>1, <1>2, <2>1 DEF Interrupted, Joined
  <2>4. Stack' = Stack BY <1>1, <2>3 DEF Stack
  <2> QED BY <1>1, <2>2, <2>4 DEF Cpu!vars, Stack
<1>5. CASE TrapBlocked \/ UNCHANGED vars
  <2>1. low' = low /\ uc' = uc /\ trap' = trap /\ at' = at
    BY <1>5 DEF TrapBlocked, vars
  <2>2. Running' = Running BY <1>1, <2>1 DEF Running, Joined, Emulating
  <2>3. Stack' = Stack BY <1>1, <2>1 DEF Stack, Interrupted, Joined
  <2> QED BY <1>1, <2>2, <2>3 DEF Cpu!vars, Stack
<1> QED BY <1>3, <1>4, <1>5

\* The emulated thread is a thread on a processor with AVX, whatever traps and
\* however the signals nest, until one of the known divergences happens.
THEOREM Refinement == Spec => ActsAsAvx
PROOF
<1> DEFINE Step == \/ astray'
                   \/ Emulate /\ Cpu!Execute(insn)
                   \/ Deliver /\ Cpu!Deliver
                   \/ HandlerReturns /\ Cpu!Return
                   \/ UNCHANGED Cpu!vars
<1>1. TypeOK /\ [Next]_vars => [Step]_vars
  <2> SUFFICES ASSUME TypeOK, [Next]_vars PROVE Step OBVIOUS
  <2>1. CASE Emulate BY <2>1, EmulateRefines
  <2>2. CASE Deliver BY <2>2, DeliverRefines
  <2>3. CASE HandlerReturns BY <2>3, HandlerReturnsRefines
  <2>4. CASE Resume \/ TrapBlocked \/ (\E i \in Instructions : Trap(i)) \/ UNCHANGED vars
    BY <2>4, OthersStutter
  <2> QED BY <2>1, <2>2, <2>3, <2>4 DEF Next
<1> HIDE DEF Step
<1>2. Spec => Cpu!Init /\ [][Step]_vars
  BY <1>1, InitRefines, TypeCorrect, PTL DEF Spec
<1> QED BY <1>2 DEF ActsAsAvx, Step
=============================================================================
