---------------------------- MODULE MCSseMath ----------------------------
(* Programs and operands of SseMath.  Register 0 is the block or the first   *)
(* factor, register 1 a key or the second factor, 2 to 4 further keys.       *)
EXTENDS SseMath, TLC

CONSTANT none

\* What the proofs take from TLC: both tables of the program are those of FIPS 197,
\* and undo each other.
ASSUME TablesAreRight == TablesAreDefined /\ TablesAreInverse

I(op, d, s) == [op |-> op, d |-> d, s |-> s, imm |-> 0]
Clmul(d, s, imm) == [op |-> "pclmulqdq", d |-> d, s |-> s, imm |-> imm]

\* One to three rounds, and back.
MCSchedules == {<<1, 2>>, <<1, 2, 3>>, <<1, 2, 3, 4>>}

\* The destination is the source.
Doubled == <<I("aesenc", 0, 0), I("aesdec", 0, 0), I("aesenclast", 0, 0), I("aesdeclast", 0, 0)>>

MCProgram ==
  Undoing \cup {Doubled, <<Clmul(0, 0, 16), Clmul(0, 1, 0)>>}
    \cup {<<Clmul(0, 1, imm)>> : imm \in {0, 1, 16, 17, 238}}

\* Every byte value, at a place that moves with n.
Counting(n) == Packed([k \in Index |-> Bits((16 * n + 7 * k) % 256)])
\* Terms at the ends of the halves, sparse and dense factors.
Sparse == {{}, {0}, {63}, {64}, {127}, {0, 63, 64, 127}, {5, 31, 32, 70, 126}}
Dense == {Bit, {k \in Bit : k % 3 = 1}, Counting(3)}

MCReg == 0 .. 4
MCStart ==
  {[r \in MCReg |-> Counting(n + 5 * r)] : n \in 0 .. 15} \cup
  {[r \in MCReg |-> IF r = 0 THEN x ELSE y] : x, y \in Sparse \cup Dense}
=============================================================================
