---------------------------- MODULE SseMathProofs ----------------------------
(***************************************************************************)
(* What TLAPS proves of SseMath: its types and the carry-less product for  *)
(* every width, program and operand, that the AES instructions leave what  *)
(* FIPS 197 defines for every state, and that decryption with any number   *)
(* of rounds undoes encryption.                                            *)
(***************************************************************************)
EXTENDS SseMath, FiniteSetTheorems, TLAPS

Half == 0 .. W - 1

(* The loop has consumed the bits of b below i. *)
LoopInv == stage = "multiply" => temp_b = {k \in Half : k + i \in b}

(* The terms of the product that the loop has added at position k. *)
Added(k) == {j \in b : j < i /\ k - j \in a}

(* What the loop of emulate_pclmulqdq knows. *)
MulInv ==
  stage = "multiply" =>
    /\ last.op = "pclmulqdq" /\ xmm = before
    /\ a = Selected(before[last.d], last.imm % 2)
    /\ b = Selected(before[last.s], (last.imm \div 16) % 2)
    /\ low = {k \in Half : Odd(Added(k))}
    /\ high = {k \in Half : Odd(Added(k + W))}

(* The other emulators do not run a PCLMULQDQ. *)
OtherInv == stage \notin {"fetch", "multiply"} => last.op # "pclmulqdq"

(* What tmp holds before each step of an emulator: the operand, and then     *)
(* what FIPS 197 gives for the steps so far.                                 *)
Operand == Bytes(before[last.d])
Key == Bytes(before[last.s])
AesInv ==
  /\ stage # "fetch" => xmm = before
  /\ stage = "shift_rows" => last.op \in {"aesenc", "aesenclast"} /\ tmp = Operand
  /\ stage = "sub_bytes" =>
       last.op \in {"aesenc", "aesenclast"} /\ tmp = Shifted(Operand)
  /\ stage = "mix_columns" =>
       last.op = "aesenc" /\ tmp = Mapped(Substitutes, Shifted(Operand))
  /\ stage = "inv_shift_rows" => last.op \in {"aesdec", "aesdeclast"} /\ tmp = Operand
  /\ stage = "inv_sub_bytes" =>
       last.op \in {"aesdec", "aesdeclast"} /\ tmp = Unshifted(Operand)
  /\ stage = "inv_mix_columns" =>
       \/ last.op = "aesdec" /\ tmp = Mapped(Unsubstitutes, Unshifted(Operand))
       \/ last.op = "aesimc" /\ tmp = Key
  /\ stage = "add_key" =>
       \/ last.op = "aesenc" /\ tmp = Mixed(Mapped(Substitutes, Shifted(Operand)), Direct)
       \/ last.op = "aesenclast" /\ tmp = Mapped(Substitutes, Shifted(Operand))
       \/ last.op = "aesdec"
            /\ tmp = Mixed(Mapped(Unsubstitutes, Unshifted(Operand)), Inverted)
       \/ last.op = "aesdeclast" /\ tmp = Mapped(Unsubstitutes, Unshifted(Operand))
  /\ stage = "copy" => last.op = "aesimc" /\ tmp = Mixed(Key, Inverted)
  /\ stage = "multiply" => last.op = "pclmulqdq"

TypeInv == TypeOK /\ LoopInv
ClmulInv == MulInv /\ OtherInv /\ ClmulIsTheProduct

-----------------------------------------------------------------------------
(* Bytes and states *)

(* The sum of two bytes is a byte. *)
LEMMA XorByte == \A x, y \in Byte : Xor(x, y) \in Byte
BY DEF Xor, Byte

(* Doubling a byte gives a byte. *)
LEMMA GmulByte == \A x \in Byte : gmul2(x) \in Byte /\ gmul4(x) \in Byte /\ gmul8(x) \in Byte
<1>1. \A x \in Byte : gmul2(x) \in Byte
  BY DEF gmul2, Byte, Xor
<1> QED BY <1>1 DEF gmul4, gmul8

(* The bytes of a column are bytes. *)
LEMMA BelowByte == \A s \in State, n \in Index, r \in 0 .. 3 : Below(s, n, r) \in Byte
<1> SUFFICES ASSUME NEW s \in State, NEW n \in Index, NEW r \in 0 .. 3
             PROVE Below(s, n, r) \in Byte
  OBVIOUS
<1>1. 4 * (n \div 4) + ((n + r) % 4) \in Index
  BY DEF Index
<1> QED BY <1>1 DEF Below, State

(* The column steps give states. *)
LEMMA ColumnsState ==
  ASSUME NEW s \in State
  PROVE  mix_columns(s) \in State /\ inv_mix_columns(s) \in State
<1>1. ASSUME NEW n \in Index PROVE ColumnSum(s, n) \in Byte
  BY BelowByte, XorByte DEF ColumnSum
<1>2. mix_columns(s) \in State
  BY <1>1, BelowByte, XorByte, GmulByte DEF mix_columns, State
<1>3. ASSUME NEW n \in Index PROVE Correction(s, n) \in Byte
  BY <1>1, BelowByte, XorByte, GmulByte DEF Correction
<1>4. inv_mix_columns(s) \in State
  BY <1>2, <1>3, XorByte DEF inv_mix_columns, State
<1> QED BY <1>2, <1>4

(* A rotation of places gives a state. *)
LEMMA RotateState ==
  ASSUME NEW s \in State, NEW c \in Seq(Index)
  PROVE  Rotate(s, c) \in State
<1> SUFFICES ASSUME NEW n \in Index PROVE Rotate(s, c)[n] \in Byte
  BY DEF Rotate, State
<1>1. CASE \E m \in DOMAIN c : c[m] = n
  <2> DEFINE m == CHOOSE m \in DOMAIN c : c[m] = n
  <2>1. m \in DOMAIN c BY <1>1
  <2>2. (m % Len(c)) + 1 \in DOMAIN c BY <2>1
  <2>3. c[(m % Len(c)) + 1] \in Index BY <2>2
  <2> QED BY <1>1, <2>3 DEF Rotate, State
<1>2. CASE ~ \E m \in DOMAIN c : c[m] = n
  BY <1>2 DEF Rotate, State
<1> QED BY <1>1, <1>2

(* The steps of the row shifts, one rotation at a time, give states. *)
LEMMA RotationsState ==
  ASSUME NEW s \in State
  PROVE  /\ SwapRow2(s) \in State
         /\ Rotate(s, <<1, 5, 9, 13>>) \in State /\ Rotate(s, <<15, 11, 7, 3>>) \in State
         /\ Rotate(s, <<13, 9, 5, 1>>) \in State /\ Rotate(s, <<3, 7, 11, 15>>) \in State
<1>1. /\ <<1, 5, 9, 13>> \in Seq(Index) /\ <<15, 11, 7, 3>> \in Seq(Index)
      /\ <<13, 9, 5, 1>> \in Seq(Index) /\ <<3, 7, 11, 15>> \in Seq(Index)
      /\ <<2, 10>> \in Seq(Index) /\ <<6, 14>> \in Seq(Index)
  BY DEF Index
<1> QED BY <1>1, RotateState DEF SwapRow2

(* The row steps give states. *)
LEMMA RowsState ==
  ASSUME NEW s \in State
  PROVE  shift_rows(s) \in State /\ inv_shift_rows(s) \in State
BY RotationsState DEF shift_rows, inv_shift_rows

(* The substitutions give states. *)
LEMMA SubState ==
  ASSUME NEW s \in State
  PROVE  sub_bytes(s) \in State /\ inv_sub_bytes(s) \in State
<1>1. \A v : Bits(v) \in Byte
  BY DEF Bits, Byte
<1>2. \A x \in Byte : SubOf[x] \in Byte /\ InvSubOf[x] \in Byte
  BY <1>1 DEF SubOf, InvSubOf
<1> QED BY <1>2 DEF sub_bytes, inv_sub_bytes, State

(* The bytes of a register are a state. *)
LEMMA BytesState == \A r : Bytes(r) \in State
BY DEF Bytes, State, Byte

-----------------------------------------------------------------------------
(* Types *)

(* The initial state has its types. *)
LEMMA InitType == Init => TypeInv
<1> SUFFICES ASSUME Init PROVE TypeInv
  OBVIOUS
<1>1. xmm \in [Reg -> SUBSET Bit] /\ prog \in Seq(Instruction)
  BY MathAssumption DEF Init
<1>2. Zeros \in State
  BY DEF Zeros, State, Byte
<1> QED BY <1>1, <1>2, MathAssumption DEF Init, TypeInv, TypeOK, LoopInv, Stage

(* The instruction under way is one. *)
LEMMA CurrentInstruction ==
  ASSUME TypeOK, prog # <<>>
  PROVE  /\ Current \in Instruction /\ Current.d \in Reg /\ Current.s \in Reg
         /\ Tail(prog) \in Seq(Instruction)
<1>1. prog \in Seq(Instruction)
  BY DEF TypeOK
<1>2. Head(prog) \in Instruction /\ Tail(prog) \in Seq(Instruction)
  BY <1>1
<1>3. \A inst \in Instruction : inst.d \in Reg /\ inst.s \in Reg
  BY DEF Instruction
<1> QED BY <1>2, <1>3 DEF Current

(* A call of an emulator keeps the types, whatever it sets its locals to. *)
LEMMA FetchType ==
  ASSUME TypeInv, NEW op, NEW next \in Stage \ {"multiply"}, Fetch(op, next),
         tmp' \in State, UNCHANGED mulVars
  PROVE  TypeInv'
<1>1. Current \in Instruction
  BY CurrentInstruction DEF TypeInv, Fetch
<1> QED BY <1>1 DEF TypeInv, TypeOK, LoopInv, Fetch, mulVars, Current

(* A step of the transformation keeps the types. *)
LEMMA TransformType ==
  ASSUME TypeInv, NEW now \in Stage \ {"fetch"}, NEW s \in State,
         NEW next \in Stage \ {"multiply", "fetch"}, Transform(now, s, next)
  PROVE  TypeInv'
BY DEF TypeInv, TypeOK, LoopInv, Transform, mulVars, history, Current

(* The end of an emulator keeps the types. *)
LEMMA FinishType ==
  ASSUME TypeInv, NEW value \in SUBSET Bit, prog # <<>>, Finish(value)
  PROVE  TypeInv'
<1>1. Current.d \in Reg /\ Tail(prog) \in Seq(Instruction)
  BY CurrentInstruction DEF TypeInv
<1>2. xmm' \in [Reg -> SUBSET Bit]
  BY <1>1 DEF TypeInv, TypeOK, Finish
<1> QED BY <1>1, <1>2 DEF TypeInv, TypeOK, LoopInv, Finish, mulVars, history, Stage

(* An iteration keeps the types: it runs for i < W only. *)
LEMMA IterateType == ASSUME TypeInv, Iterate PROVE TypeInv'
<1>1. i < W /\ i \in Nat
  <2>1. PICK k \in temp_b : TRUE BY DEF Iterate
  <2>2. k \in Half /\ k + i \in b BY <2>1 DEF TypeInv, LoopInv, Iterate
  <2> QED BY <2>2, MathAssumption DEF TypeInv, TypeOK, Half
<1>2. low' \subseteq Half /\ high' \subseteq Half
  BY DEF TypeInv, TypeOK, Iterate, Carried, Xor, Shl, Shr, Half
<1>3. 1 % W = 1
  BY MathAssumption
<1>4. temp_b' = {k \in Half : k + i' \in b'}
  <2>1. temp_b = {k \in Half : k + i \in b}
    BY DEF TypeInv, LoopInv, Iterate
  <2>2. temp_b' = {k \in Half : k + 1 \in temp_b}
    BY <1>3 DEF Iterate, Rest, Shr, Half
  <2>3. \A k \in Half : k + 1 \in temp_b <=> k + (i + 1) \in b
    BY <2>1, <1>1, MathAssumption DEF TypeInv, TypeOK, Half
  <2> QED BY <2>2, <2>3 DEF Iterate
<1>5. temp_b' \subseteq Half
  BY <1>4
<1> QED BY <1>1, <1>2, <1>4, <1>5, MathAssumption
        DEF TypeInv, TypeOK, LoopInv, Iterate, history, Half, Current

(* Every step keeps the types. *)
LEMMA NextType == ASSUME TypeInv, Next PROVE TypeInv'
<1> USE DEF Stage
<1>1. CASE Call
  <2>1. ASSUME NEW op, NEW next \in Stage \ {"multiply"}, CopyDest(op, next) PROVE TypeInv'
    BY <2>1, FetchType, BytesState DEF CopyDest
  <2>2. CASE CopySrc
    BY <2>2, FetchType, BytesState DEF CopySrc
  <2>3. CASE SelectHalves
    <3>1. Current \in Instruction
      BY <2>3, CurrentInstruction DEF TypeInv, SelectHalves, Fetch
    <3>2. a' \subseteq Half /\ b' \subseteq Half
      BY <2>3 DEF SelectHalves, HighHalf, LowHalf, Half
    <3>3. b' = {k \in Half : k + 0 \in b'}
      <4>1. \A k \in Half : k + 0 = k
        BY MathAssumption DEF Half
      <4>2. {k \in Half : k + 0 \in b'} = {k \in Half : k \in b'}
        BY <4>1
      <4> QED BY <3>2, <4>2
    <3> QED BY <2>3, <3>1, <3>2, <3>3, MathAssumption
            DEF TypeInv, TypeOK, LoopInv, SelectHalves, Fetch, Half, Current
  <2>4. CASE HostXor
    <3>1. Current \in Instruction /\ Current.d \in Reg /\ Current.s \in Reg
          /\ Tail(prog) \in Seq(Instruction)
      BY <2>4, CurrentInstruction DEF TypeInv, HostXor
    <3>2. xmm' \in [Reg -> SUBSET Bit]
      BY <2>4, <3>1 DEF TypeInv, TypeOK, HostXor, Xor
    <3> QED BY <2>4, <3>1, <3>2 DEF TypeInv, TypeOK, LoopInv, HostXor, mulVars
  <2> QED BY <1>1, <2>1, <2>2, <2>3, <2>4 DEF Call
<1>2. tmp \in State /\ (stage # "fetch" => prog # <<>>)
  BY DEF TypeInv, TypeOK
<1>3. CASE ShiftRows
  BY <1>2, <1>3, TransformType, RowsState DEF ShiftRows
<1>4. CASE SubBytes
  BY <1>2, <1>4, TransformType, SubState DEF SubBytes, On
<1>5. CASE MixColumns
  BY <1>2, <1>5, TransformType, ColumnsState DEF MixColumns
<1>6. CASE InvShiftRows
  BY <1>2, <1>6, TransformType, RowsState DEF InvShiftRows
<1>7. CASE InvSubBytes
  BY <1>2, <1>7, TransformType, SubState DEF InvSubBytes, On
<1>8. CASE InvMixColumns
  BY <1>2, <1>8, TransformType, ColumnsState DEF InvMixColumns, On
<1>9. \A s : Packed(s) \in SUBSET Bit
  BY DEF Packed
<1>10. CASE AddKey
  BY <1>2, <1>9, <1>10, FinishType DEF AddKey
<1>11. CASE CopyBack
  BY <1>2, <1>9, <1>11, FinishType DEF CopyBack
<1>12. CASE Iterate
  BY <1>12, IterateType
<1>13. CASE StoreProduct
  <2>1. Joined(low, high) \in SUBSET Bit
    <3>1. low \subseteq Half /\ high \subseteq Half
      BY DEF TypeInv, TypeOK, Half
    <3>2. \A k \in Half : k \in Bit /\ k + W \in Bit
      BY MathAssumption DEF Half, Bit
    <3> QED BY <3>1, <3>2 DEF Joined
  <2> QED BY <1>2, <1>13, <2>1, FinishType DEF StoreProduct
<1> QED BY <1>1, <1>3, <1>4, <1>5, <1>6, <1>7, <1>8, <1>10, <1>11, <1>12, <1>13 DEF Next

(* A stutter keeps the types. *)
LEMMA StutterType == TypeInv /\ UNCHANGED vars => TypeInv'
BY DEF TypeInv, TypeOK, LoopInv, vars, mulVars, history, Current

(* The emulators keep their types for every width: the loop's shift counts   *)
(* stay below the width, where C defines them.                               *)
THEOREM TypeCorrect == Spec => []TypeOK
<1>1. TypeInv /\ [Next]_vars => TypeInv'
  BY NextType, StutterType
<1>2. TypeInv => TypeOK
  BY DEF TypeInv
<1> QED BY InitType, <1>1, <1>2, PTL DEF Spec

-----------------------------------------------------------------------------
(* The carry-less product *)

(* One more element changes the parity. *)
LEMMA Flip ==
  ASSUME NEW S, IsFiniteSet(S), NEW x, x \notin S
  PROVE  Odd(S \cup {x}) <=> ~Odd(S)
<1>1. Cardinality(S) \in Nat
  BY FS_CardinalityType
<1>2. Cardinality(S \cup {x}) = Cardinality(S) + 1
  BY FS_AddElement
<1>3. \A n \in Nat : (n + 1) % 2 = 1 <=> ~(n % 2 = 1)
  OBVIOUS
<1> QED BY <1>1, <1>2, <1>3 DEF Odd

(* The parity of nothing. *)
LEMMA EvenEmpty == ~Odd({})
BY FS_EmptySet DEF Odd

(* A set of places in a half is finite. *)
LEMMA HalfFinite == \A S : S \subseteq Half => IsFiniteSet(S)
<1>1. IsFiniteSet(Half)
  BY FS_Interval, MathAssumption DEF Half
<1> QED BY <1>1, FS_Subset

(* A count below the width is not reduced by it. *)
LEMMA SmallCount == \A n \in Half : n % W = n
BY MathAssumption DEF Half

(* What an iteration adds: the term of bit i of b, where it reaches. *)
LEMMA AddedStep ==
  ASSUME b \subseteq Half, i \in Half, NEW p \in Int, Iterate
  PROVE  Odd(Added(p))' <=> IF i \in b /\ p - i \in a THEN ~Odd(Added(p)) ELSE Odd(Added(p))
<1>1. Added(p)' = {j \in b : j < i + 1 /\ p - j \in a}
  BY DEF Added, Iterate
<1>2. \A j \in b : j < i + 1 <=> j < i \/ j = i
  BY DEF Half
<1>3. ~(i < i)
  BY DEF Half
<1>4. i \notin Added(p)
  BY <1>3 DEF Added
<1>5. IsFiniteSet(Added(p))
  BY HalfFinite DEF Added
<1>6. Odd(Added(p))' <=> Odd(Added(p)')
  BY DEF Odd
<1>7. CASE i \in b /\ p - i \in a
  <2>1. Added(p)' = Added(p) \cup {i}
    BY <1>1, <1>2, <1>7 DEF Added
  <2> QED BY <2>1, <1>4, <1>5, <1>6, <1>7, Flip
<1>8. CASE ~(i \in b /\ p - i \in a)
  <2>1. Added(p)' = Added(p)
    BY <1>1, <1>2, <1>8 DEF Added
  <2> QED BY <2>1, <1>6, <1>8
<1> QED BY <1>7, <1>8

(* The selected halves are what PCLMULQDQ multiplies. *)
LEMMA Halves ==
  ASSUME NEW r, NEW n \in 0 .. 255
  PROVE  /\ (IF Set(n, 1) THEN HighHalf(r) ELSE LowHalf(r)) = Selected(r, n % 2)
         /\ (IF Set(n, 16) THEN HighHalf(r) ELSE LowHalf(r)) = Selected(r, (n \div 16) % 2)
<1>1. \A k \in Half : k + 0 * W = k /\ k + 1 * W = k + W
  BY MathAssumption DEF Half
<1>2. Selected(r, 0) = LowHalf(r) /\ Selected(r, 1) = HighHalf(r)
  BY <1>1 DEF Selected, LowHalf, HighHalf, Half
<1>3. n % 2 \in {0, 1} /\ (n \div 16) % 2 \in {0, 1} /\ n \div 1 = n
  OBVIOUS
<1> QED BY <1>2, <1>3 DEF Set

(* The start of the loop: no term has been added. *)
LEMMA SelectMul == ASSUME TypeInv, SelectHalves PROVE MulInv'
<1>1. Current \in Instruction
  BY CurrentInstruction DEF TypeInv, SelectHalves, Fetch
<1>2. Current.imm \in 0 .. 255 /\ last' = Current /\ before' = xmm /\ xmm' = xmm
  BY <1>1 DEF SelectHalves, Fetch, Instruction
<1>3. /\ a' = Selected(before'[last'.d], last'.imm % 2)
      /\ b' = Selected(before'[last'.s], (last'.imm \div 16) % 2)
  BY <1>2, Halves DEF SelectHalves
<1>4. b' \subseteq Half
  BY <1>3 DEF Selected, Half
<1>5. ASSUME NEW p \in Int PROVE ~Odd(Added(p))'
  <2>1. \A j \in Half : ~(j < 0)
    BY MathAssumption DEF Half
  <2>2. Added(p)' = {}
    BY <1>4, <2>1 DEF Added, SelectHalves
  <2>3. Odd(Added(p))' <=> Odd(Added(p)')
    BY DEF Odd
  <2> QED BY <2>2, <2>3, EvenEmpty
<1>6. \A k \in Half : k \in Int /\ k + W \in Int
  BY MathAssumption DEF Half
<1>7. /\ {k \in Half : Odd(Added(k))}' = {}
      /\ {k \in Half : Odd(Added(k + W))}' = {}
  BY <1>5, <1>6
<1> QED BY <1>2, <1>3, <1>7 DEF MulInv, SelectHalves, Fetch

(* An iteration adds the terms of one more bit of b. *)
LEMMA IterateMul == ASSUME TypeInv, MulInv, Iterate PROVE MulInv'
<1>1. stage = "multiply" /\ temp_b = {k \in Half : k + i \in b}
  BY DEF TypeInv, LoopInv, Iterate
<1>2. a \subseteq Half /\ b \subseteq Half /\ i \in 0 .. W /\ temp_b # {}
  BY DEF TypeInv, TypeOK, Half, Iterate
<1>3. i \in Half
  <2>1. PICK k \in Half : k + i \in b BY <1>1, <1>2
  <2> QED BY <2>1, <1>2, MathAssumption DEF Half
<1>4. 0 \in temp_b <=> i \in b
  BY <1>1, <1>3, MathAssumption DEF Half
<1>5. \A k \in Half : k \in Int /\ k + W \in Int
  BY MathAssumption DEF Half
<1>6. low' = {k \in Half : Odd(Added(k))'}
  <2>1. i % W = i
    BY <1>3, SmallCount
  <2>2. Shl(a, i) = {k \in Half : k - i \in a}
    BY <2>1 DEF Shl, Half
  <2>3. low = {k \in Half : Odd(Added(k))}
    BY <1>1 DEF MulInv
  <2>4. \A k \in Half : Odd(Added(k))' <=>
          IF i \in b /\ k - i \in a THEN ~Odd(Added(k)) ELSE Odd(Added(k))
    BY <1>2, <1>3, <1>5, AddedStep
  <2>5. low' = IF i \in b THEN Xor(low, Shl(a, i)) ELSE low
    BY <1>4 DEF Iterate
  <2> QED BY <2>2, <2>3, <2>4, <2>5 DEF Xor
<1>7. high' = {k \in Half : Odd(Added(k + W))'}
  <2>1. high = {k \in Half : Odd(Added(k + W))}
    BY <1>1 DEF MulInv
  <2>2. \A k \in Half : Odd(Added(k + W))' <=>
          IF i \in b /\ (k + W) - i \in a THEN ~Odd(Added(k + W)) ELSE Odd(Added(k + W))
    BY <1>2, <1>3, <1>5, AddedStep
  <2>3. high' = IF i \in b THEN Carried ELSE high
    BY <1>4 DEF Iterate
  <2>4. CASE i = 0
    <3>1. \A k \in Half : (k + W) - i \notin a
      BY <1>2, <2>4, MathAssumption DEF Half
    <3> QED BY <2>1, <2>2, <2>3, <2>4, <3>1 DEF Carried
  <2>5. CASE i # 0
    <3>1. W - i \in Half
      BY <1>3, <2>5, MathAssumption DEF Half
    <3>2. (W - i) % W = W - i
      BY <3>1, SmallCount
    <3>3. \A k \in Half : k + (W - i) = (k + W) - i
      BY <1>3, MathAssumption DEF Half
    <3>4. Shr(a, W - i) = {k \in Half : (k + W) - i \in a}
      BY <3>2, <3>3 DEF Shr, Half
    <3> QED BY <2>1, <2>2, <2>3, <2>5, <3>4 DEF Carried, Xor
  <2> QED BY <2>4, <2>5
<1> QED BY <1>1, <1>6, <1>7 DEF MulInv, Iterate, history

(* When nothing is left of b the accumulators hold the product. *)
LEMMA ProductOfHalves ==
  ASSUME TypeInv, MulInv, stage = "multiply", temp_b = {}
  PROVE  Joined(low, high) = Product(a, b)
<1>1. a \subseteq Half /\ b \subseteq Half /\ i \in 0 .. W
  BY DEF TypeInv, TypeOK, Half
<1>2. \A j \in b : j < i
  <2> SUFFICES ASSUME NEW j \in b, ~(j < i) PROVE FALSE
    OBVIOUS
  <2>1. j - i \in Half /\ (j - i) + i = j
    BY <1>1, MathAssumption DEF Half
  <2>2. j - i \in temp_b
    BY <2>1 DEF TypeInv, LoopInv
  <2> QED BY <2>2
<1>3. \A p : Added(p) = {j \in b : p - j \in a}
  BY <1>2 DEF Added
<1>4. \A k \in Half : k \in low <=> Odd({j \in b : k - j \in a})
  BY <1>3 DEF MulInv
<1>5. \A k \in Half : k \in high <=> Odd({j \in b : (k + W) - j \in a})
  BY <1>3 DEF MulInv
<1>6. low \subseteq Half /\ high \subseteq Half
  BY DEF TypeInv, TypeOK, Half
<1>7. ASSUME NEW p \in Bit PROVE p \in Joined(low, high) <=> p \in Product(a, b)
  <2>1. CASE p \in Half
    <3>1. \A k \in Half : p # k + W
      BY <2>1, MathAssumption DEF Half
    <3> QED BY <1>4, <1>6, <2>1, <3>1 DEF Joined, Product
  <2>2. CASE p \notin Half
    <3>1. p - W \in Half /\ (p - W) + W = p /\ \A k \in Half : p = k + W => k = p - W
      BY <2>2, MathAssumption DEF Half, Bit
    <3>2. p \in Joined(low, high) <=> p - W \in high
      BY <1>6, <2>2, <3>1 DEF Joined
    <3> QED BY <1>5, <3>1, <3>2 DEF Product
  <2> QED BY <2>1, <2>2
<1>8. Joined(low, high) \subseteq Bit
  <2>1. \A k \in Half : k \in Bit /\ k + W \in Bit
    BY MathAssumption DEF Half, Bit
  <2> QED BY <1>6, <2>1 DEF Joined
<1>9. Product(a, b) \subseteq Bit
  BY DEF Product
<1> QED BY <1>7, <1>8, <1>9

(* Every step keeps the invariant of the product. *)
LEMMA NextClmul == ASSUME TypeInv, ClmulInv, Next PROVE ClmulInv'
<1> USE DEF ClmulInv
<1>1. CASE Call
  <2>1. CASE SelectHalves
    <3>1. MulInv'
      BY <2>1, SelectMul
    <3> QED BY <2>1, <3>1 DEF SelectHalves, Fetch, OtherInv, ClmulIsTheProduct, Finished
  <2>2. ASSUME NEW op \in {"aesenc", "aesenclast", "aesdec", "aesdeclast", "aesimc"},
               NEW next \in Stage \ {"fetch", "multiply"}, Fetch(op, next)
        PROVE  ClmulInv'
    BY <2>2 DEF Fetch, MulInv, OtherInv, ClmulIsTheProduct, Finished, Stage
  <2>3. CASE HostXor
    BY <2>3 DEF HostXor, MulInv, OtherInv, ClmulIsTheProduct, Finished
  <2> QED BY <1>1, <2>1, <2>2, <2>3 DEF Call, CopyDest, CopySrc, Stage
<1>2. ASSUME NEW now \in Stage \ {"fetch", "multiply"}, NEW s,
             NEW next \in Stage \ {"fetch", "multiply"}, Transform(now, s, next)
      PROVE  ClmulInv'
  BY <1>2 DEF Transform, history, mulVars, MulInv, OtherInv, ClmulIsTheProduct, Finished
<1>3. CASE ShiftRows \/ SubBytes \/ MixColumns \/ InvShiftRows \/ InvSubBytes \/ InvMixColumns
  BY <1>2, <1>3 DEF ShiftRows, SubBytes, MixColumns, InvShiftRows, InvSubBytes,
                    InvMixColumns, On, Stage
<1>4. CASE AddKey \/ CopyBack
  <2>1. stage \notin {"fetch", "multiply"} /\ stage' = "fetch" /\ last' = last
    BY <1>4 DEF AddKey, CopyBack, Finish, history
  <2> QED BY <2>1 DEF MulInv, OtherInv, ClmulIsTheProduct, Finished
<1>5. CASE Iterate
  <2>1. MulInv'
    BY <1>5, IterateMul
  <2> QED BY <1>5, <2>1 DEF Iterate, history, OtherInv, ClmulIsTheProduct, Finished
<1>6. CASE StoreProduct
  <2>1. Joined(low, high) = Product(a, b)
    BY <1>6, ProductOfHalves DEF StoreProduct
  <2>2. stage' = "fetch" /\ last' = last /\ before' = before /\ last = Current
    BY <1>6 DEF StoreProduct, Finish, history, TypeInv, TypeOK
  <2>3. xmm' = [before EXCEPT ![last.d] = Product(a, b)]
    BY <1>6, <2>1, <2>2 DEF StoreProduct, Finish, MulInv
  <2> QED BY <1>6, <2>2, <2>3 DEF StoreProduct, MulInv, OtherInv, ClmulIsTheProduct, Finished
<1> QED BY <1>1, <1>3, <1>4, <1>5, <1>6 DEF Next

(* A stutter keeps the invariant of the product. *)
LEMMA StutterClmul == ClmulInv /\ UNCHANGED vars => ClmulInv'
<1> SUFFICES ASSUME ClmulInv, UNCHANGED vars PROVE ClmulInv'
  OBVIOUS
<1>1. MulInv' <=> MulInv
  BY DEF MulInv, Added, vars, mulVars, history
<1> QED BY <1>1 DEF ClmulInv, OtherInv, ClmulIsTheProduct, Finished, vars, mulVars, history

(* PCLMULQDQ leaves the carry-less product of the selected halves, whatever  *)
(* they are: the loop's early exit and its split into low and high lose no   *)
(* term.                                                                     *)
THEOREM CarrylessProduct == Spec => []ClmulIsTheProduct
<1>1. Init => ClmulInv
  BY MathAssumption DEF Init, ClmulInv, MulInv, OtherInv, ClmulIsTheProduct, Finished
<1>2. TypeInv /\ ClmulInv /\ [Next]_vars => (TypeInv /\ ClmulInv)'
  BY NextType, StutterType, NextClmul, StutterClmul
<1>3. ClmulInv => ClmulIsTheProduct
  BY DEF ClmulInv
<1> QED BY InitType, <1>1, <1>2, <1>3, PTL DEF Spec

-----------------------------------------------------------------------------
(* The columns *)

(* Doubling is the multiplication by x. *)
LEMMA TwiceIsGmul2 == \A x \in Byte : Twice(x) = gmul2(x)
BY DEF Twice, gmul2, Xor, Byte

(* Doubling is linear. *)
LEMMA GmulLinear ==
  \A x, y \in Byte : /\ gmul2(Xor(x, y)) = Xor(gmul2(x), gmul2(y))
                     /\ gmul4(Xor(x, y)) = Xor(gmul4(x), gmul4(y))
                     /\ gmul8(Xor(x, y)) = Xor(gmul8(x), gmul8(y))
<1>1. \A x, y \in Byte : gmul2(Xor(x, y)) = Xor(gmul2(x), gmul2(y))
  <2> SUFFICES ASSUME NEW x \in Byte, NEW y \in Byte
               PROVE  gmul2(Xor(x, y)) = Xor(gmul2(x), gmul2(y))
    OBVIOUS
  <2>1. ASSUME NEW z \in Byte, NEW k \in 0 .. 7
        PROVE  k \in gmul2(z) <=> ~(k - 1 \in z <=> (7 \in z /\ k \in {0, 1, 3, 4}))
    <3>1. k \in {m + 1 : m \in z \ {7}} <=> k - 1 \in z
      BY DEF Byte
    <3> QED BY <3>1 DEF gmul2, Xor
  <2>2. ASSUME NEW k \in 0 .. 7
        PROVE  k \in gmul2(Xor(x, y)) <=> k \in Xor(gmul2(x), gmul2(y))
    <3>1. \A m : m \in Xor(x, y) <=> ~(m \in x <=> m \in y)
      BY DEF Xor
    <3>2. k \in Xor(gmul2(x), gmul2(y)) <=> ~(k \in gmul2(x) <=> k \in gmul2(y))
      BY DEF Xor
    <3> QED BY <2>1, <3>1, <3>2, XorByte
  <2>3. gmul2(Xor(x, y)) \in Byte /\ Xor(gmul2(x), gmul2(y)) \in Byte
    BY XorByte, GmulByte
  <2> QED BY <2>2, <2>3 DEF Byte
<1> QED BY <1>1, XorByte, GmulByte DEF gmul4, gmul8

(* A byte is a finite set. *)
LEMMA FiniteByte == IsFiniteSet(0 .. 7)
<1>1. 0 \in Int /\ 7 \in Int
  OBVIOUS
<1> QED BY <1>1, FS_Interval, Zenon

(* One more term of the factor. *)
LEMMA TimesOneMore ==
  ASSUME NEW c \in Byte, NEW n \in 0 .. 3, n \notin c, NEW x \in Byte
  PROVE  Times(c \cup {n}, x) =
           Xor(Times(c, x), CASE n = 0 -> x [] n = 1 -> gmul2(x)
                              [] n = 2 -> gmul4(x) [] n = 3 -> gmul8(x))
<1> DEFINE x2 == Twice(x)
           x4 == Twice(x2)
           x8 == Twice(x4)
           x16 == Twice(x8)
           x32 == Twice(x16)
           x64 == Twice(x32)
           x128 == Twice(x64)
           power == <<x, x2, x4, x8, x16, x32, x64, x128>>
           terms(d, k) == {m \in d : k \in power[m + 1]}
<1>1. \A d : Times(d, x) = {k \in 0 .. 7 : Odd(terms(d, k))}
  BY DEF Times
<1>2. x2 = gmul2(x) /\ x4 = gmul4(x) /\ x8 = gmul8(x)
  BY TwiceIsGmul2, GmulByte DEF gmul4, gmul8
<1>3. power[n + 1] = CASE n = 0 -> x [] n = 1 -> gmul2(x)
                       [] n = 2 -> gmul4(x) [] n = 3 -> gmul8(x)
  <2>1. n = 0 \/ n = 1 \/ n = 2 \/ n = 3 OBVIOUS
  <2>2. power[1] = x /\ power[2] = x2 /\ power[3] = x4 /\ power[4] = x8 OBVIOUS
  <2> HIDE DEF power, x2, x4, x8
  <2> QED BY <2>1, <2>2, <1>2
<1>4. power[n + 1] \in Byte
  BY <1>3, GmulByte
<1> HIDE DEF power
<1>5. ASSUME NEW k \in 0 .. 7
      PROVE  Odd(terms(c \cup {n}, k)) <=> ~(Odd(terms(c, k)) <=> k \in power[n + 1])
  <2>1. IsFiniteSet(terms(c, k))
    <3>1. IsFiniteSet(0 .. 7) BY FiniteByte
    <3>2. terms(c, k) \in SUBSET (0 .. 7) BY DEF Byte
    <3> QED BY <3>1, <3>2, FS_Subset
  <2>2. n \notin terms(c, k)
    OBVIOUS
  <2>3. CASE k \in power[n + 1]
    <3>1. terms(c \cup {n}, k) = terms(c, k) \cup {n} BY <2>3
    <3> QED BY <2>1, <2>2, <2>3, <3>1, Flip
  <2>4. CASE k \notin power[n + 1]
    <3>1. terms(c \cup {n}, k) = terms(c, k) BY <2>4
    <3> QED BY <2>4, <3>1
  <2> QED BY <2>3, <2>4
<1> HIDE DEF terms
<1>6. Times(c \cup {n}, x) = Xor(Times(c, x), power[n + 1])
  BY <1>1, <1>4, <1>5 DEF Xor, Byte
<1> QED BY <1>3, <1>6

(* The rows of both matrices, in doublings. *)
LEMMA TimesValues ==
  ASSUME NEW x \in Byte
  PROVE  /\ Times({0}, x) = x
         /\ Times({1}, x) = gmul2(x)
         /\ Times({0, 1}, x) = Xor(x, gmul2(x))
         /\ Times({0, 3}, x) = Xor(x, gmul8(x))
         /\ Times({0, 1, 3}, x) = Xor(Xor(x, gmul2(x)), gmul8(x))
         /\ Times({0, 2, 3}, x) = Xor(Xor(x, gmul4(x)), gmul8(x))
         /\ Times({1, 2, 3}, x) = Xor(Xor(gmul2(x), gmul4(x)), gmul8(x))
<1>1. Times({}, x) = {}
  BY EvenEmpty DEF Times
<1>2. \A y : Xor({}, y) = y
  BY DEF Xor
<1>3. \A c \in SUBSET (0 .. 3) : c \in Byte
  BY DEF Byte
<1>4. ASSUME NEW c \in SUBSET (0 .. 3), NEW d, NEW n \in 0 .. 3, n \notin c, d = c \cup {n}
      PROVE  Times(d, x) = Xor(Times(c, x), CASE n = 0 -> x [] n = 1 -> gmul2(x)
                                              [] n = 2 -> gmul4(x) [] n = 3 -> gmul8(x))
  BY <1>3, <1>4, TimesOneMore, Zenon
<1>5. /\ \A d : d = {} \cup {0} => Times(d, x) = x
      /\ \A d : d = {} \cup {1} => Times(d, x) = gmul2(x)
  BY <1>1, <1>2, <1>4
<1>6. ASSUME NEW c \in SUBSET (0 .. 3), NEW d
      PROVE /\ 1 \notin c /\ d = c \cup {1} => Times(d, x) = Xor(Times(c, x), gmul2(x))
            /\ 2 \notin c /\ d = c \cup {2} => Times(d, x) = Xor(Times(c, x), gmul4(x))
            /\ 3 \notin c /\ d = c \cup {3} => Times(d, x) = Xor(Times(c, x), gmul8(x))
  BY <1>4
<1>7. Times({0}, x) = x /\ Times({1}, x) = gmul2(x)
  BY <1>5
<1>8. /\ Times({0, 1}, x) = Xor(Times({0}, x), gmul2(x))
      /\ Times({0, 3}, x) = Xor(Times({0}, x), gmul8(x))
      /\ Times({0, 2}, x) = Xor(Times({0}, x), gmul4(x))
      /\ Times({1, 2}, x) = Xor(Times({1}, x), gmul4(x))
  <2>1. {0} \in SUBSET (0 .. 3) /\ {1} \in SUBSET (0 .. 3)
    OBVIOUS
  <2> QED BY <1>6, <2>1
<1>9. /\ Times({0, 1, 3}, x) = Xor(Times({0, 1}, x), gmul8(x))
      /\ Times({0, 2, 3}, x) = Xor(Times({0, 2}, x), gmul8(x))
      /\ Times({1, 2, 3}, x) = Xor(Times({1, 2}, x), gmul8(x))
  <2>1. {0, 1} \in SUBSET (0 .. 3) /\ {0, 2} \in SUBSET (0 .. 3) /\ {1, 2} \in SUBSET (0 .. 3)
    OBVIOUS
  <2> QED BY <1>6, <2>1
<1> QED BY <1>7, <1>8, <1>9

(* The columns of mix_columns, factored around the sum of a column, are the  *)
(* products with the matrix of MixColumns, for every state.                  *)
THEOREM MixColumnsIsTheMatrix ==
  ASSUME NEW s \in State
  PROVE  mix_columns(s) = Mixed(s, Direct)
<1> SUFFICES ASSUME NEW n \in Index PROVE mix_columns(s)[n] = Mixed(s, Direct)[n]
  BY DEF mix_columns, Mixed
<1> DEFINE b0 == Below(s, n, 0)
           b1 == Below(s, n, 1)
           b2 == Below(s, n, 2)
           b3 == Below(s, n, 3)
<1>1. b0 \in Byte /\ b1 \in Byte /\ b2 \in Byte /\ b3 \in Byte
  BY BelowByte
<1>2. mix_columns(s)[n] =
        Xor(gmul2(Xor(b0, b1)), Xor(Xor(Xor(b0, b1), Xor(b2, b3)), b0))
  BY DEF mix_columns, ColumnSum
<1>3. Mixed(s, Direct)[n] = Xor(Xor(Times({1}, b0), Times({0, 1}, b1)),
                                Xor(Times({0}, b2), Times({0}, b3)))
  BY DEF Mixed, Direct
<1> HIDE DEF b0, b1, b2, b3
<1>4. Mixed(s, Direct)[n] = Xor(Xor(gmul2(b0), Xor(b1, gmul2(b1))), Xor(b2, b3))
  BY <1>1, <1>3, TimesValues
<1>5. mix_columns(s)[n] =
        Xor(Xor(gmul2(b0), gmul2(b1)), Xor(Xor(Xor(b0, b1), Xor(b2, b3)), b0))
  BY <1>1, <1>2, GmulLinear
<1> QED BY <1>4, <1>5 DEF Xor

(* Likewise inv_mix_columns, whose row is the direct one and a correction,   *)
(* and the matrix of InvMixColumns.                                          *)
THEOREM InvMixColumnsIsTheMatrix ==
  ASSUME NEW s \in State
  PROVE  inv_mix_columns(s) = Mixed(s, Inverted)
<1> SUFFICES ASSUME NEW n \in Index PROVE inv_mix_columns(s)[n] = Mixed(s, Inverted)[n]
  BY DEF inv_mix_columns, Mixed
<1> DEFINE b0 == Below(s, n, 0)
           b1 == Below(s, n, 1)
           b2 == Below(s, n, 2)
           b3 == Below(s, n, 3)
           sum == Xor(Xor(b0, b1), Xor(b2, b3))
<1>1. b0 \in Byte /\ b1 \in Byte /\ b2 \in Byte /\ b3 \in Byte
  BY BelowByte
<1>2. inv_mix_columns(s)[n] =
        Xor(Xor(gmul2(Xor(b0, b1)), Xor(sum, b0)), Xor(gmul8(sum), gmul4(Xor(b0, b2))))
  BY DEF inv_mix_columns, mix_columns, Correction, ColumnSum
<1>3. Mixed(s, Inverted)[n] = Xor(Xor(Times({1, 2, 3}, b0), Times({0, 1, 3}, b1)),
                                  Xor(Times({0, 2, 3}, b2), Times({0, 3}, b3)))
  BY DEF Mixed, Inverted
<1> HIDE DEF b0, b1, b2, b3
<1>4. Mixed(s, Inverted)[n] =
        Xor(Xor(Xor(Xor(gmul2(b0), gmul4(b0)), gmul8(b0)),
                Xor(Xor(b1, gmul2(b1)), gmul8(b1))),
            Xor(Xor(Xor(b2, gmul4(b2)), gmul8(b2)), Xor(b3, gmul8(b3))))
  BY <1>1, <1>3, TimesValues
<1>5. gmul8(sum) = Xor(Xor(gmul8(b0), gmul8(b1)), Xor(gmul8(b2), gmul8(b3)))
  <2>1. Xor(b0, b1) \in Byte /\ Xor(b2, b3) \in Byte
    BY <1>1, XorByte
  <2> QED BY <1>1, <2>1, GmulLinear
<1> HIDE DEF sum
<1>6. inv_mix_columns(s)[n] =
        Xor(Xor(Xor(gmul2(b0), gmul2(b1)), Xor(sum, b0)),
            Xor(Xor(Xor(gmul8(b0), gmul8(b1)), Xor(gmul8(b2), gmul8(b3))),
                Xor(gmul4(b0), gmul4(b2))))
  BY <1>1, <1>2, <1>5, GmulLinear
<1> QED BY <1>4, <1>6 DEF Xor, sum

-----------------------------------------------------------------------------
(* The rows *)

(* A rotation of four places. *)
LEMMA RotateFour ==
  ASSUME NEW s \in State, NEW p \in Index, NEW q \in Index, NEW u \in Index, NEW v \in Index,
         p # q, p # u, p # v, q # u, q # v, u # v
  PROVE  Rotate(s, <<p, q, u, v>>) =
           [n \in Index |-> IF n = p THEN s[q] ELSE IF n = q THEN s[u]
                            ELSE IF n = u THEN s[v] ELSE IF n = v THEN s[p] ELSE s[n]]
<1> DEFINE c == <<p, q, u, v>>
<1>1. DOMAIN c = 1 .. 4 /\ Len(c) = 4 /\ c[1] = p /\ c[2] = q /\ c[3] = u /\ c[4] = v
  OBVIOUS
<1>2. \A m \in 1 .. 4 : m = 1 \/ m = 2 \/ m = 3 \/ m = 4
  OBVIOUS
<1>3. 1 % 4 = 1 /\ 2 % 4 = 2 /\ 3 % 4 = 3 /\ 4 % 4 = 0
  OBVIOUS
<1> HIDE DEF c
<1>4. ASSUME NEW n \in Index
      PROVE  Rotate(s, c)[n] = IF n = p THEN s[q] ELSE IF n = q THEN s[u]
                               ELSE IF n = u THEN s[v] ELSE IF n = v THEN s[p] ELSE s[n]
  <2>1. CASE \E m \in DOMAIN c : c[m] = n
    <3> DEFINE m == CHOOSE m \in DOMAIN c : c[m] = n
    <3>1. m \in 1 .. 4 /\ c[m] = n BY <2>1, <1>1
    <3>2. Rotate(s, c)[n] = s[c[(m % 4) + 1]] BY <2>1, <1>1 DEF Rotate
    <3> HIDE DEF m
    <3>3. m = 1 \/ m = 2 \/ m = 3 \/ m = 4 BY <3>1, <1>2
    <3>4. CASE m = 1 BY <1>1, <1>3, <3>1, <3>2, <3>4
    <3>5. CASE m = 2 BY <1>1, <1>3, <3>1, <3>2, <3>5
    <3>6. CASE m = 3 BY <1>1, <1>3, <3>1, <3>2, <3>6
    <3>7. CASE m = 4 BY <1>1, <1>3, <3>1, <3>2, <3>7
    <3> QED BY <3>3, <3>4, <3>5, <3>6, <3>7
  <2>2. CASE ~ \E m \in DOMAIN c : c[m] = n
    <3>1. n # p /\ n # q /\ n # u /\ n # v BY <1>1, <2>2
    <3> QED BY <2>2, <3>1 DEF Rotate
  <2> QED BY <2>1, <2>2
<1>5. Rotate(s, c) = [n \in Index |-> Rotate(s, c)[n]]
  BY DEF Rotate
<1> QED BY <1>4, <1>5 DEF c

(* A rotation of two places exchanges them. *)
LEMMA RotateTwo ==
  ASSUME NEW s \in State, NEW p \in Index, NEW q \in Index, p # q
  PROVE  Rotate(s, <<p, q>>) =
           [n \in Index |-> IF n = p THEN s[q] ELSE IF n = q THEN s[p] ELSE s[n]]
<1> DEFINE c == <<p, q>>
<1>1. DOMAIN c = 1 .. 2 /\ Len(c) = 2 /\ c[1] = p /\ c[2] = q
  OBVIOUS
<1>2. \A m \in 1 .. 2 : m = 1 \/ m = 2
  OBVIOUS
<1>3. 1 % 2 = 1 /\ 2 % 2 = 0
  OBVIOUS
<1> HIDE DEF c
<1>4. ASSUME NEW n \in Index
      PROVE  Rotate(s, c)[n] = IF n = p THEN s[q] ELSE IF n = q THEN s[p] ELSE s[n]
  <2>1. CASE \E m \in DOMAIN c : c[m] = n
    <3> DEFINE m == CHOOSE m \in DOMAIN c : c[m] = n
    <3>1. m \in 1 .. 2 /\ c[m] = n BY <2>1, <1>1
    <3>2. Rotate(s, c)[n] = s[c[(m % 2) + 1]] BY <2>1, <1>1 DEF Rotate
    <3> HIDE DEF m
    <3>3. m = 1 \/ m = 2 BY <3>1, <1>2
    <3>4. CASE m = 1 BY <1>1, <1>3, <3>1, <3>2, <3>4
    <3>5. CASE m = 2 BY <1>1, <1>3, <3>1, <3>2, <3>5
    <3> QED BY <3>3, <3>4, <3>5
  <2>2. CASE ~ \E m \in DOMAIN c : c[m] = n
    <3>1. n # p /\ n # q BY <1>1, <2>2
    <3> QED BY <2>2, <3>1 DEF Rotate
  <2> QED BY <2>1, <2>2
<1>5. Rotate(s, c) = [n \in Index |-> Rotate(s, c)[n]]
  BY DEF Rotate
<1> QED BY <1>4, <1>5 DEF c

(* The place each byte comes from. *)
LEMMA Places ==
  /\ 0 \in Index /\ 1 \in Index /\ 2 \in Index /\ 3 \in Index /\ 4 \in Index /\ 5 \in Index
  /\ 6 \in Index /\ 7 \in Index /\ 8 \in Index /\ 9 \in Index /\ 10 \in Index /\ 11 \in Index
  /\ 12 \in Index /\ 13 \in Index /\ 14 \in Index /\ 15 \in Index
  /\ \A n \in Index : n \in {0, 1, 2, 3, 4, 5, 6, 7, 8, 9, 10, 11, 12, 13, 14, 15}
BY DEF Index

(* Where the rotations of the rows take each byte from. *)
LEMMA Sources ==
  \A n \in Index :
    /\ (n % 4) + 4 * (((n \div 4) + (n % 4)) % 4) =
         CASE n = 1 -> 5 [] n = 5 -> 9 [] n = 9 -> 13 [] n = 13 -> 1
           [] n = 2 -> 10 [] n = 10 -> 2 [] n = 6 -> 14 [] n = 14 -> 6
           [] n = 3 -> 15 [] n = 7 -> 3 [] n = 11 -> 7 [] n = 15 -> 11 [] OTHER -> n
    /\ (n % 4) + 4 * (((n \div 4) - (n % 4)) % 4) =
         CASE n = 1 -> 13 [] n = 5 -> 1 [] n = 9 -> 5 [] n = 13 -> 9
           [] n = 2 -> 10 [] n = 10 -> 2 [] n = 6 -> 14 [] n = 14 -> 6
           [] n = 3 -> 7 [] n = 7 -> 11 [] n = 11 -> 15 [] n = 15 -> 3 [] OTHER -> n
BY DEF Index

(* The last row turned forward, as shift_rows moves it. *)
LEMMA ThirdRowForward ==
  ASSUME NEW s \in State
  PROVE  Rotate(s, <<15, 11, 7, 3>>) =
           [n \in Index |-> IF n = 15 THEN s[11] ELSE IF n = 11 THEN s[7]
                         ELSE IF n = 7 THEN s[3] ELSE IF n = 3 THEN s[15] ELSE s[n]]
<1>1. 15 \in Index /\ 11 \in Index /\ 7 \in Index /\ 3 \in Index
  BY DEF Index
<1>2. 15 # 11 /\ 15 # 7 /\ 15 # 3 /\ 11 # 7 /\ 11 # 3 /\ 7 # 3
  OBVIOUS
<1> QED BY <1>1, <1>2, RotateFour, SMTT(60)

(* The last row turned back, as inv_shift_rows moves it. *)
LEMMA ThirdRowBack ==
  ASSUME NEW s \in State
  PROVE  Rotate(s, <<3, 7, 11, 15>>) =
           [n \in Index |-> IF n = 3 THEN s[7] ELSE IF n = 7 THEN s[11]
                         ELSE IF n = 11 THEN s[15] ELSE IF n = 15 THEN s[3] ELSE s[n]]
<1>1. 3 \in Index /\ 7 \in Index /\ 11 \in Index /\ 15 \in Index
  BY DEF Index
<1>2. 3 # 7 /\ 3 # 11 /\ 3 # 15 /\ 7 # 11 /\ 7 # 15 /\ 11 # 15
  OBVIOUS
<1> QED BY <1>1, <1>2, RotateFour, SMTT(60)

(* The row rotations in place are the rotations of the rows of the matrix,   *)
(* for every state.                                                          *)
THEOREM ShiftRowsIsTheRotation ==
  ASSUME NEW s \in State
  PROVE  shift_rows(s) = Shifted(s) /\ inv_shift_rows(s) = Unshifted(s)
<1>1. \A t \in State : SwapRow2(t) =
        [n \in Index |-> IF n = 2 THEN t[10] ELSE IF n = 10 THEN t[2]
                         ELSE IF n = 6 THEN t[14] ELSE IF n = 14 THEN t[6] ELSE t[n]]
  <2> SUFFICES ASSUME NEW t \in State
               PROVE SwapRow2(t) =
        [n \in Index |-> IF n = 2 THEN t[10] ELSE IF n = 10 THEN t[2]
                         ELSE IF n = 6 THEN t[14] ELSE IF n = 14 THEN t[6] ELSE t[n]]
    OBVIOUS
  <2>1. Rotate(t, <<2, 10>>) =
          [n \in Index |-> IF n = 2 THEN t[10] ELSE IF n = 10 THEN t[2] ELSE t[n]]
    BY Places, RotateTwo
  <2>2. Rotate(t, <<2, 10>>) \in State
    BY <2>1, Places DEF State
  <2> DEFINE t1 == Rotate(t, <<2, 10>>)
  <2> HIDE DEF t1
  <2>3. t1 \in State BY <2>2 DEF t1
  <2>4. Rotate(t1, <<6, 14>>) =
          [n \in Index |-> IF n = 6 THEN t1[14] ELSE IF n = 14 THEN t1[6] ELSE t1[n]]
    BY <2>3, Places, RotateTwo
  <2>5. \A n \in Index : t1[n] = IF n = 2 THEN t[10] ELSE IF n = 10 THEN t[2] ELSE t[n]
    BY <2>1 DEF t1
  <2> QED BY <2>4, <2>5, Places DEF SwapRow2, t1
<1>2. shift_rows(s) = Shifted(s)
  <2> DEFINE s1 == Rotate(s, <<1, 5, 9, 13>>)
             s2 == SwapRow2(s1)
             s3 == Rotate(s2, <<15, 11, 7, 3>>)
  <2>1. s1 = [n \in Index |-> IF n = 1 THEN s[5] ELSE IF n = 5 THEN s[9]
                         ELSE IF n = 9 THEN s[13] ELSE IF n = 13 THEN s[1] ELSE s[n]]
    <3>1. 1 \in Index /\ 5 \in Index /\ 9 \in Index /\ 13 \in Index
      BY DEF Index
    <3>2. 1 # 5 /\ 1 # 9 /\ 1 # 13 /\ 5 # 9 /\ 5 # 13 /\ 9 # 13
      OBVIOUS
    <3> QED BY <3>1, <3>2, RotateFour, SMTT(60)
  <2>2. s1 \in State
    BY RotationsState
  <2> HIDE DEF s1
  <2>3. s2 = [n \in Index |-> IF n = 2 THEN s1[10] ELSE IF n = 10 THEN s1[2]
                         ELSE IF n = 6 THEN s1[14] ELSE IF n = 14 THEN s1[6] ELSE s1[n]]
    BY <1>1, <2>2
  <2>4. s2 \in State
    BY <2>2, RotationsState
  <2> HIDE DEF s2
  <2>5. s3 = [n \in Index |-> IF n = 15 THEN s2[11] ELSE IF n = 11 THEN s2[7]
                         ELSE IF n = 7 THEN s2[3] ELSE IF n = 3 THEN s2[15] ELSE s2[n]]
    BY <2>4, ThirdRowForward
  <2>6. shift_rows(s) = s3
    BY DEF shift_rows, s1, s2, s3
  <2> HIDE DEF s3
  <2>7. ASSUME NEW n \in Index PROVE s3[n] = Shifted(s)[n]
    <3>1. CASE n \in {0, 4, 8, 12}
      BY <2>1, <2>3, <2>5, <3>1, Places, Sources DEF Shifted
    <3>2. CASE n \in {1, 5, 9, 13}
      BY <2>1, <2>3, <2>5, <3>2, Places, Sources DEF Shifted
    <3>3. CASE n \in {2, 6, 10, 14}
      BY <2>1, <2>3, <2>5, <3>3, Places, Sources DEF Shifted
    <3>4. CASE n \in {3, 7, 11, 15}
      BY <2>1, <2>3, <2>5, <3>4, Places, Sources DEF Shifted
    <3> QED BY <3>1, <3>2, <3>3, <3>4, Places
  <2>8. s3 = [n \in Index |-> s3[n]] /\ Shifted(s) = [n \in Index |-> Shifted(s)[n]]
    BY <2>5 DEF Shifted
  <2> QED BY <2>6, <2>7, <2>8
<1>3. inv_shift_rows(s) = Unshifted(s)
  <2> DEFINE s1 == Rotate(s, <<13, 9, 5, 1>>)
             s2 == SwapRow2(s1)
             s3 == Rotate(s2, <<3, 7, 11, 15>>)
  <2>1. s1 = [n \in Index |-> IF n = 13 THEN s[9] ELSE IF n = 9 THEN s[5]
                         ELSE IF n = 5 THEN s[1] ELSE IF n = 1 THEN s[13] ELSE s[n]]
    <3>1. 13 \in Index /\ 9 \in Index /\ 5 \in Index /\ 1 \in Index
      BY DEF Index
    <3>2. 13 # 9 /\ 13 # 5 /\ 13 # 1 /\ 9 # 5 /\ 9 # 1 /\ 5 # 1
      OBVIOUS
    <3> QED BY <3>1, <3>2, RotateFour, SMTT(60)
  <2>2. s1 \in State
    BY RotationsState
  <2> HIDE DEF s1
  <2>3. s2 = [n \in Index |-> IF n = 2 THEN s1[10] ELSE IF n = 10 THEN s1[2]
                         ELSE IF n = 6 THEN s1[14] ELSE IF n = 14 THEN s1[6] ELSE s1[n]]
    BY <1>1, <2>2
  <2>4. s2 \in State
    BY <2>2, RotationsState
  <2> HIDE DEF s2
  <2>5. s3 = [n \in Index |-> IF n = 3 THEN s2[7] ELSE IF n = 7 THEN s2[11]
                         ELSE IF n = 11 THEN s2[15] ELSE IF n = 15 THEN s2[3] ELSE s2[n]]
    BY <2>4, ThirdRowBack
  <2>6. inv_shift_rows(s) = s3
    BY DEF inv_shift_rows, s1, s2, s3
  <2> HIDE DEF s3
  <2>7. ASSUME NEW n \in Index PROVE s3[n] = Unshifted(s)[n]
    <3>1. CASE n \in {0, 4, 8, 12}
      BY <2>1, <2>3, <2>5, <3>1, Places, Sources DEF Unshifted
    <3>2. CASE n \in {1, 5, 9, 13}
      BY <2>1, <2>3, <2>5, <3>2, Places, Sources DEF Unshifted
    <3>3. CASE n \in {2, 6, 10, 14}
      BY <2>1, <2>3, <2>5, <3>3, Places, Sources DEF Unshifted
    <3>4. CASE n \in {3, 7, 11, 15}
      BY <2>1, <2>3, <2>5, <3>4, Places, Sources DEF Unshifted
    <3> QED BY <3>1, <3>2, <3>3, <3>4, Places
  <2>8. s3 = [n \in Index |-> s3[n]] /\ Unshifted(s) = [n \in Index |-> Unshifted(s)[n]]
    BY <2>5 DEF Unshifted
  <2> QED BY <2>6, <2>7, <2>8
<1> QED BY <1>2, <1>3

-----------------------------------------------------------------------------
(* The rounds *)

(* Every byte has an entry in the reference's tables. *)
LEMMA SubstitutionIsTheTable ==
  ASSUME TablesAreDefined, NEW s \in State
  PROVE  /\ sub_bytes(s) = Mapped(Substitutes, s)
         /\ inv_sub_bytes(s) = Mapped(Unsubstitutes, s)
BY DEF TablesAreDefined, sub_bytes, inv_sub_bytes, Mapped, State

(* A step of the transformation leaves the rest alone. *)
LEMMA TransformKeeps ==
  ASSUME NEW now, NEW s, NEW next, Transform(now, s, next)
  PROVE  /\ stage = now /\ stage' = next /\ tmp' = s
         /\ xmm' = xmm /\ before' = before /\ last' = last
         /\ Operand' = Operand /\ Key' = Key
BY DEF Transform, history, Operand, Key

(* Every step keeps what is known of tmp and of the result. *)
LEMMA NextAes ==
  ASSUME TablesAreDefined, TypeInv, AesInv, AesResultIsDefined, Next
  PROVE  (AesInv /\ AesResultIsDefined)'
<1>1. tmp \in State /\ (stage # "fetch" => last = Current)
  BY DEF TypeInv, TypeOK
<1>2. ASSUME NEW now, NEW s, NEW next \in Stage \ {"fetch"}, Transform(now, s, next)
      PROVE  AesResultIsDefined'
  BY <1>2, TransformKeeps DEF AesResultIsDefined, Finished
<1>3. CASE Call
  <2>1. ASSUME NEW op, NEW next \in Stage \ {"fetch"}, Fetch(op, next)
        PROVE  /\ AesResultIsDefined' /\ stage' = next /\ last'.op = op
               /\ xmm' = before' /\ before' = xmm /\ last' = Current
    BY <2>1 DEF Fetch, AesResultIsDefined, Finished
  <2>2. ASSUME NEW op \in {"aesenc", "aesenclast"}, CopyDest(op, "shift_rows")
        PROVE  (AesInv /\ AesResultIsDefined)'
    BY <2>1, <2>2 DEF CopyDest, AesInv, Operand, Stage
  <2>3. ASSUME NEW op \in {"aesdec", "aesdeclast"}, CopyDest(op, "inv_shift_rows")
        PROVE  (AesInv /\ AesResultIsDefined)'
    BY <2>1, <2>3 DEF CopyDest, AesInv, Operand, Stage
  <2>4. CASE CopySrc
    BY <2>1, <2>4 DEF CopySrc, AesInv, Key, Stage
  <2>5. CASE SelectHalves
    BY <2>1, <2>5 DEF SelectHalves, AesInv, Stage
  <2>6. CASE HostXor
    BY <2>6 DEF HostXor, AesInv, AesResultIsDefined, Finished
  <2> QED BY <1>3, <2>2, <2>3, <2>4, <2>5, <2>6 DEF Call
<1>4. CASE ShiftRows
  <2>1. shift_rows(tmp) = Shifted(tmp)
    BY <1>1, ShiftRowsIsTheRotation
  <2>2. AesInv'
    BY <1>4, <2>1, TransformKeeps DEF ShiftRows, AesInv
  <2> QED BY <1>2, <1>4, <2>2 DEF ShiftRows, Stage
<1>5. CASE SubBytes
  <2>1. sub_bytes(tmp) = Mapped(Substitutes, tmp)
    BY <1>1, SubstitutionIsTheTable
  <2>2. AesInv'
    BY <1>1, <1>5, <2>1, TransformKeeps DEF SubBytes, AesInv, On
  <2> QED BY <1>2, <1>5, <2>2 DEF SubBytes, On, Stage
<1>6. CASE MixColumns
  <2>1. mix_columns(tmp) = Mixed(tmp, Direct)
    BY <1>1, MixColumnsIsTheMatrix
  <2>2. AesInv'
    BY <1>6, <2>1, TransformKeeps DEF MixColumns, AesInv
  <2> QED BY <1>2, <1>6, <2>2 DEF MixColumns, Stage
<1>7. CASE InvShiftRows
  <2>1. inv_shift_rows(tmp) = Unshifted(tmp)
    BY <1>1, ShiftRowsIsTheRotation
  <2>2. AesInv'
    BY <1>7, <2>1, TransformKeeps DEF InvShiftRows, AesInv
  <2> QED BY <1>2, <1>7, <2>2 DEF InvShiftRows, Stage
<1>8. CASE InvSubBytes
  <2>1. inv_sub_bytes(tmp) = Mapped(Unsubstitutes, tmp)
    BY <1>1, SubstitutionIsTheTable
  <2>2. AesInv'
    BY <1>1, <1>8, <2>1, TransformKeeps DEF InvSubBytes, AesInv, On
  <2> QED BY <1>2, <1>8, <2>2 DEF InvSubBytes, On, Stage
<1>9. CASE InvMixColumns
  <2>1. inv_mix_columns(tmp) = Mixed(tmp, Inverted)
    BY <1>1, InvMixColumnsIsTheMatrix
  <2>2. AesInv'
    BY <1>1, <1>9, <2>1, TransformKeeps DEF InvMixColumns, AesInv, On
  <2> QED BY <1>2, <1>9, <2>2 DEF InvMixColumns, On, Stage
<1>10. ASSUME NEW value, Finish(value), stage # "fetch"
       PROVE  /\ stage' = "fetch" /\ last' = last /\ before' = before
              /\ xmm' = [before EXCEPT ![last.d] = value]
  BY <1>1, <1>10 DEF Finish, history, AesInv
<1>11. CASE AddKey
  <2> DEFINE value == Packed([n \in Index |-> Xor(tmp[n], Bytes(xmm[Current.s])[n])])
  <2>1. Finish(value) /\ stage = "add_key"
    BY <1>11 DEF AddKey
  <2>2. value = Packed(Plus(tmp, Key))
    BY <1>1, <2>1 DEF Plus, Key, AesInv
  <2>3. last.op \notin {"pclmulqdq", "pxor"} =>
          Packed(Plus(tmp, Key)) = Packed(AesResult(last.op, Operand, Key))
    BY <2>1 DEF AesInv, AesResult
  <2> HIDE DEF value
  <2>4. AesInv'
    BY <1>10, <2>1 DEF AesInv
  <2> QED BY <1>10, <2>1, <2>2, <2>3, <2>4 DEF AesResultIsDefined, Finished, Operand, Key
<1>12. CASE CopyBack
  <2>1. Finish(Packed(tmp)) /\ stage = "copy"
    BY <1>12 DEF CopyBack
  <2>2. Packed(tmp) = Packed(AesResult(last.op, Operand, Key))
    BY <2>1 DEF AesInv, AesResult
  <2>3. AesInv'
    BY <1>10, <2>1 DEF AesInv
  <2> QED BY <1>10, <2>1, <2>2, <2>3 DEF AesResultIsDefined, Finished, Operand, Key
<1>13. CASE Iterate
  BY <1>13 DEF Iterate, history, AesInv, AesResultIsDefined, Finished
<1>14. CASE StoreProduct
  <2>1. Finish(Joined(low, high)) /\ stage = "multiply"
    BY <1>14 DEF StoreProduct
  <2> QED BY <1>10, <2>1 DEF AesInv, AesResultIsDefined, Finished
<1> QED BY <1>3, <1>4, <1>5, <1>6, <1>7, <1>8, <1>9, <1>11, <1>12, <1>13, <1>14 DEF Next

(* The AES instructions leave what FIPS 197 defines, whatever registers they *)
(* name and whatever is in them, if the two tables are those of FIPS 197     *)
(* (which TLC evaluates, entry by entry).                                    *)
THEOREM AesIsFips197 ==
  ASSUME TablesAreDefined
  PROVE  Spec => []AesResultIsDefined
<1>1. Init => AesInv /\ AesResultIsDefined
  BY DEF Init, AesInv, AesResultIsDefined, Finished
<1>2. AesInv /\ AesResultIsDefined /\ UNCHANGED vars => (AesInv /\ AesResultIsDefined)'
  BY DEF AesInv, AesResultIsDefined, Finished, Operand, Key, vars, history
<1>3. /\ TypeInv /\ AesInv /\ AesResultIsDefined
      /\ [Next]_vars
      => (TypeInv /\ AesInv /\ AesResultIsDefined)'
  BY NextType, StutterType, NextAes, <1>2
<1> QED BY InitType, <1>1, <1>3, PTL DEF Spec

-----------------------------------------------------------------------------
(* The equivalent inverse cipher *)

(* Sums of states. *)
LEMMA PlusStates ==
  ASSUME NEW s \in State, NEW k \in State
  PROVE  Plus(s, k) \in State /\ Plus(Plus(s, k), k) = s
<1>1. Plus(s, k) \in State
  BY XorByte DEF Plus, State
<1>2. \A x, y \in Byte : Xor(Xor(x, y), y) = x
  BY DEF Xor
<1>3. \A n \in Index : Plus(Plus(s, k), k)[n] = s[n]
  BY <1>2 DEF Plus, State
<1>4. Plus(Plus(s, k), k) \in State
  BY <1>1, XorByte DEF Plus, State
<1> QED BY <1>1, <1>3, <1>4 DEF State

(* The inverse columns undo the columns. *)
LEMMA ColumnsUndone == ASSUME NEW s \in State PROVE Mixed(Mixed(s, Direct), Inverted) = s
<1> DEFINE t == mix_columns(s)
<1>1. t \in State /\ inv_mix_columns(t) \in State
  BY ColumnsState
<1>2. Mixed(Mixed(s, Direct), Inverted) = inv_mix_columns(t)
  BY <1>1, MixColumnsIsTheMatrix, InvMixColumnsIsTheMatrix
<1>3. ASSUME NEW n \in Index PROVE inv_mix_columns(t)[n] = s[n]
  <2> DEFINE b0 == Below(s, n, 0)
             b1 == Below(s, n, 1)
             b2 == Below(s, n, 2)
             b3 == Below(s, n, 3)
             At(r) == 4 * (n \div 4) + ((n + r) % 4)
  <2>1. b0 \in Byte /\ b1 \in Byte /\ b2 \in Byte /\ b3 \in Byte
    BY BelowByte
  <2>2. \A r \in 0 .. 3 : At(r) \in Index /\ t[At(r)] = Below(t, n, r)
    BY DEF Index, Below
  <2>3. ASSUME NEW r \in 0 .. 3, NEW q \in 0 .. 6
        PROVE  Below(s, At(r), q) = Below(s, n, (r + q) % 4)
    <3>1. At(r) \div 4 = n \div 4
      BY DEF Index
    <3>2. (At(r) + q) % 4 = (n + ((r + q) % 4)) % 4
      BY DEF Index
    <3> QED BY <3>1, <3>2 DEF Below
  <2> DEFINE sum == Xor(Xor(b0, b1), Xor(b2, b3))
             c0 == Below(t, n, 0)
             c1 == Below(t, n, 1)
             c2 == Below(t, n, 2)
             c3 == Below(t, n, 3)
             total == Xor(Xor(c0, c1), Xor(c2, c3))
  <2>4. \A x, y, u, v : Xor(Xor(x, y), Xor(u, v)) = Xor(Xor(y, u), Xor(v, x))
    BY DEF Xor
  <2>5. ASSUME NEW r \in 0 .. 3
        PROVE  /\ ColumnSum(s, At(r)) = sum
               /\ Below(t, n, r) = Xor(gmul2(Xor(Below(s, n, r), Below(s, n, (r + 1) % 4))),
                                       Xor(sum, Below(s, n, r)))
    <3>1. ColumnSum(s, At(r)) = Xor(Xor(Below(s, n, r), Below(s, n, (r + 1) % 4)),
                                    Xor(Below(s, n, (r + 2) % 4), Below(s, n, (r + 3) % 4)))
      <4>1. (r + 0) % 4 = r
        OBVIOUS
      <4> QED BY <2>3, <4>1 DEF ColumnSum
    <3>2. ColumnSum(s, At(r)) = sum
      <4> HIDE DEF At
      <4>1. CASE r = 0 BY <3>1, <4>1
      <4>2. CASE r = 1 BY <2>4, <3>1, <4>2
      <4>3. CASE r = 2 BY <2>4, <3>1, <4>3
      <4>4. CASE r = 3 BY <2>4, <3>1, <4>4
      <4> QED BY <4>1, <4>2, <4>3, <4>4
    <3>3. t[At(r)] = Xor(gmul2(Xor(Below(s, At(r), 0), Below(s, At(r), 1))),
                         Xor(ColumnSum(s, At(r)), Below(s, At(r), 0)))
      BY <2>2 DEF mix_columns
    <3>4. Below(s, At(r), 0) = Below(s, n, r) /\ Below(s, At(r), 1) = Below(s, n, (r + 1) % 4)
      <4>1. (r + 0) % 4 = r
        OBVIOUS
      <4> QED BY <2>3, <4>1
    <3> QED BY <2>2, <3>2, <3>3, <3>4
  <2>6. /\ c0 = Xor(gmul2(Xor(b0, b1)), Xor(sum, b0)) /\ c1 = Xor(gmul2(Xor(b1, b2)), Xor(sum, b1))
        /\ c2 = Xor(gmul2(Xor(b2, b3)), Xor(sum, b2)) /\ c3 = Xor(gmul2(Xor(b3, b0)), Xor(sum, b3))
    <3>1. (0 + 1) % 4 = 1 /\ (1 + 1) % 4 = 2 /\ (2 + 1) % 4 = 3 /\ (3 + 1) % 4 = 0
      OBVIOUS
    <3> HIDE DEF t, sum
    <3> QED BY <2>5, <3>1
  <2>7. inv_mix_columns(t)[n] =
          Xor(Xor(gmul2(Xor(c0, c1)), Xor(total, c0)), Xor(gmul8(total), gmul4(Xor(c0, c2))))
    BY DEF inv_mix_columns, mix_columns, Correction, ColumnSum
  <2> HIDE DEF t, At, b0, b1, b2, b3, c0, c1, c2, c3
  <2>8. /\ Xor(b0, b1) \in Byte /\ Xor(b1, b2) \in Byte /\ Xor(b2, b3) \in Byte
        /\ Xor(b3, b0) \in Byte /\ Xor(b0, b2) \in Byte /\ sum \in Byte
    BY <2>1, XorByte
  <2>9. /\ gmul2(Xor(b0, b1)) = Xor(gmul2(b0), gmul2(b1))
        /\ gmul2(Xor(b1, b2)) = Xor(gmul2(b1), gmul2(b2))
        /\ gmul2(Xor(b2, b3)) = Xor(gmul2(b2), gmul2(b3))
        /\ gmul2(Xor(b3, b0)) = Xor(gmul2(b3), gmul2(b0))
        /\ gmul2(Xor(b0, b2)) = Xor(gmul2(b0), gmul2(b2))
        /\ gmul2(sum) = Xor(Xor(gmul2(b0), gmul2(b1)), Xor(gmul2(b2), gmul2(b3)))
    BY <2>1, <2>8, GmulLinear
  <2>10. total = sum
    <3>1. Xor(c0, c1) = Xor(Xor(gmul2(b0), gmul2(b2)), Xor(b0, b1))
      BY <2>6, <2>9 DEF Xor
    <3>2. Xor(c2, c3) = Xor(Xor(gmul2(b2), gmul2(b0)), Xor(b2, b3))
      BY <2>6, <2>9 DEF Xor
    <3> HIDE DEF sum
    <3>3. total = Xor(Xor(b0, b1), Xor(b2, b3))
      BY <3>1, <3>2 DEF Xor
    <3> QED BY <3>3 DEF sum
  <2>11. Xor(c0, c1) = Xor(gmul2(Xor(b0, b2)), Xor(b0, b1))
    BY <2>6, <2>9 DEF Xor
  <2>12. Xor(c0, c2) = Xor(gmul2(sum), Xor(b0, b2))
    BY <2>6, <2>9 DEF Xor
  <2> HIDE DEF sum, total
  <2>13. gmul2(Xor(c0, c1)) = Xor(gmul4(Xor(b0, b2)), gmul2(Xor(b0, b1)))
    BY <2>8, <2>11, GmulLinear, GmulByte DEF gmul4
  <2>14. gmul4(Xor(c0, c2)) = Xor(gmul8(sum), gmul4(Xor(b0, b2)))
    <3>1. \A x \in Byte : gmul4(gmul2(x)) = gmul8(x)
      BY DEF gmul4, gmul8
    <3> QED BY <2>8, <2>12, <3>1, GmulLinear, GmulByte
  <2>15. inv_mix_columns(t)[n] =
           Xor(Xor(Xor(gmul4(Xor(b0, b2)), gmul2(Xor(b0, b1))),
                   Xor(sum, Xor(gmul2(Xor(b0, b1)), Xor(sum, b0)))),
               Xor(gmul8(sum), Xor(gmul8(sum), gmul4(Xor(b0, b2)))))
    BY <2>6, <2>7, <2>10, <2>13, <2>14
  <2>16. inv_mix_columns(t)[n] = b0
    BY <2>15 DEF Xor
  <2>17. b0 = s[n]
    <3>1. 4 * (n \div 4) + ((n + 0) % 4) = n
      BY DEF Index
    <3> QED BY <3>1 DEF b0, Below
  <2> QED BY <2>16, <2>17
<1> QED BY <1>1, <1>2, <1>3 DEF State

(* Every step of the cipher makes a state of a state. *)
LEMMA StepStates ==
  ASSUME TablesAreDefined, NEW s \in State
  PROVE  /\ Shifted(s) \in State /\ Unshifted(s) \in State
         /\ Mapped(Substitutes, s) \in State /\ Mapped(Unsubstitutes, s) \in State
         /\ Mixed(s, Direct) \in State /\ Mixed(s, Inverted) \in State
<1>1. Shifted(s) \in State /\ Unshifted(s) \in State
  BY RowsState, ShiftRowsIsTheRotation
<1>2. Mapped(Substitutes, s) \in State /\ Mapped(Unsubstitutes, s) \in State
  BY SubState, SubstitutionIsTheTable
<1>3. Mixed(s, Direct) \in State /\ Mixed(s, Inverted) \in State
  BY ColumnsState, MixColumnsIsTheMatrix, InvMixColumnsIsTheMatrix
<1> QED BY <1>1, <1>2, <1>3

(* The inverse columns of a sum. *)
LEMMA ColumnsLinear ==
  ASSUME NEW s \in State, NEW k \in State
  PROVE  Mixed(Plus(s, k), Inverted) = Plus(Mixed(s, Inverted), Mixed(k, Inverted))
<1> DEFINE p == Plus(s, k)
<1>1. p \in State
  BY PlusStates
<1>2. ASSUME NEW n \in Index, NEW r \in 0 .. 3
      PROVE  Below(p, n, r) = Xor(Below(s, n, r), Below(k, n, r))
  <2>1. 4 * (n \div 4) + ((n + r) % 4) \in Index
    BY DEF Index
  <2> QED BY <2>1 DEF Below, Plus
<1>3. \A x, y, u, v : Xor(Xor(x, y), Xor(u, v)) = Xor(Xor(x, u), Xor(y, v))
  BY DEF Xor
<1>4. ASSUME NEW n \in Index PROVE ColumnSum(p, n) = Xor(ColumnSum(s, n), ColumnSum(k, n))
  <2> HIDE DEF p
  <2> QED BY <1>2, <1>3 DEF ColumnSum
<1>5. ASSUME NEW n \in Index
      PROVE  inv_mix_columns(p)[n] = Xor(inv_mix_columns(s)[n], inv_mix_columns(k)[n])
  <2> HIDE DEF p
  <2>1. ASSUME NEW q \in State
        PROVE  inv_mix_columns(q)[n] =
                 Xor(Xor(gmul2(Xor(Below(q, n, 0), Below(q, n, 1))),
                         Xor(ColumnSum(q, n), Below(q, n, 0))),
                     Xor(gmul8(ColumnSum(q, n)), gmul4(Xor(Below(q, n, 0), Below(q, n, 2)))))
    BY DEF inv_mix_columns, mix_columns, Correction
  <2>2. ASSUME NEW q \in State
        PROVE  /\ Xor(Below(q, n, 0), Below(q, n, 1)) \in Byte
               /\ Xor(Below(q, n, 0), Below(q, n, 2)) \in Byte /\ ColumnSum(q, n) \in Byte
    BY BelowByte, XorByte DEF ColumnSum
  <2>3. gmul2(Xor(Below(p, n, 0), Below(p, n, 1)))
          = Xor(gmul2(Xor(Below(s, n, 0), Below(s, n, 1))),
                gmul2(Xor(Below(k, n, 0), Below(k, n, 1))))
    <3>1. Xor(Below(p, n, 0), Below(p, n, 1))
            = Xor(Xor(Below(s, n, 0), Below(s, n, 1)), Xor(Below(k, n, 0), Below(k, n, 1)))
      BY <1>2, <1>3
    <3> QED BY <2>2, <3>1, GmulLinear
  <2>4. gmul4(Xor(Below(p, n, 0), Below(p, n, 2)))
          = Xor(gmul4(Xor(Below(s, n, 0), Below(s, n, 2))),
                gmul4(Xor(Below(k, n, 0), Below(k, n, 2))))
    <3>1. Xor(Below(p, n, 0), Below(p, n, 2))
            = Xor(Xor(Below(s, n, 0), Below(s, n, 2)), Xor(Below(k, n, 0), Below(k, n, 2)))
      BY <1>2, <1>3
    <3> QED BY <2>2, <3>1, GmulLinear
  <2>5. gmul8(ColumnSum(p, n)) = Xor(gmul8(ColumnSum(s, n)), gmul8(ColumnSum(k, n)))
    BY <1>4, <2>2, GmulLinear
  <2>6. Xor(ColumnSum(p, n), Below(p, n, 0))
          = Xor(Xor(ColumnSum(s, n), Below(s, n, 0)), Xor(ColumnSum(k, n), Below(k, n, 0)))
    BY <1>2, <1>3, <1>4
  <2> DEFINE G(q) == gmul2(Xor(Below(q, n, 0), Below(q, n, 1)))
             H(q) == Xor(ColumnSum(q, n), Below(q, n, 0))
             E(q) == gmul8(ColumnSum(q, n))
             F(q) == gmul4(Xor(Below(q, n, 0), Below(q, n, 2)))
             Sum(q) == Xor(Xor(G(q), H(q)), Xor(E(q), F(q)))
  <2>7. /\ G(p) = Xor(G(s), G(k)) /\ H(p) = Xor(H(s), H(k))
        /\ E(p) = Xor(E(s), E(k)) /\ F(p) = Xor(F(s), F(k))
    BY <2>3, <2>4, <2>5, <2>6
  <2>8. \A q \in State : inv_mix_columns(q)[n] = Sum(q)
    BY <2>1
  <2> HIDE DEF G, H, E, F
  <2>9. Sum(p) = Xor(Xor(Xor(G(s), H(s)), Xor(G(k), H(k))), Xor(Xor(E(s), F(s)), Xor(E(k), F(k))))
    BY <1>3, <2>7
  <2>10. Sum(p) = Xor(Sum(s), Sum(k))
    BY <1>3, <2>9
  <2> HIDE DEF Sum
  <2> QED BY <1>1, <2>8, <2>10
<1>6. inv_mix_columns(p) = Plus(inv_mix_columns(s), inv_mix_columns(k))
  <2>1. inv_mix_columns(p) \in State /\ inv_mix_columns(s) \in State /\ inv_mix_columns(k) \in State
    BY <1>1, ColumnsState
  <2> HIDE DEF p
  <2> QED BY <1>5, <2>1 DEF Plus, State
<1> QED BY <1>1, <1>6, InvMixColumnsIsTheMatrix

(* What a round does before the columns, and what undoes it. *)
Enciphered(s) == Mapped(Substitutes, Shifted(s))
Deciphered(s) == Mapped(Unsubstitutes, Unshifted(s))

LEMMA RoundUndone ==
  ASSUME TablesAreDefined, TablesAreInverse, NEW s \in State
  PROVE  Enciphered(s) \in State /\ Deciphered(Enciphered(s)) = s
<1> DEFINE t == Shifted(s)
<1>1. t \in State /\ Enciphered(s) \in State /\ Enciphered(s) = sub_bytes(t)
  BY StepStates, SubstitutionIsTheTable DEF Enciphered
<1>2. Unshifted(Enciphered(s)) \in State
  BY <1>1, StepStates
<1>3. Deciphered(Enciphered(s)) = inv_sub_bytes(Unshifted(Enciphered(s)))
  BY <1>2, SubstitutionIsTheTable DEF Deciphered
<1>4. ASSUME NEW n \in Index PROVE Deciphered(Enciphered(s))[n] = s[n]
  <2> DEFINE From(m) == (m % 4) + 4 * (((m \div 4) + (m % 4)) % 4)
             To(m) == (m % 4) + 4 * (((m \div 4) - (m % 4)) % 4)
  <2>1. To(n) \in Index /\ From(To(n)) = n
    BY DEF Index
  <2>2. Unshifted(Enciphered(s))[n] = Enciphered(s)[To(n)]
    BY DEF Unshifted
  <2>3. Enciphered(s)[To(n)] = SubOf[t[To(n)]]
    BY <1>1, <2>1 DEF sub_bytes
  <2>4. t[To(n)] = s[From(To(n))]
    BY <2>1 DEF Shifted
  <2>5. Deciphered(Enciphered(s))[n] = InvSubOf[SubOf[s[n]]]
    <3> HIDE DEF t, From, To
    <3> QED BY <1>3, <2>1, <2>2, <2>3, <2>4 DEF inv_sub_bytes
  <2> QED BY <2>5 DEF TablesAreInverse, State
<1>5. Deciphered(Enciphered(s)) \in State
  BY <1>2, StepStates DEF Deciphered
<1> QED BY <1>1, <1>4, <1>5 DEF State

(* Registers of 128 bits are their sixteen bytes. *)
LEMMA Memory ==
  ASSUME W = 64
  PROVE  /\ \A s \in State : Packed(s) \in SUBSET Bit /\ Bytes(Packed(s)) = s
         /\ \A x, y \in SUBSET Bit : Bytes(x) = Bytes(y) => x = y
         /\ \A x, y \in SUBSET Bit : Bytes(Xor(x, y)) = Plus(Bytes(x), Bytes(y))
<1>1. Bit = 0 .. 127
  BY DEF Bit
<1>2. ASSUME NEW n \in Index, NEW k \in 0 .. 7
      PROVE  8 * n + k \in Bit /\ (8 * n + k) % 8 = k /\ (8 * n + k) \div 8 = n
  BY <1>1 DEF Index
<1>3. ASSUME NEW j \in Bit
      PROVE  j \div 8 \in Index /\ j % 8 \in 0 .. 7 /\ 8 * (j \div 8) + (j % 8) = j
  BY <1>1 DEF Index
<1>4. ASSUME NEW s \in State PROVE Packed(s) \in SUBSET Bit /\ Bytes(Packed(s)) = s
  <2>1. Bytes(Packed(s)) \in State
    BY BytesState
  <2>2. ASSUME NEW n \in Index PROVE Bytes(Packed(s))[n] = s[n]
    <3>1. Bytes(Packed(s))[n] = {k \in 0 .. 7 : 8 * n + k \in Packed(s)}
      BY DEF Bytes
    <3>2. \A k \in 0 .. 7 : 8 * n + k \in Packed(s) <=> k \in s[n]
      BY <1>2 DEF Packed
    <3>3. s[n] \subseteq 0 .. 7
      BY DEF State, Byte
    <3> QED BY <3>1, <3>2, <3>3
  <2> QED BY <2>1, <2>2 DEF State, Packed
<1>5. ASSUME NEW x \in SUBSET Bit, NEW y \in SUBSET Bit, Bytes(x) = Bytes(y) PROVE x = y
  <2>1. ASSUME NEW z \in SUBSET Bit, NEW j \in Bit
        PROVE  j \in z <=> j % 8 \in Bytes(z)[j \div 8]
    <3>1. Bytes(z)[j \div 8] = {k \in 0 .. 7 : 8 * (j \div 8) + k \in z}
      BY <1>3 DEF Bytes
    <3> QED BY <1>3, <3>1
  <2> QED BY <1>5, <2>1
<1>6. ASSUME NEW x \in SUBSET Bit, NEW y \in SUBSET Bit
      PROVE  Bytes(Xor(x, y)) = Plus(Bytes(x), Bytes(y))
  BY DEF Bytes, Plus, Xor
<1> QED BY <1>4, <1>5, <1>6

-----------------------------------------------------------------------------
(* A block that goes there and back *)

(* The bytes an instruction other than PCLMULQDQ leaves in its destination. *)
Outcome(op, s, k) == IF op = "pxor" THEN Plus(s, k) ELSE AesResult(op, s, k)

(* They are a state. *)
LEMMA OutcomeState ==
  ASSUME TablesAreDefined, NEW op \in Operation \ {"pclmulqdq"},
         NEW s \in State, NEW k \in State
  PROVE  Outcome(op, s, k) \in State
<1>1. CASE op = "pxor"
  BY <1>1, PlusStates DEF Outcome
<1>2. CASE op = "aesenc"
  BY <1>2, PlusStates, StepStates DEF Outcome, AesResult
<1>3. CASE op = "aesenclast"
  BY <1>3, PlusStates, StepStates DEF Outcome, AesResult
<1>4. CASE op = "aesdec"
  BY <1>4, PlusStates, StepStates DEF Outcome, AesResult
<1>5. CASE op = "aesdeclast"
  BY <1>5, PlusStates, StepStates DEF Outcome, AesResult
<1>6. CASE op = "aesimc"
  BY <1>6, StepStates DEF Outcome, AesResult
<1> QED BY <1>1, <1>2, <1>3, <1>4, <1>5, <1>6 DEF Operation

(* What a step does to the program and the registers: it ends an instruction, *)
(* or nothing of them moves.                                                  *)
Ends ==
  /\ prog # <<>> /\ prog' = Tail(prog)
  /\ Current.op # "pclmulqdq" =>
       \A r \in Reg : Bytes(xmm'[r]) = IF r = Current.d
         THEN Outcome(Current.op, Bytes(xmm[Current.d]), Bytes(xmm[Current.s]))
         ELSE Bytes(xmm[r])

LEMMA Progress ==
  ASSUME W = 64, TablesAreDefined, TypeInv, AesInv, AesResultIsDefined, Next
  PROVE  whole' = whole /\ first' = first /\ (UNCHANGED <<xmm, prog>> \/ Ends)
<1>1. /\ xmm \in [Reg -> SUBSET Bit] /\ tmp \in State
      /\ stage # "fetch" => prog # <<>> /\ last = Current /\ xmm = before
  BY DEF TypeInv, TypeOK, AesInv
<1>2. prog # <<>> => Current.d \in Reg /\ Current.s \in Reg /\ Current.op \in Operation
  <2>1. \A inst \in Instruction : inst.op \in Operation
    BY DEF Instruction
  <2> QED BY <2>1, CurrentInstruction DEF TypeInv
<1>3. ASSUME NEW value, Finish(value), stage # "fetch",
             Current.op # "pclmulqdq" =>
               value = Packed(Outcome(Current.op, Bytes(xmm[Current.d]), Bytes(xmm[Current.s])))
      PROVE  whole' = whole /\ first' = first /\ Ends
  <2>1. whole' = whole /\ first' = first /\ prog # <<>> /\ prog' = Tail(prog)
        /\ xmm' = [xmm EXCEPT ![Current.d] = value]
    BY <1>1, <1>3 DEF Finish, history
  <2>2. ASSUME Current.op # "pclmulqdq", NEW r \in Reg
        PROVE  Bytes(xmm'[r]) = IF r = Current.d
                 THEN Outcome(Current.op, Bytes(xmm[Current.d]), Bytes(xmm[Current.s]))
                 ELSE Bytes(xmm[r])
    <3> DEFINE out == Outcome(Current.op, Bytes(xmm[Current.d]), Bytes(xmm[Current.s]))
    <3>1. out \in State
      BY <1>2, <2>1, <2>2, OutcomeState, BytesState
    <3> HIDE DEF out
    <3>2. Bytes(Packed(out)) = out
      BY <3>1, Memory
    <3>3. value = Packed(out)
      BY <1>3, <2>2 DEF out
    <3> QED BY <1>1, <2>1, <3>2, <3>3 DEF out
  <2> QED BY <2>1, <2>2 DEF Ends
<1>4. ASSUME NEW op, NEW next, Fetch(op, next)
      PROVE  whole' = whole /\ first' = first /\ UNCHANGED <<xmm, prog>>
  BY <1>4 DEF Fetch
<1>5. ASSUME NEW now, NEW s, NEW next, Transform(now, s, next)
      PROVE  whole' = whole /\ first' = first /\ UNCHANGED <<xmm, prog>>
  BY <1>5 DEF Transform, history
<1>6. CASE Call
  <2>1. CASE HostXor
    <3>1. /\ whole' = whole /\ first' = first /\ prog # <<>> /\ prog' = Tail(prog)
          /\ Current.op = "pxor"
          /\ xmm' = [xmm EXCEPT ![Current.d] = Xor(xmm[Current.d], xmm[Current.s])]
      BY <2>1 DEF HostXor
    <3>2. Bytes(Xor(xmm[Current.d], xmm[Current.s]))
            = Plus(Bytes(xmm[Current.d]), Bytes(xmm[Current.s]))
      BY <1>1, <1>2, <3>1, Memory
    <3> QED BY <1>1, <3>1, <3>2 DEF Ends, Outcome
  <2> QED BY <1>4, <1>6, <2>1 DEF Call, CopyDest, CopySrc, SelectHalves
<1>7. CASE ShiftRows \/ SubBytes \/ MixColumns \/ InvShiftRows \/ InvSubBytes \/ InvMixColumns
  BY <1>5, <1>7 DEF ShiftRows, SubBytes, MixColumns, InvShiftRows, InvSubBytes, InvMixColumns
<1>8. CASE AddKey
  <2> DEFINE value == Packed([n \in Index |-> Xor(tmp[n], Bytes(xmm[Current.s])[n])])
  <2>1. Finish(value) /\ stage = "add_key"
    BY <1>8 DEF AddKey
  <2>2. value = Packed(Plus(tmp, Key))
    BY <1>1, <2>1 DEF Plus, Key
  <2>3. Plus(tmp, Key) = Outcome(Current.op, Bytes(xmm[Current.d]), Bytes(xmm[Current.s]))
    BY <1>1, <2>1 DEF AesInv, AesResult, Outcome, Operand, Key
  <2> HIDE DEF value
  <2> QED BY <1>3, <2>1, <2>2, <2>3
<1>9. CASE CopyBack
  <2>1. Finish(Packed(tmp)) /\ stage = "copy"
    BY <1>9 DEF CopyBack
  <2>2. tmp = Outcome(Current.op, Bytes(xmm[Current.d]), Bytes(xmm[Current.s]))
    BY <1>1, <2>1 DEF AesInv, AesResult, Outcome, Operand, Key
  <2> QED BY <1>3, <2>1, <2>2
<1>10. CASE Iterate
  BY <1>10 DEF Iterate, history
<1>11. CASE StoreProduct
  <2>1. Finish(Joined(low, high)) /\ stage = "multiply" /\ Current.op = "pclmulqdq"
    BY <1>1, <1>11 DEF StoreProduct, AesInv
  <2> QED BY <1>3, <2>1
<1> QED BY <1>6, <1>7, <1>8, <1>9, <1>10, <1>11 DEF Next

(* A round of AESDEC, with the key that went through AESIMC, takes back the   *)
(* columns and the key of one round and the substitution of the next.         *)
LEMMA RoundTaken ==
  ASSUME TablesAreDefined, TablesAreInverse, NEW s \in State, NEW k \in State
  PROVE  /\ Outcome("aesdec", Enciphered(Outcome("aesenc", s, k)), Mixed(k, Inverted))
              = Enciphered(s)
         /\ Outcome("aesdeclast", Enciphered(Plus(s, k)), k) = s
         /\ Outcome("pxor", Outcome("aesenclast", s, k), k) = Enciphered(s)
<1>1. Enciphered(s) \in State /\ Mixed(Enciphered(s), Direct) \in State
      /\ Mixed(k, Inverted) \in State /\ Plus(s, k) \in State
  BY RoundUndone, StepStates, PlusStates
<1> DEFINE next == Plus(Mixed(Enciphered(s), Direct), k)
<1>2. next \in State /\ Outcome("aesenc", s, k) = next
  BY <1>1, PlusStates DEF Outcome, AesResult, Enciphered
<1>3. Outcome("aesdec", Enciphered(next), Mixed(k, Inverted))
        = Plus(Mixed(Deciphered(Enciphered(next)), Inverted), Mixed(k, Inverted))
  BY DEF Outcome, AesResult, Deciphered
<1>4. Deciphered(Enciphered(next)) = next
  BY <1>2, RoundUndone
<1>5. Mixed(next, Inverted) = Plus(Enciphered(s), Mixed(k, Inverted))
  BY <1>1, ColumnsLinear, ColumnsUndone
<1>6. Outcome("aesdec", Enciphered(next), Mixed(k, Inverted)) = Enciphered(s)
  <2> HIDE DEF next
  <2> QED BY <1>1, <1>3, <1>4, <1>5, PlusStates
<1>7. Outcome("aesdeclast", Enciphered(Plus(s, k)), k) = s
  <2>1. Deciphered(Enciphered(Plus(s, k))) = Plus(s, k)
    BY <1>1, RoundUndone
  <2> QED BY <2>1, PlusStates DEF Outcome, AesResult, Deciphered
<1>8. Outcome("pxor", Outcome("aesenclast", s, k), k) = Enciphered(s)
  <2>1. Outcome("aesenclast", s, k) = Plus(Enciphered(s), k)
    BY DEF Outcome, AesResult, Enciphered
  <2> QED BY <1>1, <2>1, PlusStates DEF Outcome
<1> QED BY <1>2, <1>6, <1>7, <1>8

(* Which instruction of a round trip follows the first m. *)
InstructionAfter(key, m, inst) ==
  LET n == Len(key) IN
  /\ m = 0 => inst.op = "pxor" /\ inst.d = Data /\ inst.s = key[1]
  /\ 1 <= m /\ m <= n - 2 => inst.op = "aesenc" /\ inst.d = Data /\ inst.s = key[m + 1]
  /\ m = n - 1 => inst.op = "aesenclast" /\ inst.d = Data /\ inst.s = key[n]
  /\ m = n => inst.op = "pxor" /\ inst.d = Data /\ inst.s = key[n]
  /\ n < m /\ m <= 2 * n - 2 =>
       inst.op = "aesimc" /\ inst.d = key[m + 1 - n] /\ inst.s = key[m + 1 - n]
  /\ 2 * n - 1 <= m /\ m <= 3 * n - 4 =>
       inst.op = "aesdec" /\ inst.d = Data /\ inst.s = key[3 * n - 2 - m]
  /\ m = 3 * n - 3 => inst.op = "aesdeclast" /\ inst.d = Data /\ inst.s = key[1]

(* The instruction at each place of a round trip. *)
LEMMA TripInstruction ==
  ASSUME NEW key, Len(key) \in Nat, Len(key) > 1,
         NEW m \in Nat, m < 3 * Len(key) - 2, NEW inst, inst = RoundTrip(key)[m + 1]
  PROVE  InstructionAfter(key, m, inst)
<1> DEFINE n == Len(key)
           j == m + 1
           With(op, d, k) == [op |-> op, d |-> d, s |-> key[k], imm |-> 0]
<1>1. n \in Nat /\ n > 1 /\ m < 3 * n - 2
  OBVIOUS
<1>2. j \in 1 .. 3 * n - 2 /\ RoundTrip(key)[j] = inst
  <2>1. j \in 1 .. 3 * n - 2
    <3> HIDE DEF n
    <3> QED BY <1>1
  <2> QED BY <2>1
<1>3. inst = CASE j = 1 -> With("pxor", Data, 1)
               [] j \in 2 .. n - 1 -> With("aesenc", Data, j)
               [] j = n -> With("aesenclast", Data, n)
               [] j = n + 1 -> With("pxor", Data, n)
               [] j \in n + 2 .. 2 * n - 1 -> With("aesimc", key[j - n], j - n)
               [] j \in 2 * n .. 3 * n - 3 -> With("aesdec", Data, 3 * n - 1 - j)
               [] j = 3 * n - 2 -> With("aesdeclast", Data, 1)
  <2> HIDE DEF j
  <2> QED BY <1>2 DEF RoundTrip
<1> HIDE DEF n, With
<1>4. ASSUME m = 0
     PROVE  inst.op = "pxor" /\ inst.d = Data /\ inst.s = key[1]
  <2>1. j = 1 /\ ~(j \in 2 .. n - 1) /\ j # n /\ j # n + 1
        /\ ~(j \in n + 2 .. 2 * n - 1) /\ ~(j \in 2 * n .. 3 * n - 3) /\ j # 3 * n - 2
    BY <1>1, <1>4
  <2> HIDE DEF j
  <2>2. inst = With("pxor", Data, 1)
    BY <1>3, <2>1
  <2> QED BY <2>2 DEF With
<1>5. ASSUME 1 <= m, m <= n - 2
     PROVE  inst.op = "aesenc" /\ inst.d = Data /\ inst.s = key[m + 1]
  <2>1. j # 1 /\ j \in 2 .. n - 1 /\ j # n /\ j # n + 1
        /\ ~(j \in n + 2 .. 2 * n - 1) /\ ~(j \in 2 * n .. 3 * n - 3) /\ j # 3 * n - 2
    BY <1>1, <1>5
  <2> HIDE DEF j
  <2>2. inst = With("aesenc", Data, j)
    BY <1>3, <2>1
  <2> QED BY <2>2 DEF With, j
<1>6. ASSUME m = n - 1
     PROVE  inst.op = "aesenclast" /\ inst.d = Data /\ inst.s = key[n]
  <2>1. j # 1 /\ ~(j \in 2 .. n - 1) /\ j = n /\ j # n + 1
        /\ ~(j \in n + 2 .. 2 * n - 1) /\ ~(j \in 2 * n .. 3 * n - 3) /\ j # 3 * n - 2
    BY <1>1, <1>6
  <2> HIDE DEF j
  <2>2. inst = With("aesenclast", Data, n)
    BY <1>3, <2>1
  <2> QED BY <2>2 DEF With
<1>7. ASSUME m = n
     PROVE  inst.op = "pxor" /\ inst.d = Data /\ inst.s = key[n]
  <2>1. j # 1 /\ ~(j \in 2 .. n - 1) /\ j # n /\ j = n + 1
        /\ ~(j \in n + 2 .. 2 * n - 1) /\ ~(j \in 2 * n .. 3 * n - 3) /\ j # 3 * n - 2
    BY <1>1, <1>7
  <2> HIDE DEF j
  <2>2. inst = With("pxor", Data, n)
    BY <1>3, <2>1
  <2> QED BY <2>2 DEF With
<1>8. ASSUME n < m, m <= 2 * n - 2
     PROVE  inst.op = "aesimc" /\ inst.d = key[m + 1 - n] /\ inst.s = key[m + 1 - n]
  <2>1. j # 1 /\ ~(j \in 2 .. n - 1) /\ j # n /\ j # n + 1
        /\ j \in n + 2 .. 2 * n - 1 /\ ~(j \in 2 * n .. 3 * n - 3) /\ j # 3 * n - 2
        /\ j - n = m + 1 - n
    BY <1>1, <1>8
  <2> HIDE DEF j
  <2>2. inst = With("aesimc", key[j - n], j - n)
    BY <1>3, <2>1
  <2> QED BY <2>1, <2>2 DEF With
<1>9. ASSUME 2 * n - 1 <= m, m <= 3 * n - 4
     PROVE  inst.op = "aesdec" /\ inst.d = Data /\ inst.s = key[3 * n - 2 - m]
  <2>1. j # 1 /\ ~(j \in 2 .. n - 1) /\ j # n /\ j # n + 1
        /\ ~(j \in n + 2 .. 2 * n - 1) /\ j \in 2 * n .. 3 * n - 3 /\ j # 3 * n - 2
        /\ 3 * n - 1 - j = 3 * n - 2 - m
    BY <1>1, <1>9
  <2> HIDE DEF j
  <2>2. inst = With("aesdec", Data, 3 * n - 1 - j)
    BY <1>3, <2>1
  <2> QED BY <2>1, <2>2 DEF With
<1>10. ASSUME m = 3 * n - 3
     PROVE  inst.op = "aesdeclast" /\ inst.d = Data /\ inst.s = key[1]
  <2>1. j # 1 /\ ~(j \in 2 .. n - 1) /\ j # n /\ j # n + 1
        /\ ~(j \in n + 2 .. 2 * n - 1) /\ ~(j \in 2 * n .. 3 * n - 3) /\ j = 3 * n - 2
    BY <1>1, <1>10
  <2> HIDE DEF j
  <2>2. inst = With("aesdeclast", Data, 1)
    BY <1>3, <2>1
  <2> QED BY <2>2 DEF With
<1> QED BY <1>4, <1>5, <1>6, <1>7, <1>8, <1>9, <1>10 DEF n, InstructionAfter

(* How far a round trip has come: after m instructions, with the states T     *)
(* between the rounds.                                                        *)
RoundKey(key, j) == Bytes(first[key[j]])

RestOfTrip(key, m) ==
  /\ m \in Nat /\ m <= 3 * Len(key) - 2 /\ Len(prog) = 3 * Len(key) - 2 - m
  /\ \A j \in 1 .. Len(prog) : prog[j] = RoundTrip(key)[m + j]

RoundStates(key, m, T) ==
  /\ T \in [Nat -> State]
  /\ T[0] = Bytes(first[Data])
  /\ m >= 1 => T[1] = Plus(T[0], RoundKey(key, 1))
  /\ \A j \in 2 .. Len(key) - 1 :
       j <= m => T[j] = Outcome("aesenc", T[j - 1], RoundKey(key, j))

BlockOfTrip(key, m, T) ==
  LET n == Len(key)  block == Bytes(xmm[Data]) IN
  /\ m < n => block = T[m]
  /\ m = n => block = Outcome("aesenclast", T[n - 1], RoundKey(key, n))
  /\ n < m /\ m <= 2 * n - 1 => block = Enciphered(T[n - 1])
  /\ 2 * n <= m /\ m < 3 * n - 2 => block = Enciphered(T[3 * n - 2 - m])
  /\ m = 3 * n - 2 => block = T[0]

KeysOfTrip(key, m) ==
  \A j \in 1 .. Len(key) :
    Bytes(xmm[key[j]]) = IF 1 < j /\ j < Len(key) /\ Len(key) + j <= m
                         THEN Mixed(RoundKey(key, j), Inverted) ELSE RoundKey(key, j)

Trip(key, m, T) ==
  RestOfTrip(key, m) /\ RoundStates(key, m, T) /\ BlockOfTrip(key, m, T) /\ KeysOfTrip(key, m)

UndoInv ==
  /\ first \in [Reg -> SUBSET Bit]
  /\ \A key \in Schedules : whole = RoundTrip(key) => \E m, T : Trip(key, m, T)

(* What the schedules are. *)
LEMMA ScheduleKeys ==
  ASSUME NEW key \in Schedules
  PROVE  /\ Data \in Reg /\ Len(key) \in Nat /\ Len(key) > 1
         /\ \A j \in 1 .. Len(key) : key[j] \in Reg /\ key[j] # Data
         /\ \A j, k \in 1 .. Len(key) : key[j] = key[k] => j = k
<1>1. key \in Seq(Reg \ {Data})
  BY ScheduleAssumption
<1>2. Len(key) \in Nat /\ \A j \in 1 .. Len(key) : key[j] \in Reg \ {Data}
  BY <1>1
<1> QED BY <1>2, ScheduleAssumption

(* A trip starts at its start. *)
LEMMA TripStarts == Init => UndoInv
<1> SUFFICES ASSUME Init PROVE UndoInv
  OBVIOUS
<1>1. first \in [Reg -> SUBSET Bit] /\ xmm = first /\ prog = whole /\ whole \in Seq(Instruction)
  BY MathAssumption DEF Init
<1>2. ASSUME NEW key \in Schedules, whole = RoundTrip(key) PROVE \E m, T : Trip(key, m, T)
  <2> DEFINE T == [j \in Nat |-> Bytes(first[Data])]
             n == Len(key)
  <2>1. n \in Nat /\ n > 1
    BY ScheduleKeys
  <2>2. Len(prog) = 3 * n - 2
    <3>1. DOMAIN prog = 1 .. 3 * n - 2
      BY <1>1, <1>2 DEF RoundTrip
    <3>2. Len(prog) \in Nat /\ DOMAIN prog = 1 .. Len(prog)
      BY <1>1
    <3> QED BY <2>1, <3>1, <3>2
  <2>3. RestOfTrip(key, 0)
    <3>1. \A j \in 1 .. Len(prog) : 0 + j = j
      BY <2>1, <2>2
    <3> QED BY <1>1, <1>2, <2>1, <2>2, <3>1 DEF RestOfTrip
  <2>4. RoundStates(key, 0, T)
    BY BytesState DEF RoundStates
  <2>5. BlockOfTrip(key, 0, T)
    BY <1>1, <2>1 DEF BlockOfTrip
  <2>6. KeysOfTrip(key, 0)
    BY <1>1, <2>1 DEF KeysOfTrip, RoundKey
  <2> QED BY <2>3, <2>4, <2>5, <2>6 DEF Trip
<1> QED BY <1>1, <1>2 DEF UndoInv

(* An instruction takes a trip one step further. *)
LEMMA TripGoesOn ==
  ASSUME TablesAreDefined, TablesAreInverse, TypeOK, first' = first, Ends,
         NEW key \in Schedules, NEW m, NEW T, Trip(key, m, T)
  PROVE  \E S : Trip(key, m + 1, S)'
<1> DEFINE n == Len(key)
           K(j) == RoundKey(key, j)
           block == Bytes(xmm[Data])
           inst == Current
<1>1. /\ Data \in Reg /\ n \in Nat /\ n > 1
      /\ \A j \in 1 .. n : key[j] \in Reg /\ key[j] # Data
      /\ \A j, k \in 1 .. n : key[j] = key[k] => j = k
  BY ScheduleKeys
<1>2. \A j : K(j) \in State /\ K(j)' = K(j)
  BY BytesState DEF RoundKey
<1>3. /\ m \in Nat /\ Len(prog) = 3 * n - 2 - m
      /\ \A j \in 1 .. Len(prog) : prog[j] = RoundTrip(key)[m + j]
  BY DEF Trip, RestOfTrip
<1>4. /\ Len(prog) \in Nat /\ Len(prog) > 0 /\ Len(prog') = Len(prog) - 1
      /\ \A j \in 1 .. Len(prog') : prog'[j] = prog[j + 1]
      /\ Current = prog[1]
  BY DEF TypeOK, Ends, Current
<1>5. m < 3 * n - 2 /\ inst = RoundTrip(key)[m + 1]
  BY <1>1, <1>3, <1>4
<1>6. RestOfTrip(key, m + 1)'
  <2>1. \A j \in 1 .. Len(prog') : prog'[j] = RoundTrip(key)[(m + 1) + j]
    <3> SUFFICES ASSUME NEW j \in 1 .. Len(prog') PROVE prog'[j] = RoundTrip(key)[(m + 1) + j]
      OBVIOUS
    <3>1. j + 1 \in 1 .. Len(prog) /\ m + (j + 1) = (m + 1) + j
      BY <1>3, <1>4
    <3> QED BY <1>3, <1>4, <3>1
  <2> QED BY <1>1, <1>3, <1>4, <1>5, <2>1 DEF RestOfTrip
<1>7. /\ T \in [Nat -> State] /\ T[0] = Bytes(first[Data])
      /\ m >= 1 => T[1] = Plus(T[0], K(1))
      /\ \A j \in 2 .. n - 1 : j <= m => T[j] = Outcome("aesenc", T[j - 1], K(j))
  BY DEF Trip, RoundStates
<1>8. /\ m < n => block = T[m]
      /\ m = n => block = Outcome("aesenclast", T[n - 1], K(n))
      /\ n < m /\ m <= 2 * n - 1 => block = Enciphered(T[n - 1])
      /\ 2 * n <= m /\ m < 3 * n - 2 => block = Enciphered(T[3 * n - 2 - m])
  BY DEF Trip, BlockOfTrip
<1>9. \A j \in 1 .. n :
        Bytes(xmm[key[j]]) = IF 1 < j /\ j < n /\ n + j <= m THEN Mixed(K(j), Inverted) ELSE K(j)
  BY DEF Trip, KeysOfTrip
<1>10. ASSUME NEW S, RoundStates(key, m + 1, S)', BlockOfTrip(key, m + 1, S)',
              KeysOfTrip(key, m + 1)'
       PROVE  \E U : Trip(key, m + 1, U)'
  BY <1>6, <1>10 DEF Trip
<1>11. /\ m = 0 => inst.op = "pxor" /\ inst.d = Data /\ inst.s = key[1]
       /\ 1 <= m /\ m <= n - 2 => inst.op = "aesenc" /\ inst.d = Data /\ inst.s = key[m + 1]
       /\ m = n - 1 => inst.op = "aesenclast" /\ inst.d = Data /\ inst.s = key[n]
       /\ m = n => inst.op = "pxor" /\ inst.d = Data /\ inst.s = key[n]
       /\ n < m /\ m <= 2 * n - 2 =>
            inst.op = "aesimc" /\ inst.d = key[m + 1 - n] /\ inst.s = key[m + 1 - n]
       /\ 2 * n - 1 <= m /\ m <= 3 * n - 4 =>
            inst.op = "aesdec" /\ inst.d = Data /\ inst.s = key[3 * n - 2 - m]
       /\ m = 3 * n - 3 => inst.op = "aesdeclast" /\ inst.d = Data /\ inst.s = key[1]
  <2>1. Len(key) \in Nat /\ Len(key) > 1 /\ m < 3 * Len(key) - 2
    BY <1>1, <1>5
  <2>2. inst = RoundTrip(key)[m + 1]
    BY <1>5
  <2> HIDE DEF inst
  <2>3. InstructionAfter(key, m, inst)
    BY <1>3, <2>1, <2>2, TripInstruction
  <2> HIDE DEF n
  <2> QED BY <2>3 DEF n, InstructionAfter
<1>12. inst.op # "pclmulqdq" =>
         \A r \in Reg : Bytes(xmm'[r]) = IF r = inst.d
           THEN Outcome(inst.op, Bytes(xmm[inst.d]), Bytes(xmm[inst.s])) ELSE Bytes(xmm[r])
  BY DEF Ends
<1> HIDE DEF inst
(* An instruction on the block leaves the keys alone. *)
<1>13. ASSUME NEW op \in Operation \ {"pclmulqdq"}, NEW j \in 1 .. n,
              inst.op = op, inst.d = Data, inst.s = key[j], m <= n \/ 2 * n - 1 <= m
       PROVE  /\ Bytes(xmm'[Data]) = Outcome(op, block, Bytes(xmm[key[j]]))
              /\ KeysOfTrip(key, m + 1)'
  <2>1. \A r \in Reg : Bytes(xmm'[r]) = IF r = Data
          THEN Outcome(op, block, Bytes(xmm[key[j]])) ELSE Bytes(xmm[r])
    BY <1>12, <1>13
  <2>2. ASSUME NEW k \in 1 .. n
        PROVE  Bytes(xmm'[key[k]]) = IF 1 < k /\ k < n /\ n + k <= m + 1
                                     THEN Mixed(K(k), Inverted) ELSE K(k)
    <3>1. Bytes(xmm'[key[k]]) = Bytes(xmm[key[k]])
      BY <1>1, <2>1
    <3>2. (1 < k /\ k < n /\ n + k <= m) <=> (1 < k /\ k < n /\ n + k <= m + 1)
      BY <1>1, <1>3, <1>13
    <3> HIDE DEF K
    <3> QED BY <1>9, <3>1, <3>2
  <2>3. KeysOfTrip(key, m + 1)'
    BY <1>2, <2>2 DEF KeysOfTrip
  <2> QED BY <1>1, <2>1, <2>3
(* Once the rounds are over their states stay. *)
<1>14. ASSUME m >= n - 1 PROVE RoundStates(key, m + 1, T)'
  <2>1. \A j \in 2 .. n - 1 : T[j] = Outcome("aesenc", T[j - 1], K(j)')
    BY <1>1, <1>2, <1>3, <1>7, <1>14
  <2>2. T[1] = Plus(T[0], K(1)')
    BY <1>1, <1>2, <1>3, <1>7, <1>14
  <2> QED BY <1>7, <2>1, <2>2 DEF RoundStates
(* A round of the encryption adds one. *)
<1>15. ASSUME m < n - 1,
              Bytes(xmm'[Data]) = IF m = 0 THEN Plus(T[0], K(1))
                                  ELSE Outcome("aesenc", T[m], K(m + 1)),
              Bytes(xmm'[Data]) \in State, KeysOfTrip(key, m + 1)'
       PROVE  \E S : Trip(key, m + 1, S)'
  <2>1. \E S : /\ S \in [Nat -> State] /\ S[m + 1] = Bytes(xmm'[Data])
               /\ \A j \in Nat : j <= m => S[j] = T[j]
    <3> DEFINE S == [T EXCEPT ![m + 1] = Bytes(xmm'[Data])]
    <3>1. S \in [Nat -> State] /\ S[m + 1] = Bytes(xmm'[Data])
          /\ \A j \in Nat : j <= m => S[j] = T[j]
      BY <1>3, <1>7, <1>15
    <3> HIDE DEF S
    <3> QED BY <3>1
  <2>2. PICK S : /\ S \in [Nat -> State] /\ S[m + 1] = Bytes(xmm'[Data])
                 /\ \A j \in Nat : j <= m => S[j] = T[j]
    BY <2>1
  <2>3. S[0] = Bytes(first[Data]) /\ S[1] = Plus(S[0], K(1))
    <3> HIDE DEF K
    <3>1. CASE m = 0
      BY <1>7, <1>15, <2>2, <3>1
    <3>2. CASE m >= 1
      BY <1>3, <1>7, <2>2, <3>2
    <3> QED BY <1>3, <3>1, <3>2
  <2>4. ASSUME NEW j \in 2 .. n - 1, j <= m + 1
        PROVE  S[j] = Outcome("aesenc", S[j - 1], K(j))
    <3> HIDE DEF K
    <3>1. CASE j = m + 1
      BY <1>3, <1>15, <2>2, <3>1
    <3>2. CASE j <= m
      <4>1. j \in Nat /\ j - 1 \in Nat /\ j - 1 <= m
        BY <1>3, <3>2
      <4>2. S[j] = T[j] /\ S[j - 1] = T[j - 1]
        BY <2>2, <3>2, <4>1
      <4> QED BY <1>7, <3>2, <4>2
    <3> QED BY <1>3, <2>4, <3>1, <3>2
  <2>5. RoundStates(key, m + 1, S)'
    BY <1>2, <2>2, <2>3, <2>4 DEF RoundStates
  <2>6. BlockOfTrip(key, m + 1, S)'
    BY <1>1, <1>3, <1>15, <2>2 DEF BlockOfTrip
  <2> QED BY <1>10, <1>15, <2>5, <2>6
<1>16. CASE m = 0
  <2>1. Bytes(xmm'[Data]) = Outcome("pxor", block, Bytes(xmm[key[1]])) /\ KeysOfTrip(key, m + 1)'
    BY <1>1, <1>11, <1>13, <1>16 DEF Operation
  <2>2. block = T[0] /\ Bytes(xmm[key[1]]) = K(1)
    BY <1>1, <1>8, <1>9, <1>16
  <2>3. Bytes(xmm'[Data]) = Plus(T[0], K(1))
    BY <2>1, <2>2 DEF Outcome
  <2>4. Bytes(xmm'[Data]) \in State
    BY BytesState
  <2> QED BY <1>1, <1>15, <1>16, <2>1, <2>3, <2>4
<1>17. CASE 1 <= m /\ m <= n - 2
  <2>1. m + 1 \in 1 .. n /\ m < n /\ m <= n /\ m # 0 /\ ~(n + (m + 1) <= m)
    BY <1>1, <1>3, <1>17
  <2>2. Bytes(xmm'[Data]) = Outcome("aesenc", block, Bytes(xmm[key[m + 1]]))
        /\ KeysOfTrip(key, m + 1)'
    <3>1. "aesenc" \in Operation \ {"pclmulqdq"}
      BY DEF Operation
    <3>2. inst.op = "aesenc" /\ inst.d = Data /\ inst.s = key[m + 1]
      BY <1>11, <1>17
    <3> QED BY <1>13, <2>1, <3>1, <3>2
  <2>3. block = T[m] /\ Bytes(xmm[key[m + 1]]) = K(m + 1)
    BY <1>8, <1>9, <2>1
  <2>4. Bytes(xmm'[Data]) \in State
    BY BytesState
  <2> QED BY <1>1, <1>3, <1>15, <1>17, <2>1, <2>2, <2>3, <2>4
<1>18. CASE m = n - 1
  <2>1. Bytes(xmm'[Data]) = Outcome("aesenclast", block, Bytes(xmm[key[n]]))
        /\ KeysOfTrip(key, m + 1)'
    BY <1>1, <1>11, <1>13, <1>18 DEF Operation
  <2>2. block = T[n - 1] /\ Bytes(xmm[key[n]]) = K(n)
    BY <1>1, <1>8, <1>9, <1>18
  <2>3. Bytes(xmm'[Data]) = Outcome("aesenclast", T[n - 1], K(n)')
    BY <1>2, <2>1, <2>2
  <2>4. BlockOfTrip(key, m + 1, T)'
    BY <1>1, <1>18, <2>3 DEF BlockOfTrip
  <2> QED BY <1>1, <1>10, <1>14, <1>18, <2>1, <2>4
<1>19. CASE m = n
  <2>1. Bytes(xmm'[Data]) = Outcome("pxor", block, Bytes(xmm[key[n]]))
        /\ KeysOfTrip(key, m + 1)'
    BY <1>1, <1>11, <1>13, <1>19 DEF Operation
  <2>2. block = Outcome("aesenclast", T[n - 1], K(n)) /\ Bytes(xmm[key[n]]) = K(n)
    BY <1>1, <1>8, <1>9, <1>19
  <2>3. Bytes(xmm'[Data]) = Enciphered(T[n - 1])
    <3>1. T[n - 1] \in State
      BY <1>1, <1>7
    <3> QED BY <1>2, <2>1, <2>2, <3>1, RoundTaken
  <2>4. BlockOfTrip(key, m + 1, T)'
    BY <1>1, <1>19, <2>3 DEF BlockOfTrip
  <2> QED BY <1>1, <1>10, <1>14, <1>19, <2>1, <2>4
<1>20. CASE n < m /\ m <= 2 * n - 2
  <2> DEFINE j == m + 1 - n
  <2>1. j \in 2 .. n - 1 /\ j \in 1 .. n /\ ~(n + j <= m) /\ n + j = m + 1
    BY <1>1, <1>3, <1>20
  <2>2. inst.op = "aesimc" /\ inst.d = key[j] /\ inst.s = key[j]
    BY <1>11, <1>20
  <2> HIDE DEF j
  <2>3. Bytes(xmm[key[j]]) = K(j)
    BY <1>9, <2>1
  <2>4. \A r \in Reg : Bytes(xmm'[r]) = IF r = key[j]
          THEN Mixed(K(j), Inverted) ELSE Bytes(xmm[r])
    <3>1. Outcome("aesimc", Bytes(xmm[key[j]]), Bytes(xmm[key[j]])) = Mixed(K(j), Inverted)
      BY <2>3 DEF Outcome, AesResult
    <3> QED BY <1>12, <2>2, <3>1
  <2>5. Bytes(xmm'[Data]) = Enciphered(T[n - 1])
    <3>1. Bytes(xmm'[Data]) = block
      BY <1>1, <2>1, <2>4
    <3>2. m <= 2 * n - 1
      BY <1>1, <1>3, <1>20
    <3> QED BY <1>8, <1>20, <3>1, <3>2
  <2>6. BlockOfTrip(key, m + 1, T)'
    BY <1>1, <1>3, <1>20, <2>5 DEF BlockOfTrip
  <2>7. ASSUME NEW k \in 1 .. n
        PROVE  Bytes(xmm'[key[k]]) = IF 1 < k /\ k < n /\ n + k <= m + 1
                                     THEN Mixed(K(k), Inverted) ELSE K(k)
    <3>1. CASE k = j
      <4> HIDE DEF K
      <4> QED BY <1>1, <2>1, <2>4, <3>1
    <3>2. CASE k # j
      <4>1. Bytes(xmm'[key[k]]) = Bytes(xmm[key[k]])
        BY <1>1, <2>1, <2>4, <3>2
      <4>2. n + k <= m <=> n + k <= m + 1
        BY <1>1, <1>3, <2>1, <3>2
      <4> HIDE DEF K
      <4> QED BY <1>9, <4>1, <4>2
    <3> QED BY <3>1, <3>2
  <2>8. KeysOfTrip(key, m + 1)'
    BY <1>2, <2>7 DEF KeysOfTrip
  <2> QED BY <1>1, <1>3, <1>10, <1>14, <1>20, <2>6, <2>8
<1>21. CASE 2 * n - 1 <= m /\ m <= 3 * n - 4
  <2> DEFINE j == 3 * n - 2 - m
  <2>1. j \in 2 .. n - 1 /\ j \in 1 .. n /\ n + j <= m /\ j <= m /\ m >= n - 1
    BY <1>1, <1>3, <1>21
  <2>2. inst.op = "aesdec" /\ inst.d = Data /\ inst.s = key[j]
    BY <1>11, <1>21
  <2>3. block = Enciphered(T[j])
    <3>1. CASE m = 2 * n - 1
      <4>1. j = n - 1 /\ n < m
        BY <1>1, <3>1
      <4> QED BY <1>8, <3>1, <4>1
    <3>2. CASE 2 * n <= m
      BY <1>1, <1>3, <1>8, <1>21, <3>2
    <3>3. m = 2 * n - 1 \/ 2 * n <= m
      <4> HIDE DEF n
      <4> QED BY <1>1, <1>3, <1>21
    <3> QED BY <3>1, <3>2, <3>3
  <2>4. 3 * n - 2 - (m + 1) = j - 1 /\ j - 1 \in Nat /\ T[j] \in State /\ T[j - 1] \in State
    BY <1>1, <1>3, <1>7, <2>1
  <2> HIDE DEF j
  <2>5. Bytes(xmm'[Data]) = Outcome("aesdec", block, Bytes(xmm[key[j]]))
        /\ KeysOfTrip(key, m + 1)'
    BY <1>13, <1>21, <2>1, <2>2 DEF Operation
  <2>6. Bytes(xmm[key[j]]) = Mixed(K(j), Inverted)
    BY <1>1, <1>9, <2>1
  <2>7. T[j] = Outcome("aesenc", T[j - 1], K(j))
    BY <1>7, <2>1
  <2>8. Bytes(xmm'[Data]) = Enciphered(T[j - 1])
    BY <1>2, <2>3, <2>4, <2>5, <2>6, <2>7, RoundTaken
  <2>9. BlockOfTrip(key, m + 1, T)'
    BY <1>1, <1>3, <1>21, <2>4, <2>8 DEF BlockOfTrip
  <2> QED BY <1>10, <1>14, <2>1, <2>5, <2>9
<1>22. CASE m = 3 * n - 3
  <2>1. Bytes(xmm'[Data]) = Outcome("aesdeclast", block, Bytes(xmm[key[1]]))
        /\ KeysOfTrip(key, m + 1)'
    BY <1>1, <1>11, <1>13, <1>22 DEF Operation
  <2>2. Bytes(xmm[key[1]]) = K(1)
    BY <1>1, <1>9
  <2>3. block = Enciphered(T[1])
    <3>1. CASE n = 2
      BY <1>8, <1>22, <3>1
    <3>2. CASE n > 2
      <4>1. 2 * n <= m /\ m < 3 * n - 2 /\ 3 * n - 2 - m = 1
        BY <1>1, <1>22, <3>2
      <4> QED BY <1>8, <4>1
    <3>3. n = 2 \/ n > 2
      <4> HIDE DEF n
      <4> QED BY <1>1
    <3> QED BY <3>1, <3>2, <3>3
  <2>4. T[1] = Plus(T[0], K(1)) /\ T[0] \in State
    BY <1>1, <1>7, <1>22
  <2>5. Bytes(xmm'[Data]) = T[0]
    BY <1>2, <2>1, <2>2, <2>3, <2>4, RoundTaken
  <2>6. BlockOfTrip(key, m + 1, T)'
    BY <1>1, <1>22, <2>5 DEF BlockOfTrip
  <2> QED BY <1>1, <1>10, <1>14, <1>22, <2>1, <2>6
<1>23. \/ m = 0 \/ (1 <= m /\ m <= n - 2) \/ m = n - 1 \/ m = n \/ (n < m /\ m <= 2 * n - 2)
       \/ (2 * n - 1 <= m /\ m <= 3 * n - 4) \/ m = 3 * n - 3
  <2> HIDE DEF n
  <2> QED BY <1>1, <1>3, <1>5
<1> QED BY <1>23, <1>16, <1>17, <1>18, <1>19, <1>20, <1>21, <1>22

(* A step that ends no instruction leaves a trip where it is. *)
LEMMA TripWaits ==
  ASSUME NEW key, NEW m, NEW T, Trip(key, m, T), UNCHANGED <<xmm, prog, first>>
  PROVE  Trip(key, m, T)'
BY DEF Trip, RestOfTrip, RoundStates, BlockOfTrip, KeysOfTrip, RoundKey

(* Every step keeps how far the trip has come. *)
LEMMA NextUndo ==
  ASSUME W = 64, TablesAreDefined, TablesAreInverse, TypeInv, AesInv, AesResultIsDefined,
         UndoInv, Next
  PROVE  UndoInv'
<1>1. whole' = whole /\ first' = first /\ (UNCHANGED <<xmm, prog>> \/ Ends)
  BY Progress
<1>2. ASSUME NEW key \in Schedules, whole = RoundTrip(key) PROVE \E m, T : Trip(key, m, T)'
  <2>1. PICK m, T : Trip(key, m, T)
    BY <1>2 DEF UndoInv
  <2>2. CASE Ends
    BY <1>1, <2>1, <2>2, TripGoesOn DEF TypeInv
  <2>3. CASE UNCHANGED <<xmm, prog>>
    <3> QED BY <1>1, <2>1, <2>3, TripWaits
  <2> QED BY <1>1, <2>2, <2>3
<1> QED BY <1>1, <1>2 DEF UndoInv

(* Decryption the way hosts do it undoes encryption: for every number of      *)
(* rounds, every choice of registers for the keys and every block and key     *)
(* in them, whatever other programs there are.  The hypotheses on the two     *)
(* tables are what TLC evaluates, entry by entry.                             *)
THEOREM CipherIsUndone ==
  ASSUME W = 64, TablesAreDefined, TablesAreInverse
  PROVE  Spec => []DecryptionUndoesEncryption
<1> DEFINE Inv == TypeInv /\ AesInv /\ AesResultIsDefined /\ UndoInv
<1>1. Init => Inv
  BY InitType, TripStarts DEF Init, AesInv, AesResultIsDefined, Finished
<1>2. Inv /\ UNCHANGED vars => Inv'
  <2> SUFFICES ASSUME Inv, UNCHANGED vars PROVE Inv'
    OBVIOUS
  <2>1. (TypeInv /\ AesInv /\ AesResultIsDefined)'
    BY StutterType DEF AesInv, AesResultIsDefined, Finished, Operand, Key, vars, history
  <2>2. UndoInv'
    <3>1. \A key \in Schedules : whole = RoundTrip(key) => \E m, T : Trip(key, m, T)'
      BY TripWaits DEF UndoInv, vars, history
    <3> QED BY <3>1 DEF UndoInv, vars, history
  <2> QED BY <2>1, <2>2
<1>3. Inv /\ Next => Inv'
  BY NextType, NextAes, NextUndo
<1>4. Inv => DecryptionUndoesEncryption
  <2> SUFFICES ASSUME Inv, prog = <<>>, NEW key \in Schedules, whole = RoundTrip(key)
               PROVE  xmm[Data] = first[Data]
    BY DEF DecryptionUndoesEncryption, Undoing
  <2>1. PICK m, T : Trip(key, m, T)
    BY DEF UndoInv
  <2>2. m = 3 * Len(key) - 2
    BY <2>1, ScheduleKeys DEF Trip, RestOfTrip
  <2>3. Bytes(xmm[Data]) = T[0] /\ T[0] = Bytes(first[Data])
    BY <2>1, <2>2, ScheduleKeys DEF Trip, BlockOfTrip, RoundStates
  <2>4. xmm[Data] \in SUBSET Bit /\ first[Data] \in SUBSET Bit
    BY ScheduleKeys, ScheduleAssumption DEF TypeInv, TypeOK, UndoInv
  <2> QED BY <2>3, <2>4, Memory
<1> HIDE DEF Inv
<1> QED BY <1>1, <1>2, <1>3, <1>4, PTL DEF Spec
=============================================================================
