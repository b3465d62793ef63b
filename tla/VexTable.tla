------------------------------- MODULE VexTable -------------------------------
(***************************************************************************)
(* The branches of the seven instruction groups of src/src/avx.  Each      *)
(* branch of a group's if / else-if chain is a row: the maps, prefixes,    *)
(* opcodes and ModRM.reg extensions its condition accepts, and what its    *)
(* body does to the length of the instruction and to the upper YMM halves. *)
(* The lanes it computes are left out.  Two rows share a branch whose      *)
(* load and store write different registers.                               *)
(***************************************************************************)
EXTENDS Integers

AnyMap == 0 .. 31    \* a condition without a test of vex_m
AnyReg == 0 .. 7

\* How a branch sets inst->bytes_consumed: it leaves what avx_decode put there,
\* computes expected_len, or takes one byte after the operand.
LengthRule == {"decoded", "expected", "oneMore"}

\* What a branch writes: an xmm register named by ModRM.reg or, in its register
\* form, by ModRM.rm; none (memory, general registers, flags); or every one.
DestRule == {"reg", "rm", "none", "all"}

\* The upper half of that register: written if VEX.L is 1 and zeroed
\* otherwise, always zeroed, or always written.
HalfRule == {"byL", "zero", "both"}

Branch(name, maps, pps, ops, length, dest, half) ==
    [name |-> name, maps |-> maps, pps |-> pps, ops |-> ops, exts |-> AnyReg,
     length |-> length, dest |-> dest, half |-> half]

Wide(name, maps, pps, ops) == Branch(name, maps, pps, ops, "decoded", "reg", "byL")
Narrow(name, maps, pps, ops) == Branch(name, maps, pps, ops, "decoded", "reg", "zero")
Aside(name, maps, pps, ops) == Branch(name, maps, pps, ops, "decoded", "none", "zero")
Store(name, maps, pps, ops, half) == Branch(name, maps, pps, ops, "decoded", "rm", half)
WithImm(name, maps, pps, ops, half) == Branch(name, maps, pps, ops, "expected", "reg", half)

-----------------------------------------------------------------------------
(* avx_emulate_move *)

Zeroing == {Branch("vzeroupper", AnyMap, {0}, {\h77}, "decoded", "all", "zero")}

MoveAligned ==
    {Wide("vmovups_load", AnyMap, {0, 1}, {\h10, \h28}),
     Store("vmovups_store", AnyMap, {0, 1}, {\h11, \h29}, "byL")}

MoveScalar ==
    {Narrow("vmovss_load", AnyMap, {2, 3}, {\h10}),
     Store("vmovss_store", AnyMap, {2, 3}, {\h11}, "zero")}

MoveInteger ==
    {Narrow("vmovd_load", AnyMap, {1}, {\h6E}),
     Aside("vmovd_store", AnyMap, {1}, {\h7E}),
     Store("vmovq_store", {1}, {1}, {\hD6}, "zero")}

MoveHalves ==
    {Narrow("vmovlps_load", {1}, {0, 1}, {\h12, \h16}),
     Aside("vmovlps_store", {1}, {0, 1}, {\h13, \h17}),
     Narrow("vmovq_load", AnyMap, {2}, {\h7E})}

MoveUnaligned ==
    {Wide("vmovdqu_load", AnyMap, {1, 2}, {\h6F}),
     Store("vmovdqu_store", AnyMap, {1, 2}, {\h7F}, "byL")}

MoveSpecial ==
    {Wide("vmovddup", AnyMap, {3}, {\h12}),
     Branch("vextractps", {3}, 0 .. 3, {\h17}, "oneMore", "none", "zero")}

Move == Zeroing \cup MoveAligned \cup MoveScalar \cup MoveInteger \cup MoveHalves
          \cup MoveUnaligned \cup MoveSpecial

(* avx_emulate_pack *)

Pack == {Wide("vpack", {1}, {1}, {\h63, \h67, \h6B}),
         Wide("vpackusdw", {2}, {1}, {\h2B})}

(* avx_emulate_permute *)

\* Fault: no test of vex_m.
PermqAnyMap == {WithImm("vpermq", AnyMap, {1}, {\h00}, "both")}
Permq == {WithImm("vpermq", {3}, {1}, {\h00}, "both")}

Lanes128 ==
    {Branch("vextract128", {3}, {1}, {\h19, \h39}, "expected", "rm", "zero"),
     WithImm("vinsert128", {3}, {1}, {\h18, \h38}, "both")}

Permute == Permq \cup Lanes128

-----------------------------------------------------------------------------
(* avx_emulate_integer *)

IntegerLogic ==
    {Wide("vpxor", AnyMap, {1}, {\hEF, \hDB, \hEB, \hDF}),
     Wide("vpbroadcast", {2}, {1}, {\h78, \h79, \h58, \h59})}

IntegerExtend ==
    {Wide("vpmovzxbw", {2}, {1}, {\h30}),
     Wide("vpmovx", {2}, {1}, (\h21 .. \h25) \cup (\h31 .. \h35))}

IntegerMinMaxMul ==
    {Wide("vpminmaxd", {2}, {1}, {\h39, \h3B, \h3D, \h3F}),
     Wide("vpmulld", {2}, {1}, {\h40}),
     Wide("vpmuldq", {2}, {1}, {\h28}),
     Wide("vpmuludq", {1}, {1}, {\hF4})}

IntegerShiftMul ==
    {Wide("vpsllv", {2}, {1}, {\h45, \h47}),
     Wide("vpmullw", {1}, {1}, {\hD5}),
     WithImm("vpinsr", {3}, {1}, {\h20, \h22}, "zero")}

IntegerAddCompare ==
    {Wide("vpadd", {1}, {1}, {\hFC, \hFD, \hFE, \hD4, \hFA}),
     Wide("vpcmpeq", {1}, {1}, {\h74, \h75, \h76}),
     Wide("vpcmpgt", {1}, {1}, {\h64, \h65, \h66}),
     Wide("vpcmpgtq", {2}, {1}, {\h37})}

\* The shifts write the register of ModRM.reg, which in these opcodes is the
\* extension, where the encoding names the destination in VEX.vvvv.
ShiftRow(ops, exts) ==
    [Branch("vpshift_imm", AnyMap, {1}, ops, "oneMore", "reg", "byL") EXCEPT !.exts = exts]

IntegerShiftImm == {ShiftRow({\h71, \h72}, {2, 4, 6}), ShiftRow({\h73}, {2, 6})}

IntegerShuffle ==
    {Branch("vpshufd", {1}, {1}, {\h70}, "oneMore", "reg", "byL"),
     Wide("vpshufb", {2}, {1}, {\h00}),
     Wide("vpunpckqdq", {1}, {1}, {\h6C, \h6D})}

IntegerMask ==
    {Wide("vpcmpeqq", {2}, {1}, {\h29}),
     Aside("vpmovmskb", {1}, {1}, {\hD7})}

Integer == IntegerLogic \cup IntegerExtend \cup IntegerMinMaxMul \cup IntegerShiftMul
             \cup IntegerAddCompare \cup IntegerShiftImm \cup IntegerShuffle \cup IntegerMask

-----------------------------------------------------------------------------
(* avx_emulate_float *)

Arithmetic == {\h58, \h59, \h5C, \h5D, \h5E, \h5F}

FloatLogic == {Wide("vandps", AnyMap, {0, 1}, \h54 .. \h57)}

FloatArithmetic ==
    {Wide("vaddps", AnyMap, {0}, Arithmetic), Wide("vaddpd", AnyMap, {1}, Arithmetic),
     Narrow("vaddss", AnyMap, {2, 3}, Arithmetic)}

FloatShuffle ==
    {Wide("vaddsubps", {1}, {1, 3}, {\hD0}),
     Wide("vmovsldup", {1}, {2}, {\h12, \h16}),
     Wide("vunpcklps", {1}, {0}, {\h14, \h15}),
     Wide("vunpcklpd", {1}, {1}, {\h12, \h13}),
     Wide("vbroadcasts", {2}, {1}, {\h18, \h19})}

FloatPermute ==
    {WithImm("vpermilps", {3}, {1}, {\h04}, "byL"),
     WithImm("vshufps", {1}, {0, 1}, {\hC6}, "byL")}

FloatRound ==
    {WithImm("vroundps", {3}, {1}, {\h08, \h09}, "byL"),
     WithImm("vroundss", {3}, {1}, {\h0A, \h0B}, "zero")}

FloatInsert ==
    {WithImm("vinsertps", {3}, {1}, {\h21}, "zero"),
     WithImm("vblendvps", {3}, {1}, {\h4A}, "byL")}

FloatCompare ==
    {WithImm("vcmp", {1}, {0, 1}, {\hC2}, "byL"), WithImm("vcmp", {1}, {2, 3}, {\hC2}, "zero")}

Float == FloatLogic \cup FloatArithmetic \cup FloatShuffle \cup FloatPermute \cup FloatRound
           \cup FloatInsert \cup FloatCompare

(* avx_emulate_convert *)

Convert ==
    {Narrow("vcvtss2sd", AnyMap, {2, 3}, {\h5A}), Narrow("vcvtsi2ss", AnyMap, {2, 3}, {\h2A}),
     Aside("vcvttss2si", AnyMap, {2, 3}, {\h2C}),
     Wide("vcvtdq2ps", AnyMap, {0, 1, 2}, {\h5B})}

(* avx_emulate_compare *)

CompareFlags ==
    {Aside("vucomiss", AnyMap, {0, 1}, {\h2E, \h2F}),
     Branch("vpblendd", {3}, {1}, {\h02}, "oneMore", "reg", "byL"),
     Aside("vtestps", {2}, {1}, {\h0E, \h0F})}

CompareMask ==
    {Branch("vcmp", AnyMap, {0, 1}, {\hC2}, "oneMore", "reg", "byL"),
     Branch("vcmp", AnyMap, {2, 3}, {\hC2}, "oneMore", "reg", "zero")}

Compare == CompareFlags \cup CompareMask

-----------------------------------------------------------------------------

\* The order in which emulate_avx_instruction asks the groups.
Groups == <<Move, Pack, Permute, Integer, Float, Convert, Compare>>
=============================================================================
