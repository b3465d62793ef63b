--------------------------- MODULE VexDispatchProofs ---------------------------
(***************************************************************************)
(* TLAPS proofs about VexDispatch, for every set of encodings the host may *)
(* execute: type correctness, by which branch an instruction is taken, by  *)
(* how much RIP moves, which upper halves change, and where RIP-relative   *)
(* operands are taken from.  All rest on facts about the rows of VexTable, *)
(* stated per group.                                                       *)
(***************************************************************************)
EXTENDS VexDispatch, TLAPS

-----------------------------------------------------------------------------
(* What the proofs need of a row *)

\* The opcodes that rows for map 0F38, and rows for map 0F3A, have.
Ops2 == {\h00, \h0E, \h0F, \h18, \h19} \cup (\h21 .. \h25) \cup {\h28, \h29, \h2B, \h30}
          \cup (\h31 .. \h35) \cup {\h37, \h39, \h3B, \h3D, \h3F, \h40, \h45, \h47}
          \cup {\h58, \h59, \h78, \h79}
Ops3 == {\h00, \h02, \h04, \h08, \h09, \h0A, \h0B, \h17, \h18, \h19, \h20, \h21, \h22,
         \h38, \h39, \h4A}

\* The opcodes of instructions of map 0F with an immediate, and of those that
\* store, or write no xmm register at all (7E as well, with prefix 66).
ImmOps == {\h70, \h71, \h72, \h73, \hC2, \hC6}
StoreOps == {\h11, \h29, \h7F, \hD6}
AsideOps == {\h13, \h17, \h2C, \h2E, \h2F, \hD7}

\* A row tests for one of the maps 1 to 3, or not at all.  Rows that do not, the
\* others' fallback, share four opcodes with those for map 0F38.
GoodMaps(r) ==
  /\ r.maps = AnyMap \/ r.maps = {1} \/ r.maps = {2} \/ r.maps = {3}
  /\ r.maps = AnyMap => r.ops \cap Ops3 = {} /\ r.ops \cap Ops2 \subseteq {\h28, \h29, \h58, \h59}
  /\ r.maps = {2} => r.pps = {1} /\ r.ops \subseteq Ops2
  /\ r.maps = {3} => r.ops \subseteq Ops3 /\ (r.pps = {1} \/ r.ops = {\h17})
  /\ \hC4 \notin r.ops /\ \hC5 \notin r.ops
  /\ (\h14 \in r.ops \/ \h15 \in r.ops) => r.pps = {0}
  /\ r.name = "vunpcklpd" => r.maps = {1} /\ r.pps = {1} /\ r.ops = {\h12, \h13}
                             /\ r.dest = "reg" /\ r.length = "decoded"

\* The three rules for the length go with the place of the immediate.
GoodLength(r) ==
  /\ r.length \in LengthRule
  /\ r.length = "decoded" => r.maps # {3} /\ r.ops \cap ImmOps = {}
  /\ r.length = "expected" => r.maps = {3} \/ (r.maps = {1} /\ r.ops \subseteq {\hC2, \hC6})
  /\ r.length = "oneMore" =>
       \/ r.maps = {3} /\ r.ops \subseteq {\h02, \h17}
       \/ r.maps \in {{1}, AnyMap} /\ r.ops \subseteq {\h70, \h71, \h72, \h73, \hC2}
  /\ \h77 \in r.ops => r.ops = {\h77} /\ r.length = "decoded" /\ r.dest = "all"

\* So does the destination with the opcodes.
GoodDest(r) ==
  /\ r.dest \in DestRule
  /\ r.half \in HalfRule
  /\ r.half = "both" => r.maps = {3} /\ r.ops \subseteq {\h00, \h18, \h19, \h38, \h39}
  /\ r.dest = "all" => r.ops = {\h77} /\ r.half = "zero"
  /\ r.dest = "none" =>
       \/ r.maps = {3} /\ r.ops = {\h17}
       \/ r.maps = {2} /\ r.ops = {\h0E, \h0F}
       \/ r.maps \in {{1}, AnyMap} /\ (r.ops \subseteq AsideOps \/ (r.ops = {\h7E} /\ r.pps = {1}))
  /\ r.dest = "rm" => \/ r.maps = {3} /\ r.ops = {\h19, \h39}
                      \/ r.maps \in {{1}, AnyMap} /\ r.ops \subseteq StoreOps
  /\ r.dest = "reg" =>
       \/ r.maps = {3} /\ r.ops \cap {\h17, \h19, \h39} = {}
       \/ r.maps = {2} /\ r.ops \cap {\h0E, \h0F} = {}
       \/ /\ r.maps \in {{1}, AnyMap} /\ r.ops \cap StoreOps = {}
          /\ r.ops \cap AsideOps = {} \/ r.name = "vunpcklpd"
          /\ \h7E \notin r.ops \/ 1 \notin r.pps

GoodRow(r) == GoodMaps(r) /\ GoodLength(r) /\ GoodDest(r)

LEMMA MapsDiffer ==
  /\ {1} # AnyMap /\ {2} # AnyMap /\ {3} # AnyMap
  /\ {1} # {2} /\ {1} # {3} /\ {2} # {3}
<1>1. 0 \in AnyMap
  BY DEF AnyMap
<1>. QED  BY <1>1

LEMMA MoveRows == \A r \in Move : GoodRow(r)
<1>1. \A r \in Zeroing : GoodRow(r)
  BY MapsDiffer
  DEF Zeroing, Wide, Narrow, Aside, Store, WithImm, Branch, GoodRow, GoodMaps, GoodLength, GoodDest,
      LengthRule, DestRule, HalfRule, Ops2, Ops3, ImmOps, StoreOps, AsideOps
<1>2. \A r \in MoveAligned : GoodRow(r)
  BY MapsDiffer
  DEF MoveAligned, Wide, Narrow, Aside, Store, WithImm, Branch, GoodRow, GoodMaps, GoodLength, GoodDest,
      LengthRule, DestRule, HalfRule, Ops2, Ops3, ImmOps, StoreOps, AsideOps
<1>3. \A r \in MoveScalar : GoodRow(r)
  BY MapsDiffer
  DEF MoveScalar, Wide, Narrow, Aside, Store, WithImm, Branch, GoodRow, GoodMaps, GoodLength, GoodDest,
      LengthRule, DestRule, HalfRule, Ops2, Ops3, ImmOps, StoreOps, AsideOps
<1>4. \A r \in MoveInteger : GoodRow(r)
  BY MapsDiffer
  DEF MoveInteger, Wide, Narrow, Aside, Store, WithImm, Branch, GoodRow, GoodMaps, GoodLength, GoodDest,
      LengthRule, DestRule, HalfRule, Ops2, Ops3, ImmOps, StoreOps, AsideOps
<1>5. \A r \in MoveHalves : GoodRow(r)
  BY MapsDiffer
  DEF MoveHalves, Wide, Narrow, Aside, Store, WithImm, Branch, GoodRow, GoodMaps, GoodLength, GoodDest,
      LengthRule, DestRule, HalfRule, Ops2, Ops3, ImmOps, StoreOps, AsideOps
<1>6. \A r \in MoveUnaligned : GoodRow(r)
  BY MapsDiffer
  DEF MoveUnaligned, Wide, Narrow, Aside, Store, WithImm, Branch, GoodRow, GoodMaps, GoodLength, GoodDest,
      LengthRule, DestRule, HalfRule, Ops2, Ops3, ImmOps, StoreOps, AsideOps
<1>7. \A r \in MoveSpecial : GoodRow(r)
  BY MapsDiffer
  DEF MoveSpecial, Wide, Narrow, Aside, Store, WithImm, Branch, GoodRow, GoodMaps, GoodLength, GoodDest,
      LengthRule, DestRule, HalfRule, Ops2, Ops3, ImmOps, StoreOps, AsideOps
<1>. QED  BY <1>1, <1>2, <1>3, <1>4, <1>5, <1>6, <1>7, Zenon DEF Move

LEMMA PackRows == \A r \in Pack : GoodRow(r)
  BY MapsDiffer
  DEF Pack, Wide, Narrow, Aside, Store, WithImm, Branch, GoodRow, GoodMaps, GoodLength, GoodDest,
      LengthRule, DestRule, HalfRule, Ops2, Ops3, ImmOps, StoreOps, AsideOps

LEMMA PermuteRows == \A r \in Permute : GoodRow(r)
<1>1. \A r \in Permq : GoodRow(r)
  BY MapsDiffer
  DEF Permq, Wide, Narrow, Aside, Store, WithImm, Branch, GoodRow, GoodMaps, GoodLength, GoodDest,
      LengthRule, DestRule, HalfRule, Ops2, Ops3, ImmOps, StoreOps, AsideOps
<1>2. \A r \in Lanes128 : GoodRow(r)
  BY MapsDiffer
  DEF Lanes128, Wide, Narrow, Aside, Store, WithImm, Branch, GoodRow, GoodMaps, GoodLength, GoodDest,
      LengthRule, DestRule, HalfRule, Ops2, Ops3, ImmOps, StoreOps, AsideOps
<1>. QED  BY <1>1, <1>2, Zenon DEF Permute

LEMMA IntegerRows == \A r \in Integer : GoodRow(r)
<1>1. \A r \in IntegerLogic : GoodRow(r)
  BY MapsDiffer
  DEF IntegerLogic, Wide, Narrow, Aside, Store, WithImm, Branch, GoodRow, GoodMaps, GoodLength, GoodDest,
      LengthRule, DestRule, HalfRule, Ops2, Ops3, ImmOps, StoreOps, AsideOps
<1>2. \A r \in IntegerExtend : GoodRow(r)
  BY MapsDiffer
  DEF IntegerExtend, Wide, Narrow, Aside, Store, WithImm, Branch, GoodRow, GoodMaps, GoodLength, GoodDest,
      LengthRule, DestRule, HalfRule, Ops2, Ops3, ImmOps, StoreOps, AsideOps
<1>3. \A r \in IntegerMinMaxMul : GoodRow(r)
  BY MapsDiffer
  DEF IntegerMinMaxMul, Wide, Narrow, Aside, Store, WithImm, Branch, GoodRow, GoodMaps, GoodLength, GoodDest,
      LengthRule, DestRule, HalfRule, Ops2, Ops3, ImmOps, StoreOps, AsideOps
<1>4. \A r \in IntegerShiftMul : GoodRow(r)
  BY MapsDiffer
  DEF IntegerShiftMul, Wide, Narrow, Aside, Store, WithImm, Branch, GoodRow, GoodMaps, GoodLength, GoodDest,
      LengthRule, DestRule, HalfRule, Ops2, Ops3, ImmOps, StoreOps, AsideOps
<1>5. \A r \in IntegerAddCompare : GoodRow(r)
  BY MapsDiffer
  DEF IntegerAddCompare, Wide, Narrow, Aside, Store, WithImm, Branch, GoodRow, GoodMaps, GoodLength, GoodDest,
      LengthRule, DestRule, HalfRule, Ops2, Ops3, ImmOps, StoreOps, AsideOps
<1>6. \A r \in IntegerShiftImm : GoodRow(r)
  BY MapsDiffer
  DEF IntegerShiftImm, ShiftRow, Wide, Narrow, Aside, Store, WithImm, Branch, GoodRow, GoodMaps, GoodLength, GoodDest,
      LengthRule, DestRule, HalfRule, Ops2, Ops3, ImmOps, StoreOps, AsideOps
<1>7. \A r \in IntegerShuffle : GoodRow(r)
  BY MapsDiffer
  DEF IntegerShuffle, Wide, Narrow, Aside, Store, WithImm, Branch, GoodRow, GoodMaps, GoodLength, GoodDest,
      LengthRule, DestRule, HalfRule, Ops2, Ops3, ImmOps, StoreOps, AsideOps
<1>8. \A r \in IntegerMask : GoodRow(r)
  BY MapsDiffer
  DEF IntegerMask, Wide, Narrow, Aside, Store, WithImm, Branch, GoodRow, GoodMaps, GoodLength, GoodDest,
      LengthRule, DestRule, HalfRule, Ops2, Ops3, ImmOps, StoreOps, AsideOps
<1>. QED  BY <1>1, <1>2, <1>3, <1>4, <1>5, <1>6, <1>7, <1>8, Zenon DEF Integer

LEMMA FloatRows == \A r \in Float : GoodRow(r)
<1>1. \A r \in FloatLogic : GoodRow(r)
  BY MapsDiffer
  DEF FloatLogic, Wide, Narrow, Aside, Store, WithImm, Branch, GoodRow, GoodMaps, GoodLength, GoodDest,
      LengthRule, DestRule, HalfRule, Ops2, Ops3, ImmOps, StoreOps, AsideOps
<1>2. \A r \in FloatArithmetic : GoodRow(r)
  BY MapsDiffer
  DEF FloatArithmetic, Arithmetic, Wide, Narrow, Aside, Store, WithImm, Branch, GoodRow, GoodMaps, GoodLength, GoodDest,
      LengthRule, DestRule, HalfRule, Ops2, Ops3, ImmOps, StoreOps, AsideOps
<1>3. \A r \in FloatShuffle : GoodRow(r)
  BY MapsDiffer
  DEF FloatShuffle, Wide, Narrow, Aside, Store, WithImm, Branch, GoodRow, GoodMaps, GoodLength, GoodDest,
      LengthRule, DestRule, HalfRule, Ops2, Ops3, ImmOps, StoreOps, AsideOps
<1>4. \A r \in FloatPermute : GoodRow(r)
  BY MapsDiffer
  DEF FloatPermute, Wide, Narrow, Aside, Store, WithImm, Branch, GoodRow, GoodMaps, GoodLength, GoodDest,
      LengthRule, DestRule, HalfRule, Ops2, Ops3, ImmOps, StoreOps, AsideOps
<1>5. \A r \in FloatRound : GoodRow(r)
  BY MapsDiffer
  DEF FloatRound, Wide, Narrow, Aside, Store, WithImm, Branch, GoodRow, GoodMaps, GoodLength, GoodDest,
      LengthRule, DestRule, HalfRule, Ops2, Ops3, ImmOps, StoreOps, AsideOps
<1>6. \A r \in FloatInsert : GoodRow(r)
  BY MapsDiffer
  DEF FloatInsert, Wide, Narrow, Aside, Store, WithImm, Branch, GoodRow, GoodMaps, GoodLength, GoodDest,
      LengthRule, DestRule, HalfRule, Ops2, Ops3, ImmOps, StoreOps, AsideOps
<1>7. \A r \in FloatCompare : GoodRow(r)
  BY MapsDiffer
  DEF FloatCompare, Wide, Narrow, Aside, Store, WithImm, Branch, GoodRow, GoodMaps, GoodLength, GoodDest,
      LengthRule, DestRule, HalfRule, Ops2, Ops3, ImmOps, StoreOps, AsideOps
<1>. QED  BY <1>1, <1>2, <1>3, <1>4, <1>5, <1>6, <1>7, Zenon DEF Float

LEMMA ConvertRows == \A r \in Convert : GoodRow(r)
  BY MapsDiffer
  DEF Convert, Wide, Narrow, Aside, Store, WithImm, Branch, GoodRow, GoodMaps, GoodLength, GoodDest,
      LengthRule, DestRule, HalfRule, Ops2, Ops3, ImmOps, StoreOps, AsideOps

LEMMA CompareRows == \A r \in Compare : GoodRow(r)
<1>1. \A r \in CompareFlags : GoodRow(r)
  BY MapsDiffer
  DEF CompareFlags, Wide, Narrow, Aside, Store, WithImm, Branch, GoodRow, GoodMaps, GoodLength, GoodDest,
      LengthRule, DestRule, HalfRule, Ops2, Ops3, ImmOps, StoreOps, AsideOps
<1>2. \A r \in CompareMask : GoodRow(r)
  BY MapsDiffer
  DEF CompareMask, Wide, Narrow, Aside, Store, WithImm, Branch, GoodRow, GoodMaps, GoodLength, GoodDest,
      LengthRule, DestRule, HalfRule, Ops2, Ops3, ImmOps, StoreOps, AsideOps
<1>. QED  BY <1>1, <1>2, Zenon DEF Compare
LEMMA AllRows == \A g \in 1 .. 7 : \A r \in Groups[g] : GoodRow(r)
<1>1. Groups[1] = Move /\ Groups[2] = Pack /\ Groups[3] = Permute /\ Groups[4] = Integer
      /\ Groups[5] = Float /\ Groups[6] = Convert /\ Groups[7] = Compare
  BY DEF Groups
<1>2. SUFFICES ASSUME NEW g \in 1 .. 7
               PROVE  \A r \in Groups[g] : GoodRow(r)
  OBVIOUS
<1>3. g = 1 \/ g = 2 \/ g = 3 \/ g = 4 \/ g = 5 \/ g = 6 \/ g = 7
  OBVIOUS
<1>. QED
  BY <1>1, <1>3, MoveRows, PackRows, PermuteRows, IntegerRows, FloatRows, ConvertRows,
     CompareRows, Zenon

LEMMA SevenGroups == DOMAIN Groups = 1 .. 7 /\ Len(Groups) = 7
  BY DEF Groups

-----------------------------------------------------------------------------
(* Which row takes a named instruction *)

\* Where the comments' instructions are.
Mapped(i) == \/ i.map = 1
             \/ i.map = 2 /\ i.pp = 1 /\ i.op \in Ops2
             \/ i.map = 3 /\ i.op \in Ops3 /\ (i.pp = 1 \/ i.op = \h17)

LEMMA NamesMapped ==
  ASSUME NEW i \in Encoding, NEW r, GoodRow(r), Names(r, i)
  PROVE  Mapped(i) /\ i.op # \hC4 /\ i.op # \hC5
<1>1. CASE r.maps = AnyMap \/ r.maps = {1}
  <2>1. i.map = 1
    BY <1>1, MapsDiffer DEF Names
  <2>. QED  BY <2>1 DEF Mapped, Names, GoodRow, GoodMaps
<1>2. CASE r.maps = {2} \/ r.maps = {3}
  BY <1>2, MapsDiffer DEF Mapped, Names, GoodRow, GoodMaps
<1>. QED  BY <1>1, <1>2 DEF GoodRow, GoodMaps

LEMMA NamedMapped ==
  ASSUME NEW i \in Encoding, Named(i)
  PROVE  Mapped(i) /\ i.op # \hC4 /\ i.op # \hC5
<1>1. PICK g \in DOMAIN Groups : \E r \in Groups[g] : Names(r, i)
  BY DEF Named
<1>2. PICK r \in Groups[g] : Names(r, i)
  BY <1>1
<1>. QED  BY <1>1, <1>2, AllRows, SevenGroups, NamesMapped

\* A row that takes a named instruction names it, but for the row of vunpcklpd and
\* the four opcodes at which a row without a test of the map meets one with it.
Crossed(r, i) == \/ r.name = "vunpcklpd" /\ i.map = 1 /\ i.pp = 1 /\ i.op \in {\h12, \h13}
                 \/ r.maps = AnyMap /\ i.map = 2 /\ i.pp = 1 /\ i.op \in {\h28, \h29, \h58, \h59}

LEMMA TakenOrCrossed ==
  ASSUME NEW i \in Encoding, Mapped(i), NEW r, GoodRow(r), Takes(r, i)
  PROVE  Names(r, i) \/ Crossed(r, i)
<1>1. CASE r.name = "vunpcklpd"
  BY <1>1 DEF Takes, GoodRow, GoodMaps, Crossed
<1>2. CASE r.name # "vunpcklpd" /\ (r.maps # AnyMap \/ i.map = 1)
  BY <1>2 DEF Takes, Names
<1>3. CASE r.maps = AnyMap /\ i.map # 1
  BY <1>3 DEF Takes, Mapped, GoodRow, GoodMaps, Crossed
<1>. QED  BY <1>1, <1>2, <1>3

\* Move takes what vunpcklpd's row tests for, and vpmuldq and vpcmpeqq; Integer
\* takes the broadcasts that vaddps's rows would match.
LEMMA MoveTakes ==
  ASSUME NEW i \in Encoding, i.pp = 1,
         (i.map = 1 /\ i.op \in {\h12, \h13}) \/ (i.map = 2 /\ i.op \in {\h28, \h29})
  PROVE  \E r \in Groups[1] : Takes(r, i)
<1>1. i.map \in AnyMap /\ i.reg \in AnyReg
  BY DEF Encoding
<1>2. CASE i.op = \h12
  <2>1. Narrow("vmovlps_load", {1}, {0, 1}, {\h12, \h16}) \in Groups[1]
    BY DEF Groups, Move, MoveHalves
  <2>. QED  BY <1>1, <1>2, <2>1 DEF Takes, Narrow, Branch
<1>3. CASE i.op = \h13
  <2>1. Aside("vmovlps_store", {1}, {0, 1}, {\h13, \h17}) \in Groups[1]
    BY DEF Groups, Move, MoveHalves
  <2>. QED  BY <1>1, <1>3, <2>1 DEF Takes, Aside, Branch
<1>4. CASE i.op = \h28
  <2>1. Wide("vmovups_load", AnyMap, {0, 1}, {\h10, \h28}) \in Groups[1]
    BY DEF Groups, Move, MoveAligned
  <2>. QED  BY <1>1, <1>4, <2>1 DEF Takes, Wide, Branch
<1>5. CASE i.op = \h29
  <2>1. Store("vmovups_store", AnyMap, {0, 1}, {\h11, \h29}, "byL") \in Groups[1]
    BY DEF Groups, Move, MoveAligned
  <2>. QED  BY <1>1, <1>5, <2>1 DEF Takes, Store, Branch
<1>. QED  BY <1>2, <1>3, <1>4, <1>5

LEMMA IntegerTakes ==
  ASSUME NEW i \in Encoding, i.pp = 1, i.map = 2, i.op \in {\h58, \h59}
  PROVE  \E r \in Groups[4] : Takes(r, i)
<1>1. Wide("vpbroadcast", {2}, {1}, {\h78, \h79, \h58, \h59}) \in Groups[4]
  BY DEF Groups, Integer, IntegerLogic
<1>2. i.reg \in AnyReg
  BY DEF Encoding
<1>. QED  BY <1>1, <1>2 DEF Takes, Wide, Branch

LEMMA MoveNames ==
  \A r \in Groups[1] :
    /\ r.name # "vunpcklpd"
    /\ r.ops \cap {\h58, \h59} = {}
    /\ 1 \in r.pps /\ r.ops \cap {\h28, \h29} # {} => r.name \in {"vmovups_load", "vmovups_store"}
  BY DEF Groups, Move, Zeroing, MoveAligned, MoveScalar, MoveInteger, MoveHalves, MoveUnaligned,
         MoveSpecial, Wide, Narrow, Aside, Store, Branch

LEMMA EarlyRows ==
  \A g \in 2 .. 4 : \A r \in Groups[g] : r.maps = AnyMap => r.ops \cap {\h58, \h59} = {}
<1>1. \A r \in Pack \cup Permute : r.maps # AnyMap
  BY MapsDiffer DEF Pack, Permute, Permq, Lanes128, Wide, WithImm, Branch
<1>2. \A r \in IntegerLogic \cup IntegerShiftImm : r.maps = AnyMap => r.ops \cap {\h58, \h59} = {}
  BY MapsDiffer DEF IntegerLogic, IntegerShiftImm, ShiftRow, Wide, Branch
<1>3. \A r \in IntegerExtend \cup IntegerMinMaxMul \cup IntegerShiftMul \cup IntegerAddCompare
               \cup IntegerShuffle \cup IntegerMask : r.maps # AnyMap
  BY MapsDiffer
  DEF IntegerExtend, IntegerMinMaxMul, IntegerShiftMul, IntegerAddCompare, IntegerShuffle,
      IntegerMask, Wide, Aside, WithImm, Branch
<1>4. Groups[2] = Pack /\ Groups[3] = Permute /\ Groups[4] = Integer
  BY DEF Groups
<1>. QED  BY <1>1, <1>2, <1>3, <1>4 DEF Integer

LEMMA MoveUpsAnywhere ==
  \A g \in 1 .. 7 : \A r \in Groups[g] :
    r.name \in {"vmovups_load", "vmovups_store"} => r.maps = AnyMap
<1>1. \A r \in Move : r.name \in {"vmovups_load", "vmovups_store"} => r.maps = AnyMap
  BY DEF Move, Zeroing, MoveAligned, MoveScalar, MoveInteger, MoveHalves, MoveUnaligned,
         MoveSpecial, Wide, Narrow, Aside, Store, Branch
<1>2. \A r \in Pack \cup Permute \cup Convert \cup Compare :
        r.name \notin {"vmovups_load", "vmovups_store"}
  BY DEF Pack, Permute, Permq, Lanes128, Convert, Compare, CompareFlags, CompareMask,
         Wide, Narrow, Aside, WithImm, Branch
<1>3. \A r \in Integer : r.name \notin {"vmovups_load", "vmovups_store"}
  BY DEF Integer, IntegerLogic, IntegerExtend, IntegerMinMaxMul, IntegerShiftMul,
         IntegerAddCompare, IntegerShiftImm, IntegerShuffle, IntegerMask,
         ShiftRow, Wide, Aside, WithImm, Branch
<1>4. \A r \in Float : r.name \notin {"vmovups_load", "vmovups_store"}
  BY DEF Float, FloatLogic, FloatArithmetic, FloatShuffle, FloatPermute, FloatRound,
         FloatInsert, FloatCompare, Wide, Narrow, WithImm, Branch
<1>. QED  BY <1>1, <1>2, <1>3, <1>4 DEF Groups

\* In the order of the groups, what takes a named instruction names it, but for
\* the two that vmovaps takes.
LEMMA Taken ==
  ASSUME NEW i \in Encoding, Named(i), NEW g \in 1 .. 7, NEW r \in Groups[g], Takes(r, i),
         \A h \in 1 .. 7 : h < g => \A q \in Groups[h] : ~Takes(q, i)
  PROVE  \/ Names(r, i) /\ ~Crossed(r, i)
         \/ /\ r.maps = AnyMap /\ r.name \in {"vmovups_load", "vmovups_store"}
            /\ i.map = 2 /\ i.pp = 1 /\ i.op \in {\h28, \h29}
<1>1. GoodRow(r) /\ Mapped(i)
  BY AllRows, NamedMapped
<1>2. SUFFICES ASSUME Crossed(r, i)
               PROVE  /\ r.maps = AnyMap /\ r.name \in {"vmovups_load", "vmovups_store"}
                      /\ i.map = 2 /\ i.pp = 1 /\ i.op \in {\h28, \h29}
  BY <1>1, TakenOrCrossed
<1>3. CASE r.name = "vunpcklpd" /\ i.map = 1 /\ i.pp = 1 /\ i.op \in {\h12, \h13}
  <2>1. \E q \in Groups[1] : Takes(q, i)
    BY <1>3, MoveTakes
  <2>2. g = 1
    BY <2>1
  <2>. QED  BY <1>3, <2>2, MoveNames
<1>4. CASE r.maps = AnyMap /\ i.map = 2 /\ i.pp = 1 /\ i.op \in {\h28, \h29}
  <2>1. g = 1
    BY <1>4, MoveTakes
  <2>. QED  BY <1>4, <2>1, MoveNames DEF Takes
<1>5. CASE r.maps = AnyMap /\ i.map = 2 /\ i.pp = 1 /\ i.op \in {\h58, \h59}
  <2>1. g <= 4
    BY <1>5, IntegerTakes
  <2>2. g # 1
    BY <1>5, MoveNames DEF Takes
  <2>. QED  BY <1>5, <2>1, <2>2, EarlyRows DEF Takes
<1>. QED  BY <1>2, <1>3, <1>4, <1>5 DEF Crossed

\* Where none takes it, it is one that vunpcklpd's row should test for.
LEMMA Untaken ==
  ASSUME NEW i \in Encoding, Named(i), \A h \in 1 .. 7 : \A q \in Groups[h] : ~Takes(q, i)
  PROVE  Shadowed(i)
<1>1. PICK g \in DOMAIN Groups : \E r \in Groups[g] : Names(r, i)
  BY DEF Named
<1>2. PICK r \in Groups[g] : Names(r, i)
  BY <1>1
<1>3. GoodRow(r) /\ ~Takes(r, i)
  BY <1>1, AllRows, SevenGroups
<1>4. i.map \in r.maps /\ i.pp \in r.pps /\ i.reg \in r.exts
  BY <1>2 DEF Names, AnyMap
<1>5. r.name = "vunpcklpd" /\ i.op \in {\h14, \h15}
  BY <1>2, <1>3, <1>4 DEF Names, Takes
<1>. QED  BY <1>3, <1>4, <1>5 DEF GoodRow, GoodMaps, Shadowed

\* OwnUnlessShadowed, where a row takes the instruction.
LEMMA OwnOrShadowed ==
  ASSUME NEW i \in Encoding, Named(i), NEW g \in 1 .. 7, NEW r \in Groups[g], Takes(r, i),
         \A h \in 1 .. 7 : h < g => \A q \in Groups[h] : ~Takes(q, i)
  PROVE  (\E h \in DOMAIN Groups : \E q \in Groups[h] : q.name = r.name /\ Names(q, i))
           <=> ~Shadowed(i)
<1>1. GoodRow(r)
  BY AllRows
<1>2. CASE Names(r, i) /\ ~Crossed(r, i)
  <2>1. ASSUME Shadowed(i) PROVE FALSE
    <3>1. CASE i.map = 2 /\ i.pp = 1 /\ i.op \in {\h28, \h29}
      <4>1. g = 1
        BY <3>1, MoveTakes
      <4>2. r.maps = AnyMap
        BY <3>1, <4>1, MoveNames, MoveUpsAnywhere DEF Takes
      <4>. QED  BY <1>2, <3>1, <4>2 DEF Names
    <3>2. CASE i.map = 1 /\ i.pp = 1 /\ i.op \in {\h14, \h15}
      BY <1>1, <3>2 DEF Takes, GoodRow, GoodMaps
    <3>. QED  BY <2>1, <3>1, <3>2 DEF Shadowed
  <2>. QED  BY <1>2, <2>1, SevenGroups
<1>3. CASE /\ r.maps = AnyMap /\ r.name \in {"vmovups_load", "vmovups_store"}
           /\ i.map = 2 /\ i.pp = 1 /\ i.op \in {\h28, \h29}
  <2>1. Shadowed(i)
    BY <1>3 DEF Shadowed
  <2>2. ASSUME NEW h \in 1 .. 7, NEW q \in Groups[h], q.name = r.name, Names(q, i)
        PROVE  FALSE
    <3>1. q.maps = AnyMap
      BY <1>3, <2>2, MoveUpsAnywhere
    <3>. QED  BY <1>3, <2>2, <3>1 DEF Names
  <2>. QED  BY <2>1, <2>2, SevenGroups
<1>. QED  BY <1>2, <1>3, Taken

-----------------------------------------------------------------------------
(* Lengths *)

LEMMA MemBytesRange == \A i \in Encoding : MemBytes(i) \in 4 .. 11
  BY DEF Encoding, MemBytes, Sib, Displacement, HasImm

LEMMA DecodeType == \A i \in Encoding : Decode(i) \in Inst
<1>1. SUFFICES ASSUME NEW i \in Encoding
               PROVE  Decode(i) \in Inst
  OBVIOUS
<1>2. i.len \in {2, 3} /\ i.mod \in 0 .. 3
  BY DEF Encoding
<1>3. MemBytes(i) \in 4 .. 11
  BY MemBytesRange
<1>. QED  BY <1>2, <1>3 DEF Decode, Inst

LEMMA LengthRange ==
  ASSUME NEW i \in Encoding, inst \in Inst, NEW r, GoodRow(r)
  PROVE  Length(r, i) \in 1 .. 12
<1>1. i.len \in {2, 3} /\ i.mod \in 0 .. 3 /\ i.rm \in 0 .. 7
  BY DEF Encoding
<1>2. inst.mem \in 0 .. 11 /\ inst.bytes \in 1 .. 12
  BY DEF Inst
<1>3. ExpectedLen(i) \in 1 .. 12
  BY <1>1 DEF ExpectedLen, ExpectedDisplacement, Sib
<1>4. OneMore(i) \in 1 .. 12
  BY <1>1, <1>2 DEF OneMore
<1>. QED  BY <1>2, <1>3, <1>4 DEF Length, GoodRow, GoodLength, LengthRule

\* Each of the three rules gives the length of the instructions it is used for.
LEMMA RuleIsTheLength ==
  ASSUME NEW i \in Encoding, Named(i), NEW r, GoodRow(r), Takes(r, i), ~Miscounted(i),
         inst = Decode(i)
  PROVE  Length(r, i) = TrueLength(i)
<1>1. Mapped(i) /\ ~Undefined(i) /\ i.op # \hC4 /\ i.op # \hC5
  BY NamedMapped DEF Named
<1>2. i.len \in {2, 3} /\ i.mod \in 0 .. 3 /\ i.rm \in 0 .. 7 /\ i.base \in 0 .. 7
      /\ i.op \in 0 .. 255 /\ i.map \in 0 .. 31
  BY DEF Encoding, AnyMap
<1>3. i.op \in r.ops /\ i.map \in r.maps
  BY DEF Takes
<1>4. CASE r.length = "decoded"
  <2>1. ~TakesImm(i) /\ ~HasImm(i)
    <3>1. i.map # 3
      BY <1>1, <1>3, <1>4 DEF Mapped, GoodRow, GoodMaps, GoodLength
    <3>2. i.op \notin ImmOps
      BY <1>3, <1>4 DEF GoodRow, GoodLength
    <3>. QED  BY <1>1, <1>2, <3>1, <3>2 DEF TakesImm, HasImm, ImmOps
  <2>2. Length(r, i) = inst.bytes
    BY <1>4 DEF Length
  <2>3. CASE NoModRM(i)
    BY <2>2, <2>3 DEF Decode, TrueLength
  <2>4. CASE ~NoModRM(i) /\ i.mod = 3
    <3>1. inst.bytes = i.len + 2
      BY <2>4 DEF Decode
    <3>. QED  BY <1>2, <2>1, <2>2, <2>4, <3>1 DEF TrueLength
  <2>5. CASE ~NoModRM(i) /\ i.mod # 3
    <3>1. inst.bytes = i.len + 2 + Sib(i) + Displacement(i) + 0
      BY <2>1, <2>5 DEF Decode, MemBytes
    <3>2. Sib(i) \in 0 .. 1 /\ Displacement(i) \in {0, 1, 4}
      BY <1>2, <2>5 DEF Sib, Displacement
    <3>. QED  BY <1>2, <2>1, <2>2, <2>5, <3>1, <3>2 DEF TrueLength
  <2>. QED  BY <2>3, <2>4, <2>5
<1>5. CASE r.length = "expected"
  <2>1. TakesImm(i) /\ <<i.map, i.op>> # <<1, \h70>>
    BY <1>1, <1>3, <1>5, MapsDiffer DEF GoodRow, GoodMaps, GoodLength, TakesImm
  <2>2. ~NoModRM(i)
    BY <1>3, <1>5 DEF NoModRM, GoodRow, GoodLength
  <2>3. ~(i.mod = 0 /\ i.rm = 4 /\ i.base = 5)
    BY <2>1 DEF Miscounted
  <2>4. i.mod # 3 => ExpectedDisplacement(i) = Displacement(i)
    BY <1>2, <2>3 DEF ExpectedDisplacement, Displacement
  <2>5. Length(r, i) = ExpectedLen(i)
    BY <1>5 DEF Length
  <2>6. Sib(i) \in 0 .. 1 /\ (i.mod # 3 => Displacement(i) \in {0, 1, 4})
    BY <1>2 DEF Sib, Displacement
  <2>. QED  BY <1>2, <2>1, <2>2, <2>4, <2>5, <2>6 DEF ExpectedLen, TrueLength
<1>6. CASE r.length = "oneMore"
  <2>1. TakesImm(i) /\ ~NoModRM(i)
    BY <1>1, <1>3, <1>6
    DEF GoodRow, GoodMaps, GoodLength, TakesImm, NoModRM, Mapped, Ops2, Ops3
  <2>2. i.mod # 3 => ~HasImm(i)
    BY <1>1, <1>2, <1>3, <1>6
    DEF GoodRow, GoodMaps, GoodLength, HasImm, Mapped, Ops2, Ops3, Miscounted, TakesImm
  <2>3. Length(r, i) = OneMore(i)
    BY <1>6 DEF Length
  <2>4. Sib(i) \in 0 .. 1 /\ (i.mod # 3 => Displacement(i) \in {0, 1, 4})
    BY <1>2 DEF Sib, Displacement
  <2>. QED  BY <1>2, <2>1, <2>2, <2>3, <2>4 DEF OneMore, Decode, MemBytes, TrueLength
<1>. QED  BY <1>4, <1>5, <1>6 DEF GoodRow, GoodLength, LengthRule

-----------------------------------------------------------------------------
(* Destinations *)

\* A row that takes and names an instruction writes its destination, and zeroes
\* the upper half unless VEX.L is 1.  The shifts write another register.
LEMMA WrittenIsTheDestination ==
  ASSUME NEW i \in Encoding, Named(i), ~IsShift(i), NEW r, GoodRow(r),
         Takes(r, i), Names(r, i), ~Crossed(r, i)
  PROVE  /\ Written(r, i) = Destination(i)
         /\ i.L = 0 \/ NoModRM(i) => Zeroes(r, i)
<1>1. Mapped(i) /\ ~Undefined(i) /\ r.name # "vunpcklpd"
  BY NamedMapped DEF Named, Crossed, Takes, GoodRow, GoodMaps
<1>2. i.op \in r.ops /\ i.map \in r.maps /\ i.pp \in r.pps /\ (r.maps = AnyMap => i.map = 1)
  BY DEF Takes, Names
<1>3. i.L \in {0, 1} /\ i.op \in 0 .. 255
  BY DEF Encoding
<1>4. NoModRM(i) <=> r.dest = "all"
  BY <1>2 DEF NoModRM, GoodRow, GoodLength, GoodDest
<1>5. i.L = 0 \/ NoModRM(i) => Zeroes(r, i)
  <2>1. CASE r.half = "both"
    <3>1. i.L = 1
      BY <1>1, <1>2, <1>3, <2>1 DEF Undefined, GoodRow, GoodMaps, GoodDest
    <3>. QED  BY <1>4, <2>1, <3>1 DEF GoodRow, GoodDest
  <2>2. CASE r.half \in {"byL", "zero"}
    BY <1>4, <2>2 DEF Zeroes, GoodRow, GoodDest
  <2>. QED  BY <2>1, <2>2 DEF GoodRow, GoodDest, HalfRule
<1>6. CASE r.dest = "all"
  <2>1. Written(r, i) = Register
    BY <1>6 DEF Written
  <2>2. ~WritesNoXmm(i) /\ ~Stores(i)
    BY <1>4, <1>6 DEF NoModRM, WritesNoXmm, Stores
  <2>3. Destination(i) = Register
    BY <1>4, <1>6, <2>2 DEF Destination
  <2>. QED  BY <1>5, <2>1, <2>3
<1>7. CASE r.dest = "none"
  <2>1. WritesNoXmm(i)
    BY <1>1, <1>2, <1>7, MapsDiffer
    DEF WritesNoXmm, Mapped, Ops2, Ops3, GoodRow, GoodMaps, GoodDest, AsideOps
  <2>2. Written(r, i) = {}
    BY <1>7 DEF Written
  <2>3. ~Stores(i)
    BY <1>1, <1>3, <2>1 DEF Mapped, Stores, WritesNoXmm
  <2>4. Destination(i) = {}
    BY <1>4, <1>7, <2>1, <2>3 DEF Destination
  <2>. QED  BY <1>5, <2>2, <2>4
<1>8. CASE r.dest = "rm"
  <2>1. Stores(i) /\ ~WritesNoXmm(i)
    BY <1>1, <1>2, <1>8, MapsDiffer
    DEF Stores, WritesNoXmm, Mapped, Ops2, Ops3, GoodRow, GoodMaps, GoodDest, StoreOps
  <2>2. Written(r, i) = (IF i.mod = 3 THEN {RmIdx(i)} ELSE {})
    BY <1>8 DEF Written
  <2>3. Destination(i) = (IF i.mod = 3 THEN {RmIdx(i)} ELSE {})
    BY <1>4, <1>8, <2>1 DEF Destination
  <2>. QED  BY <1>5, <2>2, <2>3
<1>9. CASE r.dest = "reg"
  <2>1. ~Stores(i) /\ ~WritesNoXmm(i)
    BY <1>1, <1>2, <1>9, MapsDiffer
    DEF Stores, WritesNoXmm, Mapped, Ops2, Ops3, GoodRow, GoodMaps, GoodDest, StoreOps, AsideOps
  <2>2. Written(r, i) = {RegIdx(i)}
    BY <1>9 DEF Written
  <2>3. Destination(i) = {RegIdx(i)}
    BY <1>4, <1>9, <2>1 DEF Destination
  <2>. QED  BY <1>5, <2>2, <2>3
<1>. QED  BY <1>6, <1>7, <1>8, <1>9 DEF GoodRow, GoodDest, DestRule

-----------------------------------------------------------------------------
(* The inductive invariant *)

\* TypeOK is not inductive: rip + Length is in range because RIP has not moved
\* before a branch takes the instruction.  Which branch that is depends on the
\* groups asked before, and its length and operand on what avx_decode left in inst.
IInv == /\ TypeOK
        /\ pc = "ask" => /\ rip = 0 /\ inst = Decode(insn)
                         /\ \A g \in 1 .. 7 : g < group => NoneTakes(g)
        /\ pc = "host" => rip = 0 /\ group = 1
        /\ OwnUnlessShadowed
        /\ RipMovesByTheLength

LEMMA InitIInv == Init => IInv
  BY DEF Init, IInv, TypeOK, Half, OwnUnlessShadowed, RipMovesByTheLength

\* What a group's row finds when it is asked.
LEMMA Asked ==
  ASSUME IInv, pc = "ask", NEW r \in Groups[group], Takes(r, insn)
  PROVE  /\ group \in 1 .. 7 /\ insn \in Encoding /\ inst \in Inst /\ GoodRow(r)
         /\ \A h \in 1 .. 7 : h < group => \A q \in Groups[h] : ~Takes(q, insn)
<1>1. group \in 1 .. 7 /\ insn \in Encoding /\ inst \in Inst
  BY DEF IInv, TypeOK
<1>2. \A h \in 1 .. 7 : h < group => NoneTakes(h)
  BY DEF IInv
<1>. QED  BY <1>1, <1>2, AllRows, Zenon DEF NoneTakes

LEMMA NextIInv == IInv /\ [Next]_vars => IInv'
<1>1. SUFFICES ASSUME IInv, [Next]_vars PROVE IInv'
  OBVIOUS
<1>. USE <1>1
<1>2. CASE Trap
  <2>1. PICK i \in Instructions : insn' = i /\ inst' = Decode(i)
    BY <1>2 DEF Trap
  <2>2. i \in Encoding
    BY InstructionsAssumption
  <2>3. inst' \in Inst
    BY <2>1, <2>2, DecodeType
  <2>. QED
    BY <1>2, <2>1, <2>2, <2>3 DEF Trap, IInv, TypeOK, OwnUnlessShadowed, RipMovesByTheLength
<1>3. CASE Emulate
  <2>1. PICK r \in Groups[group] :
          /\ Takes(r, insn)
          /\ branch' = r.name
          /\ inst' = [inst EXCEPT !.bytes = Length(r, insn)]
          /\ rip' = rip + Length(r, insn)
          /\ \E h \in Half :
               upper' = [x \in Register |->
                           IF x \notin Written(r, insn) THEN upper[x]
                           ELSE IF Zeroes(r, insn) THEN "zero" ELSE h]
    BY <1>3 DEF Emulate
  <2>2. /\ group \in 1 .. 7 /\ insn \in Encoding /\ inst \in Inst /\ GoodRow(r)
        /\ \A h \in 1 .. 7 : h < group => \A q \in Groups[h] : ~Takes(q, insn)
    BY <1>3, <2>1, Asked DEF Emulate
  <2>3. pc = "ask" /\ pc' = "emulated" /\ insn' = insn /\ group' = group
        /\ rip = 0 /\ inst = Decode(insn)
    BY <1>3 DEF Emulate, IInv
  <2>4. Length(r, insn) \in 1 .. 12
    BY <2>2, LengthRange
  <2>5. TypeOK'
    <3>1. rip' \in 0 .. 12
      BY <2>1, <2>3, <2>4
    <3>2. inst' \in Inst
      BY <2>1, <2>2, <2>4 DEF Inst
    <3>3. branch' \in Name
      BY <2>1, <2>2 DEF Name
    <3>4. upper' \in [Register -> Half]
      BY <2>1 DEF IInv, TypeOK, Half
    <3>. QED  BY <2>2, <2>3, <3>1, <3>2, <3>3, <3>4 DEF TypeOK
  <2>6. OwnUnlessShadowed'
    <3>1. SUFFICES ASSUME Named(insn) PROVE ByItsOwn' <=> ~Shadowed(insn)
      BY <2>3 DEF OwnUnlessShadowed
    <3>2. ByItsOwn' <=> \E h \in DOMAIN Groups : \E q \in Groups[h] :
                          q.name = r.name /\ Names(q, insn)
      BY <2>1, <2>3 DEF ByItsOwn
    <3>. QED  BY <2>1, <2>2, <3>1, <3>2, OwnOrShadowed
  <2>7. RipMovesByTheLength'
    <3>1. SUFFICES ASSUME Named(insn), ~Miscounted(insn) PROVE rip' = TrueLength(insn)
      BY <2>3 DEF RipMovesByTheLength
    <3>2. Length(r, insn) = TrueLength(insn)
      BY <2>1, <2>2, <2>3, <3>1, RuleIsTheLength
    <3>. QED  BY <2>1, <2>3, <2>4, <3>2
  <2>. QED  BY <2>3, <2>5, <2>6, <2>7 DEF IInv
<1>4. CASE AskNext
  <2>1. \A g \in 1 .. 7 : g < group' => NoneTakes(g)'
    <3>1. group \in 1 .. 7 /\ group' = group + 1 /\ NoneTakes(group) /\ insn' = insn
          /\ \A g \in 1 .. 7 : g < group => NoneTakes(g)
      BY <1>4 DEF AskNext, IInv, TypeOK
    <3>2. \A g \in 1 .. 7 : g < group' => NoneTakes(g)
      BY <3>1
    <3>. QED  BY <3>1, <3>2 DEF NoneTakes
  <2>. QED
    BY <1>4, <2>1, SevenGroups
    DEF AskNext, IInv, TypeOK, OwnUnlessShadowed, RipMovesByTheLength
<1>5. CASE Refuse
  <2>1. pc' = "refused" /\ insn' = insn /\ insn \in Encoding
    BY <1>5 DEF Refuse, IInv, TypeOK
  <2>2. \A g \in 1 .. 7 : NoneTakes(g)
    BY <1>5, SevenGroups DEF Refuse, IInv, TypeOK
  <2>3. Named(insn) => Shadowed(insn)
    BY <2>1, <2>2, Untaken DEF NoneTakes
  <2>. QED
    BY <1>5, <2>1, <2>3 DEF Refuse, IInv, TypeOK, OwnUnlessShadowed, RipMovesByTheLength
<1>6. CASE Resume
  BY <1>6 DEF Resume, IInv, TypeOK, OwnUnlessShadowed, RipMovesByTheLength
<1>7. CASE UNCHANGED vars
  BY <1>7 DEF vars, IInv, TypeOK, NoneTakes, OwnUnlessShadowed, ByItsOwn, RipMovesByTheLength
<1>. QED  BY <1>2, <1>3, <1>4, <1>5, <1>6, <1>7 DEF Next

LEMMA InductiveInvariant == Spec => []IInv
  BY InitIInv, NextIInv, PTL DEF Spec

\* The decoded instruction, the chain, RIP and the upper halves keep their types
\* for every set of encodings: RIP never moves by more than 12 bytes.
THEOREM TypeCorrect == Spec => []TypeOK
<1>1. IInv => TypeOK
  BY DEF IInv
<1>. QED  BY <1>1, InductiveInvariant, PTL

\* Whatever the host executes, in all 32 maps, an instruction that some branch's
\* comment names is taken by such a branch, or is one of the four that never are
\* (the order in avx_dispatch.c:63).
THEOREM OwnBranch == Spec => []OwnUnlessShadowed
<1>1. IInv => OwnUnlessShadowed
  BY DEF IInv
<1>. QED  BY <1>1, InductiveInvariant, PTL

\* RIP moves to the next instruction (avx_dispatch.c:104), whatever the host executes,
\* but for the operand forms that expected_len and two branches miscount.
THEOREM RipMoves == Spec => []RipMovesByTheLength
<1>1. IInv => RipMovesByTheLength
  BY DEF IInv
<1>. QED  BY <1>1, InductiveInvariant, PTL

-----------------------------------------------------------------------------
(* Upper halves *)

\* Emulating an instruction that a branch is meant for changes the upper half of
\* its destination only, and zeroes that if VEX.L is 0 (avx_pack.c:51).
THEOREM HalvesFollow == Spec => HalvesFollowTheDestination
<1>1. ASSUME IInv, Emulate, Named(insn), ~Shadowed(insn), ~IsShift(insn), NEW x \in Register
      PROVE  /\ x \notin Destination(insn) => upper'[x] = upper[x]
             /\ x \in Destination(insn) /\ (insn.L = 0 \/ NoModRM(insn)) => upper'[x] = "zero"
  <2>1. PICK r \in Groups[group] :
          /\ Takes(r, insn)
          /\ \E h \in Half :
               upper' = [y \in Register |->
                           IF y \notin Written(r, insn) THEN upper[y]
                           ELSE IF Zeroes(r, insn) THEN "zero" ELSE h]
    BY <1>1 DEF Emulate
  <2>2. /\ group \in 1 .. 7 /\ insn \in Encoding /\ GoodRow(r)
        /\ \A h \in 1 .. 7 : h < group => \A q \in Groups[h] : ~Takes(q, insn)
    BY <1>1, <2>1, Asked DEF Emulate
  <2>3. Names(r, insn) /\ ~Crossed(r, insn)
    BY <1>1, <2>1, <2>2, Taken DEF Shadowed
  <2>4. /\ Written(r, insn) = Destination(insn)
        /\ insn.L = 0 \/ NoModRM(insn) => Zeroes(r, insn)
    BY <1>1, <2>1, <2>2, <2>3, WrittenIsTheDestination
  <2>. QED  BY <1>1, <2>1, <2>4
<1>2. IInv /\ [Next]_vars =>
        [Emulate /\ Named(insn) /\ ~Shadowed(insn) /\ ~IsShift(insn) =>
           \A x \in Register :
             /\ x \notin Destination(insn) => upper'[x] = upper[x]
             /\ x \in Destination(insn) /\ (insn.L = 0 \/ NoModRM(insn)) => upper'[x] = "zero"]_vars
  BY <1>1
<1>. QED  BY <1>2, InductiveInvariant, PTL DEF Spec, HalvesFollowTheDestination

-----------------------------------------------------------------------------
(* RIP-relative operands *)

\* The address of a RIP-relative operand is taken from the end of the instruction
\* (avx_address.c:54), whatever the host executes, vpshufd and vcmp excepted.
THEOREM RipRelativeIsFromTheEnd == Spec => []RipRelativeFromTheEnd
<1>1. IInv => RipRelativeFromTheEnd
  <2>1. SUFFICES ASSUME IInv, pc = "ask", Named(insn), ~NoModRM(insn),
                        insn.mod = 0, insn.rm = 5,
                        ~(insn.map = 1 /\ insn.op \in {\h70, \hC2})
                 PROVE  inst.mem = TrueLength(insn)
    BY DEF RipRelativeFromTheEnd
  <2>2. insn \in Encoding /\ inst = Decode(insn)
    BY <2>1 DEF IInv, TypeOK
  <2>3. inst.mem = MemBytes(insn)
    BY <2>1, <2>2 DEF Decode
  <2>4. insn.op # \hC4 /\ insn.op # \hC5
    BY <2>1, <2>2, NamedMapped
  <2>5. ~IsShift(insn)
    BY <2>1 DEF Named, Undefined
  <2>6. insn.op \in 0 .. 255 /\ insn.len \in {2, 3}
    BY <2>2 DEF Encoding
  <2>7. HasImm(insn) <=> TakesImm(insn)
    <3>1. ASSUME insn.map = 1
          PROVE  insn.op \in (\h70 .. \h73) \cup {\hC2, \hC4, \hC5, \hC6} <=> insn.op = \hC6
      BY <3>1, <2>1, <2>4, <2>5, <2>6 DEF IsShift
    <3>. QED  BY <3>1 DEF HasImm, TakesImm
  <2>. QED  BY <2>1, <2>3, <2>6, <2>7 DEF MemBytes, TrueLength, Sib, Displacement
<1>. QED  BY <1>1, InductiveInvariant, PTL
=============================================================================
