--------------------------- MODULE SseTrapProofs ---------------------------
(***************************************************************************)
(* Proofs about SseTrap, for every set of threads and sites, every map of  *)
(* sites to cache entries and every code of the sites.                     *)
(***************************************************************************)
EXTENDS SseTrap, TLAPS

Opcode == AesOps \cup {Clmul}
Headers == [has_rex : {0, 1}, rex : 0 .. 255, op : Opcode]

Handling == {"look", "hit", "test", "decode", "patch", "resume"}

-----------------------------------------------------------------------------
(* Bytes *)

\* A field of two values of a byte is 0 or 1.
LEMMA Bit ==
  ASSUME NEW x \in 0 .. 255, NEW u \in {1, 2, 4}
  PROVE  Field(x, u, 2) \in 0 .. 1
<1>1. CASE u = 1 BY <1>1, SMT DEF Field
<1>2. CASE u = 2 BY <1>2, SMT DEF Field
<1>3. CASE u = 4 BY <1>3, SMT DEF Field
<1> QED BY <1>1, <1>2, <1>3

\* The three fields of a ModRM or SIB byte.
LEMMA Fields ==
  ASSUME NEW x \in 0 .. 255
  PROVE  Field(x, 1, 8) \in 0 .. 7 /\ Field(x, 8, 8) \in 0 .. 7 /\ Field(x, 64, 4) \in 0 .. 3
BY SMT DEF Field

\* A byte of an instruction.
LEMMA Byte ==
  ASSUME NEW c \in Code, NEW k \in 0 .. 14
  PROVE  c[k] \in 0 .. 255
BY DEF Code, Window

LEMMA Displacement8 ==
  ASSUME NEW c \in Code, NEW k \in 0 .. 14
  PROVE  Disp8(c, k) \in Int
<1>1. c[k] \in 0 .. 255
  BY Byte
<1> QED BY <1>1, SMT DEF Disp8

LEMMA Displacement32 ==
  ASSUME NEW c \in Code, NEW k \in 0 .. 11
  PROVE  Disp32(c, k) \in Int
<1>1. c[k] \in Int /\ c[k + 1] \in Int /\ c[k + 2] \in Int
  <2>1. k \in 0 .. 14 /\ k + 1 \in 0 .. 14 /\ k + 2 \in 0 .. 14
    BY SMT
  <2>2. c[k] \in 0 .. 255 /\ c[k + 1] \in 0 .. 255 /\ c[k + 2] \in 0 .. 255
    BY <2>1, Byte
  <2> QED BY <2>2, SMT
<1>2. Disp8(c, k + 3) \in Int
  <2>1. k + 3 \in 0 .. 14
    BY SMT
  <2> QED BY <2>1, Displacement8
<1> QED BY <1>1, <1>2, SMT DEF Disp32

\* A REX prefix is there or not, and adds 8 or nothing to a register.
LEMMA Prefix ==
  ASSUME NEW c \in Code
  PROVE  /\ Rexes(c) \in {0, 1}
         /\ \A u \in {1, 2, 4} : Extends(c, u) \in {0, 8}
<1>1. Rexes(c) \in {0, 1}
  BY DEF Rexes
<1>2. ASSUME NEW u \in {1, 2, 4} PROVE Extends(c, u) \in {0, 8}
  <2>1. c[1] \in 0 .. 255
    BY Byte
  <2>2. Field(c[1], u, 2) \in 0 .. 1
    BY <2>1, Bit
  <2> QED BY <2>2, SMT DEF Extends
<1> QED BY <1>1, <1>2

\* The header that handler() finds in an instruction is one.
LEMMA HeaderType ==
  ASSUME NEW c \in Code, IsEmulated(c)
  PROVE  Header(c) \in Headers /\ Header(c).has_rex = Rexes(c)
<1>1. Rexes(c) \in {0, 1}
  BY Prefix
<1>2. c[1] \in 0 .. 255
  BY Byte
<1>3. c[Rexes(c) + 3] \in Opcode
  BY DEF IsEmulated, Opcode
<1> QED BY <1>1, <1>2, <1>3 DEF Header, Headers

\* The bits of REX in a header are what the instruction set says.
LEMMA HeaderBits ==
  ASSUME NEW c \in Code, NEW u \in {1, 2, 4}
  PROVE  RexBit(Header(c), u) = Extends(c, u)
<1>1. CASE Rexes(c) = 1
  <2>1. Header(c).rex = c[1]
    BY <1>1 DEF Header
  <2> QED BY <1>1, <2>1 DEF RexBit, Extends
<1>2. CASE Rexes(c) # 1
  <2>1. Header(c).rex = 0
    BY <1>2 DEF Header
  <2>2. Field(0, u, 2) = 0
    <3>1. CASE u = 1 BY <3>1, SMT DEF Field
    <3>2. CASE u = 2 BY <3>2, SMT DEF Field
    <3>3. CASE u = 4 BY <3>3, SMT DEF Field
    <3> QED BY <3>1, <3>2, <3>3
  <2> QED BY <1>2, <2>1, <2>2, SMT DEF RexBit, Extends
<1> QED BY <1>1, <1>2

-----------------------------------------------------------------------------
(* Decodings *)

\* A bit of REX in a header adds 8 or nothing.
LEMMA RexBitType ==
  ASSUME NEW h \in Headers, NEW u \in {1, 2, 4}
  PROVE  RexBit(h, u) \in {0, 8}
<1>1. h.rex \in 0 .. 255
  BY DEF Headers
<1>2. Field(h.rex, u, 2) \in 0 .. 1
  BY <1>1, Bit
<1> QED BY <1>2, SMT DEF RexBit

\* A register number made of three bits and one of REX.
LEMMA RegType ==
  ASSUME NEW x \in 0 .. 7, NEW y \in {0, 8}
  PROVE  x + y \in Reg
BY SMT DEF Reg

\* What parse_mem_operand makes of any bytes whatsoever is an address.
LEMMA ParseType ==
  ASSUME NEW c \in Code, NEW h \in Headers, NEW m \in 0 .. 255, NEW first \in {4, 5, 6}
  PROVE  ParseMem(c, h, m, first) \in AddressType
<1> DEFINE mod == Field(m, 64, 4)
           rm == Field(m, 1, 8)
           imm == IF c[h.has_rex + 2] = \h3a THEN 1 ELSE 0
           sibs == IF rm = 4 THEN 1 ELSE 0
           sib == c[first]
           bare == SibDisp(c, first + 1, mod)
           tail == CASE mod = 1 -> 1 [] mod = 2 -> 4 [] OTHER -> 0
           size == IF sibs = 1 THEN bare + tail ELSE tail
           disp == CASE size = 0 -> 0
                     [] size = 1 -> Disp8(c, first + sibs)
                     [] size = 4 -> Disp32(c, first + sibs)
           indexed == sibs = 1 /\ Field(sib, 8, 8) # 4
           base == IF sibs = 0 THEN rm + RexBit(h, 1)
                   ELSE IF bare = 4 THEN None ELSE Field(sib, 1, 8) + RexBit(h, 1)
           index == IF indexed THEN Field(sib, 8, 8) + RexBit(h, 2) ELSE None
           scale == IF indexed THEN Field(sib, 64, 4) ELSE 0
<1>1. mod \in 0 .. 3 /\ rm \in 0 .. 7 /\ imm \in {0, 1} /\ sibs \in {0, 1}
  BY Fields
<1>2. sib \in 0 .. 255
  BY Byte
<1>3. Field(sib, 1, 8) \in 0 .. 7 /\ Field(sib, 8, 8) \in 0 .. 7 /\ Field(sib, 64, 4) \in 0 .. 3
  BY <1>2, Fields
<1>4. RexBit(h, 1) \in {0, 8} /\ RexBit(h, 2) \in {0, 8}
  BY RexBitType
<1>5. bare \in {0, 4} /\ (bare = 4 => mod = 0)
  BY DEF SibDisp
<1>6. tail \in {0, 1, 4} /\ (mod = 0 => tail = 0)
  BY <1>1, SMT
<1>7. size \in {0, 1, 4}
  BY <1>5, <1>6, SMT
<1>8. disp \in Int
  <2>1. first + sibs \in 0 .. 11
    BY <1>1, SMT
  <2>2. Disp8(c, first + sibs) \in Int /\ Disp32(c, first + sibs) \in Int
    BY <2>1, Displacement8, Displacement32, SMT
  <2> HIDE DEF size
  <2> QED BY <1>7, <2>2, SMT
<1>9. Disp32(c, first) \in Int
  BY Displacement32, SMT
<1>10. base \in Reg \cup {None}
  <2> HIDE DEF bare, rm, sib
  <2> QED BY <1>1, <1>3, <1>4, RegType
<1>11. index \in Reg \cup {None}
  <2> HIDE DEF sib, sibs
  <2> QED BY <1>3, <1>4, RegType
<1>12. scale \in 0 .. 3
  BY <1>3, SMT
<1>13. first + 4 + imm \in 4 .. 15 /\ first + sibs + size + imm \in 4 .. 15
  <2> HIDE DEF size, sibs, imm
  <2> QED BY <1>1, <1>7, SMT
<1> HIDE DEF base, index, scale, disp, size, sibs, imm, mod, rm
<1>14. Address(TRUE, None, None, 0, Disp32(c, first), first + 4 + imm) \in AddressType
  BY <1>9, <1>13 DEF Address, AddressType
<1>15. Address(FALSE, base, index, scale, disp, first + sibs + size + imm) \in AddressType
  BY <1>8, <1>10, <1>11, <1>12, <1>13 DEF Address, AddressType
<1>16. ParseMem(c, h, m, first) =
         IF mod = 0 /\ rm = 5
           THEN Address(TRUE, None, None, 0, Disp32(c, first), first + 4 + imm)
           ELSE Address(FALSE, base, index, scale, disp, first + sibs + size + imm)
  BY DEF ParseMem, base, index, scale, disp, size, sibs, imm, mod, rm
<1> QED BY <1>14, <1>15, <1>16

\* Whatever the decoder reads, it stores an entry with registers that exist.
LEMMA DecodingType ==
  ASSUME NEW s \in Site, NEW c \in Code, NEW h \in Headers, NEW snd \in BOOLEAN
  PROVE  /\ Decoding(s, c, h, snd) \in Entry
         /\ Decoding(s, c, h, snd).rip = s /\ Decoding(s, c, h, snd).sound = snd
<1> DEFINE m == c[h.has_rex + 4]
           mem == IsMem(c, h)
           reg == Field(m, 8, 8) + RexBit(h, 4)
           rm == IF mem THEN 0 ELSE Field(m, 1, 8) + RexBit(h, 1)
           addr == IF mem THEN ParseMem(c, h, m, FirstByte(h))
                   ELSE NoAddress(h.has_rex + (IF h.op = Clmul THEN 6 ELSE 5))
<1>1. h.has_rex \in {0, 1} /\ h.op \in Opcode
  BY DEF Headers
<1>2. m \in 0 .. 255
  BY <1>1, Byte
<1>3. Field(m, 1, 8) \in 0 .. 7 /\ Field(m, 8, 8) \in 0 .. 7
  BY <1>2, Fields
<1>4. RexBit(h, 1) \in {0, 8} /\ RexBit(h, 4) \in {0, 8}
  BY RexBitType
<1>5. reg \in Reg
  BY <1>3, <1>4, RegType
<1>6. Field(m, 1, 8) + RexBit(h, 1) \in Reg /\ 0 \in Reg
  BY <1>3, <1>4, RegType DEF Reg
<1>7. rm \in Reg
  BY <1>6
<1>8. addr \in AddressType
  <2>1. FirstByte(h) \in {4, 5, 6}
    BY <1>1, SMT DEF FirstByte
  <2>2. ParseMem(c, h, m, FirstByte(h)) \in AddressType
    BY <1>2, <2>1, ParseType
  <2>3. h.has_rex + (IF h.op = Clmul THEN 6 ELSE 5) \in 4 .. 15
    BY <1>1, SMT
  <2>4. NoAddress(h.has_rex + (IF h.op = Clmul THEN 6 ELSE 5)) \in AddressType
    BY <2>3 DEF NoAddress, Address, AddressType
  <2> QED BY <2>2, <2>4
<1>9. mem \in BOOLEAN
  BY DEF IsMem
<1> HIDE DEF m, mem, reg, rm, addr
<1>10. Decoding(s, c, h, snd) =
         [rip |-> s, op |-> h.op, has_rex |-> h.has_rex, reg |-> reg, rm |-> rm,
          is_mem |-> mem, address |-> addr, sound |-> snd]
  BY DEF Decoding, m, mem, reg, rm, addr
<1> QED BY <1>1, <1>5, <1>7, <1>8, <1>9, <1>10 DEF Entry, Opcode

\* An instruction whose source is a register is decoded as the instruction set
\* defines it.
LEMMA RegisterDecoding ==
  ASSUME NEW s \in Site, NEW c \in Code, IsEmulated(c), Meaning(c).src.kind = "xmm"
  PROVE  LET e == Decoding(s, c, Header(c), TRUE) IN
         /\ ~e.is_mem /\ e.op = Meaning(c).op /\ e.reg = Meaning(c).dest
         /\ Register(e.rm) = Meaning(c).src
         /\ e.has_rex = Rexes(c)
         /\ e.address.bytes = Meaning(c).next
         /\ e.op = Clmul => Meaning(c).imm = c[Rexes(c) + 5] /\ Meaning(c).next = Rexes(c) + 6
         /\ e.op # Clmul => Meaning(c).imm = 0
<1> DEFINE m == c[Rexes(c) + 4]
           h == Header(c)
<1>1. h \in Headers /\ h.has_rex = Rexes(c) /\ h.op = c[Rexes(c) + 3]
  BY HeaderType DEF Header
<1>2. Rexes(c) \in {0, 1}
  BY Prefix
<1>3. Field(m, 64, 4) = 3
  <2> SUFFICES ASSUME Field(m, 64, 4) # 3 PROVE FALSE
    OBVIOUS
  <2>1. Meaning(c).src.kind \in {"mem", "rip"}
    BY DEF Meaning, Memory, FromRip
  <2> QED BY <2>1
<1>4. RexBit(h, 1) = Extends(c, 1) /\ RexBit(h, 4) = Extends(c, 4)
  BY HeaderBits
<1> DEFINE n == Meaning(c).next
<1>5. Meaning(c) = [op |-> c[Rexes(c) + 3],
                    dest |-> Field(m, 8, 8) + Extends(c, 4),
                    src |-> Register(Field(m, 1, 8) + Extends(c, 1)),
                    imm |-> IF c[Rexes(c) + 3] = Clmul THEN c[n - 1] ELSE 0,
                    next |-> n]
  BY <1>3 DEF Meaning
<1>6. n = Rexes(c) + (IF c[Rexes(c) + 3] = Clmul THEN 6 ELSE 5)
  BY <1>2, <1>3, SMT DEF Meaning
<1>7. ~IsMem(c, h) /\ c[h.has_rex + 4] = m
  BY <1>1, <1>3 DEF IsMem
<1> HIDE DEF h, m, n
<1>8. /\ Decoding(s, c, h, TRUE).op = h.op /\ Decoding(s, c, h, TRUE).has_rex = h.has_rex
      /\ Decoding(s, c, h, TRUE).reg = Field(m, 8, 8) + RexBit(h, 4)
      /\ Decoding(s, c, h, TRUE).rm = Field(m, 1, 8) + RexBit(h, 1)
      /\ ~Decoding(s, c, h, TRUE).is_mem
      /\ Decoding(s, c, h, TRUE).address
           = NoAddress(h.has_rex + (IF h.op = Clmul THEN 6 ELSE 5))
  BY <1>7, Zenon DEF Decoding
<1>9. NoAddress(h.has_rex + (IF h.op = Clmul THEN 6 ELSE 5)).bytes
        = h.has_rex + (IF h.op = Clmul THEN 6 ELSE 5)
  BY DEF NoAddress, Address
<1>10. /\ Meaning(c).op = c[Rexes(c) + 3] /\ Meaning(c).dest = Field(m, 8, 8) + Extends(c, 4)
       /\ Meaning(c).src = Register(Field(m, 1, 8) + Extends(c, 1))
       /\ Meaning(c).next = n
       /\ Meaning(c).imm = IF c[Rexes(c) + 3] = Clmul THEN c[n - 1] ELSE 0
  <2>1. ASSUME NEW r, NEW op, NEW dest, NEW src, NEW imm, NEW next,
               r = [op |-> op, dest |-> dest, src |-> src, imm |-> imm, next |-> next]
        PROVE  r.op = op /\ r.dest = dest /\ r.src = src /\ r.imm = imm /\ r.next = next
    BY <2>1
  <2> QED BY <1>5, <2>1
<1>11. c[Rexes(c) + 3] = Clmul => n - 1 = Rexes(c) + 5 /\ n = Rexes(c) + 6
  BY <1>2, <1>6, SMT
<1>12. /\ c[Rexes(c) + 3] = Clmul => Meaning(c).imm = c[Rexes(c) + 5]
       /\ c[Rexes(c) + 3] # Clmul => Meaning(c).imm = 0
  BY <1>10, <1>11
<1>13. Decoding(s, c, h, TRUE).address.bytes = n
  BY <1>1, <1>6, <1>8, <1>9
<1> DEFINE e == Decoding(s, c, h, TRUE)
<1>14. /\ ~e.is_mem /\ e.op = Meaning(c).op /\ e.reg = Meaning(c).dest
       /\ Register(e.rm) = Meaning(c).src
       /\ e.has_rex = Rexes(c)
       /\ e.address.bytes = Meaning(c).next
       /\ e.op = Clmul => Meaning(c).imm = c[Rexes(c) + 5] /\ Meaning(c).next = Rexes(c) + 6
       /\ e.op # Clmul => Meaning(c).imm = 0
  <2>1. RexBit(h, 1) = Extends(c, 1) /\ RexBit(h, 4) = Extends(c, 4)
    BY <1>4
  <2>2. e.op = c[Rexes(c) + 3]
    BY <1>1, <1>8
  <2> QED BY <1>1, <1>8, <1>10, <1>11, <1>12, <1>13, <2>1, <2>2, Zenon
<1> QED BY <1>14 DEF h

\* With the displacement read where the comment of parse_mem_operand says, every
\* memory operand but one with R12 as its index is where the instruction set
\* has it, and the instruction as long.
LEMMA RepairedDecoding ==
  ASSUME NEW c \in Code, IsEmulated(c), IsMem(c, Header(c)), ~R12IsIndex(c)
  PROVE  LET h == Header(c)
             a == ParseMem(c, h, c[FirstByte(h)], FirstByte(h) + 1)
         IN Resolve(a, 0, Gregs) = Meaning(c).src /\ a.bytes = Meaning(c).next
<1> DEFINE h == Header(c)
           R == Rexes(c)
           m == c[R + 4]
           p == R + 5
           mod == Field(m, 64, 4)
           rm == Field(m, 1, 8)
           sib == c[p]
           field == Field(sib, 8, 8)
           sibs == IF rm = 4 THEN 1 ELSE 0
           lone == mod = 0 /\ (rm = 5 \/ (sibs = 1 /\ Field(sib, 1, 8) = 5))
           size == IF mod = 1 THEN 1 ELSE IF mod = 2 \/ lone THEN 4 ELSE 0
           disp == IF size = 0 THEN 0
                   ELSE IF size = 1 THEN Disp8(c, p + sibs) ELSE Disp32(c, p + sibs)
           imm == IF c[R + 3] = Clmul THEN 1 ELSE 0
           n == p + sibs + size + imm
           base == IF lone THEN None
                   ELSE (IF sibs = 1 THEN Field(sib, 1, 8) ELSE rm) + Extends(c, 1)
           indexed == sibs = 1 /\ field # 4
           index == IF indexed THEN field + Extends(c, 2) ELSE None
           scale == IF indexed THEN Field(sib, 64, 4) ELSE 0
           src == IF mod = 0 /\ rm = 5 THEN FromRip(n + disp)
                  ELSE Memory(base, index, scale, disp)
<1>1. h \in Headers /\ h.has_rex = R /\ R \in {0, 1}
  BY HeaderType, Prefix
<1>2. m \in 0 .. 255 /\ sib \in 0 .. 255
  <2>1. R + 4 \in 0 .. 14 /\ p \in 0 .. 14
    BY <1>1, SMT
  <2> QED BY <2>1, Byte
<1>3. /\ mod \in 0 .. 3 /\ rm \in 0 .. 7
      /\ Field(sib, 1, 8) \in 0 .. 7 /\ field \in 0 .. 7 /\ Field(sib, 64, 4) \in 0 .. 3
  BY <1>2, Fields
<1>4. mod # 3
  BY <1>1 DEF IsMem
<1>5. RexBit(h, 1) = Extends(c, 1) /\ RexBit(h, 2) = Extends(c, 2)
  BY HeaderBits
<1>6. Extends(c, 1) \in {0, 8} /\ Extends(c, 2) \in {0, 8}
  BY Prefix
<1>7. (IF c[h.has_rex + 2] = \h3a THEN 1 ELSE 0) = imm
  BY <1>1 DEF IsEmulated, AesOps, Clmul
<1>8. FirstByte(h) + 1 = p /\ c[FirstByte(h)] = m /\ p \in {5, 6}
  BY <1>1, SMT DEF FirstByte
<1>9. ~(field = 4 /\ sibs = 1 /\ Extends(c, 2) = 8)
  BY DEF R12IsIndex
<1>10. sibs \in {0, 1} /\ size \in {0, 1, 4} /\ imm \in {0, 1}
  OBVIOUS
<1>11. n \in Int /\ disp \in Int
  <2>1. p + sibs \in 0 .. 11
    BY <1>8, <1>10, SMT
  <2>2. Disp8(c, p + sibs) \in Int /\ Disp32(c, p + sibs) \in Int
    BY <2>1, Displacement8, Displacement32, SMT
  <2>3. disp \in Int
    <3> HIDE DEF size, p, sibs
    <3> QED BY <2>2, SMT
  <2>4. n \in Int
    <3> HIDE DEF size, p, sibs, imm
    <3> QED BY <1>8, <1>10, SMT
  <2> QED BY <2>3, <2>4
<1>12. Meaning(c).src = src /\ Meaning(c).next = n
  <2> DEFINE q == R + 4
             sibsM == IF mod # 3 /\ rm = 4 THEN 1 ELSE 0
             sibM == c[q + 1]
             loneM == mod = 0 /\ (rm = 5 \/ (sibsM = 1 /\ Field(sibM, 1, 8) = 5))
             sizeM == CASE mod = 1 -> 1 [] mod = 2 \/ loneM -> 4 [] OTHER -> 0
             dispM == CASE sizeM = 0 -> 0
                        [] sizeM = 1 -> Disp8(c, q + 1 + sibsM)
                        [] sizeM = 4 -> Disp32(c, q + 1 + sibsM)
             nM == q + 1 + sibsM + sizeM + (IF c[R + 3] = Clmul THEN 1 ELSE 0)
             indexM == Field(sibM, 8, 8) + Extends(c, 2)
             indexedM == sibsM = 1 /\ indexM # 4
  <2>1. Meaning(c) =
          [op |-> c[R + 3],
           dest |-> Field(m, 8, 8) + Extends(c, 4),
           src |-> CASE mod = 3 -> Register(rm + Extends(c, 1))
                     [] mod = 0 /\ rm = 5 -> FromRip(nM + dispM)
                     [] OTHER ->
                          Memory(IF loneM THEN None
                                 ELSE (IF sibsM = 1 THEN Field(sibM, 1, 8) ELSE rm) + Extends(c, 1),
                                 IF indexedM THEN indexM ELSE None,
                                 IF indexedM THEN Field(sibM, 64, 4) ELSE 0, dispM),
           imm |-> IF c[R + 3] = Clmul THEN c[nM - 1] ELSE 0,
           next |-> nM]
    BY Zenon DEF Meaning
  <2>2. sibsM = sibs /\ q + 1 = p /\ sibM = sib
    <3>1. q + 1 = p
      BY <1>1, SMT
    <3> QED BY <1>4, <3>1
  <2>3. loneM <=> lone
    BY <2>2
  <2>4. sizeM = size
    <3> HIDE DEF mod, loneM
    <3>1. CASE mod = 1 BY <2>3, <3>1, SMT
    <3>2. CASE mod = 2
      <4>1. sizeM = 4
        BY <3>2, SMT
      <4>2. size = 4
        BY <3>2, SMT
      <4> QED BY <4>1, <4>2
    <3>3. CASE mod # 1 /\ mod # 2 BY <2>3, <3>3, SMT
    <3> QED BY <3>1, <3>2, <3>3
  <2>5. dispM = disp
    <3>1. q + 1 + sibsM = p + sibs
      BY <2>2
    <3> HIDE DEF p, q, sibs, sibsM, size, sizeM
    <3>2. CASE size = 0 BY <2>4, <3>1, <3>2, SMT
    <3>3. CASE size = 1 BY <2>4, <3>1, <3>3, SMT
    <3>4. CASE size = 4 BY <2>4, <3>1, <3>4, SMT
    <3> QED BY <1>10, <3>2, <3>3, <3>4
  <2>6. nM = n
    <3> HIDE DEF p, q, sibs, sibsM, size, sizeM
    <3> QED BY <2>2, <2>4
  <2>7. indexedM <=> indexed
    <3>1. sibs = 1 => (indexM = 4 <=> field = 4)
      <4> HIDE DEF sibs, field
      <4>1. sibM = sib
        BY <2>2
      <4>2. indexM = field + Extends(c, 2)
        BY <4>1 DEF field
      <4> HIDE DEF indexM
      <4> QED BY <1>3, <1>6, <1>9, <4>2, SMT
    <3> QED BY <2>2, <3>1
  <2>8. indexM = field + Extends(c, 2) /\ Field(sibM, 64, 4) = Field(sib, 64, 4)
    BY <2>2
  <2>9. (IF loneM THEN None
         ELSE (IF sibsM = 1 THEN Field(sibM, 1, 8) ELSE rm) + Extends(c, 1)) = base
    BY <2>2, <2>3
  <2>10. /\ (IF indexedM THEN indexM ELSE None) = index
         /\ (IF indexedM THEN Field(sibM, 64, 4) ELSE 0) = scale
    BY <2>7, <2>8
  <2> DEFINE baseM == IF loneM THEN None
                      ELSE (IF sibsM = 1 THEN Field(sibM, 1, 8) ELSE rm) + Extends(c, 1)
             regM == IF indexedM THEN indexM ELSE None
             scaleM == IF indexedM THEN Field(sibM, 64, 4) ELSE 0
             srcM == CASE mod = 3 -> Register(rm + Extends(c, 1))
                       [] mod = 0 /\ rm = 5 -> FromRip(nM + dispM)
                       [] OTHER -> Memory(baseM, regM, scaleM, dispM)
  <2>11. srcM = src
    <3>1. baseM = base /\ regM = index /\ scaleM = scale /\ dispM = disp /\ nM = n
      BY <2>5, <2>6, <2>9, <2>10
    <3> HIDE DEF mod, rm, n, disp, base, index, scale, nM, dispM, baseM, regM, scaleM
    <3>2. CASE mod = 0 /\ rm = 5
      <4>1. srcM = FromRip(nM + dispM)
        BY <3>2, SMT
      <4> QED BY <3>1, <3>2, <4>1
    <3>3. CASE ~(mod = 0 /\ rm = 5)
      <4>1. srcM = Memory(baseM, regM, scaleM, dispM)
        BY <1>4, <3>3, SMT
      <4> QED BY <3>1, <3>3, <4>1
    <3> QED BY <3>2, <3>3
  <2>12. Meaning(c).src = srcM /\ Meaning(c).next = nM
    <3> HIDE DEF nM
    <3>1. ASSUME NEW op, NEW dest, NEW x, NEW y, NEW next
          PROVE  /\ [op |-> op, dest |-> dest, src |-> x, imm |-> y, next |-> next].src = x
                 /\ [op |-> op, dest |-> dest, src |-> x, imm |-> y, next |-> next].next = next
      OBVIOUS
    <3>2. Meaning(c) = [op |-> c[R + 3], dest |-> Field(m, 8, 8) + Extends(c, 4), src |-> srcM,
                        imm |-> IF c[R + 3] = Clmul THEN c[nM - 1] ELSE 0, next |-> nM]
      BY <2>1
    <3> HIDE DEF srcM
    <3> QED BY <3>1, <3>2
  <2> QED BY <2>6, <2>11, <2>12
<1>13. ParseMem(c, h, m, p) =
         IF mod = 0 /\ rm = 5
           THEN Address(TRUE, None, None, 0, Disp32(c, p), p + 4 + imm)
           ELSE Address(FALSE, base, index, scale, disp, n)
  <2> DEFINE immP == IF c[h.has_rex + 2] = \h3a THEN 1 ELSE 0
             bare == SibDisp(c, p + 1, mod)
             tail == CASE mod = 1 -> 1 [] mod = 2 -> 4 [] OTHER -> 0
             sizeP == IF sibs = 1 THEN bare + tail ELSE tail
             dispP == CASE sizeP = 0 -> 0
                        [] sizeP = 1 -> Disp8(c, p + sibs)
                        [] sizeP = 4 -> Disp32(c, p + sibs)
             baseP == IF sibs = 0 THEN rm + RexBit(h, 1)
                      ELSE IF bare = 4 THEN None ELSE Field(sib, 1, 8) + RexBit(h, 1)
             indexP == IF indexed THEN field + RexBit(h, 2) ELSE None
  <2>1. ParseMem(c, h, m, p) =
          IF mod = 0 /\ rm = 5
            THEN Address(TRUE, None, None, 0, Disp32(c, p), p + 4 + immP)
            ELSE Address(FALSE, baseP, indexP, scale, dispP, p + sibs + sizeP + immP)
    BY Zenon DEF ParseMem
  <2>2. immP = imm /\ indexP = index
    BY <1>5, <1>7
  <2>3. bare = IF Field(sib, 1, 8) = 5 /\ mod = 0 THEN 4 ELSE 0
    <3>1. (p + 1) - 1 = p
      BY <1>8, SMT
    <3>2. c[(p + 1) - 1] = sib
      BY <3>1
    <3>3. bare = IF Field(c[(p + 1) - 1], 1, 8) = 5 /\ mod = 0 THEN 4 ELSE 0
      BY Zenon DEF SibDisp
    <3> HIDE DEF mod, sib, bare
    <3> QED BY <3>2, <3>3, Zenon
  <2>4. tail = IF mod = 1 THEN 1 ELSE IF mod = 2 THEN 4 ELSE 0
    <3> HIDE DEF mod
    <3> QED BY SMT
  <2>5. ASSUME ~(mod = 0 /\ rm = 5)
        PROVE  sizeP = size /\ dispP = disp /\ baseP = base
    <3>1. lone <=> sibs = 1 /\ bare = 4
      <4> HIDE DEF mod, rm, sib
      <4> QED BY <2>3, <2>5, SMT
    <3>2. bare = 4 => mod = 0
      BY <2>3
    <3>3. bare \in {0, 4}
      BY <2>3
    <3>4. sizeP = size
      <4> HIDE DEF mod, sibs, lone, bare, tail
      <4> QED BY <1>3, <1>10, <2>4, <3>1, <3>2, <3>3, SMT
    <3>5. dispP = disp
      <4> HIDE DEF p, sibs, size, sizeP
      <4>2. CASE size = 0 BY <3>4, <4>2, SMT
      <4>3. CASE size = 1 BY <3>4, <4>3, SMT
      <4>4. CASE size = 4 BY <3>4, <4>4, SMT
      <4> QED BY <1>10, <4>2, <4>3, <4>4
    <3>6. baseP = base
      <4> HIDE DEF sibs, lone, bare, rm, sib
      <4> QED BY <1>5, <1>10, <3>1
    <3> QED BY <3>4, <3>5, <3>6
  <2> HIDE DEF mod, rm, immP, sizeP, dispP, baseP, indexP, base, index, scale, disp, size, sibs, imm
  <2> QED BY <2>1, <2>2, <2>5, Zenon
<1>14. CASE mod = 0 /\ rm = 5
  <2> DEFINE a == Address(TRUE, None, None, 0, Disp32(c, p), p + 4 + imm)
  <2>1. size = 4 /\ sibs = 0
    BY <1>14, SMT
  <2>2. disp = Disp32(c, p) /\ n = p + 4 + imm
    <3>1. p + sibs = p
      BY <1>8, <2>1, SMT
    <3> HIDE DEF size, sibs, p, imm
    <3>2. disp = Disp32(c, p)
      BY <2>1, <3>1, SMT
    <3>3. n = p + 4 + imm
      BY <2>1, <3>1, <1>8, <1>10, SMT
    <3> QED BY <3>2, <3>3
  <2> HIDE DEF n, disp, p, imm
  <2>3. a.bytes = n /\ Resolve(a, 0, Gregs) = FromRip(0 + n + disp)
    BY <2>2, Zenon DEF Address, Resolve
  <2>4. 0 + n + disp = n + disp
    BY <1>11, SMT
  <2>5. src = FromRip(n + disp)
    BY <1>14
  <2>6. ParseMem(c, h, m, p) = a
    BY <1>13, <1>14
  <2> HIDE DEF h, a, src, m
  <2> QED BY <1>8, <1>12, <2>3, <2>4, <2>5, <2>6 DEF h
<1>15. CASE ~(mod = 0 /\ rm = 5)
  <2> DEFINE a == Address(FALSE, base, index, scale, disp, n)
  <2>1. ParseMem(c, h, m, p) = a
    BY <1>13, <1>15
  <2>2. src = Memory(base, index, scale, disp)
    BY <1>15
  <2> HIDE DEF n, disp, p, imm, base, index, scale
  <2>3. a.bytes = n /\ Resolve(a, 0, Gregs) = Memory(base, index, scale, disp)
    BY Zenon DEF Address, Resolve, Gregs
  <2> HIDE DEF h, a, src, m
  <2> QED BY <1>8, <1>12, <2>1, <2>2, <2>3 DEF h
<1> QED BY <1>14, <1>15

\* The trampoline finds a register where trampoline_entry has pushed it.
LEMMA PushedRegisters ==
  ASSUME NEW n \in Reg
  PROVE  GpRegs(n) = Gregs(n)
<1>1. n \in {0, 1, 2, 3, 4, 5, 6, 7} \/ n \in {8, 9, 10, 11, 12, 13, 14, 15}
  BY SMT DEF Reg
<1>2. CASE n \in {0, 1, 2, 3, 4, 5, 6, 7}
  BY <1>2, SMT DEF GpRegs, Gregs, Pushed, PushedSlot
<1>3. CASE n \in {8, 9, 10, 11, 12, 13, 14, 15}
  BY <1>3, SMT DEF GpRegs, Gregs, Pushed, PushedSlot
<1> QED BY <1>1, <1>2, <1>3

\* So it takes an operand from where the handler does.
LEMMA SourcesAgree ==
  ASSUME NEW e \in Entry
  PROVE  Source(e, 0, GpRegs) = Source(e, 0, Gregs)
<1>1. e.address \in AddressType /\ e.rm \in Reg
  BY DEF Entry
<1>2. /\ e.address.base # None => e.address.base \in Reg
      /\ e.address.index # None => e.address.index \in Reg
  BY <1>1 DEF AddressType
<1>3. /\ e.address.base # None => GpRegs(e.address.base) = Gregs(e.address.base)
      /\ e.address.index # None => GpRegs(e.address.index) = Gregs(e.address.index)
  BY <1>2, PushedRegisters
<1> QED BY <1>3, Zenon DEF Source, Resolve

-----------------------------------------------------------------------------
(* The invariant.  o is original, which no step changes. *)

\* The decoding of the instruction that was at s when the host was loaded.
Whole(o, s) == Decoding(s, o[s], Header(o[s]), TRUE)

IsClmulOfRegisters(o, s) == Meaning(o[s]).src.kind = "xmm" /\ Meaning(o[s]).op = Clmul

\* A site holds its instruction or a call; of a patched PCLMULQDQ of two
\* registers the last byte is a NOP.
CodeInv ==
  /\ original \in [Site -> Code] /\ code \in [Site -> Code]
  /\ \A s \in Site :
       /\ IsEmulated(original[s])
       /\ code[s] = original[s] \/ code[s][0] = \he8
       /\ code[s][0] = \he8 /\ IsClmulOfRegisters(original, s) =>
            code[s][Rexes(original[s]) + 5] = \h90

\* A thread whose site nobody has patched reads the instruction there; what it
\* decoded of it is the whole.
ThreadOK(u) ==
  /\ pc[u] \in {"idle", "run", "look", "hit", "test", "decode", "patch", "resume",
                "use", "exit"}
  /\ at[u] \in Site \cup {Nothing}
  /\ pc[u] \in {"idle", "run"} => at[u] = Nothing /\ u \notin touched
  /\ pc[u] \in Handling \cup {"use"} => at[u] \in Site
  /\ pc[u] = "use" => code[at[u]][0] = \he8
  /\ pc[u] \in Handling \ {"resume"} => code[at[u]] = original[at[u]] \/ u \in touched
  /\ u \in touched /\ at[u] \in Site => code[at[u]][0] = \he8
  /\ pc[u] = "decode" => /\ own[u] \in Headers
                         /\ u \notin touched => own[u] = Header(original[at[u]])
  /\ pc[u] \in {"hit", "patch", "resume"} =>
       /\ own[u] \in Entry /\ own[u].rip = at[u]
       /\ own[u].sound => own[u] = Whole(original, at[u])
  /\ pc[u] = "patch" /\ ~own[u].sound => u \in touched

\* So is every entry that was decoded while its instruction stood.
EntryOK(sl) ==
  /\ entry[sl] \in Entry \cup {Nothing}
  /\ entry[sl] # Nothing =>
       /\ SlotOf[entry[sl].rip] = sl
       /\ entry[sl].sound => entry[sl] = Whole(original, entry[sl].rip)

\* What a thread finds in the shared entry it reads again.
SameOK(u) ==
  u \notin replaced =>
    /\ pc[u] \in {"patch", "resume"} /\ own[u].sound => entry[SlotOf[at[u]]] = own[u]
    /\ pc[u] = "use" => /\ entry[SlotOf[at[u]]] # Nothing
                        /\ entry[SlotOf[at[u]]].rip = at[u]
                        /\ entry[SlotOf[at[u]]].address.bytes = 5

\* A service is by the whole decoding of its site.
Right(o, r) ==
  r # Nothing /\ r.next # Nothing /\ r.sound /\ (r.path # "hit" => ~r.replaced) =>
    /\ r.site \in Site
    /\ r.op = Whole(o, r.site).op /\ r.dest = Whole(o, r.site).reg
    /\ r.src = Source(Whole(o, r.site), 0, Gregs)
    /\ r.next = Whole(o, r.site).address.bytes
    /\ Meaning(o[r.site]).src.kind = "xmm" =>
         \/ r.imm = Meaning(o[r.site]).imm
         \/ r.path = "hit" /\ r.touched /\ r.imm = \h90

\* The service of a decoder that has not yet moved RIP.
Pending(o, s, e, r) ==
  /\ r = [site |-> s, path |-> "decode", op |-> e.op, dest |-> e.reg,
          src |-> Source(e, 0, Gregs), imm |-> r.imm, next |-> r.next,
          sound |-> e.sound, touched |-> r.touched, replaced |-> r.replaced]
  /\ e.sound /\ Meaning(o[s]).src.kind = "xmm" => r.imm = Meaning(o[s]).imm

LastOK(u) ==
  /\ Right(original, last[u])
  /\ pc[u] \in {"patch", "resume"} => Pending(original, at[u], own[u], last[u])

Domains ==
  /\ entry = [sl \in Slots |-> entry[sl]]
  /\ pc = [u \in Thread |-> pc[u]] /\ at = [u \in Thread |-> at[u]]
  /\ own = [u \in Thread |-> own[u]] /\ last = [u \in Thread |-> last[u]]
  /\ touched \subseteq Thread /\ replaced \subseteq Thread

Inv ==
  /\ Domains /\ CodeInv
  /\ \A u \in Thread : ThreadOK(u) /\ SameOK(u) /\ LastOK(u)
  /\ \A sl \in Slots : EntryOK(sl)

-----------------------------------------------------------------------------
\* Initially every site holds its instruction and nobody has done anything.
LEMMA InitInv == Init => Inv
<1> SUFFICES ASSUME Init PROVE Inv
  OBVIOUS
<1> PICK x \in Start :
      /\ original = x.code /\ code = x.code
      /\ entry = [sl \in Slots |-> Nothing]
      /\ pc = [t \in Thread |-> IF t \in x.threads THEN "run" ELSE "idle"]
      /\ at = [t \in Thread |-> Nothing]
      /\ own = [t \in Thread |-> Nothing]
      /\ last = [t \in Thread |-> Nothing]
      /\ touched = {} /\ replaced = {}
  BY DEF Init
<1>1. Domains
  BY DEF Domains
<1>2. CodeInv
  <2>1. x.code \in [Site -> Code] /\ \A s \in Site : IsEmulated(x.code[s])
    BY TrapAssumption
  <2>2. \A s \in Site : x.code[s][0] = \h66
    BY <2>1 DEF IsEmulated
  <2> QED BY <2>1, <2>2, SMT DEF CodeInv
<1>3. \A u \in Thread : ThreadOK(u)
  BY TrapAssumption DEF ThreadOK, Handling
<1>4. \A u \in Thread : SameOK(u) /\ LastOK(u)
  BY DEF SameOK, LastOK, Right
<1>5. \A sl \in Slots : EntryOK(sl)
  BY DEF EntryOK
<1> QED BY <1>1, <1>2, <1>3, <1>4, <1>5 DEF Inv

\* An instruction's entry is one of the cache's.
LEMMA SlotOfSite ==
  ASSUME NEW s \in Site
  PROVE  SlotOf[s] \in Slots
BY DEF Slots

\* The decoding of a whole instruction is an entry of its site.
LEMMA WholeType ==
  ASSUME CodeInv, NEW s \in Site
  PROVE  Whole(original, s) \in Entry /\ Whole(original, s).rip = s /\ Whole(original, s).sound
<1>1. original[s] \in Code /\ IsEmulated(original[s])
  BY DEF CodeInv
<1>2. Header(original[s]) \in Headers
  BY <1>1, HeaderType
<1> QED BY <1>1, <1>2, DecodingType DEF Whole

\* A step that changes neither code nor entries nor what others have marked
\* leaves the other threads as they are.
LEMMA OthersKept ==
  ASSUME Inv, NEW t \in Thread, NEW u \in Thread, u # t,
         pc'[u] = pc[u], at'[u] = at[u], own'[u] = own[u], last'[u] = last[u],
         UNCHANGED <<original, code, entry>>,
         u \in touched' <=> u \in touched, u \in replaced' <=> u \in replaced
  PROVE  ThreadOK(u)' /\ SameOK(u)' /\ LastOK(u)'
<1>1. ThreadOK(u) /\ SameOK(u) /\ LastOK(u)
  BY DEF Inv
<1>2. ThreadOK(u)'
  <2>1. original' = original /\ code' = code
    OBVIOUS
  <2> QED BY <1>1, <2>1, SMT DEF ThreadOK
<1>3. SameOK(u)'
  BY <1>1, Zenon DEF SameOK
<1>4. LastOK(u)'
  BY <1>1, Zenon DEF LastOK
<1> QED BY <1>2, <1>3, <1>4

\* A trap finds the instruction.
LEMMA TrapStep ==
  ASSUME Inv, NEW t \in Thread, NEW s \in Site, Trap(t, s)
  PROVE  Inv'
<1> USE DEF Trap, Goto
<1>1. Domains'
  BY DEF Inv, Domains
<1>2. CodeInv'
  BY DEF Inv, CodeInv
<1>3. \A sl \in Slots : EntryOK(sl)'
  BY DEF Inv, EntryOK
<1>4. pc'[t] = "look" /\ at'[t] = s /\ last'[t] = last[t] /\ t \notin touched
  BY DEF Inv, Domains, ThreadOK
<1>5. code[s] = original[s]
  BY SMT DEF Inv, CodeInv
<1>6. ThreadOK(t)' /\ SameOK(t)' /\ LastOK(t)'
  <2>1. LastOK(t)
    BY DEF Inv
  <2> QED BY <1>4, <1>5, <2>1, Zenon DEF ThreadOK, SameOK, LastOK, Handling
<1>7. \A u \in Thread \ {t} : ThreadOK(u)' /\ SameOK(u)' /\ LastOK(u)'
  <2> TAKE u \in Thread \ {t}
  <2>1. /\ pc'[u] = pc[u] /\ at'[u] = at[u] /\ own'[u] = own[u] /\ last'[u] = last[u]
    BY DEF Inv, Domains
  <2> QED BY <2>1, OthersKept
<1> QED BY <1>1, <1>2, <1>3, <1>6, <1>7, Zenon DEF Inv

\* A hit is a copy of the entry of the site.
LEMMA LookUpStep ==
  ASSUME Inv, NEW t \in Thread, LookUp(t)
  PROVE  Inv'
<1> USE DEF LookUp, Goto
<1>1. Domains'
  BY DEF Inv, Domains
<1>2. CodeInv'
  BY DEF Inv, CodeInv
<1>3. \A sl \in Slots : EntryOK(sl)'
  BY DEF Inv, EntryOK
<1>4. ThreadOK(t) /\ LastOK(t) /\ at[t] \in Site
  BY DEF Inv, ThreadOK, Handling
<1>5. at'[t] = at[t] /\ last'[t] = last[t]
  OBVIOUS
<1>6. ThreadOK(t)' /\ SameOK(t)' /\ LastOK(t)'
  <2>1. CASE entry[Slot(t)] # Nothing /\ entry[Slot(t)].rip = at[t]
    <3>1. pc'[t] = "hit" /\ own'[t] = entry[Slot(t)]
      BY <2>1 DEF Inv, Domains
    <3>2. EntryOK(SlotOf[at[t]])
      BY <1>4, SlotOfSite DEF Inv
    <3>3. own'[t] \in Entry /\ own'[t].rip = at[t]
          /\ (own'[t].sound => own'[t] = Whole(original, at[t]))
      BY <2>1, <3>1, <3>2 DEF EntryOK, Slot
    <3> QED BY <1>4, <1>5, <3>1, <3>3, SMT DEF ThreadOK, SameOK, LastOK, Handling
  <2>2. CASE ~(entry[Slot(t)] # Nothing /\ entry[Slot(t)].rip = at[t])
    <3>1. pc'[t] = "test"
      BY <2>2 DEF Inv, Domains
    <3> QED BY <1>4, <1>5, <3>1, SMT DEF ThreadOK, SameOK, LastOK, Handling
  <2> QED BY <2>1, <2>2
<1>7. \A u \in Thread \ {t} : ThreadOK(u)' /\ SameOK(u)' /\ LastOK(u)'
  <2> TAKE u \in Thread \ {t}
  <2>1. pc'[u] = pc[u] /\ at'[u] = at[u] /\ own'[u] = own[u] /\ last'[u] = last[u]
    BY DEF Inv, Domains
  <2> QED BY <2>1, OthersKept
<1> QED BY <1>1, <1>2, <1>3, <1>6, <1>7, Zenon DEF Inv

\* What is tested is the instruction, unless another thread has patched it.
LEMMA TestStep ==
  ASSUME Inv, NEW t \in Thread, Test(t)
  PROVE  Inv'
<1> USE DEF Test, Goto
<1>1. Domains'
  BY DEF Inv, Domains
<1>2. CodeInv'
  BY DEF Inv, CodeInv
<1>3. \A sl \in Slots : EntryOK(sl)'
  BY DEF Inv, EntryOK
<1>4. ThreadOK(t) /\ LastOK(t) /\ at[t] \in Site
  BY DEF Inv, ThreadOK, Handling
<1>5. at'[t] = at[t] /\ last'[t] = last[t]
  OBVIOUS
<1>6. ThreadOK(t)' /\ SameOK(t)' /\ LastOK(t)'
  <2>1. CASE IsEmulated(code[at[t]])
    <3>1. pc'[t] = "decode" /\ own'[t] = Header(code[at[t]])
      BY <2>1 DEF Inv, Domains
    <3>2. code[at[t]] \in Code
      BY <1>4 DEF Inv, CodeInv
    <3>3. own'[t] \in Headers
      BY <2>1, <3>1, <3>2, HeaderType
    <3>4. t \notin touched => own'[t] = Header(original[at[t]])
      BY <1>4, <3>1 DEF ThreadOK, Handling
    <3> QED BY <1>4, <1>5, <3>1, <3>3, <3>4, SMT DEF ThreadOK, SameOK, LastOK, Handling
  <2>2. CASE ~IsEmulated(code[at[t]])
    <3>1. pc'[t] = "exit"
      BY <2>2 DEF Inv, Domains
    <3> QED BY <1>4, <1>5, <3>1, SMT DEF ThreadOK, SameOK, LastOK, Handling
  <2> QED BY <2>1, <2>2
<1>7. \A u \in Thread \ {t} : ThreadOK(u)' /\ SameOK(u)' /\ LastOK(u)'
  <2> TAKE u \in Thread \ {t}
  <2>1. pc'[u] = pc[u] /\ at'[u] = at[u] /\ own'[u] = own[u] /\ last'[u] = last[u]
    BY DEF Inv, Domains
  <2> QED BY <2>1, OthersKept
<1> QED BY <1>1, <1>2, <1>3, <1>6, <1>7, Zenon DEF Inv

\* A thread that is back in the host's code keeps nothing.
LEMMA Returned ==
  ASSUME Inv, NEW t \in Thread, pc[t] \in Handling \cup {"use"}, Return(t),
         UNCHANGED <<original, code, entry>>,
         NEW r, last' = [last EXCEPT ![t] = r], Right(original, r)
  PROVE  Inv'
<1> USE DEF Return, Goto
<1>1. Domains'
  BY DEF Inv, Domains
<1>2. CodeInv'
  BY DEF Inv, CodeInv
<1>3. \A sl \in Slots : EntryOK(sl)'
  BY DEF Inv, EntryOK
<1>4. pc'[t] = "run" /\ at'[t] = Nothing /\ last'[t] = r /\ t \notin touched'
  BY DEF Inv, Domains
<1>5. ThreadOK(t)' /\ SameOK(t)' /\ LastOK(t)'
  BY <1>4, TrapAssumption, SMT DEF ThreadOK, SameOK, LastOK, Handling
<1>6. \A u \in Thread \ {t} : ThreadOK(u)' /\ SameOK(u)' /\ LastOK(u)'
  <2> TAKE u \in Thread \ {t}
  <2>1. pc'[u] = pc[u] /\ at'[u] = at[u] /\ own'[u] = own[u] /\ last'[u] = last[u]
    BY DEF Inv, Domains
  <2>2. (u \in touched' <=> u \in touched) /\ (u \in replaced' <=> u \in replaced)
    OBVIOUS
  <2> QED BY <2>1, <2>2, OthersKept
<1> QED BY <1>1, <1>2, <1>3, <1>5, <1>6, Zenon DEF Inv

\* Where a register form's whole decoding looks for the immediate.
LEMMA RegisterImmediate ==
  ASSUME CodeInv, NEW s \in Site, Meaning(original[s]).src.kind = "xmm", NEW c
  PROVE  LET e == Whole(original, s) IN
         /\ e.op = Clmul => Immediate(e, 0, c) = c[Rexes(original[s]) + 5]
         /\ e.op # Clmul => Immediate(e, 0, c) = 0
         /\ e.op = Clmul => Meaning(original[s]).imm = original[s][Rexes(original[s]) + 5]
         /\ e.op # Clmul => Meaning(original[s]).imm = 0
         /\ e.op = Meaning(original[s]).op
<1> DEFINE e == Whole(original, s)
<1>1. original[s] \in Code /\ IsEmulated(original[s])
  BY DEF CodeInv
<1>2. Rexes(original[s]) \in {0, 1}
  BY <1>1, Prefix
<1>3. /\ ~e.is_mem /\ e.op = Meaning(original[s]).op /\ e.has_rex = Rexes(original[s])
      /\ e.op = Clmul => Meaning(original[s]).imm = original[s][Rexes(original[s]) + 5]
      /\ e.op # Clmul => Meaning(original[s]).imm = 0
  BY <1>1, RegisterDecoding DEF Whole
<1> HIDE DEF e
<1>4. 0 + e.has_rex + 5 = Rexes(original[s]) + 5
  BY <1>2, <1>3, SMT
<1>5. /\ e.op = Clmul => Immediate(e, 0, c) = c[Rexes(original[s]) + 5]
      /\ e.op # Clmul => Immediate(e, 0, c) = 0
  BY <1>3, <1>4 DEF Immediate
<1> QED BY <1>3, <1>5 DEF e

\* A hit serves the whole decoding; the immediate it reads may be a patch's NOP.
LEMMA ServeHitStep ==
  ASSUME Inv, NEW t \in Thread, ServeHit(t)
  PROVE  Inv'
<1> DEFINE r == Service(t, "hit", own[t], 0, Gregs, own[t].address.bytes)
<1>1. ThreadOK(t) /\ pc[t] = "hit" /\ CodeInv
  BY DEF Inv, ServeHit
<1>2. at[t] \in Site /\ (own[t].sound => own[t] = Whole(original, at[t]))
      /\ (code[at[t]] = original[at[t]] \/ (t \in touched /\ code[at[t]][0] = \he8))
  BY <1>1 DEF ThreadOK, Handling
<1>3. Right(original, r)
  <2> SUFFICES ASSUME own[t].sound PROVE Right(original, r)
    BY DEF Right, Service
  <2> DEFINE e == Whole(original, at[t])
  <2>1. own[t] = e
    BY <1>2
  <2>2. ASSUME Meaning(original[at[t]]).src.kind = "xmm"
        PROVE  \/ r.imm = Meaning(original[at[t]]).imm
               \/ r.path = "hit" /\ r.touched /\ r.imm = \h90
    <3>1. r.imm = Immediate(e, 0, code[at[t]]) /\ r.path = "hit" /\ (r.touched <=> t \in touched)
      BY <2>1 DEF Service
    <3>2. CASE e.op # Clmul
      BY <1>1, <1>2, <2>2, <3>1, <3>2, RegisterImmediate
    <3>3. CASE e.op = Clmul
      <4>1. r.imm = code[at[t]][Rexes(original[at[t]]) + 5]
            /\ Meaning(original[at[t]]).imm = original[at[t]][Rexes(original[at[t]]) + 5]
            /\ IsClmulOfRegisters(original, at[t])
        BY <1>1, <1>2, <2>2, <3>1, <3>3, RegisterImmediate DEF IsClmulOfRegisters
      <4>2. CASE code[at[t]] = original[at[t]]
        BY <4>1, <4>2
      <4>3. CASE t \in touched /\ code[at[t]][0] = \he8
        <5>1. code[at[t]][Rexes(original[at[t]]) + 5] = \h90
          BY <1>1, <1>2, <4>1, <4>3 DEF CodeInv
        <5> QED BY <3>1, <4>1, <4>3, <5>1
      <4> QED BY <1>2, <4>2, <4>3
    <3> QED BY <3>2, <3>3
  <2> HIDE DEF e
  <2>3. /\ r.site = at[t] /\ r.op = e.op /\ r.dest = e.reg
        /\ r.src = Source(e, 0, Gregs) /\ r.next = e.address.bytes
    BY <2>1 DEF Service
  <2> HIDE DEF r
  <2>4. Whole(original, r.site) = e /\ r.site \in Site
    BY <1>2, <2>3 DEF e
  <2> QED BY <2>2, <2>3, <2>4 DEF Right
<1>4. /\ Return(t) /\ UNCHANGED <<original, code, entry>> /\ pc[t] \in Handling \cup {"use"}
      /\ last' = [last EXCEPT ![t] = r]
  BY DEF ServeHit, Handling
<1> HIDE DEF r
<1> QED BY <1>3, <1>4, Returned

\* mode 0 or an early failure changes nothing.
LEMMA SkipPatchStep ==
  ASSUME Inv, NEW t \in Thread, SkipPatch(t)
  PROVE  Inv'
<1> USE DEF SkipPatch, Goto
<1>1. Domains'
  BY DEF Inv, Domains
<1>2. CodeInv'
  BY DEF Inv, CodeInv
<1>3. \A sl \in Slots : EntryOK(sl)'
  BY DEF Inv, EntryOK
<1>4. ThreadOK(t) /\ SameOK(t) /\ LastOK(t) /\ pc'[t] = "resume"
  BY DEF Inv, Domains
<1>5. ThreadOK(t)' /\ SameOK(t)' /\ LastOK(t)'
  <2>1. original' = original /\ code' = code /\ entry' = entry /\ at' = at /\ own' = own
        /\ last' = last /\ touched' = touched /\ replaced' = replaced
    OBVIOUS
  <2>2. ThreadOK(t)'
    BY <1>4, <2>1, SMT DEF ThreadOK, Handling
  <2> QED BY <1>4, <2>1, <2>2, SMT DEF SameOK, LastOK
<1>6. \A u \in Thread \ {t} : ThreadOK(u)' /\ SameOK(u)' /\ LastOK(u)'
  <2> TAKE u \in Thread \ {t}
  <2>1. pc'[u] = pc[u] /\ at'[u] = at[u] /\ own'[u] = own[u] /\ last'[u] = last[u]
    BY DEF Inv, Domains
  <2> QED BY <2>1, OthersKept
<1> QED BY <1>1, <1>2, <1>3, <1>5, <1>6, Zenon DEF Inv

\* The decoder moves RIP by the length of its own decoding, or by that of the
\* entry, which is the same while nobody has replaced it.
LEMMA ResumeStep ==
  ASSUME Inv, NEW t \in Thread, Resume(t)
  PROVE  Inv'
<1> DEFINE l == last[t]
           r == [l EXCEPT !.next = Length(t), !.replaced = t \in replaced]
<1>1. ThreadOK(t) /\ SameOK(t) /\ LastOK(t) /\ pc[t] = "resume"
  BY DEF Inv, Resume
<1>2. at[t] \in Site /\ (own[t].sound => own[t] = Whole(original, at[t]))
      /\ Pending(original, at[t], own[t], l)
      /\ (t \notin replaced /\ own[t].sound => entry[SlotOf[at[t]]] = own[t])
  BY <1>1 DEF ThreadOK, SameOK, LastOK, Handling
<1>3. /\ r.site = at[t] /\ r.path = "decode" /\ r.op = own[t].op /\ r.dest = own[t].reg
      /\ r.src = Source(own[t], 0, Gregs) /\ r.imm = l.imm /\ r.next = Length(t)
      /\ r.sound = own[t].sound /\ r.replaced = (t \in replaced)
  <2> HIDE DEF l
  <2> QED BY <1>2 DEF Pending
<1>4. own[t].sound /\ t \notin replaced => Length(t) = own[t].address.bytes
  BY <1>2 DEF Length, Slot
<1>5. Right(original, r)
  <2> HIDE DEF r, l
  <2>1. own[t].sound /\ Meaning(original[at[t]]).src.kind = "xmm"
          => l.imm = Meaning(original[at[t]]).imm
    BY <1>2 DEF Pending
  <2> QED BY <1>2, <1>3, <1>4, <2>1 DEF Right
<1>6. /\ Return(t) /\ UNCHANGED <<original, code, entry>> /\ pc[t] \in Handling \cup {"use"}
      /\ last' = [last EXCEPT ![t] = r]
  BY DEF Resume, Handling
<1> HIDE DEF r
<1> QED BY <1>5, <1>6, Returned

\* What the decoder stores is whole if it read an instruction nobody patched; an
\* entry that others will read again is replaced by an equal one, or they are
\* marked.
LEMMA DecodeStep ==
  ASSUME Inv, NEW t \in Thread, Decode(t)
  PROVE  Inv'
<1> USE DEF Goto
<1> DEFINE s == at[t]
           e == Decoding(s, code[s], own[t], t \notin touched)
           r == Service(t, "decode", e, 0, Gregs, Nothing)
<1>1. ThreadOK(t) /\ pc[t] = "decode" /\ CodeInv
  BY DEF Inv, Decode
<1>2. s \in Site /\ own[t] \in Headers /\ code[s] \in Code
      /\ (t \notin touched => own[t] = Header(original[s]) /\ code[s] = original[s])
  BY <1>1 DEF ThreadOK, Handling, CodeInv
<1>3. e \in Entry /\ e.rip = s /\ e.sound = (t \notin touched)
  BY <1>2, DecodingType
<1>4. t \notin touched => e = Whole(original, s)
  BY <1>2 DEF Whole
<1>5. /\ entry' = [entry EXCEPT ![SlotOf[s]] = e] /\ own' = [own EXCEPT ![t] = e]
      /\ last' = [last EXCEPT ![t] = r] /\ pc' = [pc EXCEPT ![t] = "patch"]
      /\ replaced' = replaced \cup
           {u \in Thread \ {t} : /\ at[u] # Nothing /\ SlotOf[at[u]] = SlotOf[s]
                                 /\ (at[u] # s \/ t \in touched)}
      /\ original' = original /\ code' = code /\ at' = at /\ touched' = touched
  BY DEF Decode, Slot
<1>6. r.imm = Immediate(e, 0, code[s])
  BY DEF Service
<1>7. /\ r.next = Nothing
      /\ r = [site |-> s, path |-> "decode", op |-> e.op, dest |-> e.reg,
              src |-> Source(e, 0, Gregs), imm |-> r.imm, next |-> r.next,
              sound |-> e.sound, touched |-> r.touched, replaced |-> r.replaced]
  BY DEF Service
<1> HIDE DEF e, r
<1>8. Domains'
  <2>1. Domains
    BY DEF Inv
  <2> QED BY <1>5, <2>1 DEF Domains
<1>9. CodeInv'
  BY <1>1, <1>5 DEF CodeInv
<1>10. \A sl \in Slots : EntryOK(sl)'
  <2> TAKE sl \in Slots
  <2>1. EntryOK(sl)
    BY DEF Inv
  <2>2. CASE sl = SlotOf[s]
    <3>1. entry'[sl] = e
      BY <1>5, <2>2 DEF Inv, Domains
    <3> QED BY <1>3, <1>4, <1>5, <2>2, <3>1 DEF EntryOK
  <2>3. CASE sl # SlotOf[s]
    <3>1. entry'[sl] = entry[sl]
      BY <1>5, <2>3 DEF Inv, Domains
    <3> QED BY <1>5, <2>1, <3>1 DEF EntryOK
  <2> QED BY <2>2, <2>3
<1>11. pc'[t] = "patch" /\ own'[t] = e /\ last'[t] = r /\ entry'[SlotOf[s]] = e
  <2>1. SlotOf[s] \in Slots
    BY <1>2, SlotOfSite
  <2> QED BY <1>5, <2>1 DEF Inv, Domains
<1>12. ThreadOK(t)'
  <2>1. e.sound => e = Whole(original, s)
    BY <1>3, <1>4
  <2>2. e \in Entry /\ e.rip = s /\ (~e.sound => t \in touched)
    BY <1>3
  <2>3. t \in touched => code[s][0] = \he8
    BY <1>1, <1>2 DEF ThreadOK
  <2>4. (code[s] = original[s] \/ t \in touched) /\ at[t] \in Site
    BY <1>2
  <2> QED BY <1>5, <1>11, <2>1, <2>2, <2>3, <2>4, SMT DEF ThreadOK, Handling
<1>13. SameOK(t)'
  BY <1>5, <1>11 DEF SameOK
<1>14. LastOK(t)'
  <2>1. Right(original, r)
    BY <1>7 DEF Right
  <2>2. e.sound /\ Meaning(original[s]).src.kind = "xmm" => r.imm = Meaning(original[s]).imm
    BY <1>1, <1>2, <1>3, <1>4, <1>6, RegisterImmediate, ZenonT(60)
  <2>3. Pending(original, s, e, r)
    BY <1>7, <2>2 DEF Pending
  <2> QED BY <1>5, <1>11, <2>1, <2>3 DEF LastOK
<1>15. ASSUME NEW u \in Thread \ {t}
       PROVE  ThreadOK(u)' /\ SameOK(u)' /\ LastOK(u)'
  <2>1. ThreadOK(u) /\ SameOK(u) /\ LastOK(u)
    BY DEF Inv
  <2>2. pc'[u] = pc[u] /\ own'[u] = own[u] /\ last'[u] = last[u]
    BY <1>5 DEF Inv, Domains
  <2>3. ThreadOK(u)'
    BY <1>5, <2>1, <2>2, SMT DEF ThreadOK
  <2>4. LastOK(u)'
    BY <1>5, <2>1, <2>2, SMT DEF LastOK
  <2>5. ASSUME u \notin replaced', pc[u] \in {"patch", "resume", "use"}
        PROVE  \/ entry'[SlotOf[at[u]]] = entry[SlotOf[at[u]]]
               \/ at[u] = s /\ t \notin touched
    <3>1. at[u] \in Site /\ at[u] # Nothing
      BY <2>1, <2>5, TrapAssumption DEF ThreadOK, Handling
    <3>2. CASE SlotOf[at[u]] = SlotOf[s]
      BY <1>5, <2>5, <3>1, <3>2
    <3>3. CASE SlotOf[at[u]] # SlotOf[s]
      <4>1. SlotOf[at[u]] \in Slots
        BY <3>1, SlotOfSite
      <4> QED BY <1>5, <3>3, <4>1 DEF Inv, Domains
    <3> QED BY <3>2, <3>3
  <2>6. u \notin replaced' => u \notin replaced
    BY <1>5
  <2>7. ASSUME u \notin replaced', pc[u] \in {"patch", "resume"}, own[u].sound
        PROVE  entry'[SlotOf[at[u]]] = own[u]
    <3>1. CASE entry'[SlotOf[at[u]]] = entry[SlotOf[at[u]]]
      BY <2>1, <2>6, <2>7, <3>1 DEF SameOK
    <3>2. CASE at[u] = s /\ t \notin touched
      BY <1>4, <1>11, <2>1, <2>7, <3>2 DEF ThreadOK
    <3> QED BY <2>5, <2>7, <3>1, <3>2
  <2>8. ASSUME u \notin replaced', pc[u] = "use"
        PROVE  entry'[SlotOf[at[u]]] = entry[SlotOf[at[u]]]
    <3> SUFFICES ASSUME at[u] = s, t \notin touched PROVE FALSE
      BY <2>5, <2>8
    <3>1. code[s][0] = \he8
      BY <2>1, <2>8 DEF ThreadOK
    <3>2. code[s][0] = \h66
      BY <1>1, <1>2 DEF CodeInv, IsEmulated
    <3> QED BY <3>1, <3>2, SMT
  <2>9. SameOK(u)'
    <3> SUFFICES ASSUME u \notin replaced' PROVE SameOK(u)'
      BY DEF SameOK
    <3> QED BY <1>5, <2>1, <2>2, <2>6, <2>7, <2>8 DEF SameOK
  <2> QED BY <2>3, <2>4, <2>9
<1> QED BY <1>8, <1>9, <1>10, <1>12, <1>13, <1>14, <1>15, Zenon DEF Inv

\* A call marks every thread that is still to read the instruction.
LEMMA PatchStep ==
  ASSUME Inv, NEW t \in Thread, Patch(t)
  PROVE  Inv'
<1> USE DEF Goto
<1> DEFINE s == at[t]
           n == Length(t)
<1> PICK rel \in Rel32 : code' = [code EXCEPT ![s] = Patched(code[s], n, rel)]
  BY DEF Patch
<1> DEFINE c == Patched(code[s], n, rel)
<1>1. ThreadOK(t) /\ SameOK(t) /\ LastOK(t) /\ pc[t] = "patch" /\ CodeInv
  BY DEF Inv, Patch
<1>2. s \in Site /\ code[s] \in Code /\ rel \in [1 .. 4 -> 0 .. 255]
  BY <1>1, TrapAssumption DEF ThreadOK, Handling, CodeInv
<1>3. /\ touched' = touched \cup {u \in Thread \ {t} : at[u] = s}
      /\ pc' = [pc EXCEPT ![t] = "resume"]
      /\ original' = original /\ entry' = entry /\ at' = at /\ own' = own /\ last' = last
      /\ replaced' = replaced
  BY DEF Patch
<1>4. c \in Code /\ c[0] = \he8
  <2>1. ASSUME NEW k \in Window
        PROVE  (IF k = 0 THEN \he8 ELSE IF k <= 4 THEN rel[k]
                ELSE IF k < n THEN \h90 ELSE code[s][k]) \in 0 .. 255
    <3>1. k <= 4 /\ k # 0 => rel[k] \in 0 .. 255
      BY <1>2, SMT DEF Window
    <3>2. code[s][k] \in 0 .. 255
      BY <1>2 DEF Code
    <3> HIDE DEF n
    <3> QED BY <3>1, <3>2, SMT
  <2>2. c \in [Window -> 0 .. 255]
    <3> HIDE DEF n, s
    <3> QED BY <2>1, Zenon DEF Patched
  <2>3. c[0] = \he8
    BY SMT DEF Patched, Window
  <2> QED BY <2>2, <2>3 DEF Code
<1>5. \A k \in {5, 6} : c[k] = IF k < n THEN \h90 ELSE code[s][k]
  BY SMT DEF Patched, Window
<1>6. IsClmulOfRegisters(original, s) => c[Rexes(original[s]) + 5] = \h90
  <2> SUFFICES ASSUME IsClmulOfRegisters(original, s)
               PROVE  c[Rexes(original[s]) + 5] = \h90
    OBVIOUS
  <2>1. original[s] \in Code /\ IsEmulated(original[s])
    BY <1>1, <1>2 DEF CodeInv
  <2>2. Rexes(original[s]) \in {0, 1}
    BY <2>1, Prefix
  <2>3. Rexes(original[s]) + 5 \in {5, 6}
    BY <2>2, SMT
  <2>4. CASE own[t].sound
    <3>1. own[t] = Whole(original, s)
      BY <1>1, <2>4 DEF ThreadOK
    <3>2. /\ ~own[t].is_mem /\ own[t].op = Clmul
          /\ own[t].address.bytes = Rexes(original[s]) + 6
      BY <1>2, <2>1, <3>1, RegisterDecoding, ZenonT(60) DEF Whole, IsClmulOfRegisters
    <3>3. Rexes(original[s]) + 5 < n
      BY <2>2, <3>2, SMT DEF Length
    <3> HIDE DEF n, c
    <3> QED BY <1>5, <2>3, <3>3
  <2>5. CASE ~own[t].sound
    <3>1. code[s][0] = \he8
      BY <1>1, <1>2, <2>5 DEF ThreadOK
    <3>2. code[s][Rexes(original[s]) + 5] = \h90
      BY <1>1, <1>2, <3>1 DEF CodeInv
    <3> HIDE DEF n, c
    <3> QED BY <1>5, <2>3, <3>2
  <2> QED BY <2>4, <2>5
<1> HIDE DEF c, n
<1>7. code'[s] = c /\ \A x \in Site \ {s} : code'[x] = code[x]
  BY <1>1, <1>2 DEF CodeInv, c, n
<1>8. Domains'
  <2>1. Domains
    BY DEF Inv
  <2>2. touched' \subseteq Thread
    BY <1>3, <2>1 DEF Domains
  <2> QED BY <1>3, <2>1, <2>2 DEF Domains
<1>9. CodeInv'
  <2>1. code' \in [Site -> Code]
    BY <1>1, <1>2, <1>4 DEF CodeInv, c, n
  <2>2. ASSUME NEW x \in Site
        PROVE  /\ IsEmulated(original'[x])
               /\ code'[x] = original'[x] \/ code'[x][0] = \he8
               /\ code'[x][0] = \he8 /\ IsClmulOfRegisters(original', x) =>
                    code'[x][Rexes(original'[x]) + 5] = \h90
    <3>1. CASE x = s
      BY <1>1, <1>3, <1>4, <1>6, <1>7, <3>1 DEF CodeInv
    <3>2. CASE x # s
      BY <1>1, <1>3, <1>7, <3>2 DEF CodeInv
    <3> QED BY <3>1, <3>2
  <2>3. original' \in [Site -> Code]
    BY <1>1, <1>3 DEF CodeInv
  <2> QED BY <2>1, <2>2, <2>3 DEF CodeInv
<1>10. \A sl \in Slots : EntryOK(sl)'
  BY <1>3 DEF Inv, EntryOK
<1>11. ASSUME NEW u \in Thread
       PROVE  ThreadOK(u)'
  <2>1. ThreadOK(u)
    BY DEF Inv
  <2>2. pc'[u] = IF u = t THEN "resume" ELSE pc[u]
    BY <1>3 DEF Inv, Domains
  <2>3. CASE at[u] = s
    <3>1. code'[at[u]][0] = \he8 /\ (u # t => u \in touched')
      BY <1>3, <1>4, <1>7, <2>3
    <3>2. s # Nothing
      BY <1>2, TrapAssumption
    <3>3. u = t => (u \in touched' <=> u \in touched)
      BY <1>3
    <3> QED BY <1>1, <1>2, <1>3, <2>1, <2>2, <2>3, <3>1, <3>2, <3>3, SMT DEF ThreadOK, Handling
  <2>4. CASE at[u] # s
    <3>1. u # t /\ (u \in touched' <=> u \in touched)
      BY <1>3, <2>4
    <3>2. at[u] \in Site => code'[at[u]] = code[at[u]]
      BY <1>7, <2>4
    <3> QED BY <1>3, <2>1, <2>2, <3>1, <3>2, SMT DEF ThreadOK, Handling
  <2> QED BY <2>3, <2>4
<1>12. ASSUME NEW u \in Thread
       PROVE  SameOK(u)' /\ LastOK(u)'
  <2>1. SameOK(u) /\ LastOK(u)
    BY DEF Inv
  <2>2. pc'[u] = IF u = t THEN "resume" ELSE pc[u]
    BY <1>3 DEF Inv, Domains
  <2> QED BY <1>1, <1>3, <2>1, <2>2, SMT DEF SameOK, LastOK
<1> QED BY <1>8, <1>9, <1>10, <1>11, <1>12, Zenon DEF Inv

\* The trampoline is entered with an entry of the site.
LEMMA CallStep ==
  ASSUME Inv, NEW t \in Thread, NEW s \in Site, Call(t, s)
  PROVE  Inv'
<1> USE DEF Call, Goto
<1>1. Domains'
  BY DEF Inv, Domains
<1>2. CodeInv'
  BY DEF Inv, CodeInv
<1>3. \A sl \in Slots : EntryOK(sl)'
  BY DEF Inv, EntryOK
<1>4. ThreadOK(t) /\ LastOK(t) /\ last'[t] = last[t] /\ t \notin touched
  BY DEF Inv, ThreadOK
<1>5. ThreadOK(t)' /\ SameOK(t)' /\ LastOK(t)'
  <2> DEFINE e == entry[SlotOf[s]]
  <2>1. CASE e # Nothing /\ e.rip = s /\ e.address.bytes = 5
    <3>1. pc'[t] = "use" /\ at'[t] = s
      BY <2>1 DEF Inv, Domains
    <3> QED BY <1>4, <2>1, <3>1, SMT DEF ThreadOK, SameOK, LastOK, Handling
  <2>2. CASE ~(e # Nothing /\ e.rip = s /\ e.address.bytes = 5)
    <3>1. pc'[t] = "exit" /\ at'[t] = at[t]
      BY <2>2 DEF Inv, Domains
    <3> QED BY <1>4, <3>1, SMT DEF ThreadOK, SameOK, LastOK, Handling
  <2> QED BY <2>1, <2>2
<1>6. \A u \in Thread \ {t} : ThreadOK(u)' /\ SameOK(u)' /\ LastOK(u)'
  <2> TAKE u \in Thread \ {t}
  <2>1. pc'[u] = pc[u] /\ at'[u] = at[u] /\ own'[u] = own[u] /\ last'[u] = last[u]
    BY DEF Inv, Domains
  <2>2. UNCHANGED <<original, code, entry>> /\ touched' = touched /\ replaced' = replaced
    OBVIOUS
  <2> QED BY <2>1, <2>2, OthersKept
<1> HIDE DEF Call, Goto
<1> QED BY <1>1, <1>2, <1>3, <1>5, <1>6, Zenon DEF Inv

\* It serves that entry if nobody has replaced it since; a PCLMULQDQ of
\* registers is too long to get here.
LEMMA UseStep ==
  ASSUME Inv, NEW t \in Thread, Use(t)
  PROVE  Inv'
<1> DEFINE s == at[t]
           e == entry[SlotOf[s]]
           r == Service(t, "trampoline", e, 5 - e.address.bytes, GpRegs, 5)
<1>1. ThreadOK(t) /\ SameOK(t) /\ pc[t] = "use" /\ CodeInv
  BY DEF Inv, Use
<1>2. s \in Site
  BY <1>1 DEF ThreadOK
<1>3. EntryOK(SlotOf[s])
  BY <1>2, SlotOfSite DEF Inv
<1>4. /\ r.site = s /\ r.path = "trampoline" /\ r.op = e.op /\ r.dest = e.reg
      /\ r.src = Source(e, 5 - e.address.bytes, GpRegs) /\ r.next = 5
      /\ r.imm = Immediate(e, 5 - e.address.bytes, code[s])
      /\ r.sound = e.sound /\ r.replaced = (t \in replaced)
  BY DEF Service
<1>5. Right(original, r)
  <2> HIDE DEF r
  <2> SUFFICES ASSUME e.sound, t \notin replaced PROVE Right(original, r)
    BY <1>4 DEF Right
  <2>1. e # Nothing /\ e.rip = s /\ e.address.bytes = 5
    BY <1>1 DEF SameOK
  <2>2. e \in Entry /\ e = Whole(original, s)
    BY <1>3, <2>1 DEF EntryOK
  <2> HIDE DEF e
  <2>3. 5 - e.address.bytes = 0
    BY <2>1, SMT
  <2>4. r.src = Source(e, 0, Gregs)
    BY <1>4, <2>2, <2>3, SourcesAgree
  <2>5. ASSUME Meaning(original[s]).src.kind = "xmm"
        PROVE  r.imm = Meaning(original[s]).imm
    <3>1. original[s] \in Code /\ IsEmulated(original[s])
      BY <1>1, <1>2 DEF CodeInv
    <3>2. Rexes(original[s]) \in {0, 1}
      BY <3>1, Prefix
    <3>3. e.op = Clmul => e.address.bytes = Rexes(original[s]) + 6
      BY <1>2, <2>2, <2>5, <3>1, RegisterDecoding, ZenonT(60) DEF Whole
    <3>4. e.op # Clmul
      BY <2>1, <3>2, <3>3, SMT
    <3> QED BY <1>1, <1>2, <1>4, <2>2, <2>3, <2>5, <3>4, RegisterImmediate
  <2>6. Whole(original, r.site) = e /\ r.site = s
    BY <1>4, <2>2
  <2> HIDE DEF s
  <2> QED BY <1>2, <1>4, <2>1, <2>4, <2>5, <2>6 DEF Right
<1>6. /\ Return(t) /\ UNCHANGED <<original, code, entry>> /\ pc[t] \in Handling \cup {"use"}
      /\ last' = [last EXCEPT ![t] = r]
  BY DEF Use, Slot
<1> HIDE DEF r
<1> QED BY <1>5, <1>6, Returned

-----------------------------------------------------------------------------
(* The theorems *)

LEMMA NextInv == Inv /\ [Next]_vars => Inv'
<1> SUFFICES ASSUME Inv, [Next]_vars PROVE Inv'
  OBVIOUS
<1>1. CASE \E t \in Thread : Handle(t) \/ Use(t) \/ \E s \in Site : Trap(t, s) \/ Call(t, s)
  <2> PICK t \in Thread : Handle(t) \/ Use(t) \/ \E s \in Site : Trap(t, s) \/ Call(t, s)
    BY <1>1
  <2>1. CASE LookUp(t) BY <2>1, LookUpStep
  <2>2. CASE ServeHit(t) BY <2>2, ServeHitStep
  <2>3. CASE Test(t) BY <2>3, TestStep
  <2>4. CASE Decode(t) BY <2>4, DecodeStep
  <2>5. CASE Patch(t) BY <2>5, PatchStep
  <2>6. CASE SkipPatch(t) BY <2>6, SkipPatchStep
  <2>7. CASE Resume(t) BY <2>7, ResumeStep
  <2>8. CASE Use(t) BY <2>8, UseStep
  <2>9. CASE \E s \in Site : Trap(t, s) BY <2>9, TrapStep
  <2>10. CASE \E s \in Site : Call(t, s) BY <2>10, CallStep
  <2> QED BY <2>1, <2>2, <2>3, <2>4, <2>5, <2>6, <2>7, <2>8, <2>9, <2>10 DEF Handle
<1>2. CASE UNCHANGED vars
  <2>1. /\ original' = original /\ code' = code /\ entry' = entry /\ pc' = pc /\ at' = at
        /\ own' = own /\ last' = last /\ touched' = touched /\ replaced' = replaced
    BY <1>2 DEF vars
  <2>2. Domains'
    BY <2>1 DEF Inv, Domains
  <2>3. CodeInv'
    BY <2>1 DEF Inv, CodeInv
  <2>4. \A sl \in Slots : EntryOK(sl)'
    BY <2>1 DEF Inv, EntryOK
  <2>5. ASSUME NEW u \in Thread PROVE ThreadOK(u)' /\ SameOK(u)' /\ LastOK(u)'
    <3>1. ThreadOK(u) /\ SameOK(u) /\ LastOK(u)
      BY DEF Inv
    <3>2. ThreadOK(u)'
      BY <2>1, <3>1, SMT DEF ThreadOK
    <3>3. SameOK(u)' /\ LastOK(u)'
      BY <2>1, <3>1, SMT DEF SameOK, LastOK
    <3> QED BY <3>2, <3>3
  <2> QED BY <2>2, <2>3, <2>4, <2>5, Zenon DEF Inv
<1> QED BY <1>1, <1>2 DEF Next, Ended

LEMMA Invariance == Spec => []Inv
<1>1. Inv /\ [Next]_vars => Inv'
  BY NextInv
<1> QED BY InitInv, <1>1, PTL DEF Spec

\* No byte of code and no register of an entry leaves its range, whatever bytes a
\* decoder meets while others patch its site.
THEOREM TypeCorrect == Spec => []TypeOK
<1>1. Inv => TypeOK
  <2> SUFFICES ASSUME Inv PROVE TypeOK
    OBVIOUS
  <2>1. original \in [Site -> Code] /\ code \in [Site -> Code]
    BY DEF Inv, CodeInv
  <2>2. entry \in [Slots -> Entry \cup {Nothing}]
    BY DEF Inv, Domains, EntryOK
  <2>3. pc \in [Thread -> {"idle", "run", "look", "hit", "test", "decode", "patch",
                           "resume", "use", "exit"}]
    BY DEF Inv, Domains, ThreadOK
  <2>4. at \in [Thread -> Site \cup {Nothing}]
    BY DEF Inv, Domains, ThreadOK
  <2>5. touched \subseteq Thread /\ replaced \subseteq Thread
    BY DEF Inv, Domains
  <2> QED BY <2>1, <2>2, <2>3, <2>4, <2>5 DEF TypeOK
<1> QED BY <1>1, Invariance, PTL

\* Every instruction between registers is executed as the instruction set defines
\* it, by the decoder, the cache and the trampoline, for every code, every number
\* of threads and sites and every way in which sites share entries.
THEOREM RegisterForms == Spec => []RegisterFormIsArchitected
<1>1. Inv => RegisterFormIsArchitected
  <2> SUFFICES ASSUME Inv, NEW t \in Thread, Served(t), RegisterForm(t), Undisturbed(t)
               PROVE  /\ Operation(last[t]) = Operation(Want(t))
                      /\ \/ last[t].imm = Want(t).imm
                         \/ last[t].path = "hit" /\ last[t].touched /\ last[t].imm = \h90
    BY DEF RegisterFormIsArchitected
  <2> DEFINE r == last[t]
             s == r.site
             e == Whole(original, s)
  <2>1. Right(original, r) /\ CodeInv
    BY DEF Inv, LastOK
  <2>2. r # Nothing /\ r.next # Nothing /\ r.sound /\ (r.path # "hit" => ~r.replaced)
    BY DEF Served, Undisturbed
  <2>3. Meaning(original[s]).src.kind = "xmm"
    BY DEF RegisterForm, Want
  <2>4. /\ s \in Site
        /\ r.op = e.op /\ r.dest = e.reg /\ r.src = Source(e, 0, Gregs)
        /\ r.next = e.address.bytes
        /\ \/ r.imm = Meaning(original[s]).imm
           \/ r.path = "hit" /\ r.touched /\ r.imm = \h90
    BY <2>1, <2>2, <2>3 DEF Right
  <2>5. original[s] \in Code /\ IsEmulated(original[s])
    BY <2>1, <2>4 DEF CodeInv
  <2>6. /\ ~e.is_mem /\ e.op = Meaning(original[s]).op /\ e.reg = Meaning(original[s]).dest
        /\ Register(e.rm) = Meaning(original[s]).src
        /\ e.address.bytes = Meaning(original[s]).next
    BY <2>3, <2>4, <2>5, RegisterDecoding DEF Whole
  <2>7. Source(e, 0, Gregs) = Meaning(original[s]).src
    BY <2>6 DEF Source
  <2> HIDE DEF e
  <2>8. Operation(r) = Operation(Meaning(original[s]))
    BY <2>4, <2>6, <2>7 DEF Operation
  <2> QED BY <2>4, <2>8 DEF Want
<1> QED BY <1>1, Invariance, PTL

\* The cache and the trampoline find a memory operand where the decoder did, for
\* every addressing form, although the trampoline counts the registers its own way.
THEOREM MemoryForms == Spec => []PathsAgreeOnMemory
<1>1. Inv => PathsAgreeOnMemory
  <2> SUFFICES ASSUME Inv, NEW t \in Thread, Served(t), Undisturbed(t)
               PROVE  LET c == original[last[t].site]
                          e == Decoding(last[t].site, c, Header(c), TRUE)
                      IN Operation(last[t])
                           = <<e.op, e.reg, Source(e, 0, Gregs), e.address.bytes>>
    BY DEF PathsAgreeOnMemory
  <2>1. Right(original, last[t])
    BY DEF Inv, LastOK
  <2>2. /\ last[t] # Nothing /\ last[t].next # Nothing /\ last[t].sound
        /\ (last[t].path # "hit" => ~last[t].replaced)
    BY DEF Served, Undisturbed
  <2> QED BY <2>1, <2>2 DEF Right, Operation, Whole
<1> QED BY <1>1, Invariance, PTL

\* The repair that the comment of parse_mem_operand proposes is enough, for every
\* instruction but those with R12 as their index.
THEOREM RepairSuffices == Spec => []RepairSufficesButForR12
<1>1. Inv => RepairSufficesButForR12
  BY RepairedDecoding DEF Inv, CodeInv, RepairSufficesButForR12
<1> QED BY <1>1, Invariance, PTL
=============================================================================
