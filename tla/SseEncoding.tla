---------------------------- MODULE SseEncoding ----------------------------
(***************************************************************************)
(* What the bytes of an AES or PCLMULQDQ instruction mean, by the          *)
(* instruction set's reference: the yardstick for the decoder of SseTrap.  *)
(* Code is a function from 0 to the bytes from the instruction's first on. *)
(***************************************************************************)
EXTENDS Integers

Window == 0 .. 14    \* no instruction is longer
Code == [Window -> 0 .. 255]

\* the bits of x from the one of value unit up, n values of them
Field(x, unit, n) == (x \div unit) % n

Disp8(c, p) == IF c[p] >= 128 THEN c[p] - 256 ELSE c[p]
Disp32(c, p) == c[p] + 256 * c[p + 1] + 65536 * c[p + 2] + 16777216 * Disp8(c, p + 3)

None == 255

AesOps == {\hdb, \hdc, \hdd, \hde, \hdf}
Clmul == \h44

Register(n) == [kind |-> "xmm", n |-> n]
Memory(base, index, scale, disp) ==
    [kind |-> "mem", base |-> base, index |-> index, scale |-> scale, disp |-> disp]
FromRip(disp) == [kind |-> "rip", disp |-> disp]

-----------------------------------------------------------------------------
Rexes(c) == IF c[1] \in \h40 .. \h4f THEN 1 ELSE 0
\* B, X and R of REX are its bits 1, 2 and 4.
Extends(c, bit) == IF Rexes(c) = 1 THEN 8 * Field(c[1], bit, 2) ELSE 0

\* 66 [REX] 0F 38 DB..DF /r, or 66 [REX] 0F 3A 44 /r ib
IsEmulated(c) ==
    /\ c[0] = \h66 /\ c[Rexes(c) + 1] = \h0f
    /\ \/ c[Rexes(c) + 2] = \h38 /\ c[Rexes(c) + 3] \in AesOps
       \/ c[Rexes(c) + 2] = \h3a /\ c[Rexes(c) + 3] = Clmul

Meaning(c) ==
  LET modrm == Rexes(c) + 4
      mod == Field(c[modrm], 64, 4)
      rm == Field(c[modrm], 1, 8)
      sibs == IF mod # 3 /\ rm = 4 THEN 1 ELSE 0
      sib == c[modrm + 1]
      lone == mod = 0 /\ (rm = 5 \/ (sibs = 1 /\ Field(sib, 1, 8) = 5)) \* no base
      size == CASE mod = 1 -> 1 [] mod = 2 \/ lone -> 4 [] OTHER -> 0
      disp == CASE size = 0 -> 0
                [] size = 1 -> Disp8(c, modrm + 1 + sibs)
                [] size = 4 -> Disp32(c, modrm + 1 + sibs)
      clmul == c[Rexes(c) + 3] = Clmul
      length == modrm + 1 + sibs + size + (IF clmul THEN 1 ELSE 0)
      index == Field(sib, 8, 8) + Extends(c, 2)
      indexed == sibs = 1 /\ index # 4
  IN [op |-> c[Rexes(c) + 3],
      dest |-> Field(c[modrm], 8, 8) + Extends(c, 4),
      src |-> CASE mod = 3 -> Register(rm + Extends(c, 1))
                [] mod = 0 /\ rm = 5 -> FromRip(length + disp)
                [] OTHER ->
                     Memory(IF lone THEN None
                            ELSE (IF sibs = 1 THEN Field(sib, 1, 8) ELSE rm) + Extends(c, 1),
                            IF indexed THEN index ELSE None,
                            IF indexed THEN Field(sib, 64, 4) ELSE 0, disp),
      imm |-> IF clmul THEN c[length - 1] ELSE 0,
      next |-> length]
=============================================================================
