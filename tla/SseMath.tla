------------------------------ MODULE SseMath ------------------------------
(***************************************************************************)
(* What the instructions compute: emulate_aesdec, emulate_aesdeclast,      *)
(* emulate_aesimc, emulate_aesenc, emulate_aesenclast and                  *)
(* emulate_pclmulqdq of src/src/sigill_emulator.c, one step or one         *)
(* iteration of their loops at a time, over programs that use one          *)
(* instruction's result in the next.                                       *)
(*                                                                         *)
(* A register is the set of its 1 bits, bit 0 the lowest bit of byte 0.    *)
(***************************************************************************)
EXTENDS Fips197

CONSTANTS
  W,        \* bits of a half of a register: 64
  Reg,      \* the registers of the programs
  Program,  \* the programs
  Data,     \* the register that some of them encrypt and decrypt,
  Schedules, \* with the round keys in these registers
  Start,    \* initial contents of the registers
  NoInst

Operation == {"aesdec", "aesdeclast", "aesimc", "aesenc", "aesenclast", "pclmulqdq", "pxor"}
Instruction == [op : Operation, d : Reg, s : Reg, imm : 0 .. 255]
Bit == 0 .. 2 * W - 1

ASSUME MathAssumption ==
  /\ W \in Nat \ {0, 1}
  /\ Program \subseteq Seq(Instruction)
  /\ Start \subseteq [Reg -> SUBSET Bit]
  /\ NoInst \notin Instruction

\* A host that encrypts Data and decrypts it again: the first key, a round with each
\* of the others, the last one without columns; then back through the equivalent
\* inverse cipher, for which AESIMC transforms the keys between first and last.
RoundTrip(key) ==
  LET n == Len(key)
      With(op, d, j) == [op |-> op, d |-> d, s |-> key[j], imm |-> 0]
  IN [j \in 1 .. 3 * n - 2 |->
        CASE j = 1 -> With("pxor", Data, 1)
          [] j \in 2 .. n - 1 -> With("aesenc", Data, j)
          [] j = n -> With("aesenclast", Data, n)
          [] j = n + 1 -> With("pxor", Data, n)
          [] j \in n + 2 .. 2 * n - 1 -> With("aesimc", key[j - n], j - n)
          [] j \in 2 * n .. 3 * n - 3 -> With("aesdec", Data, 3 * n - 1 - j)
          [] j = 3 * n - 2 -> With("aesdeclast", Data, 1)]
Undoing == {RoundTrip(key) : key \in Schedules}

ASSUME ScheduleAssumption ==
  /\ Data \in Reg /\ Undoing \subseteq Program
  /\ \A key \in Schedules :
       /\ key \in Seq(Reg \ {Data}) /\ Len(key) > 1
       /\ \A j, k \in 1 .. Len(key) : key[j] = key[k] => j = k

VARIABLES
  xmm,     \* the registers
  prog,    \* the instructions still to come, the one under way first
  stage,   \* the next statement of the emulator that runs
  tmp,     \* its copy of the operand
  a, b, low, high, temp_b, i,  \* the locals of emulate_pclmulqdq
  whole,   \* history: the program
  first,   \* history: the registers it started with
  before,  \* history: the registers the last instruction found
  last     \* history: the last instruction that was fetched

mulVars == <<a, b, low, high, temp_b, i>>
history == <<whole, first, before, last>>
vars == <<xmm, prog, stage, tmp, mulVars, history>>

Stage == {"fetch", "shift_rows", "sub_bytes", "mix_columns", "inv_shift_rows",
          "inv_sub_bytes", "inv_mix_columns", "add_key", "copy", "multiply"}

Zeros == [n \in Index |-> {}]

-----------------------------------------------------------------------------
(* Memory: bytes and halves of a register *)

Bytes(r) == [n \in Index |-> {k \in 0 .. 7 : 8 * n + k \in r}]
Packed(s) == {k \in Bit : k % 8 \in s[k \div 8]}

LowHalf(r) == {k \in 0 .. W - 1 : k \in r}
HighHalf(r) == {k \in 0 .. W - 1 : k + W \in r}
Joined(l, h) == l \cup {k + W : k \in h}

\* Shifts of a uint64_t.  The processor takes the count modulo the width: C
\* leaves a count of W undefined.
Shl(x, n) == {k \in 0 .. W - 1 : k - (n % W) \in x}
Shr(x, n) == {k \in 0 .. W - 1 : k + (n % W) \in x}

\* imm & mask, for a mask of one bit
Set(imm, mask) == (imm \div mask) % 2 = 1

-----------------------------------------------------------------------------
(* The emulators *)

Init ==
  /\ xmm \in Start /\ prog \in Program
  /\ stage = "fetch" /\ tmp = Zeros
  /\ a = {} /\ b = {} /\ low = {} /\ high = {} /\ temp_b = {} /\ i = 0
  /\ whole = prog /\ first = xmm /\ before = xmm /\ last = NoInst

Current == Head(prog)

\* The call of an emulator from handler or trampoline_c_helper.
Fetch(op, next) ==
  /\ stage = "fetch" /\ prog # <<>> /\ Current.op = op
  /\ stage' = next
  /\ before' = xmm /\ last' = Current
  /\ UNCHANGED <<xmm, prog, whole, first>>

\* memcpy(tmp, dest, 16)
CopyDest(op, next) ==
  /\ Fetch(op, next)
  /\ tmp' = Bytes(xmm[Current.d])
  /\ UNCHANGED mulVars

\* emulate_aesimc: memcpy(tmp, src, 16)
CopySrc ==
  /\ Fetch("aesimc", "inv_mix_columns")
  /\ tmp' = Bytes(xmm[Current.s])
  /\ UNCHANGED mulVars

On(op, next, other) == IF Current.op = op THEN next ELSE other

Transform(now, s, next) ==
  /\ stage = now /\ stage' = next
  /\ tmp' = s
  /\ UNCHANGED <<xmm, prog, mulVars, history>>

ShiftRows == Transform("shift_rows", shift_rows(tmp), "sub_bytes")
SubBytes == Transform("sub_bytes", sub_bytes(tmp), On("aesenc", "mix_columns", "add_key"))
MixColumns == Transform("mix_columns", mix_columns(tmp), "add_key")
InvShiftRows == Transform("inv_shift_rows", inv_shift_rows(tmp), "inv_sub_bytes")
InvSubBytes ==
  Transform("inv_sub_bytes", inv_sub_bytes(tmp), On("aesdec", "inv_mix_columns", "add_key"))
InvMixColumns ==
  Transform("inv_mix_columns", inv_mix_columns(tmp), On("aesimc", "copy", "add_key"))

Finish(value) ==
  /\ xmm' = [xmm EXCEPT ![Current.d] = value]
  /\ prog' = Tail(prog)
  /\ stage' = "fetch"
  /\ UNCHANGED <<tmp, mulVars, history>>

\* dest[i] = tmp[i] ^ key[i]
AddKey ==
  /\ stage = "add_key"
  /\ Finish(Packed([n \in Index |-> Xor(tmp[n], Bytes(xmm[Current.s])[n])]))

CopyBack ==
  /\ stage = "copy"
  /\ Finish(Packed(tmp))

\* The immediate selects the halves.
SelectHalves ==
  /\ Fetch("pclmulqdq", "multiply")
  /\ a' = IF Set(Current.imm, 1) THEN HighHalf(xmm[Current.d]) ELSE LowHalf(xmm[Current.d])
  /\ b' = IF Set(Current.imm, 16) THEN HighHalf(xmm[Current.s]) ELSE LowHalf(xmm[Current.s])
  /\ low' = {} /\ high' = {}
  /\ temp_b' = b' /\ i' = 0
  /\ UNCHANGED tmp

\* Fault: the first iteration is not kept from shifting by the width.
CarriedAlways == Xor(high, Shr(a, W - i))

\* What the iteration adds to high: nothing in the first one.
Carried == IF i = 0 THEN high ELSE Xor(high, Shr(a, W - i))

\* Fault: the loop counts but does not shift temp_b.
RestUnshifted == temp_b \ {0}

\* temp_b >>= 1
Rest == Shr(temp_b, 1)

Iterate ==
  /\ stage = "multiply" /\ temp_b # {}
  /\ low' = IF 0 \in temp_b THEN Xor(low, Shl(a, i)) ELSE low
  /\ high' = IF 0 \in temp_b THEN Carried ELSE high
  /\ temp_b' = Rest
  /\ i' = i + 1
  /\ UNCHANGED <<xmm, prog, stage, tmp, a, b, history>>

StoreProduct ==
  /\ stage = "multiply" /\ temp_b = {}
  /\ Finish(Joined(low, high))

\* External: the host's own pxor, which the processor runs.
HostXor ==
  /\ stage = "fetch" /\ prog # <<>> /\ Current.op = "pxor"
  /\ xmm' = [xmm EXCEPT ![Current.d] = Xor(xmm[Current.d], xmm[Current.s])]
  /\ prog' = Tail(prog)
  /\ before' = xmm /\ last' = Current
  /\ UNCHANGED <<stage, tmp, mulVars, whole, first>>

Call ==
  \/ CopyDest("aesenc", "shift_rows") \/ CopyDest("aesenclast", "shift_rows")
  \/ CopyDest("aesdec", "inv_shift_rows") \/ CopyDest("aesdeclast", "inv_shift_rows")
  \/ CopySrc \/ SelectHalves \/ HostXor

Next ==
  \/ Call
  \/ ShiftRows \/ SubBytes \/ MixColumns
  \/ InvShiftRows \/ InvSubBytes \/ InvMixColumns
  \/ AddKey \/ CopyBack
  \/ Iterate \/ StoreProduct

Spec == Init /\ [][Next]_vars

-----------------------------------------------------------------------------
\* The definition of PCLMULQDQ: a half of each operand, and their product as
\* polynomials over GF(2).
Selected(r, n) == {k \in 0 .. W - 1 : k + n * W \in r}
Product(x, y) == {k \in Bit : Odd({j \in y : k - j \in x})}

-----------------------------------------------------------------------------
(* Properties *)

\* The last instruction that was fetched has been finished.
Finished == stage = "fetch" /\ last # NoInst

\* Types.  The loop of emulate_pclmulqdq ends by the width: its shift counts
\* stay below W.
TypeOK ==
  /\ xmm \in [Reg -> SUBSET Bit]
  /\ prog \in Seq(Instruction)
  /\ stage \in Stage /\ (stage # "fetch" => prog # <<>> /\ last = Current)
  /\ tmp \in State
  /\ a \subseteq 0 .. W - 1 /\ b \subseteq 0 .. W - 1
  /\ low \subseteq 0 .. W - 1 /\ high \subseteq 0 .. W - 1
  /\ temp_b \subseteq 0 .. W - 1 /\ i \in 0 .. W
  /\ before \in [Reg -> SUBSET Bit] /\ last \in Instruction \cup {NoInst}

\* Whatever registers an AES instruction names, the same one twice included,
\* it leaves what FIPS 197 and the instruction set define in its destination
\* and the other registers alone: the in-place row shifts, the factored
\* column products, the two tables and the order of the steps.
AesResultIsDefined ==
  Finished /\ last.op \notin {"pclmulqdq", "pxor"} =>
    xmm = [before EXCEPT ![last.d] =
             Packed(AesResult(last.op, Bytes(before[last.d]), Bytes(before[last.s])))]

\* PCLMULQDQ leaves the carry-less product of the two halves its immediate
\* selects: the early exit drops no term and the split into low and high no
\* bit.
ClmulIsTheProduct ==
  Finished /\ last.op = "pclmulqdq" =>
    xmm = [before EXCEPT ![last.d] = Product(Selected(before[last.d], last.imm % 2),
                                             Selected(before[last.s], (last.imm \div 16) % 2))]

\* A block that is encrypted and then decrypted the way hosts do it, with
\* round keys that went through AESIMC, comes back.
DecryptionUndoesEncryption ==
  stage = "fetch" /\ prog = <<>> /\ whole \in Undoing => xmm[Data] = first[Data]
=============================================================================
