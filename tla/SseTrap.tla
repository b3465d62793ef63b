------------------------------ MODULE SseTrap ------------------------------
(***************************************************************************)
(* How an AES or PCLMULQDQ instruction is recognised and its operands      *)
(* found, in src/src/sigill_emulator.c: by the decoder of handler(), from  *)
(* the entry of rip_cache it left, and from that entry by                  *)
(* trampoline_c_helper once patch_code has replaced the instruction.       *)
(*                                                                         *)
(* An entry is read and stored at once (RipCache takes that apart) but by  *)
(* the trampoline, and patch_code is one step (CodePatch takes it apart).  *)
(***************************************************************************)
EXTENDS SseEncoding

CONSTANTS
  Thread,
  Site,    \* where AES and PCLMULQDQ instructions are
  SlotOf,  \* get_cache_index
  Start,   \* the code of the sites, and the threads that run
  Rel32,   \* call offsets, as the four bytes of a call
  Nothing

ASSUME TrapAssumption ==
  /\ \A x \in Start : /\ x.code \in [Site -> Code] /\ x.threads \subseteq Thread
                      /\ \A s \in Site : IsEmulated(x.code[s])
  /\ \A r \in Rel32 : r \in [1 .. 4 -> 0 .. 255]
  /\ Nothing \notin Site

VARIABLES
  original, \* the bytes of each site when the host was loaded
  code,     \* the bytes there now
  entry,    \* rip_cache: Nothing, or the decoding in an entry
  pc, at,   \* what each thread does and the site it runs
  own,      \* the decoding a thread has in its local variables
  last,     \* history: how each thread was last served
  touched,  \* history: threads whose site was patched since they trapped or called
  replaced  \* history: threads whose entry was stored with another decoding since

vars == <<original, code, entry, pc, at, own, last, touched, replaced>>

Slots == {SlotOf[s] : s \in Site}
Slot(t) == SlotOf[at[t]]
Alive == \A t \in Thread : pc[t] # "exit"

-----------------------------------------------------------------------------
(* The decoder *)

\* has_rex, rex, op_type: what handler() tests before it reads ModRM.
Header(c) == [has_rex |-> Rexes(c), rex |-> IF Rexes(c) = 1 THEN c[1] ELSE 0,
              op |-> c[Rexes(c) + 3]]

\* Fault: the bit is added one place too high.
RexBitShifted(h, mask) == 16 * Field(h.rex, mask, 2)

RexBit(h, mask) == 8 * Field(h.rex, mask, 2)

\* The fields of an entry that resolve_mem_addr_fast uses.
Address(rip_relative, base, index, scale, disp, length) ==
    [rip |-> rip_relative, base |-> base, index |-> index, scale |-> scale,
     disp |-> disp, bytes |-> length]
NoAddress(length) == Address(FALSE, None, None, 0, 0, length)

\* Fault: a SIB byte without base has no displacement.
SibDispNone(c, p, mod) == 0

\* The disp32 of a SIB byte at p - 1 that names no base.
SibDisp(c, p, mod) == IF Field(c[p - 1], 1, 8) = 5 /\ mod = 0 THEN 4 ELSE 0

\* parse_mem_operand, with ptr = rip + first.
ParseMem(c, h, modrm, first) ==
  LET mod == Field(modrm, 64, 4)
      rm == Field(modrm, 1, 8)
      imm == IF c[h.has_rex + 2] = \h3a THEN 1 ELSE 0
      sibs == IF rm = 4 THEN 1 ELSE 0
      sib == c[first]
      bare == SibDisp(c, first + 1, mod)
      tail == CASE mod = 1 -> 1 [] mod = 2 -> 4 [] OTHER -> 0
      size == IF sibs = 1 THEN bare + tail ELSE tail
      disp == CASE size = 0 -> 0
                [] size = 1 -> Disp8(c, first + sibs)
                [] size = 4 -> Disp32(c, first + sibs)
      indexed == sibs = 1 /\ Field(sib, 8, 8) # 4
  IN IF mod = 0 /\ rm = 5
       THEN Address(TRUE, None, None, 0, Disp32(c, first), first + 4 + imm)
       ELSE Address(FALSE,
                    IF sibs = 0 THEN rm + RexBit(h, 1)
                    ELSE IF bare = 4 THEN None ELSE Field(sib, 1, 8) + RexBit(h, 1),
                    IF indexed THEN Field(sib, 8, 8) + RexBit(h, 2) ELSE None,
                    IF indexed THEN Field(sib, 64, 4) ELSE 0,
                    disp, first + sibs + size + imm)

IsMem(c, h) == Field(c[h.has_rex + 4], 64, 4) # 3

\* rip + 1 + has_rex + 3: the ModRM byte, which is not the first after it.
FirstByte(h) == h.has_rex + 4

\* What handler() puts into an entry after the header h of the bytes c.  History:
\* both were read while the instruction stood.
Decoding(s, c, h, sound) ==
  LET modrm == c[h.has_rex + 4]
      mem == IsMem(c, h)
  IN [rip |-> s, op |-> h.op, has_rex |-> h.has_rex,
      reg |-> Field(modrm, 8, 8) + RexBit(h, 4),
      rm |-> IF mem THEN 0 ELSE Field(modrm, 1, 8) + RexBit(h, 1),
      is_mem |-> mem,
      address |-> IF mem THEN ParseMem(c, h, modrm, FirstByte(h))
                  ELSE NoAddress(h.has_rex + (IF h.op = Clmul THEN 6 ELSE 5)),
      sound |-> sound]

-----------------------------------------------------------------------------
(* The operands of an entry *)

\* get_register_val: the ISA number is what reg_map takes.
Gregs(n) == n

\* The registers in the order trampoline_entry pushes them, by ISA number.
Pushed == <<0, 1, 2, 3, 6, 7, 5, 8, 9, 10, 11, 12, 13, 14, 15>>

\* Fault: rsi and rdi, as if they were numbered as they are pushed.
PushedSlotSwapped(n) ==
    <<14, 13, 12, 11, -1, 8, 9, 10, 7, 6, 5, 4, 3, 2, 1, 0>>[n + 1]

\* gp_map
PushedSlot(n) == <<14, 13, 12, 11, -1, 8, 10, 9, 7, 6, 5, 4, 3, 2, 1, 0>>[n + 1]

\* get_register_val_trampoline: gp_regs[0] was pushed last.
GpRegs(n) == IF n = 4 THEN 4 ELSE Pushed[15 - PushedSlot(n)]

\* resolve_mem_addr_fast and its trampoline form; rip is where the caller
\* takes the instruction to start, relative to its site.
Resolve(a, rip, Value(_)) ==
    IF a.rip THEN FromRip(rip + a.bytes + a.disp)
    ELSE Memory(IF a.base = None THEN None ELSE Value(a.base),
                IF a.index = None THEN None ELSE Value(a.index), a.scale, a.disp)

Source(e, rip, Value(_)) ==
    IF e.is_mem THEN Resolve(e.address, rip, Value) ELSE Register(e.rm)

\* Fault: the immediate is taken where it is without REX.
ImmediateWithoutRex(e, rip, c) ==
    CASE e.op # Clmul -> 0
      [] e.op = Clmul /\ e.is_mem -> c[rip + e.address.bytes - 1]
      [] e.op = Clmul /\ ~e.is_mem -> c[rip + 5]

\* The immediate, which only PCLMULQDQ has, from the bytes as they are now.
Immediate(e, rip, c) ==
    CASE e.op # Clmul -> 0
      [] e.op = Clmul /\ e.is_mem -> c[rip + e.address.bytes - 1]
      [] e.op = Clmul /\ ~e.is_mem -> c[rip + e.has_rex + 5]

Service(t, path, e, rip, Value(_), next) ==
    [site |-> at[t], path |-> path, op |-> e.op, dest |-> e.reg,
     src |-> Source(e, rip, Value), imm |-> Immediate(e, rip, code[at[t]]), next |-> next,
     sound |-> e.sound, touched |-> t \in touched, replaced |-> t \in replaced]

-----------------------------------------------------------------------------
Init ==
  \E x \in Start :
    /\ original = x.code /\ code = x.code
    /\ entry = [sl \in Slots |-> Nothing]
    /\ pc = [t \in Thread |-> IF t \in x.threads THEN "run" ELSE "idle"]
    /\ at = [t \in Thread |-> Nothing]
    /\ own = [t \in Thread |-> Nothing]
    /\ last = [t \in Thread |-> Nothing]
    /\ touched = {} /\ replaced = {}

Goto(t, where) == pc' = [pc EXCEPT ![t] = where]

\* Back to the host's code.
Return(t) ==
  /\ Goto(t, "run")
  /\ at' = [at EXCEPT ![t] = Nothing]
  /\ own' = [own EXCEPT ![t] = Nothing]
  /\ touched' = touched \ {t} /\ replaced' = replaced \ {t}

\* An instruction the processor lacks: SIGILL.
Trap(t, s) ==
  /\ Alive /\ pc[t] = "run" /\ code[s][0] = \h66
  /\ Goto(t, "look") /\ at' = [at EXCEPT ![t] = s]
  /\ UNCHANGED <<original, code, entry, own, last, touched, replaced>>

\* A hit is copied, before it is used.
LookUp(t) ==
  /\ Alive /\ pc[t] = "look"
  /\ LET e == entry[Slot(t)] IN
     IF e # Nothing /\ e.rip = at[t]
       THEN Goto(t, "hit") /\ own' = [own EXCEPT ![t] = e]
       ELSE Goto(t, "test") /\ UNCHANGED own
  /\ UNCHANGED <<original, code, entry, at, last, touched, replaced>>

ServeHit(t) ==
  /\ Alive /\ pc[t] = "hit"
  /\ last' = [last EXCEPT ![t] =
                Service(t, "hit", own[t], 0, Gregs, own[t].address.bytes)]
  /\ Return(t)
  /\ UNCHANGED <<original, code, entry>>

\* The prefix and the opcode are tested; bytes that are not an instruction of
\* the emulator's go to the previous handler, which ends the process.
Test(t) ==
  /\ Alive /\ pc[t] = "test"
  /\ IF IsEmulated(code[at[t]])
       THEN Goto(t, "decode") /\ own' = [own EXCEPT ![t] = Header(code[at[t]])]
       ELSE Goto(t, "exit") /\ UNCHANGED own
  /\ UNCHANGED <<original, code, entry, at, last, touched, replaced>>

\* ModRM and the rest are read, the entry stored and the result computed.
Decode(t) ==
  /\ Alive /\ pc[t] = "decode"
  /\ LET e == Decoding(at[t], code[at[t]], own[t], t \notin touched) IN
       /\ entry' = [entry EXCEPT ![Slot(t)] = e]
       /\ own' = [own EXCEPT ![t] = e]
       /\ last' = [last EXCEPT ![t] = Service(t, "decode", e, 0, Gregs, Nothing)]
  /\ replaced' = replaced \cup
       {u \in Thread \ {t} : /\ at[u] # Nothing /\ Slot(u) = Slot(t)
                             /\ (at[u] # at[t] \/ t \in touched)}
  /\ Goto(t, "patch")
  /\ UNCHANGED <<original, code, at, touched>>

\* bytes_consumed: the memory form reads it from the shared entry again.
Length(t) == IF own[t].is_mem THEN entry[Slot(t)].address.bytes ELSE own[t].address.bytes

\* patch_code: a call, and NOPs up to the instruction's length.
Patched(c, n, rel) ==
  [k \in Window |-> IF k = 0 THEN \he8 ELSE IF k <= 4 THEN rel[k]
                    ELSE IF k < n THEN \h90 ELSE c[k]]

Patch(t) ==
  /\ Alive /\ pc[t] = "patch"
  /\ \E rel \in Rel32 :
       code' = [code EXCEPT ![at[t]] = Patched(code[at[t]], Length(t), rel)]
  /\ touched' = touched \cup {u \in Thread \ {t} : at[u] = at[t]}
  /\ Goto(t, "resume")
  /\ UNCHANGED <<original, entry, at, own, last, replaced>>

\* emu_mode_experimental is 0, or patch_code fails early.
SkipPatch(t) ==
  /\ Alive /\ pc[t] = "patch"
  /\ Goto(t, "resume")
  /\ UNCHANGED <<original, code, entry, at, own, last, touched, replaced>>

\* RIP += bytes_consumed
Resume(t) ==
  /\ Alive /\ pc[t] = "resume"
  /\ last' = [last EXCEPT ![t] = [@ EXCEPT !.next = Length(t), !.replaced = t \in replaced]]
  /\ Return(t)
  /\ UNCHANGED <<original, code, entry>>

-----------------------------------------------------------------------------
(* The trampoline *)

\* call rel32, and find_cache_entry_by_ret_addr: of its sizes only 5 leads from
\* the return address to the site.
Call(t, s) ==
  /\ Alive /\ pc[t] = "run" /\ code[s][0] = \he8
  /\ LET e == entry[SlotOf[s]] IN
     IF e # Nothing /\ e.rip = s /\ e.address.bytes = 5
       THEN Goto(t, "use") /\ at' = [at EXCEPT ![t] = s]
       ELSE Goto(t, "exit") /\ UNCHANGED at
  /\ UNCHANGED <<original, code, entry, own, last, touched, replaced>>

\* trampoline_c_helper reads the shared entry again, field by field.
Use(t) ==
  /\ Alive /\ pc[t] = "use"
  /\ LET e == entry[Slot(t)] IN
       last' = [last EXCEPT ![t] =
                  Service(t, "trampoline", e, 5 - e.address.bytes, GpRegs, 5)]
  /\ Return(t)
  /\ UNCHANGED <<original, code, entry>>

Handle(t) ==
  LookUp(t) \/ ServeHit(t) \/ Test(t) \/ Decode(t) \/ Patch(t) \/ SkipPatch(t) \/ Resume(t)

\* The process has ended, or has no threads.
Ended == (~Alive \/ \A t \in Thread : pc[t] = "idle") /\ UNCHANGED vars

Next ==
  \/ \E t \in Thread : Handle(t) \/ Use(t) \/ \E s \in Site : Trap(t, s) \/ Call(t, s)
  \/ Ended

Spec == Init /\ [][Next]_vars

-----------------------------------------------------------------------------
(* Properties *)

Reg == 0 .. 15
AddressType == [rip : BOOLEAN, base : Reg \cup {None}, index : Reg \cup {None},
             scale : 0 .. 3, disp : Int, bytes : 4 .. 15]
Entry == [rip : Site, op : AesOps \cup {Clmul}, has_rex : {0, 1}, reg : Reg, rm : Reg,
          is_mem : BOOLEAN, address : AddressType, sound : BOOLEAN]

\* Types: no register beyond the sixteen, no instruction beyond its window.
TypeOK ==
  /\ original \in [Site -> Code] /\ code \in [Site -> Code]
  /\ entry \in [Slots -> Entry \cup {Nothing}]
  /\ pc \in [Thread -> {"idle", "run", "look", "hit", "test", "decode", "patch",
                        "resume", "use", "exit"}]
  /\ at \in [Thread -> Site \cup {Nothing}]
  /\ touched \subseteq Thread /\ replaced \subseteq Thread

Served(t) == last[t] # Nothing /\ last[t].next # Nothing
Want(t) == Meaning(original[last[t].site])
RegisterForm(t) == Want(t).src.kind = "xmm"

\* What a thread was served from: a decoding of the whole instruction, and on the
\* paths that read the entry again still the same one.
Undisturbed(t) == last[t].sound /\ (last[t].path # "hit" => ~last[t].replaced)

Operation(x) == <<x.op, x.dest, x.src, x.next>>

\* A register form is executed as the instruction set defines it, on every path
\* and under every REX prefix, unless it was decoded while another thread
\* patched it or the trampoline's entry was replaced as it was read.  The
\* immediate of PCLMULQDQ is lost too if the site was patched between the trap
\* and the look-up: the NOP 90 is there then.
RegisterFormIsArchitected ==
  \A t \in Thread : Served(t) /\ RegisterForm(t) /\ Undisturbed(t) =>
    /\ Operation(last[t]) = Operation(Want(t))
    /\ \/ last[t].imm = Want(t).imm
       \/ last[t].path = "hit" /\ last[t].touched /\ last[t].imm = \h90

\* The cache and the trampoline take a memory operand from where the decoder did,
\* by register, scale, displacement and length, although each has its own way
\* to the registers.
PathsAgreeOnMemory ==
  \A t \in Thread : Served(t) /\ ~RegisterForm(t) /\ Undisturbed(t) =>
    LET c == original[last[t].site]
        e == Decoding(last[t].site, c, Header(c), TRUE)
    IN Operation(last[t]) = <<e.op, e.reg, Source(e, 0, Gregs), e.address.bytes>>

\* The comment at the head of parse_mem_operand gives the repair of its known
\* issue: "change + 3 to + 4 here".  With it every memory operand is what the
\* instruction set defines, but for R12 as an index, which the raw field 4
\* rules out.
R12IsIndex(c) ==
  /\ Field(c[Rexes(c) + 4], 1, 8) = 4 /\ Field(c[Rexes(c) + 5], 8, 8) = 4
  /\ Extends(c, 2) = 8
RepairSufficesButForR12 ==
  \A s \in Site :
    LET c == original[s]
        h == Header(c)
        a == ParseMem(c, h, c[FirstByte(h)], FirstByte(h) + 1)
    IN IsMem(c, h) /\ ~R12IsIndex(c) =>
         Resolve(a, 0, Gregs) = Meaning(c).src /\ a.bytes = Meaning(c).next

\* docs/session_log.md: the decoder "enables the emulator to seamlessly handle both
\* register-to-register and register-to-memory SSE instructions at runtime".
MemoryFormIsHandled ==
  \A t \in Thread : Served(t) /\ ~RegisterForm(t) /\ Undisturbed(t) =>
    Operation(last[t]) = Operation(Want(t))
=============================================================================
