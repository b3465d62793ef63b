----------------------------- MODULE VexDispatch -----------------------------
(***************************************************************************)
(* emulate_avx_instruction: one thread's VEX instructions, each of which   *)
(* traps, is decoded, is offered to the groups of VexTable in order and    *)
(* ends emulated, with RIP moved by bytes_consumed, or refused.            *)
(*                                                                         *)
(* An instruction is its encoding, with ModRM and SIB split into fields.   *)
(* Of the register file the module keeps the upper YMM halves, which the   *)
(* emulator holds itself (ymm_upper), as zero or data.                     *)
(***************************************************************************)
EXTENDS VexTable, FiniteSets, Sequences

CONSTANT Instructions    \* the encodings that the host program executes

Register == 0 .. 15

Encoding ==
    [len : {2, 3}, map : AnyMap, pp : 0 .. 3, op : 0 .. 255, L : {0, 1},
     R : {0, 1}, B : {0, 1}, v : Register,
     mod : 0 .. 3, reg : AnyReg, rm : 0 .. 7, base : 0 .. 7]

\* A C5 prefix has no field for the map and none for X and B.
ASSUME InstructionsAssumption ==
    \A i \in Instructions : i \in Encoding /\ (i.len = 2 => i.map = 1 /\ i.B = 1)

VARIABLES
    pc,       \* "host": the host runs; "ask": in the chain of groups; "emulated", "refused"
    insn,     \* the instruction that trapped
    inst,     \* what avx_decode and the branches put in struct vex_instruction
    group,    \* the group that is asked
    branch,   \* the name of the branch that took the instruction
    rip,      \* RIP, from the start of the instruction
    upper     \* ymm_upper

vars == <<pc, insn, inst, group, branch, rip, upper>>

Half == {"zero", "data"}
Inst == [mem : 0 .. 11, bytes : 1 .. 12]
Name == {r.name : r \in UNION {Groups[g] : g \in 1 .. 7}}

-----------------------------------------------------------------------------
(* avx_decode and resolve_vex_mem_addr *)

RegIdx(i) == i.reg + 8 * (1 - i.R)
RmIdx(i) == i.rm + 8 * (1 - i.B)

Sib(i) == IF i.rm = 4 THEN 1 ELSE 0

Displacement(i) ==
    CASE i.mod = 1 -> 1
      [] i.mod = 2 -> 4
      [] OTHER -> IF i.rm = 5 \/ (i.rm = 4 /\ i.base = 5) THEN 4 ELSE 0

\* Fault: vshufps is forgotten.
HasImmInMap3(i) == i.map = 3

\* resolve_vex_mem_addr's idea of which instructions end in an immediate.
HasImm(i) == \/ i.map = 3
             \/ i.map = 1 /\ i.op = \hC6

MemBytes(i) == i.len + 2 + Sib(i) + Displacement(i) + (IF HasImm(i) THEN 1 ELSE 0)

\* vzeroupper and vzeroall are recognised by their opcode and have no ModRM.
NoModRM(i) == i.op = \h77

Decode(i) ==
    CASE NoModRM(i) -> [mem |-> 0, bytes |-> i.len + 1]
      [] ~NoModRM(i) /\ i.mod = 3 -> [mem |-> 0, bytes |-> i.len + 2]
      [] ~NoModRM(i) /\ i.mod # 3 -> [mem |-> MemBytes(i), bytes |-> MemBytes(i)]

-----------------------------------------------------------------------------
(* What a branch does to the length and to the upper halves *)

Takes(r, i) == i.map \in r.maps /\ i.pp \in r.pps /\ i.op \in r.ops /\ i.reg \in r.exts

\* expected_len, the same lines in every branch that has it.
ExpectedDisplacement(i) ==
    CASE i.mod = 1 -> 1
      [] i.mod = 2 -> 4
      [] OTHER -> IF i.rm = 5 THEN 4 ELSE 0

\* Fault: the immediate is forgotten.
ExpectedWithoutImm(i) ==
    i.len + 2 + (IF i.mod = 3 THEN 0 ELSE Sib(i) + ExpectedDisplacement(i))
ExpectedLen(i) ==
    i.len + 3 + (IF i.mod = 3 THEN 0 ELSE Sib(i) + ExpectedDisplacement(i))

\* Fault: counted twice.
OneTooMany(i) == IF i.mod = 3 THEN i.len + 3 ELSE inst.mem + 2
OneMore(i) == IF i.mod = 3 THEN i.len + 3 ELSE inst.mem + 1

Length(r, i) == CASE r.length = "decoded" -> inst.bytes
                  [] r.length = "expected" -> ExpectedLen(i)
                  [] r.length = "oneMore" -> OneMore(i)

Written(r, i) == CASE r.dest = "reg" -> {RegIdx(i)}
                   [] r.dest = "rm" -> IF i.mod = 3 THEN {RmIdx(i)} ELSE {}
                   [] r.dest = "none" -> {}
                   [] r.dest = "all" -> Register

\* Fault: VEX.L is not looked at.
ZeroesScalarsOnly(r, i) == r.half = "zero"
Zeroes(r, i) == r.half = "zero" \/ (r.half = "byL" /\ i.L = 0)

-----------------------------------------------------------------------------

\* Nothing is decoded while the host runs.
NoInsn == [op |-> 0]
NoInst == [mem |-> 0, bytes |-> 0]

Init == /\ pc = "host"
        /\ insn = NoInsn /\ inst = NoInst /\ group = 1 /\ branch = "none" /\ rip = 0
        /\ upper = [x \in Register |-> "zero"]

\* SIGILL: the handler finds a VEX prefix and decodes.
Trap == /\ pc = "host"
        /\ \E i \in Instructions :
             /\ insn' = i
             /\ inst' = Decode(i)
        /\ pc' = "ask"
        /\ UNCHANGED <<group, branch, rip, upper>>

\* A branch of the group takes the instruction, and RIP is moved past it.
Emulate == /\ pc = "ask"
           /\ \E r \in Groups[group] :
                /\ Takes(r, insn)
                /\ branch' = r.name
                /\ inst' = [inst EXCEPT !.bytes = Length(r, insn)]
                /\ rip' = rip + Length(r, insn)
                /\ \E h \in Half :
                     upper' = [x \in Register |->
                                 IF x \notin Written(r, insn) THEN upper[x]
                                 ELSE IF Zeroes(r, insn) THEN "zero" ELSE h]
           /\ pc' = "emulated"
           /\ UNCHANGED <<insn, group>>

NoneTakes(g) == \A r \in Groups[g] : ~Takes(r, insn)

AskNext == /\ pc = "ask"
           /\ NoneTakes(group)
           /\ group < Len(Groups)
           /\ group' = group + 1
           /\ UNCHANGED <<pc, insn, inst, branch, rip, upper>>

\* No group takes it: handler() goes on, to the previous action in the end.
Refuse == /\ pc = "ask"
          /\ NoneTakes(group)
          /\ group = Len(Groups)
          /\ pc' = "refused"
          /\ UNCHANGED <<insn, inst, group, branch, rip, upper>>

\* The handler returns, or the previous action has dealt with the instruction.
Resume == /\ pc \in {"emulated", "refused"}
          /\ pc' = "host"
          /\ insn' = NoInsn /\ inst' = NoInst /\ group' = 1 /\ branch' = "none" /\ rip' = 0
          /\ UNCHANGED upper

Next == Trap \/ Emulate \/ AskNext \/ Refuse \/ Resume

Spec == Init /\ [][Next]_vars

-----------------------------------------------------------------------------
(* The encoding as the architecture defines it *)

\* Which instructions end in an immediate: all of map 0F3A, none of map 0F38,
\* and of map 0F the shuffles, shifts, compares, inserts and extracts.
TakesImm(i) == \/ i.map = 3
               \/ i.map = 1 /\ i.op \in (\h70 .. \h73) \cup {\hC2, \hC4, \hC5, \hC6}

TrueLength(i) ==
    IF NoModRM(i) THEN i.len + 1
    ELSE i.len + 2 + (IF i.mod = 3 THEN 0 ELSE Sib(i) + Displacement(i))
           + (IF TakesImm(i) THEN 1 ELSE 0)

IsShift(i) == i.map = 1 /\ i.op \in \h71 .. \h73

\* Forms without an encoding: 128-bit vpermq, vinsert128 and vextract128, and
\* a shift by an immediate of an operand in memory.
Undefined(i) == \/ i.map = 3 /\ i.op \in {\h00, \h18, \h19, \h38, \h39} /\ i.L = 0
                \/ IsShift(i) /\ i.mod # 3

\* The instructions the comment on branch r names.  A branch that does not test
\* the map is about map 0F, and vunpcklpd's own opcodes are 14 and 15.
Names(r, i) == /\ i.pp \in r.pps
               /\ i.op \in (IF r.name = "vunpcklpd" THEN {\h14, \h15} ELSE r.ops)
               /\ i.map \in (IF r.maps = AnyMap THEN {1} ELSE r.maps)
               /\ i.reg \in r.exts

Named(i) == /\ ~Undefined(i)
            /\ \E g \in DOMAIN Groups : \E r \in Groups[g] : Names(r, i)

\* The xmm registers an instruction writes.
Stores(i) == \/ i.map = 1 /\ i.op \in {\h11, \h29, \h7F, \hD6}
             \/ i.map = 3 /\ i.op \in {\h19, \h39}
WritesNoXmm(i) == \/ i.map = 1 /\ i.op \in {\h13, \h17, \h2C, \h2E, \h2F, \hD7}
                  \/ i.map = 1 /\ i.op = \h7E /\ i.pp = 1
                  \/ i.map = 2 /\ i.op \in {\h0E, \h0F}
                  \/ i.map = 3 /\ i.op = \h17
Destination(i) == CASE NoModRM(i) -> Register
                    [] WritesNoXmm(i) -> {}
                    [] Stores(i) -> IF i.mod = 3 THEN {RmIdx(i)} ELSE {}
                    [] IsShift(i) -> {i.v}
                    [] OTHER -> {RegIdx(i)}

-----------------------------------------------------------------------------

\* Type correctness of the decoded instruction, the chain and the halves.
TypeOK == /\ pc \in {"host", "ask", "emulated", "refused"}
          /\ IF pc = "host" THEN insn = NoInsn /\ inst = NoInst
                            ELSE insn \in Encoding /\ inst \in Inst
          /\ group \in 1 .. 7
          /\ branch \in Name \cup {"none"}
          /\ rip \in 0 .. 12
          /\ upper \in [Register -> Half]

\* The instruction was taken by a branch that names it.
ByItsOwn == \E g \in DOMAIN Groups : \E r \in Groups[g] : r.name = branch /\ Names(r, insn)

\* vmovaps, which does not test the map, takes vpmuldq and vpcmpeqq; the branch
\* for vunpcklpd and vunpckhpd tests vmovlpd's opcodes instead of theirs, so
\* that no group takes them.
Shadowed(i) == \/ i.map = 2 /\ i.pp = 1 /\ i.op \in {\h28, \h29}
               \/ i.map = 1 /\ i.pp = 1 /\ i.op \in {\h14, \h15}

\* An instruction that some branch's comment names (such as "vpmuldq" at
\* avx_integer.c:218) reaches such a branch through the groups asked before (the
\* order in avx_dispatch.c:63), whatever its operands, and is not refused, unless
\* it is one of these, which never reach it.
OwnUnlessShadowed ==
    /\ pc = "emulated" /\ Named(insn) => (ByItsOwn <=> ~Shadowed(insn))
    /\ pc = "refused" /\ Named(insn) => Shadowed(insn)

\* expected_len forgets the displacement of a SIB byte without base, and vpblendd
\* and vextractps count an immediate that mem_bytes has already.
Miscounted(i) ==
    \/ i.mod = 0 /\ i.rm = 4 /\ i.base = 5 /\ (TakesImm(i) /\ <<i.map, i.op>> # <<1, \h70>>)
    \/ i.mod # 3 /\ i.map = 3 /\ i.op \in {\h02, \h17}

\* RIP moves by the length of the instruction, whichever of the three rules the
\* branch uses, for every operand form that is not miscounted: the host must
\* go on at the next instruction (avx_dispatch.c:104).
RipMovesByTheLength ==
    pc = "emulated" /\ Named(insn) /\ ~Miscounted(insn) => rip = TrueLength(insn)

\* The address of a RIP-relative operand is taken from the end of the instruction,
\* the immediate included (avx_address.c:54).  vpshufd and vcmp are the instructions
\* whose immediate is not known there.
RipRelativeFromTheEnd ==
    pc = "ask" /\ Named(insn) /\ ~NoModRM(insn) /\ insn.mod = 0 /\ insn.rm = 5
      /\ ~(insn.map = 1 /\ insn.op \in {\h70, \hC2})
    => inst.mem = TrueLength(insn)

\* A VEX.128 instruction zeroes the upper half of its destination and an
\* instruction changes no other register's: "VEX.128 clears upper half",
\* avx_pack.c:51.  The shifts by an immediate write the wrong register.
HalvesFollowTheDestination ==
    [][Emulate /\ Named(insn) /\ ~Shadowed(insn) /\ ~IsShift(insn) =>
         \A x \in Register :
           /\ x \notin Destination(insn) => upper'[x] = upper[x]
           /\ x \in Destination(insn) /\ (insn.L = 0 \/ NoModRM(insn)) => upper'[x] = "zero"]_vars
=============================================================================
