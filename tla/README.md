# TLA+ verification of the SIGILL emulator

`libsigill_emulator.so` is a preloaded library. It lets a program compiled for
AES-NI, PCLMULQDQ and AVX2 run on a CPU without them: an instruction the CPU
lacks raises SIGILL, and the library's signal handler decodes it, carries it out
in software and moves RIP past it. Because it lives inside a foreign process it
must also share SIGILL with that process (a JVM, a crash reporter), and in its
experimental mode it rewrites the code it has trapped on.

These modules model the parts of it that are hard to test: memory shared between
threads without a lock, a signal disposition that two parties own, code that
changes while it runs, two instruction decoders, field arithmetic by bit tricks,
registers of which the kernel saves one half only, and a patcher that rewrites
a binary which updates itself.
All paths below are relative to the repository; `sigill_emulator.c` is
`src/sigill_emulator.c` of it.

    tlc -config RipCache_core.cfg MCRipCache     # model-check one run
    tlapm RipCacheProofs.tla                     # check one module's proofs

## 1. Inventory of the system

| Component | State | Operations | Modelled in |
|---|---|---|---|
| Publication ring (`sigill_emulator.c:24-143`) | `sa_slots[16]`, `sa_slot_idx`, `active_sa`, and the same for SIGTRAP | `get_active_sa`, the publication in `sigaction` and in the watchdog | `SigRing`, abstractly `SigDisposition` |
| Signal virtualisation (`:41-143`, `:1020-1056`, `:1448-1500`) | the kernel's disposition, the published one, the watchdog's iterations | constructor `init`, interposed `sigaction`, `reassert_sigill_handler`, `fallback_to_old_handler` | `SigVirtual` |
| Instruction cache (`:558-687`, `:1099-1378`) | `rip_cache`: direct-mapped entries, each with a sequence lock | look-up with three tries, decode, store; the memory form's later looks | `RipCache` |
| Code patching (`:694-1018`, `:1064-1072`) | the code bytes, `island_page`, `island_used_bytes`, page protections | `patch_code`, `allocate_trampoline_island`, the SIGTRAP branch, `trampoline_c_helper` | `CodePatch` |
| VEX decoder (`src/avx/avx_decode.c`, `avx_address.c`) | `struct vex_instruction` of one trap | `avx_decode`, `resolve_vex_mem_addr` | `VexDispatch` |
| VEX dispatch (`avx_dispatch.c` and seven group files) | none of its own | each group's if / else-if chain | `VexTable`, `VexDispatch`; lanes of the quad instructions in `VexLanes` |
| Upper YMM halves (`avx_state.c`) | thread-local `ymm_upper[16]` | written by every branch, kept across host signals | `VexLanes`, abstractly `AvxCpu`; `VexDispatch` (`upper`) |
| Legacy SSE decoder (`:550-680`, `:1184-1378`) | none of its own | `parse_mem_operand`, `resolve_mem_addr_fast`, the 0F38 and 0F3A branches | `SseTrap`, against `SseEncoding` |
| AES and carry-less multiplication (`:180-490`) | two tables | `emulate_aes*`, `emulate_pclmulqdq` | `AesRound`, `SseMath`, against `Fips197` |
| SIMDe backend (`src/math`) and vendored SIMDe | none | lane-wise wrappers | comparisons and selections of doubles in `VexLanes`; the rest is data only |
| Static patcher (`scripts/patch_agy.py`, the wrapper in `skills/agy-compat/SKILL.md`) | the `agy` binary, its backup, a marker file | scan, back up, write in place, touch, start | `StaticPatcher` |
| Help, environment, logging; build, benchmark, scanner | none | text and process arguments | no: I/O and tooling |

How they interact. The kernel calls `handler` on the thread that trapped, so
every component below it runs on any number of threads at once, inside a signal
handler, without locks. `handler` first sends SIGTRAP to the retry branch, then
offers VEX encodings to the dispatch chain; anything else goes to the look-up in
`rip_cache`, from there to the legacy decoder, which stores what it decoded, and
in experimental mode to `patch_code`. The trampoline that patched code calls
reads the same `rip_cache` without its lock. What nobody can serve goes to
`fallback_to_old_handler`, which reads the ring that `sigaction` and the
watchdog thread write.

What is hard, and what makes each part correct:

- *Ring*: unsynchronised publishers and a reader that copies a struct which may
  be overwritten meanwhile. Correct when whoever asks is given one whole action,
  the one that was published when it asked.
- *Virtualisation*: a host that calls `sigaction`, goes past it with `signal` or
  the system call, chains handlers, and traps, against a watchdog that repairs
  in three separate steps. Correct when the action in effect is the last one the
  host installed, a trap falls back once, a displacement is repaired, and
  SIG_DFL kills.
- *Cache*: a sequence lock that has no writer lock, entries two instructions
  share, and a path that uses the entry after the lock is released. Correct when
  every trap is served with its own operation, registers and length.
- *Patching*: three stores that other threads may run between, pages that two
  patches share, a finite island, a counter that keeps counting, a return
  address that is the only key to the decoding. Correct when nobody ever runs or
  decodes a mixture and every patched call finds its entry.
- *SSE decoder*: byte offsets that depend on prefixes, and three readers of what it
  decoded, one of which finds registers on a stack. Correct when each
  instruction is served with the operands, immediate and length its bytes had
  before anybody patched them.
- *Arithmetic*: factored matrix products, chains of assignments, a shift whose count
  may be the width. Correct when it is FIPS 197 and the polynomials' product.
- *Static patcher*: overlapping launches, an update at any moment, a write in place.
  Correct when the marker only ever stands for a binary that runs, the latest
  build is the one that runs, and one interruption loses nothing.
- *VEX chain*: the first of some hundred overlapping conditions wins, and the
  length of an instruction is computed in four different places. Correct when
  each instruction reaches the branch meant for it, RIP lands on the next
  instruction, a RIP-relative operand is where the assembler meant, and the upper
  halves follow the destination. For the thread it should be as if the
  processor had AVX, its signal handlers included.

`PROJECT.json` lists forty hazards of the code at the lines where they bite. Where the
code avoids one, the properties it names would fail if it did not. Where the code
has it, the note says so: then the property excepts that case by name, and shows
that nothing else of the kind goes wrong.

## 2. Modules

In all of them one action makes one access to memory another thread can see (or
one system call), and a step that only touches a thread's own locals is joined
to the next such access. x86-TSO keeps loads in order, and stores in order, and
the `__atomic` accesses keep the compiler from moving the plain ones across
them; a store that is delayed past a later load of the same thread to another
address is not modelled, and no protocol here relies on that order.

### RipCache

`seq` and `cell` are `entry->seq` and the other fields of each entry. A field's
value is *the instruction whose decoding it came from*, which is all that the
properties need to see a mixture. `tries`, `k`, `seen`, `snap` are `retry`, the
position in the list of copies, `seq1` or `seq_val`, and the `cached_*` locals.

| Action | Code |
|---|---|
| `Trap` | entry of `handler`, `:1058-1113` |
| `LoadSeq1`, `ReadCell`, `LoadSeq2`, `Retry` | the read loop, `:1115-1139` |
| `Hit` | emulation from the copy; an `op_type` of 0 falls through, `:1141-1182` |
| `LoadSeqVal`, `StoreOdd`, `StoreCell`, `StoreEven` | decode and store, `:1184-1274`, and its 0F3A twin |
| `LoadAddress`, `LoadLength` | the memory form's looks at the entry after the lock, `:1276-1293` |

`overlap` is a history variable: the slots two threads have stored to at once.
The lock has no writer exclusion, so the properties hold outside `overlap` and
the run `ripcache_torn` shows what happens inside. A further consequence of an
overlap, not given a run of its own: the two pairs of stores of `seq` may
interleave so that `seq` stays odd with nobody writing, and then the entry is
never readable until another overlap repairs it.

### SigDisposition, SigRing

`SigDisposition` is what POSIX says of one signal's disposition: a register that
holds one whole action. `SigRing` is the code: `slot`, `idx` and `active` are
`sa_slots`, `sa_slot_idx` and the slot `active_sa` points to; `LoadPointer`,
`CopyPart` are `get_active_sa`; `LoadIndex`, `PutPart`, `Publish`, `Advance` are
the four statements at `:116-120`. The structure copy takes one step per part.

Publications and reads interleave in every way; nothing serialises them, as
nothing in the code does. Four history variables say what came of it. `spoilt` is
the set of slots that were last taken (`LoadIndex`) while they were the published
one, or while another thread was storing to them; a slot leaves it when one
thread alone takes it. `overrun` is the set of readers that loaded the pointer of
a spoilt slot, or whose slot was taken before they had copied it. `overlapped` says
that a publication has ever begun before the last one returned, and `from` how
many actions were published when a reader loaded the pointer.

The refinement (`RingIsADisposition`) maps `disp` to the contents of the active
slot and what a reader was given to the action published when it loaded the
pointer, although it copies it later: a reader in the middle of its copy is
mapped to the action it *will* have, which holds only if nobody overwrites the
slot. A spoilt slot counts as the action last published, and an overrun reader as
given what it should have been: these are the two ways in which the code is not a
register, and what the refinement shows is that there is no third.

### SigVirtual

`kern` is the kernel's disposition, `virt` the published action (one register:
`SigRing` says when the ring is one), `wd`, `found`, `left` the watchdog's place,
`current` and remaining iterations, `link` what each host handler was told it
replaced. `Construct` is `init`; `Enter` and `Publish` are the two halves of the
interposed `sigaction`; `Query`, `Save`, `Reinstall` the watchdog's loop body;
`Fallback`, `RestoreDefault`, `Raise`, `Resume` are `fallback_to_old_handler`,
with `doomed` for the threads whose branch ends in `_exit`. `Displace`,
`HostReturns`, `HostChains` and `PutBack` are the host, which may install each
of its handlers once by either way, return from it or hand the signal on.

Left out: SIGTRAP's disposition, `sa_mask`, `SA_RESETHAND`, `siglongjmp` out of a
chained handler, and forked children, which have no watchdog.

### CodePatch

A site is its first byte (`first`: its own, 0xCC or 0xE8) and its tail (`tail`:
its own bytes, or where the call leads). `Execute` is the CPU: an untouched site
traps, an INT3 enters the SIGTRAP branch (`Breakpoint`: it ends in SIG_DFL, or inside
the instruction if the byte that it tests happens to be 0xCC or 0xE8), a call goes
through a stub to
`trampoline_c_helper`. `LookUp`, `Decode`, `StoreBegin`, `StoreEnd` are the
cache part of `handler`; `CheckIsland` to `Close` are `patch_code` statement by
statement, the failure of `mprotect` half-way and the wrap of
`island_used_bytes` included. `death` says how and where the process ended.

Left out: the trampoline's register save (it keeps neither EFLAGS nor the red
zone), and a fetch that takes the first byte from before and the tail from after
a store. The cache is the one field `rip` of each entry; its other fields, the
immediate of PCLMULQDQ and memory operands are in `SseTrap`. SIGTRAP's previous action is SIG_DFL, as at process start.
`island_page` is plain memory that `patch_code` reads again after setting it, and
the store of 0xCC is kept although a later store to the same byte follows; both
were confirmed on optimised machine code.

### VexTable, VexDispatch

`VexTable` has one row for every branch of the seven group functions: the maps,
prefixes, opcodes and ModRM.reg extensions its condition accepts, which of three
ways it computes `bytes_consumed`, and which upper half it writes and how. A
condition that does not test `vex_m` accepts all 32 maps, as in the code.
`VexDispatch` is `emulate_avx_instruction` over a stream of instructions: `Trap`
decodes (`Decode`, `MemBytes`, `HasImm` are `avx_decode` and
`resolve_vex_mem_addr`), `AskNext` goes from group to group in the order of
`avx_dispatch.c:61-69`, `Emulate` takes the branch, `Refuse` returns 0, `Resume`
goes back to the host. An encoding has ModRM and SIB as fields; `upper` persists
from one instruction to the next.

Against this stands the encoding as the architecture defines it: `TakesImm`,
`TrueLength`, `Destination`, written independently of the table, for the
instructions that the comments of the branches name (`Names`).

Left out: the lanes (some are in `VexLanes`), general registers, flags and memory
contents.

### SseEncoding, SseTrap

`SseEncoding` is the instruction set's definition of a `66 [REX] 0F 38/3A` encoding:
`Meaning(c)` gives operation, destination, source (a register, a symbolic sum of
base, scaled index and displacement, or a displacement from RIP), immediate and
length of the bytes `c`. `SseTrap` is the emulator's reading of the same bytes, and
what it does with it: `Test` and `Decode` are the decoder, `LookUp` and `ServeHit` the
cache, `Patch` what `patch_code` leaves in the bytes, `Call` and `Use` the trampoline.
`ParseMem` is `parse_mem_operand` statement by statement with its starting byte as
a parameter, `FirstByte` where the code starts it. `GpRegs` finds a register where
`trampoline_entry` pushed it. A thread that was preempted between `Test` and `Decode`
while another one patches reads a ModRM byte out of a call offset.

`sound`, `touched` and `replaced` are history: the entry was decoded while the
instruction stood; the site was patched since the thread trapped; the entry was
stored again since. A look-up or a store of an entry is one step here and many in
`RipCache`; the patching of a site is one step here and many in `CodePatch`.

### AesRound, Fips197, SseMath

A byte is the set of its 1 bits, so that the exclusive or is the symmetric
difference and `gmul2` a shift of a set. `AesRound` has the steps as the code
computes them: `mix_columns` through a column sum, `inv_mix_columns` as a correction
of it, rows shifted by chains of assignments (`Rotate`), the tables byte for byte.
`Fips197` has them as the standard defines them: products with matrices, the
inverse in the field and an affine map. `SseMath` runs the six emulators
statement by statement (`stage`), on programs that feed one's result to the next;
in `emulate_pclmulqdq` one iteration is one step (`Iterate`), and a shift by the width
does what the processor does, which C leaves undefined. `RoundTrip(key)` is a host's
program that encrypts a block with the round keys in the registers `key` and
decrypts it through the equivalent inverse cipher, any number of rounds long.

### AvxData, AvxCpu, VexLanes

`AvxCpu` is the abstract specification: a thread on a processor with AVX, whose
kernel saves and restores whole registers around a signal. `VexLanes` is the thread
under the emulator: `low` are the registers the processor has, `upper` is
`ymm_upper`, `uc` the registers in the SIGILL frame, `frames` the low halves that the
kernel saved for host signals. `Trap`, `Emulate`, `Resume` are one emulated
instruction; `Deliver` may come between any two of them, on top of the emulator's
handler too, since its `sa_mask` is empty; `TrapBlocked` is an instruction trapping
while SIGILL is blocked, which ends the process.

A quad is a small number or `Ones` (a NaN, and the true mask). The instructions
are those that move, select, compare or combine whole quads; `Math`, the element
function of packed and scalar arithmetic, is an unknown constant. `NewLow` and
`NewHigh` write the destination in the order in which the branch does.

The refinement `ActsAsAvx` maps `ymm` to `low` or `uc` joined with `upper`, and the
interrupted levels likewise, until `astray`: one of the divergences in `Diverges`,
or a host handler that changed an upper half. Each of them is necessary: without
it TLC finds the refinement violated.

### StaticPatcher

The binary is two pieces, head and tail, of build `v`: what an interrupted write or
copy can tell apart. `build[v]` says what the patcher's scans depend on: the form of
the gate and which of the five epilogues are within 1500 bytes of it. `Launch`,
`Touch`, `Exec` are the wrapper's three lines; `Read`, `Backup`, `CopyOpen`, `Copy`, `OpenTarget`,
`WriteHead`, `WriteTail` the patcher's file operations; `Download` and `Replace` the
binary's update of itself, by rename, with the time of its download; `Kill` and `Fail`
an interruption and a full disk. A file that is executed cannot be opened for
writing, nor the reverse.

Left out: two gates in one binary, the modification times of two files in one
tick, and `chmod`.

### MC modules

The `MC` modules give the constants their small values and nothing else. Symmetry is
the exchange of two threads or launchers that run the same code; it is used with
safety runs, and with the refinement run of the ring, whose mapping treats
threads alike. The two runs with liveness properties use none.

## 3. Runs

### Passing

| Run | States | Bounds | What it shows |
|---|---|---|---|
| `ripcache_core` | 232,194 | 2 threads, 3 sites of which two share a slot and one has a memory operand, 3 reads, 3 traps | below |
| `sigring_core` | 10,099,634 | a ring of 3, 3 publishers of which one reads as well, no call after 4 publications, actions of 2 parts | below |
| `sigvirtual_core` | 650,015 | 2 threads, 2 handlers, 2 iterations, 1 plain installation, 2 fall-backs of a trap | below |
| `codepatch_core` | 1,079,378 | 2 threads, 3 sites (two share an entry, one is 6 bytes long, one in another library), 2 stubs, wrap at 3 | below |
| `vexdispatch_core` | 1,293,456 | every opcode of every branch and 3 others, maps 1 to 3, all prefixes, both L, 9 operand forms | below |
| `ssemath_core` | 45,487 | 10 programs of up to 10 instructions, 5 registers of 128 bits, 116 starting contents | below |
| `ssetrap_core` | 1,373,844 | one thread on each of 984 encodings; two threads on two sites that share an entry, 10 pairs of instructions, 2 call offsets | below |
| `staticpatcher_core` | 935,655 | 2 launchers, 2 builds out of 8 kinds, 4 launches, 1 interruption or full disk | below |
| `vexlanes_core` | 932,598 | 3 registers, 2 initial contents, 4 values of a quad (0, 1, 2 and all ones, which is NaN), 2 instructions, 2 levels of signals | below |

- `ripcache_core`. `AcceptedCopyIsConsistent`: a copy whose two looks at `seq`
  agree is of one decoding. `SlotAtRestIsReadable`: an entry nobody stores to is
  even and whole. `RereadIsOwnWhileSeqStands`: the memory form's late look is
  right exactly as long as a second look at `seq` would say so.
  `RegisterFormServedAsItself`: hits, evictions, retries and all, a register form is
  emulated as itself and RIP advanced by its own length. `EveryTrapReturns`.
  Two threads with three traps are enough for an eviction during a read, a
  store during a read, a failed third try, and a store on top of a store (which
  puts the slot in `overlap`); a third thread adds no new kind of conflict to a
  slot that at most one thread writes.
- `sigring_core`. `PublishedUnlessSpoilt`: the published action is the one last
  published, whole. `OverrunTakesARound`: while publications do not overlap, no slot
  is spoilt and a reader is overrun only after a whole round of the ring.
  `RingIsADisposition`: the register. Three publishers let two spoil a slot that a
  third publishes after, or takes for itself, which ends it; the ring wraps within the
  bound (4 publications in 3 slots), so that a reader is overrun by publications that
  do not overlap, and by fewer that do.
- `sigvirtual_core`. `EffectiveIsLatest`: unless two installations, or one and a
  repair, crossed, the action a trap would meet is the one the host installed
  last, at every step of the repair. `UnevadedTrapFallsBackOnce`: if the host
  never went past the interposer, no chain of handlers leads back into the
  fallback. `DisplacementIsRepaired`, `DefaultKills`. Two iterations let a
  repair happen, be undone, and happen again; two handlers let one chain to the
  other.
- `codepatch_core`. `CodeIsWhole`: the order of the three stores keeps a site that
  looks unpatched whole, and a live call leads to a written stub or out of
  reach. `PatchedSiteIsCached`, `PagesAtRestAreProtected`, and
  `LoneThreadIsSafe`: a program whose threads never meet in the handler ends
  only in the named ways. Two stubs for three sites exhaust the island; a counter
  that wraps at 3 reaches the wrap by the same instruction trapping again.
- `vexdispatch_core`. `OwnUnlessShadowed`: every instruction that some branch
  names reaches it through the groups before, but for the four opcodes in
  `Shadowed`, which never do (vpmuldq and vpcmpeqq are taken by vmovaps, whose
  branch does not test the map; vunpcklpd and vunpckhpd by nobody, since their
  branch tests vmovlpd's opcodes). `RipMovesByTheLength`: RIP lands on the next instruction, but for
  the forms in `Miscounted` (`expected_len` leaves out the displacement of a SIB
  byte without a base; vpblendd and vextractps in memory form add an immediate
  that is already counted). `RipRelativeFromTheEnd`: a RIP-relative address is
  taken from the end, but for vpshufd and vcmp, whose immediate
  `resolve_vex_mem_addr` does not know, against `docs/LEARNING_GUIDE.md:189`.
  `HalvesFollowTheDestination`: VEX.128 zeroes the destination's upper half and
  nothing else changes, but for the shifts by an immediate, which write
  ModRM.reg, their opcode extension, and not VEX.vvvv. The exceptions are what
  the code gets wrong; they were narrowed until the property held, so nothing
  else of the kind is in the table.
- `ssemath_core`. `AesResultIsDefined`: whatever registers an AES instruction names, it
  leaves what FIPS 197 defines. `ClmulIsTheProduct`: the early exit drops no term, the
  split into two words no bit. `DecryptionUndoesEncryption`: one, two and
  three rounds, encrypted and decrypted with keys through AESIMC as hosts do it, are
  the identity. The
  starting blocks carry every byte value through both tables; the factors have
  terms at both ends of both halves. The proofs take all three to every
  operand, and the last to every number of rounds, given the tables, which TLC
  compares with their definition and with one another (`TablesAreRight`).
- `ssetrap_core`. `RegisterFormIsArchitected`: on each path, under every REX prefix and
  with another thread patching, a register form is executed as its bytes say,
  but for two cases named there. `PathsAgreeOnMemory`: the three readers of an entry
  agree about operands in memory. `RepairSufficesButForR12`: the repair that the
  comment at `:593` proposes makes every memory form right, except that R12
  cannot be an index, because the code compares the three bits of the field, and
  not the register, with 4.
- `staticpatcher_core`. `MarkerIsTrue`, `LaunchRunsTheLatest`, `OneFaultLosesNothing`, and
  `FirstOriginalIsKept`: whenever a build is rewritten or only truncated, the backup
  is the whole original of the first build that ever was. It is an earlier build's only
  where an update crossed a launch or a launch was cut short, and cut itself only in the
  latter case. Each of these exceptions, and `overlapped`, is necessary. The exceptions
  of the four are the program's: an update that crosses
  a launch may be marked without being patched or be overwritten by the build
  before it, a second launcher may back up what the first has truncated, and a
  short-framed gate behind a longer epilogue is sent to that. Four launches are an
  interrupted one, its repair, an update's and one that finds the marker.
- `vexlanes_core`. `ActsAsAvx`. Two instructions let the second read what the first
  wrote; every instruction occurs with all operands different, with any two the
  same, and with memory; the comparisons with less, equal, greater and NaN in
  all 32 predicates. A second level of signals interrupts a handler that
  interrupted the emulator.

### Violations: where the code and its documentation disagree

| Run | Claim | What the code does |
|---|---|---|
| `ripcache_torn` | "the data is guaranteed to be consistent" (`docs/LEARNING_GUIDE.md:323`) | two threads that miss in one entry both store; the mixture has an even `seq`; a third reads it |
| `codepatch_trap` | a thread on 0xCC waits and retries (`sigill_emulator.c:998`) | RIP is one past the 0xCC; the test reads the tail's byte, and the process is killed or, if that byte is 0xCC or 0xE8, resumes inside the instruction |
| `ssetrap_memory` | register-to-memory forms are handled seamlessly (`docs/session_log.md:90`) | SIB, displacement and immediate are read a byte early: the very instruction that the log found in the host is taken for 9 bytes of 10 |

Each of these runs checks the one property with the smallest instance that
reaches it: three threads and four traps for the torn entry, two threads for the
breakpoint, one instruction for the memory form.

What else the models show of the code, as exceptions that a property names and
would fail without:

- Two threads in `sigaction` take the same next slot and publish a mixture, or store to
  the published one, against "thread-safe atomic publication" (`sigill_emulator.c:24`) and
  "concurrent `sigaction()` replacement atomic safety" (`docs/SKILL.md:176`):
  `PublishedUnlessSpoilt` and `RingIsADisposition` except that slot (`spoilt`).
- "The original binary is saved as `agy.real.bak` before any changes are made"
  (`docs/LEARNING_GUIDE.md:522`) holds of the first build that is rewritten. A later one
  is rewritten with the backup of the first in place, which `patch_agy.py:203` takes for
  its own; that is why `FirstOriginalIsKept` does not speak of the build's own original.
  Two launches at once may back up what the first has truncated or rewritten:
  `FirstOriginalIsKept`, `overlapped`.
- A handler installed past the interposer that chains to what it replaced is
  chained to by it, against "chain exactly once" (`docs/SKILL.md:175`):
  `UnevadedTrapFallsBackOnce` asks that the host never went past.
- A handler installed before the constructor ran, which the comment at
  `sigill_emulator.c:99` provides for, is overwritten: `EffectiveIsLatest`, `crossed`.
- The call in a patched site pushes RIP + 5, and only a 5-byte instruction is found by
  it: a patched PCLMULQDQ or REX form ends the process (`LoneThreadIsSafe`, `Call` of
  `SseTrap`), against `sigill_emulator.c:1010`.
- The branches named vpmuldq and vpcmpeqq (`src/avx/avx_integer.c:218`, `:687`) are never
  reached: `Shadowed` above.
- vmovss, vmovsd and vmovq between registers that are the same, NEQ_UQ of a scalar
  NaN, and vzeroall are not what the architecture defines: `Diverges`.

### Bounds

`MaxTraps`, `MaxLog`, `MaxPlain`, `MaxChain`, `MaxLaunches`, `MaxFaults` and `MaxDepth` end
behaviours of the models and not of the program; where that leaves nothing to do
(`RipCache!Exhausted`, `SseTrap!Ended`) the model stutters, so deadlock stays checked,
except in the three runs whose behaviours end as they should: programs of
`SseMath` run out, `StaticPatcher` has no launches left, and a thread of `VexLanes` has
executed its instructions or was killed. `Retries` is the code's own 3;
`N` (16), `NStubs` (256), `HalfRange` (2^27 stubs) and `MaxIters` (200) are the code's
numbers made small, and every theorem below holds for the real ones. `seq` is a
natural number: its wrap at 2^32, which a reader would have to sleep through, is
not reached.

### Fairness

`RipCache!FairSpec` has weak fairness of each thread's steps in the handler, and
none of `Trap`: the kernel schedules a thread that runs, and no thread waits for
another, so its next step stays enabled until taken. `SigVirtual!FairSpec` has weak
fairness of the watchdog, which loops with `nanosleep`, and of a thread that
serves a trap, host handlers returning included; the host need not install,
displace, chain or trap. The other specifications state safety only: SseMath's
programs are straight lines whose one loop is bounded by the width (`TypeOK`), a
launch may be killed at any time, and of the traps in `SseTrap` the liveness is
`RipCache`'s.

## 4. Proofs

`tlapm` checks every proof to its leaves, for any value of the constants that the
named assumption of the module allows. TLC evaluates those assumptions in the
runs. Each module strengthens the properties into an inductive invariant
`IInv`, proved initial and preserved action by action.

- `RipCacheProofs` (from `CacheAssumption`): `TypeCorrect`, `RestingSlots`,
  `ConsistentCopies`, `OwnRereads`, `RegisterFormServed`. Of the copies alone
  nothing is inductive. `IInv` adds, for slots outside `overlap`: one thread
  stores at most, and an even `seq` means whole cells (`SlotInv`); what the
  storing thread knows of `seq` and of the cells it has already stored
  (`WriterInv`); that `seq` never goes back, so that a reader for whom it still
  stands has copied the slot's own cells (`ReaderInv`); and the same for the late
  looks (`RereadInv`).
- `SigRingProofs` (from `RingAssumption`), for every interleaving of any number of
  publishers and readers and every size of the ring and of an action: `TypeCorrect`,
  `PublishedIsWhole`, `OverrunNeedsARound` and the refinement `RingImplementsDisposition`.
  `IInv` says that a slot which is not spoilt has one writer at most and is not the
  published one meanwhile (`OneWriter`), what that writer has stored (`WriterInv`), and
  what a reader that is not overrun has copied (`ReaderInv`). A step of the ring is
  then a step or a stutter of the register; only `Publish` installs and only
  `LoadPointer` takes. `OverrunNeedsARound` needs the index as well: `SerialInv` says
  that as long as nothing overlapped the v-th published action is at `Pos(v)`
  (`PosNext` and `PosDistinct` are its arithmetic), and that a reader copies from the
  slot of the action it was after, which is taken again N publications later.
- `SigVirtualProofs` (from `VirtualAssumption`): `TypeCorrect`, `FallsBackOnce`,
  `LatestIsInEffect`. `IInv` adds what the process looks like before the
  constructor (`BootInv`), that no host handler was told of the emulator's
  (`ChainInv`), and where the action in effect is during each step of a repair
  (`EffectInv`, as long as nothing crossed).
- `PatcherProofs`, for the two parts that rewrite code. Of `CodePatch` (from
  `PatchAssumption`): `TypeCorrect`, `PatchOrder`, `PatchedIsCached`, `PagesProtected`,
  `LoneThreads`. `CodeInv` carries each store's reliance on the one before it, `CacheInv`
  the entry from its store to its use, `LoneInv` what a thread alone in the handler
  knows of the shared state, the sign of the stub counter among it (`WrapRange`
  bounds the wrap).
  Of `StaticPatcher` (from `PatcherAssumption`, for any builds, number of launchers,
  launches and faults): `PatcherTypes`, `MarkerStands`, `LatestIsLaunched`, `BackupKept`,
  `OneFaultSurvived`. None of the four properties is inductive, nor are they together:
  they speak of a launch at its end, and what makes them true is what the launchers
  held before. `PatcherInv` adds that: every file is a build as it came or pieces the
  patcher makes of builds, and what a launcher has in memory is the patch of some
  build (`FileInv`); while no update crossed a launch that build is the one in place,
  and a launch past the patcher, or a marker, means that nothing of the original is
  left to patch (`CalmInv`, `Done`); a missing piece belongs to a launcher that will
  write it, until a fault (`WholeInv`); and while launches do not overlap, there is one
  patcher, the backup is complete before the first write, and only the launcher
  that is writing can have an incomplete file (`AloneInv`); and until there is a
  complete backup nothing is rewritten, after which it stays the original of the
  first build that is or is about to be (`OriginalInv`, `Oldest`). That a patched build runs
  if the patcher serves it is a fact about the scan's order (`Epilogue`).
- `VexDispatchProofs` (from `InstructionsAssumption`): `TypeCorrect` (RIP moves by at
  most 12 bytes), `OwnBranch`, `RipMoves`, `HalvesFollow` and `RipRelativeIsFromTheEnd`, for
  every set of encodings: all 32 maps, where the run has 1 to 3, every ModRM and SIB
  byte, and every stream of them. `AllRows` shows group by group what each row of the table is like.
  `Taken` is the argument about the order: a branch that takes a named instruction
  without naming it tests no map, and then it is one of vmovaps's, which take two of
  the shadowed opcodes. Of the branch taken, `LengthRange` and the rule for its length give
  the move of RIP.
- `SseMathProofs` (from `MathAssumption`): `TypeCorrect`, `CarrylessProduct`, `AesIsFips197`,
  and, with `ScheduleAssumption`, `CipherIsUndone`.
  The loop's invariant (`MulInv`) says that the low and the high word hold at each
  position the parity of the terms added so far (`Added`); that it ends in time is
  `LoopInv`. For AES `AesInv` says what the copy holds before each step;
  `MixColumnsIsTheMatrix`, `InvMixColumnsIsTheMatrix` and `ShiftRowsIsTheRotation` are about
  all states. That the two tables are the S-boxes is an assumption of the theorem
  (`TablesAreDefined`), which TLC evaluates.
  `CipherIsUndone` is `DecryptionUndoesEncryption` for every `RoundTrip`: any number of
  rounds, any distinct key registers, all blocks and keys. It assumes the machine's
  width, W = 64, and further that the tables undo each other (`TablesAreInverse`, evaluated by
  TLC as well). `UndoInv` says how far a trip has come: there are states T(0), T(1), ...
  between the rounds, each the round of the one before, and the register holds the
  one for the instruction that is next, on the way back the substituted one;
  a key is the original or has been through AESIMC. A step of the way back is
  `RoundTaken`, which rests on `ColumnsUndone`, `ColumnsLinear`, `RoundUndone` and on a
  register being its sixteen bytes (`Memory`).
- `SseTrapProofs` (from `TrapAssumption`): `TypeCorrect`, `RegisterForms`, `MemoryForms`,
  `RepairSuffices`, for any code, threads and call offsets. `Inv` says that a site holds its instruction or a
  call, that what a thread decoded undisturbed is the whole decoding of its site
  (`ThreadOK`), as is a sound entry (`EntryOK`), and that it is still there if nobody
  replaced it (`SameOK`). That the decoding of a register form is its meaning is
  arithmetic on the fields of ModRM and REX; that the trampoline finds each
  register where it was pushed is `PushedRegisters`. `RepairedDecoding` follows
  `parse_mem_operand`, started a byte later, through its cases of mod, rm and SIB, and
  compares each with the encoding's meaning.
- `VexLanesProofs` (from the assumptions of `AvxData` and `StartAssumption`): `TypeCorrect` and
  `Refinement`, for any registers, quads, element function, instructions and depth
  of signals. The type invariant suffices: each branch's result is the
  architecture's, operation by operation and predicate by predicate, a store's
  too; a signal then pushes, and its return pops, what the interrupted level sees.

Every invariant and action property of the passing runs is stated by a theorem, the
two refinements too. Only model-checked are the liveness properties, `EveryTrapReturns`,
`DisplacementIsRepaired` and `DefaultKills`: liveness under fairness is out of the
prover's reach. What the entries of the two AES tables are is evaluated by TLC and a
hypothesis of the two theorems that need it: the reciprocal in GF(2^8) of 256 bytes
is a computation, not an argument.

## 5. Not modelled

- Vendored SIMDe, 235,000 of the repository's 245,000 lines, is third-party code; only
  the comparison of doubles, to which the emulator hands the predicate as it is,
  is modelled. The program's own code is some six thousand lines.
- The lanes of the branches that work on bytes, words, dwords or singles, convert,
  or round: data, floating point included, without control. `src/avx/avx_compare.c`
  has a second decoding of vcmp behind the one in `avx_float.c`, which never lets an
  instruction of map 0F through to it.
- The trampoline's register save: it keeps neither EFLAGS nor the 128 bytes below
  RSP (`sigill_emulator.c:811`), both of which an AES instruction leaves alone. It is
  a straight line with nothing to check.
- What a chained handler's `sa_mask`, `SA_RESETHAND` and `siglongjmp` should do
  (`:1046`); they are outside `SigVirtual`. So are forked children, which inherit the
  handler but not the watchdog (`:1487`): of a child only what `SigVirtual` says with
  no iterations left holds.
- The wrap of an entry's `seq` at 2^32, and delays of a store past a later load.
- Help and logging (text), build, benchmark, test programs and scanner (tooling).

What would add most next: one machine in which `RipCache`, `CodePatch` and `SseTrap` make
all their accesses one by one, and a refinement of "every instruction runs as
itself" by it (`SseTrap` has the same conflicts in larger steps); the lanes of bytes
and dwords in the manner of `VexLanes`; `EffectiveIsLatest` with the ring in place of
`SigVirtual`'s register.
