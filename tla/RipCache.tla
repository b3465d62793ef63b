------------------------------ MODULE RipCache ------------------------------
(***************************************************************************)
(* The direct-mapped instruction cache of src/src/sigill_emulator.c:       *)
(* rip_cache, and the part of handler() that looks an instruction up under *)
(* the sequence lock, and decodes and stores it when the look-up fails.    *)
(*                                                                         *)
(* One action makes one access to shared memory.  x86-TSO lets a thread    *)
(* see the plain loads and stores around the __atomic accesses in program  *)
(* order, so the interleavings below are the ones the hardware produces.   *)
(*                                                                         *)
(* A cache entry is cells 0 .. NCells.  Cell 0 is entry->rip, cell 1 holds *)
(* the operation (op_type, reg_idx, rm_idx, is_mem, has_rex), and the last *)
(* one the length and the address fields.  The value of a cell is the site *)
(* whose decoding it came from; NoSite is the zero of the static table.    *)
(***************************************************************************)
EXTENDS Integers

CONSTANTS
  Thread,    \* threads of the host program, each with its own signal context
  Site,      \* addresses of AES / PCLMULQDQ instructions
  MemSite,   \* the sites whose source operand is in memory
  Slot,      \* entries of rip_cache
  SlotOf,    \* get_cache_index: two sites may share a slot
  NCells,    \* the last cell of an entry
  Retries,   \* reads of an entry before the handler decodes instead: 3
  MaxTraps,  \* bound on the SIGILLs of a behaviour
  NoSite

ASSUME CacheAssumption ==
  /\ MemSite \subseteq Site
  /\ NoSite \notin Site
  /\ SlotOf \in [Site -> Slot]
  /\ NCells \in Nat \ {0}
  /\ Retries \in Nat \ {0}
  /\ MaxTraps \in Nat

VARIABLES
  seq,      \* entry->seq of every slot
  cell,     \* the other fields of every slot
  pc,       \* where each thread is in handler()
  at,       \* the trapped instruction (rip) of each thread
  tries,    \* retry of the read loop
  k,        \* the next cell the thread loads or stores
  seen,     \* the thread's seq1 or seq_val: the last entry->seq it loaded
  snap,     \* the cached_* locals, one per cell
  out,      \* history: whose decoding the last finished trap was served with
  overlap,  \* history: the slots that two threads have stored to at once
  traps     \* history: SIGILLs so far

vars == <<seq, cell, pc, at, tries, k, seen, snap, out, overlap, traps>>

Cells == 0 .. NCells
Value == Site \cup {NoSite}
Blank == [c \in Cells |-> NoSite]
Unserved == [op |-> NoSite, len |-> NoSite]

\* Fault: the parity of seq1 is not tested.
OddUntested(n) == FALSE

\* seq & 1: a write of the entry is in progress.
Odd(n) == n % 2 = 1

\* The slot a trapped thread works on (entry = &rip_cache[idx]).
SlotFor(t) == SlotOf[at[t]]

\* The threads between the load of seq_val and the last store of seq.
Storing(sl) ==
  {t \in Thread : pc[t] \in {"odd", "store", "even"} /\ SlotFor(t) = sl}

Init ==
  /\ seq = [sl \in Slot |-> 0]
  /\ cell = [sl \in Slot |-> Blank]
  /\ pc = [t \in Thread |-> "run"]
  /\ at = [t \in Thread |-> NoSite]
  /\ tries = [t \in Thread |-> 0]
  /\ k = [t \in Thread |-> 0]
  /\ seen = [t \in Thread |-> 0]
  /\ snap = [t \in Thread |-> Blank]
  /\ out = [t \in Thread |-> Unserved]
  /\ overlap = {}
  /\ traps = 0

-----------------------------------------------------------------------------
\* A thread executes an instruction the CPU lacks and the kernel enters handler.
Trap(t, s) ==
  /\ pc[t] = "run"
  /\ traps < MaxTraps
  /\ pc' = [pc EXCEPT ![t] = "seq1"]
  /\ at' = [at EXCEPT ![t] = s]
  /\ tries' = [tries EXCEPT ![t] = 0]
  /\ out' = [out EXCEPT ![t] = Unserved]
  /\ traps' = traps + 1
  /\ UNCHANGED <<seq, cell, k, seen, snap, overlap>>

\* Fault: the loop has no bound, or one turn too many.
RetryForever(t) == pc' = [pc EXCEPT ![t] = "seq1"] /\ UNCHANGED tries
RetryOnceMore(t) ==
  /\ tries' = [tries EXCEPT ![t] = @ + 1]
  /\ pc' = [pc EXCEPT ![t] = IF tries[t] + 1 <= Retries THEN "seq1" ELSE "miss"]

\* A failed read: the next turn of the loop, or the end of it without a hit.
Retry(t) ==
  /\ tries' = [tries EXCEPT ![t] = @ + 1]
  /\ pc' = [pc EXCEPT ![t] = IF tries[t] + 1 < Retries THEN "seq1" ELSE "miss"]

\* seq1 = load(entry->seq); an odd value means a write in progress.
LoadSeq1(t) ==
  /\ pc[t] = "seq1"
  /\ seen' = [seen EXCEPT ![t] = seq[SlotFor(t)]]
  /\ k' = [k EXCEPT ![t] = 0]
  /\ IF Odd(seq[SlotFor(t)])
       THEN Retry(t)
       ELSE pc' = [pc EXCEPT ![t] = "read"] /\ UNCHANGED tries
  /\ UNCHANGED <<seq, cell, at, snap, out, overlap, traps>>

\* The copies of the entry's fields into the cached_* locals, one by one.
ReadCell(t) ==
  /\ pc[t] = "read"
  /\ snap' = [snap EXCEPT ![t][k[t]] = cell[SlotFor(t)][k[t]]]
  /\ k' = [k EXCEPT ![t] = @ + 1]
  /\ pc' = [pc EXCEPT ![t] = IF k[t] = NCells THEN "seq2" ELSE "read"]
  /\ UNCHANGED <<seq, cell, at, tries, seen, out, overlap, traps>>

\* Fault: seq is not compared.
SeqUncompared(t) == TRUE

\* seq1 == seq2
SeqUnchanged(t) == seq[SlotFor(t)] = seen[t]

\* seq2 = load(entry->seq): equal values accept the copy, a hit if it is for rip.
LoadSeq2(t) ==
  /\ pc[t] = "seq2"
  /\ IF SeqUnchanged(t)
       THEN /\ pc' = [pc EXCEPT ![t] = IF snap[t][0] = at[t] THEN "hit" ELSE "miss"]
            /\ UNCHANGED tries
       ELSE Retry(t)
  /\ UNCHANGED <<seq, cell, at, k, seen, snap, out, overlap, traps>>

\* The handler returns with RIP advanced by the length found in `len`'s decoding,
\* having emulated the operation found in `op`'s.
Return(t, op, len) ==
  /\ pc' = [pc EXCEPT ![t] = "run"]
  /\ out' = [out EXCEPT ![t] = [op |-> op, len |-> len]]
  /\ snap' = [snap EXCEPT ![t] = Blank]

\* A hit is emulated from the copy; an op_type of 0 is no operation and falls
\* through to the decoder.
Hit(t) ==
  /\ pc[t] = "hit"
  /\ IF snap[t][1] = NoSite
       THEN pc' = [pc EXCEPT ![t] = "miss"] /\ UNCHANGED <<out, snap>>
       ELSE Return(t, snap[t][1], snap[t][NCells])
  /\ UNCHANGED <<seq, cell, at, tries, k, seen, overlap, traps>>

-----------------------------------------------------------------------------
\* The decoder works on the thread's own bytes; its first shared access is the
\* load of seq_val.  Nothing keeps a second thread from doing the same.
LoadSeqVal(t) ==
  /\ pc[t] = "miss"
  /\ pc' = [pc EXCEPT ![t] = "odd"]
  /\ seen' = [seen EXCEPT ![t] = seq[SlotFor(t)]]
  /\ k' = [k EXCEPT ![t] = 0]
  /\ overlap' = IF Storing(SlotFor(t)) = {} THEN overlap
                                            ELSE overlap \cup {SlotFor(t)}
  /\ UNCHANGED <<seq, cell, at, tries, snap, out, traps>>

\* Fault: the write is not announced, or its end is not.
Unannounced(t) == UNCHANGED seq

\* store(entry->seq, seq_val + 1) and store(entry->seq, seq_val + 2)
WriteBegin(t) == seq' = [seq EXCEPT ![SlotFor(t)] = seen[t] + 1]
WriteEnd(t) == seq' = [seq EXCEPT ![SlotFor(t)] = seen[t] + 2]

\* The entry is marked as being written.
StoreOdd(t) ==
  /\ pc[t] = "odd"
  /\ WriteBegin(t)
  /\ pc' = [pc EXCEPT ![t] = "store"]
  /\ UNCHANGED <<cell, at, tries, k, seen, snap, out, overlap, traps>>

\* The stores of the entry's fields, rip first (parse_mem_operand's among them).
StoreCell(t) ==
  /\ pc[t] = "store"
  /\ cell' = [cell EXCEPT ![SlotFor(t)][k[t]] = at[t]]
  /\ k' = [k EXCEPT ![t] = @ + 1]
  /\ pc' = [pc EXCEPT ![t] = IF k[t] = NCells THEN "even" ELSE "store"]
  /\ UNCHANGED <<seq, at, tries, seen, snap, out, overlap, traps>>

\* The entry is whole again.  The register form then returns with the length
\* in a local; the memory form goes on to use the entry itself.
StoreEven(t) ==
  /\ pc[t] = "even"
  /\ WriteEnd(t)
  /\ IF at[t] \in MemSite
       THEN pc' = [pc EXCEPT ![t] = "addr"] /\ UNCHANGED <<out, snap>>
       ELSE Return(t, at[t], at[t])
  /\ UNCHANGED <<cell, at, tries, k, seen, overlap, traps>>

\* resolve_mem_addr_fast(uc, rip, entry->bytes_consumed, ...): outside the lock.
LoadAddress(t) ==
  /\ pc[t] = "addr"
  /\ snap' = [snap EXCEPT ![t][1] = cell[SlotFor(t)][NCells]]
  /\ pc' = [pc EXCEPT ![t] = "len"]
  /\ UNCHANGED <<seq, cell, at, tries, k, seen, out, overlap, traps>>

\* gregs[REG_RIP] += entry->bytes_consumed: outside the lock too.
LoadLength(t) ==
  /\ pc[t] = "len"
  /\ Return(t, snap[t][1], cell[SlotFor(t)][NCells])
  /\ UNCHANGED <<seq, cell, at, tries, k, seen, overlap, traps>>

\* The steps of handler() that a scheduled thread takes.
Handle(t) ==
  \/ LoadSeq1(t) \/ ReadCell(t) \/ LoadSeq2(t) \/ Hit(t)
  \/ LoadSeqVal(t) \/ StoreOdd(t) \/ StoreCell(t) \/ StoreEven(t)
  \/ LoadAddress(t) \/ LoadLength(t)

\* The bound on traps ends a behaviour of the model, not of the program.
Exhausted ==
  /\ traps = MaxTraps
  /\ \A t \in Thread : pc[t] = "run"
  /\ UNCHANGED vars

Next ==
  \/ \E t \in Thread : Handle(t) \/ \E s \in Site : Trap(t, s)
  \/ Exhausted

Spec == Init /\ [][Next]_vars

\* The kernel schedules every thread; no thread has to trap.
FairSpec == Spec /\ \A t \in Thread : WF_vars(Handle(t))

-----------------------------------------------------------------------------
\* Types of the entries and of the handler's locals: a read is tried at most Retries
\* times, and a trapped thread knows its instruction (handler).
TypeOK ==
  /\ seq \in [Slot -> Nat]
  /\ cell \in [Slot -> [Cells -> Value]]
  /\ pc \in [Thread -> {"run", "seq1", "read", "seq2", "hit", "miss", "odd",
                        "store", "even", "addr", "len"}]
  /\ at \in [Thread -> Value]
  /\ \A t \in Thread : pc[t] # "run" => at[t] \in Site
  /\ tries \in [Thread -> 0 .. Retries]
  /\ \A t \in Thread : pc[t] \in {"seq1", "read", "seq2"} => tries[t] < Retries
  /\ k \in [Thread -> 0 .. NCells + 1]
  /\ \A t \in Thread : pc[t] \in {"read", "odd", "store"} => k[t] \in Cells
  /\ seen \in [Thread -> Nat]
  /\ snap \in [Thread -> [Cells -> Value]]
  /\ out \in [Thread -> [op : Value, len : Value]]
  /\ overlap \subseteq Slot
  /\ traps \in 0 .. MaxTraps

Uniform(f) == \A c, d \in Cells : f[c] = f[d]

(***************************************************************************)
(* A reader about to find seq unchanged (handler, the seq1 == seq2 test)   *)
(* holds the cells of one single decoding, in every slot that no two       *)
(* threads have stored to at once.                                         *)
(***************************************************************************)
AcceptedCopyIsConsistent ==
  \A t \in Thread :
    /\ pc[t] = "seq2"
    /\ SlotFor(t) \notin overlap
    /\ seq[SlotFor(t)] = seen[t]
    => Uniform(snap[t])

(***************************************************************************)
(* A slot that nobody stores to is readable (even seq) and holds one       *)
(* decoding, unless two threads have stored to it at once before.          *)
(***************************************************************************)
SlotAtRestIsReadable ==
  \A sl \in Slot :
    sl \notin overlap /\ Storing(sl) = {} => ~Odd(seq[sl]) /\ Uniform(cell[sl])

(***************************************************************************)
(* The memory form uses the shared entry after its last store of seq: the  *)
(* length it finds is its own as long as seq is still the value it stored. *)
(* A second look at seq would therefore have been enough.                  *)
(***************************************************************************)
RereadIsOwnWhileSeqStands ==
  \A t \in Thread :
    /\ pc[t] \in {"addr", "len"}
    /\ SlotFor(t) \notin overlap
    /\ seq[SlotFor(t)] = seen[t] + 2
    => cell[SlotFor(t)][NCells] = at[t]

\* The last trap of t ended with its own instruction emulated, and RIP advanced by
\* that instruction's length.
Served(t) == out[t] = [op |-> at[t], len |-> at[t]]

(***************************************************************************)
(* A register-form instruction is emulated as itself and RIP advanced by   *)
(* its own length, whatever hits, evictions and retries led there, unless  *)
(* two threads have stored to its slot at once.                            *)
(***************************************************************************)
RegisterFormServedAsItself ==
  \A t \in Thread :
    /\ pc[t] = "run"
    /\ at[t] \in Site \ MemSite
    /\ SlotFor(t) \notin overlap
    => Served(t)

(***************************************************************************)
(* Every SIGILL handler returns: the read loop is bounded, so a reader     *)
(* does not wait for a writer, nor for a slot left odd for ever.           *)
(***************************************************************************)
EveryTrapReturns == \A t \in Thread : pc[t] # "run" ~> pc[t] = "run"

(***************************************************************************)
(* The claim of src/docs/LEARNING_GUIDE.md, "otherwise, the data is        *)
(* guaranteed to be consistent", without the exception for slots that two  *)
(* threads stored to: every trap is served with its own decoding.          *)
(***************************************************************************)
EveryTrapServedAsItself ==
  \A t \in Thread : pc[t] = "run" /\ at[t] \in Site => Served(t)
=============================================================================
