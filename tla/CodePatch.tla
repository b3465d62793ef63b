----------------------------- MODULE CodePatch -----------------------------
(***************************************************************************)
(* The experimental mode of src/src/sigill_emulator.c: the handler of a    *)
(* SIGILL rewrites the instruction into a call (patch_code), through a     *)
(* stub in an island page (allocate_trampoline_island) and to the          *)
(* trampoline, which finds the decoding in rip_cache again.                *)
(*                                                                         *)
(* The code of a site is its first byte and its tail, the rel32 of a call  *)
(* and the NOPs after it.  A thread fetches both at once.  The cache is    *)
(* the site each entry is for; RipCache models its sequence lock.          *)
(***************************************************************************)
EXTENDS Integers

CONSTANTS
  Thread,    \* threads of the host
  Site,      \* register-form AES / PCLMULQDQ instructions
  Length,    \* their bytes_consumed: 5 to 7
  SlotOf,    \* get_cache_index
  Region,    \* what each is within 2 GB of
  PageOf,    \* the number of the page each is in
  Mapped,    \* the pages of the host's code
  NStubs,    \* stubs of an island page: 256
  HalfRange, \* island_used_bytes, in stubs, wraps to its negative: 2^27
  NoSite, NoPage, NoStub, Original, Astray

\* An island page, by the thread that mapped it and what it is close to.
Page == [by : Thread, region : {Region[s] : s \in Site}]

ASSUME PatchAssumption ==
  /\ NoSite \notin Site /\ NoPage \notin Page
  /\ Length \in [Site -> Nat]
  /\ Mapped \subseteq Nat
  /\ PageOf \in [Site -> Mapped]
  /\ NStubs \in Nat /\ HalfRange \in Nat /\ NStubs < HalfRange

VARIABLES
  first,    \* the first byte of every site: its own, 0xCC or 0xE8
  tail,     \* the rest of its bytes: its own, or where the call leads
  writable, \* the pages of code that are PROT_WRITE
  island,   \* island_page
  used,     \* island_used_bytes / 16
  written,  \* the stubs that hold a jump to trampoline_entry
  cache,    \* entry->rip of every entry
  overlap,  \* history: the entries that two threads have stored to at once
  pc,       \* where each thread is in handler() and patch_code()
  at,       \* rip
  stub,     \* the offset of a thread's stub, then the stub
  death,    \* how the process ended and at which site, if it has
  crowded   \* history: a thread ran a site while another was in handler()

vars == <<first, tail, writable, island, used, written, cache, overlap, pc, at,
          stub, death, crowded>>

Slots == {SlotOf[s] : s \in Site}
Stub == [page : Page, offset : 0 .. NStubs - 1]
Alive == death.how = "no"

\* The pages that patch_code passes to mprotect.
Span(s) == {PageOf[s], PageOf[s] + 1}

\* Where a thread is between its two calls of mprotect.
Opened == {"int3", "tail", "call", "close"}

\* The threads between the first and the last store of seq of an entry.
Storing(sl) == {t \in Thread : pc[t] = "storing" /\ SlotOf[at[t]] = sl}

Init ==
  /\ first = [s \in Site |-> "own"]
  /\ tail = [s \in Site |-> Original]
  /\ writable = {}
  /\ island = NoPage
  /\ used = 0
  /\ written = {}
  /\ cache = [sl \in Slots |-> NoSite]
  /\ overlap = {}
  /\ pc = [t \in Thread |-> "run"]
  /\ at = [t \in Thread |-> NoSite]
  /\ stub = [t \in Thread |-> NoStub]
  /\ death = [how |-> "no", site |-> NoSite]
  /\ crowded = FALSE

-----------------------------------------------------------------------------
Die(how, s) == death' = [how |-> how, site |-> s]

Goto(t, where) == pc' = [pc EXCEPT ![t] = where]

\* Back to the host's code, after the instruction.
Return(t) ==
  /\ Goto(t, "run")
  /\ at' = [at EXCEPT ![t] = NoSite]
  /\ stub' = [stub EXCEPT ![t] = NoStub]

\* An instruction the CPU lacks: SIGILL.
Illegal(t, s) ==
  /\ first[s] = "own"
  /\ Goto(t, "look")
  /\ at' = [at EXCEPT ![t] = s]
  /\ UNCHANGED death

\* INT3: SIGTRAP, with RIP one past the 0xCC.  handler() looks at the byte
\* there, the instruction's second or the lowest of the new displacement: if it
\* happens to be 0xCC or 0xE8 the thread resumes at it, inside the instruction, and
\* any other goes to the previous action, which is SIG_DFL.
Breakpoint(s) ==
  /\ first[s] = "int3"
  /\ \E how \in {"inside", "trap"} : Die(how, s)
  /\ UNCHANGED <<pc, at>>

\* Fault: the sizes start at 6.
FindsNone(s) == FALSE

\* find_cache_entry_by_ret_addr(ret_addr): the return address is 5 bytes after
\* rip, so that of its sizes 5 .. 9 only 5 leads back to rip.
FindsEntry(s) == cache[SlotOf[s]] = s /\ Length[s] = 5

\* call rel32, through the stub to trampoline_c_helper, which emulates the
\* instruction or leaves with _exit(135).
CallStub(s) ==
  /\ first[s] = "call"
  /\ \/ tail[s] \in written /\ FindsEntry(s) /\ UNCHANGED death
     \/ /\ tail[s] \in written
        /\ (~FindsEntry(s) \/ Storing(SlotOf[s]) # {})
        /\ Die("lost", s)
     \/ tail[s] \notin written /\ Die("astray", s)
  /\ UNCHANGED <<pc, at>>

Execute(t, s) ==
  /\ Alive /\ pc[t] = "run"
  /\ Illegal(t, s) \/ Breakpoint(s) \/ CallStub(s)
  /\ crowded' = (crowded \/ \E u \in Thread : pc[u] # "run")
  /\ UNCHANGED <<first, tail, writable, island, used, written, cache, overlap,
                 stub>>

-----------------------------------------------------------------------------
\* The look-up in rip_cache: a hit is emulated.  The read loop ends without one
\* while another thread stores to the entry; after two have at once, seq tells
\* nothing.
LookUp(t) ==
  /\ Alive /\ pc[t] = "look"
  /\ LET sl == SlotOf[at[t]] IN
       \/ /\ cache[sl] = at[t]
          /\ Storing(sl) = {} \/ sl \in overlap
          /\ Return(t)
       \/ /\ cache[sl] # at[t] \/ Storing(sl) # {} \/ sl \in overlap
          /\ Goto(t, "decode") /\ UNCHANGED <<at, stub>>
  /\ UNCHANGED <<first, tail, writable, island, used, written, cache, overlap,
                 death, crowded>>

\* Bytes that are not an instruction of the emulator's go to the old handler.
Decode(t) ==
  /\ Alive /\ pc[t] = "decode"
  /\ IF first[at[t]] = "own" /\ tail[at[t]] = Original
       THEN Goto(t, "store") /\ UNCHANGED death
       ELSE Die("chained", at[t]) /\ UNCHANGED pc
  /\ UNCHANGED <<first, tail, writable, island, used, written, cache, overlap,
                 at, stub, crowded>>

\* Fault: the entry is not stored.
ForgetSite(t) == UNCHANGED cache

\* entry->rip = rip, after the odd seq
StoreSite(t) == cache' = [cache EXCEPT ![SlotOf[at[t]]] = at[t]]

StoreBegin(t) ==
  /\ Alive /\ pc[t] = "store"
  /\ StoreSite(t)
  /\ overlap' = IF Storing(SlotOf[at[t]]) = {} THEN overlap
                                               ELSE overlap \cup {SlotOf[at[t]]}
  /\ Goto(t, "storing")
  /\ UNCHANGED <<first, tail, writable, island, used, written, at, stub, death,
                 crowded>>

\* The other fields and the even seq; then patch_code is called.
StoreEnd(t) ==
  /\ Alive /\ pc[t] = "storing"
  /\ Goto(t, "patch")
  /\ UNCHANGED <<first, tail, writable, island, used, written, cache, overlap,
                 at, stub, death, crowded>>

-----------------------------------------------------------------------------
\* if (!island_page)
CheckIsland(t) ==
  /\ Alive /\ pc[t] = "patch"
  /\ Goto(t, IF island = NoPage THEN "map" ELSE "take")
  /\ UNCHANGED <<first, tail, writable, island, used, written, cache, overlap,
                 at, stub, death, crowded>>

\* island_page = allocate_trampoline_island(rip): a page near this site, or NULL.
\* It replaces what another thread has set meanwhile.
MapIsland(t) ==
  /\ Alive /\ pc[t] = "map"
  /\ \/ /\ island' = [by |-> t, region |-> Region[at[t]]]
        /\ Goto(t, "take") /\ UNCHANGED <<at, stub>>
     \/ island' = NoPage /\ Return(t)
  /\ UNCHANGED <<first, tail, writable, used, written, cache, overlap, death,
                 crowded>>

\* Fault: the counter is wider than an int.
Unwrapped(n) == n

\* The width of the counter.
Wrap(n) == ((n + HalfRange) % (2 * HalfRange)) - HalfRange

\* offset = fetch_add(island_used_bytes, 16), which counts on when no stub is left.
TakeStub(t) ==
  /\ Alive /\ pc[t] = "take"
  /\ used' = Wrap(used + 1)
  /\ IF used >= NStubs
       THEN Return(t)
       ELSE /\ Goto(t, "stub") /\ UNCHANGED at
            /\ stub' = [stub EXCEPT ![t] = used]
  /\ UNCHANGED <<first, tail, writable, island, written, cache, overlap, death,
                 crowded>>

\* stub = island_page + offset: below the page, or near address 0, it is not
\* memory of the island.
WriteStub(t) ==
  /\ Alive /\ pc[t] = "stub"
  /\ IF stub[t] < 0 \/ island = NoPage
       THEN Die("stray", at[t]) /\ UNCHANGED <<written, stub, pc>>
       ELSE LET new == [page |-> island, offset |-> stub[t]]
            IN  /\ written' = written \cup {new}
                /\ stub' = [stub EXCEPT ![t] = new]
                /\ Goto(t, "open") /\ UNCHANGED death
  /\ UNCHANGED <<first, tail, writable, island, used, cache, overlap, at,
                 crowded>>

\* mprotect(page_start, 2 pages, RWX), which is denied, or fails at the second
\* page after it has opened the first.
Open(t) ==
  /\ Alive /\ pc[t] = "open"
  /\ \/ /\ Span(at[t]) \subseteq Mapped
        /\ writable' = writable \cup Span(at[t])
        /\ Goto(t, "int3") /\ UNCHANGED <<at, stub>>
     \/ ~(Span(at[t]) \subseteq Mapped)
        /\ writable' = writable \cup {PageOf[at[t]]}
        /\ Return(t)
     \/ UNCHANGED writable /\ Return(t)
  /\ UNCHANGED <<first, tail, island, used, written, cache, overlap, death,
                 crowded>>

\* A store to the code of t's site: the process dies of SIGSEGV on a page that is
\* not writable.
Faults(t) == PageOf[at[t]] \notin writable /\ Die("fault", at[t])
               /\ UNCHANGED <<first, tail, pc>>
Stores(t, where) ==
  PageOf[at[t]] \in writable /\ Goto(t, where) /\ UNCHANGED death

\* Fault: the first byte is left.
SkipInt3(t) == UNCHANGED first

Int3(t) == first' = [first EXCEPT ![at[t]] = "int3"]

\* rip[0] = 0xCC
PutInt3(t) ==
  /\ Alive /\ pc[t] = "int3"
  /\ \/ Stores(t, "tail") /\ Int3(t) /\ UNCHANGED tail
     \/ Faults(t)
  /\ UNCHANGED <<writable, island, used, written, cache, overlap, at, stub,
                 crowded>>

\* The call offset is truncated to 32 bits: it leads to the stub from within 2 GB.
Target(t) == IF stub[t].page.region = Region[at[t]] THEN stub[t] ELSE Astray

\* memcpy(rip + 1, &call_offset, 4), and the NOPs
PutTail(t) ==
  /\ Alive /\ pc[t] = "tail"
  /\ \/ /\ Stores(t, "call")
        /\ tail' = [tail EXCEPT ![at[t]] = Target(t)]
        /\ UNCHANGED first
     \/ Faults(t)
  /\ UNCHANGED <<writable, island, used, written, cache, overlap, at, stub,
                 crowded>>

\* rip[0] = 0xE8
PutCall(t) ==
  /\ Alive /\ pc[t] = "call"
  /\ \/ /\ Stores(t, "close")
        /\ first' = [first EXCEPT ![at[t]] = "call"]
        /\ UNCHANGED tail
     \/ Faults(t)
  /\ UNCHANGED <<writable, island, used, written, cache, overlap, at, stub,
                 crowded>>

\* Fault: the pages are left writable.
LeaveOpen(t) == UNCHANGED writable

Protect(t) == writable' = writable \ Span(at[t])

\* mprotect(page_start, 2 pages, R|X), and the handler returns.
Close(t) ==
  /\ Alive /\ pc[t] = "close"
  /\ Protect(t)
  /\ Return(t)
  /\ UNCHANGED <<first, tail, island, used, written, cache, overlap, death,
                 crowded>>

Handle(t) ==
  \/ LookUp(t) \/ Decode(t) \/ StoreBegin(t) \/ StoreEnd(t)
  \/ CheckIsland(t) \/ MapIsland(t) \/ TakeStub(t) \/ WriteStub(t)
  \/ Open(t) \/ PutInt3(t) \/ PutTail(t) \/ PutCall(t) \/ Close(t)

\* The process has ended.
Ended == ~Alive /\ UNCHANGED vars

Next ==
  \/ \E t \in Thread : Handle(t) \/ \E s \in Site : Execute(t, s)
  \/ Ended

Spec == Init /\ [][Next]_vars

-----------------------------------------------------------------------------
\* Types: island_used_bytes wraps and does not grow beyond an int, and no call is
\* written without a stub in the page (patch_code).
TypeOK ==
  /\ first \in [Site -> {"own", "int3", "call"}]
  /\ tail \in [Site -> Stub \cup {Original, Astray}]
  /\ writable \subseteq Mapped
  /\ island \in Page \cup {NoPage}
  /\ used \in -HalfRange .. HalfRange - 1
  /\ written \subseteq Stub
  /\ cache \in [Slots -> Site \cup {NoSite}]
  /\ overlap \subseteq Slots
  /\ pc \in [Thread -> {"run", "look", "decode", "store", "storing", "patch", "map",
                        "take", "stub", "open", "int3", "tail", "call", "close"}]
  /\ at \in [Thread -> Site \cup {NoSite}]
  /\ \A t \in Thread : pc[t] # "run" => at[t] \in Site
  /\ \A t \in Thread :
       /\ pc[t] = "stub" => stub[t] \in -HalfRange .. NStubs - 1
       /\ pc[t] \in {"open"} \cup Opened => stub[t] \in Stub
  /\ death \in [how : {"no", "trap", "inside", "lost", "astray", "chained", "stray",
                       "fault"},
                site : Site \cup {NoSite}]
  /\ crowded \in BOOLEAN

(***************************************************************************)
(* The stores of patch_code are ordered for the other threads: a site      *)
(* whose first byte is still its own is whole, so no thread decodes a      *)
(* mixture, and a live call leads to a stub that holds its jump, or astray *)
(* if the site is not within reach of an island made for another one.      *)
(***************************************************************************)
CodeIsWhole ==
  \A s \in Site :
    /\ first[s] = "own" => tail[s] = Original
    /\ first[s] = "call" =>
         \/ tail[s] \in written
         \/ tail[s] = Astray /\ \E u \in Site : Region[u] # Region[s]

(***************************************************************************)
(* The trampoline can find what handler() decoded: a patched site that     *)
(* shares its entry with no other is in the cache.                         *)
(***************************************************************************)
Unshared(s) == \A u \in Site : SlotOf[u] = SlotOf[s] => u = s

PatchedSiteIsCached ==
  \A s \in Site : first[s] # "own" /\ Unshared(s) => cache[SlotOf[s]] = s

(***************************************************************************)
(* Code pages are executable and not writable again when nobody patches    *)
(* them, but for the last page of a mapping, whose mprotect fails half-way *)
(* and is not undone.                                                      *)
(***************************************************************************)
PagesAtRestAreProtected ==
  \A p \in writable :
    \/ \E t \in Thread : pc[t] \in Opened /\ p \in Span(at[t])
    \/ p + 1 \notin Mapped

(***************************************************************************)
(* Patching does not endanger a program whose threads are never in the     *)
(* handler while another runs a patched or patchable site: the process     *)
(* then only ends in a call of an instruction that is not 5 bytes long,    *)
(* that shares its cache entry, or that is out of the island's reach, and  *)
(* at the first patch after island_used_bytes has wrapped.                 *)
(***************************************************************************)
LoneThreadIsSafe ==
  \/ Alive
  \/ crowded
  \/ death.how = "lost" /\ (Length[death.site] # 5 \/ ~Unshared(death.site))
  \/ death.how = "astray" /\ \E u \in Site : Region[u] # Region[death.site]
  \/ death.how = "stray" /\ used = 1 - HalfRange

(***************************************************************************)
(* The comment at the INT3 protocol of patch_code: a thread that hits the  *)
(* 0xCC "raises SIGTRAP. Our SIGTRAP handler simply spins/returns          *)
(* immediately, causing the thread to wait and retry".                     *)
(***************************************************************************)
BreakpointIsRetried == death.how \notin {"inside", "trap"}
=============================================================================
