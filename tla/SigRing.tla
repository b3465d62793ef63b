------------------------------ MODULE SigRing ------------------------------
(***************************************************************************)
(* The publication ring of src/src/sigill_emulator.c: sa_slots,            *)
(* sa_slot_idx and active_sa, or their sa_trap_* twins, after the          *)
(* constructor.  The interposed sigaction() and the watchdog publish an    *)
(* action in it; sigaction() and fallback_to_old_handler() read the        *)
(* published one through get_active_sa().                                  *)
(*                                                                         *)
(* One action makes one access to shared memory.  A struct sigaction is    *)
(* copied part by part; the value of a part is the action it belongs to.   *)
(***************************************************************************)
EXTENDS Integers, Sequences

CONSTANTS
  Thread,     \* threads of the host, the watchdog among them
  Publisher,  \* the threads that install actions
  Reader,     \* the threads that ask for the action, by oldact or in a trap
  N,          \* slots of the ring: 16
  LastPart,   \* a struct sigaction is parts 0 .. LastPart
  Act,        \* actions
  SigDfl,     \* the action that a zeroed struct sigaction is
  NoAct,      \* the null pointer, for act
  MaxLog      \* bound: no call installs an action after that many

ASSUME RingAssumption ==
  /\ Publisher \subseteq Thread /\ Reader \subseteq Thread
  /\ N \in Nat /\ N > 1
  /\ LastPart \in Nat \ {0}
  /\ SigDfl \in Act /\ NoAct \notin Act
  /\ MaxLog \in Nat

VARIABLES
  slot,    \* sa_slots
  idx,     \* sa_slot_idx
  active,  \* the index of the slot active_sa points to
  pc,      \* where each thread is in sigaction() or get_active_sa()
  want,    \* act of each thread's call
  ptr,     \* published: the slot get_active_sa copies
  copy,    \* sa: what it has copied so far
  next,    \* next_idx
  k,       \* the next part the thread copies or stores
  log,     \* history: the published actions, the constructor's first
  from,    \* history: the length of log when the thread loaded ptr
  spoilt,  \* history: slots last taken while published or stored to by another
  overrun, \* history: threads whose slot was taken again, or spoilt, as they read
  overlapped \* history: a publication has begun before the last one returned

history == <<log, from, spoilt, overrun, overlapped>>
vars == <<slot, idx, active, pc, want, ptr, copy, next, k, history>>

Parts == 0 .. LastPart
Whole(a) == [p \in Parts |-> a]

\* The constructor has published the action it found in the kernel in slot 0.
Init ==
  /\ \E a \in Act : /\ slot = [i \in 0 .. N - 1 |-> Whole(IF i = 0 THEN a ELSE SigDfl)]
                    /\ log = <<a>>
  /\ idx = 0
  /\ active = 0
  /\ pc = [t \in Thread |-> "idle"]
  /\ want = [t \in Thread |-> NoAct]
  /\ ptr = [t \in Thread |-> 0]
  /\ copy = [t \in Thread |-> Whole(SigDfl)]
  /\ next = [t \in Thread |-> 0]
  /\ k = [t \in Thread |-> 0]
  /\ from = [t \in Thread |-> 1]
  /\ spoilt = {}
  /\ overrun = {}
  /\ overlapped = FALSE

-----------------------------------------------------------------------------
\* sigaction(SIGILL, a, old), with null pointers for a or old.  A trap that
\* falls back, which reads the action to chain to, is the call with a null a.
Call(t, a, old) ==
  /\ pc[t] = "idle"
  /\ want' = [want EXCEPT ![t] = a]
  /\ pc' = [pc EXCEPT ![t] = IF old THEN "pointer" ELSE "index"]
  /\ UNCHANGED <<slot, idx, active, ptr, copy, next, k, history>>

\* published = active_sa, after the memset of sa
LoadPointer(t) ==
  /\ pc[t] = "pointer"
  /\ pc' = [pc EXCEPT ![t] = "copy"]
  /\ ptr' = [ptr EXCEPT ![t] = active]
  /\ from' = [from EXCEPT ![t] = Len(log)]
  /\ copy' = [copy EXCEPT ![t] = Whole(SigDfl)]
  /\ k' = [k EXCEPT ![t] = 0]
  /\ overrun' = IF active \in spoilt THEN overrun \cup {t} ELSE overrun \ {t}
  /\ UNCHANGED <<slot, idx, active, want, next, log, spoilt, overlapped>>

\* Fault: active_sa is read again for each part.
RereadPointer(t) ==
  /\ pc[t] = "copy"
  /\ copy' = [copy EXCEPT ![t][k[t]] = slot[active][k[t]]]
  /\ k' = [k EXCEPT ![t] = @ + 1]
  /\ pc' = [pc EXCEPT ![t] = IF k[t] = LastPart THEN "copied" ELSE "copy"]
  /\ UNCHANGED <<slot, idx, active, want, ptr, next, history>>

\* sa = *published
CopyPart(t) ==
  /\ pc[t] = "copy"
  /\ copy' = [copy EXCEPT ![t][k[t]] = slot[ptr[t]][k[t]]]
  /\ k' = [k EXCEPT ![t] = @ + 1]
  /\ pc' = [pc EXCEPT ![t] = IF k[t] = LastPart THEN "copied" ELSE "copy"]
  /\ UNCHANGED <<slot, idx, active, want, ptr, next, history>>

\* *oldact is assigned, or the action chained to; without an act that is all.
\* The locals of get_active_sa are gone, and copy is now what was handed out.
HandOut(t) ==
  /\ pc[t] = "copied"
  /\ pc' = [pc EXCEPT ![t] = IF want[t] = NoAct THEN "idle" ELSE "index"]
  /\ ptr' = [ptr EXCEPT ![t] = 0]
  /\ k' = [k EXCEPT ![t] = 0]
  /\ UNCHANGED <<slot, idx, active, want, copy, next, history>>

\* Fault: the index does not wrap, or wraps a slot early.
UnwrappedIndex(i) == i + 1
ShortIndex(i) == (i + 1) % (N - 1)

\* (sa_slot_idx + 1) % 16
NextIndex(i) == (i + 1) % N

\* The threads that store to a slot, and those whose publication has not returned.
Storing == {t \in Thread : pc[t] \in {"put", "publish"}}
Publishing == {t \in Thread : pc[t] \in {"put", "publish", "advance"}}

\* The slot is the published one, or another thread stores to it.
InUse(n) == n = active \/ \E u \in Storing : next[u] = n

\* The threads copying from a slot.
Copying(n) == {u \in Thread : pc[u] = "copy" /\ ptr[u] = n}

\* next_idx = (sa_slot_idx + 1) % 16.  Nothing locks the index until it is
\* stored, so several threads may take the same slot, or the published one.
LoadIndex(t) ==
  /\ pc[t] = "index"
  /\ next' = [next EXCEPT ![t] = NextIndex(idx)]
  /\ k' = [k EXCEPT ![t] = 0]
  /\ pc' = [pc EXCEPT ![t] = "put"]
  /\ LET n == NextIndex(idx) IN
       /\ spoilt' = IF InUse(n) THEN spoilt \cup {n} ELSE spoilt \ {n}
       /\ overrun' = overrun \cup Copying(n)
  /\ overlapped' = (overlapped \/ Publishing # {})
  /\ UNCHANGED <<slot, idx, active, want, ptr, copy, log, from>>

\* Fault: the pointer is stored before the last part is.
PublishEarly(t) ==
  /\ pc[t] = "put"
  /\ slot' = [slot EXCEPT ![next[t]][k[t]] = want[t]]
  /\ k' = [k EXCEPT ![t] = @ + 1]
  /\ pc' = [pc EXCEPT ![t] = IF k[t] + 1 = LastPart THEN "publish" ELSE "put"]
  /\ UNCHANGED <<idx, active, want, ptr, copy, next, history>>

\* sa_slots[next_idx] = *act
PutPart(t) ==
  /\ pc[t] = "put"
  /\ slot' = [slot EXCEPT ![next[t]][k[t]] = want[t]]
  /\ k' = [k EXCEPT ![t] = @ + 1]
  /\ pc' = [pc EXCEPT ![t] = IF k[t] = LastPart THEN "publish" ELSE "put"]
  /\ UNCHANGED <<idx, active, want, ptr, copy, next, history>>

\* active_sa = &sa_slots[next_idx]
Publish(t) ==
  /\ pc[t] = "publish"
  /\ active' = next[t]
  /\ log' = Append(log, want[t])
  /\ pc' = [pc EXCEPT ![t] = "advance"]
  /\ UNCHANGED <<slot, idx, want, ptr, copy, next, k, from, spoilt, overrun, overlapped>>

\* sa_slot_idx = next_idx, and the call returns: its locals are gone.
Advance(t) ==
  /\ pc[t] = "advance"
  /\ idx' = next[t]
  /\ want' = [want EXCEPT ![t] = NoAct]
  /\ next' = [next EXCEPT ![t] = 0]
  /\ k' = [k EXCEPT ![t] = 0]
  /\ pc' = [pc EXCEPT ![t] = "idle"]
  /\ UNCHANGED <<slot, active, ptr, copy, history>>

Step(t) ==
  \/ t \in Reader /\ Call(t, NoAct, TRUE)
  \/ /\ t \in Publisher /\ Len(log) < MaxLog
     /\ \E a \in Act, old \in BOOLEAN : (old => t \in Reader) /\ Call(t, a, old)
  \/ LoadPointer(t) \/ CopyPart(t) \/ HandOut(t)
  \/ LoadIndex(t) \/ PutPart(t) \/ Publish(t) \/ Advance(t)

Next == \E t \in Thread : Step(t)

Spec == Init /\ [][Next]_vars

-----------------------------------------------------------------------------
\* Types: the index stays in the ring and every part copied is of an action
\* (sigaction, get_active_sa).
TypeOK ==
  /\ slot \in [0 .. N - 1 -> [Parts -> Act]]
  /\ idx \in 0 .. N - 1
  /\ active \in 0 .. N - 1
  /\ pc \in [Thread -> {"idle", "pointer", "copy", "copied", "index", "put",
                        "publish", "advance"}]
  /\ want \in [Thread -> Act \cup {NoAct}]
  /\ \A t \in Thread : pc[t] \in {"index", "put", "publish", "advance"} => want[t] \in Act
  /\ ptr \in [Thread -> 0 .. N - 1]
  /\ copy \in [Thread -> [Parts -> Act]]
  /\ next \in [Thread -> 0 .. N - 1]
  /\ k \in [Thread -> 0 .. LastPart + 1]
  /\ \A t \in Thread : pc[t] \in {"copy", "put"} => k[t] \in Parts
  /\ log \in Seq(Act) /\ Len(log) > 0
  /\ from \in [Thread -> 1 .. Len(log)]
  /\ spoilt \subseteq 0 .. N - 1
  /\ overrun \subseteq Thread
  /\ overlapped \in BOOLEAN

(***************************************************************************)
(* The comment at sa_slots, "thread-safe atomic publication", and item 11  *)
(* of the test list of src/docs/SKILL.md, "concurrent sigaction()          *)
(* replacement atomic safety", for every interleaving of the calls: the    *)
(* published action is the one last published, whole.  The one exception   *)
(* is the published slot taken, when a publication began, while it was the *)
(* published one already or while another thread was storing to it, which  *)
(* the code does not prevent (sigaction, the watchdog).  It ends when a    *)
(* slot taken by one thread alone is published.                            *)
(***************************************************************************)
Published == Whole(log[Len(log)])

PublishedUnlessSpoilt == active \notin spoilt => slot[active] = Published

(***************************************************************************)
(* The ring is a register, for every interleaving (get_active_sa, and the  *)
(* publication in sigaction and the watchdog): a reader is given the       *)
(* action that was published when it loaded the pointer, whole, although   *)
(* it copies it later and part by part.  Excepted are a spoilt slot, and a *)
(* reader that loaded the pointer of one or whose slot a publication took  *)
(* before it had copied it.                                                *)
(***************************************************************************)
Given == [t \in Thread |->
  IF pc[t] = "copy" \/ t \in overrun THEN Whole(log[from[t]]) ELSE copy[t]]

Held == IF active \in spoilt THEN Published ELSE slot[active]

Disposition == INSTANCE SigDisposition WITH
  Action <- {Whole(a) : a \in Act}, disp <- Held, got <- Given

RingIsADisposition == Disposition!Spec

(***************************************************************************)
(* What the 16 slots are for: as long as no publication began before the   *)
(* last one had returned, no slot is spoilt, and a reader is overrun only  *)
(* once N - 1 more actions were published and another one begun since it   *)
(* loaded the pointer (next_idx, in sigaction and the watchdog).           *)
(***************************************************************************)
OverrunTakesARound ==
  ~overlapped => /\ spoilt = {}
                 /\ \A t \in overrun : Len(log) - from[t] >= N - 1
=============================================================================
