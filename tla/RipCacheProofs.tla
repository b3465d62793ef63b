--------------------------- MODULE RipCacheProofs ---------------------------
(***************************************************************************)
(* What TLAPS proves of RipCache for any number of threads, sites, slots   *)
(* and cells: while no two threads have stored to a slot at once, its      *)
(* sequence lock does what it is for.                                      *)
(***************************************************************************)
EXTENDS RipCache, TLAPS

(* The slots the sequence lock still protects. *)
Clean(t) == SlotFor(t) \notin overlap

(* At most one thread stores to a clean slot; an even seq there means that   *)
(* the cells are of one decoding, and nobody storing means an even seq.      *)
SlotInv ==
  \A sl \in Slot : sl \notin overlap =>
    /\ \A t, u \in Storing(sl) : t = u
    /\ ~Odd(seq[sl]) => Uniform(cell[sl])
    /\ Storing(sl) = {} => ~Odd(seq[sl])

(* What a storing thread knows of a clean slot. *)
WriterInv(t) ==
  /\ pc[t] \in {"odd", "store", "even"} => ~Odd(seen[t])
  /\ pc[t] = "odd" => seq[SlotFor(t)] = seen[t] /\ k[t] = 0
  /\ pc[t] \in {"store", "even"} => seq[SlotFor(t)] = seen[t] + 1
  /\ pc[t] = "store" => \A c \in Cells : c < k[t] => cell[SlotFor(t)][c] = at[t]
  /\ pc[t] = "even" => \A c \in Cells : cell[SlotFor(t)][c] = at[t]

(* What a reading thread knows: seq never goes back, and while it stands the *)
(* copied cells are the slot's.                                              *)
ReaderInv(t) ==
  /\ pc[t] \in {"read", "seq2"} =>
       /\ ~Odd(seen[t]) /\ seen[t] <= seq[SlotFor(t)]
       /\ seq[SlotFor(t)] = seen[t] =>
            \A c \in Cells : (pc[t] = "seq2" \/ c < k[t])
                               => snap[t][c] = cell[SlotFor(t)][c]
  /\ pc[t] = "hit" => \A c \in Cells : snap[t][c] = at[t]

(* What the memory form knows after its last store of seq. *)
RereadInv(t) ==
  pc[t] \in {"addr", "len"} =>
    /\ ~Odd(seen[t]) /\ seen[t] + 2 <= seq[SlotFor(t)]
    /\ seq[SlotFor(t)] = seen[t] + 2 => \A c \in Cells : cell[SlotFor(t)][c] = at[t]

ServedInv(t) == pc[t] = "run" /\ at[t] \in Site \ MemSite => Served(t)

(* Decoding from a memory operand is the only way to "addr" and "len". *)
FormInv(t) == pc[t] \in {"addr", "len"} => at[t] \in MemSite

ThreadInv(t) ==
  /\ FormInv(t)
  /\ at[t] \in Site /\ Clean(t) =>
       WriterInv(t) /\ ReaderInv(t) /\ RereadInv(t) /\ ServedInv(t)

IInv == TypeOK /\ SlotInv /\ \A t \in Thread : ThreadInv(t)

-----------------------------------------------------------------------------
LEMMA CellsFacts == 0 \in Cells /\ 1 \in Cells /\ NCells \in Cells /\ Cells \subseteq Nat
BY CacheAssumption DEF Cells

(* A thread in the handler works on a slot of the table. *)
LEMMA SlotForType ==
  ASSUME TypeOK, NEW t \in Thread, pc[t] # "run" PROVE SlotFor(t) \in Slot /\ at[t] \in Site
BY CacheAssumption DEF TypeOK, SlotFor

(* Returning from the handler keeps the types of what it assigns. *)
LEMMA ReturnType ==
  ASSUME TypeOK, NEW t \in Thread, NEW op \in Value, NEW len \in Value,
         Return(t, op, len)
  PROVE  /\ pc' = [pc EXCEPT ![t] = "run"]
         /\ snap' \in [Thread -> [Cells -> Value]]
         /\ out' \in [Thread -> [op : Value, len : Value]]
BY DEF TypeOK, Return, Blank, Value

(* The type invariant of RipCache is inductive, whatever the threads do. *)
LEMMA TypeStep == TypeOK /\ [Next]_vars => TypeOK'
<1> SUFFICES ASSUME TypeOK, [Next]_vars PROVE TypeOK'
  OBVIOUS
<1> USE CacheAssumption DEF TypeOK, Value
<1>1. ASSUME NEW t \in Thread, NEW s \in Site, Trap(t, s) PROVE TypeOK'
  BY <1>1 DEF Trap, Unserved
<1>2. ASSUME NEW t \in Thread, LoadSeq1(t) PROVE TypeOK'
  <2>1. /\ seen' = [seen EXCEPT ![t] = seq[SlotFor(t)]]
        /\ k' = [k EXCEPT ![t] = 0]
        /\ UNCHANGED <<seq, cell, at, snap, out, overlap, traps>>
        /\ pc[t] = "seq1" /\ seq[SlotFor(t)] \in Nat /\ at[t] \in Site
        /\ \/ Retry(t)
           \/ pc' = [pc EXCEPT ![t] = "read"] /\ UNCHANGED tries
    BY <1>2, SlotForType DEF LoadSeq1
  <2>2. CASE Retry(t)
    BY <2>1, <2>2, CellsFacts DEF Retry
  <2>3. CASE pc' = [pc EXCEPT ![t] = "read"] /\ UNCHANGED tries
    BY <2>1, <2>3, CellsFacts
  <2>. QED BY <2>1, <2>2, <2>3
<1>3. ASSUME NEW t \in Thread, ReadCell(t) PROVE TypeOK'
  <2>1. k[t] \in Cells /\ cell[SlotFor(t)][k[t]] \in Value
    BY <1>3, SlotForType DEF ReadCell
  <2>2. snap' \in [Thread -> [Cells -> Value]]
    BY <1>3, <2>1 DEF ReadCell
  <2>3. CASE k[t] = NCells
    BY <1>3, <2>2, <2>3, SlotForType DEF ReadCell
  <2>4. CASE k[t] # NCells
    <3>1. k[t] + 1 \in Cells
      BY <2>1, <2>4 DEF Cells
    <3>2. k' \in [Thread -> 0 .. NCells + 1] /\ k'[t] \in Cells
      BY <1>3, <3>1 DEF ReadCell, Cells
    <3>3. pc' = [pc EXCEPT ![t] = "read"] /\ \A u \in Thread : u # t => k'[u] = k[u]
      BY <1>3, <2>4 DEF ReadCell
    <3>4. pc[t] = "read" /\ at[t] \in Site
      BY <1>3, SlotForType DEF ReadCell
    <3>. QED BY <1>3, <2>2, <3>2, <3>3, <3>4 DEF ReadCell
  <2>. QED BY <2>3, <2>4
<1>4. ASSUME NEW t \in Thread, LoadSeq2(t) PROVE TypeOK'
  <2>1. /\ UNCHANGED <<seq, cell, at, k, seen, snap, out, overlap, traps>>
        /\ pc[t] = "seq2" /\ at[t] \in Site
        /\ \/ Retry(t)
           \/ /\ pc' = [pc EXCEPT ![t] = IF snap[t][0] = at[t] THEN "hit" ELSE "miss"]
              /\ UNCHANGED tries
    BY <1>4, SlotForType DEF LoadSeq2, SeqUnchanged
  <2>2. CASE Retry(t)
    BY <2>1, <2>2 DEF Retry
  <2>3. CASE /\ pc' = [pc EXCEPT ![t] = IF snap[t][0] = at[t] THEN "hit" ELSE "miss"]
             /\ UNCHANGED tries
    BY <2>1, <2>3
  <2>. QED BY <2>1, <2>2, <2>3
<1>5. ASSUME NEW t \in Thread, Hit(t) PROVE TypeOK'
  <2>1. snap[t][1] \in Value /\ snap[t][NCells] \in Value
    BY CellsFacts
  <2>2. /\ UNCHANGED <<seq, cell, at, tries, k, seen, overlap, traps>>
        /\ pc[t] = "hit" /\ at[t] \in Site
        /\ \/ Return(t, snap[t][1], snap[t][NCells])
           \/ pc' = [pc EXCEPT ![t] = "miss"] /\ UNCHANGED <<out, snap>>
    BY <1>5, SlotForType DEF Hit
  <2>. QED BY <2>1, <2>2, ReturnType
<1>6. ASSUME NEW t \in Thread, LoadSeqVal(t) PROVE TypeOK'
  BY <1>6, SlotForType, CellsFacts DEF LoadSeqVal
<1>7. ASSUME NEW t \in Thread, StoreOdd(t) PROVE TypeOK'
  <2>1. seq' \in [Slot -> Nat]
    BY <1>7, SlotForType DEF StoreOdd, WriteBegin
  <2>. QED BY <1>7, <2>1, SlotForType, CellsFacts DEF StoreOdd, WriteBegin
<1>8. ASSUME NEW t \in Thread, StoreCell(t) PROVE TypeOK'
  <2>1. cell' \in [Slot -> [Cells -> Value]]
    BY <1>8, SlotForType DEF StoreCell
  <2>. QED BY <1>8, <2>1, SlotForType, CellsFacts, SMTT(30) DEF StoreCell, Cells
<1>9. ASSUME NEW t \in Thread, StoreEven(t) PROVE TypeOK'
  <2>1. seq' \in [Slot -> Nat]
    BY <1>9, SlotForType DEF StoreEven, WriteEnd
  <2>2. /\ UNCHANGED <<cell, at, tries, k, seen, overlap, traps>>
        /\ pc[t] = "even" /\ at[t] \in Site
        /\ \/ Return(t, at[t], at[t])
           \/ pc' = [pc EXCEPT ![t] = "addr"] /\ UNCHANGED <<out, snap>>
    BY <1>9, SlotForType DEF StoreEven, WriteEnd
  <2>. QED BY <2>1, <2>2, ReturnType
<1>10. ASSUME NEW t \in Thread, LoadAddress(t) PROVE TypeOK'
  <2>1. snap' \in [Thread -> [Cells -> Value]]
    BY <1>10, SlotForType, CellsFacts DEF LoadAddress
  <2>. QED BY <1>10, <2>1, SlotForType DEF LoadAddress
<1>11. ASSUME NEW t \in Thread, LoadLength(t) PROVE TypeOK'
  <2>1. snap[t][1] \in Value /\ cell[SlotFor(t)][NCells] \in Value
    BY <1>11, SlotForType, CellsFacts DEF LoadLength
  <2>. QED BY <1>11, <2>1, ReturnType, SlotForType DEF LoadLength
<1>12. CASE UNCHANGED vars
  BY <1>12 DEF vars
<1>. QED
  BY <1>1, <1>2, <1>3, <1>4, <1>5, <1>6, <1>7, <1>8, <1>9, <1>10, <1>11, <1>12
     DEF Next, Handle, Exhausted

(* Every variable keeps its type (RipCache's type invariant). *)
THEOREM TypeCorrect == Spec => []TypeOK
<1>1. Init => TypeOK
  BY CacheAssumption, CellsFacts
     DEF Init, TypeOK, Value, Blank, Unserved, Cells
<1>. QED BY <1>1, TypeStep, PTL DEF Spec

-----------------------------------------------------------------------------
(* The parity of a sequence number, which is all the proof needs of it. *)
LEMMA Parity ==
  /\ ~Odd(0)
  /\ \A n \in Nat : ~Odd(n) => Odd(n + 1) /\ ~Odd(n + 2)
  /\ \A m, n \in Nat : ~Odd(m) /\ ~Odd(n) /\ m <= n + 1 => m <= n
BY DEF Odd

(* The invariant holds of the zeroed table and of idle threads. *)
LEMMA InitIInv == Init => IInv
<1> SUFFICES ASSUME Init PROVE IInv
  OBVIOUS
<1>1. TypeOK
  BY CacheAssumption, CellsFacts DEF Init, TypeOK, Value, Blank, Unserved, Cells
<1>2. SlotInv
  BY Parity DEF Init, SlotInv, Storing, Uniform, Blank
<1>3. ASSUME NEW t \in Thread PROVE ThreadInv(t)
  BY CacheAssumption DEF Init, ThreadInv, FormInv
<1>. QED BY <1>1, <1>2, <1>3 DEF IInv

(* A step that leaves a thread's locals and its slot alone. *)
Untouched(u) ==
  /\ pc'[u] = pc[u] /\ at'[u] = at[u] /\ k'[u] = k[u]
  /\ seen'[u] = seen[u] /\ snap'[u] = snap[u] /\ out'[u] = out[u]
  /\ at[u] \in Site => /\ seq'[SlotFor(u)] = seq[SlotFor(u)]
                       /\ cell'[SlotFor(u)] = cell[SlotFor(u)]
  /\ overlap \subseteq overlap'

(* Such a step keeps what the thread knows. *)
LEMMA FrameThread ==
  ASSUME NEW u \in Thread, ThreadInv(u), Untouched(u) PROVE ThreadInv(u)'
BY DEF ThreadInv, FormInv, WriterInv, ReaderInv, RereadInv, ServedInv, Served,
       Clean, SlotFor, Untouched

(* A step of a thread that stores nothing, before and after, keeps what is   *)
(* known of the slots.                                                       *)
LEMMA FrameSlots ==
  ASSUME TypeOK, SlotInv, NEW t \in Thread, UNCHANGED <<seq, cell, overlap>>,
         \A u \in Thread : u # t => UNCHANGED <<pc[u], at[u]>>,
         pc[t] \notin {"odd", "store", "even"}, pc'[t] \notin {"odd", "store", "even"}
  PROVE  SlotInv'
<1>1. \A sl \in Slot : Storing(sl)' = Storing(sl)
  BY DEF Storing, SlotFor
<1>. QED BY <1>1 DEF SlotInv, Uniform

(* A clean slot has one writer: another thread there is not storing. *)
LEMMA OneWriter ==
  ASSUME IInv, NEW t \in Thread, NEW u \in Thread, u # t, Clean(t),
         pc[t] \in {"odd", "store", "even"}, SlotFor(u) = SlotFor(t)
  PROVE  pc[u] \notin {"odd", "store", "even"}
BY SlotForType DEF IInv, SlotInv, Storing, Clean

(* Each action keeps the invariant: the slots, then the thread that moved,   *)
(* then the others.                                                          *)
LEMMA StepIInv == IInv /\ [Next]_vars => IInv'
<1> SUFFICES ASSUME IInv, [Next]_vars PROVE SlotInv' /\ \A u \in Thread : ThreadInv(u)'
  BY TypeStep DEF IInv
<1>0. TypeOK /\ TypeOK' /\ SlotInv /\ \A u \in Thread : ThreadInv(u)
  BY TypeStep DEF IInv
<1> DEFINE Goal == SlotInv' /\ \A u \in Thread : ThreadInv(u)'
<1> USE CacheAssumption, CellsFacts
<1>1. ASSUME NEW t \in Thread, NEW s \in Site, Trap(t, s) PROVE Goal
  <2>1. SlotInv'
    BY <1>1, <1>0, FrameSlots DEF Trap, TypeOK
  <2>2. ThreadInv(t)'
    BY <1>1, <1>0, SlotForType, Parity
       DEF Trap, TypeOK, ThreadInv, FormInv, WriterInv, ReaderInv, RereadInv,
           ServedInv, Served, Clean, SlotFor, SlotInv, Uniform, Value
  <2>3. ASSUME NEW u \in Thread, u # t PROVE ThreadInv(u)'
    <3>1. Untouched(u)
      BY <1>1, <1>0, <2>3 DEF Trap, Untouched, TypeOK
    <3>. QED BY <1>0, <3>1, FrameThread
  <2>. QED BY <2>2, <2>3, <2>1
<1>2. ASSUME NEW t \in Thread, LoadSeq1(t) PROVE Goal
  <2>1. SlotInv'
    BY <1>2, <1>0, FrameSlots, SMTT(30) DEF LoadSeq1, Retry, TypeOK
  <2>2. ThreadInv(t)'
    BY <1>2, <1>0, SlotForType, Parity
       DEF LoadSeq1, Retry, TypeOK, ThreadInv, FormInv, WriterInv, ReaderInv, RereadInv,
           ServedInv, Served, Clean, SlotFor, SlotInv, Uniform, Value
  <2>3. ASSUME NEW u \in Thread, u # t PROVE ThreadInv(u)'
    <3>1. Untouched(u)
      BY <1>2, <1>0, <2>3 DEF LoadSeq1, Retry, Untouched, TypeOK
    <3>. QED BY <1>0, <3>1, FrameThread
  <2>. QED BY <2>2, <2>3, <2>1
<1>3. ASSUME NEW t \in Thread, ReadCell(t) PROVE Goal
  <2>1. SlotInv'
    BY <1>3, <1>0, FrameSlots DEF ReadCell, TypeOK
  <2>2. ThreadInv(t)'
    <3>1. /\ pc[t] = "read" /\ k[t] \in Cells /\ at'[t] = at[t] /\ at[t] \in Site
          /\ seen'[t] = seen[t] /\ UNCHANGED <<seq, cell, overlap>>
          /\ k'[t] = k[t] + 1
          /\ pc'[t] = IF k[t] = NCells THEN "seq2" ELSE "read"
      BY <1>3, <1>0, SlotForType DEF ReadCell, TypeOK
    <3>2. \A d \in Cells :
            snap'[t][d] = IF d = k[t] THEN cell[SlotFor(t)][d] ELSE snap[t][d]
      BY <1>3, <1>0, <3>1 DEF ReadCell, TypeOK
    <3>3. \A d \in Cells : pc'[t] = "seq2" \/ d < k'[t] => d < k[t] \/ d = k[t]
      BY <3>1 DEF Cells
    <3>. QED
      BY <1>0, <3>1, <3>2, <3>3
         DEF ThreadInv, FormInv, WriterInv, ReaderInv, RereadInv, ServedInv, Clean, SlotFor
  <2>3. ASSUME NEW u \in Thread, u # t PROVE ThreadInv(u)'
    <3>1. Untouched(u)
      BY <1>3, <1>0, <2>3 DEF ReadCell, Untouched, TypeOK
    <3>. QED BY <1>0, <3>1, FrameThread
  <2>. QED BY <2>2, <2>3, <2>1
<1>4. ASSUME NEW t \in Thread, LoadSeq2(t) PROVE Goal
  <2>1. SlotInv'
    BY <1>4, <1>0, FrameSlots DEF LoadSeq2, SeqUnchanged, Retry, TypeOK
  <2>2. ThreadInv(t)'
    BY <1>4, <1>0, SlotForType, Parity
       DEF LoadSeq2, SeqUnchanged, Retry, TypeOK, ThreadInv, FormInv, WriterInv, ReaderInv, RereadInv,
           ServedInv, Served, Clean, SlotFor, SlotInv, Uniform, Value
  <2>3. ASSUME NEW u \in Thread, u # t PROVE ThreadInv(u)'
    <3>1. Untouched(u)
      BY <1>4, <1>0, <2>3 DEF LoadSeq2, SeqUnchanged, Retry, Untouched, TypeOK
    <3>. QED BY <1>0, <3>1, FrameThread
  <2>. QED BY <2>2, <2>3, <2>1
<1>5. ASSUME NEW t \in Thread, Hit(t) PROVE Goal
  <2>1. SlotInv'
    BY <1>5, <1>0, FrameSlots DEF Hit, Return, TypeOK
  <2>2. ThreadInv(t)'
    BY <1>5, <1>0, SlotForType, Parity
       DEF Hit, Return, TypeOK, ThreadInv, FormInv, WriterInv, ReaderInv, RereadInv,
           ServedInv, Served, Clean, SlotFor, SlotInv, Uniform, Value
  <2>3. ASSUME NEW u \in Thread, u # t PROVE ThreadInv(u)'
    <3>1. Untouched(u)
      BY <1>5, <1>0, <2>3 DEF Hit, Return, Untouched, TypeOK
    <3>. QED BY <1>0, <3>1, FrameThread
  <2>. QED BY <2>2, <2>3, <2>1
<1>6. ASSUME NEW t \in Thread, LoadSeqVal(t) PROVE Goal
  <2>0. SlotFor(t) \in Slot /\ at[t] \in Site /\ overlap \subseteq overlap'
    BY <1>6, <1>0, SlotForType DEF LoadSeqVal
  <2>1. SlotInv'
    <3>1. \A sl \in Slot :
            Storing(sl)' = IF sl = SlotFor(t) THEN Storing(sl) \cup {t} ELSE Storing(sl)
      BY <1>6, <1>0 DEF LoadSeqVal, Storing, SlotFor, TypeOK
    <3>2. SlotFor(t) \notin overlap' => Storing(SlotFor(t)) = {}
      BY <1>6 DEF LoadSeqVal
    <3>. QED BY <1>6, <1>0, <2>0, <3>1, <3>2 DEF LoadSeqVal, SlotInv, Uniform
  <2>2. ThreadInv(t)'
    <3>1. SlotFor(t) \notin overlap' => ~Odd(seq[SlotFor(t)])
      BY <1>6, <1>0, <2>0 DEF LoadSeqVal, SlotInv
    <3>. QED BY <1>6, <1>0, <2>0, <3>1
         DEF LoadSeqVal, TypeOK, ThreadInv, FormInv, WriterInv, ReaderInv, RereadInv,
             ServedInv, Clean, SlotFor
  <2>3. ASSUME NEW u \in Thread, u # t PROVE ThreadInv(u)'
    <3>1. Untouched(u)
      BY <1>6, <1>0, <2>3, <2>0 DEF LoadSeqVal, Untouched, TypeOK
    <3>. QED BY <1>0, <3>1, FrameThread
  <2>. QED BY <2>2, <2>3, <2>1
<1>7. ASSUME NEW t \in Thread, StoreOdd(t) PROVE Goal
  <2>0. SlotFor(t) \in Slot /\ at[t] \in Site /\ seen[t] \in Nat
    BY <1>7, <1>0, SlotForType DEF StoreOdd, WriteBegin, TypeOK
  <2>1. SlotInv'
    BY <1>7, <1>0, <2>0, Parity, OneWriter DEF StoreOdd, WriteBegin, SlotInv, Storing, SlotFor, Uniform, TypeOK, ThreadInv, WriterInv, Clean
  <2>2. ThreadInv(t)'
    BY <1>7, <1>0, <2>0, Parity
       DEF StoreOdd, WriteBegin, TypeOK, ThreadInv, FormInv, WriterInv, ReaderInv, RereadInv,
           ServedInv, Served, Clean, SlotFor
  <2>3. ASSUME NEW u \in Thread, u # t PROVE ThreadInv(u)'
    <3>1. CASE at[u] \in Site => SlotFor(u) # SlotFor(t) 
      <4>1. Untouched(u)
        BY <1>7, <1>0, <2>3, <3>1, <2>0 DEF StoreOdd, WriteBegin, Untouched, TypeOK
      <4>. QED BY <1>0, <4>1, FrameThread
    <3>2. CASE at[u] \in Site /\ SlotFor(u) = SlotFor(t)
      BY <1>7, <1>0, <2>3, <3>2, <2>0, Parity, OneWriter 
         DEF StoreOdd, WriteBegin, TypeOK, ThreadInv, FormInv, WriterInv, ReaderInv, RereadInv,
             ServedInv, Served, Clean, SlotFor
    <3>. QED BY <3>1, <3>2
  <2>. QED BY <2>2, <2>3, <2>1
<1>8. ASSUME NEW t \in Thread, StoreCell(t) PROVE Goal
  <2>0. SlotFor(t) \in Slot /\ at[t] \in Site /\ seen[t] \in Nat
    BY <1>8, <1>0, SlotForType DEF StoreCell, TypeOK
  <2>1. SlotInv'
    BY <1>8, <1>0, <2>0, Parity, OneWriter DEF StoreCell, SlotInv, Storing, SlotFor, Uniform, TypeOK, ThreadInv, WriterInv, Clean
  <2>2. ThreadInv(t)'
    <3>1. /\ pc[t] = "store" /\ k[t] \in Cells /\ at'[t] = at[t]
          /\ seen'[t] = seen[t] /\ UNCHANGED <<seq, overlap>>
          /\ k'[t] = k[t] + 1
          /\ pc'[t] = IF k[t] = NCells THEN "even" ELSE "store"
      BY <1>8, <1>0 DEF StoreCell, TypeOK
    <3>2. \A d \in Cells :
            cell'[SlotFor(t)][d] = IF d = k[t] THEN at[t] ELSE cell[SlotFor(t)][d]
      BY <1>8, <1>0, <2>0 DEF StoreCell, TypeOK
    <3>3. \A d \in Cells : pc'[t] = "even" \/ d < k'[t] => d < k[t] \/ d = k[t]
      BY <3>1 DEF Cells
    <3>. QED
      BY <1>0, <2>0, <3>1, <3>2, <3>3
         DEF ThreadInv, FormInv, WriterInv, ReaderInv, RereadInv, ServedInv, Clean, SlotFor
  <2>3. ASSUME NEW u \in Thread, u # t PROVE ThreadInv(u)'
    <3>1. CASE at[u] \in Site => SlotFor(u) # SlotFor(t) 
      <4>1. Untouched(u)
        BY <1>8, <1>0, <2>3, <3>1, <2>0 DEF StoreCell, Untouched, TypeOK
      <4>. QED BY <1>0, <4>1, FrameThread
    <3>2. CASE at[u] \in Site /\ SlotFor(u) = SlotFor(t)
      BY <1>8, <1>0, <2>3, <3>2, <2>0, Parity, OneWriter 
         DEF StoreCell, TypeOK, ThreadInv, FormInv, WriterInv, ReaderInv, RereadInv,
             ServedInv, Served, Clean, SlotFor
    <3>. QED BY <3>1, <3>2
  <2>. QED BY <2>2, <2>3, <2>1
<1>9. ASSUME NEW t \in Thread, StoreEven(t) PROVE Goal
  <2>0. SlotFor(t) \in Slot /\ at[t] \in Site /\ seen[t] \in Nat
    BY <1>9, <1>0, SlotForType DEF StoreEven, WriteEnd, Return, TypeOK
  <2>1. SlotInv'
    <3>1. /\ \A sl \in Slot : Storing(sl)' = Storing(sl) \ {t}
          /\ \A sl \in Slot : sl # SlotFor(t) => Storing(sl)' = Storing(sl)
      BY <1>9, <1>0 DEF StoreEven, WriteEnd, Return, Storing, SlotFor, TypeOK
    <3>2. /\ UNCHANGED <<cell, overlap>> /\ pc[t] = "even"
          /\ seq'[SlotFor(t)] = seen[t] + 2
          /\ \A sl \in Slot : sl # SlotFor(t) => seq'[sl] = seq[sl]
      BY <1>9, <1>0, <2>0 DEF StoreEven, WriteEnd, TypeOK
    <3>3. Clean(t) => ~Odd(seen[t]) /\ Uniform(cell[SlotFor(t)])
      BY <1>0, <2>0, <3>2 DEF ThreadInv, WriterInv, Uniform
    <3>4. Clean(t) => ~Odd(seq'[SlotFor(t)])
      BY <2>0, <3>2, <3>3, Parity
    <3>5. ASSUME NEW sl \in Slot, sl \notin overlap'
          PROVE  /\ \A u, v \in Storing(sl)' : u = v
                 /\ ~Odd(seq'[sl]) => Uniform(cell'[sl])
                 /\ Storing(sl)' = {} => ~Odd(seq'[sl])
      BY <1>0, <3>1, <3>2, <3>3, <3>4, <3>5 DEF SlotInv, Clean
    <3>. QED BY <3>5 DEF SlotInv, Uniform
  <2>2. ThreadInv(t)'
    BY <1>9, <1>0, <2>0, Parity
       DEF StoreEven, WriteEnd, Return, TypeOK, ThreadInv, FormInv, WriterInv, ReaderInv, RereadInv,
           ServedInv, Served, Clean, SlotFor
  <2>3. ASSUME NEW u \in Thread, u # t PROVE ThreadInv(u)'
    <3>1. CASE at[u] \in Site => SlotFor(u) # SlotFor(t) 
      <4>1. Untouched(u)
        BY <1>9, <1>0, <2>3, <3>1, <2>0 DEF StoreEven, WriteEnd, Return, Untouched, TypeOK
      <4>. QED BY <1>0, <4>1, FrameThread
    <3>2. CASE at[u] \in Site /\ SlotFor(u) = SlotFor(t)
      BY <1>9, <1>0, <2>3, <3>2, <2>0, Parity, OneWriter 
         DEF StoreEven, WriteEnd, Return, TypeOK, ThreadInv, FormInv, WriterInv, ReaderInv, RereadInv,
             ServedInv, Served, Clean, SlotFor
    <3>. QED BY <3>1, <3>2
  <2>. QED BY <2>2, <2>3, <2>1
<1>10. ASSUME NEW t \in Thread, LoadAddress(t) PROVE Goal
  <2>1. SlotInv'
    BY <1>10, <1>0, FrameSlots DEF LoadAddress, TypeOK
  <2>2. ThreadInv(t)'
    BY <1>10, <1>0, SlotForType, Parity
       DEF LoadAddress, TypeOK, ThreadInv, FormInv, WriterInv, ReaderInv, RereadInv,
           ServedInv, Served, Clean, SlotFor, SlotInv, Uniform, Value
  <2>3. ASSUME NEW u \in Thread, u # t PROVE ThreadInv(u)'
    <3>1. Untouched(u)
      BY <1>10, <1>0, <2>3 DEF LoadAddress, Untouched, TypeOK
    <3>. QED BY <1>0, <3>1, FrameThread
  <2>. QED BY <2>2, <2>3, <2>1
<1>11. ASSUME NEW t \in Thread, LoadLength(t) PROVE Goal
  <2>1. SlotInv'
    BY <1>11, <1>0, FrameSlots DEF LoadLength, Return, TypeOK
  <2>2. ThreadInv(t)'
    BY <1>11, <1>0, SlotForType, Parity
       DEF LoadLength, Return, TypeOK, ThreadInv, FormInv, WriterInv, ReaderInv, RereadInv,
           ServedInv, Served, Clean, SlotFor, SlotInv, Uniform, Value
  <2>3. ASSUME NEW u \in Thread, u # t PROVE ThreadInv(u)'
    <3>1. Untouched(u)
      BY <1>11, <1>0, <2>3 DEF LoadLength, Return, Untouched, TypeOK
    <3>. QED BY <1>0, <3>1, FrameThread
  <2>. QED BY <2>2, <2>3, <2>1
<1>12. CASE UNCHANGED vars
  <2>1. SlotInv'
    BY <1>12, <1>0 DEF vars, SlotInv, Storing, Uniform, SlotFor
  <2>2. ASSUME NEW u \in Thread PROVE Untouched(u)
    BY <1>12 DEF vars, Untouched, SlotFor
  <2>. QED BY <1>0, <2>1, <2>2, FrameThread
<1>. QED
  BY <1>1, <1>2, <1>3, <1>4, <1>5, <1>6, <1>7, <1>8, <1>9, <1>10, <1>11, <1>12
     DEF Next, Handle, Exhausted
-----------------------------------------------------------------------------
(* The invariant of the sequence lock, for every reachable state. *)
LEMMA Invariance == Spec => []IInv
BY InitIInv, StepIInv, PTL DEF Spec

(* RipCache!SlotAtRestIsReadable: a slot that was never stored to by two     *)
(* threads at once, and that nobody is storing to, is readable and whole.    *)
THEOREM RestingSlots == Spec => []SlotAtRestIsReadable
<1>1. IInv => SlotAtRestIsReadable
  BY DEF IInv, SlotInv, SlotAtRestIsReadable
<1>. QED BY <1>1, Invariance, PTL

(* RipCache!AcceptedCopyIsConsistent: in such a slot the test seq1 == seq2   *)
(* accepts only copies of one decoding.                                      *)
THEOREM ConsistentCopies == Spec => []AcceptedCopyIsConsistent
<1>1. ASSUME IInv PROVE AcceptedCopyIsConsistent
  <2>1. SUFFICES ASSUME NEW t \in Thread, pc[t] = "seq2", SlotFor(t) \notin overlap,
                        seq[SlotFor(t)] = seen[t]
                 PROVE  Uniform(snap[t])
    BY DEF AcceptedCopyIsConsistent
  <2>2. SlotFor(t) \in Slot /\ at[t] \in Site
    BY <1>1, <2>1, SlotForType DEF IInv
  <2>3. ReaderInv(t)
    BY <1>1, <2>1, <2>2 DEF IInv, ThreadInv, Clean
  <2>4. Uniform(cell[SlotFor(t)])
    BY <1>1, <2>1, <2>2, <2>3 DEF IInv, SlotInv, ReaderInv
  <2>. QED BY <2>1, <2>3, <2>4 DEF ReaderInv, Uniform
<1>. QED BY <1>1, Invariance, PTL

(* RipCache!RereadIsOwnWhileSeqStands: the memory form may use the entry for *)
(* as long as seq has the value it stored.                                   *)
THEOREM OwnRereads == Spec => []RereadIsOwnWhileSeqStands
<1>1. ASSUME IInv PROVE RereadIsOwnWhileSeqStands
  BY <1>1, SlotForType, CellsFacts
     DEF IInv, ThreadInv, RereadInv, RereadIsOwnWhileSeqStands, Clean
<1>. QED BY <1>1, Invariance, PTL

(* RipCache!RegisterFormServedAsItself: a register-form instruction of such  *)
(* a slot is emulated as itself and skipped by its own length.               *)
THEOREM RegisterFormServed == Spec => []RegisterFormServedAsItself
<1>1. ASSUME IInv PROVE RegisterFormServedAsItself
  BY <1>1 DEF IInv, ThreadInv, ServedInv, RegisterFormServedAsItself, Clean
<1>. QED BY <1>1, Invariance, PTL
=============================================================================
