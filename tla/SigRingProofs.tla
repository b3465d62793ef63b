--------------------------- MODULE SigRingProofs ---------------------------
(***************************************************************************)
(* What TLAPS proves of SigRing for a ring of any number of slots, any     *)
(* number of threads and actions, every interleaving of their calls and    *)
(* behaviours of any length: but for spoilt slots and overrun readers it   *)
(* is a register that a whole action is read from and written to at once,  *)
(* and without overlapping publications a reader is overrun only after a   *)
(* round of the ring.                                                      *)
(***************************************************************************)
EXTENDS SigRing, TLAPS

(* A slot that is not spoilt has one writer at most. *)
OneWriter ==
  \A t, u \in Storing : next[t] = next[u] /\ next[t] \notin spoilt => t = u

(* That writer's slot is not the published one, and holds what it has stored. *)
WriterInv(t) ==
  t \in Storing /\ next[t] \notin spoilt =>
    /\ next[t] # active
    /\ pc[t] = "put" => \A p \in Parts : p < k[t] => slot[next[t]][p] = want[t]
    /\ pc[t] = "publish" => slot[next[t]] = Whole(want[t])

(* The action a reader copies is still in its slot, and nobody stores there. *)
ReaderInv(t) ==
  pc[t] = "copy" /\ t \notin overrun =>
    /\ slot[ptr[t]] = Whole(log[from[t]])
    /\ \A u \in Storing : next[u] # ptr[t]
    /\ \A p \in Parts : p < k[t] => copy[t][p] = log[from[t]]

IInv ==
  /\ TypeOK /\ PublishedUnlessSpoilt /\ OneWriter
  /\ \A t \in Thread : WriterInv(t) /\ ReaderInv(t)

(* The slot that the v-th published action is put in, one at a time. *)
Pos(v) == (v - 1) % N

(* As long as no publication began before the last one had returned: one     *)
(* thread publishes, in the slot after the published one, sa_slot_idx and    *)
(* active_sa agree but for the moment between their stores, and a reader     *)
(* copies from the slot of the action it was after.                          *)
SerialInv ==
  ~overlapped =>
    /\ \A t, u \in Publishing : t = u
    /\ active = Pos(Len(log))
    /\ (\A t \in Thread : pc[t] # "advance") => idx = active
    /\ \A t \in Thread : pc[t] = "advance" => next[t] = active
    /\ \A t \in Storing : next[t] = Pos(Len(log) + 1)
    /\ \A t \in Thread : pc[t] = "copy" => ptr[t] = Pos(from[t])

-----------------------------------------------------------------------------
LEMMA PartsFacts == 0 \in Parts /\ LastPart \in Parts /\ Parts \subseteq Nat
BY RingAssumption DEF Parts

(* Division by any positive m. *)
LEMMA DivMod ==
  ASSUME NEW m \in Nat \ {0}, NEW a \in Nat
  PROVE  a = m * (a \div m) + (a % m) /\ a \div m \in Nat
OBVIOUS

LEMMA WholeByParts ==
  ASSUME NEW a, NEW f, f = [p \in Parts |-> f[p]], \A p \in Parts : f[p] = a
  PROVE  f = Whole(a)
BY DEF Whole

(* Slots are reused after N publications and not before. *)
LEMMA PosType == \A v \in Nat \ {0} : Pos(v) \in 0 .. N - 1
BY RingAssumption DEF Pos

LEMMA Division ==
  ASSUME NEW a \in Nat
  PROVE  a = N * (a \div N) + (a % N) /\ a \div N \in Int /\ a % N \in 0 .. N - 1
<1>1. N \in Nat \ {0}
  BY RingAssumption
<1>2. a = N * (a \div N) + (a % N) /\ a \div N \in Nat
  BY <1>1, DivMod
<1>3. a % N \in 0 .. N - 1
  BY <1>1
<1>. QED BY <1>2, <1>3

LEMMA PosFirst == Pos(1) = 0
BY RingAssumption DEF Pos

LEMMA PosNext == \A v \in Nat \ {0} : NextIndex(Pos(v)) = Pos(v + 1)
<1> SUFFICES ASSUME NEW v \in Nat \ {0} PROVE (((v - 1) % N) + 1) % N = v % N
  BY DEF NextIndex, Pos
<1> DEFINE q == (v - 1) \div N
           r == (v - 1) % N
<1>1. v - 1 = N * q + r /\ q \in Int /\ r \in 0 .. N - 1
  <2>. v - 1 \in Nat OBVIOUS
  <2>. QED BY Division, RingAssumption
<1> HIDE DEF q, r
<1>2. CASE r = N - 1
  <2>1. v = N * (q + 1)
    BY <1>1, <1>2, RingAssumption
  <2>2. v % N = 0
    BY <2>1, <1>1, RingAssumption
  <2>. QED BY <1>2, <2>2, RingAssumption DEF r
<1>3. CASE r # N - 1
  <2>1. v = N * q + (r + 1) /\ r + 1 \in 0 .. N - 1
    BY <1>1, <1>3, RingAssumption
  <2>2. v % N = r + 1
    BY <2>1, <1>1, RingAssumption
  <2>. QED BY <1>1, <1>3, <2>2, RingAssumption DEF r
<1>. QED BY <1>2, <1>3

LEMMA PosDistinct ==
  ASSUME NEW v \in Nat \ {0}, NEW w \in Nat \ {0}, v < w, w - v < N
  PROVE  Pos(v) # Pos(w)
<1> DEFINE p == (v - 1) \div N
           q == (w - 1) \div N
<1>1. v - 1 = N * p + ((v - 1) % N) /\ p \in Int /\ (v - 1) % N \in Int
  <2>. v - 1 \in Nat OBVIOUS
  <2>. QED BY Division, RingAssumption
<1>2. w - 1 = N * q + ((w - 1) % N) /\ q \in Int /\ (w - 1) % N \in Int
  <2>. w - 1 \in Nat OBVIOUS
  <2>. QED BY Division, RingAssumption
<1> HIDE DEF p, q
<1>3. SUFFICES ASSUME (v - 1) % N = (w - 1) % N PROVE FALSE
  BY DEF Pos
<1>4. w - v = N * q - N * p
  BY <1>1, <1>2, <1>3, RingAssumption
<1>5. CASE q <= p
  BY <1>1, <1>2, <1>4, <1>5, RingAssumption
<1>6. CASE q >= p + 1
  <2>1. N * (q - p) >= N
    BY <1>1, <1>2, <1>6, RingAssumption
  <2>. QED BY <1>1, <1>2, <1>4, <2>1, RingAssumption
<1>. QED BY <1>1, <1>2, <1>5, <1>6

-----------------------------------------------------------------------------
LEMMA InitType == Init => TypeOK
<1> SUFFICES ASSUME Init PROVE TypeOK
  OBVIOUS
<1>1. PICK a \in Act : /\ slot = [i \in 0 .. N - 1 |-> Whole(IF i = 0 THEN a ELSE SigDfl)]
                       /\ log = <<a>>
  BY DEF Init
<1>2. slot \in [0 .. N - 1 -> [Parts -> Act]] /\ log \in Seq(Act) /\ Len(log) = 1
  BY <1>1, RingAssumption DEF Whole
<1>3. copy \in [Thread -> [Parts -> Act]] /\ from \in [Thread -> 1 .. Len(log)]
  BY <1>2, RingAssumption DEF Init, Whole
<1>4. /\ idx \in 0 .. N - 1 /\ active \in 0 .. N - 1
      /\ ptr \in [Thread -> 0 .. N - 1] /\ next \in [Thread -> 0 .. N - 1]
      /\ k \in [Thread -> 0 .. LastPart + 1]
  BY RingAssumption DEF Init
<1>5. /\ pc \in [Thread -> {"idle"}] /\ want \in [Thread -> Act \cup {NoAct}]
      /\ spoilt = {} /\ overrun = {} /\ overlapped \in BOOLEAN
  BY DEF Init
<1>. QED BY <1>2, <1>3, <1>4, <1>5 DEF TypeOK

(* The type invariant of SigRing is inductive.                               *)
LEMMA TypeStep == TypeOK /\ [Next]_vars => TypeOK'
<1> SUFFICES ASSUME TypeOK, [Next]_vars PROVE TypeOK'
  OBVIOUS
<1> USE RingAssumption DEF TypeOK, history
<1>1. ASSUME NEW t \in Thread, NEW a \in Act \cup {NoAct}, NEW old \in BOOLEAN,
             Call(t, a, old), a = NoAct => old
      PROVE  TypeOK'
  <2>1. CASE old
    BY <1>1, <2>1 DEF Call
  <2>2. CASE ~old
    BY <1>1, <2>2 DEF Call
  <2>. QED BY <2>1, <2>2
<1>2. ASSUME NEW t \in Thread, LoadPointer(t) PROVE TypeOK'
  <2>1. Len(log) \in 1 .. Len(log)
    OBVIOUS
  <2>2. Whole(SigDfl) \in [Parts -> Act]
    BY DEF Whole
  <2>3. copy' \in [Thread -> [Parts -> Act]] /\ from' \in [Thread -> 1 .. Len(log)]
    BY <1>2, <2>1, <2>2 DEF LoadPointer
  <2>4. overrun' \subseteq Thread
    BY <1>2 DEF LoadPointer
  <2>. QED BY <1>2, <2>3, <2>4, PartsFacts DEF LoadPointer
<1>3. ASSUME NEW t \in Thread, CopyPart(t) PROVE TypeOK'
  <2>1. k[t] \in Parts /\ slot[ptr[t]][k[t]] \in Act
    BY <1>3 DEF CopyPart
  <2>2. copy' \in [Thread -> [Parts -> Act]]
    BY <1>3, <2>1 DEF CopyPart
  <2>3. k' \in [Thread -> 0 .. LastPart + 1] /\ (k[t] # LastPart => k'[t] \in Parts)
    BY <1>3, <2>1 DEF CopyPart, Parts
  <2>4. CASE k[t] = LastPart
    BY <1>3, <2>2, <2>3, <2>4 DEF CopyPart
  <2>5. CASE k[t] # LastPart
    BY <1>3, <2>2, <2>3, <2>5 DEF CopyPart
  <2>. QED BY <2>4, <2>5
<1>4. ASSUME NEW t \in Thread, HandOut(t) PROVE TypeOK'
  BY <1>4 DEF HandOut
<1>5. ASSUME NEW t \in Thread, LoadIndex(t) PROVE TypeOK'
  <2>1. NextIndex(idx) \in 0 .. N - 1
    BY DEF NextIndex
  <2>2. spoilt' \subseteq 0 .. N - 1 /\ overrun' \subseteq Thread /\ overlapped' \in BOOLEAN
    BY <1>5, <2>1 DEF LoadIndex, Copying
  <2>3. next' \in [Thread -> 0 .. N - 1] /\ k' \in [Thread -> 0 .. LastPart + 1] /\ k'[t] \in Parts
    BY <1>5, <2>1, PartsFacts DEF LoadIndex
  <2>4. /\ pc' = [pc EXCEPT ![t] = "put"] /\ want' = want /\ pc[t] = "index"
        /\ \A u \in Thread : u # t => k'[u] = k[u]
        /\ slot' = slot /\ idx' = idx /\ active' = active /\ ptr' = ptr /\ copy' = copy
        /\ log' = log /\ from' = from
    BY <1>5 DEF LoadIndex
  <2>. QED BY <2>2, <2>3, <2>4
<1>6. ASSUME NEW t \in Thread, PutPart(t) PROVE TypeOK'
  <2>1. k[t] \in Parts /\ want[t] \in Act /\ next[t] \in 0 .. N - 1
    BY <1>6 DEF PutPart
  <2>2. slot' \in [0 .. N - 1 -> [Parts -> Act]]
    BY <1>6, <2>1 DEF PutPart
  <2>3. k' \in [Thread -> 0 .. LastPart + 1] /\ (k[t] # LastPart => k'[t] \in Parts)
    BY <1>6, <2>1 DEF PutPart, Parts
  <2>4. CASE k[t] = LastPart
    BY <1>6, <2>2, <2>3, <2>4 DEF PutPart
  <2>5. CASE k[t] # LastPart
    BY <1>6, <2>2, <2>3, <2>5 DEF PutPart
  <2>. QED BY <2>4, <2>5
<1>7. ASSUME NEW t \in Thread, Publish(t) PROVE TypeOK'
  <2>1. log' \in Seq(Act) /\ Len(log') = Len(log) + 1
    <3>1. want[t] \in Act /\ log' = Append(log, want[t])
      BY <1>7 DEF Publish
    <3>. QED BY <3>1
  <2>2. from' \in [Thread -> 1 .. Len(log')]
    BY <1>7, <2>1 DEF Publish
  <2>. QED BY <1>7, <2>1, <2>2 DEF Publish
<1>8. ASSUME NEW t \in Thread, Advance(t) PROVE TypeOK'
  BY <1>8 DEF Advance
<1>9. CASE UNCHANGED vars
  BY <1>9 DEF vars
<1>10. ASSUME NEW t \in Thread, Step(t) PROVE TypeOK'
  <2>1. CASE Call(t, NoAct, TRUE)
    BY <1>1, <2>1, Zenon
  <2>2. CASE \E a \in Act, old \in BOOLEAN : (old => t \in Reader) /\ Call(t, a, old)
    <3>1. PICK a \in Act, old \in BOOLEAN : Call(t, a, old)
      BY <2>2
    <3>2. a \in Act \cup {NoAct} /\ a # NoAct
      OBVIOUS
    <3>. QED BY <1>1, <3>1, <3>2, ZenonT(60)
  <2>. QED
    BY <1>2, <1>3, <1>4, <1>5, <1>6, <1>7, <1>8, <1>10, <2>1, <2>2 DEF Step
<1>. QED BY <1>9, <1>10 DEF Next

(* Every variable keeps its type (SigRing's type invariant), and nobody      *)
(* indexes the ring out of its bounds, however many threads publish at once. *)
THEOREM TypeCorrect == Spec => []TypeOK
BY InitType, TypeStep, PTL DEF Spec
-----------------------------------------------------------------------------

-----------------------------------------------------------------------------
(* What a step leaves alone of a thread. *)
Untouched(u) ==
  /\ pc'[u] = pc[u] /\ want'[u] = want[u] /\ ptr'[u] = ptr[u] /\ copy'[u] = copy[u]
  /\ next'[u] = next[u] /\ k'[u] = k[u] /\ from'[u] = from[u]

LEMMA InitIInv == Init => IInv
<1> SUFFICES ASSUME Init PROVE IInv
  OBVIOUS
<1>1. TypeOK
  BY InitType
<1>2. PICK a \in Act : /\ slot = [i \in 0 .. N - 1 |-> Whole(IF i = 0 THEN a ELSE SigDfl)]
                       /\ log = <<a>>
  BY DEF Init
<1>3. slot[0] = Whole(a) /\ active = 0 /\ Len(log) = 1 /\ log[1] = a
  BY <1>2, RingAssumption DEF Init
<1>4. PublishedUnlessSpoilt
  BY <1>3 DEF PublishedUnlessSpoilt, Published
<1>5. OneWriter
  BY DEF Init, OneWriter, Storing
<1>6. ASSUME NEW t \in Thread PROVE WriterInv(t) /\ ReaderInv(t)
  BY DEF Init, WriterInv, ReaderInv, Storing
<1>. QED BY <1>1, <1>4, <1>5, <1>6 DEF IInv

(* A step that stores nothing shared, of a thread that is not storing: only  *)
(* what it has read itself is left to show.                                  *)
LEMMA QuietStep ==
  ASSUME IInv, NEW t \in Thread,
         slot' = slot, log' = log, active' = active, spoilt' = spoilt,
         pc[t] \notin {"put", "publish"}, pc'[t] \notin {"put", "publish"},
         \A u \in Thread : u # t => Untouched(u) /\ (u \in overrun' <=> u \in overrun)
  PROVE  /\ PublishedUnlessSpoilt' /\ OneWriter'
         /\ \A u \in Thread : WriterInv(u)' /\ (u # t => ReaderInv(u)')
<1>1. Storing' = Storing /\ \A u \in Storing : u \in Thread /\ u # t
  BY DEF Storing, Untouched
<1>2. PublishedUnlessSpoilt'
  BY DEF IInv, PublishedUnlessSpoilt, Published, Whole, Parts
<1>3. OneWriter'
  BY <1>1 DEF IInv, OneWriter, Untouched
<1>4. ASSUME NEW u \in Thread PROVE WriterInv(u)'
  <2>1. CASE u = t
    BY <1>1, <2>1 DEF WriterInv
  <2>2. CASE u # t
    <3>1. WriterInv(u) /\ Untouched(u)
      BY <2>2 DEF IInv
    <3>. QED BY <1>1, <3>1 DEF WriterInv, Untouched, Whole, Parts
  <2>. QED BY <2>1, <2>2
<1>5. ASSUME NEW u \in Thread, u # t PROVE ReaderInv(u)'
  <2>1. ReaderInv(u) /\ Untouched(u) /\ (u \in overrun' <=> u \in overrun)
    BY <1>5 DEF IInv
  <2>2. \A w \in Storing : next'[w] = next[w]
    BY <1>1 DEF Untouched
  <2>. QED BY <1>1, <2>1, <2>2 DEF ReaderInv, Untouched, Whole, Parts
<1>. QED BY <1>2, <1>3, <1>4, <1>5

(* Another thread's step that stores nothing to a reader's slot. *)
LEMMA ReaderFrame ==
  ASSUME IInv, NEW u \in Thread, Untouched(u), u \notin overrun' => u \notin overrun,
         pc[u] = "copy" /\ u \notin overrun' =>
           /\ slot'[ptr[u]] = slot[ptr[u]]
           /\ log'[from[u]] = log[from[u]]
           /\ \A w \in Storing' : next'[w] # ptr[u]
  PROVE  ReaderInv(u)'
<1>1. ReaderInv(u)
  BY DEF IInv
<1>. QED BY <1>1 DEF ReaderInv, Untouched, Whole, Parts

LEMMA LoadIndexIInv ==
  ASSUME IInv, TypeOK', NEW t \in Thread, LoadIndex(t) PROVE IInv'
<1> DEFINE n == NextIndex(idx)
<1>1. /\ slot' = slot /\ log' = log /\ active' = active
      /\ pc[t] = "index" /\ pc'[t] = "put" /\ next'[t] = n /\ k'[t] = 0
      /\ spoilt' = (IF InUse(n) THEN spoilt \cup {n} ELSE spoilt \ {n})
      /\ overrun' = overrun \cup Copying(n)
      /\ \A u \in Thread : u # t => Untouched(u)
  BY DEF LoadIndex, IInv, TypeOK, Untouched
<1> HIDE DEF n
<1>2. Storing' = Storing \cup {t} /\ \A u \in Storing : u \in Thread /\ u # t /\ next'[u] = next[u]
  BY <1>1 DEF Storing, Untouched
<1>3. n \notin spoilt' => n # active /\ \A u \in Storing : next[u] # n
  BY <1>1 DEF InUse
<1>4. ASSUME NEW i, i \notin spoilt', i # n PROVE i \notin spoilt
  BY <1>1, <1>4
<1>5. PublishedUnlessSpoilt'
  <2>1. active \notin spoilt' => active \notin spoilt
    BY <1>3, <1>4
  <2>. QED BY <1>1, <2>1 DEF IInv, PublishedUnlessSpoilt, Published, Whole, Parts
<1>6. OneWriter'
  <2>1. SUFFICES ASSUME NEW u \in Storing', NEW w \in Storing',
                        next'[u] = next'[w], next'[u] \notin spoilt'
                 PROVE  u = w
    BY DEF OneWriter
  <2>2. CASE next'[u] = n
    BY <1>1, <1>2, <1>3, <2>1, <2>2
  <2>3. CASE next'[u] # n
    <3>1. u \in Storing /\ w \in Storing /\ next[u] = next[w] /\ next[u] \notin spoilt
      BY <1>1, <1>2, <1>4, <2>1, <2>3
    <3>. QED BY <3>1 DEF IInv, OneWriter
  <2>. QED BY <2>2, <2>3
<1>7. ASSUME NEW u \in Thread PROVE WriterInv(u)'
  <2>1. CASE u = t
    <3>1. \A p \in Parts : ~(p < 0)
      BY PartsFacts
    <3>. QED BY <1>1, <1>3, <2>1, <3>1 DEF WriterInv, Parts
  <2>2. CASE u # t /\ u \in Storing' /\ next'[u] \notin spoilt'
    <3>1. u \in Storing /\ next[u] # n /\ next[u] \notin spoilt
      BY <1>2, <1>3, <1>4, <2>2
    <3>2. WriterInv(u) /\ Untouched(u)
      BY <1>1, <2>2 DEF IInv
    <3>. QED BY <1>1, <3>1, <3>2 DEF WriterInv, Untouched, Whole, Parts
  <2>. QED BY <2>1, <2>2 DEF WriterInv
<1>8. ASSUME NEW u \in Thread PROVE ReaderInv(u)'
  <2>1. CASE u = t
    BY <1>1, <2>1 DEF ReaderInv
  <2>2. CASE u # t
    <3>1. pc[u] = "copy" /\ u \notin overrun' => u \notin overrun /\ ptr[u] # n
      BY <1>1 DEF Copying
    <3>2. ReaderInv(u)
      BY DEF IInv
    <3>3. pc[u] = "copy" /\ u \notin overrun' => \A w \in Storing' : next'[w] # ptr[u]
      BY <1>1, <1>2, <3>1, <3>2 DEF ReaderInv
    <3>. QED BY <1>1, <2>2, <3>1, <3>3, ReaderFrame
  <2>. QED BY <2>1, <2>2
<1>. QED BY <1>5, <1>6, <1>7, <1>8 DEF IInv

LEMMA PutPartIInv ==
  ASSUME IInv, TypeOK', NEW t \in Thread, PutPart(t) PROVE IInv'
<1>1. /\ log' = log /\ active' = active /\ want' = want /\ next' = next /\ copy' = copy
      /\ spoilt' = spoilt /\ overrun' = overrun
      /\ pc[t] = "put" /\ pc'[t] = (IF k[t] = LastPart THEN "publish" ELSE "put")
      /\ k'[t] = k[t] + 1 /\ k[t] \in Parts
      /\ slot' = [slot EXCEPT ![next[t]] = [@ EXCEPT ![k[t]] = want[t]]]
      /\ next[t] \in 0 .. N - 1 /\ slot \in [0 .. N - 1 -> [Parts -> Act]]
      /\ \A u \in Thread : u # t => Untouched(u)
  BY DEF PutPart, IInv, TypeOK, history, Untouched
<1>2. t \in Storing /\ Storing' = Storing /\ Storing \subseteq Thread
  BY <1>1 DEF Storing, Untouched
<1>3. \A i : i # next[t] => slot'[i] = slot[i]
  BY <1>1
<1>4. PublishedUnlessSpoilt'
  <2>1. active \notin spoilt => next[t] # active
    BY <1>2 DEF IInv, WriterInv
  <2>. QED BY <1>1, <1>3, <2>1 DEF IInv, PublishedUnlessSpoilt, Published, Whole, Parts
<1>5. OneWriter'
  BY <1>1, <1>2 DEF IInv, OneWriter
<1>6. WriterInv(t)'
  <2>1. SUFFICES ASSUME next[t] \notin spoilt PROVE WriterInv(t)'
    BY <1>1 DEF WriterInv
  <2>2. next[t] # active /\ \A p \in Parts : p < k[t] => slot[next[t]][p] = want[t]
    BY <1>1, <1>2, <2>1 DEF IInv, WriterInv
  <2>3. \A p \in Parts : p < k'[t] => slot'[next[t]][p] = want[t]
    <3>1. SUFFICES ASSUME NEW p \in Parts, p < k[t] + 1
                   PROVE  [slot[next[t]] EXCEPT ![k[t]] = want[t]][p] = want[t]
      BY <1>1
    <3>2. p < k[t] \/ p = k[t]
      <4>1. k[t] \in Nat /\ p \in Nat
        BY <1>1, PartsFacts
      <4>. QED BY <3>1, <4>1
    <3>3. slot[next[t]] \in [Parts -> Act]
      BY <1>1
    <3>. QED BY <1>1, <2>2, <3>2, <3>3
  <2>4. pc'[t] = "publish" => slot'[next[t]] = Whole(want[t])
    <3>1. SUFFICES ASSUME pc'[t] = "publish" PROVE slot'[next[t]] = Whole(want[t])
      OBVIOUS
    <3>2. \A p \in Parts : p < k'[t]
      BY <1>1, <3>1 DEF Parts
    <3>. QED BY <1>1, <2>3, <3>2 DEF Whole
  <2>. QED BY <1>1, <2>2, <2>3, <2>4 DEF WriterInv, Whole, Parts
<1>7. ASSUME NEW u \in Thread, u # t PROVE WriterInv(u)'
  <2>1. SUFFICES ASSUME u \in Storing, next[u] \notin spoilt PROVE WriterInv(u)'
    BY <1>1, <1>2 DEF WriterInv
  <2>2. next[u] # next[t]
    BY <1>2, <1>7, <2>1 DEF IInv, OneWriter
  <2>3. WriterInv(u) /\ Untouched(u) /\ slot'[next[u]] = slot[next[u]]
    BY <1>1, <1>3, <1>7, <2>2 DEF IInv
  <2>. QED BY <1>1, <1>2, <2>1, <2>3 DEF WriterInv, Untouched, Whole, Parts
<1>8. ASSUME NEW u \in Thread PROVE ReaderInv(u)'
  <2>1. CASE u = t
    BY <1>1, <2>1 DEF ReaderInv
  <2>2. CASE u # t
    <3>1. pc[u] = "copy" /\ u \notin overrun => \A w \in Storing : next[w] # ptr[u]
      BY DEF IInv, ReaderInv
    <3>2. pc[u] = "copy" /\ u \notin overrun => slot'[ptr[u]] = slot[ptr[u]]
      BY <1>2, <1>3, <3>1
    <3>. QED BY <1>1, <1>2, <2>2, <3>1, <3>2, ReaderFrame
  <2>. QED BY <2>1, <2>2
<1>. QED BY <1>4, <1>5, <1>6, <1>7, <1>8 DEF IInv

(* What a publication adds to the log. *)
LEMMA Appended ==
  ASSUME TypeOK, NEW t \in Thread, Publish(t)
  PROVE  /\ Len(log') = Len(log) + 1 /\ Len(log) \in Nat \ {0}
         /\ log'[Len(log')] = want[t] /\ want[t] \in Act
         /\ \A u \in Thread : log'[from[u]] = log[from[u]]
<1>1. log' = Append(log, want[t]) /\ log \in Seq(Act) /\ want[t] \in Act /\ Len(log) > 0
  BY DEF Publish, TypeOK
<1>2. \A u \in Thread : from[u] \in 1 .. Len(log)
  BY DEF TypeOK
<1>. QED BY <1>1, <1>2

LEMMA PublishIInv ==
  ASSUME IInv, TypeOK', NEW t \in Thread, Publish(t) PROVE IInv'
<1>1. /\ slot' = slot /\ next' = next /\ copy' = copy /\ from' = from
      /\ spoilt' = spoilt /\ overrun' = overrun /\ active' = next[t]
      /\ pc[t] = "publish" /\ pc'[t] = "advance"
      /\ \A u \in Thread : u # t => Untouched(u)
  BY DEF Publish, IInv, TypeOK, Untouched
<1>2. /\ log'[Len(log')] = want[t]
      /\ \A u \in Thread : log'[from[u]] = log[from[u]]
  BY Appended DEF IInv
<1>3. t \in Storing /\ Storing' = Storing \ {t}
  BY <1>1 DEF Storing, Untouched
<1>4. PublishedUnlessSpoilt'
  <2>1. next[t] \notin spoilt => slot[next[t]] = Whole(want[t])
    BY <1>1, <1>3 DEF IInv, WriterInv
  <2>. QED BY <1>1, <1>2, <2>1 DEF PublishedUnlessSpoilt, Published, Whole, Parts
<1>5. OneWriter'
  BY <1>1, <1>3 DEF IInv, OneWriter
<1>6. ASSUME NEW u \in Thread PROVE WriterInv(u)'
  <2>1. SUFFICES ASSUME u \in Storing, u # t, next[u] \notin spoilt PROVE WriterInv(u)'
    BY <1>1, <1>3 DEF WriterInv
  <2>2. next[u] # next[t]
    BY <1>3, <2>1 DEF IInv, OneWriter
  <2>3. WriterInv(u) /\ Untouched(u)
    BY <1>1, <2>1 DEF IInv
  <2>. QED BY <1>1, <2>1, <2>2, <2>3 DEF WriterInv, Untouched, Whole, Parts
<1>7. ASSUME NEW u \in Thread PROVE ReaderInv(u)'
  <2>1. CASE u = t
    BY <1>1, <2>1 DEF ReaderInv
  <2>2. CASE u # t
    <3>1. pc[u] = "copy" /\ u \notin overrun => \A w \in Storing' : next'[w] # ptr[u]
      BY <1>1, <1>3 DEF IInv, ReaderInv
    <3>. QED BY <1>1, <1>2, <2>2, <3>1, ReaderFrame
  <2>. QED BY <2>1, <2>2
<1>. QED BY <1>4, <1>5, <1>6, <1>7 DEF IInv

LEMMA LoadPointerIInv ==
  ASSUME IInv, TypeOK', NEW t \in Thread, LoadPointer(t) PROVE IInv'
<1>1. /\ slot' = slot /\ log' = log /\ active' = active /\ spoilt' = spoilt /\ next' = next
      /\ pc[t] = "pointer" /\ pc'[t] = "copy"
      /\ ptr'[t] = active /\ from'[t] = Len(log) /\ k'[t] = 0
      /\ (t \notin overrun' => active \notin spoilt)
      /\ \A u \in Thread : u # t => Untouched(u) /\ (u \in overrun' <=> u \in overrun)
  BY DEF LoadPointer, IInv, TypeOK, Untouched
<1>2. /\ PublishedUnlessSpoilt' /\ OneWriter'
      /\ \A u \in Thread : WriterInv(u)' /\ (u # t => ReaderInv(u)')
  BY <1>1, QuietStep
<1>3. ReaderInv(t)'
  <2>1. SUFFICES ASSUME active \notin spoilt PROVE ReaderInv(t)'
    BY <1>1 DEF ReaderInv
  <2>2. slot[active] = Whole(log[Len(log)])
    BY <2>1 DEF IInv, PublishedUnlessSpoilt, Published
  <2>3. Storing' = Storing /\ \A u \in Storing : next[u] # active
    <3>1. Storing' = Storing /\ Storing \subseteq Thread
      BY <1>1 DEF Storing, Untouched
    <3>. QED BY <2>1, <3>1 DEF IInv, WriterInv
  <2>4. \A p \in Parts : ~(p < 0)
    BY PartsFacts
  <2>. QED BY <1>1, <2>2, <2>3, <2>4 DEF ReaderInv, Whole, Parts
<1>. QED BY <1>2, <1>3 DEF IInv

(* What a reader that is not overrun has copied after one more part. *)
LEMMA CopyStep ==
  ASSUME IInv, NEW t \in Thread, CopyPart(t), t \notin overrun
  PROVE  /\ \A p \in Parts : p < k[t] + 1 => copy'[t][p] = log[from[t]]
         /\ k[t] = LastPart => copy'[t] = Whole(log[from[t]])
<1>1. /\ pc[t] = "copy" /\ k[t] \in Parts /\ copy[t] \in [Parts -> Act]
      /\ copy'[t] = [copy[t] EXCEPT ![k[t]] = slot[ptr[t]][k[t]]]
  BY DEF CopyPart, IInv, TypeOK
<1>2. /\ slot[ptr[t]] = Whole(log[from[t]])
      /\ \A p \in Parts : p < k[t] => copy[t][p] = log[from[t]]
  BY <1>1 DEF IInv, ReaderInv
<1>3. slot[ptr[t]][k[t]] = log[from[t]]
  BY <1>1, <1>2 DEF Whole
<1>4. ASSUME NEW p \in Parts, p < k[t] + 1 PROVE copy'[t][p] = log[from[t]]
  <2>1. k[t] \in Nat /\ p \in Nat
    BY <1>1, PartsFacts
  <2>2. p < k[t] \/ p = k[t]
    BY <1>4, <2>1
  <2>. QED BY <1>1, <1>2, <1>3, <2>2
<1>5. ASSUME k[t] = LastPart PROVE copy'[t] = Whole(log[from[t]])
  <2>1. \A p \in Parts : p < k[t] + 1
    BY <1>5, RingAssumption DEF Parts
  <2>2. copy'[t] = [p \in Parts |-> copy'[t][p]]
    BY <1>1
  <2>. QED BY <1>4, <2>1, <2>2, WholeByParts
<1>. QED BY <1>4, <1>5

LEMMA CopyPartIInv ==
  ASSUME IInv, TypeOK', NEW t \in Thread, CopyPart(t) PROVE IInv'
<1>1. /\ slot' = slot /\ log' = log /\ active' = active /\ spoilt' = spoilt /\ next' = next
      /\ ptr' = ptr /\ from' = from /\ overrun' = overrun
      /\ pc[t] = "copy" /\ pc'[t] \in {"copy", "copied"} /\ k'[t] = k[t] + 1
      /\ \A u \in Thread : u # t => Untouched(u)
  BY DEF CopyPart, IInv, TypeOK, history, Untouched
<1>2. /\ PublishedUnlessSpoilt' /\ OneWriter'
      /\ \A u \in Thread : WriterInv(u)' /\ (u # t => ReaderInv(u)')
  BY <1>1, QuietStep
<1>3. ReaderInv(t)'
  <2>1. SUFFICES ASSUME t \notin overrun PROVE ReaderInv(t)'
    BY <1>1 DEF ReaderInv
  <2>2. /\ slot[ptr[t]] = Whole(log[from[t]])
        /\ \A u \in Storing : next[u] # ptr[t]
    BY <1>1, <2>1 DEF IInv, ReaderInv
  <2>3. Storing' = Storing
    BY <1>1 DEF Storing, Untouched
  <2>4. \A p \in Parts : p < k'[t] => copy'[t][p] = log[from[t]]
    BY <1>1, <2>1, CopyStep
  <2>. QED BY <1>1, <2>2, <2>3, <2>4 DEF ReaderInv, Whole, Parts
<1>. QED BY <1>2, <1>3 DEF IInv

LEMMA LocalIInv ==
  ASSUME IInv, TypeOK', NEW t \in Thread, NEW a, NEW old,
         Call(t, a, old) \/ HandOut(t) \/ Advance(t)
  PROVE  IInv'
<1>1. /\ slot' = slot /\ log' = log /\ active' = active /\ spoilt' = spoilt
      /\ overrun' = overrun /\ pc[t] \in {"idle", "copied", "advance"}
      /\ pc'[t] \in {"idle", "pointer", "index"}
      /\ \A u \in Thread : u # t => Untouched(u)
  <2>1. CASE Call(t, a, old)
    BY <2>1 DEF Call, IInv, TypeOK, history, Untouched
  <2>2. CASE HandOut(t)
    BY <2>2 DEF HandOut, IInv, TypeOK, history, Untouched
  <2>3. CASE Advance(t)
    BY <2>3 DEF Advance, IInv, TypeOK, history, Untouched
  <2>. QED BY <2>1, <2>2, <2>3
<1>2. /\ PublishedUnlessSpoilt' /\ OneWriter'
      /\ \A u \in Thread : WriterInv(u)' /\ (u # t => ReaderInv(u)')
  BY <1>1, QuietStep
<1>3. ReaderInv(t)'
  BY <1>1 DEF ReaderInv
<1>. QED BY <1>2, <1>3 DEF IInv

LEMMA StutterIInv == ASSUME IInv, UNCHANGED vars PROVE IInv'
<1>1. /\ slot' = slot /\ log' = log /\ active' = active /\ spoilt' = spoilt
      /\ overrun' = overrun /\ \A u \in Thread : Untouched(u)
      /\ Storing' = Storing /\ next' = next
  BY DEF vars, history, Untouched, Storing
<1>2. TypeOK'
  BY TypeStep DEF IInv
<1>3. PublishedUnlessSpoilt' /\ OneWriter'
  BY <1>1 DEF IInv, PublishedUnlessSpoilt, Published, OneWriter, Whole, Parts
<1>4. ASSUME NEW u \in Thread PROVE WriterInv(u)' /\ ReaderInv(u)'
  <2>1. WriterInv(u) /\ ReaderInv(u) /\ Untouched(u)
    BY <1>1 DEF IInv
  <2>2. WriterInv(u)'
    BY <1>1, <2>1 DEF WriterInv, Untouched, Whole, Parts
  <2>3. ReaderInv(u)'
    BY <1>1, <2>1 DEF ReaderInv, Untouched, Whole, Parts
  <2>. QED BY <2>2, <2>3
<1>. QED BY <1>2, <1>3, <1>4 DEF IInv

LEMMA StepIInv == IInv /\ [Next]_vars => IInv'
<1> SUFFICES ASSUME IInv, [Next]_vars PROVE IInv'
  OBVIOUS
<1>1. TypeOK'
  BY TypeStep DEF IInv
<1>2. CASE UNCHANGED vars
  BY <1>2, StutterIInv
<1>3. ASSUME NEW t \in Thread, Step(t) PROVE IInv'
  BY <1>1, <1>3, LoadPointerIInv, CopyPartIInv, LoadIndexIInv, PutPartIInv, PublishIInv,
     LocalIInv, ZenonT(60) DEF Step
<1>. QED BY <1>2, <1>3 DEF Next

LEMMA Invariance == Spec => []IInv
BY InitIInv, StepIInv, PTL DEF Spec

(* Whatever the interleaving of the calls, the published action is the one   *)
(* last published, whole, unless its slot was taken while it was in use      *)
(* (sa_slots[next_idx] = *act; active_sa = &sa_slots[next_idx]).             *)
THEOREM PublishedIsWhole == Spec => []PublishedUnlessSpoilt
<1>1. IInv => PublishedUnlessSpoilt
  BY DEF IInv
<1>. QED BY <1>1, Invariance, PTL

-----------------------------------------------------------------------------
(* A step that SigDisposition does not see.                                  *)
Unseen == log' = log /\ Given' = Given

(* What the ring holds is the last published action, in either case.         *)
LEMMA HeldIsPublished ==
  ASSUME IInv
  PROVE  Held = Whole(log[Len(log)]) /\ Held \in {Whole(a) : a \in Act}
<1>1. Held = Published
  BY DEF IInv, PublishedUnlessSpoilt, Held
<1>2. log[Len(log)] \in Act
  BY DEF IInv, TypeOK
<1>. QED BY <1>1, <1>2 DEF Published

LEMMA HeldByLog ==
  ASSUME IInv, IInv', log' = log
  PROVE  Held' = Held
<1>1. Held = Published /\ Held' = Published'
  BY DEF IInv, PublishedUnlessSpoilt, Held
<1>. QED BY <1>1 DEF Published, Whole, Parts

LEMMA InitRefines == Init => Disposition!Init
<1> SUFFICES ASSUME Init PROVE Disposition!Init
  OBVIOUS
<1>1. Held \in {Whole(a) : a \in Act}
  BY InitIInv, HeldIsPublished
<1>2. \A t \in Thread : pc[t] = "idle" /\ t \notin overrun /\ copy[t] = Whole(SigDfl)
  BY DEF Init
<1>. QED BY <1>1, <1>2, RingAssumption DEF Disposition!Init, Given

(* What a thread is given does not change with a step of another thread, nor *)
(* with a step of its own that neither starts nor ends a copy.               *)
LEMMA GivenFrame ==
  ASSUME NEW u \in Thread, copy'[u] = copy[u], log'[from'[u]] = log[from[u]],
         (pc'[u] = "copy" \/ u \in overrun') <=> (pc[u] = "copy" \/ u \in overrun)
  PROVE  Given'[u] = Given[u]
BY DEF Given, Whole, Parts

LEMMA GivenSame == ASSUME \A u \in Thread : Given'[u] = Given[u] PROVE Given' = Given
BY DEF Given

(* A step of the ring reads the register, writes it, or does neither.        *)
LEMMA StepRefines ==
  IInv /\ IInv' /\ [Next]_vars => [Disposition!Next]_(Disposition!vars)
<1> SUFFICES ASSUME IInv, IInv', [Next]_vars
             PROVE  Disposition!Next \/ Unseen
  BY HeldByLog DEF Disposition!vars, Unseen
<1>0. TypeOK /\ TypeOK'
  BY DEF IInv
<1>1. ASSUME NEW t \in Thread, NEW a, NEW old,
             Call(t, a, old) \/ HandOut(t) \/ Advance(t) \/ PutPart(t)
      PROVE  Unseen
  <2>1. /\ copy' = copy /\ from' = from /\ log' = log /\ overrun' = overrun
        /\ \A u \in Thread : pc'[u] = "copy" <=> pc[u] = "copy"
    BY <1>0, <1>1 DEF Call, HandOut, Advance, PutPart, TypeOK, history
  <2>. QED BY <2>1, GivenFrame, GivenSame DEF Unseen
<1>2. ASSUME NEW t \in Thread, LoadPointer(t) PROVE Disposition!Next
  <2>1. /\ log' = log /\ pc[t] = "pointer" /\ pc'[t] = "copy" /\ from'[t] = Len(log)
        /\ \A u \in Thread : u # t => pc'[u] = pc[u] /\ copy'[u] = copy[u] /\ from'[u] = from[u]
        /\ \A u \in Thread : u # t => (u \in overrun' <=> u \in overrun)
    BY <1>0, <1>2 DEF LoadPointer, TypeOK
  <2>2. Given'[t] = Held
    BY <2>1, HeldIsPublished, ZenonT(60) DEF Given, Whole, Parts
  <2>3. \A u \in Thread : u # t => Given'[u] = Given[u]
    BY <2>1, GivenFrame
  <2>4. Given' = [Given EXCEPT ![t] = Held]
    BY <2>2, <2>3 DEF Given
  <2>. QED BY <2>1, <2>4, HeldByLog DEF Disposition!Next, Disposition!Take
<1>3. ASSUME NEW t \in Thread, CopyPart(t) PROVE Unseen
  <2>1. /\ log' = log /\ from' = from /\ overrun' = overrun
        /\ pc[t] = "copy" /\ pc'[t] = (IF k[t] = LastPart THEN "copied" ELSE "copy")
        /\ \A u \in Thread : u # t => pc'[u] = pc[u] /\ copy'[u] = copy[u]
    BY <1>0, <1>3 DEF CopyPart, TypeOK, history
  <2>2. Given[t] = Whole(log[from[t]])
    BY <2>1 DEF Given
  <2>3. Given'[t] = Whole(log[from[t]])
    <3>1. CASE pc'[t] = "copy" \/ t \in overrun'
      BY <2>1, <3>1 DEF Given, Whole, Parts
    <3>2. CASE k[t] = LastPart /\ t \notin overrun
      <4>1. copy'[t] = Whole(log[from[t]])
        BY <1>3, <3>2, CopyStep
      <4>2. Given'[t] = copy'[t]
        BY <2>1, <3>2 DEF Given
      <4>. QED BY <4>1, <4>2
    <3>. QED BY <2>1, <3>1, <3>2
  <2>4. \A u \in Thread : u # t => Given'[u] = Given[u]
    BY <2>1, GivenFrame
  <2>. QED BY <2>1, <2>2, <2>3, <2>4, GivenSame DEF Unseen
<1>4. ASSUME NEW t \in Thread, LoadIndex(t) PROVE Unseen
  <2>1. /\ copy' = copy /\ from' = from /\ log' = log
        /\ overrun' = overrun \cup Copying(NextIndex(idx))
        /\ \A u \in Thread : pc'[u] = "copy" <=> pc[u] = "copy"
    BY <1>0, <1>4 DEF LoadIndex, TypeOK
  <2>2. \A u \in Thread :
          (pc'[u] = "copy" \/ u \in overrun') <=> (pc[u] = "copy" \/ u \in overrun)
    BY <2>1 DEF Copying
  <2>. QED BY <2>1, <2>2, GivenFrame, GivenSame DEF Unseen
<1>5. ASSUME NEW t \in Thread, Publish(t) PROVE Disposition!Next
  <2>1. /\ copy' = copy /\ from' = from /\ overrun' = overrun
        /\ \A u \in Thread : pc'[u] = "copy" <=> pc[u] = "copy"
    BY <1>0, <1>5 DEF Publish, TypeOK
  <2>2. /\ log'[Len(log')] = want[t] /\ want[t] \in Act
        /\ \A u \in Thread : log'[from[u]] = log[from[u]]
    BY <1>0, <1>5, Appended
  <2>3. Given' = Given
    BY <2>1, <2>2, GivenFrame, GivenSame
  <2>4. Held' = Whole(want[t])
    <3>1. Held' = Published'
      BY DEF IInv, PublishedUnlessSpoilt, Held
    <3>. QED BY <2>2, <3>1 DEF Published, Whole, Parts
  <2>. QED BY <2>2, <2>3, <2>4 DEF Disposition!Next, Disposition!Install
<1>6. CASE UNCHANGED vars
  BY <1>6, GivenFrame, GivenSame DEF vars, history, Unseen
<1>7. ASSUME NEW t \in Thread, Step(t) PROVE Disposition!Next \/ Unseen
  BY <1>1, <1>2, <1>3, <1>4, <1>5, <1>7, ZenonT(60) DEF Step
<1>. QED BY <1>6, <1>7 DEF Next

(* The ring implements the disposition that POSIX describes, whatever the    *)
(* interleaving, but for a spoilt published slot and for overrun readers     *)
(* (get_active_sa, and the publication in sigaction and the watchdog).       *)
THEOREM RingImplementsDisposition == Spec => RingIsADisposition
<1>. QED
  BY InitRefines, StepRefines, Invariance, PTL
     DEF Spec, RingIsADisposition, Disposition!Spec

-----------------------------------------------------------------------------
SInv == TypeOK /\ SerialInv /\ OverrunTakesARound

LEMMA InitSInv == Init => SInv
<1> SUFFICES ASSUME Init PROVE SInv
  OBVIOUS
<1>1. Len(log) = 1
  BY DEF Init
<1>2. SerialInv
  BY <1>1, PosFirst DEF Init, SerialInv, Publishing, Storing
<1>3. OverrunTakesARound
  BY DEF Init, OverrunTakesARound
<1>. QED BY <1>2, <1>3, InitType DEF SInv

(* The slot of a reader is taken again only a round after it was published. *)
LEMMA TakenAgain ==
  ASSUME TypeOK, NEW u \in Thread, Pos(from[u]) = Pos(Len(log) + 1)
  PROVE  Len(log) - from[u] >= N - 1
<1>1. from[u] \in Nat \ {0} /\ Len(log) + 1 \in Nat \ {0} /\ from[u] < Len(log) + 1
  BY DEF TypeOK
<1>2. ~((Len(log) + 1) - from[u] < N)
  BY <1>1, PosDistinct
<1>. QED BY <1>1, <1>2, RingAssumption

(* The slot after the published one is another. *)
LEMMA NextIsFree ==
  ASSUME TypeOK
  PROVE  /\ Pos(Len(log) + 1) # Pos(Len(log))
         /\ NextIndex(Pos(Len(log))) = Pos(Len(log) + 1)
<1>1. Len(log) \in Nat \ {0} /\ Len(log) + 1 \in Nat \ {0}
  BY DEF TypeOK
<1>2. Len(log) < Len(log) + 1 /\ (Len(log) + 1) - Len(log) < N
  BY <1>1, RingAssumption
<1>. QED BY <1>1, <1>2, PosDistinct, PosNext

(* A step of a thread that does not publish. *)
LEMMA ReadingStep ==
  ASSUME SInv, ~overlapped, NEW t \in Thread,
         log' = log, active' = active, idx' = idx, spoilt' = spoilt,
         overrun' \subseteq overrun, \A u \in overrun' : from'[u] = from[u],
         pc[t] \notin {"put", "publish", "advance"},
         pc'[t] \notin {"put", "publish", "advance"},
         pc'[t] = "copy" => ptr'[t] = Pos(from'[t]),
         \A u \in Thread : u # t => Untouched(u)
  PROVE  SerialInv' /\ OverrunTakesARound'
<1>1. /\ Publishing' = Publishing /\ Storing' = Storing
      /\ \A u \in Thread : pc'[u] = "advance" <=> pc[u] = "advance"
      /\ \A u \in Thread : u \in Storing \/ pc[u] = "advance" => next'[u] = next[u]
      /\ Storing \subseteq Thread
  BY DEF Publishing, Storing, Untouched
<1>2. \A u \in Thread : pc'[u] = "copy" => ptr'[u] = Pos(from'[u])
  BY DEF SInv, SerialInv, Untouched
<1>3. Pos(Len(log))' = Pos(Len(log)) /\ Pos(Len(log) + 1)' = Pos(Len(log) + 1)
      /\ \A u \in Thread : Pos(from[u])' = Pos(from'[u])
  BY DEF Pos
<1>4. SerialInv'
  BY <1>1, <1>2, <1>3 DEF SInv, SerialInv
<1>5. OverrunTakesARound'
  BY DEF SInv, OverrunTakesARound, TypeOK
<1>. QED BY <1>4, <1>5

LEMMA StepSInv == SInv /\ [Next]_vars => SInv'
<1> SUFFICES ASSUME SInv, [Next]_vars PROVE SInv'
  OBVIOUS
<1>0. TypeOK /\ TypeOK'
  BY TypeStep DEF SInv
<1> DEFINE Rest == SerialInv' /\ OverrunTakesARound'
<1>1. SUFFICES ASSUME ~overlapped' PROVE Rest
  BY <1>0 DEF SInv, SerialInv, OverrunTakesARound
<1>2. ASSUME NEW t \in Thread, NEW a, NEW old, Call(t, a, old) \/ HandOut(t)
      PROVE  Rest
  <2>1. /\ log' = log /\ active' = active /\ idx' = idx /\ spoilt' = spoilt
        /\ overrun' = overrun /\ from' = from /\ overlapped' = overlapped
        /\ pc[t] \in {"idle", "copied"} /\ pc'[t] \in {"idle", "pointer", "index"}
        /\ \A u \in Thread : u # t => Untouched(u)
    BY <1>0, <1>2 DEF Call, HandOut, TypeOK, history, Untouched
  <2>. QED BY <1>1, <2>1, ReadingStep
<1>3. ASSUME NEW t \in Thread, LoadPointer(t) PROVE Rest
  <2>1. /\ log' = log /\ active' = active /\ idx' = idx /\ spoilt' = spoilt
        /\ overlapped' = overlapped /\ pc[t] = "pointer" /\ pc'[t] = "copy"
        /\ ptr'[t] = active /\ from'[t] = Len(log)
        /\ overrun' = (IF active \in spoilt THEN overrun \cup {t} ELSE overrun \ {t})
        /\ \A u \in Thread : u # t => Untouched(u)
    BY <1>0, <1>3 DEF LoadPointer, TypeOK, Untouched
  <2>2. active = Pos(Len(log)) /\ spoilt = {}
    BY <1>1, <2>1 DEF SInv, SerialInv, OverrunTakesARound
  <2>3. overrun' = overrun \ {t} /\ \A u \in overrun' : from'[u] = from[u]
    BY <1>0, <2>1, <2>2 DEF TypeOK, Untouched
  <2>. QED BY <1>1, <2>1, <2>2, <2>3, ReadingStep
<1>4. ASSUME NEW t \in Thread, CopyPart(t) PROVE Rest
  <2>1. /\ log' = log /\ active' = active /\ idx' = idx /\ spoilt' = spoilt
        /\ overrun' = overrun /\ from' = from /\ overlapped' = overlapped /\ ptr' = ptr
        /\ pc[t] = "copy" /\ pc'[t] \in {"copy", "copied"}
        /\ \A u \in Thread : u # t => Untouched(u)
    BY <1>0, <1>4 DEF CopyPart, TypeOK, history, Untouched
  <2>2. ptr[t] = Pos(from[t])
    BY <1>1, <2>1 DEF SInv, SerialInv
  <2>. QED BY <1>1, <2>1, <2>2, ReadingStep
<1>5. ASSUME NEW t \in Thread, LoadIndex(t) PROVE Rest
  <2>1. /\ log' = log /\ active' = active /\ idx' = idx /\ from' = from /\ ptr' = ptr
        /\ pc[t] = "index" /\ pc'[t] = "put" /\ next'[t] = NextIndex(idx)
        /\ spoilt' = (IF InUse(NextIndex(idx)) THEN spoilt \cup {NextIndex(idx)}
                                               ELSE spoilt \ {NextIndex(idx)})
        /\ overrun' = overrun \cup Copying(NextIndex(idx))
        /\ ~overlapped /\ Publishing = {}
        /\ \A u \in Thread : u # t => Untouched(u)
    BY <1>0, <1>1, <1>5 DEF LoadIndex, TypeOK, Untouched
  <2>2. \A u \in Thread : pc[u] \notin {"put", "publish", "advance"}
    BY <2>1 DEF Publishing
  <2>3. active = Pos(Len(log)) /\ idx = active /\ spoilt = {}
    BY <2>1, <2>2 DEF SInv, SerialInv, OverrunTakesARound
  <2>4. NextIndex(idx) = Pos(Len(log) + 1) /\ NextIndex(idx) # active
    BY <1>0, <2>3, NextIsFree
  <2>5. spoilt' = {}
    BY <2>1, <2>2, <2>3, <2>4 DEF InUse, Storing
  <2>6. Publishing' = {t} /\ Storing' = {t} /\ \A u \in Thread : pc'[u] # "advance"
    BY <2>1, <2>2 DEF Publishing, Storing, Untouched
  <2>7. \A u \in Thread : pc'[u] = "copy" => ptr[u] = Pos(from[u])
    BY <2>1 DEF SInv, SerialInv, Untouched
  <2>8. SerialInv'
    BY <2>1, <2>3, <2>4, <2>6, <2>7 DEF SerialInv, Pos
  <2>9. ASSUME NEW u \in overrun' PROVE Len(log) - from[u] >= N - 1
    <3>1. CASE u \in overrun
      BY <2>1, <3>1 DEF SInv, OverrunTakesARound
    <3>2. CASE u \in Copying(NextIndex(idx))
      <4>1. u \in Thread /\ Pos(from[u]) = Pos(Len(log) + 1)
        BY <2>1, <2>4, <3>2 DEF Copying, SInv, SerialInv
      <4>. QED BY <1>0, <4>1, TakenAgain
    <3>. QED BY <2>1, <3>1, <3>2
  <2>. QED BY <2>1, <2>5, <2>8, <2>9 DEF OverrunTakesARound
<1>6. ASSUME NEW t \in Thread, PutPart(t) PROVE Rest
  <2>1. /\ log' = log /\ active' = active /\ idx' = idx /\ from' = from /\ ptr' = ptr
        /\ spoilt' = spoilt /\ overrun' = overrun /\ overlapped' = overlapped
        /\ next' = next /\ pc[t] = "put" /\ pc'[t] \in {"put", "publish"}
        /\ \A u \in Thread : u # t => pc'[u] = pc[u]
    BY <1>0, <1>6 DEF PutPart, TypeOK, history
  <2>2. /\ Publishing' = Publishing /\ Storing' = Storing
        /\ \A u \in Thread : pc'[u] = "advance" <=> pc[u] = "advance"
        /\ \A u \in Thread : pc'[u] = "copy" <=> pc[u] = "copy"
    BY <2>1 DEF Publishing, Storing
  <2>3. SerialInv'
    BY <1>1, <2>1, <2>2 DEF SInv, SerialInv, Pos
  <2>. QED BY <1>1, <2>1, <2>3 DEF SInv, OverrunTakesARound
<1>7. ASSUME NEW t \in Thread, Publish(t) PROVE Rest
  <2>1. /\ idx' = idx /\ from' = from /\ ptr' = ptr /\ next' = next /\ active' = next[t]
        /\ spoilt' = spoilt /\ overrun' = overrun /\ overlapped' = overlapped
        /\ pc[t] = "publish" /\ pc'[t] = "advance"
        /\ \A u \in Thread : u # t => pc'[u] = pc[u]
    BY <1>0, <1>7 DEF Publish, TypeOK
  <2>2. Len(log') = Len(log) + 1 /\ Len(log) \in Nat
    BY <1>0, <1>7, Appended
  <2>3. next[t] = Pos(Len(log) + 1) /\ Publishing = {t}
    BY <1>1, <2>1 DEF SInv, SerialInv, Publishing, Storing
  <2>4. /\ Publishing' = {t} /\ Storing' = {}
        /\ \A u \in Thread : pc'[u] = "advance" => u = t
        /\ \A u \in Thread : pc'[u] = "copy" => pc[u] = "copy"
    BY <2>1, <2>3 DEF Publishing, Storing
  <2>5. Pos(Len(log')) = Pos(Len(log) + 1) /\ \A u \in Thread : Pos(from'[u]) = Pos(from[u])
    BY <2>1, <2>2 DEF Pos
  <2>6. SerialInv'
    <3>1. \A u \in Thread : pc'[u] = "copy" => ptr'[u] = Pos(from'[u])
      BY <1>1, <2>1, <2>4, <2>5 DEF SInv, SerialInv
    <3>2. active' = Pos(Len(log')) /\ \E u \in Thread : pc'[u] = "advance"
      BY <2>1, <2>3, <2>5
    <3>3. \A u, w \in Publishing' : u = w
      BY <2>4, Zenon
    <3>4. \A u \in Thread : pc'[u] = "advance" => next'[u] = active'
      BY <2>1, <2>4
    <3>5. \A u \in Storing' : next'[u] = Pos(Len(log') + 1)
      BY <2>4
    <3>. QED BY <3>1, <3>2, <3>3, <3>4, <3>5 DEF SerialInv, Pos
  <2>7. \A u \in overrun : Len(log') - from[u] >= N - 1
    BY <1>0, <1>1, <2>1, <2>2, RingAssumption DEF SInv, OverrunTakesARound, TypeOK
  <2>. QED BY <1>1, <2>1, <2>6, <2>7 DEF SInv, OverrunTakesARound
<1>8. ASSUME NEW t \in Thread, Advance(t) PROVE Rest
  <2>1. /\ log' = log /\ active' = active /\ idx' = next[t] /\ from' = from /\ ptr' = ptr
        /\ spoilt' = spoilt /\ overrun' = overrun /\ overlapped' = overlapped
        /\ pc[t] = "advance" /\ pc'[t] = "idle"
        /\ \A u \in Thread : u # t => pc'[u] = pc[u]
    BY <1>0, <1>8 DEF Advance, TypeOK, history
  <2>2. Publishing = {t} /\ next[t] = active
    BY <1>1, <2>1 DEF SInv, SerialInv, Publishing
  <2>3. /\ Publishing' = {} /\ Storing' = {}
        /\ \A u \in Thread : pc'[u] # "advance" /\ (pc'[u] = "copy" => pc[u] = "copy")
    BY <2>1, <2>2 DEF Publishing, Storing
  <2>4. SerialInv'
    <3>1. active = Pos(Len(log)) /\ \A u \in Thread : pc[u] = "copy" => ptr[u] = Pos(from[u])
      BY <1>1, <2>1 DEF SInv, SerialInv
    <3>2. \A u \in Thread : pc'[u] = "copy" => ptr'[u] = Pos(from'[u])
      BY <2>1, <2>3, <3>1 DEF Pos
    <3>3. active' = Pos(Len(log')) /\ idx' = active'
      BY <2>1, <2>2, <3>1 DEF Pos
    <3>4. \A u, w \in Publishing' : u = w
      BY <2>3, Zenon
    <3>5. \A u \in Thread : pc'[u] = "advance" => next'[u] = active'
      BY <2>3
    <3>6. \A u \in Storing' : next'[u] = Pos(Len(log') + 1)
      BY <2>3
    <3>. QED BY <3>2, <3>3, <3>4, <3>5, <3>6 DEF SerialInv, Pos
  <2>. QED BY <1>1, <2>1, <2>4 DEF SInv, OverrunTakesARound
<1>9. CASE UNCHANGED vars
  BY <1>9 DEF vars, history, SInv, SerialInv, OverrunTakesARound, Publishing, Storing, Pos
<1>10. ASSUME NEW t \in Thread, Step(t) PROVE Rest
  BY <1>2, <1>3, <1>4, <1>5, <1>6, <1>7, <1>8, <1>10, ZenonT(60) DEF Step
<1>. QED BY <1>9, <1>10 DEF Next

(* The slots last as long as the ring is round: without overlapping          *)
(* publications no slot is spoilt, and a reader is overrun only after N - 1  *)
(* more publications ((sa_slot_idx + 1) % 16 in sigaction and the watchdog). *)
THEOREM OverrunNeedsARound == Spec => []OverrunTakesARound
<1>1. SInv => OverrunTakesARound
  BY DEF SInv
<1>. QED BY <1>1, InitSInv, StepSInv, PTL DEF Spec
=============================================================================
