--------------------------- MODULE PatcherProofs ---------------------------
(***************************************************************************)
(* Proofs about the two patchers.                                          *)
(*                                                                         *)
(* CodePatch, for any number of threads, sites and stubs: the types, the   *)
(* order of the stores to code, the cache entry behind every patched site, *)
(* the protection of code pages, and what can end a program whose threads  *)
(* do not meet in the handler.                                             *)
(*                                                                         *)
(* StaticPatcher, for any number of launchers, launches, builds and faults *)
(* and any history of builds: the types, what a marker stands for, what a  *)
(* launch starts, what the backup holds and what one fault leaves.         *)
(***************************************************************************)
EXTENDS CodePatch, StaticPatcher, TLAPS

-----------------------------------------------------------------------------
(* CodePatch *)

\* Where a live call may lead.
Leads(s) == \/ tail[s] \in written
            \/ tail[s] = Astray /\ \E u \in Site : Region[u] # Region[s]

(***************************************************************************)
(* CodeIsWhole is not inductive: the store of 0xE8 relies on the tail that *)
(* was stored before, the store of the tail on the 0xCC before it and on   *)
(* the stub that was written first.                                        *)
(***************************************************************************)
CodeInv ==
  /\ \A s \in Site : /\ first[s] = "own" => tail[s] = Original
                     /\ first[s] = "call" => Leads(s)
  /\ \A t \in Thread :
       /\ pc[t] \in {"tail", "call", "close"} => first[at[t]] # "own"
       /\ pc[t] \in {"call", "close"} => Leads(at[t])
       /\ pc[t] \in {"open"} \cup Opened => stub[t] \in written

\* From the store of the entry on, the cache has the site.
Stored == {"storing", "patch", "map", "take", "stub", "open"} \cup Opened

CacheInv ==
  /\ PatchedSiteIsCached
  /\ \A t \in Thread : pc[t] \in Stored /\ Unshared(at[t]) => cache[SlotOf[at[t]]] = at[t]

(***************************************************************************)
(* While no two threads have met, at most one is in the handler, and what  *)
(* it has seen of the shared state is still so.                            *)
(***************************************************************************)
Before == {"look", "decode", "store", "storing", "patch", "map", "take", "stub",
           "open", "int3"}

Lone ==
  /\ LoneThreadIsSafe
  /\ \A t, u \in Thread : pc[t] # "run" /\ pc[u] # "run" => t = u
  /\ \A s \in Site : first[s] = "int3" =>
       \E t \in Thread : pc[t] \in {"tail", "call"} /\ at[t] = s
  /\ \A t \in Thread :
       /\ pc[t] \in Before => first[at[t]] = "own"
       /\ pc[t] \in Opened => PageOf[at[t]] \in writable
       /\ pc[t] \in {"take", "stub"} => island # NoPage
       /\ pc[t] = "stub" /\ stub[t] < 0 => used = 1 - HalfRange
  /\ Alive => \/ used >= 0
              \/ used = -HalfRange
              \/ \E t \in Thread : pc[t] = "stub" /\ stub[t] < 0

LoneInv == ~crowded => Lone

\* A thread's stub is an offset first, and then a record.
Stubs == stub = [t \in Thread |-> stub[t]]

IInv ==
  TypeOK /\ Stubs /\ CodeInv /\ CacheInv /\ PagesAtRestAreProtected /\ LoneInv

LEMMA Places == \A s \in Site : SlotOf[s] \in Slots /\ PageOf[s] \in Mapped /\ PageOf[s] \in Nat
BY PatchAssumption DEF Slots

(* The counter stays in its range, and steps by one until it wraps.          *)
LEMMA WrapRange ==
  ASSUME NEW n \in -HalfRange .. HalfRange - 1
  PROVE  /\ Wrap(n + 1) \in -HalfRange .. HalfRange - 1
         /\ n < HalfRange - 1 => Wrap(n + 1) = n + 1
         /\ n = HalfRange - 1 => Wrap(n + 1) = -HalfRange
<1> USE PatchAssumption
<1>1. HalfRange \in Nat \ {0}
  OBVIOUS
<1>2. CASE n < HalfRange - 1
  <2>1. n + 1 + HalfRange \in 0 .. 2 * HalfRange - 1
    BY <1>1, <1>2
  <2>2. (n + 1 + HalfRange) % (2 * HalfRange) = n + 1 + HalfRange
    BY <1>1, <2>1
  <2>. QED BY <1>1, <1>2, <2>2 DEF Wrap
<1>3. CASE n = HalfRange - 1
  <2>1. n + 1 + HalfRange = 2 * HalfRange
    BY <1>1, <1>3
  <2>2. (2 * HalfRange) % (2 * HalfRange) = 0
    BY <1>1
  <2>. QED BY <1>1, <1>3, <2>1, <2>2 DEF Wrap
<1>. QED BY <1>1, <1>2, <1>3

-----------------------------------------------------------------------------
LEMMA InitIInv == Init => IInv
<1> SUFFICES ASSUME Init PROVE IInv
  OBVIOUS
<1> USE PatchAssumption DEF Init
<1>1. TypeOK /\ Stubs
  <2>1. /\ writable = {} /\ written = {} /\ overlap = {} /\ used = 0
        /\ island = NoPage /\ crowded = FALSE
        /\ \A t \in Thread : pc[t] = "run"
    OBVIOUS
  <2>2. used \in -HalfRange .. HalfRange - 1
    BY <2>1
  <2>3. /\ first \in [Site -> {"own", "int3", "call"}]
        /\ tail \in [Site -> Stub \cup {Original, Astray}]
        /\ cache \in [Slots -> Site \cup {NoSite}]
        /\ at \in [Thread -> Site \cup {NoSite}]
    OBVIOUS
  <2>4. crowded \in BOOLEAN
    BY <2>1
  <2>. QED BY <2>1, <2>2, <2>3, <2>4 DEF TypeOK, Stubs, Opened
<1>2. CodeInv /\ CacheInv /\ PagesAtRestAreProtected
  BY DEF CodeInv, CacheInv, PatchedSiteIsCached, PagesAtRestAreProtected, Opened, Stored
<1>3. LoneInv
  BY DEF LoneInv, Lone, LoneThreadIsSafe, Alive, Before, Opened
<1>. QED BY <1>1, <1>2, <1>3 DEF IInv

(* A call is aimed at the thread's stub, or astray from another region.       *)
LEMMA TargetLeads ==
  ASSUME TypeOK, NEW t \in Thread, pc[t] = "tail"
  PROVE  \/ Target(t) = stub[t] /\ stub[t] \in Stub
         \/ Target(t) = Astray /\ \E u \in Site : Region[u] # Region[at[t]]
<1>1. stub[t] \in Stub /\ at[t] \in Site
  BY DEF TypeOK, Opened
<1>2. \E u \in Site : stub[t].page.region = Region[u]
  BY <1>1 DEF Stub, Page
<1>. QED BY <1>1, <1>2 DEF Target

(* The types are inductive by themselves.                                    *)
LEMMA TypeStep == TypeOK /\ Stubs /\ [Next]_vars => TypeOK' /\ Stubs'
<1> SUFFICES ASSUME TypeOK, Stubs, [Next]_vars PROVE TypeOK' /\ Stubs'
  OBVIOUS
<1> USE PatchAssumption DEF TypeOK, Stubs, Opened
<1>1. ASSUME NEW t \in Thread, LookUp(t) PROVE TypeOK' /\ Stubs'
  BY <1>1 DEF LookUp, Return, Goto
<1>2. ASSUME NEW t \in Thread, Decode(t) PROVE TypeOK' /\ Stubs'
  BY <1>2 DEF Decode, Goto, Die
<1>3. ASSUME NEW t \in Thread, StoreBegin(t) PROVE TypeOK' /\ Stubs'
  BY <1>3, Places DEF StoreBegin, StoreSite, Goto
<1>4. ASSUME NEW t \in Thread, StoreEnd(t) PROVE TypeOK' /\ Stubs'
  BY <1>4 DEF StoreEnd, Goto
<1>5. ASSUME NEW t \in Thread, CheckIsland(t) PROVE TypeOK' /\ Stubs'
  BY <1>5 DEF CheckIsland, Goto
<1>6. ASSUME NEW t \in Thread, MapIsland(t) PROVE TypeOK' /\ Stubs'
  BY <1>6 DEF MapIsland, Return, Goto, Page
<1>7. ASSUME NEW t \in Thread, TakeStub(t) PROVE TypeOK' /\ Stubs'
  BY <1>7, WrapRange DEF TakeStub, Return, Goto
<1>8. ASSUME NEW t \in Thread, WriteStub(t) PROVE TypeOK' /\ Stubs'
  BY <1>8 DEF WriteStub, Goto, Die, Stub
<1>9. ASSUME NEW t \in Thread, Open(t) PROVE TypeOK' /\ Stubs'
  BY <1>9, Places DEF Open, Return, Goto, Span
<1>10. ASSUME NEW t \in Thread, PutInt3(t) PROVE TypeOK' /\ Stubs'
  BY <1>10 DEF PutInt3, Stores, Faults, Int3, Goto, Die
<1>11. ASSUME NEW t \in Thread, PutTail(t) PROVE TypeOK' /\ Stubs'
  BY <1>11, TargetLeads DEF PutTail, Stores, Faults, Goto, Die
<1>12. ASSUME NEW t \in Thread, PutCall(t) PROVE TypeOK' /\ Stubs'
  BY <1>12 DEF PutCall, Stores, Faults, Goto, Die
<1>13. ASSUME NEW t \in Thread, Close(t) PROVE TypeOK' /\ Stubs'
  BY <1>13 DEF Close, Protect, Return, Goto
<1>14. ASSUME NEW t \in Thread, NEW s \in Site, Execute(t, s) PROVE TypeOK' /\ Stubs'
  BY <1>14 DEF Execute, Illegal, Breakpoint, CallStub, Goto, Die
<1>15. CASE UNCHANGED vars
  BY <1>15 DEF vars
<1>. QED
  BY <1>1, <1>2, <1>3, <1>4, <1>5, <1>6, <1>7,
     <1>8, <1>9, <1>10, <1>11, <1>12, <1>13, <1>14, <1>15
     DEF Next, Handle, Ended

(* Every variable keeps its type (CodePatch's type invariant).               *)
THEOREM TypeCorrect == Spec => []TypeOK
<1>1. Init => TypeOK /\ Stubs
  BY InitIInv DEF IInv
<1>. QED BY <1>1, TypeStep, PTL DEF Spec

-----------------------------------------------------------------------------
(* The stores to a site are seen in their order.                              *)
LEMMA CodeStep == TypeOK /\ Stubs /\ CodeInv /\ [Next]_vars => CodeInv'
<1> SUFFICES ASSUME TypeOK, Stubs, CodeInv, [Next]_vars PROVE CodeInv'
  OBVIOUS
<1> USE DEF TypeOK, Stubs, CodeInv, Leads, Opened
<1>1. ASSUME NEW t \in Thread, LookUp(t) PROVE CodeInv'
  BY <1>1 DEF LookUp, Return, Goto
<1>2. ASSUME NEW t \in Thread, Decode(t) PROVE CodeInv'
  BY <1>2 DEF Decode, Goto, Die
<1>3. ASSUME NEW t \in Thread, StoreBegin(t) PROVE CodeInv'
  BY <1>3 DEF StoreBegin, StoreSite, Goto
<1>4. ASSUME NEW t \in Thread, StoreEnd(t) PROVE CodeInv'
  BY <1>4 DEF StoreEnd, Goto
<1>5. ASSUME NEW t \in Thread, CheckIsland(t) PROVE CodeInv'
  BY <1>5 DEF CheckIsland, Goto
<1>6. ASSUME NEW t \in Thread, MapIsland(t) PROVE CodeInv'
  BY <1>6 DEF MapIsland, Return, Goto
<1>7. ASSUME NEW t \in Thread, TakeStub(t) PROVE CodeInv'
  BY <1>7 DEF TakeStub, Return, Goto
<1>8. ASSUME NEW t \in Thread, WriteStub(t) PROVE CodeInv'
  BY <1>8 DEF WriteStub, Goto, Die
<1>9. ASSUME NEW t \in Thread, Open(t) PROVE CodeInv'
  BY <1>9 DEF Open, Return, Goto
<1>10. ASSUME NEW t \in Thread, PutInt3(t) PROVE CodeInv'
  BY <1>10 DEF PutInt3, Stores, Faults, Int3, Goto, Die
<1>11. ASSUME NEW t \in Thread, PutTail(t) PROVE CodeInv'
  BY <1>11, TargetLeads DEF PutTail, Stores, Faults, Goto, Die
<1>12. ASSUME NEW t \in Thread, PutCall(t) PROVE CodeInv'
  BY <1>12 DEF PutCall, Stores, Faults, Goto, Die
<1>13. ASSUME NEW t \in Thread, Close(t) PROVE CodeInv'
  BY <1>13 DEF Close, Protect, Return, Goto
<1>14. ASSUME NEW t \in Thread, NEW s \in Site, Execute(t, s) PROVE CodeInv'
  BY <1>14 DEF Execute, Illegal, Breakpoint, CallStub, Goto, Die
<1>15. CASE UNCHANGED vars
  BY <1>15 DEF vars
<1>. QED
  BY <1>1, <1>2, <1>3, <1>4, <1>5, <1>6, <1>7,
     <1>8, <1>9, <1>10, <1>11, <1>12, <1>13, <1>14, <1>15
     DEF Next, Handle, Ended

(* A site is stored in the cache before it is patched.                        *)
LEMMA CacheStep == TypeOK /\ Stubs /\ CacheInv /\ [Next]_vars => CacheInv'
<1> SUFFICES ASSUME TypeOK, Stubs, CacheInv, [Next]_vars PROVE CacheInv'
  OBVIOUS
<1> USE DEF TypeOK, Stubs, CacheInv, PatchedSiteIsCached, Unshared, Stored, Opened
<1>1. ASSUME NEW t \in Thread, LookUp(t) PROVE CacheInv'
  BY <1>1 DEF LookUp, Return, Goto
<1>2. ASSUME NEW t \in Thread, Decode(t) PROVE CacheInv'
  BY <1>2 DEF Decode, Goto, Die
<1>3. ASSUME NEW t \in Thread, StoreBegin(t) PROVE CacheInv'
  BY <1>3, Places DEF StoreBegin, StoreSite, Goto
<1>4. ASSUME NEW t \in Thread, StoreEnd(t) PROVE CacheInv'
  BY <1>4 DEF StoreEnd, Goto
<1>5. ASSUME NEW t \in Thread, CheckIsland(t) PROVE CacheInv'
  BY <1>5 DEF CheckIsland, Goto
<1>6. ASSUME NEW t \in Thread, MapIsland(t) PROVE CacheInv'
  BY <1>6 DEF MapIsland, Return, Goto
<1>7. ASSUME NEW t \in Thread, TakeStub(t) PROVE CacheInv'
  BY <1>7 DEF TakeStub, Return, Goto
<1>8. ASSUME NEW t \in Thread, WriteStub(t) PROVE CacheInv'
  BY <1>8 DEF WriteStub, Goto, Die
<1>9. ASSUME NEW t \in Thread, Open(t) PROVE CacheInv'
  BY <1>9 DEF Open, Return, Goto
<1>10. ASSUME NEW t \in Thread, PutInt3(t) PROVE CacheInv'
  BY <1>10 DEF PutInt3, Stores, Faults, Int3, Goto, Die
<1>11. ASSUME NEW t \in Thread, PutTail(t) PROVE CacheInv'
  BY <1>11 DEF PutTail, Stores, Faults, Goto, Die
<1>12. ASSUME NEW t \in Thread, PutCall(t) PROVE CacheInv'
  BY <1>12 DEF PutCall, Stores, Faults, Goto, Die
<1>13. ASSUME NEW t \in Thread, Close(t) PROVE CacheInv'
  BY <1>13 DEF Close, Protect, Return, Goto
<1>14. ASSUME NEW t \in Thread, NEW s \in Site, Execute(t, s) PROVE CacheInv'
  BY <1>14 DEF Execute, Illegal, Breakpoint, CallStub, Goto, Die
<1>15. CASE UNCHANGED vars
  BY <1>15 DEF vars
<1>. QED
  BY <1>1, <1>2, <1>3, <1>4, <1>5, <1>6, <1>7,
     <1>8, <1>9, <1>10, <1>11, <1>12, <1>13, <1>14, <1>15
     DEF Next, Handle, Ended

(* A page is writable while the thread that opened it is not done.             *)
LEMMA PageStep == TypeOK /\ Stubs /\ PagesAtRestAreProtected /\ [Next]_vars => PagesAtRestAreProtected'
<1> SUFFICES ASSUME TypeOK, Stubs, PagesAtRestAreProtected, [Next]_vars PROVE PagesAtRestAreProtected'
  OBVIOUS
<1> USE DEF TypeOK, Stubs, PagesAtRestAreProtected, Opened
<1>1. ASSUME NEW t \in Thread, LookUp(t) PROVE PagesAtRestAreProtected'
  BY <1>1 DEF LookUp, Return, Goto
<1>2. ASSUME NEW t \in Thread, Decode(t) PROVE PagesAtRestAreProtected'
  BY <1>2 DEF Decode, Goto, Die
<1>3. ASSUME NEW t \in Thread, StoreBegin(t) PROVE PagesAtRestAreProtected'
  BY <1>3 DEF StoreBegin, StoreSite, Goto
<1>4. ASSUME NEW t \in Thread, StoreEnd(t) PROVE PagesAtRestAreProtected'
  BY <1>4 DEF StoreEnd, Goto
<1>5. ASSUME NEW t \in Thread, CheckIsland(t) PROVE PagesAtRestAreProtected'
  BY <1>5 DEF CheckIsland, Goto
<1>6. ASSUME NEW t \in Thread, MapIsland(t) PROVE PagesAtRestAreProtected'
  BY <1>6 DEF MapIsland, Return, Goto
<1>7. ASSUME NEW t \in Thread, TakeStub(t) PROVE PagesAtRestAreProtected'
  BY <1>7 DEF TakeStub, Return, Goto
<1>8. ASSUME NEW t \in Thread, WriteStub(t) PROVE PagesAtRestAreProtected'
  BY <1>8 DEF WriteStub, Goto, Die
<1>9. ASSUME NEW t \in Thread, Open(t) PROVE PagesAtRestAreProtected'
  <2>1. /\ at'[t] = at[t] \/ pc'[t] = "run"
        /\ \A u \in Thread \ {t} : pc'[u] = pc[u] /\ at'[u] = at[u]
        /\ pc[t] \notin Opened
    BY <1>9 DEF Open, Return, Goto
  <2>2. CASE /\ Span(at[t]) \subseteq Mapped
             /\ writable' = writable \cup Span(at[t])
             /\ Goto(t, "int3") /\ UNCHANGED <<at, stub>>
    BY <2>1, <2>2 DEF Goto, Span
  <2>3. CASE /\ ~(Span(at[t]) \subseteq Mapped)
             /\ writable' = writable \cup {PageOf[at[t]]}
             /\ Return(t)
    <3>1. at[t] \in Site
      BY <1>9 DEF Open
    <3>2. PageOf[at[t]] + 1 \notin Mapped
      BY <2>3, <3>1, Places DEF Span
    <3>. QED BY <2>1, <2>3, <3>2 DEF Span
  <2>4. CASE UNCHANGED writable /\ Return(t)
    BY <2>1, <2>4 DEF Span
  <2>. QED BY <1>9, <2>2, <2>3, <2>4 DEF Open
<1>10. ASSUME NEW t \in Thread, PutInt3(t) PROVE PagesAtRestAreProtected'
  BY <1>10 DEF PutInt3, Stores, Faults, Int3, Goto, Die
<1>11. ASSUME NEW t \in Thread, PutTail(t) PROVE PagesAtRestAreProtected'
  BY <1>11 DEF PutTail, Stores, Faults, Goto, Die
<1>12. ASSUME NEW t \in Thread, PutCall(t) PROVE PagesAtRestAreProtected'
  BY <1>12 DEF PutCall, Stores, Faults, Goto, Die
<1>13. ASSUME NEW t \in Thread, Close(t) PROVE PagesAtRestAreProtected'
  BY <1>13 DEF Close, Protect, Return, Goto
<1>14. ASSUME NEW t \in Thread, NEW s \in Site, Execute(t, s) PROVE PagesAtRestAreProtected'
  BY <1>14 DEF Execute, Illegal, Breakpoint, CallStub, Goto, Die
<1>15. CASE UNCHANGED vars
  BY <1>15 DEF vars
<1>. QED
  BY <1>1, <1>2, <1>3, <1>4, <1>5, <1>6, <1>7,
     <1>8, <1>9, <1>10, <1>11, <1>12, <1>13, <1>14, <1>15
     DEF Next, Handle, Ended

(* The lone thread leaves the handler with no patch half-way.                *)
LEMMA LoneReturns ==
  ASSUME TypeOK, Stubs, Lone, Alive, NEW t \in Thread, pc[t] \notin {"run", "tail", "call"},
         Return(t), first' = first, death' = death, used' >= 0 \/ used' = -HalfRange
  PROVE  Lone'
<1>1. \A u \in Thread : pc'[u] = "run"
  BY DEF TypeOK, Lone, Return, Goto
<1>2. \A s \in Site : first[s] # "int3"
  BY DEF Lone
<1>. QED BY <1>1, <1>2 DEF Lone, LoneThreadIsSafe, Alive, Before, Opened

LEMMA LoneCounts ==
  ASSUME Lone, Alive, NEW t \in Thread, pc[t] \notin {"run", "stub"}
  PROVE  used >= 0 \/ used = -HalfRange
BY DEF Lone

(* A thread that is alone in the handler finds everything as it left it.       *)
LEMMA LoneHandles ==
  ASSUME TypeOK, Stubs, CodeInv, Lone, NEW t \in Thread, Handle(t)
  PROVE  Lone'
<1>0. Alive /\ pc[t] # "run" /\ at[t] \in Site /\ \A u \in Thread \ {t} : pc[u] = "run"
  BY DEF TypeOK, Lone, Handle, LookUp, Decode, StoreBegin, StoreEnd, CheckIsland,
         MapIsland, TakeStub, WriteStub, Open, PutInt3, PutTail, PutCall, Close
<1>1. CASE LookUp(t)
  <2>1. CASE Return(t)
    BY <1>1, <2>1, LoneReturns, LoneCounts DEF LookUp
  <2>2. CASE Goto(t, "decode") /\ UNCHANGED <<at, stub>>
    BY <1>0, <1>1, <2>2 DEF LookUp, Goto, TypeOK, Lone, LoneThreadIsSafe, Alive, Before, Opened
  <2>. QED BY <1>1, <2>1, <2>2 DEF LookUp
<1>2. CASE Decode(t)
  <2>1. first[at[t]] = "own" /\ tail[at[t]] = Original
    BY <1>0, <1>2 DEF Decode, Lone, Before, CodeInv
  <2>. QED
    BY <1>0, <1>2, <2>1
       DEF Decode, Goto, TypeOK, Lone, LoneThreadIsSafe, Alive, Before, Opened
<1>3. CASE StoreBegin(t) \/ StoreEnd(t)
  BY <1>0, <1>3 DEF StoreBegin, StoreSite, StoreEnd, Goto, TypeOK, Lone,
                    LoneThreadIsSafe, Alive, Before, Opened
<1>4. CASE CheckIsland(t)
  BY <1>0, <1>4 DEF CheckIsland, Goto, TypeOK, Lone, LoneThreadIsSafe, Alive, Before, Opened
<1>5. CASE MapIsland(t)
  <2>1. CASE island' = NoPage /\ Return(t)
    BY <1>5, <2>1, LoneReturns, LoneCounts DEF MapIsland
  <2>2. CASE /\ island' = [by |-> t, region |-> Region[at[t]]]
             /\ Goto(t, "take") /\ UNCHANGED <<at, stub>>
    <3>1. island' # NoPage
      BY <1>0, <2>2, PatchAssumption DEF Page
    <3>. QED
      BY <1>0, <1>5, <2>2, <3>1
         DEF MapIsland, Goto, TypeOK, Lone, LoneThreadIsSafe, Alive, Before, Opened
  <2>. QED BY <1>5, <2>1, <2>2 DEF MapIsland
<1>6. CASE TakeStub(t)
  <2>1. used \in -HalfRange .. HalfRange - 1 /\ (used >= 0 \/ used = -HalfRange)
    BY <1>6, LoneCounts DEF TakeStub, TypeOK
  <2>2. CASE used >= NStubs
    <3>1. used' >= 0 \/ used' = -HalfRange
      BY <1>6, <2>1, <2>2, WrapRange, PatchAssumption DEF TakeStub
    <3>. QED BY <1>6, <2>2, <3>1, LoneReturns DEF TakeStub
  <2>3. CASE ~(used >= NStubs)
    <3>1. /\ used' = used + 1
          /\ stub'[t] = used /\ pc' = [pc EXCEPT ![t] = "stub"]
          /\ UNCHANGED <<at, first, island, writable, death>>
      BY <1>6, <2>1, <2>3, WrapRange, PatchAssumption DEF TakeStub, Goto, Stubs
    <3>2. \/ used >= 0 /\ used' >= 0
          \/ used = -HalfRange /\ used' = 1 - HalfRange /\ used < 0
      BY <2>1, <3>1, PatchAssumption
    <3>. QED
      BY <1>0, <1>6, <3>1, <3>2
         DEF TakeStub, TypeOK, Lone, LoneThreadIsSafe, Alive, Before, Opened
  <2>. QED BY <2>2, <2>3
<1>7. CASE WriteStub(t)
  BY <1>0, <1>7 DEF WriteStub, Goto, Die, Stubs, TypeOK, Lone, LoneThreadIsSafe, Alive,
                    Before, Opened
<1>8. CASE Open(t)
  <2>1. CASE Return(t)
    BY <1>8, <2>1, LoneReturns, LoneCounts DEF Open
  <2>2. CASE /\ writable' = writable \cup Span(at[t])
             /\ Goto(t, "int3") /\ UNCHANGED <<at, stub>>
    BY <1>0, <1>8, <2>2
       DEF Open, Span, Goto, TypeOK, Lone, LoneThreadIsSafe, Alive, Before, Opened
  <2>. QED BY <1>8, <2>1, <2>2 DEF Open
<1>9. CASE PutInt3(t)
  BY <1>0, <1>9 DEF PutInt3, Stores, Faults, Int3, Goto, TypeOK, Lone, LoneThreadIsSafe,
                    Alive, Before, Opened
<1>10. CASE PutTail(t)
  BY <1>0, <1>10 DEF PutTail, Stores, Faults, Goto, TypeOK, Lone, LoneThreadIsSafe,
                    Alive, Before, Opened
<1>11. CASE PutCall(t)
  BY <1>0, <1>11 DEF PutCall, Stores, Faults, Goto, TypeOK, Lone, LoneThreadIsSafe,
                    Alive, Before, Opened
<1>12. CASE Close(t)
  BY <1>12, LoneReturns, LoneCounts DEF Close
<1>. QED
  BY <1>1, <1>2, <1>3, <1>4, <1>5, <1>6, <1>7, <1>8, <1>9, <1>10, <1>11, <1>12
     DEF Handle

(* A program whose threads do not meet only runs into what LoneThreadIsSafe  *)
(* lists.                                                                    *)
LEMMA LoneStep ==
  TypeOK /\ Stubs /\ CodeInv /\ CacheInv /\ LoneInv /\ [Next]_vars => LoneInv'
<1> SUFFICES ASSUME TypeOK, Stubs, CodeInv, CacheInv, LoneInv, [Next]_vars, ~crowded'
             PROVE  Lone'
  BY DEF LoneInv
<1>1. ASSUME NEW t \in Thread, Handle(t) PROVE Lone'
  <2>1. ~crowded
    BY <1>1 DEF Handle, LookUp, Decode, StoreBegin, StoreEnd, CheckIsland, MapIsland,
                TakeStub, WriteStub, Open, PutInt3, PutTail, PutCall, Close
  <2>. QED BY <1>1, <2>1, LoneHandles DEF LoneInv
<1>2. ASSUME NEW t \in Thread, NEW s \in Site, Execute(t, s) PROVE Lone'
  <2>1. Lone /\ Alive /\ \A u \in Thread : pc[u] = "run"
    BY <1>2 DEF Execute, LoneInv
  <2>2. Storing(SlotOf[s]) = {} /\ first[s] # "int3"
    BY <2>1 DEF Storing, Lone
  <2>3. CASE Illegal(t, s)
    BY <1>2, <2>1, <2>3 DEF Execute, Illegal, Goto, TypeOK, Lone, LoneThreadIsSafe, Alive,
                            Before, Opened
  <2>4. CASE CallStub(s)
    <3>1. \/ death' = death
          \/ Die("lost", s) /\ ~FindsEntry(s)
          \/ Die("astray", s) /\ tail[s] \notin written
      BY <2>2, <2>4 DEF CallStub
    <3>2. Die("lost", s) /\ ~FindsEntry(s) => Length[s] # 5 \/ ~Unshared(s)
      BY <2>4 DEF CallStub, FindsEntry, CacheInv, PatchedSiteIsCached
    <3>3. tail[s] \notin written => \E u \in Site : Region[u] # Region[s]
      BY <2>4 DEF CallStub, CodeInv, Leads
    <3>4. LoneThreadIsSafe'
      BY <2>1, <3>1, <3>2, <3>3 DEF Die, LoneThreadIsSafe, Alive, Unshared
    <3>. QED
      BY <1>2, <2>1, <2>4, <3>4 DEF Execute, CallStub, Lone, Alive, Before, Opened
  <2>. QED BY <1>2, <2>2, <2>3, <2>4 DEF Execute, Breakpoint
<1>3. CASE UNCHANGED vars
  BY <1>3 DEF vars, LoneInv, Lone, LoneThreadIsSafe, Alive, Before, Opened, Unshared
<1>. QED BY <1>1, <1>2, <1>3 DEF Next, Ended

LEMMA Invariance == Spec => []IInv
<1>1. IInv /\ [Next]_vars => IInv'
  BY TypeStep, CodeStep, CacheStep, PageStep, LoneStep DEF IInv
<1>. QED BY <1>1, InitIInv, PTL DEF Spec

(* A site is decoded whole or called through a written stub (CodeIsWhole),   *)
(* however many threads patch it.                                            *)
THEOREM PatchOrder == Spec => []CodeIsWhole
<1>1. IInv => CodeIsWhole
  BY DEF IInv, CodeInv, CodeIsWhole, Leads
<1>. QED BY <1>1, Invariance, PTL

(* The trampoline can find the decoding of a patched site.                   *)
THEOREM PatchedIsCached == Spec => []PatchedSiteIsCached
<1>1. IInv => PatchedSiteIsCached
  BY DEF IInv, CacheInv
<1>. QED BY <1>1, Invariance, PTL

(* Code pages do not stay writable, the last of a mapping excepted.          *)
THEOREM PagesProtected == Spec => []PagesAtRestAreProtected
<1>1. IInv => PagesAtRestAreProtected
  BY DEF IInv
<1>. QED BY <1>1, Invariance, PTL

(* What can end a program whose threads do not meet in the handler.          *)
THEOREM LoneThreads == Spec => []LoneThreadIsSafe
<1>1. IInv => LoneThreadIsSafe
  BY DEF IInv, LoneInv, Lone, LoneThreadIsSafe
<1>. QED BY <1>1, Invariance, PTL

-----------------------------------------------------------------------------
(***************************************************************************)
(* The static patcher.  A file is the build as it came or pieces of what   *)
(* the patcher makes of builds, and the patcher has nothing to do for such *)
(* pieces.                                                                 *)
(***************************************************************************)
Version == 1 .. Versions
Patched(v) == PatchOf(Fresh(v))
Made(f, V) ==
  /\ f.head \in {Nothing} \cup {Patched(v).head : v \in V}
  /\ f.tail \in {Nothing} \cup {Patched(v).tail : v \in V}

\* Between the decision to patch and the last write; between the first write and
\* the last.
Prepared(p) == phase[p] \in {"backup", "copy", "copying", "open", "head", "tail"}
Writes(p) == phase[p] \in {"head", "tail"}

FileInv ==
  /\ staged # "none" => ino < Versions
  /\ \A i \in Version : disk[i] = Fresh(i) \/ Made(disk[i], Version)
  /\ \A p \in Launcher :
       /\ phase[p] \in {"copying", "head", "tail", "running"} => fd[p] \in 1 .. ino
       /\ Prepared(p) => \E v \in Version : mem[p] = Patched(v)
       /\ Writes(p) => Made(disk[fd[p]], Version)
       /\ phase[p] = "running" =>
            Runs(disk[fd[p]]) /\ \A q \in Launcher : Writes(q) => fd[q] # fd[p]

\* While no update crosses a launch, everything a launcher holds is of the build
\* in place, and a launcher is past the patcher only when the build as it came
\* is gone, or is all that the patcher can make of it.
Done == Made(disk[ino], {ino})

CalmInv ==
  ~raced =>
    /\ \A i \in Version : /\ disk[i] = Fresh(i) \/ Made(disk[i], {i})
                          /\ i > ino => disk[i] = Fresh(i)
    /\ \A p \in Launcher :
         /\ Prepared(p) => mem[p] = Patched(ino)
         /\ Writes(p) => fd[p] = ino /\ Done
         /\ phase[p] = "touch" \/ (phase[p] = "exec" /\ faults = 0) => Done
         /\ phase[p] = "failed" => faults > 0 \/ ~Served(fd[p])
    /\ marked /\ ~newer => Done

\* Until a launch is cut short, a piece that is missing is still to be written.
WholeInv ==
  faults = 0 =>
    \A i \in Version :
      /\ disk[i].head = Nothing => \E p \in Launcher : phase[p] = "head" /\ fd[p] = i
      /\ disk[i].tail = Nothing => \E p \in Launcher : Writes(p) /\ fd[p] = i

\* One launch at a time finds only its own writes, so it never joins pieces of two
\* files; its backup is whole before it writes, and for as long as it is not, every
\* file is still as it was.
BakWhole == bak # Nothing /\ Whole(bak)
Single == \A p, q \in Launcher : Patching(p) /\ Patching(q) => p = q
OwnFiles ==
  \A p \in Launcher :
    /\ phase[p] = "copy" => bak = Nothing
    /\ phase[p] = "copying" => bak = Empty
    /\ phase[p] = "head" => disk[fd[p]] = Empty
    /\ phase[p] = "tail" => disk[fd[p]] = [head |-> mem[p].head, tail |-> Nothing]
Joined == \A i \in Version : disk[i].head # Nothing /\ disk[i].tail # Nothing => Whole(disk[i])
Copying == \E p \in Launcher : phase[p] = "copying"
BackupInv ==
  /\ bak = Nothing \/ Copying \/ \E v \in 1 .. ino : bak = Fresh(v)
  /\ bak = Nothing \/ Copying => \A i \in Version : disk[i] = Fresh(i)
  /\ \A p \in Launcher : phase[p] = "open" \/ Writes(p) => BakWhole
LossInv ==
  BakWhole \/ \A i \in Version : Whole(disk[i]) \/ \E p \in Launcher : Writes(p) /\ fd[p] = i

AloneInv ==
  ~overlapped => /\ Single /\ OwnFiles /\ Joined
                 /\ faults = 0 => BackupInv
                 /\ faults <= 1 => LossInv

\* Nothing is rewritten before there is a backup, and until it is complete; then it
\* is of the first build to be rewritten, which may be about to be.
Oldest(v) ==
  /\ \A w \in Rewritten : v <= w
  /\ \/ v \in Rewritten \/ raced \/ faults > 0
     \/ v = ino /\ \E p \in Launcher : phase[p] = "open"
OriginalInv ==
  ~overlapped =>
    /\ bak = Nothing \/ Copying => Rewritten = {}
    /\ bak = Empty => Copying \/ faults > 0
    /\ bak \notin {Nothing, Empty} => \E v \in 1 .. ino : bak = Fresh(v) /\ Oldest(v)
    /\ \A p \in Launcher :
         /\ phase[p] = "copying" => raced \/ fd[p] = ino
         /\ phase[p] \in {"open", "head", "tail"} => bak # Nothing
         /\ Prepared(p) => \A i \in Version : mem[p] # Fresh(i)

PatcherInv == PatcherTypeOK /\ FileInv /\ CalmInv /\ WholeInv /\ AloneInv /\ OriginalInv
-----------------------------------------------------------------------------
(* What the patcher makes of a build *)

\* The gates of SIGNATURES.
Matched == {"bit18", "mask", "short", "byte"}
Jump(v) == IF build[v].gate \in Matched THEN FindEpilogue(build[v].near) ELSE 0

\* The first of the epilogues that are there.
LEMMA Epilogue ==
  ASSUME NEW near \in SUBSET Patterns
  PROVE  /\ FindEpilogue(near) \in 0 .. 5
         /\ 1 \in near => FindEpilogue(near) = 1
         /\ 4 \in near /\ near \cap {1, 2, 3} = {} => FindEpilogue(near) = 4
<1>1. CASE near = {}
  BY <1>1 DEF FindEpilogue
<1>2. CASE near # {}
  <2>1. near \subseteq {1, 2, 3, 4, 5}
    BY DEF Patterns
  <2>2. \E i \in near : \A j \in near : i <= j
    <3>1. CASE 1 \in near BY <2>1, <3>1, SMT
    <3>2. CASE 1 \notin near /\ 2 \in near BY <2>1, <3>2, SMT
    <3>3. CASE {1, 2} \cap near = {} /\ 3 \in near BY <2>1, <3>3, SMT
    <3>4. CASE {1, 2, 3} \cap near = {} /\ 4 \in near BY <2>1, <3>4, SMT
    <3>5. CASE {1, 2, 3, 4} \cap near = {} /\ 5 \in near BY <2>1, <3>5, SMT
    <3> QED BY <1>2, <2>1, <3>1, <3>2, <3>3, <3>4, <3>5
  <2> DEFINE e == CHOOSE i \in near : \A j \in near : i <= j
  <2>3. e \in near /\ \A j \in near : e <= j
    BY <2>2
  <2>4. FindEpilogue(near) = e
    BY <1>2 DEF FindEpilogue
  <2> HIDE DEF e
  <2> QED BY <2>1, <2>3, <2>4, SMT
<1> QED BY <1>1, <1>2

\* The entries of SIGNATURES, together.
LEMMA Matching ==
  ASSUME NEW gate
  PROVE  (\E i \in DOMAIN Signatures : gate \in Signatures[i]) <=> gate \in Matched
<1>1. DOMAIN Signatures = 1 .. 4
  BY DEF Signatures
<1>2. /\ Signatures[1] = {"bit18"} /\ Signatures[2] = {"bit18", "mask"}
      /\ Signatures[3] = {"short"} /\ Signatures[4] = {"byte"}
  BY DEF Signatures
<1>3. \A i \in 1 .. 4 : i = 1 \/ i = 2 \/ i = 3 \/ i = 4
  BY SMT
<1> QED BY <1>1, <1>2, <1>3, SMT DEF Matched

LEMMA BuildType ==
  ASSUME build \in Histories, NEW v \in Version
  PROVE  build[v].gate \in Gates /\ build[v].near \in SUBSET Patterns /\ Jump(v) \in 0 .. 5
<1>1. build[v] \in [gate : Gates, near : SUBSET Patterns]
  BY PatcherAssumption DEF Version
<1> QED BY <1>1, Epilogue DEF Jump

\* A piece of a file with another jump, or another flag.
LEMMA Pieces ==
  ASSUME NEW f \in File, NEW x
  PROVE  /\ f.head # Nothing => [f EXCEPT !.head.jump = x]
                                  = [head |-> [v |-> f.head.v, jump |-> x], tail |-> f.tail]
         /\ f.tail # Nothing => [f EXCEPT !.tail.required = x]
                                  = [head |-> f.head, tail |-> [v |-> f.tail.v, required |-> x]]
BY DEF File, Head, Tail

LEMMA FreshType ==
  ASSUME NEW v \in Version
  PROVE  /\ Fresh(v) \in File /\ Fresh(v).head \in Head /\ Fresh(v).tail \in Tail
         /\ Whole(Fresh(v)) /\ Empty \in File /\ ~Whole(Empty)
<1>1. Fresh(v).head \in Head /\ Fresh(v).tail \in Tail
  BY DEF Fresh, Head, Tail, Version
<1>2. Fresh(v).head # Nothing /\ Fresh(v).tail # Nothing
  BY <1>1, PatcherAssumption
<1>3. Fresh(v) \in File /\ Empty \in File
  BY <1>1 DEF File, Fresh, Empty
<1>4. Whole(Fresh(v)) /\ ~Whole(Empty)
  BY <1>2 DEF Whole, Fresh, Empty
<1> QED BY <1>1, <1>3, <1>4

\* A build whose check is found and has an epilogue gets a jump, one with a table
\* another flag, any other nothing.
LEMMA PatchedForm ==
  ASSUME build \in Histories, NEW v \in Version
  PROVE  Patched(v) = [head |-> [v |-> v, jump |-> Jump(v)],
                       tail |-> [v |-> v, required |-> build[v].gate # "options"]]
<1> DEFINE f == Fresh(v)
           gate == build[v].gate
<1>1. /\ f \in File /\ f.head # Nothing /\ f.tail # Nothing /\ Whole(f)
      /\ f.head.v = v /\ f.head.jump = 0 /\ f.tail.v = v /\ f.tail.required = TRUE
  BY FreshType, PatcherAssumption DEF Fresh
<1>2. ~AlreadyPatched(f)
  BY <1>1 DEF AlreadyPatched
<1>3. Jump(v) \in 0 .. 5 /\ gate \in Gates
  BY BuildType
<1>4. gate \in Matched => gate # "options"
  BY DEF Matched
<1>5. gate \in Matched => SignaturePatch(f) = [head |-> [v |-> v, jump |-> Jump(v)], tail |-> f.tail]
  BY <1>1, Matching, Pieces, Zenon DEF SignaturePatch, Jump
<1>6. gate \notin Matched => SignaturePatch(f) = f /\ Jump(v) = 0
  BY <1>1, Matching, Zenon DEF SignaturePatch, Jump
<1>7. gate = "options" => LegacyPatch(f) = [head |-> f.head, tail |-> [v |-> v, required |-> FALSE]]
  BY <1>1, Pieces, Zenon DEF LegacyPatch
<1>8. gate # "options" => LegacyPatch(f) = f
  BY <1>1, Zenon DEF LegacyPatch
<1>9. Patched(v) = IF SignaturePatch(f) # f THEN SignaturePatch(f) ELSE LegacyPatch(f)
  BY <1>2, Zenon DEF Patched, PatchOf
<1>10. f = [head |-> [v |-> v, jump |-> 0], tail |-> [v |-> v, required |-> TRUE]]
  BY DEF Fresh
<1> HIDE DEF f, gate
<1>11. CASE gate \in Matched
  <2>1. SignaturePatch(f) = [head |-> [v |-> v, jump |-> Jump(v)],
                             tail |-> [v |-> v, required |-> TRUE]]
    BY <1>5, <1>10, <1>11
  <2>2. Patched(v) = SignaturePatch(f)
    BY <1>4, <1>8, <1>9, <1>11
  <2> QED BY <1>4, <1>11, <2>1, <2>2 DEF gate
<1>12. CASE gate \notin Matched
  <2>1. Patched(v) = LegacyPatch(f) /\ Jump(v) = 0
    BY <1>6, <1>9, <1>12
  <2>2. CASE gate = "options"
    BY <1>7, <1>10, <2>1, <2>2 DEF gate
  <2>3. CASE gate # "options"
    BY <1>8, <1>10, <2>1, <2>3 DEF gate
  <2> QED BY <2>2, <2>3
<1> QED BY <1>11, <1>12

\* It is a file of that build.
LEMMA PatchedType ==
  ASSUME build \in Histories, NEW v \in Version
  PROVE  /\ Patched(v) \in File /\ Patched(v).head \in Head /\ Patched(v).tail \in Tail
         /\ Patched(v).head # Nothing /\ Patched(v).tail # Nothing
         /\ Patched(v).head.v = v /\ Patched(v).head.jump = Jump(v)
         /\ Patched(v).tail.v = v
         /\ Patched(v).tail.required = (build[v].gate # "options")
         /\ Patched(v) = [head |-> Patched(v).head, tail |-> Patched(v).tail]
<1>1. Jump(v) \in 0 .. 5 /\ v \in Version
  BY BuildType
<1>2. Patched(v).head \in Head /\ Patched(v).tail \in Tail
  <2>1. Patched(v).head = [v |-> v, jump |-> Jump(v)]
    BY PatchedForm
  <2>2. Patched(v).tail = [v |-> v, required |-> build[v].gate # "options"]
    BY PatchedForm
  <2>3. (build[v].gate # "options") \in BOOLEAN
    OBVIOUS
  <2>4. Patched(v).tail \in Tail
    BY <2>2, <2>3 DEF Tail, Version
  <2>5. Patched(v).head \in Head
    BY <1>1, <2>1 DEF Head, Version
  <2> QED BY <2>4, <2>5
<1>3. Patched(v).head # Nothing /\ Patched(v).tail # Nothing
  BY <1>2, PatcherAssumption
<1>4. Patched(v) = [head |-> Patched(v).head, tail |-> Patched(v).tail]
  BY PatchedForm
<1>5. Patched(v) \in File
  BY <1>2, <1>4 DEF File
<1>6. /\ Patched(v).head.v = v /\ Patched(v).head.jump = Jump(v)
      /\ Patched(v).tail.v = v /\ Patched(v).tail.required = (build[v].gate # "options")
  BY PatchedForm
<1> QED BY <1>2, <1>3, <1>4, <1>5, <1>6

\* It runs if the patcher serves the build; the build as it came never does.
LEMMA ServedRuns ==
  ASSUME build \in Histories, NEW v \in Version
  PROVE  /\ Served(v) => Runs(Patched(v))
         /\ ~Runs(Fresh(v))
<1> DEFINE gate == build[v].gate
           near == build[v].near
<1>1. near \in SUBSET Patterns
  BY BuildType
<1>2. Whole(Patched(v))
  BY PatchedType DEF Whole
<1>3. ASSUME Served(v) PROVE Ungated(Patched(v))
  <2>1. CASE gate = "options"
    BY <2>1, PatchedType DEF Ungated
  <2>2. CASE gate \in {"bit18", "mask", "byte"} /\ 1 \in near
    <3>1. Jump(v) = 1
      BY <1>1, <2>2, Epilogue DEF Jump, Matched
    <3> QED BY <2>2, <3>1, PatchedType DEF Ungated, Frame
  <2>3. CASE gate = "short" /\ 4 \in near /\ near \cap {1, 2, 3} = {}
    <3>1. Jump(v) = 4
      BY <1>1, <2>3, Epilogue DEF Jump, Matched
    <3> QED BY <2>3, <3>1, PatchedType DEF Ungated, Frame
  <2> QED BY <1>3, <2>1, <2>2, <2>3 DEF Served
<1>4. ~Ungated(Fresh(v))
  BY DEF Ungated, Fresh, Frame
<1> QED BY <1>2, <1>3, <1>4 DEF Runs

\* Of the pieces it has written the patcher makes nothing else.
LEMMA NothingLeft ==
  ASSUME build \in Histories, NEW f \in File, Made(f, Version), f.head # Nothing
  PROVE  PatchOf(f) = f
<1> PICK v \in Version : f.head = Patched(v).head
  BY DEF Made
<1> DEFINE gate == build[v].gate
<1>1. f.head.v = v /\ f.head.jump = Jump(v)
  BY PatchedType
<1>2. f = [head |-> f.head, tail |-> f.tail]
  BY DEF File
<1>3. SignaturePatch(f) = f
  <2>1. CASE f.head.jump = 0 /\ gate \in Matched
    <3>1. SignaturePatch(f) = [f EXCEPT !.head.jump = FindEpilogue(build[v].near)]
      BY <1>1, <2>1, Matching, Zenon DEF SignaturePatch
    <3>2. FindEpilogue(build[v].near) = f.head.jump
      BY <1>1, <2>1 DEF Jump
    <3>3. f.head = [v |-> f.head.v, jump |-> f.head.jump]
      BY PatchedType, PatchedForm
    <3> QED BY <1>2, <3>1, <3>2, <3>3, Pieces
  <2>2. CASE ~(f.head.jump = 0 /\ gate \in Matched)
    BY <1>1, <2>2, Matching, Zenon DEF SignaturePatch
  <2> QED BY <2>1, <2>2
<1>4. LegacyPatch(f) = f
  <2>1. CASE Whole(f) /\ gate = "options"
    <3> PICK w \in Version : f.tail = Patched(w).tail
      BY <2>1 DEF Made, Whole
    <3>1. w = v
      BY <1>1, <2>1, PatchedType DEF Whole
    <3>2. f.tail = [v |-> v, required |-> FALSE]
      <4>1. f.tail = [v |-> v, required |-> build[v].gate # "options"]
        BY <3>1, PatchedForm
      <4>2. (build[v].gate # "options") = FALSE
        BY <2>1
      <4> QED BY <4>1, <4>2
    <3>3. LegacyPatch(f) = [f EXCEPT !.tail.required = FALSE]
      BY <1>1, <2>1 DEF LegacyPatch
    <3>4. f.tail # Nothing
      BY <2>1 DEF Whole
    <3> QED BY <1>2, <3>2, <3>3, <3>4, Pieces
  <2>2. CASE ~(Whole(f) /\ gate = "options")
    BY <1>1, <2>2, Zenon DEF LegacyPatch
  <2> QED BY <2>1, <2>2
<1> QED BY <1>3, <1>4, Zenon DEF PatchOf

\* A file of its own build that is whole is what the patcher makes of the build.
LEMMA WholeMade ==
  ASSUME build \in Histories, NEW f \in File, NEW v \in Version, Made(f, {v}),
         f.head # Nothing, f.tail # Nothing
  PROVE  f = Patched(v) /\ Whole(f)
<1>1. f = [head |-> f.head, tail |-> f.tail]
  BY DEF File
<1>2. f.head = Patched(v).head /\ f.tail = Patched(v).tail
  BY DEF Made
<1> QED BY <1>1, <1>2, PatchedType DEF Whole

\* What the patcher makes of any file is a file.
LEMMA PatchOfType ==
  ASSUME build \in Histories, NEW f \in File, f.head # Nothing
  PROVE  PatchOf(f) \in File
<1>1. f.head \in Head /\ f.head.v \in Version
  BY DEF File, Head, Version
<1>2. FindEpilogue(build[f.head.v].near) \in 0 .. 5
  BY <1>1, BuildType, Epilogue
<1>3. SignaturePatch(f) \in File
  <2>1. [f EXCEPT !.head.jump = FindEpilogue(build[f.head.v].near)] \in File
    <3>1. [v |-> f.head.v, jump |-> FindEpilogue(build[f.head.v].near)] \in Head
      BY <1>1, <1>2 DEF Head, Version
    <3>2. [f EXCEPT !.head.jump = FindEpilogue(build[f.head.v].near)]
            = [head |-> [v |-> f.head.v, jump |-> FindEpilogue(build[f.head.v].near)],
               tail |-> f.tail]
      BY Pieces
    <3> QED BY <3>1, <3>2 DEF File
  <2> QED BY <2>1, Zenon DEF SignaturePatch
<1>4. LegacyPatch(f) \in File
  <2>1. ASSUME Whole(f) PROVE [f EXCEPT !.tail.required = FALSE] \in File
    <3>1. f.tail # Nothing /\ f.tail \in Tail
      BY <2>1 DEF File, Whole
    <3>2. [v |-> f.tail.v, required |-> FALSE] \in Tail
      BY <3>1 DEF Tail
    <3>3. [f EXCEPT !.tail.required = FALSE]
            = [head |-> f.head, tail |-> [v |-> f.tail.v, required |-> FALSE]]
      BY <3>1, Pieces
    <3> QED BY <3>2, <3>3 DEF File
  <2> QED BY <2>1, Zenon DEF LegacyPatch
<1> QED BY <1>3, <1>4, Zenon DEF PatchOf

-----------------------------------------------------------------------------
(* Steps *)

\* A build stays what it is.
LEMMA Frozen ==
  ASSUME build' = build
  PROVE  /\ \A v : Patched(v)' = Patched(v) /\ (Served(v)' <=> Served(v))
         /\ \A f : PatchOf(f)' = PatchOf(f) /\ (Runs(f)' <=> Runs(f))
         /\ \A f, V : Made(f, V)' <=> Made(f, V)
<1>1. ASSUME NEW f PROVE PatchOf(f)' = PatchOf(f)
  BY DEF PatchOf, AlreadyPatched, SignaturePatch, LegacyPatch
<1>2. ASSUME NEW f PROVE Runs(f)' <=> Runs(f)
  BY DEF Runs, Ungated
<1>3. ASSUME NEW v PROVE Patched(v)' = Patched(v)
  BY <1>1 DEF Patched
<1>4. ASSUME NEW v PROVE Served(v)' <=> Served(v)
  BY DEF Served
<1>5. ASSUME NEW f, NEW V PROVE Made(f, V)' <=> Made(f, V)
  BY <1>3 DEF Made
<1> QED BY <1>1, <1>2, <1>3, <1>4, <1>5

LEMMA PatcherTypeStep == PatcherTypeOK /\ FileInv /\ [PatcherNext]_patcherVars => PatcherTypeOK'
<1> SUFFICES ASSUME PatcherTypeOK, FileInv, [PatcherNext]_patcherVars PROVE PatcherTypeOK'
  OBVIOUS
<1> USE DEF PatcherTypeOK, Move, Phases
<1>1. ino \in Version /\ Real \in File
  BY DEF Version, Real
<1> USE PatcherAssumption
<1>2. ASSUME NEW p \in Launcher, Launch(p) PROVE PatcherTypeOK'
  <2>1. overlapped' \in BOOLEAN
    BY <1>2, Zenon DEF Launch
  <2>2. phase' \in [Launcher -> Phases]
    BY <1>2 DEF Launch
  <2>3. launches' \in 0 .. MaxLaunches
    BY <1>2 DEF Launch
  <2>4. UNCHANGED <<build, disk, ino, bak, marked, newer, staged, mem, fd, faults, raced>>
    BY <1>2 DEF Launch
  <2> QED BY <2>1, <2>2, <2>3, <2>4
<1>3. ASSUME NEW p \in Launcher, Read(p) PROVE PatcherTypeOK'
  <2>1. Real.head # Nothing => PatchOf(Real) \in File
    BY <1>1, PatchOfType
  <2>2. mem' \in [Launcher -> File]
    <3> HIDE DEF File
    <3> QED BY <1>3, <2>1 DEF Read
  <2>3. phase' \in [Launcher -> Phases]
    BY <1>3 DEF Read, AfterError
  <2>4. UNCHANGED <<build, disk, ino, bak, marked, newer, staged, fd, launches, faults,
                    overlapped, raced>>
    BY <1>3 DEF Read
  <2> QED BY <2>2, <2>3, <2>4
<1>4. ASSUME NEW p \in Launcher, Backup(p) PROVE PatcherTypeOK'
  BY <1>4 DEF Backup
<1>5. ASSUME NEW p \in Launcher, CopyOpen(p) PROVE PatcherTypeOK'
  <2>1. Empty \in File
    BY FreshType, <1>1
  <2> QED BY <1>5, <2>1 DEF CopyOpen
<1>6. ASSUME NEW p \in Launcher, Copy(p) PROVE PatcherTypeOK'
  <2>1. fd[p] \in Version
    BY <1>6 DEF FileInv, Copy, Version
  <2> QED BY <1>6, <2>1 DEF Copy, CopyOf, Version
<1>7. ASSUME NEW p \in Launcher, OpenTarget(p) PROVE PatcherTypeOK'
  <2>1. Empty \in File
    BY FreshType, <1>1
  <2>2. CASE Running(ino)
    BY <1>7, <2>2 DEF OpenTarget, AfterError
  <2>3. CASE ~Running(ino)
    <3>1. disk' \in [1 .. Versions -> File]
      BY <1>7, <2>1, <2>3 DEF OpenTarget
    <3>2. ino \in 0 .. Versions
      BY <1>1 DEF Version
    <3>3. fd' \in [Launcher -> 0 .. Versions] /\ phase' \in [Launcher -> Phases]
      BY <1>7, <2>3, <3>2 DEF OpenTarget
    <3> QED BY <1>7, <2>3, <3>1, <3>3 DEF OpenTarget
  <2> QED BY <2>2, <2>3
<1>8. ASSUME NEW p \in Launcher, NEW piece \in {"head", "tail"}, Write(p, piece),
             NEW where \in Phases, Move(p, where)
      PROVE  PatcherTypeOK'
  <2>1. ASSUME NEW i \in 1 .. Versions
        PROVE  [disk[i] EXCEPT ![piece] = mem[p][piece]] \in File
    <3>1. disk[i] \in File /\ mem[p] \in File
      OBVIOUS
    <3> QED BY <3>1 DEF File
  <2>2. disk' \in [1 .. Versions -> File]
    BY <1>8, <2>1 DEF Write
  <2> QED BY <1>8, <2>2 DEF Write
<1>9. ASSUME NEW p \in Launcher, WriteHead(p) \/ WriteTail(p) PROVE PatcherTypeOK'
  BY <1>8, <1>9 DEF WriteHead, WriteTail
<1>10. ASSUME NEW p \in Launcher, Touch(p) PROVE PatcherTypeOK'
  BY <1>10 DEF Touch
<1>11. ASSUME NEW p \in Launcher, Exec(p) PROVE PatcherTypeOK'
  BY <1>11 DEF Exec
<1>12. ASSUME NEW p \in Launcher, Quit(p) PROVE PatcherTypeOK'
  BY <1>12 DEF Quit
<1>13. ASSUME NEW p \in Launcher, Kill(p) PROVE PatcherTypeOK'
  BY <1>13 DEF Kill
<1>14. ASSUME NEW p \in Launcher, Fail(p) PROVE PatcherTypeOK'
  BY <1>14 DEF Fail, AfterError
<1>15. CASE Download
  BY <1>15 DEF Download
<1>16. CASE Replace
  BY <1>16 DEF Replace, FileInv
<1>17. CASE UNCHANGED patcherVars
  BY <1>17 DEF patcherVars
<1> HIDE DEF PatcherTypeOK
<1> QED BY <1>2, <1>3, <1>4, <1>5, <1>6, <1>7, <1>9, <1>10, <1>11, <1>12, <1>13, <1>14,
           <1>15, <1>16, <1>17 DEF PatcherNext, Patcher

\* What is known of the files of a launcher and of the inodes is kept by a step that
\* only moves it, to where it holds no file, or none it did not hold before.
LEMMA MoveFile ==
  ASSUME PatcherTypeOK, FileInv, NEW p \in Launcher,
         NEW where \in {"idle", "read", "copy", "open", "touch", "exec", "failed"}, Move(p, where),
         where \in {"copy", "open"} => Prepared(p),
         UNCHANGED <<build, disk, ino, mem>>, staged' # "none" => staged # "none",
         \A q \in Launcher \ {p} : fd'[q] = fd[q]
  PROVE  FileInv'
<1>1. \A q \in Launcher : phase'[q] = IF q = p THEN where ELSE phase[q]
  BY DEF PatcherTypeOK, Move
<1>2. \A v : Patched(v)' = Patched(v)
  BY Frozen
<1>3. \A i \in Version : (disk[i] = Fresh(i) \/ Made(disk[i], Version))'
  BY <1>2 DEF FileInv, Made
<1>4. ASSUME NEW q \in Launcher
      PROVE  /\ phase'[q] \in {"copying", "head", "tail", "running"} =>
                  fd'[q] \in 1 .. ino'
             /\ Prepared(q)' => \E v \in Version : mem'[q] = Patched(v)'
             /\ Writes(q)' => Made(disk[fd[q]], Version)'
  <2>1. CASE q = p
    BY <1>1, <1>2, <2>1 DEF FileInv, Prepared, Writes
  <2>2. CASE q # p
    <3>1. Made(disk[fd[q]], Version)' <=> Made(disk[fd[q]], Version)
      BY <2>2, <1>2 DEF Made
    <3> QED BY <1>1, <1>2, <2>2, <3>1 DEF FileInv, Prepared, Writes
  <2> QED BY <2>1, <2>2
<1>5. ASSUME NEW q \in Launcher, phase'[q] = "running"
      PROVE  Runs(disk[fd[q]])' /\ \A r \in Launcher : Writes(r)' => fd'[r] # fd'[q]
  <2>1. q # p /\ phase[q] = "running" /\ fd'[q] = fd[q]
    BY <1>1, <1>5
  <2>2. Runs(disk[fd[q]]) /\ \A r \in Launcher : Writes(r) => fd[r] # fd[q]
    BY <2>1 DEF FileInv
  <2>3. Runs(disk[fd[q]])'
    BY <2>1, <2>2, Frozen
  <2>4. ASSUME NEW r \in Launcher, Writes(r)' PROVE fd'[r] # fd'[q]
    <3>1. r # p /\ Writes(r) /\ fd'[r] = fd[r]
      BY <1>1, <2>4 DEF Writes
    <3> QED BY <2>1, <2>2, <3>1
  <2> QED BY <2>3, <2>4
<1>6. staged' # "none" => ino' < Versions
  BY DEF FileInv
<1> QED BY <1>3, <1>4, <1>5, <1>6 DEF FileInv

\* A write puts a piece of what the patcher makes of a build into a file that it has
\* emptied.
LEMMA WriteForm ==
  ASSUME PatcherTypeOK, FileInv, NEW p \in Launcher, NEW piece \in {"head", "tail"},
         Writes(p), Write(p, piece)
  PROVE  /\ fd[p] \in 1 .. ino /\ fd[p] \in Version /\ build \in Histories
         /\ \E v \in Version : mem[p] = Patched(v)
         /\ disk' = [disk EXCEPT ![fd[p]] = IF piece = "head"
                                             THEN [head |-> mem[p].head, tail |-> @.tail]
                                             ELSE [head |-> @.head, tail |-> mem[p].tail]]
         /\ UNCHANGED <<build, ino, bak, marked, staged, mem, fd, launches, faults,
                        overlapped, raced>>
         /\ newer' = (newer \/ fd[p] = ino)
<1>1. fd[p] \in 1 .. ino /\ fd[p] \in Version
  BY DEF Writes, FileInv, PatcherTypeOK, Version
<1>2. disk[fd[p]] \in File
  BY <1>1 DEF PatcherTypeOK, Version
<1>3. [disk[fd[p]] EXCEPT ![piece] = mem[p][piece]]
        = IF piece = "head" THEN [head |-> mem[p].head, tail |-> disk[fd[p]].tail]
                            ELSE [head |-> disk[fd[p]].head, tail |-> mem[p].tail]
  <2>1. CASE piece = "head" BY <1>2, <2>1 DEF File
  <2>2. CASE piece = "tail" BY <1>2, <2>2 DEF File
  <2> QED BY <2>1, <2>2
<1>4. \E v \in Version : mem[p] = Patched(v)
  BY DEF FileInv, Writes, Prepared
<1> QED BY <1>1, <1>3, <1>4 DEF Write, PatcherTypeOK

LEMMA FileStep ==
  PatcherTypeOK /\ FileInv /\ [PatcherNext]_patcherVars => FileInv'
<1> SUFFICES ASSUME PatcherTypeOK, FileInv, [PatcherNext]_patcherVars PROVE FileInv'
  OBVIOUS
<1>1. /\ build' = build /\ \A v : Patched(v)' = Patched(v)
      /\ \A f, V : Made(f, V)' <=> Made(f, V)
  <2>1. build' = build
    BY DEF PatcherNext, patcherVars, Launch, Patcher, Read, Backup, CopyOpen, Copy, OpenTarget,
           WriteHead, WriteTail, Write, Touch, Exec, Quit, Kill, Fail, Download, Replace
  <2> QED BY <2>1, Frozen
<1>2. ASSUME NEW p \in Launcher, NEW where, Move(p, where)
      PROVE  \A q \in Launcher : phase'[q] = IF q = p THEN where ELSE phase[q]
  BY <1>2 DEF PatcherTypeOK, Move
<1>3. /\ build \in Histories /\ ino \in Version /\ Real \in File
      /\ Fresh(ino) = Real \/ Made(Real, Version)
      /\ \A i \in 1 .. ino : i \in Version
  BY PatcherAssumption DEF PatcherTypeOK, FileInv, Version, Real
<1>4. ASSUME NEW p \in Launcher, Launch(p) PROVE FileInv'
  <2>1. PICK where \in {"exec", "read"} : Move(p, where)
    BY <1>4 DEF Launch
  <2> QED BY <1>4, <2>1, MoveFile DEF Launch
<1>5. ASSUME NEW p \in Launcher, Read(p) PROVE FileInv'
  <2>1. CASE Move(p, "exec") /\ UNCHANGED mem
    BY <1>5, <2>1, MoveFile DEF Read
  <2>2. CASE Move(p, "touch") /\ UNCHANGED mem
    BY <1>5, <2>2, MoveFile DEF Read
  <2>3. CASE Real.head # Nothing /\ PatchOf(Real) # Real /\ Move(p, "backup")
             /\ mem' = [mem EXCEPT ![p] = PatchOf(Real)]
    <3>1. Real = Fresh(ino)
      BY <1>3, <2>3, NothingLeft
    <3>2. mem'[p] = Patched(ino) /\ \A q \in Launcher \ {p} : mem'[q] = mem[q]
      BY <2>3, <3>1 DEF PatcherTypeOK, Patched
    <3>3. UNCHANGED <<build, disk, ino, staged, fd>>
      BY <1>5 DEF Read
    <3>4. \A q \in Launcher : phase'[q] = IF q = p THEN "backup" ELSE phase[q]
      BY <1>2, <2>3
    <3>5. \A q \in Launcher : Runs(disk[fd[q]])' <=> Runs(disk[fd[q]])
      BY <3>3, Frozen
    <3>6. \A q \in Launcher : Writes(q)' <=> Writes(q)
      BY <1>5, <3>4 DEF Writes, Read
    <3>7. \A i \in Version : (disk[i] = Fresh(i) \/ Made(disk[i], Version))'
      BY <1>1, <3>3 DEF FileInv, Made
    <3>8. \A q \in Launcher : Prepared(q)' => \E v \in Version : mem'[q] = Patched(v)'
      BY <1>1, <1>3, <3>2, <3>4 DEF Prepared, FileInv
    <3>9. \A q \in Launcher : Writes(q)' => Made(disk[fd[q]], Version)'
      BY <3>3, <3>6, Frozen DEF FileInv
    <3> QED BY <3>3, <3>4, <3>5, <3>6, <3>7, <3>8, <3>9 DEF FileInv
  <2> QED BY <1>5, <2>1, <2>2, <2>3 DEF Read, AfterError
<1>6. ASSUME NEW p \in Launcher, Backup(p) PROVE FileInv'
  <2>1. PICK where \in {"copy", "open"} : Move(p, where)
    BY <1>6 DEF Backup
  <2> QED BY <1>6, <2>1, MoveFile DEF Backup, Prepared
<1>7. ASSUME NEW p \in Launcher, CopyOpen(p) PROVE FileInv'
  <2>1. /\ UNCHANGED <<build, disk, ino, staged, mem>> /\ phase[p] = "copy"
        /\ \A q \in Launcher : phase'[q] = IF q = p THEN "copying" ELSE phase[q]
        /\ \A q \in Launcher : fd'[q] = IF q = p THEN ino ELSE fd[q]
    BY <1>2, <1>7 DEF CopyOpen, PatcherTypeOK
  <2>2. \A i \in Version : (disk[i] = Fresh(i) \/ Made(disk[i], Version))'
    BY <1>1, <2>1 DEF FileInv, Made
  <2>3. ASSUME NEW q \in Launcher
        PROVE  /\ phase'[q] \in {"copying", "head", "tail", "running"} =>
                    fd'[q] \in 1 .. ino'
               /\ Prepared(q)' => \E v \in Version : mem'[q] = Patched(v)'
               /\ Writes(q)' => Made(disk[fd[q]], Version)'
    <3>1. Writes(q)' => q # p /\ Writes(q) /\ disk'[fd'[q]] = disk[fd[q]]
      BY <2>1 DEF Writes
    <3>2. Writes(q)' => Made(disk[fd[q]], Version)'
      BY <3>1, Frozen, <1>1 DEF FileInv
    <3> QED BY <1>1, <1>3, <2>1, <3>2 DEF Prepared, FileInv, Version
  <2>4. ASSUME NEW q \in Launcher, phase'[q] = "running"
        PROVE  Runs(disk[fd[q]])' /\ \A u \in Launcher : Writes(u)' => fd'[u] # fd'[q]
    <3>1. q # p /\ phase[q] = "running" /\ fd'[q] = fd[q]
      BY <2>1, <2>4
    <3>2. Runs(disk[fd[q]])'
      BY <2>1, <3>1, Frozen DEF FileInv
    <3> QED BY <2>1, <3>1, <3>2 DEF FileInv, Writes
  <2> QED BY <2>1, <2>2, <2>3, <2>4 DEF FileInv
<1>8. ASSUME NEW p \in Launcher, Copy(p) PROVE FileInv'
  BY <1>8, MoveFile DEF Copy, Prepared
<1>9. ASSUME NEW p \in Launcher, OpenTarget(p) PROVE FileInv'
  <2>1. CASE Running(ino)
    BY <1>9, <2>1, MoveFile DEF OpenTarget, AfterError
  <2>2. CASE ~Running(ino)
    <3>1. /\ UNCHANGED <<build, ino, staged, mem>> /\ phase[p] = "open"
          /\ \A q \in Launcher : phase'[q] = IF q = p THEN "head" ELSE phase[q]
          /\ \A q \in Launcher : fd'[q] = IF q = p THEN ino ELSE fd[q]
          /\ \A i \in Version : disk'[i] = IF i = ino THEN Empty ELSE disk[i]
      BY <1>2, <1>9, <2>2 DEF OpenTarget, PatcherTypeOK, Version
    <3>2. \A i \in Version : (disk[i] = Fresh(i) \/ Made(disk[i], Version))'
      BY <1>1, <3>1 DEF FileInv, Made, Empty
    <3>3. ASSUME NEW q \in Launcher
          PROVE  /\ phase'[q] \in {"copying", "head", "tail", "running"} =>
                      fd'[q] \in 1 .. ino'
                 /\ Prepared(q)' => \E v \in Version : mem'[q] = Patched(v)'
                 /\ Writes(q)' => Made(disk[fd[q]], Version)'
      <4>1. ASSUME Writes(q)' PROVE Made(disk[fd[q]], Version)'
        <5>1. CASE fd'[q] = ino
          BY <3>1, <5>1, <1>3 DEF Made, Empty
        <5>2. CASE fd'[q] # ino
          <6>1. q # p /\ Writes(q) /\ fd'[q] = fd[q] /\ fd[q] \in Version
            BY <3>1, <4>1, <5>2, <1>3 DEF Writes, FileInv
          <6>2. disk'[fd'[q]] = disk[fd[q]]
            BY <3>1, <5>2, <6>1
          <6> QED BY <6>1, <6>2, <1>1 DEF FileInv
        <5> QED BY <5>1, <5>2
      <4> QED BY <1>1, <1>3, <3>1, <4>1 DEF Prepared, FileInv, Version
    <3>4. ASSUME NEW q \in Launcher, phase'[q] = "running"
          PROVE  Runs(disk[fd[q]])' /\ \A u \in Launcher : Writes(u)' => fd'[u] # fd'[q]
      <4>1. q # p /\ phase[q] = "running" /\ fd'[q] = fd[q] /\ fd[q] # ino
        BY <2>2, <3>1, <3>4 DEF Running
      <4>2. fd[q] \in 1 .. ino /\ Runs(disk[fd[q]])
        BY <4>1 DEF FileInv
      <4>4. fd[q] \in Version
        BY <1>3, <4>2
      <4>3. Runs(disk[fd[q]])'
        BY <3>1, <4>1, <4>2, <4>4, Frozen
      <4> QED BY <3>1, <4>1, <4>3 DEF FileInv, Writes
    <3> QED BY <3>1, <3>2, <3>3, <3>4 DEF FileInv
  <2> QED BY <2>1, <2>2
<1>10. ASSUME NEW p \in Launcher, WriteHead(p) \/ WriteTail(p) PROVE FileInv'
  <2>1. PICK piece \in {"head", "tail"}, where \in {"tail", "touch"} :
          Writes(p) /\ Write(p, piece) /\ Move(p, where)
    BY <1>10 DEF WriteHead, WriteTail, Writes
  <2>2. /\ UNCHANGED <<build, ino, staged, mem, fd>> /\ fd[p] \in Version
        /\ \E v \in Version : mem[p] = Patched(v)
        /\ disk' = [disk EXCEPT ![fd[p]] = IF piece = "head"
                                            THEN [head |-> mem[p].head, tail |-> @.tail]
                                            ELSE [head |-> @.head, tail |-> mem[p].tail]]
    BY <2>1, WriteForm
  <2>3. /\ \A i \in Version : i # fd[p] => disk'[i] = disk[i]
        /\ disk'[fd[p]] = IF piece = "head" THEN [head |-> mem[p].head, tail |-> disk[fd[p]].tail]
                                            ELSE [head |-> disk[fd[p]].head, tail |-> mem[p].tail]
    <3>1. disk \in [Version -> File]
      BY DEF PatcherTypeOK, Version
    <3> QED BY <2>2, <3>1
  <2>8. \A q \in Launcher : phase'[q] = IF q = p THEN where ELSE phase[q]
    BY <1>2, <2>1
  <2>7. Made(disk[fd[p]], Version)'
    <3>1. Made(disk[fd[p]], Version)
      BY <2>1 DEF FileInv
    <3>2. Made(disk'[fd[p]], Version)
      BY <2>2, <2>3, <3>1 DEF Made
    <3> QED BY <1>1, <2>2, <3>2
  <2>4. ASSUME NEW i \in Version PROVE (disk[i] = Fresh(i) \/ Made(disk[i], Version))'
    <3>1. CASE i # fd[p]
      <4>1. disk'[i] = disk[i] /\ (disk[i] = Fresh(i) \/ Made(disk[i], Version))
        BY <2>3, <3>1 DEF FileInv
      <4> QED BY <1>1, <4>1 DEF Fresh
    <3>2. CASE i = fd[p]
      BY <2>2, <2>7, <3>2
    <3> QED BY <3>1, <3>2
  <2>5. ASSUME NEW q \in Launcher
        PROVE  /\ phase'[q] \in {"copying", "head", "tail", "running"} =>
                    fd'[q] \in 1 .. ino'
               /\ Prepared(q)' => \E v \in Version : mem'[q] = Patched(v)'
               /\ Writes(q)' => Made(disk[fd[q]], Version)'
    <3>1. ASSUME Writes(q)' PROVE Made(disk[fd[q]], Version)'
      <4>1. CASE fd[q] = fd[p]
        BY <2>2, <2>7, <4>1
      <4>2. CASE fd[q] # fd[p]
        <5>1. q # p /\ Writes(q) /\ fd[q] \in Version
          BY <2>8, <3>1, <4>2, <1>3 DEF Writes, FileInv
        <5>2. disk'[fd'[q]] = disk[fd[q]] /\ Made(disk[fd[q]], Version)
          BY <2>2, <2>3, <4>2, <5>1 DEF FileInv
        <5> QED BY <1>1, <5>2
      <4> QED BY <4>1, <4>2
    <3> QED BY <1>1, <2>1, <2>2, <2>8, <3>1 DEF Prepared, FileInv, Writes
  <2>6. ASSUME NEW q \in Launcher, phase'[q] = "running"
        PROVE  Runs(disk[fd[q]])' /\ \A u \in Launcher : Writes(u)' => fd'[u] # fd'[q]
    <3>1. q # p /\ phase[q] = "running" /\ fd[q] # fd[p]
      BY <2>1, <2>8, <2>6 DEF FileInv
    <3>2. fd[q] \in 1 .. ino /\ Runs(disk[fd[q]])
      BY <3>1 DEF FileInv
    <3>4. fd[q] \in Version
      BY <1>3, <3>2
    <3>3. Runs(disk[fd[q]])'
      <4>1. disk'[fd'[q]] = disk[fd[q]]
        BY <2>2, <2>3, <3>1, <3>4
      <4> QED BY <1>1, <3>2, <4>1, Frozen
    <3> QED BY <2>1, <2>2, <2>8, <3>1, <3>3 DEF FileInv, Writes
  <2> QED BY <2>2, <2>4, <2>5, <2>6 DEF FileInv
<1>11. ASSUME NEW p \in Launcher, Touch(p) PROVE FileInv'
  BY <1>11, MoveFile DEF Touch
<1>12. ASSUME NEW p \in Launcher, Exec(p) PROVE FileInv'
  <2>1. UNCHANGED <<build, disk, ino, staged, mem>> /\ phase[p] = "exec"
        /\ \A q \in Launcher : fd'[q] = IF q = p THEN ino ELSE fd[q]
    BY <1>12 DEF Exec, PatcherTypeOK
  <2>2. CASE Writing(ino) \/ ~Runs(Real)
    <3>1. PICK where \in {"idle", "failed"} : Move(p, where)
      BY <1>12, <2>2 DEF Exec
    <3> QED BY <2>1, <3>1, MoveFile
  <2>3. CASE ~Writing(ino) /\ Runs(Real)
    <3>1. \A q \in Launcher : phase'[q] = IF q = p THEN "running" ELSE phase[q]
      BY <1>2, <1>12, <2>3 DEF Exec
    <3>2. \A i \in Version : (disk[i] = Fresh(i) \/ Made(disk[i], Version))'
      BY <1>1, <2>1 DEF FileInv, Made
    <3>3. ASSUME NEW q \in Launcher
          PROVE  /\ phase'[q] \in {"copying", "head", "tail", "running"} =>
                      fd'[q] \in 1 .. ino'
                 /\ Prepared(q)' => \E v \in Version : mem'[q] = Patched(v)'
                 /\ Writes(q)' => Made(disk[fd[q]], Version)'
      <4>1. Writes(q)' => q # p /\ Writes(q) /\ disk'[fd'[q]] = disk[fd[q]]
        BY <2>1, <3>1 DEF Writes
      <4>2. Writes(q)' => Made(disk[fd[q]], Version)'
        BY <4>1, <1>1 DEF FileInv
      <4> QED BY <1>1, <1>3, <2>1, <3>1, <4>2 DEF Prepared, FileInv, Version
    <3>4. ASSUME NEW q \in Launcher, phase'[q] = "running"
          PROVE  Runs(disk[fd[q]])' /\ \A u \in Launcher : Writes(u)' => fd'[u] # fd'[q]
      <4>1. CASE q = p
        <5>1. Runs(disk[fd[q]])'
          BY <2>1, <2>3, <4>1, Frozen DEF Real
        <5>2. \A u \in Launcher : Writes(u)' => fd'[u] # fd'[q]
          BY <2>1, <2>3, <3>1, <4>1 DEF Writing, Writes
        <5> QED BY <5>1, <5>2
      <4>2. CASE q # p
        <5>1. Runs(disk[fd[q]])'
          BY <2>1, <3>1, <3>4, <4>2, Frozen DEF FileInv
        <5>2. \A u \in Launcher : Writes(u)' => fd'[u] # fd'[q]
          BY <2>1, <3>1, <3>4, <4>2 DEF FileInv, Writes
        <5> QED BY <5>1, <5>2
      <4> QED BY <4>1, <4>2
    <3> QED BY <2>1, <3>2, <3>3, <3>4 DEF FileInv
  <2> QED BY <2>2, <2>3
<1>13. ASSUME NEW p \in Launcher, Quit(p) PROVE FileInv'
  BY <1>13, MoveFile DEF Quit
<1>14. ASSUME NEW p \in Launcher, Kill(p) PROVE FileInv'
  BY <1>14, MoveFile DEF Kill
<1>15. ASSUME NEW p \in Launcher, Fail(p) PROVE FileInv'
  BY <1>15, MoveFile DEF Fail, AfterError
<1>16. ASSUME UNCHANGED <<build, disk, mem, fd, phase>>, ino' \in {ino, ino + 1},
              staged' # "none" => ino' < Versions
       PROVE  FileInv'
  <2>1. \A i \in Version : (disk[i] = Fresh(i) \/ Made(disk[i], Version))'
    BY <1>1, <1>16 DEF FileInv, Made
  <2>2. \A q \in Launcher : /\ Prepared(q)' <=> Prepared(q)
                            /\ Writes(q)' <=> Writes(q)
                            /\ Runs(disk[fd[q]])' <=> Runs(disk[fd[q]])
                            /\ Made(disk[fd[q]], Version)' <=> Made(disk[fd[q]], Version)
    BY <1>16, Frozen DEF Prepared, Writes
  <2>3. \A n \in 1 .. ino : n \in 1 .. ino'
    BY <1>3, <1>16 DEF Version
  <2> QED BY <1>1, <1>16, <2>1, <2>2, <2>3 DEF FileInv
<1>17. CASE Download
  <2>1. UNCHANGED <<build, disk, mem, fd, phase>> /\ ino' \in {ino, ino + 1}
    BY <1>17 DEF Download
  <2>2. staged' # "none" => ino' < Versions
    BY <1>17 DEF Download, FileInv
  <2> QED BY <2>1, <2>2, <1>16
<1>18. CASE Replace
  <2>1. UNCHANGED <<build, disk, mem, fd, phase>> /\ ino' \in {ino, ino + 1}
    BY <1>18 DEF Replace
  <2>2. staged' # "none" => ino' < Versions
    BY <1>18 DEF Replace, FileInv
  <2> QED BY <2>1, <2>2, <1>16
<1>19. CASE UNCHANGED patcherVars
  <2>1. UNCHANGED <<build, disk, mem, fd, phase>> /\ ino' \in {ino, ino + 1}
    BY <1>19 DEF patcherVars
  <2>2. staged' # "none" => ino' < Versions
    BY <1>19 DEF patcherVars, FileInv
  <2> QED BY <2>1, <2>2, <1>16
<1> QED BY <1>4, <1>5, <1>6, <1>7, <1>8, <1>9, <1>10, <1>11, <1>12, <1>13, <1>14, <1>15,
           <1>17, <1>18, <1>19 DEF PatcherNext, Patcher

\* What is known while no update crosses a launch is kept by a step that only moves
\* a launcher, to where it knows what it has to.
LEMMA MoveCalm ==
  ASSUME PatcherTypeOK, PatcherTypeOK', CalmInv, NEW p \in Launcher,
         NEW where \in Phases \ {"head", "tail"}, Move(p, where),
         UNCHANGED <<build, disk, ino, raced>>, faults' >= faults,
         \A q \in Launcher \ {p} : mem'[q] = mem[q] /\ fd'[q] = fd[q],
         ~raced /\ (marked /\ ~newer)' => Done,
         ~raced /\ where \in {"backup", "copy", "copying", "open"} => mem'[p] = Patched(ino),
         ~raced /\ (where = "touch" \/ (where = "exec" /\ faults' = 0)) => Done,
         ~raced /\ where = "failed" => faults' > 0 \/ ~Served(fd'[p])
  PROVE  CalmInv'
<1> SUFFICES ASSUME ~raced PROVE CalmInv'
  BY DEF CalmInv
<1>1. \A q \in Launcher : phase'[q] = IF q = p THEN where ELSE phase[q]
  BY DEF PatcherTypeOK, Move
<1>2. /\ \A v : Patched(v)' = Patched(v) /\ (Served(v)' <=> Served(v))
      /\ \A f, V : Made(f, V)' <=> Made(f, V)
  BY Frozen
<1>3. Done' <=> Done
  BY <1>2 DEF Done
<1>4. \A i \in Version : /\ (disk[i] = Fresh(i) \/ Made(disk[i], {i}))'
                         /\ i > ino' => disk'[i] = Fresh(i)'
  BY <1>2 DEF CalmInv, Fresh
<1>5. faults \in Int /\ faults' \in Int /\ faults >= 0
  BY PatcherAssumption DEF PatcherTypeOK
<1>6. ASSUME NEW q \in Launcher
      PROVE  /\ Prepared(q)' => mem'[q] = Patched(ino)'
             /\ Writes(q)' => fd'[q] = ino' /\ Done'
             /\ phase'[q] = "touch" \/ (phase'[q] = "exec" /\ faults' = 0) => Done'
             /\ phase'[q] = "failed" => faults' > 0 \/ ~Served(fd[q])'
  <2>1. CASE q = p
    BY <1>1, <1>2, <1>3, <2>1 DEF Prepared, Writes
  <2>2. CASE q # p
    <3>1. /\ Prepared(q) => mem[q] = Patched(ino)
          /\ Writes(q) => fd[q] = ino /\ Done
          /\ phase[q] = "touch" \/ (phase[q] = "exec" /\ faults = 0) => Done
          /\ phase[q] = "failed" => faults > 0 \/ ~Served(fd[q])
      BY DEF CalmInv
    <3>2. phase'[q] = phase[q] /\ mem'[q] = mem[q] /\ fd'[q] = fd[q]
      BY <1>1, <2>2
    <3>3. Served(fd[q])' <=> Served(fd[q])
      BY <1>2, <3>2
    <3> QED BY <1>2, <1>3, <1>5, <3>1, <3>2, <3>3 DEF Prepared, Writes
  <2> QED BY <2>1, <2>2
<1>7. (marked /\ ~newer)' => Done'
  BY <1>3
<1> QED BY <1>4, <1>6, <1>7 DEF CalmInv

\* The build in place is not as it came once it runs, lacks a piece, or is all that
\* the patcher can make of it.
LEMMA DoneWhen ==
  ASSUME PatcherTypeOK, CalmInv, ~raced,
         Runs(Real) \/ Real.head = Nothing \/ PatchOf(Real) = Real
  PROVE  Done
<1>1. ino \in Version /\ build \in Histories /\ (Real = Fresh(ino) \/ Done)
  BY DEF PatcherTypeOK, CalmInv, Version, Real, Done
<1>2. CASE Real = Fresh(ino)
  <2>1. Real.head # Nothing /\ ~Runs(Real)
    BY <1>1, <1>2, FreshType, ServedRuns, PatcherAssumption
  <2>2. Real = Patched(ino)
    BY <1>2, <2>1 DEF Patched
  <2> QED BY <2>2 DEF Done, Made, Real
<1> QED BY <1>1, <1>2

LEMMA CalmStep ==
  PatcherTypeOK /\ FileInv /\ CalmInv /\ WholeInv /\ PatcherTypeOK' /\ [PatcherNext]_patcherVars
    => CalmInv'
<1> SUFFICES ASSUME PatcherTypeOK, FileInv, CalmInv, WholeInv, PatcherTypeOK',
                    [PatcherNext]_patcherVars
             PROVE  CalmInv'
  OBVIOUS
<1>1. /\ build' = build
      /\ \A v : Patched(v)' = Patched(v) /\ (Served(v)' <=> Served(v))
      /\ \A f, V : Made(f, V)' <=> Made(f, V)
  <2>1. build' = build
    BY DEF PatcherNext, patcherVars, Launch, Patcher, Read, Backup, CopyOpen, Copy, OpenTarget,
           WriteHead, WriteTail, Write, Touch, Exec, Quit, Kill, Fail, Download, Replace
  <2> QED BY <2>1, Frozen
<1>2. ASSUME NEW p \in Launcher, NEW where, Move(p, where)
      PROVE  \A q \in Launcher : phase'[q] = IF q = p THEN where ELSE phase[q]
  BY <1>2 DEF PatcherTypeOK, Move
<1>3. /\ build \in Histories /\ ino \in Version /\ Real \in File
      /\ faults \in Int /\ faults >= 0 /\ faults + 1 > 0 /\ faults >= faults
      /\ ino \in Int /\ \A i \in Version : i \in Int
  BY PatcherAssumption DEF PatcherTypeOK, Version, Real
<1>4. ASSUME NEW p \in Launcher, Launch(p) PROVE CalmInv'
  <2>1. /\ UNCHANGED <<build, disk, ino, marked, newer, mem, fd, faults, raced>>
        /\ \/ Move(p, "read")
           \/ marked /\ ~newer /\ Move(p, "exec")
    BY <1>4 DEF Launch
  <2>2. ~raced /\ marked /\ ~newer => Done
    BY DEF CalmInv
  <2>3. CASE Move(p, "read")
    BY <1>3, <2>1, <2>2, <2>3, MoveCalm DEF Phases
  <2>4. CASE marked /\ ~newer /\ Move(p, "exec")
    BY <1>3, <2>1, <2>2, <2>4, MoveCalm DEF Phases
  <2> QED BY <2>1, <2>3, <2>4
<1>5. ASSUME NEW p \in Launcher, Read(p) PROVE CalmInv'
  <2>1. /\ UNCHANGED <<build, disk, ino, marked, newer, fd, faults, raced>>
        /\ \A q \in Launcher \ {p} : mem'[q] = mem[q]
    BY <1>5 DEF Read, PatcherTypeOK
  <2>2. ~raced /\ marked /\ ~newer => Done
    BY DEF CalmInv
  <2>3. CASE Real.head = Nothing /\ Move(p, "exec")
    <3>1. ~raced => Done
      BY <2>3, DoneWhen
    <3> QED BY <1>3, <2>1, <2>2, <2>3, <3>1, MoveCalm DEF Phases
  <2>4. CASE PatchOf(Real) = Real /\ Move(p, "touch")
    <3>1. ~raced => Done
      BY <2>4, DoneWhen
    <3> QED BY <1>3, <2>1, <2>2, <2>4, <3>1, MoveCalm DEF Phases
  <2>5. CASE Real.head # Nothing /\ PatchOf(Real) # Real /\ Move(p, "backup")
             /\ mem' = [mem EXCEPT ![p] = PatchOf(Real)]
    <3>1. Real = Fresh(ino)
      BY <1>3, <2>5, NothingLeft DEF FileInv, Real
    <3>2. mem'[p] = Patched(ino)
      BY <2>5, <3>1 DEF PatcherTypeOK, Patched
    <3> QED BY <1>3, <2>1, <2>2, <2>5, <3>2, MoveCalm DEF Phases
  <2> QED BY <1>5, <2>3, <2>4, <2>5 DEF Read, AfterError
<1>6. ASSUME NEW p \in Launcher, NEW where \in {"copy", "copying", "open"}, Prepared(p),
             Move(p, where), UNCHANGED <<build, disk, ino, marked, newer, mem, faults, raced>>,
             \A q \in Launcher \ {p} : fd'[q] = fd[q]
      PROVE  CalmInv'
  <2>1. ~raced => mem'[p] = Patched(ino)
    BY <1>6 DEF CalmInv
  <2>2. ~raced /\ (marked /\ ~newer)' => Done
    BY <1>6 DEF CalmInv
  <2> QED BY <1>3, <1>6, <2>1, <2>2, MoveCalm DEF Phases
<1>7. ASSUME NEW p \in Launcher, Backup(p) PROVE CalmInv'
  <2>1. PICK where \in {"copy", "open"} : Move(p, where)
    BY <1>7 DEF Backup
  <2> QED BY <1>6, <1>7, <2>1 DEF Backup, Prepared
<1>8. ASSUME NEW p \in Launcher, CopyOpen(p) PROVE CalmInv'
  <2>1. \A q \in Launcher \ {p} : fd'[q] = fd[q]
    BY <1>8 DEF CopyOpen, PatcherTypeOK
  <2> QED BY <1>6, <1>8, <2>1 DEF CopyOpen, Prepared
<1>9. ASSUME NEW p \in Launcher, Copy(p) PROVE CalmInv'
  BY <1>6, <1>9 DEF Copy, Prepared
<1>10. ASSUME NEW p \in Launcher, NEW where \in {"head", "tail", "touch"}, Move(p, where),
              Prepared(p), fd'[p] = ino, newer', UNCHANGED <<build, ino, mem, faults, raced>>,
              \A q \in Launcher \ {p} : fd'[q] = fd[q],
              \A i \in Version \ {ino} : disk'[i] = disk[i],
              ~raced => Made(disk'[ino], {ino})
       PROVE  CalmInv'
  <2> SUFFICES ASSUME ~raced PROVE CalmInv'
    BY <1>10 DEF CalmInv
  <2>1. Done'
    BY <1>1, <1>10 DEF Done
  <2>2. ASSUME NEW i \in Version
        PROVE  /\ (disk[i] = Fresh(i) \/ Made(disk[i], {i}))'
               /\ i > ino' => disk'[i] = Fresh(i)'
    <3>1. CASE i = ino
      BY <1>1, <1>3, <1>10, <3>1
    <3>2. CASE i # ino
      BY <1>1, <1>10, <3>2 DEF CalmInv, Fresh
    <3> QED BY <3>1, <3>2
  <2>3. \A q \in Launcher : phase'[q] = IF q = p THEN where ELSE phase[q]
    BY <1>2, <1>10
  <2>4. ASSUME NEW q \in Launcher
        PROVE  /\ Prepared(q)' => mem'[q] = Patched(ino)'
               /\ Writes(q)' => fd'[q] = ino' /\ Done'
               /\ phase'[q] = "touch" \/ (phase'[q] = "exec" /\ faults' = 0) => Done'
               /\ phase'[q] = "failed" => faults' > 0 \/ ~Served(fd[q])'
    <3>1. Prepared(q)' => Prepared(q)
      BY <1>10, <2>3 DEF Prepared
    <3>2. Writes(q)' => fd'[q] = ino
      BY <1>10, <2>3 DEF CalmInv, Writes
    <3>3. phase'[q] = "failed" => q # p /\ phase[q] = "failed" /\ fd'[q] = fd[q]
      BY <1>10, <2>3
    <3>4. phase'[q] = "failed" => (Served(fd[q])' <=> Served(fd[q]))
      BY <1>1, <3>3
    <3>5. phase'[q] = "failed" => faults' > 0 \/ ~Served(fd[q])'
      BY <1>10, <3>3, <3>4 DEF CalmInv
    <3> QED BY <1>1, <1>10, <2>1, <3>1, <3>2, <3>5 DEF CalmInv
  <2> QED BY <1>10, <2>1, <2>2, <2>4 DEF CalmInv
<1>11. ASSUME NEW p \in Launcher, OpenTarget(p) PROVE CalmInv'
  <2>1. UNCHANGED <<build, ino, marked, mem, faults, raced>> /\ phase[p] = "open"
    BY <1>11 DEF OpenTarget
  <2>2. CASE Running(ino)
    <3>1. ~raced => Done
      BY <2>2, DoneWhen DEF FileInv, Running, Real
    <3>2. Move(p, "exec") /\ UNCHANGED <<disk, newer, fd>>
      BY <1>11, <2>2 DEF OpenTarget, AfterError
    <3>3. ~raced /\ (marked /\ ~newer)' => Done
      BY <3>1
    <3> QED BY <1>3, <2>1, <3>1, <3>2, <3>3, MoveCalm DEF Phases
  <2>3. CASE ~Running(ino)
    <3>1. /\ Move(p, "head") /\ fd'[p] = ino /\ newer'
          /\ \A q \in Launcher \ {p} : fd'[q] = fd[q]
      BY <1>11, <2>3 DEF OpenTarget, PatcherTypeOK
    <3>2. disk'[ino] = Empty /\ \A i \in Version \ {ino} : disk'[i] = disk[i]
      BY <1>3, <1>11, <2>3 DEF OpenTarget, PatcherTypeOK, Version
    <3>3. Made(disk'[ino], {ino})
      BY <3>2 DEF Made, Empty
    <3> QED BY <1>10, <2>1, <3>1, <3>2, <3>3 DEF Prepared
  <2> QED BY <2>2, <2>3
<1>12. ASSUME NEW p \in Launcher, WriteHead(p) \/ WriteTail(p) PROVE CalmInv'
  <2>1. PICK piece \in {"head", "tail"}, where \in {"tail", "touch"} :
          Writes(p) /\ Write(p, piece) /\ Move(p, where)
    BY <1>12 DEF WriteHead, WriteTail, Writes
  <2>2. /\ UNCHANGED <<build, ino, mem, fd, faults, raced>> /\ newer' = (newer \/ fd[p] = ino)
        /\ disk' = [disk EXCEPT ![fd[p]] = IF piece = "head"
                                            THEN [head |-> mem[p].head, tail |-> @.tail]
                                            ELSE [head |-> @.head, tail |-> mem[p].tail]]
    BY <2>1, WriteForm
  <2> SUFFICES ASSUME ~raced PROVE CalmInv'
    BY <2>2 DEF CalmInv
  <2>3. fd[p] = ino /\ Done /\ mem[p] = Patched(ino) /\ Prepared(p)
    BY <2>1 DEF CalmInv, Prepared, Writes
  <2>4. /\ \A i \in Version \ {ino} : disk'[i] = disk[i]
        /\ disk'[ino] = IF piece = "head" THEN [head |-> mem[p].head, tail |-> disk[ino].tail]
                                          ELSE [head |-> disk[ino].head, tail |-> mem[p].tail]
    <3>1. disk \in [Version -> File]
      BY DEF PatcherTypeOK, Version
    <3> QED BY <1>3, <2>2, <2>3, <3>1
  <2>5. Made(disk'[ino], {ino})
    BY <2>3, <2>4 DEF Made, Done
  <2> QED BY <1>10, <2>1, <2>2, <2>3, <2>4, <2>5
<1>13. ASSUME NEW p \in Launcher, Touch(p) PROVE CalmInv'
  <2>1. /\ UNCHANGED <<build, disk, ino, mem, fd, faults, raced>> /\ phase[p] = "touch"
        /\ Move(p, "exec")
    BY <1>13 DEF Touch
  <2>2. ~raced => Done
    BY <2>1 DEF CalmInv
  <2> QED BY <1>3, <2>1, <2>2, MoveCalm DEF Phases
<1>14. ASSUME NEW p \in Launcher, Exec(p) PROVE CalmInv'
  <2>1. /\ UNCHANGED <<build, disk, ino, marked, newer, mem, faults, raced>>
        /\ phase[p] = "exec" /\ fd'[p] = ino /\ \A q \in Launcher \ {p} : fd'[q] = fd[q]
    BY <1>14 DEF Exec, PatcherTypeOK
  <2>2. ~raced /\ (marked /\ ~newer)' => Done
    BY <2>1 DEF CalmInv
  <2>3. CASE Writing(ino) \/ Runs(Real)
    <3>1. PICK where \in {"idle", "running"} : Move(p, where)
      BY <1>14, <2>3 DEF Exec
    <3> QED BY <1>3, <2>1, <2>2, <3>1, MoveCalm DEF Phases
  <2>4. CASE ~Writing(ino) /\ ~Runs(Real)
    <3>1. Move(p, "failed")
      BY <1>14, <2>4 DEF Exec
    <3>2. ASSUME ~raced, faults = 0 PROVE ~Served(ino)
      <4>1. Made(Real, {ino})
        BY <2>1, <3>2 DEF CalmInv, Done, Real
      <4>2. Real.head # Nothing /\ Real.tail # Nothing
        BY <1>3, <2>4, <3>2 DEF WholeInv, Writing, Writes, Real
      <4>3. Real = Patched(ino)
        BY <1>3, <4>1, <4>2, WholeMade
      <4> QED BY <1>3, <2>4, <4>3, ServedRuns
    <3>3. ~raced => faults > 0 \/ ~Served(fd'[p])
      BY <1>3, <2>1, <3>2
    <3> QED BY <1>3, <2>1, <2>2, <3>1, <3>3, MoveCalm DEF Phases
  <2> QED BY <2>3, <2>4
<1>15. ASSUME NEW p \in Launcher, NEW where \in {"idle", "exec"}, Move(p, where),
              UNCHANGED <<build, disk, ino, marked, newer, mem, fd, raced>>, faults' >= faults,
              where = "exec" => faults' # 0
       PROVE  CalmInv'
  <2>1. ~raced /\ (marked /\ ~newer)' => Done
    BY <1>15 DEF CalmInv
  <2> QED BY <1>15, <2>1, MoveCalm DEF Phases
<1>16. ASSUME NEW p \in Launcher, Quit(p) \/ Kill(p) \/ Fail(p) PROVE CalmInv'
  <2>1. UNCHANGED <<build, disk, ino, marked, newer, mem, fd, raced>>
    BY <1>16 DEF Quit, Kill, Fail
  <2>2. \/ Move(p, "idle") /\ faults' = faults
        \/ Move(p, "idle") /\ faults' = faults + 1
        \/ Move(p, "exec") /\ faults' = faults + 1
    BY <1>16 DEF Quit, Kill, Fail, AfterError
  <2>3. faults + 1 >= faults /\ faults + 1 # 0
    BY <1>3
  <2> QED BY <1>3, <1>15, <2>1, <2>2, <2>3
<1>17. CASE Download \/ UNCHANGED patcherVars
  <2>1. UNCHANGED <<build, disk, ino, marked, newer, phase, mem, fd, faults, raced>>
    BY <1>17 DEF Download, patcherVars
  <2>2. Done' <=> Done
    BY <1>1, <2>1 DEF Done
  <2>3. \A q \in Launcher : Served(fd[q])' <=> Served(fd[q])
    BY <1>1, <2>1
  <2>4. \A i \in Version : (disk[i] = Fresh(i) \/ Made(disk[i], {i}))'
                             <=> (disk[i] = Fresh(i) \/ Made(disk[i], {i}))
    BY <1>1, <2>1 DEF Fresh
  <2> QED BY <1>1, <2>1, <2>2, <2>3, <2>4 DEF CalmInv, Prepared, Writes, Fresh
<1>18. CASE Replace
  <2>1. /\ UNCHANGED <<build, disk, marked, phase, mem, fd, faults>> /\ ino' = ino + 1
        /\ raced' = (raced \/ staged = "older" \/ \E p \in Launcher : Launching(p))
        /\ staged # "none" /\ newer' = (staged = "newer")
    BY <1>18 DEF Replace
  <2> SUFFICES ASSUME ~raced' PROVE CalmInv'
    BY DEF CalmInv
  <2>2. ~raced /\ newer' /\ \A p \in Launcher : ~Launching(p)
    BY <2>1 DEF PatcherTypeOK
  <2>3. \A p \in Launcher : phase[p] \in {"idle", "running", "failed"}
    BY <2>2 DEF Launching, Patching, PatcherTypeOK, Phases
  <2>4. \A i \in Version : /\ (disk[i] = Fresh(i) \/ Made(disk[i], {i}))'
                           /\ i > ino' => disk'[i] = Fresh(i)'
    <3> TAKE i \in Version
    <3>1. disk'[i] = disk[i] /\ Fresh(i)' = Fresh(i)
      BY <2>1 DEF Fresh
    <3>2. disk[i] = Fresh(i) \/ Made(disk[i], {i})
      BY <2>2 DEF CalmInv
    <3>3. i > ino' => disk[i] = Fresh(i)
      <4>1. i > ino' => i > ino
        BY <1>3, <2>1
      <4> QED BY <2>2, <4>1 DEF CalmInv
    <3> QED BY <1>1, <3>1, <3>2, <3>3
  <2>5. \A p \in Launcher : phase'[p] = "failed" => faults' > 0 \/ ~Served(fd[p])'
    <3>1. \A p \in Launcher : Served(fd[p])' <=> Served(fd[p])
      BY <1>1, <2>1
    <3> QED BY <2>1, <2>2, <3>1 DEF CalmInv
  <2> QED BY <2>1, <2>2, <2>3, <2>4, <2>5 DEF CalmInv, Prepared, Writes
<1> QED BY <1>4, <1>5, <1>7, <1>8, <1>9, <1>11, <1>12, <1>13, <1>14, <1>16, <1>17, <1>18
        DEF PatcherNext, Patcher

\* A step of a launcher that writes no file leaves what is missing to who writes it.
LEMMA MoveWhole ==
  ASSUME PatcherTypeOK, WholeInv, NEW p \in Launcher, NEW where, Move(p, where),
         ~Writes(p), UNCHANGED disk, faults' = 0 => faults = 0,
         \A q \in Launcher \ {p} : fd'[q] = fd[q]
  PROVE  WholeInv'
<1>1. \A q \in Launcher : phase'[q] = IF q = p THEN where ELSE phase[q]
  BY DEF PatcherTypeOK, Move
<1>2. \A q \in Launcher : Writes(q) => Writes(q)' /\ phase'[q] = phase[q] /\ fd'[q] = fd[q]
  BY <1>1 DEF Writes
<1>3. \A q \in Launcher : phase[q] = "head" => Writes(q)
  BY DEF Writes
<1> QED BY <1>2, <1>3 DEF WholeInv

LEMMA WholeStep ==
  PatcherTypeOK /\ FileInv /\ WholeInv /\ [PatcherNext]_patcherVars => WholeInv'
<1> SUFFICES ASSUME PatcherTypeOK, FileInv, WholeInv, [PatcherNext]_patcherVars,
                    faults' = 0
             PROVE  WholeInv'
  BY DEF WholeInv
<1>1. ino \in Version /\ faults \in Nat /\ build \in Histories /\ disk \in [Version -> File]
  BY PatcherAssumption DEF PatcherTypeOK, Version
<1>2. ASSUME NEW p \in Launcher, Launch(p) PROVE WholeInv'
  <2>1. PICK where : Move(p, where)
    BY <1>2 DEF Launch
  <2> QED BY <1>2, <2>1, MoveWhole DEF Launch, Writes
<1>3. ASSUME NEW p \in Launcher, Read(p) PROVE WholeInv'
  <2>1. PICK where : Move(p, where)
    BY <1>3 DEF Read
  <2> QED BY <1>3, <2>1, MoveWhole DEF Read, Writes
<1>4. ASSUME NEW p \in Launcher, Backup(p) \/ Copy(p) \/ Touch(p) \/ Quit(p) PROVE WholeInv'
  <2>1. PICK where : Move(p, where)
    BY <1>4 DEF Backup, Copy, Touch, Quit
  <2>2. UNCHANGED <<disk, fd, faults>> /\ ~Writes(p)
    BY <1>4 DEF Backup, Copy, Touch, Quit, Writes
  <2> QED BY <2>1, <2>2, MoveWhole
<1>5. ASSUME NEW p \in Launcher, CopyOpen(p) \/ Exec(p) PROVE WholeInv'
  <2>1. PICK where : Move(p, where)
    BY <1>5 DEF CopyOpen, Exec
  <2>2. UNCHANGED <<disk, faults>> /\ ~Writes(p) /\ fd' = [fd EXCEPT ![p] = ino]
    BY <1>5 DEF CopyOpen, Exec, Writes
  <2>3. \A q \in Launcher \ {p} : fd'[q] = fd[q]
    BY <2>2 DEF PatcherTypeOK
  <2> QED BY <2>1, <2>2, <2>3, MoveWhole
<1>6. ASSUME NEW p \in Launcher, OpenTarget(p) PROVE WholeInv'
  <2>1. phase[p] = "open" /\ UNCHANGED faults
    BY <1>6 DEF OpenTarget
  <2>2. CASE Running(ino)
    BY <1>6, <2>1, <2>2, MoveWhole DEF OpenTarget, Writes
  <2>3. CASE ~Running(ino)
    <3>1. /\ \A q \in Launcher : phase'[q] = IF q = p THEN "head" ELSE phase[q]
          /\ \A q \in Launcher : fd'[q] = IF q = p THEN ino ELSE fd[q]
          /\ \A i \in Version : disk'[i] = IF i = ino THEN Empty ELSE disk[i]
      BY <1>1, <1>6, <2>3 DEF OpenTarget, PatcherTypeOK, Move
    <3>2. ASSUME NEW i \in Version
          PROVE  /\ disk'[i].head = Nothing => \E q \in Launcher : phase'[q] = "head" /\ fd'[q] = i
                 /\ disk'[i].tail = Nothing => \E q \in Launcher : Writes(q)' /\ fd'[q] = i
      <4>1. CASE i = ino
        BY <3>1, <4>1 DEF Writes
      <4>2. CASE i # ino
        <5>1. \A q \in Launcher : Writes(q) => phase'[q] = phase[q] /\ fd'[q] = fd[q]
          BY <2>1, <3>1 DEF Writes
        <5>2. disk'[i] = disk[i]
          BY <3>1, <4>2
        <5> QED BY <2>1, <5>1, <5>2 DEF WholeInv, Writes
      <4> QED BY <4>1, <4>2
    <3> QED BY <3>2 DEF WholeInv
  <2> QED BY <2>2, <2>3
<1>7. ASSUME NEW p \in Launcher, NEW piece \in {"head", "tail"}, Writes(p), Write(p, piece)
      PROVE  /\ faults = 0 /\ UNCHANGED fd /\ fd[p] \in Version
             /\ \A i \in Version : i # fd[p] => disk'[i] = disk[i]
             /\ piece = "head" => /\ disk'[fd[p]].head # Nothing
                                  /\ disk'[fd[p]].tail = disk[fd[p]].tail
             /\ piece = "tail" => /\ disk'[fd[p]].tail # Nothing
                                  /\ disk'[fd[p]].head = disk[fd[p]].head
  <2>1. /\ UNCHANGED <<fd, faults>> /\ fd[p] \in Version
        /\ \E v \in Version : mem[p] = Patched(v)
        /\ disk' = [disk EXCEPT ![fd[p]] = IF piece = "head"
                                            THEN [head |-> mem[p].head, tail |-> @.tail]
                                            ELSE [head |-> @.head, tail |-> mem[p].tail]]
    BY <1>7, WriteForm
  <2>2. mem[p].head # Nothing /\ mem[p].tail # Nothing
    BY <1>1, <2>1, PatchedType
  <2> QED BY <1>1, <2>1, <2>2
<1>8. ASSUME NEW p \in Launcher, WriteHead(p) PROVE WholeInv'
  <2>1. phase[p] = "head" /\ Writes(p) /\ Write(p, "head")
    BY <1>8 DEF WriteHead, Writes
  <2>2. \A q \in Launcher : phase'[q] = IF q = p THEN "tail" ELSE phase[q]
    BY <1>8 DEF WriteHead, PatcherTypeOK, Move
  <2>3. \A q \in Launcher : Writes(q) => Writes(q)'
    BY <2>2 DEF Writes
  <2> QED BY <1>7, <2>1, <2>2, <2>3 DEF WholeInv
<1>9. ASSUME NEW p \in Launcher, WriteTail(p) PROVE WholeInv'
  <2>1. phase[p] = "tail" /\ Writes(p) /\ Write(p, "tail")
    BY <1>9 DEF WriteTail, Writes
  <2>2. \A q \in Launcher : phase'[q] = IF q = p THEN "touch" ELSE phase[q]
    BY <1>9 DEF WriteTail, PatcherTypeOK, Move
  <2>3. \A q \in Launcher : q # p => (Writes(q)' <=> Writes(q))
    BY <2>2 DEF Writes
  <2> QED BY <1>7, <2>1, <2>2, <2>3 DEF WholeInv
<1>10. ASSUME NEW p \in Launcher, Kill(p) \/ Fail(p) PROVE WholeInv'
  BY <1>1, <1>10 DEF Kill, Fail
<1>11. CASE Download \/ Replace \/ UNCHANGED patcherVars
  <2>1. UNCHANGED <<disk, phase, fd, faults>>
    BY <1>11 DEF Download, Replace, patcherVars
  <2> QED BY <2>1 DEF WholeInv, Writes
<1> QED BY <1>2, <1>3, <1>4, <1>5, <1>6, <1>8, <1>9, <1>10, <1>11 DEF PatcherNext, Patcher

\* A launcher alone in the patcher that moves on without writing a file keeps what is
\* known of the files and of the backup.
LEMMA MoveAlone ==
  ASSUME PatcherTypeOK, PatcherTypeOK', Single, Single', OwnFiles, Joined,
         faults = 0 => BackupInv, faults <= 1 => LossInv,
         NEW p \in Launcher, NEW where \in Phases \ {"copying", "head", "tail"}, Move(p, where),
         phase[p] # "copying", UNCHANGED <<disk, bak, ino>>,
         \A q \in Launcher \ {p} : fd'[q] = fd[q] /\ mem'[q] = mem[q],
         where = "copy" => bak = Nothing,
         where = "open" /\ faults' = 0 => BakWhole,
         faults' = faults \/ faults' = faults + 1,
         Writes(p) /\ faults' <= 1 => BakWhole
  PROVE  AloneInv'
<1>1. \A q \in Launcher : phase'[q] = IF q = p THEN where ELSE phase[q]
  BY DEF PatcherTypeOK, Move
<1>2. /\ faults \in Int /\ faults >= 0 /\ (faults' = 0 => faults = 0)
      /\ (faults' <= 1 => faults <= 1)
  BY PatcherAssumption DEF PatcherTypeOK
<1>3. OwnFiles'
  BY <1>1 DEF OwnFiles
<1>4. Joined'
  BY DEF Joined, Whole
<1>5. (BakWhole' <=> BakWhole) /\ (Copying' <=> Copying)
  BY <1>1 DEF BakWhole, Whole, Copying
<1>6. ASSUME faults' = 0 PROVE BackupInv'
  <2>1. BackupInv
    BY <1>2, <1>6
  <2>2. \A q \in Launcher : phase'[q] = "open" \/ Writes(q)' => BakWhole'
    BY <1>1, <1>5, <1>6, <2>1 DEF BackupInv, Writes
  <2> QED BY <1>5, <2>1, <2>2 DEF BackupInv, Fresh
<1>7. ASSUME faults' <= 1 PROVE LossInv'
  <2>1. CASE BakWhole
    BY <1>5, <2>1 DEF LossInv
  <2>2. CASE ~BakWhole
    <3>1. /\ ~Writes(p)
          /\ \A i \in Version : Whole(disk[i]) \/ \E q \in Launcher : Writes(q) /\ fd[q] = i
      BY <1>2, <1>7, <2>2 DEF LossInv
    <3>2. \A q \in Launcher : Writes(q) => Writes(q)' /\ fd'[q] = fd[q]
      BY <1>1, <3>1 DEF Writes
    <3>3. \A i \in Version : Whole(disk[i])' \/ \E q \in Launcher : Writes(q)' /\ fd'[q] = i
      BY <3>1, <3>2 DEF Whole
    <3> QED BY <3>3 DEF LossInv
  <2> QED BY <2>1, <2>2
<1> QED BY <1>3, <1>4, <1>6, <1>7 DEF AloneInv

LEMMA AloneStep ==
  PatcherTypeOK /\ FileInv /\ AloneInv /\ PatcherTypeOK' /\ [PatcherNext]_patcherVars => AloneInv'
<1> SUFFICES ASSUME PatcherTypeOK, FileInv, AloneInv, PatcherTypeOK', [PatcherNext]_patcherVars,
                    ~overlapped'
             PROVE  AloneInv'
  BY DEF AloneInv
<1>1. /\ ino \in Version /\ ino \in Int /\ build \in Histories /\ disk \in [Version -> File]
      /\ faults \in Int /\ faults >= 0
      /\ \A i \in 1 .. ino : i \in Version
      /\ Nothing \notin File
  BY PatcherAssumption DEF PatcherTypeOK, Version
<1>2. ~overlapped
  BY DEF PatcherNext, patcherVars, Launch, Patcher, Read, Backup, CopyOpen, Copy, OpenTarget,
         WriteHead, WriteTail, Write, Touch, Exec, Quit, Kill, Fail, Download, Replace
<1>3. /\ Single /\ OwnFiles /\ Joined /\ (faults = 0 => BackupInv) /\ (faults <= 1 => LossInv)
  BY <1>2 DEF AloneInv
<1>4. ASSUME NEW p \in Launcher, NEW where, Move(p, where)
      PROVE  \A q \in Launcher : phase'[q] = IF q = p THEN where ELSE phase[q]
  BY <1>4 DEF PatcherTypeOK, Move
<1>5. ASSUME NEW p \in Launcher, NEW where, Move(p, where),
             Patching(p) \/ where \in {"idle", "exec", "running", "failed"}
      PROVE  Single'
  <2>1. \A q \in Launcher : Patching(q)' => Patching(q)
    BY <1>4, <1>5 DEF Patching
  <2> QED BY <1>3, <2>1 DEF Single
<1>6. \A p, q \in Launcher : Patching(p) /\ q # p =>
        /\ ~Writes(q) /\ phase[q] \notin {"open", "copy", "copying", "head", "tail"}
  BY <1>3 DEF Single, Patching, Writes
<1>7. ASSUME NEW p \in Launcher, Launch(p) PROVE AloneInv'
  <2>1. /\ UNCHANGED <<disk, ino, bak, mem, fd, faults>> /\ phase[p] = "idle"
    BY <1>7 DEF Launch
  <2>2. CASE Move(p, "exec")
    <3>1. Single'
      BY <1>5, <2>2
    <3> QED BY <1>1, <1>3, <2>1, <2>2, <3>1, MoveAlone DEF Phases, Writes
  <2>3. CASE Move(p, "read") /\ \A q \in Launcher : ~Patching(q)
    <3>1. Single'
      BY <1>4, <2>3 DEF Single, Patching
    <3> QED BY <1>1, <1>3, <2>1, <2>3, <3>1, MoveAlone DEF Phases, Writes
  <2> QED BY <1>7, <2>2, <2>3 DEF Launch
<1>8. ASSUME NEW p \in Launcher, Read(p) PROVE AloneInv'
  <2>1. /\ UNCHANGED <<disk, ino, bak, fd, faults>> /\ phase[p] = "read"
        /\ \A q \in Launcher \ {p} : mem'[q] = mem[q]
    BY <1>8 DEF Read, PatcherTypeOK
  <2>2. PICK where \in {"exec", "touch", "backup"} : Move(p, where)
    BY <1>8 DEF Read, AfterError
  <2>3. Single'
    BY <1>5, <2>1, <2>2 DEF Patching
  <2> QED BY <1>1, <1>3, <2>1, <2>2, <2>3, MoveAlone DEF Phases, Writes
<1>9. ASSUME NEW p \in Launcher, Backup(p) PROVE AloneInv'
  <2>1. UNCHANGED <<disk, ino, bak, mem, fd, faults>> /\ phase[p] = "backup" /\ Patching(p)
    BY <1>9 DEF Backup, Patching
  <2>2. CASE bak = Nothing
    <3>1. Move(p, "copy")
      BY <1>9, <2>2 DEF Backup, NeedsBackup
    <3>2. Single'
      BY <1>5, <2>1, <3>1
    <3> QED BY <1>1, <1>3, <2>1, <2>2, <3>1, <3>2, MoveAlone DEF Phases, Writes
  <2>3. CASE bak # Nothing
    <3>1. Move(p, "open")
      BY <1>9, <2>3 DEF Backup, NeedsBackup
    <3>2. Single'
      BY <1>5, <2>1, <3>1
    <3>3. ASSUME faults = 0 PROVE BakWhole
      <4>1. ~Copying
        BY <1>6, <2>1 DEF Copying
      <4>2. PICK v \in 1 .. ino : bak = Fresh(v)
        BY <1>3, <2>3, <3>3, <4>1 DEF BackupInv
      <4> QED BY <1>1, <2>3, <4>2, FreshType DEF BakWhole
    <3> QED BY <1>1, <1>3, <2>1, <3>1, <3>2, <3>3, MoveAlone DEF Phases, Writes
  <2> QED BY <2>2, <2>3
<1>10. ASSUME NEW p \in Launcher, CopyOpen(p) PROVE AloneInv'
  <2>1. /\ UNCHANGED <<build, disk, ino, mem, faults>> /\ phase[p] = "copy" /\ Patching(p)
        /\ Move(p, "copying") /\ bak' = Empty
        /\ \A q \in Launcher \ {p} : fd'[q] = fd[q]
    BY <1>10 DEF CopyOpen, Patching, PatcherTypeOK
  <2>2. Single'
    BY <1>5, <2>1
  <2>3. \A q \in Launcher : phase'[q] = IF q = p THEN "copying" ELSE phase[q]
    BY <1>4, <2>1
  <2>4. bak = Nothing
    BY <1>3, <2>1 DEF OwnFiles
  <2>5. OwnFiles'
    BY <1>6, <2>1, <2>3 DEF OwnFiles
  <2>6. Joined'
    BY <1>3, <2>1 DEF Joined, Whole
  <2>7. ASSUME faults' = 0 PROVE BackupInv'
    <3>1. Copying'
      BY <2>3 DEF Copying
    <3>2. \A i \in Version : disk'[i] = Fresh(i)
      BY <1>3, <2>1, <2>4, <2>7 DEF BackupInv
    <3>3. \A q \in Launcher : ~(phase'[q] = "open" \/ Writes(q)')
      BY <1>6, <2>1, <2>3 DEF Writes
    <3> QED BY <3>1, <3>2, <3>3 DEF BackupInv, Fresh
  <2>8. ASSUME faults' <= 1 PROVE LossInv'
    <3>1. ~BakWhole /\ \A q \in Launcher : ~Writes(q)
      BY <1>6, <2>1, <2>4 DEF BakWhole, Writes
    <3>2. \A i \in Version : Whole(disk[i])
      BY <1>3, <2>1, <2>8, <3>1 DEF LossInv
    <3> QED BY <2>1, <3>2 DEF LossInv, Whole
  <2> QED BY <2>2, <2>5, <2>6, <2>7, <2>8 DEF AloneInv
<1>11. ASSUME NEW p \in Launcher, Copy(p) PROVE AloneInv'
  <2>1. /\ UNCHANGED <<build, disk, ino, mem, fd, faults>> /\ phase[p] = "copying" /\ Patching(p)
        /\ Move(p, "open") /\ bak' = disk[fd[p]]
    BY <1>11 DEF Copy, CopyOf, Patching
  <2>2. Single'
    BY <1>5, <2>1
  <2>3. \A q \in Launcher : phase'[q] = IF q = p THEN "open" ELSE phase[q]
    BY <1>4, <2>1
  <2>4. fd[p] \in 1 .. ino /\ fd[p] \in Version /\ bak = Empty /\ bak' # Nothing
    <3>1. fd[p] \in 1 .. ino /\ bak = Empty
      BY <1>3, <2>1 DEF FileInv, OwnFiles
    <3> QED BY <1>1, <2>1, <3>1
  <2>5. OwnFiles'
    BY <1>6, <2>1, <2>3 DEF OwnFiles
  <2>6. Joined'
    BY <1>3, <2>1 DEF Joined, Whole
  <2>7. \A q \in Launcher : ~Writes(q) /\ phase'[q] # "copying"
    BY <1>6, <2>1, <2>3 DEF Writes
  <2>8. ASSUME faults' = 0 PROVE BackupInv'
    <3>1. bak' = Fresh(fd[p])
      <4>1. Copying
        BY <2>1 DEF Copying
      <4> QED BY <1>3, <2>1, <2>4, <2>8, <4>1 DEF BackupInv
    <3>2. BakWhole'
      <4>1. Whole(Fresh(fd[p]))
        BY <2>4, FreshType
      <4> QED BY <2>4, <3>1, <4>1 DEF BakWhole, Whole
    <3>3. ~Copying'
      BY <2>7 DEF Copying
    <3> QED BY <2>1, <2>4, <3>1, <3>2, <3>3 DEF BackupInv, Fresh
  <2>9. ASSUME faults' <= 1 PROVE LossInv'
    <3>1. ~BakWhole
      BY <1>1, <2>4, FreshType DEF BakWhole
    <3>2. \A i \in Version : Whole(disk[i])
      BY <1>3, <2>1, <2>7, <2>9, <3>1 DEF LossInv
    <3> QED BY <2>1, <3>2 DEF LossInv, Whole
  <2> QED BY <2>2, <2>5, <2>6, <2>8, <2>9 DEF AloneInv
<1>12. ASSUME NEW p \in Launcher, NEW where \in {"head", "tail", "touch"}, NEW i \in Version,
              phase[p] = "open" \/ (Writes(p) /\ fd[p] = i), Move(p, where),
              UNCHANGED <<build, ino, bak, mem, faults>>, fd'[p] = i,
              \A j \in Version \ {i} : disk'[j] = disk[j],
              where = "head" => disk'[i] = Empty,
              where = "tail" => disk'[i] = [head |-> mem[p].head, tail |-> Nothing],
              where = "touch" => Whole(disk'[i])
       PROVE  AloneInv'
  <2>1. Patching(p) /\ (Writes(p) => fd[p] = i)
    BY <1>12 DEF Patching, Writes
  <2>2. Single'
    BY <1>5, <1>12, <2>1
  <2>3. \A q \in Launcher : phase'[q] = IF q = p THEN where ELSE phase[q]
    BY <1>4, <1>12
  <2>4. OwnFiles'
    <3> SUFFICES ASSUME NEW q \in Launcher
                 PROVE  /\ phase'[q] = "copy" => bak' = Nothing
                        /\ phase'[q] = "copying" => bak' = Empty
                        /\ phase'[q] = "head" => disk'[fd'[q]] = Empty
                        /\ phase'[q] = "tail" =>
                             disk'[fd'[q]] = [head |-> mem'[q].head, tail |-> Nothing]
      BY DEF OwnFiles
    <3>1. CASE q = p
      BY <1>12, <2>3, <3>1
    <3>2. CASE q # p
      BY <1>6, <2>1, <2>3, <3>2
    <3> QED BY <3>1, <3>2
  <2>5. Joined'
    <3>1. where \in {"head", "tail"} => disk'[i].head = Nothing \/ disk'[i].tail = Nothing
      BY <1>12 DEF Empty
    <3>2. \A j \in Version : disk'[j].head # Nothing /\ disk'[j].tail # Nothing => Whole(disk'[j])
      BY <1>3, <1>12, <3>1 DEF Joined
    <3> QED BY <3>2 DEF Joined, Whole
  <2>6. BakWhole' <=> BakWhole
    BY <1>12 DEF BakWhole, Whole
  <2>7. ASSUME faults' = 0 PROVE BackupInv'
    <3>1. BakWhole /\ BackupInv
      BY <1>3, <1>12, <2>7 DEF BackupInv
    <3>2. ~Copying' /\ bak' # Nothing
      <4>1. \A q \in Launcher : phase'[q] # "copying"
        BY <1>6, <1>12, <2>1, <2>3
      <4> QED BY <1>12, <3>1, <4>1 DEF Copying, BakWhole
    <3>3. ~Copying
      <4>1. \A q \in Launcher : phase[q] # "copying"
        BY <1>6, <1>12, <2>1 DEF Writes
      <4> QED BY <4>1 DEF Copying
    <3>4. \E v \in 1 .. ino' : bak' = Fresh(v)'
      BY <1>12, <3>1, <3>2, <3>3 DEF BackupInv, Fresh
    <3> QED BY <2>6, <3>1, <3>2, <3>4 DEF BackupInv
  <2>8. ASSUME faults' <= 1, ~BakWhole PROVE LossInv'
    <3>1. \A j \in Version \ {i} : Whole(disk[j])
      BY <1>3, <1>6, <1>12, <2>1, <2>8 DEF LossInv
    <3>2. \A j \in Version : Whole(disk'[j]) \/ \E q \in Launcher : Writes(q)' /\ fd'[q] = j
      <4> TAKE j \in Version
      <4>1. CASE j # i
        BY <1>12, <3>1, <4>1
      <4>2. CASE j = i
        BY <1>12, <2>3, <4>2 DEF Writes
      <4> QED BY <4>1, <4>2
    <3> QED BY <3>2 DEF LossInv, Whole
  <2>9. faults' <= 1 => LossInv'
    <3>1. BakWhole => LossInv'
      BY <2>6 DEF LossInv
    <3> QED BY <2>8, <3>1
  <2> QED BY <2>2, <2>4, <2>5, <2>7, <2>9 DEF AloneInv
<1>13. ASSUME NEW p \in Launcher, OpenTarget(p) PROVE AloneInv'
  <2>1. /\ UNCHANGED <<build, ino, bak, mem, faults>> /\ phase[p] = "open"
    BY <1>13 DEF OpenTarget
  <2>2. CASE Running(ino)
    <3>1. Move(p, "exec") /\ UNCHANGED <<disk, fd>>
      BY <1>13, <2>2 DEF OpenTarget, AfterError
    <3>2. Single'
      BY <1>5, <3>1
    <3> QED BY <1>1, <1>3, <2>1, <3>1, <3>2, MoveAlone DEF Phases, Writes
  <2>3. CASE ~Running(ino)
    <3>1. /\ Move(p, "head") /\ fd'[p] = ino /\ disk'[ino] = Empty
          /\ \A j \in Version \ {ino} : disk'[j] = disk[j]
      BY <1>1, <1>13, <2>3 DEF OpenTarget, PatcherTypeOK
    <3> QED BY <1>1, <1>12, <2>1, <3>1
  <2> QED BY <2>2, <2>3
<1>14. ASSUME NEW p \in Launcher, NEW piece \in {"head", "tail"}, Writes(p), Write(p, piece)
       PROVE  /\ UNCHANGED <<build, ino, bak, mem, fd, faults>> /\ fd[p] \in Version
              /\ \A j \in Version \ {fd[p]} : disk'[j] = disk[j]
              /\ \E v \in Version : mem[p] = Patched(v)
              /\ disk'[fd[p]] = IF piece = "head"
                                  THEN [head |-> mem[p].head, tail |-> disk[fd[p]].tail]
                                  ELSE [head |-> disk[fd[p]].head, tail |-> mem[p].tail]
  <2>1. /\ UNCHANGED <<build, ino, bak, mem, fd, faults>> /\ fd[p] \in Version
        /\ \E v \in Version : mem[p] = Patched(v)
        /\ disk' = [disk EXCEPT ![fd[p]] = IF piece = "head"
                                            THEN [head |-> mem[p].head, tail |-> @.tail]
                                            ELSE [head |-> @.head, tail |-> mem[p].tail]]
    BY <1>14, WriteForm
  <2> QED BY <1>1, <2>1
<1>15. ASSUME NEW p \in Launcher, WriteHead(p) PROVE AloneInv'
  <2>1. phase[p] = "head" /\ Writes(p) /\ Write(p, "head") /\ Move(p, "tail")
    BY <1>15 DEF WriteHead, Writes
  <2>2. disk[fd[p]] = Empty
    BY <1>3, <2>1 DEF OwnFiles
  <2>3. disk'[fd[p]] = [head |-> mem[p].head, tail |-> Nothing]
    <3>1. disk'[fd[p]] = [head |-> mem[p].head, tail |-> disk[fd[p]].tail]
      BY <1>14, <2>1
    <3>2. Empty.tail = Nothing
      BY DEF Empty
    <3> QED BY <2>2, <3>1, <3>2
  <2>4. /\ UNCHANGED <<build, ino, bak, mem, fd, faults>> /\ fd[p] \in Version
        /\ \A j \in Version \ {fd[p]} : disk'[j] = disk[j]
    BY <1>14, <2>1
  <2> QED BY <1>12, <2>1, <2>3, <2>4
<1>16. ASSUME NEW p \in Launcher, WriteTail(p) PROVE AloneInv'
  <2>1. phase[p] = "tail" /\ Writes(p) /\ Write(p, "tail") /\ Move(p, "touch")
    BY <1>16 DEF WriteTail, Writes
  <2>2. disk[fd[p]] = [head |-> mem[p].head, tail |-> Nothing]
    BY <1>3, <2>1 DEF OwnFiles
  <2>3. disk'[fd[p]] = [head |-> mem[p].head, tail |-> mem[p].tail]
    BY <1>14, <2>1, <2>2
  <2>4. Whole(disk'[fd[p]])
    <3>1. PICK v \in Version : mem[p] = Patched(v)
      BY <1>14, <2>1
    <3> QED BY <1>1, <2>3, <3>1, PatchedType DEF Whole
  <2> QED BY <1>12, <1>14, <2>1, <2>4
<1>17. ASSUME NEW p \in Launcher, Touch(p) \/ Exec(p) \/ Quit(p) PROVE AloneInv'
  <2>1. /\ UNCHANGED <<disk, ino, bak, mem, faults>>
        /\ \A q \in Launcher \ {p} : fd'[q] = fd[q]
    BY <1>17 DEF Touch, Exec, Quit, PatcherTypeOK
  <2>2. phase[p] # "copying" /\ ~Writes(p)
    BY <1>17 DEF Touch, Exec, Quit, Writes
  <2>3. PICK where \in {"idle", "exec", "running", "failed"} : Move(p, where)
    BY <1>17 DEF Touch, Exec, Quit
  <2>4. Single'
    BY <1>5, <2>3
  <2> QED BY <1>1, <1>3, <2>1, <2>2, <2>3, <2>4, MoveAlone DEF Phases
<1>18. ASSUME NEW p \in Launcher, Kill(p) \/ Fail(p) PROVE AloneInv'
  <2>1. UNCHANGED <<build, disk, ino, bak, mem, fd>> /\ faults' = faults + 1 /\ Launching(p)
    BY <1>18 DEF Kill, Fail, Launching, Patching
  <2>2. PICK where \in {"idle", "exec"} : Move(p, where)
    BY <1>18 DEF Kill, Fail, AfterError
  <2>3. Single'
    BY <1>5, <2>2
  <2>4. \A q \in Launcher : phase'[q] = IF q = p THEN where ELSE phase[q]
    BY <1>4, <2>2
  <2>5. OwnFiles'
    BY <1>3, <2>1, <2>4 DEF OwnFiles
  <2>6. Joined'
    BY <1>3, <2>1 DEF Joined, Whole
  <2>7. faults' # 0 /\ (faults' <= 1 => faults = 0)
    BY <1>1, <2>1
  <2>8. ASSUME faults' <= 1 PROVE LossInv'
    <3>1. BackupInv /\ LossInv
      BY <1>1, <1>3, <2>7, <2>8
    <3>2. BakWhole' <=> BakWhole
      BY <2>1 DEF BakWhole, Whole
    <3>3. CASE ~BakWhole
      <4>1. ~Writes(p)
        BY <3>1, <3>3 DEF BackupInv
      <4>2. \A q \in Launcher : Writes(q) => Writes(q)' /\ fd'[q] = fd[q]
        BY <2>1, <2>4, <4>1 DEF Writes
      <4>3. \A i \in Version : Whole(disk[i]) \/ \E q \in Launcher : Writes(q) /\ fd[q] = i
        BY <3>1, <3>3 DEF LossInv
      <4>4. \A i \in Version : Whole(disk'[i]) \/ \E q \in Launcher : Writes(q)' /\ fd'[q] = i
        BY <2>1, <4>2, <4>3
      <4> QED BY <4>4 DEF LossInv, Whole
    <3> QED BY <3>2, <3>3 DEF LossInv
  <2> QED BY <2>3, <2>5, <2>6, <2>7, <2>8 DEF AloneInv
<1>19. CASE Download \/ Replace \/ UNCHANGED patcherVars
  <2>1. /\ UNCHANGED <<build, disk, bak, phase, mem, fd, faults>> /\ ino' \in {ino, ino + 1}
    BY <1>19 DEF Download, Replace, patcherVars
  <2>2. Single' /\ OwnFiles' /\ Joined'
    BY <1>3, <2>1 DEF Single, Patching, OwnFiles, Joined, Whole
  <2>3. faults' <= 1 => LossInv'
    BY <1>3, <2>1 DEF LossInv, BakWhole, Whole, Writes
  <2>4. \A v \in 1 .. ino : v \in 1 .. ino'
    BY <1>1, <2>1
  <2>5. faults' = 0 => BackupInv'
    BY <1>3, <2>1, <2>4 DEF BackupInv, BakWhole, Whole, Writes, Copying, Fresh
  <2> QED BY <2>2, <2>3, <2>5 DEF AloneInv
<1> QED BY <1>7, <1>8, <1>9, <1>10, <1>11, <1>13, <1>15, <1>16, <1>17, <1>18, <1>19
        DEF PatcherNext, Patcher

-----------------------------------------------------------------------------
(* The first original *)

\* The patcher that has something to do makes no original.
LEMMA PatchIsNoOriginal ==
  ASSUME build \in Histories, NEW f \in File, f.head # Nothing, PatchOf(f) # f,
         NEW i \in Version
  PROVE  PatchOf(f) # Fresh(i)
<1> DEFINE e == FindEpilogue(build[f.head.v].near)
<1>1. f.head \in Head /\ Fresh(i).head.jump = 0 /\ Fresh(i).tail.required = TRUE
  BY DEF File, Fresh
<1>2. CASE SignaturePatch(f) # f
  <2>1. SignaturePatch(f) = [f EXCEPT !.head.jump = e] /\ f.head.jump = 0
    BY <1>2 DEF SignaturePatch
  <2>2. PatchOf(f) = SignaturePatch(f)
    BY <1>2 DEF PatchOf
  <2> HIDE DEF e
  <2>3. e # 0
    <3>1. SUFFICES ASSUME e = 0 PROVE [f EXCEPT !.head.jump = e] = f
      BY <1>2, <2>1
    <3>2. f.head = [v |-> f.head.v, jump |-> 0] /\ f = [head |-> f.head, tail |-> f.tail]
      BY <1>1, <2>1 DEF Head, File
    <3> QED BY <3>1, <3>2
  <2>4. [f EXCEPT !.head.jump = e].head.jump = e
    BY <1>1 DEF File, Head
  <2> QED BY <1>1, <2>1, <2>2, <2>3, <2>4
<1>3. CASE SignaturePatch(f) = f
  <2>1. PatchOf(f) = LegacyPatch(f) /\ LegacyPatch(f) # f
    BY <1>3 DEF PatchOf
  <2>2. LegacyPatch(f) = [f EXCEPT !.tail.required = FALSE] /\ f.tail # Nothing
    BY <2>1 DEF LegacyPatch, Whole
  <2>3. [f EXCEPT !.tail.required = FALSE].tail.required = FALSE
    BY <2>2 DEF File, Tail
  <2> QED BY <1>1, <2>1, <2>2, <2>3
<1> QED BY <1>2, <1>3

\* A step of the launcher p that rewrites no other build and leaves the backup alone.
LEMMA MoveOriginal ==
  ASSUME PatcherTypeOK, OriginalInv, ~overlapped, NEW p \in Launcher, NEW where, Move(p, where),
         UNCHANGED <<bak, ino, raced>>, Rewritten' = Rewritten,
         faults' = faults \/ faults' > 0, faults > 0 => faults' > 0,
         where # "copying", phase[p] = "copying" => faults' > 0,
         phase[p] = "open" => faults' > 0 \/ ino \in Rewritten,
         where \in {"open", "head", "tail"} => bak # Nothing,
         where \in {"backup", "copy", "open", "head", "tail"} =>
           \A i \in Version : mem'[p] # Fresh(i),
         \A q \in Launcher \ {p} : fd'[q] = fd[q] /\ mem'[q] = mem[q]
  PROVE  OriginalInv'
<1>1. \A q \in Launcher : phase'[q] = IF q = p THEN where ELSE phase[q]
  BY DEF PatcherTypeOK, Move
<1>2. Copying' => Copying
  BY <1>1 DEF Copying
<1>3. Copying => Copying' \/ faults' > 0
  BY <1>1 DEF Copying
<1>4. bak' = Nothing \/ Copying' => Rewritten' = {}
  BY <1>2 DEF OriginalInv
<1>5. bak' = Empty => Copying' \/ faults' > 0
  BY <1>3 DEF OriginalInv
<1>6. ASSUME bak \notin {Nothing, Empty}
      PROVE  \E v \in 1 .. ino' : bak' = Fresh(v) /\ Oldest(v)'
  <2>1. PICK v \in 1 .. ino : bak = Fresh(v) /\ Oldest(v)
    BY <1>6 DEF OriginalInv
  <2>2. ASSUME v = ino, NEW q \in Launcher, phase[q] = "open"
        PROVE  v \in Rewritten' \/ faults' > 0 \/ phase'[q] = "open"
    BY <1>1, <2>2
  <2>3. Oldest(v)'
    BY <2>1, <2>2 DEF Oldest
  <2> QED BY <2>1, <2>3
<1>7. ASSUME NEW q \in Launcher
      PROVE  /\ phase'[q] = "copying" => raced' \/ fd'[q] = ino'
             /\ phase'[q] \in {"open", "head", "tail"} => bak' # Nothing
             /\ Prepared(q)' => \A i \in Version : mem'[q] # Fresh(i)
  <2>1. CASE q = p
    BY <1>1, <2>1 DEF Prepared
  <2>2. CASE q # p
    BY <1>1, <2>2 DEF OriginalInv, Prepared
  <2> QED BY <2>1, <2>2
<1>8. Nothing' = Nothing /\ Empty' = Empty /\ \A v : Fresh(v)' = Fresh(v)
  BY DEF Empty, Fresh
<1> QED BY <1>4, <1>5, <1>6, <1>7, <1>8 DEF OriginalInv, Fresh, Empty, Version

LEMMA OriginalStep ==
  PatcherTypeOK /\ FileInv /\ AloneInv /\ OriginalInv /\ PatcherTypeOK'
  /\ [PatcherNext]_patcherVars => OriginalInv'
<1> SUFFICES ASSUME PatcherTypeOK, FileInv, AloneInv, OriginalInv, PatcherTypeOK',
                    [PatcherNext]_patcherVars, ~overlapped'
             PROVE  OriginalInv'
  BY DEF OriginalInv
<1>1. /\ ino \in Version /\ ino \in Int /\ build \in Histories /\ disk \in [Version -> File]
      /\ faults \in Int /\ faults >= 0 /\ ino \in 1 .. ino
      /\ \A i \in 1 .. ino : i \in Version
  BY PatcherAssumption DEF PatcherTypeOK, Version
<1>2. ~overlapped
  BY DEF PatcherNext, patcherVars, Launch, Patcher, Read, Backup, CopyOpen, Copy, OpenTarget,
         WriteHead, WriteTail, Write, Touch, Exec, Quit, Kill, Fail, Download, Replace
<1>3. Single /\ OwnFiles
  BY <1>2 DEF AloneInv
<1>4. \A p, q \in Launcher : Patching(p) /\ q # p =>
        phase[q] \notin {"open", "copy", "copying", "head", "tail"}
  BY <1>3 DEF Single, Patching
<1>5. ASSUME disk' = disk PROVE Rewritten' = Rewritten
  BY <1>5 DEF Rewritten, Fresh
<1>6. ASSUME NEW i \in Version, \A j \in Version \ {i} : disk'[j] = disk[j],
             disk'[i] # Fresh(i)
      PROVE  Rewritten' = Rewritten \cup {i}
  BY <1>6 DEF Rewritten, Fresh, Version
<1>7. ASSUME NEW p \in Launcher, Launch(p) \/ Touch(p) \/ Exec(p) \/ Quit(p)
      PROVE  OriginalInv'
  <2>1. /\ UNCHANGED <<disk, ino, bak, mem, faults, raced>>
        /\ \A q \in Launcher \ {p} : fd'[q] = fd[q]
        /\ phase[p] \notin {"open", "copying"}
    BY <1>7 DEF Launch, Touch, Exec, Quit, PatcherTypeOK
  <2>2. PICK where \in {"read", "idle", "exec", "running", "failed"} : Move(p, where)
    BY <1>7 DEF Launch, Touch, Exec, Quit
  <2> QED BY <1>2, <1>5, <2>1, <2>2, MoveOriginal
<1>8. ASSUME NEW p \in Launcher, Read(p) PROVE OriginalInv'
  <2>1. /\ UNCHANGED <<disk, ino, bak, fd, faults, raced>> /\ phase[p] = "read"
        /\ \A q \in Launcher \ {p} : mem'[q] = mem[q]
    BY <1>8 DEF Read, PatcherTypeOK
  <2>2. CASE Move(p, "exec") \/ Move(p, "touch")
    BY <1>2, <1>5, <2>1, <2>2, MoveOriginal
  <2>3. CASE Move(p, "backup") /\ Real.head # Nothing /\ PatchOf(Real) # Real
             /\ mem'[p] = PatchOf(Real)
    <3>1. Real \in File
      BY <1>1 DEF Real
    <3>2. \A i \in Version : mem'[p] # Fresh(i)
      BY <1>1, <2>3, <3>1, PatchIsNoOriginal
    <3> QED BY <1>2, <1>5, <2>1, <2>3, <3>2, MoveOriginal
  <2> QED BY <1>8, <2>2, <2>3 DEF Read, AfterError, PatcherTypeOK
<1>9. ASSUME NEW p \in Launcher, Backup(p) PROVE OriginalInv'
  <2>1. /\ UNCHANGED <<disk, ino, bak, mem, fd, faults, raced>> /\ phase[p] = "backup"
        /\ Move(p, IF bak = Nothing THEN "copy" ELSE "open")
    BY <1>9 DEF Backup, NeedsBackup
  <2>2. \A i \in Version : mem'[p] # Fresh(i)
    BY <1>2, <2>1 DEF OriginalInv, Prepared
  <2> QED BY <1>2, <1>5, <2>1, <2>2, MoveOriginal
<1>10. ASSUME NEW p \in Launcher, CopyOpen(p) PROVE OriginalInv'
  <2>1. /\ UNCHANGED <<disk, ino, mem, faults, raced>> /\ phase[p] = "copy" /\ Patching(p)
        /\ Move(p, "copying") /\ bak' = Empty /\ fd'[p] = ino
        /\ \A q \in Launcher \ {p} : fd'[q] = fd[q]
    BY <1>10 DEF CopyOpen, Patching, PatcherTypeOK
  <2>2. \A q \in Launcher : phase'[q] = IF q = p THEN "copying" ELSE phase[q]
    BY <2>1 DEF PatcherTypeOK, Move
  <2>3. Rewritten' = {} /\ Copying'
    <3>1. bak = Nothing
      BY <1>3, <2>1 DEF OwnFiles
    <3> QED BY <1>2, <1>5, <2>1, <2>2, <3>1 DEF OriginalInv, Copying
  <2>4. Empty' = Empty
    BY DEF Empty
  <2>5. ASSUME NEW q \in Launcher
        PROVE  /\ phase'[q] = "copying" => raced' \/ fd'[q] = ino'
               /\ phase'[q] \notin {"open", "head", "tail"}
               /\ Prepared(q)' => \A i \in Version : mem'[q] # Fresh(i)
    <3>1. CASE q = p
      BY <1>2, <2>1, <2>2, <3>1 DEF OriginalInv, Prepared
    <3>2. CASE q # p
      BY <1>2, <1>4, <2>1, <2>2, <3>2 DEF OriginalInv, Prepared
    <3> QED BY <3>1, <3>2
  <2> QED BY <2>1, <2>3, <2>4, <2>5 DEF OriginalInv, Fresh, Version
<1>11. ASSUME NEW p \in Launcher, Copy(p) PROVE OriginalInv'
  <2>1. /\ UNCHANGED <<disk, ino, mem, fd, faults, raced>> /\ phase[p] = "copying"
        /\ Patching(p) /\ Move(p, "open") /\ bak' = disk[fd[p]]
    BY <1>11 DEF Copy, CopyOf, Patching
  <2>2. \A q \in Launcher : phase'[q] = IF q = p THEN "open" ELSE phase[q]
    BY <2>1 DEF PatcherTypeOK, Move
  <2>3. Rewritten = {} /\ Rewritten' = {}
    BY <1>2, <1>5, <2>1 DEF OriginalInv, Copying
  <2>4. fd[p] \in 1 .. ino /\ fd[p] \in Version
    BY <1>1, <2>1 DEF FileInv
  <2>5. bak' = Fresh(fd[p]) /\ bak' # Nothing /\ bak' # Empty
    <3>1. bak' = Fresh(fd[p])
      BY <2>1, <2>3, <2>4 DEF Rewritten, Version
    <3> QED BY <2>4, <3>1, FreshType, PatcherAssumption
  <2>6. Oldest(fd[p])'
    <3>1. raced \/ fd[p] = ino
      BY <1>2, <2>1 DEF OriginalInv
    <3> QED BY <2>1, <2>2, <2>3, <3>1 DEF Oldest
  <2>7. ~Copying'
    BY <1>4, <2>1, <2>2 DEF Copying
  <2>8. ASSUME NEW q \in Launcher
        PROVE  Prepared(q)' => \A i \in Version : mem'[q] # Fresh(i)
    BY <1>2, <2>1, <2>2 DEF OriginalInv, Prepared
  <2>9. \E v \in 1 .. ino' : bak' = Fresh(v)' /\ Oldest(v)'
    BY <2>1, <2>4, <2>5, <2>6 DEF Fresh
  <2>10. bak' # Nothing /\ bak' # Empty' /\ \A q \in Launcher : phase'[q] # "copying"
    BY <1>4, <2>1, <2>2, <2>5 DEF Empty
  <2> QED BY <2>7, <2>8, <2>9, <2>10 DEF OriginalInv, Fresh, Version
<1>12. ASSUME NEW p \in Launcher, OpenTarget(p) PROVE OriginalInv'
  <2>1. /\ UNCHANGED <<ino, bak, mem, faults, raced>> /\ phase[p] = "open" /\ Patching(p)
        /\ \A q \in Launcher \ {p} : fd'[q] = fd[q]
    BY <1>12 DEF OpenTarget, Patching, PatcherTypeOK
  <2>2. CASE Running(ino)
    <3>1. ino \in Rewritten
      <4>1. disk[ino] # Fresh(ino)
        BY <1>1, <2>2, ServedRuns DEF Running, FileInv
      <4> QED BY <1>1, <4>1 DEF Rewritten, Version
    <3>2. Move(p, "exec") /\ disk' = disk
      BY <1>12, <2>2 DEF OpenTarget, AfterError
    <3> QED BY <1>2, <1>5, <2>1, <3>1, <3>2, MoveOriginal
  <2>3. CASE ~Running(ino)
    <3>1. /\ Move(p, "head") /\ disk'[ino] = Empty
          /\ \A j \in Version \ {ino} : disk'[j] = disk[j]
      BY <1>1, <1>12, <2>3 DEF OpenTarget, PatcherTypeOK
    <3>2. \A q \in Launcher : phase'[q] = IF q = p THEN "head" ELSE phase[q]
      BY <3>1 DEF PatcherTypeOK, Move
    <3>3. Rewritten' = Rewritten \cup {ino}
      <4>1. disk'[ino] # Fresh(ino)
        BY <1>1, <3>1, FreshType
      <4> QED BY <1>1, <1>6, <3>1, <4>1
    <3>4. bak # Nothing /\ ~Copying /\ ~Copying'
      BY <1>2, <1>4, <2>1, <3>2 DEF OriginalInv, Copying
    <3>5. bak = Empty => faults > 0
      BY <1>2, <3>4 DEF OriginalInv
    <3>6. ASSUME bak # Empty PROVE \E v \in 1 .. ino' : bak' = Fresh(v)' /\ Oldest(v)'
      <4>1. PICK v \in 1 .. ino : bak = Fresh(v) /\ Oldest(v)
        BY <1>2, <3>4, <3>6 DEF OriginalInv
      <4>2. \A w \in Rewritten' : v <= w
        BY <3>3, <4>1 DEF Oldest
      <4>3. v \in Rewritten' \/ raced' \/ faults' > 0
        BY <2>1, <3>3, <4>1 DEF Oldest
      <4> QED BY <2>1, <4>1, <4>2, <4>3 DEF Oldest, Fresh
    <3>7. ASSUME NEW q \in Launcher
          PROVE  /\ phase'[q] # "copying"
                 /\ Prepared(q)' => \A i \in Version : mem'[q] # Fresh(i)
      BY <1>2, <1>4, <2>1, <3>2 DEF OriginalInv, Prepared
    <3>8. Empty' = Empty
      BY DEF Empty
    <3> QED BY <2>1, <3>4, <3>5, <3>6, <3>7, <3>8 DEF OriginalInv, Fresh, Version
  <2> QED BY <2>2, <2>3
<1>13. ASSUME NEW p \in Launcher, NEW piece \in {"head", "tail"}, phase[p] = piece,
              Write(p, piece), Move(p, IF piece = "head" THEN "tail" ELSE "touch")
       PROVE  OriginalInv'
  <2>1. /\ fd[p] \in Version /\ Writes(p) /\ UNCHANGED <<ino, bak, mem, fd, faults, raced>>
        /\ \E v \in Version : mem[p] = Patched(v)
        /\ disk' = [disk EXCEPT ![fd[p]] = IF piece = "head"
                                            THEN [head |-> mem[p].head, tail |-> @.tail]
                                            ELSE [head |-> @.head, tail |-> mem[p].tail]]
    BY <1>13, WriteForm DEF Writes
  <2>2. \A j \in Version \ {fd[p]} : disk'[j] = disk[j]
    BY <1>1, <2>1
  <2>3. disk[fd[p]] # Fresh(fd[p]) /\ disk'[fd[p]] # Fresh(fd[p])
    <3>1. Fresh(fd[p]).tail # Nothing /\ Empty # Fresh(fd[p]) /\ Empty.tail = Nothing
      BY <2>1, FreshType DEF Whole, Empty
    <3>2. CASE piece = "head"
      <4>1. disk[fd[p]] = Empty
        BY <1>3, <1>13, <3>2 DEF OwnFiles
      <4>2. disk'[fd[p]] = [head |-> mem[p].head, tail |-> Empty.tail]
        BY <1>1, <2>1, <3>2, <4>1
      <4>3. disk'[fd[p]].tail = Nothing
        BY <3>1, <4>2
      <4> QED BY <3>1, <4>1, <4>3
    <3>3. CASE piece = "tail"
      <4>1. disk[fd[p]] = [head |-> mem[p].head, tail |-> Nothing]
        BY <1>3, <1>13, <3>3 DEF OwnFiles
      <4>2. disk'[fd[p]] = [head |-> mem[p].head, tail |-> mem[p].tail]
        BY <1>1, <2>1, <3>3, <4>1
      <4>3. mem[p] = [head |-> mem[p].head, tail |-> mem[p].tail]
        BY <1>1, <2>1, PatchedType
      <4>4. mem[p] # Fresh(fd[p])
        BY <1>2, <2>1 DEF OriginalInv, Prepared, Writes
      <4> QED BY <3>1, <4>1, <4>2, <4>3, <4>4
    <3> QED BY <3>2, <3>3
  <2>4. Rewritten' = Rewritten
    <3>1. fd[p] \in Rewritten
      BY <2>1, <2>3 DEF Rewritten, Version
    <3> QED BY <1>6, <2>1, <2>2, <2>3, <3>1
  <2>5. bak # Nothing /\ \A i \in Version : mem'[p] # Fresh(i)
    BY <1>2, <1>13, <2>1 DEF OriginalInv, Prepared
  <2>6. phase[p] \notin {"open", "copying"}
    BY <1>13
  <2> QED BY <1>2, <1>13, <2>1, <2>4, <2>5, <2>6, MoveOriginal
<1>14. ASSUME NEW p \in Launcher, Kill(p) \/ Fail(p) PROVE OriginalInv'
  <2>1. UNCHANGED <<disk, ino, bak, mem, fd, raced>> /\ faults' = faults + 1
    BY <1>14 DEF Kill, Fail
  <2>2. PICK where \in {"idle", "exec"} : Move(p, where)
    BY <1>14 DEF Kill, Fail, AfterError
  <2>3. faults' > 0
    BY <1>1, <2>1
  <2> QED BY <1>2, <1>5, <2>1, <2>2, <2>3, MoveOriginal
<1>15. CASE Download \/ Replace \/ UNCHANGED patcherVars
  <2>1. /\ UNCHANGED <<disk, bak, phase, mem, fd, faults>>
        /\ \/ raced' = raced /\ ino' = ino
           \/ /\ ino' = ino + 1 /\ (raced => raced')
              /\ \A q \in Launcher : phase[q] \in {"open", "copying"} => raced'
    <3>1. CASE Download
      BY <3>1 DEF Download
    <3>2. CASE Replace
      <4>1. ASSUME NEW q \in Launcher, phase[q] \in {"open", "copying"} PROVE raced'
        BY <3>2, <4>1 DEF Replace, Patching, Launching
      <4> QED BY <3>2, <4>1 DEF Replace
    <3>3. CASE UNCHANGED patcherVars
      BY <3>3 DEF patcherVars
    <3> QED BY <1>15, <3>1, <3>2, <3>3
  <2>2. Rewritten' = Rewritten /\ (Copying' <=> Copying)
    BY <1>5, <2>1 DEF Copying
  <2>3. ASSUME bak \notin {Nothing, Empty}
        PROVE  \E v \in 1 .. ino' : bak' = Fresh(v)' /\ Oldest(v)'
    <3>1. PICK v \in 1 .. ino : bak = Fresh(v) /\ Oldest(v)
      BY <1>2, <2>3 DEF OriginalInv
    <3>2. v \in 1 .. ino'
      BY <1>1, <2>1
    <3> QED BY <2>1, <2>2, <3>1, <3>2 DEF Oldest, Fresh
  <2>4. ASSUME NEW q \in Launcher
        PROVE  /\ phase'[q] = "copying" => raced' \/ fd'[q] = ino'
               /\ phase'[q] \in {"open", "head", "tail"} => bak' # Nothing
               /\ Prepared(q)' => \A i \in Version : mem'[q] # Fresh(i)
    BY <1>2, <2>1 DEF OriginalInv, Prepared
  <2>5. Empty' = Empty
    BY DEF Empty
  <2>6. /\ bak' = Nothing \/ Copying' => Rewritten' = {}
        /\ bak' = Empty => Copying' \/ faults' > 0
    BY <1>2, <2>1, <2>2 DEF OriginalInv
  <2> QED BY <2>1, <2>3, <2>4, <2>5, <2>6 DEF OriginalInv, Fresh, Version
<1> QED BY <1>7, <1>8, <1>9, <1>10, <1>11, <1>12, <1>13, <1>14, <1>15
        DEF PatcherNext, Patcher, WriteHead, WriteTail

-----------------------------------------------------------------------------
(* The invariant *)

LEMMA PatcherStart == PatcherInit => PatcherInv
<1> SUFFICES ASSUME PatcherInit PROVE PatcherInv
  OBVIOUS
<1> USE PatcherAssumption DEF PatcherInit
<1>1. \A i \in Version : /\ disk[i] = Fresh(i) /\ disk[i] \in File /\ Whole(disk[i])
                         /\ disk[i].head # Nothing /\ disk[i].tail # Nothing
  BY FreshType DEF Version
<1>2. \A p \in Launcher : phase[p] = "idle"
  OBVIOUS
<1>3. ino = 1 /\ 1 \in Version /\ faults = 0 /\ bak = Nothing /\ ~marked /\ staged = "none"
  BY DEF Version
<1>4. PatcherTypeOK
  <2>1. disk \in [1 .. Versions -> File]
    BY <1>1 DEF Version
  <2>2. mem \in [Launcher -> File]
    BY <1>3, FreshType
  <2>3. fd \in [Launcher -> 0 .. Versions] /\ phase \in [Launcher -> Phases]
    BY DEF Phases
  <2>4. launches \in 0 .. MaxLaunches /\ faults \in 0 .. MaxFaults /\ ino \in 1 .. Versions
    OBVIOUS
  <2> QED BY <2>1, <2>2, <2>3, <2>4 DEF PatcherTypeOK
<1>5. FileInv
  BY <1>1, <1>2, <1>3 DEF FileInv, Prepared, Writes
<1>6. CalmInv
  BY <1>1, <1>2, <1>3 DEF CalmInv, Prepared, Writes
<1>7. WholeInv
  BY <1>1 DEF WholeInv
<1>8. AloneInv
  BY <1>1, <1>2, <1>3 DEF AloneInv, Single, Patching, OwnFiles, Joined, BackupInv, LossInv, Writes,
                          Copying
<1>9. OriginalInv
  <2>1. Nothing # Empty
    BY DEF Empty, File
  <2>2. Rewritten = {} /\ ~Copying
    BY <1>1, <1>2 DEF Rewritten, Version, Copying
  <2> QED BY <1>2, <1>3, <2>1, <2>2 DEF OriginalInv, Prepared
<1> QED BY <1>4, <1>5, <1>6, <1>7, <1>8, <1>9 DEF PatcherInv

LEMMA PatcherInvariance == PatcherSpec => []PatcherInv
<1>1. PatcherInv /\ [PatcherNext]_patcherVars => PatcherInv'
  BY PatcherTypeStep, FileStep, CalmStep, WholeStep, AloneStep, OriginalStep DEF PatcherInv
<1> QED BY <1>1, PatcherStart, PTL DEF PatcherSpec

-----------------------------------------------------------------------------
(* Theorems *)

\* Every file stays of the builds there are, every launcher in a phase of the wrapper
\* or the patcher, and launches and faults within their bounds.
THEOREM PatcherTypes == PatcherSpec => []PatcherTypeOK
<1>1. PatcherInv => PatcherTypeOK
  BY DEF PatcherInv
<1> QED BY <1>1, PatcherInvariance, PTL

\* A current marker stands for a binary that runs, or for one that a launch cut
\* short has left cut, for any number of launches, faults, builds and overlaps, as
\* long as no update crosses a launch.
THEOREM MarkerStands == PatcherSpec => []MarkerIsTrue
<1>1. PatcherInv => MarkerIsTrue
  <2> SUFFICES ASSUME PatcherInv, marked, ~newer, ~Writing(ino), ~raced, Served(ino),
                      ~Runs(Real)
               PROVE  faults > 0 /\ ~Whole(Real)
    BY DEF MarkerIsTrue
  <2>1. PatcherTypeOK /\ CalmInv /\ WholeInv
    BY DEF PatcherInv
  <2>2. ino \in Version /\ build \in Histories /\ Real \in File
    BY <2>1 DEF PatcherTypeOK, Version, Real
  <2>3. Made(Real, {ino})
    BY <2>1 DEF CalmInv, Done, Real
  <2>4. ~(Real.head # Nothing /\ Real.tail # Nothing)
    BY <2>2, <2>3, WholeMade, ServedRuns
  <2>5. faults # 0
    BY <2>1, <2>2, <2>4 DEF WholeInv, Writing, Writes, Real
  <2>6. faults > 0
    BY <2>1, <2>5, PatcherAssumption DEF PatcherTypeOK
  <2> QED BY <2>4, <2>6 DEF Whole
<1> QED BY <1>1, PatcherInvariance, PTL

\* A launch that no update crosses starts the build in place, and a build that the
\* patcher serves fails to start only once a launch has been cut short.
THEOREM LatestIsLaunched == PatcherSpec => []LaunchRunsTheLatest
<1>1. PatcherInv => LaunchRunsTheLatest
  <2> SUFFICES ASSUME PatcherInv, NEW p \in Launcher
               PROVE  /\ phase[p] = "running" /\ ~raced => disk[fd[p]].head.v = fd[p]
                      /\ phase[p] = "failed" => raced \/ faults > 0 \/ ~Served(fd[p])
    BY DEF LaunchRunsTheLatest
  <2>1. PatcherTypeOK /\ FileInv /\ CalmInv
    BY DEF PatcherInv
  <2>2. ASSUME phase[p] = "running", ~raced PROVE disk[fd[p]].head.v = fd[p]
    <3>1. fd[p] \in 1 .. ino /\ Runs(disk[fd[p]])
      BY <2>1, <2>2 DEF FileInv
    <3>2. fd[p] \in Version /\ build \in Histories
      BY <2>1, <3>1, PatcherAssumption DEF PatcherTypeOK, Version
    <3>3. disk[fd[p]].head # Nothing /\ disk[fd[p]] # Fresh(fd[p])
      BY <3>1, <3>2, ServedRuns DEF Runs, Whole
    <3>4. disk[fd[p]].head = Patched(fd[p]).head
      BY <2>1, <2>2, <3>2, <3>3 DEF CalmInv, Made
    <3> QED BY <3>2, <3>4, PatchedType
  <2>3. phase[p] = "failed" => raced \/ faults > 0 \/ ~Served(fd[p])
    BY <2>1 DEF CalmInv
  <2> QED BY <2>2, <2>3
<1> QED BY <1>1, PatcherInvariance, PTL

\* Launches one at a time, any number of them and of updates, rewrite a build only
\* when the backup is the whole original of the first build they rewrote, or what an
\* update that crossed a launch, or a launch cut short, has left of it.
THEOREM BackupKept == PatcherSpec => []FirstOriginalIsKept
<1>1. PatcherInv => FirstOriginalIsKept
  <2>1. SUFFICES ASSUME PatcherInv, ~overlapped, NEW w \in Rewritten,
                        ~(bak = Empty /\ faults > 0)
                 PROVE  \E v \in 1 .. w : bak = Fresh(v)
                                        /\ (v \in Rewritten \/ raced \/ faults > 0)
    BY DEF FirstOriginalIsKept
  <2>2. OriginalInv /\ CalmInv /\ ino \in Int /\ w \in Version
    BY <2>1 DEF PatcherInv, PatcherTypeOK, Rewritten, Version
  <2>3. bak \notin {Nothing, Empty}
    BY <2>1, <2>2 DEF OriginalInv
  <2>4. PICK v \in 1 .. ino : bak = Fresh(v) /\ Oldest(v)
    BY <2>1, <2>2, <2>3 DEF OriginalInv
  <2>5. v \in 1 .. w
    BY <2>1, <2>2, <2>4 DEF Oldest, Version
  <2>6. ASSUME v = ino, ~raced PROVE v \in Rewritten
    <3>1. disk[w] # Fresh(w)
      BY <2>1 DEF Rewritten
    <3>2. ~(w > ino)
      BY <2>2, <2>6, <3>1 DEF CalmInv
    <3>3. w \in Int /\ v \in Int /\ v <= w
      BY <2>2, <2>5 DEF Version
    <3>4. w = v
      BY <2>2, <2>6, <3>2, <3>3
    <3> QED BY <2>1, <3>4
  <2> QED BY <2>4, <2>5, <2>6 DEF Oldest
<1> QED BY <1>1, PatcherInvariance, PTL

\* Of launches one at a time, at most one of them cut short, the binary or its backup
\* is left whole.
THEOREM OneFaultSurvived == PatcherSpec => []OneFaultLosesNothing
<1>1. PatcherInv => OneFaultLosesNothing
  <2> SUFFICES ASSUME PatcherInv, ~overlapped, faults <= 1, ~Writing(ino), ~BakWhole
               PROVE  Whole(Real)
    BY DEF OneFaultLosesNothing, BakWhole
  <2>1. LossInv /\ ino \in Version
    BY DEF PatcherInv, AloneInv, PatcherTypeOK, Version
  <2> QED BY <2>1 DEF LossInv, Writing, Writes, Real
<1> QED BY <1>1, PatcherInvariance, PTL
=============================================================================
