-------------------------- MODULE SigVirtualProofs --------------------------
(***************************************************************************)
(* What TLAPS proves of SigVirtual for any number of threads and handlers, *)
(* and any number of watchdog iterations: the interposer and the watchdog  *)
(* hide themselves from a host whose installations do not cross, and a     *)
(* trap falls back once unless the host went past the interposer.          *)
(***************************************************************************)
EXTENDS SigVirtual, TLAPS

(* Before the constructor nothing of the emulator's is to be seen.           *)
BootInv ==
  ~up => /\ left = 0 /\ wd = "asleep"
         /\ kern \in Plain
         /\ \A h \in Handler : link[h] # Ours

(* The emulator's handler is nobody's oldact, so only the kernel enters it.  *)
ChainInv ==
  /\ \A t \in Thread : pc[t] \in {"run", "set"} => depth[t] = 0
  /\ \A t \in Thread : pc[t] \in {"default", "raise"} => t \in doomed
  /\ ~evaded => /\ \A h \in Handler : link[h] # Ours
                /\ \A t \in Thread : t \notin doomed => depth[t] <= 1

(* Where the action in effect is, at each point of a displacement's repair.  *)
EffectInv ==
  /\ IF kern = Ours THEN virt = latest ELSE kern = latest
  /\ ~up => kern # Ours
  /\ up /\ kern # Ours => kern \in Handler
  /\ wd # "asleep" => kern # Ours /\ found = kern
  /\ wd = "reinstall" => virt = kern
  /\ \A t \in Thread : pc[t] = "set" => up /\ kern = Ours

IInv == TypeOK /\ BootInv /\ ChainInv /\ (~crossed => EffectInv)

-----------------------------------------------------------------------------
(* Facts about the actions that carry a trap through its handlers.           *)
LEMMA Names ==
  /\ Host \subseteq Action /\ Ours \in Action /\ Ours \notin Host
  /\ Handler \subseteq Host /\ Plain \subseteq Host /\ None \notin Host
  /\ Dfl \in Plain /\ Ign \in Plain /\ Handler \cap Plain = {}
BY VirtualAssumption DEF Host, Action, Plain

(* How a step may move a thread's trap.                                      *)
Moved(t) ==
  \/ UNCHANGED <<pc, act, depth>>
  \/ /\ pc' = [pc EXCEPT ![t] = "run"] /\ act' = [act EXCEPT ![t] = None]
     /\ depth' = [depth EXCEPT ![t] = 0]
  \/ /\ pc' = [pc EXCEPT ![t] = "fallback"] /\ act' = [act EXCEPT ![t] = None]
     /\ depth' = [depth EXCEPT ![t] = @ + 1]
  \/ /\ pc' = [pc EXCEPT ![t] = "host"] /\ depth' = depth
     /\ \E a \in Handler : act' = [act EXCEPT ![t] = a]
  \/ pc' = [pc EXCEPT ![t] = "default"] /\ t \in doomed' /\ UNCHANGED <<act, depth>>

(* What Trap, Fallback, Raise, HostReturns and HostChains leave alone.       *)
Kept ==
  /\ kern' = kern /\ virt' = virt /\ up' = up /\ wd' = wd /\ found' = found
  /\ left' = left /\ link' = link /\ plain' = plain /\ latest' = latest
  /\ crossed' = crossed /\ evaded' = evaded /\ dead' \in {"no", "signal", "exit"}
  /\ \E d \in SUBSET Thread : doomed' = doomed \cup d

LEMMA ResumeMoves ==
  ASSUME NEW t \in Thread, Resume(t)
  PROVE  Moved(t) /\ kern' = kern /\ doomed' = doomed /\ dead' \in {dead, "exit"}
BY DEF Resume, Exit, Die, BackToHost, Moved

LEMMA DeliverMoves ==
  ASSUME NEW t \in Thread, Deliver(t)
  PROVE  Moved(t) /\ dead' \in {dead, "signal"}
BY DEF Deliver, RunOurs, RunHost, Moved

LEMMA TrapMoves ==
  ASSUME TypeOK, NEW t \in Thread,
         \/ Trap(t) \/ Fallback(t) \/ Raise(t) \/ HostReturns(t) \/ HostChains(t)
  PROVE  Moved(t) /\ Kept
<1> USE Names
<1>1. CASE Trap(t)
  BY <1>1, DeliverMoves DEF Trap, Moved, Kept, TypeOK
<1>2. CASE Fallback(t)
  <2>1. CASE virt = Ign /\ Resume(t)
    BY <1>2, <2>1, ResumeMoves DEF Fallback, Kept, TypeOK
  <2>2. CASE /\ virt = Dfl
             /\ pc' = [pc EXCEPT ![t] = "default"]
             /\ doomed' = doomed \cup {t}
             /\ UNCHANGED <<kern, act, depth, dead>>
    BY <1>2, <2>2 DEF Fallback, Moved, Kept, TypeOK
  <2>3. CASE virt \notin Plain /\ RunHost(t, virt) /\ UNCHANGED <<kern, doomed>>
    <3>1. virt \in Handler
      BY <2>3 DEF TypeOK, Host
    <3>. QED BY <1>2, <2>3, <3>1, ZenonT(60) DEF Fallback, RunHost, Moved, Kept, TypeOK
  <2>. QED BY <1>2, <2>1, <2>2, <2>3 DEF Fallback
<1>3. CASE Raise(t)
  BY <1>3, DeliverMoves DEF Raise, Die, Moved, Kept, TypeOK
<1>4. CASE HostReturns(t)
  BY <1>4, ResumeMoves DEF HostReturns, Kept, TypeOK
<1>5. CASE HostChains(t)
  BY <1>5 DEF HostChains, RunHost, RunOurs, Moved, Kept, TypeOK
<1>. QED BY <1>1, <1>2, <1>3, <1>4, <1>5

-----------------------------------------------------------------------------
LEMMA InitIInv == Init => IInv
<1> SUFFICES ASSUME Init PROVE IInv
  OBVIOUS
<1> USE VirtualAssumption, Names
<1>1. TypeOK
  <2>1. kern \in Plain /\ latest \in Plain /\ virt = Dfl
    BY DEF Init
  <2>2. /\ pc \in [Thread -> {"run", "set", "fallback", "host", "default", "raise"}]
        /\ act \in [Thread -> Host \cup {None}]
        /\ link \in [Handler -> Action \cup {None}] /\ depth \in [Thread -> Nat]
    BY DEF Init
  <2>3. \A t \in Thread : pc[t] = "run"
    BY DEF Init
  <2>4. /\ wd = "asleep" /\ found = None /\ left = 0 /\ doomed = {}
        /\ plain = 0 /\ dead = "no"
    BY DEF Init
  <2>5. up \in BOOLEAN /\ crossed \in BOOLEAN /\ evaded \in BOOLEAN
    BY DEF Init
  <2>. QED BY <2>1, <2>2, <2>3, <2>4, <2>5 DEF TypeOK
<1>2. BootInv /\ ChainInv
  BY DEF Init, BootInv, ChainInv
<1>3. EffectInv
  BY DEF Init, EffectInv
<1>. QED BY <1>1, <1>2, <1>3 DEF IInv

LEMMA RememberType ==
  ASSUME TypeOK, NEW a \in Host, NEW old \in Action, Installable(a), Remember(a, old)
  PROVE  /\ link' \in [Handler -> Action \cup {None}] /\ plain' \in 0 .. MaxPlain
         /\ old # Ours => \A h \in Handler : link'[h] = Ours => link[h] = Ours
BY Names, VirtualAssumption DEF TypeOK, Installable, Remember, Host

(* The type invariant, with the fact that nothing watches before init(), is  *)
(* inductive.                                                                *)
LEMMA TypeStep == TypeOK /\ BootInv /\ [Next]_vars => TypeOK' /\ BootInv'
<1> SUFFICES ASSUME TypeOK, BootInv, [Next]_vars PROVE TypeOK' /\ BootInv'
  OBVIOUS
<1> USE Names, VirtualAssumption DEF TypeOK, BootInv
<1>1. ASSUME Construct PROVE TypeOK' /\ BootInv'
  BY <1>1 DEF Construct, Host, Action
<1>2. ASSUME Query PROVE TypeOK' /\ BootInv'
  BY <1>2 DEF Query, Turns, Spend, Host, Action
<1>3. ASSUME Save PROVE TypeOK' /\ BootInv'
  BY <1>3 DEF Save, SaveFound
<1>4. ASSUME Reinstall PROVE TypeOK' /\ BootInv'
  BY <1>4 DEF Reinstall, InstallOurs, Spend
<1>5. ASSUME NEW t \in Thread, NEW a \in Host, Enter(t, a) PROVE TypeOK' /\ BootInv'
  <2>1. /\ link' \in [Handler -> Action \cup {None}] /\ plain' \in 0 .. MaxPlain
        /\ \A h \in Handler : link'[h] = Ours => link[h] = Ours
    BY <1>5, RememberType DEF Enter, ActiveSa
  <2>. QED BY <1>5, <2>1 DEF Enter
<1>6. ASSUME NEW t \in Thread, Publish(t) PROVE TypeOK' /\ BootInv'
  BY <1>6 DEF Publish
<1>7. ASSUME NEW h \in Handler, PutBack(h) PROVE TypeOK' /\ BootInv'
  BY <1>7 DEF PutBack
<1>8. ASSUME NEW a \in Host, Displace(a) PROVE TypeOK' /\ BootInv'
  <2>1. link' \in [Handler -> Action \cup {None}] /\ plain' \in 0 .. MaxPlain
    BY <1>8, RememberType DEF Displace
  <2>. QED BY <1>8, <2>1 DEF Displace
<1>9. ASSUME NEW t \in Thread, Moved(t), Kept PROVE TypeOK' /\ BootInv'
  <2>1. /\ act' \in [Thread -> Host \cup {None}]
        /\ depth' \in [Thread -> Nat]
        /\ pc' \in [Thread -> {"run", "set", "fallback", "host", "default", "raise"}]
        /\ \A u \in Thread : /\ pc'[u] = "set" => act'[u] \in Host
                             /\ pc'[u] = "host" => act'[u] \in Handler
    BY <1>9 DEF Moved
  <2>. QED BY <1>9, <2>1 DEF Kept
<1>10. ASSUME NEW t \in Thread, RestoreDefault(t) PROVE TypeOK' /\ BootInv'
  BY <1>10 DEF RestoreDefault
<1>11. CASE UNCHANGED vars
  BY <1>11 DEF vars
<1>. QED
  BY <1>1, <1>2, <1>3, <1>4, <1>5, <1>6, <1>7, <1>8, <1>9, <1>10, <1>11, TrapMoves
     DEF Next, Watch, Serve, Ended

(* Every variable keeps its type (SigVirtual's type invariant).              *)
THEOREM TypeCorrect == Spec => []TypeOK
<1>1. Init => TypeOK /\ BootInv
  BY InitIInv DEF IInv
<1>. QED BY <1>1, TypeStep, PTL DEF Spec

-----------------------------------------------------------------------------
(* A thread enters the fallback a second time only through an oldact.        *)
LEMMA ChainStep == TypeOK /\ ChainInv /\ [Next]_vars => ChainInv'
<1> SUFFICES ASSUME TypeOK, ChainInv, [Next]_vars PROVE ChainInv'
  OBVIOUS
<1> USE Names DEF TypeOK, ChainInv
<1>1. ASSUME Construct \/ Watch PROVE ChainInv'
  BY <1>1 DEF Construct, Watch, Query, Save, Reinstall
<1>2. ASSUME NEW t \in Thread, NEW a \in Host, Enter(t, a) PROVE ChainInv'
  <2>1. virt # Ours /\ \A h \in Handler : link'[h] = Ours => link[h] = Ours
    BY <1>2, RememberType DEF Enter, ActiveSa
  <2>. QED BY <1>2, <2>1 DEF Enter
<1>3. ASSUME NEW t \in Thread, Publish(t) PROVE ChainInv'
  BY <1>3 DEF Publish
<1>4. ASSUME NEW h \in Handler, PutBack(h) PROVE ChainInv'
  BY <1>4 DEF PutBack
<1>5. ASSUME NEW a \in Host, Displace(a) PROVE ChainInv'
  BY <1>5 DEF Displace
<1>6. ASSUME NEW t \in Thread, Trap(t) PROVE ChainInv'
  <2>1. /\ pc[t] = "run" /\ depth[t] = 0
        /\ link' = link /\ evaded' = evaded /\ doomed' = doomed
        /\ \/ UNCHANGED <<pc, depth>>
           \/ pc' = [pc EXCEPT ![t] = "fallback"] /\ depth' = [depth EXCEPT ![t] = @ + 1]
           \/ pc' = [pc EXCEPT ![t] = "host"] /\ depth' = depth
    BY <1>6 DEF Trap, Deliver, RunOurs, RunHost
  <2>. QED BY <2>1
<1>7. ASSUME NEW t \in Thread, Fallback(t) PROVE ChainInv'
  <2>1. /\ link' = link /\ evaded' = evaded /\ doomed \subseteq doomed'
        /\ \/ UNCHANGED <<pc, depth>>
           \/ pc' = [pc EXCEPT ![t] = "run"] /\ depth' = [depth EXCEPT ![t] = 0]
           \/ pc' = [pc EXCEPT ![t] = "default"] /\ depth' = depth /\ t \in doomed'
           \/ pc' = [pc EXCEPT ![t] = "host"] /\ depth' = depth
    BY <1>7 DEF Fallback, Resume, Exit, Die, BackToHost, RunHost
  <2>. QED BY <2>1
<1>8. ASSUME NEW t \in Thread, RestoreDefault(t) PROVE ChainInv'
  BY <1>8 DEF RestoreDefault
<1>9. ASSUME NEW t \in Thread, Raise(t) PROVE ChainInv'
  <2>1. /\ t \in doomed /\ link' = link /\ evaded' = evaded /\ doomed' = doomed
        /\ \/ UNCHANGED <<pc, depth>>
           \/ pc' = [pc EXCEPT ![t] = "fallback"] /\ depth' = [depth EXCEPT ![t] = @ + 1]
           \/ pc' = [pc EXCEPT ![t] = "host"] /\ depth' = depth
    BY <1>9 DEF Raise, Deliver, RunOurs, RunHost, Die
  <2>. QED BY <2>1
<1>10. ASSUME NEW t \in Thread, HostReturns(t) PROVE ChainInv'
  BY <1>10 DEF HostReturns, Resume, Exit, Die, BackToHost
<1>11. ASSUME NEW t \in Thread, HostChains(t) PROVE ChainInv'
  <2>1. /\ link' = link /\ evaded' = evaded /\ doomed' = doomed
        /\ \/ pc' = [pc EXCEPT ![t] = "host"] /\ depth' = depth
           \/ /\ act[t] \in Handler /\ link[act[t]] = Ours
              /\ pc' = [pc EXCEPT ![t] = "fallback"]
              /\ depth' = [depth EXCEPT ![t] = @ + 1]
    BY <1>11 DEF HostChains, RunOurs, RunHost
  <2>. QED BY <2>1
<1>12. CASE UNCHANGED vars
  BY <1>12 DEF vars
<1>. QED
  BY <1>1, <1>2, <1>3, <1>4, <1>5, <1>6, <1>7, <1>8, <1>9, <1>10, <1>11, <1>12
     DEF Next, Serve, Ended

(* Without an installation past the interposer no chain of the host's        *)
(* handlers leads back into fallback_to_old_handler.                         *)
THEOREM FallsBackOnce == Spec => []UnevadedTrapFallsBackOnce
<1>1. Init => TypeOK /\ BootInv /\ ChainInv
  BY InitIInv DEF IInv
<1>2. ChainInv => UnevadedTrapFallsBackOnce
  BY DEF ChainInv, UnevadedTrapFallsBackOnce
<1>. QED BY <1>1, <1>2, TypeStep, ChainStep, PTL DEF Spec

-----------------------------------------------------------------------------
(* The action in effect is the latest one, as long as installations do not   *)
(* cross: one step per step of a displacement and its repair.                *)
LEMMA EffectStep ==
  ASSUME TypeOK, BootInv, ChainInv, ~crossed => EffectInv, [Next]_vars, ~crossed'
  PROVE  EffectInv'
<1> USE Names DEF TypeOK, EffectInv
<1>1. ASSUME Construct PROVE EffectInv'
  BY <1>1 DEF Construct, BootInv
<1>2. ASSUME Query PROVE EffectInv'
  BY <1>2 DEF Query
<1>3. ASSUME Save PROVE EffectInv'
  <2>1. ~crossed /\ up /\ found = kern /\ kern \in Handler
    BY <1>3 DEF Save, BootInv
  <2>. QED BY <1>3, <2>1 DEF Save, SaveFound
<1>4. ASSUME Reinstall PROVE EffectInv'
  <2>1. ~crossed /\ up /\ virt = kern /\ kern # Ours
    BY <1>4 DEF Reinstall, BootInv
  <2>. QED BY <1>4, <2>1 DEF Reinstall, InstallOurs
<1>5. ASSUME NEW t \in Thread, NEW a \in Host, Enter(t, a) PROVE EffectInv'
  BY <1>5 DEF Enter, Calm
<1>6. ASSUME NEW t \in Thread, Publish(t) PROVE EffectInv'
  BY <1>6 DEF Publish
<1>7. ASSUME NEW h \in Handler, PutBack(h) PROVE EffectInv'
  BY <1>7 DEF PutBack
<1>8. ASSUME NEW a \in Host, Displace(a) PROVE EffectInv'
  BY <1>8 DEF Displace, Calm, Host
<1>9. ASSUME NEW t \in Thread, Moved(t), Kept PROVE EffectInv'
  <2>1. \A u \in Thread : pc'[u] = "set" => pc[u] = "set"
    BY <1>9 DEF Moved
  <2>. QED BY <1>9, <2>1 DEF Kept
<1>10. ASSUME NEW t \in Thread, RestoreDefault(t) PROVE EffectInv'
  BY <1>10 DEF RestoreDefault
<1>11. CASE UNCHANGED vars
  BY <1>11 DEF vars
<1>. QED
  BY <1>1, <1>2, <1>3, <1>4, <1>5, <1>6, <1>7, <1>8, <1>9, <1>10, <1>11, TrapMoves
     DEF Next, Watch, Serve, Ended

LEMMA Invariance == Spec => []IInv
<1>1. IInv /\ [Next]_vars => IInv'
  BY TypeStep, ChainStep, EffectStep DEF IInv
<1>. QED BY <1>1, InitIInv, PTL DEF Spec

(* Installations that do not cross are in effect at once and stay so, also   *)
(* through a displacement and its repair by the watchdog.                    *)
THEOREM LatestIsInEffect == Spec => []EffectiveIsLatest
<1>1. IInv => EffectiveIsLatest
  BY DEF IInv, EffectInv, EffectiveIsLatest, Effective
<1>. QED BY <1>1, Invariance, PTL
=============================================================================
