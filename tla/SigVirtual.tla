----------------------------- MODULE SigVirtual -----------------------------
(***************************************************************************)
(* Who handles SIGILL in a host of src/src/sigill_emulator.c: the kernel's *)
(* disposition and the virtual one behind it, the constructor that sets    *)
(* them up, the host's calls of the interposed sigaction() and its ways    *)
(* around it, the watchdog that repairs those, and what a trap that the    *)
(* emulator cannot serve goes through (fallback_to_old_handler).           *)
(*                                                                         *)
(* The virtual disposition is one register here: SigRing says when the     *)
(* ring of slots implements it.  A null active_sa reads as SIG_DFL.        *)
(***************************************************************************)
EXTENDS Integers

CONSTANTS
  Thread,    \* threads of the host
  Handler,   \* the host's own handlers, each installed at most once
  Dfl, Ign,  \* SIG_DFL, SIG_IGN
  Ours,      \* handler(), the emulator's
  None,      \* no action
  MaxIters,  \* iterations of the watchdog: 200
  MaxPlain,  \* bound on the installations of SIG_DFL, SIG_IGN and handler()
  MaxChain   \* bound on how often one trap falls back

ASSUME VirtualAssumption ==
  /\ Dfl # Ign
  /\ {Dfl, Ign, Ours, None} \cap Handler = {}
  /\ Ours \notin {Dfl, Ign, None} /\ None \notin {Dfl, Ign}
  /\ MaxIters \in Nat /\ MaxPlain \in Nat /\ MaxChain \in Nat \ {0}

VARIABLES
  kern,    \* the disposition of SIGILL in the kernel
  virt,    \* the published action: what sigaction() reports and a trap chains to
  up,      \* the constructor has run
  wd,      \* where the watchdog is in its loop
  found,   \* current: the disposition the watchdog read
  left,    \* its iterations left
  pc,      \* where each thread is
  act,     \* the action a thread installs, or has read
  link,    \* for each handler, the action its owner was told it replaced
  doomed,  \* the threads in the SIG_DFL branch, which does not return
  depth,   \* how often the thread's trap has fallen back
  plain,   \* history: installations of SIG_DFL, SIG_IGN or handler()
  dead,    \* how the process ended, if it has
  latest,  \* history: the action the host installed last, by whatever means
  crossed, \* history: two installations, or one and a repair, overlapped
  evaded   \* history: an action was installed past the interposer

vars == <<kern, virt, up, wd, found, left, pc, act, link, doomed, depth, plain,
          dead, latest, crossed, evaded>>

Plain == {Dfl, Ign}
Action == Handler \cup Plain \cup {Ours}
Host == Handler \cup Plain

Alive == dead = "no"

Init ==
  /\ kern \in Plain /\ latest = kern  \* inherited through execve
  /\ virt = Dfl
  /\ up = FALSE
  /\ wd = "asleep" /\ found = None /\ left = 0
  /\ pc = [t \in Thread |-> "run"]
  /\ act = [t \in Thread |-> None]
  /\ link = [h \in Handler |-> None]
  /\ doomed = {}
  /\ depth = [t \in Thread |-> 0]
  /\ plain = 0
  /\ dead = "no"
  /\ crossed = FALSE /\ evaded = FALSE

\* Nothing is under way that an installation could cross.
Calm == up /\ kern = Ours /\ wd = "asleep" /\ \A t \in Thread : pc[t] # "set"

-----------------------------------------------------------------------------
\* init(): publishes the kernel's disposition, takes it over and starts the
\* watchdog.
Construct ==
  /\ Alive /\ ~up
  /\ up' = TRUE
  /\ virt' = kern
  /\ kern' = Ours
  /\ left' = MaxIters
  /\ UNCHANGED <<wd, found, pc, act, link, doomed, depth, plain, dead, latest,
                 crossed, evaded>>

\* The host installs each handler of its own once, and keeps oldact to chain to.
Installable(a) ==
  \/ a \in Handler /\ link[a] = None
  \/ a \in Plain /\ plain < MaxPlain

Remember(a, old) ==
  IF a \in Handler THEN link' = [link EXCEPT ![a] = old] /\ UNCHANGED plain
                   ELSE plain' = plain + 1 /\ UNCHANGED link

\* Fault: the kernel is asked for the disposition.
KernelSa == kern

\* get_active_sa(SIGILL)
ActiveSa == virt

\* sigaction(SIGILL, a, &old), up to *oldact = get_active_sa(SIGILL).
Enter(t, a) ==
  /\ Alive /\ pc[t] = "run"
  /\ Installable(a)
  /\ Remember(a, ActiveSa)
  /\ act' = [act EXCEPT ![t] = a]
  /\ pc' = [pc EXCEPT ![t] = "set"]
  /\ crossed' = (crossed \/ ~Calm)
  /\ UNCHANGED <<kern, virt, up, wd, found, left, doomed, depth, dead, latest,
                 evaded>>

\* active_sa = &sa_slots[next_idx]: the kernel is not asked.
Publish(t) ==
  /\ Alive /\ pc[t] = "set"
  /\ virt' = act[t]
  /\ latest' = act[t]
  /\ act' = [act EXCEPT ![t] = None]
  /\ pc' = [pc EXCEPT ![t] = "run"]
  /\ UNCHANGED <<kern, up, wd, found, left, link, doomed, depth, plain, dead,
                 crossed, evaded>>

\* The host puts back what h replaced, and that is the emulator's handler:
\* action_is_ours sends the call to the kernel.
PutBack(h) ==
  /\ Alive /\ link[h] = Ours /\ plain < MaxPlain
  /\ kern' = Ours
  /\ plain' = plain + 1
  /\ crossed' = TRUE
  /\ UNCHANGED <<virt, up, wd, found, left, pc, act, link, doomed, depth, dead,
                 latest, evaded>>

\* signal(), or the system call itself: the interposer does not see it.
Displace(a) ==
  /\ Alive /\ up
  /\ Installable(a)
  /\ kern' = a /\ latest' = a
  /\ Remember(a, kern)
  /\ crossed' = (crossed \/ ~Calm \/ a \in Plain)
  /\ evaded' = TRUE
  /\ UNCHANGED <<virt, up, wd, found, left, pc, act, doomed, depth, dead>>

-----------------------------------------------------------------------------
Spend == left' = left - 1

\* Fault: one iteration too many.
OneMoreTurn == left >= 0

\* i < max_iters
Turns == left > 0

\* The watchdog reads the disposition; if it is still ours it sleeps again.
Query ==
  /\ Alive /\ wd = "asleep" /\ Turns
  /\ IF kern = Ours THEN Spend /\ UNCHANGED <<wd, found>>
                    ELSE wd' = "save" /\ found' = kern /\ UNCHANGED left
  /\ UNCHANGED <<kern, virt, up, pc, act, link, doomed, depth, plain, dead,
                 latest, crossed, evaded>>

\* Fault: the displaced handler is not saved.
Discard(a) == UNCHANGED virt

\* A handler found in the kernel is published, a plain disposition is not.
SaveFound(a) == virt' = IF a \in Plain THEN virt ELSE a

Save ==
  /\ Alive /\ wd = "save"
  /\ SaveFound(found)
  /\ wd' = "reinstall"
  /\ UNCHANGED <<kern, up, found, left, pc, act, link, doomed, depth, plain,
                 dead, latest, crossed, evaded>>

\* Fault: the handler is not installed again.
LeaveDisplaced == UNCHANGED kern

\* real_sigaction(SIGILL, &our_sa, NULL)
InstallOurs == kern' = Ours

Reinstall ==
  /\ Alive /\ wd = "reinstall"
  /\ InstallOurs
  /\ wd' = "asleep" /\ found' = None
  /\ Spend
  /\ UNCHANGED <<virt, up, pc, act, link, doomed, depth, plain, dead, latest,
                 crossed, evaded>>

-----------------------------------------------------------------------------
\* The process ends.
Die(how) == dead' = how /\ UNCHANGED <<kern, pc, act, doomed, depth>>

\* t runs handler() and is in its fallback, or runs the host's handler a.
RunOurs(t) ==
  /\ pc' = [pc EXCEPT ![t] = "fallback"]
  /\ depth' = [depth EXCEPT ![t] = @ + 1]
  /\ act' = [act EXCEPT ![t] = None]
  /\ UNCHANGED dead
RunHost(t, a) ==
  /\ pc' = [pc EXCEPT ![t] = "host"]
  /\ act' = [act EXCEPT ![t] = a]
  /\ UNCHANGED <<depth, dead>>

\* The instruction that trapped is executed again, or what the handler made of it.
BackToHost(t) ==
  /\ pc' = [pc EXCEPT ![t] = "run"]
  /\ act' = [act EXCEPT ![t] = None]
  /\ depth' = [depth EXCEPT ![t] = 0]
  /\ UNCHANGED <<kern, doomed, dead>>

\* Fault: nothing follows tgkill.
NoExit(t) == BackToHost(t)

\* _exit(128 + sig)
Exit(t) == Die("exit")

\* A signal handler of t returns: to the host, or to the _exit(128 + sig) that
\* follows tgkill.
Resume(t) == IF t \in doomed THEN Exit(t) ELSE BackToHost(t)

\* The kernel delivers SIGILL to t by its disposition.
Deliver(t) ==
  \/ kern = Ours /\ RunOurs(t)
  \/ kern \in Handler /\ RunHost(t, kern)
  \/ kern = Dfl /\ dead' = "signal" /\ UNCHANGED <<pc, act, depth>>

\* t executes an instruction that the emulator does not support.  A SIGILL the
\* CPU raises cannot be ignored: the kernel kills.
Trap(t) ==
  /\ Alive /\ pc[t] = "run"
  /\ \/ Deliver(t)
     \/ kern = Ign /\ dead' = "signal" /\ UNCHANGED <<pc, act, depth>>
  /\ UNCHANGED <<kern, virt, up, wd, found, left, link, doomed, plain, latest,
                 crossed, evaded>>

\* fallback_to_old_handler up to the choice of its branch.  SIG_IGN returns at
\* once, to the instruction that trapped.
Fallback(t) ==
  /\ Alive /\ pc[t] = "fallback"
  /\ \/ virt = Ign /\ Resume(t)
     \/ /\ virt = Dfl
        /\ pc' = [pc EXCEPT ![t] = "default"]
        /\ doomed' = doomed \cup {t}
        /\ UNCHANGED <<kern, act, depth, dead>>
     \/ virt \notin Plain /\ RunHost(t, virt) /\ UNCHANGED <<kern, doomed>>
  /\ UNCHANGED <<virt, up, wd, found, left, link, plain, latest, crossed, evaded>>

\* real_sigaction(sig, &previous, NULL)
RestoreDefault(t) ==
  /\ Alive /\ pc[t] = "default"
  /\ kern' = Dfl
  /\ pc' = [pc EXCEPT ![t] = "raise"]
  /\ crossed' = TRUE
  /\ UNCHANGED <<virt, up, wd, found, left, act, link, doomed, depth, plain,
                 dead, latest, evaded>>

\* The signal, unblocked, is raised again with tgkill.  It is the kernel's
\* disposition of this moment that counts; an ignored one leaves _exit.
Raise(t) ==
  /\ Alive /\ pc[t] = "raise"
  /\ \/ Deliver(t) /\ UNCHANGED <<kern, doomed>>
     \/ kern = Ign /\ Die("exit")
  /\ UNCHANGED <<virt, up, wd, found, left, link, plain, latest, crossed, evaded>>

\* A handler of the host has served the signal.
HostReturns(t) ==
  /\ Alive /\ pc[t] = "host"
  /\ Resume(t)
  /\ UNCHANGED <<virt, up, wd, found, left, link, plain, latest, crossed, evaded>>

\* Or it hands the signal to the handler it had replaced.
HostChains(t) ==
  /\ Alive /\ pc[t] = "host"
  /\ \/ link[act[t]] \in Handler /\ RunHost(t, link[act[t]])
     \/ link[act[t]] = Ours /\ depth[t] < MaxChain /\ RunOurs(t)
  /\ UNCHANGED <<kern, virt, up, wd, found, left, link, doomed, plain, latest,
                 crossed, evaded>>

\* The process has ended.
Ended == ~Alive /\ UNCHANGED vars

Watch == Query \/ Save \/ Reinstall

\* What a trapped thread goes through until it is back in the host.
Serve(t) ==
  Fallback(t) \/ RestoreDefault(t) \/ Raise(t) \/ HostReturns(t)

Next ==
  \/ Construct \/ Watch \/ Ended
  \/ \E t \in Thread :
       \/ Publish(t) \/ Trap(t) \/ Serve(t) \/ HostChains(t)
       \/ \E a \in Host : Enter(t, a)
  \/ \E a \in Host : Displace(a)
  \/ \E h \in Handler : PutBack(h)

Spec == Init /\ [][Next]_vars

\* The kernel schedules the watchdog and every thread in a handler, and the
\* host's handlers return.
FairSpec == Spec /\ WF_vars(Watch) /\ \A t \in Thread : WF_vars(Serve(t))

-----------------------------------------------------------------------------
\* Types: handler() is never the virtual action, and the watchdog's count never
\* drops below zero (reassert_sigill_handler).
TypeOK ==
  /\ kern \in Action /\ virt \in Host /\ latest \in Host
  /\ up \in BOOLEAN /\ crossed \in BOOLEAN /\ evaded \in BOOLEAN
  /\ wd \in {"asleep", "save", "reinstall"}
  /\ found \in Host \cup {None}
  /\ wd # "asleep" => found \in Host /\ left > 0
  /\ left \in 0 .. MaxIters
  /\ pc \in [Thread -> {"run", "set", "fallback", "host", "default", "raise"}]
  /\ act \in [Thread -> Host \cup {None}]
  /\ \A t \in Thread : /\ pc[t] = "set" => act[t] \in Host
                       /\ pc[t] = "host" => act[t] \in Handler
  /\ link \in [Handler -> Action \cup {None}]
  /\ doomed \subseteq Thread
  /\ depth \in [Thread -> Nat]
  /\ plain \in 0 .. MaxPlain
  /\ dead \in {"no", "signal", "exit"}

\* The action a trap that the emulator cannot serve would meet.
Effective == IF kern = Ours THEN virt ELSE kern

(***************************************************************************)
(* Sigaction and the watchdog are transparent to the host: the action it   *)
(* installed last, through the interposer or past it, is the one in        *)
(* effect, before, during and after the repair of a displacement.  This    *)
(* needs installations that cross neither each other nor a repair, and     *)
(* none past the interposer of SIG_DFL or SIG_IGN, which the watchdog does *)
(* not save.                                                               *)
(***************************************************************************)
EffectiveIsLatest == ~crossed => Effective = latest

(***************************************************************************)
(* Unless the host installs an action past the interposer, the emulator's  *)
(* handler is never handed out as an oldact, and so no chain of handlers   *)
(* leads a trap back into fallback_to_old_handler.                         *)
(***************************************************************************)
UnevadedTrapFallsBackOnce ==
  ~evaded => \A t \in Thread \ doomed : depth[t] <= 1

(***************************************************************************)
(* A displaced handler() is in the kernel again, by the watchdog's next    *)
(* iterations (reassert_sigill_handler), as long as it has any left.       *)
(***************************************************************************)
DisplacementIsRepaired ==
  up /\ kern # Ours /\ left > 0 ~> kern = Ours \/ ~Alive

(***************************************************************************)
(* A trap whose virtual disposition is SIG_DFL kills the process, even if  *)
(* the watchdog or the host reinstalls a handler between                   *)
(* fallback_to_old_handler's real_sigaction and its tgkill.                *)
(***************************************************************************)
DefaultKills == \A t \in Thread : t \in doomed ~> ~Alive
=============================================================================
