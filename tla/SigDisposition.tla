--------------------------- MODULE SigDisposition ---------------------------
(***************************************************************************)
(* What POSIX promises of sigaction and of the delivery of a signal, for   *)
(* one signal: the disposition is a register that holds one whole action.  *)
(* A call that installs an action replaces all of it at once; a thread     *)
(* that asks for the disposition, as sigaction does for oldact and a trap  *)
(* for the handler to run, is given the whole action of that moment.       *)
(***************************************************************************)
CONSTANTS Thread, Action

VARIABLES
  disp,  \* the disposition
  got    \* the action each thread was last given

vars == <<disp, got>>

Init == disp \in Action /\ got \in [Thread -> Action]

Take(t) == got' = [got EXCEPT ![t] = disp] /\ UNCHANGED disp

Install(a) == disp' = a /\ UNCHANGED got

Next == (\E t \in Thread : Take(t)) \/ (\E a \in Action : Install(a))

Spec == Init /\ [][Next]_vars
=============================================================================
