------------------------------ MODULE MCVexLanes ------------------------------
(***************************************************************************)
(* Three registers, of which xmm0 is the destination of every instruction, *)
(* so that operands may all be different or any two of them the same, and  *)
(* the second instruction may read what the first wrote; every source may  *)
(* be in memory.  Of the selectors those that tell their fields apart;     *)
(* every predicate, for doubles less, equal, greater and NaN, which Start  *)
(* has side by side.                                                       *)
(***************************************************************************)
EXTENDS VexLanes

MCRegister == {"xmm0", "xmm1", "xmm2"}

\* An element function whose operands may not be exchanged.
MCMath(a, b) == IF a = Ones \/ b = Ones THEN Ones ELSE IF a > b THEN a - b ELSE Zero

Full == {[op |-> o, d |-> d, v |-> v, s |-> s, imm |-> k, L |-> l] :
           o \in Mnemonic, d \in {"xmm0", Mem}, v \in MCRegister \cup {"none"},
           s \in MCRegister \cup {Mem}, k \in 0 .. 1, l \in {0, 1}}

\* VEX.L and the immediate vary where the instruction has them.
Plain == {i \in Full :
            /\ WellFormed(i)
            /\ i.imm = 1 => i.op \in {"vextract", "vinsert", "vpunpckqdq"}
            /\ i.L = 1 => i.op \notin {"vmovsd", "vmovq", "vmovlps", "vmovhps", "vcmpsd", "scalar"}}
Selecting == {[i EXCEPT !.imm = k] :
                i \in {j \in Plain : j.op \in {"vpermq", "vshufpd"}}, k \in {27, 78}}
Comparing == {[i EXCEPT !.imm = k] :
                i \in {j \in Plain : j.op \in {"vcmppd", "vcmpsd"} /\ j.v = "xmm1"
                                     /\ j.s \in {"xmm0", "xmm2"}}, k \in 1 .. 31}
Zeroing == {[op |-> "vzero", d |-> "none", v |-> "none", s |-> "none", imm |-> 0, L |-> l] : l \in {0, 1}}

MCInstructions == Plain \cup Selecting \cup Comparing \cup Zeroing

MCStart == {[low |-> [xmm0 |-> <<Ones, 1>>, xmm1 |-> <<1, Ones>>, xmm2 |-> <<2, 0>>],
             mem |-> <<1, Ones, 2, 0>>],
            [low |-> [xmm0 |-> <<2, 0>>, xmm1 |-> <<2, 1>>, xmm2 |-> <<1, 1>>],
             mem |-> <<0, 1, Ones, 2>>]}
=============================================================================
