---------------------------- MODULE MCVexDispatch ----------------------------
(* Instances of VexDispatch: the encodings that a host may execute.           *)
EXTENDS VexDispatch

\* Opcodes of every branch, and neighbours that no branch takes.
Opcodes == UNION {r.ops : r \in UNION {Groups[g] : g \in 1 .. 7}} \cup {\h01, \hC4, \hF8}

Form(mod, rm, base) == [mod |-> mod, rm |-> rm, base |-> base]

\* A register, and every combination of SIB byte and displacement.
Forms == {Form(3, 0, 0), Form(0, 0, 0), Form(0, 4, 0), Form(0, 4, 5), Form(0, 5, 0),
          Form(1, 0, 0), Form(1, 4, 0), Form(2, 0, 0), Form(2, 4, 5)}

Encode(len, map, pp, op, L, f, reg, R, B) ==
    [len |-> len, map |-> map, pp |-> pp, op |-> op, L |-> L, R |-> R, B |-> B, v |-> 1,
     mod |-> f.mod, reg |-> reg, rm |-> f.rm, base |-> f.base]

ThreeByte == {Encode(3, map, pp, op, L, f, 2, 1, 1) :
                map \in 1 .. 3, pp \in 0 .. 3, op \in Opcodes, L \in {0, 1}, f \in Forms}
TwoByte == {Encode(2, 1, pp, op, 0, f, 2, 1, 1) :
              pp \in 0 .. 3, op \in Opcodes, f \in {Form(3, 0, 0), Form(0, 5, 0)}}

\* Extensions that no shift has, and registers that R and B extend.
Extended == {Encode(3, 1, 1, op, 0, Form(3, 0, 0), 0, 1, 1) : op \in \h71 .. \h73}
            \cup {Encode(3, 1, 1, \h73, 0, Form(3, 0, 0), 4, 1, 1)}
            \cup {Encode(3, 1, 1, op, L, Form(3, 2, 0), 2, 0, 0) :
                    op \in {\h28, \h29, \hEF}, L \in {0, 1}}

MCInstructions == ThreeByte \cup TwoByte \cup Extended
=============================================================================
