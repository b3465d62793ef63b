---------------------------- MODULE MCSseTrap ----------------------------
(* Encodings and programs of SseTrap. *)
EXTENDS SseTrap, Sequences, TLC

CONSTANTS t1, t2, here, there, none

MCThread == {t1, t2}
MCSite == {here, there}
MCSlotOf == [s \in MCSite |-> 0]
MCRel32 == {<<16, 32, 0, 0>>, <<240, 255, 255, 255>>}

\* The bytes of an instruction from its parts, and what follows it.
Rest == <<\h81, \h02, \h03, \hf4, \h11, \h66, \h0f, \h38>>
Assemble(rex, escape, op, modrm, sib) ==
  LET bytes == <<\h66>> \o rex \o <<\h0f, escape, op, modrm>> \o sib \o Rest
  IN [k \in Window |-> IF k < Len(bytes) THEN bytes[k + 1] ELSE \hcc]
Aes(rex, op, modrm, sib) == Assemble(rex, \h38, op, modrm, sib)
Pclmul(rex, modrm, sib) == Assemble(rex, \h3a, Clmul, modrm, sib)

\* Every mod and rm, two reg fields, every REX bit, SIB bytes with and without
\* base and index.
ModRM == {64 * mod + 8 * reg + rm : mod \in 0 .. 3, reg \in {1, 6}, rm \in 0 .. 7}
Rex == {<< >>, <<\h40>>, <<\h41>>, <<\h42>>, <<\h44>>, <<\h4f>>}
Sib == {<<\h25>>, <<\h63>>, <<\h9d>>, <<\hcc>>}
Forms(modrm) == IF modrm % 8 = 4 /\ modrm < 192 THEN Sib ELSE {<< >>}

Encodings ==
  UNION {{Aes(rex, \hdc, modrm, sib) : sib \in Forms(modrm)} : rex \in Rex, modrm \in ModRM}
  \cup UNION {{Pclmul(rex, modrm, sib) : sib \in Forms(modrm)} : rex \in Rex, modrm \in ModRM}

Other == Aes(<< >>, \hdb, \hd1, << >>)  \* aesimc %xmm1, %xmm2
Solo == {[code |-> (here :> c @@ there :> Other), threads |-> {t1}] : c \in Encodings}

\* Two threads: every AES operation, PCLMULQDQ, REX and a memory form of which
\* the decoder thinks that it is 5 bytes long.
Mixed ==
  {Aes(<< >>, op, \hd1, << >>) : op \in AesOps}
  \cup {Pclmul(<< >>, \hd1, <<\h11>>), Pclmul(<<\h45>>, \hca, <<\h01>>),
        Aes(<<\h44>>, \hde, \hfa, << >>), Aes(<< >>, \hdf, \h56, << >>)}
Pairs == {[code |-> (here :> c @@ there :> Other), threads |-> MCThread] : c \in Mixed}
           \cup {[code |-> (here :> Pclmul(<< >>, \hd1, <<\h11>>)
                              @@ there :> Aes(<< >>, \hdf, \h56, << >>)), threads |-> MCThread]}

MCStart == Solo \cup Pairs

\* docs/session_log.md:86: "0x741591c: pclmulqdq xmm0, xmmword ptr [rip - 0x29ce8a6], 0x10"
\* (the displacement is 0xfd63175a), from the host that the emulator is for.
OfTheHost ==
  LET bytes == <<\h66, \h0f, \h3a, \h44, \h05, \h5a, \h17, \h63, \hfd, \h10>>
  IN [k \in Window |-> IF k < 10 THEN bytes[k + 1] ELSE \hcc]
HostStart == {[code |-> (here :> OfTheHost @@ there :> Other), threads |-> MCThread]}
=============================================================================
