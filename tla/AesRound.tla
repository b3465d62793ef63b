------------------------------ MODULE AesRound ------------------------------
(***************************************************************************)
(* The AES steps of src/src/sigill_emulator.c, as operators.  A byte is    *)
(* the set of the positions of its 1 bits: a polynomial over GF(2), whose  *)
(* sum is the exclusive or of C.  A state is the uint8_t[16] that the      *)
(* emulators copy their operand into, column by column.                    *)
(***************************************************************************)
EXTENDS Integers, Sequences

Byte == SUBSET (0 .. 7)
Index == 0 .. 15
State == [Index -> Byte]

Xor(x, y) == (x \ y) \cup (y \ x)

-----------------------------------------------------------------------------
(* Multiplication in GF(2^8) *)

\* x << 1, and 0x1B if the bit shifted out was 1: the mask (int8_t)x >> 7.
gmul2(x) == Xor({k + 1 : k \in x \ {7}}, IF 7 \in x THEN {0, 1, 3, 4} ELSE {})
gmul4(x) == gmul2(gmul2(x))
gmul8(x) == gmul2(gmul4(x))

-----------------------------------------------------------------------------
(* The steps of a round *)

\* The byte r below byte n in its column, cyclically.
Below(s, n, r) == s[4 * (n \div 4) + ((n + r) % 4)]

\* temp: the sum of the column of byte n.
ColumnSum(s, n) ==
    Xor(Xor(Below(s, n, 0), Below(s, n, 1)), Xor(Below(s, n, 2), Below(s, n, 3)))

mix_columns(s) ==
    [n \in Index |-> Xor(gmul2(Xor(Below(s, n, 0), Below(s, n, 1))),
                         Xor(ColumnSum(s, n), Below(s, n, 0)))]

\* Fault: h4_02 and h4_13 are sums of neighbours, not of every other byte.
CorrectionOfNeighbours(s, n) ==
    Xor(gmul8(ColumnSum(s, n)), gmul4(Xor(Below(s, n, 0), Below(s, n, 1))))

\* What turns the direct transformation into the inverse: h8 and h4_02 or h4_13.
Correction(s, n) ==
    Xor(gmul8(ColumnSum(s, n)), gmul4(Xor(Below(s, n, 0), Below(s, n, 2))))

inv_mix_columns(s) == [n \in Index |-> Xor(mix_columns(s)[n], Correction(s, n))]

\* tmp = s[c[1]]; s[c[1]] = s[c[2]]; ...; s[c[n]] = tmp
Rotate(s, c) ==
    [n \in Index |-> IF \E m \in DOMAIN c : c[m] = n
                     THEN s[c[((CHOOSE m \in DOMAIN c : c[m] = n) % Len(c)) + 1]]
                     ELSE s[n]]

SwapRow2(s) == Rotate(Rotate(s, <<2, 10>>), <<6, 14>>)

shift_rows(s) == Rotate(SwapRow2(Rotate(s, <<1, 5, 9, 13>>)), <<15, 11, 7, 3>>)

\* Fault: row 3 moves the way it does in shift_rows.
inv_shift_rowsRow3Forward(s) ==
    Rotate(SwapRow2(Rotate(s, <<13, 9, 5, 1>>)), <<15, 11, 7, 3>>)

inv_shift_rows(s) == Rotate(SwapRow2(Rotate(s, <<13, 9, 5, 1>>)), <<3, 7, 11, 15>>)

-----------------------------------------------------------------------------
(* The tables *)

sbox == <<
  \h63, \h7c, \h77, \h7b, \hf2, \h6b, \h6f, \hc5, \h30, \h01, \h67, \h2b, \hfe, \hd7, \hab, \h76,
  \hca, \h82, \hc9, \h7d, \hfa, \h59, \h47, \hf0, \had, \hd4, \ha2, \haf, \h9c, \ha4, \h72, \hc0,
  \hb7, \hfd, \h93, \h26, \h36, \h3f, \hf7, \hcc, \h34, \ha5, \he5, \hf1, \h71, \hd8, \h31, \h15,
  \h04, \hc7, \h23, \hc3, \h18, \h96, \h05, \h9a, \h07, \h12, \h80, \he2, \heb, \h27, \hb2, \h75,
  \h09, \h83, \h2c, \h1a, \h1b, \h6e, \h5a, \ha0, \h52, \h3b, \hd6, \hb3, \h29, \he3, \h2f, \h84,
  \h53, \hd1, \h00, \hed, \h20, \hfc, \hb1, \h5b, \h6a, \hcb, \hbe, \h39, \h4a, \h4c, \h58, \hcf,
  \hd0, \hef, \haa, \hfb, \h43, \h4d, \h33, \h85, \h45, \hf9, \h02, \h7f, \h50, \h3c, \h9f, \ha8,
  \h51, \ha3, \h40, \h8f, \h92, \h9d, \h38, \hf5, \hbc, \hb6, \hda, \h21, \h10, \hff, \hf3, \hd2,
  \hcd, \h0c, \h13, \hec, \h5f, \h97, \h44, \h17, \hc4, \ha7, \h7e, \h3d, \h64, \h5d, \h19, \h73,
  \h60, \h81, \h4f, \hdc, \h22, \h2a, \h90, \h88, \h46, \hee, \hb8, \h14, \hde, \h5e, \h0b, \hdb,
  \he0, \h32, \h3a, \h0a, \h49, \h06, \h24, \h5c, \hc2, \hd3, \hac, \h62, \h91, \h95, \he4, \h79,
  \he7, \hc8, \h37, \h6d, \h8d, \hd5, \h4e, \ha9, \h6c, \h56, \hf4, \hea, \h65, \h7a, \hae, \h08,
  \hba, \h78, \h25, \h2e, \h1c, \ha6, \hb4, \hc6, \he8, \hdd, \h74, \h1f, \h4b, \hbd, \h8b, \h8a,
  \h70, \h3e, \hb5, \h66, \h48, \h03, \hf6, \h0e, \h61, \h35, \h57, \hb9, \h86, \hc1, \h1d, \h9e,
  \he1, \hf8, \h98, \h11, \h69, \hd9, \h8e, \h94, \h9b, \h1e, \h87, \he9, \hce, \h55, \h28, \hdf,
  \h8c, \ha1, \h89, \h0d, \hbf, \he6, \h42, \h68, \h41, \h99, \h2d, \h0f, \hb0, \h54, \hbb, \h16 >>

inv_sbox == <<
  \h52, \h09, \h6a, \hd5, \h30, \h36, \ha5, \h38, \hbf, \h40, \ha3, \h9e, \h81, \hf3, \hd7, \hfb,
  \h7c, \he3, \h39, \h82, \h9b, \h2f, \hff, \h87, \h34, \h8e, \h43, \h44, \hc4, \hde, \he9, \hcb,
  \h54, \h7b, \h94, \h32, \ha6, \hc2, \h23, \h3d, \hee, \h4c, \h95, \h0b, \h42, \hfa, \hc3, \h4e,
  \h08, \h2e, \ha1, \h66, \h28, \hd9, \h24, \hb2, \h76, \h5b, \ha2, \h49, \h6d, \h8b, \hd1, \h25,
  \h72, \hf8, \hf6, \h64, \h86, \h68, \h98, \h16, \hd4, \ha4, \h5c, \hcc, \h5d, \h65, \hb6, \h92,
  \h6c, \h70, \h48, \h50, \hfd, \hed, \hb9, \hda, \h5e, \h15, \h46, \h57, \ha7, \h8d, \h9d, \h84,
  \h90, \hd8, \hab, \h00, \h8c, \hbc, \hd3, \h0a, \hf7, \he4, \h58, \h05, \hb8, \hb3, \h45, \h06,
  \hd0, \h2c, \h1e, \h8f, \hca, \h3f, \h0f, \h02, \hc1, \haf, \hbd, \h03, \h01, \h13, \h8a, \h6b,
  \h3a, \h91, \h11, \h41, \h4f, \h67, \hdc, \hea, \h97, \hf2, \hcf, \hce, \hf0, \hb4, \he6, \h73,
  \h96, \hac, \h74, \h22, \he7, \had, \h35, \h85, \he2, \hf9, \h37, \he8, \h1c, \h75, \hdf, \h6e,
  \h47, \hf1, \h1a, \h71, \h1d, \h29, \hc5, \h89, \h6f, \hb7, \h62, \h0e, \haa, \h18, \hbe, \h1b,
  \hfc, \h56, \h3e, \h4b, \hc6, \hd2, \h79, \h20, \h9a, \hdb, \hc0, \hfe, \h78, \hcd, \h5a, \hf4,
  \h1f, \hdd, \ha8, \h33, \h88, \h07, \hc7, \h31, \hb1, \h12, \h10, \h59, \h27, \h80, \hec, \h5f,
  \h60, \h51, \h7f, \ha9, \h19, \hb5, \h4a, \h0d, \h2d, \he5, \h7a, \h9f, \h93, \hc9, \h9c, \hef,
  \ha0, \he0, \h3b, \h4d, \hae, \h2a, \hf5, \hb0, \hc8, \heb, \hbb, \h3c, \h83, \h53, \h99, \h61,
  \h17, \h2b, \h04, \h7e, \hba, \h77, \hd6, \h26, \he1, \h69, \h14, \h63, \h55, \h21, \h0c, \h7d >>

Number(x) == LET Bit(n) == IF n \in x THEN 2^n ELSE 0
             IN Bit(0) + Bit(1) + Bit(2) + Bit(3) + Bit(4) + Bit(5) + Bit(6) + Bit(7)
Bits(v) == {n \in 0 .. 7 : (v \div 2^n) % 2 = 1}

\* The tables of C start at 0, those of TLA+ at 1.
SubOf == [x \in Byte |-> Bits(sbox[Number(x) + 1])]
InvSubOf == [x \in Byte |-> Bits(inv_sbox[Number(x) + 1])]

sub_bytes(s) == [n \in Index |-> SubOf[s[n]]]
inv_sub_bytes(s) == [n \in Index |-> InvSubOf[s[n]]]
=============================================================================
