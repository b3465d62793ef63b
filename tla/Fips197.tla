------------------------------- MODULE Fips197 -------------------------------
(***************************************************************************)
(* What the AES instructions are defined to compute, by FIPS 197 and the   *)
(* instruction set's reference: the yardstick for AesRound's in-place and  *)
(* factored forms, with which it shares the representation of bytes only.  *)
(***************************************************************************)
EXTENDS AesRound, FiniteSets

Odd(S) == Cardinality(S) % 2 = 1

\* x times the polynomial "x", modulo x^8 + x^4 + x^3 + x + 1.
Twice(x) == LET y == {k + 1 : k \in x} IN IF 8 \in y THEN Xor(y, {0, 1, 3, 4, 8}) ELSE y

\* c * x: the terms of c times x, x^2, ...
Times(c, x) ==
  LET x2 == Twice(x)  x4 == Twice(x2)  x8 == Twice(x4)  x16 == Twice(x8)
      x32 == Twice(x16)  x64 == Twice(x32)  x128 == Twice(x64)
      power == <<x, x2, x4, x8, x16, x32, x64, x128>>
  IN {k \in 0 .. 7 : Odd({n \in c : k \in power[n + 1]})}

Reciprocal(x) == IF x = {} THEN {} ELSE CHOOSE y \in Byte : Times(x, y) = {0}

\* The S-box: the inverse, then an affine map with the constant 63.
Affine(y) ==
  {k \in 0 .. 7 : Odd({n \in {0, 4, 5, 6, 7} : (k + n) % 8 \in y}) # (k \in {0, 1, 5, 6})}

\* Tables of both directions, at Number(x) + 1.
Byte256 == 1 .. 256
Substitutes == SubSeq([n \in Byte256 |-> Affine(Reciprocal(Bits(n - 1)))], 1, 256)
Unsubstitutes ==
  SubSeq([n \in Byte256 |-> Bits((CHOOSE m \in Byte256 : Substitutes[m] = Bits(n - 1)) - 1)],
         1, 256)

\* Row r of the matrix (byte r of every column) moves by r columns.
Shifted(s) == [n \in Index |-> s[(n % 4) + 4 * (((n \div 4) + (n % 4)) % 4)]]
Unshifted(s) == [n \in Index |-> s[(n % 4) + 4 * (((n \div 4) - (n % 4)) % 4)]]

\* Every column times the circulant matrix whose first row is c.
Mixed(s, c) ==
  LET term(n, r) == Times(c[r + 1], Below(s, n, r))
  IN [n \in Index |-> Xor(Xor(term(n, 0), term(n, 1)), Xor(term(n, 2), term(n, 3)))]
Direct == <<{1}, {0, 1}, {0}, {0}>>                     \* 02 03 01 01
Inverted == <<{1, 2, 3}, {0, 1, 3}, {0, 2, 3}, {0, 3}>> \* 0e 0b 0d 09

Mapped(table, s) == [n \in Index |-> table[Number(s[n]) + 1]]

\* The tables of the program, entry by entry.
TablesAreDefined ==
  \A x \in Byte : /\ SubOf[x] = Substitutes[Number(x) + 1]
                  /\ InvSubOf[x] = Unsubstitutes[Number(x) + 1]

\* The tables of the program undo each other.
TablesAreInverse == \A x \in Byte : InvSubOf[SubOf[x]] = x

Plus(s, key) == [n \in Index |-> Xor(s[n], key[n])]

AesResult(op, s, key) ==
  CASE op = "aesenc" -> Plus(Mixed(Mapped(Substitutes, Shifted(s)), Direct), key)
    [] op = "aesenclast" -> Plus(Mapped(Substitutes, Shifted(s)), key)
    [] op = "aesdec" -> Plus(Mixed(Mapped(Unsubstitutes, Unshifted(s)), Inverted), key)
    [] op = "aesdeclast" -> Plus(Mapped(Unsubstitutes, Unshifted(s)), key)
    [] op = "aesimc" -> Mixed(key, Inverted)
=============================================================================
