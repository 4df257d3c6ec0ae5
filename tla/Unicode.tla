------------------------------ MODULE Unicode ------------------------------
(***************************************************************************)
(* What UTF-16 and UTF-8 are, from the standard: the reference that the    *)
(* converters are compared with.  A string is a sequence of numbers, code  *)
(* units of 16 bits or bytes.                                              *)
(***************************************************************************)
EXTENDS Integers, Sequences

LastScalar == 1114111
Scalar(c) == 0 <= c /\ c <= LastScalar /\ ~(55296 <= c /\ c <= 57343)
Replacement == 65533

High(u) == u \in 55296 .. 56319
Low(u) == u \in 56320 .. 57343

(* Whether a surrogate pair begins at i, and the scalar value it encodes.  *)
IsPair(s, i) == i \in 1 .. Len(s) - 1 /\ High(s[i]) /\ Low(s[i + 1])
PairValue(h, l) == 65536 + 1024 * (h - 55296) + (l - 56320)

(* The scalar values of UTF-16: one for each unit but the second of a pair,  *)
(* and the replacement character for a surrogate that has no partner.      *)
Scalar16(s, i) ==
  IF IsPair(s, i) THEN PairValue(s[i], s[i + 1])
  ELSE IF Scalar(s[i]) THEN s[i] ELSE Replacement
At(s, P(_)) == SelectSeq([i \in 1 .. Len(s) |-> i], P)
Text16(s) ==
  LET begins == At(s, LAMBDA i : ~IsPair(s, i - 1))
  IN  [k \in DOMAIN begins |-> Scalar16(s, begins[k])]

(* Well-formed byte sequences, by their first bytes (table 3-7).           *)
Continues(b) == b \in 128 .. 191
WellFormed(s, i, n) ==
  /\ i \in 1 .. Len(s) - n + 1
  /\ \A k \in 2 .. n : Continues(s[i + k - 1])
  /\ CASE n = 1 -> s[i] \in 0 .. 127
       [] n = 2 -> s[i] \in 194 .. 223
       [] n = 3 -> \/ s[i] = 224 /\ s[i + 1] >= 160
                   \/ s[i] \in 225 .. 239 \ {237}
                   \/ s[i] = 237 /\ s[i + 1] <= 159
       [] OTHER -> \/ s[i] = 240 /\ s[i + 1] >= 144
                   \/ s[i] \in 241 .. 243
                   \/ s[i] = 244 /\ s[i + 1] <= 143
IsCharacter(s, i) == \E n \in 1 .. 4 : WellFormed(s, i, n)
Scalar8(s, i) ==
  CASE WellFormed(s, i, 1) -> s[i]
    [] WellFormed(s, i, 2) -> 64 * (s[i] - 192) + s[i + 1] - 128
    [] WellFormed(s, i, 3) -> 4096 * (s[i] - 224) + 64 * (s[i + 1] - 128) + s[i + 2] - 128
    [] OTHER -> 262144 * (s[i] - 240) + 4096 * (s[i + 1] - 128) + 64 * (s[i + 2] - 128)
                  + s[i + 3] - 128

(* The characters of a string of bytes, and whether it has nothing else.   *)
Text8(s) ==
  LET begins == At(s, LAMBDA i : IsCharacter(s, i))
  IN  [k \in DOMAIN begins |-> Scalar8(s, begins[k])]
IsText8(s) ==
  \A i \in DOMAIN s : \E j \in 1 .. i, n \in 1 .. 4 : WellFormed(s, j, n) /\ i < j + n

(* Whether a string of units has nothing but scalar values.                *)
IsText16(s) ==
  \A i \in DOMAIN s : Scalar(s[i]) \/ IsPair(s, i) \/ IsPair(s, i - 1)
=============================================================================
