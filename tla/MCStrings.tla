----------------------------- MODULE MCStrings -----------------------------
(* Strings over the numbers at which the encodings change: the first and   *)
(* last codepoints of each length, both kinds of surrogates, codepoints    *)
(* that look like surrogates but for their higher bits, lead bytes of      *)
(* every length, overlong and too large ones, and continuation bytes       *)
(* around the bounds of table 3-7.  Names of up to three units, with every *)
(* kind of unit behind them; names of nothing but the longest codepoints   *)
(* among them.                                                             *)
EXTENDS HeaderStrings

Over(S, n) == UNION {[1 .. k -> S] : k \in 0 .. n}
Units == {65, 127, 128, 2047, 2048, 55296, 55414, 56319, 56320, 57343, 57344, 65533, 65535}
PairUnits == {65, 2048, 55296, 55414, 56320, 57343}
NameUnits == {65, 127, 128, 2047, 2048, 55296, 56320, 57344, 65535}
Bytes == {65, 128, 144, 159, 160, 191, 193, 195, 224, 237, 239, 240, 244, 248}
Tails == [1 .. 3 -> {65, 143, 144, 159, 160, 191, 195}]
MCSources ==
  LET units == Over(Units, 3) \cup Over(PairUnits, 4)
      bytes == Over(Bytes, 3) \cup {<<lead>> \o t : lead \in {237, 240, 244, 248}, t \in Tails}
                 \cup {<<240, 157, 160, 128>>, <<240, 157, 160, 128, 65>>}
  IN  [f \in Functions |-> IF f = "utf16_to_utf8" THEN units ELSE bytes]
MCLimits == {NoTarget, 1, 4, 9}
MCMemories ==
  {name \o <<0, behind>> : name \in Over(NameUnits, 3), behind \in NameUnits \cup {0}}
=============================================================================
