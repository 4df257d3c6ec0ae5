----------------------------- MODULE Converter -----------------------------
(***************************************************************************)
(* utf16_to_utf8 and utf8_to_utf16 (lib/converter.c): one pass of the loop *)
(* each step.  A pass decodes one codepoint and encodes it into the target *)
(* if there is room for all of it; without a target it counts.             *)
(*                                                                         *)
(* A client converts with a target of the size it chose, or asks for the   *)
(* size first and converts into a target of just that size (Retry).        *)
(***************************************************************************)
EXTENDS Unicode

CONSTANTS Sources,      \* by function, the strings converted
          Limits        \* sizes of targets; NoTarget asks for the size

NoTarget == -1
Functions == {"utf16_to_utf8", "utf8_to_utf16"}
UINT8_MAX == 255
UINT16_MAX == 65535
utf8_t == 0 .. UINT8_MAX
utf16_t == 0 .. UINT16_MAX
UTF16 == Seq(utf16_t)
UTF8 == Seq(utf8_t)

ASSUME SourcesAssumption ==
  /\ Sources \in [Functions -> SUBSET Seq(Nat)]
  /\ Sources["utf16_to_utf8"] \subseteq UTF16
  /\ Sources["utf8_to_utf16"] \subseteq UTF8
ASSUME LimitsAssumption == Limits \subseteq Nat \cup {NoTarget}

VARIABLES form,     \* which function
          source,   \* the string converted
          limit,    \* the size of the target, or NoTarget
          next,     \* the unit of the source that is read next
          index,    \* the first empty index of the target, or the size needed
          target,   \* what was written
          dropped,  \* history: the number of codepoints that found no room
          client    \* history: the string that the client began with, whether
                    \* it asked for the size, and whether it is the string
                    \* buffer of a header
vars == <<form, source, limit, next, index, target, dropped, client>>
-----------------------------------------------------------------------------
INVALID_CODEPOINT == 65533
UNICODE_MAX == 1114111
BMP_END == 65535
UTF8_1_MAX == 127
UTF8_2_MAX == 2047
UTF8_3_MAX == 65535

(* A decoded codepoint and the index of the last unit it was read from.    *)
Decoded(codepoint, last) == [codepoint |-> codepoint, last |-> last]
Invalid(last) == Decoded(INVALID_CODEPOINT, last)

IsSurrogate(u) == (u \div 2048) * 2048 = 55296
IsHigh(u) == (u \div 1024) * 1024 = 55296
IsLow(u) == (u \div 1024) * 1024 = 56320

SurrogateCodepoint(h, l) == (h % 1024) * 1024 + (l % 1024) + 65536

decode_utf16_greedy(s, i) ==   \* mutant
  IF ~IsSurrogate(s[i]) THEN Decoded(s[i], i)
  ELSE IF ~IsHigh(s[i]) \/ i = Len(s) THEN Invalid(i)
  ELSE IF ~IsLow(s[i + 1]) THEN Invalid(i + 1)
  ELSE Decoded(SurrogateCodepoint(s[i], s[i + 1]), i + 1)
decode_utf16(s, i) ==
  IF ~IsSurrogate(s[i]) THEN Decoded(s[i], i)
  ELSE IF ~IsHigh(s[i]) \/ i = Len(s) \/ ~IsLow(s[i + 1]) THEN Invalid(i)
  ELSE Decoded(SurrogateCodepoint(s[i], s[i + 1]), i + 1)

calculate_utf8_len(c) ==
  IF c <= UTF8_1_MAX THEN 1
  ELSE IF c <= UTF8_2_MAX THEN 2 ELSE IF c <= UTF8_3_MAX THEN 3 ELSE 4
calculate_utf16_len(c) == IF c <= BMP_END THEN 1 ELSE 2

(* utf8_leading_bytes: the bits that are left to the codepoint (2^bits,    *)
(* the part that is not masked) and the value of the others.               *)
utf8_leading_bytes ==
  <<[span |-> 128, value |-> 0], [span |-> 32, value |-> 192],
    [span |-> 16, value |-> 224], [span |-> 8, value |-> 240]>>
Matches(b, n) ==
  LET pattern == utf8_leading_bytes[n]
  IN  (b \div pattern.span) * pattern.span = pattern.value

(* The bytes that encode_utf8 writes, the continuation bytes by the bits   *)
(* that are still above theirs.                                            *)
Utf8Bytes(c) ==
  LET size == calculate_utf8_len(c)
      Above(k) == CASE k = 0 -> c [] k = 1 -> c \div 64 [] k = 2 -> c \div 4096
                    [] OTHER -> c \div 262144
      pattern == utf8_leading_bytes[size]
  IN  [k \in 1 .. size |->
         IF k = 1 THEN pattern.value + (Above(size - 1) % pattern.span)
         ELSE 128 + (Above(size - k) % 64)]

(* The continuation bytes behind i that decode_utf8 takes, at most n.      *)
IsContinuation(b) == (b \div 64) * 64 = 128
Following(s, i, n) ==
  CHOOSE k \in 0 .. n :
    /\ \A j \in 1 .. k : i + j <= Len(s) /\ IsContinuation(s[i + j])
    /\ k < n => i + k + 1 > Len(s) \/ ~IsContinuation(s[i + k + 1])

IsInvalidCodepointSurrogate(c, size) ==   \* mutant
  calculate_utf8_len(c) # size \/ c > UNICODE_MAX
IsInvalidCodepoint(c, size) ==
  calculate_utf8_len(c) # size \/ (c < BMP_END /\ IsSurrogate(c)) \/ c > UNICODE_MAX

(* The bits of a codepoint gathered from a lead and k bytes that follow.   *)
Gathered(s, i, lead, k) ==
  LET Bits(j) == s[i + j] % 64
  IN  CASE k = 0 -> lead
        [] k = 1 -> 64 * lead + Bits(1)
        [] k = 2 -> 4096 * lead + 64 * Bits(1) + Bits(2)
        [] OTHER -> 262144 * lead + 4096 * Bits(1) + 64 * Bits(2) + Bits(3)

decode_utf8(s, i) ==
  IF \A n \in 1 .. 4 : ~Matches(s[i], n) THEN Invalid(i)
  ELSE LET size == CHOOSE n \in 1 .. 4 : Matches(s[i], n)
           k == Following(s, i, size - 1)
           c == Gathered(s, i, s[i] % utf8_leading_bytes[size].span, k)
       IN  IF k < size - 1 \/ IsInvalidCodepoint(c, size)
           THEN Invalid(i + k) ELSE Decoded(c, i + k)

Utf16Units(c) ==
  IF c <= BMP_END THEN <<c>>
  ELSE LET d == c - 65536
       IN  <<55296 + ((d \div 1024) % 1024), 56320 + (d % 1024)>>
-----------------------------------------------------------------------------
Start(f, s, n) ==
  /\ form = f /\ source = s /\ limit = n
  /\ next = 1 /\ index = 0 /\ target = <<>> /\ dropped = 0
NewClient(s, name) == [first |-> s, asked |-> FALSE, name |-> name]
Init ==
  /\ \E f \in Functions : \E s \in Sources[f], n \in Limits : Start(f, s, n)
  /\ client = NewClient(source, FALSE)

Finished == next > Len(source)
Read ==
  IF form = "utf16_to_utf8" THEN decode_utf16(source, next) ELSE decode_utf8(source, next)
Code(c) == IF form = "utf16_to_utf8" THEN Utf8Bytes(c) ELSE Utf16Units(c)
Size(c) ==
  IF form = "utf16_to_utf8" THEN calculate_utf8_len(c) ELSE calculate_utf16_len(c)

HasRoomForOne(c) == index < limit   \* mutant
HasRoom(c) == index + Size(c) <= limit

Advance(last) == next' = last + 1 /\ UNCHANGED <<form, source, limit, client>>

Count ==
  /\ ~Finished /\ limit = NoTarget
  /\ index' = index + Size(Read.codepoint)
  /\ UNCHANGED <<target, dropped>>
  /\ Advance(Read.last)

Write ==
  /\ ~Finished /\ limit # NoTarget /\ HasRoom(Read.codepoint)
  /\ target' = target \o Code(Read.codepoint)
  /\ index' = index + Size(Read.codepoint)
  /\ UNCHANGED dropped
  /\ Advance(Read.last)

Drop ==
  /\ ~Finished /\ limit # NoTarget /\ ~HasRoom(Read.codepoint)
  /\ dropped' = dropped + 1
  /\ UNCHANGED <<target, index>>
  /\ Advance(Read.last)

Pass == Count \/ Write \/ Drop

Retry ==
  /\ Finished /\ limit = NoTarget
  /\ limit' = index
  /\ next' = 1 /\ index' = 0 /\ target' = <<>> /\ dropped' = 0
  /\ client' = [client EXCEPT !.asked = TRUE]
  /\ UNCHANGED <<form, source>>

Next == Pass \/ Retry
-----------------------------------------------------------------------------
(* Type correctness.  The target is never written beyond its size, and     *)
(* index is where it ends.                                                 *)
ConverterTypeOK ==
  /\ form \in Functions
  /\ source \in (IF form = "utf16_to_utf8" THEN UTF16 ELSE UTF8)
  /\ limit \in Nat \cup {NoTarget}
  /\ next \in 1 .. Len(source) + 1
  /\ target \in (IF form = "utf16_to_utf8" THEN UTF8 ELSE UTF16)
  /\ index \in Nat /\ dropped \in Nat
  /\ client \in [first : Seq(Nat), asked : BOOLEAN, name : BOOLEAN]
  /\ limit = NoTarget => target = <<>>
  /\ limit # NoTarget => index = Len(target) /\ index <= limit

(* However small the target and whatever the source, the target never has  *)
(* half of a character or anything that is not one: utf16_to_utf8 and      *)
(* utf8_to_utf16 turn ill-formed strings into well-formed ones.            *)
TargetIsText ==
  IF form = "utf16_to_utf8" THEN IsText8(target) ELSE IsText16(target)

(* The whole text arrives in a target of the size that the function itself *)
(* asked for, or of the size that the longest codepoints need: no          *)
(* character is left out, and none is invented but replacement characters. *)
Roomy ==
  \/ client.asked /\ limit # NoTarget
  \/ limit >= Len(source) * (IF form = "utf16_to_utf8" THEN 3 ELSE 1)
Known(text) == SelectSeq(text, LAMBDA c : c # Replacement)
TextArrives ==
  Finished /\ Roomy =>
    /\ dropped = 0
    /\ client.asked => Len(target) = limit
    /\ IF form = "utf16_to_utf8" THEN Text8(target) = Text16(source)
       ELSE Known(Text16(target)) = Known(Text8(source))
=============================================================================
