-------------------------- MODULE ConverterProofs --------------------------
(***************************************************************************)
(* The converters stay inside their targets whatever they are given, and   *)
(* the string buffers of the headers are large enough for every name.      *)
(***************************************************************************)
EXTENDS HeaderStrings, SequenceTheorems, TLAPS

LEMMA DivMod ==
  ASSUME NEW m \in Nat \ {0}, NEW x \in Nat
  PROVE  /\ x % m \in 0 .. m - 1
         /\ x \div m \in Nat
         /\ x = m * (x \div m) + (x % m)
  OBVIOUS

Codepoint == 0 .. UNICODE_MAX

LEMMA Values ==
  /\ UINT8_MAX = 255 /\ UINT16_MAX = 65535 /\ BMP_END = 65535 /\ UTF8_3_MAX = 65535
  /\ UNICODE_MAX = 1114111 /\ INVALID_CODEPOINT = 65533
  BY SMT DEF UINT8_MAX, UINT16_MAX, BMP_END, UTF8_3_MAX, UNICODE_MAX, INVALID_CODEPOINT

LEMMA Bounds ==
  /\ {UINT8_MAX, UINT16_MAX, BMP_END, UTF8_3_MAX, UNICODE_MAX, INVALID_CODEPOINT} \subseteq Nat
  /\ UINT16_MAX = BMP_END /\ UTF8_3_MAX = BMP_END /\ BMP_END < UNICODE_MAX
  /\ INVALID_CODEPOINT <= BMP_END
  BY Values, SMT

(* A unit, or a pair of them, is decoded to a codepoint of Unicode, and    *)
(* nothing is read outside of the source.                                  *)
LEMMA Units16 ==
  ASSUME NEW s \in UTF16, NEW i \in 1 .. Len(s)
  PROVE  s[i] \in Nat /\ s[i] <= UINT16_MAX /\ Len(s) \in Nat
<1>1. s[i] \in utf16_t
  BY ElementOfSeq, SMT DEF UTF16
<1>2. Len(s) \in Nat
  BY LenProperties, SMT DEF UTF16
<1> QED BY <1>1, <1>2, Bounds, SMT DEF utf16_t

LEMMA Decode16 ==
  ASSUME NEW s \in UTF16, NEW i \in 1 .. Len(s)
  PROVE  LET d == decode_utf16(s, i)
         IN  /\ d.codepoint \in Codepoint
             /\ d.last \in i .. Len(s)
             /\ d.last = i => d.codepoint <= UINT16_MAX
             /\ d.last # i => d.last = i + 1 /\ i < Len(s) /\ IsLow(s[i + 1])
<1>1. s[i] \in Nat /\ s[i] <= UINT16_MAX /\ Len(s) \in Nat
  BY Units16, SMT
<1> DEFINE pair == IsSurrogate(s[i]) /\ IsHigh(s[i]) /\ i # Len(s) /\ IsLow(s[i + 1])
           code == SurrogateCodepoint(s[i], s[i + 1])
<1>2. decode_utf16(s, i) = IF pair THEN Decoded(code, i + 1)
                           ELSE IF IsSurrogate(s[i]) THEN Invalid(i) ELSE Decoded(s[i], i)
  BY SMT DEF decode_utf16
<1>3. ASSUME pair
      PROVE  code \in Codepoint /\ i + 1 \in i .. Len(s) /\ i < Len(s) /\ IsLow(s[i + 1])
  <2>1. i + 1 \in 1 .. Len(s) /\ i < Len(s)
    BY <1>3, <1>1, SMT
  <2>2. s[i + 1] \in Nat
    BY <2>1, Units16, SMT
  <2>3. code \in Nat /\ code <= UNICODE_MAX
    <3>1. /\ s[i] % 1024 \in Nat /\ s[i] % 1024 <= 1023
          /\ s[i + 1] % 1024 \in Nat /\ s[i + 1] % 1024 <= 1023
      BY <1>1, <2>2, SMT
    <3> QED BY <3>1, Values, SMT DEF SurrogateCodepoint
  <2> QED BY <1>3, <2>1, <2>3, Bounds, SMT DEF Codepoint
<1> HIDE DEF pair, code
<1>4. CASE pair
  BY <1>2, <1>3, <1>4, <1>1, SMT DEF Decoded, pair
<1>5. CASE ~pair
  BY <1>2, <1>5, <1>1, Bounds, SMT DEF Decoded, Invalid, Codepoint
<1> QED BY <1>4, <1>5, SMT

(* encode_utf8 writes as many bytes as calculate_utf8_len announces.       *)
LEMMA Size8 ==
  ASSUME NEW c \in Codepoint
  PROVE  /\ calculate_utf8_len(c) \in 1 .. 4
         /\ c <= UINT16_MAX => calculate_utf8_len(c) <= 3
  BY Bounds, SMT DEF calculate_utf8_len, Codepoint

LEMMA Encode8 ==
  ASSUME NEW c \in Codepoint
  PROVE  /\ Utf8Bytes(c) \in UTF8
         /\ Len(Utf8Bytes(c)) = calculate_utf8_len(c)
<1> DEFINE size == calculate_utf8_len(c)
           Above(k) == CASE k = 0 -> c [] k = 1 -> c \div 64 [] k = 2 -> c \div 4096
                         [] OTHER -> c \div 262144
           pattern == utf8_leading_bytes[size]
           Byte(k) == IF k = 1 THEN pattern.value + (Above(size - 1) % pattern.span)
                      ELSE 128 + (Above(size - k) % 64)
<1>5. Utf8Bytes(c) = [k \in 1 .. size |-> Byte(k)]
  BY SMT DEF Utf8Bytes
<1>1. size \in 1 .. 4
  BY Size8, SMT
<1>c. c \in Nat
  BY Bounds, SMT DEF Codepoint
<1>2. \A k \in Int : Above(k) \in Nat
  <2>1. c \div 64 \in Nat /\ c \div 4096 \in Nat /\ c \div 262144 \in Nat
    BY <1>c, SMT
  <2> QED BY <2>1, <1>c, SMT
<1>3. /\ pattern.span \in Nat \ {0} /\ pattern.value \in Nat
      /\ pattern.value + pattern.span <= 256
  BY <1>1, SMT DEF utf8_leading_bytes
<1>4. ASSUME NEW k \in 1 .. size PROVE Byte(k) \in utf8_t
  <2> HIDE DEF Above, size, pattern
  <2>1. Above(size - 1) \in Nat /\ Above(size - k) \in Nat
    BY <1>1, <1>2, SMT
  <2>2. Above(size - 1) % pattern.span \in 0 .. pattern.span - 1
    <3> DEFINE x == Above(size - 1)
               m == pattern.span
    <3>1. x \in Nat /\ m \in Nat \ {0}
      BY <2>1, <1>3, SMT
    <3> HIDE DEF x, m
    <3>2. x % m \in 0 .. m - 1
      BY <3>1, DivMod, SMT
    <3> QED BY <3>2 DEF x, m
  <2>3. Above(size - k) % 64 \in Nat /\ Above(size - k) % 64 < 64
    BY <2>1, SMT
  <2>4. Byte(k) \in Nat /\ Byte(k) <= UINT8_MAX
    BY <2>2, <2>3, <1>3, Values, SMT
  <2> QED BY <2>4, Bounds, SMT DEF utf8_t
<1> HIDE DEF Byte, size, pattern, Above
<1>6. Utf8Bytes(c) \in Seq(utf8_t) /\ Len(Utf8Bytes(c)) = size
  BY <1>1, <1>4, <1>5, SMT
<1> QED BY <1>6, SMT DEF size, UTF8

(* A continuation chain as decode_utf8 takes it exists, and lies in the    *)
(* source.                                                                 *)
LEMMA Bytes8 ==
  ASSUME NEW s \in UTF8, NEW i \in 1 .. Len(s)
  PROVE  s[i] \in Nat /\ Len(s) \in Nat
<1>1. s[i] \in utf8_t
  BY ElementOfSeq, SMT DEF UTF8
<1>2. Len(s) \in Nat
  BY LenProperties, SMT DEF UTF8
<1> QED BY <1>1, <1>2, Bounds, SMT DEF utf8_t

LEMMA Chain ==
  ASSUME NEW s \in UTF8, NEW i \in 1 .. Len(s), NEW n \in 0 .. 3
  PROVE  /\ Following(s, i, n) \in 0 .. n
         /\ \A j \in 1 .. Following(s, i, n) : i + j \in 1 .. Len(s)
<1> DEFINE Good(j) == i + j <= Len(s) /\ IsContinuation(s[i + j])
           Fits(k) == /\ \A j \in 1 .. k : Good(j)
                      /\ k < n => i + k + 1 > Len(s) \/ ~IsContinuation(s[i + k + 1])
<1>1. Len(s) \in Nat
  BY Bytes8, SMT
<1>2. \E k \in 0 .. n : Fits(k)
  <2> HIDE DEF Good
  <2>1. \A k \in 0 .. 3 : (\A j \in 1 .. k : Good(j)) /\ (k < n => ~Good(k + 1)) => Fits(k)
    BY <1>1, SMT DEF Good
  <2>2. CASE n = 0 \/ ~Good(1)
    BY <2>1, <2>2, SMT
  <2>3. CASE n >= 1 /\ Good(1) /\ (n = 1 \/ ~Good(2))
    <3>1. \A j \in 1 .. 1 : Good(j)
      BY <2>3, SMT
    <3>2. 1 < n => ~Good(2)
      BY <2>3, SMT
    <3>3. Fits(1)
      BY <2>1, <3>1, <3>2, SMT
    <3>4. 1 \in 0 .. n
      BY <2>3, SMT
    <3> HIDE DEF Fits
    <3> QED BY <3>3, <3>4
  <2>4. CASE n >= 2 /\ Good(1) /\ Good(2) /\ (n = 2 \/ ~Good(3))
    <3>1. \A j \in 1 .. 2 : Good(j)
      <4> TAKE j \in 1 .. 2
      <4> j = 1 \/ j = 2
        BY SMT
      <4> QED BY <2>4
    <3>2. 2 < n => ~Good(3)
      BY <2>4, SMT
    <3>3. Fits(2)
      BY <2>1, <3>1, <3>2, SMT
    <3> QED BY <3>3, <2>4, SMT
  <2>5. CASE n = 3 /\ Good(1) /\ Good(2) /\ Good(3)
    <3>1. \A j \in 1 .. 3 : Good(j)
      <4> TAKE j \in 1 .. 3
      <4> j = 1 \/ j = 2 \/ j = 3
        BY SMT
      <4> QED BY <2>5
    <3>2. Fits(3)
      BY <2>1, <2>5, <3>1, SMT
    <3> QED BY <3>2, <2>5, SMT
  <2> QED BY <2>2, <2>3, <2>4, <2>5, SMT
<1>3. Following(s, i, n) = CHOOSE k \in 0 .. n : Fits(k)
  BY DEF Following
<1>4. Following(s, i, n) \in 0 .. n /\ Fits(Following(s, i, n))
  BY <1>2, <1>3, Zenon
<1> QED BY <1>4, <1>1, SMT

LEMMA Weighted ==
  ASSUME NEW a \in Nat, NEW b \in Nat, NEW c \in Nat, NEW d \in Nat
  PROVE  262144 * a + 4096 * b + 64 * c + d \in Nat
  BY SMT

LEMMA Decode8 ==
  ASSUME NEW s \in UTF8, NEW i \in 1 .. Len(s)
  PROVE  LET d == decode_utf8(s, i)
         IN  /\ d.codepoint \in Codepoint
             /\ d.last \in i .. Len(s)
<1> DEFINE size == CHOOSE n \in 1 .. 4 : Matches(s[i], n)
           k == Following(s, i, size - 1)
           lead == s[i] % utf8_leading_bytes[size].span
           c == Gathered(s, i, lead, k)
<1>1. s[i] \in Nat /\ Len(s) \in Nat
  BY Bytes8, SMT
<1>2. CASE \A n \in 1 .. 4 : ~Matches(s[i], n)
  BY <1>2, <1>1, Bounds, SMT DEF decode_utf8, Invalid, Decoded, Codepoint
<1>3. CASE \E n \in 1 .. 4 : Matches(s[i], n)
  <2>1. size \in 1 .. 4
    BY <1>3, Zenon
  <2>2. lead \in Nat
    <3>1. utf8_leading_bytes[size].span \in Nat \ {0}
      <4> HIDE DEF size
      <4> QED BY <2>1, SMT DEF utf8_leading_bytes
    <3> DEFINE m == utf8_leading_bytes[size].span
               x == s[i]
    <3>2. m \in Nat \ {0} /\ x \in Nat
      BY <3>1, <1>1
    <3> HIDE DEF m, x
    <3>3. x % m \in Nat
      BY <3>2, DivMod, SMT
    <3> QED BY <3>3 DEF m, x
  <2>3. k \in 0 .. size - 1 /\ \A j \in 1 .. k : i + j \in 1 .. Len(s)
    <3> HIDE DEF size
    <3>1. size - 1 \in 0 .. 3
      BY <2>1, SMT
    <3> QED BY <3>1, Chain
  <2>4. decode_utf8(s, i) = IF k < size - 1 \/ IsInvalidCodepoint(c, size)
                            THEN Invalid(i + k) ELSE Decoded(c, i + k)
    BY <1>3 DEF decode_utf8
  <2> HIDE DEF size, lead
  <2>5. \A j \in 1 .. k : s[i + j] % 64 \in Nat
    <3>1. ASSUME NEW j \in 1 .. k PROVE s[i + j] \in Nat
      BY <2>3, Bytes8, SMT
    <3> QED BY <3>1, SMT
  <2>k. k \in 0 .. 3
    BY <2>3, <2>1, SMT
  <2> HIDE DEF k
  <2>6. c \in Nat
    <3>1. CASE k = 0
      BY <3>1, <2>2, SMT DEF Gathered
    <3>2. CASE k = 1
      BY <3>2, <2>2, <2>5, SMT DEF Gathered
    <3>3. CASE k = 2
      BY <3>3, <2>2, <2>5, SMT DEF Gathered
    <3>4. CASE k = 3
      <4>1. s[i + 1] % 64 \in Nat /\ s[i + 2] % 64 \in Nat /\ s[i + 3] % 64 \in Nat
        BY <3>4, <2>5, SMT
      <4>2. c = 262144 * lead + 4096 * (s[i + 1] % 64) + 64 * (s[i + 2] % 64) + (s[i + 3] % 64)
        BY <3>4 DEF Gathered
      <4> HIDE DEF c
      <4> QED BY <2>2, <4>1, <4>2, Weighted, SMTT(30)
    <3> QED BY <3>1, <3>2, <3>3, <3>4, <2>k, SMT
  <2> HIDE DEF c
  <2>7. i + k \in i .. Len(s)
    BY <2>3, <2>k, <1>1, SMT
  <2>8. CASE k < size - 1 \/ IsInvalidCodepoint(c, size)
    BY <2>4, <2>8, <2>7, Bounds, SMT DEF Invalid, Decoded, Codepoint
  <2>9. CASE ~(k < size - 1 \/ IsInvalidCodepoint(c, size))
    <3>1. c <= UNICODE_MAX
      BY <2>9, <2>6, Bounds, SMT DEF IsInvalidCodepoint
    <3> QED BY <2>4, <2>9, <2>7, <2>6, <3>1, Bounds, SMT DEF Decoded, Codepoint
  <2> QED BY <2>8, <2>9
<1> QED BY <1>2, <1>3

(* encode_utf16 writes as many units as calculate_utf16_len announces.     *)
LEMMA Encode16 ==
  ASSUME NEW c \in Codepoint
  PROVE  /\ calculate_utf16_len(c) \in Nat
         /\ Utf16Units(c) \in UTF16
         /\ Len(Utf16Units(c)) = calculate_utf16_len(c)
<1>1. c \in Nat
  BY Bounds, SMT DEF Codepoint
<1>2. CASE c <= BMP_END
  <2>1. c \in utf16_t
    BY <1>1, <1>2, Bounds, SMT DEF utf16_t
  <2> HIDE DEF utf16_t
  <2> QED BY <2>1, <1>2, SMT DEF Utf16Units, UTF16, calculate_utf16_len
<1>3. CASE ~(c <= BMP_END)
  <2> DEFINE d == c - 65536
             high == 55296 + ((d \div 1024) % 1024)
             low == 56320 + (d % 1024)
  <2>1. d \in Nat
    BY <1>1, <1>3, Values, SMT
  <2>2. Utf16Units(c) = <<high, low>> /\ calculate_utf16_len(c) = 2
    BY <1>3, SMT DEF Utf16Units, calculate_utf16_len
  <2> HIDE DEF d
  <2>3. /\ (d \div 1024) % 1024 \in Nat /\ (d \div 1024) % 1024 <= 1023
        /\ d % 1024 \in Nat /\ d % 1024 <= 1023
    BY <2>1, SMT
  <2>4. high \in Nat /\ high <= UINT16_MAX /\ low \in Nat /\ low <= UINT16_MAX
    BY <2>3, Values, SMT
  <2> HIDE DEF high, low
  <2>5. high \in utf16_t /\ low \in utf16_t
    BY <2>4, Bounds, SMT DEF utf16_t
  <2> HIDE DEF utf16_t
  <2> QED BY <2>2, <2>5, SMT DEF UTF16
<1> QED BY <1>2, <1>3
-----------------------------------------------------------------------------
(* What a pass reads and writes, in both directions.                       *)
LEMMA PassReads ==
  ASSUME ConverterTypeOK, ~Finished
  PROVE  /\ Read.codepoint \in Codepoint
         /\ Read.last + 1 \in 1 .. Len(source) + 1
         /\ Size(Read.codepoint) \in Nat
         /\ Code(Read.codepoint) \in (IF form = "utf16_to_utf8" THEN UTF8 ELSE UTF16)
         /\ Len(Code(Read.codepoint)) = Size(Read.codepoint)
<1>1. CASE form = "utf16_to_utf8"
  <2>1. source \in UTF16 /\ next \in 1 .. Len(source) + 1
    BY <1>1 DEF ConverterTypeOK
  <2>2. Len(source) \in Nat
    BY <2>1, LenProperties DEF UTF16
  <2>3. next \in 1 .. Len(source)
    BY <2>1, <2>2, SMT DEF Finished
  <2>4. Read = decode_utf16(source, next)
    BY <1>1 DEF Read
  <2>5. Read.codepoint \in Codepoint /\ Read.last \in next .. Len(source)
    BY <2>1, <2>3, <2>4, Decode16
  <2>6. Size(Read.codepoint) = calculate_utf8_len(Read.codepoint)
        /\ Code(Read.codepoint) = Utf8Bytes(Read.codepoint)
    BY <1>1 DEF Size, Code
  <2>7. calculate_utf8_len(Read.codepoint) \in Nat
    BY <2>5, Size8, SMT
  <2>8. Read.last + 1 \in 1 .. Len(source) + 1
    BY <2>3, <2>5, <2>2, SMT
  <2> QED BY <1>1, <2>5, <2>6, <2>7, <2>8, Encode8
<1>2. CASE form = "utf8_to_utf16"
  <2>1. source \in UTF8 /\ next \in 1 .. Len(source) + 1
    BY <1>2 DEF ConverterTypeOK
  <2>2. Len(source) \in Nat
    BY <2>1, LenProperties DEF UTF8
  <2>3. next \in 1 .. Len(source)
    BY <2>1, <2>2, SMT DEF Finished
  <2>4. Read = decode_utf8(source, next)
    BY <1>2 DEF Read
  <2>5. Read.codepoint \in Codepoint /\ Read.last \in next .. Len(source)
    BY <2>1, <2>3, <2>4, Decode8
  <2>6. Size(Read.codepoint) = calculate_utf16_len(Read.codepoint)
        /\ Code(Read.codepoint) = Utf16Units(Read.codepoint)
    BY <1>2 DEF Size, Code
  <2>7. Read.last + 1 \in 1 .. Len(source) + 1
    BY <2>3, <2>5, <2>2, SMT
  <2> QED BY <1>2, <2>5, <2>6, <2>7, Encode16
<1> QED BY <1>1, <1>2 DEF ConverterTypeOK, Functions

(* Concatenation, for both kinds of target.                                *)
LEMMA Joined ==
  ASSUME NEW S, NEW s \in Seq(S), NEW t \in Seq(S)
  PROVE  s \o t \in Seq(S) /\ Len(s \o t) = Len(s) + Len(t)
  BY ConcatProperties

LEMMA PassKeepsType ==
  ASSUME ConverterTypeOK, Pass
  PROVE  ConverterTypeOK'
<1> DEFINE c == Read.codepoint
<1>1. ~Finished
  BY DEF Pass, Count, Write, Drop
<1>2. /\ c \in Codepoint
      /\ Read.last + 1 \in 1 .. Len(source) + 1
      /\ Size(c) \in Nat
      /\ Code(c) \in (IF form = "utf16_to_utf8" THEN UTF8 ELSE UTF16)
      /\ Len(Code(c)) = Size(c)
  BY <1>1, PassReads
<1>3. UNCHANGED <<form, source, limit, client>> /\ next' = Read.last + 1
  BY DEF Pass, Count, Write, Drop, Advance
<1>4. /\ form \in Functions /\ target \in (IF form = "utf16_to_utf8" THEN UTF8 ELSE UTF16)
      /\ source \in (IF form = "utf16_to_utf8" THEN UTF16 ELSE UTF8)
      /\ limit \in Nat \cup {NoTarget} /\ index \in Nat /\ dropped \in Nat
      /\ client \in [first : Seq(Nat), asked : BOOLEAN, name : BOOLEAN]
      /\ limit = NoTarget => target = <<>>
      /\ limit # NoTarget => index = Len(target) /\ index <= limit
  BY DEF ConverterTypeOK
<1> HIDE DEF c
<1>5. CASE Count
  <2>1. index' = index + Size(c) /\ target' = target /\ dropped' = dropped /\ limit = NoTarget
    BY <1>5 DEF Count, c
  <2>2. index' \in Nat
    BY <2>1, <1>2, <1>4, SMT
  <2> QED BY <1>2, <1>3, <1>4, <2>1, <2>2, Zenon DEF ConverterTypeOK
<1>6. CASE Write
  <2>1. /\ index' = index + Size(c) /\ target' = target \o Code(c) /\ dropped' = dropped
        /\ limit # NoTarget /\ index + Size(c) <= limit
    BY <1>6 DEF Write, HasRoom, c
  <2>2. index' \in Nat
    BY <2>1, <1>2, <1>4, SMT
  <2>3. target' \in (IF form = "utf16_to_utf8" THEN UTF8 ELSE UTF16)
        /\ Len(target') = Len(target) + Len(Code(c))
    BY <2>1, <1>2, <1>4, Joined DEF UTF8, UTF16
  <2>4. index' = Len(target') /\ index' <= limit
    BY <2>1, <2>3, <1>2, <1>4
  <2> QED BY <1>2, <1>3, <1>4, <2>1, <2>2, <2>3, <2>4, Zenon DEF ConverterTypeOK
<1>7. CASE Drop
  <2>1. index' = index /\ target' = target /\ dropped' = dropped + 1
    BY <1>7 DEF Drop
  <2>2. dropped' \in Nat
    BY <2>1, <1>4, SMT
  <2> QED BY <1>2, <1>3, <1>4, <2>1, <2>2, Zenon DEF ConverterTypeOK
<1> QED BY <1>5, <1>6, <1>7 DEF Pass

LEMMA StartsRight ==
  ASSUME NEW f \in Functions, NEW s, NEW n \in Nat \cup {NoTarget},
         s \in (IF f = "utf16_to_utf8" THEN UTF16 ELSE UTF8)
  PROVE  1 \in 1 .. Len(s) + 1
<1>1. s \in UTF16 \/ s \in UTF8
  OBVIOUS
<1>2. Len(s) \in Nat
  BY <1>1, LenProperties DEF UTF16, UTF8
<1> QED BY <1>2, SMT

LEMMA InitType ==
  ASSUME NEW f \in Functions, NEW s, NEW n \in Nat \cup {NoTarget},
         s \in (IF f = "utf16_to_utf8" THEN UTF16 ELSE UTF8), s \in Seq(Nat),
         Start(f, s, n), NEW b \in BOOLEAN, NEW first \in Seq(Nat), client = NewClient(first, b)
  PROVE  ConverterTypeOK
<1>1. /\ form = f /\ source = s /\ limit = n /\ next = 1 /\ index = 0 /\ target = <<>> /\ dropped = 0
  BY DEF Start
<1>2. next \in 1 .. Len(source) + 1
  BY <1>1, StartsRight
<1>3. <<>> \in UTF16 /\ <<>> \in UTF8 /\ Len(<<>>) = 0 /\ 0 \in Nat
  BY EmptySeq, SMT DEF UTF16, UTF8
<1>4. n # NoTarget => 0 <= n
  BY SMT
<1>5. client \in [first : Seq(Nat), asked : BOOLEAN, name : BOOLEAN]
  BY <1>1 DEF NewClient
<1> QED BY <1>1, <1>2, <1>3, <1>4, <1>5, Zenon DEF ConverterTypeOK

LEMMA SeqNat ==
  ASSUME NEW s, s \in UTF16 \/ s \in UTF8
  PROVE  s \in Seq(Nat)
<1>1. utf16_t \subseteq Nat /\ utf8_t \subseteq Nat
  BY Bounds, SMT DEF utf16_t, utf8_t
<1> HIDE DEF utf16_t, utf8_t
<1>2. ASSUME NEW S, S \subseteq Nat, s \in Seq(S) PROVE s \in Seq(Nat)
  <2>1. \A i \in 1 .. Len(s) : s[i] \in Nat
    BY <1>2, ElementOfSeq
  <2>2. Len(s) \in Nat /\ s = [i \in 1 .. Len(s) |-> s[i]]
    BY <1>2, LenProperties, SMT
  <2> QED BY <2>1, <2>2, SMT
<1> QED BY <1>1, <1>2 DEF UTF16, UTF8

LEMMA TextInit ==
  ASSUME Init
  PROVE  ConverterTypeOK /\ ~client.name
<1>1. PICK f \in Functions : \E s \in Sources[f], n \in Limits : Start(f, s, n)
  BY DEF Init
<1>2. PICK s \in Sources[f], n \in Limits : Start(f, s, n)
  BY <1>1
<1>3. s \in (IF f = "utf16_to_utf8" THEN UTF16 ELSE UTF8) /\ n \in Nat \cup {NoTarget}
  BY <1>2, SourcesAssumption, LimitsAssumption, Zenon DEF Functions
<1>4. s \in Seq(Nat)
  BY <1>3, SeqNat
<1>5. client = NewClient(s, FALSE)
  BY <1>2 DEF Init, Start
<1>6. ConverterTypeOK
  BY <1>2, <1>3, <1>4, <1>5, InitType
<1> QED BY <1>5, <1>6 DEF NewClient

LEMMA NextKeepsType ==
  ASSUME ConverterTypeOK, [Next]_vars
  PROVE  ConverterTypeOK'
<1>e. <<>> \in UTF16 /\ <<>> \in UTF8 /\ Len(<<>>) = 0 /\ 0 \in Nat
  BY EmptySeq, SMT DEF UTF16, UTF8
<1>1. CASE Pass
  BY <1>1, PassKeepsType
<1>2. CASE Retry
  <2>1. /\ form' = form /\ source' = source /\ limit' = index /\ next' = 1 /\ index' = 0
        /\ target' = <<>> /\ dropped' = 0 /\ client' = [client EXCEPT !.asked = TRUE]
    BY <1>2 DEF Retry
  <2>2. client' \in [first : Seq(Nat), asked : BOOLEAN, name : BOOLEAN]
    BY <2>1 DEF ConverterTypeOK
  <2>3. next' \in 1 .. Len(source') + 1
    BY <2>1, StartsRight DEF ConverterTypeOK
  <2>4. limit' \in Nat /\ 0 <= limit'
    BY <2>1, SMT DEF ConverterTypeOK
  <2> QED BY <2>1, <2>2, <2>3, <2>4, <1>e, Zenon DEF ConverterTypeOK
<1>4. CASE UNCHANGED vars
  BY <1>4 DEF vars, ConverterTypeOK
<1> QED BY <1>1, <1>2, <1>4 DEF Next
-----------------------------------------------------------------------------
(* A name on its way: its terminator is the last unit but one, and what    *)
(* was written is three bytes for each unit read, or less.                 *)
NInv ==
  /\ ConverterTypeOK
  /\ form = "utf16_to_utf8" /\ ~client.asked
  /\ Len(source) >= 2 /\ source[Len(source) - 1] = 0
  /\ limit = 3 * Len(source) - 2
  /\ index <= 3 * (next - 1)
  /\ next >= Len(source) => index <= 3 * (next - 1) - 2
  /\ dropped = 0

LEMMA NameInitRight ==
  ASSUME NameInit
  PROVE  NInv
<1>1. PICK m \in Memories :
        /\ Start("utf16_to_utf8", SubSeq(m, 1, utf16_len(unshield_strlen_utf16(m))),
                 buffer_size(unshield_strlen_utf16(m)))
        /\ client = NewClient(m, TRUE)
  BY DEF NameInit
<1> DEFINE length == unshield_strlen_utf16(m)
<1>2. m \in UTF16 /\ \E i \in 1 .. Len(m) - 1 : IsTerminator(m, i)
  BY MemoriesAssumption
<1>3. Len(m) \in Nat
  BY <1>2, LenProperties DEF UTF16
<1>4. length \in 1 .. Len(m) - 1 /\ m[length] = 0
  <2>1. PICK i \in 1 .. Len(m) - 1 : IsTerminator(m, i)
    BY <1>2
  <2>2. i \in 1 .. Len(m)
    BY <2>1, <1>3, SMT
  <2>3. length \in 1 .. Len(m) /\ IsTerminator(m, length)
    BY <2>1, <2>2, Zenon DEF unshield_strlen_utf16
  <2> HIDE DEF length
  <2>4. ~(i \in 1 .. length - 1) /\ m[length] = 0
    BY <2>1, <2>3 DEF IsTerminator
  <2> QED BY <2>2, <2>3, <2>4, <1>3, SMT
<1> HIDE DEF length
<1>5. source = SubSeq(m, 1, length + 1) /\ limit = 3 * length + 1 /\ form = "utf16_to_utf8"
      /\ next = 1 /\ index = 0 /\ target = <<>> /\ dropped = 0
  BY <1>1 DEF Start, buffer_size, utf16_len, length
<1>6. source \in UTF16 /\ Len(source) = length + 1 /\ source[length] = 0
  <2>1. 1 \in 1 .. Len(m) /\ length + 1 \in 1 .. Len(m) /\ length \in 1 .. length + 1
    BY <1>3, <1>4, SMT
  <2>2. source \in UTF16
    BY <2>1, <1>2, <1>5, SubSeqProperties, SMT DEF UTF16
  <2>3. Len(source) = length + 1 /\ source[length] = m[length]
    BY <2>1, <1>2, <1>5, SubSeqProperties, SMT DEF UTF16
  <2> QED BY <2>2, <2>3, <1>4
<1>7. ConverterTypeOK
  <2>1. limit \in Nat /\ "utf16_to_utf8" \in Functions
    BY <1>5, <1>4, SMT DEF Functions
  <2>2. source \in Seq(Nat)
    BY <1>6, SeqNat
  <2>3. Start("utf16_to_utf8", source, limit)
    BY <1>5 DEF Start
  <2>4. client = NewClient(m, TRUE) /\ m \in Seq(Nat) /\ TRUE \in BOOLEAN
    BY <1>1, <1>2, SeqNat
  <2>5. limit \in Nat \cup {NoTarget} /\ source \in (IF "utf16_to_utf8" = "utf16_to_utf8" THEN UTF16 ELSE UTF8)
    BY <2>1, <1>6
  <2> QED BY <2>1, <2>2, <2>3, <2>4, <2>5, InitType
<1>8. Len(source) >= 2 /\ Len(source) - 1 = length /\ limit = 3 * Len(source) - 2 /\ 1 < Len(source)
  BY <1>3, <1>4, <1>5, <1>6, SMT
<1>9. index <= 3 * (next - 1) /\ ~(next >= Len(source))
  BY <1>5, <1>8, <1>6, <1>4, <1>3, SMT
<1>10. source[Len(source) - 1] = 0
  BY <1>6, <1>8
<1>11. ~client.asked
  BY <1>1 DEF NewClient
<1> QED BY <1>5, <1>7, <1>8, <1>9, <1>10, <1>11, Zenon DEF NInv

LEMMA NamePass ==
  ASSUME NInv, Pass
  PROVE  NInv'
<1>1. ConverterTypeOK /\ ConverterTypeOK'
  BY PassKeepsType DEF NInv
<1>2. ~Finished
  BY DEF Pass, Count, Write, Drop
<1>3. /\ source \in UTF16 /\ form = "utf16_to_utf8" /\ next \in 1 .. Len(source) + 1
      /\ index \in Nat /\ limit = 3 * Len(source) - 2
      /\ Len(source) >= 2 /\ source[Len(source) - 1] = 0
      /\ index <= 3 * (next - 1)
      /\ next >= Len(source) => index <= 3 * (next - 1) - 2
      /\ dropped = 0 /\ ~client.asked
  BY <1>1 DEF NInv, ConverterTypeOK
<1>4. Len(source) \in Nat
  BY <1>3, LenProperties DEF UTF16
<1>5. next \in 1 .. Len(source)
  BY <1>2, <1>3, <1>4, SMT DEF Finished
<1> DEFINE n == Len(source)
           d == decode_utf16(source, next)
           size == calculate_utf8_len(d.codepoint)
<1>6. Read = d /\ Size(d.codepoint) = size
  BY <1>3 DEF Read, Size
<1>7. /\ d.codepoint \in Codepoint /\ d.last \in next .. n
      /\ d.last = next => d.codepoint <= UINT16_MAX
      /\ d.last # next => d.last = next + 1 /\ next < n /\ IsLow(source[next + 1])
  BY <1>3, <1>5, Decode16
<1>8. size \in 1 .. 4 /\ (d.last = next => size <= 3)
  BY <1>7, Size8
<1>9. next = n - 1 => d.last = next /\ size = 1
  <2> SUFFICES ASSUME next = n - 1 PROVE d.last = next /\ size = 1
    OBVIOUS
  <2>1. ~IsSurrogate(0)
    BY SMT DEF IsSurrogate
  <2>2. d = Decoded(0, next)
    BY <1>3, <2>1 DEF decode_utf16
  <2>3. calculate_utf8_len(0) = 1
    BY SMT DEF calculate_utf8_len, UTF8_1_MAX
  <2> QED BY <2>2, <2>3 DEF Decoded
<1>10. d.last # n - 1 \/ next = n - 1
  <2> SUFFICES ASSUME d.last = n - 1, next # n - 1 PROVE FALSE
    OBVIOUS
  <2>1. IsLow(source[n - 1])
    BY <1>7, <1>4, SMT
  <2>2. ~IsLow(0)
    BY SMT DEF IsLow
  <2> QED BY <2>1, <2>2, <1>3
<1>i. next \in Int /\ n \in Nat /\ d.last \in Int /\ size \in Int
  BY <1>4, <1>5, <1>7, <1>8, SMT
<1> HIDE DEF d, size
<1>11. /\ index + size <= limit
       /\ index + size <= 3 * d.last
       /\ d.last + 1 >= n => index + size <= 3 * d.last - 2
  <2>1. CASE next = n - 1
    BY <2>1, <1>9, <1>3, <1>i, SMT
  <2>2. CASE next = n
    <3>1. d.last = n /\ size <= 3
      BY <2>2, <1>7, <1>8, <1>i, SMT
    <3> QED BY <2>2, <3>1, <1>3, <1>i, SMT
  <2>3. CASE next < n - 1
    <3>1. d.last < n - 1
      BY <2>3, <1>7, <1>10, <1>i, SMT
    <3>2. size <= 3 * (d.last - next + 1)
      BY <1>7, <1>8, <1>i, SMT
    <3> QED BY <3>1, <3>2, <2>3, <1>3, <1>i, SMT, SMTT(30)
  <2> QED BY <2>1, <2>2, <2>3, <1>5, <1>i, SMT
<1>12. limit \in Nat /\ limit # NoTarget
  BY <1>3, <1>4, SMT DEF NoTarget
<1>13. Write
  <2>1. ~Count
    BY <1>12 DEF Count
  <2>2. HasRoom(Read.codepoint)
    BY <1>11, <1>6 DEF HasRoom
  <2> QED BY <2>1, <2>2 DEF Pass, Drop
<1>14. /\ next' = d.last + 1 /\ index' = index + size
       /\ UNCHANGED <<form, source, limit, dropped, client>>
  BY <1>13, <1>6 DEF Write, Advance
<1>15. index' <= 3 * (next' - 1) /\ (next' >= n => index' <= 3 * (next' - 1) - 2)
  <2>1. next' - 1 = d.last
    BY <1>14, <1>i, SMT
  <2>2. next' = d.last + 1
    BY <1>14
  <2> QED BY <1>11, <1>14, <2>1, <2>2
<1> QED BY <1>1, <1>3, <1>14, <1>15 DEF NInv

LEMMA StringsNext ==
  ASSUME ConverterTypeOK, client.name => NInv, [Next]_vars
  PROVE  client'.name => NInv'
<1>1. CASE Pass
  <2>1. client' = client
    BY <1>1 DEF Pass, Count, Write, Drop, Advance
  <2> QED BY <1>1, <2>1, NamePass
<1>2. CASE Retry
  <2>1. ~client.name
    <3>1. NInv => limit # NoTarget
      <4> SUFFICES ASSUME NInv PROVE limit # NoTarget
        OBVIOUS
      <4>1. Len(source) \in Nat /\ Len(source) >= 2 /\ limit = 3 * Len(source) - 2
        BY LenProperties DEF NInv, ConverterTypeOK, UTF16
      <4> QED BY <4>1, SMT DEF NoTarget
    <3> QED BY <1>2, <3>1 DEF Retry
  <2>2. client'.name = client.name
    BY <1>2 DEF Retry, ConverterTypeOK
  <2> QED BY <2>1, <2>2
<1>4. CASE UNCHANGED vars
  BY <1>4 DEF vars, NInv, ConverterTypeOK
<1> QED BY <1>1, <1>2, <1>4 DEF Next

(* The converters write inside of their targets only, read inside of their *)
(* sources only, and write as many units as their result says: for every   *)
(* string, well-formed or not, and every size of the target, also when the *)
(* client asks for the size or converts back.                              *)
THEOREM TargetsFit == StringsSpec => []ConverterTypeOK
<1>1. Init \/ NameInit => ConverterTypeOK
  BY TextInit, NameInitRight DEF NInv
<1>2. ConverterTypeOK /\ [Next]_vars => ConverterTypeOK'
  BY NextKeepsType
<1> QED BY <1>1, <1>2, PTL DEF StringsSpec

(* The string buffers of helper.c are large enough for every name, its     *)
(* terminator and the unit behind it, whatever that unit is: no codepoint  *)
(* is left out.                                                            *)
THEOREM NamesFit == StringsSpec => []NothingDropped
<1> DEFINE Inv == ConverterTypeOK /\ (client.name => NInv)
<1>1. Init \/ NameInit => Inv
  BY TextInit, NameInitRight DEF NInv
<1>2. Inv /\ [Next]_vars => Inv'
  BY NextKeepsType, StringsNext
<1>3. Inv => NothingDropped
  BY DEF NInv, NothingDropped
<1> QED BY <1>1, <1>2, <1>3, PTL DEF StringsSpec
-----------------------------------------------------------------------------
(* Decoding what was encoded.                                              *)
LEMMA Matching ==
  ASSUME NEW n \in 1 .. 4, NEW x \in Nat, x < utf8_leading_bytes[n].span
  PROVE  LET b == utf8_leading_bytes[n].value + x
         IN  /\ \A k \in 1 .. 4 : Matches(b, k) <=> k = n
             /\ b % utf8_leading_bytes[n].span = x
<1>1. CASE n = 1
  <2>1. x < 128
    BY <1>1, SMT DEF utf8_leading_bytes
  <2>2. /\ x \div 128 = 0 /\ x % 128 = x /\ (x \div 32) * 32 # 192 /\ (x \div 16) * 16 # 224
        /\ (x \div 8) * 8 # 240
    BY <2>1, SMT
  <2> QED BY <1>1, <2>1, <2>2, SMT DEF utf8_leading_bytes, Matches
<1>2. CASE n = 2
  <2>1. x < 32
    BY <1>2, SMT DEF utf8_leading_bytes
  <2>2. /\ ((192 + x) \div 128) * 128 # 0 /\ ((192 + x) \div 32) * 32 = 192
        /\ ((192 + x) \div 16) * 16 # 224 /\ ((192 + x) \div 8) * 8 # 240
        /\ (192 + x) % 32 = x
    BY <2>1, SMT
  <2> QED BY <1>2, <2>1, <2>2, SMT DEF utf8_leading_bytes, Matches
<1>3. CASE n = 3
  <2>1. x < 16
    BY <1>3, SMT DEF utf8_leading_bytes
  <2>2. /\ ((224 + x) \div 128) * 128 # 0 /\ ((224 + x) \div 32) * 32 # 192
        /\ ((224 + x) \div 16) * 16 = 224 /\ ((224 + x) \div 8) * 8 # 240
        /\ (224 + x) % 16 = x
    BY <2>1, SMT
  <2> QED BY <1>3, <2>1, <2>2, SMT DEF utf8_leading_bytes, Matches
<1>4. CASE n = 4
  <2>1. x < 8
    BY <1>4, SMT DEF utf8_leading_bytes
  <2>2. /\ ((240 + x) \div 128) * 128 # 0 /\ ((240 + x) \div 32) * 32 # 192
        /\ ((240 + x) \div 16) * 16 # 224 /\ ((240 + x) \div 8) * 8 = 240
        /\ (240 + x) % 8 = x
    BY <2>1, SMT
  <2> QED BY <1>4, <2>1, <2>2, SMT DEF utf8_leading_bytes, Matches
<1> QED BY <1>1, <1>2, <1>3, <1>4, SMT

LEMMA Continuation ==
  ASSUME NEW x \in Nat, x < 64
  PROVE  IsContinuation(128 + x) /\ (128 + x) % 64 = x
  BY SMT DEF IsContinuation

(* A lead byte and all of the bytes it announces are one encoding.         *)
LEMMA WholeEncoding ==
  ASSUME NEW n \in 1 .. 4, NEW s \in UTF8, Len(s) = n,
         NEW x \in Nat, x < utf8_leading_bytes[n].span,
         s[1] = utf8_leading_bytes[n].value + x,
         \A j \in 2 .. n : IsContinuation(s[j])
  PROVE  decode_utf8(s, 1) = LET c == Gathered(s, 1, x, n - 1)
                             IN  IF IsInvalidCodepoint(c, n) THEN Invalid(n) ELSE Decoded(c, n)
<1>1. (\A k \in 1 .. 4 : Matches(s[1], k) <=> k = n) /\ s[1] % utf8_leading_bytes[n].span = x
  BY Matching
<1>2. n = CHOOSE k \in 1 .. 4 : Matches(s[1], k)
  BY <1>1, Zenon
<1>3. Following(s, 1, n - 1) = n - 1
  <2> DEFINE Fits(k) == /\ \A j \in 1 .. k : 1 + j <= Len(s) /\ IsContinuation(s[1 + j])
                        /\ k < n - 1 => 1 + k + 1 > Len(s) \/ ~IsContinuation(s[1 + k + 1])
  <2>1. n - 1 \in 0 .. n - 1 /\ Fits(n - 1)
    BY SMT
  <2>2. ASSUME NEW k \in 0 .. n - 1, Fits(k) PROVE k = n - 1
    <3> SUFFICES ASSUME k < n - 1 PROVE FALSE
      BY SMT
    <3>1. 1 + k + 1 \in 2 .. n /\ ~(1 + k + 1 > Len(s))
      BY SMT
    <3> QED BY <3>1, <2>2
  <2>3. Following(s, 1, n - 1) = CHOOSE k \in 0 .. n - 1 : Fits(k)
    BY DEF Following
  <2> HIDE DEF Fits
  <2> QED BY <2>1, <2>2, <2>3, Zenon
<1>4. 1 + (n - 1) = n /\ ~(n - 1 < n - 1)
  BY SMT
<1>5. \E k \in 1 .. 4 : Matches(s[1], k)
  BY <1>1
<1> QED BY <1>1, <1>2, <1>3, <1>4, <1>5, Zenon DEF decode_utf8

(* A codepoint put together again from the six bits of each byte.          *)
LEMMA SixBits ==
  ASSUME NEW c \in Nat
  PROVE  /\ c = 64 * (c \div 64) + (c % 64)
         /\ c = 4096 * (c \div 4096) + 64 * ((c \div 64) % 64) + (c % 64)
         /\ c = 262144 * (c \div 262144) + 4096 * ((c \div 4096) % 64)
                  + 64 * ((c \div 64) % 64) + (c % 64)
         /\ c % 64 \in Nat /\ c % 64 < 64
         /\ (c \div 64) % 64 \in Nat /\ (c \div 64) % 64 < 64
         /\ (c \div 4096) % 64 \in Nat /\ (c \div 4096) % 64 < 64
         /\ c \div 64 \in Nat /\ c \div 4096 \in Nat /\ c \div 262144 \in Nat
  BY SMT

LEMMA Lead ==
  ASSUME NEW c \in Codepoint, NEW n \in 1 .. 4, n = calculate_utf8_len(c),
         NEW x \in Nat,
         x = CASE n = 1 -> c [] n = 2 -> c \div 64 [] n = 3 -> c \div 4096
               [] OTHER -> c \div 262144
  PROVE  x < utf8_leading_bytes[n].span
<1>1. c \in Nat /\ c <= UNICODE_MAX
  BY Bounds, SMT DEF Codepoint
<1>2. c <= 1114111
  BY <1>1, Values, SMT
<1>3. CASE n = 1
  BY <1>1, <1>3, SMT DEF calculate_utf8_len, UTF8_1_MAX, utf8_leading_bytes
<1>4. CASE n = 2
  <2>1. c <= 2047 /\ x = c \div 64
    BY <1>1, <1>4, SMT DEF calculate_utf8_len, UTF8_1_MAX, UTF8_2_MAX
  <2> QED BY <1>1, <1>4, <2>1, SMT DEF utf8_leading_bytes
<1>5. CASE n = 3
  <2>1. c <= 65535 /\ x = c \div 4096
    BY <1>1, <1>5, Values, SMT DEF calculate_utf8_len
  <2> QED BY <1>1, <1>5, <2>1, SMT DEF utf8_leading_bytes
<1>6. CASE n = 4
  <2>1. x = c \div 262144
    BY <1>6, SMT
  <2> QED BY <1>1, <1>2, <1>6, <2>1, SMT DEF utf8_leading_bytes
<1> QED BY <1>3, <1>4, <1>5, <1>6, SMT

(* The bytes of an encoding: a lead with the topmost bits and six bits in  *)
(* each of those behind it.                                                *)
Top(c, n) ==
  CASE n = 1 -> c [] n = 2 -> c \div 64 [] n = 3 -> c \div 4096 [] OTHER -> c \div 262144

LEMMA EncodedAs ==
  ASSUME NEW c \in Codepoint
  PROVE  LET n == calculate_utf8_len(c)
             s == Utf8Bytes(c)
         IN  /\ Top(c, n) \in Nat /\ Top(c, n) < utf8_leading_bytes[n].span
             /\ s[1] = utf8_leading_bytes[n].value + Top(c, n)
             /\ n >= 2 => s[n] = 128 + (c % 64)
             /\ n >= 3 => s[n - 1] = 128 + ((c \div 64) % 64)
             /\ n = 4 => s[n - 2] = 128 + ((c \div 4096) % 64)
<1> DEFINE n == calculate_utf8_len(c)
           s == Utf8Bytes(c)
           x == CASE n = 1 -> c [] n = 2 -> c \div 64 [] n = 3 -> c \div 4096
                  [] OTHER -> c \div 262144
           pattern == utf8_leading_bytes[n]
<1>1. c \in Nat /\ c <= UNICODE_MAX
  BY Bounds, SMT DEF Codepoint
<1>2. n \in 1 .. 4 /\ s \in UTF8 /\ Len(s) = n
  BY Size8, Encode8
<1>3. x \in Nat
  <2> HIDE DEF n
  <2> QED BY <1>1, SixBits, SMT
<1>4. x < pattern.span
  BY <1>2, <1>3, Lead
<1>5. x % pattern.span = x
  <2> DEFINE m == pattern.span
             y == x
  <2>1. m \in Nat /\ y \in Nat /\ y < m
    <3>1. pattern.span \in Nat
      <4> HIDE DEF n
      <4> QED BY <1>2, SMT DEF utf8_leading_bytes
    <3> QED BY <3>1, <1>3, <1>4
  <2> HIDE DEF m, y
  <2>2. y % m = y
    BY <2>1, SMT
  <2> QED BY <2>2 DEF m, y
<1>6. s = [k \in 1 .. n |->
             IF k = 1 THEN pattern.value + ((CASE n - 1 = 0 -> c [] n - 1 = 1 -> c \div 64
                                               [] n - 1 = 2 -> c \div 4096
                                               [] OTHER -> c \div 262144) % pattern.span)
             ELSE 128 + ((CASE n - k = 0 -> c [] n - k = 1 -> c \div 64
                             [] n - k = 2 -> c \div 4096
                             [] OTHER -> c \div 262144) % 64)]
  BY DEF Utf8Bytes
<1> HIDE DEF n, s, x, pattern
<1>7. s[1] = pattern.value + x
  <2>1. CASE n = 1
    BY <1>6, <2>1, <1>5, SMT DEF x
  <2>2. CASE n = 2
    BY <1>6, <2>2, <1>5, SMT DEF x
  <2>3. CASE n = 3
    BY <1>6, <2>3, <1>5, SMT DEF x
  <2>4. CASE n = 4
    BY <1>6, <2>4, <1>5, SMT DEF x
  <2> QED BY <2>1, <2>2, <2>3, <2>4, <1>2, SMT
<1>8. /\ n >= 2 => s[n] = 128 + (c % 64)
      /\ n >= 3 => s[n - 1] = 128 + ((c \div 64) % 64)
      /\ n = 4 => s[n - 2] = 128 + ((c \div 4096) % 64)
  <2>1. CASE n = 1
    BY <2>1, SMT
  <2>2. CASE n = 2
    BY <1>6, <2>2, SMT
  <2>3. CASE n = 3
    BY <1>6, <2>3, SMT
  <2>4. CASE n = 4
    BY <1>6, <2>4, SMT
  <2> QED BY <2>1, <2>2, <2>3, <2>4, <1>2, SMT
<1> QED BY <1>3, <1>4, <1>7, <1>8 DEF Top, n, s, x, pattern

LEMMA Survives8 ==
  ASSUME NEW c \in Codepoint, ~(c <= BMP_END /\ IsSurrogate(c))
  PROVE  decode_utf8(Utf8Bytes(c), 1) = Decoded(c, calculate_utf8_len(c))
<1> DEFINE n == calculate_utf8_len(c)
           s == Utf8Bytes(c)
           x == Top(c, n)
<1>1. c \in Nat /\ c <= UNICODE_MAX
  BY Bounds, SMT DEF Codepoint
<1>2. n \in 1 .. 4 /\ s \in UTF8 /\ Len(s) = n
  BY Size8, Encode8
<1>v. ~IsInvalidCodepoint(c, n)
  <2>1. ~(c > UNICODE_MAX)
    BY <1>1, Bounds, SMT
  <2>2. c < BMP_END => c <= BMP_END
    BY <1>1, Bounds, SMT
  <2> QED BY <2>1, <2>2 DEF IsInvalidCodepoint
<1>b. /\ c % 64 \in Nat /\ c % 64 < 64
      /\ (c \div 64) % 64 \in Nat /\ (c \div 64) % 64 < 64
      /\ (c \div 4096) % 64 \in Nat /\ (c \div 4096) % 64 < 64
  BY <1>1, SixBits
<1>8. /\ x \in Nat /\ x < utf8_leading_bytes[n].span
      /\ s[1] = utf8_leading_bytes[n].value + x
      /\ n >= 2 => s[n] = 128 + (c % 64)
      /\ n >= 3 => s[n - 1] = 128 + ((c \div 64) % 64)
      /\ n = 4 => s[n - 2] = 128 + ((c \div 4096) % 64)
  BY EncodedAs
<1> HIDE DEF n, s, x
<1>9. \A j \in 2 .. n : IsContinuation(s[j])
  <2> SUFFICES ASSUME NEW j \in 2 .. n PROVE IsContinuation(s[j])
    OBVIOUS
  <2>1. j = n \/ (n >= 3 /\ j = n - 1) \/ (n = 4 /\ j = n - 2)
    BY <1>2, SMT
  <2>2. CASE j = n
    <3>1. s[j] = 128 + (c % 64)
      BY <2>2, <1>8, <1>2, SMT
    <3> QED BY <3>1, <1>b, Continuation
  <2>3. CASE n >= 3 /\ j = n - 1
    <3>1. s[j] = 128 + ((c \div 64) % 64)
      BY <2>3, <1>8, <1>2, SMT
    <3> QED BY <3>1, <1>b, Continuation
  <2>4. CASE n = 4 /\ j = n - 2
    <3>1. s[j] = 128 + ((c \div 4096) % 64)
      BY <2>4, <1>8, <1>2, SMT
    <3> QED BY <3>1, <1>b, Continuation
  <2> QED BY <2>1, <2>2, <2>3, <2>4
<1>10. Gathered(s, 1, x, n - 1) = c
  <2>a. /\ n >= 2 => s[n] % 64 = c % 64
        /\ n >= 3 => s[n - 1] % 64 = (c \div 64) % 64
        /\ n = 4 => s[n - 2] % 64 = (c \div 4096) % 64
    <3>1. /\ (128 + (c % 64)) % 64 = c % 64
          /\ (128 + ((c \div 64) % 64)) % 64 = (c \div 64) % 64
          /\ (128 + ((c \div 4096) % 64)) % 64 = (c \div 4096) % 64
      BY <1>b, Continuation
    <3> QED BY <3>1, <1>8
  <2>1. CASE n = 1
    BY <2>1, SMT DEF Gathered, Top, x
  <2>2. CASE n = 2
    <3>1. x = c \div 64 /\ s[1 + 1] % 64 = c % 64
      BY <2>2, <2>a, SMT DEF Top, x
    <3>2. Gathered(s, 1, x, n - 1) = 64 * x + (s[1 + 1] % 64)
      BY <2>2, SMT DEF Gathered
    <3> QED BY <3>1, <3>2, <1>1, SixBits
  <2>3. CASE n = 3
    <3>1. x = c \div 4096 /\ s[1 + 1] % 64 = (c \div 64) % 64 /\ s[1 + 2] % 64 = c % 64
      BY <2>3, <2>a, SMT DEF Top, x
    <3>2. Gathered(s, 1, x, n - 1) = 4096 * x + 64 * (s[1 + 1] % 64) + (s[1 + 2] % 64)
      BY <2>3, SMT DEF Gathered
    <3> QED BY <3>1, <3>2, <1>1, SixBits
  <2>4. CASE n = 4
    <3>1. /\ x = c \div 262144 /\ s[1 + 1] % 64 = (c \div 4096) % 64
          /\ s[1 + 2] % 64 = (c \div 64) % 64 /\ s[1 + 3] % 64 = c % 64
      BY <2>4, <2>a, SMT DEF Top, x
    <3>2. Gathered(s, 1, x, n - 1) = 262144 * x + 4096 * (s[1 + 1] % 64) + 64 * (s[1 + 2] % 64)
                                       + (s[1 + 3] % 64)
      BY <2>4, SMT DEF Gathered
    <3> QED BY <3>1, <3>2, <1>1, SixBits
  <2> QED BY <2>1, <2>2, <2>3, <2>4, <1>2, SMT
<1>11. decode_utf8(s, 1) = IF IsInvalidCodepoint(c, n) THEN Invalid(n) ELSE Decoded(c, n)
  <2>1. x \in Nat /\ x < utf8_leading_bytes[n].span /\ s[1] = utf8_leading_bytes[n].value + x
    BY <1>8
  <2> QED BY <1>2, <2>1, <1>9, <1>10, WholeEncoding
<1> QED BY <1>11, <1>v DEF n, s

LEMMA Survives16 ==
  ASSUME NEW c \in Codepoint, ~(c <= BMP_END /\ IsSurrogate(c))
  PROVE  decode_utf16(Utf16Units(c), 1) = Decoded(c, calculate_utf16_len(c))
<1>1. c \in Nat /\ c <= UNICODE_MAX
  BY Bounds, SMT DEF Codepoint
<1>2. CASE c <= BMP_END
  <2>1. Utf16Units(c) = <<c>> /\ calculate_utf16_len(c) = 1
    BY <1>2 DEF Utf16Units, calculate_utf16_len
  <2>2. Utf16Units(c)[1] = c
    BY <2>1, SMT
  <2> QED BY <2>1, <2>2, <1>2 DEF decode_utf16
<1>3. CASE ~(c <= BMP_END)
  <2> DEFINE d == c - 65536
             s == Utf16Units(c)
  <2>1. d \in Nat /\ d <= 1048575 /\ c = d + 65536
    BY <1>1, <1>3, Values, SMT
  <2>2. s = <<55296 + ((d \div 1024) % 1024), 56320 + (d % 1024)>> /\ calculate_utf16_len(c) = 2
    BY <1>3 DEF Utf16Units, calculate_utf16_len
  <2> HIDE DEF d, s
  <2>3. s[1] = 55296 + ((d \div 1024) % 1024) /\ s[2] = 56320 + (d % 1024) /\ Len(s) = 2
    BY <2>2, SMT
  <2>4. /\ (d \div 1024) % 1024 = d \div 1024 /\ d \div 1024 \in Nat /\ d \div 1024 < 1024
        /\ d % 1024 \in Nat /\ d % 1024 < 1024 /\ d = 1024 * (d \div 1024) + (d % 1024)
    BY <2>1, SMT
  <2> DEFINE h == d \div 1024
             l == d % 1024
  <2>5. /\ h \in Nat /\ h < 1024 /\ l \in Nat /\ l < 1024 /\ d = 1024 * h + l
        /\ s[1] = 55296 + h /\ s[2] = 56320 + l
    BY <2>3, <2>4
  <2> HIDE DEF h, l
  <2>6. IsSurrogate(s[1]) /\ IsHigh(s[1]) /\ IsLow(s[2])
    BY <2>5, SMT DEF IsSurrogate, IsHigh, IsLow
  <2>7. SurrogateCodepoint(s[1], s[2]) = c
    <3>1. (55296 + h) % 1024 = h /\ (56320 + l) % 1024 = l
      BY <2>5, SMT
    <3>2. SurrogateCodepoint(s[1], s[2]) = h * 1024 + l + 65536
      BY <2>5, <3>1 DEF SurrogateCodepoint
    <3> QED BY <3>2, <2>5, <2>1, SMT
  <2>8. 1 # Len(s) /\ 1 + 1 = 2
    BY <2>3, SMT
  <2>9. decode_utf16(s, 1) = Decoded(c, 2)
    BY <2>6, <2>7, <2>8 DEF decode_utf16
  <2> QED BY <2>9, <2>2 DEF s
<1> QED BY <1>2, <1>3

(* Every codepoint of Unicode but the surrogates survives either encoding: *)
(* what encode_utf8 and encode_utf16 write for it, decode_utf8 and         *)
(* decode_utf16 read as the same codepoint, to the last unit.              *)
THEOREM CodepointsSurvive ==
  ASSUME NEW c \in Codepoint, ~(c <= BMP_END /\ IsSurrogate(c))
  PROVE  /\ decode_utf8(Utf8Bytes(c), 1) = Decoded(c, calculate_utf8_len(c))
         /\ decode_utf16(Utf16Units(c), 1) = Decoded(c, calculate_utf16_len(c))
  BY Survives8, Survives16
-----------------------------------------------------------------------------
(* The ranges of the standard, as inequalities.                            *)
LEMMA ScalarIs ==
  ASSUME NEW c \in Int
  PROVE  Scalar(c) <=> (0 <= c /\ c <= 55295) \/ (57344 <= c /\ c <= UNICODE_MAX)
<1>1. LastScalar = UNICODE_MAX /\ LastScalar \in Int
  BY SMT DEF LastScalar, UNICODE_MAX
<1>2. Scalar(c) <=> 0 <= c /\ c <= UNICODE_MAX /\ ~(55296 <= c /\ c <= 57343)
  BY <1>1 DEF Scalar
<1>3. 55295 <= UNICODE_MAX
  BY Values, SMT
<1> QED BY <1>1, <1>2, <1>3, SMT

LEMMA SurrogateIs ==
  ASSUME NEW u \in Int
  PROVE  /\ High(u) <=> 55296 <= u /\ u <= 56319
         /\ Low(u) <=> 56320 <= u /\ u <= 57343
  BY SMT DEF High, Low

(* What is decoded is a scalar value: a surrogate only ever as half of a   *)
(* pair, and never what ill-formed bytes would add up to.                  *)
LEMMA ReplacementScalar == Scalar(INVALID_CODEPOINT)
<1>1. PICK c : c = INVALID_CODEPOINT
  OBVIOUS
<1>2. c \in Int /\ 57344 <= c /\ c <= UNICODE_MAX
  BY <1>1, Values, SMT
<1> QED BY <1>1, <1>2, ScalarIs

LEMMA NoSurrogate ==
  ASSUME NEW c \in Nat, c <= UNICODE_MAX, ~(c < BMP_END /\ IsSurrogate(c))
  PROVE  Scalar(c)
<1>1. (c < 65535 => ~IsSurrogate(c))
  BY Values, SMT
<1>2. IsSurrogate(c) <=> 55296 <= c /\ c <= 57343
  BY SMT DEF IsSurrogate
<1>3. (0 <= c /\ c <= 55295) \/ (57344 <= c /\ c <= UNICODE_MAX)
  BY <1>1, <1>2, SMT
<1> QED BY <1>3, ScalarIs

LEMMA Scalar16Read ==
  ASSUME NEW s \in UTF16, NEW i \in 1 .. Len(s)
  PROVE  Scalar(decode_utf16(s, i).codepoint)
<1>1. s[i] \in Nat /\ s[i] <= UINT16_MAX /\ Len(s) \in Nat
  BY Units16, SMT
<1> DEFINE pair == IsSurrogate(s[i]) /\ IsHigh(s[i]) /\ i # Len(s) /\ IsLow(s[i + 1])
           code == SurrogateCodepoint(s[i], s[i + 1])
<1>2. decode_utf16(s, i) = IF pair THEN Decoded(code, i + 1)
                           ELSE IF IsSurrogate(s[i]) THEN Invalid(i) ELSE Decoded(s[i], i)
  BY SMT DEF decode_utf16
<1>3. ASSUME pair PROVE Scalar(code)
  <2>1. i + 1 \in 1 .. Len(s)
    BY <1>3, <1>1, SMT
  <2>2. s[i + 1] \in Nat
    BY <2>1, Units16, SMT
  <2>3. /\ s[i] % 1024 \in Nat /\ s[i] % 1024 <= 1023
        /\ s[i + 1] % 1024 \in Nat /\ s[i + 1] % 1024 <= 1023
    BY <1>1, <2>2, SMT
  <2>4. code \in Int /\ 57344 <= code /\ code <= UNICODE_MAX
    BY <2>3, Values, SMT DEF SurrogateCodepoint
  <2> QED BY <2>4, ScalarIs
<1>4. ASSUME ~IsSurrogate(s[i]) PROVE Scalar(s[i])
  BY <1>1, <1>4, Bounds, NoSurrogate
<1> HIDE DEF pair, code
<1> QED BY <1>2, <1>3, <1>4, ReplacementScalar DEF Decoded, Invalid

LEMMA Scalar8Read ==
  ASSUME NEW s \in UTF8, NEW i \in 1 .. Len(s)
  PROVE  Scalar(decode_utf8(s, i).codepoint)
<1> DEFINE size == CHOOSE n \in 1 .. 4 : Matches(s[i], n)
           k == Following(s, i, size - 1)
           lead == s[i] % utf8_leading_bytes[size].span
           c == Gathered(s, i, lead, k)
<1>1. CASE \A n \in 1 .. 4 : ~Matches(s[i], n)
  BY <1>1, ReplacementScalar DEF decode_utf8, Invalid, Decoded
<1>2. CASE \E n \in 1 .. 4 : Matches(s[i], n)
  <2>1. decode_utf8(s, i) = IF k < size - 1 \/ IsInvalidCodepoint(c, size)
                            THEN Invalid(i + k) ELSE Decoded(c, i + k)
    BY <1>2 DEF decode_utf8
  <2>2. decode_utf8(s, i).codepoint \in Codepoint
    BY Decode8
  <2> HIDE DEF k, c, size
  <2>3. CASE k < size - 1 \/ IsInvalidCodepoint(c, size)
    BY <2>1, <2>3, ReplacementScalar DEF Invalid, Decoded
  <2>4. CASE ~(k < size - 1 \/ IsInvalidCodepoint(c, size))
    <3>1. decode_utf8(s, i).codepoint = c
      BY <2>1, <2>4 DEF Decoded
    <3>2. c \in Nat /\ c <= UNICODE_MAX
      BY <2>2, <3>1, Bounds, SMT DEF Codepoint
    <3>3. ~(c < BMP_END /\ IsSurrogate(c))
      BY <2>4 DEF IsInvalidCodepoint
    <3> QED BY <3>1, <3>2, <3>3, NoSurrogate
  <2> QED BY <2>3, <2>4
<1> QED BY <1>1, <1>2

(* A scalar value is written as itself, or as a pair of surrogates.        *)
LEMMA UnitsAreText ==
  ASSUME NEW c \in Codepoint, Scalar(c)
  PROVE  LET u == Utf16Units(c)
         IN  (Len(u) = 1 /\ Scalar(u[1])) \/ (Len(u) = 2 /\ High(u[1]) /\ Low(u[2]))
<1>1. c \in Nat /\ c <= UNICODE_MAX
  BY Bounds, SMT DEF Codepoint
<1>2. CASE c <= BMP_END
  <2>1. Utf16Units(c) = <<c>>
    BY <1>2 DEF Utf16Units
  <2> QED BY <2>1
<1>3. CASE ~(c <= BMP_END)
  <2> DEFINE d == c - 65536
             u == Utf16Units(c)
  <2>1. d \in Nat
    BY <1>1, <1>3, Values, SMT
  <2>2. u = <<55296 + ((d \div 1024) % 1024), 56320 + (d % 1024)>>
    BY <1>3 DEF Utf16Units
  <2> HIDE DEF d, u
  <2>3. u[1] = 55296 + ((d \div 1024) % 1024) /\ u[2] = 56320 + (d % 1024) /\ Len(u) = 2
    BY <2>2, SMT
  <2>4. /\ (d \div 1024) % 1024 \in Nat /\ (d \div 1024) % 1024 < 1024
        /\ d % 1024 \in Nat /\ d % 1024 < 1024
    BY <2>1, SMT
  <2>5. /\ u[1] \in Int /\ 55296 <= u[1] /\ u[1] <= 56319
        /\ u[2] \in Int /\ 56320 <= u[2] /\ u[2] <= 57343
    BY <2>3, <2>4, SMT
  <2>6. High(u[1]) /\ Low(u[2])
    BY <2>5, SurrogateIs
  <2> QED BY <2>3, <2>6 DEF u
<1> QED BY <1>2, <1>3

(* The bytes of a scalar value are well-formed.                            *)
LEMMA BytesAreText ==
  ASSUME NEW c \in Codepoint, Scalar(c)
  PROVE  WellFormed(Utf8Bytes(c), 1, calculate_utf8_len(c))
<1> DEFINE n == calculate_utf8_len(c)
           s == Utf8Bytes(c)
<1>1. c \in Nat /\ c <= 1114111 /\ ~(55296 <= c /\ c <= 57343)
  <2>1. c \in Nat /\ c <= UNICODE_MAX
    BY Bounds, SMT DEF Codepoint
  <2>2. c \in Int
    BY <2>1, SMT
  <2>3. (0 <= c /\ c <= 55295) \/ (57344 <= c /\ c <= UNICODE_MAX)
    BY <2>2, ScalarIs
  <2>4. ~(55296 <= c /\ c <= 57343)
    BY <2>2, <2>3, SMT
  <2> QED BY <2>1, <2>4, Values, SMT
<1>2. n \in 1 .. 4 /\ s \in UTF8 /\ Len(s) = n
  BY Size8, Encode8
<1>3. /\ s[1] = utf8_leading_bytes[n].value + Top(c, n)
      /\ n >= 2 => s[n] = 128 + (c % 64)
      /\ n >= 3 => s[n - 1] = 128 + ((c \div 64) % 64)
      /\ n = 4 => s[n - 2] = 128 + ((c \div 4096) % 64)
  BY EncodedAs
<1>4. /\ c % 64 \in 0 .. 63 /\ (c \div 64) % 64 \in 0 .. 63 /\ (c \div 4096) % 64 \in 0 .. 63
  BY <1>1, SMT
<1>5. \A b \in 0 .. 63 : Continues(128 + b)
  BY SMT DEF Continues
<1>6. /\ n = 1 => c <= 127
      /\ n = 2 => 128 <= c /\ c <= 2047
      /\ n = 3 => 2048 <= c /\ c <= 65535
      /\ n = 4 => 65536 <= c
  BY <1>1, Values, SMT DEF calculate_utf8_len, UTF8_1_MAX, UTF8_2_MAX
<1> HIDE DEF n, s
<1>7. CASE n = 1
  <2>1. s[1] = c /\ c \in 0 .. 127
    BY <1>1, <1>3, <1>6, <1>7, SMT DEF Top, utf8_leading_bytes
  <2> QED BY <1>2, <1>7, <2>1, SMT DEF WellFormed, n, s
<1>8. CASE n = 2
  <2>1. s[1] = 192 + (c \div 64) /\ s[2] = 128 + (c % 64)
    BY <1>3, <1>8, SMT DEF Top, utf8_leading_bytes
  <2>2. s[1] \in 194 .. 223
    BY <1>1, <1>6, <1>8, <2>1, SMT
  <2>3. Continues(s[2])
    BY <1>4, <1>5, <2>1
  <2>4. WellFormed(s, 1, 2)
    BY <1>2, <1>8, <2>2, <2>3, SMT DEF WellFormed
  <2> QED BY <1>8, <2>4 DEF n, s
<1>9. CASE n = 3
  <2>1. s[1] = 224 + (c \div 4096) /\ s[2] = 128 + ((c \div 64) % 64) /\ s[3] = 128 + (c % 64)
    BY <1>3, <1>9, SMT DEF Top, utf8_leading_bytes
  <2>2. \/ s[1] = 224 /\ s[2] >= 160
        \/ s[1] \in 225 .. 239 \ {237}
        \/ s[1] = 237 /\ s[2] <= 159
    <3> DEFINE q == c \div 4096
               r == (c \div 64) % 64
    <3>1. q \in 0 .. 15 /\ (q = 0 => r >= 32) /\ (q = 13 => r <= 31)
      BY <1>1, <1>6, <1>9, SMT
    <3>2. r \in 0 .. 63 /\ s[1] = 224 + q /\ s[2] = 128 + r
      BY <1>4, <2>1
    <3> HIDE DEF q, r
    <3> QED BY <3>1, <3>2, SMT
  <2>3. Continues(s[2]) /\ Continues(s[3])
    BY <1>4, <1>5, <2>1
  <2>4. WellFormed(s, 1, 3)
    BY <1>2, <1>9, <2>2, <2>3, SMT DEF WellFormed
  <2> QED BY <1>9, <2>4 DEF n, s
<1>10. CASE n = 4
  <2>1. /\ s[1] = 240 + (c \div 262144) /\ s[2] = 128 + ((c \div 4096) % 64)
        /\ s[3] = 128 + ((c \div 64) % 64) /\ s[4] = 128 + (c % 64)
    BY <1>3, <1>10, SMT DEF Top, utf8_leading_bytes
  <2>2. \/ s[1] = 240 /\ s[2] >= 144
        \/ s[1] \in 241 .. 243
        \/ s[1] = 244 /\ s[2] <= 143
    <3> DEFINE q == c \div 262144
               r == (c \div 4096) % 64
    <3>1. q \in 0 .. 4 /\ (q = 0 => r >= 16) /\ (q = 4 => r <= 15)
      BY <1>1, <1>6, <1>10, SMT
    <3>2. r \in 0 .. 63 /\ s[1] = 240 + q /\ s[2] = 128 + r
      BY <1>4, <2>1
    <3> HIDE DEF q, r
    <3> QED BY <3>1, <3>2, SMT
  <2>3. Continues(s[2]) /\ Continues(s[3]) /\ Continues(s[4])
    BY <1>4, <1>5, <2>1
  <2>4. WellFormed(s, 1, 4)
    BY <1>2, <1>10, <2>2, <2>3, SMT DEF WellFormed
  <2> QED BY <1>10, <2>4 DEF n, s
<1> QED BY <1>2, <1>7, <1>8, <1>9, <1>10, SMT

(* A character stays one wherever its string is put.                       *)
LEMMA CharacterMoves ==
  ASSUME NEW S, NEW s \in Seq(S), NEW t \in Seq(S), NEW n \in 1 .. 4,
         NEW j \in Int, NEW d \in Int, WellFormed(s, j, n),
         j + d \in 1 .. Len(t) - n + 1,
         \A k \in 1 .. n : t[j + d + k - 1] = s[j + k - 1]
  PROVE  WellFormed(t, j + d, n)
<1>1. t[j + d] = s[j]
  <2>1. 1 \in 1 .. n /\ j + d + 1 - 1 = j + d /\ j + 1 - 1 = j
    BY SMT
  <2> QED BY <2>1
<1>2. \A k \in 2 .. n : t[j + d + k - 1] = s[j + k - 1]
  BY SMT
<1>3. ASSUME n >= 2 PROVE t[j + d + 1] = s[j + 1]
  <2>1. 2 \in 1 .. n
    BY <1>3, SMT
  <2>2. t[j + d + 2 - 1] = s[j + 2 - 1]
    BY <2>1
  <2> QED BY <2>2, SMT
<1>4. \A k \in 2 .. n : Continues(t[j + d + k - 1])
  BY <1>2 DEF WellFormed
<1>5. CASE n = 1
  BY <1>1, <1>4, <1>5, SMT DEF WellFormed
<1>6. CASE n = 2
  BY <1>1, <1>4, <1>6, SMT DEF WellFormed
<1>7. CASE n = 3
  <2>1. \/ s[j] = 224 /\ s[j + 1] >= 160
        \/ s[j] \in 225 .. 239 \ {237}
        \/ s[j] = 237 /\ s[j + 1] <= 159
    BY <1>7 DEF WellFormed
  <2>2. t[j + d + 1] = s[j + 1]
    BY <1>3, <1>7
  <2>3. \/ t[j + d] = 224 /\ t[j + d + 1] >= 160
        \/ t[j + d] \in 225 .. 239 \ {237}
        \/ t[j + d] = 237 /\ t[j + d + 1] <= 159
    BY <1>1, <2>1, <2>2
  <2> QED BY <1>4, <1>7, <2>3 DEF WellFormed
<1>8. CASE n = 4
  <2>1. \/ s[j] = 240 /\ s[j + 1] >= 144
        \/ s[j] \in 241 .. 243
        \/ s[j] = 244 /\ s[j + 1] <= 143
    BY <1>8 DEF WellFormed
  <2>2. t[j + d + 1] = s[j + 1]
    BY <1>3, <1>8
  <2>3. \/ t[j + d] = 240 /\ t[j + d + 1] >= 144
        \/ t[j + d] \in 241 .. 243
        \/ t[j + d] = 244 /\ t[j + d + 1] <= 143
    BY <1>1, <2>1, <2>2
  <2> QED BY <1>4, <1>8, <2>3 DEF WellFormed
<1> QED BY <1>5, <1>6, <1>7, <1>8, SMT

LEMMA TextJoined8 ==
  ASSUME NEW s \in UTF8, NEW t \in UTF8, NEW n \in 1 .. 4, Len(t) = n,
         IsText8(s), WellFormed(t, 1, n)
  PROVE  IsText8(s \o t)
<1> DEFINE u == s \o t
<1>1. /\ u \in UTF8 /\ Len(u) = Len(s) + n /\ Len(s) \in Nat
      /\ \A k \in 1 .. Len(s) : u[k] = s[k]
      /\ \A k \in 1 .. n : u[Len(s) + k] = t[k]
  BY ConcatProperties, LenProperties, SMT DEF UTF8
<1>2. DOMAIN u = 1 .. Len(s) + n /\ DOMAIN s = 1 .. Len(s)
  BY <1>1, LenProperties DEF UTF8
<1> HIDE DEF u
<1>3. ASSUME NEW i \in 1 .. Len(s)
      PROVE  \E j \in 1 .. i, m \in 1 .. 4 : WellFormed(u, j, m) /\ i < j + m
  <2>1. PICK j \in 1 .. i, m \in 1 .. 4 : WellFormed(s, j, m) /\ i < j + m
    BY <1>2 DEF IsText8
  <2>2. j \in 1 .. Len(s) - m + 1
    BY <2>1 DEF WellFormed
  <2>3. PICK d \in Int : d = 0
    BY SMT
  <2>4. j + d \in 1 .. Len(u) - m + 1 /\ j + d = j /\ j \in Int
    BY <1>1, <2>2, <2>3, SMT
  <2>5. \A k \in 1 .. m : u[j + d + k - 1] = s[j + k - 1]
    <3> SUFFICES ASSUME NEW k \in 1 .. m PROVE u[j + d + k - 1] = s[j + k - 1]
      OBVIOUS
    <3>1. j + k - 1 \in 1 .. Len(s) /\ j + d + k - 1 = j + k - 1
      BY <1>1, <2>2, <2>3, SMT
    <3> QED BY <1>1, <3>1
  <2>6. WellFormed(u, j + d, m)
    BY <1>1, <2>1, <2>4, <2>5, CharacterMoves DEF UTF8
  <2> QED BY <2>1, <2>4, <2>6
<1>4. ASSUME NEW i \in Len(s) + 1 .. Len(s) + n
      PROVE  \E j \in 1 .. i, m \in 1 .. 4 : WellFormed(u, j, m) /\ i < j + m
  <2> DEFINE j == 1 + Len(s)
  <2>1. j \in 1 .. Len(u) - n + 1 /\ j \in 1 .. i /\ i < j + n
    BY <1>1, SMT
  <2>2. \A k \in 1 .. n : u[1 + Len(s) + k - 1] = t[1 + k - 1]
    <3> SUFFICES ASSUME NEW k \in 1 .. n PROVE u[1 + Len(s) + k - 1] = t[1 + k - 1]
      OBVIOUS
    <3>1. 1 + Len(s) + k - 1 = Len(s) + k /\ 1 + k - 1 = k
      BY <1>1, SMT
    <3> QED BY <1>1, <3>1
  <2>3. 1 \in Int /\ Len(s) \in Int
    BY <1>1, SMT
  <2>4. WellFormed(u, 1 + Len(s), n)
    BY <1>1, <2>1, <2>2, <2>3, CharacterMoves DEF UTF8
  <2> QED BY <2>1, <2>4
<1>5. 1 .. Len(s) + n = (1 .. Len(s)) \cup (Len(s) + 1 .. Len(s) + n)
  BY <1>1, SMT
<1> QED BY <1>2, <1>3, <1>4, <1>5 DEF IsText8, u

LEMMA TextJoined16 ==
  ASSUME NEW s \in UTF16, NEW t \in UTF16, IsText16(s),
         \/ Len(t) = 1 /\ Scalar(t[1])
         \/ Len(t) = 2 /\ High(t[1]) /\ Low(t[2])
  PROVE  IsText16(s \o t)
<1> DEFINE u == s \o t
<1>1. /\ u \in UTF16 /\ Len(u) = Len(s) + Len(t) /\ Len(s) \in Nat /\ Len(t) \in Nat
      /\ \A k \in 1 .. Len(s) : u[k] = s[k]
      /\ \A k \in 1 .. Len(t) : u[Len(s) + k] = t[k]
  BY ConcatProperties, LenProperties, SMT DEF UTF16
<1>2. DOMAIN u = 1 .. Len(s) + Len(t) /\ DOMAIN s = 1 .. Len(s)
  BY <1>1, LenProperties DEF UTF16
<1> HIDE DEF u
<1>3. ASSUME NEW k, IsPair(s, k) PROVE IsPair(u, k)
  <2>1. k \in 1 .. Len(s) - 1 /\ High(s[k]) /\ Low(s[k + 1])
    BY <1>3 DEF IsPair
  <2>2. k \in 1 .. Len(s) /\ k + 1 \in 1 .. Len(s) /\ k \in 1 .. Len(u) - 1
    BY <1>1, <2>1, SMT
  <2>3. u[k] = s[k] /\ u[k + 1] = s[k + 1]
    BY <1>1, <2>2
  <2> QED BY <2>1, <2>2, <2>3 DEF IsPair
<1>4. ASSUME NEW i \in 1 .. Len(s)
      PROVE  Scalar(u[i]) \/ IsPair(u, i) \/ IsPair(u, i - 1)
  <2>1. Scalar(s[i]) \/ IsPair(s, i) \/ IsPair(s, i - 1)
    BY <1>2 DEF IsText16
  <2> QED BY <1>1, <1>3, <2>1
<1>5. ASSUME NEW i \in Len(s) + 1 .. Len(s) + Len(t)
      PROVE  Scalar(u[i]) \/ IsPair(u, i) \/ IsPair(u, i - 1)
  <2>1. CASE Len(t) = 1 /\ Scalar(t[1])
    <3>1. i = Len(s) + 1 /\ 1 \in 1 .. Len(t)
      BY <1>1, <2>1, SMT
    <3> QED BY <1>1, <2>1, <3>1
  <2>2. CASE Len(t) = 2 /\ High(t[1]) /\ Low(t[2])
    <3>1. /\ 1 \in 1 .. Len(t) /\ 2 \in 1 .. Len(t) /\ Len(s) + 1 + 1 = Len(s) + 2
          /\ Len(s) + 1 \in 1 .. Len(u) - 1
          /\ i = Len(s) + 1 \/ i - 1 = Len(s) + 1
      BY <1>1, <2>2, SMT
    <3>2. u[Len(s) + 1] = t[1] /\ u[Len(s) + 2] = t[2]
      BY <1>1, <3>1
    <3>3. IsPair(u, Len(s) + 1)
      BY <2>2, <3>1, <3>2 DEF IsPair
    <3> QED BY <3>1, <3>3
  <2> QED BY <2>1, <2>2
<1>6. 1 .. Len(s) + Len(t) = (1 .. Len(s)) \cup (Len(s) + 1 .. Len(s) + Len(t))
  BY <1>1, SMT
<1> QED BY <1>2, <1>4, <1>5, <1>6 DEF IsText16, u

LEMMA EmptyText == IsText8(<<>>) /\ IsText16(<<>>)
  BY SMT DEF IsText8, IsText16

LEMMA PassKeepsText ==
  ASSUME ConverterTypeOK, TargetIsText, Pass
  PROVE  TargetIsText'
<1> DEFINE c == Read.codepoint
<1>1. ~Finished /\ form' = form
  BY DEF Pass, Count, Write, Drop, Advance
<1>2. target' = target \/ target' = target \o Code(c)
  BY DEF Pass, Count, Write, Drop
<1>3. c \in Codepoint /\ Len(source) \in Nat
  BY <1>1, PassReads, LenProperties DEF ConverterTypeOK, UTF8, UTF16
<1>4. next \in 1 .. Len(source)
  BY <1>1, <1>3, SMT DEF ConverterTypeOK, Finished
<1>5. CASE form = "utf16_to_utf8"
  <2>1. Scalar(c)
    BY <1>4, <1>5, Scalar16Read DEF Read, ConverterTypeOK
  <2> HIDE DEF c
  <2>2. WellFormed(Utf8Bytes(c), 1, calculate_utf8_len(c))
    BY <1>3, <2>1, BytesAreText
  <2>3. /\ Utf8Bytes(c) \in UTF8 /\ calculate_utf8_len(c) \in 1 .. 4
        /\ Len(Utf8Bytes(c)) = calculate_utf8_len(c)
    BY <1>3, Encode8, Size8
  <2>4. target \in UTF8 /\ IsText8(target)
    BY <1>5 DEF ConverterTypeOK, TargetIsText
  <2>5. IsText8(target \o Code(c))
    BY <1>5, <2>2, <2>3, <2>4, TextJoined8 DEF Code
  <2> QED BY <1>1, <1>2, <1>5, <2>4, <2>5 DEF TargetIsText
<1>6. CASE form # "utf16_to_utf8"
  <2>1. Scalar(c)
    BY <1>4, <1>6, Scalar8Read DEF Read, ConverterTypeOK
  <2> HIDE DEF c
  <2>2. LET u == Utf16Units(c)
        IN  (Len(u) = 1 /\ Scalar(u[1])) \/ (Len(u) = 2 /\ High(u[1]) /\ Low(u[2]))
    BY <1>3, <2>1, UnitsAreText
  <2>3. Utf16Units(c) \in UTF16
    BY <1>3, Encode16
  <2>4. target \in UTF16 /\ IsText16(target)
    BY <1>6 DEF ConverterTypeOK, TargetIsText
  <2>5. IsText16(target \o Code(c))
    BY <1>6, <2>2, <2>3, <2>4, TextJoined16 DEF Code
  <2> QED BY <1>1, <1>2, <1>6, <2>4, <2>5 DEF TargetIsText
<1> QED BY <1>5, <1>6

(* Whatever is converted, into however small a target: what is written is  *)
(* well-formed text at every moment, never half a character, a lone        *)
(* surrogate or an overlong form.                                          *)
THEOREM TextIsWritten == StringsSpec => []TargetIsText
<1> DEFINE Inv == ConverterTypeOK /\ TargetIsText
<1>1. Init \/ NameInit => Inv
  <2>1. Init \/ NameInit => ConverterTypeOK
    BY TextInit, NameInitRight DEF NInv
  <2>2. Init \/ NameInit => target = <<>>
    BY DEF Init, NameInit, Start
  <2> QED BY <2>1, <2>2, EmptyText DEF TargetIsText
<1>2. Inv /\ [Next]_vars => Inv'
  <2> SUFFICES ASSUME Inv, [Next]_vars PROVE TargetIsText'
    BY NextKeepsType
  <2>1. CASE Pass
    BY <2>1, PassKeepsText
  <2>2. CASE Retry
    BY <2>2, EmptyText DEF Retry, TargetIsText
  <2>3. CASE UNCHANGED vars
    BY <2>3 DEF vars, TargetIsText
  <2> QED BY <2>1, <2>2, <2>3 DEF Next
<1>3. Inv => TargetIsText
  OBVIOUS
<1> QED BY <1>1, <1>2, <1>3, PTL DEF StringsSpec
=============================================================================
