-------------------------- MODULE FindBytesProofs --------------------------
(***************************************************************************)
(* find_bytes finds the first occurrence of any pattern in any buffer: the *)
(* length it gives memchr is wrong, but never too small; and when it is so *)
(* large that the search looks behind the buffer can be told from the      *)
(* pattern and the buffer.                                                 *)
(***************************************************************************)
EXTENDS FindBytes, SequenceTheorems, FiniteSetTheorems, TLAPS

(* While the search goes on, no match begins before p and the window of    *)
(* memchr reaches at least to the end of the buffer.                       *)
TypeInv ==
  /\ buffer \in Seq(Int)
  /\ p \in Nat \ {0} /\ left \in Int
  /\ state \in {"looking", "found", "null", "beyond"}
Reaches ==
  state = "looking" =>
    /\ left >= Len(buffer) - p + 1
    /\ \A q \in Matches(Pattern, buffer) : p <= q
IInv == TypeInv /\ Reaches /\ SearchRight

LEMMA Lengths ==
  ASSUME TypeInv
  PROVE  /\ Len(buffer) \in Nat /\ DOMAIN buffer = 1 .. Len(buffer)
         /\ Len(Pattern) \in Nat \ {0} /\ 1 \in DOMAIN Pattern
  BY PatternAssumption, LenProperties DEF TypeInv

LEMMA InitIInv == Init => IInv
<1> SUFFICES ASSUME Init PROVE IInv
  OBVIOUS
<1>1. buffer \in Seq(Int) /\ p = 1 /\ left = Len(buffer) /\ state = "looking"
  BY BuffersAssumption DEF Init
<1>2. Len(buffer) \in Nat /\ DOMAIN buffer = 1 .. Len(buffer)
  BY <1>1, LenProperties
<1> QED BY <1>1, <1>2 DEF IInv, TypeInv, Reaches, SearchRight, Matches

(* A match that is still to be found begins with a candidate or after it.  *)
LEMMA MatchesAfterCandidate ==
  ASSUME IInv, state = "looking", NEW m \in Matches(Pattern, buffer)
  PROVE  /\ m \in p .. p + left - 1 /\ m <= Len(buffer) /\ Len(Pattern) <= left
         /\ buffer[m] = Pattern[1]
         /\ \A q : Candidate(q) => q <= m
<1>1. m \in 1 .. Len(buffer) /\ IsMatch(Pattern, buffer, m) /\ p <= m
  BY Lengths DEF IInv, Reaches, Matches
<1>2. m + Len(Pattern) - 1 <= Len(buffer) /\ buffer[m + 1 - 1] = Pattern[1]
  BY <1>1, Lengths DEF IsMatch, IInv
<1>3. buffer[m] = Pattern[1]
  BY <1>1, <1>2
<1>4. left >= Len(buffer) - p + 1 /\ p \in Nat /\ left \in Int
  BY DEF IInv, Reaches, TypeInv
<1>5. m \in p .. p + left - 1 /\ Len(Pattern) <= left
  BY <1>1, <1>2, <1>4, Lengths DEF IInv
<1>6. ASSUME NEW q, Candidate(q) PROVE q <= m
  BY <1>1, <1>3, <1>4, <1>6 DEF Candidate
<1> QED BY <1>1, <1>3, <1>5, <1>6

LEMMA NothingFoundIInv ==
  ASSUME IInv, state = "looking", NothingFound PROVE IInv'
<1>1. Matches(Pattern, buffer) = {}
  <2> SUFFICES ASSUME NEW m \in Matches(Pattern, buffer) PROVE FALSE
    OBVIOUS
  <2> QED BY MatchesAfterCandidate DEF NothingFound
<1>2. state' \in {"beyond", "null"} /\ UNCHANGED <<buffer, left, p>>
  BY DEF NothingFound, End
<1> QED BY <1>1, <1>2 DEF IInv, TypeInv, Reaches, SearchRight, Matches, IsMatch

LEMMA TooShortIInv ==
  ASSUME IInv, state = "looking", NEW q, TooShort(q) PROVE IInv'
<1>1. Len(Pattern) > left /\ state' = "null" /\ UNCHANGED <<buffer, left, p>>
  BY DEF TooShort, End
<1>2. Matches(Pattern, buffer) = {}
  <2> SUFFICES ASSUME NEW m \in Matches(Pattern, buffer) PROVE FALSE
    OBVIOUS
  <2>1. Len(Pattern) <= left /\ left \in Int /\ Len(Pattern) \in Nat
    BY MatchesAfterCandidate, Lengths DEF IInv, TypeInv
  <2> QED BY <1>1, <2>1
<1> QED BY <1>1, <1>2 DEF IInv, TypeInv, Reaches, SearchRight, Matches, IsMatch

LEMMA MatchIInv ==
  ASSUME IInv, state = "looking", NEW q \in p .. Len(buffer), Candidate(q), Match(q)
  PROVE  IInv'
<1>1. /\ Agrees(q) /\ p' = q /\ UNCHANGED <<buffer, left>>
      /\ state' = IF Inside(q) THEN "found" ELSE "beyond"
  BY DEF Match, End
<1>2. Matches(Pattern, buffer)' = Matches(Pattern, buffer)
  BY <1>1 DEF Matches, IsMatch
<1>3. q \in Nat \ {0} /\ q \in DOMAIN buffer
  BY Lengths DEF IInv, TypeInv
<1>4. \A m \in Matches(Pattern, buffer) : q <= m
  BY MatchesAfterCandidate
<1>5. CASE Inside(q)
  <2>1. q \in Matches(Pattern, buffer)
    <3> SUFFICES ASSUME NEW k \in DOMAIN Pattern PROVE buffer[q + k - 1] = Pattern[k]
      BY <1>3, <1>5 DEF Matches, IsMatch, Inside
    <3>1. q + k - 1 <= Len(buffer)
      <4>1. k \in 1 .. Len(Pattern) /\ Len(Pattern) \in Nat
        BY PatternAssumption, LenProperties
      <4> QED BY <1>3, <1>5, <4>1, Lengths DEF Inside, IInv
    <3> QED BY <1>1, <3>1 DEF Agrees
  <2> QED BY <1>1, <1>2, <1>3, <1>4, <1>5, <2>1 DEF IInv, TypeInv, Reaches, SearchRight
<1>6. CASE ~Inside(q)
  <2>1. Matches(Pattern, buffer) = {}
    <3> SUFFICES ASSUME NEW m \in Matches(Pattern, buffer) PROVE FALSE
      OBVIOUS
    <3>1. q <= m /\ m \in 1 .. Len(buffer) /\ m + Len(Pattern) - 1 <= Len(buffer)
      BY <1>4, Lengths DEF Matches, IsMatch, IInv
    <3> QED BY <1>3, <1>6, <3>1, Lengths DEF Inside, IInv
  <2> QED BY <1>1, <1>2, <1>3, <1>6, <2>1 DEF IInv, TypeInv, Reaches, SearchRight
<1> QED BY <1>5, <1>6

LEMMA SkipIInv ==
  ASSUME IInv, state = "looking", NEW q \in p .. Len(buffer), Candidate(q), Skip(q)
  PROVE  IInv'
<1>1. ~Agrees(q) /\ p' = q + 1 /\ left' = left - 1 /\ UNCHANGED <<buffer, state>>
  BY DEF Skip
<1>2. /\ q \in Nat \ {0} /\ p \in Nat \ {0} /\ p <= q /\ left \in Int
      /\ left >= Len(buffer) - p + 1 /\ Len(buffer) \in Nat
  BY Lengths DEF IInv, TypeInv, Reaches
<1>3. \A m \in Matches(Pattern, buffer) : q + 1 <= m
  <2> SUFFICES ASSUME NEW m \in Matches(Pattern, buffer) PROVE q + 1 <= m
    OBVIOUS
  <2>1. q <= m /\ m \in 1 .. Len(buffer) /\ IsMatch(Pattern, buffer, m)
    BY MatchesAfterCandidate, Lengths DEF Matches, IInv
  <2>2. m # q
    BY <1>1, <2>1 DEF IsMatch, Agrees
  <2> QED BY <1>2, <2>1, <2>2
<1>4. Matches(Pattern, buffer)' = Matches(Pattern, buffer)
  BY <1>1 DEF Matches, IsMatch
<1> QED BY <1>1, <1>2, <1>3, <1>4 DEF IInv, TypeInv, Reaches, SearchRight

LEMMA PassIInv ==
  ASSUME IInv, [Pass]_vars PROVE IInv'
<1>1. CASE Pass
  <2>1. state = "looking"
    BY <1>1 DEF Pass
  <2>2. CASE NothingFound
    BY <2>1, <2>2, NothingFoundIInv
  <2>3. ASSUME NEW q \in p .. Len(buffer), Candidate(q), TooShort(q) \/ Match(q) \/ Skip(q)
        PROVE  IInv'
    BY <2>1, <2>3, TooShortIInv, MatchIInv, SkipIInv
  <2> QED BY <1>1, <2>2, <2>3 DEF Pass
<1>2. CASE UNCHANGED vars
  BY <1>2 DEF vars, IInv, TypeInv, Reaches, SearchRight, Matches, IsMatch
<1> QED BY <1>1, <1>2

(* Whatever the pattern and the buffer, find_bytes answers the first match *)
(* when there is one, and looks behind the buffer only when there is none. *)
THEOREM FindsFirst == Spec => []SearchRight
<1>1. Init => IInv
  BY InitIInv
<1>2. IInv /\ [Pass]_vars => IInv'
  BY PassIInv
<1>3. IInv => SearchRight
  BY DEF IInv
<1> QED BY <1>1, <1>2, <1>3, PTL DEF Spec
-----------------------------------------------------------------------------
(* When the search leaves its buffer.  The window has shrunk by one for    *)
(* each first byte passed, p is behind the last of them, and none of them  *)
(* began a match, not even one that the end of the buffer cuts off.        *)
Passed(q) == {r \in Begins(Pattern, buffer) : r < q}
Shrunk ==
  state = "looking" =>
    /\ left = Len(buffer) - Cardinality(Passed(p))
    /\ \A r \in Passed(p) :
         ~Agrees(r) /\ LeftAt(Pattern, buffer, r) >= Len(Pattern)
    /\ p = 1 \/ p - 1 \in Begins(Pattern, buffer)
BInv == IInv /\ Shrunk /\ BeyondWhen

LEMMA PassedFinite ==
  ASSUME TypeInv, NEW q
  PROVE  /\ Passed(q) \subseteq Begins(Pattern, buffer)
         /\ IsFiniteSet(Passed(q)) /\ IsFiniteSet(Begins(Pattern, buffer))
         /\ Cardinality(Passed(q)) \in Nat
         /\ Cardinality(Passed(q)) <= Cardinality(Begins(Pattern, buffer))
         /\ LeftAt(Pattern, buffer, q) = Len(buffer) - Cardinality(Passed(q))
         /\ Cardinality(Begins(Pattern, buffer)) \in Nat
<1>1. IsFiniteSet(1 .. Len(buffer)) /\ Begins(Pattern, buffer) \subseteq 1 .. Len(buffer)
  BY Lengths, FS_Interval DEF Begins
<1>2. Passed(q) \subseteq Begins(Pattern, buffer)
  BY DEF Passed
<1> QED BY <1>1, <1>2, FS_Subset, FS_CardinalityType DEF LeftAt, Passed

LEMMA InitBInv == Init => BInv
<1> SUFFICES ASSUME Init PROVE BInv
  OBVIOUS
<1>1. IInv /\ p = 1 /\ left = Len(buffer) /\ state = "looking"
  BY InitIInv DEF Init
<1>2. Passed(p) = {}
  BY <1>1, Lengths DEF Passed, Begins, IInv
<1>3. Cardinality({}) = 0 /\ Len(buffer) - 0 = Len(buffer)
  BY <1>1, FS_EmptySet, Lengths DEF IInv
<1>4. Shrunk
  BY <1>1, <1>2, <1>3 DEF Shrunk
<1> QED BY <1>1, <1>4 DEF BInv, BeyondWhen

(* A candidate is the next of the first bytes.                             *)
LEMMA CandidateIsNext ==
  ASSUME BInv, state = "looking", NEW q \in p .. Len(buffer), Candidate(q)
  PROVE  /\ q \in Begins(Pattern, buffer) /\ Passed(q) = Passed(p)
         /\ LeftAt(Pattern, buffer, q) = left
<1>1. q \in Nat /\ p \in Nat \ {0} /\ p <= q /\ q <= Len(buffer)
  BY Lengths DEF BInv, IInv, TypeInv
<1>2. q \in Begins(Pattern, buffer)
  BY <1>1, Lengths DEF Begins, Candidate, BInv, IInv
<1>3. Passed(q) = Passed(p)
  BY <1>1, Lengths DEF Passed, Begins, Candidate, BInv, IInv
<1> QED BY <1>2, <1>3, PassedFinite DEF BInv, IInv, Shrunk

(* When memchr finds nothing, every first byte was passed.                 *)
LEMMA NothingFoundBeyond ==
  ASSUME BInv, state = "looking", NothingFound PROVE BeyondWhen'
<1> DEFINE B == Begins(Pattern, buffer)
<1>1. /\ p \in Nat \ {0} /\ left \in Int /\ Len(buffer) \in Nat
      /\ left >= Len(buffer) - p + 1 /\ DOMAIN buffer = 1 .. Len(buffer)
  BY Lengths DEF BInv, IInv, TypeInv, Reaches
<1>2. Passed(p) = B
  BY <1>1 DEF Passed, Begins, NothingFound
<1>3. left = Len(buffer) - Cardinality(B) /\ Cardinality(B) \in Nat
  BY <1>2, PassedFinite DEF BInv, IInv, Shrunk
<1>4. /\ UNCHANGED buffer /\ Matches(Pattern, buffer) = {}
      /\ state' = IF p + left - 1 > Len(buffer) THEN "beyond" ELSE "null"
  <2>1. UNCHANGED buffer /\ state' \in {"beyond", "null"} /\ IInv'
    BY NothingFoundIInv DEF NothingFound, End, BInv
  <2> QED BY <2>1 DEF IInv, SearchRight, Matches, IsMatch, NothingFound, End
<1>5. (state' = "beyond" <=> p - 1 > Cardinality(B)) /\ state' # "looking"
  BY <1>1, <1>3, <1>4
<1>6. \A r \in B : ~Agrees(r) /\ LeftAt(Pattern, buffer, r) >= Len(Pattern) /\ r < p
  BY <1>2 DEF BInv, Shrunk, Passed
<1>7. LooksBeyond(Pattern, buffer) <=> p - 1 > Cardinality(B)
  <2>1. CASE p = 1
    <3>1. B = {}
      BY <1>1, <1>6, <2>1 DEF Begins
    <3> QED BY <2>1, <3>1, <1>3 DEF LooksBeyond
  <2>2. CASE p - 1 \in B
    <3>1. \A r \in B : r \in Nat /\ r <= p - 1
      BY <1>1, <1>6 DEF Begins
    <3>2. ASSUME NEW q \in B, \A r \in B : r <= q PROVE q = p - 1
      BY <1>1, <2>2, <3>1, <3>2
    <3>3. LooksBeyond(Pattern, buffer)
            <=> \E q \in B : (\A r \in B : r <= q) /\ q > Cardinality(B)
      BY <1>4, <1>6 DEF LooksBeyond, Agrees
    <3> QED BY <2>2, <3>1, <3>2, <3>3
  <2> QED BY <2>1, <2>2 DEF BInv, Shrunk
<1> QED BY <1>4, <1>5, <1>7 DEF BeyondWhen

(* What is left is too short for the pattern, and was for all that follow. *)
LEMMA TooShortBeyond ==
  ASSUME BInv, state = "looking", NEW q \in p .. Len(buffer), Candidate(q), TooShort(q)
  PROVE  BeyondWhen'
<1>1. Len(Pattern) > left /\ state' = "null" /\ UNCHANGED buffer
  BY DEF TooShort, End
<1>2. /\ q \in Begins(Pattern, buffer) /\ Passed(q) = Passed(p)
      /\ LeftAt(Pattern, buffer, q) = left
  BY CandidateIsNext
<1>3. /\ Len(Pattern) \in Nat /\ left \in Int /\ Len(buffer) \in Nat /\ q \in Nat
      /\ Begins(Pattern, buffer) \subseteq Nat
  BY Lengths DEF BInv, IInv, TypeInv, Begins
<1>4. ASSUME NEW r \in Begins(Pattern, buffer), r < q
      PROVE  ~Agrees(r)
  BY <1>2, <1>4 DEF Passed, BInv, Shrunk
<1>5. ASSUME NEW r \in Begins(Pattern, buffer), r >= q
      PROVE  LeftAt(Pattern, buffer, r) < Len(Pattern)
  <2>1. Passed(q) \subseteq Passed(r) /\ r \in Nat
    BY <1>3, <1>5 DEF Passed
  <2>2. Cardinality(Passed(q)) <= Cardinality(Passed(r))
    BY <2>1, PassedFinite, FS_Subset DEF BInv, IInv
  <2> HIDE DEF Passed
  <2>3. /\ LeftAt(Pattern, buffer, r) = Len(buffer) - Cardinality(Passed(r))
        /\ left = Len(buffer) - Cardinality(Passed(q))
        /\ Cardinality(Passed(q)) \in Nat /\ Cardinality(Passed(r)) \in Nat
    BY <1>2, PassedFinite DEF BInv, IInv
  <2> QED BY <1>1, <1>3, <2>2, <2>3
<1>6. ~LooksBeyond(Pattern, buffer)
  <2> SUFFICES ASSUME NEW r \in Begins(Pattern, buffer),
                      LeftAt(Pattern, buffer, r) >= Len(Pattern),
                      Agrees(r) \/ \A s \in Begins(Pattern, buffer) : s <= r
               PROVE  FALSE
    BY DEF LooksBeyond, Agrees
  <2>1. r \in Nat /\ LeftAt(Pattern, buffer, r) \in Int
    BY <1>3, PassedFinite DEF BInv, IInv
  <2>2. r < q
    BY <1>3, <1>5, <2>1
  <2> QED BY <1>2, <1>3, <1>4, <2>1, <2>2
<1> QED BY <1>1, <1>6 DEF BeyondWhen

LEMMA MatchBeyond ==
  ASSUME BInv, state = "looking", NEW q \in p .. Len(buffer), Candidate(q), Match(q)
  PROVE  BeyondWhen'
<1>1. /\ Agrees(q) /\ UNCHANGED buffer /\ Len(Pattern) <= left
      /\ state' = IF Inside(q) THEN "found" ELSE "beyond"
  BY DEF Match, End
<1>2. IInv'
  BY MatchIInv DEF BInv
<1>3. CASE state' = "found"
  BY <1>1, <1>2, <1>3 DEF BeyondWhen, LooksBeyond, IInv, SearchRight, Matches, IsMatch
<1>4. CASE state' = "beyond"
  <2>1. Matches(Pattern, buffer) = {}
    BY <1>1, <1>2, <1>4 DEF IInv, SearchRight, Matches, IsMatch
  <2>2. LooksBeyond(Pattern, buffer)
    BY <1>1, <2>1, CandidateIsNext DEF LooksBeyond, Agrees
  <2> QED BY <1>1, <1>4, <2>2 DEF BeyondWhen
<1> QED BY <1>1, <1>3, <1>4

LEMMA SkipShrunk ==
  ASSUME BInv, state = "looking", NEW q \in p .. Len(buffer), Candidate(q), Skip(q)
  PROVE  Shrunk' /\ BeyondWhen'
<1>1. /\ ~Agrees(q) /\ Len(Pattern) <= left /\ p' = q + 1 /\ left' = left - 1
      /\ UNCHANGED <<buffer, state>>
  BY DEF Skip
<1>2. /\ q \in Begins(Pattern, buffer) /\ Passed(q) = Passed(p)
      /\ LeftAt(Pattern, buffer, q) = left /\ q \in Nat /\ Begins(Pattern, buffer) \subseteq Nat
  BY CandidateIsNext, Lengths DEF BInv, IInv, TypeInv, Begins
<1>3. Passed(q + 1) = Passed(p) \cup {q} /\ q \notin Passed(q)
  BY <1>2 DEF Passed
<1>4. Cardinality(Passed(q + 1)) = Cardinality(Passed(p)) + 1
  BY <1>2, <1>3, PassedFinite, FS_AddElement DEF BInv, IInv
<1>5. /\ left = Len(buffer) - Cardinality(Passed(p)) /\ Cardinality(Passed(p)) \in Nat
      /\ Len(buffer) \in Nat
  BY PassedFinite, Lengths DEF BInv, IInv, Shrunk
<1>6. ASSUME NEW r \in Passed(q + 1)
      PROVE  ~Agrees(r) /\ LeftAt(Pattern, buffer, r) >= Len(Pattern)
  <2>1. CASE r = q
    BY <1>1, <1>2, <2>1, Lengths DEF BInv, IInv, TypeInv
  <2>2. CASE r \in Passed(p)
    BY <2>2 DEF BInv, Shrunk
  <2> QED BY <1>3, <2>1, <2>2
<1>7. /\ Passed(p)' = Passed(q + 1) /\ (p - 1)' \in Begins(Pattern, buffer)'
      /\ \A r : Agrees(r)' = Agrees(r)
      /\ \A r : LeftAt(Pattern, buffer, r)' = LeftAt(Pattern, buffer, r)
  BY <1>1, <1>2 DEF Passed, Begins, Agrees, LeftAt
<1>8. left' = (Len(buffer) - Cardinality(Passed(p)))'
  BY <1>1, <1>4, <1>5, <1>7
<1>9. Shrunk'
  BY <1>6, <1>7, <1>8 DEF Shrunk
<1> QED BY <1>1, <1>9 DEF BeyondWhen

LEMMA PassBInv == ASSUME BInv, [Pass]_vars PROVE BInv'
<1>1. IInv'
  BY PassIInv DEF BInv
<1>2. CASE Pass
  <2>1. state = "looking"
    BY <1>2 DEF Pass
  <2>2. CASE NothingFound
    BY <1>1, <2>1, <2>2, NothingFoundBeyond DEF BInv, Shrunk, NothingFound, End
  <2>3. ASSUME NEW q \in p .. Len(buffer), Candidate(q), TooShort(q) \/ Match(q) \/ Skip(q)
        PROVE  BInv'
    <3>1. CASE TooShort(q)
      BY <1>1, <2>1, <2>3, <3>1, TooShortBeyond DEF BInv, Shrunk, TooShort, End
    <3>2. CASE Match(q)
      <4>1. state' # "looking"
        BY <3>2 DEF Match, End
      <4> QED BY <1>1, <2>1, <2>3, <3>2, <4>1, MatchBeyond DEF BInv, Shrunk
    <3>3. CASE Skip(q)
      BY <1>1, <2>1, <2>3, <3>3, SkipShrunk DEF BInv
    <3> QED BY <2>3, <3>1, <3>2, <3>3
  <2> QED BY <1>2, <2>2, <2>3 DEF Pass
<1>3. CASE UNCHANGED vars
  BY <1>1, <1>3 DEF vars, BInv, Shrunk, BeyondWhen, Passed, Agrees
<1> QED BY <1>2, <1>3

(* Whatever the pattern and the buffer, find_bytes leaves the buffer when  *)
(* LooksBeyond says so and only then, which SaveOld relies on.             *)
THEOREM LeavesBufferWhen == Spec => []BeyondWhen
<1>1. Init => BInv
  BY InitBInv
<1>2. BInv /\ [Pass]_vars => BInv'
  BY PassBInv
<1>3. BInv => BeyondWhen
  BY DEF BInv
<1> QED BY <1>1, <1>2, <1>3, PTL DEF Spec
=============================================================================
