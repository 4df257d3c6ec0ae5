----------------------------- MODULE ByteSearch -----------------------------
(* Where a pattern of bytes begins in a buffer.                            *)
EXTENDS Integers, Sequences, FiniteSets

IsMatch(pattern, s, q) ==
  /\ q + Len(pattern) - 1 <= Len(s)
  /\ \A k \in DOMAIN pattern : s[q + k - 1] = pattern[k]
Matches(pattern, s) == {q \in DOMAIN s : IsMatch(pattern, s, q)}

(* Without a match, find_bytes (module FindBytes) looks at bytes behind    *)
(* the buffer when its end cuts off a possible match, or when some other   *)
(* byte stands before the last byte that could have begun one.             *)
Begins(pattern, s) == {q \in DOMAIN s : s[q] = pattern[1]}
LeftAt(pattern, s, q) == Len(s) - Cardinality({r \in Begins(pattern, s) : r < q})
LooksBeyond(pattern, s) ==
  /\ Matches(pattern, s) = {}
  /\ \E q \in Begins(pattern, s) :
       /\ LeftAt(pattern, s, q) >= Len(pattern)
       /\ \/ \A k \in DOMAIN pattern : q + k - 1 <= Len(s) => s[q + k - 1] = pattern[k]
          \/ /\ \A r \in Begins(pattern, s) : r <= q
             /\ q > Cardinality(Begins(pattern, s))
=============================================================================
