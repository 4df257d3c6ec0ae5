----------------------------- MODULE FindBytes -----------------------------
(***************************************************************************)
(* find_bytes (lib/file.c): the search for the end of chunk marker in a    *)
(* buffer, one pass of its loop each step.  buffer_left, the length given  *)
(* to memchr, is decreased by one for each first byte found and not by the *)
(* bytes that memchr skipped, so the search may look behind the buffer;    *)
(* what happens then is not for this module to say ("beyond").             *)
(***************************************************************************)
EXTENDS ByteSearch

CONSTANTS Pattern,      \* the bytes searched for
          Buffers       \* the buffers searched

ASSUME PatternAssumption == Pattern \in Seq(Int) /\ Len(Pattern) > 0
ASSUME BuffersAssumption == Buffers \subseteq Seq(Int)

VARIABLES buffer,       \* the bytes of the buffer; its size is their number
          p,            \* where memchr begins; where the match is, when found
          left,         \* buffer_left
          state         \* looking, found, null or beyond
vars == <<buffer, p, left, state>>

Init ==
  /\ buffer \in Buffers
  /\ p = 1
  /\ left = Len(buffer)
  /\ state = "looking"

(* q is the first byte of the pattern that memchr finds from p on.         *)
Candidate(q) ==
  /\ q \in p .. p + left - 1 /\ q <= Len(buffer)
  /\ buffer[q] = Pattern[1]
  /\ \A r \in p .. q - 1 : buffer[r] # Pattern[1]

(* memcmp at q: what is inside the buffer agrees with the pattern.         *)
Agrees(q) ==
  \A k \in DOMAIN Pattern : q + k - 1 <= Len(buffer) => buffer[q + k - 1] = Pattern[k]
InsideStrict(q) == q + Len(Pattern) - 1 < Len(buffer)   \* mutant
Inside(q) == q + Len(Pattern) - 1 <= Len(buffer)

End(result) == state' = result /\ UNCHANGED <<buffer, left>>

NothingFound ==
  /\ \A q \in p .. p + left - 1 : q <= Len(buffer) => buffer[q] # Pattern[1]
  /\ End(IF p + left - 1 > Len(buffer) THEN "beyond" ELSE "null")
  /\ UNCHANGED p

TooShort(q) == Len(Pattern) > left /\ End("null") /\ UNCHANGED p

Match(q) ==
  /\ Len(Pattern) <= left /\ Agrees(q)
  /\ End(IF Inside(q) THEN "found" ELSE "beyond")
  /\ p' = q

SkipDeducted(q) ==   \* mutant
  /\ Len(Pattern) <= left /\ ~Agrees(q)
  /\ p' = q + 1
  /\ left' = left - (q - p) - 2
  /\ UNCHANGED <<buffer, state>>
SkipNothing(q) ==   \* mutant
  /\ Len(Pattern) <= left /\ ~Agrees(q)
  /\ p' = q
  /\ UNCHANGED <<buffer, left, state>>
Skip(q) ==
  /\ Len(Pattern) <= left /\ ~Agrees(q)
  /\ p' = q + 1
  /\ left' = left - 1
  /\ UNCHANGED <<buffer, state>>

Pass ==
  /\ state = "looking"
  /\ \/ NothingFound
     \/ \E q \in p .. Len(buffer) : Candidate(q) /\ (TooShort(q) \/ Match(q) \/ Skip(q))

Spec == Init /\ [][Pass]_vars /\ WF_vars(Pass)
-----------------------------------------------------------------------------
(* The marker that is found is the first in the buffer; when NULL is       *)
(* answered or the search leaves the buffer, there was none in it.         *)
SearchRight ==
  /\ state = "found" => p \in Matches(Pattern, buffer) /\ \A q \in Matches(Pattern, buffer) : p <= q
  /\ state \in {"null", "beyond"} => Matches(Pattern, buffer) = {}

(* Exactly when the search leaves its buffer, which the model of           *)
(* unshield_file_save_old relies on.                                       *)
BeyondWhen == state # "looking" => (state = "beyond" <=> LooksBeyond(Pattern, buffer))

(* Every search ends.                                                      *)
SearchEnds == <>(state # "looking")
=============================================================================
