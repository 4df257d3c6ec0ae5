----------------------------- MODULE Extraction -----------------------------
(***************************************************************************)
(* What libunshield promises to a client that extracts files one after the *)
(* other (unshield_file_save, unshield_file_save_raw): an output file that *)
(* only grows, and an answer that is true only when the output is          *)
(* acceptable for the request.  A request may fail at any time.            *)
(***************************************************************************)
EXTENDS Naturals, Sequences

VARIABLES request,  \* the request being served, or the last one
          busy,     \* whether one is being served
          output,   \* the bytes in the output file
          answers   \* one answer for each request served
vars == <<request, busy, output, answers>>

(* legal: there is such a file; kept: the caller wants the output; size    *)
(* and exact: how long the output has to be and, where that is known, the  *)
(* bytes it has to be.                                                     *)
Requests ==
  [legal : BOOLEAN, kept : BOOLEAN, size : Nat, exact : SUBSET Seq(Nat)]

Acceptable ==
  /\ request.legal
  /\ request.kept =>
       /\ Len(output) = request.size
       /\ \A bytes \in request.exact : output = bytes

Init ==
  /\ request \in Requests
  /\ busy = FALSE
  /\ output = <<>>
  /\ answers = <<>>

Ask ==
  /\ ~busy
  /\ request' \in Requests
  /\ busy' = TRUE
  /\ output' = <<>>
  /\ UNCHANGED answers

Grows(s, t) == Len(s) <= Len(t) /\ s = SubSeq(t, 1, Len(s))

Write ==
  /\ busy
  /\ Grows(output, output')
  /\ UNCHANGED <<request, busy, answers>>

Answer(ok) ==
  /\ busy
  /\ ok => Acceptable
  /\ busy' = FALSE
  /\ answers' = Append(answers, ok)
  /\ UNCHANGED <<request, output>>

Next == Ask \/ Write \/ (\E ok \in BOOLEAN : Answer(ok))

Spec == Init /\ [][Next]_vars
=============================================================================
