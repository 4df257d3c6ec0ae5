------------------------------- MODULE Batch -------------------------------
(***************************************************************************)
(* What the command line tool promises: every file that was asked for is   *)
(* tried, once for each group that has it, in the order of the cabinet,    *)
(* whatever became of those before it, and the exit status says whether    *)
(* all of them were right.  A command that cannot be carried out is        *)
(* refused before anything is tried, and the status says so.               *)
(***************************************************************************)
EXTENDS Integers, Sequences

VARIABLES legal,    \* whether the command can be carried out
          jobs,     \* the files asked for, each with the group it is in
          answers,  \* what became of those tried
          status    \* the exit status
vars == <<legal, jobs, answers, status>>

Running == -1

Init ==
  /\ legal \in BOOLEAN
  /\ jobs \in Seq(Nat \X Nat)
  /\ answers = <<>>
  /\ status = Running

Try ==
  /\ legal /\ status = Running /\ Len(answers) < Len(jobs)
  /\ \E ok \in BOOLEAN :
       answers' = Append(answers, [job |-> jobs[Len(answers) + 1], ok |-> ok])
  /\ UNCHANGED <<legal, jobs, status>>

AllRight == \A k \in DOMAIN answers : answers[k].ok

Finish ==
  /\ legal /\ status = Running /\ Len(answers) = Len(jobs)
  /\ status' = IF AllRight THEN 0 ELSE 1
  /\ UNCHANGED <<legal, jobs, answers>>

Refuse ==
  /\ ~legal /\ status = Running /\ answers = <<>>
  /\ status' = 1
  /\ UNCHANGED <<legal, jobs, answers>>

Next == Try \/ Finish \/ Refuse
Spec == Init /\ [][Next]_vars
=============================================================================
