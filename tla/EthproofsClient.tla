---------------------------- MODULE EthproofsClient ----------------------------
(***************************************************************************)
(* The client of the Ethproofs service (src/ethproofs/src/lib.rs): queued,  *)
(* proving and proved each spawn a detached task that posts one report,     *)
(* again after a transient failure, and logs the error if it gives up.      *)
(*                                                                         *)
(* The service is external: it answers as it likes, or not at all.          *)
(* Operators with a primed variable leave the other variables to the module *)
(* that composes them (Gevulot2).                                           *)
(***************************************************************************)
EXTENDS Naturals

CONSTANT MaxRetries \* with_max_retries: 3

ASSUME MaxRetriesAssumption == MaxRetries \in Nat

VARIABLES
  reported, \* history: the reports made
  posting   \* the reports whose task runs, with the retries each has left

ethproofsVars == <<reported, posting>>

EthproofsInit == reported = {} /\ posting = {}

\* queued, proving or proved: the caller does not wait.
Report(report) ==
  /\ reported' = reported \cup {report}
  /\ posting' = posting \cup {[report |-> report, left |-> MaxRetries]}

\* Mistake: the count of the retries starts again when none is left.
PostRetriesForever(task, answer) ==
  /\ task \in posting
  /\ posting' = (posting \ {task}) \cup
       IF answer # "transient" THEN {}
       ELSE {[task EXCEPT !.left = IF @ = 0 THEN MaxRetries ELSE @ - 1]}
  /\ UNCHANGED reported

\* One request.  A transient failure (no connection, a connection lost, an error
\* of the server) is retried, another ends the task, as an answer does.
Post(task, answer) ==
  /\ task \in posting
  /\ posting' = IF answer = "transient" /\ task.left > 0
                THEN (posting \ {task}) \cup {[task EXCEPT !.left = @ - 1]}
                ELSE posting \ {task}
  /\ UNCHANGED reported

Answers == {"accepted", "transient", "refused"}

PostOf(report) == \E task \in posting, answer \in Answers: task.report = report /\ Post(task, answer)

\* The runtime is dropped with the tasks in it.
TasksDie == posting' = {} /\ UNCHANGED reported
=============================================================================
