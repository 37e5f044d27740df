-------------------------------- MODULE Zisk --------------------------------
(***************************************************************************)
(* The ZisK side of gevulot3 (src/gevulot3/src/zisk.rs): the webhook server *)
(* of the process, with its map of registered jobs and their one-shot       *)
(* channels, and, as external parts, the coordinator that proves the jobs   *)
(* it is given and the file system it reads their inputs from.              *)
(*                                                                         *)
(* The content of an input file is the index of the head it was prepared    *)
(* for.  Operators with a primed variable leave the other variables to the  *)
(* module that composes them (Gevulot3).                                    *)
(***************************************************************************)
EXTENDS Naturals, Sequences

CONSTANTS
  BlockNumbers,   \* the numbers a block can have; each names one file in /tmp
  Outcomes,       \* what a webhook can say: [proof, error, steps : BOOLEAN]
  NoFile,         \* the content of a file that does not exist
  Torn,           \* the content a failed write may leave behind
  Stale,          \* an input an earlier process wrote
  Unread,         \* the input of a job whose file was not read yet
  LeftFiles,      \* what an earlier process may have left of a file
  MaxLeft         \* bound: the jobs of earlier processes the coordinator still has

ASSUME OutcomesAssumption == Outcomes \subseteq [proof: BOOLEAN, error: BOOLEAN, steps: BOOLEAN]

ASSUME ContentsAssumption ==
  /\ NoFile \notin Nat /\ Torn \notin Nat /\ Stale \notin Nat /\ Unread \notin Nat
  /\ NoFile # Torn /\ NoFile # Stale /\ Torn # Stale
  /\ Unread \notin {NoFile, Torn, Stale}

ASSUME LeftAssumption == LeftFiles \subseteq {NoFile, Torn, Stale} /\ MaxLeft \in Nat

VARIABLES
  files,     \* /tmp/{block_number}.bin |-> its content
  jobs,      \* the coordinator's jobs; a job's id is its index
  webhooks,  \* webhook requests on their way to the server
  pending,   \* pending_jobs: ids whose one-shot sender is in the map
  oneshots   \* payloads sent on a one-shot channel and not received yet

ziskVars == <<files, jobs, webhooks, pending, oneshots>>

Content == Nat \cup {NoFile, Torn, Stale}
Job     == [file: BlockNumbers, input: Content \cup {Unread}, done: BOOLEAN]
Webhook == [job: Nat \ {0}, input: Content,
            proof: BOOLEAN, error: BOOLEAN, steps: BOOLEAN]

\* A job an earlier process submitted.  The coordinator outlived that process: it
\* has the job still before it, and will post its webhook to this one.
LeftJob == [file: BlockNumbers, input: {Unread}, done: {FALSE}]

\* The process may be started after another one, which ended anywhere: its files
\* are still in /tmp and its jobs with the coordinator.  The map starts empty.
ZiskInit ==
  /\ files \in [BlockNumbers -> LeftFiles]
  /\ \E left \in 0..MaxLeft: jobs \in [1..left -> LeftJob]
  /\ webhooks = {}
  /\ pending = {}
  /\ oneshots = {}

-----------------------------------------------------------------------------
\* The coordinator.

\* launch_proof: the job is accepted under a fresh id.
LaunchProof(n) ==
  jobs' = Append(jobs, [file |-> n, input |-> Unread, done |-> FALSE])

\* The coordinator opens the input file it was given the path of; nothing in
\* gevulot3 says when.
ReadInput(i) ==
  /\ i \in 1..Len(jobs)
  /\ jobs[i].input = Unread
  /\ jobs' = [jobs EXCEPT ![i].input = files[jobs[i].file]]
  /\ UNCHANGED <<files, webhooks, pending, oneshots>>

\* The job ends and its webhook is posted. Only an input that was read whole
\* can be proved.
FinishJob(i) ==
  /\ i \in 1..Len(jobs)
  /\ jobs[i].input # Unread
  /\ ~jobs[i].done
  /\ \E o \in Outcomes:
       /\ o.proof /\ ~o.error => jobs[i].input \notin {NoFile, Torn}
       /\ webhooks' = webhooks \cup {[job |-> i, input |-> jobs[i].input,
                                      proof |-> o.proof, error |-> o.error, steps |-> o.steps]}
  /\ jobs' = [jobs EXCEPT ![i].done = TRUE]
  /\ UNCHANGED <<files, pending, oneshots>>

\* The request never arrives: the server was unreachable.
LoseWebhook(m) ==
  /\ m \in webhooks
  /\ webhooks' = webhooks \ {m}
  /\ UNCHANGED <<files, jobs, pending, oneshots>>

-----------------------------------------------------------------------------
\* The webhook server.

\* register_job: a new one-shot channel, its sender in the map.
RegisterJob(id) == pending' = pending \cup {id}

\* Mistake: the sender is looked up but stays in the map.
HandleKeepsSender(m) ==
  /\ m \in webhooks
  /\ oneshots' = IF m.job \in pending THEN oneshots \cup {m} ELSE oneshots
  /\ UNCHANGED <<files, jobs, pending>>

\* webhook_handler: the sender leaves the map with the lookup and the payload
\* goes to its receiver; the payload of an unknown job is dropped. The reply is
\* OK either way, so the coordinator never repeats a request for the reason
\* that its job was unknown.
Handle(m) ==
  /\ m \in webhooks
  /\ IF m.job \in pending
       THEN /\ pending' = pending \ {m.job}
            /\ oneshots' = oneshots \cup {m}
       ELSE UNCHANGED <<pending, oneshots>>
  /\ UNCHANGED <<files, jobs>>

\* The request is answered.
WebhookHandler(m) == Handle(m) /\ webhooks' = webhooks \ {m}

\* The request is answered but the answer is lost: it is sent again.
WebhookRepeated(m) == Handle(m) /\ UNCHANGED webhooks

\* prove_queue's consumer keeps a payload only if it has no error and has both
\* a proof and a number of steps; `success` is only logged.
Usable(m) == m.proof /\ ~m.error /\ m.steps

ZiskTypeOK ==
  /\ files \in [BlockNumbers -> Content]
  /\ jobs \in Seq(Job)
  /\ webhooks \subseteq Webhook
  /\ pending \subseteq Nat
  /\ oneshots \subseteq Webhook
=============================================================================
