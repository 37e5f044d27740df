------------------------------ MODULE Gevulot3 ------------------------------
(***************************************************************************)
(* The gevulot3 orchestrator (src/gevulot3/src/main.rs): the main loop that *)
(* turns the heads of a node's subscription into prove jobs, the bounded    *)
(* prove queue, the worker task that has them proved one at a time, and the *)
(* shutdown.  It extends Zisk, the webhook server and the coordinator.      *)
(*                                                                         *)
(* A head is the k-th number received from the subscription: two heads may  *)
(* have the same number (a reorganisation announces it again), and numbers  *)
(* may be missing (the subscription lags).  A prove job is its head's index.*)
(***************************************************************************)
EXTENDS Zisk

CONSTANTS
  Capacity,      \* --prove-queue-capacity
  SkipPending,   \* --skip-pending-blocks
  MaxHeads,      \* bound: the heads received in a behaviour
  EarlyWebhooks, \* may a job's webhook arrive before the job is registered?
  LossyWebhooks  \* may webhooks be lost or repeated?

ASSUME CapacityAssumption == Capacity \in Nat \ {0}
ASSUME FlagsAssumption ==
  /\ SkipPending \in BOOLEAN /\ EarlyWebhooks \in BOOLEAN /\ LossyWebhooks \in BOOLEAN
ASSUME MaxHeadsAssumption == MaxHeads \in Nat

VARIABLES
  heads,    \* the numbers received from the subscription, in order
  main,     \* where the main task is
  queue,    \* the prove queue: indices of heads, oldest first
  stop,     \* the cancellation token
  closed,   \* the only sender of the queue was dropped
  worker,   \* where the worker task is
  job,      \* the head the worker has taken, 0 for none
  jobId,    \* the id the coordinator gave that job, 0 for none
  started,  \* history: heads reported to Ethproofs as `proving`
  uploads,  \* history: <<head, input>> reported as `proved`, input being what was proved
  dropped,  \* history: heads taken out of the queue by the main task
  failed    \* history: heads the worker gave up

mainVars   == <<heads, main, dropped>>
tokenVars  == <<stop, closed>>
workerVars == <<worker, job, jobId, started, uploads, failed>>
vars == <<mainVars, tokenVars, workerVars, queue, ziskVars>>

MainPc   == {"idle", "prepare", "try_send", "drain", "send",
             "cancel", "close", "join", "exited", "panicked"}
WorkerPc == {"select", "write", "submit", "register", "await", "cleanup", "stopped"}

\* The main task has a head in hand, on its way into the queue.
Preparing == main \in {"prepare", "try_send", "drain", "send"}

Running == main \notin {"exited", "panicked"}

\* The head the main task is working on is the last one it received.
Latest == Len(heads)

Init ==
  /\ heads = <<>> /\ main = "idle" /\ dropped = {}
  /\ stop = FALSE /\ closed = FALSE
  /\ worker = "select" /\ job = 0 /\ jobId = 0
  /\ started = {} /\ uploads = {} /\ failed = {}
  /\ queue = <<>>
  /\ ZiskInit

-----------------------------------------------------------------------------
\* The main task.

\* stream.next() yields a number, which is reported as `queued` at once.
Receive(n) ==
  /\ main = "idle"
  /\ Len(heads) < MaxHeads
  /\ heads' = Append(heads, n)
  /\ main' = "prepare"
  /\ UNCHANGED <<dropped, tokenVars, workerVars, queue, ziskVars>>

\* prepare_input fetched the witness and the block and encoded them.
PrepareInput ==
  /\ main = "prepare"
  /\ main' = IF SkipPending THEN "drain" ELSE "try_send"
  /\ UNCHANGED <<heads, dropped, tokenVars, workerVars, queue, ziskVars>>

\* A failed fetch is unwrapped: the main task panics and takes the runtime,
\* with the worker and the webhook server, down.
PrepareInputPanics ==
  /\ main = "prepare"
  /\ main' = "panicked"
  /\ UNCHANGED <<heads, dropped, tokenVars, workerVars, queue, ziskVars>>

\* Mistake: the new job goes to the front of the queue.
TrySendInFront ==
  /\ main = "try_send"
  /\ Len(queue) < Capacity
  /\ queue' = <<Latest>> \o queue
  /\ main' = "idle"
  /\ UNCHANGED <<heads, dropped, tokenVars, workerVars, ziskVars>>

TrySendAccepted ==
  /\ main = "try_send"
  /\ Len(queue) < Capacity
  /\ queue' = Append(queue, Latest)
  /\ main' = "idle"
  /\ UNCHANGED <<heads, dropped, tokenVars, workerVars, ziskVars>>

\* Mistake: the job a full queue gives back is forgotten.
TrySendFullForgets ==
  /\ main = "try_send"
  /\ Len(queue) = Capacity
  /\ main' = "idle"
  /\ UNCHANGED <<heads, dropped, tokenVars, workerVars, queue, ziskVars>>

\* Mistake: with a full queue the main task waits for room.
TrySendFullWaits ==
  /\ main = "try_send"
  /\ Len(queue) = Capacity
  /\ main' = "send"
  /\ UNCHANGED <<heads, dropped, tokenVars, workerVars, queue, ziskVars>>

TrySendFull ==
  /\ main = "try_send"
  /\ Len(queue) = Capacity
  /\ main' = "drain"
  /\ UNCHANGED <<heads, dropped, tokenVars, workerVars, queue, ziskVars>>

\* One try_recv of the loop that empties the queue. The worker receives from
\* the same queue, between any two of them.
DrainOne ==
  /\ main = "drain"
  /\ queue # <<>>
  /\ dropped' = dropped \cup {Head(queue)}
  /\ queue' = Tail(queue)
  /\ UNCHANGED <<heads, main, tokenVars, workerVars, ziskVars>>

\* Mistake: one try_recv instead of a loop of them.
DrainedTooSoon ==
  /\ main = "drain"
  /\ main' = "send"
  /\ UNCHANGED <<heads, dropped, tokenVars, workerVars, queue, ziskVars>>

\* Mistake: nothing is sent after the drain.
DrainedSendsNothing ==
  /\ main = "drain"
  /\ queue = <<>>
  /\ main' = "idle"
  /\ UNCHANGED <<heads, dropped, tokenVars, workerVars, queue, ziskVars>>

Drained ==
  /\ main = "drain"
  /\ queue = <<>>
  /\ main' = "send"
  /\ UNCHANGED <<heads, dropped, tokenVars, workerVars, queue, ziskVars>>

\* send().await: it waits for room, and there is.
Send ==
  /\ main = "send"
  /\ Len(queue) < Capacity
  /\ queue' = Append(queue, Latest)
  /\ main' = "idle"
  /\ UNCHANGED <<heads, dropped, tokenVars, workerVars, ziskVars>>

\* Ctrl-C, or the end of the stream: seen between two heads only.
LeaveLoop ==
  /\ main = "idle"
  /\ main' = "cancel"
  /\ UNCHANGED <<heads, dropped, tokenVars, workerVars, queue, ziskVars>>

CancelToken ==
  /\ main = "cancel"
  /\ stop' = TRUE
  /\ main' = "close"
  /\ UNCHANGED <<heads, dropped, closed, workerVars, queue, ziskVars>>

CloseQueue ==
  /\ main = "close"
  /\ closed' = TRUE
  /\ main' = "join"
  /\ UNCHANGED <<heads, dropped, stop, workerVars, queue, ziskVars>>

\* The worker has stopped: the webhook server is aborted and main returns.
JoinWorker ==
  /\ main = "join"
  /\ worker = "stopped"
  /\ main' = "exited"
  /\ UNCHANGED <<heads, dropped, tokenVars, workerVars, queue, ziskVars>>

\* Mistake: the handle is awaited without the timeout.
JoinForever == FALSE

\* The 30 seconds have passed: main returns and the worker task dies with it.
JoinTimeout ==
  /\ main = "join"
  /\ worker # "stopped"
  /\ main' = "exited"
  /\ UNCHANGED <<heads, dropped, tokenVars, workerVars, queue, ziskVars>>

MainStep ==
  \/ PrepareInput \/ PrepareInputPanics \/ TrySendAccepted \/ TrySendFull
  \/ DrainOne \/ Drained \/ Send
  \/ CancelToken \/ CloseQueue \/ JoinWorker \/ JoinTimeout

-----------------------------------------------------------------------------
\* The worker task. Its select! has no order: with the token cancelled and a
\* job in the queue it may do either.

\* Mistake: the newest job is taken first.
TakeNewestJob ==
  /\ Running /\ worker = "select"
  /\ queue # <<>>
  /\ job' = queue[Len(queue)]
  /\ queue' = SubSeq(queue, 1, Len(queue) - 1)
  /\ started' = started \cup {queue[Len(queue)]}
  /\ worker' = "write"
  /\ UNCHANGED <<jobId, uploads, failed, mainVars, tokenVars, ziskVars>>

TakeJob ==
  /\ Running /\ worker = "select"
  /\ queue # <<>>
  /\ job' = Head(queue)
  /\ queue' = Tail(queue)
  /\ started' = started \cup {Head(queue)}
  /\ worker' = "write"
  /\ UNCHANGED <<jobId, uploads, failed, mainVars, tokenVars, ziskVars>>

ObserveStop ==
  /\ Running /\ worker = "select"
  /\ stop
  /\ worker' = "stopped"
  /\ UNCHANGED <<job, jobId, started, uploads, failed, mainVars, tokenVars, queue, ziskVars>>

\* recv() fails once the queue is both closed and empty.
ObserveClosed ==
  /\ Running /\ worker = "select"
  /\ closed /\ queue = <<>>
  /\ worker' = "stopped"
  /\ UNCHANGED <<job, jobId, started, uploads, failed, mainVars, tokenVars, queue, ziskVars>>

\* Mistake: the failed job goes back into the queue.
GiveUpRequeues ==
  /\ queue' = Append(queue, job)
  /\ job' = 0 /\ jobId' = 0
  /\ worker' = "select"
  /\ UNCHANGED <<failed, started, uploads, mainVars, tokenVars>>

\* Every error arm logs and continues with the next job; the input file stays.
GiveUp ==
  /\ failed' = failed \cup {job}
  /\ job' = 0 /\ jobId' = 0
  /\ worker' = "select"
  /\ UNCHANGED <<started, uploads, mainVars, tokenVars, queue>>

\* The worker goes on to its next await.
GoTo(pc) ==
  /\ worker' = pc
  /\ UNCHANGED <<job, started, uploads, failed, mainVars, tokenVars, queue>>

\* Mistake: a file that is already there is not written again.
WriteInputOnce ==
  /\ Running /\ worker = "write"
  /\ files' = [files EXCEPT ![heads[job]] = IF @ = NoFile THEN job ELSE @]
  /\ GoTo("submit")
  /\ UNCHANGED <<jobId, jobs, webhooks, pending, oneshots>>

WriteInput ==
  /\ Running /\ worker = "write"
  /\ files' = [files EXCEPT ![heads[job]] = job]
  /\ GoTo("submit")
  /\ UNCHANGED <<jobId, jobs, webhooks, pending, oneshots>>

\* The write fails before or after the file was truncated.
WriteInputFails ==
  /\ Running /\ worker = "write"
  /\ \E c \in {files[heads[job]], Torn}: files' = [files EXCEPT ![heads[job]] = c]
  /\ GiveUp
  /\ UNCHANGED <<jobs, webhooks, pending, oneshots>>

\* Mistake: an answer without a job passes for an accepted one.
SubmitUnchecked ==
  /\ Running /\ worker = "submit"
  /\ jobId' = Len(jobs) + 1
  /\ GoTo("register")
  /\ UNCHANGED ziskVars

\* Mistake: the input file is removed as soon as the job is accepted.
SubmitAndRemove ==
  /\ Running /\ worker = "submit"
  /\ LaunchProof(heads[job])
  /\ files' = [files EXCEPT ![heads[job]] = NoFile]
  /\ jobId' = Len(jobs) + 1
  /\ GoTo("register")
  /\ UNCHANGED <<webhooks, pending, oneshots>>

SubmitAccepted ==
  /\ Running /\ worker = "submit"
  /\ LaunchProof(heads[job])
  /\ jobId' = Len(jobs) + 1
  /\ GoTo("register")
  /\ UNCHANGED <<files, webhooks, pending, oneshots>>

\* No connection, or the coordinator answers with an error.
SubmitRejected ==
  /\ Running /\ worker = "submit"
  /\ GiveUp
  /\ UNCHANGED ziskVars

\* The coordinator has the job but its answer is lost or empty.
SubmitAnswerLost ==
  /\ Running /\ worker = "submit"
  /\ LaunchProof(heads[job])
  /\ GiveUp
  /\ UNCHANGED <<files, webhooks, pending, oneshots>>

\* Mistake: the sender is registered under no job.
RegisterNothing ==
  /\ Running /\ worker = "register"
  /\ GoTo("await")
  /\ UNCHANGED <<jobId, ziskVars>>

\* The job is registered after the coordinator was given it.
Register ==
  /\ Running /\ worker = "register"
  /\ RegisterJob(jobId)
  /\ GoTo("await")
  /\ UNCHANGED <<jobId, files, jobs, webhooks, oneshots>>

\* The wait for the payload has no timeout and does not watch the token.
ReceiveProof ==
  /\ Running /\ worker = "await"
  /\ \E m \in oneshots:
       /\ m.job = jobId
       /\ Usable(m)
       /\ oneshots' = oneshots \ {m}
       /\ uploads' = uploads \cup {<<job, m.input>>}
  /\ worker' = "cleanup"
  /\ UNCHANGED <<job, jobId, started, failed, mainVars, tokenVars, queue,
                 files, jobs, webhooks, pending>>

\* Mistake: after a failure the worker stops.
ReceiveFailureStops ==
  /\ Running /\ worker = "await"
  /\ \E m \in oneshots:
       /\ m.job = jobId
       /\ ~Usable(m)
       /\ oneshots' = oneshots \ {m}
  /\ failed' = failed \cup {job}
  /\ job' = 0 /\ jobId' = 0
  /\ worker' = "stopped"
  /\ UNCHANGED <<started, uploads, mainVars, tokenVars, queue,
                 files, jobs, webhooks, pending>>

ReceiveFailure ==
  /\ Running /\ worker = "await"
  /\ \E m \in oneshots:
       /\ m.job = jobId
       /\ ~Usable(m)
       /\ oneshots' = oneshots \ {m}
  /\ GiveUp
  /\ UNCHANGED <<files, jobs, webhooks, pending>>

\* remove_file, which may fail; only a proved block's file is ever removed.
Cleanup ==
  /\ Running /\ worker = "cleanup"
  /\ \E c \in {NoFile, files[heads[job]]}: files' = [files EXCEPT ![heads[job]] = c]
  /\ job' = 0 /\ jobId' = 0
  /\ worker' = "select"
  /\ UNCHANGED <<started, uploads, failed, mainVars, tokenVars, queue,
                 jobs, webhooks, pending, oneshots>>

WorkerStep ==
  \/ TakeJob \/ ObserveStop \/ ObserveClosed
  \/ WriteInput \/ WriteInputFails
  \/ SubmitAccepted \/ SubmitRejected \/ SubmitAnswerLost
  \/ Register \/ ReceiveProof \/ ReceiveFailure \/ Cleanup

-----------------------------------------------------------------------------
\* The coordinator and the network around the process. The coordinator outlives
\* it, but what it does then reaches nothing of it.

CoordinatorReads(i) == Running /\ ReadInput(i) /\ UNCHANGED <<mainVars, tokenVars, workerVars, queue>>

\* Without EarlyWebhooks proving takes longer than the worker's way from the
\* coordinator's answer to register_job.
CoordinatorFinishes(i) ==
  /\ Running
  /\ EarlyWebhooks \/ ~(worker = "register" /\ i = jobId)
  /\ FinishJob(i)
  /\ UNCHANGED <<mainVars, tokenVars, workerVars, queue>>

DeliverWebhook(m) ==
  /\ Running /\ WebhookHandler(m)
  /\ UNCHANGED <<mainVars, tokenVars, workerVars, queue>>

DisturbWebhook(m) ==
  /\ Running /\ LossyWebhooks
  /\ LoseWebhook(m) \/ WebhookRepeated(m)
  /\ UNCHANGED <<mainVars, tokenVars, workerVars, queue>>

Environment ==
  \/ \E i \in 1..Len(jobs): CoordinatorReads(i) \/ CoordinatorFinishes(i)
  \/ \E m \in webhooks: DeliverWebhook(m) \/ DisturbWebhook(m)

\* The process has ended.
Ended == ~Running /\ UNCHANGED vars

Next ==
  \/ \E n \in BlockNumbers: Receive(n)
  \/ LeaveLoop
  \/ MainStep
  \/ WorkerStep
  \/ Environment
  \/ Ended

Spec == Init /\ [][Next]_vars

\* The runtime polls the main task. Nothing is assumed of the worker, of the
\* coordinator or of the network, and nothing promises a head or a Ctrl-C.
MainFairSpec == Spec /\ WF_vars(MainStep)

\* It polls the worker too, whose select! takes a branch that is ready; and a
\* reachable coordinator ends every job, and its webhooks are delivered.
Fairness ==
  /\ WF_vars(MainStep)
  /\ WF_vars(WorkerStep)
  /\ \A i \in 1..(MaxLeft + MaxHeads):
       /\ WF_vars(CoordinatorReads(i))
       /\ WF_vars(CoordinatorFinishes(i))
       /\ WF_vars(\E m \in webhooks: m.job = i /\ DeliverWebhook(m))

FairSpec == Spec /\ Fairness

-----------------------------------------------------------------------------
\* Invariants.

TypeOK ==
  /\ ZiskTypeOK
  /\ heads \in Seq(BlockNumbers)
  /\ main \in MainPc /\ worker \in WorkerPc
  /\ queue \in Seq(1..Len(heads))
  /\ stop \in BOOLEAN /\ closed \in BOOLEAN
  /\ job \in 0..Len(heads)
  /\ jobId \in 0..Len(jobs)
  /\ started \subseteq 1..Len(heads)
  /\ uploads \subseteq (1..Len(heads)) \X Content
  /\ dropped \subseteq 1..Len(heads)
  /\ failed \subseteq 1..Len(heads)

InQueue == {queue[i]: i \in 1..Len(queue)}
Proved  == {u[1]: u \in uploads}

\* The queue never holds more than its capacity, and when the main task comes
\* to send().await it is empty, so that the await cannot block the main loop
\* (main.rs:236, main.rs:261): the worker may take jobs during the drain but
\* nobody else puts one in.
SendNeverBlocks ==
  /\ Len(queue) <= Capacity
  /\ main = "send" => queue = <<>>

\* With --skip-pending-blocks only the latest block is kept (cli.rs:50): at
\* most one job waits, and no later head waits for the main task while it is
\* listening for the next.
OnlyLatestKept ==
  SkipPending =>
    /\ Len(queue) <= 1
    /\ main = "idle" /\ queue # <<>> => queue[1] = Latest

\* Blocks are proved in the order they were announced, though the main task
\* and the worker both take from the queue: it is sorted, the heads already
\* taken are older than those in it, and the head in preparation is newer.
ProvedInOrder ==
  /\ \A i, j \in 1..Len(queue): i < j => queue[i] < queue[j]
  /\ \A k \in started, q \in InQueue: k < q
  /\ Preparing => Latest \notin InQueue

\* No head is lost or handled twice: one that left the main task is in the
\* queue, with the worker, or has ended in exactly one way.
EveryHeadAccounted ==
  /\ \A k \in 1..Latest:
       \/ k \in InQueue \cup dropped \cup started
       \/ k = Latest /\ (Preparing \/ main = "panicked")
  /\ dropped \cap (started \cup InQueue) = {}
  /\ failed \cap Proved = {}
  /\ started = failed \cup Proved \cup (IF job = 0 THEN {} ELSE {job})
  /\ worker \in {"write", "submit", "register", "await"} => job \notin failed \cup Proved

\* Pending blocks are only dropped to catch up with a newer one that does get
\* to the worker's side: something newer than any dropped head is in the queue,
\* was taken, or is on its way from the drain into the queue.
DroppedForNewer ==
  \A k \in dropped:
    \E j \in InQueue \cup started \cup (IF main \in {"drain", "send"} THEN {Latest} ELSE {}):
      k < j

\* The uploaded proof of a block is a proof of its own input, and not of the
\* input another head, perhaps of the same number after a reorganisation, wrote
\* to the same file (main.rs:102), nor the late answer to another job, also if
\* an earlier process left the file or the job.
ProofIsOfItsBlock == \A u \in uploads: u[1] = u[2]

\* No sender is left behind in pending_jobs: the map only ever holds the job
\* the worker waits for, and nothing waits in a channel nobody reads.
NoAbandonedSender ==
  /\ pending # {} => worker = "await" /\ pending = {jobId} /\ oneshots = {}
  /\ oneshots # {} => worker = "await" /\ \A m \in oneshots: m.job = jobId
  /\ worker = "await" => pending # {} \/ oneshots # {}

\* From the write to the answer the file of the job holds its input.
InputStaysInPlace ==
  worker \in {"submit", "register", "await"} => files[heads[job]] = job

-----------------------------------------------------------------------------
\* What gevulot3 promises, and the mapping that shows it keeps it.

Pipeline == INSTANCE ProvePipeline WITH
  announced <- Len(heads),
  waiting   <- InQueue,
  proving   <- IF worker = "cleanup" THEN 0 ELSE job,
  last      <- IF started = {} THEN 0 ELSE CHOOSE k \in started: \A j \in started: j <= k,
  proofs    <- uploads

\* Every step of the tasks, the queue and the webhook server is a step of the
\* promise, or changes nothing in it.
ImplementsPipeline == Pipeline!PSpec

-----------------------------------------------------------------------------
\* Liveness.

\* The main loop never gets stuck on the queue, though it awaits send() on a
\* bounded queue whose consumer may be waiting for a proof for ever: a head in
\* preparation is dealt with under MainFairSpec.
MainLoopReturns == main = "prepare" ~> main \in {"idle", "panicked"}

\* Once the main loop is left the process ends, with the worker in any state.
\* Under MainFairSpec.
ShutdownCompletes == main = "cancel" ~> main = "exited"

\* "Register the job with the webhook server to receive the result"
\* (main.rs:122): under FairSpec the worker receives the result it waits for.
RegisteredResultArrives == worker = "await" ~> worker # "await" \/ ~Running

\* Every queued head is settled unless the process ends. Under FairSpec.
QueuedHeadSettles ==
  \A k \in 1..MaxHeads: k \in InQueue ~> k \in dropped \cup failed \cup Proved \/ ~Running

=============================================================================
