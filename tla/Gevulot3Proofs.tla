--------------------------- MODULE Gevulot3Proofs ---------------------------
(*****************************************************************************)
(* Theorems about Gevulot3 for every value of its constants: its invariants, *)
(* the safety half of its liveness, and, at the end, that it keeps the       *)
(* promise of ProvePipeline.                                                 *)
(*****************************************************************************)
EXTENDS Gevulot3, SequenceTheorems, FiniteSetTheorems, TLAPS

\* The worker has a job exactly between taking it and being done with it.
WorkerHasJob == worker \in {"select", "stopped"} <=> job = 0

\* The main task only prepares a head it received.
MainHasHead == Preparing => Latest # 0

TypeInv == TypeOK /\ WorkerHasJob /\ MainHasHead

\* A head added to the sequence keeps the indices typed.
LEMMA MoreHeads ==
  ASSUME TypeOK, NEW n \in BlockNumbers, heads' = Append(heads, n)
  PROVE  /\ heads' \in Seq(BlockNumbers)
         /\ Len(heads') = Len(heads) + 1
         /\ 1..Len(heads) \subseteq 1..Len(heads')
         /\ Seq(1..Len(heads)) \subseteq Seq(1..Len(heads'))
<1> USE DEF TypeOK
<1>1. heads' \in Seq(BlockNumbers) /\ Len(heads') = Len(heads) + 1
  BY AppendProperties
<1>2. 1..Len(heads) \subseteq 1..Len(heads')
  BY <1>1
<1>3. \A s \in Seq(1..Len(heads)): s \in Seq(1..Len(heads'))
  BY <1>2, SeqMonotonic
<1> QED BY <1>1, <1>2, <1>3


\* A launched job is a typed job under the next id.
LEMMA OneMoreJob ==
  ASSUME TypeInv, job # 0, LaunchProof(heads[job])
  PROVE  /\ jobs' \in Seq(Job)
         /\ Len(jobs') = Len(jobs) + 1
         /\ \A i \in 1..Len(jobs): jobs'[i] = jobs[i]
         /\ jobs'[Len(jobs) + 1] = [file |-> heads[job], input |-> Unread, done |-> FALSE]
<1> DEFINE new == [file |-> heads[job], input |-> Unread, done |-> FALSE]
<1>1. heads[job] \in BlockNumbers
  BY ElementOfSeq DEF TypeInv, TypeOK
<1>2. new \in Job
  BY <1>1 DEF Job
<1>3. jobs \in Seq(Job)
  BY DEF TypeInv, TypeOK, ZiskTypeOK
<1> HIDE DEF new
<1>4. jobs' = Append(jobs, new)
  BY DEF LaunchProof, new
<1> QED
  BY <1>2, <1>3, <1>4, AppendProperties DEF new

\* The file a job reads is typed, and the job stays one.
LEMMA JobRead ==
  ASSUME TypeInv, NEW i \in 1..Len(jobs), ReadInput(i)
  PROVE  /\ jobs' \in Seq(Job)
         /\ Len(jobs') = Len(jobs)
         /\ \A j \in 1..Len(jobs): j # i => jobs'[j] = jobs[j]
         /\ jobs'[i] = [jobs[i] EXCEPT !.input = files[jobs[i].file]]
<1>1. jobs \in Seq(Job) /\ files \in [BlockNumbers -> Content]
  BY DEF TypeInv, TypeOK, ZiskTypeOK
<1>2. jobs[i] \in Job
  BY <1>1, ElementOfSeq
<1> DEFINE new == [jobs[i] EXCEPT !.input = files[jobs[i].file]]
<1>3. new \in Job
  BY <1>1, <1>2 DEF Job
<1>4. jobs' = [jobs EXCEPT ![i] = new]
  BY DEF ReadInput
<1> HIDE DEF new
<1>5. /\ jobs' \in Seq(Job)
      /\ Len(jobs') = Len(jobs)
      /\ \A j \in 1..Len(jobs): jobs'[j] = IF j = i THEN new ELSE jobs[j]
  BY <1>1, <1>3, <1>4, ExceptSeq
<1> QED
  BY <1>5 DEF new

\* A job that ends stays a typed job, and so is the webhook it posts.
LEMMA JobDone ==
  ASSUME TypeInv, NEW i \in 1..Len(jobs), FinishJob(i)
  PROVE  /\ jobs' \in Seq(Job)
         /\ Len(jobs') = Len(jobs)
         /\ \A j \in 1..Len(jobs): j # i => jobs'[j] = jobs[j]
         /\ jobs'[i] = [jobs[i] EXCEPT !.done = TRUE]
         /\ webhooks' \subseteq Webhook
         /\ \A m \in webhooks': m \in webhooks \/ (m.job = i /\ m.input = jobs[i].input)
<1>1. jobs \in Seq(Job) /\ webhooks \subseteq Webhook
  BY DEF TypeInv, TypeOK, ZiskTypeOK
<1>2. jobs[i] \in Job
  BY <1>1, ElementOfSeq
<1> DEFINE new == [jobs[i] EXCEPT !.done = TRUE]
<1>3. new \in Job
  BY <1>2 DEF Job
<1>4. jobs' = [jobs EXCEPT ![i] = new]
  BY DEF FinishJob
<1> HIDE DEF new
<1>5. /\ jobs' \in Seq(Job)
      /\ Len(jobs') = Len(jobs)
      /\ \A j \in 1..Len(jobs): jobs'[j] = IF j = i THEN new ELSE jobs[j]
  BY <1>1, <1>3, <1>4, ExceptSeq
<1>6. jobs[i].input \in Content
  BY <1>2 DEF FinishJob, Job
<1>7. i \in Nat \ {0}
  BY <1>1, LenProperties
<1>8. PICK o \in Outcomes:
        webhooks' = webhooks \cup {[job |-> i, input |-> jobs[i].input,
                                    proof |-> o.proof, error |-> o.error, steps |-> o.steps]}
  BY DEF FinishJob
<1> DEFINE hook == [job |-> i, input |-> jobs[i].input,
                    proof |-> o.proof, error |-> o.error, steps |-> o.steps]
<1>9. hook \in Webhook /\ hook.job = i /\ hook.input = jobs[i].input
  <2>1. o.proof \in BOOLEAN /\ o.error \in BOOLEAN /\ o.steps \in BOOLEAN
    BY OutcomesAssumption
  <2> QED
    BY <1>6, <1>7, <2>1 DEF Webhook
<1>10. webhooks' = webhooks \cup {hook}
  BY <1>8
<1>11. jobs'[i] = [jobs[i] EXCEPT !.done = TRUE]
  BY <1>5 DEF new
<1> HIDE DEF hook
<1> QED
  BY <1>1, <1>5, <1>9, <1>10, <1>11

LEMMA TypeInvariant == Spec => []TypeInv
<1> USE DEF mainVars, tokenVars, workerVars, ziskVars, Latest
<1>1. Init => TypeInv
  <2> SUFFICES ASSUME Init PROVE TypeInv
    OBVIOUS
  <2>1. heads \in Seq(BlockNumbers) /\ queue \in Seq(1..Len(heads)) /\ jobs \in Seq(Job)
    <3>1. PICK left \in 0..MaxLeft: jobs \in [1..left -> LeftJob]
      BY DEF Init, ZiskInit
    <3>2. LeftJob \subseteq Job
      BY DEF LeftJob, Job
    <3>3. jobs \in [1..left -> Job] /\ left \in Nat
      BY <3>1, <3>2, LeftAssumption
    <3> QED
      BY <3>3, EmptySeq, SeqDef DEF Init
  <2>2. ZiskTypeOK
    <3>1. files \in [BlockNumbers -> Content]
      BY LeftAssumption DEF Init, ZiskInit, Content
    <3> QED
      BY <2>1, <3>1 DEF Init, ZiskInit, ZiskTypeOK
  <2> QED
    <3>1. TypeOK
      <4>1. 0 \in 0..Len(heads) /\ 0 \in 0..Len(jobs)
        BY <2>1, LenProperties
      <4> QED
        BY <2>1, <2>2, <4>1 DEF Init, TypeOK, MainPc, WorkerPc
    <3>2. WorkerHasJob /\ MainHasHead
      BY DEF Init, WorkerHasJob, MainHasHead, Preparing
    <3> QED
      BY <3>1, <3>2 DEF TypeInv
<1>2. TypeInv /\ [Next]_vars => TypeInv'
  <2> SUFFICES ASSUME TypeInv, [Next]_vars PROVE TypeInv'
    OBVIOUS
  <2> USE DEF TypeInv, TypeOK, ZiskTypeOK, WorkerHasJob, MainHasHead, Preparing, MainPc, WorkerPc
  <2>1. ASSUME NEW n \in BlockNumbers, Receive(n) PROVE TypeInv'
    BY <2>1, MoreHeads DEF Receive
  <2>2. CASE LeaveLoop
    BY <2>2 DEF LeaveLoop
  <2>3. CASE MainStep
    <3>1. CASE PrepareInput \/ PrepareInputPanics \/ TrySendFull \/ Drained
      BY <3>1 DEF PrepareInput, PrepareInputPanics, TrySendFull, Drained
    <3>2. CASE TrySendAccepted \/ Send
      <4>1. Len(heads) \in 1..Len(heads)
        BY <3>2, LenProperties DEF TrySendAccepted, Send
      <4>2. queue' = Append(queue, Len(heads)) /\ UNCHANGED heads
        BY <3>2 DEF TrySendAccepted, Send
      <4>3. queue' \in Seq(1..Len(heads'))
        BY <4>1, <4>2, AppendProperties
      <4> QED
        BY <3>2, <4>3 DEF TrySendAccepted, Send
    <3>3. CASE DrainOne
      BY <3>3, HeadTailProperties DEF DrainOne
    <3>4. CASE CancelToken \/ CloseQueue \/ JoinWorker \/ JoinTimeout
      BY <3>4 DEF CancelToken, CloseQueue, JoinWorker, JoinTimeout
    <3> QED
      BY <2>3, <3>1, <3>2, <3>3, <3>4 DEF MainStep
  <2>4. CASE WorkerStep
    <3>1. CASE TakeJob
      <4>1. Head(queue) \in 1..Len(heads) /\ Tail(queue) \in Seq(1..Len(heads))
        BY <3>1, HeadTailProperties DEF TakeJob
      <4>2. Head(queue) # 0 /\ Head(queue) \in 0..Len(heads)
        BY <4>1, LenProperties
      <4> QED
        BY <3>1, <4>1, <4>2 DEF TakeJob
    <3>2. CASE ObserveStop \/ ObserveClosed
      BY <3>2 DEF ObserveStop, ObserveClosed
    <3>3. CASE WriteInput
      BY <3>3 DEF WriteInput, GoTo, Content
    <3>4. CASE WriteInputFails
      BY <3>4 DEF WriteInputFails, GiveUp, Content
    <3>5. CASE SubmitAccepted
      <4>1. jobs' \in Seq(Job) /\ Len(jobs') = Len(jobs) + 1
        BY <3>5, OneMoreJob DEF SubmitAccepted
      <4>2. Len(jobs) \in Nat
        BY LenProperties
      <4>3. jobId' \in 0..Len(jobs')
        BY <3>5, <4>1, <4>2 DEF SubmitAccepted
      <4>4. worker = "submit" /\ worker' = "register"
        BY <3>5 DEF SubmitAccepted, GoTo
      <4> QED
        BY <3>5, <4>1, <4>3, <4>4 DEF SubmitAccepted, GoTo
    <3>6. CASE SubmitRejected
      BY <3>6 DEF SubmitRejected, GiveUp
    <3>7. CASE SubmitAnswerLost
      <4>1. jobs' \in Seq(Job)
        BY <3>7, OneMoreJob DEF SubmitAnswerLost
      <4>2. job \in 1..Len(heads)
        BY <3>7, LenProperties DEF SubmitAnswerLost
      <4>3. 0 \in 0..Len(jobs')
        BY <4>1, LenProperties
      <4> QED
        BY <3>7, <4>1, <4>2, <4>3 DEF SubmitAnswerLost, GiveUp
    <3>8. CASE Register
      BY <3>8 DEF Register, RegisterJob, GoTo
    <3>9. CASE ReceiveProof
      BY <3>9 DEF ReceiveProof, Webhook
    <3>10. CASE ReceiveFailure
      BY <3>10 DEF ReceiveFailure, GiveUp
    <3>11. CASE Cleanup
      BY <3>11 DEF Cleanup, Content
    <3> QED
      BY <2>4, <3>1, <3>2, <3>3, <3>4, <3>5, <3>6, <3>7, <3>8, <3>9, <3>10, <3>11
      DEF WorkerStep
  <2>5. CASE Environment
    <3>1. ASSUME NEW i \in 1..Len(jobs), CoordinatorReads(i) PROVE TypeInv'
      BY <3>1, JobRead DEF CoordinatorReads, ReadInput
    <3>2. ASSUME NEW i \in 1..Len(jobs), CoordinatorFinishes(i) PROVE TypeInv'
      BY <3>2, JobDone DEF CoordinatorFinishes, FinishJob
    <3>3. ASSUME NEW m \in webhooks, DeliverWebhook(m) PROVE TypeInv'
      <4>1. pending' \subseteq pending /\ oneshots' \subseteq oneshots \cup {m}
            /\ webhooks' \subseteq webhooks
        BY <3>3 DEF DeliverWebhook, WebhookHandler, Handle
      <4>2. UNCHANGED <<files, jobs, mainVars, tokenVars, workerVars, queue>>
        BY <3>3 DEF DeliverWebhook, WebhookHandler, Handle
      <4>3. ZiskTypeOK'
        BY <4>1, <4>2
      <4> QED
        BY <4>2, <4>3
    <3>4. ASSUME NEW m \in webhooks, DisturbWebhook(m) PROVE TypeInv'
      <4>1. pending' \subseteq pending /\ oneshots' \subseteq oneshots \cup {m}
            /\ webhooks' \subseteq webhooks
        BY <3>4 DEF DisturbWebhook, WebhookRepeated, Handle, LoseWebhook
      <4>2. UNCHANGED <<files, jobs, mainVars, tokenVars, workerVars, queue>>
        BY <3>4 DEF DisturbWebhook, WebhookRepeated, Handle, LoseWebhook
      <4>3. ZiskTypeOK'
        BY <4>1, <4>2
      <4> QED
        BY <4>2, <4>3
    <3> QED
      BY <2>5, <3>1, <3>2, <3>3, <3>4 DEF Environment
  <2>6. CASE Ended \/ UNCHANGED vars
    BY <2>6 DEF Ended, vars
  <2> QED
    BY <2>1, <2>2, <2>3, <2>4, <2>5, <2>6 DEF Next
<1> QED
  BY <1>1, <1>2, PTL DEF Spec

THEOREM TypeCorrect == Spec => []TypeOK
BY TypeInvariant, PTL DEF TypeInv

-----------------------------------------------------------------------------
\* From the answer of the coordinator to the end of the wait, the worker's job
\* is one of the coordinator's, reads the file of the worker's head, and has
\* read nothing or that head's input.
JobIsOurs ==
  worker \in {"register", "await"} =>
    /\ jobId \in 1..Len(jobs)
    /\ jobs[jobId].file = heads[job]
    /\ jobs[jobId].input \in {Unread, job}

\* Webhooks are those of launched jobs, so that a new job has none yet; those
\* of the worker's job carry the input of its head.
HooksAreOurs ==
  /\ \A m \in webhooks: m.job \in 1..Len(jobs)
  /\ \A m \in webhooks \cup oneshots:
       worker \in {"register", "await"} /\ m.job = jobId => m.input = job

\* A channel is sent to once: its sender is used up.
OneAnswer == \A m1, m2 \in oneshots: m1 = m2

ProofInv ==
  /\ InputStaysInPlace /\ JobIsOurs /\ HooksAreOurs
  /\ OneAnswer /\ NoAbandonedSender /\ ProofIsOfItsBlock

\* The heads known so far keep their numbers.
HeadsKept == \A k \in 1..Len(heads): heads'[k] = heads[k]

\* Nothing of the worker, the coordinator or the webhook server moves.
LEMMA ProofFrame ==
  ASSUME TypeInv, ProofInv, HeadsKept,
         UNCHANGED <<worker, job, jobId, uploads, ziskVars>>
  PROVE  ProofInv'
<1>1. worker \in {"submit", "register", "await"} => heads'[job] = heads[job]
  BY LenProperties DEF TypeInv, TypeOK, WorkerHasJob, HeadsKept
<1> QED
  BY <1>1 DEF ProofInv, InputStaysInPlace, JobIsOurs, HooksAreOurs, OneAnswer,
     NoAbandonedSender, ProofIsOfItsBlock, ziskVars

\* The main task's steps are such steps.
LEMMA MainKeepsProofInv ==
  ASSUME TypeInv, ProofInv, (\E n \in BlockNumbers: Receive(n)) \/ LeaveLoop \/ MainStep
  PROVE  ProofInv'
<1> USE DEF mainVars, tokenVars, workerVars, ziskVars
<1>1. ASSUME NEW n \in BlockNumbers, Receive(n) PROVE ProofInv'
  <2>1. heads \in Seq(BlockNumbers) /\ heads' = Append(heads, n)
    BY <1>1 DEF Receive, TypeInv, TypeOK
  <2>2. HeadsKept
    BY <2>1, AppendProperties DEF HeadsKept
  <2> QED
    BY <1>1, <2>2, ProofFrame DEF Receive
<1>2. CASE LeaveLoop \/ MainStep
  <2>1. UNCHANGED <<heads, worker, job, jobId, uploads, ziskVars>>
    BY <1>2 DEF LeaveLoop, MainStep, PrepareInput, PrepareInputPanics, TrySendAccepted,
       TrySendFull, DrainOne, Drained, Send, CancelToken, CloseQueue, JoinWorker, JoinTimeout
  <2> QED
    BY <2>1, ProofFrame DEF HeadsKept
<1> QED
  BY <1>1, <1>2

LEMMA WorkerKeepsProofInv ==
  ASSUME TypeInv, TypeInv', ProofInv, WorkerStep
  PROVE  ProofInv'
<1> USE DEF mainVars, tokenVars, workerVars, ziskVars
\* Outside the wait nothing is registered and nothing is in a channel.
<1>1. worker # "await" => pending = {} /\ oneshots = {}
  BY DEF ProofInv, NoAbandonedSender
<1>2. CASE TakeJob \/ ObserveStop \/ ObserveClosed \/ SubmitRejected
  <2>1. /\ worker' \in {"write", "select", "stopped"} /\ pending' = {} /\ oneshots' = {}
        /\ UNCHANGED <<webhooks, jobs, uploads>>
    BY <1>1, <1>2 DEF TakeJob, ObserveStop, ObserveClosed, SubmitRejected, GiveUp
  <2> QED
    BY <2>1 DEF ProofInv, InputStaysInPlace, JobIsOurs, HooksAreOurs, OneAnswer,
       NoAbandonedSender, ProofIsOfItsBlock
<1>3. CASE WriteInput
  <2>1. heads[job] \in BlockNumbers
    BY <1>3, ElementOfSeq DEF WriteInput, TypeInv, TypeOK, WorkerHasJob
  <2>2. files'[heads'[job']] = job'
    BY <1>3, <2>1 DEF WriteInput, GoTo, TypeInv, TypeOK, ZiskTypeOK
  <2>3. /\ worker' = "submit" /\ pending' = {} /\ oneshots' = {}
        /\ UNCHANGED <<webhooks, jobs, uploads>>
    BY <1>1, <1>3 DEF WriteInput, GoTo
  <2> QED
    BY <2>2, <2>3 DEF ProofInv, InputStaysInPlace, JobIsOurs, HooksAreOurs, OneAnswer,
       NoAbandonedSender, ProofIsOfItsBlock
<1>4. CASE WriteInputFails \/ Cleanup
  <2>1. /\ worker' = "select" /\ pending' = {} /\ oneshots' = {}
        /\ UNCHANGED <<webhooks, jobs, uploads>>
    BY <1>1, <1>4 DEF WriteInputFails, Cleanup, GiveUp
  <2> QED
    BY <2>1 DEF ProofInv, InputStaysInPlace, JobIsOurs, HooksAreOurs, OneAnswer,
       NoAbandonedSender, ProofIsOfItsBlock
<1>5. CASE SubmitAccepted
  <2>1. job # 0 /\ LaunchProof(heads[job])
    BY <1>5 DEF SubmitAccepted, TypeInv, WorkerHasJob
  <2>2. /\ Len(jobs') = Len(jobs) + 1
        /\ jobs'[Len(jobs) + 1] = [file |-> heads[job], input |-> Unread, done |-> FALSE]
    BY <2>1, OneMoreJob
  <2>3. /\ worker = "submit" /\ worker' = "register" /\ jobId' = Len(jobs) + 1
        /\ pending' = {} /\ oneshots' = {}
        /\ UNCHANGED <<heads, job, files, webhooks, uploads>>
    BY <1>1, <1>5 DEF SubmitAccepted, GoTo
  <2>4. Len(jobs) \in Nat
    BY LenProperties DEF TypeInv, TypeOK, ZiskTypeOK
  <2>5. InputStaysInPlace'
    BY <2>3 DEF ProofInv, InputStaysInPlace
  <2>6. JobIsOurs'
    BY <2>2, <2>3, <2>4 DEF JobIsOurs
  <2>7. HooksAreOurs'
    BY <2>2, <2>3, <2>4 DEF ProofInv, HooksAreOurs
  <2> QED
    BY <2>3, <2>5, <2>6, <2>7 DEF ProofInv, OneAnswer, NoAbandonedSender, ProofIsOfItsBlock
<1>6. CASE SubmitAnswerLost
  <2>1. job # 0 /\ LaunchProof(heads[job])
    BY <1>6 DEF SubmitAnswerLost, TypeInv, WorkerHasJob
  <2>2. Len(jobs') = Len(jobs) + 1 /\ Len(jobs) \in Nat
    BY <2>1, OneMoreJob, LenProperties DEF TypeInv, TypeOK, ZiskTypeOK
  <2>3. /\ worker' = "select" /\ pending' = {} /\ oneshots' = {}
        /\ UNCHANGED <<webhooks, uploads>>
    BY <1>1, <1>6 DEF SubmitAnswerLost, GiveUp
  <2> QED
    BY <2>2, <2>3 DEF ProofInv, InputStaysInPlace, JobIsOurs, HooksAreOurs, OneAnswer,
       NoAbandonedSender, ProofIsOfItsBlock
<1>7. CASE Register
  <2>1. /\ worker = "register" /\ worker' = "await" /\ pending' = {jobId} /\ oneshots' = {}
        /\ UNCHANGED <<heads, job, jobId, files, jobs, webhooks, uploads>>
    BY <1>1, <1>7 DEF Register, RegisterJob, GoTo
  <2> QED
    BY <1>1, <2>1 DEF ProofInv, InputStaysInPlace, JobIsOurs, HooksAreOurs, OneAnswer,
       NoAbandonedSender, ProofIsOfItsBlock
<1>8. CASE ReceiveProof \/ ReceiveFailure
  <2>1. PICK m \in oneshots:
          /\ m.job = jobId
          /\ oneshots' = oneshots \ {m}
          /\ uploads' \subseteq uploads \cup {<<job, m.input>>}
    BY <1>8 DEF ReceiveProof, ReceiveFailure, GiveUp
  <2>2. /\ worker = "await" /\ worker' \in {"cleanup", "select"}
        /\ UNCHANGED <<pending, webhooks, jobs>>
    BY <1>8 DEF ReceiveProof, ReceiveFailure, GiveUp
  <2>3. pending' = {} /\ oneshots' = {}
    BY <2>1, <2>2 DEF ProofInv, OneAnswer, NoAbandonedSender
  <2>4. m.input = job
    BY <2>1, <2>2 DEF ProofInv, HooksAreOurs
  <2>5. ProofIsOfItsBlock'
    BY <2>1, <2>4 DEF ProofInv, ProofIsOfItsBlock
  <2> QED
    BY <2>2, <2>3, <2>5 DEF ProofInv, InputStaysInPlace, JobIsOurs, HooksAreOurs, OneAnswer,
       NoAbandonedSender
<1> QED
  BY <1>2, <1>3, <1>4, <1>5, <1>6, <1>7, <1>8 DEF WorkerStep

LEMMA EnvironmentKeepsProofInv ==
  ASSUME TypeInv, ProofInv, Environment
  PROVE  ProofInv'
<1> USE DEF mainVars, tokenVars, workerVars, ziskVars
<1>1. ASSUME NEW i \in 1..Len(jobs), CoordinatorReads(i) PROVE ProofInv'
  <2>1. /\ ReadInput(i)
        /\ UNCHANGED <<heads, worker, job, jobId, uploads, files, webhooks, pending, oneshots>>
    BY <1>1 DEF CoordinatorReads, ReadInput
  <2>2. /\ Len(jobs') = Len(jobs)
        /\ \A j \in 1..Len(jobs): j # i => jobs'[j] = jobs[j]
        /\ jobs'[i] = [jobs[i] EXCEPT !.input = files[jobs[i].file]]
    BY <2>1, JobRead
  <2>3. jobs[i] \in Job
    BY ElementOfSeq DEF TypeInv, TypeOK, ZiskTypeOK
  <2>4. jobs'[i].file = jobs[i].file /\ jobs'[i].input = files[jobs[i].file]
    BY <2>2, <2>3 DEF Job
  <2>5. JobIsOurs'
    BY <2>1, <2>2, <2>4 DEF ProofInv, JobIsOurs, InputStaysInPlace
  <2> QED
    BY <2>1, <2>2, <2>5 DEF ProofInv, InputStaysInPlace, HooksAreOurs, OneAnswer,
       NoAbandonedSender, ProofIsOfItsBlock
<1>2. ASSUME NEW i \in 1..Len(jobs), CoordinatorFinishes(i) PROVE ProofInv'
  <2>1. /\ FinishJob(i)
        /\ UNCHANGED <<heads, worker, job, jobId, uploads, files, pending, oneshots>>
    BY <1>2 DEF CoordinatorFinishes, FinishJob
  <2>2. /\ Len(jobs') = Len(jobs)
        /\ \A j \in 1..Len(jobs): j # i => jobs'[j] = jobs[j]
        /\ jobs'[i] = [jobs[i] EXCEPT !.done = TRUE]
        /\ \A m \in webhooks': m \in webhooks \/ (m.job = i /\ m.input = jobs[i].input)
    BY <2>1, JobDone
  <2>3. jobs[i] \in Job
    BY ElementOfSeq DEF TypeInv, TypeOK, ZiskTypeOK
  <2>4. jobs'[i].file = jobs[i].file /\ jobs'[i].input = jobs[i].input
    BY <2>2, <2>3 DEF Job
  <2>5. JobIsOurs'
    BY <2>1, <2>2, <2>4 DEF ProofInv, JobIsOurs
  <2>6. HooksAreOurs'
    <3>1. jobs[i].input # Unread
      BY <2>1 DEF FinishJob
    <3> QED
      BY <2>1, <2>2, <3>1 DEF ProofInv, HooksAreOurs, JobIsOurs
  <2> QED
    BY <2>1, <2>5, <2>6 DEF ProofInv, InputStaysInPlace, OneAnswer,
       NoAbandonedSender, ProofIsOfItsBlock
<1>3. ASSUME NEW m \in webhooks, DeliverWebhook(m) \/ DisturbWebhook(m) PROVE ProofInv'
  <2>1. /\ webhooks' \subseteq webhooks
        /\ UNCHANGED <<heads, worker, job, jobId, uploads, files, jobs>>
    BY <1>3 DEF DeliverWebhook, DisturbWebhook, WebhookHandler, WebhookRepeated, Handle,
       LoseWebhook
  <2>2. \/ pending' = pending /\ oneshots' = oneshots
        \/ /\ m.job \in pending
           /\ pending' = pending \ {m.job} /\ oneshots' = oneshots \cup {m}
    BY <1>3 DEF DeliverWebhook, DisturbWebhook, WebhookHandler, WebhookRepeated, Handle,
       LoseWebhook
  <2>3. InputStaysInPlace' /\ JobIsOurs' /\ ProofIsOfItsBlock'
    BY <2>1 DEF ProofInv, InputStaysInPlace, JobIsOurs, ProofIsOfItsBlock
  <2>4. HooksAreOurs'
    BY <2>1, <2>2 DEF ProofInv, HooksAreOurs
  <2>5. OneAnswer' /\ NoAbandonedSender'
    BY <2>1, <2>2 DEF ProofInv, OneAnswer, NoAbandonedSender
  <2> QED
    BY <2>3, <2>4, <2>5 DEF ProofInv
<1> QED
  BY <1>1, <1>2, <1>3 DEF Environment

LEMMA ProofInvariant == Spec => []ProofInv
<1>1. Init => ProofInv
  BY DEF Init, ZiskInit, ProofInv, InputStaysInPlace, JobIsOurs, HooksAreOurs, OneAnswer,
     NoAbandonedSender, ProofIsOfItsBlock
<1>2. TypeInv /\ TypeInv' /\ ProofInv /\ [Next]_vars => ProofInv'
  <2> SUFFICES ASSUME TypeInv, TypeInv', ProofInv, [Next]_vars PROVE ProofInv'
    OBVIOUS
  <2>1. CASE Ended \/ UNCHANGED vars
    BY <2>1, ProofFrame DEF Ended, vars, mainVars, workerVars, ziskVars, HeadsKept
  <2> QED
    BY <2>1, MainKeepsProofInv, WorkerKeepsProofInv, EnvironmentKeepsProofInv DEF Next
<1> QED
  BY <1>1, <1>2, TypeInvariant, PTL DEF Spec

\* The uploaded proof of a head is a proof of its own input.
THEOREM ProofsMatch == Spec => []ProofIsOfItsBlock
BY ProofInvariant, PTL DEF ProofInv

\* pending_jobs holds at most the job the worker waits for.
THEOREM NoSenderLeaks == Spec => []NoAbandonedSender
BY ProofInvariant, PTL DEF ProofInv

\* The input file of a job stays as written until its answer is in.
THEOREM InputsStay == Spec => []InputStaysInPlace
BY ProofInvariant, PTL DEF ProofInv

-----------------------------------------------------------------------------
\* The head in hand is nowhere else yet; skipping never tries a full queue.
HeadInHand ==
  /\ Preparing => Latest \notin started \cup dropped \cup InQueue
  /\ SkipPending => main # "try_send"

\* A head is proved before its file is removed.
CleanupIsLast == worker = "cleanup" => job \in Proved

QueueInv ==
  /\ HeadInHand /\ CleanupIsLast /\ SendNeverBlocks /\ OnlyLatestKept
  /\ ProvedInOrder /\ EveryHeadAccounted /\ DroppedForNewer

LEMMA AppendInQueue ==
  ASSUME NEW S, queue \in Seq(S), NEW x \in S, queue' = Append(queue, x)
  PROVE  /\ InQueue' = InQueue \cup {x}
         /\ Len(queue') = Len(queue) + 1
         /\ Len(queue) \in Nat
         /\ \A i \in 1..Len(queue): queue'[i] = queue[i]
         /\ queue'[Len(queue) + 1] = x
<1>1. /\ Len(queue') = Len(queue) + 1 /\ Len(queue) \in Nat
      /\ \A i \in 1..Len(queue): queue'[i] = queue[i]
      /\ queue'[Len(queue) + 1] = x
  BY AppendProperties, LenProperties
<1>2. \A y \in InQueue': y \in InQueue \cup {x}
  BY <1>1 DEF InQueue
<1>3. \A y \in InQueue: y \in InQueue'
  BY <1>1 DEF InQueue
<1>4. x \in InQueue'
  BY <1>1 DEF InQueue
<1> QED
  BY <1>1, <1>2, <1>3, <1>4

LEMMA TailInQueue ==
  ASSUME NEW S, queue \in Seq(S), queue # <<>>, queue' = Tail(queue)
  PROVE  /\ Head(queue) = queue[1]
         /\ InQueue = InQueue' \cup {queue[1]}
         /\ Len(queue') = Len(queue) - 1
         /\ Len(queue) \in Nat \ {0}
         /\ \A i \in 1..Len(queue'): queue'[i] = queue[i + 1]
<1>1. /\ Len(queue') = Len(queue) - 1 /\ Len(queue) \in Nat \ {0}
      /\ \A i \in 1..Len(queue'): queue'[i] = queue[i + 1]
  BY HeadTailProperties, EmptySeq
<1>2. Head(queue) = queue[1]
  OBVIOUS
<1>3. \A y \in InQueue': y \in InQueue
  BY <1>1 DEF InQueue
<1>4. ASSUME NEW i \in 1..Len(queue), i # 1 PROVE queue[i] \in InQueue'
  <2>1. i - 1 \in 1..Len(queue') /\ queue'[i - 1] = queue[i]
    BY <1>1, <1>4
  <2> QED
    BY <2>1 DEF InQueue
<1>5. queue[1] \in InQueue
  BY <1>1 DEF InQueue
<1> QED
  BY <1>1, <1>2, <1>3, <1>4, <1>5 DEF InQueue

\* The new head is accounted for by the main task.
LEMMA ReceiveKeepsQueueInv ==
  ASSUME TypeInv, QueueInv, NEW n \in BlockNumbers, Receive(n)
  PROVE  QueueInv'
<1> USE DEF mainVars, tokenVars, workerVars, ziskVars
<1>1. Latest' = Latest + 1 /\ Latest \in Nat
  BY AppendProperties, LenProperties DEF Receive, TypeInv, TypeOK, Latest
<1>2. /\ main = "idle" /\ main' = "prepare"
      /\ UNCHANGED <<queue, started, dropped, failed, uploads, worker, job, InQueue, Proved>>
  BY DEF Receive, InQueue, Proved
<1>3. \A k \in InQueue \cup started \cup dropped: k \in 1..Latest
  BY ElementOfSeq DEF TypeInv, TypeOK, InQueue, Latest
<1>4. HeadInHand' /\ SendNeverBlocks' /\ OnlyLatestKept'
  BY <1>1, <1>2, <1>3 DEF QueueInv, HeadInHand, SendNeverBlocks, OnlyLatestKept
<1> CleanupIsLast'
  BY <1>2 DEF QueueInv, CleanupIsLast
<1>5. ProvedInOrder'
  BY <1>1, <1>2, <1>3 DEF QueueInv, ProvedInOrder
<1>6. EveryHeadAccounted'
  BY <1>1, <1>2 DEF QueueInv, EveryHeadAccounted, Preparing
<1>7. DroppedForNewer'
  BY <1>2 DEF QueueInv, DroppedForNewer
<1> QED
  BY <1>4, <1>5, <1>6, <1>7 DEF QueueInv

\* The head in hand joins the queue as its newest element.
LEMMA PutKeepsQueueInv ==
  ASSUME TypeInv, QueueInv, TrySendAccepted \/ Send
  PROVE  QueueInv'
<1> USE DEF mainVars, tokenVars, workerVars, ziskVars
<1>1. /\ main \in {"try_send", "send"} /\ main' = "idle"
      /\ queue' = Append(queue, Latest) /\ Len(queue) < Capacity
      /\ main = "send" => queue = <<>>
      /\ UNCHANGED <<heads, Latest, started, dropped, failed, uploads, worker, job, Proved>>
  BY DEF TrySendAccepted, Send, Latest, Proved, QueueInv, SendNeverBlocks
<1>2. Latest \in 1..Latest /\ queue \in Seq(1..Latest)
  BY <1>1, LenProperties DEF TypeInv, TypeOK, MainHasHead, Preparing, Latest
<1>3. /\ InQueue' = InQueue \cup {Latest}
      /\ Len(queue') = Len(queue) + 1 /\ Len(queue) \in Nat
      /\ \A i \in 1..Len(queue): queue'[i] = queue[i]
      /\ queue'[Len(queue) + 1] = Latest
  BY <1>1, <1>2, AppendInQueue
<1>4. \A q \in InQueue: q \in 1..Latest /\ q < Latest
  BY <1>1, <1>2, ElementOfSeq DEF QueueInv, HeadInHand, Preparing, InQueue
<1>5. \A k \in started: k < Latest
  BY <1>1, <1>2 DEF QueueInv, HeadInHand, Preparing, TypeInv, TypeOK, Latest
<1>6. SendNeverBlocks'
  BY <1>1, <1>3, CapacityAssumption DEF SendNeverBlocks
<1>7. OnlyLatestKept'
  <2>1. CASE ~SkipPending
    BY <2>1 DEF OnlyLatestKept
  <2>2. CASE SkipPending
    <3>1. queue = <<>> /\ Len(queue) = 0
      BY <1>1, <2>2, EmptySeq DEF QueueInv, HeadInHand
    <3> QED
      BY <1>1, <1>3, <3>1 DEF OnlyLatestKept
  <2> QED
    BY <2>1, <2>2
<1>8. ProvedInOrder'
  <2>1. ASSUME NEW i \in 1..Len(queue'), NEW j \in 1..Len(queue'), i < j
        PROVE  queue'[i] < queue'[j]
    <3>1. i \in 1..Len(queue) /\ queue'[i] = queue[i]
      BY <1>3, <2>1
    <3>2. CASE j \in 1..Len(queue)
      BY <1>3, <2>1, <3>1, <3>2 DEF QueueInv, ProvedInOrder
    <3>3. CASE j = Len(queue) + 1
      BY <1>3, <1>4, <3>1, <3>3 DEF InQueue
    <3> QED
      BY <1>3, <2>1, <3>2, <3>3
  <2>2. \A k \in started', q \in InQueue': k < q
    BY <1>1, <1>3, <1>5 DEF QueueInv, ProvedInOrder
  <2> QED
    BY <1>1, <2>1, <2>2 DEF ProvedInOrder, Preparing
<1>9. EveryHeadAccounted'
  BY <1>1, <1>3 DEF QueueInv, EveryHeadAccounted, HeadInHand, Preparing
<1>10. DroppedForNewer'
  BY <1>1, <1>3 DEF QueueInv, DroppedForNewer
<1> QED
  BY <1>1, <1>6, <1>7, <1>8, <1>9, <1>10 DEF QueueInv, HeadInHand, CleanupIsLast, Preparing

\* The oldest queued head is dropped while a newer one is in hand.
LEMMA DrainKeepsQueueInv ==
  ASSUME TypeInv, QueueInv, DrainOne
  PROVE  QueueInv'
<1> USE DEF mainVars, tokenVars, workerVars, ziskVars
<1>1. /\ main = "drain" /\ queue # <<>> /\ queue' = Tail(queue)
      /\ dropped' = dropped \cup {Head(queue)}
      /\ UNCHANGED <<main, heads, Latest, started, failed, uploads, worker, job, Proved>>
  BY DEF DrainOne, Latest, Proved
<1>2. queue \in Seq(1..Latest)
  BY DEF TypeInv, TypeOK, Latest
<1>3. /\ Head(queue) = queue[1]
      /\ InQueue = InQueue' \cup {queue[1]}
      /\ Len(queue') = Len(queue) - 1 /\ Len(queue) \in Nat \ {0}
      /\ \A i \in 1..Len(queue'): queue'[i] = queue[i + 1]
  BY <1>1, <1>2, TailInQueue
<1>4. \A q \in InQueue': queue[1] < q
  BY <1>3 DEF QueueInv, ProvedInOrder, InQueue
<1>5. \A q \in InQueue: q \in Nat /\ q < Latest
  <2>1. \A q \in InQueue: q \in 1..Latest
    BY <1>2, ElementOfSeq DEF InQueue
  <2>2. Latest \notin InQueue
    BY <1>1 DEF QueueInv, HeadInHand, Preparing
  <2>3. Latest \in Nat
    BY LenProperties DEF TypeInv, TypeOK, Latest
  <2> QED
    BY <2>1, <2>2, <2>3
<1>6. HeadInHand' /\ SendNeverBlocks' /\ OnlyLatestKept'
  BY <1>1, <1>3, <1>5, CapacityAssumption
  DEF QueueInv, HeadInHand, SendNeverBlocks, OnlyLatestKept, Preparing
<1>7. ProvedInOrder'
  <2>1. \A i, j \in 1..Len(queue'): i < j => queue'[i] < queue'[j]
    BY <1>3 DEF QueueInv, ProvedInOrder
  <2>2. \A k \in started', q \in InQueue': k < q
    BY <1>1, <1>3 DEF QueueInv, ProvedInOrder
  <2> QED
    BY <1>1, <1>3, <2>1, <2>2 DEF QueueInv, ProvedInOrder, Preparing
<1>8. EveryHeadAccounted'
  <2>1. queue[1] \notin started /\ queue[1] \notin InQueue'
    <3>1. queue[1] \in Nat /\ \A k \in started: k < queue[1]
      BY <1>3, <1>5 DEF QueueInv, ProvedInOrder
    <3> QED
      BY <1>4, <3>1
  <2>2. \A k \in 1..Latest':
          \/ k \in InQueue' \cup dropped' \cup started'
          \/ k = Latest' /\ (Preparing \/ main = "panicked")'
    BY <1>1, <1>3 DEF QueueInv, EveryHeadAccounted, Preparing
  <2>3. (dropped \cap (started \cup InQueue) = {})'
    BY <1>1, <1>3, <2>1 DEF QueueInv, EveryHeadAccounted
  <2> QED
    BY <1>1, <2>2, <2>3 DEF QueueInv, EveryHeadAccounted
<1>9. DroppedForNewer'
  <2>1. ASSUME NEW k \in dropped' PROVE k < Latest
    BY <1>1, <1>3, <1>5, <2>1 DEF QueueInv, HeadInHand, Preparing, TypeInv, TypeOK, Latest
  <2> QED
    BY <1>1, <2>1 DEF DroppedForNewer
<1> QED
  BY <1>1, <1>6, <1>7, <1>8, <1>9 DEF QueueInv, CleanupIsLast

\* The worker takes the oldest queued head.
LEMMA TakeKeepsQueueInv ==
  ASSUME TypeInv, QueueInv, TakeJob
  PROVE  QueueInv'
<1> USE DEF mainVars, tokenVars, workerVars, ziskVars
<1>1. /\ worker = "select" /\ worker' = "write" /\ job = 0 /\ job' = Head(queue)
      /\ queue # <<>> /\ queue' = Tail(queue)
      /\ started' = started \cup {Head(queue)}
      /\ UNCHANGED <<main, heads, Latest, dropped, failed, uploads, Proved>>
  BY DEF TakeJob, Latest, Proved, TypeInv, WorkerHasJob
<1>2. queue \in Seq(1..Latest)
  BY DEF TypeInv, TypeOK, Latest
<1>3. /\ Head(queue) = queue[1]
      /\ InQueue = InQueue' \cup {queue[1]}
      /\ Len(queue') = Len(queue) - 1 /\ Len(queue) \in Nat \ {0}
      /\ \A i \in 1..Len(queue'): queue'[i] = queue[i + 1]
  BY <1>1, <1>2, TailInQueue
<1>4. \A q \in InQueue': queue[1] < q
  BY <1>3 DEF QueueInv, ProvedInOrder, InQueue
<1>5. \A q \in InQueue: q \in Nat \ {0}
  <2>1. \A q \in InQueue: q \in 1..Latest
    BY <1>2, ElementOfSeq DEF InQueue
  <2>2. Latest \in Nat
    BY LenProperties DEF TypeInv, TypeOK, Latest
  <2> QED
    BY <2>1, <2>2
<1>6. HeadInHand'
  BY <1>1, <1>3 DEF QueueInv, HeadInHand, Preparing
<1>7. SendNeverBlocks'
  BY <1>1, <1>3, CapacityAssumption DEF QueueInv, SendNeverBlocks
<1>8. OnlyLatestKept'
  <2>1. CASE SkipPending
    <3>1. Len(queue') = 0
      BY <1>3, <2>1 DEF QueueInv, OnlyLatestKept
    <3>2. queue' \in Seq(1..Latest)
      BY <1>1, <1>2, HeadTailProperties
    <3>3. queue' = <<>>
      BY <3>1, <3>2, EmptySeq
    <3> QED
      BY <3>1, <3>3 DEF OnlyLatestKept
  <2> QED
    BY <2>1 DEF OnlyLatestKept
<1>9. ProvedInOrder'
  <2>1. \A i, j \in 1..Len(queue'): i < j => queue'[i] < queue'[j]
    BY <1>3 DEF QueueInv, ProvedInOrder
  <2>2. \A k \in started', q \in InQueue': k < q
    BY <1>1, <1>3, <1>4 DEF QueueInv, ProvedInOrder
  <2> QED
    BY <1>1, <1>3, <2>1, <2>2 DEF QueueInv, ProvedInOrder, Preparing
<1>10. EveryHeadAccounted'
  <2>1. queue[1] \notin started /\ queue[1] # 0 /\ queue[1] \notin dropped
    <3>1. queue[1] \in Nat \ {0} /\ \A k \in started: k < queue[1]
      BY <1>3, <1>5 DEF QueueInv, ProvedInOrder
    <3>2. queue[1] \notin dropped
      BY <1>3 DEF QueueInv, EveryHeadAccounted
    <3> QED
      BY <3>1, <3>2
  <2>2. \A k \in 1..Latest':
          \/ k \in InQueue' \cup dropped' \cup started'
          \/ k = Latest' /\ (Preparing \/ main = "panicked")'
    BY <1>1, <1>3 DEF QueueInv, EveryHeadAccounted, Preparing
  <2>3. (dropped \cap (started \cup InQueue) = {})'
    BY <1>1, <1>3, <2>1 DEF QueueInv, EveryHeadAccounted
  <2>4. started = failed \cup Proved
    BY <1>1 DEF QueueInv, EveryHeadAccounted
  <2>5. started' = failed' \cup Proved' \cup {job'} /\ job' # 0 /\ job' \notin failed' \cup Proved'
    BY <1>1, <1>3, <2>1, <2>4
  <2>6. (failed \cap Proved = {})'
    BY <1>1 DEF QueueInv, EveryHeadAccounted
  <2> QED
    BY <1>1, <2>2, <2>3, <2>5, <2>6 DEF EveryHeadAccounted
<1>11. DroppedForNewer'
  BY <1>1, <1>3 DEF QueueInv, DroppedForNewer
<1> QED
  BY <1>1, <1>6, <1>7, <1>8, <1>9, <1>10, <1>11 DEF QueueInv, CleanupIsLast

\* The main task's other steps move only its program counter.
LEMMA MainKeepsQueueInv ==
  ASSUME TypeInv, QueueInv,
         LeaveLoop \/ PrepareInput \/ PrepareInputPanics \/ TrySendFull \/ Drained
           \/ CancelToken \/ CloseQueue \/ JoinWorker \/ JoinTimeout
  PROVE  QueueInv'
<1> USE DEF mainVars, tokenVars, workerVars, ziskVars
<1>1. UNCHANGED <<queue, heads, Latest, started, dropped, failed, uploads, worker, job,
                  InQueue, Proved>>
  BY DEF LeaveLoop, PrepareInput, PrepareInputPanics, TrySendFull, Drained, CancelToken,
     CloseQueue, JoinWorker, JoinTimeout, Latest, InQueue, Proved
<1>2. CASE PrepareInput \/ TrySendFull
  <2>1. Preparing /\ Preparing' /\ main' # "send" /\ main' # "idle" /\ main' # "panicked"
        /\ main # "drain" /\ main # "send" /\ main # "panicked"
        /\ (SkipPending => main' # "try_send")
    BY <1>2 DEF PrepareInput, TrySendFull, Preparing
  <2> QED
    BY <1>1, <2>1 DEF QueueInv, HeadInHand, SendNeverBlocks, OnlyLatestKept, ProvedInOrder,
       EveryHeadAccounted, DroppedForNewer, CleanupIsLast
<1>3. CASE Drained
  <2>1. Preparing /\ Preparing' /\ main = "drain" /\ main' = "send" /\ queue = <<>>
    BY <1>3 DEF Drained, Preparing
  <2> QED
    BY <1>1, <2>1 DEF QueueInv, HeadInHand, SendNeverBlocks, OnlyLatestKept, ProvedInOrder,
       EveryHeadAccounted, DroppedForNewer, CleanupIsLast
<1>4. CASE PrepareInputPanics
  <2>1. main = "prepare" /\ main' = "panicked"
    BY <1>4 DEF PrepareInputPanics
  <2> QED
    BY <1>1, <2>1 DEF QueueInv, HeadInHand, SendNeverBlocks, OnlyLatestKept, ProvedInOrder,
       EveryHeadAccounted, DroppedForNewer, CleanupIsLast, Preparing
<1>5. CASE LeaveLoop \/ CancelToken \/ CloseQueue \/ JoinWorker \/ JoinTimeout
  <2>1. /\ main \in {"idle", "cancel", "close", "join"}
        /\ main' \in {"cancel", "close", "join", "exited"}
    BY <1>5 DEF LeaveLoop, CancelToken, CloseQueue, JoinWorker, JoinTimeout
  <2> QED
    BY <1>1, <2>1 DEF QueueInv, HeadInHand, SendNeverBlocks, OnlyLatestKept, ProvedInOrder,
       EveryHeadAccounted, DroppedForNewer, CleanupIsLast, Preparing
<1> QED
  BY <1>2, <1>3, <1>4, <1>5

\* The worker settles its head in one way, or goes on with it.
LEMMA WorkerKeepsQueueInv ==
  ASSUME TypeInv, ProofInv, QueueInv, WorkerStep, ~TakeJob
  PROVE  QueueInv'
<1> USE DEF mainVars, tokenVars, workerVars, ziskVars
<1>1. UNCHANGED <<main, heads, queue, dropped, started, Latest, InQueue>>
  BY DEF WorkerStep, ObserveStop, ObserveClosed, WriteInput, WriteInputFails, SubmitAccepted,
     SubmitRejected, SubmitAnswerLost, Register, ReceiveProof, ReceiveFailure, Cleanup,
     GoTo, GiveUp, Latest, InQueue
<1>2. /\ HeadInHand' /\ SendNeverBlocks' /\ OnlyLatestKept' /\ ProvedInOrder'
      /\ DroppedForNewer'
  BY <1>1 DEF QueueInv, HeadInHand, SendNeverBlocks, OnlyLatestKept, ProvedInOrder,
     DroppedForNewer, Preparing
<1>3. EveryHeadAccounted' /\ CleanupIsLast'
  <2>1. CASE \/ WriteInputFails \/ SubmitRejected \/ SubmitAnswerLost \/ ReceiveFailure
    <3>1. /\ worker \in {"write", "submit", "register", "await"} /\ worker' = "select"
          /\ job # 0 /\ job' = 0 /\ failed' = failed \cup {job} /\ Proved' = Proved
      BY <2>1 DEF WriteInputFails, SubmitRejected, SubmitAnswerLost, ReceiveFailure, GiveUp,
         Proved, TypeInv, WorkerHasJob
    <3> QED
      BY <1>1, <3>1 DEF QueueInv, EveryHeadAccounted, CleanupIsLast, Preparing
  <2>2. CASE ReceiveProof
    <3>1. /\ worker = "await" /\ worker' = "cleanup" /\ job # 0
          /\ UNCHANGED <<job, failed>>
      BY <2>2 DEF ReceiveProof, TypeInv, WorkerHasJob
    <3>2. PICK m \in oneshots: uploads' = uploads \cup {<<job, m.input>>}
      BY <2>2 DEF ReceiveProof
    <3>3. Proved' = Proved \cup {job}
      <4>1. \A u \in uploads': u \in uploads \/ u[1] = job
        BY <3>2
      <4>2. <<job, m.input>> \in uploads' /\ uploads \subseteq uploads'
        BY <3>2
      <4>3. job \in Proved'
        BY <4>2 DEF Proved
      <4> QED
        BY <4>1, <4>2, <4>3 DEF Proved
    <3> QED
      BY <1>1, <3>1, <3>3 DEF QueueInv, EveryHeadAccounted, CleanupIsLast, Preparing
  <2>3. CASE Cleanup
    <3>1. /\ worker = "cleanup" /\ worker' = "select" /\ job # 0 /\ job' = 0
          /\ UNCHANGED <<failed, Proved>>
      BY <2>3 DEF Cleanup, Proved, TypeInv, WorkerHasJob
    <3>2. started = failed \cup Proved
      BY <3>1 DEF QueueInv, EveryHeadAccounted, CleanupIsLast
    <3> QED
      BY <1>1, <3>1, <3>2 DEF QueueInv, EveryHeadAccounted, CleanupIsLast, Preparing
  <2>4. CASE \/ ObserveStop \/ ObserveClosed \/ WriteInput \/ SubmitAccepted \/ Register
    <3>1. /\ UNCHANGED <<job, failed, Proved>>
          /\ worker' # "cleanup"
          /\ worker' \in {"write", "submit", "register", "await"} =>
               worker \in {"write", "submit", "register", "await"}
      BY <2>4 DEF ObserveStop, ObserveClosed, WriteInput, SubmitAccepted, Register, GoTo, Proved
    <3> QED
      BY <1>1, <3>1 DEF QueueInv, EveryHeadAccounted, CleanupIsLast, Preparing
  <2> QED
    BY <2>1, <2>2, <2>3, <2>4 DEF WorkerStep
<1> QED
  BY <1>2, <1>3 DEF QueueInv

LEMMA QueueInvariant == Spec => []QueueInv
<1>1. Init => QueueInv
  <2> SUFFICES ASSUME Init PROVE QueueInv
    OBVIOUS
  <2>1. /\ queue = <<>> /\ heads = <<>> /\ main = "idle" /\ worker = "select" /\ job = 0
        /\ started = {} /\ dropped = {} /\ failed = {} /\ uploads = {}
    BY DEF Init
  <2>2. Len(queue) = 0 /\ Latest = 0 /\ InQueue = {} /\ Proved = {}
    BY <2>1, EmptySeq DEF Latest, InQueue, Proved
  <2> QED
    BY <2>1, <2>2, CapacityAssumption
    DEF QueueInv, HeadInHand, CleanupIsLast, SendNeverBlocks, OnlyLatestKept, ProvedInOrder,
        EveryHeadAccounted, DroppedForNewer, Preparing
<1>2. TypeInv /\ ProofInv /\ QueueInv /\ [Next]_vars => QueueInv'
  <2> SUFFICES ASSUME TypeInv, ProofInv, QueueInv, [Next]_vars PROVE QueueInv'
    OBVIOUS
  <2>1. CASE Environment \/ Ended \/ UNCHANGED vars
    <3>1. UNCHANGED <<main, heads, queue, dropped, started, failed, uploads, worker, job>>
      BY <2>1 DEF Environment, CoordinatorReads, CoordinatorFinishes, DeliverWebhook,
         DisturbWebhook, Ended, vars, mainVars, tokenVars, workerVars
    <3> QED
      BY <3>1 DEF QueueInv, HeadInHand, CleanupIsLast, SendNeverBlocks, OnlyLatestKept,
         ProvedInOrder, EveryHeadAccounted, DroppedForNewer, Preparing, Latest, InQueue, Proved
  <2>2. CASE LeaveLoop \/ MainStep
    BY <2>2, PutKeepsQueueInv, DrainKeepsQueueInv, MainKeepsQueueInv DEF MainStep
  <2>3. CASE WorkerStep
    BY <2>3, TakeKeepsQueueInv, WorkerKeepsQueueInv
  <2> QED
    BY <2>1, <2>2, <2>3, ReceiveKeepsQueueInv DEF Next
<1> QED
  BY <1>1, <1>2, TypeInvariant, ProofInvariant, PTL DEF Spec

\* The main loop finds the queue empty when it awaits send().
THEOREM SendIsFree == Spec => []SendNeverBlocks
BY QueueInvariant, PTL DEF QueueInv

\* With --skip-pending-blocks the queue holds the latest block at most.
THEOREM LatestKept == Spec => []OnlyLatestKept
BY QueueInvariant, PTL DEF QueueInv

\* Heads reach the worker in the order they were announced.
THEOREM OrderKept == Spec => []ProvedInOrder
BY QueueInvariant, PTL DEF QueueInv

\* Every head is in one place, and ends in one way.
THEOREM NoHeadLost == Spec => []EveryHeadAccounted
BY QueueInvariant, PTL DEF QueueInv

\* A head is only dropped for a newer one that is kept.
THEOREM DropsCatchUp == Spec => []DroppedForNewer
BY QueueInvariant, PTL DEF QueueInv

-----------------------------------------------------------------------------
\* What liveness rests on, without fairness.

\* The steps the main task takes at most before it listens for the next head,
\* or before the process has ended.
MainRank ==
  CASE main = "prepare"  -> Capacity + 4
    [] main = "try_send" -> Capacity + 3
    [] main = "drain"    -> Len(queue) + 2
    [] main = "send"     -> 1
    [] main = "cancel"   -> 3
    [] main = "close"    -> 2
    [] main = "join"     -> 1
    [] main \in {"idle", "exited", "panicked"} -> 0

\* Every step of the main task brings it closer to that, and no other task takes
\* it back; only a head and the end of the loop, seen while it listens, start anew.
MainComesBack ==
  /\ MainStep => MainRank' < MainRank
  /\ main # "idle" => MainRank' <= MainRank

LEMMA MainRankFalls ==
  ASSUME TypeInv, QueueInv, QueueInv', MainStep
  PROVE  MainRank' < MainRank
<1> USE DEF MainRank, mainVars, tokenVars, workerVars
<1>1. /\ Capacity \in Nat \ {0} /\ Len(queue) \in Nat /\ Len(queue) <= Capacity
  BY CapacityAssumption, LenProperties DEF TypeInv, TypeOK, QueueInv, SendNeverBlocks
<1>2. CASE PrepareInput
  BY <1>1, <1>2 DEF PrepareInput
<1>3. CASE PrepareInputPanics
  BY <1>1, <1>3 DEF PrepareInputPanics
<1>4. CASE TrySendAccepted
  BY <1>1, <1>4 DEF TrySendAccepted
<1>5. CASE TrySendFull
  BY <1>1, <1>5 DEF TrySendFull
<1>6. CASE DrainOne
  <2>1. Len(queue') = Len(queue) - 1 /\ Len(queue') \in Nat
    BY <1>6, TailInQueue, <1>1 DEF DrainOne, TypeInv, TypeOK
  <2> QED
    BY <1>1, <1>6, <2>1 DEF DrainOne
<1>7. CASE Drained
  BY <1>1, <1>7 DEF Drained
<1>8. CASE Send
  BY <1>1, <1>8 DEF Send
<1>9. CASE CancelToken \/ CloseQueue \/ JoinWorker \/ JoinTimeout
  BY <1>9 DEF CancelToken, CloseQueue, JoinWorker, JoinTimeout
<1> QED
  BY <1>2, <1>3, <1>4, <1>5, <1>6, <1>7, <1>8, <1>9 DEF MainStep

\* The main loop is back within Capacity + 4 steps of its own after every head,
\* whatever the worker does (main.rs:195-282), and out of the process within
\* three after it was left (main.rs:287-302).
THEOREM MainLoopBounded == Spec => [][MainComesBack]_vars
<1>1. TypeInv /\ TypeInv' /\ QueueInv /\ QueueInv' /\ [Next]_vars => [MainComesBack]_vars
  <2> SUFFICES ASSUME TypeInv, TypeInv', QueueInv, QueueInv', Next
               PROVE  MainComesBack
    BY DEF vars
  <2>1. CASE MainStep
    <3>1. MainRank \in Nat /\ MainRank' \in Nat
      BY CapacityAssumption, LenProperties DEF TypeInv, TypeOK, MainPc, MainRank
    <3> QED
      BY <2>1, <3>1, MainRankFalls DEF MainComesBack
  <2>2. CASE ~MainStep /\ main # "idle"
    <3>1. UNCHANGED main
      BY <2>2 DEF Next, Receive, LeaveLoop, WorkerStep, TakeJob, ObserveStop, ObserveClosed,
         WriteInput, WriteInputFails, SubmitAccepted, SubmitRejected, SubmitAnswerLost,
         Register, ReceiveProof, ReceiveFailure, Cleanup, GoTo, GiveUp, Environment,
         CoordinatorReads, CoordinatorFinishes, DeliverWebhook, DisturbWebhook, Ended,
         vars, mainVars
    <3>2. Len(queue') <= Len(queue) /\ Len(queue') \in Nat /\ Len(queue) \in Nat
      <4>1. Len(queue') \in Nat /\ Len(queue) \in Nat
        BY LenProperties DEF TypeInv, TypeOK
      <4>2. CASE TakeJob
        BY <4>1, <4>2, TailInQueue DEF TakeJob, TypeInv, TypeOK
      <4>3. CASE ~TakeJob
        <5>1. UNCHANGED queue
          BY <2>2, <4>3 DEF Next, Receive, LeaveLoop, WorkerStep, ObserveStop, ObserveClosed,
             WriteInput, WriteInputFails, SubmitAccepted, SubmitRejected, SubmitAnswerLost,
             Register, ReceiveProof, ReceiveFailure, Cleanup, GoTo, GiveUp, Environment,
             CoordinatorReads, CoordinatorFinishes, DeliverWebhook, DisturbWebhook, Ended, vars
        <5> QED
          BY <4>1, <5>1
      <4> QED
        BY <4>2, <4>3
    <3> QED
      BY <2>2, <3>1, <3>2, CapacityAssumption DEF MainComesBack, MainRank, TypeInv, TypeOK, MainPc
  <2>3. CASE ~MainStep /\ main = "idle"
    BY <2>3 DEF MainComesBack
  <2> QED
    BY <2>1, <2>2, <2>3
<1> QED
  BY <1>1, TypeInvariant, QueueInvariant, PTL DEF Spec

\* The answer to the worker's job is still to come, on its way, or there.
AnswerOnItsWay ==
  /\ worker = "register" => ~jobs[jobId].done
  /\ worker = "await" =>
       \/ ~jobs[jobId].done
       \/ \E m \in webhooks: m.job = jobId
       \/ oneshots # {}

\* With a network that delivers each webhook once, and a proof that takes longer
\* than the registration, the result the worker waits for without a timeout cannot
\* be lost any more (main.rs:122, zisk.rs:57): the safety in RegisteredResultArrives.
THEOREM AnswerNotLost ==
  ASSUME ~EarlyWebhooks, ~LossyWebhooks
  PROVE  Spec => []AnswerOnItsWay
<1> USE DEF mainVars, tokenVars, workerVars, ziskVars
<1>1. Init => AnswerOnItsWay
  BY DEF Init, AnswerOnItsWay
<1>2. TypeInv /\ ProofInv /\ AnswerOnItsWay /\ [Next]_vars => AnswerOnItsWay'
  <2> SUFFICES ASSUME TypeInv, ProofInv, AnswerOnItsWay, [Next]_vars
               PROVE  AnswerOnItsWay'
    OBVIOUS
  <2>1. CASE \/ \E n \in BlockNumbers: Receive(n)
             \/ LeaveLoop \/ MainStep \/ Ended \/ UNCHANGED vars
    <3>1. UNCHANGED <<worker, jobId, jobs, webhooks, oneshots>>
      BY <2>1 DEF Receive, LeaveLoop, MainStep, PrepareInput, PrepareInputPanics,
         TrySendAccepted, TrySendFull, DrainOne, Drained, Send, CancelToken, CloseQueue,
         JoinWorker, JoinTimeout, Ended, vars
    <3> QED
      BY <3>1 DEF AnswerOnItsWay
  <2>2. CASE WorkerStep
    <3>1. CASE SubmitAccepted
      <4>1. job # 0 /\ LaunchProof(heads[job])
        BY <3>1 DEF SubmitAccepted, TypeInv, WorkerHasJob
      <4>2. jobs'[jobId'] = [file |-> heads[job], input |-> Unread, done |-> FALSE]
        BY <3>1, <4>1, OneMoreJob DEF SubmitAccepted
      <4>3. ~jobs'[jobId'].done /\ worker' = "register"
        BY <3>1, <4>2 DEF SubmitAccepted, GoTo
      <4> QED
        BY <4>3 DEF AnswerOnItsWay
    <3>2. CASE Register
      BY <3>2 DEF Register, GoTo, AnswerOnItsWay
    <3>3. CASE ~SubmitAccepted /\ ~Register
      <4>1. worker' \notin {"register", "await"}
        BY <2>2, <3>3 DEF WorkerStep, TakeJob, ObserveStop, ObserveClosed, WriteInput,
           WriteInputFails, SubmitRejected, SubmitAnswerLost, ReceiveProof, ReceiveFailure,
           Cleanup, GoTo, GiveUp
      <4> QED
        BY <4>1 DEF AnswerOnItsWay
    <3> QED
      BY <3>1, <3>2, <3>3
  <2>3. ASSUME NEW i \in 1..Len(jobs), CoordinatorReads(i) PROVE AnswerOnItsWay'
    <3>1. jobs[i] \in Job
      BY ElementOfSeq DEF TypeInv, TypeOK, ZiskTypeOK
    <3>2. /\ \A j \in 1..Len(jobs): j # i => jobs'[j] = jobs[j]
          /\ jobs'[i] = [jobs[i] EXCEPT !.input = files[jobs[i].file]]
      BY <2>3, JobRead DEF CoordinatorReads
    <3>3. \A j \in 1..Len(jobs): jobs'[j].done = jobs[j].done
      BY <3>1, <3>2 DEF Job
    <3>4. UNCHANGED <<worker, jobId, webhooks, oneshots>>
      BY <2>3 DEF CoordinatorReads, ReadInput
    <3> QED
      BY <3>3, <3>4 DEF AnswerOnItsWay, ProofInv, JobIsOurs
  <2>4. ASSUME NEW i \in 1..Len(jobs), CoordinatorFinishes(i) PROVE AnswerOnItsWay'
    <3>1. \A j \in 1..Len(jobs): j # i => jobs'[j] = jobs[j]
      BY <2>4, JobDone DEF CoordinatorFinishes
    <3>2. /\ UNCHANGED <<worker, jobId, oneshots>>
          /\ webhooks \subseteq webhooks'
          /\ \E m \in webhooks': m.job = i
      <4>1. PICK o \in Outcomes:
              webhooks' = webhooks \cup {[job |-> i, input |-> jobs[i].input,
                                          proof |-> o.proof, error |-> o.error, steps |-> o.steps]}
        BY <2>4 DEF CoordinatorFinishes, FinishJob
      <4> DEFINE hook == [job |-> i, input |-> jobs[i].input,
                          proof |-> o.proof, error |-> o.error, steps |-> o.steps]
      <4>2. hook \in webhooks' /\ hook.job = i /\ webhooks \subseteq webhooks'
        BY <4>1
      <4>3. UNCHANGED <<worker, jobId, oneshots>>
        BY <2>4 DEF CoordinatorFinishes, FinishJob
      <4> HIDE DEF hook
      <4> QED
        BY <4>2, <4>3
    <3>3. worker = "register" => jobId # i
      BY <2>4 DEF CoordinatorFinishes
    <3> QED
      BY <3>1, <3>2, <3>3 DEF AnswerOnItsWay, ProofInv, JobIsOurs
  <2>5. ASSUME NEW m \in webhooks, DeliverWebhook(m) \/ DisturbWebhook(m)
        PROVE  AnswerOnItsWay'
    <3>1. /\ UNCHANGED <<worker, jobId, jobs>>
          /\ webhooks' = webhooks \ {m}
          /\ IF m.job \in pending THEN oneshots' = oneshots \cup {m} ELSE UNCHANGED oneshots
      BY <2>5 DEF DeliverWebhook, DisturbWebhook, WebhookHandler, Handle
    <3>2. worker = "await" /\ oneshots = {} => jobId \in pending
      BY DEF ProofInv, NoAbandonedSender
    <3> QED
      BY <3>1, <3>2 DEF AnswerOnItsWay
  <2> QED
    BY <2>1, <2>2, <2>3, <2>4, <2>5 DEF Next, Environment
<1> QED
  BY <1>1, <1>2, TypeInvariant, ProofInvariant, PTL DEF Spec

-----------------------------------------------------------------------------
\* The promise of ProvePipeline: the initial states are initial states of the
\* promise, and each step is a step of the promise or changes nothing in it.

\* The values the promise sees of the worker: the head being proved, which is
\* settled once its proof is uploaded, and the last head that was started.
ProvingNow  == IF worker = "cleanup" THEN 0 ELSE job
LastStarted == IF started = {} THEN 0 ELSE CHOOSE k \in started: \A j \in started: j <= k

\* What the promise sees.
View == <<Len(heads), InQueue, ProvingNow, LastStarted, dropped, failed, uploads>>

\* Its variables are these values, under the mapping of Gevulot3.
LEMMA ViewIsMapped ==
  /\ Pipeline!pvars = View
  /\ UNCHANGED View => UNCHANGED Pipeline!pvars
BY DEF Pipeline!pvars, View, ProvingNow, LastStarted

\* The mapped module's Cardinality is the one of FiniteSets.
LEMMA SameCardinality ==
  ASSUME NEW S
  PROVE  Pipeline!Cardinality(S) = Cardinality(S)
BY DEF Pipeline!Cardinality, Cardinality

\* The least of a set of heads is its oldest.
LEMMA OldestIsLeast ==
  ASSUME NEW S, S \subseteq Nat, NEW m \in S, \A j \in S: m <= j
  PROVE  Pipeline!Oldest(S) = m
<1>1. \A k \in S: (\A j \in S: k <= j) => k = m
  OBVIOUS
<1> QED
  BY <1>1 DEF Pipeline!Oldest

\* The greatest started head is the last.
LEMMA LastIsGreatest ==
  ASSUME started \subseteq Nat, NEW m \in started, \A j \in started: j <= m
  PROVE  LastStarted = m
<1>1. \A k \in started: (\A j \in started: j <= k) => k = m
  OBVIOUS
<1> QED
  BY <1>1 DEF LastStarted

\* The queue holds no more heads than its length.
LEMMA QueueIsFinite ==
  ASSUME NEW S, queue \in Seq(S)
  PROVE  IsFiniteSet(InQueue) /\ Cardinality(InQueue) <= Len(queue)
<1>1. Len(queue) \in Nat
  BY LenProperties
<1>2. IsFiniteSet(1..Len(queue)) /\ Cardinality(1..Len(queue)) = Len(queue)
  BY <1>1, FS_Interval
<1> DEFINE f == [i \in 1..Len(queue) |-> queue[i]]
<1>3. f \in Surjection(1..Len(queue), InQueue)
  BY DEF Surjection, InQueue
<1> HIDE DEF f
<1> QED
  BY <1>2, <1>3, FS_Surjection

\* Queued heads were received.
LEMMA QueuedHeads ==
  ASSUME TypeInv
  PROVE  Latest \in Nat /\ \A q \in InQueue: q \in 1..Latest /\ q \in Nat
<1>1. queue \in Seq(1..Latest) /\ Latest \in Nat
  BY LenProperties DEF TypeInv, TypeOK, Latest
<1>2. \A i \in 1..Len(queue): queue[i] \in 1..Latest
  BY <1>1, ElementOfSeq
<1>3. \A q \in InQueue: q \in 1..Latest
  BY <1>2 DEF InQueue
<1> QED
  BY <1>1, <1>3

\* The first in the queue is the oldest head in it.
LEMMA FirstIsOldest ==
  ASSUME TypeInv, ProvedInOrder, queue # <<>>
  PROVE  /\ queue[1] \in InQueue
         /\ Pipeline!Oldest(InQueue) = queue[1]
<1>1. queue \in Seq(1..Latest) /\ Latest \in Nat
  BY LenProperties DEF TypeInv, TypeOK, Latest
<1>2. Len(queue) \in Nat \ {0}
  BY <1>1, EmptySeq, LenProperties
<1>3. queue[1] \in InQueue
  BY <1>2 DEF InQueue
<1>4. \A i \in 1..Len(queue): queue[i] \in 1..Latest
  BY <1>1, ElementOfSeq
<1>5. \A i \in 1..Len(queue): queue[i] \in Nat
  BY <1>1, <1>4
<1>6. InQueue \subseteq Nat
  BY <1>5 DEF InQueue
<1>7. \A i \in 1..Len(queue): queue[1] <= queue[i]
  BY <1>2, <1>5 DEF ProvedInOrder
<1>8. \A q \in InQueue: queue[1] <= q
  BY <1>7 DEF InQueue
<1> QED
  BY <1>3, <1>6, <1>8, OldestIsLeast

\* The started heads, if any, have a last one.
HasLast == started # {} => \E m \in started: \A j \in started: j <= m

RefInv == TypeInv /\ ProofInv /\ QueueInv /\ HasLast

\* What the worker takes is newer than all it took before.
LEMMA TakenIsLast ==
  ASSUME TypeInv, QueueInv, TakeJob
  PROVE  /\ queue # <<>> /\ started' = started \cup {queue[1]}
         /\ \A j \in started': j \in Nat /\ j <= queue[1]
<1>1. queue # <<>> /\ started' = started \cup {queue[1]}
  BY DEF TakeJob
<1>2. queue[1] \in InQueue
  BY <1>1, FirstIsOldest DEF QueueInv
<1>3. queue[1] \in Nat /\ \A j \in started: j \in Nat
  BY <1>2, QueuedHeads DEF TypeInv, TypeOK, Latest
<1>4. \A j \in started: j < queue[1]
  BY <1>2 DEF QueueInv, ProvedInOrder
<1>5. \A j \in started': j \in Nat /\ j <= queue[1]
  BY <1>1, <1>3, <1>4
<1> QED
  BY <1>1, <1>5

LEMMA RefInvariant == Spec => []RefInv
<1>1. Init => HasLast
  BY DEF Init, HasLast
<1>2. TypeInv /\ QueueInv /\ HasLast /\ [Next]_vars => HasLast'
  <2> SUFFICES ASSUME TypeInv, QueueInv, HasLast, [Next]_vars PROVE HasLast'
    OBVIOUS
  <2>1. CASE TakeJob
    BY <2>1, TakenIsLast DEF HasLast
  <2>2. CASE ~TakeJob
    <3>1. UNCHANGED started
      BY <2>2 DEF Next, Receive, LeaveLoop, MainStep, PrepareInput, PrepareInputPanics,
         TrySendAccepted, TrySendFull, DrainOne, Drained, Send, CancelToken, CloseQueue,
         JoinWorker, JoinTimeout, WorkerStep, ObserveStop, ObserveClosed, WriteInput,
         WriteInputFails, SubmitAccepted, SubmitRejected, SubmitAnswerLost, Register,
         ReceiveProof, ReceiveFailure, Cleanup, GoTo, GiveUp, Environment, CoordinatorReads,
         CoordinatorFinishes, DeliverWebhook, DisturbWebhook, Ended, vars, workerVars
    <3> QED
      BY <3>1 DEF HasLast
  <2> QED
    BY <2>1, <2>2
<1> QED
  BY <1>1, <1>2, TypeInvariant, ProofInvariant, QueueInvariant, PTL DEF Spec, RefInv

\* Heads that were started are older than one that is newer than each of them.
LEMMA LastIsOlder ==
  ASSUME TypeInv, HasLast, NEW k \in Nat \ {0}, \A s \in started: s < k
  PROVE  LastStarted < k
<1>1. CASE started = {}
  BY <1>1 DEF LastStarted
<1>2. CASE started # {}
  <2>1. started \subseteq Nat
    BY LenProperties DEF TypeInv, TypeOK
  <2> QED
    BY <1>2, <2>1, LastIsGreatest DEF HasLast
<1> QED
  BY <1>1, <1>2

-----------------------------------------------------------------------------
\* One step of the orchestrator, one of the promise.

LEMMA InitRefines == Init => Pipeline!PInit
<1> SUFFICES ASSUME Init PROVE Pipeline!PInit
  OBVIOUS
<1>1. Len(heads) = 0 /\ InQueue = {}
  BY EmptySeq DEF Init, InQueue
<1> QED
  BY <1>1 DEF Init, Pipeline!PInit

LEMMA ReceiveAnnounces ==
  ASSUME RefInv, NEW n \in BlockNumbers, Receive(n)
  PROVE  Pipeline!Announce
<1>1. Len(heads') = Len(heads) + 1
  BY MoreHeads DEF Receive, RefInv, TypeInv
<1>2. UNCHANGED <<InQueue, ProvingNow, LastStarted, dropped, failed, uploads>>
  BY DEF Receive, InQueue, ProvingNow, LastStarted, workerVars
<1> QED
  BY <1>1, <1>2 DEF Pipeline!Announce, ProvingNow, LastStarted

LEMMA PutEnqueues ==
  ASSUME RefInv, TrySendAccepted \/ Send
  PROVE  Pipeline!Enqueue
<1>1. /\ main \in {"try_send", "send"} /\ queue' = Append(queue, Latest)
      /\ Len(queue) < Capacity
      /\ UNCHANGED <<heads, worker, job, started, dropped, failed, uploads>>
  BY DEF TrySendAccepted, Send, workerVars
<1>2. Latest \in 1..Latest /\ Latest \in Nat \ {0} /\ queue \in Seq(1..Latest)
  BY <1>1, LenProperties DEF RefInv, TypeInv, TypeOK, MainHasHead, Preparing, Latest
<1>3. InQueue' = InQueue \cup {Latest}
  BY <1>1, <1>2, AppendInQueue
<1>4. Latest \notin started \cup dropped \cup InQueue
  BY <1>1 DEF RefInv, QueueInv, HeadInHand, Preparing
<1>5. LastStarted < Latest
  <2>1. \A s \in started: s < Latest
    BY <1>2, <1>4 DEF RefInv, TypeInv, TypeOK, Latest
  <2> QED
    BY <1>2, <2>1, LastIsOlder DEF RefInv
<1>6. IF SkipPending THEN InQueue = {} ELSE Pipeline!Cardinality(InQueue) < Capacity
  <2>1. CASE SkipPending
    <3>1. queue = <<>>
      BY <1>1, <2>1 DEF RefInv, QueueInv, HeadInHand, SendNeverBlocks
    <3> QED
      BY <2>1, <3>1, EmptySeq DEF InQueue
  <2>2. CASE ~SkipPending
    <3>1. IsFiniteSet(InQueue) /\ Cardinality(InQueue) <= Len(queue)
      BY <1>2, QueueIsFinite
    <3>2. Cardinality(InQueue) \in Nat /\ Len(queue) \in Nat /\ Capacity \in Nat
      BY <1>2, <3>1, FS_CardinalityType, LenProperties, CapacityAssumption
    <3> QED
      BY <1>1, <2>2, <3>1, <3>2, SameCardinality
  <2> QED
    BY <2>1, <2>2
<1>7. UNCHANGED <<Len(heads), ProvingNow, LastStarted, dropped, failed, uploads>>
  BY <1>1 DEF ProvingNow, LastStarted
<1>8. /\ Len(heads) \notin InQueue \cup dropped
      /\ InQueue' = InQueue \cup {Len(heads)}
      /\ LastStarted < Len(heads)
  BY <1>3, <1>4, <1>5 DEF Latest
<1> QED
  BY <1>6, <1>7, <1>8 DEF Pipeline!Enqueue, ProvingNow, LastStarted

\* The first of the queue leaves it: the others are those newer than it.
LEMMA FirstLeaves ==
  ASSUME TypeInv, QueueInv, queue # <<>>, queue' = Tail(queue)
  PROVE  InQueue' = InQueue \ {queue[1]}
<1>1. queue \in Seq(1..Latest)
  BY DEF TypeInv, TypeOK, Latest
<1>2. /\ InQueue = InQueue' \cup {queue[1]}
      /\ Len(queue') = Len(queue) - 1 /\ Len(queue) \in Nat \ {0}
      /\ \A i \in 1..Len(queue'): queue'[i] = queue[i + 1]
  BY <1>1, TailInQueue
<1>3. \A i \in 1..Len(queue'): queue[i + 1] # queue[1]
  <2>1. \A i \in 1..Len(queue): queue[i] \in Nat
    BY QueuedHeads DEF InQueue
  <2> QED
    BY <1>2, <2>1 DEF QueueInv, ProvedInOrder
<1>4. queue[1] \notin InQueue'
  BY <1>2, <1>3 DEF InQueue
<1> QED
  BY <1>2, <1>4

LEMMA DrainGivesWay ==
  ASSUME RefInv, DrainOne
  PROVE  Pipeline!GiveWay
<1>1. /\ main = "drain" /\ queue # <<>> /\ queue' = Tail(queue)
      /\ dropped' = dropped \cup {queue[1]}
      /\ UNCHANGED <<heads, ProvingNow, LastStarted, failed, uploads>>
  BY DEF DrainOne, workerVars, ProvingNow, LastStarted
<1>2. queue[1] \in InQueue /\ Pipeline!Oldest(InQueue) = queue[1]
  BY <1>1, FirstIsOldest DEF RefInv, QueueInv
<1>3. InQueue' = InQueue \ {queue[1]}
  BY <1>1, FirstLeaves DEF RefInv
<1>4. Latest \notin InQueue
  BY <1>1 DEF RefInv, QueueInv, HeadInHand, Preparing
<1>5. queue[1] < Latest
  <2>1. Latest \in Nat /\ queue[1] \in 1..Latest
    BY <1>2, QueuedHeads DEF RefInv
  <2> QED
    BY <1>2, <1>4, <2>1
<1> QED
  BY <1>1, <1>2, <1>3, <1>4, <1>5 DEF Pipeline!GiveWay, ProvingNow, LastStarted, Latest

LEMMA TakeStartsProving ==
  ASSUME RefInv, RefInv', TakeJob
  PROVE  Pipeline!StartProving
<1>1. /\ worker = "select" /\ worker' = "write" /\ job' = queue[1]
      /\ queue # <<>> /\ queue' = Tail(queue)
      /\ UNCHANGED <<heads, dropped, failed, uploads>>
  BY DEF TakeJob, mainVars
<1>2. queue[1] \in InQueue /\ Pipeline!Oldest(InQueue) = queue[1]
  BY <1>1, FirstIsOldest DEF RefInv, QueueInv
<1>3. InQueue' = InQueue \ {queue[1]}
  BY <1>1, FirstLeaves DEF RefInv
<1>4. ProvingNow = 0 /\ ProvingNow' = queue[1]
  BY <1>1 DEF ProvingNow, RefInv, TypeInv, WorkerHasJob
<1>5. LastStarted' = queue[1]
  <2>1. /\ queue[1] \in started'
        /\ \A j \in started': j \in Nat /\ j <= queue[1]
    BY TakenIsLast DEF RefInv
  <2>2. ASSUME NEW k \in started', \A j \in started': j <= k
        PROVE  k = queue[1]
    <3>1. queue[1] <= k /\ k <= queue[1] /\ k \in Nat /\ queue[1] \in Nat
      BY <2>1, <2>2
    <3> QED
      BY <3>1
  <2> QED
    BY <2>1, <2>2 DEF LastStarted
<1> QED
  BY <1>1, <1>2, <1>3, <1>4, <1>5 DEF Pipeline!StartProving, ProvingNow, LastStarted

\* An error arm of the worker gives its head up.
LEMMA GiveUpFails ==
  ASSUME RefInv, WriteInputFails \/ SubmitRejected \/ SubmitAnswerLost \/ ReceiveFailure
  PROVE  Pipeline!Fail
<1>1. /\ worker \in {"write", "submit", "await"} /\ GiveUp
  BY DEF WriteInputFails, SubmitRejected, SubmitAnswerLost, ReceiveFailure
<1>2. /\ job' = 0 /\ worker' = "select" /\ failed' = failed \cup {job}
      /\ UNCHANGED <<heads, InQueue, LastStarted, dropped, uploads>>
  BY <1>1 DEF GiveUp, mainVars, InQueue, LastStarted
<1>3. job # 0 /\ ProvingNow = job /\ ProvingNow' = 0
  BY <1>1, <1>2 DEF RefInv, TypeInv, WorkerHasJob, ProvingNow
<1> QED
  BY <1>2, <1>3 DEF Pipeline!Fail, ProvingNow, LastStarted

\* What the worker uploads is a proof of the head it proves.
LEMMA ReceiveProofProves ==
  ASSUME RefInv, ReceiveProof
  PROVE  Pipeline!Prove
<1>1. PICK m \in oneshots: m.job = jobId /\ uploads' = uploads \cup {<<job, m.input>>}
  BY DEF ReceiveProof
<1>2. /\ worker = "await" /\ worker' = "cleanup"
      /\ UNCHANGED <<heads, InQueue, LastStarted, dropped, failed>>
  BY DEF ReceiveProof, mainVars, InQueue, LastStarted
<1>3. m.input = job
  BY <1>1, <1>2 DEF RefInv, ProofInv, HooksAreOurs
<1>4. job # 0 /\ ProvingNow = job /\ ProvingNow' = 0
  BY <1>2 DEF RefInv, TypeInv, WorkerHasJob, ProvingNow
<1> QED
  BY <1>1, <1>2, <1>3, <1>4 DEF Pipeline!Prove, ProvingNow, LastStarted

\* The other steps are invisible.
LEMMA OthersStutter ==
  ASSUME RefInv,
         \/ LeaveLoop \/ PrepareInput \/ PrepareInputPanics \/ TrySendFull \/ Drained
         \/ CancelToken \/ CloseQueue \/ JoinWorker \/ JoinTimeout
         \/ ObserveStop \/ ObserveClosed \/ WriteInput \/ SubmitAccepted \/ Register \/ Cleanup
         \/ Environment \/ Ended \/ UNCHANGED vars
  PROVE  UNCHANGED Pipeline!pvars
<1> USE DEF mainVars, tokenVars, workerVars
<1>1. UNCHANGED <<heads, queue, started, dropped, failed, uploads>>
  BY DEF LeaveLoop, PrepareInput, PrepareInputPanics, TrySendFull, Drained, CancelToken,
     CloseQueue, JoinWorker, JoinTimeout, ObserveStop, ObserveClosed, WriteInput,
     SubmitAccepted, Register, Cleanup, GoTo, Environment, CoordinatorReads,
     CoordinatorFinishes, DeliverWebhook, DisturbWebhook, Ended, vars
<1>2. UNCHANGED ProvingNow
  <2>1. CASE Cleanup
    BY <2>1 DEF Cleanup, ProvingNow
  <2>2. CASE ~Cleanup
    <3>1. UNCHANGED job /\ (worker' = "cleanup" <=> worker = "cleanup")
      BY <2>2 DEF LeaveLoop, PrepareInput, PrepareInputPanics, TrySendFull, Drained,
         CancelToken, CloseQueue, JoinWorker, JoinTimeout, ObserveStop, ObserveClosed,
         WriteInput, SubmitAccepted, Register, GoTo, Environment, CoordinatorReads,
         CoordinatorFinishes, DeliverWebhook, DisturbWebhook, Ended, vars
    <3> QED
      BY <3>1 DEF ProvingNow
  <2> QED
    BY <2>1, <2>2
<1>3. UNCHANGED View
  BY <1>1, <1>2 DEF View, InQueue, LastStarted
<1> QED
  BY <1>3, ViewIsMapped

LEMMA StepRefines ==
  ASSUME RefInv, RefInv', [Next]_vars
  PROVE  [Pipeline!PNext]_(Pipeline!pvars)
<1>1. ASSUME NEW n \in BlockNumbers, Receive(n) PROVE Pipeline!PNext
  BY <1>1, ReceiveAnnounces DEF Pipeline!PNext
<1>2. CASE TrySendAccepted \/ Send
  BY <1>2, PutEnqueues DEF Pipeline!PNext
<1>3. CASE DrainOne
  BY <1>3, DrainGivesWay DEF Pipeline!PNext
<1>4. CASE TakeJob
  BY <1>4, TakeStartsProving DEF Pipeline!PNext
<1>5. CASE WriteInputFails \/ SubmitRejected \/ SubmitAnswerLost \/ ReceiveFailure
  BY <1>5, GiveUpFails DEF Pipeline!PNext
<1>6. CASE ReceiveProof
  BY <1>6, ReceiveProofProves DEF Pipeline!PNext
<1>7. CASE \/ LeaveLoop \/ PrepareInput \/ PrepareInputPanics \/ TrySendFull \/ Drained
           \/ CancelToken \/ CloseQueue \/ JoinWorker \/ JoinTimeout
           \/ ObserveStop \/ ObserveClosed \/ WriteInput \/ SubmitAccepted \/ Register
           \/ Cleanup \/ Environment \/ Ended \/ UNCHANGED vars
  BY <1>7, OthersStutter
<1> QED
  BY <1>1, <1>2, <1>3, <1>4, <1>5, <1>6, <1>7 DEF Next, MainStep, WorkerStep

\* gevulot3 implements the promise: heads wait in a bounded set, are proved one
\* at a time in the order they were announced, give way oldest first and only to
\* newer ones, and a proof is uploaded for the head it proves (main.rs:200-275).
THEOREM Implements == Spec => ImplementsPipeline
<1>1. RefInv /\ RefInv' /\ [Next]_vars => [Pipeline!PNext]_(Pipeline!pvars)
  BY StepRefines
<1> QED
  BY <1>1, InitRefines, RefInvariant, PTL DEF Spec, ImplementsPipeline, Pipeline!PSpec

=============================================================================
