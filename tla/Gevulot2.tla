------------------------------- MODULE Gevulot2 -------------------------------
(***************************************************************************)
(* The gevulot2 orchestrator (src/gevulot2/src/main.rs): one task that      *)
(* takes a target block, prepares and uploads its input, has it proved in a *)
(* session of a Bento cluster, which it polls, and reports the proof.  It   *)
(* extends EthproofsClient; Bento is external.                              *)
(*                                                                         *)
(* A head is the k-th number received from the subscription, as in          *)
(* Gevulot3; an input, and the receipt of its proof, are the head's index.  *)
(***************************************************************************)
EXTENDS EthproofsClient, Sequences

CONSTANTS
  BlockNumbers, \* the numbers the subscription announces
  Interval,     \* the target blocks are its multiples: 100
  MaxHeads      \* bound: the heads received in a behaviour

ASSUME Gevulot2Assumption ==
  BlockNumbers \subseteq Nat /\ Interval \in Nat \ {0} /\ MaxHeads \in Nat

VARIABLES
  heads,    \* the numbers received, in order
  main,     \* where the task is
  sessions, \* Bento's sessions: [input, status, complete]
  session   \* the session the task polls, 0 for none

bentoVars == <<heads, sessions, session>>
vars == <<bentoVars, main, ethproofsVars>>

MainPc == {"idle", "prepare", "upload", "create", "poll", "download", "exited", "panicked"}
Status == {"RUNNING", "SUCCEEDED", "FAILED"}
Running == main \notin {"exited", "panicked"}

Latest == Len(heads)

\* What is reported of a head; a proof is what was proved.
Reports ==
  [kind: {"queued", "proving"}, head: 1..MaxHeads]
  \cup [kind: {"proved"}, head: 1..MaxHeads, proof: 1..MaxHeads]

Init ==
  /\ heads = <<>> /\ main = "idle" /\ sessions = <<>> /\ session = 0
  /\ EthproofsInit

-----------------------------------------------------------------------------
\* Numbers that are not of a target are skipped.
SkipBlock(n) ==
  /\ main = "idle" /\ Latest < MaxHeads
  /\ n % Interval # 0
  /\ heads' = Append(heads, n)
  /\ UNCHANGED <<main, sessions, session, ethproofsVars>>

TakeBlock(n) ==
  /\ main = "idle" /\ Latest < MaxHeads
  /\ n % Interval = 0
  /\ heads' = Append(heads, n)
  /\ main' = "prepare"
  /\ Report([kind |-> "queued", head |-> Latest + 1])
  /\ UNCHANGED <<sessions, session>>

StreamClosed ==
  /\ main = "idle"
  /\ main' = "exited"
  /\ TasksDie
  /\ UNCHANGED bentoVars

\* continue: the next number.
GiveUp(from) ==
  /\ main = from
  /\ main' = "idle" /\ session' = 0
  /\ UNCHANGED <<heads, sessions, ethproofsVars>>

PanicsIn(from) ==
  /\ main = from
  /\ main' = "panicked"
  /\ TasksDie
  /\ UNCHANGED bentoVars

PrepareInput ==
  /\ main = "prepare"
  /\ main' = "upload"
  /\ UNCHANGED <<bentoVars, ethproofsVars>>

\* A failed fetch, or block data that does not fit, is unwrapped.
PrepareInputPanics == PanicsIn("prepare")

\* Mistake: the reports made so far are waited for.
UploadAwaitsReports ==
  /\ main = "upload" /\ posting = {}
  /\ main' = "create"
  /\ Report([kind |-> "proving", head |-> Latest])
  /\ UNCHANGED bentoVars

Upload ==
  /\ main = "upload"
  /\ main' = "create"
  /\ Report([kind |-> "proving", head |-> Latest])
  /\ UNCHANGED bentoVars

UploadFails == GiveUp("upload")

NewSession == [input |-> Latest, status |-> "RUNNING", complete |-> FALSE]

\* Mistake: a session that still runs is taken up again.
CreateSessionOnce ==
  /\ main = "create"
  /\ main' = "poll"
  /\ IF sessions # <<>> /\ sessions[Len(sessions)].status = "RUNNING"
     THEN session' = Len(sessions) /\ UNCHANGED sessions
     ELSE session' = Len(sessions) + 1 /\ sessions' = Append(sessions, NewSession)
  /\ UNCHANGED <<heads, ethproofsVars>>

CreateSession ==
  /\ main = "create"
  /\ main' = "poll"
  /\ session' = Len(sessions) + 1
  /\ sessions' = Append(sessions, NewSession)
  /\ UNCHANGED <<heads, ethproofsVars>>

\* Mistake: the session is polled though it could not be created.
CreateUnchecked ==
  /\ main = "create"
  /\ main' = "poll" /\ session' = Len(sessions) + 1
  /\ UNCHANGED <<heads, sessions, ethproofsVars>>

CreateFails == GiveUp("create")

\* The status of a session that still runs sends the task to sleep.
PollDone ==
  /\ main = "poll" /\ sessions[session].status = "SUCCEEDED" /\ sessions[session].complete
  /\ main' = "download"
  /\ UNCHANGED <<bentoVars, ethproofsVars>>

\* No stats, or no URL of a receipt.
PollPanics ==
  /\ PanicsIn("poll")
  /\ sessions[session].status = "SUCCEEDED" /\ ~sessions[session].complete

PollFails == GiveUp("poll") /\ sessions[session].status = "FAILED"

\* A status that cannot be had is an error: the session may run on without anybody
\* who waits for it.
StatusFails == GiveUp("poll")

Download ==
  /\ main = "download"
  /\ main' = "idle" /\ session' = 0
  /\ Report([kind |-> "proved", head |-> Latest, proof |-> sessions[session].input])
  /\ UNCHANGED <<heads, sessions>>

DownloadFails == GiveUp("download")

\* What the task does when its calls succeed, or a session has ended.
Works == PrepareInput \/ Upload \/ CreateSession \/ PollDone \/ PollPanics \/ PollFails \/ Download

Fails == PrepareInputPanics \/ UploadFails \/ CreateFails \/ StatusFails \/ DownloadFails

-----------------------------------------------------------------------------
\* Bento ends a session, and may have nothing to say of it.
SessionEnds(i) ==
  /\ Running
  /\ i \in DOMAIN sessions /\ sessions[i].status = "RUNNING"
  /\ \E status \in Status \ {"RUNNING"}, complete \in BOOLEAN:
       sessions' = [sessions EXCEPT ![i].status = status, ![i].complete = complete]
  /\ UNCHANGED <<heads, session, main, ethproofsVars>>

PostReport(report) == PostOf(report) /\ UNCHANGED <<bentoVars, main>>

Ended == ~Running /\ UNCHANGED vars

Next ==
  \/ \E n \in BlockNumbers: SkipBlock(n) \/ TakeBlock(n)
  \/ StreamClosed
  \/ Works \/ Fails
  \/ \E i \in 1..MaxHeads: SessionEnds(i)
  \/ \E report \in Reports: PostReport(report)
  \/ Ended

\* The task runs, the calls it makes return, and Bento ends its sessions.  Calls may
\* fail and need not, and to poll a session that runs is no step.  Nothing is
\* assumed of the reports.
Fairness ==
  /\ WF_vars(Works)
  /\ \A i \in 1..MaxHeads: WF_vars(SessionEnds(i))

Spec == Init /\ [][Next]_vars /\ Fairness

-----------------------------------------------------------------------------
Session == [input: 1..MaxHeads, status: Status, complete: BOOLEAN]

TypeOK ==
  /\ heads \in Seq(BlockNumbers) /\ Latest <= MaxHeads
  /\ main \in MainPc
  /\ sessions \in Seq(Session) /\ session \in 0..Len(sessions)
  /\ reported \subseteq Reports
  /\ posting \subseteq [report: reported, left: 0..MaxRetries]

\* A proof is reported of the block it is a proof of, and of a target, whatever
\* sessions of earlier blocks were left running (main.rs:182-209).
ProofIsOfItsBlock ==
  \A r \in reported: r.kind = "proved" =>
    r.proof = r.head /\ heads[r.head] % Interval = 0

\* The loop gets on to the next block, however long the service takes to answer
\* the reports: "Spawn another task to avoid retries to impact block execution"
\* (ethproofs/src/lib.rs:35).
LoopReturns == main \notin {"idle", "exited", "panicked"} ~> main \in {"idle", "exited", "panicked"}

IsPosting(report) == \E task \in posting: task.report = report

\* Whatever it answers, every report is done with in the end: retries are bounded
\* (ethproofs/src/lib.rs:12).  Only here it is assumed that a request ends.
ReportSettles ==
  \A report \in Reports:
    WF_vars(PostReport(report)) => (IsPosting(report) ~> ~IsPosting(report))
=============================================================================
