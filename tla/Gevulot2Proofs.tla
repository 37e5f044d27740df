---------------------------- MODULE Gevulot2Proofs ----------------------------
(***************************************************************************)
(* What holds of Gevulot2 for every set of block numbers, every interval    *)
(* and every bound.                                                        *)
(***************************************************************************)
EXTENDS Gevulot2, SequenceTheorems, TLAPS

\* The task works on a target, and from the creation of its session on polls the
\* one session that was given the input of the head in hand.
Working   == main \in {"prepare", "upload", "create", "poll", "download"}
InSession == main \in {"poll", "download"}

HeadInHand == Working => Latest > 0 /\ heads[Latest] % Interval = 0

SessionInHand == InSession => session > 0 /\ sessions[session].input = Latest

HeadsReceived == \A r \in reported: r.head <= Latest

\* The inductive invariant.
Inv == TypeOK /\ HeadInHand /\ SessionInHand /\ HeadsReceived /\ ProofIsOfItsBlock

\* The initial states satisfy the invariant.
LEMMA InitInv == Init => Inv
<1> SUFFICES ASSUME Init PROVE Inv
  OBVIOUS
<1> USE DEF Init, EthproofsInit
<1>1. heads \in Seq(BlockNumbers) /\ Len(heads) = 0
  BY EmptySeq
<1>2. sessions \in Seq(Session) /\ Len(sessions) = 0
  BY EmptySeq
<1>3. TypeOK
  BY <1>1, <1>2, Gevulot2Assumption DEF TypeOK, Latest, MainPc
<1> QED
  BY <1>3 DEF Inv, HeadInHand, SessionInHand, HeadsReceived, ProofIsOfItsBlock, Working, InSession

\* What a report does to the client's variables.
LEMMA ReportKeeps ==
  ASSUME TypeOK, NEW report \in Reports, Report(report)
  PROVE  /\ reported' = reported \cup {report}
         /\ reported' \subseteq Reports
         /\ posting' \subseteq [report: reported', left: 0..MaxRetries]
<1> USE DEF Report, TypeOK
<1>1. [report |-> report, left |-> MaxRetries] \in [report: reported', left: 0..MaxRetries]
  BY MaxRetriesAssumption
<1> QED
  BY <1>1

\* The reports end with the process.
LEMMA TasksDieKeeps ==
  ASSUME TypeOK, TasksDie
  PROVE  reported' \subseteq Reports /\ posting' \subseteq [report: reported', left: 0..MaxRetries]
BY DEF TasksDie, TypeOK

\* A step that leaves heads and the reports made as they are keeps what is said of them.
LEMMA ReportsStay ==
  ASSUME HeadsReceived, ProofIsOfItsBlock, UNCHANGED <<heads, reported>>
  PROVE  HeadsReceived' /\ ProofIsOfItsBlock'
BY DEF HeadsReceived, ProofIsOfItsBlock, Latest

\* Another number received changes nothing of the heads before it.
LEMMA AnotherHead ==
  ASSUME TypeOK, HeadsReceived, NEW n \in BlockNumbers, heads' = Append(heads, n),
         Latest < MaxHeads
  PROVE  /\ heads' \in Seq(BlockNumbers) /\ Latest' = Latest + 1 /\ Latest' <= MaxHeads
         /\ heads'[Latest + 1] = n
         /\ Latest \in Nat
         /\ \A r \in reported: r.head \in 1..Latest /\ heads'[r.head] = heads[r.head]
<1> USE DEF TypeOK, Latest
<1>1. heads \in Seq(BlockNumbers) /\ Len(heads) \in Nat
  BY LenProperties
<1>2. /\ Append(heads, n) \in Seq(BlockNumbers) /\ Len(Append(heads, n)) = Len(heads) + 1
      /\ Append(heads, n)[Len(heads) + 1] = n
      /\ \A k \in 1..Len(heads): Append(heads, n)[k] = heads[k]
  BY <1>1, AppendProperties
<1>3. ASSUME NEW r \in reported PROVE r.head \in 1..Len(heads)
  <2>1. r.head \in 1..MaxHeads
    BY DEF Reports
  <2> QED
    BY <2>1, <1>1, Gevulot2Assumption DEF HeadsReceived
<1> QED
  BY <1>1, <1>2, <1>3, Gevulot2Assumption

\* Nor of the reports made of them.
LEMMA AnotherHeadKeeps ==
  ASSUME HeadsReceived, ProofIsOfItsBlock, Latest \in Nat, Latest' = Latest + 1,
         \A r \in reported: r.head \in 1..Latest /\ heads'[r.head] = heads[r.head],
         \A r \in reported' \ reported: r.head = Latest + 1 /\ r.kind # "proved"
  PROVE  HeadsReceived' /\ ProofIsOfItsBlock'
<1>1. HeadsReceived'
  <2> SUFFICES ASSUME NEW r \in reported' PROVE r.head <= Latest'
    BY DEF HeadsReceived
  <2>1. CASE r \in reported
    BY <2>1
  <2>2. CASE r \notin reported
    BY <2>2
  <2> QED
    BY <2>1, <2>2
<1>2. ProofIsOfItsBlock'
  <2> SUFFICES ASSUME NEW r \in reported', r.kind = "proved"
               PROVE  r.proof = r.head /\ heads'[r.head] % Interval = 0
    BY DEF ProofIsOfItsBlock
  <2>1. r \in reported
    OBVIOUS
  <2>2. r.proof = r.head /\ heads[r.head] % Interval = 0
    BY <2>1 DEF ProofIsOfItsBlock
  <2>3. heads'[r.head] = heads[r.head]
    BY <2>1
  <2> QED
    BY <2>2, <2>3
<1> QED
  BY <1>1, <1>2

\* A number that is skipped leaves the task idle.
LEMMA SkipInv == ASSUME Inv, NEW n \in BlockNumbers, SkipBlock(n) PROVE Inv'
<1> USE DEF Inv, SkipBlock, ethproofsVars
<1>1. /\ heads' \in Seq(BlockNumbers) /\ Latest' = Latest + 1 /\ Latest' <= MaxHeads /\ Latest \in Nat
      /\ \A r \in reported: r.head \in 1..Latest /\ heads'[r.head] = heads[r.head]
  BY AnotherHead
<1>2. TypeOK'
  BY <1>1 DEF TypeOK
<1>3. HeadInHand' /\ SessionInHand'
  BY DEF HeadInHand, SessionInHand, Working, InSession
<1>4. HeadsReceived' /\ ProofIsOfItsBlock'
  BY <1>1, AnotherHeadKeeps
<1> QED
  BY <1>2, <1>3, <1>4

\* A target is in hand, and reported as queued.
LEMMA TakeInv == ASSUME Inv, NEW n \in BlockNumbers, TakeBlock(n) PROVE Inv'
<1> DEFINE queued == [kind |-> "queued", head |-> Latest + 1]
<1> USE DEF Inv, TakeBlock
<1>1. /\ heads' \in Seq(BlockNumbers) /\ Latest' = Latest + 1 /\ Latest' <= MaxHeads /\ Latest \in Nat
      /\ heads'[Latest + 1] = n
      /\ \A r \in reported: r.head \in 1..Latest /\ heads'[r.head] = heads[r.head]
  BY AnotherHead
<1>2. queued \in Reports
  BY <1>1, Gevulot2Assumption DEF Reports
<1>3. /\ reported' = reported \cup {queued} /\ reported' \subseteq Reports
      /\ posting' \subseteq [report: reported', left: 0..MaxRetries]
  BY <1>2, ReportKeeps
<1>4. TypeOK'
  BY <1>1, <1>3 DEF TypeOK, MainPc
<1>5. HeadInHand' /\ SessionInHand'
  BY <1>1 DEF HeadInHand, SessionInHand, Working, InSession
<1>6. HeadsReceived' /\ ProofIsOfItsBlock'
  <2>1. \A r \in reported' \ reported: r.head = Latest + 1 /\ r.kind # "proved"
    BY <1>3
  <2> QED
    BY <1>1, <2>1, AnotherHeadKeeps
<1> QED
  BY <1>4, <1>5, <1>6

\* A block given up leaves the task idle.
LEMMA GiveUpInv == ASSUME Inv, NEW from, GiveUp(from) PROVE Inv'
<1> USE DEF Inv, GiveUp, ethproofsVars
<1>1. TypeOK'
  BY LenProperties DEF TypeOK, Latest, MainPc
<1>2. HeadInHand' /\ SessionInHand'
  BY DEF HeadInHand, SessionInHand, Working, InSession
<1> QED
  BY <1>1, <1>2, ReportsStay

\* The end of the process, in either way.
LEMMA EndInv ==
  ASSUME Inv, main' \in {"exited", "panicked"}, TasksDie, UNCHANGED bentoVars
  PROVE  Inv'
<1> USE DEF Inv, bentoVars
<1>1. TypeOK'
  BY TasksDieKeeps DEF TypeOK, Latest, MainPc
<1>2. HeadInHand' /\ SessionInHand'
  BY DEF HeadInHand, SessionInHand, Working, InSession
<1>3. HeadsReceived' /\ ProofIsOfItsBlock'
  BY ReportsStay DEF TasksDie
<1> QED
  BY <1>1, <1>2, <1>3

\* A report of the head in hand, made by a step that leaves the heads as they are.
LEMMA ReportInHand ==
  ASSUME Inv, Working, UNCHANGED heads, NEW report \in Reports, Report(report),
         report.head = Latest, report.kind = "proved" => report.proof = Latest
  PROVE  HeadsReceived' /\ ProofIsOfItsBlock'
<1>1. reported' = reported \cup {report}
  BY ReportKeeps DEF Inv
<1>2. Latest > 0 /\ heads[Latest] % Interval = 0 /\ Latest' = Latest /\ Latest \in Nat
  BY LenProperties DEF Inv, HeadInHand, TypeOK, Latest
<1> QED
  BY <1>1, <1>2 DEF Inv, HeadsReceived, ProofIsOfItsBlock

\* The input is uploaded, and the block reported as proving.
LEMMA UploadInv == ASSUME Inv, Upload PROVE Inv'
<1> DEFINE proving == [kind |-> "proving", head |-> Latest]
<1> USE DEF Inv, Upload, bentoVars
<1>1. Latest \in 1..MaxHeads
  BY LenProperties, Gevulot2Assumption DEF HeadInHand, Working, TypeOK, Latest
<1>2. proving \in Reports
  BY <1>1 DEF Reports
<1>3. TypeOK'
  BY <1>2, ReportKeeps DEF TypeOK, Latest, MainPc
<1>4. HeadInHand' /\ SessionInHand'
  BY DEF HeadInHand, SessionInHand, Working, InSession, Latest
<1>5. HeadsReceived' /\ ProofIsOfItsBlock'
  BY <1>2, ReportInHand DEF Working
<1> QED
  BY <1>3, <1>4, <1>5

\* The new session has the input of the head in hand.
LEMMA CreateInv == ASSUME Inv, CreateSession PROVE Inv'
<1> USE DEF Inv, CreateSession, ethproofsVars
<1>1. Latest \in 1..MaxHeads /\ Latest' = Latest
  BY LenProperties, Gevulot2Assumption DEF HeadInHand, Working, TypeOK, Latest
<1>2. NewSession \in Session /\ NewSession.input = Latest
  BY <1>1 DEF NewSession, Session, Status
<1>3. sessions \in Seq(Session) /\ Len(sessions) \in Nat
  BY LenProperties DEF TypeOK
<1>4. /\ sessions' \in Seq(Session) /\ Len(sessions') = Len(sessions) + 1
      /\ sessions'[Len(sessions) + 1] = NewSession
  BY <1>2, <1>3, AppendProperties
<1>5. TypeOK'
  BY <1>3, <1>4 DEF TypeOK, Latest, MainPc
<1>6. HeadInHand' /\ SessionInHand'
  BY <1>1, <1>2, <1>3, <1>4 DEF HeadInHand, SessionInHand, Working, InSession, Latest
<1> QED
  BY <1>5, <1>6, ReportsStay

\* The receipt of the session is reported as the proof of the head in hand.
LEMMA DownloadInv == ASSUME Inv, Download PROVE Inv'
<1> DEFINE proved == [kind |-> "proved", head |-> Latest, proof |-> sessions[session].input]
<1> USE DEF Inv, Download
<1>1. Latest \in 1..MaxHeads /\ sessions[session].input = Latest
  BY LenProperties, Gevulot2Assumption DEF HeadInHand, SessionInHand, Working, InSession, TypeOK, Latest
<1>2. proved \in Reports
  BY <1>1 DEF Reports
<1>3. TypeOK'
  BY <1>2, ReportKeeps, LenProperties DEF TypeOK, Latest, MainPc
<1>4. HeadInHand' /\ SessionInHand'
  BY DEF HeadInHand, SessionInHand, Working, InSession
<1>5. HeadsReceived' /\ ProofIsOfItsBlock'
  BY <1>1, <1>2, ReportInHand DEF Working
<1> QED
  BY <1>3, <1>4, <1>5

\* A session that ends keeps its input.
LEMMA SessionEndsInv == ASSUME Inv, NEW i \in 1..MaxHeads, SessionEnds(i) PROVE Inv'
<1> USE DEF Inv, SessionEnds, ethproofsVars
<1>1. PICK status \in Status, complete \in BOOLEAN:
        sessions' = [sessions EXCEPT ![i].status = status, ![i].complete = complete]
  OBVIOUS
<1>2. sessions \in Seq(Session) /\ i \in 1..Len(sessions) /\ DOMAIN sessions = 1..Len(sessions)
  BY LenProperties DEF TypeOK
<1>3. sessions[i] \in Session
  BY <1>2, ElementOfSeq
<1> DEFINE ended == [sessions[i] EXCEPT !.status = status, !.complete = complete]
<1>4. ended \in Session /\ ended.input = sessions[i].input
  BY <1>1, <1>3 DEF Session
<1>5. sessions' = [sessions EXCEPT ![i] = ended]
  BY <1>1
<1>6. sessions' \in Seq(Session) /\ Len(sessions') = Len(sessions)
  <2> HIDE DEF ended
  <2>1. [sessions EXCEPT ![i] = ended] \in Seq(Session)
    BY <1>2, <1>4, ExceptSeq
  <2>2. Len([sessions EXCEPT ![i] = ended]) = Len(sessions)
    BY <1>2, <1>4, ExceptSeq
  <2> QED
    BY <1>5, <2>1, <2>2
<1>7. \A j \in 1..Len(sessions): sessions'[j].input = sessions[j].input
  BY <1>2, <1>4, <1>5
<1>8. TypeOK'
  BY <1>6 DEF TypeOK, Latest
<1>9. HeadInHand' /\ SessionInHand'
  BY <1>2, <1>7 DEF HeadInHand, SessionInHand, Working, InSession, TypeOK, Latest
<1> QED
  BY <1>8, <1>9, ReportsStay

\* A task that posts changes nothing but itself.
LEMMA PostInv == ASSUME Inv, NEW report \in Reports, PostReport(report) PROVE Inv'
<1> USE DEF Inv, bentoVars
<1>1. PICK task \in posting, answer \in Answers: Post(task, answer)
  BY DEF PostReport, PostOf
<1>2. task.report \in reported /\ task.left \in 0..MaxRetries /\ task \in [report: reported, left: 0..MaxRetries]
  BY DEF TypeOK
<1>3. ASSUME task.left > 0 PROVE [task EXCEPT !.left = @ - 1] \in [report: reported, left: 0..MaxRetries]
  BY <1>2, <1>3, MaxRetriesAssumption
<1>4. UNCHANGED reported /\ posting' \subseteq [report: reported, left: 0..MaxRetries]
  BY <1>1, <1>3 DEF Post, TypeOK
<1>5. TypeOK'
  BY <1>4 DEF PostReport, TypeOK, Latest
<1>6. HeadInHand' /\ SessionInHand'
  BY DEF PostReport, HeadInHand, SessionInHand, Working, InSession, Latest
<1> QED
  BY <1>4, <1>5, <1>6, ReportsStay DEF PostReport

\* Every step keeps the invariant.
LEMMA NextInv == Inv /\ [Next]_vars => Inv'
<1> SUFFICES ASSUME Inv, [Next]_vars PROVE Inv'
  OBVIOUS
<1>1. ASSUME NEW n \in BlockNumbers, SkipBlock(n) \/ TakeBlock(n) PROVE Inv'
  BY <1>1, SkipInv, TakeInv
<1>2. CASE StreamClosed
  BY <1>2, EndInv DEF StreamClosed
<1>3. CASE Works \/ Fails
  <2>1. CASE PrepareInput
    <3> USE <2>1 DEF PrepareInput, bentoVars, ethproofsVars
    <3>1. TypeOK'
      BY DEF Inv, TypeOK, Latest, MainPc
    <3>2. HeadInHand' /\ SessionInHand'
      BY DEF Inv, HeadInHand, SessionInHand, Working, InSession, Latest
    <3> QED
      BY <3>1, <3>2, ReportsStay DEF Inv
  <2>2. CASE PollDone
    <3> USE <2>2 DEF PollDone, bentoVars, ethproofsVars
    <3>1. TypeOK'
      BY DEF Inv, TypeOK, Latest, MainPc
    <3>2. HeadInHand' /\ SessionInHand'
      BY DEF Inv, HeadInHand, SessionInHand, Working, InSession, Latest
    <3> QED
      BY <3>1, <3>2, ReportsStay DEF Inv
  <2>3. CASE PrepareInputPanics \/ PollPanics
    BY <2>3, EndInv DEF PrepareInputPanics, PollPanics, PanicsIn
  <2>4. CASE UploadFails \/ CreateFails \/ PollFails \/ StatusFails \/ DownloadFails
    BY <2>4, GiveUpInv DEF UploadFails, CreateFails, PollFails, StatusFails, DownloadFails
  <2> QED
    BY <1>3, <2>1, <2>2, <2>3, <2>4, UploadInv, CreateInv, DownloadInv DEF Works, Fails
<1>4. ASSUME NEW i \in 1..MaxHeads, SessionEnds(i) PROVE Inv'
  BY <1>4, SessionEndsInv
<1>5. ASSUME NEW report \in Reports, PostReport(report) PROVE Inv'
  BY <1>5, PostInv
<1>6. CASE UNCHANGED vars
  <2> USE <1>6 DEF vars, bentoVars, ethproofsVars
  <2>1. TypeOK'
    BY DEF Inv, TypeOK, Latest
  <2>2. HeadInHand' /\ SessionInHand'
    BY DEF Inv, HeadInHand, SessionInHand, Working, InSession, Latest
  <2> QED
    BY <2>1, <2>2, ReportsStay DEF Inv
<1> QED
  BY <1>1, <1>2, <1>3, <1>4, <1>5, <1>6 DEF Next, Ended

\* The invariant holds in every reachable state.
THEOREM Invariance == Spec => []Inv
BY InitInv, NextInv, PTL DEF Spec

\* Every variable keeps its type (main.rs:112-225).
THEOREM TypeCorrect == Spec => []TypeOK
<1>1. Inv => TypeOK
  BY DEF Inv
<1> QED
  BY <1>1, Invariance, PTL

\* A proof is reported of the target block it is a proof of, whatever sessions were
\* abandoned and left running (main.rs:182-209).
THEOREM ProofsMatch == Spec => []ProofIsOfItsBlock
<1>1. Inv => ProofIsOfItsBlock
  BY DEF Inv
<1> QED
  BY <1>1, Invariance, PTL
=============================================================================
