------------------------- MODULE CoordinatorProofs -------------------------
(***************************************************************************)
(* For every set of captures and submitters and every queue bound: the      *)
(* inductive invariant IInv of Coordinator, the safety properties it        *)
(* implies, and that the coordinator implements CaptureLine.  At the end    *)
(* the surfaces around it: an id names one capture while its process lives. *)
(***************************************************************************)
EXTENDS ReviewSurfaces, SequenceTheorems, TLAPS

USE CoordinatorAssumption, NoneAssumption DEF vars, queueVars, itemVars, workVars, threadVars, lineVars,
                              historyVars

(* The finished history never outgrows its type, whatever is cut off.        *)
LEMMA TruncateType ==
    ASSUME NEW S, NEW s \in Seq(S), NEW n \in Nat \ {0}
    PROVE  Truncate(s, n) \in Seq(S)
BY DEF Truncate

(* An enrichment request leaves a backlog of notes.                          *)
LEMMA EnqueuedType ==
    ASSUME backlog \in Seq(Notes), NEW n \in Notes
    PROVE  Enqueued(n) \in Seq(Notes)
BY DEF Enqueued

(* A coordinator that has just been built satisfies the invariant.            *)
LEMMA InitInv == Init => IInv
  <1> SUFFICES ASSUME Init PROVE IInv
    OBVIOUS
  <1>1. TypeOK
    <2>1. QueueTypes /\ ItemTypes
      BY DEF Init, QueueTypes, ItemTypes
    <2>2. WorkTypes /\ ThreadTypes
      BY DEF Init, WorkTypes, ThreadTypes
    <2>3. HistoryTypes
      BY DEF Init, HistoryTypes, Outcomes
    <2> QED
      BY <2>1, <2>2, <2>3 DEF Init, TypeOK, WorkerPoints
  <1>2. QueueMirror
    BY DEF Init, QueueMirror, Unshown, Taken, RequestAt
  <1>3. LockHeld /\ LastPut /\ OneWorker /\ WorkHeld /\ ShownIsProcessed
    BY DEF Init, LockHeld, LastPut, OneWorker, Alive, WorkHeld, ShownIsProcessed, Processing
  <1>4. WaitingOnce /\ DecisionStage /\ CommitOnlyApproved /\ SavedIsCommitted
    BY DEF Init, WaitingOnce, DecisionStage, CommitOnlyApproved, SavedIsCommitted, Undecided
  <1>5. Len(queue) <= MaxPending
    BY DEF Init
  <1> QED
    BY <1>1, <1>2, <1>3, <1>4, <1>5 DEF IInv

-----------------------------------------------------------------------------
(* What a step leaves alone keeps its type.                                  *)
LEMMA Frame ==
    /\ QueueTypes /\ UNCHANGED queueVars => QueueTypes'
    /\ ItemTypes /\ UNCHANGED itemVars => ItemTypes'
    /\ WorkTypes /\ UNCHANGED workVars => WorkTypes'
    /\ ThreadTypes /\ UNCHANGED threadVars => ThreadTypes'
    /\ HistoryTypes /\ UNCHANGED historyVars => HistoryTypes'
  BY DEF QueueTypes, ItemTypes, WorkTypes, ThreadTypes, HistoryTypes

(* A terminal stage is one of the outcomes.                                  *)
LEMMA FinishType ==
    ASSUME HistoryTypes, NEW r \in Finished, Finish(r), indexed' \subseteq Captures,
           UNCHANGED acked
    PROVE  HistoryTypes'
  BY DEF HistoryTypes, Finish, Finished, Outcomes

(* Submitting threads keep the types: a descriptor is of a capture.           *)
LEMMA SubmittingType ==
    ASSUME TypeOK, LockHeld, Submitting
    PROVE  TypeOK'
  <1>1. ASSUME NEW c \in Captures, SubmitNothing(c) PROVE TypeOK'
    BY <1>1, Frame DEF TypeOK, SubmitNothing, HistoryTypes, Outcomes
  <1>2. ASSUME NEW s \in Submitters, NEW c \in Captures, Submit(s, c) PROVE TypeOK'
    <2>1. QueueTypes'
      <3>1. CASE HasRoom
        <4>1. queue' = Append(queue, c) /\ itemsLock' = s
          BY <1>2, <3>1 DEF Submit
        <4>2. enqueuing' \in [Submitters -> Captures \cup {None}]
          BY <1>2, <3>1 DEF TypeOK, Submit, QueueTypes
        <4> QED
          BY <1>2, <4>1, <4>2 DEF TypeOK, Submit, QueueTypes
      <3>2. CASE ~HasRoom
        BY <1>2, <3>2, Frame DEF TypeOK, Submit
      <3> QED
        BY <3>1, <3>2
    <2>2. HistoryTypes'
      BY <1>2 DEF TypeOK, Submit, HistoryTypes, Outcomes
    <2> QED
      BY <1>2, <2>1, <2>2, Frame DEF TypeOK, Submit
  <1>3. ASSUME NEW s \in Submitters, Describe(s) PROVE TypeOK'
    <2>1. [id |-> nextId, cap |-> enqueuing[s]] \in Item
      BY <1>3 DEF TypeOK, QueueTypes, LockHeld, Describe, Item
    <2>2. QueueTypes'
      BY <1>3, <2>1 DEF TypeOK, QueueTypes, Describe, Described
    <2> QED
      BY <1>3, <2>2, Frame DEF TypeOK, Describe
  <1> QED
    BY <1>1, <1>2, <1>3 DEF Submitting

(* How the worker's steps keep the types; request and the in-flight item are  *)
(* there when a step needs them because of WorkHeld.                          *)
LEMMA WorkerType ==
    ASSUME TypeOK, LockHeld, WorkHeld, Worker
    PROVE  TypeOK'
  <1>1. ASSUME LoopTop PROVE TypeOK'
    BY <1>1, Frame DEF TypeOK, LoopTop, WorkerPoints
  <1>2. ASSUME Get PROVE TypeOK'
    <2>1. queue \in Seq(Captures) /\ queue # <<>>
      BY <1>2 DEF TypeOK, QueueTypes, Get
    <2>2. Head(queue) \in Captures /\ Tail(queue) \in Seq(Captures)
      BY <2>1
    <2>3. QueueTypes'
      BY <1>2, <2>2 DEF TypeOK, QueueTypes, Get
    <2>4. WorkTypes'
      BY <1>2, <2>2 DEF TypeOK, WorkTypes, Get
    <2> QED
      BY <1>2, <2>3, <2>4, Frame DEF TypeOK, Get, WorkerPoints
  <1>3. ASSUME GetTimeout PROVE TypeOK'
    BY <1>3, Frame DEF TypeOK, GetTimeout, WorkerPoints
  <1>4. ASSUME Begin PROVE TypeOK'
    <2>1. request \in Captures /\ nextId \in Nat \ {0} /\ queuedItems \in Seq(Item)
      BY <1>4 DEF TypeOK, WorkTypes, QueueTypes, Begin, WorkHeld
    <2>2. inflight' \in Item /\ queuedItems' \in Seq(Item) /\ nextId' \in Nat \ {0}
      <3>1. CASE queuedItems # <<>>
        BY <1>4, <2>1, <3>1 DEF Begin, TakeFirst
      <3>2. CASE queuedItems = <<>>
        <4>1. [id |-> nextId, cap |-> request] \in Item
          BY <2>1 DEF Item
        <4> QED
          BY <1>4, <2>1, <3>2, <4>1 DEF Begin
      <3> QED
        BY <3>1, <3>2
    <2>3. QueueTypes'
      BY <1>4, <2>2 DEF TypeOK, QueueTypes, Begin
    <2>4. ItemTypes'
      BY <1>4, <2>2 DEF TypeOK, ItemTypes, Begin
    <2> QED
      BY <1>4, <2>3, <2>4, Frame DEF TypeOK, Begin, WorkerPoints
  <1>5. ASSUME Analyze PROVE TypeOK'
    <2>1. WorkTypes' /\ HistoryTypes' /\ pc' \in WorkerPoints
      <3>1. CASE kind' \in {"note", "event"} /\ pc' = "park" /\ UNCHANGED outcome
        BY <1>5, <3>1, Frame DEF TypeOK, WorkTypes, Analyze, WorkerPoints
      <3>2. CASE Finish("failed") /\ pc' = "end" /\ UNCHANGED kind
        BY <1>5, <3>2, Frame, FinishType
           DEF TypeOK, Analyze, WorkerPoints, HistoryTypes, Finished
      <3> QED
        BY <1>5, <3>1, <3>2 DEF Analyze
    <2> QED
      BY <1>5, <2>1, Frame DEF TypeOK, Analyze
  <1>6. ASSUME Park PROVE TypeOK'
    <2>1. inflight \in Item
      BY <1>6 DEF TypeOK, ItemTypes, WorkHeld, Park, Processing
    <2>2. [id |-> inflight.id, cap |-> inflight.cap, set |-> FALSE, approved |-> FALSE]
              \in Parked
      BY <2>1 DEF Item, Parked
    <2>3. HistoryTypes'
      BY <1>6, Frame, FinishType DEF TypeOK, Park, HistoryTypes, Finished
    <2>4. approved' \in BOOLEAN /\ pc' \in WorkerPoints /\ decision' \in Parked \cup {None}
      BY <1>6, <2>2 DEF TypeOK, WorkTypes, Park, WorkerPoints
    <2>5. WorkTypes'
      BY <1>6, <2>4 DEF TypeOK, WorkTypes, Park
    <2> QED
      BY <1>6, <2>3, <2>4, <2>5, Frame DEF TypeOK, Park
  <1>7. ASSUME Check PROVE TypeOK'
    <2>1. WorkTypes' /\ pc' \in WorkerPoints
      BY <1>7 DEF TypeOK, WorkTypes, Check, LeaveOrWait, WorkerPoints
    <2> QED
      BY <1>7, <2>1, Frame DEF TypeOK, Check
  <1>8. ASSUME Wait PROVE TypeOK'
    <2>1. decision \in Parked
      BY <1>8 DEF TypeOK, WorkHeld, Wait
    <2>2. decision.approved \in BOOLEAN
      BY <2>1 DEF Parked
    <2>3. WorkTypes' /\ pc' \in WorkerPoints
      BY <1>8, <2>2 DEF TypeOK, WorkTypes, Wait, WorkerPoints
    <2> QED
      BY <1>8, <2>3, Frame DEF TypeOK, Wait
  <1>9. ASSUME Resolved PROVE TypeOK'
    <2>1. HistoryTypes' /\ pc' \in WorkerPoints
      BY <1>9, Frame, FinishType DEF TypeOK, Resolved, HistoryTypes, Finished, WorkerPoints
    <2> QED
      BY <1>9, <2>1, Frame DEF TypeOK, Resolved
  <1>10. ASSUME Commit PROVE TypeOK'
    <2>1. request \in Captures
      BY <1>10 DEF TypeOK, WorkTypes, Commit, WorkHeld, Processing
    <2>2. indexed' \subseteq Captures /\ pc' \in WorkerPoints
      BY <1>10, <2>1 DEF TypeOK, HistoryTypes, Commit, Record, WorkerPoints
    <2>3. HistoryTypes'
      <3>1. CASE UNCHANGED outcome
        BY <1>10, <2>2, <3>1 DEF TypeOK, HistoryTypes, Commit
      <3>2. CASE \E r \in {"saved", "failed"} : Finish(r)
        BY <1>10, <2>2, <3>2, FinishType DEF TypeOK, Commit, Finished
      <3> QED
        BY <1>10, <3>1, <3>2 DEF Commit
    <2> QED
      BY <1>10, <2>2, <2>3, Frame DEF TypeOK, Commit
  <1>11. ASSUME Write PROVE TypeOK'
    <2>1. HistoryTypes' /\ pc' \in WorkerPoints
      BY <1>11, FinishType DEF TypeOK, Write, HistoryTypes, Finished, WorkerPoints
    <2> QED
      BY <1>11, <2>1, Frame DEF TypeOK, Write
  <1>12. ASSUME AfterCommit PROVE TypeOK'
    <2>1. request \in Captures
      BY <1>12 DEF TypeOK, WorkTypes, AfterCommit, WorkHeld, Processing
    <2>2. Enqueued(NoteOf[request]) \in Seq(Notes)
      BY <2>1, EnqueuedType DEF TypeOK
    <2>3. backlog' \in Seq(Notes)
      BY <1>12, <2>2 DEF TypeOK, AfterCommit
    <2>4. HistoryTypes'
      BY <1>12, Frame, FinishType DEF TypeOK, AfterCommit, HistoryTypes, Finished
    <2> QED
      BY <1>12, <2>3, <2>4, Frame DEF TypeOK, AfterCommit, WorkerPoints
  <1>13. ASSUME EndInflight PROVE TypeOK'
    <2>1. inflight \in Item /\ recent \in Seq(Item)
      BY <1>13 DEF TypeOK, ItemTypes, EndInflight, WorkHeld, Processing
    <2>2. <<inflight>> \o recent \in Seq(Item)
      BY <2>1
    <2>3. recent' \in Seq(Item)
      BY <1>13, <2>2, TruncateType DEF EndInflight, RetireItem
    <2>4. ItemTypes' /\ WorkTypes'
      BY <1>13, <2>3 DEF TypeOK, ItemTypes, WorkTypes, EndInflight, RetireItem
    <2> QED
      BY <1>13, <2>4, Frame DEF TypeOK, EndInflight, WorkerPoints
  <1>14. ASSUME Idle PROVE TypeOK'
    BY <1>14, Frame DEF TypeOK, Idle, WorkerPoints
  <1>15. ASSUME Enrich PROVE TypeOK'
    <2>1. backlog' \in Seq(Notes)
      BY <1>15 DEF TypeOK, Enrich, NextTurn, TakeJob
    <2>2. overtaken' \in Nat
      BY <1>15 DEF TypeOK, Enrich, NextTurn
    <2> QED
      BY <1>15, <2>1, <2>2, Frame DEF TypeOK, Enrich, NextTurn, WorkerPoints
  <1> QED
    BY <1>1, <1>2, <1>3, <1>4, <1>5, <1>6, <1>7, <1>8, <1>9, <1>10, <1>11, <1>12, <1>13,
       <1>14, <1>15 DEF Worker

(* So do the surfaces' answers and start() and stop().                        *)
LEMMA ControlType ==
    ASSUME TypeOK, Decide \/ Controller
    PROVE  TypeOK'
  <1>1. ASSUME NEW ok \in BOOLEAN, decision # None, Resolve(decision.id, ok) PROVE TypeOK'
    <2>1. decision \in Parked /\ decision.cap \in Captures
      BY <1>1 DEF TypeOK, Parked
    <2>2. decision' \in Parked
      BY <1>1, <2>1 DEF Resolve, ResolvedWith, Parked
    <2>3. HistoryTypes'
      BY <1>1, <2>1 DEF TypeOK, Resolve, HistoryTypes
    <2> QED
      BY <1>1, <2>2, <2>3, Frame DEF TypeOK, Resolve
  <1>2. ASSUME Start PROVE TypeOK'
    <2>1. ThreadTypes' /\ pc' \in WorkerPoints
      BY <1>2 DEF TypeOK, ThreadTypes, Start, WorkerPoints
    <2> QED
      BY <1>2, <2>1, Frame DEF TypeOK, Start
  <1>3. ASSUME Stop PROVE TypeOK'
    <2>1. ThreadTypes'
      BY <1>3 DEF TypeOK, ThreadTypes, Stop
    <2> QED
      BY <1>3, <2>1, Frame DEF TypeOK, Stop
  <1>4. ASSUME StopSignal PROVE TypeOK'
    <2>1. ThreadTypes'
      BY <1>4 DEF TypeOK, ThreadTypes, StopSignal
    <2>2. decision' \in Parked \cup {None}
      BY <1>4 DEF TypeOK, StopSignal, Parked
    <2> QED
      BY <1>4, <2>1, <2>2, Frame DEF TypeOK, StopSignal
  <1>5. ASSUME StopJoin PROVE TypeOK'
    <2>1. ThreadTypes'
      BY <1>5 DEF TypeOK, ThreadTypes, StopJoin, KeepRef, Alive
    <2> QED
      BY <1>5, <2>1, Frame DEF TypeOK, StopJoin
  <1> QED
    BY <1>1, <1>2, <1>3, <1>4, <1>5 DEF Decide, Controller

-----------------------------------------------------------------------------
(* What each thread leaves alone.                                            *)
LEMMA SubmittingLeaves ==
    ASSUME Submitting
    PROVE  UNCHANGED <<itemVars, pc, workVars, decision, threadVars, backlog, indexed, acked>>
  <1>1. ASSUME NEW c \in Captures, SubmitNothing(c)
        PROVE  UNCHANGED <<itemVars, pc, workVars, decision, threadVars, backlog, indexed, acked>>
    BY <1>1 DEF SubmitNothing
  <1>2. ASSUME NEW s \in Submitters, NEW c \in Captures, Submit(s, c)
        PROVE  UNCHANGED <<itemVars, pc, workVars, decision, threadVars, backlog, indexed, acked>>
    BY <1>2 DEF Submit
  <1>3. ASSUME NEW s \in Submitters, Describe(s)
        PROVE  UNCHANGED <<itemVars, pc, workVars, decision, threadVars, backlog, indexed, acked>>
    BY <1>3 DEF Describe
  <1> QED
    BY <1>1, <1>2, <1>3 DEF Submitting

(* Answers, start() and stop() touch neither queue nor item nor outcome.      *)
LEMMA ControlLeaves ==
    ASSUME Decide \/ Controller
    PROVE  UNCHANGED <<queueVars, itemVars, workVars, outcome, indexed>>
  <1>1. CASE Decide
    BY <1>1 DEF Decide, Resolve
  <1>2. CASE Controller
    BY <1>2 DEF Controller, Start, Stop, StopSignal, StopJoin
  <1> QED
    BY <1>1, <1>2

(* The worker leaves the lock, the stop flag and the answers alone.           *)
LEMMA WorkerLeaves ==
    ASSUME Worker
    PROVE  UNCHANGED <<itemsLock, enqueuing, threadVars, acked>>
  <1>1. CASE LoopTop \/ Get \/ GetTimeout \/ Begin
    BY <1>1 DEF LoopTop, Get, GetTimeout, Begin
  <1>2. CASE Analyze \/ Park \/ Check \/ Wait \/ Resolved
    BY <1>2 DEF Analyze, Park, Check, Wait, Resolved
  <1>3. CASE Commit \/ Write \/ AfterCommit
    BY <1>3 DEF Commit, Write, AfterCommit
  <1>4. CASE EndInflight \/ Idle \/ Enrich
    BY <1>4 DEF EndInflight, Idle, Enrich, NextTurn
  <1> QED
    BY <1>1, <1>2, <1>3, <1>4 DEF Worker

\* The worker's steps once it has described the request, and those before it
\* takes one: they leave the queue and its view alone.
Beyond == \/ LoopTop \/ GetTimeout \/ Analyze \/ Park \/ Check \/ Wait \/ Resolved
          \/ Commit \/ Write \/ AfterCommit \/ EndInflight \/ Idle \/ Enrich

(* All worker steps but Get and Begin leave queue and view alone.             *)
LEMMA BeyondLeaves ==
    ASSUME Beyond
    PROVE  UNCHANGED queueVars /\ pc # "begin" /\ pc' # "begin"
  <1>1. CASE LoopTop \/ GetTimeout
    BY <1>1 DEF LoopTop, GetTimeout
  <1>2. CASE Analyze \/ Park \/ Check \/ Wait \/ Resolved
    <2>1. CASE Analyze
      BY <2>1 DEF Analyze
    <2>2. CASE Park
      BY <2>2 DEF Park
    <2>3. CASE Check \/ Wait \/ Resolved
      BY <2>3 DEF Check, LeaveOrWait, Wait, Resolved
    <2> QED
      BY <1>2, <2>1, <2>2, <2>3
  <1>3. CASE Commit \/ Write \/ AfterCommit
    BY <1>3 DEF Commit, Write, AfterCommit
  <1>4. CASE EndInflight \/ Idle \/ Enrich
    BY <1>4 DEF EndInflight, Idle, Enrich, NextTurn
  <1> QED
    BY <1>1, <1>2, <1>3, <1>4 DEF Beyond

(* The lock is held exactly between the two steps of _enqueue.                *)
LEMMA LockStep ==
    ASSUME TypeOK, LockHeld, Next
    PROVE  LockHeld'
  <1>1. ASSUME NEW c \in Captures, SubmitNothing(c) PROVE LockHeld'
    BY <1>1 DEF SubmitNothing, LockHeld
  <1>2. ASSUME NEW s \in Submitters, NEW c \in Captures, Submit(s, c) PROVE LockHeld'
    <2>1. CASE HasRoom
      <3>1. /\ itemsLock' = s /\ enqueuing' = [enqueuing EXCEPT ![s] = c]
            /\ itemsLock = None
        BY <1>2, <2>1 DEF Submit
      <3> QED
        BY <3>1 DEF LockHeld, TypeOK, QueueTypes
    <2>2. CASE ~HasRoom
      BY <1>2, <2>2 DEF Submit, LockHeld
    <2> QED
      BY <2>1, <2>2
  <1>3. ASSUME NEW s \in Submitters, Describe(s) PROVE LockHeld'
    BY <1>3 DEF Describe, LockHeld, TypeOK, QueueTypes
  <1>4. CASE Worker \/ Decide \/ Controller
    <2>1. UNCHANGED <<itemsLock, enqueuing>>
      BY <1>4, WorkerLeaves, ControlLeaves
    <2> QED
      BY <2>1 DEF LockHeld
  <1> QED
    BY <1>1, <1>2, <1>3, <1>4 DEF Next, Submitting

(* A thread that runs stays referenced: start() can always find it.           *)
LEMMA OneWorkerStep ==
    ASSUME OneWorker, Next
    PROVE  OneWorker'
  <1>1. CASE Submitting
    BY <1>1, SubmittingLeaves DEF OneWorker, Alive
  <1>2. CASE Worker
    <2>1. pc # "dead" /\ UNCHANGED threadRef
      <3>1. UNCHANGED threadRef
        BY <1>2, WorkerLeaves
      <3>2. CASE LoopTop \/ Get \/ GetTimeout \/ Begin
        BY <3>1, <3>2 DEF LoopTop, Get, GetTimeout, Begin
      <3>3. CASE Analyze \/ Park \/ Check \/ Wait \/ Resolved
        BY <3>1, <3>3 DEF Analyze, Park, Check, Wait, Resolved
      <3>4. CASE Commit \/ Write \/ AfterCommit
        BY <3>1, <3>4 DEF Commit, Write, AfterCommit
      <3>5. CASE EndInflight \/ Idle \/ Enrich
        BY <3>1, <3>5 DEF EndInflight, Idle, Enrich, NextTurn
      <3> QED
        BY <1>2, <3>2, <3>3, <3>4, <3>5 DEF Worker
    <2> QED
      BY <2>1 DEF OneWorker, Alive
  <1>3. CASE Decide
    BY <1>3 DEF OneWorker, Alive, Decide, Resolve
  <1>4. CASE Controller
    BY <1>4 DEF OneWorker, Alive, Controller, Start, Stop, StopSignal, StopJoin, KeepRef
  <1> QED
    BY <1>1, <1>2, <1>3, <1>4 DEF Next

-----------------------------------------------------------------------------
(* The worker has a request and an in-flight item exactly while processing.   *)
LEMMA WorkHeldStep ==
    ASSUME TypeOK, WorkHeld, OneWorker, Next
    PROVE  WorkHeld'
  <1> USE DEF WorkHeld, Processing
  <1>1. CASE Submitting
    BY <1>1, SubmittingLeaves
  <1>2. CASE LoopTop \/ GetTimeout \/ Idle \/ Enrich
    BY <1>2 DEF LoopTop, GetTimeout, Idle, Enrich, NextTurn
  <1>3. CASE Get
    <2>1. queue \in Seq(Captures) /\ queue # <<>>
      BY <1>3 DEF TypeOK, QueueTypes, Get
    <2>2. request' # None
      BY <1>3, <2>1 DEF Get
    <2> QED
      BY <1>3, <2>2 DEF Get
  <1>4. CASE Begin
    <2>1. inflight' # None
      <3>1. None \notin Item /\ queuedItems \in Seq(Item)
        BY DEF TypeOK, QueueTypes
      <3>2. CASE queuedItems # <<>>
        BY <1>4, <3>1, <3>2 DEF Begin, TakeFirst
      <3>3. CASE queuedItems = <<>>
        <4>1. [id |-> nextId, cap |-> request] \in Item
          BY <1>4 DEF TypeOK, WorkTypes, QueueTypes, Begin, Item
        <4> QED
          BY <1>4, <3>1, <3>3, <4>1 DEF Begin
      <3> QED
        BY <3>2, <3>3
    <2> QED
      BY <1>4, <2>1 DEF Begin
  <1>5. CASE Analyze
    BY <1>5 DEF Analyze
  <1>6. CASE Park
    <2>1. pc' \in {"check", "resolved", "end"} /\ UNCHANGED <<request, inflight>>
      BY <1>6 DEF Park
    <2>2. CASE decision' = decision /\ pc' # "check"
      BY <1>6, <2>1, <2>2 DEF Park
    <2>3. CASE decision' # decision \/ pc' = "check"
      <3>1. inflight \in Item
        BY <1>6 DEF TypeOK, ItemTypes, Park
      <3>2. [id |-> inflight.id, cap |-> inflight.cap, set |-> FALSE, approved |-> FALSE]
                \in Parked
        BY <3>1 DEF Item, Parked
      <3>3. decision' # None /\ pc' = "check"
        BY <1>6, <2>3, <3>2 DEF Park
      <3> QED
        BY <1>6, <2>1, <3>3 DEF Park
    <2> QED
      BY <2>2, <2>3
  <1>7. CASE Check \/ Wait
    BY <1>7 DEF Check, LeaveOrWait, Wait
  <1>8. CASE Resolved \/ Commit \/ Write \/ AfterCommit
    BY <1>8 DEF Resolved, Commit, Write, AfterCommit
  <1>9. CASE EndInflight
    BY <1>9 DEF EndInflight, RetireItem
  <1>10. CASE Decide
    <2>1. decision # None /\ decision \in Parked
      BY <1>10 DEF TypeOK, Decide
    <2>2. decision' \in Parked
      BY <1>10, <2>1 DEF Decide, Resolve, ResolvedWith, Parked
    <2>3. UNCHANGED <<pc, request, inflight>>
      BY <1>10 DEF Decide, Resolve
    <2> QED
      BY <2>1, <2>2, <2>3
  <1>11. CASE Controller
    <2>1. UNCHANGED <<request, inflight>>
      BY <1>11, ControlLeaves
    <2>2. CASE Start
      BY <2>1, <2>2 DEF OneWorker, Alive, Start
    <2>3. CASE Stop \/ StopJoin
      BY <2>1, <2>3 DEF Stop, StopJoin
    <2>4. CASE StopSignal
      <3>1. decision # None => decision' \in Parked
        BY <2>4 DEF TypeOK, StopSignal, Parked
      <3>2. decision = None => decision' = None
        BY <2>4 DEF StopSignal
      <3> QED
        BY <2>1, <2>4, <3>1, <3>2 DEF StopSignal
    <2> QED
      BY <1>11, <2>2, <2>3, <2>4 DEF Controller
  <1> QED
    BY <1>1, <1>2, <1>3, <1>4, <1>5, <1>6, <1>7, <1>8, <1>9, <1>10, <1>11 DEF Next, Worker

-----------------------------------------------------------------------------
(* The queue view stays in step with the queue.                              *)
LEMMA BeginTakesOwn ==
    ASSUME TypeOK, QueueMirror, Begin
    PROVE  /\ queuedItems # <<>>
           /\ inflight' = Head(queuedItems) /\ queuedItems' = Tail(queuedItems)
           /\ inflight'.cap = request
  <1>1. Len(queuedItems) = 1 + Len(queue) /\ queuedItems \in Seq(Item) /\ queue \in Seq(Captures)
    BY DEF TypeOK, QueueTypes, QueueMirror, Begin, Unshown, Taken
  <1>2. queuedItems # <<>> /\ 1 \in 1..Len(queuedItems)
    BY <1>1
  <1>3. queuedItems[1].cap = request
    BY <1>2 DEF QueueMirror, Begin, Taken, RequestAt
  <1> QED
    BY <1>1, <1>2, <1>3 DEF Begin, TakeFirst

(* Every step keeps the queue view in step with the queue.                    *)
LEMMA MirrorStep ==
    ASSUME TypeOK, QueueMirror, LastPut, LockHeld, WorkHeld, OneWorker, Next
    PROVE  QueueMirror' /\ LastPut'
  <1>0. /\ queue \in Seq(Captures) /\ queuedItems \in Seq(Item)
        /\ Len(queue) \in Nat /\ Len(queuedItems) \in Nat
        /\ Unshown \in {0, 1} /\ Taken \in {0, 1}
    BY DEF TypeOK, QueueTypes, Unshown, Taken
  <1>1. ASSUME NEW c \in Captures, SubmitNothing(c) PROVE QueueMirror' /\ LastPut'
    BY <1>1 DEF SubmitNothing, QueueMirror, LastPut, Unshown, Taken, RequestAt
  <1>2. ASSUME NEW s \in Submitters, NEW c \in Captures, Submit(s, c)
        PROVE  QueueMirror' /\ LastPut'
    <2>1. CASE HasRoom
      <3>1. /\ queue' = Append(queue, c) /\ itemsLock' = s /\ itemsLock = None
            /\ enqueuing' = [enqueuing EXCEPT ![s] = c]
            /\ UNCHANGED <<queuedItems, request, pc>>
        BY <1>2, <2>1 DEF Submit
      <3>2. Len(queue') = Len(queue) + 1 /\ Unshown = 0 /\ Unshown' = 1 /\ Taken' = Taken
        BY <1>0, <3>1 DEF Unshown, Taken
      <3>3. Len(queuedItems) = Taken + Len(queue)
        BY <1>0, <3>2 DEF QueueMirror
      <3>4. \A i \in 1..Len(queuedItems) : RequestAt(i - Taken)' = RequestAt(i - Taken)
        BY <1>0, <3>1, <3>2, <3>3 DEF RequestAt
      <3>5. QueueMirror'
        BY <1>0, <3>1, <3>2, <3>3, <3>4 DEF QueueMirror
      <3>6. enqueuing'[s] = c
        BY <3>1 DEF TypeOK, QueueTypes
      <3>7. LastPut'
        BY <1>0, <3>1, <3>2, <3>6 DEF LastPut, RequestAt
      <3> QED
        BY <3>5, <3>7
    <2>2. CASE ~HasRoom
      BY <1>2, <2>2 DEF Submit, QueueMirror, LastPut, Unshown, Taken, RequestAt
    <2> QED
      BY <2>1, <2>2
  <1>3. ASSUME NEW s \in Submitters, Describe(s) PROVE QueueMirror' /\ LastPut'
    <2> DEFINE item == [id |-> nextId, cap |-> enqueuing[s]]
    <2>1. /\ queuedItems' = Append(queuedItems, item) /\ itemsLock = s /\ itemsLock' = None
          /\ UNCHANGED <<queue, request, pc>>
      BY <1>3 DEF Describe, Described
    <2>2. item \in Item /\ item.cap = enqueuing[s]
      BY <2>1 DEF TypeOK, QueueTypes, LockHeld, Item
    <2> HIDE DEF item
    <2>3. Unshown = 1 /\ Unshown' = 0 /\ Taken' = Taken
      BY <2>1 DEF Unshown, Taken
    <2>4. Len(queuedItems) + 1 = Taken + Len(queue)
      BY <1>0, <2>3 DEF QueueMirror
    <2>5. RequestAt(Len(queue)) = item.cap
      BY <2>1, <2>2 DEF LastPut
    <2>6. Len(queuedItems') = Len(queuedItems) + 1
      BY <1>0, <2>1, <2>2
    <2>7. ASSUME NEW i \in 1..Len(queuedItems')
          PROVE  queuedItems'[i].cap = RequestAt(i - Taken)
      <3>1. CASE i = Len(queuedItems) + 1
        BY <1>0, <2>1, <2>2, <2>4, <2>5, <3>1
      <3>2. CASE i \in 1..Len(queuedItems)
        BY <1>0, <2>1, <2>2, <3>2 DEF QueueMirror
      <3> QED
        BY <1>0, <2>6, <3>1, <3>2
    <2>8. \A i : RequestAt(i)' = RequestAt(i)
      BY <2>1 DEF RequestAt
    <2>9. QueueMirror'
      BY <1>0, <2>1, <2>3, <2>4, <2>6, <2>7, <2>8 DEF QueueMirror
    <2> QED
      BY <2>1, <2>9 DEF LastPut
  <1>4. CASE Get
    <2>1. /\ queue # <<>> /\ queue' = Tail(queue) /\ request' = Head(queue)
          /\ pc = "get" /\ pc' = "begin" /\ UNCHANGED <<queuedItems, itemsLock, enqueuing>>
      BY <1>4 DEF Get
    <2>2. Len(queue') = Len(queue) - 1 /\ Taken = 0 /\ Taken' = 1 /\ Unshown' = Unshown
      BY <1>0, <2>1 DEF Taken, Unshown
    <2>3. \A i \in 1..Len(queue) : RequestAt(i - 1)' = RequestAt(i)
      BY <1>0, <2>1 DEF RequestAt
    <2>4. QueueMirror'
      BY <1>0, <2>1, <2>2, <2>3 DEF QueueMirror
    <2>5. LastPut'
      BY <1>0, <2>1, <2>2, <2>3 DEF LastPut
    <2> QED
      BY <2>4, <2>5
  <1>5. CASE Begin
    <2>1. queuedItems' = Tail(queuedItems) /\ queuedItems # <<>>
      BY <1>5, BeginTakesOwn
    <2>2. /\ itemsLock = None /\ pc = "begin" /\ pc' = "analyze"
          /\ UNCHANGED <<queue, itemsLock, request>>
      BY <1>5 DEF Begin
    <2>3. Taken = 1 /\ Taken' = 0 /\ Unshown = 0 /\ Unshown' = 0
      BY <2>2 DEF Taken, Unshown
    <2>4. \A i \in 1..Len(queuedItems') : queuedItems'[i] = queuedItems[i + 1]
      BY <1>0, <2>1
    <2>5. Len(queuedItems') = Len(queuedItems) - 1
      BY <1>0, <2>1
    <2>6. \A i : RequestAt(i)' = RequestAt(i)
      BY <2>2 DEF RequestAt
    <2>7. QueueMirror'
      BY <1>0, <2>2, <2>3, <2>4, <2>5, <2>6 DEF QueueMirror
    <2> QED
      BY <2>2, <2>7 DEF LastPut
  <1>6. CASE Beyond
    <2>1. UNCHANGED queueVars /\ Taken = 0 /\ Taken' = 0 /\ Unshown' = Unshown
      BY <1>6, BeyondLeaves DEF Taken, Unshown
    <2>2. \A i \in 1..Len(queue) : RequestAt(i)' = RequestAt(i)
      BY <1>0, <2>1 DEF RequestAt
    <2>3. QueueMirror'
      BY <1>0, <2>1, <2>2 DEF QueueMirror
    <2>4. LastPut'
      BY <1>0, <2>1, <2>2 DEF LastPut, QueueMirror, Unshown
    <2> QED
      BY <2>3, <2>4
  <1>7. CASE Decide \/ Controller
    <2>1. UNCHANGED <<queueVars, request>>
      BY <1>7, ControlLeaves
    <2>2. Taken' = Taken
      <3>1. CASE Decide
        BY <3>1 DEF Decide, Resolve, Taken
      <3>2. CASE Controller
        BY <3>2 DEF Controller, Start, Stop, StopSignal, StopJoin, Taken, OneWorker, Alive
      <3> QED
        BY <1>7, <3>1, <3>2
    <2> QED
      BY <2>1, <2>2 DEF QueueMirror, LastPut, Unshown, RequestAt
  <1> QED
    BY <1>1, <1>2, <1>3, <1>4, <1>5, <1>6, <1>7 DEF Next, Submitting, Worker, Beyond

-----------------------------------------------------------------------------
(* What is shown in flight and offered for review is what is processed.      *)
LEMMA ShownStep ==
    ASSUME TypeOK, WorkHeld, OneWorker, QueueMirror, ShownIsProcessed, Next
    PROVE  ShownIsProcessed'
  <1> USE DEF ShownIsProcessed, Processing, WorkHeld
  <1>1. CASE Submitting
    BY <1>1, SubmittingLeaves
  <1>2. CASE LoopTop \/ GetTimeout \/ Idle \/ Enrich
    BY <1>2 DEF LoopTop, GetTimeout, Idle, Enrich, NextTurn
  <1>3. CASE Get
    BY <1>3 DEF Get
  <1>4. CASE Begin
    <2>1. inflight'.cap = request /\ queuedItems # <<>> /\ inflight' = Head(queuedItems)
      BY <1>4, BeginTakesOwn
    <2>2. inflight' \in Item
      BY <2>1 DEF TypeOK, QueueTypes
    <2> QED
      BY <1>4, <2>1, <2>2 DEF Begin
  <1>5. CASE Analyze
    BY <1>5 DEF Analyze
  <1>6. CASE Park
    <2>1. inflight \in Item /\ inflight.cap = request
      BY <1>6 DEF TypeOK, ItemTypes, Park
    <2>2. inflight = [id |-> inflight.id, cap |-> inflight.cap]
      BY <2>1 DEF Item
    <2>3. UNCHANGED <<request, inflight>>
      BY <1>6 DEF Park
    <2>4. decision' = decision \/ (decision'.id = inflight.id /\ decision'.cap = inflight.cap)
      BY <1>6 DEF Park
    <2>5. decision = None
      BY <1>6 DEF Park
    <2> QED
      BY <1>6, <2>1, <2>2, <2>3, <2>4, <2>5
  <1>7. CASE Check \/ Wait
    BY <1>7 DEF Check, LeaveOrWait, Wait
  <1>8. CASE Resolved \/ Commit \/ Write \/ AfterCommit
    BY <1>8 DEF Resolved, Commit, Write, AfterCommit
  <1>9. CASE EndInflight
    BY <1>9 DEF EndInflight, RetireItem
  <1>10. CASE Decide
    <2>1. decision # None /\ decision \in Parked
      BY <1>10 DEF TypeOK, Decide
    <2>2. decision'.id = decision.id /\ decision'.cap = decision.cap
      BY <1>10, <2>1 DEF Decide, Resolve, ResolvedWith, Parked
    <2>3. UNCHANGED <<pc, request, inflight>>
      BY <1>10 DEF Decide, Resolve
    <2> QED
      BY <2>1, <2>2, <2>3
  <1>11. CASE Controller
    <2>1. UNCHANGED <<request, inflight>>
      BY <1>11, ControlLeaves
    <2>2. CASE Start
      BY <2>1, <2>2 DEF OneWorker, Alive, Start
    <2>3. CASE Stop \/ StopJoin
      BY <2>1, <2>3 DEF Stop, StopJoin
    <2>4. CASE StopSignal
      <3>1. decision # None => decision'.id = decision.id /\ decision'.cap = decision.cap
        BY <2>4 DEF TypeOK, StopSignal, Parked
      <3>2. decision = None => decision' = None
        BY <2>4 DEF StopSignal
      <3> QED
        BY <2>1, <2>4, <3>1, <3>2 DEF StopSignal
    <2> QED
      BY <1>11, <2>2, <2>3, <2>4 DEF Controller
  <1> QED
    BY <1>1, <1>2, <1>3, <1>4, <1>5, <1>6, <1>7, <1>8, <1>9, <1>10, <1>11 DEF Next, Worker

-----------------------------------------------------------------------------
(* Steps that settle nothing: only pc, and not into or out of a stage with a  *)
(* different promise about the request.                                       *)
Bookkeeping == LoopTop \/ GetTimeout \/ Begin \/ Check \/ Wait \/ Idle \/ Enrich

(* Bookkeeping steps settle nothing and record nothing.                       *)
LEMMA BookkeepingLeaves ==
    ASSUME Bookkeeping
    PROVE  /\ UNCHANGED <<queue, request, historyVars>>
           /\ \/ pc \in Undecided /\ pc' \in Undecided \ {"commit", "write"}
                 /\ pc \notin {"commit", "write"}
              \/ pc \in {"top", "get", "idle", "enrich"}
                 /\ pc' \in {"dead", "top", "get", "idle", "enrich"}
  <1> USE DEF Undecided
  <1>1. CASE LoopTop \/ GetTimeout \/ Idle \/ Enrich
    BY <1>1 DEF LoopTop, GetTimeout, Idle, Enrich, NextTurn
  <1>2. CASE Begin
    BY <1>2 DEF Begin
  <1>3. CASE Check \/ Wait
    BY <1>3 DEF Check, LeaveOrWait, Wait
  <1> QED
    BY <1>1, <1>2, <1>3 DEF Bookkeeping

(* A capture not yet sent is nowhere in the coordinator.                      *)
LEMMA UnsentIsNowhere ==
    ASSUME TypeOK, WorkHeld, WaitingOnce, NEW c \in Captures, outcome[c] = "unsent"
    PROVE  /\ c # request /\ c \notin indexed
           /\ \A i \in 1..Len(queue) : queue[i] # c
  <1>1. CASE request = None
    BY <1>1 DEF WaitingOnce
  <1>2. CASE request # None
    <2>1. outcome[request] # "unsent"
      BY <1>2 DEF WorkHeld, WaitingOnce, Processing, Undecided, Finished
    <2> QED
      BY <2>1 DEF WaitingOnce
  <1> QED
    BY <1>1, <1>2

(* A capture the worker settles was waiting in no other place.                *)
LEMMA SettleStep ==
    ASSUME TypeOK, WaitingOnce, request \in Captures, NEW r \in Finished, Finish(r),
           UNCHANGED <<queue, request>>, indexed' \in {indexed, indexed \cup {request}},
           pc' \in {"after", "end"},
           pc' = "after" => r = "saved" /\ request \in indexed'
    PROVE  WaitingOnce'
  <1>1. outcome'[request] = r /\ \A c \in Captures : c # request => outcome'[c] = outcome[c]
    BY DEF Finish, TypeOK, HistoryTypes
  <1>2. \A i \in 1..Len(queue) : queue[i] \in Captures
    BY DEF TypeOK, QueueTypes
  <1>3. r \notin {"waiting", "unsent", "empty", "rejected"}
    BY DEF Finished
  <1>4. indexed \subseteq Captures
    BY DEF TypeOK, HistoryTypes
  <1>5. \A i \in 1..Len(queue') : outcome'[queue'[i]] = "waiting" /\ queue'[i] # request'
    BY <1>1, <1>2 DEF WaitingOnce
  <1>6. /\ \A c \in indexed' : outcome'[c] \notin {"unsent", "empty", "rejected"}
        /\ \A c \in indexed' : outcome'[c] # "waiting"
    <2>1. pc # "write" \/ pc = "write"
      OBVIOUS
    <2> QED
      BY <1>1, <1>3, <1>4 DEF WaitingOnce
  <1> QED
    BY <1>1, <1>5, <1>6 DEF WaitingOnce, Undecided

(* Every step keeps a waiting capture in one place, uncommitted.              *)
LEMMA WaitingStep ==
    ASSUME TypeOK, WorkHeld, OneWorker, WaitingOnce, Next
    PROVE  WaitingOnce'
  <1>0. /\ pc \in Processing \cup {"begin"} => request \in Captures
        /\ queue \in Seq(Captures)
        /\ \A i \in 1..Len(queue) : queue[i] \in Captures
        /\ outcome \in [Captures -> Outcomes] /\ indexed \subseteq Captures
    BY DEF TypeOK, WorkTypes, WorkHeld, QueueTypes, HistoryTypes
  <1>1. ASSUME NEW c \in Captures, SubmitNothing(c) PROVE WaitingOnce'
    <2>1. /\ outcome[c] = "unsent" /\ outcome' = [outcome EXCEPT ![c] = "empty"]
          /\ UNCHANGED <<queue, request, pc, indexed>>
      BY <1>1 DEF SubmitNothing
    <2>2. c # request /\ c \notin indexed /\ \A i \in 1..Len(queue) : queue[i] # c
      BY <2>1, UnsentIsNowhere
    <2>3. \A d \in Captures : d # c => outcome'[d] = outcome[d]
      BY <1>0, <2>1
    <2>4. request \in Captures => outcome'[request] = outcome[request]
      BY <2>2, <2>3
    <2> QED
      BY <1>0, <2>1, <2>2, <2>3, <2>4 DEF WaitingOnce, Processing, Undecided
  <1>2. ASSUME NEW s \in Submitters, NEW c \in Captures, Submit(s, c) PROVE WaitingOnce'
    <2>1. /\ outcome[c] = "unsent" /\ UNCHANGED <<request, pc, indexed>>
          /\ outcome' \in {[outcome EXCEPT ![c] = "waiting"], [outcome EXCEPT ![c] = "rejected"]}
      BY <1>2 DEF Submit
    <2>2. c # request /\ c \notin indexed /\ \A i \in 1..Len(queue) : queue[i] # c
      BY <2>1, UnsentIsNowhere
    <2>3. \A d \in Captures : d # c => outcome'[d] = outcome[d]
      BY <1>0, <2>1
    <2>4. request \in Captures => outcome'[request] = outcome[request]
      BY <2>2, <2>3
    <2>5. /\ \A i \in 1..Len(queue') : outcome'[queue'[i]] = "waiting" /\ queue'[i] # request
          /\ \A i, j \in 1..Len(queue') : queue'[i] = queue'[j] => i = j
      <3>1. CASE HasRoom
        <4>1. queue' = Append(queue, c) /\ outcome' = [outcome EXCEPT ![c] = "waiting"]
          BY <1>2, <3>1 DEF Submit
        <4>2. outcome'[c] = "waiting" /\ Len(queue') = Len(queue) + 1
          BY <1>0, <4>1
        <4>3. /\ queue'[Len(queue) + 1] = c
              /\ \A i \in 1..Len(queue) : queue'[i] = queue[i]
          BY <1>0, <4>1
        <4>4. \A i \in 1..Len(queue') : i = Len(queue) + 1 \/ i \in 1..Len(queue)
          BY <1>0, <4>2
        <4> QED
          BY <1>0, <2>2, <2>3, <4>2, <4>3, <4>4 DEF WaitingOnce
      <3>2. CASE ~HasRoom
        <4>1. queue' = queue
          BY <1>2, <3>2 DEF Submit
        <4> QED
          BY <1>0, <2>2, <2>3, <4>1 DEF WaitingOnce
      <3> QED
        BY <3>1, <3>2
    <2> QED
      BY <1>0, <2>1, <2>2, <2>3, <2>4, <2>5 DEF WaitingOnce, Processing, Undecided
  <1>3. ASSUME NEW s \in Submitters, Describe(s) PROVE WaitingOnce'
    BY <1>3 DEF Describe, WaitingOnce
  <1>4. CASE Get
    <2>1. /\ queue # <<>> /\ queue' = Tail(queue) /\ request' = Head(queue)
          /\ pc = "get" /\ pc' = "begin" /\ UNCHANGED <<outcome, indexed>>
      BY <1>4 DEF Get
    <2>2. Len(queue') = Len(queue) - 1 /\ request' = queue[1] /\ 1 \in 1..Len(queue)
      BY <1>0, <2>1
    <2>3. \A i \in 1..Len(queue') : queue'[i] = queue[i + 1] /\ i + 1 \in 1..Len(queue)
      BY <1>0, <2>1, <2>2
    <2>4. /\ \A i \in 1..Len(queue') : outcome'[queue'[i]] = "waiting" /\ queue'[i] # request'
          /\ outcome'[request'] = "waiting"
      BY <2>1, <2>2, <2>3 DEF WaitingOnce
    <2>5. \A i, j \in 1..Len(queue') : queue'[i] = queue'[j] => i = j
      BY <2>3 DEF WaitingOnce
    <2> QED
      BY <2>1, <2>4, <2>5 DEF WaitingOnce, Undecided
  <1>5. CASE Bookkeeping
    BY <1>5, BookkeepingLeaves DEF WaitingOnce, Undecided
  <1>6. CASE Analyze
    <2>1. CASE pc' = "park" /\ UNCHANGED outcome
      BY <1>6, <2>1 DEF Analyze, WaitingOnce, Undecided
    <2>2. CASE Finish("failed") /\ pc' = "end"
      BY <1>0, <1>6, <2>2, SettleStep DEF Analyze, Processing, Finished
    <2> QED
      BY <1>6, <2>1, <2>2 DEF Analyze
  <1>7. CASE Park
    <2>1. CASE pc' \in {"check", "resolved"} /\ UNCHANGED outcome
      BY <1>7, <2>1 DEF Park, WaitingOnce, Undecided
    <2>2. CASE Finish("failed") /\ pc' = "end"
      BY <1>0, <1>7, <2>2, SettleStep DEF Park, Processing, Finished
    <2> QED
      BY <1>7, <2>1, <2>2 DEF Park
  <1>8. CASE Resolved
    <2>1. CASE pc' = "commit" /\ UNCHANGED outcome
      BY <1>8, <2>1 DEF Resolved, WaitingOnce, Undecided
    <2>2. CASE Finish("discarded") /\ pc' = "end"
      BY <1>0, <1>8, <2>2, SettleStep DEF Resolved, Processing, Finished
    <2> QED
      BY <1>8, <2>1, <2>2 DEF Resolved
  <1>9. CASE Commit
    <2>1. CASE Record /\ pc' = "write" /\ UNCHANGED outcome
      BY <1>0, <1>9, <2>1 DEF Commit, Record, WaitingOnce, Undecided
    <2>2. CASE Record /\ Finish("saved") /\ pc' = "after"
      BY <1>0, <1>9, <2>2, SettleStep DEF Commit, Record, Processing, Finished
    <2>3. CASE Finish("failed") /\ pc' = "end" /\ UNCHANGED indexed
      BY <1>0, <1>9, <2>3, SettleStep DEF Commit, Processing, Finished
    <2> QED
      BY <1>9, <2>1, <2>2, <2>3 DEF Commit
  <1>10. CASE Write
    <2>1. CASE Finish("saved") /\ pc' = "after"
      <3>1. request \in indexed
        BY <1>10 DEF Write, WaitingOnce
      <3> QED
        BY <1>0, <1>10, <2>1, <3>1, SettleStep DEF Write, Processing, Finished
    <2>2. CASE Finish("failed") /\ pc' = "end"
      BY <1>0, <1>10, <2>2, SettleStep DEF Write, Processing, Finished
    <2> QED
      BY <1>10, <2>1, <2>2 DEF Write
  <1>11. CASE AfterCommit
    <2>1. CASE UNCHANGED outcome
      BY <1>11, <2>1 DEF AfterCommit, WaitingOnce, Undecided, Finished
    <2>2. CASE Finish("stale")
      BY <1>0, <1>11, <2>2, SettleStep DEF AfterCommit, Processing, Finished
    <2> QED
      BY <1>11, <2>1, <2>2 DEF AfterCommit
  <1>12. CASE EndInflight
    BY <1>0, <1>12 DEF EndInflight, WaitingOnce, Undecided
  <1>13. CASE Decide
    BY <1>13 DEF Decide, Resolve, WaitingOnce
  <1>14. CASE Controller
    <2>1. UNCHANGED <<queue, request, outcome, indexed>>
      BY <1>14, ControlLeaves
    <2>2. pc' = pc \/ (pc = "dead" /\ pc' = "top")
      BY <1>14 DEF Controller, Start, Stop, StopSignal, StopJoin, OneWorker, Alive
    <2> QED
      BY <2>1, <2>2 DEF WaitingOnce, Undecided
  <1> QED
    BY <1>1, <1>2, <1>3, <1>4, <1>5, <1>6, <1>7, <1>8, <1>9, <1>10, <1>11, <1>12, <1>13,
       <1>14 DEF Next, Submitting, Worker, Bookkeeping

-----------------------------------------------------------------------------
(* How far the decision on the waiting captures has got.                      *)
LEMMA SettledStage ==
    ASSUME TypeOK, WorkHeld, DecisionStage, pc \in Processing, NEW r \in Finished, Finish(r),
           UNCHANGED <<request, acked>>, pc' \in {"after", "end"}, decision' = None
    PROVE  DecisionStage'
  <1>1. request \in Captures
    BY DEF TypeOK, WorkTypes, WorkHeld
  <1>2. outcome'[request] = r /\ \A c \in Captures : c # request => outcome'[c] = outcome[c]
    BY <1>1 DEF Finish, TypeOK, HistoryTypes
  <1>3. r \notin {"waiting", "unsent", "empty", "rejected"}
    BY DEF Finished
  <1> QED
    BY <1>1, <1>2, <1>3 DEF DecisionStage

(* Every step keeps the decision on the waiting captures in its stage.        *)
LEMMA StageStep ==
    ASSUME TypeOK, WorkHeld, OneWorker, ShownIsProcessed, WaitingOnce, DecisionStage, Next
    PROVE  DecisionStage'
  <1>0. /\ pc \in Processing \cup {"begin"} => request \in Captures
        /\ outcome \in [Captures -> Outcomes]
        /\ acked \in [Captures -> {"none", "approve", "discard"}]
        /\ decision # None => decision \in Parked /\ decision.cap = request
    BY DEF TypeOK, WorkTypes, WorkHeld, HistoryTypes, ShownIsProcessed
  <1>1. CASE Submitting
    <2>1. UNCHANGED <<pc, request, approved, decision, acked>>
      BY <1>1, SubmittingLeaves
    <2>2. \A c \in Captures : outcome'[c] = outcome[c] \/ outcome[c] = "unsent"
      BY <1>0, <1>1 DEF Submitting, SubmitNothing, Submit, Describe
    <2>3. \A c \in Captures : acked[c] # "none" => outcome'[c] = outcome[c]
      BY <2>2 DEF DecisionStage
    <2> QED
      BY <2>1, <2>3 DEF DecisionStage
  <1>2. CASE LoopTop \/ GetTimeout \/ Idle \/ Enrich
    BY <1>2 DEF LoopTop, GetTimeout, Idle, Enrich, NextTurn, DecisionStage, WorkHeld
  <1>3. CASE Get
    BY <1>3 DEF Get, DecisionStage, WorkHeld
  <1>4. CASE Begin
    BY <1>4 DEF Begin, DecisionStage, WorkHeld
  <1>5. CASE Analyze
    <2>1. CASE pc' = "park" /\ UNCHANGED outcome
      BY <1>5, <2>1 DEF Analyze, DecisionStage, WorkHeld
    <2>2. CASE Finish("failed") /\ pc' = "end"
      BY <1>5, <2>2, SettledStage DEF Analyze, Processing, Finished, WorkHeld
    <2> QED
      BY <1>5, <2>1, <2>2 DEF Analyze
  <1>6. CASE Park
    <2>0. decision = None /\ \A c \in Captures : outcome[c] = "waiting" => acked[c] = "none"
      BY <1>6 DEF Park, WorkHeld, DecisionStage
    <2>1. CASE pc' = "resolved"
      BY <1>6, <2>0, <2>1 DEF Park, DecisionStage
    <2>2. CASE Finish("failed") /\ pc' = "end"
      BY <1>6, <2>0, <2>2, SettledStage DEF Park, Processing, Finished
    <2>3. CASE pc' = "check"
      <3>1. inflight \in Item /\ inflight.cap = request
        BY <1>6 DEF TypeOK, ItemTypes, Park, WorkHeld, ShownIsProcessed, Processing
      <3>2. /\ decision'.cap = request /\ ~decision'.set /\ ~decision'.approved
            /\ UNCHANGED <<request, outcome, acked>>
        BY <1>6, <2>3, <3>1 DEF Park
      <3>3. request \in Captures /\ acked[request] = "none"
        BY <1>0, <1>6, <2>0 DEF Park, Processing, WaitingOnce, Undecided
      <3> QED
        BY <2>0, <2>3, <3>2, <3>3 DEF DecisionStage
    <2> QED
      BY <1>6, <2>1, <2>2, <2>3 DEF Park
  <1>7. CASE Check
    BY <1>7 DEF Check, LeaveOrWait, DecisionStage
  <1>8. CASE Wait
    <2>1. decision # None
      BY <1>8 DEF Wait, WorkHeld
    <2>2. decision.approved => acked[request] = "approve"
      BY <1>0, <2>1 DEF DecisionStage
    <2>3. /\ pc' = "check" \/ (pc' = "resolved" /\ approved' = decision.approved)
          /\ pc = "wait" /\ UNCHANGED <<request, outcome, acked, decision>>
      BY <1>8 DEF Wait
    <2> QED
      BY <2>2, <2>3 DEF DecisionStage
  <1>9. CASE Resolved
    <2>1. CASE pc' = "commit" /\ UNCHANGED outcome
      BY <1>9, <2>1 DEF Resolved, DecisionStage
    <2>2. CASE Finish("discarded") /\ pc' = "end"
      BY <1>9, <2>2, SettledStage DEF Resolved, Processing, Finished
    <2> QED
      BY <1>9, <2>1, <2>2 DEF Resolved
  <1>10. CASE Commit
    <2>1. CASE pc' = "write" /\ UNCHANGED outcome
      BY <1>10, <2>1 DEF Commit, DecisionStage
    <2>2. CASE Finish("saved") /\ pc' = "after"
      BY <1>10, <2>2, SettledStage DEF Commit, Processing, Finished, WorkHeld
    <2>3. CASE Finish("failed") /\ pc' = "end"
      BY <1>10, <2>3, SettledStage DEF Commit, Processing, Finished, WorkHeld
    <2> QED
      BY <1>10, <2>1, <2>2, <2>3 DEF Commit
  <1>11. CASE Write
    BY <1>11, SettledStage DEF Write, Processing, Finished, WorkHeld
  <1>12. CASE AfterCommit
    <2>1. CASE UNCHANGED outcome
      BY <1>12, <2>1 DEF AfterCommit, DecisionStage, WorkHeld
    <2>2. CASE Finish("stale")
      BY <1>12, <2>2, SettledStage DEF AfterCommit, Processing, Finished, WorkHeld
    <2> QED
      BY <1>12, <2>1, <2>2 DEF AfterCommit
  <1>13. CASE EndInflight
    BY <1>13 DEF EndInflight, DecisionStage, WorkHeld
  <1>14. CASE Decide
    <2>1. PICK ok \in BOOLEAN : decision # None /\ Resolve(decision.id, ok)
      BY <1>14 DEF Decide
    <2>2. /\ decision' = [decision EXCEPT !.set = TRUE, !.approved = ok]
          /\ acked' = [acked EXCEPT ![decision.cap] = IF ok THEN "approve" ELSE "discard"]
          /\ ~decision.set /\ UNCHANGED <<pc, request, approved, outcome>>
      BY <2>1 DEF Resolve, ResolvedWith, Open
    <2>3. /\ pc \in {"check", "wait", "resolved"} /\ request \in Captures
          /\ decision.cap = request /\ outcome[request] = "waiting"
      BY <1>0, <2>1 DEF WorkHeld, Processing, WaitingOnce, Undecided
    <2>4. /\ decision'.set /\ decision'.cap = request /\ decision'.approved = ok
      BY <1>0, <2>1, <2>2, <2>3 DEF Parked
    <2>5. /\ \A c \in Captures : c # request => acked'[c] = acked[c]
          /\ acked'[request] = IF ok THEN "approve" ELSE "discard"
      BY <1>0, <2>2, <2>3
    <2>6. acked[request] = "none"
      BY <2>1, <2>2, <2>3 DEF DecisionStage
    <2> QED
      BY <2>2, <2>3, <2>4, <2>5, <2>6 DEF DecisionStage
  <1>15. CASE Controller
    <2>1. UNCHANGED <<request, approved, outcome, acked>>
      BY <1>15 DEF Controller, Start, Stop, StopSignal, StopJoin
    <2>2. pc' = pc \/ (pc = "dead" /\ pc' = "top")
      BY <1>15 DEF Controller, Start, Stop, StopSignal, StopJoin, OneWorker, Alive
    <2>3. \/ decision' = decision
          \/ /\ decision # None /\ decision'.set
             /\ decision'.cap = decision.cap /\ decision'.approved = decision.approved
      <3>1. CASE StopSignal
        BY <1>0, <3>1 DEF StopSignal, Parked
      <3>2. CASE ~StopSignal
        BY <1>15, <3>2 DEF Controller, Start, Stop, StopJoin
      <3> QED
        BY <3>1, <3>2
    <2> QED
      BY <2>1, <2>2, <2>3 DEF DecisionStage
  <1> QED
    BY <1>1, <1>2, <1>3, <1>4, <1>5, <1>6, <1>7, <1>8, <1>9, <1>10, <1>11, <1>12, <1>13,
       <1>14, <1>15 DEF Next, Worker

-----------------------------------------------------------------------------
(* Only a capture whose approval was acknowledged is recorded.                *)
LEMMA CommitStep ==
    ASSUME TypeOK, WorkHeld, ShownIsProcessed, WaitingOnce, DecisionStage,
           CommitOnlyApproved, Next
    PROVE  CommitOnlyApproved'
  <1>0. /\ acked \in [Captures -> {"none", "approve", "discard"}] /\ indexed \subseteq Captures
        /\ pc \in Processing => request \in Captures
    BY DEF TypeOK, HistoryTypes, WorkTypes, WorkHeld
  <1>1. CASE Submitting
    BY <1>1, SubmittingLeaves DEF CommitOnlyApproved
  <1>2. CASE Worker /\ ~Commit
    <2>1. UNCHANGED acked
      BY <1>2, WorkerLeaves
    <2>2. UNCHANGED indexed
      <3>1. CASE LoopTop \/ Get \/ GetTimeout \/ Begin
        BY <3>1 DEF LoopTop, Get, GetTimeout, Begin
      <3>2. CASE Analyze \/ Park \/ Check \/ Wait \/ Resolved
        BY <3>2 DEF Analyze, Park, Check, Wait, Resolved
      <3>3. CASE Write \/ AfterCommit \/ EndInflight \/ Idle \/ Enrich
        BY <3>3 DEF Write, AfterCommit, EndInflight, Idle, Enrich, NextTurn
      <3> QED
        BY <1>2, <3>1, <3>2, <3>3 DEF Worker
    <2> QED
      BY <2>1, <2>2 DEF CommitOnlyApproved
  <1>3. CASE Commit
    <2>1. indexed' \in {indexed, indexed \cup {request}} /\ pc = "commit" /\ UNCHANGED acked
      BY <1>3 DEF Commit, Record
    <2> QED
      BY <2>1 DEF CommitOnlyApproved, DecisionStage
  <1>4. CASE Decide
    <2>1. PICK ok \in BOOLEAN : decision # None /\ Resolve(decision.id, ok)
      BY <1>4 DEF Decide
    <2>2. /\ acked' = [acked EXCEPT ![decision.cap] = IF ok THEN "approve" ELSE "discard"]
          /\ ~decision.set /\ UNCHANGED indexed
      BY <2>1 DEF Resolve, Open
    <2>3. acked[decision.cap] = "none"
      BY <2>1, <2>2 DEF DecisionStage
    <2>4. ReviewMode = "parked" => decision.cap \notin indexed
      BY <2>3 DEF CommitOnlyApproved
    <2> QED
      BY <1>0, <2>2, <2>4 DEF CommitOnlyApproved
  <1>5. CASE Controller
    BY <1>5 DEF Controller, Start, Stop, StopSignal, StopJoin, CommitOnlyApproved
  <1> QED
    BY <1>1, <1>2, <1>3, <1>4, <1>5 DEF Next, Worker

(* Settling as r what was waiting keeps saved and committed together.         *)
LEMMA SettledSaved ==
    ASSUME TypeOK, WorkHeld, SavedIsCommitted, pc \in Processing, NEW r \in Finished, Finish(r),
           indexed \subseteq indexed', indexed' \subseteq indexed \cup {request},
           r \in {"saved", "stale"} => request \in indexed',
           r = "discarded" => request \notin indexed'
    PROVE  SavedIsCommitted'
  <1>1. request \in Captures
    BY DEF TypeOK, WorkTypes, WorkHeld
  <1>2. outcome'[request] = r /\ \A c \in Captures : c # request => outcome'[c] = outcome[c]
    BY <1>1 DEF Finish, TypeOK, HistoryTypes
  <1> QED
    BY <1>1, <1>2 DEF SavedIsCommitted

(* Every step keeps the saved captures recorded and the discarded ones not.   *)
LEMMA SavedStep ==
    ASSUME TypeOK, WorkHeld, OneWorker, WaitingOnce, SavedIsCommitted, Next
    PROVE  SavedIsCommitted'
  <1>1. CASE Submitting
    <2>1. UNCHANGED indexed
      BY <1>1, SubmittingLeaves
    <2>2. \A c \in Captures : outcome'[c] \in {outcome[c], "empty", "waiting", "rejected"}
      BY <1>1 DEF Submitting, SubmitNothing, Submit, Describe, TypeOK, HistoryTypes
    <2> QED
      BY <2>1, <2>2 DEF SavedIsCommitted
  <1>2. CASE Get \/ Bookkeeping \/ EndInflight
    BY <1>2, BookkeepingLeaves DEF Get, EndInflight, SavedIsCommitted
  <1>3. CASE Analyze \/ Park
    <2>1. CASE UNCHANGED outcome
      BY <1>3, <2>1 DEF Analyze, Park, SavedIsCommitted
    <2>2. CASE Finish("failed")
      BY <1>3, <2>2, SettledSaved DEF Analyze, Park, Finished, Processing
    <2> QED
      BY <1>3, <2>1, <2>2 DEF Analyze, Park
  <1>4. CASE Resolved
    <2>1. CASE UNCHANGED outcome
      BY <1>4, <2>1 DEF Resolved, SavedIsCommitted
    <2>2. CASE Finish("discarded")
      <3>1. request \notin indexed
        BY <1>4 DEF Resolved, WaitingOnce, Undecided
      <3> QED
        BY <1>4, <2>2, <3>1, SettledSaved DEF Resolved, Finished, Processing
    <2> QED
      BY <1>4, <2>1, <2>2 DEF Resolved
  <1>5. CASE Commit
    <2>1. CASE Record /\ UNCHANGED outcome
      <3>1. outcome[request] = "waiting"
        BY <1>5 DEF Commit, WaitingOnce, Undecided
      <3> QED
        BY <2>1, <3>1 DEF Record, SavedIsCommitted
    <2>2. CASE Record /\ Finish("saved")
      BY <1>5, <2>2, SettledSaved DEF Commit, Record, Finished, Processing
    <2>3. CASE Finish("failed") /\ UNCHANGED indexed
      BY <1>5, <2>3, SettledSaved DEF Commit, Finished, Processing
    <2> QED
      BY <1>5, <2>1, <2>2, <2>3 DEF Commit
  <1>6. CASE Write \/ AfterCommit
    <2>1. request \in indexed /\ UNCHANGED indexed
      BY <1>6 DEF Write, AfterCommit, WaitingOnce
    <2>2. CASE UNCHANGED outcome
      BY <2>1, <2>2 DEF SavedIsCommitted
    <2>3. CASE \E r \in {"saved", "failed", "stale"} : Finish(r)
      BY <1>6, <2>1, <2>3, SettledSaved DEF Write, AfterCommit, Finished, Processing
    <2> QED
      BY <1>6, <2>2, <2>3 DEF Write, AfterCommit
  <1>7. CASE Decide \/ Controller
    BY <1>7, ControlLeaves DEF SavedIsCommitted
  <1> QED
    BY <1>1, <1>2, <1>3, <1>4, <1>5, <1>6, <1>7 DEF Next, Worker, Bookkeeping

(* The queue never holds more than max_pending requests.                      *)
LEMMA BoundStep ==
    ASSUME TypeOK, Len(queue) <= MaxPending, Next
    PROVE  Len(queue') <= MaxPending
  <1>0. queue \in Seq(Captures)
    BY DEF TypeOK, QueueTypes
  <1>1. ASSUME NEW s \in Submitters, NEW c \in Captures, Submit(s, c)
        PROVE  Len(queue') <= MaxPending
    <2>1. CASE HasRoom
      <3>1. queue' = Append(queue, c)
        BY <1>1, <2>1 DEF Submit
      <3> QED
        BY <1>0, <2>1, <3>1 DEF HasRoom
    <2>2. CASE ~HasRoom
      BY <1>1, <2>2 DEF Submit
    <2> QED
      BY <2>1, <2>2
  <1>2. CASE Get
    <2>1. queue' = Tail(queue) /\ queue # <<>>
      BY <1>2 DEF Get
    <2> QED
      BY <1>0, <2>1
  <1>3. ASSUME UNCHANGED queue PROVE Len(queue') <= MaxPending
    BY <1>3
  <1>4. CASE Begin \/ Beyond
    <2>1. UNCHANGED queue
      BY <1>4, BeyondLeaves DEF Begin
    <2> QED
      BY <1>3, <2>1
  <1>5. CASE Decide \/ Controller
    BY <1>3, <1>5, ControlLeaves
  <1>6. ASSUME NEW c \in Captures, SubmitNothing(c) PROVE Len(queue') <= MaxPending
    BY <1>3, <1>6 DEF SubmitNothing
  <1>7. ASSUME NEW s \in Submitters, Describe(s) PROVE Len(queue') <= MaxPending
    BY <1>3, <1>7 DEF Describe
  <1> QED
    BY <1>1, <1>2, <1>4, <1>5, <1>6, <1>7 DEF Next, Submitting, Worker, Beyond

-----------------------------------------------------------------------------
(* A step that changes nothing keeps the invariant.                           *)
LEMMA StutterInv == IInv /\ UNCHANGED vars => IInv'
  <1> SUFFICES ASSUME IInv, UNCHANGED vars PROVE IInv'
    OBVIOUS
  <1>1. TypeOK'
    BY Frame DEF IInv, TypeOK
  <1>2. QueueMirror' /\ LastPut' /\ LockHeld' /\ OneWorker' /\ Len(queue') <= MaxPending
    BY DEF IInv, QueueMirror, LastPut, LockHeld, OneWorker, Alive, Unshown, Taken, RequestAt
  <1>3. WorkHeld' /\ ShownIsProcessed'
    BY DEF IInv, WorkHeld, ShownIsProcessed
  <1>4. WaitingOnce' /\ SavedIsCommitted'
    BY DEF IInv, WaitingOnce, SavedIsCommitted
  <1>5. DecisionStage' /\ CommitOnlyApproved'
    BY DEF IInv, DecisionStage, CommitOnlyApproved
  <1> QED
    BY <1>1, <1>2, <1>3, <1>4, <1>5 DEF IInv

(* IInv is inductive: every step of every thread keeps it.                    *)
LEMMA NextInv == IInv /\ [Next]_vars => IInv'
  <1> SUFFICES ASSUME IInv, Next PROVE IInv'
    BY StutterInv
  <1>1. TypeOK'
    BY SubmittingType, WorkerType, ControlType DEF IInv, Next
  <1>2. LockHeld' /\ OneWorker' /\ WorkHeld'
    BY LockStep, OneWorkerStep, WorkHeldStep DEF IInv
  <1>3. QueueMirror' /\ LastPut' /\ ShownIsProcessed'
    BY MirrorStep, ShownStep DEF IInv
  <1>4. WaitingOnce' /\ DecisionStage'
    BY WaitingStep, StageStep DEF IInv
  <1>5. CommitOnlyApproved' /\ SavedIsCommitted' /\ Len(queue') <= MaxPending
    BY CommitStep, SavedStep, BoundStep DEF IInv
  <1> QED
    BY <1>1, <1>2, <1>3, <1>4, <1>5 DEF IInv

(* The invariant holds in every state of every run.                           *)
THEOREM Invariance == Spec => []IInv
  BY InitInv, NextInv, PTL DEF Spec

(* Every variable keeps its type, in every run of every thread.               *)
THEOREM TypeCorrect == Spec => []TypeOK
  <1>1. IInv => TypeOK
    BY DEF IInv
  <1> QED
    BY <1>1, Invariance, PTL

(* The descriptors a surface lists are those of the requests on the queue, in *)
(* their order, however submitters and the worker interleave.                 *)
THEOREM ViewMirrorsQueue == Spec => []QueueMirror
  <1>1. IInv => QueueMirror
    BY DEF IInv
  <1> QED
    BY <1>1, Invariance, PTL

(* The capture shown in flight and offered for review is the one the worker   *)
(* will commit.                                                               *)
THEOREM ReviewShowsRequest == Spec => []ShownIsProcessed
  <1>1. IInv => ShownIsProcessed
    BY DEF IInv
  <1> QED
    BY <1>1, Invariance, PTL

(* With parked reviews nothing enters the repository unapproved, whatever     *)
(* stop(), start() and stale decisions do.                                    *)
THEOREM NothingUnapproved == Spec => []CommitOnlyApproved
  <1>1. IInv => CommitOnlyApproved
    BY DEF IInv
  <1> QED
    BY <1>1, Invariance, PTL

(* A capture reported saved is in the repository, one reported discarded is   *)
(* not.                                                                       *)
THEOREM SavedMeansCommitted == Spec => []SavedIsCommitted
  <1>1. IInv => SavedIsCommitted
    BY DEF IInv
  <1> QED
    BY <1>1, Invariance, PTL

(* Of the surfaces racing for one review the first to act decides it: nobody  *)
(* is told of a second, different decision.                                   *)
THEOREM FirstDecision == Spec => FirstDecisionWins
  <1>1. IInv /\ [Next]_vars =>
            [\A c \in Captures : acked[c] # "none" => acked'[c] = acked[c]]_vars
    <2> SUFFICES ASSUME IInv, Next, NEW c \in Captures, acked[c] # "none"
                 PROVE  acked'[c] = acked[c]
      OBVIOUS
    <2>1. CASE Decide
      <3>1. PICK ok \in BOOLEAN : decision # None /\ Resolve(decision.id, ok)
        BY <2>1 DEF Decide
      <3>2. /\ ~decision.set
            /\ acked' = [acked EXCEPT ![decision.cap] = IF ok THEN "approve" ELSE "discard"]
        BY <3>1 DEF Resolve, Open
      <3>3. acked[decision.cap] = "none"
        BY <3>1, <3>2 DEF IInv, DecisionStage
      <3> QED
        BY <3>2, <3>3 DEF IInv, TypeOK, HistoryTypes
    <2>2. CASE Submitting \/ Worker
      BY <2>2, SubmittingLeaves, WorkerLeaves
    <2>3. CASE Controller
      BY <2>3 DEF Controller, Start, Stop, StopSignal, StopJoin
    <2> QED
      BY <2>1, <2>2, <2>3 DEF Next
  <1> QED
    BY <1>1, Invariance, PTL DEF Spec, FirstDecisionWins

(* A worker comes up only when none runs.                                     *)
THEOREM OneWorkerOnly == Spec => NoSecondWorker
  <1>1. IInv /\ [Next]_vars => [pc' = "top" => pc \in {"dead", "top", "idle", "enrich"}]_vars
    <2> SUFFICES ASSUME IInv, Next, pc' = "top"
                 PROVE  pc \in {"dead", "top", "idle", "enrich"}
      OBVIOUS
    <2>1. CASE Submitting
      BY <2>1, SubmittingLeaves
    <2>2. CASE LoopTop \/ Get \/ GetTimeout \/ Begin
      BY <2>2 DEF LoopTop, Get, GetTimeout, Begin
    <2>3. CASE Analyze \/ Park \/ Check \/ Wait \/ Resolved
      BY <2>3 DEF Analyze, Park, Check, LeaveOrWait, Wait, Resolved
    <2>4. CASE Commit \/ Write \/ AfterCommit
      BY <2>4 DEF Commit, Write, AfterCommit
    <2>5. CASE EndInflight \/ Idle \/ Enrich
      BY <2>5 DEF EndInflight, Idle, Enrich, NextTurn
    <2>6. CASE Decide
      BY <2>6 DEF Decide, Resolve, IInv, WorkHeld
    <2>7. CASE Controller
      BY <2>7 DEF Controller, Start, Stop, StopSignal, StopJoin, IInv, OneWorker, Alive
    <2> QED
      BY <2>1, <2>2, <2>3, <2>4, <2>5, <2>6, <2>7 DEF Next, Worker
  <1> QED
    BY <1>1, Invariance, PTL DEF Spec, NoSecondWorker

-----------------------------------------------------------------------------
(* The coordinator implements CaptureLine.                                    *)

\* Where the request stands in the abstract line.
PhaseOf ==
    /\ pc \in Undecided => /\ request \in Captures /\ ~Settled
                           /\ InLine = <<request>> \o queue /\ Current = None
    /\ pc \in {"after", "end"} => /\ request \in Captures /\ Settled
                                  /\ InLine = queue /\ Current = request
    /\ pc \notin Undecided \cup {"after", "end"} =>
            request = None /\ InLine = queue /\ Current = None

LEMMA Phases == IInv => PhaseOf
  <1> SUFFICES ASSUME IInv PROVE PhaseOf
    OBVIOUS
  <1>1. pc \in Undecided \cup {"after", "end"} => request \in Captures
    BY DEF IInv, TypeOK, WorkTypes, WorkHeld, Undecided, Processing
  <1>2. pc \in Undecided => outcome[request] = "waiting"
    BY DEF IInv, WaitingOnce
  <1>3. pc \in {"after", "end"} => outcome[request] # "waiting"
    BY DEF IInv, WaitingOnce, Finished
  <1>4. pc \notin Undecided \cup {"after", "end"} => request = None
    BY DEF IInv, WorkHeld, Undecided, Processing
  <1> QED
    BY <1>1, <1>2, <1>3, <1>4 DEF PhaseOf, Settled, InLine, Current

(* The same of the state after a step.                                        *)
LEMMA PhasesNext == IInv' => PhaseOf'
  BY Phases, PTL

\* A step that moves no capture between the three phases is a stutter.
LEMMA SameLine ==
    ASSUME UNCHANGED <<queue, request, outcome>>
    PROVE  UNCHANGED <<InLine, outcome, Current>>
  BY DEF InLine, Current, Settled

(* Settling the request settles the head of the line.                         *)
LEMMA SettleLine ==
    ASSUME IInv, IInv', pc \in Undecided, pc' \in {"after", "end"},
           NEW r \in {"saved", "discarded", "failed"}, Finish(r), UNCHANGED <<queue, request>>
    PROVE  Line!LineNext
  <1>1. /\ request \in Captures /\ InLine = <<request>> \o queue /\ Current = None
        /\ InLine' = queue /\ Current' = request
    BY Phases, PhasesNext DEF PhaseOf
  <1>2. queue \in Seq(Captures)
    BY DEF IInv, TypeOK, QueueTypes
  <1>3. InLine # <<>> /\ Head(InLine) = request /\ Tail(InLine) = queue
    BY <1>1, <1>2
  <1>4. Line!Settle(r)
    BY <1>1, <1>3 DEF Line!Settle, Finish
  <1> QED
    BY <1>4 DEF Line!LineNext

(* Every step is a step of the line or invisible to it.                       *)
LEMMA LineStep ==
    ASSUME IInv, IInv', Next
    PROVE  Line!LineNext \/ UNCHANGED <<InLine, outcome, Current>>
  <1>0. queue \in Seq(Captures) /\ Len(queue) <= MaxPending
    BY DEF IInv, TypeOK, QueueTypes
  <1>1. ASSUME NEW c \in Captures, outcome[c] = "unsent", UNCHANGED <<pc, request>>,
               NEW r \in Outcomes, outcome' = [outcome EXCEPT ![c] = r]
        PROVE  Settled' = Settled /\ Current' = Current
    <2>1. c # request
      BY <1>1, UnsentIsNowhere DEF IInv
    <2>2. request # None => request \in Captures
      BY DEF IInv, TypeOK, WorkTypes
    <2> QED
      BY <1>1, <2>1, <2>2 DEF IInv, TypeOK, HistoryTypes, Settled, Current
  <1>2. ASSUME NEW c \in Captures, SubmitNothing(c) PROVE Line!LineNext
    <2>1. Current' = Current /\ Settled' = Settled
      BY <1>1, <1>2 DEF SubmitNothing, Outcomes
    <2>2. InLine' = InLine
      BY <1>2, <2>1 DEF SubmitNothing, InLine
    <2>3. Line!Refuse(c)
      BY <1>2, <2>1, <2>2 DEF SubmitNothing, Line!Refuse
    <2> QED
      BY <2>3 DEF Line!LineNext
  <1>3. ASSUME NEW s \in Submitters, NEW c \in Captures, Submit(s, c) PROVE Line!LineNext
    <2>0. outcome[c] = "unsent" /\ UNCHANGED <<pc, request>>
      BY <1>3 DEF Submit
    <2>1. CASE HasRoom
      <3>1. queue' = Append(queue, c) /\ outcome' = [outcome EXCEPT ![c] = "waiting"]
        BY <1>3, <2>1 DEF Submit
      <3>2. Current' = Current /\ Settled' = Settled
        BY <1>1, <2>0, <3>1 DEF Outcomes
      <3>3. InLine' = Append(InLine, c) /\ Len(InLine) <= MaxPending
        <4>1. CASE request = None \/ Settled
          BY <1>0, <2>0, <3>1, <3>2, <4>1 DEF InLine
        <4>2. CASE ~(request = None \/ Settled)
          <5>1. request \in Captures
            BY <4>2 DEF IInv, TypeOK, WorkTypes
          <5>2. InLine = <<request>> \o queue /\ InLine' = <<request>> \o Append(queue, c)
            BY <2>0, <3>1, <3>2, <4>2 DEF InLine
          <5>3. <<request>> \o Append(queue, c) = Append(<<request>> \o queue, c)
            BY <1>0, <5>1
          <5>4. Len(<<request>> \o queue) = 1 + Len(queue)
            BY <1>0, <5>1
          <5> QED
            BY <1>0, <2>1, <5>2, <5>3, <5>4 DEF HasRoom
        <4> QED
          BY <4>1, <4>2
      <3>4. Line!Accept(c)
        BY <2>0, <3>1, <3>2, <3>3 DEF Line!Accept
      <3> QED
        BY <3>4 DEF Line!LineNext
    <2>2. CASE ~HasRoom
      <3>1. queue' = queue /\ outcome' = [outcome EXCEPT ![c] = "rejected"]
        BY <1>3, <2>2 DEF Submit
      <3>2. Current' = Current /\ Settled' = Settled
        BY <1>1, <2>0, <3>1 DEF Outcomes
      <3>3. InLine' = InLine /\ Len(InLine) >= MaxPending
        <4>1. InLine' = InLine
          BY <2>0, <3>1, <3>2 DEF InLine
        <4>2. request \in Captures => Len(<<request>> \o queue) = 1 + Len(queue)
          BY <1>0
        <4>3. request = None \/ request \in Captures
          BY DEF IInv, TypeOK, WorkTypes
        <4> QED
          BY <1>0, <2>2, <4>1, <4>2, <4>3 DEF InLine, HasRoom
      <3>4. Line!Refuse(c)
        BY <2>0, <3>1, <3>2, <3>3 DEF Line!Refuse
      <3> QED
        BY <3>4 DEF Line!LineNext
    <2> QED
      BY <2>1, <2>2
  <1>4. ASSUME NEW s \in Submitters, Describe(s) PROVE UNCHANGED <<InLine, outcome, Current>>
    BY <1>4, SameLine DEF Describe
  <1>5. CASE Get
    <2>1. /\ queue # <<>> /\ queue' = Tail(queue) /\ request' = Head(queue)
          /\ pc = "get" /\ pc' = "begin" /\ UNCHANGED outcome
      BY <1>5 DEF Get
    <2>2. InLine = queue /\ Current = None
      BY <2>1, Phases DEF PhaseOf, Undecided
    <2>3. InLine' = <<Head(queue)>> \o Tail(queue) /\ Current' = None
      BY <2>1, PhasesNext DEF PhaseOf, Undecided
    <2>4. <<Head(queue)>> \o Tail(queue) = queue
      BY <1>0, <2>1
    <2> QED
      BY <2>1, <2>2, <2>3, <2>4
  <1>6. CASE Bookkeeping
    BY <1>6, BookkeepingLeaves, SameLine
  <1>7. CASE Analyze \/ Park \/ Resolved \/ Commit \/ Write
    <2>1. UNCHANGED <<queue, request>> /\ pc \in Undecided
      BY <1>7 DEF Analyze, Park, Resolved, Commit, Write, Undecided
    <2>2. CASE UNCHANGED outcome
      BY <2>1, <2>2, SameLine
    <2>3. CASE pc' \in {"after", "end"} /\ \E r \in {"saved", "discarded", "failed"} : Finish(r)
      BY <2>1, <2>3, SettleLine
    <2> QED
      BY <1>7, <2>2, <2>3 DEF Analyze, Park, Resolved, Commit, Write
  <1>8. CASE AfterCommit
    <2>1. UNCHANGED <<queue, request>> /\ pc = "after" /\ pc' = "end"
      BY <1>8 DEF AfterCommit
    <2>2. CASE UNCHANGED outcome
      BY <2>1, <2>2, SameLine
    <2>3. CASE Finish("stale")
      <3>1. /\ request \in Captures /\ InLine = queue /\ Current = request
            /\ InLine' = queue /\ Current' = request
        BY <2>1, Phases, PhasesNext DEF PhaseOf
      <3>2. outcome[request] = "saved"
        BY <2>1 DEF IInv, WaitingOnce
      <3>3. Line!Degrade
        BY <2>3, <3>1, <3>2 DEF Line!Degrade, Finish
      <3> QED
        BY <3>3 DEF Line!LineNext
    <2> QED
      BY <1>8, <2>2, <2>3 DEF AfterCommit
  <1>9. CASE EndInflight
    <2>1. pc = "end" /\ pc' = "idle" /\ UNCHANGED <<queue, outcome>>
      BY <1>9 DEF EndInflight
    <2>2. /\ request \in Captures /\ InLine = queue /\ Current = request
          /\ InLine' = queue' /\ Current' = None
      BY <2>1, Phases, PhasesNext DEF PhaseOf, Undecided
    <2>3. Line!Retire
      BY <2>1, <2>2 DEF Line!Retire
    <2> QED
      BY <2>3 DEF Line!LineNext
  <1>10. CASE Decide \/ Controller
    BY <1>10, ControlLeaves, SameLine
  <1> QED
    BY <1>2, <1>3, <1>4, <1>5, <1>6, <1>7, <1>8, <1>9, <1>10
       DEF Next, Submitting, Worker, Bookkeeping

(* Captures are refused visibly or served once, in the order they were        *)
(* accepted, each ending in one outcome: every step of the three threads is a *)
(* step of CaptureLine or changes nothing it can see.                         *)
THEOREM KeepsLinePromise == Spec => LinePromise
  <1>1. Init => Line!LineInit
    BY DEF Init, Line!LineInit, InLine, Current, Settled
  <1>2. IInv /\ IInv' /\ [Next]_vars => [Line!LineNext]_<<InLine, outcome, Current>>
    BY LineStep, SameLine
  <1> QED
    BY <1>1, <1>2, Invariance, PTL DEF Spec, LinePromise, Line!LineSpec, Line!lineVars

-----------------------------------------------------------------------------
(* Enrichment gives way.  A job begins only with an empty queue, and what     *)
(* arrives while it runs is behind no second one: the worker looks at the     *)
(* queue before it looks at the backlog.                                      *)
Yielding ==
    /\ overtaken \in {0, 1}
    /\ overtaken = 1 => queue # <<>>
    /\ pc = "enrich" => overtaken = 0

LEMMA YieldingStep ==
    ASSUME TypeOK, Yielding, [Next]_vars
    PROVE  Yielding'
  <1> USE DEF Yielding
  <1>1. CASE UNCHANGED vars
    BY <1>1
  <1>2. CASE Submitting
    <2>1. UNCHANGED <<pc, overtaken>>
      BY <1>2 DEF Submitting, SubmitNothing, Submit, Describe
    <2>2. queue # <<>> => queue' # <<>>
      BY <1>2 DEF Submitting, SubmitNothing, Submit, Describe, TypeOK, QueueTypes
    <2> QED
      BY <2>1, <2>2
  <1>3. CASE Get
    BY <1>3 DEF Get
  <1>4. CASE Idle
    BY <1>4 DEF Idle, MayEnrich
  <1>5. CASE Enrich
    BY <1>5 DEF Enrich, NextTurn
  <1>6. CASE LoopTop \/ GetTimeout \/ Begin
    BY <1>6 DEF LoopTop, GetTimeout, Begin
  <1>7. CASE Analyze \/ Park \/ Check \/ Wait \/ Resolved
    BY <1>7 DEF Analyze, Park, Check, LeaveOrWait, Wait, Resolved
  <1>8. CASE Commit \/ Write \/ AfterCommit \/ EndInflight
    BY <1>8 DEF Commit, Write, AfterCommit, EndInflight
  <1>9. CASE Decide \/ Controller
    BY <1>9 DEF Decide, Resolve, Controller, Start, Stop, StopSignal, StopJoin
  <1> QED
    BY <1>1, <1>2, <1>3, <1>4, <1>5, <1>6, <1>7, <1>8, <1>9 DEF Next, Worker

(* A capture submitted during an enrichment's call waits for that one at most *)
(* (_worker), whatever the backlog holds.                                     *)
THEOREM EnrichmentGivesWay == Spec => []EnrichmentYields
  <1>1. Init => Yielding
    BY DEF Init, Yielding
  <1>2. Yielding => EnrichmentYields
    BY DEF Yielding, EnrichmentYields
  <1> QED
    BY <1>1, <1>2, YieldingStep, TypeCorrect, PTL DEF Spec

-----------------------------------------------------------------------------
(* The surfaces *)

\* A coordinator, as long as its process lives: what of IInv does not speak of earlier processes.
Live == TypeOK /\ LockHeld /\ OneWorker /\ WorkHeld

ItemOf(d)   == [id |-> d.id, cap |-> d.cap]
OnScreen(p) == IF p.card # None /\ ~p.off THEN {[id |-> p.key, cap |-> p.card]} ELSE {}
OnTheWay(r) == IF r.card # None THEN {[id |-> r.key, cap |-> r.card]} ELSE {}

\* Every item a surface or the coordinator may still name by its id.  What the phone has of an
\* earlier process is not among them.
Shown == {queuedItems[i] : i \in 1..Len(queuedItems)} \cup ({inflight} \ {None})
         \cup (IF decision = None THEN {} ELSE {ItemOf(decision)})
Named == Shown \cup ({dialog} \ {None})
         \cup (IF restarts = 0 THEN OnScreen(page) \cup UNION {OnTheWay(r) : r \in replies} ELSE {})

\* One id, one capture.
Faithful(S, n) == /\ \A x \in S : x \in Item /\ x.id < n
                  /\ \A x, y \in S : x.id = y.id => x.cap = y.cap

SurfaceTypes ==
    /\ main \in {"down", "running", "quitting"} /\ signals \in Nat /\ restarts \in 0..MaxRestarts
    /\ dialog \in Item \cup {None}
    /\ page \in [key : Nat \cup {Stale}, card : Captures \cup {None}, off : BOOLEAN]
    /\ judged \in [Captures -> {"desktop", "phone"} \X Captures \cup {None}]

SurfacesInv ==
    /\ Live /\ SurfaceTypes
    /\ main = "quitting" => restarts < MaxRestarts
    /\ Faithful(Named, nextId)
    /\ AnswersShown

\* Nothing new is named, or one item with the id next in line.
Grows(S, T) == \/ T \subseteq S /\ nextId' = nextId
               \/ \E c \in Captures : T \subseteq S \cup {[id |-> nextId, cap |-> c]} /\ nextId' = nextId + 1

LEMMA LiveStep == Live /\ [Next]_vars => Live'
  <1> SUFFICES ASSUME Live, [Next]_vars PROVE Live'
    OBVIOUS
  <1>1. CASE Next
    <2>1. TypeOK'
      BY <1>1, SubmittingType, WorkerType, ControlType DEF Live, Next
    <2> QED
      BY <1>1, <2>1, LockStep, OneWorkerStep, WorkHeldStep DEF Live
  <1>2. CASE UNCHANGED vars
    <2>1. TypeOK'
      BY <1>2, Frame DEF Live, TypeOK
    <2> QED
      BY <1>2, <2>1 DEF Live, LockHeld, OneWorker, Alive, WorkHeld
  <1> QED
    BY <1>1, <1>2

\* An id stays with its capture when something is named for the first time.
LEMMA FaithfulGrows ==
    ASSUME nextId \in Nat \ {0}, NEW S, NEW T, Faithful(S, nextId), Grows(S, T)
    PROVE  Faithful(T, nextId')
  <1>1. CASE T \subseteq S /\ nextId' = nextId
    BY <1>1 DEF Faithful
  <1>2. ASSUME NEW c \in Captures, T \subseteq S \cup {[id |-> nextId, cap |-> c]}, nextId' = nextId + 1
        PROVE  Faithful(T, nextId')
    <2> DEFINE new == [id |-> nextId, cap |-> c]
    <2>1. new \in Item /\ new.id = nextId
      BY DEF Item
    <2>2. \A x \in S : x \in Item /\ x.id \in Nat /\ x.id < nextId
      BY DEF Faithful, Item
    <2>3. \A x \in T : x \in Item /\ x.id < nextId'
      BY <1>2, <2>1, <2>2
    <2>4. ASSUME NEW x \in T, NEW y \in T, x.id = y.id PROVE x.cap = y.cap
      <3>1. (x \in S /\ y \in S) \/ (x = new /\ y = new)
        BY <1>2, <2>1, <2>2, <2>4
      <3> QED
        BY <2>4, <3>1 DEF Faithful
    <2> QED
      BY <2>3, <2>4 DEF Faithful
  <1> QED
    BY <1>1, <1>2 DEF Grows

\* _describe, and _begin_inflight on an empty view, give out the next id; nothing else names anew.
LEMMA ShownGrows ==
    ASSUME Live, [Next]_vars
    PROVE  Grows(Shown, Shown')
  <1> DEFINE Queued == {queuedItems[i] : i \in 1..Len(queuedItems)}
  <1>0. /\ queuedItems \in Seq(Item) /\ enqueuing \in [Submitters -> Captures \cup {None}]
        /\ nextId \in Nat \ {0} /\ inflight \in Item \cup {None} /\ decision \in Parked \cup {None}
        /\ queue \in Seq(Captures)
    BY DEF Live, TypeOK, QueueTypes, ItemTypes
  <1>1. ASSUME UNCHANGED <<queuedItems, nextId>>,
               {inflight'} \ {None} \subseteq {inflight},
               decision' # None => ItemOf(decision') \in Shown
        PROVE  Grows(Shown, Shown')
    BY <1>1 DEF Grows, Shown
  <1>2. CASE UNCHANGED vars
    BY <1>1, <1>2 DEF Shown
  <1>3. ASSUME NEW s \in Submitters, Describe(s) PROVE Grows(Shown, Shown')
    <2> DEFINE new == [id |-> nextId, cap |-> enqueuing[s]]
    <2>1. /\ queuedItems' = Append(queuedItems, new) /\ nextId' = nextId + 1
          /\ enqueuing[s] \in Captures /\ UNCHANGED <<inflight, decision>>
      BY <1>0, <1>3 DEF Describe, Described, Live, LockHeld
    <2>2. new \in Item
      BY <1>0, <2>1 DEF Item
    <2>3. Queued' \subseteq Queued \cup {new}
      BY <1>0, <2>1, <2>2
    <2> QED
      BY <2>1, <2>3 DEF Grows, Shown
  <1>4. CASE Begin
    <2>1. CASE queuedItems # <<>>
      <3>1. /\ inflight' = queuedItems[1] /\ queuedItems' = Tail(queuedItems) /\ UNCHANGED <<nextId, decision>>
        BY <1>0, <1>4, <2>1 DEF Begin, TakeFirst
      <3>2. Queued' \subseteq Queued /\ queuedItems[1] \in Queued
        BY <1>0, <2>1, <3>1
      <3> QED
        BY <3>1, <3>2 DEF Grows, Shown
    <2>2. CASE queuedItems = <<>>
      <3>1. /\ inflight' = [id |-> nextId, cap |-> request] /\ nextId' = nextId + 1
            /\ UNCHANGED <<queuedItems, decision>> /\ request \in Captures
        BY <1>4, <2>2 DEF Begin, Live, TypeOK, WorkTypes, WorkHeld
      <3> QED
        BY <3>1 DEF Grows, Shown
    <2> QED
      BY <2>1, <2>2
  <1>5. CASE Park
    <2>1. inflight \in Item
      BY <1>0, <1>5 DEF Park, Live, WorkHeld, Processing
    <2>2. UNCHANGED <<queuedItems, nextId, inflight>>
      BY <1>5 DEF Park
    <2>3. \/ decision' = decision
          \/ decision' = [id |-> inflight.id, cap |-> inflight.cap, set |-> FALSE, approved |-> FALSE]
      BY <1>5 DEF Park
    <2>4. ItemOf(decision') \in Shown \/ decision' = None
      <3>1. CASE decision' = decision
        BY <3>1 DEF Shown
      <3>2. CASE decision' = [id |-> inflight.id, cap |-> inflight.cap, set |-> FALSE, approved |-> FALSE]
        <4>1. ItemOf(decision') = inflight
          BY <2>1, <3>2 DEF ItemOf, Item
        <4> QED
          BY <2>1, <4>1, NoneAssumption DEF Shown
      <3> QED
        BY <2>3, <3>1, <3>2
    <2> QED
      BY <1>1, <2>2, <2>4
  <1>6. ASSUME UNCHANGED <<queuedItems, nextId>>, inflight' \in {inflight, None},
               \/ decision' \in {decision, None}
               \/ decision # None /\ decision'.id = decision.id /\ decision'.cap = decision.cap
        PROVE  Grows(Shown, Shown')
    BY <1>1, <1>6 DEF Shown, ItemOf
  <1>7. CASE LoopTop \/ Get \/ GetTimeout \/ Analyze \/ Check \/ Wait \/ Resolved
    BY <1>6, <1>7 DEF LoopTop, Get, GetTimeout, Analyze, Check, Wait, Resolved
  <1>8. CASE Commit \/ Write \/ AfterCommit \/ EndInflight \/ Idle \/ Enrich
    BY <1>6, <1>8 DEF Commit, Write, AfterCommit, EndInflight, RetireItem, Idle, Enrich
  <1>9. CASE Decide
    <2>1. PICK ok \in BOOLEAN : decision # None /\ Resolve(decision.id, ok)
      BY <1>9 DEF Decide
    <2>2. decision' = [decision EXCEPT !.set = TRUE, !.approved = ok] /\ UNCHANGED <<queuedItems, nextId, inflight>>
      BY <2>1 DEF Resolve, ResolvedWith
    <2> QED
      BY <1>0, <1>6, <2>1, <2>2 DEF Parked
  <1>10. CASE Controller
    <2>1. UNCHANGED <<queuedItems, nextId, inflight>>
      BY <1>10 DEF Controller, Start, Stop, StopSignal, StopJoin
    <2>2. decision' \in {decision, None} \/ (decision # None /\ decision' = [decision EXCEPT !.set = TRUE])
      BY <1>10 DEF Controller, Start, Stop, StopSignal, StopJoin
    <2> QED
      BY <1>0, <1>6, <2>1, <2>2 DEF Parked
  <1>11. ASSUME \/ \E c \in Captures : SubmitNothing(c)
                \/ \E s \in Submitters, c \in Captures : Submit(s, c)
         PROVE  Grows(Shown, Shown')
    BY <1>6, <1>11 DEF SubmitNothing, Submit
  <1> QED
    BY <1>2, <1>3, <1>4, <1>5, <1>7, <1>8, <1>9, <1>10, <1>11 DEF Next, Submitting, Worker

\* A post or an answer that comes too late, and everything but the end of the process, is a step of
\* the coordinator or none.
LEMMA ProcessLives ==
    ASSUME SurfacesNext, ~ProcessEnds
    PROVE  [Next]_vars /\ UNCHANGED restarts
  <1> USE DEF deskVars, phoneVars, surfaceVars
  <1>1. ASSUME NEW id, NEW ok \in BOOLEAN, Open(id), Resolve(id, ok) PROVE Next
    BY <1>1 DEF Open, Next, Decide
  <1>2. CASE Launch \/ Quit \/ QuitStep
    BY <1>2 DEF Launch, Quit, QuitStep, Next, Controller
  <1>3. CASE WorkerStep \/ SubmitStep
    BY <1>3 DEF WorkerStep, SubmitStep, Next
  <1>4. CASE HandleSignal \/ Poll \/ TapLost \/ Reload \/ \E reply \in Replies : Refresh(reply)
    BY <1>4 DEF HandleSignal, Poll, TapLost, Reload, Refresh
  <1>5. ASSUME NEW ok \in BOOLEAN, AnswerDialog(ok) PROVE [Next]_vars /\ UNCHANGED restarts
    BY <1>1, <1>5 DEF AnswerDialog
  <1>6. ASSUME NEW ok \in BOOLEAN, Tap(ok) PROVE [Next]_vars /\ UNCHANGED restarts
    BY <1>1, <1>6 DEF Tap, Posted
  <1> QED
    BY <1>2, <1>3, <1>4, <1>5, <1>6 DEF SurfacesNext

\* A surface names what it was told of, and the coordinator tells what it has parked.
LEMMA NamedGrows ==
    ASSUME SurfacesInv, [SurfacesNext]_allVars, ~ProcessEnds
    PROVE  Grows(Named, Named')
  <1> DEFINE Desk  == {dialog} \ {None}
             Way   == UNION {OnTheWay(r) : r \in replies}
             Phone == IF restarts = 0 THEN OnScreen(page) \cup Way ELSE {}
  <1> USE DEF deskVars, phoneVars, surfaceVars, allVars
  <1>1. Grows(Shown, Shown') /\ UNCHANGED restarts
    BY ShownGrows, ProcessLives DEF SurfacesInv
  <1>2. ASSUME Desk' \subseteq Desk \cup Shown, Phone' \subseteq Phone \cup Shown PROVE Grows(Named, Named')
    BY <1>1, <1>2 DEF Grows, Named
  <1>3. CASE UNCHANGED <<dialog, phoneVars>>
    BY <1>1, <1>2, <1>3
  <1>4. CASE Launch \/ Quit \/ QuitStep \/ WorkerStep \/ SubmitStep
    BY <1>3, <1>4 DEF Launch, Quit, QuitStep, WorkerStep, SubmitStep
  <1>5. CASE HandleSignal
    <2>1. UNCHANGED phoneVars /\ (dialog' = dialog \/ (decision # None /\ dialog' = ItemOf(decision)))
      BY <1>5 DEF HandleSignal, ForDesktop, ItemOf
    <2> QED
      BY <1>1, <1>2, <2>1 DEF Shown
  <1>6. ASSUME NEW ok \in BOOLEAN, AnswerDialog(ok) PROVE Grows(Named, Named')
    <2>1. dialog' = None /\ UNCHANGED phoneVars
      BY <1>6 DEF AnswerDialog
    <2> QED
      BY <1>1, <1>2, <2>1
  <1>7. CASE Poll
    <2>1. UNCHANGED <<dialog, page>> /\ replies' = replies \cup {Pending}
      BY <1>7 DEF Poll
    <2>2. OnTheWay(Pending) \subseteq Shown
      BY DEF OnTheWay, Pending, Shown, ItemOf
    <2>3. \A r \in replies : OnTheWay(r) \subseteq Way
      OBVIOUS
    <2>4. Way' \subseteq Way \cup OnTheWay(Pending)
      BY <2>1
    <2>5. Phone' \subseteq Phone \cup Shown
      <3> HIDE DEF Way
      <3>1. OnScreen(page') = OnScreen(page)
        BY <2>1
      <3> QED
        BY <1>1, <2>2, <2>4, <3>1
    <2> QED
      BY <1>2, <2>1, <2>5
  <1>8. ASSUME NEW reply \in Replies, Refresh(reply) PROVE Grows(Named, Named')
    <2>1. /\ UNCHANGED dialog /\ replies' = replies \ {reply} /\ reply \in replies
          /\ \/ page' = page
             \/ page' = [key |-> reply.key, card |-> reply.card, off |-> FALSE]
      BY <1>8 DEF Refresh
    <2>2. OnScreen(page') \subseteq OnScreen(page) \cup OnTheWay(reply)
      BY <2>1 DEF OnScreen, OnTheWay
    <2> QED
      BY <1>1, <1>2, <2>1, <2>2
  <1>9. ASSUME ~ \E x \in OnScreen(page') : TRUE, UNCHANGED <<dialog, replies>> PROVE Grows(Named, Named')
    BY <1>1, <1>2, <1>9
  <1>10. ASSUME NEW ok \in BOOLEAN, Tap(ok) PROVE Grows(Named, Named')
    <2>1. page'.off /\ UNCHANGED <<dialog, replies>>
      BY <1>10 DEF Tap, SurfacesInv, SurfaceTypes
    <2> QED
      BY <1>9, <2>1 DEF OnScreen
  <1>11. CASE TapLost
    <2>1. page'.off /\ UNCHANGED <<dialog, replies>>
      BY <1>11 DEF TapLost, SurfacesInv, SurfaceTypes
    <2> QED
      BY <1>9, <2>1 DEF OnScreen
  <1>12. CASE Reload
    BY <1>9, <1>12 DEF Reload, OnScreen
  <1> QED
    BY <1>3, <1>4, <1>5, <1>6, <1>7, <1>8, <1>10, <1>11, <1>12 DEF SurfacesNext

\* A decision is taken for what was shown: the id that matched names one capture.
LEMMA AnswerStep ==
    ASSUME SurfacesInv, [SurfacesNext]_allVars, ~ProcessEnds
    PROVE  /\ judged' \in [Captures -> {"desktop", "phone"} \X Captures \cup {None}]
           /\ AnswersShown'
  <1> USE DEF deskVars, phoneVars, surfaceVars, allVars
  <1>0. /\ judged \in [Captures -> {"desktop", "phone"} \X Captures \cup {None}]
        /\ AnswersShown /\ Faithful(Named, nextId) /\ UNCHANGED restarts
        /\ decision # None => decision.cap \in Captures /\ ItemOf(decision) \in Named
    BY ProcessLives DEF SurfacesInv, SurfaceTypes, Live, TypeOK, Parked, Named, Shown
  <1>1. CASE UNCHANGED judged
    BY <1>0, <1>1 DEF AnswersShown
  <1>2. ASSUME NEW surface \in {"desktop", "phone"}, NEW id, NEW shown \in Captures, Open(id),
               JudgedAs(surface, shown),
               surface = "phone" => restarts = 0,
               [id |-> id, cap |-> shown] \in Named
        PROVE  /\ judged' \in [Captures -> {"desktop", "phone"} \X Captures \cup {None}]
               /\ AnswersShown'
    <2>1. decision # None /\ decision.id = id
      BY <1>2 DEF Open
    <2>2. shown = decision.cap
      BY <1>0, <1>2, <2>1 DEF Faithful, ItemOf
    <2>3. judged' = [judged EXCEPT ![decision.cap] = <<surface, shown>>]
      BY <1>2 DEF JudgedAs
    <2> QED
      BY <1>0, <2>1, <2>2, <2>3 DEF AnswersShown
  <1>3. ASSUME NEW shown \in Captures, JudgedAs("phone", shown), decision # None, restarts # 0
        PROVE  /\ judged' \in [Captures -> {"desktop", "phone"} \X Captures \cup {None}]
               /\ AnswersShown'
    <2>1. judged' = [judged EXCEPT ![decision.cap] = <<"phone", shown>>]
      BY <1>3 DEF JudgedAs
    <2> QED
      BY <1>0, <1>3, <2>1 DEF AnswersShown
  <1>4. ASSUME NEW ok \in BOOLEAN, AnswerDialog(ok), Open(dialog.id)
        PROVE  /\ judged' \in [Captures -> {"desktop", "phone"} \X Captures \cup {None}]
               /\ AnswersShown'
    <2>1. dialog # None /\ dialog \in Item /\ JudgedAs("desktop", dialog.cap) /\ dialog \in Named
      BY <1>4 DEF AnswerDialog, SurfacesInv, SurfaceTypes, Named
    <2>2. dialog = [id |-> dialog.id, cap |-> dialog.cap] /\ dialog.cap \in Captures
      BY <2>1 DEF Item
    <2> QED
      BY <1>2, <1>4, <2>1, <2>2
  <1>5. ASSUME NEW ok \in BOOLEAN, Tap(ok), Open(page.key)
        PROVE  /\ judged' \in [Captures -> {"desktop", "phone"} \X Captures \cup {None}]
               /\ AnswersShown'
    <2>1. /\ page.card # None /\ ~page.off /\ page.card \in Captures
          /\ JudgedAs("phone", page.card) /\ decision # None
      BY <1>5 DEF Tap, Posted, Open, SurfacesInv, SurfaceTypes
    <2>2. CASE restarts = 0
      <3>1. [id |-> page.key, cap |-> page.card] \in Named
        BY <2>1, <2>2 DEF Named, OnScreen
      <3> QED
        BY <1>2, <1>5, <2>1, <2>2, <3>1
    <2> QED
      BY <1>3, <2>1, <2>2
  <1>6. ASSUME NEW ok \in BOOLEAN, AnswerDialog(ok) \/ Tap(ok)
        PROVE  /\ judged' \in [Captures -> {"desktop", "phone"} \X Captures \cup {None}]
               /\ AnswersShown'
    BY <1>1, <1>4, <1>5, <1>6 DEF AnswerDialog, Tap, Posted
  <1>7. CASE Launch \/ Quit \/ QuitStep \/ WorkerStep \/ SubmitStep \/ HandleSignal
    BY <1>1, <1>7 DEF Launch, Quit, QuitStep, WorkerStep, SubmitStep, HandleSignal
  <1>8. CASE Poll \/ TapLost \/ Reload \/ \E reply \in Replies : Refresh(reply)
    BY <1>1, <1>8 DEF Poll, TapLost, Reload, Refresh
  <1> QED
    BY <1>1, <1>6, <1>7, <1>8 DEF SurfacesNext

\* What the phone is told has the shape of a reply.
LEMMA SurfaceTypesStep ==
    ASSUME SurfacesInv, [SurfacesNext]_allVars, ~ProcessEnds
    PROVE  /\ main' \in {"down", "running", "quitting"} /\ signals' \in Nat
           /\ page' \in [key : Nat \cup {Stale}, card : Captures \cup {None}, off : BOOLEAN]
           /\ dialog' \in Item \cup {None}
           /\ main' = "quitting" => restarts < MaxRestarts
  <1> USE DEF deskVars, phoneVars, surfaceVars, allVars
  <1>0. /\ main \in {"down", "running", "quitting"} /\ signals \in Nat /\ dialog \in Item \cup {None}
        /\ page \in [key : Nat \cup {Stale}, card : Captures \cup {None}, off : BOOLEAN]
        /\ main = "quitting" => restarts < MaxRestarts
        /\ decision # None => ItemOf(decision) \in Item
    BY DEF SurfacesInv, SurfaceTypes, Live, TypeOK, Parked, Item, ItemOf
  <1>1. \A r \in Replies : r.key \in Nat /\ r.card \in Captures \cup {None}
    BY DEF Replies, Empty
  <1>2. CASE UNCHANGED surfaceVars
    BY <1>0, <1>2
  <1>3. CASE Launch \/ Quit \/ QuitStep \/ SubmitStep \/ WorkerStep
    BY <1>0, <1>3 DEF Launch, Quit, QuitStep, SubmitStep, WorkerStep
  <1>4. CASE HandleSignal
    <2>1. /\ UNCHANGED <<main, page>> /\ signals > 0 /\ signals' = signals - 1
          /\ dialog' = dialog \/ (decision # None /\ dialog' = ItemOf(decision))
      BY <1>4 DEF HandleSignal, ForDesktop, ItemOf
    <2> QED
      BY <1>0, <2>1
  <1>5. CASE \E ok \in BOOLEAN : AnswerDialog(ok)
    BY <1>0, <1>5 DEF AnswerDialog
  <1>6. CASE Poll
    BY <1>0, <1>6 DEF Poll
  <1>9. CASE Reload
    BY <1>0, <1>9 DEF Reload
  <1>7. CASE TapLost \/ \E ok \in BOOLEAN : Tap(ok)
    BY <1>0, <1>7 DEF TapLost, Tap
  <1>8. CASE \E reply \in Replies : Refresh(reply)
    BY <1>0, <1>1, <1>8 DEF Refresh
  <1> QED
    BY <1>2, <1>3, <1>4, <1>5, <1>6, <1>7, <1>8, <1>9 DEF SurfacesNext

\* The phone keeps what an earlier process told it; all else is as new.
LEMMA EndStep ==
    ASSUME SurfacesInv, ProcessEnds
    PROVE  SurfacesInv'
  <1> USE DEF ProcessEnds, phoneVars
  <1>1. /\ restarts \in 0..MaxRestarts /\ restarts < MaxRestarts /\ MaxRestarts \in Nat
        /\ restarts' = restarts + 1 /\ main' = "down"
    BY SurfacesAssumption DEF SurfacesInv, SurfaceTypes
  <1>2. TypeOK'
    <2>1. QueueTypes' /\ ItemTypes'
      BY DEF QueueTypes, ItemTypes
    <2>2. WorkTypes' /\ ThreadTypes'
      BY DEF WorkTypes, ThreadTypes
    <2> QED
      BY <2>1, <2>2 DEF SurfacesInv, Live, TypeOK, HistoryTypes, WorkerPoints
  <1>3. Live'
    BY <1>2 DEF Live, LockHeld, OneWorker, Alive, WorkHeld, Processing
  <1>4. Faithful(Named, nextId)'
    <2>1. Named' = {}
      BY <1>1 DEF Named, Shown
    <2> QED
      BY <2>1 DEF Faithful
  <1>5. AnswersShown'
    BY <1>1 DEF SurfacesInv, AnswersShown
  <1>6. SurfaceTypes'
    BY <1>1, <1>2 DEF SurfacesInv, SurfaceTypes
  <1> QED
    BY <1>1, <1>3, <1>4, <1>5, <1>6 DEF SurfacesInv

LEMMA SurfacesStep == SurfacesInv /\ [SurfacesNext]_allVars => SurfacesInv'
  <1> SUFFICES ASSUME SurfacesInv, [SurfacesNext]_allVars, ~ProcessEnds PROVE SurfacesInv'
    BY EndStep
  <1>1. [Next]_vars /\ UNCHANGED restarts
    BY ProcessLives DEF allVars, surfaceVars
  <1>2. Live' /\ TypeOK'
    BY <1>1, LiveStep DEF SurfacesInv, Live
  <1>3. Faithful(Named', nextId')
    <2>1. nextId \in Nat \ {0} /\ Faithful(Named, nextId)
      BY DEF SurfacesInv, Live, TypeOK, QueueTypes
    <2> QED
      BY <2>1, NamedGrows, FaithfulGrows
  <1>5. SurfaceTypes'
    BY <1>1, SurfaceTypesStep, AnswerStep DEF SurfacesInv, SurfaceTypes
  <1>6. Faithful(Named, nextId)' /\ AnswersShown' /\ (main' = "quitting" => restarts' < MaxRestarts)
    BY <1>1, <1>3, AnswerStep, SurfaceTypesStep DEF Faithful
  <1> QED
    BY <1>2, <1>5, <1>6 DEF SurfacesInv

(* An answer decides the capture its surface showed: however late the phone's *)
(* reply is drawn, however long a dialog stays open and whatever the other    *)
(* surface answered meanwhile, the id a surface holds is of that capture or   *)
(* of none, as long as its process lives (approve_pending, discard_pending).  *)
THEOREM AnswersReachTheShown == SurfacesSpec => []AnswersShown
  <1>1. SurfacesInit => SurfacesInv
    <2> SUFFICES ASSUME SurfacesInit PROVE SurfacesInv
      OBVIOUS
    <2>1. Init /\ Live
      BY InitInv DEF SurfacesInit, IInv, Live
    <2>2. SurfaceTypes
      BY <2>1, SurfacesAssumption DEF SurfacesInit, SurfaceTypes, Live
    <2>3. Named = {}
      BY <2>1 DEF SurfacesInit, Init, Named, Shown, OnScreen
    <2>4. AnswersShown
      BY DEF SurfacesInit, AnswersShown
    <2> QED
      BY <2>1, <2>2, <2>3, <2>4 DEF SurfacesInv, SurfacesInit, Faithful
  <1>2. SurfacesInv => AnswersShown
    BY DEF SurfacesInv
  <1> QED
    BY <1>1, <1>2, SurfacesStep, PTL DEF SurfacesSpec
=============================================================================
