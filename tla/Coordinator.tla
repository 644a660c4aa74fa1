---------------------------- MODULE Coordinator ----------------------------
(***************************************************************************)
(* CaptureCoordinator (app/coordinator.py): submitting threads put captures *)
(* on a bounded queue, ONE worker thread takes them off and walks each      *)
(* through analysis, a human decision and the commit, and a controller      *)
(* thread starts and stops the worker.                                      *)
(*                                                                          *)
(* A step of this module is the code between two points at which another    *)
(* thread can observe or change the coordinator: a critical section of      *)
(* _items_lock or _decision_lock, a call on queue.Queue, a test of          *)
(* _shutdown, or a call out of the class (organizer, repository, vault).    *)
(* _enqueue holds _items_lock over two such points (put_nowait, then the    *)
(* append), so it is two steps and every other section of that lock is      *)
(* guarded by itemsLock = None.                                             *)
(***************************************************************************)
EXTENDS Integers, Sequences, FiniteSets

CONSTANTS Captures,     \* the texts submitted, each at most once
          Submitters,   \* hotkey thread, tray (Qt main) thread, phone request threads
          Notes,        \* ids of the notes the captures become
          NoteOf,       \* content-addressed: the note a capture becomes
          MaxPending,   \* queue.Queue(maxsize=max_pending)
          RecentCap,    \* _RECENT_CAP, the length of the finished history
          BacklogCap,   \* _ENRICH_BACKLOG_CAP
          ReviewMode,   \* "auto": auto_approve; "inline": review=f; "parked": review=None
          EnrichOn,     \* an enrich function was injected
          None

ASSUME CoordinatorAssumption ==
    /\ MaxPending \in Nat \ {0}          \* __init__ refuses max_pending < 1
    /\ RecentCap \in Nat \ {0}
    /\ BacklogCap \in Nat \ {0}
    /\ NoteOf \in [Captures -> Notes]
    /\ ReviewMode \in {"auto", "inline", "parked"}
    /\ EnrichOn \in BOOLEAN
    /\ None \notin Captures \cup Submitters \cup Notes

VARIABLES
    queue,        \* _queue: the requests waiting
    queuedItems,  \* _queued_items: their descriptors, [id, cap]
    inflight,     \* _inflight: the descriptor being processed, or None
    recent,       \* _recent: finished descriptors, newest first
    nextId,       \* next value of the _seq counter
    itemsLock,    \* the submitter holding _items_lock between its two steps, or None
    enqueuing,    \* [Submitters -> capture put on the queue but not yet described, or None]
    pc,           \* where the worker thread is; "dead" when no thread runs
    request,      \* the request _process was called with, or None
    kind,         \* what start_review proposed: a new "note" or a status/edit "event"
    approved,     \* what _await_decision returned
    decision,     \* _decision: the parked [id, cap, set, approved], or None
    shutdown,     \* _shutdown
    threadRef,    \* _thread is not None
    stopping,     \* where the controller is inside stop(): "no", "signal" or "join"
    backlog,      \* _enrich_backlog
    \* History variables: nothing in the code reads them.
    outcome,      \* what became of each capture
    indexed,      \* captures whose note or event reached the repository
    acked,        \* the decision a surface was told it made (_resolve returned True)
    started,      \* the last lifecycle call made was start()
    overtaken     \* enrichment jobs begun while a capture was queued, since the last get

queueVars    == <<queue, queuedItems, nextId, itemsLock, enqueuing>>
itemVars     == <<inflight, recent>>
workVars     == <<request, kind, approved>>
threadVars   == <<shutdown, threadRef, stopping, started>>
lineVars     == <<queueVars, threadVars>>    \* what the worker leaves alone once it has a request
historyVars  == <<outcome, indexed, acked>>
vars == <<queueVars, itemVars, pc, workVars, decision, threadVars, backlog,
          historyVars, overtaken>>

(* The worker's program points.  "top" is the loop test, "begin" the gap     *)
(* between Queue.get and _begin_inflight, "park" the gap between emitting    *)
(* AWAITING_REVIEW and _await_decision, "check" and "wait" the two halves of *)
(* its polling loop, "resolved" its finally clause, and "after" the          *)
(* post-commit hook.                                                         *)
WorkerPoints == {"dead", "top", "get", "begin", "analyze", "park", "check", "wait",
                 "resolved", "commit", "write", "after", "end", "idle", "enrich"}

Processing == {"analyze", "park", "check", "wait", "resolved", "commit", "write",
               "after", "end"}

Outcomes == {"unsent", "empty", "rejected", "waiting", "saved", "stale", "discarded",
             "failed"}

(* _TERMINAL_ITEM_STATE restricted to the stages that end an in-flight item; *)
(* "stale" is PROJECTION_FAILED, whose item still reads SAVED.               *)
Finished == {"saved", "stale", "discarded", "failed"}

Item  == [id : Nat \ {0}, cap : Captures]
Parked == [id : Nat \ {0}, cap : Captures, set : BOOLEAN, approved : BOOLEAN]

ASSUME NoneAssumption == None \notin Item \cup Parked

Alive == pc # "dead"

-----------------------------------------------------------------------------
Init ==
    /\ queue = <<>> /\ queuedItems = <<>> /\ inflight = None /\ recent = <<>>
    /\ nextId = 1 /\ itemsLock = None /\ enqueuing = [s \in Submitters |-> None]
    /\ pc = "dead" /\ request = None /\ kind = "note" /\ approved = FALSE
    /\ decision = None /\ shutdown = FALSE /\ threadRef = FALSE /\ stopping = "no"
    /\ backlog = <<>>
    /\ outcome = [c \in Captures |-> "unsent"]
    /\ indexed = {} /\ acked = [c \in Captures |-> "none"]
    /\ started = FALSE /\ overtaken = 0

-----------------------------------------------------------------------------
(* Submitting threads *)

\* Nothing selected (EMPTY), a capture backend that raised, or blank typed
\* text: the submitter is told so and nothing is enqueued.
SubmitNothing(c) ==
    /\ outcome[c] = "unsent"
    /\ outcome' = [outcome EXCEPT ![c] = "empty"]
    /\ UNCHANGED <<queueVars, itemVars, pc, workVars, decision, threadVars, backlog,
                   indexed, acked, overtaken>>

\* queue.Queue.put_nowait accepts while fewer than maxsize requests wait.
HasRoomBug == Len(queue) <= MaxPending
HasRoom    == Len(queue) < MaxPending

\* put_nowait under _items_lock; a full queue is REJECTED_BUSY.
Submit(s, c) ==
    /\ enqueuing[s] = None /\ itemsLock = None
    /\ outcome[c] = "unsent"
    /\ IF HasRoom
       THEN /\ queue' = Append(queue, c)
            /\ itemsLock' = s
            /\ enqueuing' = [enqueuing EXCEPT ![s] = c]
            /\ outcome' = [outcome EXCEPT ![c] = "waiting"]
       ELSE /\ outcome' = [outcome EXCEPT ![c] = "rejected"]
            /\ UNCHANGED <<queue, itemsLock, enqueuing>>
    /\ UNCHANGED <<queuedItems, nextId, itemVars, pc, workVars, decision, threadVars,
                   backlog, indexed, acked, overtaken>>

\* _describe: a descriptor for capture c with the next id of the counter.
DescribedFirst(c) ==   \* bug: joins at the wrong end
    /\ queuedItems' = <<[id |-> nextId, cap |-> c]>> \o queuedItems
    /\ nextId' = nextId + 1
Described(c) ==
    /\ queuedItems' = Append(queuedItems, [id |-> nextId, cap |-> c])
    /\ nextId' = nextId + 1

\* The append to _queued_items; the lock is released.
Describe(s) ==
    /\ itemsLock = s
    /\ Described(enqueuing[s])
    /\ itemsLock' = None
    /\ enqueuing' = [enqueuing EXCEPT ![s] = None]
    /\ UNCHANGED <<queue, itemVars, pc, workVars, decision, threadVars, backlog,
                   historyVars, overtaken>>

-----------------------------------------------------------------------------
(* The worker thread *)

\* while not self._shutdown.is_set()
LoopTop ==
    /\ pc = "top"
    /\ pc' = IF shutdown THEN "dead" ELSE "get"
    /\ UNCHANGED <<lineVars, itemVars, workVars, decision, backlog, historyVars, overtaken>>

Get ==
    /\ pc = "get" /\ queue # <<>>
    /\ request' = Head(queue)
    /\ queue' = Tail(queue)
    /\ pc' = "begin"
    /\ overtaken' = 0
    /\ UNCHANGED <<queuedItems, nextId, itemsLock, enqueuing, itemVars, kind, approved,
                   decision, threadVars, backlog, historyVars>>

\* queue.Empty after the poll interval: process_one returns None.
GetTimeout ==
    /\ pc = "get" /\ queue = <<>>
    /\ pc' = "idle"
    /\ UNCHANGED <<lineVars, itemVars, workVars, decision, backlog, historyVars, overtaken>>

\* popleft of the descriptors.
TakeFirst ==
    /\ inflight' = Head(queuedItems)
    /\ queuedItems' = Tail(queuedItems)

\* _begin_inflight, then CAPTURING: the front descriptor becomes the in-flight
\* one; without any, a fresh descriptor is made for the request.
Begin ==
    /\ pc = "begin" /\ itemsLock = None
    /\ IF queuedItems # <<>>
       THEN TakeFirst /\ UNCHANGED nextId
       ELSE /\ inflight' = [id |-> nextId, cap |-> request]
            /\ nextId' = nextId + 1
            /\ UNCHANGED queuedItems
    /\ pc' = "analyze"
    /\ UNCHANGED <<queue, itemsLock, enqueuing, recent, workVars, decision, threadVars,
                   backlog, historyVars, overtaken>>

\* A terminal stage of the capture being processed.
FinishUnlessDiscarded(result) ==   \* bug: _TERMINAL_ITEM_STATE without DISCARDED
    outcome' = IF result = "discarded" THEN outcome ELSE [outcome EXCEPT ![request] = result]
Finish(result) == outcome' = [outcome EXCEPT ![request] = result]

\* start_review: the raw text goes to the inbox, the model proposes a note or
\* an update of an existing one; then AWAITING_REVIEW is emitted.
Analyze ==
    /\ pc = "analyze"
    /\ \/ /\ kind' \in {"note", "event"}
          /\ pc' = "park"
          /\ UNCHANGED outcome
       \/ /\ Finish("failed")
          /\ pc' = "end"
          /\ UNCHANGED kind
    /\ UNCHANGED <<lineVars, itemVars, request, approved, decision, backlog, indexed,
                   acked, overtaken>>

\* The head of _await_decision: auto_approve, an injected review (which may
\* raise), or the decision parked for any surface.
Park ==
    /\ pc = "park" /\ itemsLock = None
    /\ \/ /\ ReviewMode = "auto"
          /\ approved' = TRUE /\ pc' = "resolved"
          /\ UNCHANGED <<decision, outcome>>
       \/ /\ ReviewMode = "inline"
          /\ approved' \in BOOLEAN /\ pc' = "resolved"
          /\ UNCHANGED <<decision, outcome>>
       \/ /\ ReviewMode = "inline"
          /\ Finish("failed") /\ pc' = "end"
          /\ UNCHANGED <<approved, decision>>
       \/ /\ ReviewMode = "parked"
          /\ decision' = [id |-> inflight.id, cap |-> inflight.cap,
                          set |-> FALSE, approved |-> FALSE]
          /\ pc' = "check"
          /\ UNCHANGED <<approved, outcome>>
    /\ UNCHANGED <<lineVars, itemVars, request, kind, backlog, indexed, acked, overtaken>>

\* while not self._shutdown.is_set(): leaving the loop is a discard, whatever
\* a surface has put in the decision meanwhile.
LeaveOrWaitStale ==    \* bug: leaves with the previous capture's decision
    /\ pc' = IF shutdown THEN "resolved" ELSE "wait"
    /\ UNCHANGED approved
LeaveOrWaitForever ==  \* bug: while True
    /\ pc' = "wait"
    /\ UNCHANGED approved
LeaveOrWait ==
    IF shutdown
    THEN approved' = FALSE /\ pc' = "resolved"
    ELSE pc' = "wait" /\ UNCHANGED approved

Check ==
    /\ pc = "check"
    /\ LeaveOrWait
    /\ UNCHANGED <<lineVars, itemVars, request, kind, decision, backlog, historyVars,
                   overtaken>>

\* decision.event.wait(timeout=_POLL_INTERVAL)
Wait ==
    /\ pc = "wait"
    /\ IF decision.set
       THEN approved' = decision.approved /\ pc' = "resolved"
       ELSE pc' = "check" /\ UNCHANGED approved
    /\ UNCHANGED <<lineVars, itemVars, request, kind, decision, backlog, historyVars,
                   overtaken>>

\* The finally clause of _await_decision, then DISCARDED or COMMITTING.
Resolved ==
    /\ pc = "resolved"
    /\ decision' = None
    /\ IF approved
       THEN pc' = "commit" /\ UNCHANGED outcome
       ELSE Finish("discarded") /\ pc' = "end"
    /\ UNCHANGED <<lineVars, itemVars, workVars, backlog, indexed, acked, overtaken>>

\* The index entry of the approved capture.
RecordUnlessEvent ==   \* bug: the event of an update is never appended
    indexed' = IF kind = "note" THEN indexed \cup {request} ELSE indexed
Record == indexed' = indexed \cup {request}

\* approve() up to the repository write: repo.add_note of a new note, or the
\* one status or edit event of an update, after which the capture is SAVED.
Commit ==
    /\ pc = "commit"
    /\ \/ /\ Record
          /\ IF kind = "note"
             THEN pc' = "write" /\ UNCHANGED outcome
             ELSE Finish("saved") /\ pc' = "after"
       \/ /\ Finish("failed")
          /\ pc' = "end"
          /\ UNCHANGED indexed
    /\ UNCHANGED <<lineVars, itemVars, workVars, decision, backlog, acked, overtaken>>

\* The rest of approve(): the typed edges, vault.write, the placement edges and
\* the implied status events.  Entity extraction cannot fail the capture.
Write ==
    /\ pc = "write"
    /\ \/ Finish("saved") /\ pc' = "after"
       \/ Finish("failed") /\ pc' = "end"
    /\ UNCHANGED <<lineVars, itemVars, workVars, decision, backlog, indexed, acked,
                   overtaken>>

\* submit_enrichment: dropped when off, already queued, or the backlog is full.
Enqueued(note) ==
    IF \/ ~EnrichOn
       \/ \E i \in 1..Len(backlog) : backlog[i] = note
       \/ Len(backlog) >= BacklogCap
    THEN backlog
    ELSE Append(backlog, note)

\* _run_after_commit: the re-projection, then the enrichment request of a new
\* note.  A hook that raises has not reached the latter; the note stays saved.
AfterCommit ==
    /\ pc = "after"
    /\ pc' = "end"
    /\ \/ /\ backlog' = IF kind = "note" THEN Enqueued(NoteOf[request]) ELSE backlog
          /\ UNCHANGED outcome
       \/ /\ Finish("stale")
          /\ UNCHANGED backlog
    /\ UNCHANGED <<lineVars, itemVars, workVars, decision, indexed, acked, overtaken>>

Truncate(s, n) == IF Len(s) > n THEN SubSeq(s, 1, n) ELSE s

\* The in-flight descriptor moves to the head of the history.
RetireLate ==          \* bug: cleared before it is read
    /\ inflight' = None
    /\ recent' = Truncate(<<inflight'>> \o recent, RecentCap)
RetireItem ==
    /\ recent' = Truncate(<<inflight>> \o recent, RecentCap)
    /\ inflight' = None

\* _end_inflight, then IDLE.
EndInflight ==
    /\ pc = "end" /\ itemsLock = None
    /\ RetireItem
    /\ request' = None
    /\ pc' = "idle"
    /\ UNCHANGED <<lineVars, kind, approved, decision, backlog, historyVars, overtaken>>

\* if self._queue.empty() and not self._shutdown.is_set()
MayEnrich == queue = <<>> /\ ~shutdown

Idle ==
    /\ pc = "idle"
    /\ pc' = IF MayEnrich THEN "enrich" ELSE "top"
    /\ UNCHANGED <<lineVars, itemVars, workVars, decision, backlog, historyVars, overtaken>>

\* popleft of the oldest job: run once, whether it succeeds or fails.
RequeueJob == backlog' = Append(Tail(backlog), Head(backlog))   \* bug: retried forever
TakeJob    == backlog' = Tail(backlog)

DrainFirst == pc' = IF backlog # <<>> THEN "enrich" ELSE "top"  \* bug: while, not if
NextTurn   == pc' = "top"

\* run_one_enrichment.
Enrich ==
    /\ pc = "enrich"
    /\ NextTurn
    /\ IF backlog # <<>>
       THEN /\ TakeJob
            /\ overtaken' = IF queue # <<>> THEN overtaken + 1 ELSE overtaken
       ELSE UNCHANGED <<backlog, overtaken>>
    /\ UNCHANGED <<lineVars, itemVars, workVars, decision, historyVars>>

Worker ==
    \/ LoopTop \/ Get \/ GetTimeout \/ Begin \/ Analyze \/ Park \/ Check \/ Wait
    \/ Resolved \/ Commit \/ Write \/ AfterCommit \/ EndInflight \/ Idle \/ Enrich

-----------------------------------------------------------------------------
(* Review surfaces *)

OpenTwice(id) == decision # None /\ decision.id = id    \* bug: event.is_set() not tested
OpenToAny(id) == decision # None /\ ~decision.set       \* bug: the id is not compared
Open(id) == decision # None /\ decision.id = id /\ ~decision.set

ResolvedSilently(ok) == [decision EXCEPT !.approved = ok] \* bug: no event.set()
ResolvedWith(ok) == [decision EXCEPT !.set = TRUE, !.approved = ok]

\* approve_pending / discard_pending with any id the caller holds, the first
\* one to match an undecided review winning.
Resolve(id, ok) ==
    /\ Open(id)
    /\ decision' = ResolvedWith(ok)
    /\ acked' = [acked EXCEPT ![decision.cap] = IF ok THEN "approve" ELSE "discard"]
    /\ UNCHANGED <<queueVars, itemVars, pc, workVars, threadVars, backlog, outcome,
                   indexed, overtaken>>

Decide == \E ok \in BOOLEAN : decision # None /\ Resolve(decision.id, ok)

-----------------------------------------------------------------------------
(* The controller thread *)

\* start(): a thread that is still alive is left alone, shutdown flag and all.
Start ==
    /\ stopping = "no"
    /\ started' = TRUE
    /\ IF threadRef /\ Alive
       THEN UNCHANGED <<shutdown, threadRef, pc>>
       ELSE shutdown' = FALSE /\ threadRef' = TRUE /\ pc' = "top"
    /\ UNCHANGED <<queueVars, itemVars, workVars, decision, stopping, backlog, historyVars,
                   overtaken>>

Stop ==
    /\ stopping = "no"
    /\ shutdown' = TRUE
    /\ started' = FALSE
    /\ stopping' = "signal"
    /\ UNCHANGED <<queueVars, itemVars, pc, workVars, decision, threadRef, backlog,
                   historyVars, overtaken>>

\* Wake a parked review; its approved flag is left as it is.
StopSignal ==
    /\ stopping = "signal"
    /\ decision' = IF decision = None THEN None ELSE [decision EXCEPT !.set = TRUE]
    /\ stopping' = "join"
    /\ UNCHANGED <<queueVars, itemVars, pc, workVars, shutdown, threadRef, started, backlog,
                   historyVars, overtaken>>

\* join(timeout): the reference goes only if the worker really ended.
Forget  == FALSE                    \* bug: dropped although the join timed out
KeepRef == threadRef /\ Alive

StopJoin ==
    /\ stopping = "join"
    /\ stopping' = "no"
    /\ threadRef' = KeepRef
    /\ UNCHANGED <<queueVars, itemVars, pc, workVars, decision, shutdown, started, backlog,
                   historyVars, overtaken>>

Controller == Start \/ Stop \/ StopSignal \/ StopJoin

-----------------------------------------------------------------------------
Submitting == \/ \E c \in Captures : SubmitNothing(c)
              \/ \E s \in Submitters, c \in Captures : Submit(s, c)
              \/ \E s \in Submitters : Describe(s)

Next == Submitting \/ Worker \/ Decide \/ Controller

Spec == Init /\ [][Next]_vars

\* Threads that hold the lock or run the worker are scheduled, the calls they
\* make return or raise (the model calls carry timeouts), and stop() completes.
Scheduling == /\ WF_vars(Worker)
              /\ \A s \in Submitters : WF_vars(Describe(s))
              /\ WF_vars(StopSignal) /\ WF_vars(StopJoin)

FairSpec == Spec /\ Scheduling

\* Somebody eventually answers a review that stays open.  No thread of the
\* program does, so it is no part of the scheduling: what needs it says so.
Answered == WF_vars(Decide)

-----------------------------------------------------------------------------
(* Properties *)

QueueTypes ==
    /\ queue \in Seq(Captures) /\ queuedItems \in Seq(Item)
    /\ nextId \in Nat \ {0}
    /\ itemsLock \in Submitters \cup {None}
    /\ enqueuing \in [Submitters -> Captures \cup {None}]

ItemTypes == inflight \in Item \cup {None} /\ recent \in Seq(Item)

WorkTypes ==
    /\ request \in Captures \cup {None}
    /\ kind \in {"note", "event"} /\ approved \in BOOLEAN

ThreadTypes ==
    /\ shutdown \in BOOLEAN /\ threadRef \in BOOLEAN /\ started \in BOOLEAN
    /\ stopping \in {"no", "signal", "join"}

HistoryTypes ==
    /\ outcome \in [Captures -> Outcomes] /\ indexed \in SUBSET Captures
    /\ acked \in [Captures -> {"none", "approve", "discard"}]

TypeOK ==
    /\ QueueTypes /\ ItemTypes /\ WorkTypes /\ ThreadTypes /\ HistoryTypes
    /\ pc \in WorkerPoints
    /\ decision \in Parked \cup {None}
    /\ backlog \in Seq(Notes) /\ overtaken \in Nat

(* Descriptor i of the queue view mirrors request i of the queue.  A request  *)
(* the worker has just taken is still in the view, and one a submitter has    *)
(* just put is not in it yet: _enqueue and _begin_inflight keep the two in    *)
(* step although only the descriptors are under _items_lock.                  *)
Unshown == IF itemsLock = None THEN 0 ELSE 1
Taken   == IF pc = "begin" THEN 1 ELSE 0
RequestAt(i) == IF i = 0 THEN request ELSE queue[i]

QueueMirror ==
    /\ Len(queuedItems) + Unshown = Taken + Len(queue)
    /\ \A i \in 1..Len(queuedItems) : queuedItems[i].cap = RequestAt(i - Taken)

(* The capture shown in flight, and offered for review, is the one whose text *)
(* the worker is processing: an approval can never commit another capture.    *)
ShownIsProcessed ==
    /\ pc \in Processing => inflight # None /\ inflight.cap = request
    /\ decision # None => decision.cap = request /\ inflight = [id |-> decision.id,
                                                                cap |-> decision.cap]

(* With reviews parked for the surfaces, nothing reaches the repository that  *)
(* a surface has not approved: neither a discard, nor stop(), nor a decision  *)
(* left over from an earlier capture ever lets a capture be committed.        *)
CommitOnlyApproved ==
    ReviewMode = "parked" => \A c \in indexed : acked[c] = "approve"

(* A capture is settled as saved exactly when its note or event reached the   *)
(* repository, failures after the repository write apart.                     *)
SavedIsCommitted ==
    \A c \in Captures :
        /\ outcome[c] \in {"saved", "stale"} => c \in indexed
        /\ outcome[c] = "discarded" => c \notin indexed

(* "whichever acts first" (_await_decision): once a surface has been told its *)
(* decision counted, no other surface is told the same of a different one.    *)
FirstDecisionWins ==
    [][\A c \in Captures : acked[c] # "none" => acked'[c] = acked[c]]_vars

(* "a capture submitted during an enrichment's LLM call waits at most that    *)
(* one call - never a whole backlog" (_worker).                               *)
EnrichmentYields == overtaken <= 1

(* Two workers never run: a second start() while the first still drains does  *)
(* not spawn another, so the worker only ever comes up from the dead.         *)
NoSecondWorker == [][pc' = "top" => pc \in {"dead", "top", "idle", "enrich"}]_vars

(* The coordinator keeps the promise of CaptureLine: its line is the request  *)
(* not yet settled and those behind it.                                       *)
Settled == request # None /\ outcome[request] # "waiting"
InLine  == IF request = None \/ Settled THEN queue ELSE <<request>> \o queue
Current == IF Settled THEN request ELSE None
Line    == INSTANCE CaptureLine WITH line <- InLine, current <- Current
LinePromise == Line!LineSpec

(* stop() ends the worker even if it is parked in a review nobody answers.    *)
StopEndsWorker == shutdown ~> (~Alive \/ ~shutdown)

(* A running coordinator settles every capture it accepted, if reviews are    *)
(* answered.                                                                  *)
Progress ==
    Answered => \A c \in Captures :
        outcome[c] = "waiting" ~> (outcome[c] # "waiting" \/ shutdown \/ ~started)

(* Idle priority is not starvation: a queued enrichment is run or stop()ped,  *)
(* if reviews are answered.                                                   *)
BacklogDrains ==
    Answered => \A n \in Notes :
        (\E i \in 1..Len(backlog) : backlog[i] = n)
            ~> (shutdown \/ ~\E i \in 1..Len(backlog) : backlog[i] = n)

(* Nothing the coordinator has accepted is forgotten while it runs: neither a *)
(* capture nor a queued enrichment (submit, submit_enrichment, _worker).      *)
AcceptedIsServed == Progress /\ BacklogDrains
-----------------------------------------------------------------------------
(* The inductive invariant behind TypeOK, QueueMirror, ShownIsProcessed,      *)
(* CommitOnlyApproved, SavedIsCommitted and LinePromise.                      *)

Undecided == {"begin", "analyze", "park", "check", "wait", "resolved", "commit", "write"}

\* The lock is held exactly by the submitter between its two steps.
LockHeld == \A s \in Submitters : itemsLock = s <=> enqueuing[s] # None

\* What a submitter has put and not yet described is the last request put.
LastPut == itemsLock # None => RequestAt(Len(queue)) = enqueuing[itemsLock]

\* A thread that runs is referenced, so that start() finds it.
OneWorker == Alive => threadRef

\* The worker has a request and an in-flight item exactly while processing.
WorkHeld ==
    /\ pc \in Processing \cup {"begin"} <=> request # None
    /\ pc \in Processing <=> inflight # None
    /\ decision # None => pc \in {"check", "wait", "resolved"}
    /\ pc \in {"check", "wait"} => decision # None

\* A capture is waiting in one place only, and nothing of it is committed yet.
WaitingOnce ==
    /\ \A i \in 1..Len(queue) : outcome[queue[i]] = "waiting" /\ queue[i] # request
    /\ \A i, j \in 1..Len(queue) : queue[i] = queue[j] => i = j
    /\ pc \in Undecided => outcome[request] = "waiting"
    /\ pc = "after" => outcome[request] = "saved"
    /\ pc = "end" => outcome[request] \in Finished
    /\ \A c \in indexed : outcome[c] \notin {"unsent", "empty", "rejected"}
    /\ \A c \in indexed : outcome[c] = "waiting" => c = request /\ pc = "write"
    /\ pc \in {"write", "after"} => request \in indexed

\* How far the decision on the waiting captures has got.
DecisionStage ==
    /\ \A c \in Captures : acked[c] # "none" => outcome[c] \notin {"unsent", "empty", "rejected"}
    /\ \A c \in Captures :
            outcome[c] = "waiting" /\ acked[c] # "none"
                => c = request /\ pc \in {"check", "wait", "resolved", "commit", "write"}
    /\ decision # None =>
            /\ ~decision.set => acked[decision.cap] = "none" /\ ~decision.approved
            /\ decision.approved => acked[decision.cap] = "approve"
    /\ ReviewMode = "parked" =>
            /\ pc = "resolved" /\ approved => acked[request] = "approve"
            /\ pc \in {"commit", "write"} => acked[request] = "approve"

IInv ==
    /\ TypeOK /\ QueueMirror /\ ShownIsProcessed
    /\ LockHeld /\ LastPut /\ OneWorker /\ WorkHeld
    /\ WaitingOnce /\ DecisionStage /\ CommitOnlyApproved /\ SavedIsCommitted
    /\ Len(queue) <= MaxPending
-----------------------------------------------------------------------------
(* Claims of the code that the code does not keep *)

(* approve_pending "Returns True if it resolved this call": an approval that  *)
(* was acknowledged is carried out.                                           *)
ApprovalHonoured ==
    \A c \in Captures : acked[c] = "approve" => outcome[c] # "discarded"

(* Stage.FAILED: "the capture itself failed; nothing was committed".          *)
FailedCommitsNothing ==
    \A c \in Captures : outcome[c] = "failed" => c \notin indexed

(* start(): "Start the background worker (idempotent)": after it, accepted    *)
(* captures are served until stop() is called.                                *)
StartServes ==
    \A c \in Captures : (started /\ outcome[c] = "waiting")
                            ~> (outcome[c] # "waiting" \/ ~started)
=============================================================================
