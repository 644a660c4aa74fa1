-------------------------- MODULE ReviewSurfaces ---------------------------
(***************************************************************************)
(* The desktop app with its phone server (run_app and _start_phone_server   *)
(* in app/gui.py, the page of app/mobile_api.py) around one                 *)
(* CaptureCoordinator: two surfaces answer the review the worker has parked.*)
(*                                                                          *)
(* The desktop surface is the Qt main thread: status changes reach it as    *)
(* queued signals, and it answers from a modal dialog whose nested event    *)
(* loop goes on handling them.  The phone surface is a web page that polls: *)
(* its replies may come late, and its posts be lost.                        *)
(* The page outlives the process; the coordinator, its ids included, does   *)
(* not.                                                                     *)
(***************************************************************************)
EXTENDS Coordinator

CONSTANTS PhoneCaptures,   \* captures whose source is the phone
          MaxRestarts,     \* bound: how often the process may end and come back
          MaxReplies       \* bound: how many different replies are on their way
                           \* ReviewMode is "parked" in the app: run_app passes no review

ASSUME SurfacesAssumption ==
    /\ PhoneCaptures \subseteq Captures
    /\ MaxRestarts \in Nat /\ MaxReplies \in Nat \ {0}

VARIABLES
    main,       \* the main thread: "down", "running" or "quitting"
    signals,    \* AWAITING_REVIEW status changes queued for the main thread
    dialog,     \* the review the open dialog was built from, [id, cap], or None
    page,       \* the phone page: [key |-> renderedPendingKey, card |-> capture shown,
                \*                  off |-> are its buttons disabled?]
    replies,    \* the answers to GET /api/pending on their way to the page
    restarts,
    judged      \* history: by capture, the surface that decided it and what it showed

deskVars    == <<main, signals, dialog>>
phoneVars   == <<page, replies>>
surfaceVars == <<deskVars, phoneVars, restarts, judged>>
allVars     == <<vars, surfaceVars>>

Stale == -1      \* renderedPendingKey = null: the next poll renders
Empty == 0       \* "Nothing to review."

SurfacesInit ==
    /\ Init
    /\ main = "down" /\ signals = 0 /\ dialog = None
    /\ page = [key |-> Stale, card |-> None, off |-> FALSE] /\ replies = {}
    /\ restarts = 0
    /\ judged = [c \in Captures |-> None]

-----------------------------------------------------------------------------
(* Desktop *)

Launch ==
    /\ main = "down" /\ Start
    /\ main' = "running"
    /\ UNCHANGED <<signals, dialog, phoneVars, restarts, judged>>

\* The worker's own steps; bridge.status_changed.emit queues a signal.
WorkerStep ==
    /\ Worker
    /\ signals' = IF pc = "analyze" /\ pc' = "park" THEN signals + 1 ELSE signals
    /\ UNCHANGED <<main, dialog, phoneVars, restarts, judged>>

SubmitStep ==
    /\ main # "down" /\ Submitting
    /\ UNCHANGED surfaceVars

ForDesktop(d) == d # None /\ d.cap \notin PhoneCaptures

\* _on_status_changed, _show_pending_review: nothing while a dialog is open,
\* else a dialog for whatever desktop capture is parked at this moment.
HandleSignal ==
    /\ main = "running" /\ signals > 0
    /\ signals' = signals - 1
    /\ dialog' = IF dialog = None /\ ForDesktop(decision)
                 THEN [id |-> decision.id, cap |-> decision.cap]
                 ELSE dialog
    /\ UNCHANGED <<vars, main, phoneVars, restarts, judged>>

JudgedAs(surface, shown) == judged' = [judged EXCEPT ![decision.cap] = <<surface, shown>>]

\* The dialog closes; approve_pending / discard_pending gets the id it was opened with.
AnswerDialog(ok) ==
    /\ main = "running" /\ dialog # None
    /\ dialog' = None
    /\ IF Open(dialog.id)
       THEN Resolve(dialog.id, ok) /\ JudgedAs("desktop", dialog.cap)
       ELSE UNCHANGED <<vars, judged>>
    /\ UNCHANGED <<main, signals, phoneVars, restarts>>

\* app.exec() returns (an open dialog is rejected first) and stop() begins.
Quit ==
    /\ main = "running" /\ dialog = None /\ restarts < MaxRestarts
    /\ Stop
    /\ main' = "quitting"
    /\ UNCHANGED <<signals, dialog, phoneVars, restarts, judged>>

QuitStep ==
    /\ main = "quitting" /\ (StopSignal \/ StopJoin)
    /\ UNCHANGED surfaceVars

\* The process ends: after stop() returned, or killed at any point.  Everything
\* the coordinator keeps is in memory; the index and the phone's page survive.
ProcessEnds ==
    /\ \/ main = "running" /\ restarts < MaxRestarts
       \/ main = "quitting" /\ stopping = "no"
    /\ main' = "down" /\ signals' = 0 /\ dialog' = None
    /\ restarts' = restarts + 1
    /\ queue' = <<>> /\ queuedItems' = <<>> /\ inflight' = None /\ recent' = <<>>
    /\ nextId' = 1 /\ itemsLock' = None /\ enqueuing' = [s \in Submitters |-> None]
    /\ pc' = "dead" /\ request' = None /\ kind' = "note" /\ approved' = FALSE
    /\ decision' = None /\ shutdown' = FALSE /\ threadRef' = FALSE /\ stopping' = "no"
    /\ backlog' = <<>> /\ started' = FALSE /\ overtaken' = 0
    /\ UNCHANGED <<outcome, indexed, acked, phoneVars, judged>>

-----------------------------------------------------------------------------
(* Phone *)

\* What a reply may say.
Replies == {[key |-> Empty, card |-> None]} \cup [key : 1..Cardinality(Captures), card : Captures]

\* GET /api/pending: the review parked at that moment, by its id.
Pending == IF decision = None THEN [key |-> Empty, card |-> None]
           ELSE [key |-> decision.id, card |-> decision.cap]

\* Every 1.5 seconds, and after a tap: what is on its way is not waited for.
Poll ==
    /\ main # "down"
    /\ replies' = replies \cup {Pending} /\ Cardinality(replies') <= MaxReplies
    /\ UNCHANGED <<vars, deskVars, page, restarts, judged>>

NeverRerender(reply) == page.key = Stale         \* bug: rendered once only
MustRender(reply)    == page.key # reply.key

\* refresh(): rendered again only when the ids of the pending reviews changed.
Refresh(reply) ==
    /\ reply \in replies
    /\ replies' = replies \ {reply}
    /\ page' = IF MustRender(reply)
               THEN [key |-> reply.key, card |-> reply.card, off |-> FALSE] ELSE page
    /\ UNCHANGED <<vars, deskVars, restarts, judged>>

\* POST /api/pending/<id>/approve|discard, to whatever process is there.
Posted(id, ok, shown) ==
    IF Open(id) THEN Resolve(id, ok) /\ JudgedAs("phone", shown) ELSE UNCHANGED <<vars, judged>>

\* decide(): a tap disables the buttons and posts the id of the card; then the
\* next reply is drawn, whatever it says.
Tap(ok) ==
    /\ page.card # None /\ ~page.off /\ main # "down"
    /\ page' = [page EXCEPT !.key = Stale, !.off = TRUE]
    /\ Posted(page.key, ok, page.card)
    /\ UNCHANGED <<deskVars, replies, restarts>>

\* The post fails: the buttons stay disabled, the key stays.
TapLost ==
    /\ page.card # None /\ ~page.off
    /\ page' = [page EXCEPT !.off = TRUE]
    /\ UNCHANGED <<vars, deskVars, replies, restarts, judged>>

Reload ==
    /\ page' = [key |-> Stale, card |-> None, off |-> FALSE]
    /\ UNCHANGED <<vars, deskVars, replies, restarts, judged>>

SurfacesNext ==
    \/ Launch \/ WorkerStep \/ SubmitStep \/ HandleSignal \/ Quit \/ QuitStep \/ ProcessEnds
    \/ Poll \/ \E reply \in Replies : Refresh(reply)
    \/ TapLost \/ Reload
    \/ \E ok \in BOOLEAN : AnswerDialog(ok) \/ Tap(ok)

SurfacesSpec == SurfacesInit /\ [][SurfacesNext]_allVars

\* The page polls on its interval timer, and replies arrive; the phone needs no
\* more, the desktop's signals the worker and the event loop too.
PhoneFair == SurfacesSpec /\ WF_allVars(Poll) /\ WF_allVars(\E reply \in Replies : Refresh(reply))

SurfacesFair ==
    /\ PhoneFair
    /\ WF_allVars(WorkerStep) /\ WF_allVars(HandleSignal)
    /\ WF_allVars(\E s \in Submitters : Describe(s) /\ UNCHANGED surfaceVars)
    /\ WF_allVars(QuitStep)

\* And nobody leaves a review dialog open for good.
SurfacesAnswered == SurfacesFair /\ WF_allVars(\E ok \in BOOLEAN : AnswerDialog(ok))

-----------------------------------------------------------------------------
(* Properties *)

SurfacesTypeOK ==
    /\ TypeOK
    /\ main \in {"down", "running", "quitting"}
    /\ signals \in Nat /\ restarts \in 0..MaxRestarts
    /\ dialog \in Item \cup {None}
    /\ page \in [key : Nat \cup {Stale}, card : Captures \cup {None}, off : BOOLEAN]
    /\ replies \subseteq Replies
    /\ judged \in [Captures -> {"desktop", "phone"} \X Captures \cup {None}]

(* A decision applies to the capture the surface showed: the desktop dialog's *)
(* however long it was open and whatever the phone answered and the worker    *)
(* parked meanwhile (dialogs do not outlive the process), the phone card's    *)
(* however late the reply it was drawn from, within one run of the app.       *)
AnswersShown ==
    \A c \in Captures :
        judged[c] # None /\ (judged[c][1] = "phone" => restarts = 0) => judged[c][2] = c

(* Mobile parity: every review parked in the app's first run comes up on the  *)
(* phone, unless another surface or the end of the run settles it first.      *)
PhoneSeesPending ==
    \A c \in Captures :
        (decision # None /\ decision.cap = c /\ ~decision.set /\ restarts = 0)
            ~> (page.card = c \/ decision = None \/ decision.set \/ restarts > 0)

(* Mobile parity, "approve/discard from the phone or desktop" (gui.py), of    *)
(* what came from the phone, which the desktop does not pop up: refuted, a    *)
(* post that was lost leaves the card dead until the review is another one.   *)
PhoneCanDecide ==
    \A c \in PhoneCaptures :
        (decision # None /\ decision.cap = c /\ ~decision.set /\ restarts = 0)
            ~> (page.card = c /\ ~page.off) \/ decision = None \/ decision.set \/ restarts > 0

(* mobile_api.py, parse_decision_path: "only acts if it matches the current   *)
(* pending review - so an unknown/stale id is a harmless no-op".              *)
StaleIdIsNoOp ==
    \A c \in Captures : judged[c] # None => judged[c][2] = c

(* gui.py: "A capture just reached the review stage - present it              *)
(* (desktop-origin pops the dialog)".                                         *)
DesktopPresented ==
    \A c \in Captures \ PhoneCaptures :
        (decision # None /\ decision.cap = c /\ ~decision.set)
            ~> (dialog # None /\ dialog.cap = c)
               \/ decision = None \/ decision.set
=============================================================================
