------------------------------ MODULE Curation ------------------------------
(***************************************************************************)
(* How a capture enters the graph of notes (app/review.py, core/pipeline.py,*)
(* core/reconcile.py, core/placement.py, app/enrich.py).  The worker        *)
(* analyses the capture against the notes there are, waits as long as the   *)
(* user takes to decide, then writes what it proposed: a status event, an   *)
(* edit event, or a note with its typed links and its place.  With --enrich *)
(* it later asks the models again, about notes that are in the graph.       *)
(* Meanwhile the chat thread applies its approved drafts to the same        *)
(* repository, and the user removes files from the vault: how a note is     *)
(* deleted, once a projection that reconciles deletions sees it.            *)
(*                                                                          *)
(* A note is the number of its creation.  Similarity is the choice of the   *)
(* notes that are near; the words, the titles and the files themselves are  *)
(* VaultProjection's, the line and the decision Coordinator's, the entities *)
(* a capture mentions VaultProjection's too.                                *)
(***************************************************************************)
EXTENDS Naturals, Sequences, FiniteSets

CONSTANTS Modes,       \* among "fast" (as --no-llm), "enrich" (--fast --enrich), "thorough"
          Horizons,    \* the ranks of _HORIZON_RANK that occur; 3 is "action"
          MaxNotes,    \* bound: notes, in each of the modes
          Near,        \* the number of neighbours considered (limit, candidates)
          MaxEdges,    \* bound: typed edges
          MaxEvents,   \* bound: status changes, edits, drafts and files removed
          None

ASSUME CurationAssumption ==
    /\ Modes \subseteq {"fast", "enrich", "thorough"}
    /\ Horizons \subseteq 0..3 /\ 3 \in Horizons
    /\ {Near, MaxEdges, MaxEvents} \subseteq Nat /\ MaxNotes \in [Modes -> Nat] /\ None \notin Nat

VARIABLES mode,      \* the wiring _capture_components chose
          horizon,   \* the stored notes: the rank of each, in the order of creation
          status,    \* derived current status of each: "done", or one of the "open" ones
          dead,      \* tombstoned
          edited,    \* with an edit event
          edges,     \* the typed edges, [from, to, kind]
          pending,   \* the PendingReview the worker waits on, or None
          after,     \* what the worker's after_commit is about to refresh, or None
          backlog,   \* notes waiting for enrichment
          job,       \* the enrichment under way, or None
          chat,      \* the plan draft the chat thread is applying, or None
          fileless,  \* current notes that have no file in the vault
          events,    \* counter for the bound
          removed,   \* history: the notes whose file the user removed
          judged     \* history: has a model placed a note that was in the graph already?

graph  == <<horizon, status, dead, edited, edges>>
worker == <<pending, after, backlog, job>>
vars   == <<mode, graph, worker, chat, fileless, events, removed, judged>>

Notes == DOMAIN horizon
Live  == Notes \ dead

Init ==
    /\ mode \in Modes
    /\ horizon = <<>> /\ status = <<>> /\ dead = {} /\ edited = {} /\ edges = {}
    /\ pending = None /\ after = None /\ backlog = <<>> /\ job = None /\ chat = None
    /\ fileless = {} /\ events = 0 /\ removed = {} /\ judged = FALSE

\* Room for a note, beside the one a review proposes.
Room == Len(horizon) + (IF pending # None /\ pending.what = "note" THEN 1 ELSE 0) < MaxNotes[mode]

-----------------------------------------------------------------------------
(* What the reconcilers and the placers may propose *)

Neighbourhoods == {S \in SUBSET Live : Cardinality(S) <= Near}

\* A duplicate has no edge; the other relationships have one each.  Apart from
\* part_of, the kind of an edge matters to the plan alone: "relates" stands for them.
Relationships == {"related", "duplicate"}
Assessments == UNION {[S -> Relationships] : S \in Neighbourhoods}

Links(n, assessed) ==
    {[from |-> n, to |-> m, kind |-> "relates"] :
        m \in {c \in DOMAIN assessed : assessed[c] # "duplicate" /\ c # n}}

\* Bug: <= for <.
NotBelow(rank) == {n \in Live : horizon[n] <= rank}
\* HeuristicPlacer: a strictly more abstract note, or nothing.
MoreAbstract(rank) == {n \in Live : horizon[n] < rank}
HeuristicPlaces(rank) == {[parent |-> p, needs |-> {}] : p \in {None} \cup MoreAbstract(rank)}

\* LlmPlacer: ids from the list, one relation each (depends_on, blocks, waiting_on).
ModelPlaces ==
    {[parent |-> p, needs |-> S] : p \in {None} \cup Live, S \in Neighbourhoods}

\* Bug: the test is left out, a place may name the note itself.
StructureUnchecked(n, place) ==
    {e \in {[from |-> n, to |-> place.parent, kind |-> "part_of"]}
           \cup {[from |-> n, to |-> m, kind |-> "relates"] : m \in place.needs} : TRUE}
\* Placement.edges and the test of record_placement.
Structure(n, place) ==
    {e \in {[from |-> n, to |-> place.parent, kind |-> "part_of"]}
           \cup {[from |-> n, to |-> m, kind |-> "relates"] : m \in place.needs \ {place.parent}} :
        e.to \in Live \ {n}}

\* add_edge, idempotent.
AddEdges(new) ==
    /\ edges' = edges \cup new
    /\ Cardinality(edges') <= MaxEdges

-----------------------------------------------------------------------------
(* start_review: status, else edit, else a new note *)

Resting == pending = None /\ after = None /\ job = None

Awaits(review) ==
    /\ Resting
    /\ pending' = review
    /\ UNCHANGED <<mode, graph, after, backlog, job, chat, fileless, events, removed, judged>>

\* _detect_update: the best match does not have that status yet.
ProposeStatus(n, s) ==
    /\ events < MaxEvents /\ n \in Live /\ status[n] # s
    /\ Awaits([what |-> "status", of |-> n, to |-> s])

\* _detect_edit
ProposeEdit(n) ==
    /\ events < MaxEvents /\ n \in Live
    /\ Awaits([what |-> "edit", of |-> n])

ProposeNote(rank) ==
    /\ Room
    /\ \E assessed \in Assessments,
          place \in HeuristicPlaces(rank) \cup (IF mode = "thorough" THEN ModelPlaces ELSE {}) :
       \E completed \in SUBSET (IF mode = "thorough" THEN DOMAIN assessed ELSE {}) :
          Awaits([what |-> "note", rank |-> rank, assessed |-> assessed,
                  completed |-> completed, place |-> place])

Discard ==
    /\ pending # None
    /\ pending' = None
    /\ UNCHANGED <<mode, graph, after, backlog, job, chat, fileless, events, removed, judged>>

-----------------------------------------------------------------------------
(* approve, and the re-projection that follows *)

Approved(what) ==
    /\ pending # None /\ pending.what = what
    /\ pending' = None
    /\ UNCHANGED <<mode, dead, backlog, job, chat, fileless, removed, judged>>

\* set_status: no test that the note is there.
ApproveStatus ==
    /\ Approved("status")
    /\ status' = [status EXCEPT ![pending.of] = pending.to]
    /\ events' = events + 1
    /\ after' = [of |-> pending.of, new |-> FALSE]
    /\ UNCHANGED <<horizon, edited, edges>>

\* record_edit: nothing to do for a note that was deleted.
ApproveEdit ==
    /\ Approved("edit")
    /\ edited' = edited \cup ({pending.of} \cap Live)
    /\ events' = events + 1
    /\ after' = [of |-> pending.of, new |-> FALSE]
    /\ UNCHANGED <<horizon, status, edges>>

\* commit (its links unchecked), record_placement, the statuses it implies.
ApproveNote ==
    /\ Approved("note")
    /\ LET n == Len(horizon) + 1
       IN /\ horizon' = Append(horizon, pending.rank)
          /\ status' = Append([m \in Notes |-> IF m \in pending.completed THEN "done" ELSE status[m]],
                              "open")
          /\ AddEdges(Links(n, pending.assessed) \cup Structure(n, pending.place))
          /\ after' = [of |-> n, new |-> TRUE]
    /\ UNCHANGED <<edited, events>>

Missing == {n \in fileless : after.of # n}   \* the note just touched is protected

\* after_commit: write_projections reconciles the deletions, rewrites every
\* file, and the new note is queued for enrichment; a fault ends it early.
Reproject ==
    /\ after # None
    /\ after' = None
    /\ dead' = dead \cup Missing
    /\ \/ /\ fileless' = {}
          /\ backlog' = IF after.new /\ mode = "enrich" THEN Append(backlog, after.of) ELSE backlog
       \/ fileless' = fileless \ Missing /\ UNCHANGED backlog
    /\ UNCHANGED <<mode, horizon, status, edited, edges, pending, job, chat, events, removed, judged>>

-----------------------------------------------------------------------------
(* enrich_note: the tests, the reconciler's call, the placer's call *)

\* The neighbours are read before the call: what comes meanwhile is not among them.
EnrichBegin ==
    /\ Resting /\ backlog # <<>>
    /\ backlog' = Tail(backlog)
    /\ job' = IF Head(backlog) \in dead \cup edited THEN None
              ELSE [of |-> Head(backlog), linked |-> FALSE, grown |-> FALSE, seen |-> Notes]
    /\ UNCHANGED <<mode, graph, pending, after, chat, fileless, events, removed, judged>>

EnrichLinks ==
    /\ job # None /\ ~job.linked
    /\ \E assessed \in Assessments :
          /\ DOMAIN assessed \subseteq job.seen
          /\ AddEdges(Links(job.of, assessed))
    /\ job' = [job EXCEPT !.linked = TRUE, !.grown = (edges' # edges)]
    /\ UNCHANGED <<mode, horizon, status, dead, edited, pending, after, backlog, chat, fileless,
                   events, removed, judged>>

\* The model's answer, or the heuristic when it gives none; then, if anything
\* was added, a projection that does not reconcile deletions.
EnrichPlace ==
    /\ job # None /\ job.linked
    /\ \/ \E place \in ModelPlaces :
             AddEdges(Structure(job.of, place)) /\ judged' = (judged \/ place.parent # None)
       \/ \E place \in HeuristicPlaces(horizon[job.of]) :
             AddEdges(Structure(job.of, place)) /\ UNCHANGED judged
    /\ job' = None
    /\ fileless' = IF job.grown \/ edges' # edges THEN {} ELSE fileless
    /\ UNCHANGED <<mode, horizon, status, dead, edited, pending, after, backlog, chat, events, removed>>

\* A fault: the links added stay.
EnrichFails ==
    /\ job # None
    /\ job' = None
    /\ fileless' = IF job.grown THEN {} ELSE fileless
    /\ UNCHANGED <<mode, graph, pending, after, backlog, chat, events, removed, judged>>

-----------------------------------------------------------------------------
(* The chat thread, and the user in the vault *)

ChatPrunes == dead' = dead \cup fileless /\ fileless' = {}        \* bug: reconcile_deletions=True
ChatProjects == UNCHANGED dead /\ fileless' = {}

\* apply_improvement_draft
Improve(n) ==
    /\ chat = None /\ events < MaxEvents
    /\ edited' = edited \cup ({n} \cap Live)
    /\ events' = events + 1
    /\ ChatProjects
    /\ UNCHANGED <<mode, horizon, status, edges, worker, chat, removed, judged>>

\* apply_plan_draft: propose_note (whose horizon is "action"; no file yet), ...
PlanDraft ==
    /\ chat = None /\ Room /\ events < MaxEvents
    /\ events' = events + 1
    /\ horizon' = Append(horizon, 3) /\ status' = Append(status, "open")
    /\ \E sources \in Neighbourhoods :
          chat' = [of |-> Len(horizon) + 1, todo |-> sources, found |-> None]
    /\ fileless' = fileless \cup {Len(horizon) + 1}
    /\ UNCHANGED <<mode, dead, edited, edges, worker, removed, judged>>

\* ... for each source a test that it is there ...
FindSource(n) ==
    /\ chat # None /\ chat.found = None /\ n \in chat.todo
    /\ chat' = [chat EXCEPT !.todo = @ \ {n}, !.found = IF n \in Live THEN n ELSE None]
    /\ UNCHANGED <<mode, graph, worker, fileless, events, removed, judged>>

\* ... and then the link,
LinkSource ==
    /\ chat # None /\ chat.found # None
    /\ AddEdges({[from |-> chat.of, to |-> chat.found, kind |-> "relates"]})
    /\ chat' = [chat EXCEPT !.found = None]
    /\ UNCHANGED <<mode, horizon, status, dead, edited, worker, fileless, events, removed, judged>>

\* and the projection.
PlanShown ==
    /\ chat # None /\ chat.todo = {} /\ chat.found = None
    /\ chat' = None
    /\ ChatProjects
    /\ UNCHANGED <<mode, horizon, status, edited, edges, worker, events, removed, judged>>

UserRemoves(n) ==
    /\ n \in Live \ fileless /\ events < MaxEvents
    /\ fileless' = fileless \cup {n}
    /\ removed' = removed \cup {n}
    /\ events' = events + 1
    /\ UNCHANGED <<mode, graph, worker, chat, judged>>

Next ==
    \/ \E n \in Notes : \/ \E s \in {"open", "done"} : ProposeStatus(n, s)
                        \/ ProposeEdit(n) \/ Improve(n) \/ FindSource(n) \/ UserRemoves(n)
    \/ \E rank \in Horizons : ProposeNote(rank)
    \/ Discard \/ ApproveStatus \/ ApproveEdit \/ ApproveNote \/ Reproject
    \/ EnrichBegin \/ EnrichLinks \/ EnrichPlace \/ EnrichFails
    \/ PlanDraft \/ LinkSource \/ PlanShown

Spec == Init /\ [][Next]_vars

-----------------------------------------------------------------------------
TypeOK ==
    /\ mode \in Modes
    /\ horizon \in Seq(Horizons) /\ Len(horizon) <= MaxNotes[mode]
    /\ status \in [Notes -> {"open", "done"}]
    /\ dead \subseteq Notes /\ edited \subseteq Notes /\ fileless \subseteq Live /\ removed \subseteq Notes
    /\ edges \subseteq [from : Notes, to : Notes,
                        kind : {"relates", "part_of"}]
    /\ \A i \in 1..Len(backlog) : backlog[i] \in Notes
    /\ judged \in BOOLEAN

\* What the worker writes after minutes of waiting still names notes that are there: no link, no
\* place and no status ever goes to a note that was deleted in the meantime, although approve does
\* not look (repository.py: never link a new capture to a deleted note).
NothingBuried ==
    [][/\ \A e \in edges' \ edges : UNCHANGED chat => {e.from, e.to} \cap dead = {}
       /\ \A n \in Notes : status'[n] # status[n] => n \notin dead]_vars

\* Every nonempty set of notes has one whose parents are outside it.
NoCircle(kind) ==
    \A S \in (SUBSET Notes) \ {{}} : \E n \in S : \A e \in edges :
        ~(e.kind = kind /\ e.from = n /\ e.to \in S)

\* The hierarchy the plan descends (schedule.py, _tally, which does not end on a circle) has no
\* circle as long as no model has placed a note that was in the graph already: a new note only
\* points at older ones, and the heuristic only at more abstract ones.
HierarchySound == ~judged => NoCircle("part_of")

\* "No note is part of itself through others" (refuted with --enrich: two notes that wait for
\* enrichment are each put under the other).
HierarchyAlways == NoCircle("part_of")

\* "The user's version always wins" (enrich.py): a link of a note the user edited is older than
\* the edit (refuted: the edit comes while the model is thinking).
EditedLeftAlone ==
    [][\A e \in edges' \ edges : e.from \notin edited]_vars

\* "A note whose .md the user deleted is tombstoned" (gui.py, reproject), and no other (refuted: a
\* plan the chat is saving is in the index before it has a file; a capture saved meanwhile buries it).
OnlyUserDeletes == dead \subseteq removed

\* A file the user removed is not written again (refuted: the projections after a chat draft and
\* after an enrichment write every file, and the deletion is forgotten).
RemovalStands == [][\A n \in fileless \cap removed : n \in fileless' \/ n \in dead' \/ (after # None /\ after.of = n)]_vars
=============================================================================
