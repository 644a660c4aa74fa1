--------------------------- MODULE CurationProofs ---------------------------
(***************************************************************************)
(* For every number of notes, every bound and every similarity: what the    *)
(* worker wrote after minutes of waiting was still there, and the           *)
(* hierarchy has no circle until a model places a note it finds in it.      *)
(*                                                                          *)
(* The inductive invariant says what the worker holds while it waits - a    *)
(* review, a note to re-project or a note to enrich, never two of them -    *)
(* and that the notes it names are alive: only its own re-projection, which *)
(* comes between two of them, buries a note.                                *)
(***************************************************************************)
EXTENDS Curation, SequenceTheorems, WellFoundedInduction, TLAPS

USE CurationAssumption DEF Notes, Live

\* What a review may name.
StatusReview == [what : {"status"}, of : Live, to : {"open", "done"}]
EditReview   == [what : {"edit"}, of : Live]
Place        == [parent : Live \cup {None}, needs : SUBSET Live]

NoteReview(r) ==
    /\ r.what = "note"
    /\ r.rank \in Horizons
    /\ DOMAIN r.assessed \subseteq Live
    /\ r.completed \subseteq Live
    /\ r.place \in Place

Reviewed ==
    pending # None =>
        /\ after = None /\ job = None
        /\ \/ pending \in StatusReview
           \/ pending \in EditReview
           \/ NoteReview(pending) /\ Len(horizon) < MaxNotes[mode]

Touched == after # None => job = None /\ after.of \in Notes

Enriched == /\ job # None => job.of \in Live /\ mode = "enrich"
            /\ mode # "enrich" => backlog = <<>>

Drafted == chat # None => chat \in [of : Notes, todo : SUBSET Notes, found : Notes \cup {None}]

Held == Reviewed /\ Touched /\ Enriched /\ Drafted

\* What a note is part of is older, where models place new notes, and else more abstract.
Below(n, m) == IF mode = "thorough" THEN m < n ELSE horizon[m] < horizon[n]
Proposed ==
    pending # None /\ pending.what = "note" /\ mode # "thorough" /\ pending.place.parent # None
        => horizon[pending.place.parent] < pending.rank
Ranked == ~judged => \A e \in edges : e.kind = "part_of" => Below(e.from, e.to)

Types ==
    /\ mode \in Modes
    /\ horizon \in Seq(Horizons)
    /\ status \in [Notes -> {"open", "done"}]
    /\ dead \subseteq Notes /\ edited \subseteq Notes /\ fileless \subseteq Live /\ removed \subseteq Notes
    /\ edges \subseteq [from : Notes, to : Notes, kind : {"relates", "part_of"}]
    /\ backlog \in Seq(Notes)
    /\ judged \in BOOLEAN

IInv == Types /\ Held /\ Proposed /\ Ranked

-----------------------------------------------------------------------------
(* Sequences that grow *)

\* A note more.
LEMMA Grown ==
    ASSUME horizon \in Seq(Horizons), NEW r \in Horizons, horizon' = Append(horizon, r)
    PROVE  /\ Len(horizon) \in Nat /\ Notes = 1..Len(horizon)
           /\ Notes' = Notes \cup {Len(horizon) + 1} /\ Len(horizon) + 1 \notin Notes
           /\ horizon' \in Seq(Horizons) /\ Len(horizon') = Len(horizon) + 1
           /\ horizon'[Len(horizon) + 1] = r
           /\ \A m \in Notes : horizon'[m] = horizon[m]
<1>1. /\ Len(horizon) \in Nat /\ Notes = 1..Len(horizon)
      /\ horizon' \in Seq(Horizons) /\ Len(horizon') = Len(horizon) + 1
      /\ horizon'[Len(horizon) + 1] = r
      /\ \A m \in 1..Len(horizon) : horizon'[m] = horizon[m]
  OBVIOUS
<1>2. Notes' = 1..(Len(horizon) + 1) BY <1>1
<1> QED BY <1>1, <1>2

\* A status more, after the notes there were.
LEMMA StatusGrown ==
    ASSUME NEW n \in Nat, NEW s \in [1..n -> {"open", "done"}], NEW v \in {"open", "done"}
    PROVE  /\ Append(s, v) \in [1..(n + 1) -> {"open", "done"}]
           /\ \A m \in 1..n : Append(s, v)[m] = s[m]
<1>1. s \in Seq({"open", "done"}) /\ Len(s) = n OBVIOUS
<1>2. /\ Append(s, v) \in Seq({"open", "done"}) /\ Len(Append(s, v)) = n + 1
      /\ \A m \in 1..n : Append(s, v)[m] = s[m]
  BY <1>1
<1> QED BY <1>2, LenProperties

-----------------------------------------------------------------------------
(* The invariant *)

LEMMA InitIInv == Init => IInv
<1> SUFFICES ASSUME Init PROVE IInv OBVIOUS
<1>1. Notes = {} /\ <<>> \in Seq(Horizons) /\ <<>> \in Seq(Notes) BY DEF Init
<1>2. status \in [Notes -> {"open", "done"}] BY <1>1 DEF Init
<1>3. Types BY <1>1, <1>2 DEF Init, Types
<1>4. Held BY DEF Init, Held, Reviewed, Touched, Enriched, Drafted
<1>5. Proposed /\ Ranked BY DEF Init, Proposed, Ranked
<1> QED BY <1>3, <1>4, <1>5 DEF IInv

\* Waiting for a decision changes nothing but the review.
LEMMA AwaitsIInv ==
    ASSUME IInv, NEW review, Awaits(review),
           \/ review \in StatusReview
           \/ review \in EditReview
           \/ NoteReview(review) /\ Len(horizon) < MaxNotes[mode],
           review.what = "note" /\ mode # "thorough" /\ review.place.parent # None
               => horizon[review.place.parent] < review.rank
    PROVE  IInv'
<1> USE DEF Awaits, Resting, graph, IInv
<1>1. Types' BY DEF Types
<1>2. Held'
  <2>1. Reviewed' BY DEF Reviewed, StatusReview, EditReview, NoteReview, Place
  <2>2. Touched' /\ Enriched' /\ Drafted' BY DEF Held, Touched, Enriched, Drafted
  <2> QED BY <2>1, <2>2 DEF Held
<1>3. Proposed' BY DEF Proposed
<1>4. Ranked' BY DEF Ranked, Below
<1> QED BY <1>1, <1>2, <1>3, <1>4

LEMMA ProposeIInv ==
    /\ \A n \in Notes, s \in {"open", "done"} : IInv /\ ProposeStatus(n, s) => IInv'
    /\ \A n \in Notes : IInv /\ ProposeEdit(n) => IInv'
    /\ \A rank \in Horizons : IInv /\ ProposeNote(rank) => IInv'
<1>1. ASSUME IInv, NEW n \in Notes, NEW s \in {"open", "done"}, ProposeStatus(n, s) PROVE IInv'
  BY <1>1, AwaitsIInv DEF ProposeStatus, StatusReview
<1>2. ASSUME IInv, NEW n \in Notes, ProposeEdit(n) PROVE IInv'
  BY <1>2, AwaitsIInv DEF ProposeEdit, EditReview
<1>3. ASSUME IInv, NEW rank \in Horizons, ProposeNote(rank) PROVE IInv'
  <2>1. PICK assessed \in Assessments,
             place \in HeuristicPlaces(rank) \cup (IF mode = "thorough" THEN ModelPlaces ELSE {}) :
           \E completed \in SUBSET (IF mode = "thorough" THEN DOMAIN assessed ELSE {}) :
              Awaits([what |-> "note", rank |-> rank, assessed |-> assessed,
                      completed |-> completed, place |-> place])
    BY <1>3 DEF ProposeNote
  <2>2. PICK completed \in SUBSET (IF mode = "thorough" THEN DOMAIN assessed ELSE {}) :
           Awaits([what |-> "note", rank |-> rank, assessed |-> assessed,
                   completed |-> completed, place |-> place])
    BY <2>1
  <2> DEFINE r == [what |-> "note", rank |-> rank, assessed |-> assessed,
                   completed |-> completed, place |-> place]
  <2>3. DOMAIN assessed \subseteq Live /\ completed \subseteq DOMAIN assessed
    BY <2>1, <2>2 DEF Assessments, Neighbourhoods
  <2>4. /\ place \in Place
        /\ mode # "thorough" /\ place.parent # None => horizon[place.parent] < rank
    BY <2>1 DEF HeuristicPlaces, MoreAbstract, ModelPlaces, Neighbourhoods, Place
  <2>5. NoteReview(r) /\ Len(horizon) < MaxNotes[mode]
    <3>1. pending = None /\ Room BY <1>3, <2>2 DEF Awaits, Resting, ProposeNote
    <3>2. Len(horizon) \in Nat /\ MaxNotes[mode] \in Nat BY <1>3 DEF IInv, Types
    <3>3. Len(horizon) < MaxNotes[mode] BY <3>1, <3>2 DEF Room
    <3> QED BY <3>3, <2>3, <2>4 DEF NoteReview
  <2> QED BY <1>3, <2>2, <2>4, <2>5, AwaitsIInv
<1> QED BY <1>1, <1>2, <1>3

LEMMA DiscardIInv == IInv /\ Discard => IInv'
<1> SUFFICES ASSUME IInv, Discard PROVE IInv' OBVIOUS
<1> USE DEF Discard, graph, IInv
<1>1. Types' BY DEF Types
<1>2. Held'
  <2>1. Reviewed' BY DEF Held, Reviewed, StatusReview, EditReview, NoteReview, Place
  <2>2. Touched' BY DEF Held, Touched
  <2>3. Enriched' /\ Drafted' BY DEF Held, Enriched, Drafted
  <2> QED BY <2>1, <2>2, <2>3 DEF Held
<1>3. Proposed' /\ Ranked' BY DEF Proposed, Ranked, Below
<1> QED BY <1>1, <1>2, <1>3

\* A status and an edit go to a note; the note is alive when they do.
LEMMA ApproveEventIInv == IInv /\ (ApproveStatus \/ ApproveEdit) => IInv'
<1> SUFFICES ASSUME IInv, ApproveStatus \/ ApproveEdit PROVE IInv' OBVIOUS
<1> USE DEF Approved, graph, IInv
<1>1. /\ pending' = None /\ job = None
      /\ UNCHANGED <<mode, horizon, dead, edges, backlog, job, chat, fileless, removed, judged>>
      /\ pending.of \in Live /\ after'.of = pending.of
      /\ status' \in [Notes -> {"open", "done"}] /\ edited' \subseteq Notes
  <2>1. CASE ApproveStatus
    <3>1. pending \in StatusReview
      BY <2>1 DEF ApproveStatus, Held, Reviewed, StatusReview, EditReview, NoteReview
    <3> QED BY <2>1, <3>1 DEF ApproveStatus, Types, StatusReview, Held, Reviewed
  <2>2. CASE ApproveEdit
    <3>1. pending \in EditReview
      BY <2>2 DEF ApproveEdit, Held, Reviewed, StatusReview, EditReview, NoteReview
    <3> QED BY <2>2, <3>1 DEF ApproveEdit, Types, EditReview, Held, Reviewed
  <2> QED BY <2>1, <2>2
<1>2. Types' BY <1>1 DEF Types
<1>3. Held' BY <1>1 DEF Held, Reviewed, Touched, Enriched, Drafted
<1>4. Proposed' /\ Ranked' BY <1>1 DEF Proposed, Ranked, Below
<1> QED BY <1>2, <1>3, <1>4

LEMMA ReprojectIInv == IInv /\ Reproject => IInv'
<1> SUFFICES ASSUME IInv, Reproject PROVE IInv' OBVIOUS
<1> USE DEF Reproject, IInv
<1>1. pending = None /\ job = None BY DEF Held, Reviewed, Touched
<1>2. Types'
  <2>1. Missing \subseteq fileless BY DEF Missing
  <2>2. after.of \in Notes BY DEF Held, Touched
  <2>3. backlog' \in {backlog, Append(backlog, after.of)} OBVIOUS
  <2>4. backlog \in Seq(Notes) /\ Append(backlog, after.of) \in Seq(Notes)
    <3> HIDE DEF Reproject, Notes
    <3>1. backlog \in Seq(Notes) BY DEF Types
    <3> QED BY <2>2, <3>1, AppendProperties
  <2>5. backlog' \in Seq(Notes) BY <2>3, <2>4
  <2> QED BY <2>1, <2>5 DEF Types
<1>3. Held' BY <1>1 DEF Held, Reviewed, Touched, Enriched, Drafted
<1>4. Proposed' /\ Ranked' BY <1>1 DEF Proposed, Ranked, Below
<1> QED BY <1>2, <1>3, <1>4

\* The links and the place of a note name two notes each, and the place is below its parent.
LEMMA LinksType ==
    ASSUME NEW n, NEW assessed, DOMAIN assessed \subseteq Live
    PROVE  \A e \in Links(n, assessed) :
              /\ e = [from |-> n, to |-> e.to, kind |-> "relates"]
              /\ e.to \in Live /\ e.to # n
BY DEF Links

LEMMA StructureType ==
    ASSUME NEW n, NEW place \in Place
    PROVE  \A e \in Structure(n, place) :
              /\ \/ e = [from |-> n, to |-> e.to, kind |-> "relates"]
                 \/ e = [from |-> n, to |-> place.parent, kind |-> "part_of"]
              /\ e.to \in Live /\ e.to # n
BY DEF Structure

\* The new note is younger than all, and no more abstract than its place.
LEMMA ApproveNoteIInv == IInv /\ ApproveNote => IInv'
<1> SUFFICES ASSUME IInv, ApproveNote PROVE IInv' OBVIOUS
<1> USE DEF IInv
<1> DEFINE n == Len(horizon) + 1
           new == Links(n, pending.assessed) \cup Structure(n, pending.place)
<1>1. /\ pending # None /\ pending' = None /\ after' = [of |-> n, new |-> TRUE]
      /\ horizon' = Append(horizon, pending.rank) /\ edges' = edges \cup new
      /\ UNCHANGED <<mode, dead, backlog, job, chat, fileless, removed, judged, edited>>
  BY DEF ApproveNote, Approved, AddEdges
<1>2. NoteReview(pending) /\ after = None /\ job = None
  BY <1>1 DEF ApproveNote, Approved, Held, Reviewed, StatusReview, EditReview
<1>3. /\ Len(horizon) \in Nat /\ Notes = 1..Len(horizon)
      /\ Notes' = Notes \cup {n} /\ n \notin Notes
      /\ horizon' \in Seq(Horizons) /\ horizon'[n] = pending.rank
      /\ \A m \in Notes : horizon'[m] = horizon[m]
  BY <1>1, <1>2, Grown DEF Types, NoteReview
<1>4. status' \in [Notes' -> {"open", "done"}]
  <2> DEFINE s == [m \in Notes |-> IF m \in pending.completed THEN "done" ELSE status[m]]
  <2>1. status' = Append(s, "open") BY DEF ApproveNote
  <2>2. s \in [Notes -> {"open", "done"}] BY DEF Types
  <2>3. Notes' = 1..(Len(horizon) + 1) BY <1>3
  <2> QED BY <2>1, <2>2, <2>3, <1>3, StatusGrown
<1>5. \A e \in new : /\ e.from = n /\ e.to \in Notes
                     /\ e \in [from : Notes', to : Notes', kind : {"relates", "part_of"}]
                     /\ e.kind = "part_of" => e.to = pending.place.parent
  <2>1. DOMAIN pending.assessed \subseteq Live /\ pending.place \in Place BY <1>2 DEF NoteReview
  <2> QED BY <2>1, <1>3, LinksType, StructureType
<1>6. Types'
  <2>1. backlog \in Seq(Notes') BY <1>3, SeqMonotonic DEF Types
  <2>2. edges' \subseteq [from : Notes', to : Notes', kind : {"relates", "part_of"}]
    BY <1>1, <1>3, <1>5 DEF Types
  <2> QED BY <1>1, <1>3, <1>4, <2>1, <2>2 DEF Types
<1>7. Held' BY <1>1, <1>2, <1>3 DEF Held, Reviewed, Touched, Enriched, Drafted
<1>8. Proposed' BY <1>1 DEF Proposed
<1>9. Ranked'
  <2> SUFFICES ASSUME ~judged, NEW e \in edges', e.kind = "part_of"
               PROVE  Below(e.from, e.to)'
    BY <1>1 DEF Ranked
  <2>1. CASE e \in edges
    <3>1. e.from \in Notes /\ e.to \in Notes BY <2>1 DEF Types
    <3> QED BY <2>1, <3>1, <1>1, <1>3 DEF Ranked, Below
  <2>2. CASE e \in new
    <3>1. e.from = n /\ e.to \in Notes /\ e.to = pending.place.parent BY <2>2, <1>5
    <3>2. None \notin Notes BY <1>3, CurationAssumption
    <3>3. mode # "thorough" => horizon[e.to] < pending.rank
      BY <1>1, <1>2, <3>1, <3>2 DEF Proposed, NoteReview
    <3>4. e.to < n BY <1>3, <3>1
    <3> QED BY <1>1, <1>3, <3>1, <3>3, <3>4 DEF Below
  <2> QED BY <2>1, <2>2, <1>1
<1> QED BY <1>6, <1>7, <1>8, <1>9

-----------------------------------------------------------------------------
(* Enrichment *)

LEMMA EnrichBeginIInv == IInv /\ EnrichBegin => IInv'
<1> SUFFICES ASSUME IInv, EnrichBegin PROVE IInv' OBVIOUS
<1> USE DEF EnrichBegin, Resting, graph, IInv
<1>1. Head(backlog) \in Notes /\ Tail(backlog) \in Seq(Notes)
  BY HeadTailProperties DEF Types
<1>2. Types' BY <1>1 DEF Types
<1>3. mode = "enrich" BY DEF Held, Enriched
<1>4. job' # None => job'.of = Head(backlog) /\ Head(backlog) \in Live BY <1>1
<1>5. Held' BY <1>3, <1>4 DEF Held, Reviewed, Touched, Enriched, Drafted
<1>6. Proposed' /\ Ranked' BY DEF Proposed, Ranked, Below
<1> QED BY <1>2, <1>5, <1>6

\* Links between notes that are there, and no place, leave the ranks alone.
LEMMA RelatesIInv ==
    ASSUME IInv, NEW new, edges' = edges \cup new,
           \A e \in new : e \in [from : Notes, to : Notes, kind : {"relates"}],
           UNCHANGED <<mode, horizon, status, dead, edited, removed, judged, fileless, pending,
                       after, backlog>>,
           job' # None => job # None /\ job'.of = job.of,
           chat' # None => chat' \in [of : Notes, todo : SUBSET Notes, found : Notes \cup {None}]
    PROVE  IInv'
<1> USE DEF IInv
<1>1. Types'
  <2>1. edges' \subseteq [from : Notes, to : Notes, kind : {"relates", "part_of"}] BY DEF Types
  <2> QED BY <2>1 DEF Types
<1>2. Held'
  <2>1. Reviewed' BY DEF Held, Reviewed, StatusReview, EditReview, NoteReview, Place
  <2>2. Touched' BY DEF Held, Touched
  <2>3. Enriched' /\ Drafted' BY DEF Held, Enriched, Drafted
  <2> QED BY <2>1, <2>2, <2>3 DEF Held
<1>3. Proposed' BY DEF Proposed
<1>4. Ranked' BY DEF Ranked, Below
<1> QED BY <1>1, <1>2, <1>3, <1>4

LEMMA EnrichLinksIInv == IInv /\ EnrichLinks => IInv'
<1> SUFFICES ASSUME IInv, EnrichLinks PROVE IInv' OBVIOUS
<1>1. PICK assessed \in Assessments : AddEdges(Links(job.of, assessed)) BY DEF EnrichLinks
<1>2. edges' = edges \cup Links(job.of, assessed) BY <1>1 DEF AddEdges
<1>3. DOMAIN assessed \subseteq Live BY <1>1 DEF Assessments, Neighbourhoods
<1>4. job # None /\ job.of \in Notes /\ job'.of = job.of
  BY DEF EnrichLinks, IInv, Held, Enriched, Reviewed
<1>5. \A e \in Links(job.of, assessed) : e \in [from : Notes, to : Notes, kind : {"relates"}]
  BY <1>3, <1>4, LinksType
<1> QED BY <1>2, <1>4, <1>5, RelatesIInv DEF EnrichLinks, IInv, Held, Drafted

\* The heuristic keeps to more abstract notes; a model that does not is remembered.
LEMMA EnrichPlaceIInv == IInv /\ EnrichPlace => IInv'
<1> SUFFICES ASSUME IInv, EnrichPlace PROVE IInv' OBVIOUS
<1> USE DEF IInv
<1>1. PICK place \in Place :
         /\ edges' = edges \cup Structure(job.of, place)
         /\ judged' \in BOOLEAN /\ (judged => judged')
         /\ ~judged' => place.parent = None \/ horizon[place.parent] < horizon[job.of]
  <2>1. judged \in BOOLEAN BY DEF Types
  <2>2. ASSUME NEW place \in ModelPlaces, AddEdges(Structure(job.of, place)),
               judged' = (judged \/ place.parent # None)
        PROVE  place \in Place /\ edges' = edges \cup Structure(job.of, place)
               /\ judged' \in BOOLEAN /\ (judged => judged') /\ (~judged' => place.parent = None)
    <3>1. judged' \in BOOLEAN /\ (judged => judged') /\ (~judged' => place.parent = None)
      BY <2>1, <2>2, Zenon
    <3> QED BY <2>2, <3>1 DEF AddEdges, ModelPlaces, Neighbourhoods, Place
  <2>3. ASSUME NEW place \in HeuristicPlaces(horizon[job.of]),
               AddEdges(Structure(job.of, place)), UNCHANGED judged
        PROVE  place \in Place /\ edges' = edges \cup Structure(job.of, place)
               /\ judged' \in BOOLEAN /\ (judged => judged')
               /\ (place.parent = None \/ horizon[place.parent] < horizon[job.of])
    BY <2>1, <2>3 DEF AddEdges, HeuristicPlaces, MoreAbstract, Place
  <2> QED BY <2>2, <2>3 DEF EnrichPlace
<1>2. /\ job # None /\ job' = None /\ fileless' \subseteq fileless
      /\ UNCHANGED <<mode, horizon, status, dead, edited, pending, after, backlog, chat, removed>>
  BY DEF EnrichPlace
<1>3. job.of \in Live /\ mode = "enrich" /\ pending = None BY <1>2 DEF Held, Enriched, Reviewed
<1>4. \A e \in Structure(job.of, place) :
         /\ e \in [from : Notes, to : Notes, kind : {"relates", "part_of"}]
         /\ e.kind = "part_of" => e.from = job.of /\ e.to = place.parent
  BY <1>3, StructureType
<1>5. Types'
  <2>1. edges' \subseteq [from : Notes, to : Notes, kind : {"relates", "part_of"}]
    BY <1>1, <1>4 DEF Types
  <2> QED BY <1>1, <1>2, <2>1 DEF Types
<1>6. Held' BY <1>2 DEF Held, Reviewed, Touched, Enriched, Drafted
<1>7. Proposed' BY <1>2, <1>3 DEF Proposed
<1>8. Ranked'
  <2> SUFFICES ASSUME ~judged', NEW e \in edges', e.kind = "part_of"
               PROVE  Below(e.from, e.to)'
    BY DEF Ranked
  <2>1. CASE e \in edges BY <2>1, <1>1, <1>2 DEF Ranked, Below
  <2>2. CASE e \in Structure(job.of, place)
    <3>1. e.from = job.of /\ e.to = place.parent /\ e.to \in Notes BY <2>2, <1>4
    <3>2. None \notin Notes BY CurationAssumption DEF Types
    <3> QED BY <3>1, <3>2, <1>1, <1>2, <1>3 DEF Below
  <2> QED BY <2>1, <2>2, <1>1
<1> QED BY <1>5, <1>6, <1>7, <1>8

LEMMA EnrichFailsIInv == IInv /\ EnrichFails => IInv'
<1> SUFFICES ASSUME IInv, EnrichFails PROVE IInv' OBVIOUS
<1> USE DEF EnrichFails, graph, IInv
<1>1. Types' BY DEF Types
<1>2. Held'
  <2>1. Reviewed' BY DEF Held, Reviewed, StatusReview, EditReview, NoteReview, Place
  <2>2. Touched' BY DEF Held, Touched
  <2>3. Enriched' /\ Drafted' BY DEF Held, Enriched, Drafted
  <2> QED BY <2>1, <2>2, <2>3 DEF Held
<1>3. Proposed' /\ Ranked' BY DEF Proposed, Ranked, Below
<1> QED BY <1>1, <1>2, <1>3

-----------------------------------------------------------------------------
(* The chat thread and the user *)

\* What neither thread nor the user touches: everything but what is listed here.
LEMMA ElsewhereIInv ==
    ASSUME IInv, UNCHANGED <<mode, horizon, status, dead, edges, pending, after, backlog, job, judged>>,
           edited' \subseteq Notes, fileless' \subseteq Live, removed' \subseteq Notes,
           chat' # None => chat' \in [of : Notes, todo : SUBSET Notes, found : Notes \cup {None}]
    PROVE  IInv'
<1> USE DEF IInv
<1>1. Types' BY DEF Types
<1>2. Held'
  <2>1. Reviewed' BY DEF Held, Reviewed, StatusReview, EditReview, NoteReview, Place
  <2>2. Touched' BY DEF Held, Touched
  <2>3. Enriched' /\ Drafted' BY DEF Held, Enriched, Drafted
  <2> QED BY <2>1, <2>2, <2>3 DEF Held
<1>3. Proposed' /\ Ranked' BY DEF Proposed, Ranked, Below
<1> QED BY <1>1, <1>2, <1>3

LEMMA ChatIInv ==
    /\ \A n \in Notes : IInv /\ Improve(n) => IInv'
    /\ \A n \in Notes : IInv /\ FindSource(n) => IInv'
    /\ \A n \in Notes : IInv /\ UserRemoves(n) => IInv'
    /\ IInv /\ PlanShown => IInv'
<1> USE DEF graph, worker, ChatProjects
<1>0. IInv => /\ edited \subseteq Notes /\ fileless \subseteq Live /\ removed \subseteq Notes
              /\ chat # None => chat \in [of : Notes, todo : SUBSET Notes, found : Notes \cup {None}]
  BY DEF IInv, Types, Held, Drafted
<1>1. ASSUME IInv, NEW n \in Notes, Improve(n) PROVE IInv'
  BY <1>0, <1>1, ElsewhereIInv DEF Improve
<1>2. ASSUME IInv, NEW n \in Notes, FindSource(n) PROVE IInv'
  <2>1. chat' \in [of : Notes, todo : SUBSET Notes, found : Notes \cup {None}]
    BY <1>0, <1>2 DEF FindSource
  <2> QED BY <1>0, <1>2, <2>1, ElsewhereIInv DEF FindSource
<1>3. ASSUME IInv, NEW n \in Notes, UserRemoves(n) PROVE IInv'
  BY <1>0, <1>3, ElsewhereIInv DEF UserRemoves
<1>4. ASSUME IInv, PlanShown PROVE IInv'
  BY <1>0, <1>4, ElsewhereIInv DEF PlanShown
<1> QED BY <1>1, <1>2, <1>3, <1>4

LEMMA LinkSourceIInv == IInv /\ LinkSource => IInv'
<1> SUFFICES ASSUME IInv, LinkSource PROVE IInv' OBVIOUS
<1> DEFINE new == {[from |-> chat.of, to |-> chat.found, kind |-> "relates"]}
<1>1. chat \in [of : Notes, todo : SUBSET Notes, found : Notes \cup {None}] /\ chat.found # None
  BY DEF LinkSource, IInv, Held, Drafted
<1>2. /\ edges' = edges \cup new
      /\ \A e \in new : e \in [from : Notes, to : Notes, kind : {"relates"}]
      /\ chat' \in [of : Notes, todo : SUBSET Notes, found : Notes \cup {None}]
  BY <1>1 DEF LinkSource, AddEdges
<1> QED BY <1>2, RelatesIInv DEF LinkSource, worker

\* A plan draft makes a note, too: of the least abstract horizon, and in the room that is left.
LEMMA PlanDraftIInv == IInv /\ PlanDraft => IInv'
<1> SUFFICES ASSUME IInv, PlanDraft PROVE IInv' OBVIOUS
<1> USE DEF IInv
<1> DEFINE n == Len(horizon) + 1
<1>1. /\ horizon' = Append(horizon, 3) /\ status' = Append(status, "open") /\ Room
      /\ fileless' = fileless \cup {n}
      /\ UNCHANGED <<mode, dead, edited, edges, pending, after, backlog, job, removed, judged>>
  BY DEF PlanDraft, worker
<1>2. /\ Len(horizon) \in Nat /\ Notes = 1..Len(horizon)
      /\ Notes' = Notes \cup {n} /\ n \notin Notes
      /\ horizon' \in Seq(Horizons) /\ Len(horizon') = n
      /\ \A m \in Notes : horizon'[m] = horizon[m]
  BY <1>1, Grown, CurationAssumption DEF Types
<1>3. chat' \in [of : Notes', todo : SUBSET Notes', found : Notes' \cup {None}]
  BY <1>2 DEF PlanDraft, Neighbourhoods
<1>4. Types'
  <2>1. status' \in [Notes' -> {"open", "done"}]
    <3>1. status \in [1..Len(horizon) -> {"open", "done"}] BY <1>2 DEF Types
    <3>2. Notes' = 1..(Len(horizon) + 1) BY <1>2
    <3> QED BY <1>1, <1>2, <3>1, <3>2, StatusGrown
  <2>2. backlog \in Seq(Notes') BY <1>2, SeqMonotonic DEF Types
  <2>3. edges \subseteq [from : Notes', to : Notes', kind : {"relates", "part_of"}]
    BY <1>2 DEF Types
  <2> QED BY <1>1, <1>2, <2>1, <2>2, <2>3 DEF Types
<1>5. Held'
  <2>1. Live \subseteq Live' BY <1>1, <1>2
  <2>2. ASSUME pending # None, NoteReview(pending) PROVE NoteReview(pending)' /\ Len(horizon') < MaxNotes[mode']
    <3>1. Len(horizon) + 1 < MaxNotes[mode]
      <4>1. MaxNotes[mode] \in Nat BY DEF Types
      <4> QED BY <1>1, <1>2, <2>2, <4>1 DEF Room, NoteReview
    <3> QED BY <1>1, <1>2, <2>1, <2>2, <3>1 DEF NoteReview, Place
  <2>3. Reviewed' BY <1>1, <2>1, <2>2 DEF Held, Reviewed, StatusReview, EditReview
  <2>4. Touched' /\ Enriched' BY <1>1, <1>2, <2>1 DEF Held, Touched, Enriched
  <2>5. Drafted' BY <1>3 DEF Drafted
  <2> QED BY <2>3, <2>4, <2>5 DEF Held
<1>6. Proposed'
  <2>1. pending # None /\ pending.what = "note" => pending.place.parent \in Notes \cup {None}
    BY DEF Held, Reviewed, StatusReview, EditReview, NoteReview, Place
  <2> QED BY <1>1, <1>2, <2>1 DEF Proposed
<1>7. Ranked'
  <2>1. \A e \in edges : e.from \in Notes /\ e.to \in Notes BY DEF Types
  <2> QED BY <1>1, <1>2, <2>1 DEF Ranked, Below
<1> QED BY <1>4, <1>5, <1>6, <1>7

-----------------------------------------------------------------------------
LEMMA NextIInv == IInv /\ [Next]_vars => IInv'
<1> SUFFICES ASSUME IInv, [Next]_vars PROVE IInv' OBVIOUS
<1>1. CASE UNCHANGED vars
  <2> USE <1>1 DEF vars, graph, worker, IInv
  <2>1. Types' BY DEF Types
  <2>2. Reviewed' BY DEF Held, Reviewed, StatusReview, EditReview, NoteReview, Place
  <2>3. Touched' /\ Enriched' /\ Drafted' BY DEF Held, Touched, Enriched, Drafted
  <2>4. Proposed' /\ Ranked' BY DEF Proposed, Ranked, Below
  <2> QED BY <2>1, <2>2, <2>3, <2>4 DEF Held
<1>2. CASE \E n \in Notes : \/ \E s \in {"open", "done"} : ProposeStatus(n, s)
                            \/ ProposeEdit(n) \/ Improve(n) \/ FindSource(n) \/ UserRemoves(n)
  BY <1>2, ProposeIInv, ChatIInv
<1>3. CASE \E rank \in Horizons : ProposeNote(rank)
  BY <1>3, ProposeIInv
<1>4. CASE Discard \/ ApproveStatus \/ ApproveEdit \/ ApproveNote \/ Reproject
  BY <1>4, DiscardIInv, ApproveEventIInv, ApproveNoteIInv, ReprojectIInv
<1>5. CASE EnrichBegin \/ EnrichLinks \/ EnrichPlace \/ EnrichFails
  BY <1>5, EnrichBeginIInv, EnrichLinksIInv, EnrichPlaceIInv, EnrichFailsIInv
<1>6. CASE PlanDraft \/ LinkSource \/ PlanShown
  BY <1>6, PlanDraftIInv, LinkSourceIInv, ChatIInv
<1> QED BY <1>1, <1>2, <1>3, <1>4, <1>5, <1>6 DEF Next

(* Whatever is captured, drafted, removed and enriched, what the worker waits *)
(* with stays alive and the hierarchy stays ordered.                          *)
THEOREM Invariance == Spec => []IInv
BY InitIInv, NextIInv, PTL DEF Spec

\* The notes are as many as the bound allows: a review of a note leaves room for it.
Fits == Len(horizon) <= MaxNotes[mode]

LEMMA NextFits == IInv /\ IInv' /\ Fits /\ [Next]_vars => Fits'
<1> SUFFICES ASSUME IInv, IInv', Fits, [Next]_vars PROVE Fits' OBVIOUS
<1>1. /\ Len(horizon) \in Nat /\ MaxNotes[mode] \in Nat
      /\ Len(horizon) < MaxNotes[mode] => Len(horizon) + 1 <= MaxNotes[mode]
  <2>1. Len(horizon) \in Nat /\ mode \in Modes BY LenProperties DEF IInv, Types
  <2>2. MaxNotes[mode] \in Nat BY <2>1
  <2> QED BY <2>1, <2>2
<1>2. CASE UNCHANGED <<mode, horizon>>
  BY <1>2 DEF Fits
<1>3. CASE ApproveNote
  <2>1. Len(horizon) < MaxNotes[mode]
    BY <1>3 DEF IInv, Held, Reviewed, StatusReview, EditReview, NoteReview, ApproveNote, Approved
  <2>2. mode' = mode /\ horizon' = Append(horizon, pending.rank) /\ pending.rank \in Horizons
    BY <1>3 DEF IInv, Held, Reviewed, StatusReview, EditReview, NoteReview, ApproveNote, Approved
  <2>3. Len(horizon') = Len(horizon) + 1 BY <2>2, AppendProperties DEF IInv, Types
  <2> QED BY <1>1, <2>1, <2>2, <2>3 DEF Fits
<1>4. CASE PlanDraft
  <2>1. mode' = mode /\ horizon' = Append(horizon, 3) /\ Room BY <1>4 DEF PlanDraft
  <2>2. Len(horizon') = Len(horizon) + 1 BY <2>1, AppendProperties DEF IInv, Types
  <2>3. Len(horizon) < MaxNotes[mode] BY <1>1, <2>1 DEF Room
  <2> QED BY <1>1, <2>1, <2>2, <2>3 DEF Fits
<1> QED
  BY <1>2, <1>3, <1>4 DEF Next, vars, graph, worker, ProposeStatus, ProposeEdit, ProposeNote, Awaits,
     Improve, FindSource, UserRemoves, Discard, ApproveStatus, ApproveEdit, Approved, Reproject,
     EnrichBegin, EnrichLinks, EnrichPlace, EnrichFails, LinkSource, PlanShown

(* The variables keep their types whichever notes are proposed, and in no     *)
(* wiring are more notes stored than its bound.                               *)
THEOREM TypeCorrect == Spec => []TypeOK
<1>1. Init => Fits
  <2> SUFFICES ASSUME Init PROVE Fits OBVIOUS
  <2>1. Len(horizon) = 0 /\ MaxNotes[mode] \in Nat BY DEF Init
  <2> QED BY <2>1 DEF Fits
<1>2. IInv /\ Fits => TypeOK
  <2> SUFFICES ASSUME IInv, Fits PROVE TypeOK OBVIOUS
  <2>1. \A i \in 1..Len(backlog) : backlog[i] \in Notes BY ElementOfSeq DEF IInv, Types
  <2> QED BY <2>1 DEF IInv, Types, Fits, TypeOK
<1> QED BY <1>1, <1>2, NextFits, Invariance, PTL DEF Spec

-----------------------------------------------------------------------------
(* The hierarchy *)

\* Any set of numbers has a smallest.
LEMMA SmallestExists ==
    ASSUME NEW S, S \subseteq Nat, S # {}
    PROVE  \E n \in S : \A m \in S : n <= m
<1> DEFINE less == {p \in Nat \X Nat : p[1] < p[2]}
<1>1. IsWellFoundedOn(less, Nat) BY NatLessThanWellFounded DEF OpToRel
<1>2. PICK n \in S : \A m \in S : <<m, n>> \notin less BY <1>1, WFMin
<1>3. \A m \in S : ~(m < n) BY <1>2
<1> QED BY <1>3

\* Any set of notes holds its oldest, and one of its most abstract.
LEMMA Extremes ==
    ASSUME Types, NEW S, S \subseteq Notes, S # {}
    PROVE  /\ \E n \in S : \A m \in S : n <= m
           /\ \E n \in S : \A m \in S : horizon[n] <= horizon[m]
<1> DEFINE ranks == {horizon[n] : n \in S}
<1>1. horizon \in Seq(Horizons) /\ Len(horizon) \in Nat /\ Notes = 1..Len(horizon) BY DEF Types
<1>2. S \subseteq Nat BY <1>1
<1>3. \A n \in S : horizon[n] \in 0..3 BY <1>1, CurationAssumption, ElementOfSeq
<1>4. ranks # {} BY Zenon
<1>5. ranks \subseteq Nat
  <2>1. 0..3 \subseteq Nat OBVIOUS
  <2> QED BY <1>3, <2>1
<1>6. PICK r \in ranks : \A q \in ranks : r <= q
  <2> HIDE DEF ranks
  <2> QED BY <1>4, <1>5, SmallestExists
<1>7. PICK n \in S : r = horizon[n] OBVIOUS
<1>8. \A m \in S : horizon[n] <= horizon[m] BY <1>6, <1>7
<1> QED BY <1>2, <1>7, <1>8, SmallestExists

(* Until a model places a note that is in the graph already, the hierarchy    *)
(* has no circle: a set of notes always has one without a parent in it, the   *)
(* oldest where models place the new notes, the most abstract elsewhere.      *)
THEOREM HierarchyHasNoCircle == Spec => []HierarchySound
<1>1. IInv => HierarchySound
  <2> SUFFICES ASSUME IInv, ~judged PROVE NoCircle("part_of") BY DEF HierarchySound
  <2> SUFFICES ASSUME NEW S \in (SUBSET Notes) \ {{}}
               PROVE  \E n \in S : \A e \in edges : ~(e.kind = "part_of" /\ e.from = n /\ e.to \in S)
    BY Zenon DEF NoCircle
  <2>0. S \subseteq Notes /\ S # {} OBVIOUS
  <2>1. \A n \in Notes : n \in Nat /\ horizon[n] \in Nat
    <3>1. horizon \in Seq(Horizons) /\ Len(horizon) \in Nat /\ Notes = 1..Len(horizon)
      BY DEF IInv, Types
    <3>2. \A n \in Notes : n \in Nat /\ horizon[n] \in Horizons BY <3>1, ElementOfSeq
    <3>3. Horizons \subseteq Nat BY CurationAssumption
    <3> QED BY <3>2, <3>3
  <2>2. CASE mode = "thorough"
    <3>1. PICK n \in S : \A m \in S : n <= m BY <2>0, Extremes DEF IInv
    <3> QED BY <2>0, <2>1, <2>2, <3>1 DEF IInv, Ranked, Below
  <2>3. CASE mode # "thorough"
    <3>1. PICK n \in S : \A m \in S : horizon[n] <= horizon[m] BY <2>0, Extremes DEF IInv
    <3> QED BY <2>0, <2>1, <2>3, <3>1 DEF IInv, Ranked, Below
  <2> QED BY <2>2, <2>3
<1> QED BY <1>1, Invariance, PTL

-----------------------------------------------------------------------------
(* What the worker writes after its wait *)

(* No link, no place and no status ever goes to a note that was deleted while *)
(* the worker waited, although approve does not look.                         *)
THEOREM NothingIsBuried == Spec => NothingBuried
<1>1. IInv /\ [Next]_vars =>
         [/\ \A e \in edges' \ edges : UNCHANGED chat => {e.from, e.to} \cap dead = {}
          /\ \A n \in Notes : status'[n] # status[n] => n \notin dead]_vars
  <2> SUFFICES ASSUME IInv, Next
               PROVE  /\ \A e \in edges' \ edges : UNCHANGED chat => {e.from, e.to} \cap dead = {}
                      /\ \A n \in Notes : status'[n] # status[n] => n \notin dead
    OBVIOUS
  <2> USE DEF IInv, graph, worker
  <2>1. CASE \E n \in Notes : \/ \E s \in {"open", "done"} : ProposeStatus(n, s)
                              \/ ProposeEdit(n) \/ Improve(n) \/ FindSource(n) \/ UserRemoves(n)
    BY <2>1 DEF ProposeStatus, ProposeEdit, Awaits, Improve, FindSource, UserRemoves
  <2>2. CASE (\E rank \in Horizons : ProposeNote(rank)) \/ Discard \/ Reproject \/ EnrichBegin
             \/ EnrichFails \/ PlanShown \/ ApproveEdit
    BY <2>2 DEF ProposeNote, Awaits, Discard, Reproject, EnrichBegin, EnrichFails, PlanShown, ApproveEdit,
                Approved
  <2>3. CASE ApproveStatus
    <3>1. pending.of \in Live
      BY <2>3 DEF ApproveStatus, Approved, Held, Reviewed, StatusReview, EditReview, NoteReview
    <3> QED BY <2>3, <3>1 DEF ApproveStatus, Approved, Types
  <2>4. CASE ApproveNote
    <3> DEFINE n == Len(horizon) + 1
    <3>1. NoteReview(pending) /\ \A m \in pending.completed : m \in Live
      BY <2>4 DEF ApproveNote, Approved, Held, Reviewed, StatusReview, EditReview, NoteReview
    <3>2. Len(horizon) \in Nat /\ Notes = 1..Len(horizon) /\ n \notin Notes BY DEF Types
    <3>3. \A e \in edges' \ edges : e.from = n /\ e.to \in Live
      <4>1. edges' = edges \cup Links(n, pending.assessed) \cup Structure(n, pending.place)
        BY <2>4 DEF ApproveNote, AddEdges
      <4>2. DOMAIN pending.assessed \subseteq Live /\ pending.place \in Place
        BY <3>1 DEF NoteReview
      <4> QED BY <4>1, <4>2, LinksType, StructureType
    <3>4. \A m \in Notes : status'[m] = IF m \in pending.completed THEN "done" ELSE status[m]
      <4> DEFINE s == [m \in Notes |-> IF m \in pending.completed THEN "done" ELSE status[m]]
      <4>1. status' = Append(s, "open") BY <2>4 DEF ApproveNote
      <4>2. s \in [1..Len(horizon) -> {"open", "done"}] BY <3>2 DEF Types
      <4> QED BY <3>2, <4>1, <4>2, StatusGrown
    <3> QED BY <3>1, <3>2, <3>3, <3>4 DEF Types
  <2>5. CASE EnrichLinks \/ EnrichPlace
    <3>1. job # None /\ job.of \in Live /\ UNCHANGED status
      BY <2>5 DEF EnrichLinks, EnrichPlace, Held, Enriched
    <3>2. \A e \in edges' \ edges : e.from = job.of /\ e.to \in Live
      BY <2>5, LinksType, StructureType DEF EnrichLinks, EnrichPlace, AddEdges, Assessments,
         Neighbourhoods, ModelPlaces, HeuristicPlaces, MoreAbstract, Place
    <3> QED BY <3>1, <3>2
  <2>6. CASE PlanDraft
    <3>1. \A m \in Notes : status'[m] = status[m]
      <4>1. Len(horizon) \in Nat /\ Notes = 1..Len(horizon) BY DEF Types
      <4>2. status \in [1..Len(horizon) -> {"open", "done"}] BY <4>1 DEF Types
      <4> QED BY <2>6, <4>1, <4>2, StatusGrown DEF PlanDraft
    <3> QED BY <2>6, <3>1 DEF PlanDraft
  <2>7. CASE LinkSource
    <3>1. chat' # chat BY <2>7 DEF LinkSource, Held, Drafted
    <3> QED BY <2>7, <3>1 DEF LinkSource
  <2> QED BY <2>1, <2>2, <2>3, <2>4, <2>5, <2>6, <2>7 DEF Next
<1> QED BY <1>1, Invariance, PTL DEF Spec, NothingBuried
=============================================================================
