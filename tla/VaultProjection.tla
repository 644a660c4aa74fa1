-------------------------- MODULE VaultProjection --------------------------
(***************************************************************************)
(* The vault as a projection of the index (core/project.py, core/vault.py). *)
(* The index and its events are the truth; every note's .md is rendered     *)
(* from them, under a file name that is a slug of its title, while the user *)
(* edits, deletes and adds files in the same directory.  A file missing     *)
(* from the vault is how the user says "delete this note".                  *)
(*                                                                          *)
(* The capture worker commits a note (index first, then its file), adds the *)
(* entities it mentions, and re-projects; the chat thread applies approved  *)
(* drafts to the same repository and re-projects too; the command line      *)
(* re-renders.  A projection goes through the vault file by file, and other *)
(* threads, the user, and the death of the process come in between.  Every  *)
(* note has its verbatim original stored (propose and propose_note add it   *)
(* first), so the `originals.get` tests are true here.                      *)
(*                                                                          *)
(* A file is not replaced in one step: write_text opens it, which empties   *)
(* it, and writes it from the top.  Others may look in between, the disk    *)
(* may be full, the process may die: what was written by then stays.        *)
(***************************************************************************)
EXTENDS Naturals, FiniteSets, SequencesExt

CONSTANTS Ids,        \* note ids; their order is the order of the hex digests
          Entities,   \* those that are content-addressed by an entity's name
          Stems,      \* file names without .md
          Slugs,      \* those that are the slug of some title
          Suffixed,   \* [Slugs \X Ids -> Stems]: slug and the first six digits of an id
          Title,      \* [Ids -> Slugs]: the slug of the title a note is created with
          Related,    \* [Ids -> SUBSET Ids]: what the reconciler links a new note to
          Mentions,   \* [Ids -> SUBSET Entities]: what an extractor finds in a capture
          Worker, Chat, \* the two threads of the app that project
          MaxEdits, MaxTouches, MaxCrashes,  \* bounds: edits, user actions, restarts
          None

ASSUME VaultAssumption ==
    /\ Ids \subseteq Nat /\ Entities \subseteq Ids /\ Slugs \subseteq Stems
    /\ Suffixed \in [Slugs \X Ids -> Stems] /\ Title \in [Ids -> Slugs]
    /\ Related \in [Ids -> SUBSET Ids] /\ Mentions \in [Ids -> SUBSET Entities]
    /\ \A i \in Ids : IsFiniteSet(Mentions[i])
    /\ None \notin Ids /\ Worker # Chat

Threads == {Worker, Chat}

VARIABLES index,    \* the notes ever added, in insertion order
          dead,     \* tombstoned notes
          edges,    \* typed links <<source, target>>
          slug,     \* [Ids -> the slug of the current, edited title]
          improved, \* notes whose body an edit event replaced
          files,    \* [Stems -> a file of the vault, or None]
          views,    \* the notes listed in graph.json, Plan.md, Masterplan.md
          proc,     \* [Threads -> what the thread is doing]
          edits, touches, crashes,   \* counters for the bounds
          removed,  \* history: notes whose file the user deleted
          external, \* history: notes whose file the user rewrote and kept
          placed,   \* history: file names under which the user keeps a file of their own
          torn,     \* history: notes whose file was left, or looked at, half written
          fresh     \* history: nothing changed since the last projection took its snapshot

truth    == <<index, dead, edges, slug, improved>>
bounds   == <<edits, touches, crashes>>
history  == <<removed, external, placed, torn, fresh>>
vars == <<truth, files, views, proc, bounds, history>>

\* A body is known by the note it was written for and by who wrote it last.
Bodies == [of : Ids, text : {"organized", "improved", "external", "cut"}]
          \cup [of : {None}, text : {"external", "unheaded", "cut"}]
File == [id : Ids \cup {None}, body : Bodies, links : SUBSET (Ids \X Stems)]

ASSUME NoneAssumption == None \notin File \cup Bodies \cup Stems

Live    == ToSet(index) \ dead
Body(i) == [of |-> i, text |-> IF i \in improved THEN "improved" ELSE "organized"]
Own     == {st \in Stems : files[st] # None}
Present == {files[st].id : st \in Own} \ {None}

\* plan_filenames: in the order of the ids, the first to come wins the clean slug.
PlanFilenames(notes) ==
    LET stem[i \in notes] ==
          IF \E j \in notes : j < i /\ stem[j] = slug[i]
          THEN Suffixed[slug[i], i] ELSE slug[i]
    IN stem

\* _unique_stem: a one-off write looks at the disk instead.
UniqueStem(i) ==
    IF files[Title[i]] = None \/ files[Title[i]].id = i
    THEN Title[i] ELSE Suffixed[Title[i], i]

\* extract_body: None when there is no file or no heading to recognise it by.
ExtractBody(st) ==
    IF files[st] = None \/ files[st].body.text = "unheaded" THEN None ELSE files[st].body

\* What may be on the disk of a file that is being written: nothing, or as far as its front
\* matter, or some of its body, or all of that.
Blank == [id |-> None, body |-> [of |-> None, text |-> "unheaded"], links |-> {}]
Parts(file) == {Blank, [file EXCEPT !.links = {}, !.body = Blank.body],
                [file EXCEPT !.links = {}, !.body.text = "cut"], [file EXCEPT !.links = {}]}

-----------------------------------------------------------------------------
\* A thread's state: where it is, the arguments of write_projections, and its locals.
Resting == [pc |-> "idle", note |-> None, reconcile |-> FALSE, protect |-> {}, present |-> {},
            stems |-> <<>>, todo |-> {}, body |-> None, open |-> None]

Init ==
    /\ index = <<>> /\ dead = {} /\ edges = {} /\ improved = {}
    /\ slug = Title
    /\ files = [st \in Stems |-> None]
    /\ views = {}
    /\ proc = [t \in Threads |-> Resting]
    /\ edits = 0 /\ touches = 0 /\ crashes = 0
    /\ removed = {} /\ external = {} /\ placed = {} /\ torn = {} /\ fresh = FALSE

Idle(t)  == proc[t].pc = "idle"
At(t, l) == proc[t].pc = l
Quiet    == \A t \in Threads : Idle(t)
IsOpen(st) == \E t \in Threads : proc[t].open = st

\* write_projections starts with the scan, or with the views when it must not reconcile.
Projecting(reconcile, protect) ==
    [Resting EXCEPT !.pc = IF reconcile THEN "scan" ELSE "views",
                    !.reconcile = reconcile, !.protect = protect]

\* add_note, of one note after the other: idempotent by id.
Additions(notes) == {s \in [1..Cardinality(notes \ ToSet(index)) -> notes \ ToSet(index)] :
                        IsInjective(s)}

-----------------------------------------------------------------------------
\* commit, first half: the note and its links go to the index.
Commit(i) ==
    /\ Idle(Worker) /\ i \notin ToSet(index) \cup Entities
    /\ index' = Append(index, i)
    /\ edges' = edges \cup ({i} \X (Related[i] \cap Live))
    /\ proc' = [proc EXCEPT ![Worker] = [Resting EXCEPT !.pc = "file", !.note = i]]
    /\ fresh' = FALSE
    /\ UNCHANGED <<dead, slug, improved, files, views, bounds, removed, external, placed, torn>>

\* commit, second half: vault.write, whose links name their targets by their first titles.
FirstFile(i) == [id |-> i, body |-> [of |-> i, text |-> "organized"],
                 links |-> {<<j, Title[j]>> : j \in {k \in Ids : <<i, k>> \in edges}}]
OpenFile ==
    /\ At(Worker, "file")
    /\ LET i == proc[Worker].note
       IN /\ \E part \in Parts(FirstFile(i)) : files' = [files EXCEPT ![UniqueStem(i)] = part]
          /\ proc' = [proc EXCEPT ![Worker].open = UniqueStem(i), ![Worker].pc = "filling"]
          /\ torn' = IF IsOpen(Title[i]) THEN torn \cup {i} ELSE torn
    /\ UNCHANGED <<truth, views, bounds, removed, external, placed, fresh>>

WriteFile ==
    /\ At(Worker, "filling")
    /\ files' = [files EXCEPT ![proc[Worker].open] = FirstFile(proc[Worker].note)]
    /\ proc' = [proc EXCEPT ![Worker].open = None, ![Worker].pc = "entities"]
    /\ UNCHANGED <<truth, views, bounds, history>>

\* vault.write raises: the capture ends FAILED, without its after_commit.
WriteFails ==
    /\ At(Worker, "file") \/ At(Worker, "filling")
    /\ proc' = [proc EXCEPT ![Worker] = Resting]
    /\ torn' = IF At(Worker, "filling") THEN torn \cup {proc[Worker].note} ELSE torn
    /\ fresh' = FALSE
    /\ UNCHANGED <<truth, files, views, bounds, removed, external, placed>>

\* _extract_entities: entity notes are indexed, with an original but no file; without an
\* extractor, or if it fails, none are.
AddEntities ==
    /\ At(Worker, "entities")
    /\ LET i == proc[Worker].note
       IN /\ \/ /\ i \in Live
                /\ \E added \in Additions(Mentions[i]) : index' = index \o added
                /\ edges' = edges \cup ({i} \X Mentions[i])
             \/ UNCHANGED <<index, edges>>
          /\ proc' = [proc EXCEPT ![Worker] = Projecting(TRUE, {i})]
    /\ UNCHANGED <<dead, slug, improved, files, views, bounds, history>>

\* An approved edit: by a capture (the worker reconciles deletions) or a chat draft (it does not).
Edit(t, i, title, body) ==
    /\ Idle(t) /\ i \in Live /\ edits < MaxEdits
    /\ title # slug[i] \/ ~(body \subseteq improved)   \* else record_edit sees no change
    /\ slug' = [slug EXCEPT ![i] = title]
    /\ improved' = improved \cup body
    /\ edits' = edits + 1
    /\ proc' = [proc EXCEPT ![t] = Projecting(t = Worker, {i})]
    /\ fresh' = FALSE
    /\ UNCHANGED <<index, dead, edges, files, views, touches, crashes, removed, external, placed, torn>>

\* apply_plan_draft: propose_note and place add to the index, the projection will write the file.
ApplyPlan(i) ==
    /\ Idle(Chat) /\ i \notin ToSet(index) \cup Entities
    /\ index' = Append(index, i)
    /\ edges' = edges \cup ({i} \X (Related[i] \cap Live))
    /\ proc' = [proc EXCEPT ![Chat] = Projecting(FALSE, {})]
    /\ fresh' = FALSE
    /\ UNCHANGED <<dead, slug, improved, files, views, bounds, removed, external, placed, torn>>

\* grandplan rerender, run while the app is closed (when there is something to do: a bound).
Rerender ==
    /\ Quiet /\ ~fresh
    /\ proc' = [proc EXCEPT ![Worker] = Projecting(TRUE, {})]
    /\ UNCHANGED <<truth, files, views, bounds, history>>

-----------------------------------------------------------------------------
\* _tombstone_user_deletions: one look at the directory, ...
Scan(t) ==
    /\ At(t, "scan")
    /\ proc' = [proc EXCEPT ![t].present = Present, ![t].pc = "bury"]
    /\ UNCHANGED <<truth, files, views, bounds, history>>

\* ... then a tombstone for every note that had no file in it.
Missing(t) == Live \ (proc[t].present \cup proc[t].protect)
Bury(t) ==
    /\ At(t, "bury")
    /\ dead' = dead \cup Missing(t)
    /\ proc' = [proc EXCEPT ![t].pc = "views"]
    /\ UNCHANGED <<index, edges, slug, improved, files, views, bounds, history>>

\* Mutated: the views are drawn from every note ever stored.
WriteAllViews(t) ==
    /\ At(t, "views")
    /\ views' = ToSet(index)
    /\ proc' = [proc EXCEPT ![t].pc = "snapshot"]
    /\ UNCHANGED <<truth, files, bounds, history>>
\* export_graph, write_plan, write_masterplan, write_timeline: from the notes as they are now.
WriteViews(t) ==
    /\ At(t, "views")
    /\ views' = Live
    /\ proc' = [proc EXCEPT ![t].pc = "snapshot"]
    /\ UNCHANGED <<truth, files, bounds, history>>

\* Mutated: every note ever stored is rendered.
SnapshotAll(t) ==
    /\ At(t, "snapshot")
    /\ proc' = [proc EXCEPT ![t].stems = PlanFilenames(ToSet(index)),
                            ![t].todo = ToSet(index), ![t].pc = "read"]
    /\ fresh' = TRUE
    /\ UNCHANGED <<truth, files, views, bounds, removed, external, placed, torn>>
\* write_notes reads the current notes once and names all the files.
Snapshot(t) ==
    /\ At(t, "snapshot")
    /\ proc' = [proc EXCEPT ![t].stems = PlanFilenames(Live),
                            ![t].todo = Live, ![t].pc = "read"]
    /\ fresh' = TRUE
    /\ UNCHANGED <<truth, files, views, bounds, removed, external, placed, torn>>

\* The note whose turn it is: the first to come in the index.
Following(t) ==
    LET at == {k \in 1..Len(index) : index[k] \in proc[t].todo}
    IN  index[CHOOSE k \in at : \A l \in at : k <= l]

\* Mutated: the file's body is not kept.
FreshBody(t, i) == Body(i)
\* Mutated: without a file, the body found for the note before it.
StickyBody(t, i) ==
    LET kept == ExtractBody(proc[t].stems[i])
    IN IF kept # None THEN kept ELSE IF proc[t].body # None THEN proc[t].body ELSE Body(i)
\* The body of the file of that name, whoever's it is, is kept; no file, the note's own.
PreservedBody(t, i) ==
    LET kept == ExtractBody(proc[t].stems[i]) IN IF kept = None THEN Body(i) ELSE kept

ReadBody(t) ==
    /\ At(t, "read") /\ proc[t].todo # {}
    /\ LET i == Following(t)
       IN /\ proc' = [proc EXCEPT ![t].body = PreservedBody(t, i), ![t].pc = "put"]
          /\ torn' = IF IsOpen(proc[t].stems[i]) THEN torn \cup {i} ELSE torn
    /\ UNCHANGED <<truth, files, views, bounds, removed, external, placed, fresh>>

\* Mutated: a link is the slug of its target's title.
LinksByTitle(t, i) ==
    {<<j, slug[j]>> : j \in {k \in DOMAIN proc[t].stems : <<i, k>> \in edges}}
\* Links of the note whose target is a current note, by the name of the target's file.
Wikilinks(t, i) ==
    {<<j, proc[t].stems[j]>> : j \in {k \in DOMAIN proc[t].stems : <<i, k>> \in edges}}

\* The file of the note whose turn it is, and its name.
NoteFile(t) ==
    LET i == Following(t) IN [id |-> i, body |-> proc[t].body, links |-> Wikilinks(t, i)]
NoteStem(t) == proc[t].stems[Following(t)]
NextNote(t) == proc' = [proc EXCEPT ![t].todo = @ \ {Following(t)}, ![t].open = None, ![t].pc = "read"]

\* write_text_if_changed leaves a file alone that is already as it should be (one that differs
\* only in what a file is here abstracted from is written).
KeepNote(t) ==
    /\ At(t, "put") /\ files[NoteStem(t)] = NoteFile(t)
    /\ NextNote(t)
    /\ UNCHANGED <<truth, files, views, bounds, history>>

OpenNote(t) ==
    /\ At(t, "put")
    /\ \E part \in Parts(NoteFile(t)) : files' = [files EXCEPT ![NoteStem(t)] = part]
    /\ proc' = [proc EXCEPT ![t].open = NoteStem(t), ![t].pc = "writing"]
    /\ UNCHANGED <<truth, views, bounds, history>>

PutNote(t) ==
    /\ At(t, "writing")
    /\ files' = [files EXCEPT ![proc[t].open] = NoteFile(t)]
    /\ NextNote(t)
    /\ UNCHANGED <<truth, views, bounds, history>>

\* vault.write raises: the rest of the projection does not happen (_run_after_commit).
ProjectionFails(t) ==
    /\ At(t, "put") \/ At(t, "writing")
    /\ proc' = [proc EXCEPT ![t] = Resting]
    /\ torn' = IF At(t, "writing") THEN torn \cup {Following(t)} ELSE torn
    /\ fresh' = FALSE
    /\ UNCHANGED <<truth, files, views, bounds, removed, external, placed>>

\* Mutated: only clean names are kept.
OrphanedSuffix(t, st) ==
    /\ files[st] # None
    /\ st \notin {slug[i] : i \in DOMAIN proc[t].stems}
    /\ files[st].id \in DOMAIN proc[t].stems
\* Mutated: files of notes that were not rendered go instead.
OrphanedOthers(t, st) ==
    /\ files[st] # None
    /\ files[st].id \notin DOMAIN proc[t].stems \cup {None}
\* _remove_renamed_orphans: other files of the notes just rendered go.
Orphaned(t, st) ==
    /\ files[st] # None
    /\ st \notin {proc[t].stems[i] : i \in DOMAIN proc[t].stems}
    /\ files[st].id \in DOMAIN proc[t].stems
Sweep(t) ==
    /\ At(t, "read") /\ proc[t].todo = {}
    /\ files' = [st \in Stems |-> IF Orphaned(t, st) THEN None ELSE files[st]]
    /\ proc' = [proc EXCEPT ![t] = Resting]
    /\ UNCHANGED <<truth, views, bounds, history>>

-----------------------------------------------------------------------------
\* The user, or another program, at work in the vault, on files that are not being written.
Touch == /\ touches < MaxTouches /\ touches' = touches + 1
         /\ fresh' = FALSE
         /\ UNCHANGED <<truth, views, proc, edits, crashes>>

\* The file is the note's only one, under its clean name: with the user's text in it, whatever
\* was torn before is whole again.
OnlyFile(st) == \A x \in Own : files[x].id = files[st].id => x = slug[files[x].id]

UserEdits(st) ==
    /\ Touch
    /\ files[st] # None /\ files[st].id # None /\ ~IsOpen(st)
    /\ files' = [files EXCEPT ![st].body = [of |-> files[st].id, text |-> "external"]]
    /\ external' = external \cup {files[st].id}
    /\ torn' = IF OnlyFile(st) THEN torn \ {files[st].id} ELSE torn
    /\ UNCHANGED <<removed, placed>>

UserDeletes(st) ==
    /\ Touch
    /\ files[st] # None /\ files[st].id # None /\ ~IsOpen(st)
    /\ files' = [files EXCEPT ![st] = None]
    /\ removed' = removed \cup {files[st].id}
    /\ external' = external \ {files[st].id}
    /\ UNCHANGED <<placed, torn>>

UserAdds(st, text) ==
    /\ Touch
    /\ files[st] = None
    /\ files' = [files EXCEPT ![st] = [id |-> None, body |-> [of |-> None, text |-> text],
                                       links |-> {}]]
    /\ placed' = placed \cup {st}
    /\ UNCHANGED <<removed, external, torn>>

\* The process dies; the index and the files are what is on disk.
Writing(t) == IF At(t, "filling") THEN {proc[t].note}
              ELSE IF At(t, "writing") THEN {Following(t)} ELSE {}
Crash ==
    /\ crashes < MaxCrashes /\ ~Quiet
    /\ crashes' = crashes + 1
    /\ proc' = [t \in Threads |-> Resting]
    /\ torn' = torn \cup UNION {Writing(t) : t \in Threads}
    /\ fresh' = FALSE
    /\ UNCHANGED <<truth, files, views, edits, touches, removed, external, placed>>

Project(t) ==
    \/ Scan(t) \/ Bury(t) \/ WriteViews(t) \/ Snapshot(t)
    \/ ReadBody(t) \/ KeepNote(t) \/ OpenNote(t) \/ PutNote(t) \/ ProjectionFails(t)
    \/ Sweep(t)
User ==
    \/ \E st \in Stems : UserEdits(st) \/ UserDeletes(st)
    \/ \E st \in Slugs, text \in {"external", "unheaded"} : UserAdds(st, text)
Next ==
    \/ \E i \in Ids : Commit(i) \/ ApplyPlan(i)
    \/ OpenFile \/ WriteFile \/ WriteFails \/ AddEntities \/ Rerender
    \/ \E t \in Threads, i \in Ids : \E title \in Slugs, body \in {{}, {i}} : Edit(t, i, title, body)
    \/ \E t \in Threads : Project(t)
    \/ User \/ Crash

Spec == Init /\ [][Next]_vars

-----------------------------------------------------------------------------
Procs == [pc : {"idle", "file", "filling", "entities", "scan", "bury", "views", "snapshot", "read",
                "put", "writing"},
          note : Ids \cup {None}, reconcile : BOOLEAN, protect : SUBSET Ids,
          present : SUBSET Ids, stems : UNION {[S -> Stems] : S \in SUBSET Ids},
          todo : SUBSET Ids, body : Bodies \cup {None}, open : Stems \cup {None}]

\* Types; and no file name is planned for two notes, no note is indexed twice.
TypeOK ==
    /\ index \in Seq(Ids) /\ IsInjective(index)
    /\ dead \subseteq ToSet(index) /\ improved \subseteq ToSet(index)
    /\ edges \subseteq Ids \X Ids /\ slug \in [Ids -> Slugs]
    /\ files \in [Stems -> File \cup {None}] /\ views \subseteq Ids
    /\ proc \in [Threads -> Procs]
    /\ \A t \in Threads : IsInjective(proc[t].stems)
    /\ edits \in 0..MaxEdits /\ touches \in 0..MaxTouches /\ crashes \in 0..MaxCrashes
    /\ removed \subseteq Ids /\ external \subseteq Ids /\ placed \subseteq Stems
    /\ torn \subseteq Ids /\ fresh \in BOOLEAN

Settled == fresh /\ Quiet

\* A note is tombstoned only if the user removed its file: the absence of a file, which is all
\* _tombstone_user_deletions looks at, never has another cause.
OnlyUserDeletes == dead \subseteq removed

\* After a projection every current note has one file, under its planned name, although
\* titles changed, names collided and files were renamed over each other on the way.
NotesOnDisk ==
    Settled => \A i \in Live :
        {st \in Own : files[st].id = i} = {PlanFilenames(Live)[i]}

\* After a projection every wikilink names the file of the note it is meant for (vault.py
\* renders links through the same map of file names as the files).
LinksResolve ==
    Settled => \A st \in Own : \A link \in files[st].links :
        files[link[2]] # None /\ files[link[2]].id = link[1]

\* After a projection the graph and the plans list the notes that have a file and no others:
\* tombstones come before the views.
ViewsAgree == Settled => /\ views = Live
                         /\ Present = Live

\* A tombstoned note's file is never written again (project.py, _tombstone_user_deletions).
StaysGone == \A i \in dead : i \in Present' => i \in Present

\* The vault's guide promises the reader that grandplan never clobbers a body: the text the user
\* wrote into a note's file stays in that note's file until the user removes it.
Extern(i) == [of |-> i, text |-> "external"]
InFile(i) == \E st \in Own : files[st].id = i /\ files[st].body = Extern(i)
ExternalBodyKept == \A i \in external \ dead : InFile(i)

\* The same of the notes whose file was not torn, when no thread is between emptying the file
\* and writing that text into it.
InHand(i) == \E t \in Threads : At(t, "writing") /\ Following(t) = i /\ proc[t].body = Extern(i)
UntornBodyKept == \A i \in external \ torn : InFile(i) \/ InHand(i)

\* A note's file never carries the body of another note (vault.py: a name clash is
\* disambiguated so that a note is never clobbered).
BodyBelongs == \A st \in Own :
    files[st].body.of = files[st].id \/ files[st].body.text = "unheaded"

\* After a projection, an approved edit of a body the user has not rewritten is in the file
\* (kb_chat.py: so the improved note shows in Obsidian immediately).
EditShows ==
    Settled => \A i \in (improved \cap Live) \ external : \E st \in Own :
        files[st].id = i /\ files[st].body.text = "improved"

\* After a projection, the entities of a current note are listed in the views (coordinator.py
\* extracts them before the projection so that they show in it).
EntitiesShow ==
    Settled => \A e \in Entities \ removed :
        (\E i \in Live : <<i, e>> \in edges) => e \in views

\* A file of the user's own is never touched (project.py, _remove_renamed_orphans, write_notes).
ForeignKept == \A st \in placed : files[st] # None /\ files[st].id = None
=============================================================================
