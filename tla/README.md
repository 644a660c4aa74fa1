# Verification of grandplan

TLA+ models of grandplan (package `src/src/grandplan`), checked with TLC on small
instances and, where it matters most, proved with TLAPS for every instance.

grandplan turns text captured on a desktop or a phone into notes. A capture goes
through an organizer (a local model), is shown to the user, and if approved becomes a
note in an append-only index, from which an Obsidian vault (Markdown files, a plan, a
graph) is projected again and again while the user works in the same files. A chat
answers questions about the vault and drafts changes to it; commands work on the whole
vault; a phone, a watched folder and agents send in more.

## 1. The system

| part | state it keeps | operations | speaks to |
|---|---|---|---|
| Capture coordinator `app/coordinator.py` | bounded queue, the list the queue view shows, the capture in flight, the parked review, recent captures, enrichment backlog, shutdown flag, worker thread | submit, the worker's loop, park, approve/discard, submit_enrichment, start, stop | organizer and reconciler (calls that may raise), repository, vault, surfaces (emitted stages) |
| Surfaces `app/gui.py`, `app/queue_view.py`, `app/mobile_api.py` | open dialog, queued Qt signals; on the phone the card last rendered and the replies under way | present, answer, poll, quit and restart | coordinator, by the id of a pending review |
| Decision and enrichment `app/review.py`, `app/enrich.py`, `core/placement.py`, `core/reconcile.py` | the pending review, the notes that wait for enrichment | propose, approve or discard (note, status, edit), re-link and re-place later | note store, models, chat thread |
| Note store `core/note_store.py`, `core/repository.py` | JSON-Lines file, memory folded from it | add_note, set_status, record_edit, add_edge, delete_note, load | file system; shared by worker and chat thread without a lock |
| Similarity index `adapters/vec_index.py` | rows and map of a sqlite-vec table, the dimension, a degraded flag | open and reconcile, add, delete, most_similar | note store, which stays the truth |
| Vault projection `core/pipeline.py`, `core/project.py`, `core/vault.py` | one `.md` per note, `Plan.md`, `graph.json` | commit, write_projections (tombstone, views, notes, sweep), the chat's drafts | note store, the user's edits and deletions |
| Directives `core/directive.py`, `core/fulfil.py`, `adapters/folder_watch.py` | append-only queue file, memory of the process that opened it, the watcher's `seen` | add, scan, run_pending, fulfil_directive, mark_done | intake servers and agents in other processes |
| Intake `adapters/http_intake.py`, `capture_intake.py`, `capture.py`, `cli.py` (`up`) | threads of captures, attachments folder, one lock, the clipboard remembered | POST /capture, save, transcribe, organize, hotkey | vault, through organize_text |
| Chat `adapters/kb_chat.py`, `app/chat_window.py`, `app/scope_sync.py` | the dialogue, the scope, a draft awaiting approval, the input's state | ask, plan, improve, approve, pin/follow/clear the scope | note store, models, Obsidian's graph filter |
| Offline commands `cli.py`, MCP server `adapters/mcp_server.py`, `core/write.py` | index, its backup and its rebuild, inbox, legacy index; the server's memory | organize, regenerate, import, relink, rerender, attach, reset; the agent's tools | all of the files above |
| Planner `core/planner.py`, `core/schedule.py` | none between two calls; within one, counters, heap and order | build_plan, critical_path, parallel_batches, roll_up_progress, hierarchy | note store, every view of the plan |
| Queries, exports, diagnostics | see section 7 | | |

What is hard in it: the worker thread shares the repository with the chat thread; what
the worker decided on waits for minutes before it is written; two surfaces answer one
review, one of them outliving the process and talking over a network; files the user owns
are rewritten from a snapshot; deletion is said by the absence of a file; processes trust
a memory read once while others append; processes are killed between an append and what
follows it. The list with lines and properties is `hazards` in `PROJECT.json`.

What makes each part correct:

- coordinator: nothing is committed that was not approved, every accepted capture is
  settled once, the line is bounded and in order, never two workers;
- surfaces: an answer reaches the capture that was shown;
- decision and enrichment: nothing is written about a note deleted meanwhile, the
  hierarchy has no circle;
- store: what memory shows is on disk, a deletion stays one, a restart shows the same, the
  similarity table answers as the scan would, ties at the limit apart;
- vault: only the user deletes, the user's text is kept unless its file was torn, names and
  links agree;
- directives: none is lost, none makes two notes, all are done in the end;
- intake: what was answered 202 is organized whole, media are not overwritten;
- chat: what a scoped turn retrieves, cites and drafts is of its scope, the dialogue is
  whole, the input comes back;
- commands: no deletion invented, a rebuild complete and clean, every merge reversible;
- planner: an order that respects every edge and nothing reported as circular without
  cause, views that agree with one another, and a plan that can be worked off.

## 2. Modules

| module | models | how state and actions correspond to the code |
|---|---|---|
| `CaptureLine` | what the coordinator promises (abstract) | `line`, `current`, one outcome per capture |
| `Coordinator` | `CaptureCoordinator` | one step per critical section of `_items_lock` / `_decision_lock`, queue call, flag test or call out of the class; `pc` is where the worker stands; `Submit`+`Describe` are the two halves of `_enqueue`; `StopSignal`+`StopJoin` those of `stop()` |
| `ReviewSurfaces` | `gui.py`, the phone page, around one coordinator | extends `Coordinator`: signals queued to the Qt thread, modal dialogs with a nested event loop; the page's `Poll` takes a snapshot, `Refresh` draws a reply later and in any order; a post may be lost; quit, death and restart |
| `Curation` | from analysis to enrichment: `review.py`, `placement.py`, `enrich.py`, the chat's drafts | notes are numbers with a horizon; `Propose*` read the graph, `Approve*` write what was proposed however late, `Reproject` is the worker's `after_commit`; what a model may return is any reply the parsers let through |
| `NoteStore` | `JsonlNoteRepository` over its memory | an operation is three steps: guard, append, memory; crash and load, failing and torn writes |
| `VecIndex` | `VecIndexedRepository` | the log is one step, then the table (`AddInner`, `AddIndex`); `SyncAdd`, `SyncDrop` are the turns of `_sync`; `MostSimilar` are the answers the query with its filter may give (rows equally far are cut at the limit as sqlite likes), `BruteForce` is the scan it replaces |
| `Repository` | what `_open_repo` returns: the log and the table | extends `NoteStore`, instantiates `VecIndex` as `Table`; a behaviour is of one `part`; in `solo` one thread alone calls it, as the command line does |
| `VaultProjection` | commit, projection, user, chat | a projection is a snapshot and then, per file, three: read the body to keep, open the file, which empties it, and write it; a write that fails or is killed leaves what was written by then (`Parts`); file names are slugs that may collide |
| `Vault` | two ways to use the vault | extends `VaultProjection`: "names" (`OneProcess`: one process that completes its writes, titles that collide and move) and "calm" (`Undisturbed`: titles of their own, a user who rests while a projection runs; both threads, torn writes, deaths) |
| `Directives` | watched folder, queue file, runner, agent | `Pass` ... `MarkDone` are the steps of `run_pending`/`fulfil_directive`; `Raise`, `Crash` after any of them; `Scan` is one file of `scan_folder` |
| `Intake` | `grandplan up` | one thread per capture: `ChooseName`+`WriteBytes` are `save()`, `Acquire` ... `Release` the organizing under the lock; the hotkey on its own thread, without the lock |
| `Chat` | window or prompt over one `ChatSession` | a turn is `Refresh`, `Take`, `Retrieve`, `Recall` (the dialogue goes into the prompt), `PlanBlock`, answer, `Remembers`; an improvement is of the note the user names; results reach the window as queued signals (`Deliver`); the prompt (`front = "repl"`) is the same session, a line at a time |
| `Maintenance` | the commands on a whole vault and the MCP server | `cmd.at` is where a command stands, and it may be killed between any two steps; a rename, a copy or a batch of lines is a step: a note with its links and entities, the tombstones, the relinked edges, the events replayed, the lines an import writes in one call (`vault_import.py:63`); an agent writes from the memory the server loaded |
| `Planner` | `build_plan` and `schedule.py` | `Build` is everything before the loop of `_toposort`, `Pop` one turn of it, `Finish` what follows; the views are operators on the result |
| `MC*` | instances for TLC | model values, candidate edges, titles; `MCCoordinatorModes` has the coordinator in each of its ways to decide |
| `CoordinatorProofs`, `RepositoryProofs`, `VaultProofs`, `PlannerProofs`, `CurationProofs`, `AgentProofs`, `IntakeProofs`, `MaintenanceProofs` | theorems about the module each is named after; `CoordinatorProofs` about `ReviewSurfaces` too, `AgentProofs` about `Directives` and `Chat` | section 5 |

`ReviewSurfaces` composes with `Coordinator` by extending it; `Coordinator` implements
`CaptureLine` by a refinement mapping (`LinePromise`: the line is the request not yet
settled and those behind it). The other parts meet in the files they share, and each
module has the others' writes as actions of its own: `Curation` those of the chat,
`Maintenance` those of the agent, `VecIndex` those of the note log. Operators commented
`bug:` or `Mutated:` are the plausible mistakes the properties were tried against;
nothing in a specification uses them.

## 3. Runs

| run | instance | question and answer |
|---|---|---|
| `coordinator_parked` | 2 captures, 2 submitters, queue of 1, backlog of 1, reviews parked, start/stop at any time | the view mirrors the queue, only approved captures are committed, first decision wins, one worker, refinement of `CaptureLine`, `stop()` ends, captures are settled and enrichment runs: holds |
| `coordinator_modes` | 3 captures (two of one content), parked / injected / auto | saved means committed, and a queued capture waits for one enrichment at most, in each way to decide: holds |
| `surfaces` | 2 captures, one from the phone, one restart, one reply under way beside the next poll | an answer given on a page or dialog of this process is for what it showed; a polling phone is shown a parked review: holds |
| `surfaces_stale` | the same | a tap on a card from before the restart is not a no-op: violated |
| `curation` | 3 notes (2 with enrichment) of two horizons, 1 neighbour, 2 typed edges, 2 events, in each wiring | nothing is written about a note deleted since it was proposed; no circle in the hierarchy until a model places old notes: holds |
| `store` | log: 2 notes, 2 threads or one alone, 3 lines, 1 crash, failing writes; table: 3 notes, one of another dimension, 5 additions, 2 deletions, 3 openings | no phantom, no revival; alone, a restart agrees with memory; alone, the table's answers are the scan's for every query and limit, up to the choice among notes equally far at the limit; with two threads they are among them, with that exception: holds |
| `vault` | 3 notes, 2 of one title, and an entity; 1 edit, 2 user actions, 1 crash at any step. "names": retitles, user's own files, user actions during a projection; "calm": worker and chat thread, writes that fail before or after they emptied the file, the crash; there only notes of different titles are added | names: only the user deletes, a deleted note's file stays away, afterwards every note has its file, links resolve, views agree; calm: the user's body is lost only with a torn write of its file, and no file has another note's: holds |
| `directives` | 4 directives (2 of one watched file that appears empty and is read by two watchers, 1 no organizer accepts, 1 outside the playbooks), `--max 1`, with and without `--watch`, 1 fault, 1 kill, an agent | done means captured, one effect each, nothing stuck: holds |
| `intake` | 2 phone captures with a voice note of one name, 2 texts copied, 1 failure or restart, hotkey or not | Plan.md lists every note, no attachment is overwritten, no copy filed twice, every accepted capture organized whole: holds |
| `chat` | 2 notes, 2 filters, 2 threads, 3 messages, 1 exchange remembered, window and prompt | what a question or a plan retrieves, cites and drafts was in scope, its prompt adds only notes of the dialogue it carries, the dialogue is whole exchanges, the input comes back: holds |
| `maintenance` | an input of 2 similar paragraphs, a source vault of 2 notes (1 deleted), 2 commands, 1 kill, 1 call of an agent, 1 file removed, new or legacy vault | tombstones are earned, a rebuild is complete and clean, history kept, merges reversible: holds |
| `planner` | 4 notes, up to 4 of 11 candidate edges, 1 status change, goal or entity among the tasks | order, cycles, schedule, hierarchy; the plan can be worked off: holds |

Why the bounds are enough: a queue of one place with two submitters is where an append
and a take can interleave with a refusal, and the third capture of `coordinator_modes`
is one more than worker and queue hold, and a backlog of two there lets two enrichment
jobs wait when a capture comes. One crash or restart is enough because every
module reloads all its state from disk, so a second starts where a first did (what a torn
note file leaves is among the states the next process starts from); `store`
opens the table three times, so that what one opening repaired meets another death. Three
lines are an add, a change and a deletion of one note beside another. One reply under way
beside the next poll is the least that can arrive out of order. Two commands, one of them
killed, are a command and its repetition or any other that meets its remains. Three
messages with one exchange kept make the dialogue be cut while another turn runs. In
`vault` one edit moves a title onto another or improves a body, two user actions are a
file rewritten or added and then removed, and three notes of two titles are the least in
which a clean name passes on while a third note links it. In `curation` a third note lets a review name one that is deleted while another is linked;
with enrichment two suffice, because a job looks at one note and places it under another,
and `MaxEdges` is the number of edges a circle of two needs. In `planner` the
candidates hold a dependency said twice from both ends, dependencies with and against
the order of the ids, circles of two and three with a note downstream, a second parent,
a `part_of` circle, a superseding edge and a goal among the prerequisites; four edges
suffice for each of these with one edge to spare. `next` and `waiting_on` fall into the
same branches as `blocks` and `depends_on` and are left out of the candidates.
`SYMMETRY` is used in `store` only (note ids, no liveness there). `CHECK_DEADLOCK FALSE`
stands where the system stops: all lines written, all edges placed, all directives done,
all messages sent, all commands run.

## 4. Fairness

- Coordinator: weak fairness of the worker's steps, of a submitter that holds the lock,
  and of `stop()` once called: threads are scheduled, locks are held over memory
  operations only, and `_POLL_INTERVAL` makes every wait of the worker end. The calls to
  models return or raise since the adapters pass timeouts (`OLLAMA_TIMEOUT_S`).
  `AcceptedIsServed` has somebody answering open reviews as its hypothesis (`Answered`),
  since no thread of the program does it; `StopEndsWorker` holds without.
- Surfaces (`PhoneFair`): the page polls on its timer and draws the replies it gets. The
  worker, the Qt thread and the user may stop for good. `SurfacesFair` and
  `SurfacesAnswered` add the event loops and somebody who answers dialogs; only
  refuted properties of section 6 need them.
- Directives: the runner goes on, and a watcher that runs polls its folder. A sender, an
  agent, a writer of the file and faults need not act.
- Intake: the threads that were started run on (`Work`); models and transcription return
  or raise. Requests, copies, presses, failures and restarts are not fair.
- Chat: a turn's thread runs on, models being limited in time, and the Qt loop delivers
  queued signals (`Deliver`). The user is not fair.
- Planner: a projection that began completes and a changed graph is projected again (the
  callers do both in one call), and tasks the plan offers are done by somebody. The
  latter is no promise of the code but the question asked: does following the plan
  finish the work?

`Curation`, `Maintenance`, `Repository` and `Vault` with the modules they extend have
safety properties only. `Submit`, `Start`, `Stop`, user actions, faults and crashes are never fair.

## 5. Proofs

| theorem | of | says |
|---|---|---|
| `TypeCorrect`, `ViewMirrorsQueue`, `ReviewShowsRequest`, `NothingUnapproved`, `SavedMeansCommitted`, `EnrichmentGivesWay`, `FirstDecision`, `OneWorkerOnly` | `Coordinator` | types, and the safety properties of `coordinator_parked` and `coordinator_modes`, for any captures, submitters and bounds and every way to decide (the constant `ReviewMode`, which `MCCoordinatorModes` instantiates thrice) |
| `AnswersReachTheShown` | `ReviewSurfaces` | an answer decides the capture its surface showed: for any captures, restarts and replies under way |
| `KeepsLinePromise` | `Coordinator` | every behaviour implements `CaptureLine`; initial states and steps map under the refinement |
| `RepositoryImplements` | `Repository` | the log of the composition is a `NoteStore`, its table a `VecIndex`: what is proved of either holds in the whole |
| `Durable`, `DeletionIsFinal` | `NoteStore` | on a disk that writes lines whole: what memory shows is on disk, a deletion that returned is never undone; for any threads, ids, crashes |
| `RestartShowsTheSame` | `Repository` | for one thread a restart shows what was shown, whichever appends failed and wherever the process died; torn lines included |
| `TableIsHonest`, `TableIsExact` | `Repository` | the table's answers are among the scan's, or stand for one of the scan's as far, whatever several threads, deaths and a lost table left; for one thread that adds no deleted note again they are the scan's but for notes equally far at the limit; for any notes, dimensions, queries, ties and limits |
| `OnlyTheUserDeletes`, `VaultShowsTheIndex` | `Vault`, "names" | only what the user removed is tombstoned, and it is never written again; after a projection every note has its one file, links resolve and views agree: for any notes, colliding titles, edits and user actions |
| `BodiesStay` | `Vault`, "calm" | whatever both threads project, wherever writes fail and the process dies, a body the user wrote is in its file, or in the hands of the thread that has just emptied the file, unless that file was torn (left, or seen by the other thread, half written); no file has another note's body |
| `TypeCorrect`, `BookkeepingHolds`, `OrderTopologicalHolds`, `CycleStuckHolds`, `CycleExactHolds` | `Planner` | for every finite set of notes and every graph: order, counters, and which notes are reported as circular |
| `TypeCorrect`, `HierarchyHasNoCircle`, `NothingIsBuried` | `Curation` | the safety properties of `curation`, in every wiring, for any number of notes and any similarity |
| `QueueInvariance`, `DoneMeansCaptured`, `RetriesHaveOneEffect` | `Directives` | for any directives, faults, kills, watchers and agents |
| `ScopeKept`, `DialogueWhole` | `Chat` | what a question or a plan retrieves, cites and drafts was in scope at some moment of it, and its prompt names beside only what was in scope in an earlier turn the session remembered; the dialogue is whole exchanges: for any notes, filters, threads and history limit, in the window and in the terminal |
| `CopiesFiledInOrder`, `PlanListsAll`, `AttachmentsKept` | `Intake` | for any requests, media, copies, failures and restarts |
| `TombstonesAreEarned`, `RebuildIsComplete`, `RebuildKeepsHistory`, `MergesAreReversible` | `Maintenance` | for any two vaults, inputs, agents and removals, and kills at any step |

Assumptions are those of the modules, evaluated by TLC on every run of them:
`CoordinatorAssumption` (positive bounds, absent values apart), `StoreAssumption`,
`SurfacesAssumption` (bounds), `RepositoryAssumption` (the lone thread is a thread, finitely
many notes), `VaultAssumption` (ids are numbers, a capture mentions finitely many entities,
two threads), `DistinctAssumption` (which titles do not collide), `NoneAssumption`, `PlannerAssumption` (ids are numbers, finitely many; edges
join different notes), `CurationAssumption`, `DirectivesAssumption`, `ChatAssumption`,
`IntakeAssumption` (types of the parameters; a request has words or media; the absent
value is none of the others), `MaintenanceAssumption` (types; what is the same text is
near) and `SourceIsWhole`: every note of the vault that is imported has its original in
that vault's inbox. The code stores the original before it makes a note of it
(`core/pipeline.py:60`, `core/write.py:134`), so a vault in which no import was killed
between index and inbox is such a vault; notes of any other one have no file after an
import and would be tombstoned by the next. `Durable` and `DeletionIsFinal` assume
`~TornWrites`. `OnlyTheUserDeletes` and `VaultShowsTheIndex` have `SuffixesApart` as their
hypothesis: no title is slugged to another's name with digits of an id at its end, and six
digits tell the ids of one name apart. The code takes both for granted
(`vault.py`, `plan_filenames`): where either failed, two notes would have one file.
`BodiesStay` does not need it.

The arguments:

- `Coordinator!IInv`. That only approved captures are committed is not inductive: it
  needs what the parked decision is about, which capture the worker holds at each point
  (`WorkHeld`), that a waiting capture is in one place only (`WaitingOnce`) and how far
  its decision has got (`DecisionStage`). The mirror needs what a submitter between its
  two steps has put and not yet described (`LastPut`). There is one lemma per action.
  That enrichment gives way is not inductive either: a job may begin only with an empty
  queue, so one that saw a capture arrive is the first since the last take (`Yielding`).
- `CoordinatorProofs!SurfacesInv`. `IInv` does not survive the end of the process (a
  capture that was waiting stays unsettled), so the surfaces are proved about from the
  part of it that does (`Live`) and one fact more: among all items that somebody may still
  name - in the view, in flight, in the dialog, on the card, in replies under way - an id
  has one capture and is below the counter (`Faithful`). What the phone kept from an
  earlier process is not among them, which is where `surfaces_stale` breaks.
- `RepositoryProofs!SInv`. "Memory shows only what is on disk" needs what a thread between
  append and memory has appended (`Held`) and what a loading process has read so far
  (`LoadedShows`); finality of deletions needs that no line of a note follows a deletion
  that would bring it back when the file is folded (`DeletionsLast`).
- `RepositoryProofs!Replays`. Folding the file is recursion over data, so that a restart
  agrees is proved along a witness: there is a sequence of memories, one per line, that
  starts blank and in which each comes of the one before by that line; memory is the last
  of them, or the one before while a thread is between append and apply. What an
  operation shows then depends on the memory alone, and `After` makes of it what `Apply`
  makes of the variables.
- `RepositoryProofs!TableInv`. That the `k` nearest rows, cut anywhere among equally far
  ones, give the scan's notes is a matter of counting: both sets have the same size, so for
  each note too many one as near is missing. It needs that the rows are the notes'. What the map says of a note is a row of that note, which
  makes it injective (`TableRows`), a thread between its look at the log and
  its write names a note that is still where it saw it (`TablePending`), and a live note
  without a row is some thread's to index, unless the table was given up (`TableComplete`). Exact answers
  need that every row is some note's, since a row of nobody takes a place among the `k`
  nearest (`TableNeat`); adding a deleted note again breaks that.
- `VaultProofs!CalmInv`. Every file lies under its note's title (`InPlace`), no two indexed
  notes share one (`Untitled`), a thread about to write or in the middle of it holds the
  user's text if the user rewrote the note and its file was not torn (`HoldsItsOwn`), and a
  blank file is one that a thread is writing or a torn one (`Attended`). `torn` grows
  only where a write fails or is killed after it opened the file, and where a thread reads,
  or takes a free name beside, a file that another has open.
- `VaultProofs!NamesInv`. It follows one projection through its steps: a note the user did
  not remove has a file whenever the worker may look for missing ones (`HaveFiles`,
  `Scanned`); while files are written over each other it has its file or its turn to come
  (`Planning`); what was rendered stays in place (`Rendered`), since the planned names
  differ (`DistinctNames`) and a suffixed name never held another's file (`OwnSuffixes`).
  What is tombstoned has no file and gets none (`Buried`).
- `PlannerProofs!IInv`. An order that respects the edges follows from the counters:
  a note is popped when its counter is zero, which is the number of prerequisites not
  popped (`Bookkeeping`), over a table that is the graph's while the sort runs
  (`DepsFresh`), so whatever is popped has its prerequisites before it (`Ordered`). A
  counter is only decremented by a prerequisite it still counts, because a popped note
  has none to come. When the heap is empty, what is not popped has a prerequisite that
  is not popped either (`CycleStuck`). That `heappop` finds a smallest note uses the
  well-founded order of the numbers, as induction is not available. `CycleExact` is said
  with `Reaches`, the least relation that holds the prerequisites and is closed under
  them, and needs both directions: a set in which every note waits for one of the set
  holds, being finite, a note that comes back to itself (`ReachesCircle`: take the note
  that reaches the fewest); and a popped note never does, since what it needs stands
  before it and a note stands in the order once (`Ordered`, `Bookkeeping`).
- `CurationProofs!IInv`. `NothingBuried` needs that the worker holds one thing at a time
  (a review, a note to re-project or a note to enrich) and that what it names is alive:
  a tombstone is only set by the worker's own re-projection, which comes between two of
  them (`Reviewed`, `Touched`, `Enriched`, `Drafted`). The hierarchy has no circle because
  every part_of edge goes down in an order (`Ranked`): to an older note where models place
  the new ones, to a more abstract one elsewhere, and a pending place goes there already
  (`Proposed`).
- `AgentProofs!IInv`. The runner works from what it replayed at its start. The
  invariant bounds how far that lags behind the file: by the agents' completions and by
  nothing else (`Replayed`), and says how far the directive in hand has got (`InHand`).
- `AgentProofs`, of `Chat`. Three invariants, one on the other: `Base` (where each thread is; a queued
  signal is the last word of a thread of its own), `Scoped` (the scope of this moment is
  among those a turn answers for, whichever of its two reads it is at; what the dialogue
  names was in scope in a turn that was remembered, and a turn may name it from the recall
  to the answer only) and `Exchanged`
  (only a turn that remembers leaves a question open, and its number is larger than those
  there are). Trimming takes an even number off the front, so exchanges stay whole.
- `IntakeProofs`. The three properties do not depend on each other and have an invariant
  each: `Orderly` (without the hotkey who organizes has the lock and the index as it is),
  `Apart` (who writes has a name nobody else has, unless two chose one at once) and
  `Fresh` (the newest copy is not filed yet or is the one remembered).
- `MaintenanceProofs!IInv`. That a tombstone is earned is not inductive: a note without a
  file must be accounted for before anybody looks, by a removal, by never having been
  written, or by the command that runs, which has it in memory and will write it (`Shown`,
  with `Due` and the import's `Protected`). A rebuild is the organizer's work on its
  memory, and the file beside the index never differs from that memory until the swap
  (`Rebuilding`). Reversibility says where the index a command found lies at each of its
  steps: in its place until the first step that touches it, from there in the backup
  (`Found`). One lemma per command and step.

TLC finds these invariants true on the instances of section 3: a module that extends an
`MC` module and its proofs module states them as INVARIANTS (`CalmInv` and `NamesInv` with
one user action). Only `Replays` is out of TLC's reach, since it asks for a witness among
all functions; what it is for, `RestartAgreesAlone`, is an invariant of `store`.

Model-checked only, and why:

- liveness (`AcceptedIsServed`, `StopEndsWorker`, `PhoneSeesPending`, `NothingStuck`,
  `CapturesOrganized`, `InputReturns`, `PlanDrains`): fairness and ENABLED are out of the
  prover's reach;
- what folds over an order compute (`ScheduleExact`: critical path, batches;
  `HierarchyOnce`: rows and tally): induction over data is;
- the `TypeOK` of `Directives`, whose bound on `count` needs the length of a sorted queue;
  its proof uses the weaker `QueueTypes`. `SurfacesTypeOK` bounds the ids in replies by the
  number of captures; `SurfaceTypes` does not.

Two operators are defined as they are so that they can be reasoned about: `Reaches` in
`Planner` as a least closed set, not as a fold, and the originals an import appends
(`Missing` in `Maintenance`) as the sequence of that set in the source's order, not as a
`SelectSeq`, whose argument is an operator.

## 6. Disagreements between code and documentation

One is a run of the project (kind `code_bug` in `findings`): `surfaces_stale`. The
following properties are stated in the modules and refuted by TLC too; each quotes the
promise in its comment. To see one, put it in a copy of the named configuration, alone,
with the change. `VaultProjection` in that column is a module that extends it with the
constants of `MCVaultProjection` and no setting, `SPECIFICATION Spec`.

| property | configuration, change | what happens |
|---|---|---|
| `ApprovalHonoured` | `MCCoordinator_parked` | `event.wait` times out, the approval is acknowledged, `stop()` sets the flag: discarded (`coordinator.py:533`, promise at 559) |
| `FailedCommitsNothing` | `MCCoordinator_parked` | `commit` indexes before it writes; the write raises; FAILED (`coordinator.py:739`, promise at 77) |
| `StartServes` | `MCCoordinator_parked` | `start()` while a stopped worker drains leaves the flag set (`coordinator.py:650`) |
| `DesktopPresented` | `MCReviewSurfaces`, `SPECIFICATION SurfacesAnswered` | the stage is emitted before the review is parked; the dialog's handler finds nothing (`coordinator.py:723`, `gui.py:584`) |
| `PhoneCanDecide` | `MCReviewSurfaces`, `SPECIFICATION SurfacesAnswered` | the post of a decision is lost: the card stays disabled until another review or a reload (`mobile_api.py:267`, 281); a capture that came from the phone is not popped up on the desktop |
| `RestartAgrees` | `MCRepository` | two threads append in one order and update memory in the other (`note_store.py:117`) |
| `AlwaysLoads` | `MCRepository`, `TornWrites = TRUE` | the next line is glued to a torn one; the index does not load (`note_store.py:90`) |
| `IdenticalAtTies`, of `VecIndex` | `MCRepository` | sqlite cuts at the `k` nearest before the answers are sorted by score and id: of notes with one score at the limit it may return another than the scan (`vec_index.py:91`, promise at 12: "re-ranked with the exact brute-force tie-break") |
| `~raised`, of `VecIndex` | `MCRepository` | a deleted note added again leaves its row and rowid behind; after a restart the next insertion finds its rowid taken and raises (`vec_index.py:149`) |
| `OnlyUserDeletes` | `VaultProjection` | an indexed note without a file yet (the write failed, the process died, the chat thread is at it) is taken for a deleted one (`project.py:344`); so is one whose file another thread has just emptied to write it anew, or whose write was torn (`fs.py:31`) |
| `EntitiesShow` | `VaultProjection` | the re-projection of the app reconciles deletions before the entity notes have files: tombstoned (`gui.py:599`, promise at `coordinator.py:733`) |
| `ForeignKept` | `VaultProjection` | the projection names files after the notes alone and overwrites the user's file of that name (`vault.py:83`, promise at `project.py:284`) |
| `[][StaysGone]_vars` | `VaultProjection` | a projection's snapshot holds a note deleted meanwhile (`project.py:289`) |
| `ExternalBodyKept` | `VaultProjection` | a write that fails or is killed after it emptied the file leaves no body to keep, and the next projection writes the index's (`fs.py:31`, promise at `vault.py:86`); a thread that reads the file while the other has emptied it does the same without any failure; and after a retitling the body is looked for under the new name, the old file is swept (`vault.py:89`) |
| `BodyBelongs` | `VaultProjection` | the clean slug passes to another note, which keeps the body found there (`vault.py:89`) |
| `EditShows` | `VaultProjection` | an accepted improvement never reaches the file (`kb_chat.py:248`) |
| `DoneIsFulfilled` | `MCDirectives` | the retry takes its own note for a duplicate (`fulfil.py:100`, promise at 21) |
| `WatchSeesNew` | `MCDirectives`, `Watches = {TRUE}` | `--watch` works from a store read once: what other processes append waits for a restart of the runner (`cli.py:953`, promise at 881) |
| `TombstonesByUser` | `MCMaintenance` | rerender, relink and import tombstone the notes an agent proposed over MCP, and those of an interrupted import when it is repeated: they have no file yet (`project.py:331`, promise at `cli.py:473`) |
| `CapturesKept` (a property) | `MCMaintenance` | `reset --keep-originals` on a vault whose index still lies in `.grandplan/` deletes the captures with the folder (`cli.py:795`, promise at 760) |
| `NoteLinksMedia` | `MCIntake` | the paragraph with the attachments becomes a note of its own: the note with the words does not link them (`capture_intake.py:199`) |
| `PromptInScope` | `MCChat` | the dialogue of the session goes into every question's prompt (`kb_chat.py:330`, 106), and setting, following or clearing the scope leaves it there: answers about notes outside the new scope are in the prompt, which the scope "promises it won't" (517); the prompt of `/improve` holds the note the user named, whatever the scope (444) |
| `OneTurnAtATime` | `MCChat` | approving a draft while a turn runs frees the input when the saving ends (`chat_window.py:507`, promise at 12) |
| `ChipTells` | `MCChat` | a turn that follows the filter and fails leaves the chip on the former scope |
| `HierarchyAlways` | `MCCuration` | two notes that wait for enrichment are each placed under the other; `_tally` then does not end (`enrich.py:87`) |
| `EditedLeftAlone` (a property) | `MCCuration` | the user edits while the model thinks; the test is before the call (`enrich.py:60`) |
| `OnlyUserDeletes` | `MCCuration` | a plan the chat is saving is indexed before it has a file; a capture saved meanwhile tombstones it (`kb_chat.py:277`, promise at `gui.py:594`) |
| `RemovalStands` (a property) | `MCCuration` | the projection after a chat draft or an enrichment writes the removed file again |

Seen in the code and in the models' actions, without a property:

- regenerate that ends because the model is unavailable says "your existing vault is
  unchanged", but its notes' files have been written (`cli.py:566`); files of notes the
  rebuild does not make again stay; a second `--keep-history` after a crash between swap
  and replay has no history to replay (`HistoryKept` compares with what the command found);
- `regenerate` organizes every original of the inbox, captures the user rejected included;
- organize reports that nothing was written when a later paragraph fails, although the
  paragraphs before it are committed;
- a phone's capture that the full queue refuses was answered as queued (`gui.py:296`);
- two saves that choose one file name overwrite one another (`cli.py:1366`; `MediaKept`
  excludes it), and the hotkey organizes without the lock of `up` (`PlanComplete` excludes it);
- an improvement approved after the note was changed replaces that change
  (`kb_chat.py:231`), and the words a model streamed before it failed stay in the window
  in front of the fallback's answer;
- a watched file that is seen while empty or half written is not read again
  (`folder_watch.py:50`), and a restarted watcher queues each file once more, since an id
  has the time in it, though line 9 speaks of content-addressing; the second becomes a
  duplicate when it is fulfilled (`OneEffect`);
- the graph filter `foo OR (bar)` loses its second alternative, so the scope is smaller
  than Obsidian's, where `scope.py:13` promises a superset.

Of the planner, met while modelling and visible in its definitions:

- the notes `cycle` lists include those merely downstream of a circle (`CycleExact` says
  which), while `focus.py` tells the user "these notes depend on each other"; a task whose
  circular prerequisites are all done stays out of the plan, too;
- the first batch may hold tasks that wait for a goal, a note under review or a superseded
  note: `now` tests every prerequisite, `_open_prereqs` only open tasks. `FirstBatchIsNow`
  is stated for plans where tasks wait for tasks;
- `build_plan` counts only DONE as finished, `schedule.py` also SUPERSEDED: a task that
  depends on a superseded note is blocked for good;
- notes on a `part_of` circle, and below one, have no row in the Masterplan (`RowsOnce`
  says exactly which rows there are), and `roll_up_progress` recurses without end when a
  goal is on it or above it (a goal and a task that are `part_of` each other end in
  RecursionError); `VaultWrite.place` accepts such edges. `TallyExact` is stated for
  hierarchies without circles.

## 7. What is not modelled, and simplifications

- Text: organizing, reconciling, rendering, ranking, prompts, parsing of requests and of
  graph filters. Their outcomes (a proposal, a failure, a duplicate, a set of notes) are
  choices.
- Exports, queries, reports, diagnostics: pure functions to text, without state. The
  read-only ports refuse every write by construction.
- Coordinator: the emitted stages are not kept, every view that has state reads the snapshot;
  the same capture object is submitted once.
- ReviewSurfaces: one page; its fields are edited only on the card that is decided.
- Curation: similarity is a choice of neighbours, files are there or not; a note's entities
  and its file's text are `VaultProjection`'s.
- NoteStore: edges, edits and resources behave as status changes do (guard, append, memory).
- VecIndex: the log is whole and written in one step (its own steps are `NoteStore`'s);
  one process at a time, though two would share `MAX(vec_rowid)`.
- VecIndex, further: an order of the notes by score and id stands for a query, with classes
  of notes the table holds equally far (equal scores, or scores that single precision does
  not tell apart); the order within one answer and the threshold at the edge of rounding
  are left out.
- VaultProjection: reading a file is one step, writing it two, opening (which empties it)
  and writing; what lies on the disk between them is nothing, the front matter, part of the
  body or all of it (`Parts`). Where two threads write one file at once, the later write
  leaves a whole file: that its first bytes could stand before the rest of the other's is
  left out, as is a cut inside a character, which makes the next read raise. A file
  swept while another thread writes it is there again after that write. The user does
  not act on a file that is being written. Links are those in the index when a file is put.
  The views are written in one step. "names" assumes that the disk takes what is written
  and shows a file being written as empty, if at all; "calm" has every torn state. What a
  body is promised holds for titles that stay, what deletions are promised for one
  thread without errors: hence the two settings of `Vault`, and the refuted properties of
  section 6.
- Directives: lines are written whole (the torn line is `NoteStore`'s); one watched file.
- Intake: what the hotkey captures is one note; a repository opened afresh reads the whole
  index at once.
- Chat: what is retrieved is the whole of the scope or nothing; a message is a number; an
  answer may name whatever its prompt named. The words of the user's own messages are not
  counted among what a prompt names. The scope promises nothing for an improvement, which is of the note the user
  named, so `GroundedInScope` leaves it out and `PromptInScope` does not. What a
  saved draft changes is `Curation`'s and `VaultProjection`'s.
- Maintenance: one command at a time, two by two similar texts; bodies, timestamps and the
  similarity table (removed by regenerate, rebuilt by the next opening) are left out.
- Planner: no edge or status arrives while `build_plan` runs (`Place` and `SetStatus` wait
  for the sort to end). The repository's own projection is called by the thread that
  wrote, but another writer can interleave; the plan then mixes two graphs until the next
  projection. Notes are not removed, so the first parent is recorded when the edge comes.

## 8. What is left

Every part of section 1 that keeps state has a module, and every safety property the runs
check has a theorem, but for `ScheduleExact` and `HierarchyOnce` (section 5). What could
still be added, in this order:

1. `VecIndex` with two processes on one table, which would share `MAX(vec_rowid)`, and the
   similarity table over the steps of `NoteStore` instead of over a log written at once;
2. `core/scope.py` as an operator on filter trees, against Obsidian's meaning of them;
3. `NotesOnDisk`, `LinksResolve` and `ViewsAgree` outside the two settings of `Vault`,
   where TLC met no violation within minutes: `HaveFiles` as stated is for one thread;
4. the critical path and the rows of the Masterplan, as soon as the prover can induct.
