---------------------------- MODULE Directives ----------------------------
(***************************************************************************)
(* The directive queue (core/directive.py) and its drain (core/fulfil.py,   *)
(* _run_directive_run of cli.py).  Content and an instruction come in over  *)
(* HTTP, from the command line or from a watched folder, in processes of    *)
(* their own, and are appended to directives.jsonl; `grandplan directive    *)
(* run` fulfils those whose playbook the organize pipeline satisfies and    *)
(* appends a done record; an agent fulfils the others over MCP.  Each       *)
(* process replays the file once, when it starts, and then trusts its own   *)
(* memory.  Inside a process a lock makes add and mark_done one step.       *)
(*                                                                          *)
(* Fulfilling goes: original, organize, duplicate test, index, vault file,  *)
(* placement and entities, done record; a step may raise, which leaves the  *)
(* directive pending, and the runner may be killed after any of them.       *)
(***************************************************************************)
EXTENDS Naturals, FiniteSets, SequencesExt

CONSTANTS Requests,  \* directives that may be sent
          Fulfillable, \* those with a playbook in AUTO_FULFILLABLE
          Poison,    \* those whose content no organizer accepts
          Contents, Content,   \* [Requests -> Contents]: equal content, equal embedding
          Takes,     \* the ways the organizer may word one content; one for the heuristic one
          Watches,   \* does a run go on, pass after pass: --watch, or without it, or either
          MaxPerPass,\* --max, 0 for no limit
          Agent,     \* those an agent may take on
          Folder,    \* those a watched file becomes, a new one each time it is read
          Texts,     \* what that file contains, from when it appears until it is whole; Nothing if
                     \* it is empty or unreadable
          MaxWatches,\* bound: runs of the watcher
          MaxFaults, MaxCrashes, \* bounds: raised exceptions, kills of the runner
          Nothing

ASSUME DirectivesAssumption ==
    /\ Fulfillable \subseteq Requests /\ Poison \subseteq Fulfillable
    /\ Content \in [Requests -> Contents]
    /\ Watches \subseteq BOOLEAN /\ Watches # {} /\ Agent \subseteq Requests
    /\ Folder \subseteq Requests /\ Texts \in Seq(Contents \cup {Nothing})
    /\ MaxWatches \in Nat /\ MaxPerPass \in Nat /\ MaxFaults \in Nat /\ MaxCrashes \in Nat

VARIABLES log,       \* directives.jsonl
          written,   \* how much of the watched file has been written, an index of Texts
          seen,      \* is the file in the watcher's `seen`?
          watches,   \* runs of the watcher
          items,     \* the runner's _items, in insertion order
          done,      \* those of them it knows to be done
          pc,        \* of the runner
          todo,      \* the rest of the pending tuple this pass walks
          count,     \* len(done): results of this pass
          note,      \* the note being committed
          inbox,     \* stored originals
          index,     \* committed notes
          onDisk,    \* notes with a vault file of their own
          linked,    \* notes placed and joined to their entities
          agents,    \* history: directives the agent completed
          faults, crashes

folder == <<written, seen, watches>>
queue  == <<items, done>>
world  == <<inbox, index, onDisk, linked>>
bounds == <<faults, crashes>>
queueVars == <<log, folder, queue, pc, todo, count, note, world, agents, bounds>>

\* A note's id is a hash of its original, which has the directive's own timestamp, and its wording.
Note == [of : Requests, take : Takes]
Line == [kind : {"directive", "done"}, id : Requests]

Sent      == {log[k].id : k \in {k \in DOMAIN log : log[k].kind = "directive"}}
Completed == {log[k].id : k \in {k \in DOMAIN log : log[k].kind = "done"}}
Pending   == SelectSeq(items, LAMBDA d : d \notin done)

DirectivesInit ==
    /\ log = <<>> /\ written = 0 /\ seen = FALSE /\ watches = 0
    /\ items = <<>> /\ done = {}
    /\ pc = "off" /\ todo = <<>> /\ count = 0 /\ note = Nothing
    /\ inbox = {} /\ index = {} /\ onDisk = {} /\ linked = {}
    /\ agents = {} /\ faults = 0 /\ crashes = 0

-----------------------------------------------------------------------------
\* JsonlDirectiveStore.add in an intake process: append-only, idempotent by id.
Send(d) ==
    /\ d \notin Sent \cup Folder
    /\ log' = Append(log, [kind |-> "directive", id |-> d])
    /\ UNCHANGED <<folder, queue, pc, todo, count, note, world, agents, bounds>>

\* The user, or a sync client, writes the file, perhaps not at once.
WriteFile ==
    /\ written < Len(Texts) /\ written' = written + 1
    /\ UNCHANGED <<log, seen, watches, queue, pc, todo, count, note, world, agents, bounds>>

\* watch_folder, started (again): what it has seen is in its memory only.
Watch ==
    /\ watches < MaxWatches /\ watches' = watches + 1
    /\ seen' = FALSE
    /\ UNCHANGED <<log, written, queue, pc, todo, count, note, world, agents, bounds>>

Polls == watches > 0 /\ written > 0 /\ ~seen

\* scan_folder finds an empty file, or one it cannot read: it is marked, and never looked at again.
ScanEmpty ==
    /\ Polls /\ Texts[written] = Nothing
    /\ seen' = TRUE
    /\ UNCHANGED <<log, written, watches, queue, pc, todo, count, note, world, agents, bounds>>

\* scan_folder, in a poll: the file is marked, read and queued, under the time of the poll.
Scan(d) ==
    /\ Polls /\ Texts[written] # Nothing
    /\ d \in Folder \ Sent /\ Content[d] = Texts[written]
    /\ seen' = TRUE
    /\ log' = Append(log, [kind |-> "directive", id |-> d])
    /\ UNCHANGED <<written, watches, queue, pc, todo, count, note, world, agents, bounds>>

\* complete_directive over MCP, by an agent whose process has loaded the file.
Complete(d) ==
    /\ d \in Agent \cap (Sent \ Completed)
    /\ log' = Append(log, [kind |-> "done", id |-> d])
    /\ agents' = agents \cup {d}
    /\ UNCHANGED <<folder, queue, pc, todo, count, note, world, bounds>>

\* Mutated: done records are not replayed.
LoadForgets ==
    /\ pc = "off"
    /\ items' = SetToSortSeq(Sent, LAMBDA d, e :
           SelectInSeq(log, LAMBDA l : l.id = d) < SelectInSeq(log, LAMBDA l : l.id = e))
    /\ done' = {}
    /\ pc' = "pass"
    /\ UNCHANGED <<log, folder, todo, count, note, world, agents, bounds>>
\* The runner starts: _load replays the file.
Load ==
    /\ pc = "off"
    /\ items' = SetToSortSeq(Sent, LAMBDA d, e :
           SelectInSeq(log, LAMBDA l : l.id = d) < SelectInSeq(log, LAMBDA l : l.id = e))
    /\ done' = Completed
    /\ pc' = "pass"
    /\ UNCHANGED <<log, folder, todo, count, note, world, agents, bounds>>

\* run_pending walks a tuple taken when the pass begins.
Pass ==
    /\ pc = "pass"
    /\ todo' = Pending /\ count' = 0 /\ pc' = "next"
    /\ UNCHANGED <<log, folder, queue, note, world, agents, bounds>>

Limit == MaxPerPass # 0 /\ count >= MaxPerPass

Skip ==
    /\ pc = "next" /\ todo # <<>> /\ ~Limit /\ Head(todo) \notin Fulfillable
    /\ todo' = Tail(todo)
    /\ UNCHANGED <<log, folder, queue, pc, count, note, world, agents, bounds>>

\* fulfil_directive: the verbatim original first.
Capture ==
    /\ pc = "next" /\ todo # <<>> /\ ~Limit /\ Head(todo) \in Fulfillable
    /\ inbox' = inbox \cup {Head(todo)}
    /\ pc' = "organize"
    /\ UNCHANGED <<log, folder, queue, todo, count, note, index, onDisk, linked, agents, bounds>>

\* Mutated: only the very same note is a duplicate.
DuplicateId(n) == n \in index
\* is_probable_duplicate: a note of the same wording is in the index, whoever wrote it.
Duplicate(n) == \E m \in index : Content[m.of] = Content[n.of] /\ m.take = n.take

\* organize and assess, and commit's add_note when there is no duplicate.
Organize(take) ==
    /\ pc = "organize" /\ Head(todo) \notin Poison
    /\ LET n == [of |-> Head(todo), take |-> take]
       IN IF Duplicate(n)
          THEN pc' = "mark" /\ UNCHANGED <<note, index>>
          ELSE pc' = "write" /\ note' = n /\ index' = index \cup {n}
    /\ UNCHANGED <<log, folder, queue, todo, count, inbox, onDisk, linked, agents, bounds>>

\* commit's vault.write.
WriteVault ==
    /\ pc = "write"
    /\ onDisk' = onDisk \cup {note} /\ pc' = "link"
    /\ UNCHANGED <<log, folder, queue, todo, count, note, inbox, index, linked, agents, bounds>>

\* record_placement and materialize_entities.
Link ==
    /\ pc = "link"
    /\ linked' = linked \cup {note} /\ pc' = "mark"
    /\ UNCHANGED <<log, folder, queue, todo, count, note, inbox, index, onDisk, agents, bounds>>

\* Mutated: a failure completes the directive.
RaiseDone ==
    /\ \/ pc = "organize" /\ Head(todo) \in Poison /\ UNCHANGED faults
       \/ pc \in {"organize", "write", "link"} /\ faults < MaxFaults /\ faults' = faults + 1
    /\ log' = Append(log, [kind |-> "done", id |-> Head(todo)])
    /\ todo' = Tail(todo) /\ pc' = "next"
    /\ UNCHANGED <<folder, queue, count, note, world, agents, crashes>>
\* Mutated: a failure ends the runner.
RaiseStops ==
    /\ \/ pc = "organize" /\ Head(todo) \in Poison /\ UNCHANGED faults
       \/ pc \in {"organize", "write", "link"} /\ faults < MaxFaults /\ faults' = faults + 1
    /\ todo' = <<>> /\ pc' = "off"
    /\ UNCHANGED <<log, folder, queue, count, note, world, agents, crashes>>
\* A step of fulfil_directive raises: left pending, the pass goes on.
Raise ==
    /\ \/ pc = "organize" /\ Head(todo) \in Poison /\ UNCHANGED faults
       \/ pc \in {"organize", "write", "link"} /\ faults < MaxFaults /\ faults' = faults + 1
    /\ todo' = Tail(todo) /\ pc' = "next"
    /\ UNCHANGED <<log, folder, queue, count, note, world, agents, crashes>>

\* mark_done: by the runner's own memory.
MarkDone ==
    /\ pc = "mark"
    /\ LET d == Head(todo)
       IN IF d \in done THEN UNCHANGED <<log, done>>
          ELSE /\ log' = Append(log, [kind |-> "done", id |-> d])
               /\ done' = done \cup {d}
    /\ count' = count + 1 /\ todo' = Tail(todo) /\ pc' = "next"
    /\ UNCHANGED <<folder, items, note, world, agents, bounds>>

\* one_pass projects when there were results, which writes the files of all indexed notes; with
\* --watch it sleeps and goes again.
EndPass ==
    /\ pc = "next" /\ (todo = <<>> \/ Limit)
    /\ onDisk' = IF count > 0 THEN index ELSE onDisk
    /\ todo' = <<>>
    /\ \E watch \in Watches : pc' = IF watch THEN "pass" ELSE "off"
    /\ UNCHANGED <<log, folder, queue, count, note, inbox, index, linked, agents, bounds>>

\* Ctrl-C or a kill, wherever the runner is; what is on disk stays.
Crash ==
    /\ crashes < MaxCrashes /\ pc # "off"
    /\ crashes' = crashes + 1
    /\ pc' = "off" /\ todo' = <<>>
    /\ UNCHANGED <<log, folder, queue, count, note, world, agents, faults>>

Fulfil == (\E take \in Takes : Organize(take)) \/ WriteVault \/ Link \/ Raise \/ MarkDone
Runner == Load \/ Pass \/ Skip \/ Capture \/ Fulfil \/ EndPass
Watcher == ScanEmpty \/ \E d \in Folder : Scan(d)
DirectivesNext == \/ Runner \/ Crash \/ Watcher \/ WriteFile \/ Watch
        \/ \E d \in Requests : Send(d) \/ Complete(d)

DirectivesSpec == DirectivesInit /\ [][DirectivesNext]_queueVars

\* The runner is a loop in a process that is started (again) and scheduled; faults and kills are
\* finitely many, as they are bounded.  A watcher that runs polls its folder.
FairDirectives == DirectivesSpec /\ WF_queueVars(Runner) /\ WF_queueVars(Watcher)

-----------------------------------------------------------------------------
TypeOK ==
    /\ log \in Seq(Line) /\ written \in 0..Len(Texts) /\ seen \in BOOLEAN
    /\ watches \in 0..MaxWatches /\ items \in Seq(Requests) /\ done \subseteq Requests
    /\ pc \in {"off", "pass", "next", "organize", "write", "link", "mark"}
    /\ todo \in Seq(Requests) /\ count \in 0..Cardinality(Requests)
    /\ note \in Note \cup {Nothing}
    /\ inbox \subseteq Requests /\ index \subseteq Note
    /\ onDisk \subseteq index /\ linked \subseteq index /\ agents \subseteq Requests
    /\ faults \in 0..MaxFaults /\ crashes \in 0..MaxCrashes

ByRunner == Completed \ agents

\* What the runner marked done is in the vault's index, as a note of that content, and its
\* verbatim text in the inbox: no request is consumed without being captured.
DoneIsCaptured ==
    \A d \in ByRunner : d \in inbox /\ \E n \in index : Content[n.of] = Content[d]

\* Retries and kills never leave two notes of one content and one wording.
NoTwins ==
    \A m, n \in index : Content[m.of] = Content[n.of] /\ m.take = n.take => m = n

\* One directive record per intake and one done record per completion, through retries and
\* restarts, apart from directives an agent completes in a process of its own.
DoneOnce ==
    \A j, k \in DOMAIN log : log[j] = log[k] /\ log[j].id \notin agents => j = k

\* However often a runner fails, is killed and starts again, a directive has one effect: one note,
\* one record that it was done (fulfil.py, run_pending).
OneEffect == NoTwins /\ DoneOnce

\* What was in the file when a runner started is done in the end, whatever else failed: one bad
\* directive never stops the rest (run_pending).
Drained == \A d \in Fulfillable \ Poison : (d \in ToSet(items)) ~> (d \in Completed)

\* A whole file the watcher has not seen is queued with all its text, in the end.
FileQueued ==
    watches > 0 /\ ~seen /\ written = Len(Texts) ~>
        \E d \in Folder \cap Sent : Content[d] = Texts[Len(Texts)]

\* From the folder to the done record nothing is stuck: not behind a failing directive, a killed
\* runner, --max or a restarted watcher.
NothingStuck == Drained /\ FileQueued

\* What is sent while a watching runner is up is done in the end, too (_run_directive_run: it
\* drains the queue the intake, the command line and the folder watch fill).
WatchSeesNew == \A d \in Fulfillable \ Poison : (d \in Sent) ~> (d \in Completed)

\* What the runner marked done was fulfilled: a note of that content is placed and joined to its
\* entities (fulfil.py: it only marks done what it actually fulfilled).
DoneIsFulfilled ==
    \A d \in ByRunner : \E n \in linked : Content[n.of] = Content[d]
=============================================================================
