----------------------------- MODULE NoteStore -----------------------------
(***************************************************************************)
(* The note index: JsonlNoteRepository (core/note_store.py), an append-only *)
(* JSON-Lines file, over InMemoryNoteRepository (core/repository.py), from  *)
(* which every view is derived.  Several threads of the app (the capture    *)
(* worker, the chat thread) call the same repository without a lock.        *)
(*                                                                          *)
(* An operation tests its guard on the memory, appends one line to the      *)
(* file, and updates the memory: three steps, between which other threads   *)
(* run and the process may die.  A line is written by one write(2); a full  *)
(* disk or a power failure may leave the head of it.  A new process loads   *)
(* the file line by line.                                                   *)
(***************************************************************************)
EXTENDS Integers, Sequences, FiniteSets

CONSTANTS Ids,         \* content-addressed note ids
          Writers,     \* threads calling the repository
          Values,      \* statuses, edited fields, resource refs
          Created,     \* the value a note is created with
          DiskErrors,  \* may an append fail?
          TornWrites,  \* may a failed append leave part of its line?
          MaxLines,    \* bound: length of the file
          MaxCrashes,  \* bound: restarts of the process
          None

ASSUME StoreAssumption ==
    /\ Created \in Values
    /\ DiskErrors \in BOOLEAN /\ TornWrites \in BOOLEAN
    /\ MaxLines \in Nat /\ MaxCrashes \in Nat

VARIABLES file,      \* the complete lines of the index file
          torn,      \* the file ends in a line without its end
          notes,     \* _notes, by id
          edges,     \* _edges
          events,    \* _events: status, edit, resource and deleted events
          tombstones,\* _tombstones
          phase,     \* of the process: "up" (serving), "loading" or "failed" (load raised)
          cursor,    \* the next line to load
          op,        \* [Writers -> the record being added, or None]
          stage,     \* [Writers -> "idle", "append" or "apply"]
          crashes,
          deleted,   \* history: the notes whose delete_note returned
          shown      \* history: the view when the process died between operations, or None

memory  == <<notes, edges, events, tombstones>>
threads == <<op, stage>>
history == <<deleted, shown>>
vars == <<file, torn, memory, phase, cursor, threads, crashes, history>>

Garbled == [kind |-> "garbled"]

\* One line of the index; an edge's value is its target.
Record ==
    [kind : {"note"}, id : Ids, value : {Created}]
    \cup [kind : {"status", "edit", "resource"}, id : Ids, value : Values]
    \cup [kind : {"deleted"}, id : Ids, value : {Created}]
    \cup [kind : {"edge"}, id : Ids, value : Ids]

ASSUME NoneAssumption == None \notin Record

-----------------------------------------------------------------------------
(* Derived views of a log *)

\* get_note: a tombstoned note is gone.
Live(id) == id \in notes \ tombstones

\* The last event of a kind decides; a note without one has its creation value.
Latest(log, kind, id) ==
    LET at == {i \in 1..Len(log) : log[i].kind = kind /\ log[i].id = id}
    IN  IF at = {} THEN None ELSE log[CHOOSE i \in at : \A j \in at : j <= i].value

Derived(log, kind, id, known) ==
    IF Latest(log, kind, id) # None THEN Latest(log, kind, id)
    ELSE IF id \in known THEN Created ELSE None

StatusOf(id) == Derived(events, "status", id, notes)
FieldOf(id)  == Derived(events, "edit", id, notes)
Attached(id) == {events[i].value : i \in {j \in 1..Len(events) :
                                            events[j].kind = "resource" /\ events[j].id = id}}

\* The guard each operation tests before it touches the file.
Changes(r) ==
    \/ r.kind = "note" /\ ~Live(r.id)
    \/ r.kind = "edge" /\ <<r.id, r.value>> \notin edges
    \/ r.kind = "status" /\ StatusOf(r.id) # r.value
    \/ r.kind = "edit" /\ Live(r.id) /\ FieldOf(r.id) # r.value
    \/ r.kind = "resource" /\ Live(r.id) /\ r.value \notin Attached(r.id)
    \/ r.kind = "deleted" /\ Live(r.id)

\* All that a reader of the index sees of its notes.
View == [id \in notes \ tombstones |-> <<StatusOf(id), FieldOf(id), Attached(id)>>]

\* The guard the in-memory repository tests again.
Counts(r) ==
    \/ r.kind = "status" /\ StatusOf(r.id) # r.value
    \/ r.kind = "edit" /\ Live(r.id) /\ FieldOf(r.id) # r.value
    \/ r.kind = "resource" /\ r.id \in notes /\ r.value \notin Attached(r.id)
    \/ r.kind = "deleted" /\ Live(r.id)

Logged(r) == events' = IF Counts(r) THEN Append(events, r) ELSE events

Revived(r) ==       \* bug: adding a deleted note again brings it back
    tombstones' = IF r.kind = "deleted" /\ r.id \in notes THEN tombstones \cup {r.id}
                  ELSE IF r.kind = "note" THEN tombstones \ {r.id} ELSE tombstones
Tombstoned(r) ==
    tombstones' = IF r.kind = "deleted" /\ r.id \in notes
                  THEN tombstones \cup {r.id} ELSE tombstones

\* _apply, on the in-memory repository.
Applied(r) ==
    /\ notes' = IF r.kind = "note" THEN notes \cup {r.id} ELSE notes
    /\ edges' = IF r.kind = "edge" THEN edges \cup {<<r.id, r.value>>} ELSE edges
    /\ Tombstoned(r)
    /\ Logged(r)

Nothing == notes' = {} /\ edges' = {} /\ events' = <<>> /\ tombstones' = {}

-----------------------------------------------------------------------------
Init ==
    /\ file = <<>> /\ torn = FALSE
    /\ notes = {} /\ edges = {} /\ events = <<>> /\ tombstones = {}
    /\ phase = "up" /\ cursor = 1 /\ crashes = 0
    /\ deleted = {} /\ shown = None
    /\ op = [w \in Writers |-> None] /\ stage = [w \in Writers |-> "idle"]

\* An operation whose guard finds something to do; otherwise it returns at once.
Call(w, r) ==
    /\ phase = "up" /\ stage[w] = "idle" /\ Changes(r)
    /\ Len(file) < MaxLines
    /\ op' = [op EXCEPT ![w] = r]
    /\ stage' = [stage EXCEPT ![w] = "append"]
    /\ shown' = None
    /\ UNCHANGED <<file, torn, memory, phase, cursor, crashes, deleted>>

Returned(w) ==
    /\ op' = [op EXCEPT ![w] = None]
    /\ stage' = [stage EXCEPT ![w] = "idle"]

\* A line put after an unfinished one becomes part of it.
Line(r) == IF torn THEN Garbled ELSE r

AppendLine(w) ==
    /\ stage[w] = "append"
    /\ file' = Append(file, Line(op[w]))
    /\ torn' = FALSE
    /\ stage' = [stage EXCEPT ![w] = "apply"]
    /\ UNCHANGED <<memory, phase, cursor, op, crashes, history>>

\* What the memory holds when open or write has raised: what it held before.
MemoryFirst(r) == Applied(r)      \* bug: memory updated before the file
Untouched(r)   == UNCHANGED memory

AppendFails(w) ==
    /\ DiskErrors /\ stage[w] = "append"
    /\ torn' \in {torn, torn \/ TornWrites}
    /\ Untouched(op[w])
    /\ Returned(w)
    /\ UNCHANGED <<file, phase, cursor, crashes, history>>

Apply(w) ==
    /\ stage[w] = "apply"
    /\ Applied(op[w])
    /\ deleted' = IF op[w].kind = "deleted" THEN deleted \cup {op[w].id} ELSE deleted
    /\ Returned(w)
    /\ UNCHANGED <<file, torn, phase, cursor, crashes, shown>>

Quiet == phase = "up" /\ \A w \in Writers : stage[w] = "idle"

\* The process dies, at any point of any thread, and a new one opens the index.
Restart ==
    /\ crashes < MaxCrashes
    /\ crashes' = crashes + 1
    /\ torn' \in {torn, torn \/ (TornWrites /\ \E w \in Writers : stage[w] = "append")}
    /\ Nothing
    /\ phase' = "loading" /\ cursor' = 1
    /\ op' = [w \in Writers |-> None] /\ stage' = [w \in Writers |-> "idle"]
    /\ shown' = IF Quiet THEN View ELSE None
    /\ UNCHANGED <<file, deleted>>

ReplayKnown(r) ==   \* bug: a kind _apply has no branch for
    IF r.kind = "resource" THEN UNCHANGED memory ELSE Applied(r)
Replay(r) == Applied(r)

\* _load: a line that is not JSON raises, and the repository is not built.
LoadLine ==
    /\ phase = "loading" /\ cursor <= Len(file)
    /\ IF file[cursor] = Garbled
       THEN phase' = "failed" /\ UNCHANGED <<memory, cursor>>
       ELSE cursor' = cursor + 1 /\ Replay(file[cursor]) /\ UNCHANGED phase
    /\ UNCHANGED <<file, torn, threads, crashes, history>>

LoadEnds ==
    /\ phase = "loading" /\ cursor > Len(file)
    /\ phase' = IF torn THEN "failed" ELSE "up"
    /\ UNCHANGED <<file, torn, memory, cursor, threads, crashes, history>>

Next == \/ \E w \in Writers : \/ \E r \in Record : Call(w, r)
                              \/ AppendLine(w) \/ AppendFails(w) \/ Apply(w)
        \/ Restart \/ LoadLine \/ LoadEnds

Spec == Init /\ [][Next]_vars

-----------------------------------------------------------------------------
(* Properties *)

TypeOK ==
    /\ file \in Seq(Record \cup {Garbled}) /\ torn \in BOOLEAN
    /\ notes \subseteq Ids /\ edges \subseteq Ids \X Ids /\ tombstones \subseteq Ids
    /\ events \in Seq(Record)
    /\ phase \in {"up", "loading", "failed"} /\ cursor \in Nat \ {0}
    /\ op \in [Writers -> Record \cup {None}]
    /\ stage \in [Writers -> {"idle", "append", "apply"}]
    /\ crashes \in Nat /\ deleted \subseteq Ids

Lines == {file[i] : i \in 1..Len(file)}

(* "no phantom note that silently vanishes on the next restart's replay": all *)
(* that the memory shows, whichever threads put it there, is on the disk.     *)
NoPhantom ==
    /\ \A id \in notes : \E r \in Lines : r.kind = "note" /\ r.id = id
    /\ \A e \in edges : \E r \in Lines : r.kind = "edge" /\ r.id = e[1] /\ r.value = e[2]
    /\ \A i \in 1..Len(events) : events[i] \in Lines

(* A deletion that returned holds for good: in this process, whatever other   *)
(* threads were doing to the note, and in every later one.                    *)
DeletedForGood == phase = "up" => deleted \subseteq tombstones

(* A restart between operations loses nothing and invents nothing: the loaded *)
(* index shows the notes, statuses, fields and resources it showed before.    *)
RestartAgrees == Quiet /\ shown # None => View = shown

-----------------------------------------------------------------------------
(* The inductive invariant behind NoPhantom and DeletedForGood, on a disk     *)
(* whose lines are written whole                                              *)

NoteLine(id, n) == \E i \in 1..n : file[i].kind = "note" /\ file[i].id = id

\* Between its steps a thread holds a record; once appended, it is a line.
Held == \A w \in Writers :
            /\ stage[w] = "idle" <=> op[w] = None
            /\ stage[w] # "idle" => phase = "up"
            /\ stage[w] = "apply" => op[w] \in Lines
            /\ stage[w] # "idle" /\ op[w].kind = "deleted" => op[w].id \in notes

\* A deletion is on the disk, behind the note it deletes.
DeletionsLast ==
    /\ \A i \in 1..Len(file) : file[i].kind = "deleted" => NoteLine(file[i].id, i)
    /\ \A id \in deleted : \E r \in Lines : r.kind = "deleted" /\ r.id = id

\* What has been loaded shows.
LoadedShows ==
    phase = "loading" =>
        \A i \in 1..(cursor - 1) :
            /\ i <= Len(file)
            /\ file[i].kind = "note" => file[i].id \in notes
            /\ file[i].kind = "deleted" => file[i].id \in tombstones

Whole == torn = FALSE /\ Garbled \notin Lines

SInv == /\ TypeOK /\ NoPhantom /\ DeletedForGood
        /\ Held /\ DeletionsLast /\ LoadedShows /\ Whole
-----------------------------------------------------------------------------
(* A claim of the code that the code does not keep *)

(* The durability invariant: "a disk error (full/permission) surfaces as an   *)
(* exception" and leaves an index that can be loaded again.                   *)
AlwaysLoads == phase # "failed"
=============================================================================
