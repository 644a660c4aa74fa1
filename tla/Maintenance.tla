---------------------------- MODULE Maintenance ----------------------------
(***************************************************************************)
(* The commands that work on a whole vault: organize (and the captures of   *)
(* the hotkey and of `up`, which call organize_text with the culling off),  *)
(* import, relink, rerender, attach, regenerate and reset (cli.py), over    *)
(* the files they share: the index, its backup, the rebuild, the inbox of   *)
(* verbatim originals, the note files of the vault, and an index from       *)
(* before the move out of the vault.  One command runs at a time and may    *)
(* die between any two of its writes; the MCP server (core/write.py) may    *)
(* serve an agent meanwhile, from the memory it loaded when it started.     *)
(*                                                                          *)
(* A note is named by the text it was made from and by who organized it:    *)
(* its id is a digest of title, body and type, which both decide, and of    *)
(* its original.                                                            *)
(***************************************************************************)
EXTENDS Integers, Sequences, SequencesExt, FiniteSets

CONSTANTS Inputs,      \* the files `organize` is given: sequences of paragraphs
          AgentTexts,  \* what the agent proposes
          Mentions,    \* [text -> the names of people and organizations in it]
          Near,        \* pairs of texts similar enough to be linked
          Twin,        \* pairs of texts similar enough to be probable duplicates
          Source,      \* the vault imported from: [index, inbox]
          MaxCommands, MaxCrashes, MaxAgent, MaxRemoved,  \* bounds
          None

VARIABLES index, bak, regen,  \* index.jsonl, index.jsonl.bak, index.regen.jsonl; None: absent
          inbox,     \* inbox.jsonl
          legacy,    \* the vault's .grandplan/ folder: [index, inbox], or None
          vault,     \* the notes that have their .md in the vault
          cmd,       \* the command running
          server,    \* the memory of the MCP server: [mem, origs], or None
          commands, crashes, agent,  \* counted
          last, before,  \* history: the last command started, the index it found
          removed,   \* history: the notes whose file the user removed
          unshown    \* history: notes left without a file by an agent or an interrupted command

disk    == <<index, bak, regen, inbox, legacy, vault>>
history == <<last, before, removed, unshown>>
vars    == <<disk, cmd, server, commands, crashes, agent, history>>

Texts   == DOMAIN Mentions
Notes   == Texts \X {"baseline", "model", "agent", "entity"}
Indexes == [notes : SUBSET Notes, marks : SUBSET Notes, dead : SUBSET Notes,
            edges : SUBSET (Notes \X Notes)]

ASSUME MaintenanceAssumption ==
    /\ \A input \in Inputs : input \in Seq(Texts)
    /\ AgentTexts \subseteq Texts
    /\ \A t \in Texts : Mentions[t] \subseteq Texts /\ IsFiniteSet(Mentions[t])
    /\ Source \in [index : Indexes, inbox : Seq(Texts)]
    /\ None \notin Indexes
    /\ Twin \subseteq Near
    /\ MaxCommands \in Nat /\ MaxCrashes \in Nat /\ MaxAgent \in Nat /\ MaxRemoved \in Nat

\* A text is in the inbox before a note is made of it (of a vault where no import was cut off).
ASSUME SourceIsWhole == \A n \in Source.index.notes : n[1] \in Range(Source.inbox)

-----------------------------------------------------------------------------
(* An index, as its lines or in memory *)

Empty == [notes |-> {}, marks |-> {}, dead |-> {}, edges |-> {}]

\* A repository opened on a file that is not there is empty.
Load(file) == IF file = None THEN Empty ELSE file

Live(m) == m.notes \ m.dead

Union(m, n) == [f \in DOMAIN m |-> m[f] \cup n[f]]

\* The first line appended creates the file.
Appended(file, lines) == IF lines = Empty THEN file ELSE Union(Load(file), lines)

\* OriginalStore.add: an original it knows is not stored again.
Stored(new, known) == inbox \o SetToSeq(new \ known)

Similar(t, u, relation) == t = u \/ <<t, u>> \in relation \/ <<u, t>> \in relation

\* is_probable_duplicate against the notes in memory.
Duplicate(t, m) == \E n \in Live(m) : Similar(n[1], t, Twin)

\* The links the reconciler proposes, and the placer's.
LinksOf(n, m) == {<<n, k>> : k \in {k \in Live(m) : k # n /\ Similar(n[1], k[1], Near)}}

NoteLines(n, m) ==
    [Empty EXCEPT !.notes = {n} \ Live(m), !.edges = LinksOf(n, m) \ m.edges]

\* materialize_entities: a note for every name, and an edge to it.
People(t) == {<<name, "entity">> : name \in Mentions[t]}
EntityLines(n, m) ==
    IF n \notin Live(m) THEN Empty
    ELSE [Empty EXCEPT !.notes = People(n[1]) \ Live(m),
                       !.edges = ({n} \X People(n[1])) \ m.edges]

-----------------------------------------------------------------------------
Idle == [kind |-> "none"]

Init ==
    /\ legacy \in {None, Source}
    /\ vault = IF legacy = None THEN {} ELSE Live(legacy.index)
    /\ index = None /\ bak = None /\ regen = None /\ inbox = <<>>
    /\ cmd = Idle /\ server = None
    /\ commands = 0 /\ crashes = 0 /\ agent = 0
    /\ last = "none" /\ before = None /\ removed = {} /\ unshown = {}

\* migrate_legacy_index: once, and never over an index directory that exists.
External == index # None \/ bak # None \/ regen # None \/ inbox # <<>>
Opened == IF legacy # None /\ ~External THEN legacy ELSE [index |-> index, inbox |-> inbox]
Migrate == /\ legacy' = IF External THEN legacy ELSE None
           /\ index' = Opened.index /\ inbox' = Opened.inbox

\* A command begins: what it has read, and where it goes on.
Begin(kind, pc, by, todo, flag) ==
    /\ cmd = Idle /\ commands < MaxCommands
    /\ commands' = commands + 1
    /\ last' = kind /\ before' = Opened.index
    /\ cmd' = [kind |-> kind, pc |-> pc, by |-> by, todo |-> todo, flag |-> flag,
               mem |-> IF kind = "regenerate" THEN Empty ELSE Load(Opened.index),
               past |-> IF kind = "regenerate" /\ flag THEN Load(Opened.index) ELSE Empty,
               origs |-> Range(Opened.inbox), protect |-> {}]
    /\ UNCHANGED <<server, crashes, agent, removed, unshown>>

At(kinds, pc) == cmd.kind \in kinds /\ cmd.pc = pc
Go(pc) == cmd' = [cmd EXCEPT !.pc = pc]
Done == cmd' = Idle
Ends(mem) == cmd' = [cmd EXCEPT !.pc = "render", !.mem = mem]
Others == UNCHANGED <<server, commands, crashes, agent, history>>

\* A run that stops before it renders leaves notes without a file.
Abandoned == unshown' = unshown \cup ((Load(index').notes \cup Load(regen').notes) \ vault')

-----------------------------------------------------------------------------
(* organize_text and _organize_originals: one text after the other *)

\* `flag` says whether probable duplicates are culled.
Organize(input, by, cull) ==
    /\ Begin("organize", "capture", by, input, cull) /\ Migrate
    /\ UNCHANGED <<bak, regen, vault>>

RebuildStartsDirty == regen' = regen     \* bug: the leftovers of an interrupted run stay
RebuildStartsClean == regen' = None

\* Every original of the inbox; `flag` is --keep-history.
Regenerate(by, keep) ==
    /\ Opened.inbox # <<>>
    /\ Begin("regenerate", "organize", by, Opened.inbox, keep) /\ Migrate
    /\ RebuildStartsClean
    /\ UNCHANGED <<bak, vault>>

Text == Head(cmd.todo)
NoteId == <<Text, cmd.by>>
NextText == IF cmd.kind = "organize" THEN "capture" ELSE "organize"

Capture ==
    /\ At({"organize"}, "capture") /\ cmd.todo # <<>>
    /\ inbox' = Stored({Text}, cmd.origs)
    /\ cmd' = [cmd EXCEPT !.pc = "organize", !.origs = @ \cup {Text}]
    /\ UNCHANGED <<index, bak, regen, legacy, vault>> /\ Others

\* OrganizerUnavailable: the run ends; a rebuild leaves the index alone.
Unavailable ==
    /\ At({"organize", "regenerate"}, "organize") /\ cmd.todo # <<>> /\ cmd.by = "model"
    /\ regen' = IF cmd.kind = "regenerate" THEN None ELSE regen
    /\ Done
    /\ UNCHANGED <<index, bak, inbox, legacy, vault, server, commands, crashes, agent>>
    /\ UNCHANGED <<last, before, removed>> /\ Abandoned

Culls == (cmd.kind = "regenerate" \/ cmd.flag) /\ Duplicate(Text, cmd.mem)

Cull ==
    /\ At({"organize", "regenerate"}, "organize") /\ cmd.todo # <<>> /\ Culls
    /\ cmd' = [cmd EXCEPT !.pc = NextText, !.todo = Tail(@)]
    /\ UNCHANGED disk /\ Others

\* The lines go to the file the repository was opened on.
Writes(lines) ==
    IF cmd.kind = "regenerate" THEN regen' = Appended(regen, lines) /\ UNCHANGED index
    ELSE index' = Appended(index, lines) /\ UNCHANGED regen

AddNote ==
    /\ At({"organize", "regenerate"}, "organize") /\ cmd.todo # <<>> /\ ~Culls
    /\ Writes(NoteLines(NoteId, cmd.mem))
    /\ cmd' = [cmd EXCEPT !.pc = "file", !.mem = Union(@, NoteLines(NoteId, @))]
    /\ UNCHANGED <<bak, inbox, legacy, vault>> /\ Others

WriteFile ==
    /\ At({"organize", "regenerate"}, "file")
    /\ vault' = vault \cup {NoteId}
    /\ Go("entities")
    /\ UNCHANGED <<index, bak, regen, inbox, legacy>> /\ Others

Entities ==
    LET lines == EntityLines(NoteId, cmd.mem)
        names == IF NoteId \in Live(cmd.mem) THEN Mentions[Text] ELSE {}
    IN  /\ At({"organize", "regenerate"}, "entities")
        /\ inbox' = Stored(names, cmd.origs)
        /\ Writes(lines)
        /\ cmd' = [cmd EXCEPT !.pc = NextText, !.todo = Tail(@), !.mem = Union(@, lines),
                              !.origs = @ \cup names]
        /\ UNCHANGED <<bak, legacy, vault>> /\ Others

Organized ==
    /\ At({"organize"}, "capture") /\ cmd.todo = <<>>
    /\ Go("render")
    /\ UNCHANGED disk /\ Others

DropIndex ==     \* bug: the old index is unlinked
    /\ At({"regenerate"}, "organize") /\ cmd.todo = <<>>
    /\ index' = None
    /\ Go("swap")
    /\ UNCHANGED <<bak, regen, inbox, legacy, vault>> /\ Others

\* The two renames of a rebuild that succeeded.
BackUpIndex ==
    /\ At({"regenerate"}, "organize") /\ cmd.todo = <<>>
    /\ bak' = IF index = None THEN bak ELSE index
    /\ index' = None
    /\ Go("swap")
    /\ UNCHANGED <<regen, inbox, legacy, vault>> /\ Others

Swap ==
    /\ At({"regenerate"}, "swap")
    /\ index' = regen /\ regen' = None
    /\ cmd' = [cmd EXCEPT !.pc = "replay", !.mem = Load(regen)]
    /\ UNCHANGED <<bak, inbox, legacy, vault>> /\ Others

\* _replay_history, onto the notes that still exist.
HistoryOfLive(past, mem) ==      \* bug: deletions are not replayed
    [Empty EXCEPT !.marks = (past.marks \cap mem.notes) \ mem.marks]
History(past, mem) ==
    [Empty EXCEPT !.marks = (past.marks \cap mem.notes) \ mem.marks,
                  !.dead = past.dead \cap Live(mem)]

Replay ==
    /\ At({"regenerate"}, "replay")
    /\ index' = Appended(index, History(cmd.past, cmd.mem))
    /\ Ends(Union(cmd.mem, History(cmd.past, cmd.mem)))
    /\ UNCHANGED <<bak, regen, inbox, legacy, vault>> /\ Others

-----------------------------------------------------------------------------
(* import, relink, rerender, attach *)

Import ==
    /\ Begin("import", "backup", "none", <<>>, TRUE) /\ Migrate
    /\ UNCHANGED <<bak, regen, vault>>

NeedsIndex == Opened.index # None
Relink == /\ NeedsIndex /\ Begin("relink", "backup", "none", <<>>, TRUE) /\ Migrate
          /\ UNCHANGED <<bak, regen, vault>>
Rerender == /\ NeedsIndex /\ Begin("rerender", "tombstone", "none", <<>>, TRUE) /\ Migrate
            /\ UNCHANGED <<bak, regen, vault>>
Attach == /\ Begin("attach", "mark", "none", <<>>, TRUE) /\ Migrate
          /\ UNCHANGED <<bak, regen, vault>>

\* copy2, then the work.
CopyIndex ==
    /\ At({"import", "relink"}, "backup")
    /\ bak' = IF index = None THEN bak ELSE index
    /\ Go(cmd.kind)
    /\ UNCHANGED <<index, regen, inbox, legacy, vault>> /\ Others

\* The lines of the notes the destination does not have.
Imported(dest) ==
    LET new(n) == n \notin dest.notes
    IN  [notes |-> {n \in Source.index.notes : new(n)},
         marks |-> {n \in Source.index.marks : new(n)},
         dead  |-> {n \in Source.index.dead : new(n)},
         edges |-> {e \in Source.index.edges : new(e[1])}]

ProtectNone(imported) == {}     \* bug: the imported notes are reconciled like the others
Protect(imported) == imported

ImportIndex ==
    LET lines == Imported(Load(index))
    IN  /\ At({"import"}, "import")
        /\ index' = Appended(index, lines)
        /\ cmd' = [cmd EXCEPT !.pc = "inbox", !.protect = Protect(lines.notes)]
        /\ UNCHANGED <<bak, regen, inbox, legacy, vault>> /\ Others

\* The originals that are not known, in their order: an inbox has each once.
Missing(originals, known) ==
    SetToSeqs(Range(originals) \ known) \cap AllSubSeqs(originals)

ImportInbox ==
    /\ At({"import"}, "inbox")
    /\ \E new \in Missing(Source.inbox, Range(inbox)) : inbox' = inbox \o new
    /\ cmd' = [cmd EXCEPT !.pc = "tombstone", !.mem = Load(index), !.origs = Range(inbox')]
    /\ UNCHANGED <<index, bak, regen, legacy, vault>> /\ Others

\* relink_notes: the missing edges between the current notes.
RelinkNotes ==
    LET missing == UNION {LinksOf(n, cmd.mem) : n \in Live(cmd.mem)} \ cmd.mem.edges
        lines == [Empty EXCEPT !.edges = missing]
    IN  /\ At({"relink"}, "relink")
        /\ index' = Appended(index, lines)
        /\ cmd' = [cmd EXCEPT !.pc = "tombstone", !.mem = Union(@, lines)]
        /\ UNCHANGED <<bak, regen, inbox, legacy, vault>> /\ Others

\* attach: a resource event on the best match, if there is one.
AttachResource ==
    /\ At({"attach"}, "mark")
    /\ \/ \E n \in Live(cmd.mem) :
            LET lines == [Empty EXCEPT !.marks = {n} \ cmd.mem.marks]
            IN  index' = Appended(index, lines) /\ Ends(Union(cmd.mem, lines))
       \/ UNCHANGED index /\ Done
    /\ UNCHANGED <<bak, regen, inbox, legacy, vault>> /\ Others

-----------------------------------------------------------------------------
(* write_projections *)

\* A note that could have a file, has none, and is not protected was deleted.
Gone(m) == {n \in Live(m) : n \notin vault /\ n \notin cmd.protect /\ n[1] \in cmd.origs}

Tombstone ==
    LET lines == [Empty EXCEPT !.dead = Gone(cmd.mem)]
    IN  /\ At({"import", "relink", "rerender"}, "tombstone")
        /\ index' = Appended(index, lines)
        /\ Ends(Union(cmd.mem, lines))
        /\ UNCHANGED <<bak, regen, inbox, legacy, vault>> /\ Others

\* write_notes; the files of notes the index does not know stay.
Render ==
    /\ cmd # Idle /\ cmd.pc = "render"
    /\ vault' = vault \cup {n \in Live(cmd.mem) : n[1] \in cmd.origs}
    /\ Done
    /\ UNCHANGED <<index, bak, regen, inbox, legacy>> /\ Others

-----------------------------------------------------------------------------
(* reset: the vault folder first, then the index directory *)

Reset(keep) ==
    /\ cmd = Idle /\ commands < MaxCommands
    /\ vault # {} \/ legacy # None \/ External
    /\ commands' = commands + 1
    /\ last' = "reset" /\ before' = None
    /\ vault' = {} /\ legacy' = None
    /\ cmd' = [kind |-> "reset", pc |-> "index", flag |-> keep]
    /\ UNCHANGED <<index, bak, regen, inbox, server, crashes, agent, removed, unshown>>

ResetIndex ==
    /\ At({"reset"}, "index")
    /\ index' = None /\ bak' = None
    /\ IF cmd.flag THEN UNCHANGED <<regen, inbox>> ELSE regen' = None /\ inbox' = <<>>
    /\ Done
    /\ UNCHANGED <<legacy, vault>> /\ Others

-----------------------------------------------------------------------------
(* The agent, through the MCP server: VaultWrite on a memory loaded once *)

Serve ==
    /\ server = None /\ NeedsIndex /\ cmd = Idle /\ agent < MaxAgent /\ Migrate
    /\ server' = [mem |-> Load(Opened.index), origs |-> Range(Opened.inbox)]
    /\ UNCHANGED <<bak, regen, vault, cmd, commands, crashes, agent, history>>

Disconnect ==
    /\ server # None /\ server' = None
    /\ UNCHANGED <<disk, cmd, commands, crashes, agent, history>>

\* A write tool appends its lines and keeps them in the server's memory.
Tool(lines, texts) ==
    /\ server # None /\ agent < MaxAgent /\ lines # Empty
    /\ agent' = agent + 1
    /\ inbox' = Stored(texts, server.origs)
    /\ index' = Appended(index, lines)
    /\ server' = [mem |-> Union(server.mem, lines), origs |-> server.origs \cup texts]
    /\ unshown' = unshown \cup (lines.notes \ vault)
    /\ UNCHANGED <<bak, regen, legacy, vault, cmd, commands, crashes, last, before, removed>>

ProposeNote(t) ==
    LET n == <<t, "agent">>
    IN  server # None /\ Tool([Empty EXCEPT !.notes = {n} \ Live(server.mem)], {t})

\* set_status, record_edit and add_resource: an event on a note it knows.
MarkNote(n) ==
    /\ server # None /\ n \in Live(server.mem)
    /\ Tool([Empty EXCEPT !.marks = {n} \ server.mem.marks], {})

Place(n, k) ==
    /\ server # None /\ {n, k} \subseteq Live(server.mem) /\ n # k
    /\ Tool([Empty EXCEPT !.edges = {<<n, k>>} \ server.mem.edges], {})

ExtractEntities(n) ==
    /\ server # None /\ n \in Live(server.mem)
    /\ Tool(EntityLines(n, server.mem), Mentions[n[1]])

-----------------------------------------------------------------------------
\* The user removes the file of a note.
RemoveFile(n) ==
    /\ n \in vault /\ Cardinality(removed) < MaxRemoved
    /\ vault' = vault \ {n} /\ removed' = removed \cup {n}
    /\ UNCHANGED <<index, bak, regen, inbox, legacy, cmd, server, commands, crashes, agent>>
    /\ UNCHANGED <<last, before, unshown>>

Crash ==
    /\ cmd # Idle /\ crashes < MaxCrashes
    /\ crashes' = crashes + 1
    /\ Done
    /\ UNCHANGED <<disk, server, commands, agent, last, before, removed>> /\ Abandoned

Organizers == {"baseline", "model"}

Command ==
    \/ \E input \in Inputs, by \in Organizers, cull \in BOOLEAN : Organize(input, by, cull)
    \/ \E by \in Organizers, keep \in BOOLEAN : Regenerate(by, keep)
    \/ Import \/ Relink \/ Rerender \/ Attach
    \/ \E keep \in BOOLEAN : Reset(keep)

Step ==
    \/ Capture \/ Unavailable \/ Cull \/ AddNote \/ WriteFile \/ Entities \/ Organized
    \/ BackUpIndex \/ Swap \/ Replay
    \/ CopyIndex \/ ImportIndex \/ ImportInbox \/ RelinkNotes \/ AttachResource
    \/ Tombstone \/ Render \/ ResetIndex

Agent ==
    \/ Serve \/ Disconnect
    \/ \E t \in AgentTexts : ProposeNote(t)
    \/ server # None /\ \E n \in server.mem.notes :
          \/ MarkNote(n) \/ ExtractEntities(n)
          \/ \E k \in server.mem.notes : Place(n, k)

Next == Command \/ Step \/ Agent \/ Crash \/ \E n \in vault : RemoveFile(n)

Spec == Init /\ [][Next]_vars

-----------------------------------------------------------------------------
(* Properties *)

Alone == agent = 0

(* No command takes for a deletion what is none: a note is tombstoned only    *)
(* if the user removed its file, or it arrives deleted from the vault it is   *)
(* imported from, or nothing ever wrote its file - the agent's notes, and     *)
(* those of a command that was interrupted.                                   *)
TombstonesEarned ==
    \A file \in {index, bak} :
        Load(file).dead \subseteq removed \cup unshown \cup Source.index.dead

(* A rebuild is complete and clean: when it has replaced the index, every     *)
(* original it was given has a note or a probable duplicate of its own that   *)
(* has one, and no note of another organizer is left over, whatever run was   *)
(* interrupted before.                                                        *)
Rebuilt == At({"regenerate"}, "render") /\ Alone
RebuildComplete ==
    Rebuilt => /\ \A t \in cmd.origs : \E n \in index.notes : Similar(n[1], t, Twin)
               /\ \A n \in index.notes : n[2] \in {cmd.by, "entity"}

(* regenerate --keep-history keeps the statuses, edits, resources and         *)
(* deletions of every note the rebuild makes again, and `before` is what the  *)
(* index held when the command started.                                       *)
HistoryKept ==
    Rebuilt /\ cmd.flag =>
        /\ Load(before).marks \cap index.notes \subseteq index.marks
        /\ Load(before).dead \cap index.notes \subseteq index.dead

(* import, relink and regenerate are reversible, wherever they are            *)
(* interrupted: until another command starts, the index they found is in its  *)
(* place or in the backup.                                                    *)
Reversible ==
    last \in {"import", "relink", "regenerate"} /\ Alone /\ before # None =>
        before \in {index, bak}

-----------------------------------------------------------------------------
(* Claims of the code that the code does not keep *)

(* Only the notes whose file the user removed are tombstoned ("notes the user *)
(* removed from the vault are tombstoned, not resurrected"), or those that    *)
(* were deleted where they come from.                                         *)
TombstonesByUser == Load(index).dead \subseteq removed \cup Source.index.dead

(* No command loses an original but a reset that was not asked to keep them:  *)
(* "--keep-originals keeps the lossless captures".                            *)
Captured == Range(inbox) \cup (IF legacy = None THEN {} ELSE Range(legacy.inbox))
Wipes(c) == c.kind = "reset" /\ ~c.flag
CapturesKept == [][~Wipes(cmd) /\ ~Wipes(cmd') => Captured \subseteq Captured']_vars
=============================================================================
