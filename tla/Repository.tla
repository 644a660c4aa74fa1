----------------------------- MODULE Repository -----------------------------
(***************************************************************************)
(* The repository the program opens (cli.py, _open_repo): the note log, and *)
(* the similarity table beside it.  The table's model has the log as one    *)
(* step, the log's model has no table, and a behaviour is of the one or of  *)
(* the other: what several threads and a death of the process do to each.   *)
(* The command line is one thread alone, the app is several.                *)
(***************************************************************************)
EXTENDS NoteStore

CONSTANTS TableNotes,  \* notes in the table's model
          DimOf,       \* [TableNotes -> the dimension of its embedding]
          MaxAdds, MaxDeletes, MaxOpens,  \* bounds of the table's model
          Main         \* the thread that is alone, where one is

VARIABLES part,   \* which of the two, "log" or "table"
          solo,   \* does one thread alone use the repository?
          log, dead, rows, map, dim, degraded, tablePhase, tableOp,
          adds, deletes, opens, readded, raised

Table == INSTANCE VecIndex WITH
    Notes <- TableNotes, Threads <- Writers, phase <- tablePhase, op <- tableOp

ASSUME RepositoryAssumption ==
    Main \in Writers /\ IsFiniteSet(TableNotes) /\ None \notin Table!Operation

tableVars == <<log, dead, rows, map, dim, degraded, tablePhase, tableOp,
               adds, deletes, opens, readded, raised>>

OnlyMain == \A w \in Writers \ {Main} : op[w] = None /\ tableOp[w] = None

RepositoryInit == Init /\ Table!Init /\ part \in {"log", "table"} /\ solo \in BOOLEAN
RepositoryNext ==
    /\ UNCHANGED <<part, solo>>
    /\ \/ part = "log" /\ Next /\ UNCHANGED tableVars
       \/ part = "table" /\ Table!Next /\ UNCHANGED vars
    /\ solo => OnlyMain'
RepositorySpec ==
    RepositoryInit /\ [][RepositoryNext]_<<part, solo, vars, tableVars>>

-----------------------------------------------------------------------------
(* Used by one thread, as the command line uses it, the repository a restart  *)
(* loads shows what it showed before (JsonlNoteRepository._load over          *)
(* _append); with several threads that is not so.                             *)
RestartAgreesAlone == solo => RestartAgrees

(* One thread, which adds no deleted note again, gets from the table the      *)
(* answers of the scan it replaces ("Identical answers", vec_index.py:12), as *)
(* many and as near, whatever rows an earlier process left behind; only among *)
(* notes equally far at the limit may the choice be another.                  *)
IdenticalAlone == part = "table" /\ solo /\ ~readded => Table!IdenticalAnswers

(* Whatever the threads do, the table answers with no note that is deleted,   *)
(* and with none farther than what the scan would have given in its place     *)
(* (vec_index.py, most_similar).                                              *)
HonestAnswers == part = "table" => Table!HonestAnswers
=============================================================================
