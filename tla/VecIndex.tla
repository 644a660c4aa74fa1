------------------------------ MODULE VecIndex ------------------------------
(***************************************************************************)
(* The similarity index (adapters/vec_index.py): a sqlite-vec table beside  *)
(* the note index, which stays the truth.  An addition writes the note      *)
(* index first and the table after it, a deletion likewise; the threads of  *)
(* the process interleave between the two, and it may die there.  Opening   *)
(* the index reconciles the table with the notes, row by row.               *)
(*                                                                          *)
(* A query asks sqlite for the k nearest rows and keeps those whose note is *)
(* alive; the promise is the answer of the brute-force scan it replaces.    *)
(***************************************************************************)
EXTENDS Integers, Sequences, FiniteSets, Functions

CONSTANTS Notes, Threads,
          DimOf,       \* [Notes -> the dimension of its embedding, a number]
          MaxAdds, MaxDeletes, MaxOpens,  \* bounds
          None

VARIABLES log,       \* the notes of the index file, in the order they came
          dead,      \* the tombstoned ones
          rows,      \* vec_notes: [rowid -> the note whose vector it holds]
          map,       \* map: [note -> rowid]
          dim,       \* the dimension in `meta`, or None
          degraded,  \* _degraded, of the process
          phase,     \* "down", "sync", "up", or "plain": maybe_indexed gave the index up
          op,        \* [Threads -> the operation under way, or None]
          adds, deletes, opens,
          readded,   \* history: a deleted note was added again
          raised     \* history: an insertion found its rowid taken

store   == <<log, dead>>
table   == <<rows, map, dim>>
counts  == <<adds, deletes, opens>>
history == <<readded, raised>>
vars    == <<store, table, degraded, phase, op, counts, history>>

-----------------------------------------------------------------------------
(* Queries *)

Live(n) == n \in Range(log) \ dead

\* A query: the place of every note in the scan's order, by score and then by
\* id, and its distance as the table has it.  Notes of one score, or apart by
\* less than single precision tells, are equally far.
Places == 1..Cardinality(Notes)
Queries == {q \in [place : [Notes -> Places], far : [Notes -> Places]] :
              /\ IsInjective(q.place)
              /\ \A m, n \in Notes : q.place[m] < q.place[n] => q.far[m] <= q.far[n]}

Limits == 1..Cardinality(Notes)

\* The rows sqlite returns: the k nearest, whatever they belong to; of rows
\* equally far at the limit, any.
Lesser(i, j) == IF i < j THEN i ELSE j
Nearest(query, k) ==
    {R \in SUBSET DOMAIN rows :
       /\ Cardinality(R) = Lesser(k, Cardinality(DOMAIN rows))
       /\ \A r \in R, q \in DOMAIN rows \ R : query.far[rows[r]] <= query.far[rows[q]]}

\* The answers the table may give: sorting the k of them by id comes too late
\* to choose among notes equally far.
Joined(R) == {n \in DOMAIN map : map[n] \in R}
MostSimilarUnfiltered(query, k) == {Joined(R) : R \in Nearest(query, k)}  \* bug: tombstones
MostSimilar(query, k) == {{n \in Joined(R) : Live(n)} : R \in Nearest(query, k)}

\* The scan of InMemoryNoteRepository, which sorts before it cuts.
Before(query, n) == {m \in Notes : Live(m) /\ query.place[m] < query.place[n]}
BruteForce(query, k) == {n \in Notes : Live(n) /\ Cardinality(Before(query, n)) < k}

-----------------------------------------------------------------------------
Init ==
    /\ log = <<>> /\ dead = {} /\ rows = <<>> /\ map = <<>> /\ dim = None
    /\ degraded = FALSE /\ phase = "down"
    /\ op = [t \in Threads |-> None]
    /\ adds = 0 /\ deletes = 0 /\ opens = 0 /\ readded = FALSE /\ raised = FALSE

NextRow == IF map = <<>> THEN 1
           ELSE 1 + CHOOSE r \in Range(map) : \A q \in Range(map) : q <= r

Without(f, x) == [y \in DOMAIN f \ {x} |-> f[y]]
With(f, x, v) == [y \in DOMAIN f \cup {x} |-> IF y = x THEN v ELSE f[y]]

Keeps == UNCHANGED <<rows, map>>

\* _index: one dimension for the whole table, rowids counted from the map.
Indexed(n) ==
    IF degraded THEN UNCHANGED <<table, degraded, raised>>
    ELSE IF dim # None /\ dim # DimOf[n]
         THEN degraded' = TRUE /\ UNCHANGED <<table, raised>>
         ELSE /\ dim' = DimOf[n]
              /\ UNCHANGED degraded
              /\ IF NextRow \in DOMAIN rows
                 THEN raised' = TRUE /\ Keeps
                 ELSE /\ rows' = With(rows, NextRow, n)
                      /\ map' = With(map, n, NextRow)
                      /\ UNCHANGED raised

Dropped(n) ==
    IF n \in DOMAIN map THEN rows' = Without(rows, map[n]) /\ map' = Without(map, n)
    ELSE Keeps

-----------------------------------------------------------------------------
(* Opening *)

Open ==
    /\ phase = "down" /\ opens < MaxOpens
    /\ opens' = opens + 1
    /\ phase' = "sync" /\ degraded' = FALSE
    /\ UNCHANGED <<store, table, op, adds, deletes, history>>

Unindexed == {i \in 1..Len(log) : Live(log[i]) /\ log[i] \notin DOMAIN map}

\* _sync: the live notes without a row, in the order of the file; if an
\* insertion raises, the repository is used without the index.
SyncAdd ==
    /\ phase = "sync" /\ Unindexed # {} /\ ~degraded
    /\ Indexed(log[CHOOSE i \in Unindexed : \A j \in Unindexed : i <= j])
    /\ phase' = IF ~raised /\ raised' THEN "plain" ELSE phase
    /\ UNCHANGED <<store, op, counts, readded>>

StaleKept == Keeps      \* bug: what is no longer alive stays in the table
StaleDropped ==
    LET stale == {n \in DOMAIN map : ~Live(n)}
    IN  /\ rows' = [r \in DOMAIN rows \ {map[n] : n \in stale} |-> rows[r]]
        /\ map' = [n \in DOMAIN map \ stale |-> map[n]]

SyncDrop ==
    /\ phase = "sync" /\ (Unindexed = {} \/ degraded)
    /\ StaleDropped
    /\ phase' = "up"
    /\ UNCHANGED <<store, dim, degraded, op, counts, history>>

\* The process ends, between any two writes.
Exit ==
    /\ phase # "down"
    /\ phase' = "down" /\ op' = [t \in Threads |-> None]
    /\ UNCHANGED <<store, table, degraded, counts, history>>

\* "The .db file is freely deletable".
LoseTable ==
    /\ phase = "down" /\ rows # <<>>
    /\ rows' = <<>> /\ map' = <<>> /\ dim' = None
    /\ UNCHANGED <<store, degraded, phase, op, counts, history>>

-----------------------------------------------------------------------------
(* Writing: the inner repository, then the table *)

\* Between its steps a thread holds the note it adds or deletes.
Operation == [kind : {"add", "index"}, note : Notes, already : BOOLEAN]
             \cup [kind : {"drop"}, note : Notes]

Set(t, o) == op' = [op EXCEPT ![t] = o]

\* add_note asks whether the note is there before it writes.
AddNote(t, n) ==
    /\ phase = "up" /\ op[t] = None /\ adds < MaxAdds
    /\ adds' = adds + 1
    /\ Set(t, [kind |-> "add", note |-> n, already |-> Live(n)])
    /\ UNCHANGED <<store, table, degraded, phase, deletes, opens, history>>

AddInner(t) ==
    /\ op[t] # None /\ op[t].kind = "add"
    /\ log' = IF op[t].note \in Range(log) THEN log ELSE Append(log, op[t].note)
    /\ readded' = (readded \/ op[t].note \in dead)
    /\ Set(t, IF op[t].already THEN None ELSE [op[t] EXCEPT !.kind = "index"])
    /\ UNCHANGED <<dead, table, degraded, phase, counts, raised>>

AddIndex(t) ==
    /\ op[t] # None /\ op[t].kind = "index"
    /\ Indexed(op[t].note)
    /\ Set(t, None)
    /\ UNCHANGED <<store, phase, counts, readded>>

\* A note deleted already has nothing left to write but its row.
DeleteNote(t, n) ==
    /\ phase = "up" /\ op[t] = None /\ n \in Range(log) /\ deletes < MaxDeletes
    /\ deletes' = deletes + 1
    /\ dead' = dead \cup {n}
    /\ Set(t, [kind |-> "drop", note |-> n])
    /\ UNCHANGED <<log, table, degraded, phase, adds, opens, history>>

DeleteIndex(t) ==
    /\ op[t] # None /\ op[t].kind = "drop"
    /\ Dropped(op[t].note)
    /\ Set(t, None)
    /\ UNCHANGED <<store, dim, degraded, phase, counts, history>>

Next ==
    \/ Open \/ SyncAdd \/ SyncDrop \/ Exit \/ LoseTable
    \/ \E t \in Threads :
          \/ AddInner(t) \/ AddIndex(t) \/ DeleteIndex(t)
          \/ \E n \in Notes : AddNote(t, n) \/ DeleteNote(t, n)

Spec == Init /\ [][Next]_vars

-----------------------------------------------------------------------------
(* Properties *)

Quiet == \A t \in Threads : op[t] = None
Serving == phase = "up" /\ Quiet /\ ~degraded

Tied(query, m, n) == query.far[m] = query.far[n]

(* "Identical answers": between operations, for every query and limit, the    *)
(* table answers what the scan would, but for the choice among notes equally  *)
(* far at the limit - after any crash, a lost table and an embedder switch -  *)
(* and no insertion fails; for one thread, and as long as no deleted note is  *)
(* added again.                                                               *)
IdenticalAnswers ==
    /\ Serving => \A query \in Queries, k \in Limits : \A answer \in MostSimilar(query, k) :
         /\ Cardinality(answer) = Cardinality(BruteForce(query, k))
         /\ \A m \in answer \ BruteForce(query, k), n \in BruteForce(query, k) \ answer :
               Tied(query, m, n)
    /\ ~raised

(* Whatever the threads were doing: no answer is a deleted note, and one that *)
(* the scan would not have given stands for one as far that it would have - a *)
(* race may only cost answers.                                                *)
HonestAnswers ==
    Serving /\ ~raised =>
        \A query \in Queries, k \in Limits : \A answer \in MostSimilar(query, k) :
            \A m \in answer :
               /\ Live(m)
               /\ m \in BruteForce(query, k)
                  \/ \E n \in BruteForce(query, k) \ answer : Tied(query, m, n)

(* What vec_index.py:12-13 says, "re-ranked with the exact brute-force        *)
(* tie-break": the very notes of the scan.  Not so at a tie on the limit.     *)
IdenticalAtTies ==
    Serving => \A query \in Queries, k \in Limits : MostSimilar(query, k) = {BruteForce(query, k)}
=============================================================================
