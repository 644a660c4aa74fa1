---------------------------- MODULE VaultProofs ----------------------------
(***************************************************************************)
(* For any notes, titles, edits and any number of user actions, failures    *)
(* and restarts: what Vault promises of its two settings.                   *)
(*                                                                          *)
(* In "calm" the invariant is that every file lies under its note's title   *)
(* and holds a body written for that note, or is empty while a thread is at *)
(* writing it or because its write was torn, and that a thread about to     *)
(* write holds the user's text if the user rewrote the note and no write of *)
(* it was torn: the user rests while a thread writes, and no other thread   *)
(* can put anything else there without having looked at a file half written.*)
(*                                                                          *)
(* In "names" it follows one projection through its steps.  A note that the *)
(* user did not remove has a file whenever the worker may look for missing  *)
(* ones; while files are renamed over each other it has its file or its     *)
(* turn to come; and what the worker rendered stays in place, because the   *)
(* names it planned are all different.                                      *)
(***************************************************************************)
EXTENDS Vault, FiniteSetTheorems, NaturalsInduction, WellFoundedInduction, SequenceTheorems, TLAPS

Index == ToSet(index)
Rendering(t) == proc[t].pc \in {"read", "put", "writing"}

\* A thread works from notes of the index, and renders those it has named.
ThreadTyped(t) ==
    /\ At(t, "file") \/ At(t, "filling") \/ At(t, "entities") => proc[t].note \in Index
    /\ Rendering(t) => /\ DOMAIN proc[t].stems \subseteq Index
                       /\ proc[t].stems \in [DOMAIN proc[t].stems -> Stems]
                       /\ proc[t].todo \subseteq DOMAIN proc[t].stems
    /\ At(t, "put") \/ At(t, "writing") => proc[t].todo # {} /\ proc[t].body \in Bodies
    /\ At(t, "filling") \/ At(t, "writing") => proc[t].open \in Stems

VaultTypes ==
    /\ index \in Seq(Ids) /\ dead \subseteq Index /\ slug \in [Ids -> Slugs]
    /\ files \in [Stems -> File \cup {None}] /\ Present \subseteq Index
    /\ touches \in Nat /\ crashes \in Nat
    /\ proc \in [Threads -> Procs] /\ \A t \in Threads : ThreadTyped(t)

\* Every thread but t is where it was.
OthersWait(t) == \A u \in Threads \ {t} : proc'[u] = proc[u]

(* A note is indexed if it stands somewhere in the index.                     *)
LEMMA Indexed ==
    ASSUME index \in Seq(Ids)
    PROVE  Index \subseteq Ids /\ \A i : i \in Index <=> \E k \in 1..Len(index) : index[k] = i
  BY DEF Index, ToSet

(* One thread is given a new state, the other keeps its own.                  *)
LEMMA Replaced ==
    ASSUME proc \in [Threads -> Procs], NEW t \in Threads, NEW r \in Procs,
           proc' = [proc EXCEPT ![t] = r]
    PROVE  proc' \in [Threads -> Procs] /\ proc'[t] = r /\ OthersWait(t)
  BY DEF OthersWait

(* The states a thread starts from: at rest, with a note, projecting.         *)
LEMMA RestingTyped ==
    /\ Resting \in Procs /\ Resting.pc = "idle"
    /\ \A reconcile \in BOOLEAN, protect \in SUBSET Ids :
          /\ Projecting(reconcile, protect) \in Procs
          /\ Projecting(reconcile, protect).pc = IF reconcile THEN "scan" ELSE "views"
    /\ \A i \in Ids : /\ [Resting EXCEPT !.pc = "file", !.note = i] \in Procs
                      /\ [Resting EXCEPT !.pc = "file", !.note = i].pc = "file"
                      /\ [Resting EXCEPT !.pc = "file", !.note = i].note = i
  <1>1. <<>> \in UNION {[S -> Stems] : S \in SUBSET Ids}
    <2>1. <<>> \in [{} -> Stems] /\ {} \in SUBSET Ids
      OBVIOUS
    <2> QED BY <2>1
  <1>2. Resting \in Procs /\ Resting.pc = "idle"
    BY <1>1 DEF Resting, Procs
  <1>3. ASSUME NEW reconcile \in BOOLEAN, NEW protect \in SUBSET Ids
        PROVE  /\ Projecting(reconcile, protect) \in Procs
               /\ Projecting(reconcile, protect).pc = IF reconcile THEN "scan" ELSE "views"
    BY <1>2 DEF Projecting, Procs
  <1>4. ASSUME NEW i \in Ids
        PROVE  /\ [Resting EXCEPT !.pc = "file", !.note = i] \in Procs
               /\ [Resting EXCEPT !.pc = "file", !.note = i].pc = "file"
               /\ [Resting EXCEPT !.pc = "file", !.note = i].note = i
    BY <1>2 DEF Procs
  <1> QED BY <1>2, <1>3, <1>4

(* The scan remembers which notes have files.                                 *)
LEMMA ScanEffect ==
    ASSUME proc \in [Threads -> Procs], NEW t \in Threads, Scan(t), Present \subseteq Ids
    PROVE  /\ proc' \in [Threads -> Procs] /\ OthersWait(t)
           /\ proc'[t].pc = "bury" /\ proc'[t].present = Present
           /\ proc'[t].protect = proc[t].protect
  <1> DEFINE r == [proc[t] EXCEPT !.present = Present, !.pc = "bury"]
  <1>1. proc' = [proc EXCEPT ![t] = r] /\ proc[t] \in Procs
    BY DEF Scan
  <1>2. r \in Procs /\ r.present = Present /\ r.protect = proc[t].protect /\ r.pc = "bury"
    BY <1>1 DEF Procs
  <1> QED
    BY <1>1, <1>2, Replaced

(* A thread goes on with what it had.                                         *)
LEMMA MoveEffect ==
    ASSUME proc \in [Threads -> Procs], NEW t \in Threads, 
           NEW pc \in {"entities", "views", "snapshot"}, proc' = [proc EXCEPT ![t].pc = pc]
    PROVE  /\ proc' \in [Threads -> Procs] /\ OthersWait(t)
           /\ proc'[t].pc = pc /\ proc'[t].note = proc[t].note
  <1> DEFINE r == [proc[t] EXCEPT !.pc = pc]
  <1>1. proc' = [proc EXCEPT ![t] = r] /\ proc[t] \in Procs
    OBVIOUS
  <1>2. r \in Procs /\ r.pc = pc /\ r.note = proc[t].note
    BY <1>1 DEF Procs
  <1> QED
    BY <1>1, <1>2, Replaced

(* The snapshot names the current notes and takes them all up.                *)
LEMMA SnapshotEffect ==
    ASSUME proc \in [Threads -> Procs], NEW t \in Threads, Snapshot(t), Live \subseteq Ids,
           PlanFilenames(Live) \in [Live -> Stems]
    PROVE  /\ proc' \in [Threads -> Procs] /\ OthersWait(t)
           /\ proc'[t].pc = "read" /\ proc'[t].todo = Live
           /\ proc'[t].stems = PlanFilenames(Live)
  <1> DEFINE p == PlanFilenames(Live)
             r == [proc[t] EXCEPT !.stems = p, !.todo = Live, !.pc = "read"]
  <1>1. proc' = [proc EXCEPT ![t] = r] /\ proc[t] \in Procs
    BY DEF Snapshot
  <1>2. p \in UNION {[S -> Stems] : S \in SUBSET Ids} /\ Live \in SUBSET Ids
    OBVIOUS
  <1> HIDE DEF p
  <1>3. r \in Procs /\ r.pc = "read" /\ r.todo = Live /\ r.stems = p
    BY <1>1, <1>2 DEF Procs
  <1>4. proc' \in [Threads -> Procs] /\ proc'[t] = r /\ OthersWait(t)
    BY <1>1, <1>3, Replaced
  <1> QED
    BY <1>3, <1>4 DEF p

(* A body is found for the note whose turn it is.                             *)
LEMMA ReadEffect ==
    ASSUME proc \in [Threads -> Procs], NEW t \in Threads, ReadBody(t),
           PreservedBody(t, Following(t)) \in Bodies
    PROVE  /\ proc' \in [Threads -> Procs] /\ OthersWait(t)
           /\ proc'[t].pc = "put" /\ proc'[t].body = PreservedBody(t, Following(t))
           /\ proc'[t].todo = proc[t].todo /\ proc'[t].stems = proc[t].stems
  <1> DEFINE b == PreservedBody(t, Following(t))
             r == [proc[t] EXCEPT !.body = b, !.pc = "put"]
  <1>1. proc' = [proc EXCEPT ![t] = r] /\ proc[t] \in Procs
    BY DEF ReadBody
  <1> HIDE DEF b
  <1>3. r \in Procs /\ r.pc = "put" /\ r.body = b /\ r.todo = proc[t].todo
        /\ r.stems = proc[t].stems
    BY <1>1 DEF Procs, b
  <1>4. proc' \in [Threads -> Procs] /\ proc'[t] = r /\ OthersWait(t)
    BY <1>1, <1>3, Replaced
  <1> QED
    BY <1>3, <1>4 DEF b

(* A thread opens a file.                                                     *)
LEMMA OpenEffect ==
    ASSUME proc \in [Threads -> Procs], NEW t \in Threads, NEW st \in Stems,
           NEW pc \in {"filling", "writing"},
           proc' = [proc EXCEPT ![t].open = st, ![t].pc = pc]
    PROVE  /\ proc' \in [Threads -> Procs] /\ OthersWait(t)
           /\ proc'[t].pc = pc /\ proc'[t].open = st /\ proc'[t].note = proc[t].note
           /\ proc'[t].stems = proc[t].stems /\ proc'[t].todo = proc[t].todo
           /\ proc'[t].body = proc[t].body
  <1> DEFINE r == [proc[t] EXCEPT !.open = st, !.pc = pc]
  <1>1. proc' = [proc EXCEPT ![t] = r] /\ proc[t] \in Procs
    OBVIOUS
  <1>2. /\ r \in Procs /\ r.pc = pc /\ r.open = st /\ r.note = proc[t].note
        /\ r.stems = proc[t].stems /\ r.todo = proc[t].todo /\ r.body = proc[t].body
    BY <1>1 DEF Procs
  <1> HIDE DEF r
  <1>3. proc' \in [Threads -> Procs] /\ proc'[t] = r /\ OthersWait(t)
    BY <1>1, <1>2, Replaced
  <1> QED
    BY <1>2, <1>3

(* The committed note's file is written.                                      *)
LEMMA FilledEffect ==
    ASSUME proc \in [Threads -> Procs], NEW t \in Threads,
           proc' = [proc EXCEPT ![t].open = None, ![t].pc = "entities"]
    PROVE  /\ proc' \in [Threads -> Procs] /\ OthersWait(t)
           /\ proc'[t].pc = "entities" /\ proc'[t].note = proc[t].note
  <1> DEFINE r == [proc[t] EXCEPT !.open = None, !.pc = "entities"]
  <1>1. proc' = [proc EXCEPT ![t] = r] /\ proc[t] \in Procs
    OBVIOUS
  <1>2. r \in Procs /\ r.pc = "entities" /\ r.note = proc[t].note
    BY <1>1 DEF Procs
  <1> QED
    BY <1>1, <1>2, Replaced

(* A note has had its turn.                                                   *)
LEMMA NextEffect ==
    ASSUME proc \in [Threads -> Procs], NEW t \in Threads, NextNote(t)
    PROVE  /\ proc' \in [Threads -> Procs] /\ OthersWait(t)
           /\ proc'[t].pc = "read" /\ proc'[t].stems = proc[t].stems
           /\ proc'[t].todo = proc[t].todo \ {Following(t)}
  <1> DEFINE i == Following(t)
             r == [proc[t] EXCEPT !.todo = proc[t].todo \ {i}, !.open = None, !.pc = "read"]
  <1>1. proc' = [proc EXCEPT ![t] = r] /\ proc[t] \in Procs
    BY DEF NextNote
  <1> HIDE DEF i
  <1>3. r \in Procs /\ r.pc = "read" /\ r.todo = proc[t].todo \ {i} /\ r.stems = proc[t].stems
    BY <1>1 DEF Procs
  <1>4. proc' \in [Threads -> Procs] /\ proc'[t] = r /\ OthersWait(t)
    BY <1>1, <1>3, Replaced
  <1> QED
    BY <1>3, <1>4 DEF i

-----------------------------------------------------------------------------
(* Numbers, file names and turns *)

(* Any set of numbers has a smallest.                                         *)
LEMMA SmallestExists ==
    ASSUME NEW S, S \subseteq Nat, S # {}
    PROVE  \E n \in S : \A m \in S : n <= m
  <1> DEFINE less == {p \in Nat \X Nat : p[1] < p[2]}
  <1>1. IsWellFoundedOn(less, Nat) BY NatLessThanWellFounded DEF OpToRel
  <1>2. PICK n \in S : \A m \in S : <<m, n>> \notin less BY <1>1, WFMin
  <1>3. \A m \in S : ~(m < n) BY <1>2
  <1> QED BY <1>3

\* What plan_filenames computes, as an equation.
Planned(stem, notes) ==
    stem = [i \in notes |-> IF \E j \in notes : j < i /\ stem[j] = slug[i]
                            THEN Suffixed[slug[i], i] ELSE slug[i]]

(* If any function solves the equation, plan_filenames does.                  *)
LEMMA PlanExists ==
    ASSUME NEW notes, NEW f, Planned(f, notes)
    PROVE  Planned(PlanFilenames(notes), notes)
  BY DEF Planned, PlanFilenames

(* A plan names the notes by file names.                                      *)
LEMMA PlansTyped ==
    ASSUME VaultAssumption, slug \in [Ids -> Slugs], NEW notes, notes \subseteq Ids,
           NEW f, Planned(f, notes)
    PROVE  f \in [notes -> Stems] /\ DOMAIN f = notes
  <1>1. \A i \in notes : slug[i] \in Stems /\ Suffixed[slug[i], i] \in Stems
    BY DEF VaultAssumption
  <1>2. DOMAIN f = notes BY DEF Planned
  <1>3. \A i \in notes : f[i] \in Stems BY <1>1 DEF Planned
  <1>4. f = [i \in notes |-> f[i]] BY <1>2 DEF Planned
  <1> QED BY <1>2, <1>3, <1>4

Distinctive(notes) == \A i, j \in notes : slug[i] = slug[j] => i = j

(* Where no titles collide every note has the clean name.                     *)
LEMMA CleanNames ==
    ASSUME VaultAssumption, slug \in [Ids -> Slugs],
           NEW notes, notes \subseteq Ids, Distinctive(notes)
    PROVE  /\ PlanFilenames(notes) \in [notes -> Stems]
           /\ \A i \in notes : PlanFilenames(notes)[i] = slug[i]
  <1> DEFINE f == [i \in notes |-> slug[i]]
             P == PlanFilenames(notes)
             wrong == {i \in notes : P[i] # slug[i]}
  <1>1. notes \subseteq Nat BY DEF VaultAssumption
  <1>2. Planned(f, notes)
    <2>1. \A i \in notes : ~\E j \in notes : j < i /\ f[j] = slug[i]
      BY <1>1 DEF Distinctive
    <2> QED BY <2>1 DEF Planned
  <1>3. Planned(P, notes) BY <1>2, PlanExists
  <1> HIDE DEF P, f
  <1>4. P \in [notes -> Stems] BY <1>3, PlansTyped
  <1>5. wrong = {}
    <2>1. SUFFICES ASSUME wrong # {} PROVE FALSE OBVIOUS
    <2>2. wrong \subseteq Nat BY <1>1
    <2>3. PICK i \in wrong : \A j \in wrong : i <= j BY <2>1, <2>2, SmallestExists
    <2>4. PICK j \in notes : j < i /\ P[j] = slug[i] BY <1>3, <2>3 DEF Planned
    <2>5. j \notin wrong BY <1>1, <2>3, <2>4
    <2>6. slug[j] = slug[i] BY <2>4, <2>5
    <2> QED BY <1>1, <2>3, <2>4, <2>6 DEF Distinctive
  <1> QED BY <1>4, <1>5 DEF P

\* An idealisation: no title is slugged to another's name with six digits of an id at its end,
\* and six digits tell the ids of one name apart (vault.py, plan_filenames).
SuffixesApart ==
    /\ \A p \in Slugs \X Ids : Suffixed[p] \notin Slugs
    /\ \A p, q \in Slugs \X Ids : Suffixed[p] = Suffixed[q] => p = q

(* Whatever the titles, no two notes are given the same name.                 *)
LEMMA DistinctNames ==
    ASSUME VaultAssumption, SuffixesApart, slug \in [Ids -> Slugs],
           NEW notes, notes \subseteq Ids
    PROVE  /\ PlanFilenames(notes) \in [notes -> Stems]
           /\ \A i \in notes : \/ PlanFilenames(notes)[i] = slug[i]
                               \/ PlanFilenames(notes)[i] = Suffixed[slug[i], i]
           /\ \A i, j \in notes : PlanFilenames(notes)[i] = PlanFilenames(notes)[j] => i = j
  <1> DEFINE same(i) == {j \in notes : slug[j] = slug[i]}
             f == [i \in notes |-> IF \E j \in notes : j < i /\ slug[j] = slug[i]
                                   THEN Suffixed[slug[i], i] ELSE slug[i]]
             P == PlanFilenames(notes)
  <1>1. notes \subseteq Nat /\ \A i \in notes : slug[i] \in Slugs
    BY DEF VaultAssumption
  <1>2. \A i \in notes : Suffixed[slug[i], i] \notin Slugs
    <2> TAKE i \in notes
    <2>1. <<slug[i], i>> \in Slugs \X Ids BY <1>1
    <2> QED BY <2>1 DEF SuffixesApart
  <1>3. \A i, j \in notes : Suffixed[slug[i], i] = Suffixed[slug[j], j] => i = j
    <2> TAKE i, j \in notes
    <2>1. <<slug[i], i>> \in Slugs \X Ids /\ <<slug[j], j>> \in Slugs \X Ids BY <1>1
    <2> QED BY <2>1 DEF SuffixesApart
  <1>4. ASSUME NEW i \in notes
        PROVE  (\E j \in notes : j < i /\ f[j] = slug[i])
                  <=> (\E j \in notes : j < i /\ slug[j] = slug[i])
    <2>1. ASSUME NEW j \in notes, j < i, f[j] = slug[i] PROVE slug[j] = slug[i]
      BY <1>1, <1>2, <2>1
    <2>2. ASSUME NEW j \in notes, j < i, slug[j] = slug[i]
          PROVE  \E k \in notes : k < i /\ f[k] = slug[i]
      <3>1. same(i) \subseteq Nat /\ j \in same(i) BY <1>1, <2>2
      <3>2. PICK k \in same(i) : \A l \in same(i) : k <= l BY <3>1, SmallestExists
      <3>3. k \in notes /\ k \in Nat /\ slug[k] = slug[i] /\ k <= j BY <3>1, <3>2
      <3>4. k < i BY <1>1, <2>2, <3>3
      <3>5. ~\E l \in notes : l < k /\ slug[l] = slug[k] BY <1>1, <3>2, <3>3
      <3> QED BY <3>3, <3>4, <3>5
    <2> QED BY <2>1, <2>2
  <1>5. Planned(f, notes) BY <1>4 DEF Planned
  <1>6. Planned(P, notes) BY <1>5, PlanExists
  <1> HIDE DEF P, f
  <1>7. P \in [notes -> Stems] BY <1>6, PlansTyped
  <1>8. \A i \in notes : P[i] = slug[i] \/ P[i] = Suffixed[slug[i], i]
    BY <1>6 DEF Planned
  <1>9. ASSUME NEW i \in notes, NEW j \in notes, i < j, P[i] = P[j] PROVE FALSE
    <2>1. CASE P[j] = slug[j]
      <3>1. P[j] = Suffixed[slug[j], j] BY <1>6, <1>9, <2>1 DEF Planned
      <3> QED BY <1>1, <1>2, <2>1, <3>1
    <2>2. CASE P[j] = Suffixed[slug[j], j]
      <3>1. P[i] # slug[i] BY <1>1, <1>2, <1>9, <2>2
      <3>2. P[i] = Suffixed[slug[i], i] BY <1>8, <3>1
      <3>3. i = j BY <1>3, <1>9, <2>2, <3>2
      <3> QED BY <1>1, <1>9, <3>3
    <2> QED BY <1>8, <2>1, <2>2
  <1>10. \A i, j \in notes : P[i] = P[j] => i = j
    <2> TAKE i, j \in notes
    <2>1. i \in Nat /\ j \in Nat BY <1>1
    <2> QED BY <1>9, <2>1
  <1> QED BY <1>7, <1>8, <1>10 DEF P

Turns(todo) == {k \in 1..Len(index) : index[k] \in todo}

(* The turn goes to the first in the index that waits.                        *)
LEMMA FirstTurn ==
    ASSUME index \in Seq(Ids), NEW t, proc[t].todo \subseteq Index, proc[t].todo # {}
    PROVE  \E k \in Turns(proc[t].todo) :
              Following(t) = index[k] /\ \A l \in Turns(proc[t].todo) : k <= l
  <1> DEFINE at == Turns(proc[t].todo)
             k == CHOOSE n \in at : \A l \in at : n <= l
  <1>1. at \subseteq Nat /\ at # {} BY Indexed DEF Turns
  <1>2. \E n \in at : \A l \in at : n <= l BY <1>1, SmallestExists
  <1>3. k \in at /\ \A l \in at : k <= l BY <1>2
  <1>4. Following(t) = index[k] BY DEF Following, Turns
  <1> HIDE DEF k
  <1> QED BY <1>3, <1>4

(* The note whose turn it is waits for it.                                    *)
LEMMA FollowingTurn ==
    ASSUME index \in Seq(Ids), NEW t, proc[t].todo \subseteq Index, proc[t].todo # {}
    PROVE  Following(t) \in proc[t].todo
  BY FirstTurn DEF Turns

(* Notes added to the index do not change whose turn it is.                   *)
LEMMA FollowingKept ==
    ASSUME index \in Seq(Ids), index' \in Seq(Ids), NEW t,
           proc[t].todo \subseteq Index, proc[t].todo # {}, proc'[t].todo = proc[t].todo,
           Len(index) <= Len(index'), \A k \in 1..Len(index) : index'[k] = index[k]
    PROVE  Following(t)' = Following(t)
  <1> DEFINE todo == proc[t].todo
             at == {k \in 1..Len(index') : index'[k] \in todo}
             k == CHOOSE n \in at : \A l \in at : n <= l
  <1>1. PICK m \in Turns(todo) : Following(t) = index[m] /\ \A l \in Turns(todo) : m <= l
    BY FirstTurn
  <1>2. Len(index) \in Nat /\ Len(index') \in Nat BY LenProperties
  <1>3. m \in 1..Len(index) /\ index'[m] = index[m] /\ m \in at
    BY <1>1, <1>2 DEF Turns
  <1>4. ASSUME NEW l \in at PROVE m <= l
    <2>1. CASE l \in 1..Len(index) BY <1>1, <2>1 DEF Turns
    <2>2. CASE l \notin 1..Len(index) BY <1>2, <1>3, <2>2
    <2> QED BY <2>1, <2>2
  <1>5. k \in at /\ \A l \in at : k <= l BY <1>3, <1>4
  <1>6. Following(t)' = index'[k] BY DEF Following
  <1>7. k = m
    <2>1. k <= m /\ m <= k BY <1>3, <1>4, <1>5
    <2>2. k \in Nat /\ m \in Nat BY <1>2, <1>3, <1>5
    <2> HIDE DEF k
    <2> QED BY <2>1, <2>2
  <1> HIDE DEF k
  <1> QED BY <1>1, <1>3, <1>6, <1>7

-----------------------------------------------------------------------------
(* Types *)

\* The index only grows at its end.
IndexGrows ==
    /\ index' \in Seq(Ids) /\ Len(index) <= Len(index')
    /\ \A k \in 1..Len(index) : index'[k] = index[k]
    /\ Index \subseteq Index'

(* An index that stays has grown by nothing.                                  *)
LEMMA Same ==
    ASSUME index \in Seq(Ids), index' = index
    PROVE  IndexGrows /\ Index' = Index
  <1>1. Len(index) \in Nat BY LenProperties
  <1> QED BY <1>1 DEF IndexGrows, Index

(* Entity notes are added behind the others.                                  *)
LEMMA Joined ==
    ASSUME index \in Seq(Ids), NEW s \in Seq(Ids), index' = index \o s
    PROVE  IndexGrows
  <1>1. /\ index' \in Seq(Ids) /\ Len(index') = Len(index) + Len(s)
        /\ \A k \in 1..Len(index) : index'[k] = index[k]
        /\ Len(index) \in Nat /\ Len(s) \in Nat
    BY ConcatProperties, LenProperties
  <1>2. Index \subseteq Index'
    <2> SUFFICES ASSUME NEW i \in Index PROVE i \in Index' OBVIOUS
    <2>1. PICK k \in 1..Len(index) : index[k] = i BY Indexed
    <2>2. k \in 1..Len(index') /\ index'[k] = i BY <1>1, <2>1
    <2>3. DOMAIN index' = 1..Len(index') BY <1>1, LenProperties
    <2> QED BY <2>2, <2>3 DEF Index, ToSet
  <1> QED BY <1>1, <1>2 DEF IndexGrows

(* A note is added behind the others.                                         *)
LEMMA Appended ==
    ASSUME index \in Seq(Ids), NEW i \in Ids, index' = Append(index, i)
    PROVE  IndexGrows /\ i \in Index' /\ Index' = Index \cup {i}
  <1>1. /\ index' \in Seq(Ids) /\ Len(index') = Len(index) + 1
        /\ \A k \in 1..Len(index) : index'[k] = index[k]
        /\ index'[Len(index) + 1] = i /\ Len(index) \in Nat
    BY AppendProperties, LenProperties
  <1>2. DOMAIN index' = 1..Len(index') /\ DOMAIN index = 1..Len(index) BY <1>1, LenProperties
  <1>3. Index' = Index \cup {i} BY <1>1, <1>2 DEF Index, ToSet
  <1> QED BY <1>1, <1>3 DEF IndexGrows

(* What an extractor finds, in any order, is a sequence of notes.             *)
LEMMA AdditionsTyped ==
    ASSUME VaultAssumption, NEW i \in Ids, NEW s \in Additions(Mentions[i])
    PROVE  s \in Seq(Ids)
  <1> DEFINE new == Mentions[i] \ ToSet(index)
  <1>1. IsFiniteSet(new) /\ new \subseteq Ids
    <2>1. IsFiniteSet(Mentions[i]) /\ Mentions[i] \subseteq Ids BY DEF VaultAssumption
    <2> QED BY <2>1, FS_Subset
  <1>2. Cardinality(new) \in Nat BY <1>1, FS_CardinalityType
  <1> DEFINE n == Cardinality(new)
  <1>3. s \in [1..n -> new] BY DEF Additions
  <1> HIDE DEF n, new
  <1>4. n \in Nat /\ s \in [1..n -> Ids] BY <1>1, <1>2, <1>3 DEF n
  <1> QED BY <1>4, SeqDef

(* Waiting threads keep their types while the index grows.                    *)
LEMMA OthersTyped ==
    ASSUME proc \in [Threads -> Procs], \A u \in Threads : ThreadTyped(u),
           Index \subseteq Index', NEW t \in Threads, OthersWait(t), ThreadTyped(t)'
    PROVE  \A u \in Threads : ThreadTyped(u)'
  <1> SUFFICES ASSUME NEW u \in Threads, u # t PROVE ThreadTyped(u)' OBVIOUS
  <1>1. proc'[u] = proc[u] /\ ThreadTyped(u) BY DEF OthersWait
  <1> QED BY <1>1 DEF ThreadTyped, At, Rendering

(* A file of an indexed note, or none, is put under a name.                   *)
LEMMA FileWritten ==
    ASSUME files \in [Stems -> File \cup {None}], Present \subseteq Index, Index \subseteq Index',
           NEW st \in Stems, NEW r \in File \cup {None}, files' = [files EXCEPT ![st] = r],
           r # None => r.id \in Index' \cup {None}
    PROVE  files' \in [Stems -> File \cup {None}] /\ Present' \subseteq Index'
  BY DEF Present, Own

(* What a projection writes is a file.                                        *)
LEMMA FileTyped ==
    ASSUME NEW id \in Ids \cup {None}, NEW body \in Bodies, NEW links \in SUBSET (Ids \X Stems)
    PROVE  /\ [id |-> id, body |-> body, links |-> links] \in File
           /\ [id |-> id, body |-> body, links |-> links] # None
  BY NoneAssumption DEF File

(* What is written into files are bodies.                                     *)
LEMMA BodyTyped ==
    /\ \A i \in Ids : /\ Body(i) \in Bodies /\ Body(i).of = i /\ Body(i).text # "unheaded"
                      /\ [of |-> i, text |-> "organized"] \in Bodies
                      /\ [of |-> i, text |-> "external"] \in Bodies
    /\ \A text \in {"external", "unheaded"} : [of |-> None, text |-> text] \in Bodies
  BY DEF Body, Bodies

(* The note whose turn it is has been given a name.                           *)
LEMMA FollowingTyped ==
    ASSUME VaultTypes, VaultAssumption, NEW t \in Threads, Rendering(t), proc[t].todo # {}
    PROVE  /\ Following(t) \in proc[t].todo /\ Following(t) \in DOMAIN proc[t].stems
           /\ Following(t) \in Index /\ Following(t) \in Ids
           /\ proc[t].stems[Following(t)] \in Stems
           /\ DOMAIN proc[t].stems \subseteq Ids
  <1>1. /\ proc[t].todo \subseteq DOMAIN proc[t].stems /\ DOMAIN proc[t].stems \subseteq Index
        /\ proc[t].stems \in [DOMAIN proc[t].stems -> Stems] /\ index \in Seq(Ids)
    BY DEF VaultTypes, ThreadTyped
  <1>2. Following(t) \in proc[t].todo BY <1>1, FollowingTurn
  <1> QED BY <1>1, <1>2, Indexed

(* The body kept for a note is a body.                                        *)
LEMMA PreservedTyped ==
    ASSUME VaultTypes, VaultAssumption, NEW t \in Threads, Rendering(t), proc[t].todo # {}
    PROVE  PreservedBody(t, Following(t)) \in Bodies
  <1> DEFINE i == Following(t)
             st == proc[t].stems[i]
  <1>1. i \in Ids /\ st \in Stems BY FollowingTyped
  <1> HIDE DEF i
  <1>2. files[st] = None \/ files[st] \in File BY <1>1 DEF VaultTypes
  <1>3. ExtractBody(st) = None \/ ExtractBody(st) \in Bodies
    BY <1>2 DEF ExtractBody, File
  <1> QED BY <1>1, <1>3, BodyTyped DEF PreservedBody, i

(* Links lead to file names.                                                  *)
LEMMA WikilinksTyped ==
    ASSUME VaultTypes, VaultAssumption, NEW t \in Threads, Rendering(t), NEW i
    PROVE  Wikilinks(t, i) \in SUBSET (Ids \X Stems)
  <1>1. /\ DOMAIN proc[t].stems \subseteq Ids
        /\ proc[t].stems \in [DOMAIN proc[t].stems -> Stems]
    BY Indexed DEF VaultTypes, ThreadTyped
  <1>2. \A j \in DOMAIN proc[t].stems : <<j, proc[t].stems[j]>> \in Ids \X Stems
    BY <1>1
  <1>3. ASSUME NEW x \in Wikilinks(t, i) PROVE x \in Ids \X Stems
    <2>1. PICK j \in DOMAIN proc[t].stems : x = <<j, proc[t].stems[j]>> BY DEF Wikilinks
    <2> QED BY <1>2, <2>1
  <1> QED BY <1>3

\* What a step of a thread needs to show: its files, the index, and where it is now.
LEMMA ThreadStep ==
    ASSUME VaultTypes, IndexGrows, NEW t \in Threads,
           proc' \in [Threads -> Procs], OthersWait(t), ThreadTyped(t)',
           dead' \subseteq Index', slug' \in [Ids -> Slugs],
           files' \in [Stems -> File \cup {None}], Present' \subseteq Index',
           touches' \in Nat, crashes' \in Nat
    PROVE  VaultTypes'
  <1>1. \A u \in Threads : ThreadTyped(u)' BY OthersTyped DEF VaultTypes, IndexGrows
  <1> QED BY <1>1 DEF VaultTypes, IndexGrows

(* Files that stay keep their types while the index grows.                    *)
LEMMA FilesSame ==
    ASSUME VaultTypes, IndexGrows, files' = files
    PROVE  files' \in [Stems -> File \cup {None}] /\ Present' \subseteq Index'
  BY DEF VaultTypes, IndexGrows, Present, Own

Named == PlanFilenames(Live) \in [Live -> Stems]

(* Commit keeps the types.                                                    *)
LEMMA CommitTypes ==
    ASSUME VaultTypes, VaultAssumption, NEW i \in Ids, Commit(i)
    PROVE  VaultTypes' /\ IndexGrows /\ i \in Index' /\ Index' = Index \cup {i}
  <1>1. index \in Seq(Ids) /\ proc \in [Threads -> Procs] /\ Worker \in Threads
    BY DEF VaultTypes, Threads
  <1>2. IndexGrows /\ i \in Index' /\ Index' = Index \cup {i} BY <1>1, Appended DEF Commit
  <1>3. /\ proc' \in [Threads -> Procs] /\ OthersWait(Worker)
        /\ proc'[Worker].pc = "file" /\ proc'[Worker].note = i
    BY <1>1, Replaced, RestingTyped DEF Commit
  <1>4. ThreadTyped(Worker)' BY <1>2, <1>3 DEF ThreadTyped, At, Rendering
  <1>5. files' \in [Stems -> File \cup {None}] /\ Present' \subseteq Index'
    BY <1>2, FilesSame DEF Commit
  <1>6. VaultTypes'
    BY <1>1, <1>2, <1>3, <1>4, <1>5, ThreadStep DEF Commit, VaultTypes, bounds
  <1> QED BY <1>2, <1>6

(* ApplyPlan keeps the types, and sets the chat to project.                   *)
LEMMA ApplyPlanTypes ==
    ASSUME VaultTypes, VaultAssumption, NEW i \in Ids, ApplyPlan(i)
    PROVE  /\ VaultTypes' /\ IndexGrows /\ i \in Index' /\ Index' = Index \cup {i}
           /\ proc'[Chat].pc = "views" /\ OthersWait(Chat)
  <1>1. index \in Seq(Ids) /\ proc \in [Threads -> Procs] /\ Chat \in Threads
    BY DEF VaultTypes, Threads
  <1>2. IndexGrows /\ i \in Index' /\ Index' = Index \cup {i} BY <1>1, Appended DEF ApplyPlan
  <1>3. proc' \in [Threads -> Procs] /\ OthersWait(Chat) /\ proc'[Chat].pc = "views"
    BY <1>1, Replaced, RestingTyped DEF ApplyPlan
  <1>4. ThreadTyped(Chat)' BY <1>2, <1>3 DEF ThreadTyped, At, Rendering
  <1>5. files' \in [Stems -> File \cup {None}] /\ Present' \subseteq Index'
    BY <1>2, FilesSame DEF ApplyPlan
  <1>6. VaultTypes'
    BY <1>1, <1>2, <1>3, <1>4, <1>5, ThreadStep DEF ApplyPlan, VaultTypes, bounds
  <1> QED BY <1>2, <1>3, <1>6

\* A step after which thread t is at pc, and neither renders nor has a note in hand.
LEMMA PlainStep ==
    ASSUME VaultTypes, NEW t \in Threads, proc' \in [Threads -> Procs], OthersWait(t),
           proc'[t].pc \in {"idle", "scan", "bury", "views", "snapshot"},
           IndexGrows, dead' \subseteq Index', slug' \in [Ids -> Slugs],
           files' \in [Stems -> File \cup {None}], Present' \subseteq Index',
           touches' = touches, crashes' = crashes
    PROVE  VaultTypes'
  <1>1. ThreadTyped(t)' BY DEF ThreadTyped, At, Rendering
  <1>2. touches' \in Nat /\ crashes' \in Nat BY DEF VaultTypes
  <1> QED BY <1>1, <1>2, ThreadStep

(* The file that commit writes is one.                                        *)
LEMMA FirstFileTyped ==
    ASSUME VaultAssumption, NEW i \in Ids
    PROVE  /\ FirstFile(i) \in File /\ FirstFile(i) # None /\ FirstFile(i).id = i
           /\ FirstFile(i).body = [of |-> i, text |-> "organized"]
           /\ UniqueStem(i) \in Stems
  <1> DEFINE links == {<<j, Title[j]>> : j \in {k \in Ids : <<i, k>> \in edges}}
             r == [id |-> i, body |-> [of |-> i, text |-> "organized"], links |-> links]
  <1>1. links \in SUBSET (Ids \X Stems)
    <2>1. \A j \in Ids : <<j, Title[j]>> \in Ids \X Stems BY DEF VaultAssumption
    <2>2. ASSUME NEW x \in links PROVE x \in Ids \X Stems
      <3>1. PICK j \in Ids : x = <<j, Title[j]>> OBVIOUS
      <3> QED BY <2>1, <3>1
    <2> QED BY <2>2
  <1>2. FirstFile(i) = r BY DEF FirstFile
  <1> HIDE DEF links
  <1>3. r \in File /\ r # None BY <1>1, BodyTyped, FileTyped
  <1>4. Title[i] \in Stems /\ Suffixed[Title[i], i] \in Stems BY DEF VaultAssumption
  <1>5. UniqueStem(i) \in Stems BY <1>4 DEF UniqueStem
  <1>6. r.id = i /\ r.body = [of |-> i, text |-> "organized"] OBVIOUS
  <1> HIDE DEF r
  <1> QED BY <1>2, <1>3, <1>5, <1>6

(* A file with another body and no links is one.                              *)
LEMMA BodyChanged ==
    ASSUME NEW r \in File, NEW body \in Bodies
    PROVE  /\ [r EXCEPT !.links = {}, !.body = body] \in File
           /\ [r EXCEPT !.links = {}, !.body = body] # None
           /\ [r EXCEPT !.links = {}, !.body = body].id = r.id
           /\ [r EXCEPT !.links = {}, !.body = body].body = body
  <1>1. [r EXCEPT !.links = {}, !.body = body] \in File BY DEF File
  <1>2. /\ [r EXCEPT !.links = {}, !.body = body].id = r.id
        /\ [r EXCEPT !.links = {}, !.body = body].body = body
    BY DEF File
  <1> QED BY <1>1, <1>2, NoneAssumption

(* A part of a note's file is a file, the note's or nobody's, and has its     *)
(* body or the beginning of it or none.                                       *)
LEMMA PartTyped ==
    ASSUME NEW r \in File, r.id \in Ids, NEW part \in Parts(r)
    PROVE  /\ part \in File /\ part # None /\ part.id \in {r.id, None}
           /\ part.body.of = r.body.of \/ part.body.text = "unheaded"
           /\ part.id = None => part = Blank
  <1> DEFINE c == [r.body EXCEPT !.text = "cut"]
  <1>0. r.id # None BY VaultAssumption DEF VaultAssumption
  <1>1. Blank \in File /\ Blank.body \in Bodies /\ Blank.id = None
        /\ Blank.body.text = "unheaded"
    <2>1. Blank.body \in Bodies BY BodyTyped DEF Blank
    <2> QED BY <2>1 DEF Blank, File
  <1>2. c \in Bodies /\ c.of = r.body.of BY DEF File, Bodies
  <1>3. CASE part = Blank BY <1>1, <1>3, NoneAssumption
  <1>4. CASE part = [r EXCEPT !.links = {}, !.body = Blank.body]
    <2>1. part \in File /\ part # None /\ part.id = r.id /\ part.body = Blank.body
      BY <1>1, <1>4, BodyChanged
    <2> QED BY <1>0, <1>1, <2>1
  <1>5. CASE part = [r EXCEPT !.links = {}, !.body.text = "cut"]
    <2>1. part = [r EXCEPT !.links = {}, !.body = c] BY <1>5 DEF File
    <2> HIDE DEF c
    <2>2. part \in File /\ part # None /\ part.id = r.id /\ part.body = c
      BY <1>2, <2>1, BodyChanged
    <2> QED BY <1>0, <1>2, <2>2
  <1>6. CASE part = [r EXCEPT !.links = {}]
    <2>1. r.body \in Bodies /\ part = [r EXCEPT !.links = {}, !.body = r.body] BY <1>6 DEF File
    <2>2. part \in File /\ part # None /\ part.id = r.id /\ part.body = r.body
      BY <2>1, BodyChanged
    <2> QED BY <1>0, <2>2
  <1> QED BY <1>3, <1>4, <1>5, <1>6 DEF Parts

(* Opening the file of an indexed note keeps the directory's type.            *)
LEMMA FileOpened ==
    ASSUME VaultTypes, IndexGrows, NEW st \in Stems, NEW r \in File,
           r.id \in Index, NEW part \in Parts(r), files' = [files EXCEPT ![st] = part]
    PROVE  files' \in [Stems -> File \cup {None}] /\ Present' \subseteq Index'
  <1>1. /\ files \in [Stems -> File \cup {None}] /\ Present \subseteq Index
        /\ Index \subseteq Index' /\ Index \subseteq Ids
    BY Indexed DEF VaultTypes, IndexGrows
  <1>2. part \in File /\ part.id \in Index' \cup {None} BY <1>1, PartTyped
  <1> QED BY <1>1, <1>2, FileWritten

(* The commit opens its file, which may then be any part of what it will be.  *)
LEMMA OpenFileTypes ==
    ASSUME VaultTypes, VaultAssumption, OpenFile
    PROVE  /\ VaultTypes' /\ IndexGrows /\ Worker \in Threads /\ OthersWait(Worker)
           /\ proc'[Worker].pc = "filling" /\ proc'[Worker].note = proc[Worker].note
           /\ proc'[Worker].open = UniqueStem(proc[Worker].note)
           /\ proc[Worker].note \in Index /\ UniqueStem(proc[Worker].note) \in Stems
           /\ FirstFile(proc[Worker].note) \in File
           /\ FirstFile(proc[Worker].note).id = proc[Worker].note
           /\ \E part \in Parts(FirstFile(proc[Worker].note)) :
                 files' = [files EXCEPT ![UniqueStem(proc[Worker].note)] = part]
  <1> DEFINE i == proc[Worker].note
             st == UniqueStem(i)
             r == FirstFile(i)
  <1>1. index \in Seq(Ids) /\ proc \in [Threads -> Procs] /\ Worker \in Threads
    BY DEF VaultTypes, Threads
  <1>2. i \in Index /\ i \in Ids BY <1>1, Indexed DEF VaultTypes, ThreadTyped, OpenFile
  <1>3. r \in File /\ r.id = i /\ st \in Stems BY <1>2, FirstFileTyped
  <1>4. PICK part \in Parts(r) : files' = [files EXCEPT ![st] = part] BY DEF OpenFile
  <1>5. IndexGrows /\ Index' = Index BY <1>1, Same DEF OpenFile, truth
  <1>6. proc' = [proc EXCEPT ![Worker].open = st, ![Worker].pc = "filling"] BY DEF OpenFile
  <1>7. VaultTypes /\ truth' = truth /\ touches' = touches /\ crashes' = crashes
    BY DEF OpenFile, bounds
  <1> HIDE DEF i, r, st
  <1>8. files' \in [Stems -> File \cup {None}] /\ Present' \subseteq Index'
    BY <1>2, <1>3, <1>4, <1>5, FileOpened
  <1>9. /\ proc' \in [Threads -> Procs] /\ OthersWait(Worker) /\ proc'[Worker].pc = "filling"
        /\ proc'[Worker].open = st /\ proc'[Worker].note = proc[Worker].note
    BY <1>1, <1>3, <1>6, OpenEffect
  <1>10. ThreadTyped(Worker)' BY <1>2, <1>3, <1>5, <1>9 DEF ThreadTyped, At, Rendering, i
  <1>11. VaultTypes'
    BY <1>1, <1>5, <1>7, <1>8, <1>9, <1>10, ThreadStep DEF VaultTypes, truth
  <1> QED BY <1>1, <1>2, <1>3, <1>4, <1>5, <1>9, <1>11 DEF i, r, st

(* The commit writes the file of the note in hand.                            *)
LEMMA WriteFileTypes ==
    ASSUME VaultTypes, VaultAssumption, WriteFile
    PROVE  /\ VaultTypes' /\ IndexGrows /\ Worker \in Threads /\ OthersWait(Worker)
           /\ proc'[Worker].pc = "entities" /\ proc'[Worker].note = proc[Worker].note
           /\ proc[Worker].note \in Index /\ proc[Worker].open \in Stems
           /\ \E r \in File :
                /\ files' = [files EXCEPT ![proc[Worker].open] = r]
                /\ r.id = proc[Worker].note /\ r.body.of = r.id /\ r.body.text = "organized"
                /\ r # None
  <1> DEFINE i == proc[Worker].note
             st == proc[Worker].open
             r == FirstFile(i)
  <1>1. index \in Seq(Ids) /\ proc \in [Threads -> Procs] /\ Worker \in Threads
    BY DEF VaultTypes, Threads
  <1>2. i \in Index /\ i \in Ids /\ st \in Stems
    BY <1>1, Indexed DEF VaultTypes, ThreadTyped, WriteFile
  <1>3. r \in File /\ r.id = i /\ r # None /\ r.body.of = i /\ r.body.text = "organized"
    <2>1. r.body = [of |-> i, text |-> "organized"] BY <1>2, FirstFileTyped
    <2>2. r \in File /\ r.id = i /\ r # None BY <1>2, FirstFileTyped
    <2> HIDE DEF r, i
    <2> QED BY <2>1, <2>2
  <1>4. files' = [files EXCEPT ![st] = r] BY DEF WriteFile
  <1>5. IndexGrows /\ Index' = Index BY <1>1, Same DEF WriteFile, truth
  <1>6. /\ proc' \in [Threads -> Procs] /\ OthersWait(Worker)
        /\ proc'[Worker].pc = "entities" /\ proc'[Worker].note = i
    BY <1>1, FilledEffect DEF WriteFile
  <1>7. truth' = truth /\ touches' = touches /\ crashes' = crashes
    BY DEF WriteFile, bounds
  <1> HIDE DEF i, r, st
  <1>8. files' \in [Stems -> File \cup {None}] /\ Present' \subseteq Index'
    <2>1. /\ files \in [Stems -> File \cup {None}] /\ Present \subseteq Index
          /\ Index \subseteq Index'
      BY <1>5 DEF VaultTypes
    <2>2. r.id \in Index' BY <1>2, <1>3, <1>5
    <2> QED BY <1>2, <1>3, <1>4, <2>1, <2>2, FileWritten
  <1>9. ThreadTyped(Worker)' BY <1>2, <1>5, <1>6 DEF ThreadTyped, At, Rendering
  <1>10. VaultTypes'
    BY <1>1, <1>5, <1>6, <1>7, <1>8, <1>9, ThreadStep DEF VaultTypes, truth
  <1> QED BY <1>1, <1>2, <1>3, <1>4, <1>5, <1>6, <1>10 DEF i, st

\* A step that only brings a thread to rest.
Stops(t) ==
    /\ proc' = [proc EXCEPT ![t] = Resting]
    /\ truth' = truth /\ files' = files /\ bounds' = bounds

(* A failed write is such a step.                                             *)
LEMMA FailuresStop ==
    /\ WriteFails => Stops(Worker)
    /\ \A t \in Threads : ProjectionFails(t) => Stops(t)
  BY DEF WriteFails, ProjectionFails, Stops

(* Such a step keeps the types.                                               *)
LEMMA StopTypes ==
    ASSUME VaultTypes, NEW t \in Threads, Stops(t)
    PROVE  VaultTypes' /\ IndexGrows /\ OthersWait(t) /\ proc'[t].pc = "idle"
  <1>1. index \in Seq(Ids) /\ proc \in [Threads -> Procs]
    BY DEF VaultTypes
  <1>2. proc' \in [Threads -> Procs] /\ OthersWait(t) /\ proc'[t].pc = "idle"
    BY <1>1, Replaced, RestingTyped DEF Stops
  <1>3. IndexGrows /\ Index' = Index BY <1>1, Same DEF Stops, truth
  <1>4. files' \in [Stems -> File \cup {None}] /\ Present' \subseteq Index'
    BY <1>3, FilesSame DEF Stops
  <1> QED BY <1>1, <1>2, <1>3, <1>4, PlainStep DEF Stops, truth, bounds, VaultTypes

(* AddEntities keeps the types, and sets the worker to scan.                  *)
LEMMA AddEntitiesTypes ==
    ASSUME VaultTypes, VaultAssumption, AddEntities
    PROVE  /\ VaultTypes' /\ IndexGrows /\ Worker \in Threads /\ OthersWait(Worker)
           /\ proc'[Worker].pc = "scan"
  <1> DEFINE i == proc[Worker].note
  <1>1. index \in Seq(Ids) /\ proc \in [Threads -> Procs] /\ Worker \in Threads
    BY DEF VaultTypes, Threads
  <1>2. i \in Ids BY <1>1, Indexed DEF VaultTypes, ThreadTyped, AddEntities
  <1>3. IndexGrows
    <2>1. CASE index' = index BY <1>1, <2>1, Same
    <2>2. CASE \E added \in Additions(Mentions[i]) : index' = index \o added
      <3>1. PICK added \in Additions(Mentions[i]) : index' = index \o added BY <2>2
      <3>2. added \in Seq(Ids) BY <1>2, AdditionsTyped
      <3> QED BY <1>1, <3>1, <3>2, Joined
    <2> QED BY <2>1, <2>2 DEF AddEntities
  <1>4. proc' = [proc EXCEPT ![Worker] = Projecting(TRUE, {i})] BY DEF AddEntities
  <1>5. proc' \in [Threads -> Procs] /\ OthersWait(Worker) /\ proc'[Worker].pc = "scan"
    <2>1. {i} \in SUBSET Ids BY <1>2
    <2> HIDE DEF i
    <2>2. Projecting(TRUE, {i}) \in Procs /\ Projecting(TRUE, {i}).pc = "scan"
      BY <2>1, RestingTyped
    <2> QED BY <1>1, <1>4, <2>2, Replaced
  <1>6. files' \in [Stems -> File \cup {None}] /\ Present' \subseteq Index'
    BY <1>3, FilesSame DEF AddEntities
  <1>7. dead' \subseteq Index' BY <1>3 DEF AddEntities, VaultTypes, IndexGrows
  <1> QED BY <1>1, <1>3, <1>5, <1>6, <1>7, PlainStep DEF AddEntities, bounds, VaultTypes

(* Rerender keeps the types, and sets the worker to scan.                     *)
LEMMA RerenderTypes ==
    ASSUME VaultTypes, Rerender
    PROVE  /\ VaultTypes' /\ IndexGrows /\ Worker \in Threads /\ OthersWait(Worker)
           /\ proc'[Worker].pc = "scan"
  <1>1. index \in Seq(Ids) /\ proc \in [Threads -> Procs] /\ Worker \in Threads
    BY DEF VaultTypes, Threads
  <1>2. proc' \in [Threads -> Procs] /\ OthersWait(Worker) /\ proc'[Worker].pc = "scan"
    <2>1. Projecting(TRUE, {}) \in Procs /\ Projecting(TRUE, {}).pc = "scan"
      BY RestingTyped
    <2> QED BY <1>1, <2>1, Replaced DEF Rerender
  <1>3. IndexGrows /\ Index' = Index BY <1>1, Same DEF Rerender, truth
  <1>4. files' \in [Stems -> File \cup {None}] /\ Present' \subseteq Index'
    BY <1>3, FilesSame DEF Rerender
  <1> QED BY <1>1, <1>2, <1>3, <1>4, PlainStep DEF Rerender, truth, bounds, VaultTypes

(* Edit keeps the types, and sets the thread to project.                      *)
LEMMA EditTypes ==
    ASSUME VaultTypes, NEW t \in Threads, NEW i \in Ids, NEW title \in Slugs, NEW body,
           Edit(t, i, title, body)
    PROVE  /\ VaultTypes' /\ IndexGrows /\ OthersWait(t)
           /\ proc'[t].pc = IF t = Worker THEN "scan" ELSE "views"
  <1>1. index \in Seq(Ids) /\ proc \in [Threads -> Procs]
    BY DEF VaultTypes
  <1>2. /\ proc' \in [Threads -> Procs] /\ OthersWait(t)
        /\ proc'[t].pc = IF t = Worker THEN "scan" ELSE "views"
    <2> DEFINE r == Projecting(t = Worker, {i})
    <2>1. r \in Procs /\ r.pc = IF t = Worker THEN "scan" ELSE "views"
      <3>1. (t = Worker) \in BOOLEAN /\ {i} \in SUBSET Ids OBVIOUS
      <3> QED BY <3>1, RestingTyped
    <2>2. proc' = [proc EXCEPT ![t] = r] BY DEF Edit
    <2> HIDE DEF r
    <2> QED BY <1>1, <2>1, <2>2, Replaced
  <1>3. IndexGrows /\ Index' = Index BY <1>1, Same DEF Edit
  <1>4. files' \in [Stems -> File \cup {None}] /\ Present' \subseteq Index'
    BY <1>3, FilesSame DEF Edit
  <1>5. slug' \in [Ids -> Slugs] /\ dead' \subseteq Index'
    BY <1>3 DEF Edit, VaultTypes
  <1> QED BY <1>1, <1>2, <1>3, <1>4, <1>5, PlainStep DEF Edit

(* Current notes are indexed.                                                 *)
LEMMA LiveTyped == VaultTypes => Live \subseteq Index /\ Live \subseteq Ids
  BY Indexed DEF VaultTypes, Live, Index

(* Scan keeps the types.                                                      *)
LEMMA ScanTypes ==
    ASSUME VaultTypes, NEW t \in Threads, Scan(t)
    PROVE  /\ VaultTypes' /\ IndexGrows /\ OthersWait(t)
           /\ proc'[t].pc = "bury" /\ proc'[t].present = Present
  <1>1. index \in Seq(Ids) /\ proc \in [Threads -> Procs] /\ Present \subseteq Ids
    BY Indexed DEF VaultTypes
  <1>2. /\ proc' \in [Threads -> Procs] /\ OthersWait(t)
        /\ proc'[t].pc = "bury" /\ proc'[t].present = Present
    BY <1>1, ScanEffect
  <1>3. IndexGrows /\ Index' = Index BY <1>1, Same DEF Scan, truth
  <1>4. files' \in [Stems -> File \cup {None}] /\ Present' \subseteq Index'
    BY <1>3, FilesSame DEF Scan
  <1> QED BY <1>1, <1>2, <1>3, <1>4, PlainStep DEF Scan, truth, bounds, VaultTypes

(* Bury keeps the types.                                                      *)
LEMMA BuryTypes ==
    ASSUME VaultTypes, NEW t \in Threads, Bury(t)
    PROVE  VaultTypes' /\ IndexGrows /\ OthersWait(t) /\ proc'[t].pc = "views"
  <1>1. index \in Seq(Ids) /\ proc \in [Threads -> Procs] /\ Live \subseteq Index
    BY LiveTyped DEF VaultTypes
  <1>2. proc' \in [Threads -> Procs] /\ OthersWait(t) /\ proc'[t].pc = "views"
    BY <1>1, MoveEffect DEF Bury
  <1>3. IndexGrows /\ Index' = Index BY <1>1, Same DEF Bury
  <1>4. files' \in [Stems -> File \cup {None}] /\ Present' \subseteq Index'
    BY <1>3, FilesSame DEF Bury
  <1>5. dead' \subseteq Index' BY <1>1, <1>3 DEF Bury, Missing, VaultTypes
  <1> QED BY <1>1, <1>2, <1>3, <1>4, <1>5, PlainStep DEF Bury, bounds, VaultTypes

(* WriteViews keeps the types.                                                *)
LEMMA WriteViewsTypes ==
    ASSUME VaultTypes, NEW t \in Threads, WriteViews(t)
    PROVE  VaultTypes' /\ IndexGrows /\ OthersWait(t) /\ proc'[t].pc = "snapshot"
  <1>1. index \in Seq(Ids) /\ proc \in [Threads -> Procs]
    BY DEF VaultTypes
  <1>2. proc' \in [Threads -> Procs] /\ OthersWait(t) /\ proc'[t].pc = "snapshot"
    BY <1>1, MoveEffect DEF WriteViews
  <1>3. IndexGrows /\ Index' = Index BY <1>1, Same DEF WriteViews, truth
  <1>4. files' \in [Stems -> File \cup {None}] /\ Present' \subseteq Index'
    BY <1>3, FilesSame DEF WriteViews
  <1> QED BY <1>1, <1>2, <1>3, <1>4, PlainStep DEF WriteViews, truth, bounds, VaultTypes

(* Snapshot keeps the types, if the names it plans are names.                 *)
LEMMA SnapshotTypes ==
    ASSUME VaultTypes, Named, NEW t \in Threads, Snapshot(t)
    PROVE  /\ VaultTypes' /\ IndexGrows /\ OthersWait(t)
           /\ proc'[t].pc = "read" /\ proc'[t].todo = Live
           /\ proc'[t].stems = PlanFilenames(Live)
  <1>1. index \in Seq(Ids) /\ proc \in [Threads -> Procs] /\ Live \subseteq Index
        /\ Live \subseteq Ids
    BY LiveTyped DEF VaultTypes
  <1>2. /\ proc' \in [Threads -> Procs] /\ OthersWait(t)
        /\ proc'[t].pc = "read" /\ proc'[t].todo = Live
        /\ proc'[t].stems = PlanFilenames(Live)
    BY <1>1, SnapshotEffect DEF Named
  <1>3. IndexGrows /\ Index' = Index BY <1>1, Same DEF Snapshot, truth
  <1>4. files' \in [Stems -> File \cup {None}] /\ Present' \subseteq Index'
    BY <1>3, FilesSame DEF Snapshot
  <1>5. ThreadTyped(t)'
    <2>1. DOMAIN proc'[t].stems = Live /\ proc'[t].stems \in [Live -> Stems]
      BY <1>2 DEF Named
    <2> QED BY <1>1, <1>2, <1>3, <2>1 DEF ThreadTyped, At, Rendering
  <1>6. VaultTypes'
    BY <1>1, <1>2, <1>3, <1>4, <1>5, ThreadStep DEF Snapshot, truth, bounds, VaultTypes
  <1> QED BY <1>2, <1>3, <1>6

(* ReadBody keeps the types.                                                  *)
LEMMA ReadTypes ==
    ASSUME VaultTypes, VaultAssumption, NEW t \in Threads, ReadBody(t)
    PROVE  /\ VaultTypes' /\ IndexGrows /\ OthersWait(t)
           /\ proc'[t].pc = "put" /\ proc'[t].body = PreservedBody(t, Following(t))
           /\ proc'[t].todo = proc[t].todo /\ proc'[t].stems = proc[t].stems
           /\ Rendering(t) /\ proc[t].todo # {}
  <1>1. index \in Seq(Ids) /\ proc \in [Threads -> Procs] /\ ThreadTyped(t)
    BY DEF VaultTypes
  <1>2. Rendering(t) /\ proc[t].todo # {} BY DEF ReadBody, At, Rendering
  <1>3. PreservedBody(t, Following(t)) \in Bodies BY <1>2, PreservedTyped
  <1>4. /\ proc' \in [Threads -> Procs] /\ OthersWait(t)
        /\ proc'[t].pc = "put" /\ proc'[t].body = PreservedBody(t, Following(t))
        /\ proc'[t].todo = proc[t].todo /\ proc'[t].stems = proc[t].stems
    BY <1>1, <1>3, ReadEffect
  <1>5. IndexGrows /\ Index' = Index BY <1>1, Same DEF ReadBody, truth
  <1>6. files' \in [Stems -> File \cup {None}] /\ Present' \subseteq Index'
    BY <1>5, FilesSame DEF ReadBody
  <1>7. ThreadTyped(t)'
    BY <1>1, <1>2, <1>3, <1>4, <1>5 DEF ThreadTyped, At, Rendering
  <1>8. VaultTypes'
    BY <1>1, <1>4, <1>5, <1>6, <1>7, ThreadStep DEF ReadBody, truth, bounds, VaultTypes
  <1> QED BY <1>2, <1>4, <1>5, <1>8

(* The file a projection writes is that of the note whose turn it is.         *)
LEMMA NoteFileTyped ==
    ASSUME VaultTypes, VaultAssumption, NEW t \in Threads, At(t, "put") \/ At(t, "writing")
    PROVE  /\ Rendering(t) /\ proc[t].todo # {}
           /\ NoteFile(t) \in File /\ NoteFile(t) # None
           /\ NoteFile(t).id = Following(t) /\ NoteFile(t).body = proc[t].body
           /\ NoteFile(t).links = Wikilinks(t, Following(t))
           /\ Following(t) \in Index /\ Following(t) \in Ids /\ NoteStem(t) \in Stems
  <1> DEFINE i == Following(t)
             links == Wikilinks(t, i)
             r == [id |-> i, body |-> proc[t].body, links |-> links]
  <1>1. ThreadTyped(t) BY DEF VaultTypes
  <1>2. Rendering(t) /\ proc[t].todo # {} /\ proc[t].body \in Bodies
    BY <1>1 DEF At, Rendering, ThreadTyped
  <1>3. i \in Index /\ i \in Ids /\ NoteStem(t) \in Stems
    BY <1>2, FollowingTyped DEF NoteStem
  <1>4. links \in SUBSET (Ids \X Stems) BY <1>2, WikilinksTyped
  <1>5. NoteFile(t) = r BY DEF NoteFile
  <1> HIDE DEF i, links
  <1>6. r \in File /\ r # None BY <1>2, <1>3, <1>4, FileTyped
  <1> QED BY <1>2, <1>3, <1>5, <1>6 DEF i, links

(* Going on to the next note keeps the types.                                 *)
LEMMA NextTypes ==
    ASSUME VaultTypes, VaultAssumption, NEW t \in Threads, Rendering(t), NextNote(t),
           truth' = truth, bounds' = bounds,
           files' \in [Stems -> File \cup {None}], Present' \subseteq Index
    PROVE  /\ VaultTypes' /\ IndexGrows /\ OthersWait(t)
           /\ proc'[t].pc = "read" /\ proc'[t].stems = proc[t].stems
           /\ proc'[t].todo = proc[t].todo \ {Following(t)}
  <1>1. index \in Seq(Ids) /\ proc \in [Threads -> Procs] /\ ThreadTyped(t)
    BY DEF VaultTypes
  <1>2. /\ proc' \in [Threads -> Procs] /\ OthersWait(t)
        /\ proc'[t].pc = "read" /\ proc'[t].stems = proc[t].stems
        /\ proc'[t].todo = proc[t].todo \ {Following(t)}
    BY <1>1, NextEffect
  <1>3. IndexGrows /\ Index' = Index BY <1>1, Same DEF truth
  <1>4. ThreadTyped(t)'
    BY <1>1, <1>2, <1>3 DEF ThreadTyped, At, Rendering
  <1>5. VaultTypes'
    BY <1>1, <1>2, <1>3, <1>4, ThreadStep DEF truth, bounds, VaultTypes
  <1> QED BY <1>2, <1>3, <1>5

(* A file that is as it should be is left alone.                              *)
LEMMA KeepTypes ==
    ASSUME VaultTypes, VaultAssumption, NEW t \in Threads, KeepNote(t)
    PROVE  /\ VaultTypes' /\ IndexGrows /\ OthersWait(t)
           /\ proc'[t].pc = "read" /\ proc'[t].stems = proc[t].stems
           /\ proc'[t].todo = proc[t].todo \ {Following(t)}
           /\ Rendering(t) /\ proc[t].todo # {} /\ files[NoteStem(t)] = NoteFile(t)
  <1>1. Rendering(t) /\ proc[t].todo # {} BY NoteFileTyped DEF KeepNote
  <1>2. /\ NextNote(t) /\ truth' = truth /\ bounds' = bounds /\ files' = files
        /\ files[NoteStem(t)] = NoteFile(t)
    BY DEF KeepNote
  <1>3. files' \in [Stems -> File \cup {None}] /\ Present' \subseteq Index
    BY <1>2 DEF VaultTypes, Present, Own
  <1> QED BY <1>1, <1>2, <1>3, NextTypes

(* A projection opens the file of the note whose turn it is.                  *)
LEMMA OpenNoteTypes ==
    ASSUME VaultTypes, VaultAssumption, NEW t \in Threads, OpenNote(t)
    PROVE  /\ VaultTypes' /\ IndexGrows /\ OthersWait(t)
           /\ proc'[t].pc = "writing" /\ proc'[t].open = NoteStem(t)
           /\ proc'[t].stems = proc[t].stems /\ proc'[t].todo = proc[t].todo
           /\ proc'[t].body = proc[t].body
           /\ Rendering(t) /\ proc[t].todo # {}
           /\ \E part \in Parts(NoteFile(t)) : files' = [files EXCEPT ![NoteStem(t)] = part]
  <1>1. index \in Seq(Ids) /\ proc \in [Threads -> Procs] /\ ThreadTyped(t)
    BY DEF VaultTypes
  <1>2. /\ Rendering(t) /\ proc[t].todo # {} /\ proc[t].body \in Bodies
        /\ NoteFile(t) \in File /\ NoteFile(t).id \in Index /\ NoteStem(t) \in Stems
    BY <1>1, NoteFileTyped DEF OpenNote, ThreadTyped
  <1>3. PICK part \in Parts(NoteFile(t)) : files' = [files EXCEPT ![NoteStem(t)] = part]
    BY DEF OpenNote
  <1>4. IndexGrows /\ Index' = Index BY <1>1, Same DEF OpenNote, truth
  <1>5. files' \in [Stems -> File \cup {None}] /\ Present' \subseteq Index'
    BY <1>2, <1>3, <1>4, FileOpened
  <1>6. /\ proc' \in [Threads -> Procs] /\ OthersWait(t)
        /\ proc'[t].pc = "writing" /\ proc'[t].open = NoteStem(t)
        /\ proc'[t].stems = proc[t].stems /\ proc'[t].todo = proc[t].todo
        /\ proc'[t].body = proc[t].body
    BY <1>1, <1>2, OpenEffect DEF OpenNote
  <1>7. ThreadTyped(t)'
    BY <1>1, <1>2, <1>4, <1>6 DEF ThreadTyped, At, Rendering
  <1>8. VaultTypes'
    BY <1>1, <1>4, <1>5, <1>6, <1>7, ThreadStep DEF OpenNote, truth, bounds, VaultTypes
  <1> QED BY <1>2, <1>3, <1>4, <1>6, <1>8

(* PutNote writes the file of the note whose turn it is.                      *)
LEMMA PutTypes ==
    ASSUME VaultTypes, VaultAssumption, NEW t \in Threads, PutNote(t)
    PROVE  /\ VaultTypes' /\ IndexGrows /\ OthersWait(t)
           /\ proc'[t].pc = "read" /\ proc'[t].stems = proc[t].stems
           /\ proc'[t].todo = proc[t].todo \ {Following(t)}
           /\ Rendering(t) /\ proc[t].todo # {} /\ proc[t].open \in Stems
           /\ files' = [files EXCEPT ![proc[t].open] = NoteFile(t)]
  <1>1. /\ Rendering(t) /\ proc[t].todo # {} /\ NoteFile(t) \in File
        /\ NoteFile(t).id \in Index /\ proc[t].open \in Stems
    BY NoteFileTyped DEF PutNote, VaultTypes, ThreadTyped
  <1>2. /\ NextNote(t) /\ truth' = truth /\ bounds' = bounds
        /\ files' = [files EXCEPT ![proc[t].open] = NoteFile(t)]
    BY DEF PutNote
  <1>3. files' \in [Stems -> File \cup {None}] /\ Present' \subseteq Index
    <2>1. index \in Seq(Ids) /\ files \in [Stems -> File \cup {None}] /\ Present \subseteq Index
      BY DEF VaultTypes
    <2>2. Index' = Index BY <1>2, <2>1, Same DEF truth
    <2> QED BY <1>1, <1>2, <2>1, <2>2, FileWritten
  <1> QED BY <1>1, <1>2, <1>3, NextTypes

(* Sweep keeps the types.                                                     *)
LEMMA SweepTypes ==
    ASSUME VaultTypes, NEW t \in Threads, Sweep(t)
    PROVE  VaultTypes' /\ IndexGrows /\ OthersWait(t) /\ proc'[t].pc = "idle"
  <1>1. index \in Seq(Ids) /\ proc \in [Threads -> Procs]
    BY DEF VaultTypes
  <1>2. proc' \in [Threads -> Procs] /\ OthersWait(t) /\ proc'[t].pc = "idle"
    BY <1>1, Replaced, RestingTyped DEF Sweep
  <1>3. IndexGrows /\ Index' = Index BY <1>1, Same DEF Sweep, truth
  <1>4. files' \in [Stems -> File \cup {None}] /\ Present' \subseteq Index'
    BY <1>3 DEF Sweep, Present, Own, VaultTypes
  <1> QED BY <1>1, <1>2, <1>3, <1>4, PlainStep DEF Sweep, truth, bounds, VaultTypes

\* What a user's step or a crash needs to show.
LEMMA RestStep ==
    ASSUME VaultTypes, truth' = truth,
           proc' = proc \/ proc' = [t \in Threads |-> Resting],
           files' \in [Stems -> File \cup {None}], Present' \subseteq Index,
           touches' \in Nat, crashes' \in Nat
    PROVE  VaultTypes' /\ IndexGrows /\ Index' = Index
  <1>1. index \in Seq(Ids) /\ index' = index /\ slug' = slug /\ dead' = dead
    BY DEF VaultTypes, truth
  <1>2. IndexGrows /\ Index' = Index BY <1>1, Same
  <1>3. proc' \in [Threads -> Procs]
    <2>1. CASE proc' = proc BY <2>1 DEF VaultTypes
    <2>2. CASE proc' = [t \in Threads |-> Resting] BY <2>2, RestingTyped
    <2> QED BY <2>1, <2>2
  <1>4. \A t \in Threads : ThreadTyped(t)'
    <2>1. CASE proc' = proc BY <1>2, <2>1 DEF VaultTypes, ThreadTyped, At, Rendering
    <2>2. CASE proc' = [t \in Threads |-> Resting]
      BY <2>2, RestingTyped DEF ThreadTyped, At, Rendering
    <2> QED BY <2>1, <2>2
  <1> QED BY <1>1, <1>2, <1>3, <1>4 DEF VaultTypes

(* The user keeps the types, and leaves the index and the threads alone.      *)
LEMMA UserTypes ==
    ASSUME VaultTypes, VaultAssumption, User
    PROVE  VaultTypes' /\ IndexGrows /\ Index' = Index /\ touches' = touches + 1
           /\ proc' = proc /\ truth' = truth /\ fresh' = FALSE
  <1>1. touches' = touches + 1 /\ proc' = proc /\ truth' = truth /\ fresh' = FALSE
        /\ crashes' = crashes
    BY DEF User, UserEdits, UserDeletes, UserAdds, Touch
  <1>2. files \in [Stems -> File \cup {None}] /\ Present \subseteq Index /\ Index \subseteq Ids
    BY Indexed DEF VaultTypes
  <1>3. files' \in [Stems -> File \cup {None}] /\ Present' \subseteq Index
    <2>1. ASSUME NEW st \in Stems, UserEdits(st)
          PROVE  files' \in [Stems -> File \cup {None}] /\ Present' \subseteq Index
      <3> DEFINE b == [of |-> files[st].id, text |-> "external"]
                 r == [files[st] EXCEPT !.body = b]
      <3>1. files[st] \in File /\ files[st].id \in Index /\ files[st].id \in Ids
        BY <1>2, <2>1 DEF UserEdits, Present, Own, File
      <3>2. b \in Bodies BY <3>1, BodyTyped
      <3>3. files' = [files EXCEPT ![st] = r] BY <2>1 DEF UserEdits
      <3> HIDE DEF b
      <3>4. r \in File /\ r.id \in Index BY <3>1, <3>2 DEF File
      <3> HIDE DEF r
      <3> QED BY <1>2, <3>3, <3>4 DEF Present, Own
    <2>2. ASSUME NEW st \in Stems, UserDeletes(st)
          PROVE  files' \in [Stems -> File \cup {None}] /\ Present' \subseteq Index
      BY <1>2, <2>2 DEF UserDeletes, Present, Own
    <2>3. ASSUME NEW st \in Slugs, NEW text \in {"external", "unheaded"}, UserAdds(st, text)
          PROVE  files' \in [Stems -> File \cup {None}] /\ Present' \subseteq Index
      <3> DEFINE r == [id |-> None, body |-> [of |-> None, text |-> text], links |-> {}]
      <3>1. r \in File /\ r.id = None BY BodyTyped, FileTyped
      <3>2. files' = [files EXCEPT ![st] = r] BY <2>3 DEF UserAdds
      <3> HIDE DEF r
      <3> QED BY <1>2, <3>1, <3>2 DEF Present, Own
    <2> QED BY <2>1, <2>2, <2>3 DEF User
  <1>4. touches' \in Nat /\ crashes' \in Nat BY <1>1 DEF VaultTypes
  <1> QED BY <1>1, <1>3, <1>4, RestStep

(* A crash keeps the types, and brings every thread to rest.                  *)
LEMMA CrashTypes ==
    ASSUME VaultTypes, Crash
    PROVE  VaultTypes' /\ IndexGrows /\ Index' = Index
           /\ crashes' = crashes + 1 /\ truth' = truth
           /\ \A t \in Threads : proc'[t].pc = "idle"
  <1>1. files' \in [Stems -> File \cup {None}] /\ Present' \subseteq Index
        /\ touches' \in Nat /\ crashes' \in Nat /\ truth' = truth
        /\ proc' = [t \in Threads |-> Resting] /\ crashes' = crashes + 1
    BY DEF Crash, VaultTypes, Present, Own
  <1> QED BY <1>1, RestStep, RestingTyped

-----------------------------------------------------------------------------
(* In the calm setting *)

\* No title collides or changed, and the user keeps no files of their own.
Untitled ==
    /\ slug = Title /\ placed = {} /\ Index \subseteq Distinct /\ external \subseteq Index

\* A file is under its note's title, unless the note was torn, with a body of that note or with
\* none; a file of nobody's is the blank remainder of some note's.
InPlace == \A st \in Own :
    /\ files[st].id = None => /\ files[st] = Blank
                              /\ st \in Slugs => \E i \in Index : st = Title[i]
    /\ files[st].id # None =>
          /\ files[st].id \in Index
          /\ st = Title[files[st].id] \/ (files[st].id \in torn /\ st \notin Slugs)
          /\ files[st].body.of = files[st].id \/ files[st].body.text = "unheaded"

\* A blank file is being written, or its note is torn.
Attended == \A i \in Index \ torn :
    files[Title[i]] = Blank => \E t \in Threads : i \in Writing(t)

\* What a thread holds is for the note it will write, and the user's text if there is one.
HoldsItsOwn(t) ==
    /\ Rendering(t) => \A i \in DOMAIN proc[t].stems : proc[t].stems[i] = Title[i]
    /\ At(t, "put") \/ At(t, "writing") =>
          /\ proc[t].body.of = Following(t) /\ proc[t].body.text # "unheaded"
          /\ Following(t) \in external \ torn => proc[t].body.text = "external"
    /\ At(t, "writing") => proc[t].open = Title[Following(t)]
    /\ At(t, "filling") => \/ proc[t].open = Title[proc[t].note]
                           \/ proc[t].note \in torn /\ proc[t].open \notin Slugs
    /\ At(t, "file") \/ At(t, "filling") => proc[t].note \notin external

CalmInv ==
    /\ Untitled /\ InPlace /\ Attended /\ UntornBodyKept
    /\ \A t \in Threads : HoldsItsOwn(t)

(* A blank file is one, and nobody's.                                         *)
LEMMA BlankTyped == Blank \in File /\ Blank # None /\ Blank.id = None
  <1>1. Blank.body \in Bodies BY BodyTyped DEF Blank
  <1> QED BY <1>1, NoneAssumption DEF Blank, File

(* Notes of one title are one note.                                           *)
LEMMA TitlesApart ==
    ASSUME Untitled, NEW i \in Index, NEW j \in Index, Title[i] = Title[j]
    PROVE  i = j
  BY DistinctAssumption DEF Untitled

(* The title of a note is a clean name.                                       *)
LEMMA TitleTyped ==
    ASSUME VaultAssumption, NEW i \in Ids
    PROVE  Title[i] \in Slugs /\ Title[i] \in Stems
  BY DEF VaultAssumption

(* A plan gives every note its title.                                         *)
LEMMA CalmNamed ==
    ASSUME VaultTypes, VaultAssumption, Untitled
    PROVE  Named /\ \A i \in Live : PlanFilenames(Live)[i] = Title[i]
  <1>1. Live \subseteq Index /\ Live \subseteq Ids BY LiveTyped
  <1>2. Distinctive(Live) BY <1>1, TitlesApart DEF Distinctive, Untitled
  <1>3. slug \in [Ids -> Slugs] BY DEF VaultTypes
  <1> QED BY <1>1, <1>2, <1>3, CleanNames DEF Named, Untitled

(* A waiting thread is at its note.                                           *)
LEMMA OthersFollow ==
    ASSUME VaultTypes, IndexGrows, NEW t \in Threads, OthersWait(t),
           NEW u \in Threads, u # t, At(u, "put") \/ At(u, "writing")
    PROVE  Following(u)' = Following(u)
  <1>1. proc'[u] = proc[u] /\ ThreadTyped(u) BY DEF OthersWait, VaultTypes
  <1>2. proc[u].todo \subseteq Index /\ proc[u].todo # {} /\ index \in Seq(Ids)
    BY <1>1 DEF ThreadTyped, Rendering, At, VaultTypes
  <1> QED BY <1>1, <1>2, FollowingKept DEF IndexGrows

(* A waiting thread still holds what is its note's own.                       *)
LEMMA OthersHold ==
    ASSUME VaultTypes, CalmInv, IndexGrows, external' = external, torn \subseteq torn',
           NEW t \in Threads, OthersWait(t), HoldsItsOwn(t)'
    PROVE  \A u \in Threads : HoldsItsOwn(u)'
  <1> SUFFICES ASSUME NEW u \in Threads, u # t PROVE HoldsItsOwn(u)' OBVIOUS
  <1>1. proc'[u] = proc[u] /\ HoldsItsOwn(u)
    BY DEF OthersWait, CalmInv
  <1>2. CASE At(u, "put") \/ At(u, "writing")
    <2>1. Following(u)' = Following(u) BY <1>2, OthersFollow
    <2> QED BY <1>1, <2>1 DEF HoldsItsOwn, Rendering, At
  <1>3. CASE ~(At(u, "put") \/ At(u, "writing"))
    BY <1>1, <1>3 DEF HoldsItsOwn, Rendering, At
  <1> QED BY <1>2, <1>3

(* A waiting thread still writes what it wrote.                               *)
LEMMA OthersWrite ==
    ASSUME VaultTypes, IndexGrows, NEW t \in Threads, OthersWait(t),
           NEW u \in Threads, u # t
    PROVE  Writing(u)' = Writing(u)
  <1>1. proc'[u] = proc[u] BY DEF OthersWait
  <1>2. At(u, "writing") => Following(u)' = Following(u) BY OthersFollow
  <1> QED BY <1>1, <1>2 DEF Writing, At

(* A text in the hand of another thread stays in it.                          *)
LEMMA HandsKept ==
    ASSUME VaultTypes, IndexGrows, NEW t \in Threads, OthersWait(t),
           NEW i, InHand(i), i \notin Writing(t)
    PROVE  InHand(i)'
  <1>1. PICK u \in Threads : At(u, "writing") /\ Following(u) = i /\ proc[u].body = Extern(i)
    BY DEF InHand
  <1>2. u # t BY <1>1 DEF Writing, At
  <1>3. proc'[u] = proc[u] BY <1>2 DEF OthersWait
  <1>4. Following(u)' = i BY <1>1, <1>2, OthersFollow
  <1> QED BY <1>1, <1>3, <1>4 DEF InHand, At, Extern

(* Files that stay are in place, if t writes none or its note counts as torn. *)
LEMMA FilesStay ==
    ASSUME VaultTypes, VaultAssumption, CalmInv, IndexGrows, Index' \subseteq Distinct,
           files' = files, external' = external, NEW t \in Threads, OthersWait(t),
           torn \subseteq torn', Writing(t) \subseteq torn'
    PROVE  InPlace' /\ Attended' /\ UntornBodyKept'
  <1>1. Own' = Own /\ Index \subseteq Index' BY DEF Own, IndexGrows
  <1>2. InPlace' BY <1>1 DEF CalmInv, InPlace
  <1>3. ASSUME NEW i \in Index' \ torn', files'[Title[i]] = Blank
        PROVE  \E u \in Threads : i \in Writing(u)'
    <2>1. i \in Distinct /\ i \in Ids BY DistinctAssumption
    <2>2. Title[i] \in Slugs /\ Title[i] \in Own
      BY <1>3, <2>1, TitleTyped, BlankTyped DEF Own
    <2>3. PICK k \in Index : Title[i] = Title[k]
      BY <1>3, <2>2, BlankTyped DEF CalmInv, InPlace
    <2>4. i = k BY <2>1, <2>3, DistinctAssumption DEF CalmInv, Untitled
    <2>5. PICK u \in Threads : i \in Writing(u) BY <1>3, <2>3, <2>4 DEF CalmInv, Attended
    <2>6. u # t BY <1>3, <2>5
    <2> QED BY <2>5, <2>6, OthersWrite
  <1>4. ASSUME NEW i \in external' \ torn' PROVE InFile(i)' \/ InHand(i)'
    <2>1. InFile(i) \/ InHand(i) BY <1>4 DEF CalmInv, UntornBodyKept
    <2>2. InFile(i) => InFile(i)' BY <1>1 DEF InFile, Extern
    <2>3. InHand(i) => InHand(i)' BY <1>4, HandsKept
    <2> QED BY <2>1, <2>2, <2>3
  <1> QED BY <1>2, <1>3, <1>4 DEF Attended, UntornBodyKept

(* The file of a note that t opens or writes: it is put in place, blank only  *)
(* while t writes it, with the user's text or with t holding that.            *)
LEMMA FileReplaced ==
    ASSUME VaultTypes, VaultAssumption, CalmInv, IndexGrows, Index' = Index,
           external' = external, torn \subseteq torn', NEW t \in Threads, OthersWait(t),
           NEW i \in Index, NEW st \in Stems,
           st = Title[i] \/ (i \in torn' /\ st \notin Slugs),
           NEW r \in File, r # None, files' = [files EXCEPT ![st] = r],
           r.id \in {i, None}, r.id = None => r = Blank,
           r.body.of = i \/ r.body.text = "unheaded",
           r = Blank => i \in Writing(t)' \cup torn',
           i \in external \ torn' => InHand(i)' \/ (r.id = i /\ r.body = Extern(i)),
           Writing(t) \subseteq {i}
    PROVE  InPlace' /\ Attended' /\ UntornBodyKept'
  <1>1. DOMAIN files = Stems /\ Index \subseteq Ids BY Indexed DEF VaultTypes
  <1>2. InPlace'
    <2> SUFFICES ASSUME NEW s \in Own'
                 PROVE  /\ files'[s].id = None =>
                              /\ files'[s] = Blank
                              /\ s \in Slugs => \E k \in Index : s = Title[k]
                        /\ files'[s].id # None =>
                              /\ files'[s].id \in Index
                              /\ \/ s = Title[files'[s].id]
                                 \/ files'[s].id \in torn' /\ s \notin Slugs
                              /\ \/ files'[s].body.of = files'[s].id
                                 \/ files'[s].body.text = "unheaded"
      BY DEF InPlace
    <2>1. CASE s = st
      <3>1. files'[s] = r BY <1>1, <2>1
      <3> QED BY <2>1, <3>1
    <2>2. CASE s # st
      <3>1. s \in Stems /\ files'[s] = files[s] /\ s \in Own BY <1>1, <2>2 DEF Own
      <3> QED BY <3>1 DEF CalmInv, InPlace
    <2> QED BY <2>1, <2>2
  <1>3. ASSUME NEW j \in Index' \ torn', files'[Title[j]] = Blank
        PROVE  \E u \in Threads : j \in Writing(u)'
    <2>1. Title[j] \in Slugs /\ Title[j] \in Stems BY <1>1, TitleTyped
    <2>2. CASE Title[j] = st
      <3>1. j = i BY <2>1, <2>2, TitlesApart DEF CalmInv
      <3>2. r = Blank BY <1>1, <1>3, <2>2
      <3> QED BY <3>1, <3>2
    <2>3. CASE Title[j] # st
      <3>1. files[Title[j]] = Blank BY <1>1, <1>3, <2>1, <2>3
      <3>2. PICK u \in Threads : j \in Writing(u) BY <3>1 DEF CalmInv, Attended
      <3>3. u # t BY <2>3, <3>2
      <3> QED BY <3>2, <3>3, OthersWrite
    <2> QED BY <2>2, <2>3
  <1>4. ASSUME NEW j \in external' \ torn' PROVE InFile(j)' \/ InHand(j)'
    <2>1. CASE j = i
      <3>1. files'[st] = r BY <1>1
      <3>2. r.id = i /\ r.body = Extern(i) => InFile(i)' BY <3>1 DEF InFile, Own, Extern
      <3> QED BY <2>1, <3>2
    <2>2. CASE j # i
      <3>1. j \in Index /\ j \in external \ torn BY DEF CalmInv, Untitled
      <3>2. CASE InFile(j)
        <4>1. PICK s \in Own : files[s].id = j /\ files[s].body = Extern(j) BY <3>2 DEF InFile
        <4>2. s = Title[j] /\ j \in Ids BY <1>1, <3>1, <4>1, NoneAssumption, VaultAssumption
                                        DEF CalmInv, InPlace, VaultAssumption
        <4>3. s # st
          <5>1. Title[j] \in Slugs BY <4>2, TitleTyped
          <5>2. Title[j] # Title[i] BY <2>2, <3>1, TitlesApart DEF CalmInv
          <5> QED BY <4>2, <5>1, <5>2
        <4>4. files'[s] = files[s] /\ s \in Own' BY <1>1, <4>1, <4>3 DEF Own
        <4> QED BY <4>1, <4>4 DEF InFile, Extern
      <3>3. CASE InHand(j) BY <2>2, <3>3, HandsKept
      <3> QED BY <3>1, <3>2, <3>3 DEF CalmInv, UntornBodyKept
    <2> QED BY <2>1, <2>2
  <1> QED BY <1>2, <1>3, <1>4 DEF Attended, UntornBodyKept

\* A step that leaves the files alone, after which t holds no body and writes no file.
LEMMA CalmPlain ==
    ASSUME VaultTypes, VaultAssumption, CalmInv, IndexGrows, external' = external,
           files' = files, slug' = slug, placed' = placed, Index' \subseteq Distinct,
           NEW t \in Threads, OthersWait(t), torn \subseteq torn', Writing(t) \subseteq torn',
           proc'[t].pc \in {"idle", "entities", "scan", "bury", "views", "snapshot"}
    PROVE  CalmInv'
  <1>1. HoldsItsOwn(t)' BY DEF HoldsItsOwn, Rendering, At
  <1>2. \A u \in Threads : HoldsItsOwn(u)' BY <1>1, OthersHold
  <1>3. InPlace' /\ Attended' /\ UntornBodyKept' BY FilesStay
  <1>4. Untitled' BY DEF CalmInv, Untitled, IndexGrows
  <1> QED BY <1>2, <1>3, <1>4 DEF CalmInv

(* A commit keeps the files, and takes up a note the user never saw.          *)
LEMMA CalmCommit ==
    ASSUME VaultTypes, VaultAssumption, CalmInv, Undisturbed, NEW i \in Ids, Commit(i)
    PROVE  CalmInv'
  <1>1. VaultTypes' /\ IndexGrows BY CommitTypes
  <1>2. Worker \in Threads /\ proc \in [Threads -> Procs] BY DEF Threads, VaultTypes
  <1>3. OthersWait(Worker) /\ proc'[Worker].pc = "file" /\ proc'[Worker].note = i
    BY <1>2, Replaced, RestingTyped DEF Commit
  <1>4. i \notin external BY DEF CalmInv, Untitled, Commit, Index
  <1>5. external' = external /\ files' = files /\ torn' = torn BY DEF Commit
  <1>6. HoldsItsOwn(Worker)' BY <1>3, <1>4, <1>5 DEF HoldsItsOwn, Rendering, At
  <1>7. \A u \in Threads : HoldsItsOwn(u)' BY <1>1, <1>2, <1>3, <1>5, <1>6, OthersHold
  <1>8. Writing(Worker) = {} BY DEF Commit, Writing, Idle, At
  <1>9. InPlace' /\ Attended' /\ UntornBodyKept'
    BY <1>1, <1>2, <1>3, <1>5, <1>8, FilesStay DEF Undisturbed, Index
  <1>10. Untitled' BY <1>1, <1>5 DEF CalmInv, Untitled, IndexGrows, Undisturbed, Index
  <1> QED BY <1>7, <1>9, <1>10 DEF CalmInv

(* The first file of a note goes to its title, unless its note is torn.       *)
LEMMA CalmOpenFile ==
    ASSUME VaultTypes, VaultAssumption, CalmInv, SuffixesApart, OpenFile
    PROVE  CalmInv'
  <1> DEFINE i == proc[Worker].note
             st == UniqueStem(i)
  <1>1. /\ VaultTypes' /\ IndexGrows /\ Worker \in Threads /\ OthersWait(Worker)
        /\ proc'[Worker].pc = "filling" /\ proc'[Worker].note = i /\ proc'[Worker].open = st
        /\ i \in Index /\ st \in Stems
        /\ FirstFile(i) \in File /\ FirstFile(i).id = i
    BY OpenFileTypes
  <1>2. PICK part \in Parts(FirstFile(i)) : files' = [files EXCEPT ![st] = part]
    BY OpenFileTypes
  <1>3. external' = external /\ slug' = slug /\ placed' = placed /\ index' = index
        /\ torn \subseteq torn' /\ (IsOpen(Title[i]) => i \in torn')
    BY DEF OpenFile, truth
  <1>4. i \notin external /\ Writing(Worker) = {}
    BY <1>1 DEF CalmInv, HoldsItsOwn, OpenFile, Writing, At
  <1>5. i \in Ids BY <1>1, Indexed DEF VaultTypes
  <1>6. Title[i] \in Stems /\ Title[i] \in Slugs BY <1>5, TitleTyped
  <1>7. st = Title[i] \/ (i \in torn' /\ st \notin Slugs)
    <2> SUFFICES ASSUME st # Title[i] PROVE i \in torn' /\ st \notin Slugs OBVIOUS
    <2>1. /\ st = Suffixed[Title[i], i] /\ files[Title[i]] # None
          /\ files[Title[i]].id # i
      BY DEF UniqueStem
    <2>2. st \notin Slugs
      <3>1. <<Title[i], i>> \in Slugs \X Ids BY <1>5, <1>6
      <3>2. Suffixed[<<Title[i], i>>] \notin Slugs BY <3>1 DEF SuffixesApart
      <3> QED BY <2>1, <3>2
    <2>3. Title[i] \in Own BY <1>6, <2>1 DEF Own
    <2>4. files[Title[i]].id = None
      <3> SUFFICES ASSUME files[Title[i]].id # None PROVE FALSE OBVIOUS
      <3>1. files[Title[i]].id \in Index /\ Title[i] = Title[files[Title[i]].id]
        BY <1>6, <2>3 DEF CalmInv, InPlace
      <3> QED BY <1>1, <2>1, <3>1, TitlesApart DEF CalmInv
    <2>5. files[Title[i]] = Blank BY <2>3, <2>4 DEF CalmInv, InPlace
    <2>6. i \in torn'
      <3> SUFFICES ASSUME i \notin torn' PROVE FALSE OBVIOUS
      <3>1. PICK u \in Threads : i \in Writing(u)
        BY <1>1, <1>3, <2>5 DEF CalmInv, Attended
      <3>2. proc[u].open = Title[i]
        BY <1>3, <3>1 DEF CalmInv, HoldsItsOwn, Writing, At
      <3> QED BY <1>3, <3>2 DEF IsOpen
    <2> QED BY <2>2, <2>6
  <1>8. /\ part \in File /\ part # None /\ part.id \in {i, None}
        /\ part.body.of = FirstFile(i).body.of \/ part.body.text = "unheaded"
        /\ part.id = None => part = Blank
    BY <1>1, <1>2, <1>5, PartTyped
  <1>9. FirstFile(i).body.of = i
    <2>1. FirstFile(i).body = [of |-> i, text |-> "organized"] BY <1>5, FirstFileTyped
    <2> HIDE DEF i
    <2> QED BY <2>1
  <1>10. i \in Writing(Worker)' BY <1>1 DEF Writing, At
  <1> HIDE DEF i, st
  <1>11. Index' = Index BY <1>3 DEF Index
  <1>12. InPlace' /\ Attended' /\ UntornBodyKept'
    BY <1>1, <1>2, <1>3, <1>4, <1>7, <1>8, <1>9, <1>10, <1>11, FileReplaced
  <1>13. HoldsItsOwn(Worker)' BY <1>1, <1>3, <1>4, <1>7 DEF HoldsItsOwn, Rendering, At
  <1>14. \A u \in Threads : HoldsItsOwn(u)' BY <1>1, <1>3, <1>13, OthersHold
  <1>15. Untitled' BY <1>3, <1>11 DEF CalmInv, Untitled
  <1> QED BY <1>12, <1>14, <1>15 DEF CalmInv

(* The first file of a note is written where it was opened.                   *)
LEMMA CalmWriteFile ==
    ASSUME VaultTypes, VaultAssumption, CalmInv, WriteFile
    PROVE  CalmInv'
  <1> DEFINE i == proc[Worker].note
             st == proc[Worker].open
  <1>1. /\ VaultTypes' /\ IndexGrows /\ Worker \in Threads /\ OthersWait(Worker)
        /\ proc'[Worker].pc = "entities" /\ i \in Index /\ st \in Stems
    BY WriteFileTypes
  <1>2. PICK r \in File : /\ files' = [files EXCEPT ![st] = r]
                          /\ r.id = i /\ r.body.of = r.id /\ r.body.text = "organized"
                          /\ r # None
    BY WriteFileTypes
  <1>3. external' = external /\ slug' = slug /\ placed' = placed
        /\ index' = index /\ torn' = torn
    BY DEF WriteFile, truth, history
  <1>4. /\ i \notin external /\ Writing(Worker) \subseteq {i}
        /\ st = Title[i] \/ (i \in torn' /\ st \notin Slugs)
    BY <1>1, <1>3 DEF CalmInv, HoldsItsOwn, WriteFile, Writing, At
  <1>5. i # None
    <2>1. i \in Ids BY <1>1, Indexed DEF VaultTypes
    <2> QED BY <2>1 DEF VaultAssumption
  <1> HIDE DEF i, st
  <1>6. Index' = Index BY <1>3 DEF Index
  <1>7. r # Blank BY <1>2, <1>5, BlankTyped
  <1>8. InPlace' /\ Attended' /\ UntornBodyKept'
    BY <1>1, <1>2, <1>3, <1>4, <1>5, <1>6, <1>7, FileReplaced
  <1>9. HoldsItsOwn(Worker)' BY <1>1 DEF HoldsItsOwn, Rendering, At
  <1>10. \A u \in Threads : HoldsItsOwn(u)' BY <1>1, <1>3, <1>9, OthersHold
  <1>11. Untitled' BY <1>3, <1>6 DEF CalmInv, Untitled
  <1> QED BY <1>8, <1>10, <1>11 DEF CalmInv

(* A snapshot plans the names the files already have.                         *)
LEMMA CalmSnapshot ==
    ASSUME VaultTypes, VaultAssumption, CalmInv, NEW t \in Threads, Snapshot(t)
    PROVE  CalmInv'
  <1>1. Named /\ \A i \in Live : PlanFilenames(Live)[i] = Title[i] BY CalmNamed DEF CalmInv
  <1>2. /\ IndexGrows /\ OthersWait(t) /\ proc'[t].pc = "read"
        /\ proc'[t].stems = PlanFilenames(Live)
    BY <1>1, SnapshotTypes
  <1>3. external' = external /\ slug' = slug /\ placed' = placed
        /\ index' = index /\ files' = files /\ torn' = torn
    BY DEF Snapshot, truth
  <1>4. DOMAIN PlanFilenames(Live) = Live BY <1>1 DEF Named
  <1>5. HoldsItsOwn(t)' BY <1>1, <1>2, <1>4 DEF HoldsItsOwn, Rendering, At
  <1>6. \A u \in Threads : HoldsItsOwn(u)' BY <1>2, <1>3, <1>5, OthersHold
  <1>7. Index' = Index /\ Index' \subseteq Distinct BY <1>3 DEF Index, CalmInv, Untitled
  <1>8. Writing(t) = {} BY DEF Snapshot, Writing, At
  <1>9. InPlace' /\ Attended' /\ UntornBodyKept' BY <1>2, <1>3, <1>7, <1>8, FilesStay
  <1>10. Untitled' BY <1>3, <1>7 DEF CalmInv, Untitled
  <1> QED BY <1>6, <1>9, <1>10 DEF CalmInv

(* The body found is the note's own, the user's if there is one.              *)
LEMMA CalmRead ==
    ASSUME VaultTypes, VaultAssumption, CalmInv, NEW t \in Threads, ReadBody(t)
    PROVE  CalmInv'
  <1> DEFINE i == Following(t)
             st == proc[t].stems[i]
             body == PreservedBody(t, i)
  <1>1. /\ VaultTypes' /\ IndexGrows /\ OthersWait(t)
        /\ proc'[t].pc = "put" /\ proc'[t].body = body
        /\ proc'[t].todo = proc[t].todo /\ proc'[t].stems = proc[t].stems
        /\ Rendering(t) /\ proc[t].todo # {}
    BY ReadTypes
  <1>2. /\ i \in DOMAIN proc[t].stems /\ i \in Index /\ i \in Ids /\ st \in Stems
        /\ proc[t].todo \subseteq Index
    BY <1>1, FollowingTyped DEF VaultTypes, ThreadTyped
  <1>3. external' = external /\ slug' = slug /\ placed' = placed
        /\ index' = index /\ files' = files
        /\ torn \subseteq torn' /\ (IsOpen(st) => i \in torn')
    BY DEF ReadBody, truth
  <1>4. Following(t)' = i
    BY <1>1, <1>2, FollowingKept DEF IndexGrows, VaultTypes
  <1>5. st = Title[i] /\ st \in Slugs BY <1>1, <1>2, TitleTyped DEF CalmInv, HoldsItsOwn
  <1>6. files[st] # None => /\ files[st] \in File /\ files[st].body \in Bodies
                            /\ files[st].body # None /\ st \in Own
    BY <1>2, NoneAssumption DEF VaultTypes, File, Own
  <1>7. body.of = i /\ body.text # "unheaded"
    <2>1. CASE ExtractBody(st) = None
      <3>1. body = Body(i) BY <2>1 DEF PreservedBody
      <3> QED BY <1>2, <3>1, BodyTyped
    <2>2. CASE ExtractBody(st) # None
      <3>1. /\ files[st] # None /\ files[st].body.text # "unheaded"
            /\ body = files[st].body
        BY <2>2 DEF PreservedBody, ExtractBody
      <3>2. files[st].id # None BY <1>6, <3>1 DEF CalmInv, InPlace, Blank
      <3>3. /\ files[st].id \in Index /\ st = Title[files[st].id]
            /\ files[st].body.of = files[st].id
        BY <1>5, <1>6, <3>1, <3>2 DEF CalmInv, InPlace
      <3>4. files[st].id = i BY <1>2, <1>5, <3>3, TitlesApart DEF CalmInv
      <3> QED BY <3>1, <3>3, <3>4
    <2> QED BY <2>1, <2>2
  <1>8. ASSUME i \in external \ torn' PROVE body.text = "external"
    <2>1. InFile(i)
      <3>1. ASSUME InHand(i) PROVE FALSE
        <4>1. PICK u \in Threads : At(u, "writing") /\ Following(u) = i BY <3>1 DEF InHand
        <4>2. proc[u].open = Title[i] BY <4>1 DEF CalmInv, HoldsItsOwn
        <4> QED BY <1>3, <1>5, <1>8, <4>2 DEF IsOpen
      <3> QED BY <1>3, <1>8, <3>1 DEF CalmInv, UntornBodyKept
    <2>2. PICK s \in Own : files[s].id = i /\ files[s].body = Extern(i) BY <2>1 DEF InFile
    <2>3. i # None BY <1>2 DEF VaultAssumption
    <2>4. s = st BY <1>3, <1>5, <1>8, <2>2, <2>3 DEF CalmInv, InPlace
    <2>5. body = files[st].body
      BY <1>6, <2>2, <2>4 DEF PreservedBody, ExtractBody, Extern, Own
    <2> QED BY <2>2, <2>4, <2>5 DEF Extern
  <1> HIDE DEF body, i
  <1>9. HoldsItsOwn(t)'
    BY <1>1, <1>3, <1>4, <1>7, <1>8 DEF HoldsItsOwn, Rendering, At, CalmInv
  <1>10. \A u \in Threads : HoldsItsOwn(u)' BY <1>1, <1>3, <1>9, OthersHold
  <1>11. Index' = Index /\ Index' \subseteq Distinct BY <1>3 DEF Index, CalmInv, Untitled
  <1>12. Writing(t) = {} BY DEF ReadBody, Writing, At
  <1>13. InPlace' /\ Attended' /\ UntornBodyKept' BY <1>1, <1>3, <1>11, <1>12, FilesStay
  <1>14. Untitled' BY <1>3, <1>11 DEF CalmInv, Untitled
  <1> QED BY <1>10, <1>13, <1>14 DEF CalmInv

(* The file a thread is about to write goes to its note's title, with a body  *)
(* of that note, the user's if there is one.                                  *)
LEMMA CalmNoteFile ==
    ASSUME VaultTypes, VaultAssumption, CalmInv, NEW t \in Threads,
           At(t, "put") \/ At(t, "writing")
    PROVE  /\ NoteStem(t) = Title[Following(t)]
           /\ NoteFile(t).body.of = Following(t) /\ NoteFile(t).body.text # "unheaded"
           /\ Following(t) \in external \ torn =>
                 /\ proc[t].body = Extern(Following(t))
                 /\ NoteFile(t).body = Extern(Following(t))
           /\ Following(t) # None
  <1> DEFINE i == Following(t)
  <1>1. /\ Rendering(t) /\ proc[t].todo # {} /\ i \in Ids
        /\ NoteFile(t) \in File /\ NoteFile(t).body = proc[t].body
    BY NoteFileTyped
  <1>2. i \in DOMAIN proc[t].stems BY <1>1, FollowingTyped
  <1>3. NoteStem(t) = Title[i] BY <1>1, <1>2 DEF CalmInv, HoldsItsOwn, NoteStem
  <1>4. /\ proc[t].body.of = i /\ proc[t].body.text # "unheaded"
        /\ i \in external \ torn => proc[t].body.text = "external"
    BY DEF CalmInv, HoldsItsOwn
  <1>5. proc[t].body \in Bodies BY <1>1 DEF File
  <1>6. i # None BY <1>1 DEF VaultAssumption
  <1> HIDE DEF i
  <1>7. i \in external \ torn => proc[t].body = Extern(i)
    BY <1>4, <1>5 DEF Bodies, Extern
  <1> QED BY <1>1, <1>3, <1>4, <1>6, <1>7 DEF i

(* The file is emptied while the thread holds the body it found.              *)
LEMMA CalmOpenNote ==
    ASSUME VaultTypes, VaultAssumption, CalmInv, NEW t \in Threads, OpenNote(t)
    PROVE  CalmInv'
  <1> DEFINE i == Following(t)
             st == NoteStem(t)
             r == NoteFile(t)
  <1>1. /\ VaultTypes' /\ IndexGrows /\ OthersWait(t)
        /\ proc'[t].pc = "writing" /\ proc'[t].open = st
        /\ proc'[t].stems = proc[t].stems /\ proc'[t].todo = proc[t].todo
        /\ proc'[t].body = proc[t].body /\ Rendering(t) /\ proc[t].todo # {}
    BY OpenNoteTypes
  <1>2. PICK part \in Parts(r) : files' = [files EXCEPT ![st] = part] BY OpenNoteTypes
  <1>3. At(t, "put") BY DEF OpenNote
  <1>4. /\ r \in File /\ r.id = i /\ i \in Index /\ i \in Ids /\ st \in Stems
    BY <1>3, NoteFileTyped
  <1>5. /\ st = Title[i] /\ r.body.of = i
        /\ i \in external \ torn => proc[t].body = Extern(i)
    BY <1>3, CalmNoteFile
  <1>6. external' = external /\ slug' = slug /\ placed' = placed
        /\ index' = index /\ torn' = torn
    BY DEF OpenNote, truth, history
  <1>7. /\ part \in File /\ part # None /\ part.id \in {i, None}
        /\ part.body.of = i \/ part.body.text = "unheaded"
        /\ part.id = None => part = Blank
    BY <1>2, <1>4, <1>5, PartTyped
  <1>8. Following(t)' = i
    <2>1. proc[t].todo \subseteq Index /\ index \in Seq(Ids)
      BY <1>1 DEF ThreadTyped, VaultTypes
    <2> QED BY <1>1, <2>1, FollowingKept DEF IndexGrows
  <1>9. Writing(t) = {} /\ i \in Writing(t)' BY <1>1, <1>3, <1>8 DEF Writing, At
  <1>10. ASSUME NEW k, k = i, k \in external \ torn' PROVE InHand(k)'
    BY <1>1, <1>5, <1>6, <1>8, <1>10 DEF InHand, At, Extern
  <1>11. HoldsItsOwn(t)'
    BY <1>1, <1>3, <1>5, <1>6, <1>8 DEF HoldsItsOwn, Rendering, At, CalmInv
  <1> HIDE DEF i, st, r
  <1>12. Index' = Index BY <1>6 DEF Index
  <1>13. InPlace' /\ Attended' /\ UntornBodyKept'
    <2>1. PICK k \in Index : k = i BY <1>4
    <2>2. IndexGrows /\ Index' = Index /\ OthersWait(t) BY <1>1, <1>12
    <2>3. /\ external' = external /\ torn \subseteq torn' /\ Writing(t) \subseteq {k}
          /\ part = Blank => k \in Writing(t)' \cup torn'
      BY <1>6, <1>9, <2>1
    <2>4. k \in external \ torn' => InHand(k)' \/ (part.id = k /\ part.body = Extern(k))
      BY <1>10, <2>1
    <2>5. st \in Stems /\ (st = Title[k] \/ (k \in torn' /\ st \notin Slugs)) BY <1>4, <1>5, <2>1
    <2>6. part.id \in {k, None} /\ (part.body.of = k \/ part.body.text = "unheaded")
      BY <1>7, <2>1
    <2> QED BY <1>2, <1>7, <2>2, <2>3, <2>4, <2>5, <2>6, FileReplaced
  <1>14. \A u \in Threads : HoldsItsOwn(u)' BY <1>1, <1>6, <1>11, OthersHold
  <1>15. Untitled' BY <1>6, <1>12 DEF CalmInv, Untitled
  <1> QED BY <1>13, <1>14, <1>15 DEF CalmInv

(* The body held is put where it was found.                                   *)
LEMMA CalmPut ==
    ASSUME VaultTypes, VaultAssumption, CalmInv, NEW t \in Threads, PutNote(t)
    PROVE  CalmInv'
  <1> DEFINE i == Following(t)
             st == proc[t].open
             r == NoteFile(t)
  <1>1. /\ VaultTypes' /\ IndexGrows /\ OthersWait(t)
        /\ proc'[t].pc = "read" /\ proc'[t].stems = proc[t].stems
        /\ Rendering(t) /\ proc[t].todo # {} /\ st \in Stems
        /\ files' = [files EXCEPT ![st] = r]
    BY PutTypes
  <1>2. At(t, "writing") BY DEF PutNote
  <1>3. r \in File /\ r # None /\ r.id = i /\ i \in Index BY <1>2, NoteFileTyped
  <1>4. /\ r.body.of = i /\ i # None
        /\ i \in external \ torn => r.body = Extern(i)
    BY <1>2, CalmNoteFile
  <1>5. external' = external /\ slug' = slug /\ placed' = placed
        /\ index' = index /\ torn' = torn
    BY DEF PutNote, truth, history
  <1>6. st = Title[i] /\ Writing(t) = {i} BY <1>2 DEF CalmInv, HoldsItsOwn, Writing, At
  <1>7. HoldsItsOwn(t)' BY <1>1 DEF HoldsItsOwn, Rendering, At, CalmInv
  <1> HIDE DEF i, st, r
  <1>8. Index' = Index BY <1>5 DEF Index
  <1>9. r # Blank BY <1>3, <1>4, BlankTyped
  <1>10. InPlace' /\ Attended' /\ UntornBodyKept'
    BY <1>1, <1>3, <1>4, <1>5, <1>6, <1>8, <1>9, FileReplaced
  <1>11. \A u \in Threads : HoldsItsOwn(u)' BY <1>1, <1>5, <1>7, OthersHold
  <1>12. Untitled' BY <1>5, <1>8 DEF CalmInv, Untitled
  <1> QED BY <1>10, <1>11, <1>12 DEF CalmInv

(* A file left alone stays in place.                                          *)
LEMMA CalmKeep ==
    ASSUME VaultTypes, VaultAssumption, CalmInv, NEW t \in Threads, KeepNote(t)
    PROVE  CalmInv'
  <1>1. /\ IndexGrows /\ OthersWait(t) /\ Rendering(t)
        /\ proc'[t].pc = "read" /\ proc'[t].stems = proc[t].stems
    BY KeepTypes
  <1>2. external' = external /\ slug' = slug /\ placed' = placed
        /\ index' = index /\ torn' = torn /\ files' = files
    BY DEF KeepNote, truth, history
  <1>3. Writing(t) = {} BY DEF KeepNote, Writing, At
  <1>4. Index' = Index /\ Index' \subseteq Distinct BY <1>2 DEF Index, CalmInv, Untitled
  <1>5. InPlace' /\ Attended' /\ UntornBodyKept' BY <1>1, <1>2, <1>3, <1>4, FilesStay
  <1>6. HoldsItsOwn(t)' BY <1>1 DEF HoldsItsOwn, Rendering, At, CalmInv
  <1>7. \A u \in Threads : HoldsItsOwn(u)' BY <1>1, <1>2, <1>6, OthersHold
  <1>8. Untitled' BY <1>2, <1>4 DEF CalmInv, Untitled
  <1> QED BY <1>5, <1>7, <1>8 DEF CalmInv

(* Only second files of torn notes are swept.                                 *)
LEMMA CalmSweep ==
    ASSUME VaultTypes, VaultAssumption, CalmInv, NEW t \in Threads, Sweep(t)
    PROVE  CalmInv'
  <1>1. IndexGrows /\ OthersWait(t) /\ proc'[t].pc = "idle" BY SweepTypes
  <1>2. external' = external /\ slug' = slug /\ placed' = placed
        /\ index' = index /\ torn' = torn
    BY DEF Sweep, truth, history
  <1>3. Index' = Index /\ Writing(t) = {} BY <1>2 DEF Index, Sweep, Writing, At
  <1>4. ASSUME NEW st \in Own, Orphaned(t, st)
        PROVE  files[st].id \in torn /\ st \notin Slugs
    <2>1. files[st].id \in DOMAIN proc[t].stems /\ ThreadTyped(t) /\ Rendering(t)
      BY <1>4 DEF Orphaned, VaultTypes, Sweep, Rendering, At
    <2>2. files[st].id \in Index /\ files[st].id # None
      <3>1. files[st].id \in Index BY <2>1 DEF ThreadTyped
      <3> QED BY <3>1, Indexed DEF VaultAssumption, VaultTypes
    <2>3. proc[t].stems[files[st].id] = Title[files[st].id]
      BY <2>1 DEF CalmInv, HoldsItsOwn
    <2>4. st # Title[files[st].id] BY <1>4, <2>1, <2>3 DEF Orphaned
    <2> QED BY <2>2, <2>4 DEF CalmInv, InPlace
  <1>5. Own' \subseteq Own /\ \A st \in Own' : files'[st] = files[st]
    BY DEF Sweep, Own
  <1>6. \A st \in Own : files[st].id \notin torn \/ st \in Slugs =>
                           st \in Own' /\ files'[st] = files[st]
    BY <1>4 DEF Sweep, Own
  <1>7. InPlace' BY <1>2, <1>3, <1>5 DEF CalmInv, InPlace
  <1>8. ASSUME NEW i \in Index' \ torn', files'[Title[i]] = Blank
        PROVE  \E u \in Threads : i \in Writing(u)'
    <2>1. i \in Index /\ i \in Ids BY <1>3, Indexed DEF VaultTypes
    <2>2. Title[i] \in Own' BY <1>8, <2>1, TitleTyped, BlankTyped DEF Own
    <2>3. files[Title[i]] = Blank BY <1>5, <1>8, <2>2
    <2>4. PICK u \in Threads : i \in Writing(u) BY <1>2, <1>8, <2>1, <2>3 DEF CalmInv, Attended
    <2>5. u # t BY <1>3, <2>4
    <2> QED BY <1>1, <2>4, <2>5, OthersWrite
  <1>9. ASSUME NEW i \in external' \ torn' PROVE InFile(i)' \/ InHand(i)'
    <2>1. CASE InFile(i)
      <3>1. PICK s \in Own : files[s].id = i /\ files[s].body = Extern(i) BY <2>1 DEF InFile
      <3>2. s \in Own' /\ files'[s] = files[s] BY <1>2, <1>6, <1>9, <3>1
      <3> QED BY <3>1, <3>2 DEF InFile, Extern
    <2>2. CASE InHand(i) BY <1>1, <1>3, <2>2, HandsKept
    <2> QED BY <1>2, <1>9, <2>1, <2>2 DEF CalmInv, UntornBodyKept
  <1>10. HoldsItsOwn(t)' BY <1>1 DEF HoldsItsOwn, Rendering, At
  <1>11. \A u \in Threads : HoldsItsOwn(u)' BY <1>1, <1>2, <1>10, OthersHold
  <1>12. Untitled' BY <1>2, <1>3 DEF CalmInv, Untitled
  <1> QED BY <1>7, <1>8, <1>9, <1>11, <1>12 DEF CalmInv, Attended, UntornBodyKept

(* Threads at rest write nothing and hold nothing.                            *)
LEMMA AtRest ==
    ASSUME \A t \in Threads : proc[t].pc = "idle"
    PROVE  /\ \A t \in Threads : Writing(t) = {} /\ HoldsItsOwn(t)
           /\ \A i : ~InHand(i)
  BY DEF Writing, HoldsItsOwn, InHand, Rendering, At

(* The user edits or deletes while no thread projects.                        *)
LEMMA CalmUser ==
    ASSUME VaultTypes, VaultAssumption, CalmInv, Undisturbed, User
    PROVE  CalmInv'
  <1>1. /\ VaultTypes' /\ IndexGrows /\ Index' = Index /\ touches' = touches + 1
        /\ proc' = proc /\ truth' = truth
    BY UserTypes
  <1>2. Quiet BY <1>1 DEF Undisturbed, VaultTypes
  <1>3. \A t \in Threads : proc[t].pc = "idle" BY <1>2 DEF Quiet, Idle
  <1>4. slug' = slug /\ placed' = placed BY <1>1 DEF truth, Undisturbed
  <1>5. \A t \in Threads : HoldsItsOwn(t)' BY <1>1, <1>3 DEF HoldsItsOwn, Rendering, At
  <1>6. /\ \A t \in Threads : Writing(t) = {}
        /\ \A i : ~InHand(i)
    BY <1>3, AtRest
  <1>7. PICK st \in Stems : UserEdits(st) \/ UserDeletes(st)
    <2>1. ASSUME NEW st \in Slugs, NEW text, UserAdds(st, text) PROVE FALSE
      BY <1>4, <2>1 DEF UserAdds, CalmInv, Untitled
    <2> QED BY <2>1 DEF User
  <1> DEFINE i == files[st].id
  <1>8. st \in Own /\ i \in Index /\ DOMAIN files = Stems /\ i # None
    BY <1>7 DEF UserEdits, UserDeletes, CalmInv, InPlace, Own, VaultTypes
  <1>9. \A j \in external \ torn : InFile(j) BY <1>6 DEF CalmInv, UntornBodyKept
  <1>10. \A j \in Index \ torn : files[Title[j]] # Blank BY <1>6 DEF CalmInv, Attended
  <1>11. CASE UserDeletes(st)
    <2>1. files' = [files EXCEPT ![st] = None] /\ external' = external \ {i} /\ torn' = torn
      BY <1>11 DEF UserDeletes
    <2>2. InPlace' BY <1>1, <1>8, <2>1 DEF CalmInv, InPlace, Own
    <2>3. ASSUME NEW j \in external' \ torn' PROVE InFile(j)'
      <3>1. PICK s \in Own : files[s].id = j /\ files[s].body = Extern(j)
        BY <1>9, <2>1, <2>3 DEF InFile
      <3>2. s # st BY <2>1, <2>3, <3>1
      <3> QED BY <1>8, <2>1, <3>1, <3>2 DEF InFile, Own, Extern
    <2>4. ASSUME NEW j \in Index' \ torn' PROVE files'[Title[j]] # Blank
      <3>1. j \in Ids BY <1>1, Indexed DEF VaultTypes
      <3>2. Title[j] \in Stems BY <3>1, TitleTyped
      <3> QED BY <1>1, <1>8, <1>10, <2>1, <2>4, <3>2, BlankTyped
    <2>5. Untitled' BY <1>1, <1>4, <2>1 DEF CalmInv, Untitled
    <2> QED BY <1>5, <2>2, <2>3, <2>4, <2>5 DEF CalmInv, Attended, UntornBodyKept
  <1>12. CASE UserEdits(st)
    <2> DEFINE r == [files[st] EXCEPT !.body = [of |-> i, text |-> "external"]]
    <2>1. files' = [files EXCEPT ![st] = r] /\ external' = external \cup {i}
          /\ torn' = IF OnlyFile(st) THEN torn \ {i} ELSE torn
      BY <1>12 DEF UserEdits
    <2>2. files[st] \in File /\ i \in Ids BY <1>1, <1>8, Indexed DEF VaultTypes, Own
    <2>3. r.id = i /\ r.body = Extern(i) /\ r \in File /\ r # None
      <3>1. [of |-> i, text |-> "external"] \in Bodies BY <2>2, BodyTyped
      <3>2. r \in File BY <2>2, <3>1 DEF File
      <3>3. r # None BY <3>2, NoneAssumption
      <3>4. r.id = i /\ r.body = [of |-> i, text |-> "external"] BY <2>2 DEF File
      <3> HIDE DEF r
      <3> QED BY <3>2, <3>3, <3>4 DEF Extern
    <2>4. r # Blank BY <1>8, <2>3, BlankTyped
    <2> HIDE DEF r
    <2>5. Own' = Own /\ files'[st] = r /\ \A s \in Stems \ {st} : files'[s] = files[s]
      BY <1>8, <2>1, <2>3 DEF Own
    <2>6. ASSUME NEW s \in Own, files[s].id = i, i \notin torn' PROVE s = Title[i]
      <3>1. CASE OnlyFile(st)
        <4>1. s = slug[files[s].id] BY <2>6, <3>1 DEF OnlyFile
        <4> QED BY <2>6, <4>1 DEF CalmInv, Untitled
      <3>2. CASE ~OnlyFile(st)
        <4>1. i \notin torn BY <2>1, <2>6, <3>2
        <4> QED BY <1>8, <2>6, <4>1 DEF CalmInv, InPlace
      <3> QED BY <3>1, <3>2
    <2>7. InPlace'
      <3> SUFFICES ASSUME NEW s \in Own
                   PROVE  /\ files'[s].id = None =>
                                /\ files'[s] = Blank
                                /\ s \in Slugs => \E k \in Index : s = Title[k]
                          /\ files'[s].id # None =>
                                /\ files'[s].id \in Index
                                /\ \/ s = Title[files'[s].id]
                                   \/ files'[s].id \in torn' /\ s \notin Slugs
                                /\ \/ files'[s].body.of = files'[s].id
                                   \/ files'[s].body.text = "unheaded"
        BY <1>1, <2>5 DEF InPlace
      <3>1. s \in Stems /\ files'[s].id = files[s].id BY <2>3, <2>5 DEF Own
      <3>2. files[s].id = None => s # st BY <1>8
      <3>3. files[s].id # None => files[s].id \in Index /\
              (s = Title[files[s].id] \/ (files[s].id \in torn' /\ s \notin Slugs))
        <4>1. CASE files[s].id = i BY <1>8, <2>1, <2>6, <4>1 DEF CalmInv, InPlace
        <4>2. CASE files[s].id # i BY <2>1, <4>2 DEF CalmInv, InPlace
        <4> QED BY <4>1, <4>2
      <3>4. CASE s = st BY <1>8, <2>3, <2>5, <3>1, <3>3, <3>4 DEF Extern
      <3>5. CASE s # st
        <4>1. files'[s] = files[s] BY <2>5, <3>1, <3>5
        <4> QED BY <3>3, <4>1 DEF CalmInv, InPlace
      <3> QED BY <3>4, <3>5
    <2>8. ASSUME NEW j \in external' \ torn' PROVE InFile(j)'
      <3>1. CASE j = i BY <1>8, <2>3, <2>5, <3>1 DEF InFile, Extern
      <3>2. CASE j # i
        <4>1. PICK s \in Own : files[s].id = j /\ files[s].body = Extern(j)
          BY <1>9, <2>1, <2>8, <3>2 DEF InFile
        <4>2. s # st /\ s \in Stems BY <3>2, <4>1 DEF Own
        <4> QED BY <2>5, <4>1, <4>2 DEF InFile, Extern
      <3> QED BY <3>1, <3>2
    <2>9. ASSUME NEW j \in Index' \ torn' PROVE files'[Title[j]] # Blank
      <3>1. j \in Ids /\ j \in Index BY <1>1, Indexed DEF VaultTypes
      <3>2. Title[j] \in Stems BY <3>1, TitleTyped
      <3>3. CASE Title[j] = st BY <2>4, <2>5, <3>3
      <3>4. CASE Title[j] # st
        <4>1. j # i
          <5> SUFFICES ASSUME j = i PROVE FALSE OBVIOUS
          <5> QED BY <1>8, <2>6, <2>9, <3>4
        <4>2. j \notin torn BY <2>1, <2>9, <4>1
        <4> QED BY <1>10, <2>5, <3>1, <3>2, <3>4, <4>2
      <3> QED BY <3>3, <3>4
    <2>10. Untitled' BY <1>1, <1>4, <1>8, <2>1 DEF CalmInv, Untitled
    <2> QED BY <1>5, <2>7, <2>8, <2>9, <2>10 DEF CalmInv, Attended, UntornBodyKept
  <1> QED BY <1>7, <1>11, <1>12

(* A crash leaves the files as they are.                                      *)
LEMMA CalmCrash ==
    ASSUME VaultTypes, CalmInv, Crash
    PROVE  CalmInv'
  <1>1. /\ VaultTypes' /\ IndexGrows /\ Index' = Index /\ truth' = truth
        /\ \A t \in Threads : proc'[t].pc = "idle"
    BY CrashTypes
  <1>2. /\ external' = external /\ files' = files /\ placed' = placed
        /\ torn' = torn \cup UNION {Writing(t) : t \in Threads}
    BY DEF Crash
  <1>3. slug' = slug /\ Own' = Own BY <1>1, <1>2 DEF truth, Own
  <1>4. InPlace' BY <1>1, <1>2, <1>3 DEF CalmInv, InPlace
  <1>5. Attended' BY <1>1, <1>2 DEF CalmInv, Attended
  <1>6. ASSUME NEW i \in external' \ torn' PROVE InFile(i)'
    <2>1. ~InHand(i) BY <1>2, <1>6 DEF InHand, Writing, At
    <2>2. InFile(i) BY <1>2, <1>6, <2>1 DEF CalmInv, UntornBodyKept
    <2> QED BY <1>2, <1>3, <2>2 DEF InFile, Extern
  <1>7. Untitled' BY <1>1, <1>2, <1>3 DEF CalmInv, Untitled
  <1>8. \A t \in Threads : HoldsItsOwn(t)' BY <1>1 DEF HoldsItsOwn, Rendering, At
  <1> QED BY <1>4, <1>5, <1>6, <1>7, <1>8 DEF CalmInv, UntornBodyKept

(* Steps that leave the files alone.                                          *)
LEMMA CalmPlainSteps ==
    ASSUME VaultTypes, VaultAssumption, CalmInv, Undisturbed, 
           \/ \E i \in Ids : ApplyPlan(i)
           \/ WriteFails \/ AddEntities \/ Rerender
           \/ \E t \in Threads, i \in Ids :
                 \E title \in Slugs, body \in {{}, {i}} : Edit(t, i, title, body)
           \/ \E t \in Threads : Scan(t) \/ Bury(t) \/ WriteViews(t) \/ ProjectionFails(t)
    PROVE  CalmInv'
  <1>1. slug' = slug /\ placed' = placed /\ Index' \subseteq Distinct
    BY DEF Undisturbed, Index
  <1>2. Worker \in Threads /\ Chat \in Threads /\ proc \in [Threads -> Procs]
    BY DEF Threads, VaultTypes
  <1>3. ASSUME NEW i \in Ids, ApplyPlan(i) PROVE CalmInv'
    <2>1. IndexGrows /\ proc'[Chat].pc = "views" /\ OthersWait(Chat) BY <1>3, ApplyPlanTypes
    <2>2. /\ external' = external /\ files' = files /\ torn' = torn /\ Writing(Chat) = {}
      BY <1>3 DEF ApplyPlan, Writing, Idle, At
    <2> QED BY <1>1, <1>2, <2>1, <2>2, CalmPlain
  <1>4. CASE WriteFails
    <2>1. IndexGrows /\ OthersWait(Worker) /\ proc'[Worker].pc = "idle"
      BY <1>2, <1>4, FailuresStop, StopTypes
    <2>2. /\ external' = external /\ files' = files /\ torn \subseteq torn'
          /\ Writing(Worker) \subseteq torn'
      BY <1>4 DEF WriteFails, Writing, At
    <2> QED BY <1>1, <1>2, <2>1, <2>2, CalmPlain
  <1>5. CASE AddEntities
    <2>1. IndexGrows /\ OthersWait(Worker) /\ proc'[Worker].pc = "scan"
      BY <1>5, AddEntitiesTypes
    <2>2. /\ external' = external /\ files' = files /\ torn' = torn /\ Writing(Worker) = {}
      BY <1>5 DEF AddEntities, history, Writing, At
    <2> QED BY <1>1, <1>2, <2>1, <2>2, CalmPlain
  <1>6. CASE Rerender
    <2>1. IndexGrows /\ OthersWait(Worker) /\ proc'[Worker].pc = "scan"
      BY <1>6, RerenderTypes
    <2>2. /\ external' = external /\ files' = files /\ torn' = torn /\ Writing(Worker) = {}
      BY <1>2, <1>6 DEF Rerender, truth, history, Writing, Quiet, Idle, At
    <2> QED BY <1>1, <1>2, <2>1, <2>2, CalmPlain
  <1>7. ASSUME NEW t \in Threads, NEW i \in Ids, NEW title \in Slugs, NEW body,
               Edit(t, i, title, body)
        PROVE  CalmInv'
    <2>1. IndexGrows /\ OthersWait(t) /\ proc'[t].pc \in {"scan", "views"}
      BY <1>7, EditTypes
    <2>2. /\ external' = external /\ files' = files /\ torn' = torn /\ Writing(t) = {}
      BY <1>7 DEF Edit, Writing, Idle, At
    <2> QED BY <1>1, <2>1, <2>2, CalmPlain
  <1>8. ASSUME NEW t \in Threads, Scan(t) PROVE CalmInv'
    <2>1. IndexGrows /\ OthersWait(t) /\ proc'[t].pc = "bury" BY <1>8, ScanTypes
    <2>2. /\ external' = external /\ files' = files /\ torn' = torn /\ Writing(t) = {}
      BY <1>8 DEF Scan, truth, history, Writing, At
    <2> QED BY <1>1, <2>1, <2>2, CalmPlain
  <1>9. ASSUME NEW t \in Threads, Bury(t) PROVE CalmInv'
    <2>1. IndexGrows /\ OthersWait(t) /\ proc'[t].pc = "views" BY <1>9, BuryTypes
    <2>2. /\ external' = external /\ files' = files /\ torn' = torn /\ Writing(t) = {}
      BY <1>9 DEF Bury, history, Writing, At
    <2> QED BY <1>1, <2>1, <2>2, CalmPlain
  <1>10. ASSUME NEW t \in Threads, WriteViews(t) PROVE CalmInv'
    <2>1. IndexGrows /\ OthersWait(t) /\ proc'[t].pc = "snapshot" BY <1>10, WriteViewsTypes
    <2>2. /\ external' = external /\ files' = files /\ torn' = torn /\ Writing(t) = {}
      BY <1>10 DEF WriteViews, truth, history, Writing, At
    <2> QED BY <1>1, <2>1, <2>2, CalmPlain
  <1>11. ASSUME NEW t \in Threads, ProjectionFails(t) PROVE CalmInv'
    <2>1. IndexGrows /\ OthersWait(t) /\ proc'[t].pc = "idle"
      BY <1>11, FailuresStop, StopTypes
    <2>2. /\ external' = external /\ files' = files /\ torn \subseteq torn'
          /\ Writing(t) \subseteq torn'
      BY <1>11 DEF ProjectionFails, Writing, At
    <2> QED BY <1>1, <2>1, <2>2, CalmPlain
  <1> QED BY <1>3, <1>4, <1>5, <1>6, <1>7, <1>8, <1>9, <1>10, <1>11

(* Every step keeps the invariant of the calm setting.                        *)
LEMMA CalmStep ==
    ASSUME VaultTypes, VaultAssumption, CalmInv, SuffixesApart, Undisturbed, Next
    PROVE  CalmInv'
  <1>1. ASSUME NEW i \in Ids, Commit(i) PROVE CalmInv' BY <1>1, CalmCommit
  <1>2. CASE OpenFile \/ WriteFile BY <1>2, CalmOpenFile, CalmWriteFile
  <1>3. ASSUME NEW t \in Threads, Project(t) PROVE CalmInv'
    BY <1>3, CalmPlainSteps, CalmSnapshot, CalmRead, CalmKeep, CalmOpenNote, CalmPut,
       CalmSweep DEF Project
  <1>4. CASE User BY <1>4, CalmUser
  <1>5. CASE Crash BY <1>5, CalmCrash
  <1> QED BY <1>1, <1>2, <1>3, <1>4, <1>5, CalmPlainSteps DEF Next

(* Every step keeps the types.                                                *)
LEMMA TypesStep ==
    ASSUME VaultTypes, VaultAssumption, Named, Next
    PROVE  VaultTypes' /\ IndexGrows
  <1>1. ASSUME NEW i \in Ids, Commit(i) \/ ApplyPlan(i) PROVE VaultTypes' /\ IndexGrows
    BY <1>1, CommitTypes, ApplyPlanTypes
  <1>2. CASE OpenFile \/ WriteFile BY <1>2, OpenFileTypes, WriteFileTypes
  <1>3. CASE WriteFails BY <1>3, FailuresStop, StopTypes DEF Threads
  <1>4. CASE AddEntities BY <1>4, AddEntitiesTypes
  <1>5. CASE Rerender BY <1>5, RerenderTypes
  <1>6. ASSUME NEW t \in Threads, NEW i \in Ids, NEW title \in Slugs, NEW body,
               Edit(t, i, title, body)
        PROVE  VaultTypes' /\ IndexGrows
    BY <1>6, EditTypes
  <1>7. ASSUME NEW t \in Threads, Project(t) PROVE VaultTypes' /\ IndexGrows
    BY <1>7, ScanTypes, BuryTypes, WriteViewsTypes, SnapshotTypes, ReadTypes, KeepTypes,
       OpenNoteTypes, PutTypes, FailuresStop, StopTypes, SweepTypes DEF Project
  <1>8. CASE User BY <1>8, UserTypes
  <1>9. CASE Crash BY <1>9, CrashTypes
  <1> QED BY <1>1, <1>2, <1>3, <1>4, <1>5, <1>6, <1>7, <1>8, <1>9 DEF Next

(* An empty vault has the types.                                              *)
LEMMA InitTypes ==
    ASSUME VaultAssumption, Init
    PROVE  /\ VaultTypes /\ Index = {} /\ Own = {} /\ Present = {}
           /\ proc = [t \in Threads |-> Resting] /\ \A t \in Threads : proc[t].pc = "idle"
  <1>1. index \in Seq(Ids) /\ Index = {} BY DEF Init, Index, ToSet
  <1>2. Own = {} /\ Present = {} BY DEF Init, Own, Present
  <1>3. files \in [Stems -> File \cup {None}] BY DEF Init
  <1>4. slug \in [Ids -> Slugs] BY DEF Init, VaultAssumption
  <1>5. /\ proc = [t \in Threads |-> Resting] /\ \A t \in Threads : proc[t].pc = "idle"
        /\ proc \in [Threads -> Procs]
    BY RestingTyped DEF Init
  <1>6. \A t \in Threads : ThreadTyped(t) BY <1>5 DEF ThreadTyped, At, Rendering
  <1> QED BY <1>1, <1>2, <1>3, <1>4, <1>5, <1>6 DEF VaultTypes, Init

(* A step of nothing keeps types and invariant.                               *)
LEMMA Unchanged ==
    ASSUME UNCHANGED vars
    PROVE  /\ VaultTypes => VaultTypes'
           /\ CalmInv => CalmInv'
  <1>1. /\ index' = index /\ dead' = dead /\ slug' = slug /\ files' = files /\ proc' = proc
        /\ touches' = touches /\ crashes' = crashes /\ external' = external /\ placed' = placed
        /\ torn' = torn
    BY DEF vars, truth, bounds, history
  <1>2. Index' = Index /\ Own' = Own /\ Present' = Present BY <1>1 DEF Index, Own, Present
  <1>3. \A t \in Threads : Following(t)' = Following(t) BY <1>1 DEF Following
  <1>4. \A t \in Threads : ThreadTyped(t) => ThreadTyped(t)'
    BY <1>1, <1>2 DEF ThreadTyped, At, Rendering
  <1>5. \A t \in Threads : HoldsItsOwn(t) => HoldsItsOwn(t)'
    BY <1>1, <1>3 DEF HoldsItsOwn, At, Rendering
  <1>6. VaultTypes => VaultTypes' BY <1>1, <1>2, <1>4 DEF VaultTypes
  <1>7. (Untitled => Untitled') /\ (InPlace => InPlace')
    BY <1>1, <1>2 DEF Untitled, InPlace
  <1>8. \A t \in Threads : Writing(t)' = Writing(t) BY <1>1, <1>3 DEF Writing, At
  <1>9. Attended => Attended' BY <1>1, <1>2, <1>8 DEF Attended
  <1>10. \A i : (InFile(i) => InFile(i)') /\ (InHand(i) => InHand(i)')
    BY <1>1, <1>2, <1>3 DEF InFile, InHand, At, Extern
  <1>11. UntornBodyKept => UntornBodyKept' BY <1>1, <1>10 DEF UntornBodyKept
  <1> QED BY <1>5, <1>6, <1>7, <1>9, <1>11 DEF CalmInv

(* However many notes, edits, failures and restarts, with two threads at it:  *)
(* a text the user wrote into a note is lost only with a torn write of its    *)
(* file, and no file carries the body of another note, while titles neither   *)
(* collide nor change (vault.py, write; fs.py, write_text_if_changed).        *)
THEOREM BodiesStay == SuffixesApart /\ VaultSpec => []BodiesKept
  <1> DEFINE Inv == setting = "calm" => VaultTypes /\ CalmInv
  <1> SUFFICES ASSUME SuffixesApart PROVE VaultSpec => []BodiesKept
    OBVIOUS
  <1>1. VaultInit => Inv
    <2> SUFFICES ASSUME VaultInit PROVE VaultTypes /\ CalmInv OBVIOUS
    <2>1. /\ VaultTypes /\ Index = {} /\ Own = {}
          /\ \A t \in Threads : proc[t].pc = "idle"
      BY VaultAssumption, InitTypes DEF VaultInit
    <2>2. Untitled BY <2>1 DEF VaultInit, Init, Untitled
    <2>3. InPlace /\ Attended /\ UntornBodyKept
      BY <2>1 DEF InPlace, Attended, UntornBodyKept, VaultInit, Init
    <2> QED BY <2>1, <2>2, <2>3, AtRest DEF CalmInv
  <1>2. Inv /\ [VaultNext]_<<setting, vars>> => Inv'
    <2> SUFFICES ASSUME Inv, [VaultNext]_<<setting, vars>>, setting' = "calm"
                 PROVE  VaultTypes' /\ CalmInv'
      OBVIOUS
    <2>1. setting = "calm" /\ VaultTypes /\ CalmInv BY DEF VaultNext
    <2>2. CASE VaultNext
      <3>1. Next /\ Undisturbed BY <2>1, <2>2 DEF VaultNext
      <3>2. Named BY <2>1, VaultAssumption, CalmNamed DEF CalmInv
      <3> QED BY <2>1, <3>1, <3>2, VaultAssumption, TypesStep, CalmStep
    <2>3. CASE UNCHANGED vars BY <2>1, <2>3, Unchanged
    <2> QED BY <2>2, <2>3
  <1>3. Inv => BodiesKept
    <2> SUFFICES ASSUME VaultTypes, CalmInv PROVE UntornBodyKept /\ BodyBelongs
      BY DEF BodiesKept
    <2>1. BodyBelongs BY DEF CalmInv, InPlace, BodyBelongs, Blank
    <2> QED BY <2>1 DEF CalmInv
  <1> HIDE DEF Inv
  <1> QED BY <1>1, <1>2, <1>3, PTL DEF VaultSpec

-----------------------------------------------------------------------------
(* In the names setting *)

W == proc[Worker]
FileOf(i, st) == st \in Own /\ files[st].id = i

\* What is tombstoned was removed by the user, and has no file.
Buried == dead \subseteq removed /\ dead \cap Present = {}

\* A suffixed name is taken by the note whose digits it ends in, or by none.
OwnSuffixes == \A sl \in Slugs, i \in Ids :
    Suffixed[<<sl, i>>] \in Own => files[Suffixed[<<sl, i>>]].id \in {i, None}

\* The file being written is empty, and has a name of the note it is written for.
Held ==
    /\ W.pc \in {"filling", "writing"} => W.open \in Own /\ files[W.open] = Blank
    /\ W.pc = "filling" => W.open = Title[W.note] \/ W.open = Suffixed[<<Title[W.note], W.note>>]
    /\ W.pc = "writing" => W.open = W.stems[Following(Worker)]

Unlinked == \A st \in Own : files[st].id = None => files[st].links = {}

\* A note that the user did not remove has a file, but for the one being committed.
HaveFiles ==
    ~Rendering(Worker) => \A i \in Live \ removed :
        i \in Present \/ (W.pc \in {"file", "filling"} /\ i = W.note)

Scanned == W.pc = "bury" => Present \subseteq W.present /\ Live \ removed \subseteq W.present

\* While it renders, each such note has its file or its turn to come.
Planning == Rendering(Worker) =>
    /\ W.stems = PlanFilenames(Live) /\ W.todo \subseteq Live
    /\ \A i \in Live \ removed : i \in W.todo \/ FileOf(i, W.stems[i])

\* If nothing changed since the snapshot, what was rendered is in place.
Rendered == fresh /\ Rendering(Worker) => \A i \in Live \ W.todo :
    /\ FileOf(i, W.stems[i])
    /\ \A link \in files[W.stems[i]].links : \E j \in Live : link = <<j, W.stems[j]>>

NamesInv ==
    /\ proc[Chat] = Resting
    /\ Buried /\ OwnSuffixes /\ Unlinked /\ Held
    /\ W.pc \in {"file", "filling", "entities"} => W.note \in Live
    /\ HaveFiles /\ Scanned
    /\ W.pc = "snapshot" \/ Rendering(Worker) => views = Live
    /\ Planning /\ Rendered
    /\ fresh => W.pc \in {"idle", "read", "put", "writing"}
    /\ NotesOnDisk /\ LinksResolve /\ ViewsAgree

(* Until a projection ended nothing is said of the vault.                     *)
LEMMA NotSettled ==
    ASSUME ~Settled
    PROVE  NotesOnDisk /\ LinksResolve /\ ViewsAgree
  BY DEF NotesOnDisk, LinksResolve, ViewsAgree

(* Names can be planned.                                                      *)
LEMMA NamesNamed ==
    ASSUME VaultTypes, VaultAssumption, SuffixesApart
    PROVE  Named
  <1>1. Live \subseteq Ids /\ slug \in [Ids -> Slugs] BY LiveTyped DEF VaultTypes
  <1> QED BY <1>1, DistinctNames DEF Named

\* A step of the worker after which it is on its way to a snapshot.
LEMMA Underway ==
    ASSUME NamesInv, proc'[Chat] = Resting, Buried', OwnSuffixes', Unlinked',
           \/ W.pc \in {"file", "filling", "entities", "scan", "bury", "views", "snapshot"}
           \/ ~fresh \/ ~fresh',
           W'.pc \in {"file", "filling", "entities", "scan", "bury", "views", "snapshot"},
           fresh' = fresh \/ fresh' = FALSE,
           W'.pc \in {"file", "filling", "entities"} => W'.note \in Live',
           HaveFiles', Scanned', W'.pc = "snapshot" => views' = Live',
           W'.pc = "filling" => Held'
    PROVE  NamesInv'
  <1>1. ~fresh' BY DEF NamesInv
  <1>2. ~Settled' BY <1>1 DEF Settled
  <1>3. NotesOnDisk' /\ LinksResolve' /\ ViewsAgree' BY <1>2, NotSettled, PTL
  <1>4. ~Rendering(Worker)' BY DEF Rendering, W
  <1>5. Held'
    <2>1. W'.pc \notin {"filling", "writing"} => Held' BY DEF Held
    <2> QED BY <2>1
  <1> QED BY <1>1, <1>3, <1>4, <1>5 DEF NamesInv, Planning, Rendered

(* Files that stay are still of the same notes.                               *)
LEMMA FilesKept ==
    ASSUME NamesInv, files' = files
    PROVE  Own' = Own /\ Present' = Present /\ OwnSuffixes' /\ Unlinked'
  <1>1. Own' = Own /\ Present' = Present BY DEF Own, Present
  <1> QED BY <1>1 DEF NamesInv, OwnSuffixes, Unlinked

\* plan_filenames as a function of the titles.
Plan(notes, titles) == CHOOSE stem :
    stem = [i \in notes |-> IF \E j \in notes : j < i /\ stem[j] = titles[i]
                            THEN Suffixed[titles[i], i] ELSE titles[i]]

(* The plan depends on the current notes and their titles.                    *)
LEMMA PlanSame ==
    ASSUME index' = index, dead' = dead, slug' = slug
    PROVE  Live' = Live /\ PlanFilenames(Live)' = PlanFilenames(Live)
  <1>1. Live' = Live BY DEF Live
  <1>2. PlanFilenames(Live) = Plan(Live, slug) BY DEF PlanFilenames, Plan
  <1>3. PlanFilenames(Live)' = Plan(Live', slug') BY DEF PlanFilenames, Plan
  <1> QED BY <1>1, <1>2, <1>3

(* The note committed is the one without a file yet.                          *)
LEMMA NamesCommit ==
    ASSUME VaultTypes, VaultAssumption, NamesInv, proc'[Chat] = Resting,
           NEW i \in Ids, Commit(i)
    PROVE  NamesInv'
  <1>1. Index' = Index \cup {i} BY CommitTypes
  <1>2. W'.pc = "file" /\ W'.note = i /\ W.pc = "idle"
    <2>1. Worker \in Threads /\ proc \in [Threads -> Procs] BY DEF Threads, VaultTypes
    <2> DEFINE r == [Resting EXCEPT !.pc = "file", !.note = i]
    <2>3. r \in Procs /\ r.pc = "file" /\ r.note = i BY RestingTyped
    <2>4. proc' = [proc EXCEPT ![Worker] = r] BY DEF Commit
    <2> HIDE DEF r
    <2>2. proc'[Worker].pc = "file" /\ proc'[Worker].note = i
      BY <2>1, <2>3, <2>4, Replaced
    <2> QED BY <2>2 DEF Commit, W, Idle
  <1>3. /\ files' = files /\ dead' = dead /\ removed' = removed /\ fresh' = FALSE
        /\ i \notin Index
    BY DEF Commit, Index
  <1>4. Own' = Own /\ Present' = Present /\ OwnSuffixes' /\ Unlinked' BY <1>3, FilesKept
  <1>5. Buried' BY <1>3, <1>4 DEF NamesInv, Buried
  <1>6. Live' = Live \cup {i} BY <1>1, <1>3 DEF Live, Index, VaultTypes
  <1>7. HaveFiles'
    <2>1. \A j \in Live \ removed : j \in Present
      BY <1>2 DEF NamesInv, HaveFiles, Rendering, W
    <2> QED BY <1>2, <1>3, <1>4, <1>6, <2>1 DEF HaveFiles
  <1>8. Scanned' BY <1>2 DEF Scanned
  <1> QED BY <1>2, <1>3, <1>4, <1>5, <1>6, <1>7, <1>8, Underway

(* A suffixed name is of one note only.                                       *)
LEMMA SuffixOfOne ==
    ASSUME VaultAssumption, SuffixesApart, NEW i \in Ids, NEW base \in Slugs, NEW st,
           st = base \/ st = Suffixed[<<base, i>>]
    PROVE  \A sl \in Slugs, j \in Ids : Suffixed[<<sl, j>>] = st => j = i
  <1> SUFFICES ASSUME NEW sl \in Slugs, NEW j \in Ids, Suffixed[<<sl, j>>] = st PROVE j = i
    OBVIOUS
  <1>1. <<sl, j>> \in Slugs \X Ids /\ <<base, i>> \in Slugs \X Ids OBVIOUS
  <1>2. st # base BY <1>1 DEF SuffixesApart
  <1>3. <<sl, j>> = <<base, i>> BY <1>1, <1>2 DEF SuffixesApart
  <1> QED BY <1>3

(* The first file of a note is opened over no other note's.                   *)
LEMMA NamesOpenFile ==
    ASSUME VaultTypes, VaultAssumption, SuffixesApart, NamesInv, OneProcess, OpenFile
    PROVE  NamesInv'
  <1> DEFINE i == proc[Worker].note
             st == UniqueStem(i)
  <1>1. /\ proc'[Worker].pc = "filling" /\ proc'[Worker].note = i /\ proc'[Worker].open = st
        /\ i \in Index /\ st \in Stems /\ st # None
    BY OpenFileTypes, NoneAssumption
  <1>2. PICK part : files' = [files EXCEPT ![st] = part] BY OpenFileTypes
  <1>3. /\ index' = index /\ dead' = dead /\ removed' = removed /\ fresh' = fresh
        /\ W.pc = "file" /\ DOMAIN files = Stems
    BY DEF OpenFile, truth, At, W, VaultTypes
  <1>4. i \in Live /\ i \in Ids /\ None \notin Ids
    BY <1>3, LiveTyped, VaultAssumption DEF NamesInv, W, VaultAssumption
  <1>5. Title[i] \in Slugs /\ Title[i] \in Stems BY <1>4 DEF VaultAssumption
  <1>6. st = Title[i] \/ st = Suffixed[<<Title[i], i>>] BY DEF UniqueStem
  <1>7. st \in Own => files[st].id \in {i, None}
    <2>1. CASE files[Title[i]] = None \/ files[Title[i]].id = i
      BY <2>1 DEF UniqueStem, Own
    <2>2. CASE ~(files[Title[i]] = None \/ files[Title[i]].id = i)
      <3>1. st = Suffixed[<<Title[i], i>>] BY <2>2 DEF UniqueStem
      <3>2. Suffixed[<<Title[i], i>>] \in Own => files[Suffixed[<<Title[i], i>>]].id \in {i, None}
        <4> HIDE DEF i
        <4> QED BY <1>4, <1>5 DEF NamesInv, OwnSuffixes
      <3> QED BY <3>1, <3>2
    <2> QED BY <2>1, <2>2
  <1> HIDE DEF i, st
  <1>8. proc'[Chat] = Resting /\ files'[st] = Blank BY <1>1 DEF OneProcess
  <1>9. Blank # None /\ Blank.id = None /\ Blank.links = {} BY BlankTyped DEF Blank
  <1>10. files'[st] = part /\ part = Blank BY <1>1, <1>2, <1>3, <1>8
  <1>11. Own' = Own \cup {st} /\ \A s \in Own \ {st} : files'[s] = files[s]
    BY <1>1, <1>2, <1>3, <1>9, <1>10 DEF Own
  <1>12. Present' \subseteq Present /\ Present \subseteq Present' \cup {i}
    <2>1. Present' \subseteq Present BY <1>8, <1>9, <1>11 DEF Present
    <2>2. ASSUME NEW j \in Present PROVE j \in Present' \cup {i}
      <3>1. PICK s \in Own : files[s].id = j /\ j # None BY <2>2 DEF Present
      <3>2. CASE s = st BY <1>7, <3>1, <3>2
      <3>3. CASE s # st BY <1>11, <3>1, <3>3 DEF Present
      <3> QED BY <3>2, <3>3
    <2> QED BY <2>1, <2>2
  <1>13. Buried' BY <1>3, <1>12 DEF NamesInv, Buried
  <1>14. OwnSuffixes' BY <1>8, <1>9, <1>11 DEF NamesInv, OwnSuffixes
  <1>15. Unlinked' BY <1>8, <1>9, <1>11 DEF NamesInv, Unlinked
  <1>16. Live' = Live BY <1>3 DEF Live
  <1>17. W'.pc = "filling" /\ W'.note = i /\ W'.open = st BY <1>1 DEF W
  <1>18. HaveFiles'
    <2>1. \A j \in Live \ removed : j \in Present \/ j = i
      BY <1>3 DEF NamesInv, HaveFiles, Rendering, W, i
    <2> QED BY <1>3, <1>12, <1>16, <1>17, <2>1 DEF HaveFiles
  <1>19. Scanned' BY <1>17 DEF Scanned
  <1>20. Held' BY <1>6, <1>8, <1>11, <1>17 DEF Held
  <1> QED
    BY <1>3, <1>4, <1>8, <1>13, <1>14, <1>15, <1>16, <1>17, <1>18, <1>19, <1>20, Underway

(* It is written over the empty file.                                         *)
LEMMA NamesWriteFile ==
    ASSUME VaultTypes, VaultAssumption, SuffixesApart, NamesInv, proc'[Chat] = Resting, WriteFile
    PROVE  NamesInv'
  <1> DEFINE i == proc[Worker].note
             st == proc[Worker].open
  <1>1. /\ proc'[Worker].pc = "entities" /\ proc'[Worker].note = i
        /\ i \in Index /\ st \in Stems
    BY WriteFileTypes
  <1>2. PICK r \in File : /\ files' = [files EXCEPT ![st] = r] /\ r.id = i /\ r # None
    BY WriteFileTypes
  <1>3. /\ index' = index /\ dead' = dead /\ removed' = removed /\ fresh' = fresh
        /\ W.pc = "filling" /\ DOMAIN files = Stems
    BY DEF WriteFile, truth, history, At, W, VaultTypes
  <1>4. i \in Live /\ i \in Ids /\ None \notin Ids
    BY <1>3, LiveTyped, VaultAssumption DEF NamesInv, W, VaultAssumption
  <1>5. Title[i] \in Slugs BY <1>4 DEF VaultAssumption
  <1>6. /\ st = Title[i] \/ st = Suffixed[<<Title[i], i>>]
        /\ st \in Own /\ files[st] = Blank /\ Blank.id = None
    BY <1>3, BlankTyped DEF NamesInv, Held, W
  <1>8. \A sl \in Slugs, j \in Ids : Suffixed[<<sl, j>>] = st => j = i
    <2> HIDE DEF i, st
    <2> QED BY <1>4, <1>5, <1>6, SuffixOfOne
  <1> HIDE DEF i, st
  <1>9. /\ Own' = Own /\ files'[st] = r /\ \A s \in Own \ {st} : files'[s] = files[s]
    BY <1>1, <1>2, <1>3, <1>6 DEF Own
  <1>10. Present' = Present \cup {i}
    <2>1. i # None BY <1>4
    <2> QED BY <1>2, <1>6, <1>9, <2>1 DEF Present
  <1>11. Buried' BY <1>3, <1>4, <1>10 DEF NamesInv, Buried, Live
  <1>12. OwnSuffixes' BY <1>2, <1>8, <1>9 DEF NamesInv, OwnSuffixes
  <1>13. Unlinked' BY <1>2, <1>4, <1>9 DEF NamesInv, Unlinked
  <1>14. Live' = Live BY <1>3 DEF Live
  <1>15. HaveFiles'
    <2>1. \A j \in Live \ removed : j \in Present \/ j = i
      BY <1>3 DEF NamesInv, HaveFiles, Rendering, W, i
    <2> QED BY <1>3, <1>10, <1>14, <2>1 DEF HaveFiles
  <1>16. W'.pc = "entities" /\ W'.note = i BY <1>1 DEF W
  <1>17. Scanned' BY <1>16 DEF Scanned
  <1> QED BY <1>3, <1>4, <1>11, <1>12, <1>13, <1>14, <1>15, <1>16, <1>17, Underway

(* On the way to a projection every note has its file.                        *)
LEMMA NamesToScan ==
    ASSUME VaultTypes, VaultAssumption, NamesInv, proc'[Chat] = Resting,
           files' = files, index' = index, dead' = dead, removed' = removed,
           W.pc \in {"idle", "entities"}, W'.pc = "scan",
           fresh' = FALSE \/ (fresh' = fresh /\ (~fresh \/ W.pc = "entities"))
    PROVE  NamesInv'
  <1>1. Own' = Own /\ Present' = Present /\ OwnSuffixes' /\ Unlinked' BY FilesKept
  <1>2. Live' = Live BY DEF Live
  <1>3. Buried' BY <1>1 DEF NamesInv, Buried
  <1>4. HaveFiles'
    <2>1. \A j \in Live \ removed : j \in Present BY DEF NamesInv, HaveFiles, Rendering, W
    <2> QED BY <1>1, <1>2, <2>1 DEF HaveFiles
  <1>5. Scanned' BY DEF Scanned
  <1> QED BY <1>1, <1>3, <1>4, <1>5, Underway

(* The scan sees the file of every note the user kept.                        *)
LEMMA NamesScan ==
    ASSUME VaultTypes, VaultAssumption, NamesInv, proc'[Chat] = Resting, Scan(Worker)
    PROVE  NamesInv'
  <1>1. Worker \in Threads BY DEF Threads
  <1>2. W'.pc = "bury" /\ W'.present = Present /\ W.pc = "scan"
    BY <1>1, ScanTypes DEF W, Scan, At
  <1>3. /\ files' = files /\ index' = index /\ dead' = dead /\ removed' = removed
        /\ fresh' = fresh
    BY DEF Scan, truth, history
  <1>4. Own' = Own /\ Present' = Present /\ OwnSuffixes' /\ Unlinked' BY <1>3, FilesKept
  <1>5. Live' = Live BY <1>3 DEF Live
  <1>6. Buried' BY <1>3, <1>4 DEF NamesInv, Buried
  <1>7. \A j \in Live \ removed : j \in Present
    BY <1>2 DEF NamesInv, HaveFiles, Rendering, W
  <1>8. HaveFiles' /\ Scanned' BY <1>2, <1>3, <1>4, <1>5, <1>7 DEF HaveFiles, Scanned
  <1> QED BY <1>2, <1>3, <1>4, <1>6, <1>8, Underway

(* Only what the user removed is missing.                                     *)
LEMMA NamesBury ==
    ASSUME VaultTypes, VaultAssumption, NamesInv, proc'[Chat] = Resting, Bury(Worker)
    PROVE  NamesInv'
  <1>1. Worker \in Threads BY DEF Threads
  <1>2. W'.pc = "views" /\ W.pc = "bury" BY <1>1, BuryTypes DEF W, Bury, At
  <1>3. /\ files' = files /\ index' = index /\ removed' = removed
        /\ fresh' = fresh /\ dead' = dead \cup Missing(Worker)
    BY DEF Bury, history
  <1>4. Own' = Own /\ Present' = Present /\ OwnSuffixes' /\ Unlinked' BY <1>3, FilesKept
  <1>5. Live' \subseteq Live BY <1>3 DEF Live
  <1>6. Present \subseteq W.present /\ Live \ removed \subseteq W.present
    BY <1>2 DEF NamesInv, Scanned
  <1>7. Missing(Worker) \subseteq removed /\ Missing(Worker) \cap Present = {}
    BY <1>6 DEF Missing, W
  <1>8. Buried' BY <1>3, <1>4, <1>7 DEF NamesInv, Buried
  <1>9. HaveFiles'
    <2>1. \A j \in Live \ removed : j \in Present
      BY <1>2 DEF NamesInv, HaveFiles, Rendering, W
    <2> QED BY <1>3, <1>4, <1>5, <2>1 DEF HaveFiles
  <1>10. Scanned' BY <1>2 DEF Scanned
  <1> QED BY <1>2, <1>3, <1>4, <1>8, <1>9, <1>10, Underway

(* The views list the current notes.                                          *)
LEMMA NamesViews ==
    ASSUME VaultTypes, VaultAssumption, NamesInv, proc'[Chat] = Resting, WriteViews(Worker)
    PROVE  NamesInv'
  <1>1. Worker \in Threads BY DEF Threads
  <1>2. W'.pc = "snapshot" /\ W.pc = "views" BY <1>1, WriteViewsTypes DEF W, WriteViews, At
  <1>3. /\ files' = files /\ index' = index /\ dead' = dead /\ removed' = removed
        /\ fresh' = fresh /\ views' = Live
    BY DEF WriteViews, truth, history
  <1>4. Own' = Own /\ Present' = Present /\ OwnSuffixes' /\ Unlinked' BY <1>3, FilesKept
  <1>5. Live' = Live BY <1>3 DEF Live
  <1>6. Buried' BY <1>3, <1>4 DEF NamesInv, Buried
  <1>7. HaveFiles'
    <2>1. \A j \in Live \ removed : j \in Present
      BY <1>2 DEF NamesInv, HaveFiles, Rendering, W
    <2> QED BY <1>3, <1>4, <1>5, <2>1 DEF HaveFiles
  <1>8. Scanned' BY <1>2 DEF Scanned
  <1> QED BY <1>2, <1>3, <1>4, <1>5, <1>6, <1>7, <1>8, Underway

(* All current notes wait for their turn.                                     *)
LEMMA NamesSnapshot ==
    ASSUME VaultTypes, VaultAssumption, SuffixesApart, NamesInv, proc'[Chat] = Resting,
           Snapshot(Worker)
    PROVE  NamesInv'
  <1>1. Worker \in Threads /\ Named BY NamesNamed DEF Threads
  <1>2. /\ W'.pc = "read" /\ W'.todo = Live /\ W'.stems = PlanFilenames(Live)
        /\ W.pc = "snapshot"
    BY <1>1, SnapshotTypes DEF W, Snapshot, At
  <1>3. /\ files' = files /\ index' = index /\ dead' = dead /\ removed' = removed
        /\ slug' = slug /\ views' = views
    BY DEF Snapshot, truth
  <1>4. Own' = Own /\ Present' = Present /\ OwnSuffixes' /\ Unlinked' BY <1>3, FilesKept
  <1>5. Live' = Live /\ PlanFilenames(Live)' = PlanFilenames(Live) BY <1>3, PlanSame
  <1>6. Buried' BY <1>3, <1>4 DEF NamesInv, Buried
  <1>7. Rendering(Worker)' /\ views = Live BY <1>2 DEF Rendering, W, NamesInv
  <1>8. HaveFiles' /\ Scanned' /\ Held' BY <1>2, <1>7 DEF HaveFiles, Scanned, Held
  <1>9. Planning' BY <1>2, <1>5 DEF Planning
  <1>10. Rendered' BY <1>2, <1>5 DEF Rendered
  <1>11. ~Settled' BY <1>1, <1>2 DEF Settled, Quiet, Idle, W
  <1>12. NotesOnDisk' /\ LinksResolve' /\ ViewsAgree' BY <1>11, NotSettled, PTL
  <1> QED
    BY <1>2, <1>3, <1>4, <1>5, <1>6, <1>7, <1>8, <1>9, <1>10, <1>12 DEF NamesInv

(* Reading a body changes no file.                                            *)
LEMMA NamesRead ==
    ASSUME VaultTypes, VaultAssumption, NamesInv, proc'[Chat] = Resting, ReadBody(Worker)
    PROVE  NamesInv'
  <1>1. Worker \in Threads BY DEF Threads
  <1>2. W'.pc = "put" /\ W'.todo = W.todo /\ W'.stems = W.stems /\ W.pc = "read"
    BY <1>1, ReadTypes DEF W, ReadBody, At
  <1>3. /\ files' = files /\ index' = index /\ dead' = dead /\ removed' = removed
        /\ slug' = slug /\ views' = views /\ fresh' = fresh
    BY DEF ReadBody, truth
  <1>4. Own' = Own /\ Present' = Present /\ OwnSuffixes' /\ Unlinked' BY <1>3, FilesKept
  <1>5. Live' = Live /\ PlanFilenames(Live)' = PlanFilenames(Live) BY <1>3, PlanSame
  <1>6. Buried' BY <1>3, <1>4 DEF NamesInv, Buried
  <1>7. Rendering(Worker) /\ Rendering(Worker)' /\ views = Live
    BY <1>2 DEF Rendering, W, NamesInv
  <1>8. HaveFiles' /\ Scanned' /\ Held' BY <1>2, <1>7 DEF HaveFiles, Scanned, Held
  <1>9. Planning'
    BY <1>2, <1>3, <1>4, <1>5, <1>7 DEF NamesInv, Planning, FileOf
  <1>10. Rendered'
    BY <1>2, <1>3, <1>4, <1>5, <1>7 DEF NamesInv, Rendered, FileOf
  <1>11. ~Settled' BY <1>1, <1>2 DEF Settled, Quiet, Idle, W
  <1>12. NotesOnDisk' /\ LinksResolve' /\ ViewsAgree' BY <1>11, NotSettled, PTL
  <1> QED
    BY <1>2, <1>3, <1>4, <1>5, <1>6, <1>7, <1>8, <1>9, <1>10, <1>12 DEF NamesInv

(* The name of the note whose turn it is, among the planned ones.             *)
LEMMA TurnName ==
    ASSUME VaultTypes, VaultAssumption, SuffixesApart, NamesInv, Rendering(Worker), W.todo # {}
    PROVE  /\ W.stems = PlanFilenames(Live) /\ W.todo \subseteq Live /\ views = Live
           /\ \A j \in Live \ removed : j \in W.todo \/ FileOf(j, PlanFilenames(Live)[j])
           /\ Following(Worker) \in W.todo /\ Following(Worker) \in Live
           /\ Following(Worker) \in Ids /\ NoteStem(Worker) \in Stems
           /\ NoteStem(Worker) = PlanFilenames(Live)[Following(Worker)]
           /\ DOMAIN PlanFilenames(Live) = Live
           /\ \A j \in Live : j # Following(Worker) => PlanFilenames(Live)[j] # NoteStem(Worker)
           /\ \A sl \in Slugs, j \in Ids :
                 Suffixed[<<sl, j>>] = NoteStem(Worker) => j = Following(Worker)
  <1> DEFINE i == Following(Worker)
             P == PlanFilenames(Live)
  <1>1. Worker \in Threads BY DEF Threads
  <1>2. /\ W.stems = P /\ W.todo \subseteq Live /\ views = Live
        /\ \A j \in Live \ removed : j \in W.todo \/ FileOf(j, P[j])
    BY DEF NamesInv, Planning
  <1>3. i \in W.todo /\ i \in Live /\ i \in Ids /\ W.stems[i] \in Stems
    BY <1>1, <1>2, FollowingTyped DEF W
  <1>4. Live \subseteq Ids /\ slug \in [Ids -> Slugs] BY LiveTyped DEF VaultTypes
  <1>5. /\ P \in [Live -> Stems]
        /\ \A j \in Live : P[j] = slug[j] \/ P[j] = Suffixed[<<slug[j], j>>]
        /\ \A j, k \in Live : P[j] = P[k] => j = k
    BY <1>4, DistinctNames
  <1> HIDE DEF P, i
  <1>6. slug[i] \in Slugs /\ (P[i] = slug[i] \/ P[i] = Suffixed[<<slug[i], i>>])
    BY <1>3, <1>4, <1>5
  <1>7. \A sl \in Slugs, j \in Ids : Suffixed[<<sl, j>>] = P[i] => j = i
    BY <1>3, <1>6, SuffixOfOne
  <1>8. NoteStem(Worker) = P[i] /\ P[i] \in Stems BY <1>2, <1>3 DEF NoteStem, W, i
  <1>9. \A j \in Live : j # i => P[j] # P[i] BY <1>3, <1>5
  <1> QED BY <1>2, <1>3, <1>5, <1>7, <1>8, <1>9 DEF P, i

(* A file emptied under another note's name is not one already rendered.      *)
LEMMA NamesOpenNote ==
    ASSUME VaultTypes, VaultAssumption, SuffixesApart, NamesInv, OneProcess, OpenNote(Worker)
    PROVE  NamesInv'
  <1> DEFINE i == Following(Worker)
             st == NoteStem(Worker)
             P == PlanFilenames(Live)
  <1>1. Worker \in Threads BY DEF Threads
  <1>2. /\ W'.pc = "writing" /\ W'.stems = W.stems /\ W'.todo = W.todo /\ W'.open = st
        /\ Rendering(Worker) /\ W.todo # {} /\ W.pc = "put"
    BY <1>1, OpenNoteTypes DEF W, OpenNote, At
  <1>3. PICK part : files' = [files EXCEPT ![st] = part] BY <1>1, OpenNoteTypes
  <1>4. /\ index' = index /\ dead' = dead /\ removed' = removed
        /\ slug' = slug /\ views' = views /\ fresh' = fresh /\ DOMAIN files = Stems
    BY DEF OpenNote, truth, history, VaultTypes
  <1>5. Live' = Live /\ PlanFilenames(Live)' = P BY <1>4, PlanSame
  <1>6. /\ W.stems = P /\ W.todo \subseteq Live /\ views = Live
        /\ \A j \in Live \ removed : j \in W.todo \/ FileOf(j, P[j])
        /\ i \in W.todo /\ i \in Live /\ st \in Stems /\ st = P[i]
        /\ \A j \in Live : j # i => P[j] # st
    BY <1>2, TurnName
  <1>7. Following(Worker)' = i /\ st = W.stems[i] BY <1>2, <1>4 DEF Following, NoteStem, W
  <1> HIDE DEF P, i, st
  <1>8. st # None BY <1>6, NoneAssumption
  <1>9. proc'[Chat] = Resting /\ files'[st] = Blank BY <1>2, <1>8 DEF OneProcess, W
  <1>10. Blank # None /\ Blank.id = None /\ Blank.links = {} BY BlankTyped DEF Blank
  <1>11. Own' = Own \cup {st} /\ \A s \in Own \ {st} : files'[s] = files[s]
    BY <1>3, <1>4, <1>6, <1>9, <1>10 DEF Own
  <1>12. Present' \subseteq Present BY <1>9, <1>10, <1>11 DEF Present
  <1>13. Buried' BY <1>4, <1>12 DEF NamesInv, Buried
  <1>14. OwnSuffixes' BY <1>9, <1>10, <1>11 DEF NamesInv, OwnSuffixes
  <1>15. Unlinked' BY <1>9, <1>10, <1>11 DEF NamesInv, Unlinked
  <1>16. ASSUME NEW j \in Live, j # i, FileOf(j, P[j])
         PROVE  P[j] \in Own' /\ files'[P[j]].id = j /\ files'[P[j]] = files[P[j]]
    BY <1>6, <1>11, <1>16 DEF FileOf
  <1>17. Rendering(Worker)' BY <1>2 DEF Rendering, W
  <1>18. Planning'
    <2>1. \A j \in Live \ removed : j \in W'.todo \/ (P[j] \in Own' /\ files'[P[j]].id = j)
      BY <1>2, <1>6, <1>16
    <2> QED BY <1>2, <1>4, <1>5, <1>6, <2>1 DEF Planning, FileOf
  <1>19. Rendered'
    <2> SUFFICES ASSUME fresh', NEW j \in Live \ W'.todo
                 PROVE  /\ P[j] \in Own' /\ files'[P[j]].id = j
                        /\ \A link \in files'[P[j]].links : \E k \in Live : link = <<k, P[k]>>
      BY <1>2, <1>5, <1>6 DEF Rendered, FileOf
    <2>1. j \in Live \ W.todo /\ j # i BY <1>2, <1>6
    <2>2. /\ FileOf(j, P[j])
          /\ \A link \in files[P[j]].links : \E k \in Live : link = <<k, P[k]>>
      BY <1>2, <1>4, <1>6, <2>1 DEF NamesInv, Rendered
    <2> QED BY <1>16, <2>1, <2>2
  <1>20. HaveFiles' /\ Scanned' BY <1>2, <1>17 DEF HaveFiles, Scanned
  <1>21. Held' BY <1>2, <1>6, <1>7, <1>9, <1>11 DEF Held
  <1>22. ~Settled' BY <1>1, <1>2 DEF Settled, Quiet, Idle, W
  <1>23. NotesOnDisk' /\ LinksResolve' /\ ViewsAgree' BY <1>22, NotSettled, PTL
  <1> QED
    BY <1>2, <1>4, <1>5, <1>6, <1>9, <1>13, <1>14, <1>15, <1>18, <1>19, <1>20, <1>21, <1>23
    DEF NamesInv

(* A note whose file is as it should be is rendered, written or left alone.   *)
LEMMA NamesPut ==
    ASSUME VaultTypes, VaultAssumption, SuffixesApart, NamesInv, proc'[Chat] = Resting,
           PutNote(Worker) \/ KeepNote(Worker)
    PROVE  NamesInv'
  <1> DEFINE i == Following(Worker)
             st == NoteStem(Worker)
             r == NoteFile(Worker)
             P == PlanFilenames(Live)
  <1>1. Worker \in Threads BY DEF Threads
  <1>2. /\ W'.pc = "read" /\ W'.stems = W.stems /\ W'.todo = W.todo \ {i}
        /\ Rendering(Worker) /\ W.todo # {} /\ W.pc \in {"put", "writing"}
    BY <1>1, PutTypes, KeepTypes DEF W, PutNote, KeepNote, At
  <1>3. /\ r # None /\ r.id = i /\ r.links = Wikilinks(Worker, i)
    BY <1>1, NoteFileTyped DEF PutNote, KeepNote
  <1>4. /\ index' = index /\ dead' = dead /\ removed' = removed
        /\ slug' = slug /\ views' = views /\ fresh' = fresh /\ DOMAIN files = Stems
    BY DEF PutNote, KeepNote, truth, history, VaultTypes
  <1>5. Live' = Live /\ PlanFilenames(Live)' = P BY <1>4, PlanSame
  <1>6. /\ W.stems = P /\ W.todo \subseteq Live /\ views = Live /\ DOMAIN P = Live
        /\ \A j \in Live \ removed : j \in W.todo \/ FileOf(j, P[j])
        /\ i \in W.todo /\ i \in Live /\ i \in Ids /\ st \in Stems /\ st = P[i]
        /\ \A j \in Live : j # i => P[j] # st
        /\ \A sl \in Slugs, j \in Ids : Suffixed[<<sl, j>>] = st => j = i
    BY <1>2, TurnName
  <1>7. i # None BY <1>6, VaultAssumption DEF VaultAssumption
  <1>8. \A link \in r.links : \E j \in Live : link = <<j, P[j]>>
    <2> HIDE DEF P, i
    <2> SUFFICES ASSUME NEW link \in Wikilinks(Worker, i) PROVE \E j \in Live : link = <<j, P[j]>>
      BY <1>3
    <2>2. PICK j \in DOMAIN W.stems : link = <<j, W.stems[j]>> BY DEF Wikilinks, W
    <2> QED BY <1>6, <2>2
  <1>9. files' = [files EXCEPT ![st] = r]
    <2>1. CASE KeepNote(Worker)
      <3>1. files' = files /\ files[st] = r /\ st \in Stems BY <1>6, <2>1 DEF KeepNote
      <3>2. files \in [Stems -> File \cup {None}] BY DEF VaultTypes
      <3> HIDE DEF st, r
      <3> QED BY <3>1, <3>2
    <2>2. CASE PutNote(Worker)
      <3>1. W.open = st BY <2>2 DEF PutNote, At, NamesInv, Held, NoteStem, W
      <3> QED BY <2>2, <3>1 DEF PutNote, W
    <2> QED BY <2>1, <2>2
  <1> HIDE DEF P, i, st, r
  <1>13. Own' = Own \cup {st} /\ files'[st] = r /\ \A s \in Own \ {st} : files'[s] = files[s]
    BY <1>3, <1>4, <1>6, <1>9 DEF Own
  <1>14. Present' \subseteq Present \cup {i} BY <1>3, <1>13 DEF Present
  <1>15. Buried' BY <1>4, <1>6, <1>14 DEF NamesInv, Buried, Live
  <1>16. OwnSuffixes' BY <1>3, <1>6, <1>13 DEF NamesInv, OwnSuffixes
  <1>17. Unlinked' BY <1>3, <1>7, <1>13 DEF NamesInv, Unlinked
  <1>19. ASSUME NEW j \in Live, j # i, FileOf(j, P[j])
         PROVE  P[j] \in Own' /\ files'[P[j]].id = j /\ files'[P[j]] = files[P[j]]
    BY <1>6, <1>13, <1>19 DEF FileOf
  <1>20. Rendering(Worker)' BY <1>2 DEF Rendering, W
  <1>21. Planning'
    <2>1. \A j \in Live \ removed : j \in W'.todo \/ (P[j] \in Own' /\ files'[P[j]].id = j)
      BY <1>2, <1>3, <1>6, <1>13, <1>19
    <2> QED BY <1>2, <1>4, <1>5, <1>6, <2>1 DEF Planning, FileOf
  <1>22. Rendered'
    <2> SUFFICES ASSUME fresh', NEW j \in Live \ W'.todo
                 PROVE  /\ P[j] \in Own' /\ files'[P[j]].id = j
                        /\ \A link \in files'[P[j]].links : \E k \in Live : link = <<k, P[k]>>
      BY <1>2, <1>5, <1>6 DEF Rendered, FileOf
    <2>1. CASE j = i BY <1>3, <1>6, <1>8, <1>13, <2>1
    <2>2. CASE j # i
      <3>1. j \in Live \ W.todo BY <1>2, <2>2
      <3>2. /\ FileOf(j, P[j])
            /\ \A link \in files[P[j]].links : \E k \in Live : link = <<k, P[k]>>
        BY <1>2, <1>4, <1>6, <3>1 DEF NamesInv, Rendered
      <3> QED BY <1>19, <2>2, <3>2
    <2> QED BY <2>1, <2>2
  <1>23. HaveFiles' /\ Scanned' /\ Held' BY <1>2, <1>20 DEF HaveFiles, Scanned, Held
  <1>24. ~Settled' BY <1>1, <1>2 DEF Settled, Quiet, Idle, W
  <1>25. NotesOnDisk' /\ LinksResolve' /\ ViewsAgree' BY <1>24, NotSettled, PTL
  <1> QED
    BY <1>2, <1>4, <1>5, <1>6, <1>15, <1>16, <1>17, <1>20, <1>21, <1>22, <1>23, <1>25
    DEF NamesInv

(* The sweep leaves every note the one file it was given.                     *)
LEMMA NamesSweep ==
    ASSUME VaultTypes, VaultAssumption, SuffixesApart, NamesInv, proc'[Chat] = Resting,
           Sweep(Worker)
    PROVE  NamesInv'
  <1> DEFINE P == PlanFilenames(Live)
  <1>1. Worker \in Threads BY DEF Threads
  <1>2. W'.pc = "idle" /\ W.pc = "read" /\ W.todo = {} /\ Rendering(Worker)
    BY <1>1, SweepTypes DEF W, Sweep, At, Rendering
  <1>3. /\ index' = index /\ dead' = dead /\ removed' = removed
        /\ slug' = slug /\ views' = views /\ fresh' = fresh
        /\ files' = [st \in Stems |-> IF Orphaned(Worker, st) THEN None ELSE files[st]]
    BY DEF Sweep, truth, history
  <1>4. Live' = Live /\ PlanFilenames(Live)' = P BY <1>3, PlanSame
  <1>5. /\ W.stems = P /\ views = Live
        /\ \A j \in Live \ removed : FileOf(j, P[j])
    BY <1>2 DEF NamesInv, Planning
  <1>6. Live \subseteq Ids /\ Live \subseteq Index /\ slug \in [Ids -> Slugs]
    BY LiveTyped DEF VaultTypes
  <1>7. P \in [Live -> Stems] /\ DOMAIN P = Live
    BY <1>6, DistinctNames
  <1> HIDE DEF P
  <1>8. \A st \in Stems : Orphaned(Worker, st) <=>
            st \in Own /\ st \notin {P[j] : j \in Live} /\ files[st].id \in Live
    BY <1>5, <1>7 DEF Orphaned, Own, W
  <1>9. Own' \subseteq Own /\ \A st \in Own' : files'[st] = files[st] /\ ~Orphaned(Worker, st)
    BY <1>3 DEF Own
  <1>10. ASSUME NEW j \in Live, FileOf(j, P[j])
         PROVE  P[j] \in Own' /\ files'[P[j]] = files[P[j]] /\ files'[P[j]].id = j /\ j \in Present'
    <2>1. P[j] \in Stems /\ ~Orphaned(Worker, P[j]) BY <1>7, <1>8
    <2>2. j # None BY <1>6, VaultAssumption DEF VaultAssumption
    <2> QED BY <1>3, <1>10, <2>1, <2>2 DEF FileOf, Own, Present
  <1>11. Present' \subseteq Present BY <1>9 DEF Present
  <1>12. Buried' BY <1>3, <1>11 DEF NamesInv, Buried
  <1>13. OwnSuffixes' /\ Unlinked' BY <1>9 DEF NamesInv, OwnSuffixes, Unlinked
  <1>14. HaveFiles' BY <1>3, <1>4, <1>5, <1>10 DEF HaveFiles
  <1>15. Scanned' /\ Held' /\ ~Rendering(Worker)' BY <1>2 DEF Scanned, Held, Rendering, W
  <1>16. Planning' /\ Rendered' BY <1>15 DEF Planning, Rendered
  <1>17. NotesOnDisk' /\ LinksResolve' /\ ViewsAgree'
    <2>1. CASE ~fresh
      <3>1. ~Settled' BY <1>3, <2>1 DEF Settled
      <3> QED BY <3>1, NotSettled, PTL
    <2>2. CASE fresh
      <3>1. \A j \in Live : /\ FileOf(j, P[j])
                            /\ \A link \in files[P[j]].links : \E k \in Live : link = <<k, P[k]>>
        BY <1>2, <1>5, <2>2 DEF NamesInv, Rendered
      <3>2. ASSUME NEW st \in Own', files'[st].id \in Live PROVE st = P[files'[st].id]
        <4>1. st \in Own /\ files'[st] = files[st] /\ ~Orphaned(Worker, st) /\ st \in Stems
          BY <1>9 DEF Own
        <4>2. PICK j \in Live : st = P[j] BY <1>8, <3>2, <4>1
        <4>3. j = files[st].id BY <3>1, <4>2 DEF FileOf
        <4> QED BY <4>1, <4>2, <4>3
      <3>3. ASSUME NEW j \in Live PROVE {st \in Own' : files'[st].id = j} = {P[j]}
        BY <1>10, <3>1, <3>2
      <3>4. NotesOnDisk' BY <1>4, <3>3 DEF NotesOnDisk
      <3>5. Present' = Live
        <4>1. Live \subseteq Present' BY <1>10, <3>1
        <4>2. Present \subseteq Index /\ dead \cap Present = {}
          BY DEF VaultTypes, NamesInv, Buried
        <4> QED BY <1>11, <4>1, <4>2 DEF Live, Index
      <3>6. ViewsAgree' BY <1>3, <1>4, <1>5, <3>5 DEF ViewsAgree
      <3>7. ASSUME NEW st \in Own', NEW link \in files'[st].links
            PROVE  files'[link[2]] # None /\ files'[link[2]].id = link[1]
        <4>1. st \in Own /\ files'[st] = files[st] BY <1>9
        <4>2. files[st].id # None BY <3>7, <4>1 DEF NamesInv, Unlinked
        <4>3. files[st].id \in Live BY <3>5, <4>1, <4>2 DEF Present
        <4>4. st = P[files[st].id] BY <3>2, <4>1, <4>3
        <4>5. PICK k \in Live : link = <<k, P[k]>> BY <3>1, <3>7, <4>1, <4>3, <4>4
        <4>6. P[k] \in Own' /\ files'[P[k]].id = k BY <1>10, <3>1
        <4> QED BY <4>5, <4>6 DEF Own
      <3>8. LinksResolve' BY <3>7 DEF LinksResolve
      <3> QED BY <3>4, <3>6, <3>8
    <2> QED BY <2>1, <2>2
  <1> QED
    BY <1>2, <1>12, <1>13, <1>14, <1>15, <1>16, <1>17 DEF NamesInv

(* What the user removes is remembered, and nothing else goes.                *)
LEMMA NamesUser ==
    ASSUME VaultTypes, VaultAssumption, SuffixesApart, NamesInv, User
    PROVE  NamesInv'
  <1> DEFINE P == PlanFilenames(Live)
  <1>1. proc' = proc /\ truth' = truth /\ fresh' = FALSE BY UserTypes
  <1>2. /\ index' = index /\ dead' = dead /\ slug' = slug /\ W' = W
        /\ views' = views /\ DOMAIN files = Stems
    BY <1>1 DEF truth, W, User, UserEdits, UserDeletes, UserAdds, Touch, VaultTypes
  <1>3. Live' = Live /\ PlanFilenames(Live)' = P BY <1>2, PlanSame
  <1>4. Rendering(Worker)' = Rendering(Worker) BY <1>1 DEF Rendering
  <1> HIDE DEF P
  <1>5. ~Settled' /\ Rendered' BY <1>1 DEF Settled, Rendered
  <1>6. NotesOnDisk' /\ LinksResolve' /\ ViewsAgree' BY <1>5, NotSettled, PTL
  <1>11. Held'
    <2>1. Following(Worker)' = Following(Worker) /\ Worker \in Threads
      BY <1>1, <1>2 DEF Following, Threads
    <2>2. ASSUME NEW st \in Stems, UserEdits(st) \/ UserDeletes(st), st = W.open PROVE FALSE
      BY <2>1, <2>2 DEF UserEdits, UserDeletes, IsOpen, W
    <2>3. \A st \in Own : st = W.open => files'[st] = files[st]
      BY <1>2, <2>2 DEF User, UserEdits, UserDeletes, UserAdds, Own
    <2>4. W.open \in Own => W.open \in Own' /\ files'[W.open] = files[W.open]
      BY <2>3 DEF Own
    <2> QED BY <1>2, <2>1, <2>4 DEF NamesInv, Held
  <1>7. SUFFICES
          /\ removed \subseteq removed' /\ Present' \subseteq Present
          /\ \A j \in Live \ removed' : j \in Present => j \in Present'
          /\ \A j \in Live \ removed' : FileOf(j, P[j]) => P[j] \in Own' /\ files'[P[j]].id = j
          /\ OwnSuffixes' /\ Unlinked'
    <2>1. Buried' BY <1>2, <1>7 DEF NamesInv, Buried
    <2>2. HaveFiles' BY <1>2, <1>3, <1>4, <1>7 DEF NamesInv, HaveFiles
    <2>3. Scanned' BY <1>2, <1>3, <1>7 DEF NamesInv, Scanned
    <2>4. Planning'
      <3> SUFFICES ASSUME Rendering(Worker)
                   PROVE  /\ W.stems = P /\ W.todo \subseteq Live
                          /\ \A j \in Live \ removed' :
                                j \in W.todo \/ (P[j] \in Own' /\ files'[P[j]].id = j)
        BY <1>2, <1>3, <1>4 DEF Planning, FileOf
      <3>1. /\ W.stems = P /\ W.todo \subseteq Live
            /\ \A j \in Live \ removed : j \in W.todo \/ FileOf(j, P[j])
        BY DEF NamesInv, Planning, P
      <3> QED BY <1>7, <3>1
    <2> QED
      BY <1>1, <1>2, <1>3, <1>4, <1>5, <1>6, <1>7, <1>11, <2>1, <2>2, <2>3, <2>4 DEF NamesInv
  <1>8. ASSUME NEW st \in Stems, UserEdits(st)
        PROVE  /\ removed \subseteq removed' /\ Present' \subseteq Present
               /\ \A j \in Live \ removed' : j \in Present => j \in Present'
               /\ \A j \in Live \ removed' : FileOf(j, P[j]) => P[j] \in Own' /\ files'[P[j]].id = j
               /\ OwnSuffixes' /\ Unlinked'
    <2> DEFINE r == [files[st] EXCEPT !.body = [of |-> files[st].id, text |-> "external"]]
    <2>1. files' = [files EXCEPT ![st] = r] /\ removed' = removed /\ st \in Own
      BY <1>8 DEF UserEdits, Own
    <2>2. VaultTypes' BY UserTypes
    <2>3. files[st] \in File BY <2>1 DEF VaultTypes, Own
    <2>4. r.id = files[st].id /\ r.links = files[st].links BY <2>3 DEF File
    <2>5. r # None
      <3>1. [of |-> files[st].id, text |-> "external"] \in Bodies
        BY <2>3, <1>8, BodyTyped DEF File, UserEdits
      <3>2. r \in File BY <2>3, <3>1 DEF File
      <3> QED BY <3>2, NoneAssumption
    <2> HIDE DEF r
    <2>6. Own' = Own /\ \A s \in Own : files'[s].id = files[s].id /\ files'[s].links = files[s].links
      BY <1>2, <2>1, <2>4, <2>5 DEF Own
    <2>7. Present' = Present BY <2>6 DEF Present
    <2> QED BY <2>1, <2>6, <2>7 DEF NamesInv, OwnSuffixes, Unlinked, FileOf
  <1>9. ASSUME NEW st \in Stems, UserDeletes(st)
        PROVE  /\ removed \subseteq removed' /\ Present' \subseteq Present
               /\ \A j \in Live \ removed' : j \in Present => j \in Present'
               /\ \A j \in Live \ removed' : FileOf(j, P[j]) => P[j] \in Own' /\ files'[P[j]].id = j
               /\ OwnSuffixes' /\ Unlinked'
    <2>1. files' = [files EXCEPT ![st] = None] /\ removed' = removed \cup {files[st].id}
      BY <1>9 DEF UserDeletes
    <2>2. Own' = Own \ {st} /\ \A s \in Own' : files'[s] = files[s]
      BY <1>2, <2>1 DEF Own
    <2>3. Present' \subseteq Present BY <2>2 DEF Present
    <2>4. ASSUME NEW j \in Live \ removed', j \in Present PROVE j \in Present'
      <3>1. PICK s \in Own : files[s].id = j /\ j # None BY <2>4 DEF Present
      <3>2. s # st BY <2>1, <2>4, <3>1
      <3> QED BY <2>2, <3>1, <3>2 DEF Present
    <2>5. ASSUME NEW j \in Live \ removed', FileOf(j, P[j])
          PROVE  P[j] \in Own' /\ files'[P[j]].id = j
      <3>1. P[j] # st BY <2>1, <2>5 DEF FileOf
      <3> QED BY <2>2, <2>5, <3>1 DEF FileOf
    <2>6. OwnSuffixes' /\ Unlinked' BY <2>2 DEF NamesInv, OwnSuffixes, Unlinked
    <2> QED BY <2>1, <2>3, <2>4, <2>5, <2>6
  <1>10. ASSUME NEW st \in Slugs, NEW text \in {"external", "unheaded"}, UserAdds(st, text)
         PROVE  /\ removed \subseteq removed' /\ Present' \subseteq Present
                /\ \A j \in Live \ removed' : j \in Present => j \in Present'
                /\ \A j \in Live \ removed' : FileOf(j, P[j]) => P[j] \in Own' /\ files'[P[j]].id = j
                /\ OwnSuffixes' /\ Unlinked'
    <2> DEFINE r == [id |-> None, body |-> [of |-> None, text |-> text], links |-> {}]
    <2>1. files' = [files EXCEPT ![st] = r] /\ removed' = removed /\ files[st] = None
      BY <1>10 DEF UserAdds
    <2>2. r # None /\ r.id = None /\ r.links = {} BY BodyTyped, FileTyped
    <2>3. st \in Stems BY VaultAssumption DEF VaultAssumption
    <2> HIDE DEF r
    <2>4. /\ Own' = Own \cup {st} /\ st \notin Own /\ files'[st] = r
          /\ \A s \in Own : files'[s] = files[s]
      BY <1>2, <2>1, <2>2, <2>3 DEF Own
    <2>5. Present' = Present BY <2>2, <2>4 DEF Present
    <2>6. OwnSuffixes'
      <3>1. \A sl \in Slugs, i \in Ids : Suffixed[<<sl, i>>] # st
        <4> SUFFICES ASSUME NEW sl \in Slugs, NEW i \in Ids PROVE Suffixed[<<sl, i>>] # st OBVIOUS
        <4>1. <<sl, i>> \in Slugs \X Ids OBVIOUS
        <4> QED BY <4>1 DEF SuffixesApart
      <3> QED BY <2>4, <3>1 DEF NamesInv, OwnSuffixes
    <2>7. Unlinked' BY <2>2, <2>4 DEF NamesInv, Unlinked
    <2>8. \A j : FileOf(j, P[j]) => P[j] \in Own' /\ files'[P[j]].id = j
      BY <2>4 DEF FileOf
    <2> QED BY <2>1, <2>5, <2>6, <2>7, <2>8
  <1> QED BY <1>8, <1>9, <1>10 DEF User

\* The worker acts alone, writes its files and is not killed.
LEMMA Alone ==
    ASSUME VaultTypes, NamesInv, OneProcess
    PROVE  /\ proc'[Chat] = Resting /\ ~WriteFails /\ ~ProjectionFails(Worker) /\ ~Crash
           /\ \A i \in Ids : ~ApplyPlan(i)
           /\ \A t \in Threads : Project(t) => t = Worker
           /\ \A t \in Threads, i \in Ids, title \in Slugs :
                \A body : Edit(t, i, title, body) => t = Worker
  <1>1. /\ proc'[Chat] = Resting /\ proc[Chat] = Resting /\ Resting.pc = "idle"
        /\ ~WriteFails /\ ~ProjectionFails(Worker)
    BY RestingTyped DEF OneProcess, NamesInv
  <1>2. ~Crash BY DEF OneProcess, Crash, VaultTypes
  <1>3. ASSUME NEW i \in Ids, ApplyPlan(i) PROVE FALSE
    <2>1. proc'[Chat].pc = "views" BY <1>3, VaultAssumption, ApplyPlanTypes
    <2> QED BY <1>1, <2>1
  <1>4. ~Project(Chat)
    BY <1>1 DEF Project, Scan, Bury, WriteViews, Snapshot, ReadBody, KeepNote, OpenNote, PutNote,
       ProjectionFails, Sweep, At
  <1>5. ASSUME NEW i \in Ids, NEW title \in Slugs, NEW body, Edit(Chat, i, title, body), Chat # Worker
        PROVE  FALSE
    <2>1. Chat \in Threads BY DEF Threads
    <2>2. proc'[Chat].pc = "views" BY <1>5, <2>1, EditTypes
    <2> QED BY <1>1, <2>2
  <1> QED BY <1>1, <1>2, <1>3, <1>4, <1>5 DEF Threads

(* Every step keeps the invariant of the names setting.                       *)
LEMMA NamesStep ==
    ASSUME VaultTypes, VaultAssumption, SuffixesApart, NamesInv, OneProcess, Next
    PROVE  NamesInv'
  <1>1. proc'[Chat] = Resting /\ Worker \in Threads BY Alone DEF Threads
  <1>2. ASSUME NEW i \in Ids, Commit(i) PROVE NamesInv' BY <1>1, <1>2, NamesCommit
  <1>3. CASE OpenFile \/ WriteFile BY <1>1, <1>3, NamesOpenFile, NamesWriteFile
  <1>4. CASE AddEntities
    <2>1. W'.pc = "scan" BY <1>4, AddEntitiesTypes DEF W
    <2>2. /\ files' = files /\ index' = index /\ dead' = dead /\ removed' = removed
          /\ fresh' = fresh /\ W.pc = "entities"
      BY <1>4 DEF AddEntities, history, OneProcess, At, W
    <2> QED BY <1>1, <2>1, <2>2, NamesToScan
  <1>5. CASE Rerender
    <2>1. W'.pc = "scan" BY <1>5, RerenderTypes DEF W
    <2>2. /\ files' = files /\ index' = index /\ dead' = dead /\ removed' = removed
          /\ fresh' = fresh /\ ~fresh /\ W.pc = "idle"
      BY <1>1, <1>5 DEF Rerender, truth, history, Quiet, Idle, W
    <2> QED BY <1>1, <2>1, <2>2, NamesToScan
  <1>6. ASSUME NEW t \in Threads, NEW i \in Ids, NEW title \in Slugs, NEW body,
               Edit(t, i, title, body)
        PROVE  NamesInv'
    <2>1. t = Worker BY <1>6, Alone
    <2>2. W'.pc = "scan" BY <1>6, <2>1, EditTypes DEF W
    <2>3. /\ files' = files /\ index' = index /\ dead' = dead /\ removed' = removed
          /\ fresh' = FALSE /\ W.pc = "idle"
      BY <1>6, <2>1 DEF Edit, Idle, W
    <2> QED BY <1>1, <2>2, <2>3, NamesToScan
  <1>7. ASSUME NEW t \in Threads, Project(t) PROVE NamesInv'
    <2>1. t = Worker BY <1>7, Alone
    <2> QED
      BY <1>1, <1>7, <2>1, Alone, NamesScan, NamesBury, NamesViews, NamesSnapshot, NamesRead,
         NamesOpenNote, NamesPut, NamesSweep DEF Project
  <1>8. CASE User BY <1>8, NamesUser
  <1> QED BY <1>2, <1>3, <1>4, <1>5, <1>6, <1>7, <1>8, Alone DEF Next

(* What is tombstoned stays so.                                               *)
LEMMA DeadGrows ==
    ASSUME Next
    PROVE  dead \subseteq dead'
  <1>1. ASSUME NEW t, Project(t) PROVE dead \subseteq dead'
    BY <1>1 DEF Project, Scan, Bury, WriteViews, Snapshot, ReadBody, KeepNote, OpenNote, PutNote,
       ProjectionFails, Sweep, truth
  <1>2. ASSUME User PROVE dead \subseteq dead'
    BY <1>2 DEF User, UserEdits, UserDeletes, UserAdds, Touch, truth
  <1> QED
    BY <1>1, <1>2 DEF Next, Commit, ApplyPlan, OpenFile, WriteFile, WriteFails, AddEntities, Rerender, Edit,
       Crash, truth

(* A step of nothing keeps the invariant.                                     *)
LEMMA NamesUnchanged ==
    ASSUME UNCHANGED vars, NamesInv
    PROVE  NamesInv'
  <1>1. /\ index' = index /\ dead' = dead /\ slug' = slug /\ files' = files /\ proc' = proc
        /\ views' = views /\ fresh' = fresh /\ removed' = removed
    BY DEF vars, truth, history
  <1>2. Own' = Own /\ Present' = Present /\ OwnSuffixes' /\ Unlinked' BY <1>1, FilesKept
  <1>3. Live' = Live /\ PlanFilenames(Live)' = PlanFilenames(Live) BY <1>1, PlanSame
  <1>4. W' = W /\ Rendering(Worker)' = Rendering(Worker) /\ Settled' = Settled
    BY <1>1 DEF W, Rendering, Settled, Quiet, Idle
  <1>8. Following(Worker)' = Following(Worker) BY <1>1 DEF Following
  <1>9. Held' BY <1>1, <1>2, <1>4, <1>8 DEF NamesInv, Held
  <1>5. Buried' /\ HaveFiles' /\ Scanned'
    BY <1>1, <1>2, <1>3, <1>4 DEF NamesInv, Buried, HaveFiles, Scanned
  <1>6. Planning' /\ Rendered'
    BY <1>1, <1>2, <1>3, <1>4 DEF NamesInv, Planning, Rendered, FileOf
  <1>7. NotesOnDisk' /\ LinksResolve' /\ ViewsAgree'
    BY <1>1, <1>2, <1>3, <1>4 DEF NamesInv, NotesOnDisk, LinksResolve, ViewsAgree
  <1> QED BY <1>1, <1>2, <1>3, <1>4, <1>5, <1>6, <1>7, <1>9 DEF NamesInv

NamesHold == setting = "names" => VaultTypes /\ NamesInv

(* The invariant of the names setting holds throughout.                       *)
LEMMA NamesInvariance == SuffixesApart /\ VaultSpec => []NamesHold
  <1>1. VaultInit => NamesHold
    <2> SUFFICES ASSUME VaultInit PROVE VaultTypes /\ NamesInv BY DEF NamesHold
    <2>1. /\ VaultTypes /\ Index = {} /\ Own = {} /\ Present = {}
          /\ proc = [t \in Threads |-> Resting] /\ \A t \in Threads : proc[t].pc = "idle"
      BY VaultAssumption, InitTypes DEF VaultInit
    <2>2. dead = {} /\ removed = {} /\ fresh = FALSE /\ views = {} /\ Live = {}
      BY <2>1 DEF VaultInit, Init, Live, Index
    <2>3. proc[Chat] = Resting /\ W.pc = "idle" /\ ~Rendering(Worker)
      BY <2>1 DEF Threads, W, Rendering
    <2>4. ~Settled BY <2>2 DEF Settled
    <2>5. Buried /\ OwnSuffixes /\ Unlinked /\ Held /\ HaveFiles /\ Scanned /\ Planning /\ Rendered
      BY <2>1, <2>2, <2>3 DEF Buried, OwnSuffixes, Unlinked, Held, HaveFiles, Scanned, Planning, Rendered
    <2> QED BY <2>1, <2>2, <2>3, <2>4, <2>5, NotSettled DEF NamesInv
  <1>2. SuffixesApart /\ NamesHold /\ [VaultNext]_<<setting, vars>> => NamesHold'
    <2> SUFFICES ASSUME SuffixesApart, NamesHold, [VaultNext]_<<setting, vars>>, setting' = "names"
                 PROVE  VaultTypes' /\ NamesInv'
      BY DEF NamesHold
    <2>1. setting = "names" /\ VaultTypes /\ NamesInv BY DEF VaultNext, NamesHold
    <2>2. CASE VaultNext
      <3>1. Next /\ OneProcess BY <2>1, <2>2 DEF VaultNext
      <3>2. Named BY <2>1, VaultAssumption, NamesNamed
      <3> QED BY <2>1, <3>1, <3>2, VaultAssumption, TypesStep, NamesStep
    <2>3. CASE UNCHANGED vars BY <2>1, <2>3, Unchanged, NamesUnchanged
    <2> QED BY <2>2, <2>3
  <1>3. SuffixesApart => []SuffixesApart BY DEF SuffixesApart, PTL
  <1> QED BY <1>1, <1>2, <1>3, PTL DEF VaultSpec

(* Whatever the titles and their edits and whatever the user does to the      *)
(* files meanwhile, after a projection the vault is what the index says       *)
(* (project.py, write_projections and write_notes).                           *)
THEOREM VaultShowsTheIndex == SuffixesApart /\ VaultSpec => []VaultAgrees
  <1>1. NamesHold => VaultAgrees BY DEF NamesHold, NamesInv, VaultAgrees
  <1> QED BY <1>1, NamesInvariance, PTL

(* A note is tombstoned only because the user removed its file, and then it   *)
(* is not written again (project.py, _tombstone_user_deletions).              *)
THEOREM OnlyTheUserDeletes == SuffixesApart /\ VaultSpec => DeletionsAreTheUsers
  <1>1. NamesHold' /\ [VaultNext]_<<setting, vars>>
        => [setting = "names" => OnlyUserDeletes' /\ StaysGone]_vars
    <2> SUFFICES ASSUME NamesHold', VaultNext, setting = "names"
                 PROVE  OnlyUserDeletes' /\ StaysGone
      OBVIOUS
    <2>1. Buried' BY DEF NamesHold, NamesInv, VaultNext
    <2>2. dead \subseteq dead' BY DeadGrows DEF VaultNext
    <2> QED BY <2>1, <2>2 DEF Buried, OnlyUserDeletes, StaysGone
  <1> QED BY <1>1, NamesInvariance, PTL DEF VaultSpec, DeletionsAreTheUsers

=============================================================================
