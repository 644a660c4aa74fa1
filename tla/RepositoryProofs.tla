-------------------------- MODULE RepositoryProofs --------------------------
(***************************************************************************)
(* For every set of notes, threads and values: on a disk that writes lines  *)
(* whole, the note index never shows what a restart would forget, and a     *)
(* deletion is never undone; used by one thread, a restart shows what was   *)
(* shown.  The similarity table never answers with a deleted note or one    *)
(* farther than the scan's, and for one thread its answers are the scan's,  *)
(* up to a tie at the limit.                                                *)
(***************************************************************************)
EXTENDS Repository, FiniteSetTheorems, TLAPS

-----------------------------------------------------------------------------
(* The repository is its two parts                                            *)

(* Every step of the repository is a step of its log or leaves the log alone, *)
(* and likewise for the table.                                                *)
THEOREM RepositoryImplements == RepositorySpec => Spec /\ Table!Spec
  <1>1. RepositoryInit => Init /\ Table!Init
    BY DEF RepositoryInit
  <1>2. [RepositoryNext]_<<part, solo, vars, tableVars>> => [Next]_vars /\ [Table!Next]_(Table!vars)
    BY DEF RepositoryNext, tableVars, Table!vars, Table!store, Table!table, Table!counts,
           Table!history
  <1> QED
    BY <1>1, <1>2, PTL DEF RepositorySpec, Spec, Table!Spec

-----------------------------------------------------------------------------
(* Restarts                                                                   *)

\* A memory as one value, what applying a line makes of it, and what it shows.
Memory == [notes |-> notes, edges |-> edges, events |-> events, tombstones |-> tombstones]
Blank  == [notes |-> {}, edges |-> {}, events |-> <<>>, tombstones |-> {}]

LiveIn(m, id) == id \in m.notes \ m.tombstones
AttachedIn(m, id) == {m.events[i].value : i \in {j \in 1..Len(m.events) :
                          m.events[j].kind = "resource" /\ m.events[j].id = id}}
CountsIn(m, r) ==
    \/ r.kind = "status" /\ Derived(m.events, "status", r.id, m.notes) # r.value
    \/ r.kind = "edit" /\ LiveIn(m, r.id) /\ Derived(m.events, "edit", r.id, m.notes) # r.value
    \/ r.kind = "resource" /\ r.id \in m.notes /\ r.value \notin AttachedIn(m, r.id)
    \/ r.kind = "deleted" /\ LiveIn(m, r.id)
After(m, r) ==
    [notes |-> IF r.kind = "note" THEN m.notes \cup {r.id} ELSE m.notes,
     edges |-> IF r.kind = "edge" THEN m.edges \cup {<<r.id, r.value>>} ELSE m.edges,
     events |-> IF CountsIn(m, r) THEN Append(m.events, r) ELSE m.events,
     tombstones |-> IF r.kind = "deleted" /\ r.id \in m.notes
                    THEN m.tombstones \cup {r.id} ELSE m.tombstones]
ViewOf(m) == [id \in m.notes \ m.tombstones |->
                 <<Derived(m.events, "status", id, m.notes),
                   Derived(m.events, "edit", id, m.notes), AttachedIn(m, id)>>]

(* Applying a line depends on nothing but the memory and the line.            *)
LEMMA AppliedIsAfter == ASSUME NEW r, Applied(r) PROVE Memory' = After(Memory, r)
  <1>1. Counts(r) <=> CountsIn(Memory, r)
    BY DEF Counts, CountsIn, Memory, Live, LiveIn, StatusOf, FieldOf, Attached, AttachedIn
  <1>2. /\ notes' = After(Memory, r).notes /\ edges' = After(Memory, r).edges
        /\ tombstones' = After(Memory, r).tombstones
    BY DEF Applied, Tombstoned, After, Memory
  <1>3. events' = After(Memory, r).events
    BY <1>1 DEF Applied, Logged, After, Memory
  <1>4. Memory' = [notes |-> notes', edges |-> edges', events |-> events',
                   tombstones |-> tombstones']
    BY DEF Memory
  <1> QED
    BY <1>2, <1>3, <1>4 DEF After

(* What is shown is a function of the memory.                                 *)
LEMMA ViewIsViewOf == View = ViewOf(Memory)
  BY DEF View, ViewOf, Memory, StatusOf, FieldOf, Attached, AttachedIn

\* How far the memory has got in the file.
Taken == IF phase = "loading" THEN cursor - 1
         ELSE IF stage[Main] = "apply" THEN Len(file) - 1 ELSE Len(file)

\* The memories the lines of the file make, one after the other.
Chain(M) == /\ M[0] = Blank
            /\ \A i \in 1..Len(file) : M[i] = After(M[i - 1], file[i])

LogTypes ==
    /\ file \in Seq(Record \cup {Garbled}) /\ cursor \in Nat \ {0}
    /\ op \in [Writers -> Record \cup {None}]
    /\ stage \in [Writers -> {"idle", "append", "apply"}]
    /\ phase \in {"up", "loading", "failed"}
    /\ \A w \in Writers : stage[w] = "idle" <=> op[w] = None
    /\ \A w \in Writers : stage[w] # "idle" => phase = "up"
    /\ phase = "loading" => cursor <= Len(file) + 1

\* What the thread does is shown by no process that died between operations; its line is
\* the last of the file.
OneAtWork ==
    /\ stage[Main] # "idle" => shown = None
    /\ stage[Main] = "apply" => Len(file) > 0 /\ (Garbled \notin Lines => op[Main] = file[Len(file)])
    /\ Garbled \in Lines /\ phase = "up" => shown = None
    /\ phase = "loading" => \A i \in 1..(cursor - 1) : file[i] # Garbled

\* The memory is what the lines it has taken make of it, and what was shown before a death of
\* the process is what all lines make.
Replays ==
    Garbled \notin Lines =>
        \E M : /\ Chain(M)
               /\ phase # "failed" => Memory = M[Taken]
               /\ shown # None => shown = ViewOf(M[Len(file)])

LogAlone == solo => OnlyMain /\ OneAtWork /\ Replays

-----------------------------------------------------------------------------
(* The types of the log hold whatever its threads do.                         *)
LEMMA InitLogTypes == Init => LogTypes
  <1> SUFFICES ASSUME Init PROVE LogTypes
    OBVIOUS
  <1>1. file = <<>> /\ cursor = 1 /\ phase = "up"
    BY DEF Init
  <1>2. op = [w \in Writers |-> None] /\ stage = [w \in Writers |-> "idle"]
    BY DEF Init
  <1>3. file \in Seq(Record \cup {Garbled})
    BY <1>1
  <1> QED
    BY <1>1, <1>2, <1>3 DEF LogTypes

(* No step of any thread, and no death of the process, breaks the types.      *)
LEMMA NextLogTypes == LogTypes /\ [Next]_vars => LogTypes'
  <1> SUFFICES ASSUME LogTypes, [Next]_vars PROVE LogTypes'
    OBVIOUS
  <1> USE NoneAssumption
  <1>1. ASSUME NEW w \in Writers, NEW r \in Record, Call(w, r) PROVE LogTypes'
    BY <1>1 DEF Call, LogTypes
  <1>2. ASSUME NEW w \in Writers, AppendLine(w) PROVE LogTypes'
    <2>1. /\ file' = Append(file, Line(op[w])) /\ op[w] # None
          /\ stage' = [stage EXCEPT ![w] = "apply"] /\ phase = "up"
          /\ UNCHANGED <<phase, cursor, op>>
      BY <1>2 DEF AppendLine, LogTypes
    <2>2. Line(op[w]) \in Record \cup {Garbled}
      BY <2>1 DEF Line, LogTypes
    <2>3. file' \in Seq(Record \cup {Garbled})
      BY <2>1, <2>2 DEF LogTypes
    <2> QED
      BY <2>1, <2>3 DEF LogTypes
  <1>3. ASSUME NEW w \in Writers, AppendFails(w) \/ Apply(w) PROVE LogTypes'
    <2>1. /\ op' = [op EXCEPT ![w] = None] /\ stage' = [stage EXCEPT ![w] = "idle"]
          /\ UNCHANGED <<file, phase, cursor>>
      BY <1>3 DEF AppendFails, Apply, Returned
    <2> QED
      BY <2>1 DEF LogTypes
  <1>4. CASE Restart
    <2>1. /\ op' = [w \in Writers |-> None] /\ stage' = [w \in Writers |-> "idle"]
          /\ file' = file /\ phase' = "loading" /\ cursor' = 1
      BY <1>4 DEF Restart
    <2> QED
      BY <2>1 DEF LogTypes
  <1>5. CASE LoadLine
    <2>1. /\ UNCHANGED <<file, op, stage>> /\ phase = "loading" /\ cursor <= Len(file)
          /\ \/ phase' = "failed" /\ cursor' = cursor
             \/ phase' = phase /\ cursor' = cursor + 1
      BY <1>5 DEF LoadLine, threads
    <2> QED
      BY <2>1 DEF LogTypes
  <1>6. CASE LoadEnds
    BY <1>6 DEF LoadEnds, LogTypes, threads
  <1>7. CASE UNCHANGED vars
    BY <1>7 DEF LogTypes, vars, threads
  <1> QED
    BY <1>1, <1>2, <1>3, <1>4, <1>5, <1>6, <1>7 DEF Next

\* What is assumed of a step of the thread that is alone.
AloneAtWork == LogTypes /\ OnlyMain /\ OnlyMain' /\ OneAtWork /\ Replays

(* The other threads have nothing under way.                                  *)
LEMMA OthersIdle ==
    ASSUME AloneAtWork, NEW w \in Writers
    PROVE  (stage[w] # "idle" => w = Main) /\ (LogTypes' /\ stage'[w] # "idle" => w = Main)
  BY DEF AloneAtWork, OnlyMain, LogTypes

(* A call changes neither file nor memory, and ends what was shown before.    *)
LEMMA CallReplays ==
    ASSUME AloneAtWork, LogTypes', NEW w \in Writers, NEW r \in Record, Call(w, r)
    PROVE  OneAtWork' /\ Replays'
  <1>1. /\ phase = "up" /\ stage[w] = "idle" /\ stage' = [stage EXCEPT ![w] = "append"]
        /\ shown' = None /\ UNCHANGED <<file, notes, edges, events, tombstones, phase, cursor>>
    BY DEF Call, memory
  <1>2. w = Main
    BY <1>1, OthersIdle DEF AloneAtWork, LogTypes
  <1>3. stage[Main] = "idle" /\ stage'[Main] = "append" /\ Lines' = Lines
    BY <1>1, <1>2 DEF AloneAtWork, LogTypes, Lines
  <1>4. OneAtWork'
    BY <1>1, <1>3 DEF OneAtWork
  <1>5. Memory' = Memory /\ Taken' = Taken
    BY <1>1, <1>3 DEF Memory, Taken
  <1> QED
    BY <1>1, <1>3, <1>4, <1>5 DEF AloneAtWork, Replays, Chain

(* The new line makes the next memory of the chain, which nobody holds yet.   *)
LEMMA AppendReplays ==
    ASSUME AloneAtWork, LogTypes', NEW w \in Writers, AppendLine(w)
    PROVE  OneAtWork' /\ Replays'
  <1> DEFINE r == Line(op[w])
  <1>1. /\ stage[w] = "append" /\ stage' = [stage EXCEPT ![w] = "apply"]
        /\ file' = Append(file, r)
        /\ UNCHANGED <<notes, edges, events, tombstones, phase, cursor, op, shown>>
    BY DEF AppendLine, memory, history
  <1>2. w = Main /\ phase = "up"
    BY <1>1, OthersIdle DEF AloneAtWork, LogTypes
  <1>3. stage[Main] = "append" /\ stage'[Main] = "apply" /\ shown = None
    BY <1>1, <1>2 DEF AloneAtWork, LogTypes, OneAtWork
  <1>4. r \in {Garbled, op[Main]}
    BY <1>2 DEF Line
  <1>5. op[Main] \in Record
    BY <1>2, <1>3 DEF AloneAtWork, LogTypes
  <1>6. file \in Seq(Record \cup {Garbled}) /\ r \in Record \cup {Garbled}
    BY <1>4, <1>5 DEF AloneAtWork, LogTypes
  <1> HIDE DEF r
  <1>7. /\ Len(file) \in Nat /\ Len(file') = Len(file) + 1 /\ file'[Len(file) + 1] = r
        /\ \A i \in 1..Len(file) : file'[i] = file[i]
    BY <1>1, <1>6
  <1>8. Lines' = Lines \cup {r}
    BY <1>7 DEF Lines
  <1>9. OneAtWork'
    BY <1>1, <1>2, <1>3, <1>4, <1>7, <1>8 DEF OneAtWork
  <1>10. ASSUME Garbled \notin Lines' PROVE \E M : Chain(M)' /\ Memory' = M[Taken']
    <2>1. PICK M : Chain(M) /\ Memory = M[Taken]
      BY <1>2, <1>8, <1>10 DEF AloneAtWork, Replays
    <2> DEFINE N == [i \in 0..(Len(file) + 1) |->
                         IF i <= Len(file) THEN M[i] ELSE After(M[Len(file)], r)]
    <2>2. \A i \in 0..Len(file) : N[i] = M[i]
      BY <1>7
    <2>3. N[Len(file) + 1] = After(M[Len(file)], r)
      BY <1>7
    <2> HIDE DEF N
    <2>4. \A i \in 1..Len(file) : N[i] = After(N[i - 1], file[i])
      <3> SUFFICES ASSUME NEW i \in 1..Len(file) PROVE N[i] = After(N[i - 1], file[i])
        OBVIOUS
      <3>1. i \in 0..Len(file) /\ i - 1 \in 0..Len(file)
        BY <1>7
      <3>2. N[i] = M[i] /\ N[i - 1] = M[i - 1]
        BY <2>2, <3>1
      <3> QED
        BY <2>1, <3>2 DEF Chain
    <2>5. N[0] = Blank
      BY <1>7, <2>1, <2>2 DEF Chain
    <2>6. N[Len(file) + 1] = After(N[Len(file)], r) /\ (Len(file) + 1) - 1 = Len(file)
      BY <1>7, <2>2, <2>3
    <2>7. \A i \in 1..Len(file') : N[i] = After(N[i - 1], file'[i])
      <3> SUFFICES ASSUME NEW i \in 1..Len(file') PROVE N[i] = After(N[i - 1], file'[i])
        OBVIOUS
      <3>1. CASE i = Len(file) + 1
        BY <1>7, <2>6, <3>1
      <3>2. CASE i # Len(file) + 1
        <4>1. i \in 1..Len(file)
          BY <1>7, <3>2
        <4> QED
          BY <1>7, <2>4, <4>1
      <3> QED
        BY <3>1, <3>2
    <2>8. Taken = Len(file) /\ Taken' = Len(file) /\ Memory' = Memory
      BY <1>1, <1>2, <1>3, <1>7 DEF Taken, Memory
    <2> QED
      BY <1>7, <2>1, <2>2, <2>5, <2>7, <2>8 DEF Chain
  <1> QED
    BY <1>1, <1>3, <1>9, <1>10 DEF Replays

(* An append that raises leaves file and memory as they were.                 *)
LEMMA FailReplays ==
    ASSUME AloneAtWork, LogTypes', NEW w \in Writers, AppendFails(w)
    PROVE  OneAtWork' /\ Replays'
  <1>1. /\ stage[w] = "append" /\ stage' = [stage EXCEPT ![w] = "idle"]
        /\ UNCHANGED <<file, notes, edges, events, tombstones, phase, cursor, shown>>
    BY DEF AppendFails, Untouched, Returned, memory, history
  <1>2. w = Main
    BY <1>1, OthersIdle DEF AloneAtWork
  <1>3. stage[Main] = "append" /\ stage'[Main] = "idle" /\ Lines' = Lines
    BY <1>1, <1>2 DEF AloneAtWork, LogTypes, Lines
  <1>4. OneAtWork'
    BY <1>1, <1>3 DEF AloneAtWork, OneAtWork
  <1>5. Memory' = Memory /\ Taken' = Taken
    BY <1>1, <1>3 DEF Memory, Taken
  <1> QED
    BY <1>1, <1>3, <1>4, <1>5 DEF AloneAtWork, Replays, Chain

(* The memory takes up the last line, as a replay of the file would.          *)
LEMMA ApplyReplays ==
    ASSUME AloneAtWork, LogTypes', NEW w \in Writers, Apply(w)
    PROVE  OneAtWork' /\ Replays'
  <1>1. /\ stage[w] = "apply" /\ stage' = [stage EXCEPT ![w] = "idle"] /\ Applied(op[w])
        /\ UNCHANGED <<file, phase, cursor, shown>>
    BY DEF Apply, Returned
  <1>2. w = Main
    BY <1>1, OthersIdle DEF AloneAtWork
  <1>3. /\ stage[Main] = "apply" /\ stage'[Main] = "idle" /\ Lines' = Lines
        /\ phase = "up" /\ Len(file) \in Nat /\ Len(file) > 0 /\ shown = None
    BY <1>1, <1>2 DEF AloneAtWork, LogTypes, OneAtWork, Lines
  <1>4. OneAtWork'
    BY <1>1, <1>3 DEF AloneAtWork, OneAtWork
  <1>5. Taken = Len(file) - 1 /\ Taken' = Len(file)
    BY <1>1, <1>3 DEF Taken
  <1>6. ASSUME Garbled \notin Lines PROVE \E M : Chain(M) /\ Memory' = M[Taken']
    <2>1. PICK M : Chain(M) /\ Memory = M[Taken]
      BY <1>3, <1>6 DEF AloneAtWork, Replays
    <2>2. op[Main] = file[Len(file)] /\ Len(file) \in 1..Len(file)
      BY <1>3, <1>6 DEF AloneAtWork, OneAtWork
    <2>3. Memory' = After(Memory, file[Len(file)])
      BY <1>1, <1>2, <2>2, AppliedIsAfter
    <2>4. M[Len(file)] = After(M[Len(file) - 1], file[Len(file)])
      BY <2>1, <2>2 DEF Chain
    <2> QED
      BY <1>5, <2>1, <2>3, <2>4
  <1>7. \A M : Chain(M) => Chain(M)'
    BY <1>1 DEF Chain
  <1> QED
    BY <1>1, <1>3, <1>4, <1>6, <1>7 DEF Replays

(* A process that dies between operations showed what all lines make.         *)
LEMMA RestartReplays ==
    ASSUME AloneAtWork, LogTypes', Restart
    PROVE  OneAtWork' /\ Replays'
  <1>1. /\ notes' = {} /\ edges' = {} /\ events' = <<>> /\ tombstones' = {}
        /\ phase' = "loading" /\ cursor' = 1 /\ stage' = [w \in Writers |-> "idle"]
        /\ shown' = (IF Quiet THEN View ELSE None) /\ file' = file
    BY DEF Restart, Nothing
  <1>2. stage'[Main] = "idle" /\ Lines' = Lines
    BY <1>1, RepositoryAssumption DEF Lines
  <1>3. OneAtWork'
    BY <1>1, <1>2 DEF OneAtWork
  <1>4. ASSUME Garbled \notin Lines
        PROVE  \E M : Chain(M) /\ (shown' # None => shown' = ViewOf(M[Len(file)]))
    <2>1. PICK M : Chain(M) /\ (phase # "failed" => Memory = M[Taken])
      BY <1>4 DEF AloneAtWork, Replays
    <2>2. ASSUME Quiet PROVE shown' = ViewOf(M[Len(file)])
      <3>1. Taken = Len(file) /\ phase = "up"
        BY <2>2, RepositoryAssumption DEF Quiet, Taken
      <3> QED
        BY <1>1, <2>1, <2>2, <3>1, ViewIsViewOf
    <2> QED
      BY <1>1, <2>1, <2>2
  <1>5. Memory' = Blank /\ Taken' = 0
    BY <1>1 DEF Memory, Blank, Taken
  <1>6. \A M : Chain(M) => Chain(M)' /\ M[0] = Blank
    BY <1>1 DEF Chain
  <1> QED
    BY <1>1, <1>2, <1>3, <1>4, <1>5, <1>6 DEF Replays

(* A loading process goes one memory further along the chain.                 *)
LEMMA LoadReplays ==
    ASSUME AloneAtWork, LogTypes', LoadLine
    PROVE  OneAtWork' /\ Replays'
  <1>1. /\ phase = "loading" /\ cursor <= Len(file) /\ cursor \in Nat \ {0} /\ Len(file) \in Nat
        /\ UNCHANGED <<file, stage, op, shown>> /\ stage[Main] = "idle"
    BY RepositoryAssumption DEF LoadLine, threads, history, AloneAtWork, LogTypes
  <1>2. Lines' = Lines /\ file[cursor] \in Lines
    BY <1>1 DEF Lines
  <1>3. CASE file[cursor] = Garbled
    <2>1. phase' = "failed"
      BY <1>3 DEF LoadLine
    <2> QED
      BY <1>1, <1>2, <1>3, <2>1 DEF OneAtWork, Replays
  <1>4. CASE file[cursor] # Garbled
    <2>1. cursor' = cursor + 1 /\ Applied(file[cursor]) /\ phase' = phase
      BY <1>4 DEF LoadLine, Replay
    <2>2. Taken = cursor - 1 /\ Taken' = cursor /\ cursor' - 1 = cursor
      BY <1>1, <2>1 DEF Taken
    <2>3. OneAtWork'
      <3>1. \A i \in 1..cursor : i \in 1..(cursor - 1) \/ i = cursor
        BY <1>1
      <3>2. \A i \in 1..cursor : file[i] # Garbled
        BY <1>1, <1>4, <3>1 DEF AloneAtWork, OneAtWork
      <3> QED
        BY <1>1, <2>1, <2>2, <3>2 DEF OneAtWork
    <2>4. ASSUME Garbled \notin Lines
          PROVE  \E M : /\ Chain(M) /\ Memory' = M[Taken']
                        /\ shown # None => shown = ViewOf(M[Len(file)])
      <3>1. PICK M : /\ Chain(M) /\ Memory = M[Taken]
                     /\ shown # None => shown = ViewOf(M[Len(file)])
        BY <1>1, <2>4 DEF AloneAtWork, Replays
      <3>2. cursor \in 1..Len(file)
        BY <1>1
      <3>3. M[cursor] = After(M[cursor - 1], file[cursor])
        BY <3>1, <3>2 DEF Chain
      <3>4. Memory' = After(Memory, file[cursor])
        BY <2>1, AppliedIsAfter
      <3> QED
        BY <2>2, <3>1, <3>3, <3>4
    <2>5. \A M : Chain(M) => Chain(M)'
      BY <1>1 DEF Chain
    <2> QED
      BY <1>1, <1>2, <2>3, <2>4, <2>5 DEF Replays
  <1> QED
    BY <1>3, <1>4

(* A process that has loaded every line serves the last memory of the chain.  *)
LEMMA EndReplays ==
    ASSUME AloneAtWork, LogTypes', LoadEnds
    PROVE  OneAtWork' /\ Replays'
  <1>1. /\ phase = "loading" /\ cursor > Len(file) /\ phase' \in {"up", "failed"}
        /\ UNCHANGED <<file, notes, edges, events, tombstones, cursor, op, stage, shown>>
        /\ stage[Main] = "idle"
    BY RepositoryAssumption DEF LoadEnds, memory, threads, history, AloneAtWork, LogTypes
  <1>2. cursor = Len(file) + 1 /\ cursor \in Nat /\ Len(file) \in Nat /\ Lines' = Lines
    BY <1>1 DEF AloneAtWork, LogTypes, Lines
  <1>3. Garbled \notin Lines
    <2>1. \A i \in 1..Len(file) : i \in 1..(cursor - 1)
      BY <1>2
    <2> QED
      BY <1>1, <2>1 DEF AloneAtWork, OneAtWork, Lines
  <1>4. OneAtWork'
    BY <1>1, <1>2, <1>3 DEF OneAtWork
  <1>5. Taken = Len(file) /\ Taken' = Len(file) /\ Memory' = Memory
    BY <1>1, <1>2 DEF Taken, Memory
  <1> QED
    BY <1>1, <1>2, <1>4, <1>5 DEF AloneAtWork, Replays, Chain

(* Steps of the table, and of nothing, leave all that as it is.               *)
LEMMA AloneReplays ==
    ASSUME LogTypes, LogAlone, [RepositoryNext]_<<part, solo, vars, tableVars>>
    PROVE  LogAlone'
  <1>1. solo' = solo /\ (solo => (OnlyMain => OnlyMain'))
    BY DEF RepositoryNext, OnlyMain, vars, threads, tableVars
  <1>2. [Next]_vars
    BY DEF RepositoryNext
  <1>3. LogTypes'
    BY <1>2, NextLogTypes
  <1> SUFFICES ASSUME solo PROVE OneAtWork' /\ Replays'
    BY <1>1 DEF LogAlone
  <1>4. AloneAtWork
    BY <1>1 DEF LogAlone, AloneAtWork
  <1>5. CASE Next
    BY <1>3, <1>4, <1>5, CallReplays, AppendReplays, FailReplays, ApplyReplays, RestartReplays,
       LoadReplays, EndReplays DEF Next
  <1>6. CASE UNCHANGED vars
    <2>1. /\ UNCHANGED <<file, notes, edges, events, tombstones, phase, cursor, op, stage, shown>>
          /\ Lines' = Lines
      BY <1>6 DEF vars, memory, threads, history, Lines
    <2>2. Memory' = Memory /\ Taken' = Taken
      BY <2>1 DEF Memory, Taken
    <2> QED
      BY <1>4, <2>1, <2>2 DEF AloneAtWork, OneAtWork, Replays, Chain
  <1> QED
    BY <1>2, <1>5, <1>6

(* A new repository has replayed the whole of its empty file.                 *)
LEMMA InitReplays == RepositoryInit => LogTypes /\ LogAlone
  <1> SUFFICES ASSUME RepositoryInit PROVE LogTypes /\ OnlyMain /\ OneAtWork /\ Replays
    BY DEF LogAlone
  <1>1. /\ file = <<>> /\ phase = "up" /\ shown = None /\ cursor = 1
        /\ notes = {} /\ edges = {} /\ events = <<>> /\ tombstones = {}
        /\ op = [w \in Writers |-> None] /\ stage = [w \in Writers |-> "idle"]
        /\ tableOp = [w \in Writers |-> None]
    BY DEF RepositoryInit, Init, Table!Init
  <1>2. Lines = {} /\ stage[Main] = "idle" /\ Len(file) = 0
    BY <1>1, RepositoryAssumption DEF Lines
  <1>3. OnlyMain /\ OneAtWork
    BY <1>1, <1>2 DEF OnlyMain, OneAtWork
  <1>4. Replays
    <2> DEFINE M == [i \in {0} |-> Blank]
    <2>1. M[0] = Blank /\ Memory = Blank /\ Taken = 0
      BY <1>1, <1>2 DEF Memory, Blank, Taken
    <2> HIDE DEF M
    <2>2. Chain(M)
      BY <1>2, <2>1 DEF Chain
    <2> QED
      BY <1>1, <2>1, <2>2 DEF Replays
  <1> QED
    BY <1>3, <1>4, InitLogTypes DEF RepositoryInit

(* For one thread, a restart between two operations shows the very notes,     *)
(* statuses, fields and resources that were shown before, at whatever point   *)
(* of whatever operations the process died, appends failed or lines were torn *)
(* earlier: _load replays what _append wrote.                                 *)
THEOREM RestartShowsTheSame == RepositorySpec => []RestartAgreesAlone
  <1>1. LogTypes /\ LogAlone /\ [RepositoryNext]_<<part, solo, vars, tableVars>>
            => LogTypes' /\ LogAlone'
    <2>1. [RepositoryNext]_<<part, solo, vars, tableVars>> => [Next]_vars
      BY DEF RepositoryNext
    <2> QED
      BY <2>1, NextLogTypes, AloneReplays
  <1>2. LogTypes /\ LogAlone => RestartAgreesAlone
    <2> SUFFICES ASSUME LogTypes, OneAtWork, Replays, Quiet, shown # None PROVE View = shown
      BY DEF RestartAgreesAlone, RestartAgrees, LogAlone
    <2>1. phase = "up" /\ stage[Main] = "idle"
      BY RepositoryAssumption DEF Quiet
    <2>2. Garbled \notin Lines /\ Taken = Len(file)
      BY <2>1 DEF OneAtWork, Taken
    <2>3. PICK M : Memory = M[Len(file)] /\ shown = ViewOf(M[Len(file)])
      BY <2>1, <2>2 DEF Replays
    <2> QED
      BY <2>3, ViewIsViewOf
  <1> QED
    BY <1>1, <1>2, InitReplays, PTL DEF RepositorySpec

-----------------------------------------------------------------------------
(* The similarity table                                                       *)

Alive(n) == n \in Range(log) \ dead

(* What the instance takes from the library is what is taken from it here.    *)
LEMMA Copies ==
    /\ \A f : Table!Range(f) = Range(f)
    /\ \A f : Table!IsInjective(f) = IsInjective(f)
    /\ \A S : Table!Cardinality(S) = Cardinality(S)
    /\ \A n : Table!Live(n) <=> Alive(n)
  <1>1. \A f : Table!Range(f) = Range(f)
    BY DEF Table!Range, Range
  <1>2. \A f : Table!IsInjective(f) = IsInjective(f)
    BY DEF Table!IsInjective, IsInjective
  <1>3. \A S : Table!Cardinality(S) = Cardinality(S)
    BY DEF Table!Cardinality, Cardinality
  <1>4. \A n : Table!Live(n) <=> Alive(n)
    BY <1>1 DEF Table!Live, Alive
  <1> QED
    BY <1>1, <1>2, <1>3, <1>4

\* Types, and every mapped note has its row.
TableRows ==
    /\ log \in Seq(TableNotes) /\ dead \subseteq TableNotes
    /\ tablePhase \in {"down", "sync", "up", "plain"}
    /\ tableOp \in [Writers -> Table!Operation \cup {None}]
    /\ IsFiniteSet(DOMAIN rows)
    /\ map \in [DOMAIN map -> Nat] /\ DOMAIN map \subseteq Range(log)
    /\ \A n \in DOMAIN map : map[n] \in DOMAIN rows /\ rows[map[n]] = n

Under(t, kind) == tableOp[t] # None /\ tableOp[t].kind = kind

\* What a thread has under way is about a note that is where the thread saw it.
TablePending ==
    /\ tablePhase # "up" => \A t \in Writers : tableOp[t] = None
    /\ \A t \in Writers :
           /\ Under(t, "add") /\ tableOp[t].already => tableOp[t].note \in Range(log)
           /\ Under(t, "index") => tableOp[t].note \in Range(log)
           /\ Under(t, "drop") => tableOp[t].note \in dead

\* A note without a row is about to get one, unless the table was given up.
TableComplete ==
    tablePhase = "up" /\ ~degraded /\ ~raised =>
        \A n \in TableNotes : Alive(n) =>
            \/ n \in DOMAIN map
            \/ \E t \in Writers : Under(t, "index") /\ tableOp[t].note = n

TableInv == TableRows /\ TablePending /\ TableComplete

(* A live note is one of the table's.                                         *)
LEMMA AliveTyped == TableRows => \A n : Alive(n) => n \in TableNotes
  BY DEF TableRows, Alive, Range

(* Any set of numbers has a smallest.                                         *)
LEMMA SmallestExists ==
    ASSUME NEW S, S \subseteq Nat, S # {}
    PROVE  \E n \in S : \A m \in S : n <= m
  <1> DEFINE less == {p \in Nat \X Nat : p[1] < p[2]}
  <1>1. IsWellFoundedOn(less, Nat)
    BY NatLessThanWellFounded DEF OpToRel
  <1>2. PICK n \in S : \A m \in S : <<m, n>> \notin less
    BY <1>1, WFMin
  <1>3. \A m \in S : ~(m < n)
    BY <1>2
  <1> QED
    BY <1>3

(* A finite set of numbers has a largest.                                     *)
LEMMA LargestExists ==
    ASSUME NEW S, S \subseteq Nat, S # {}, IsFiniteSet(S)
    PROVE  \E n \in S : \A m \in S : m <= n
  <1> DEFINE above == [n \in S |-> {m \in S : n < m}]
             sets == {above[n] : n \in S}
  <1>1. IsWellFoundedOn(StrictSubsetOrdering(S), SUBSET S)
    BY FS_StrictSubsetOrderingWellFounded, FS_FiniteSubsetsOfFinite
  <1>2. \A n \in S : above[n] \in SUBSET S
    OBVIOUS
  <1>3. \A n \in S : \A m \in above[n] : above[m] \subseteq above[n] /\ above[m] # above[n]
    <2> SUFFICES ASSUME NEW n \in S, NEW m \in above[n]
                 PROVE  above[m] \subseteq above[n] /\ above[m] # above[n]
      OBVIOUS
    <2>1. n \in Nat /\ m \in S /\ m \in Nat /\ n < m
      OBVIOUS
    <2>2. m \notin above[m]
      BY <2>1
    <2>3. \A x \in S : m < x => n < x
      BY <2>1
    <2>4. above[m] \subseteq above[n]
      BY <2>3
    <2> QED
      BY <2>2, <2>4
  <1>4. \A n \in S : \A m \in S : m \in above[n] \/ m <= n
    OBVIOUS
  <1>5. \A n \in S : above[n] \subseteq S
    OBVIOUS
  <1> HIDE DEF above
  <1>6. \E T \in sets : \A U \in sets : <<U, T>> \notin StrictSubsetOrdering(S)
    <2>1. sets \subseteq SUBSET S /\ sets # {}
      BY <1>2
    <2> QED
      BY <1>1, <2>1, WFMin
  <1>7. PICK n \in S : \A m \in S : <<above[m], above[n]>> \notin StrictSubsetOrdering(S)
    BY <1>6
  <1>8. above[n] = {}
    BY <1>2, <1>3, <1>5, <1>7 DEF StrictSubsetOrdering
  <1> QED
    BY <1>4, <1>8

(* The row counted from the map is above all that it has.                     *)
LEMMA NextRowAbove ==
    ASSUME TableRows
    PROVE  Table!NextRow \in Nat /\ \A n \in DOMAIN map : map[n] < Table!NextRow
  <1>1. CASE map = <<>>
    BY <1>1 DEF Table!NextRow
  <1>2. CASE map # <<>>
    <2>1. Range(map) \subseteq Nat /\ Range(map) \subseteq DOMAIN rows
      BY DEF TableRows, Range
    <2>2. IsFiniteSet(Range(map))
      BY <2>1, FS_Subset DEF TableRows
    <2>3. Range(map) # {}
      <3> SUFFICES ASSUME DOMAIN map = {} PROVE FALSE
        BY DEF Range
      <3>1. map = [x \in {} |-> x]
        BY DEF TableRows
      <3>2. <<>> = [x \in {} |-> x]
        OBVIOUS
      <3> QED
        BY <1>2, <3>1, <3>2
    <2>4. \E r \in Range(map) : \A q \in Range(map) : q <= r
      BY <2>1, <2>2, <2>3, LargestExists
    <2> DEFINE top == CHOOSE r \in Range(map) : \A q \in Range(map) : q <= r
    <2>5. top \in Range(map) /\ \A q \in Range(map) : q <= top
      BY <2>4
    <2>6. Table!NextRow = 1 + top
      BY <1>2, Copies DEF Table!NextRow
    <2>7. \A n \in DOMAIN map : map[n] \in Range(map)
      BY DEF Range
    <2> HIDE DEF top
    <2> QED
      BY <2>1, <2>5, <2>6, <2>7
  <1> QED
    BY <1>1, <1>2

(* Indexing a note: it is given up, it fails on a taken row, or the note has  *)
(* a row of its own.                                                          *)
LEMMA IndexedEffect ==
    ASSUME TableRows, NEW n \in Range(log), Table!Indexed(n), UNCHANGED log
    PROVE  /\ IsFiniteSet(DOMAIN rows')
           /\ map' \in [DOMAIN map' -> Nat] /\ DOMAIN map' \subseteq Range(log)
           /\ \A m \in DOMAIN map' : map'[m] \in DOMAIN rows' /\ rows'[map'[m]] = m
           /\ DOMAIN map \subseteq DOMAIN map'
           /\ raised => raised'
           /\ n \in DOMAIN map' \/ degraded' \/ raised'
           /\ \/ UNCHANGED <<rows, map>> /\ (raised' = raised \/ Table!NextRow \in DOMAIN rows)
              \/ /\ DOMAIN rows' = DOMAIN rows \cup {Table!NextRow} /\ map'[n] = Table!NextRow
                 /\ \A m \in DOMAIN map : m # n => map'[m] = map[m]
                 /\ DOMAIN map' = DOMAIN map \cup {n} /\ UNCHANGED raised
           /\ degraded => degraded'
  <1> DEFINE r == Table!NextRow
  <1>1. CASE degraded \/ (degraded' /\ UNCHANGED <<rows, map, raised>>)
    <2>1. UNCHANGED <<rows, map, raised>> /\ degraded'
      BY <1>1 DEF Table!Indexed, Table!table
    <2> QED
      BY <2>1 DEF TableRows
  <1>2. CASE ~(degraded \/ (degraded' /\ UNCHANGED <<rows, map, raised>>)) /\ r \in DOMAIN rows
    <2>1. UNCHANGED <<rows, map>> /\ raised' = TRUE /\ ~degraded
      BY <1>2 DEF Table!Indexed, Table!Keeps, Table!table
    <2>2. DOMAIN map' \subseteq Range(log) /\ map' \in [DOMAIN map' -> Nat] /\ IsFiniteSet(DOMAIN rows')
      BY <2>1 DEF TableRows
    <2>3. \A m \in DOMAIN map' : map'[m] \in DOMAIN rows' /\ rows'[map'[m]] = m
      BY <2>1 DEF TableRows
    <2> QED
      BY <1>2, <2>1, <2>2, <2>3
  <1>3. CASE ~(degraded \/ (degraded' /\ UNCHANGED <<rows, map, raised>>)) /\ r \notin DOMAIN rows
    <2>1. /\ r \notin DOMAIN rows
          /\ rows' = Table!With(rows, r, n) /\ map' = Table!With(map, n, r)
          /\ raised' = raised /\ degraded' = degraded
      BY <1>3 DEF Table!Indexed, Table!Keeps, Table!table
    <2>2. /\ DOMAIN rows' = DOMAIN rows \cup {r} /\ rows'[r] = n
          /\ \A q \in DOMAIN rows : rows'[q] = rows[q]
      BY <2>1 DEF Table!With
    <2>3. /\ DOMAIN map' = DOMAIN map \cup {n} /\ map'[n] = r
          /\ \A m \in DOMAIN map : m # n => map'[m] = map[m]
          /\ map' = [m \in DOMAIN map' |-> map'[m]]
      BY <2>1 DEF Table!With
    <2>4. r \in Nat
      BY NextRowAbove
    <2>5. IsFiniteSet(DOMAIN rows')
      BY <2>2, FS_AddElement DEF TableRows
    <2> HIDE DEF r
    <2>6. map' \in [DOMAIN map' -> Nat]
      BY <2>3, <2>4 DEF TableRows
    <2>7. \A m \in DOMAIN map' : map'[m] \in DOMAIN rows' /\ rows'[map'[m]] = m
      BY <2>1, <2>2, <2>3 DEF TableRows
    <2> QED
      BY <2>1, <2>2, <2>3, <2>5, <2>6, <2>7 DEF TableRows, r
  <1> QED
    BY <1>1, <1>2, <1>3

(* What a thread holds names a note.                                          *)
LEMMA OperationNotes ==
    /\ \A o \in Table!Operation : o.note \in TableNotes /\ o.kind \in {"add", "index", "drop"} /\ o # None
    /\ \A n \in TableNotes, a \in BOOLEAN :
           [kind |-> "add", note |-> n, already |-> a] \in Table!Operation
    /\ \A n \in TableNotes : [kind |-> "drop", note |-> n] \in Table!Operation
    /\ \A o \in Table!Operation : o.kind = "add" =>
           /\ [o EXCEPT !.kind = "index"] \in Table!Operation
           /\ [o EXCEPT !.kind = "index"].kind = "index"
           /\ [o EXCEPT !.kind = "index"].note = o.note
           /\ o.already \in BOOLEAN
  BY RepositoryAssumption DEF Table!Operation

(* A note at the end of the log is one more note in it.                       *)
LEMMA RangeAppend ==
    ASSUME log \in Seq(TableNotes), NEW n \in TableNotes, log' = Append(log, n)
    PROVE  log' \in Seq(TableNotes) /\ Range(log') = Range(log) \cup {n}
  <1>1. /\ log' \in Seq(TableNotes) /\ DOMAIN log' = DOMAIN log \cup {Len(log) + 1}
        /\ log'[Len(log) + 1] = n /\ \A i \in DOMAIN log : log'[i] = log[i]
    OBVIOUS
  <1> QED
    BY <1>1 DEF Range

(* A new process finds the table as the last one left it.                     *)
LEMMA OpenTable == ASSUME TableInv, Table!Open PROVE TableInv'
  <1>1. /\ tablePhase = "down" /\ tablePhase' = "sync" /\ degraded' = FALSE
        /\ UNCHANGED <<log, dead, rows, map, tableOp, raised>>
    BY DEF Table!Open, Table!store, Table!table, Table!history
  <1>2. TableRows'
    BY <1>1 DEF TableInv, TableRows
  <1>3. TablePending' /\ TableComplete'
    BY <1>1 DEF TableInv, TablePending, TableComplete, Under
  <1> QED
    BY <1>2, <1>3 DEF TableInv

(* A process that ends takes what its threads had under way with it.          *)
LEMMA ExitTable == ASSUME TableInv, Table!Exit PROVE TableInv'
  <1>1. /\ tablePhase' = "down" /\ tableOp' = [t \in Writers |-> None]
        /\ UNCHANGED <<log, dead, rows, map, raised>>
    BY DEF Table!Exit, Table!store, Table!table, Table!history
  <1>2. TableRows'
    BY <1>1 DEF TableInv, TableRows
  <1>3. TablePending' /\ TableComplete'
    BY <1>1 DEF TableInv, TablePending, TableComplete, Under
  <1> QED
    BY <1>2, <1>3 DEF TableInv

(* A lost table has no row and no note.                                       *)
LEMMA LoseTheTable == ASSUME TableInv, Table!LoseTable PROVE TableInv'
  <1>1. /\ tablePhase = "down" /\ rows' = <<>> /\ map' = <<>>
        /\ UNCHANGED <<log, dead, tablePhase, tableOp>>
    BY DEF Table!LoseTable, Table!store, Table!table, Table!history
  <1>2. TableRows'
    <2>1. DOMAIN rows' = {} /\ DOMAIN map' = {} /\ map' \in [{} -> Nat]
      BY <1>1
    <2>2. IsFiniteSet(DOMAIN rows')
      BY <2>1, FS_EmptySet
    <2> QED
      BY <1>1, <2>1, <2>2 DEF TableInv, TableRows
  <1>3. TablePending' /\ TableComplete'
    BY <1>1 DEF TableInv, TablePending, TableComplete, Under
  <1> QED
    BY <1>2, <1>3 DEF TableInv

(* Opening gives a live note a row, or gives the index up.                    *)
LEMMA SyncAddTable == ASSUME TableInv, Table!SyncAdd PROVE TableInv'
  <1> DEFINE i == CHOOSE i \in Table!Unindexed : \A j \in Table!Unindexed : i <= j
  <1>1. /\ tablePhase = "sync" /\ Table!Unindexed # {} /\ Table!Indexed(log[i])
        /\ tablePhase' \in {"plain", "sync"} /\ UNCHANGED <<log, dead, tableOp>>
    BY DEF Table!SyncAdd, Table!store
  <1>2. Table!Unindexed \subseteq Nat
    BY DEF Table!Unindexed
  <1>3. i \in Table!Unindexed
    BY <1>1, <1>2, SmallestExists
  <1> HIDE DEF i
  <1>4. log[i] \in Range(log)
    <2>1. i \in 1..Len(log)
      BY <1>3 DEF Table!Unindexed
    <2>2. DOMAIN log = 1..Len(log)
      BY DEF TableInv, TableRows
    <2> QED
      BY <2>1, <2>2 DEF Range
  <1>5. /\ IsFiniteSet(DOMAIN rows')
        /\ map' \in [DOMAIN map' -> Nat] /\ DOMAIN map' \subseteq Range(log)
        /\ \A m \in DOMAIN map' : map'[m] \in DOMAIN rows' /\ rows'[map'[m]] = m
    BY <1>1, <1>4, IndexedEffect DEF TableInv
  <1>6. TableRows'
    BY <1>1, <1>5 DEF TableInv, TableRows
  <1>7. TablePending' /\ TableComplete'
    BY <1>1 DEF TableInv, TablePending, TableComplete, Under
  <1> QED
    BY <1>6, <1>7 DEF TableInv

(* The rows of what is no longer alive go; every live note has one, unless    *)
(* the table was given up.                                                    *)
LEMMA SyncDropTable == ASSUME TableInv, Table!SyncDrop PROVE TableInv'
  <1> DEFINE stale == {n \in DOMAIN map : ~Table!Live(n)}
  <1>1. /\ tablePhase = "sync" /\ tablePhase' = "up"
        /\ Table!Unindexed = {} \/ degraded
        /\ rows' = [r \in DOMAIN rows \ {map[n] : n \in stale} |-> rows[r]]
        /\ map' = [n \in DOMAIN map \ stale |-> map[n]]
        /\ UNCHANGED <<log, dead, degraded, tableOp, raised>>
    BY DEF Table!SyncDrop, Table!StaleDropped, Table!store, Table!history
  <1>2. TableRows'
    <2>1. IsFiniteSet(DOMAIN rows')
      BY <1>1, FS_Subset DEF TableInv, TableRows
    <2>2. map' \in [DOMAIN map' -> Nat] /\ DOMAIN map' \subseteq Range(log)
      BY <1>1 DEF TableInv, TableRows
    <2>3. \A n \in DOMAIN map' : map'[n] \in DOMAIN rows' /\ rows'[map'[n]] = n
      <3> SUFFICES ASSUME NEW n \in DOMAIN map' PROVE map'[n] \in DOMAIN rows' /\ rows'[map'[n]] = n
        OBVIOUS
      <3>1. n \in DOMAIN map \ stale /\ map'[n] = map[n]
        BY <1>1
      <3>2. map[n] \in DOMAIN rows /\ rows[map[n]] = n
        BY <3>1 DEF TableInv, TableRows
      <3>3. \A m \in stale : map[m] # map[n]
        BY <3>1, <3>2 DEF TableInv, TableRows
      <3> HIDE DEF stale
      <3>4. map[n] \in DOMAIN rows \ {map[m] : m \in stale}
        BY <3>2, <3>3
      <3> QED
        BY <1>1, <3>1, <3>2, <3>4
    <2> QED
      BY <1>1, <2>1, <2>2, <2>3 DEF TableInv, TableRows
  <1>3. TablePending'
    BY <1>1 DEF TableInv, TablePending, Under
  <1>4. TableComplete'
    <2> SUFFICES ASSUME ~degraded, NEW n, Alive(n) PROVE n \in DOMAIN map'
      BY <1>1 DEF TableComplete, Alive
    <2>1. PICK k \in DOMAIN log : log[k] = n
      BY DEF Alive, Range
    <2>2. k \in 1..Len(log) /\ Table!Live(n)
      BY <2>1, Copies DEF TableInv, TableRows
    <2>3. n \in DOMAIN map
      BY <1>1, <2>1, <2>2 DEF Table!Unindexed
    <2> QED
      BY <1>1, <2>2, <2>3
  <1> QED
    BY <1>2, <1>3, <1>4 DEF TableInv

(* A thread asks whether the note is there before it adds it.                 *)
LEMMA AddNoteTable ==
    ASSUME TableInv, NEW t \in Writers, NEW n \in TableNotes, Table!AddNote(t, n)
    PROVE  TableInv'
  <1> DEFINE o == [kind |-> "add", note |-> n, already |-> Table!Live(n)]
  <1>1. /\ tablePhase = "up" /\ tableOp[t] = None /\ tableOp' = [tableOp EXCEPT ![t] = o]
        /\ UNCHANGED <<log, dead, rows, map, degraded, tablePhase, raised>>
    BY DEF Table!AddNote, Table!Set, Table!store, Table!table, Table!history
  <1>2. o \in Table!Operation /\ o # None /\ o.kind = "add" /\ o.note = n
    <2>1. Table!Live(n) \in BOOLEAN
      BY DEF Table!Live
    <2> QED
      BY <2>1, OperationNotes
  <1>3. o.already => n \in Range(log)
    BY Copies DEF Alive
  <1> HIDE DEF o
  <1>4. TableRows'
    BY <1>1, <1>2 DEF TableInv, TableRows
  <1>5. \A u \in Writers : tableOp'[u] = IF u = t THEN o ELSE tableOp[u]
    BY <1>1 DEF TableInv, TableRows
  <1>6. TablePending'
    BY <1>1, <1>2, <1>3, <1>5 DEF TableInv, TablePending, Under
  <1>7. TableComplete'
    BY <1>1, <1>5 DEF TableInv, TableComplete, Under, Alive
  <1> QED
    BY <1>4, <1>6, <1>7 DEF TableInv

(* The note joins the log; the thread that saw it missing still has to index. *)
LEMMA AddInnerTable == ASSUME TableInv, NEW t \in Writers, Table!AddInner(t) PROVE TableInv'
  <1> DEFINE o == tableOp[t]
             next == IF o.already THEN None ELSE [o EXCEPT !.kind = "index"]
  <1>1. /\ Under(t, "add")
        /\ log' = IF o.note \in Range(log) THEN log ELSE Append(log, o.note)
        /\ tableOp' = [tableOp EXCEPT ![t] = next]
        /\ UNCHANGED <<dead, rows, map, degraded, tablePhase, raised>>
    BY Copies DEF Table!AddInner, Table!Set, Table!table, Under
  <1>2. o \in Table!Operation /\ o.note \in TableNotes
    BY <1>1, OperationNotes DEF Under, TableInv, TableRows
  <1>3. /\ next \in Table!Operation \cup {None} /\ (next # None => next.kind = "index")
        /\ o.already => next = None
        /\ ~o.already => next # None /\ next.kind = "index" /\ next.note = o.note
    BY <1>1, <1>2, OperationNotes DEF Under
  <1>4. o.already => log' = log
    BY <1>1 DEF TableInv, TablePending
  <1>5. tablePhase = "up"
    BY <1>1 DEF Under, TableInv, TablePending
  <1> HIDE DEF o, next
  <1>6. log' \in Seq(TableNotes) /\ Range(log') = Range(log) \cup {o.note}
    <2>1. CASE o.note \in Range(log)
      BY <1>1, <2>1 DEF TableInv, TableRows
    <2>2. CASE o.note \notin Range(log)
      BY <1>1, <1>2, <2>2, RangeAppend DEF TableInv, TableRows
    <2> QED
      BY <2>1, <2>2
  <1>7. \A u \in Writers : tableOp'[u] = IF u = t THEN next ELSE tableOp[u]
    BY <1>1 DEF TableInv, TableRows
  <1>8. TableRows'
    BY <1>1, <1>3, <1>6 DEF TableInv, TableRows
  <1>9. TablePending'
    <2>1. \A u \in Writers :
              /\ Under(u, "add")' /\ tableOp'[u].already => u # t
              /\ Under(u, "index")' => tableOp'[u].note \in Range(log')
              /\ Under(u, "drop")' => u # t
      BY <1>1, <1>3, <1>6, <1>7 DEF TableInv, TablePending, Under
    <2>2. \A u \in Writers :
              /\ Under(u, "add")' /\ tableOp'[u].already => tableOp'[u].note \in Range(log')
              /\ Under(u, "drop")' => tableOp'[u].note \in dead
      BY <1>6, <1>7, <2>1 DEF TableInv, TablePending, Under
    <2> QED
      BY <1>1, <1>5, <2>1, <2>2 DEF TablePending
  <1>10. TableComplete'
    <2> SUFFICES ASSUME ~degraded, ~raised, NEW n, n \in Range(log'), n \notin dead
                 PROVE  \/ n \in DOMAIN map
                        \/ \E u \in Writers : tableOp'[u] # None /\ tableOp'[u].kind = "index"
                                             /\ tableOp'[u].note = n
      BY <1>1 DEF TableComplete, Alive, Under
    <2>1. CASE n \in Range(log)
      <3>1. n \in DOMAIN map \/ \E u \in Writers : Under(u, "index") /\ tableOp[u].note = n
        BY <1>5, <2>1, AliveTyped DEF TableInv, TableComplete, Alive
      <3>2. \A u \in Writers : Under(u, "index") => u # t
        BY <1>1 DEF Under
      <3> QED
        BY <1>7, <3>1, <3>2 DEF Under
    <2>2. CASE n \notin Range(log)
      <3>1. n = o.note /\ ~o.already
        BY <1>4, <1>6, <2>2
      <3> QED
        BY <1>3, <1>7, <3>1
    <2> QED
      BY <2>1, <2>2
  <1> QED
    BY <1>8, <1>9, <1>10 DEF TableInv

(* The note gets its row.                                                     *)
LEMMA AddIndexTable == ASSUME TableInv, NEW t \in Writers, Table!AddIndex(t) PROVE TableInv'
  <1> DEFINE n == tableOp[t].note
  <1>1. /\ Under(t, "index") /\ Table!Indexed(n)
        /\ tableOp' = [tableOp EXCEPT ![t] = None] /\ UNCHANGED <<log, dead, tablePhase>>
    BY DEF Table!AddIndex, Table!Set, Table!store, Under
  <1>2. \A u \in Writers : tableOp'[u] = IF u = t THEN None ELSE tableOp[u]
    BY <1>1 DEF TableInv, TableRows
  <1>3. TablePending'
    BY <1>1, <1>2 DEF TableInv, TablePending, Under
  <1>4. n \in Range(log)
    BY <1>1 DEF TableInv, TablePending
  <1> HIDE DEF n
  <1>5. TableRows'
    <2>1. /\ IsFiniteSet(DOMAIN rows')
          /\ map' \in [DOMAIN map' -> Nat] /\ DOMAIN map' \subseteq Range(log)
          /\ \A m \in DOMAIN map' : map'[m] \in DOMAIN rows' /\ rows'[map'[m]] = m
      BY <1>1, <1>4, IndexedEffect DEF TableInv
    <2> QED
      BY <1>1, <2>1 DEF TableInv, TableRows
  <1>6. TableComplete'
    <2>1. /\ DOMAIN map \subseteq DOMAIN map'
          /\ raised => raised'
          /\ degraded => degraded'
          /\ n \in DOMAIN map' \/ degraded' \/ raised'
      BY <1>1, <1>4, IndexedEffect DEF TableInv
    <2> SUFFICES ASSUME tablePhase = "up", ~degraded', ~raised', NEW m, Alive(m)
                 PROVE  \/ m \in DOMAIN map'
                        \/ \E u \in Writers : Under(u, "index")' /\ tableOp'[u].note = m
      BY <1>1 DEF TableComplete, Alive
    <2>2. ~degraded /\ ~raised
      BY <2>1
    <2>3. CASE m = n
      BY <2>1, <2>3
    <2>4. CASE m # n
      <3>1. m \in DOMAIN map \/ \E u \in Writers : Under(u, "index") /\ tableOp[u].note = m
        BY <2>2, AliveTyped DEF TableInv, TableComplete
      <3>2. \A u \in Writers : Under(u, "index") /\ tableOp[u].note = m => u # t
        BY <2>4 DEF n
      <3> QED
        BY <1>2, <2>1, <3>1, <3>2 DEF Under
    <2> QED
      BY <2>3, <2>4
  <1> QED
    BY <1>3, <1>5, <1>6 DEF TableInv

(* A deleted note is buried first and loses its row afterwards.               *)
LEMMA DeleteNoteTable ==
    ASSUME TableInv, NEW t \in Writers, NEW n \in TableNotes, Table!DeleteNote(t, n)
    PROVE  TableInv'
  <1> DEFINE o == [kind |-> "drop", note |-> n]
  <1>1. /\ tablePhase = "up" /\ tableOp[t] = None /\ tableOp' = [tableOp EXCEPT ![t] = o]
        /\ dead' = dead \cup {n}
        /\ UNCHANGED <<log, rows, map, degraded, tablePhase, raised>>
    BY DEF Table!DeleteNote, Table!Set, Table!store, Table!table, Table!history
  <1>2. o \in Table!Operation /\ o # None /\ o.kind = "drop" /\ o.note = n
    BY OperationNotes
  <1> HIDE DEF o
  <1>3. TableRows'
    BY <1>1, <1>2 DEF TableInv, TableRows
  <1>4. \A u \in Writers : tableOp'[u] = IF u = t THEN o ELSE tableOp[u]
    BY <1>1 DEF TableInv, TableRows
  <1>5. TablePending'
    BY <1>1, <1>2, <1>4 DEF TableInv, TablePending, Under
  <1>6. TableComplete'
    BY <1>1, <1>4 DEF TableInv, TableComplete, Under, Alive
  <1> QED
    BY <1>3, <1>5, <1>6 DEF TableInv

(* A note that is dropped is dead, and the rows of the others stay.           *)
LEMMA DroppedEffect ==
    ASSUME TableRows, NEW n, Table!Dropped(n)
    PROVE  /\ IsFiniteSet(DOMAIN rows') /\ DOMAIN map' = DOMAIN map \ {n}
           /\ map' \in [DOMAIN map' -> Nat]
           /\ \A m \in DOMAIN map' : /\ map'[m] = map[m] /\ map[m] \in DOMAIN rows'
                                      /\ rows'[map[m]] = m
           /\ DOMAIN rows' = DOMAIN rows \ {map[m] : m \in {n} \cap DOMAIN map}
  <1>1. CASE n \in DOMAIN map
    <2>1. /\ rows' = [r \in DOMAIN rows \ {map[n]} |-> rows[r]]
          /\ map' = [m \in DOMAIN map \ {n} |-> map[m]]
      BY <1>1 DEF Table!Dropped, Table!Without
    <2>2. IsFiniteSet(DOMAIN rows')
      BY <2>1, FS_Subset DEF TableRows
    <2>3. \A m \in DOMAIN map \ {n} : map[m] # map[n]
      BY <1>1 DEF TableRows
    <2>4. map' \in [DOMAIN map' -> Nat] /\ DOMAIN map' = DOMAIN map \ {n}
      BY <2>1 DEF TableRows
    <2>5. \A m \in DOMAIN map' : /\ map'[m] = map[m] /\ map[m] \in DOMAIN rows'
                                 /\ rows'[map[m]] = m
      BY <2>1, <2>3 DEF TableRows
    <2>6. {map[m] : m \in {n} \cap DOMAIN map} = {map[n]}
      BY <1>1
    <2> QED
      BY <2>1, <2>2, <2>4, <2>5, <2>6
  <1>2. CASE n \notin DOMAIN map
    BY <1>2 DEF Table!Dropped, Table!Keeps, TableRows
  <1> QED
    BY <1>1, <1>2

(* A deleted note loses its row; every other note keeps its own.              *)
LEMMA DeleteIndexTable == ASSUME TableInv, NEW t \in Writers, Table!DeleteIndex(t) PROVE TableInv'
  <1> DEFINE n == tableOp[t].note
  <1>1. /\ Under(t, "drop") /\ Table!Dropped(n) /\ tableOp' = [tableOp EXCEPT ![t] = None]
        /\ UNCHANGED <<log, dead, degraded, tablePhase, raised>>
    BY DEF Table!DeleteIndex, Table!Set, Table!store, Table!history, Under
  <1>2. \A u \in Writers : tableOp'[u] = IF u = t THEN None ELSE tableOp[u]
    BY <1>1 DEF TableInv, TableRows
  <1>3. n \in dead
    BY <1>1 DEF TableInv, TablePending
  <1>4. TablePending'
    BY <1>1, <1>2 DEF TableInv, TablePending, Under
  <1> HIDE DEF n
  <1>5. TableRows'
    <2>1. /\ IsFiniteSet(DOMAIN rows') /\ DOMAIN map' = DOMAIN map \ {n}
          /\ map' \in [DOMAIN map' -> Nat]
          /\ \A m \in DOMAIN map' : map'[m] \in DOMAIN rows' /\ rows'[map'[m]] = m
      BY <1>1, DroppedEffect DEF TableInv
    <2> QED
      BY <1>1, <2>1 DEF TableInv, TableRows
  <1>6. TableComplete'
    <2>1. DOMAIN map' = DOMAIN map \ {n}
      BY <1>1, DroppedEffect DEF TableInv
    <2> SUFFICES ASSUME tablePhase = "up", ~degraded, ~raised, NEW m, Alive(m)
                 PROVE  \/ m \in DOMAIN map'
                        \/ \E u \in Writers : Under(u, "index")' /\ tableOp'[u].note = m
      BY <1>1 DEF TableComplete, Alive
    <2>2. m \in DOMAIN map \/ \E u \in Writers : Under(u, "index") /\ tableOp[u].note = m
      BY AliveTyped DEF TableInv, TableComplete
    <2>3. m # n
      BY <1>3 DEF Alive
    <2>4. \A u \in Writers : Under(u, "index") => u # t
      BY <1>1 DEF Under
    <2> QED
      BY <1>2, <2>1, <2>2, <2>3, <2>4 DEF Under
  <1> QED
    BY <1>4, <1>5, <1>6 DEF TableInv

(* The invariant survives every step of the table.                            *)
LEMMA StepTableInv == ASSUME TableInv, Table!Next PROVE TableInv'
  BY OpenTable, ExitTable, LoseTheTable, SyncAddTable, SyncDropTable, AddNoteTable, AddInnerTable,
     AddIndexTable, DeleteNoteTable, DeleteIndexTable DEF Table!Next

(* A table that was never opened is empty.                                    *)
LEMMA InitTableInv == Table!Init => TableInv
  <1> SUFFICES ASSUME Table!Init PROVE TableInv
    OBVIOUS
  <1>1. /\ log = <<>> /\ dead = {} /\ rows = <<>> /\ map = <<>> /\ tablePhase = "down"
        /\ tableOp = [t \in Writers |-> None]
    BY DEF Table!Init
  <1>2. DOMAIN rows = {} /\ DOMAIN map = {} /\ map \in [{} -> Nat] /\ IsFiniteSet({})
    BY <1>1, FS_EmptySet
  <1>3. TableRows
    BY <1>1, <1>2 DEF TableRows
  <1>4. TablePending /\ TableComplete
    BY <1>1 DEF TablePending, TableComplete, Under
  <1> QED
    BY <1>3, <1>4 DEF TableInv

-----------------------------------------------------------------------------
(* The table of one thread                                                    *)

\* One thread that adds no deleted note again: every row is a note's row, and the note is
\* alive or is being dropped; what the thread saw before its step is so when it takes it.
TableNeat ==
    /\ ~raised
    /\ \A r \in DOMAIN rows : \E n \in DOMAIN map : map[n] = r
    /\ tablePhase = "up" =>
           \A n \in DOMAIN map \cap dead : Under(Main, "drop") /\ tableOp[Main].note = n
    /\ Under(Main, "add") => (Alive(tableOp[Main].note) => tableOp[Main].already)
    /\ Under(Main, "index") =>
           Alive(tableOp[Main].note) /\ tableOp[Main].note \notin DOMAIN map

TableAlone == solo => OnlyMain /\ (~readded => TableNeat)

\* What is assumed of a step of a thread that is alone.
NeatStep == TableInv /\ TableNeat /\ OnlyMain /\ OnlyMain'

(* Only the thread that is alone has something under way.                     *)
LEMMA MainAlone ==
    ASSUME NeatStep, NEW t \in Writers
    PROVE  /\ tableOp[t] # None => t = Main
           /\ tableOp'[t] # None => t = Main
  BY DEF NeatStep, OnlyMain

(* Where every row is a note's, the next one is free.                         *)
LEMMA NeatIndexed ==
    ASSUME NeatStep, NEW n \in Range(log), n \notin DOMAIN map, Table!Indexed(n), UNCHANGED log
    PROVE  /\ ~raised'
           /\ \A r \in DOMAIN rows' : \E m \in DOMAIN map' : map'[m] = r
           /\ DOMAIN map' \subseteq DOMAIN map \cup {n}
  <1>1. Table!NextRow \notin DOMAIN rows
    <2>1. TableRows
      BY DEF NeatStep, TableInv
    <2>2. Table!NextRow \in Nat /\ \A m \in DOMAIN map : map[m] < Table!NextRow /\ map[m] \in Nat
      BY <2>1, NextRowAbove DEF TableRows
    <2>3. \A m \in DOMAIN map : map[m] # Table!NextRow
      BY <2>2
    <2> QED
      BY <2>3 DEF NeatStep, TableNeat
  <1>2. \/ UNCHANGED <<rows, map, raised>>
        \/ /\ DOMAIN rows' = DOMAIN rows \cup {Table!NextRow} /\ map'[n] = Table!NextRow
           /\ \A m \in DOMAIN map : m # n => map'[m] = map[m]
           /\ DOMAIN map' = DOMAIN map \cup {n} /\ UNCHANGED raised
    BY <1>1, IndexedEffect DEF NeatStep, TableInv
  <1> QED
    BY <1>2 DEF NeatStep, TableNeat

(* Opening gives each row to one note, in a table that has no other rows.     *)
LEMMA NeatSyncAdd == ASSUME NeatStep, Table!SyncAdd PROVE TableNeat'
  <1> DEFINE i == CHOOSE i \in Table!Unindexed : \A j \in Table!Unindexed : i <= j
  <1>1. /\ tablePhase = "sync" /\ Table!Unindexed # {} /\ Table!Indexed(log[i])
        /\ tablePhase' \in {"plain", "sync"} /\ UNCHANGED <<log, dead, tableOp>>
    BY DEF Table!SyncAdd, Table!store
  <1>2. Table!Unindexed \subseteq Nat
    BY DEF Table!Unindexed
  <1>3. i \in Table!Unindexed
    BY <1>1, <1>2, SmallestExists
  <1> HIDE DEF i
  <1>4. log[i] \in Range(log) /\ log[i] \notin DOMAIN map
    <2>1. i \in 1..Len(log) /\ log[i] \notin DOMAIN map
      BY <1>3 DEF Table!Unindexed
    <2>2. DOMAIN log = 1..Len(log)
      BY DEF NeatStep, TableInv, TableRows
    <2> QED
      BY <2>1, <2>2 DEF Range
  <1>5. /\ ~raised'
        /\ \A r \in DOMAIN rows' : \E m \in DOMAIN map' : map'[m] = r
    BY <1>1, <1>4, NeatIndexed
  <1>6. \A t \in Writers : tableOp'[t] = None
    BY <1>1 DEF NeatStep, TableInv, TablePending
  <1> QED
    BY <1>1, <1>5, <1>6, RepositoryAssumption DEF TableNeat, Under

(* Opening takes the rows of what is no longer alive.                         *)
LEMMA NeatSyncDrop == ASSUME NeatStep, Table!SyncDrop PROVE TableNeat'
  <1> DEFINE stale == {n \in DOMAIN map : ~Table!Live(n)}
  <1>1. /\ tablePhase = "sync" /\ tablePhase' = "up"
        /\ rows' = [r \in DOMAIN rows \ {map[n] : n \in stale} |-> rows[r]]
        /\ map' = [n \in DOMAIN map \ stale |-> map[n]]
        /\ UNCHANGED <<log, dead, degraded, tableOp, raised>>
    BY DEF Table!SyncDrop, Table!StaleDropped, Table!store, Table!history
  <1>2. \A r \in DOMAIN rows' : \E n \in DOMAIN map' : map'[n] = r
    <2> SUFFICES ASSUME NEW r \in DOMAIN rows' PROVE \E n \in DOMAIN map' : map'[n] = r
      OBVIOUS
    <2>1. r \in DOMAIN rows /\ \A n \in stale : map[n] # r
      BY <1>1
    <2>2. PICK n \in DOMAIN map : map[n] = r
      BY <2>1 DEF NeatStep, TableNeat
    <2>3. n \notin stale
      BY <2>1, <2>2
    <2> QED
      BY <1>1, <2>2, <2>3
  <1>3. \A n \in DOMAIN map' : n \notin dead
    BY <1>1, Copies DEF Alive
  <1>4. \A t \in Writers : tableOp'[t] = None
    BY <1>1 DEF NeatStep, TableInv, TablePending
  <1> QED
    BY <1>1, <1>2, <1>3, <1>4, RepositoryAssumption DEF TableNeat, Under, NeatStep

(* Between two processes nothing is under way.                                *)
LEMMA NeatElse ==
    ASSUME NeatStep, Table!Open \/ Table!Exit \/ Table!LoseTable
    PROVE  TableNeat' /\ UNCHANGED readded
  <1>1. /\ tablePhase' # "up" /\ raised' = raised /\ readded' = readded
        /\ UNCHANGED <<rows, map>> \/ rows' = <<>>
    BY DEF Table!Open, Table!Exit, Table!LoseTable, Table!table, Table!history
  <1>2. \A t \in Writers : tableOp'[t] = None
    BY DEF Table!Open, Table!Exit, Table!LoseTable, NeatStep, TableInv, TablePending
  <1>3. \A r \in DOMAIN rows' : \E n \in DOMAIN map' : map'[n] = r
    <2>1. CASE rows' = <<>>
      <3>1. DOMAIN rows' = {}
        BY <2>1
      <3> QED
        BY <3>1
    <2>2. CASE UNCHANGED <<rows, map>>
      BY <2>2 DEF NeatStep, TableNeat
    <2> QED
      BY <1>1, <2>1, <2>2
  <1> QED
    BY <1>1, <1>2, <1>3, RepositoryAssumption DEF TableNeat, Under, NeatStep

(* What the thread asked of the note is still so when it adds it.             *)
LEMMA NeatAddNote ==
    ASSUME NeatStep, NEW t \in Writers, NEW n \in TableNotes, Table!AddNote(t, n)
    PROVE  TableNeat'
  <1> DEFINE o == [kind |-> "add", note |-> n, already |-> Table!Live(n)]
  <1>1. /\ tablePhase = "up" /\ tableOp[t] = None /\ tableOp' = [tableOp EXCEPT ![t] = o]
        /\ UNCHANGED <<log, dead, rows, map, tablePhase, raised>>
    BY DEF Table!AddNote, Table!Set, Table!store, Table!table, Table!history
  <1>2. o # None /\ o.kind = "add" /\ o.note = n
    <2>1. Table!Live(n) \in BOOLEAN
      BY DEF Table!Live
    <2> QED
      BY <2>1, OperationNotes
  <1>3. Alive(n) => o.already
    BY Copies
  <1> HIDE DEF o
  <1>4. tableOp'[t] = o
    BY <1>1 DEF NeatStep, TableInv, TableRows
  <1>5. t = Main
    BY <1>2, <1>4, MainAlone
  <1> QED
    BY <1>1, <1>2, <1>3, <1>4, <1>5 DEF NeatStep, TableNeat, Under, Alive

(* A note the thread found missing has no row yet.                            *)
LEMMA NeatAddInner ==
    ASSUME NeatStep, NEW t \in Writers, Table!AddInner(t), ~readded'
    PROVE  TableNeat' /\ ~readded
  <1> DEFINE o == tableOp[t]
             next == IF o.already THEN None ELSE [o EXCEPT !.kind = "index"]
  <1>1. /\ Under(t, "add")
        /\ log' = IF o.note \in Range(log) THEN log ELSE Append(log, o.note)
        /\ readded' = (readded \/ o.note \in dead)
        /\ tableOp' = [tableOp EXCEPT ![t] = next]
        /\ UNCHANGED <<dead, rows, map, tablePhase, raised>>
    BY Copies DEF Table!AddInner, Table!Set, Table!table, Under
  <1>2. t = Main
    BY <1>1, MainAlone DEF Under
  <1>3. o.note \notin dead /\ ~readded
    BY <1>1
  <1>4. o \in Table!Operation /\ o.note \in TableNotes
    BY <1>1, OperationNotes DEF Under, NeatStep, TableInv, TableRows
  <1>5. /\ o.already => next = None
        /\ ~o.already => next # None /\ next.kind = "index" /\ next.note = o.note
    BY <1>1, <1>4, OperationNotes DEF Under
  <1>6. tableOp'[Main] = next
    BY <1>1, <1>2, <1>4 DEF NeatStep, TableInv, TableRows
  <1>7. Alive(o.note) => o.already
    BY <1>1, <1>2 DEF NeatStep, TableNeat
  <1> HIDE DEF o, next
  <1>8. Range(log') = Range(log) \cup {o.note}
    <2>1. CASE o.note \in Range(log)
      BY <1>1, <2>1
    <2>2. CASE o.note \notin Range(log)
      BY <1>1, <1>4, <2>2, RangeAppend DEF NeatStep, TableInv, TableRows
    <2> QED
      BY <2>1, <2>2
  <1>9. Under(Main, "index")' =>
            Alive(tableOp[Main].note)' /\ tableOp'[Main].note \notin DOMAIN map'
    <2> SUFFICES ASSUME next # None
                 PROVE  /\ o.note \in Range(log') \ dead' /\ o.note \notin DOMAIN map
                        /\ next.note = o.note
      BY <1>1, <1>6 DEF Under, Alive
    <2>1. ~o.already /\ next.note = o.note
      BY <1>5
    <2>2. o.note \notin Range(log)
      BY <1>3, <1>7, <2>1 DEF Alive
    <2>3. DOMAIN map \subseteq Range(log)
      BY DEF NeatStep, TableInv, TableRows
    <2> QED
      BY <1>1, <1>3, <1>8, <2>1, <2>2, <2>3
  <1>10. Under(Main, "add")' => FALSE
    BY <1>5, <1>6 DEF Under
  <1>11. \A n \in DOMAIN map \cap dead : tablePhase # "up"
    BY <1>1, <1>2 DEF NeatStep, TableNeat, Under
  <1> QED
    BY <1>1, <1>3, <1>9, <1>10, <1>11 DEF NeatStep, TableNeat

(* The row the note gets is free, and the note alive.                         *)
LEMMA NeatAddIndex == ASSUME NeatStep, NEW t \in Writers, Table!AddIndex(t) PROVE TableNeat'
  <1> DEFINE n == tableOp[t].note
  <1>1. /\ Under(t, "index") /\ Table!Indexed(n)
        /\ tableOp' = [tableOp EXCEPT ![t] = None] /\ UNCHANGED <<log, dead, tablePhase>>
    BY DEF Table!AddIndex, Table!Set, Table!store, Under
  <1>2. t = Main
    BY <1>1, MainAlone DEF Under
  <1>3. n \in Range(log) /\ n \notin dead /\ n \notin DOMAIN map
    BY <1>1, <1>2 DEF NeatStep, TableNeat, Alive
  <1>4. tableOp'[Main] = None
    BY <1>1, <1>2 DEF NeatStep, TableInv, TableRows
  <1>5. \A m \in DOMAIN map \cap dead : tablePhase # "up"
    BY <1>1, <1>2 DEF NeatStep, TableNeat, Under
  <1> HIDE DEF n
  <1>6. /\ ~raised'
        /\ \A r \in DOMAIN rows' : \E m \in DOMAIN map' : map'[m] = r
        /\ DOMAIN map' \subseteq DOMAIN map \cup {n}
    BY <1>1, <1>3, NeatIndexed
  <1> QED
    BY <1>1, <1>3, <1>4, <1>5, <1>6 DEF TableNeat, Under

(* The one dead note with a row is the one being dropped.                     *)
LEMMA NeatDeleteNote ==
    ASSUME NeatStep, NEW t \in Writers, NEW n \in TableNotes, Table!DeleteNote(t, n)
    PROVE  TableNeat'
  <1> DEFINE o == [kind |-> "drop", note |-> n]
  <1>1. /\ tablePhase = "up" /\ tableOp[t] = None /\ tableOp' = [tableOp EXCEPT ![t] = o]
        /\ dead' = dead \cup {n}
        /\ UNCHANGED <<log, rows, map, tablePhase, raised>>
    BY DEF Table!DeleteNote, Table!Set, Table!store, Table!table, Table!history
  <1>2. o \in Table!Operation /\ o # None /\ o.kind = "drop" /\ o.note = n
    BY OperationNotes
  <1> HIDE DEF o
  <1>3. tableOp'[t] = o
    BY <1>1 DEF NeatStep, TableInv, TableRows
  <1>4. t = Main
    BY <1>2, <1>3, MainAlone
  <1>5. \A m \in DOMAIN map : m \notin dead
    BY <1>1, <1>4 DEF NeatStep, TableNeat, Under
  <1> QED
    BY <1>1, <1>2, <1>3, <1>4, <1>5 DEF NeatStep, TableNeat, Under

(* The dropped note takes its row with it.                                    *)
LEMMA NeatDeleteIndex == ASSUME NeatStep, NEW t \in Writers, Table!DeleteIndex(t) PROVE TableNeat'
  <1> DEFINE n == tableOp[t].note
  <1>1. /\ Under(t, "drop") /\ Table!Dropped(n) /\ tableOp' = [tableOp EXCEPT ![t] = None]
        /\ UNCHANGED <<log, dead, tablePhase, raised>>
    BY DEF Table!DeleteIndex, Table!Set, Table!store, Table!history, Under
  <1>2. t = Main
    BY <1>1, MainAlone DEF Under
  <1>3. tableOp'[Main] = None
    BY <1>1, <1>2 DEF NeatStep, TableInv, TableRows
  <1>4. tablePhase = "up" => \A m \in DOMAIN map \cap dead : m = n
    BY <1>2 DEF NeatStep, TableNeat
  <1> HIDE DEF n
  <1>5. /\ DOMAIN map' = DOMAIN map \ {n}
        /\ \A m \in DOMAIN map' : map'[m] = map[m]
        /\ DOMAIN rows' = DOMAIN rows \ {map[m] : m \in {n} \cap DOMAIN map}
    BY <1>1, DroppedEffect DEF NeatStep, TableInv
  <1>6. \A r \in DOMAIN rows' : \E m \in DOMAIN map' : map'[m] = r
    BY <1>5 DEF NeatStep, TableNeat
  <1> QED
    BY <1>1, <1>3, <1>4, <1>5, <1>6 DEF NeatStep, TableNeat, Under

(* A thread that is alone keeps the table neat at every step.                 *)
LEMMA StepTableNeat ==
    ASSUME NeatStep, Table!Next, ~readded'
    PROVE  TableNeat'
  BY NeatSyncAdd, NeatSyncDrop, NeatElse, NeatAddNote, NeatAddInner, NeatAddIndex,
     NeatDeleteNote, NeatDeleteIndex DEF Table!Next

(* A deleted note that was added again is not forgotten.                      *)
LEMMA ReaddedStays == ASSUME Table!Next, readded PROVE readded'
  BY DEF Table!Next, Table!Open, Table!SyncAdd, Table!SyncDrop, Table!Exit, Table!LoseTable,
         Table!AddNote, Table!AddInner, Table!AddIndex, Table!DeleteNote, Table!DeleteIndex,
         Table!history

-----------------------------------------------------------------------------
(* Answers                                                                    *)

Living == {n \in TableNotes : Alive(n)}
BeforeNotes(query, n) == {m \in Living : query.place[m] < query.place[n]}
Chosen(R) == {n \in DOMAIN map : map[n] \in R /\ Alive(n)}

(* A query ranks the notes, and the table's distances follow the ranks.       *)
LEMMA QueryTypes ==
    ASSUME NEW query \in Table!Queries
    PROVE  /\ \A n \in TableNotes : query.place[n] \in Nat /\ query.far[n] \in Nat
           /\ \A n \in TableNotes : query.place[n] <= Cardinality(TableNotes)
           /\ \A m, n \in TableNotes : query.place[m] = query.place[n] => m = n
           /\ \A m, n \in TableNotes : query.place[m] < query.place[n] => query.far[m] <= query.far[n]
           /\ Cardinality(TableNotes) \in Nat
  <1>1. Table!Places \subseteq Nat /\ \A i \in Table!Places : i <= Cardinality(TableNotes)
    BY Copies DEF Table!Places
  <1>2. Cardinality(TableNotes) \in Nat
    BY RepositoryAssumption, FS_CardinalityType
  <1>3. /\ query.place \in [TableNotes -> Table!Places] /\ query.far \in [TableNotes -> Table!Places]
        /\ IsInjective(query.place)
        /\ \A m, n \in TableNotes : query.place[m] < query.place[n] => query.far[m] <= query.far[n]
    BY Copies DEF Table!Queries
  <1> QED
    BY <1>1, <1>2, <1>3 DEF IsInjective

(* Both answers: the notes whose rows were chosen, and the first of the scan. *)
LEMMA AnswersAre ==
    ASSUME NEW query, NEW k
    PROVE  /\ Table!MostSimilar(query, k) = {Chosen(R) : R \in Table!Nearest(query, k)}
           /\ Table!BruteForce(query, k) = {n \in Living : Cardinality(BeforeNotes(query, n)) < k}
           /\ \A R \in Table!Nearest(query, k) :
                 /\ R \subseteq DOMAIN rows
                 /\ Cardinality(R) = IF k < Cardinality(DOMAIN rows) THEN k
                                     ELSE Cardinality(DOMAIN rows)
                 /\ \A r \in R, q \in DOMAIN rows \ R : query.far[rows[r]] <= query.far[rows[q]]
  <1>1. \A R : {n \in Table!Joined(R) : Table!Live(n)} = Chosen(R)
    BY Copies DEF Table!Joined, Chosen
  <1>2. \A n : Table!Before(query, n) = BeforeNotes(query, n)
    BY Copies DEF Table!Before, BeforeNotes, Living
  <1>3. Table!BruteForce(query, k) = {n \in Living : Cardinality(BeforeNotes(query, n)) < k}
    BY <1>2, Copies DEF Table!BruteForce, Living
  <1>4. Table!MostSimilar(query, k) = {Chosen(R) : R \in Table!Nearest(query, k)}
    BY <1>1 DEF Table!MostSimilar
  <1> QED
    BY <1>3, <1>4, Copies DEF Table!Nearest, Table!Lesser

(* Between operations every live note has a row of its own.                   *)
LEMMA ServingComplete ==
    ASSUME TableInv, Table!Serving, ~raised
    PROVE  /\ \A n : Alive(n) => n \in DOMAIN map /\ n \in Living
           /\ \A n \in DOMAIN map : map[n] \in DOMAIN rows /\ rows[map[n]] = n
           /\ tablePhase = "up" /\ \A t \in Writers : tableOp[t] = None
  <1>1. tablePhase = "up" /\ ~degraded /\ \A t \in Writers : tableOp[t] = None
    BY DEF Table!Serving, Table!Quiet
  <1> QED
    BY <1>1, AliveTyped DEF TableInv, TableRows, TableComplete, Under, Living

(* The live notes are finitely many, and no note is before itself.            *)
LEMMA BeforeFinite ==
    ASSUME NEW query \in Table!Queries, NEW n
    PROVE  /\ IsFiniteSet(Living) /\ IsFiniteSet(BeforeNotes(query, n))
           /\ BeforeNotes(query, n) \subseteq Living
           /\ n \in Living => n \notin BeforeNotes(query, n)
           /\ Cardinality(BeforeNotes(query, n)) \in Nat
  <1>1. IsFiniteSet(Living)
    BY RepositoryAssumption, FS_Subset DEF Living
  <1>2. BeforeNotes(query, n) \subseteq Living
    BY DEF BeforeNotes
  <1>3. n \in Living => n \notin BeforeNotes(query, n)
    BY QueryTypes DEF BeforeNotes, Living
  <1> QED
    BY <1>1, <1>2, <1>3, FS_Subset, FS_CardinalityType

(* Of any live notes one comes first, and one last.                           *)
LEMMA FirstOf ==
    ASSUME NEW query \in Table!Queries, NEW S, S \subseteq Living, S # {}
    PROVE  /\ \E n \in S : \A m \in S : query.place[n] <= query.place[m]
           /\ \E n \in S : \A m \in S : query.place[m] <= query.place[n]
  <1> DEFINE N == Cardinality(TableNotes)
             P == {query.place[n] : n \in S}
             Q == {N - query.place[n] : n \in S}
  <1>1. N \in Nat /\ \A n \in S : query.place[n] \in Nat /\ query.place[n] <= N
    BY QueryTypes DEF Living
  <1> HIDE DEF N
  <1>2. P \subseteq Nat /\ Q \subseteq Nat /\ P # {} /\ Q # {}
    BY <1>1
  <1>3. (\E p \in P : \A m \in P : p <= m) /\ (\E q \in Q : \A m \in Q : q <= m)
    BY <1>2, SmallestExists
  <1>4. \E n \in S : \A m \in S : query.place[n] <= query.place[m]
    BY <1>3
  <1>5. PICK n \in S : \A m \in S : N - query.place[n] <= N - query.place[m]
    BY <1>3
  <1>6. \A m \in S : query.place[m] <= query.place[n]
    BY <1>1, <1>5
  <1> QED
    BY <1>4, <1>6

(* Notes that go with all before them are as many as stand before the last,   *)
(* and one more.                                                              *)
LEMMA LastCounts ==
    ASSUME NEW query \in Table!Queries, NEW S, S \subseteq Living, S # {},
           \A n \in S : BeforeNotes(query, n) \subseteq S
    PROVE  \E n \in S : Cardinality(S) = Cardinality(BeforeNotes(query, n)) + 1
  <1>1. PICK n \in S : \A m \in S : query.place[m] <= query.place[n]
    BY FirstOf
  <1>2. \A m \in S \ {n} : query.place[m] < query.place[n]
    BY <1>1, QueryTypes DEF Living
  <1>3. S = BeforeNotes(query, n) \cup {n}
    BY <1>2 DEF BeforeNotes
  <1>4. Cardinality(S) = Cardinality(BeforeNotes(query, n)) + 1
    BY <1>3, BeforeFinite, FS_AddElement
  <1> QED
    BY <1>4

(* The scan gives as many notes as the limit lets it.                         *)
LEMMA ScanTakes ==
    ASSUME NEW query \in Table!Queries, NEW k \in Nat \ {0}
    PROVE  Cardinality(Table!BruteForce(query, k)) =
               IF k < Cardinality(Living) THEN k ELSE Cardinality(Living)
  <1> DEFINE B == Table!BruteForce(query, k)
  <1>1. B = {n \in Living : Cardinality(BeforeNotes(query, n)) < k}
    BY AnswersAre
  <1> HIDE DEF B
  <1>2. IsFiniteSet(Living) /\ Cardinality(Living) \in Nat /\ Cardinality({}) = 0
    BY RepositoryAssumption, FS_Subset, FS_CardinalityType, FS_EmptySet DEF Living
  <1>3. ASSUME NEW m \in Living, NEW n \in Living, query.place[m] <= query.place[n]
        PROVE  /\ BeforeNotes(query, m) \subseteq BeforeNotes(query, n)
               /\ Cardinality(BeforeNotes(query, m)) <= Cardinality(BeforeNotes(query, n))
    <2>1. BeforeNotes(query, m) \subseteq BeforeNotes(query, n)
      BY <1>3, QueryTypes DEF BeforeNotes, Living
    <2> QED
      BY <2>1, BeforeFinite, FS_Subset
  <1>4. \A n \in B : BeforeNotes(query, n) \subseteq B
    <2> SUFFICES ASSUME NEW n \in B, NEW m \in BeforeNotes(query, n) PROVE m \in B
      OBVIOUS
    <2>1. m \in Living /\ n \in Living /\ query.place[m] < query.place[n]
      BY <1>1 DEF BeforeNotes
    <2>2. query.place[m] \in Nat /\ query.place[n] \in Nat
      BY <2>1, QueryTypes DEF Living
    <2>3. Cardinality(BeforeNotes(query, m)) <= Cardinality(BeforeNotes(query, n))
      BY <1>3, <2>1, <2>2
    <2> QED
      BY <1>1, <2>1, <2>3, BeforeFinite
  <1>5. B # {} => Cardinality(B) <= k
    <2> SUFFICES ASSUME B # {} PROVE Cardinality(B) <= k
      OBVIOUS
    <2>1. PICK n \in B : Cardinality(B) = Cardinality(BeforeNotes(query, n)) + 1
      BY <1>1, <1>4, LastCounts
    <2> QED
      BY <1>1, <2>1, BeforeFinite
  <1>6. CASE B = Living
    BY <1>2, <1>5, <1>6 DEF B
  <1>7. CASE B # Living
    <2>1. PICK m \in Living \ B : \A n \in Living \ B : query.place[m] <= query.place[n]
      BY <1>1, <1>7, FirstOf
    <2>2. Cardinality(BeforeNotes(query, m)) >= k
      BY <1>1, <2>1, BeforeFinite
    <2>3. BeforeNotes(query, m) \subseteq B
      BY <2>1, QueryTypes DEF BeforeNotes, Living
    <2>4. IsFiniteSet(B) /\ Cardinality(B) <= Cardinality(Living)
          /\ Cardinality(BeforeNotes(query, m)) <= Cardinality(B)
      BY <1>1, <1>2, <2>3, FS_Subset
    <2>5. Cardinality(B) \in Nat /\ B # {}
      <3>1. Cardinality(B) \in Nat
        BY <2>4, FS_CardinalityType
      <3>2. Cardinality(BeforeNotes(query, m)) \in Nat
        BY BeforeFinite
      <3> QED
        BY <1>2, <2>2, <2>4, <3>1, <3>2
    <2> QED
      BY <1>2, <1>5, <2>2, <2>4, <2>5, BeforeFinite DEF B
  <1> QED
    BY <1>6, <1>7

(* Notes with rows among the chosen, one more apart, are fewer than the limit. *)
LEMMA FewerThanLimit ==
    ASSUME TableInv, Table!Serving, ~raised,
           NEW query \in Table!Queries, NEW k \in Nat, NEW R \in Table!Nearest(query, k),
           NEW S, S \subseteq Living, \A m \in S : map[m] \in R,
           NEW a \in DOMAIN map \ S, map[a] \in R
    PROVE  Cardinality(S) < k
  <1> DEFINE T == S \cup {a}
             f == [m \in T |-> map[m]]
  <1>1. T \subseteq DOMAIN map /\ \A m \in DOMAIN map : rows[map[m]] = m
    BY ServingComplete DEF Living
  <1>2. f \in Injection(T, R)
    <2>1. f \in [T -> R]
      OBVIOUS
    <2>2. \A x, y \in T : f[x] = f[y] => x = y
      BY <1>1
    <2> QED
      BY <2>1, <2>2 DEF Injection, IsInjective
  <1>3. IsFiniteSet(DOMAIN rows) /\ Cardinality(DOMAIN rows) \in Nat
    BY FS_CardinalityType DEF TableInv, TableRows
  <1>4. IsFiniteSet(R) /\ Cardinality(R) \in Nat /\ Cardinality(R) <= k
    BY <1>3, AnswersAre, FS_Subset, FS_CardinalityType
  <1> HIDE DEF f
  <1>5. Cardinality(T) <= Cardinality(R)
    BY <1>2, <1>4, FS_Injection
  <1>6. IsFiniteSet(S)
    BY RepositoryAssumption, FS_Subset DEF Living
  <1>7. Cardinality(T) = Cardinality(S) + 1 /\ Cardinality(S) \in Nat
    BY <1>6, FS_AddElement, FS_CardinalityType
  <1> QED
    BY <1>4, <1>5, <1>7

(* An answer the scan would not give: too many notes are before it, so one of *)
(* them has no chosen row; the first such is the scan's, and no nearer.       *)
LEMMA HonestTable == TableInv => Table!HonestAnswers
  <1> SUFFICES ASSUME TableInv, Table!Serving, ~raised,
                      NEW query \in Table!Queries, NEW k \in Nat \ {0},
                      NEW R \in Table!Nearest(query, k), NEW a \in Chosen(R)
               PROVE  /\ Alive(a)
                      /\ a \in Table!BruteForce(query, k)
                         \/ \E n \in Table!BruteForce(query, k) \ Chosen(R) : Table!Tied(query, a, n)
    <2>1. \A k \in Table!Limits : k \in Nat \ {0}
      BY Copies, RepositoryAssumption, FS_CardinalityType DEF Table!Limits
    <2> QED
      BY <2>1, AnswersAre, Copies DEF Table!HonestAnswers
  <1>1. a \in DOMAIN map /\ map[a] \in R /\ Alive(a) /\ a \in Living
    BY ServingComplete DEF Chosen
  <1> SUFFICES ASSUME a \notin Table!BruteForce(query, k)
               PROVE  \E n \in Table!BruteForce(query, k) \ Chosen(R) : Table!Tied(query, a, n)
    BY <1>1
  <1> DEFINE S == BeforeNotes(query, a)
             U == {m \in S : map[m] \notin R}
  <1>2. /\ S \subseteq Living /\ a \notin S
        /\ ~(Cardinality(S) < k)
    BY <1>1, AnswersAre, BeforeFinite
  <1>3. U # {}
    BY <1>1, <1>2, FewerThanLimit
  <1>4. PICK n \in U : \A m \in U : query.place[n] <= query.place[m]
    BY <1>2, <1>3, FirstOf
  <1>5. n \in Living /\ query.place[n] < query.place[a] /\ map[n] \notin R
    BY <1>4 DEF BeforeNotes
  <1>6. \A m \in BeforeNotes(query, n) : map[m] \in R /\ m # a
    <2> SUFFICES ASSUME NEW m \in BeforeNotes(query, n) PROVE map[m] \in R /\ m # a
      OBVIOUS
    <2>1. m \in Living /\ query.place[m] < query.place[n]
      BY DEF BeforeNotes
    <2>2. query.place[m] \in Nat /\ query.place[n] \in Nat /\ query.place[a] \in Nat
      BY <1>1, <1>5, <2>1, QueryTypes DEF Living
    <2>3. m \in S
      BY <1>5, <2>1, <2>2 DEF BeforeNotes
    <2> QED
      BY <1>2, <1>4, <2>1, <2>2, <2>3
  <1>7. Cardinality(BeforeNotes(query, n)) < k
    BY <1>1, <1>6, BeforeFinite, FewerThanLimit
  <1>8. n \in Table!BruteForce(query, k) /\ n \notin Chosen(R)
    BY <1>5, <1>7, AnswersAre DEF Chosen
  <1>9. query.far[a] <= query.far[n]
    <2>1. map[n] \in DOMAIN rows /\ rows[map[n]] = n /\ rows[map[a]] = a
      BY <1>1, <1>5, ServingComplete DEF Living
    <2> QED
      BY <1>1, <1>5, <2>1, AnswersAre
  <1>10. query.far[n] <= query.far[a] /\ query.far[n] \in Nat /\ query.far[a] \in Nat
    BY <1>1, <1>5, QueryTypes DEF Living
  <1> QED
    BY <1>8, <1>9, <1>10 DEF Table!Tied

(* In a neat table rows and live notes are the same in number, and so are the *)
(* answers; what is the table's alone and what is the scan's alone are tied.  *)
LEMMA IdenticalTable ==
    ASSUME TableInv, TableNeat
    PROVE  Table!IdenticalAnswers
  <1>1. ~raised
    BY DEF TableNeat
  <1>2. ASSUME Table!Serving, NEW query \in Table!Queries, NEW k \in Nat \ {0},
               NEW R \in Table!Nearest(query, k)
        PROVE  /\ Cardinality(Chosen(R)) = Cardinality(Table!BruteForce(query, k))
               /\ \A m \in Chosen(R) \ Table!BruteForce(query, k),
                     n \in Table!BruteForce(query, k) \ Chosen(R) : Table!Tied(query, m, n)
    <2>1. /\ \A m : Alive(m) => m \in DOMAIN map /\ m \in Living
          /\ \A m \in DOMAIN map : map[m] \in DOMAIN rows /\ rows[map[m]] = m
          /\ tablePhase = "up" /\ \A t \in Writers : tableOp[t] = None
      BY <1>1, <1>2, ServingComplete
    <2>2. \A m \in DOMAIN map : Alive(m)
      BY <2>1, RepositoryAssumption DEF TableNeat, TableInv, TableRows, Under, Alive
    <2>3. \A r \in DOMAIN rows : \E m \in DOMAIN map : map[m] = r
      BY DEF TableNeat
    <2>4. R \subseteq DOMAIN rows
      BY AnswersAre
    <2>5. DOMAIN map = Living
      BY <2>1, <2>2 DEF Living
    <2>6. ASSUME NEW C \in SUBSET DOMAIN rows
          PROVE  Cardinality(Chosen(C)) = Cardinality(C)
      <3> DEFINE f == [m \in Chosen(C) |-> map[m]]
      <3>1. f \in Injection(Chosen(C), C)
        <4>1. f \in [Chosen(C) -> C] /\ \A x, y \in Chosen(C) : f[x] = f[y] => x = y
          BY <2>1 DEF Chosen
        <4> QED
          BY <4>1 DEF Injection, IsInjective
      <3>2. \A q \in C : \E m \in Chosen(C) : f[m] = q
        BY <2>2, <2>3 DEF Chosen
      <3>3. f \in Surjection(Chosen(C), C)
        BY <3>1, <3>2 DEF Surjection, Injection
      <3>4. IsFiniteSet(C)
        BY FS_Subset DEF TableInv, TableRows
      <3> HIDE DEF f
      <3> QED
        BY <3>1, <3>3, <3>4, FS_Injection
    <2>7. Chosen(DOMAIN rows) = Living
      BY <2>1, <2>2, <2>5 DEF Chosen
    <2>8. Cardinality(Chosen(R)) = Cardinality(Table!BruteForce(query, k))
      <3>1. Cardinality(Chosen(R)) = Cardinality(R) /\ Cardinality(Living) = Cardinality(DOMAIN rows)
        BY <2>4, <2>6, <2>7
      <3> QED
        BY <3>1, ScanTakes, AnswersAre
    <2>9. ASSUME NEW m \in Chosen(R) \ Table!BruteForce(query, k),
                 NEW n \in Table!BruteForce(query, k) \ Chosen(R)
          PROVE  Table!Tied(query, m, n)
      <3>1. /\ m \in Living /\ map[m] \in R /\ rows[map[m]] = m
            /\ ~(Cardinality(BeforeNotes(query, m)) < k)
        BY <2>1, AnswersAre DEF Chosen
      <3>2. /\ n \in Living /\ map[n] \in DOMAIN rows \ R /\ rows[map[n]] = n
            /\ Cardinality(BeforeNotes(query, n)) < k
        BY <2>1, <2>2, <2>5, AnswersAre DEF Chosen
      <3>3. /\ query.place[m] \in Nat /\ query.place[n] \in Nat
            /\ query.far[m] \in Nat /\ query.far[n] \in Nat
            /\ query.place[n] < query.place[m] => query.far[n] <= query.far[m]
        BY <3>1, <3>2, QueryTypes DEF Living
      <3>4. ~(query.place[m] <= query.place[n])
        <4> SUFFICES ASSUME query.place[m] <= query.place[n] PROVE FALSE
          OBVIOUS
        <4>1. BeforeNotes(query, m) \subseteq BeforeNotes(query, n)
          BY <3>3, QueryTypes DEF BeforeNotes, Living
        <4>2. Cardinality(BeforeNotes(query, m)) <= Cardinality(BeforeNotes(query, n))
          BY <4>1, BeforeFinite, FS_Subset
        <4> QED
          BY <3>1, <3>2, <4>2, BeforeFinite
      <3>5. query.far[m] <= query.far[n]
        BY <3>1, <3>2, AnswersAre
      <3>6. query.far[n] <= query.far[m]
        BY <3>3, <3>4
      <3>7. query.far[m] \in Nat /\ query.far[n] \in Nat
        BY <3>3
      <3> QED
        BY <3>5, <3>6, <3>7 DEF Table!Tied
    <2> QED
      BY <2>8, <2>9
  <1>3. \A k \in Table!Limits : k \in Nat \ {0}
    BY Copies, RepositoryAssumption, FS_CardinalityType DEF Table!Limits
  <1> QED
    BY <1>1, <1>2, <1>3, AnswersAre, Copies DEF Table!IdenticalAnswers

(* Steps of the log leave the table as it was.                                *)
LEMMA TableStep ==
    ASSUME TableInv, [RepositoryNext]_<<part, solo, vars, tableVars>>
    PROVE  TableInv'
  <1>1. CASE Table!Next
    BY <1>1, StepTableInv
  <1>2. CASE UNCHANGED tableVars
    BY <1>2 DEF tableVars, TableInv, TableRows, TablePending, TableComplete, Under, Alive
  <1> QED
    BY <1>1, <1>2 DEF RepositoryNext

(* The lone thread keeps its table neat, steps of the log included.           *)
LEMMA AloneStep ==
    ASSUME TableInv, TableAlone, [RepositoryNext]_<<part, solo, vars, tableVars>>
    PROVE  TableAlone'
  <1>1. solo' = solo /\ (solo => (OnlyMain => OnlyMain'))
    BY DEF RepositoryNext, OnlyMain, vars, threads, tableVars
  <1>2. CASE Table!Next
    <2> SUFFICES ASSUME solo, ~readded' PROVE TableNeat'
      BY <1>1 DEF TableAlone
    <2>1. ~readded
      BY <1>2, ReaddedStays
    <2>2. NeatStep
      BY <1>1, <2>1 DEF TableAlone, NeatStep
    <2> QED
      BY <1>2, <2>2, StepTableNeat
  <1>3. CASE UNCHANGED tableVars
    BY <1>1, <1>3 DEF tableVars, TableAlone, TableNeat, Under, Alive
  <1> QED
    BY <1>2, <1>3 DEF RepositoryNext

(* Nothing is under way at first.                                             *)
LEMMA InitTableAlone == RepositoryInit => TableAlone
  <1> SUFFICES ASSUME RepositoryInit PROVE OnlyMain /\ TableNeat
    BY DEF TableAlone
  <1>1. OnlyMain
    BY DEF RepositoryInit, Init, Table!Init, OnlyMain
  <1>2. TableNeat
    BY RepositoryAssumption DEF RepositoryInit, Table!Init, TableNeat, Under
  <1> QED
    BY <1>1, <1>2

(* Whatever rows the threads, a death of the process and a lost table left:   *)
(* no answer of the table is a deleted note, and one the scan would not give  *)
(* stands for one as far that it would.                                       *)
THEOREM TableIsHonest == RepositorySpec => []HonestAnswers
  <1>1. RepositoryInit => TableInv
    BY InitTableInv DEF RepositoryInit
  <1>2. TableInv /\ [RepositoryNext]_<<part, solo, vars, tableVars>> => TableInv'
    BY TableStep
  <1>3. TableInv => HonestAnswers
    BY HonestTable DEF HonestAnswers
  <1> QED
    BY <1>1, <1>2, <1>3, PTL DEF RepositorySpec

(* One thread that adds no deleted note again gets the answers of the scan,   *)
(* for every number of notes and every query: as many, and other ones only    *)
(* where notes are equally far at the limit.                                  *)
THEOREM TableIsExact == RepositorySpec => []IdenticalAlone
  <1>1. RepositoryInit => TableInv /\ TableAlone
    BY InitTableInv, InitTableAlone DEF RepositoryInit
  <1>2. TableInv /\ TableAlone /\ [RepositoryNext]_<<part, solo, vars, tableVars>>
            => TableInv' /\ TableAlone'
    BY TableStep, AloneStep
  <1>3. TableInv /\ TableAlone => IdenticalAlone
    BY IdenticalTable DEF IdenticalAlone, TableAlone
  <1> QED
    BY <1>1, <1>2, <1>3, PTL DEF RepositorySpec

-----------------------------------------------------------------------------
(* The log, whatever its threads do                                           *)

USE StoreAssumption, NoneAssumption DEF vars, memory, threads, history

(* A garbled line is no record, and a record is not nothing.                  *)
LEMMA RecordTypes == Garbled \notin Record /\ \A r \in Record : r.id \in Ids
  BY DEF Record, Garbled

(* What applying one record does to the memory.                               *)
LEMMA AppliedEffect ==
    ASSUME TypeOK, NEW r \in Record, Applied(r)
    PROVE  /\ notes' \subseteq Ids /\ edges' \subseteq Ids \X Ids /\ tombstones' \subseteq Ids
           /\ events' \in Seq(Record)
           /\ notes \subseteq notes' /\ tombstones \subseteq tombstones'
           /\ \A id \in notes' \ notes : r.kind = "note" /\ r.id = id
           /\ \A e \in edges' \ edges : r.kind = "edge" /\ r.id = e[1] /\ r.value = e[2]
           /\ \A i \in 1..Len(events') :
                  events'[i] = r \/ (i \in 1..Len(events) /\ events'[i] = events[i])
           /\ r.kind = "note" => r.id \in notes'
           /\ r.kind = "deleted" /\ r.id \in notes => r.id \in tombstones'
  <1>1. r.id \in Ids
    BY RecordTypes
  <1>2. notes' = IF r.kind = "note" THEN notes \cup {r.id} ELSE notes
    BY DEF Applied
  <1>3. /\ notes' \subseteq Ids /\ notes \subseteq notes'
        /\ \A id \in notes' \ notes : r.kind = "note" /\ r.id = id
        /\ r.kind = "note" => r.id \in notes'
    BY <1>1, <1>2 DEF TypeOK
  <1>4. tombstones' = IF r.kind = "deleted" /\ r.id \in notes
                      THEN tombstones \cup {r.id} ELSE tombstones
    BY DEF Applied, Tombstoned
  <1>5. /\ tombstones' \subseteq Ids /\ tombstones \subseteq tombstones'
        /\ r.kind = "deleted" /\ r.id \in notes => r.id \in tombstones'
    BY <1>1, <1>4 DEF TypeOK
  <1>6. r.kind = "edge" => r.value \in Ids
    BY DEF Record
  <1>7. edges' = IF r.kind = "edge" THEN edges \cup {<<r.id, r.value>>} ELSE edges
    BY DEF Applied
  <1>8. /\ edges' \subseteq Ids \X Ids
        /\ \A e \in edges' \ edges : r.kind = "edge" /\ r.id = e[1] /\ r.value = e[2]
    BY <1>1, <1>6, <1>7 DEF TypeOK
  <1>9. events' \in {events, Append(events, r)} /\ events \in Seq(Record)
    BY DEF Applied, Logged, TypeOK
  <1>10. /\ events' \in Seq(Record)
         /\ \A i \in 1..Len(events') :
                events'[i] = r \/ (i \in 1..Len(events) /\ events'[i] = events[i])
    <2>1. CASE events' = events
      BY <1>9, <2>1
    <2>2. CASE events' = Append(events, r)
      BY <1>9, <2>2
    <2> QED
      BY <1>9, <2>1, <2>2
  <1> QED
    BY <1>3, <1>5, <1>8, <1>10

(* Applying a line of the file shows nothing that is not on the disk.         *)
LEMMA AppliedOnDisk ==
    ASSUME TypeOK, NoPhantom, NEW r \in Record, Applied(r), r \in Lines, UNCHANGED file
    PROVE  NoPhantom'
  <1>1. Lines' = Lines
    BY DEF Lines
  <1>2. \A id \in notes' : \E l \in Lines : l.kind = "note" /\ l.id = id
    BY AppliedEffect DEF NoPhantom
  <1>3. \A e \in edges' : \E l \in Lines : l.kind = "edge" /\ l.id = e[1] /\ l.value = e[2]
    BY AppliedEffect DEF NoPhantom
  <1>4. \A i \in 1..Len(events') : events'[i] \in Lines
    BY AppliedEffect DEF NoPhantom
  <1> QED
    BY <1>1, <1>2, <1>3, <1>4 DEF NoPhantom

(* A new process opening an empty index satisfies the invariant.              *)
LEMMA InitSInv == Init => SInv
  <1> SUFFICES ASSUME Init PROVE SInv
    OBVIOUS
  <1>1. TypeOK
    <2>1. file \in Seq(Record \cup {Garbled}) /\ events \in Seq(Record)
      BY DEF Init
    <2>2. op \in [Writers -> Record \cup {None}]
      BY DEF Init
    <2>3. stage \in [Writers -> {"idle", "append", "apply"}]
      BY DEF Init
    <2>4. /\ notes \subseteq Ids /\ edges \subseteq Ids \X Ids
          /\ tombstones \subseteq Ids /\ deleted \subseteq Ids
      BY DEF Init
    <2>5. torn \in BOOLEAN /\ phase \in {"up", "loading", "failed"}
      BY Zenon DEF Init
    <2>6. cursor = 1 /\ crashes = 0
      BY DEF Init
    <2>7. cursor \in Nat \ {0} /\ crashes \in Nat
      BY <2>6
    <2> QED
      BY <2>1, <2>2, <2>3, <2>4, <2>5, <2>7 DEF TypeOK
  <1>2. NoPhantom /\ DeletedForGood /\ LoadedShows
    BY DEF Init, NoPhantom, DeletedForGood, LoadedShows
  <1>3. Held /\ DeletionsLast /\ Whole
    BY DEF Init, Held, DeletionsLast, Whole, Lines
  <1> QED
    BY <1>1, <1>2, <1>3 DEF SInv

(* An operation begins: nothing shown or stored changes.                      *)
LEMMA CallStep ==
    ASSUME SInv, NEW w \in Writers, NEW r \in Record, Call(w, r)
    PROVE  SInv'
  <1>1. /\ phase = "up" /\ stage[w] = "idle" /\ Changes(r)
        /\ op' = [op EXCEPT ![w] = r] /\ stage' = [stage EXCEPT ![w] = "append"]
        /\ UNCHANGED <<file, torn, memory, phase, cursor, crashes, deleted>>
    BY DEF Call
  <1>2. Lines' = Lines
    BY <1>1 DEF Lines
  <1>3. TypeOK'
    BY <1>1 DEF SInv, TypeOK
  <1>4. NoPhantom' /\ DeletedForGood' /\ Whole'
    BY <1>1, <1>2 DEF SInv, NoPhantom, DeletedForGood, Whole
  <1>5. DeletionsLast' /\ LoadedShows'
    BY <1>1, <1>2 DEF SInv, DeletionsLast, LoadedShows, NoteLine
  <1>6. r.kind = "deleted" => r.id \in notes
    BY <1>1 DEF Changes, Live
  <1>7. Held'
    BY <1>1, <1>2, <1>6 DEF SInv, Held, TypeOK
  <1> QED
    BY <1>3, <1>4, <1>5, <1>7 DEF SInv

(* A line joins the file behind the note it may delete.                       *)
LEMMA AppendStep ==
    ASSUME SInv, NEW w \in Writers, AppendLine(w)
    PROVE  SInv'
  <1> DEFINE r == op[w]
  <1>1. /\ file' = Append(file, r) /\ torn' = FALSE /\ stage[w] = "append"
        /\ stage' = [stage EXCEPT ![w] = "apply"]
        /\ UNCHANGED <<memory, phase, cursor, op, crashes, deleted>>
    BY DEF AppendLine, Line, SInv, Whole
  <1>2. r \in Record /\ phase = "up" /\ file \in Seq(Record \cup {Garbled})
    BY <1>1 DEF SInv, TypeOK, Held
  <1>3. r.kind = "deleted" => r.id \in notes
    BY <1>1 DEF SInv, Held
  <1> HIDE DEF r
  <1>4. /\ Len(file') = Len(file) + 1 /\ file'[Len(file) + 1] = r
        /\ \A i \in 1..Len(file) : file'[i] = file[i]
    BY <1>1, <1>2
  <1>5. Lines' = Lines \cup {r}
    BY <1>2, <1>4 DEF Lines
  <1>6. TypeOK'
    <2>1. file' \in Seq(Record \cup {Garbled})
      BY <1>1, <1>2
    <2> QED
      BY <1>1, <2>1 DEF SInv, TypeOK
  <1>7. NoPhantom' /\ DeletedForGood' /\ LoadedShows'
    BY <1>1, <1>2, <1>5 DEF SInv, NoPhantom, DeletedForGood, LoadedShows
  <1>8. Whole'
    BY <1>1, <1>2, <1>5, RecordTypes DEF SInv, Whole
  <1>9. Held'
    BY <1>1, <1>5 DEF SInv, Held, TypeOK, r
  <1>10. DeletionsLast'
    <2> DEFINE NewLine(id, n) == \E j \in 1..n : file'[j].kind = "note" /\ file'[j].id = id
    <2>1. \A id \in notes : NoteLine(id, Len(file))
      BY DEF SInv, NoPhantom, NoteLine, Lines
    <2>2. \A id, n : n \in 0..Len(file) /\ NoteLine(id, n) => NewLine(id, n)
      BY <1>2, <1>4 DEF NoteLine
    <2>3. \A id : NoteLine(id, Len(file)) => NewLine(id, Len(file) + 1)
      BY <1>2, <1>4 DEF NoteLine
    <2>4. ASSUME NEW i \in 1..Len(file'), file'[i].kind = "deleted"
          PROVE  NewLine(file'[i].id, i)
      <3> HIDE DEF NewLine
      <3>1. CASE i = Len(file) + 1
        <4>1. file'[i] = r
          BY <1>4, <3>1
        <4>2. r.id \in notes
          BY <1>3, <2>4, <4>1
        <4>3. NewLine(r.id, Len(file) + 1)
          BY <2>1, <2>3, <4>2
        <4> QED
          BY <3>1, <4>1, <4>3
      <3>2. CASE i \in 1..Len(file)
        <4>1. file'[i] = file[i]
          BY <1>4, <3>2
        <4>2. NoteLine(file[i].id, i)
          BY <2>4, <3>2, <4>1 DEF SInv, DeletionsLast
        <4>3. i \in 0..Len(file)
          BY <1>2, <3>2
        <4> QED
          BY <2>2, <4>1, <4>2, <4>3
      <3> QED
        BY <1>2, <1>4, <3>1, <3>2
    <2>5. \A id \in deleted : \E l \in Lines : l.kind = "deleted" /\ l.id = id
      BY DEF SInv, DeletionsLast
    <2> QED
      BY <1>1, <1>5, <2>4, <2>5 DEF DeletionsLast, NoteLine
  <1> QED
    BY <1>6, <1>7, <1>8, <1>9, <1>10 DEF SInv

(* An append that raises leaves everything as it was.                         *)
LEMMA FailStep ==
    ASSUME SInv, ~TornWrites, NEW w \in Writers, AppendFails(w)
    PROVE  SInv'
  <1>1. /\ torn' = torn /\ stage[w] = "append"
        /\ op' = [op EXCEPT ![w] = None] /\ stage' = [stage EXCEPT ![w] = "idle"]
        /\ UNCHANGED <<file, memory, phase, cursor, crashes, deleted>>
    BY DEF AppendFails, Untouched, Returned, SInv, Whole
  <1>2. Lines' = Lines
    BY <1>1 DEF Lines
  <1>3. TypeOK'
    BY <1>1 DEF SInv, TypeOK
  <1>4. NoPhantom' /\ DeletedForGood' /\ Whole'
    BY <1>1, <1>2 DEF SInv, NoPhantom, DeletedForGood, Whole
  <1>5. DeletionsLast' /\ LoadedShows'
    BY <1>1, <1>2 DEF SInv, DeletionsLast, LoadedShows, NoteLine
  <1>6. Held'
    BY <1>1, <1>2 DEF SInv, Held, TypeOK
  <1> QED
    BY <1>3, <1>4, <1>5, <1>6 DEF SInv

(* The memory takes up a line that is on the disk.                            *)
LEMMA ApplyStep ==
    ASSUME SInv, NEW w \in Writers, Apply(w)
    PROVE  SInv'
  <1> DEFINE r == op[w]
  <1>1. /\ stage[w] = "apply" /\ Applied(r)
        /\ deleted' = IF r.kind = "deleted" THEN deleted \cup {r.id} ELSE deleted
        /\ op' = [op EXCEPT ![w] = None] /\ stage' = [stage EXCEPT ![w] = "idle"]
        /\ UNCHANGED <<file, torn, phase, cursor, crashes>>
    BY DEF Apply, Returned
  <1>2. /\ r \in Record /\ r \in Lines /\ phase = "up"
        /\ r.kind = "deleted" => r.id \in notes
    BY <1>1 DEF SInv, TypeOK, Held
  <1>3. Held'
    <2>1. notes \subseteq notes'
      BY <1>1, <1>2, AppliedEffect DEF SInv
    <2>2. Lines' = Lines
      BY <1>1 DEF Lines
    <2> QED
      BY <1>1, <2>1, <2>2 DEF SInv, Held, TypeOK
  <1> HIDE DEF r
  <1>4. Lines' = Lines /\ r.id \in Ids
    BY <1>1, <1>2, RecordTypes DEF Lines
  <1>5. TypeOK'
    BY <1>1, <1>2, <1>4, AppliedEffect DEF SInv, TypeOK
  <1>6. NoPhantom'
    BY <1>1, <1>2, AppliedOnDisk DEF SInv
  <1>7. DeletedForGood'
    BY <1>1, <1>2, AppliedEffect DEF SInv, DeletedForGood
  <1>8. DeletionsLast'
    BY <1>1, <1>2, <1>4 DEF SInv, DeletionsLast, NoteLine
  <1>9. LoadedShows' /\ Whole'
    BY <1>1, <1>2, <1>4 DEF SInv, LoadedShows, Whole
  <1> QED
    BY <1>3, <1>5, <1>6, <1>7, <1>8, <1>9 DEF SInv

(* A new process starts from nothing.                                         *)
LEMMA RestartStep ==
    ASSUME SInv, ~TornWrites, Restart
    PROVE  SInv'
  <1>1. /\ torn' = torn /\ notes' = {} /\ edges' = {} /\ events' = <<>> /\ tombstones' = {}
        /\ phase' = "loading" /\ cursor' = 1 /\ crashes' = crashes + 1
        /\ op' = [x \in Writers |-> None] /\ stage' = [x \in Writers |-> "idle"]
        /\ UNCHANGED <<file, deleted>>
    BY DEF Restart, Nothing, SInv, Whole
  <1>2. Lines' = Lines
    BY <1>1 DEF Lines
  <1>3. TypeOK'
    BY <1>1 DEF SInv, TypeOK
  <1>4. NoPhantom' /\ DeletedForGood' /\ LoadedShows'
    BY <1>1 DEF NoPhantom, DeletedForGood, LoadedShows
  <1>5. DeletionsLast' /\ Whole'
    BY <1>1, <1>2 DEF SInv, DeletionsLast, Whole, NoteLine
  <1>6. Held'
    BY <1>1 DEF Held
  <1> QED
    BY <1>3, <1>4, <1>5, <1>6 DEF SInv

(* Loading one more line of the file.                                         *)
LEMMA LoadStep ==
    ASSUME SInv, LoadLine
    PROVE  SInv'
  <1> DEFINE r == file[cursor]
  <1>1. /\ phase = "loading" /\ cursor \in 1..Len(file) /\ cursor \in Nat
        /\ UNCHANGED <<file, torn, op, stage, crashes, deleted>>
        /\ r \in Lines
    BY DEF LoadLine, Lines, SInv, TypeOK
  <1>2. r \in Record /\ r # Garbled
    BY <1>1 DEF SInv, TypeOK, Whole
  <1>3. cursor' = cursor + 1 /\ Applied(r) /\ UNCHANGED phase
    BY <1>2 DEF LoadLine, Replay
  <1>4. r.kind = "deleted" => r.id \in notes
    <2> SUFFICES ASSUME r.kind = "deleted" PROVE r.id \in notes
      OBVIOUS
    <2>1. PICK i \in 1..cursor : file[i].kind = "note" /\ file[i].id = r.id
      BY <1>1 DEF SInv, DeletionsLast, NoteLine
    <2>2. i \in 1..(cursor - 1)
      BY <1>1, <2>1
    <2> QED
      BY <1>1, <2>1, <2>2 DEF SInv, LoadedShows
  <1>5. LoadedShows'
    <2>1. /\ notes \subseteq notes' /\ tombstones \subseteq tombstones'
          /\ r.kind = "note" => r.id \in notes'
          /\ r.kind = "deleted" => r.id \in tombstones'
      BY <1>2, <1>3, <1>4, AppliedEffect DEF SInv
    <2>2. \A i \in 1..cursor : i \in 1..(cursor - 1) \/ i = cursor
      BY <1>1
    <2>3. \A i \in 1..cursor :
              /\ i <= Len(file)
              /\ file[i].kind = "note" => file[i].id \in notes'
              /\ file[i].kind = "deleted" => file[i].id \in tombstones'
      BY <1>1, <2>1, <2>2 DEF SInv, LoadedShows
    <2>4. (cursor' - 1) = cursor
      BY <1>1, <1>3
    <2> QED
      BY <1>1, <2>3, <2>4 DEF LoadedShows
  <1> HIDE DEF r
  <1>6. TypeOK'
    BY <1>1, <1>2, <1>3, AppliedEffect DEF SInv, TypeOK
  <1>7. NoPhantom'
    BY <1>1, <1>2, <1>3, AppliedOnDisk DEF SInv
  <1>8. DeletedForGood'
    BY <1>1, <1>3 DEF DeletedForGood
  <1>9. Lines' = Lines
    BY <1>1 DEF Lines
  <1>10. DeletionsLast' /\ Whole'
    BY <1>1, <1>9 DEF SInv, DeletionsLast, Whole, NoteLine
  <1>11. Held'
    BY <1>1, <1>9 DEF SInv, Held
  <1> QED
    BY <1>5, <1>6, <1>7, <1>8, <1>10, <1>11 DEF SInv

(* All lines are loaded: every deletion on the disk shows.                    *)
LEMMA LoadedStep ==
    ASSUME SInv, LoadEnds
    PROVE  SInv'
  <1>1. /\ phase = "loading" /\ cursor > Len(file) /\ phase' = "up"
        /\ UNCHANGED <<file, torn, memory, cursor, op, stage, crashes, deleted>>
    BY DEF LoadEnds, SInv, Whole
  <1>2. Lines' = Lines
    BY <1>1 DEF Lines
  <1>3. TypeOK'
    BY <1>1 DEF SInv, TypeOK
  <1>4. DeletedForGood'
    <2> SUFFICES ASSUME NEW id \in deleted PROVE id \in tombstones
      BY <1>1 DEF DeletedForGood
    <2>1. PICK i \in 1..Len(file) : file[i].kind = "deleted" /\ file[i].id = id
      BY DEF SInv, DeletionsLast, Lines
    <2>2. i \in 1..(cursor - 1)
      BY <1>1, <2>1 DEF SInv, TypeOK
    <2> QED
      BY <1>1, <2>1, <2>2 DEF SInv, LoadedShows
  <1>5. NoPhantom' /\ Whole'
    BY <1>1, <1>2 DEF SInv, NoPhantom, Whole
  <1>6. DeletionsLast' /\ LoadedShows'
    BY <1>1, <1>2 DEF SInv, DeletionsLast, LoadedShows, NoteLine
  <1>7. Held'
    BY <1>1, <1>2 DEF SInv, Held
  <1> QED
    BY <1>3, <1>4, <1>5, <1>6, <1>7 DEF SInv

(* The invariant survives every step, and steps that change nothing.          *)
LEMMA NextSInv == ASSUME ~TornWrites PROVE SInv /\ [Next]_vars => SInv'
  <1> SUFFICES ASSUME SInv, [Next]_vars PROVE SInv'
    OBVIOUS
  <1>1. CASE Next
    BY <1>1, CallStep, AppendStep, FailStep, ApplyStep, RestartStep, LoadStep, LoadedStep
       DEF Next
  <1>2. CASE UNCHANGED vars
    <2>1. Lines' = Lines
      BY <1>2 DEF Lines
    <2>2. TypeOK' /\ Held' /\ Whole'
      BY <1>2, <2>1 DEF SInv, TypeOK, Held, Whole
    <2>3. NoPhantom' /\ DeletedForGood' /\ LoadedShows'
      BY <1>2, <2>1 DEF SInv, NoPhantom, DeletedForGood, LoadedShows
    <2>4. DeletionsLast'
      BY <1>2, <2>1 DEF SInv, DeletionsLast, NoteLine
    <2> QED
      BY <2>2, <2>3, <2>4 DEF SInv
  <1> QED
    BY <1>1, <1>2

(* The durability invariant of _append: whatever threads call the index and   *)
(* wherever appends raise or the process dies, memory shows nothing that the  *)
(* file does not hold.                                                        *)
THEOREM Durable == ASSUME ~TornWrites PROVE Spec => []NoPhantom
  <1>1. SInv => NoPhantom
    BY DEF SInv
  <1> QED
    BY <1>1, InitSInv, NextSInv, PTL DEF Spec

(* A note that was deleted stays deleted, across restarts too.                *)
THEOREM DeletionIsFinal == ASSUME ~TornWrites PROVE Spec => []DeletedForGood
  <1>1. SInv => DeletedForGood
    BY DEF SInv
  <1> QED
    BY <1>1, InitSInv, NextSInv, PTL DEF Spec
=============================================================================
