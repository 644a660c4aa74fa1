---------------------------- MODULE IntakeProofs ----------------------------
(***************************************************************************)
(* For any captures, attachments, copies and faults: what the lock keeps    *)
(* true of the plan, what the choice of a free name keeps true of the       *)
(* attachments, and what the memory of the last copy keeps true of the      *)
(* clipboard.                                                               *)
(*                                                                          *)
(* The three do not depend on each other, so each has its own inductive     *)
(* invariant, over the types: Orderly (who organizes has the lock and knows *)
(* the index), Apart (who writes has a name nobody has) and Fresh (the      *)
(* newest copy is either not filed or the one remembered).                  *)
(***************************************************************************)
EXTENDS Intake, FiniteSetTheorems, SequenceTheorems, WellFoundedInduction, TLAPS

USE IntakeAssumption

\* d has exactly the keys S.
Keyed(d, S) == d = [k \in S |-> d[k]]

Types ==
    /\ up \in BOOLEAN /\ hotkey \in BOOLEAN
    /\ job \in [Workers -> {"idle", "save", "write", "organize", "done", "failed"}]
    /\ Keyed(mem, Workers) /\ Keyed(target, Requests)
    /\ unfinished \in BOOLEAN

\* A request has a thread only once it is answered.
Unasked == Keyed(answer, Requests) /\ \A r \in Requests : answer[r] = None => job[r] = "idle"

Orderly ==
    /\ lock # None => lock \in Requests /\ job[lock] = "organize"
    /\ ~hotkey => /\ job[Key] = "idle"
                  /\ \A w \in Workers : job[w] = "organize" => lock = w /\ mem[w] = index
    /\ PlanComplete

Apart ==
    /\ IsFiniteSet(DOMAIN files) /\ saved \in [Requests -> Seq(DOMAIN files)]
    /\ ~collided =>
          /\ \A r \in Requests : job[r] = "write" => target[r] \notin DOMAIN files
          /\ \A q, r \in Requests :
                job[q] = "write" /\ job[r] = "write" /\ target[q] = target[r] => q = r
    /\ MediaKept

Fresh ==
    /\ copies \in Nat /\ filed \in Seq(Nat)
    /\ clip # None => clip.number = copies
    /\ \A i \in 1..Len(filed) : filed[i] <= copies /\ (filed[i] = copies => lastCaptured = clip.text)
    /\ CopiesFiledOnce

-----------------------------------------------------------------------------
LEMMA InitTypes == Init => Types
BY DEF Init, NoJobs, Types, Keyed

LEMMA WorkersAre == Requests \subseteq Workers /\ Key \in Workers /\ Key \notin Requests /\ None \notin Workers
BY DEF Workers

LEMMA KeyedExcept ==
    ASSUME NEW d, NEW S, NEW k, NEW v, Keyed(d, S)
    PROVE  Keyed([d EXCEPT ![k] = v], S)
BY DEF Keyed

LEMMA NextTypes == Types /\ [Next]_vars => Types'
<1> SUFFICES ASSUME Types, [Next]_vars PROVE Types' OBVIOUS
<1> USE DEF Types, http, media, notes, desk, counts
<1>1. /\ job' \in [Workers -> {"idle", "save", "write", "organize", "done", "failed"}]
      /\ up' \in BOOLEAN /\ hotkey' \in BOOLEAN
  BY DEF Next, vars, Environment, Work, Start, Stop, NoJobs, Go, PostCapture, Refuse, Copy, PressOnSelection,
     PressOnCopy, Captures, Fail, OrganizeParagraph, Project, ChooseName, WriteBytes, Acquire
<1>2. Keyed(mem', Workers)
  <2>1. mem' = mem \/ \E k, v : mem' = [mem EXCEPT ![k] = v]
    BY Zenon DEF Next, vars, Environment, Work, Start, Stop, PostCapture, Refuse, Copy, PressOnSelection,
       PressOnCopy, Captures, Fail, OrganizeParagraph, Project, ChooseName, WriteBytes, Acquire
  <2>2. CASE mem' = mem BY <2>2 DEF Keyed
  <2>3. CASE \E k, v : mem' = [mem EXCEPT ![k] = v]
    <3>1. PICK k, v : mem' = [mem EXCEPT ![k] = v] BY <2>3
    <3>2. Keyed(mem, Workers) OBVIOUS
    <3> QED BY <3>1, <3>2, KeyedExcept
  <2> QED BY <2>1, <2>2, <2>3
<1>3. Keyed(target', Requests)
  <2>1. target' = target \/ \E k, v : target' = [target EXCEPT ![k] = v]
    BY Zenon DEF Next, vars, Environment, Work, Start, Stop, PostCapture, Refuse, Copy, PressOnSelection,
       PressOnCopy, Captures, Fail, OrganizeParagraph, Project, ChooseName, WriteBytes, Acquire
  <2>2. CASE target' = target BY <2>2 DEF Keyed
  <2>3. CASE \E k, v : target' = [target EXCEPT ![k] = v]
    <3>1. PICK k, v : target' = [target EXCEPT ![k] = v] BY <2>3
    <3>2. Keyed(target, Requests) OBVIOUS
    <3> QED BY <3>1, <3>2, KeyedExcept
  <2> QED BY <2>1, <2>2, <2>3
<1>4. unfinished' \in BOOLEAN
  BY Zenon DEF Next, vars, Environment, Work, Start, Stop, PostCapture, Refuse, Copy, PressOnSelection,
     PressOnCopy, Captures, Fail, OrganizeParagraph, Project, ChooseName, WriteBytes, Acquire
<1> QED BY <1>1, <1>2, <1>3, <1>4

-----------------------------------------------------------------------------
(* The clipboard *)

LEMMA NextFresh == Fresh /\ [Next]_vars => Fresh'
<1> SUFFICES ASSUME Fresh, [Next]_vars PROVE Fresh' OBVIOUS
<1> USE DEF desk, counts
<1>1. CASE UNCHANGED <<copies, filed, clip, lastCaptured>>
  BY <1>1 DEF Fresh, CopiesFiledOnce
<1>2. CASE Start
  <2>1. filed' = <<>> /\ UNCHANGED <<copies, clip>> BY <1>2 DEF Start
  <2>2. Len(filed') = 0 /\ filed' \in Seq(Nat) /\ DOMAIN filed' = {} BY <2>1
  <2> QED BY <2>1, <2>2 DEF Fresh, CopiesFiledOnce
<1>3. CASE \E t \in Texts : Copy(t)
  <2>1. /\ copies' = copies + 1 /\ clip'.number = copies + 1 /\ UNCHANGED <<filed, lastCaptured>>
    BY <1>3 DEF Copy
  <2>2. \A i \in 1..Len(filed) : filed[i] \in Nat /\ filed[i] <= copies BY ElementOfSeq DEF Fresh
  <2>3. copies \in Nat BY DEF Fresh
  <2>4. \A k \in Nat : k <= copies => k <= copies + 1 /\ k # copies + 1 BY <2>3
  <2>5. \A i \in 1..Len(filed) : filed[i] <= copies + 1 /\ filed[i] # copies + 1 BY <2>2, <2>4
  <2> QED BY <2>1, <2>3, <2>5 DEF Fresh, CopiesFiledOnce
<1>4. CASE PressOnCopy
  <2>1. /\ clip.number = copies /\ clip.text # lastCaptured
        /\ lastCaptured' = clip.text /\ filed' = Append(filed, copies) /\ UNCHANGED <<copies, clip>>
    BY <1>4 DEF PressOnCopy, Remembers, Captures, Fresh
  <2>2. filed \in Seq(Nat) /\ copies \in Nat /\ Len(filed) \in Nat BY LenProperties DEF Fresh
  <2>3. /\ filed' \in Seq(Nat) /\ Len(filed') = Len(filed) + 1 /\ filed'[Len(filed) + 1] = copies
        /\ \A i \in 1..Len(filed) : filed'[i] = filed[i]
    BY <2>1, <2>2, AppendProperties
  <2>4. \A i \in 1..Len(filed) : filed[i] \in Nat /\ filed[i] <= copies /\ filed[i] # copies
    BY <2>1, <2>2, ElementOfSeq DEF Fresh
  <2>5. \A i \in 1..Len(filed) : filed[i] < copies BY <2>2, <2>4
  <2>6. /\ DOMAIN filed = 1..Len(filed) /\ DOMAIN filed' = 1..(Len(filed) + 1)
        /\ \A i \in DOMAIN filed' : i \in 1..Len(filed) \/ i = Len(filed) + 1
        /\ \A i, j \in DOMAIN filed' : i < j => i \in 1..Len(filed)
    BY <2>2, <2>3, LenProperties
  <2>7. CopiesFiledOnce' BY <2>3, <2>5, <2>6 DEF Fresh, CopiesFiledOnce
  <2>8. \A i \in 1..Len(filed') : filed'[i] <= copies /\ (filed'[i] = copies => lastCaptured' = clip.text)
    BY <2>1, <2>2, <2>3, <2>4, <2>6
  <2> QED BY <2>1, <2>2, <2>3, <2>7, <2>8 DEF Fresh
<1> QED
  BY <1>1, <1>2, <1>3, <1>4 DEF Next, vars, Environment, Work, Stop, PostCapture, Refuse, PressOnSelection,
     Captures, Fail, OrganizeParagraph, Project, ChooseName, WriteBytes, Acquire

(* However often the listener is started, a copy is filed once, and a later   *)
(* copy later.                                                                *)
THEOREM CopiesFiledInOrder == Spec => []CopiesFiledOnce
<1>1. Init => Fresh
  <2> SUFFICES ASSUME Init PROVE Fresh OBVIOUS
  <2>1. copies = 0 /\ filed = <<>> /\ clip = None BY DEF Init
  <2>2. Len(filed) = 0 /\ filed \in Seq(Nat) /\ DOMAIN filed = {} BY <2>1
  <2> QED BY <2>1, <2>2 DEF Fresh, CopiesFiledOnce
<1>2. Fresh => CopiesFiledOnce BY DEF Fresh
<1> QED BY <1>1, <1>2, NextFresh, PTL DEF Spec
-----------------------------------------------------------------------------
(* The lock *)

\* Who organizes under the lock knows the index.
LEMMA OrganizersKnow ==
    ASSUME Types, Orderly, ~hotkey, NEW w \in Workers, job[w] = "organize"
    PROVE  lock = w /\ lock # None /\ mem[w] = index /\ \A v \in Workers : job[v] = "organize" => v = w
BY WorkersAre DEF Orderly

LEMMA NextUnasked == Types /\ Unasked /\ [Next]_vars => Unasked'
<1> SUFFICES ASSUME Types, Unasked, [Next]_vars PROVE Unasked' OBVIOUS
<1> USE WorkersAre DEF http, media, notes, desk, counts
<1>0. job \in [Workers -> {"idle", "save", "write", "organize", "done", "failed"}] BY DEF Types
<1>1. CASE UNCHANGED http BY <1>1 DEF Unasked, Keyed
<1>2. CASE Stop BY <1>2 DEF Stop, NoJobs, Unasked, Keyed
<1>3. CASE \E r \in Requests, status \in {"accepted", "refused"} :
              Answers(r, status) /\ \A q \in Requests \ {r} : job'[q] = job[q]
  <2>1. PICK r \in Requests, status \in {"accepted", "refused"} :
              Answers(r, status) /\ \A q \in Requests \ {r} : job'[q] = job[q]
    BY <1>3
  <2>2. Keyed(answer', Requests) BY <2>1, KeyedExcept DEF Answers, Unasked
  <2>3. answer'[r] = status /\ \A q \in Requests \ {r} : answer'[q] = answer[q]
    BY <2>1 DEF Answers, Unasked, Keyed
  <2> QED BY <2>1, <2>2, <2>3 DEF Unasked
<1>4. CASE /\ UNCHANGED answer
           /\ \E w \in Workers : (w \in Requests => job[w] # "idle") /\ \E pc : Go(w, pc)
  BY <1>0, <1>4 DEF Unasked, Keyed, Go
<1>5. (\E r \in Requests : PostCapture(r) \/ \E a \in Arrivals : Refuse(r, a)) \/ UNCHANGED answer
  BY DEF Next, vars, Environment, Work, Start, Stop, Copy, PressOnSelection, PressOnCopy, Captures, Fail,
     OrganizeParagraph, Project, ChooseName, WriteBytes, Acquire
<1> QED
  BY <1>0, <1>1, <1>2, <1>3, <1>4 DEF Next, vars, Environment, Work, Start, PostCapture, Refuse, Go, At,
     Copy, PressOnSelection, PressOnCopy, Captures, Fail, OrganizeParagraph, Project, ChooseName,
     WriteBytes, Acquire

\* A thread that does not organize, and does not begin to, changes nothing here.
LEMMA SameOrder ==
    ASSUME Types, Orderly, UNCHANGED <<hotkey, lock, mem, index, plan>>,
           unfinished' = unfinished,
           \A w \in Workers : job'[w] = "organize" <=> job[w] = "organize",
           ~hotkey => job'[Key] = job[Key]
    PROVE  Orderly'
<1>1. lock # None => lock \in Workers BY WorkersAre DEF Orderly
<1> QED BY <1>1, WorkersAre DEF Orderly, PlanComplete

LEMMA NextOrderly == Types /\ Unasked /\ Orderly /\ [Next]_vars => Orderly'
<1> SUFFICES ASSUME Types, Unasked, Orderly, [Next]_vars PROVE Orderly' OBVIOUS
<1> USE WorkersAre DEF http, media, notes, desk, counts
<1>0. job \in [Workers -> {"idle", "save", "write", "organize", "done", "failed"}] BY DEF Types
<1>1. CASE UNCHANGED <<hotkey, job, lock, mem, index, plan, unfinished>>
  BY <1>1, SameOrder
<1>2. CASE \E r \in Requests : PostCapture(r) \/ ChooseName(r) \/ WriteBytes(r)
  <2>1. PICK r \in Requests : PostCapture(r) \/ ChooseName(r) \/ WriteBytes(r) BY <1>2
  <2>2. UNCHANGED <<hotkey, lock, mem, index, plan, unfinished>> /\ \E pc \in {"save", "write"} : Go(r, pc)
    BY <2>1 DEF PostCapture, ChooseName, WriteBytes
  <2>3. job[r] # "organize" BY <2>1 DEF PostCapture, Unasked, ChooseName, WriteBytes, At
  <2> QED BY <1>0, <2>2, <2>3, SameOrder DEF Go
<1>3. CASE Stop
  <2>1. /\ lock' = None /\ \A w \in Workers : job'[w] = "idle"
        /\ unfinished' = (unfinished \/ \E w \in Workers : job[w] = "organize")
        /\ UNCHANGED <<hotkey, plan, index>>
    BY <1>3 DEF Stop, NoJobs
  <2>2. PlanComplete' BY <2>1 DEF Orderly, PlanComplete
  <2> QED BY <2>1, <2>2 DEF Orderly
<1>4. CASE \E w \in Workers : Fail(w)
  <2>1. PICK w \in Workers : Fail(w) BY <1>4
  <2>2. /\ lock' = IF lock = w THEN None ELSE lock
        /\ job' = [job EXCEPT ![w] = "failed"] /\ job[w] # "idle"
        /\ unfinished' = (unfinished \/ job[w] = "organize") /\ UNCHANGED <<hotkey, mem, index, plan>>
    BY <2>1 DEF Fail, FreesLock, Release, Go
  <2>3. job'[w] = "failed" /\ \A v \in Workers \ {w} : job'[v] = job[v] BY <1>0, <2>2
  <2>4. lock' # None => lock' \in Requests /\ job'[lock'] = "organize" BY <2>2, <2>3 DEF Orderly
  <2>5. ~hotkey => /\ job'[Key] = "idle"
                   /\ \A v \in Workers : job'[v] = "organize" => lock' = v /\ mem'[v] = index'
    BY <2>2, <2>3 DEF Orderly
  <2>6. PlanComplete'
    <3>1. CASE lock = w BY <2>2, <3>1 DEF Orderly, PlanComplete
    <3>2. CASE lock # w BY <2>2, <3>2 DEF Orderly, PlanComplete
    <3> QED BY <3>1, <3>2
  <2> QED BY <2>2, <2>4, <2>5, <2>6 DEF Orderly
<1>5. CASE \E r \in Requests : Acquire(r)
  <2>1. PICK r \in Requests : Acquire(r) BY <1>5
  <2>2. /\ lock = None /\ lock' = r /\ mem' = [mem EXCEPT ![r] = index] /\ Go(r, "organize")
        /\ UNCHANGED <<hotkey, index, plan, unfinished>>
    BY <2>1 DEF Acquire, TakesLock
  <2>3. job'[r] = "organize" /\ \A v \in Workers \ {r} : job'[v] = job[v] BY <1>0, <2>2 DEF Go
  <2>4. mem'[r] = index BY <2>2 DEF Types, Keyed
  <2> QED BY <2>2, <2>3, <2>4 DEF Orderly, PlanComplete
<1>6. CASE \E w \in Workers : OrganizeParagraph(w)
  <2>1. PICK w \in Workers : OrganizeParagraph(w) BY <1>6
  <2> DEFINE p == Head(todo[w])
  <2>2. /\ job[w] = "organize" /\ index' = index \cup {p} /\ mem' = [mem EXCEPT ![w] = @ \cup {p}]
        /\ UNCHANGED <<hotkey, job, lock, plan, unfinished>>
    BY <2>1 DEF OrganizeParagraph, At
  <2> HIDE DEF p
  <2>3. mem'[w] = mem[w] \cup {p} BY <2>2 DEF Types, Keyed
  <2>4. ~hotkey => lock = w /\ lock # None /\ mem[w] = index
                   /\ \A v \in Workers : job[v] = "organize" => v = w
    BY <2>2, OrganizersKnow
  <2> QED BY <2>2, <2>3, <2>4 DEF Orderly, PlanComplete
<1>7. CASE \E w \in Workers : Project(w)
  <2>1. PICK w \in Workers : Project(w) BY <1>7
  <2>2. /\ job[w] = "organize" /\ plan' = mem[w] /\ lock' = IF lock = w THEN None ELSE lock
        /\ Go(w, "done") /\ UNCHANGED <<hotkey, mem, index>>
    BY <2>1 DEF Project, At, Release
  <2>3. job'[w] = "done" /\ \A v \in Workers \ {w} : job'[v] = job[v] BY <1>0, <2>2 DEF Go
  <2>4. ~hotkey => lock = w /\ mem[w] = index /\ \A v \in Workers : job[v] = "organize" => v = w
    BY <2>2, OrganizersKnow
  <2>5. lock' # None => lock' \in Requests /\ job'[lock'] = "organize" BY <2>2, <2>3 DEF Orderly
  <2>6. ~hotkey => job'[Key] = "idle" BY <2>2, <2>3 DEF Orderly
  <2> QED BY <2>2, <2>3, <2>4, <2>5, <2>6 DEF Orderly, PlanComplete
<1>8. CASE PressOnSelection \/ PressOnCopy
  <2>1. /\ hotkey /\ mem' = [mem EXCEPT ![Key] = index] /\ Go(Key, "organize")
        /\ UNCHANGED <<hotkey, lock, index, plan, unfinished>>
    BY <1>8 DEF PressOnSelection, PressOnCopy, Listening, Captures
  <2>2. \A r \in Requests : job'[r] = job[r] BY <1>0, <2>1 DEF Go
  <2> QED BY <2>1, <2>2 DEF Orderly, PlanComplete
<1> QED
  BY <1>1, <1>2, <1>3, <1>4, <1>5, <1>6, <1>7, <1>8 DEF Next, vars, Environment, Work, Start, Refuse, Copy

(* Without the hotkey, the plan lists every note whenever nobody organizes    *)
(* and the last one that did was not cut off.                                 *)
THEOREM PlanListsAll == Spec => []PlanComplete
<1>1. Init => Unasked /\ Orderly
  BY WorkersAre DEF Init, NoJobs, Unasked, Keyed, Orderly, PlanComplete
<1>2. Orderly => PlanComplete BY DEF Orderly
<1> QED BY <1>1, <1>2, InitTypes, NextTypes, NextUnasked, NextOrderly, PTL DEF Spec

-----------------------------------------------------------------------------
(* The names of the files *)

\* Any set of numbers has a smallest.
LEMMA SmallestExists ==
    ASSUME NEW S, S \subseteq Nat, S # {}
    PROVE  \E n \in S : \A m \in S : n <= m
<1> DEFINE less == {p \in Nat \X Nat : p[1] < p[2]}
<1>1. IsWellFoundedOn(less, Nat) BY NatLessThanWellFounded DEF OpToRel
<1>2. PICK n \in S : \A m \in S : <<m, n>> \notin less BY <1>1, WFMin
<1>3. \A m \in S : ~(m < n) BY <1>2
<1> QED BY <1>3

\* Of the names with as many counters as there are files, and one, one is free.
LEMMA FreeNameFree ==
    ASSUME IsFiniteSet(DOMAIN files), NEW name
    PROVE  FreeName(name) \notin DOMAIN files
<1> DEFINE c == Cardinality(DOMAIN files)
           numbers == 0..c
           named == {<<name, n>> : n \in numbers}
           free == {n \in numbers : <<name, n>> \notin DOMAIN files}
<1>1. c \in Nat BY FS_CardinalityType
<1> HIDE DEF c
<1>2. numbers \subseteq Nat /\ IsFiniteSet(numbers) /\ Cardinality(numbers) = c + 1
  <2>1. 0 \in Int /\ c \in Int /\ ~(0 > c) /\ c - 0 + 1 = c + 1 BY <1>1
  <2> QED BY <1>1, <2>1, FS_Interval
<1> HIDE DEF numbers
<1>3. free # {}
  <2> SUFFICES ASSUME free = {} PROVE FALSE OBVIOUS
  <2>1. named \subseteq DOMAIN files OBVIOUS
  <2>2. IsFiniteSet(named) /\ Cardinality(named) <= c BY <2>1, FS_Subset DEF c
  <2> DEFINE f == [n \in numbers |-> <<name, n>>]
  <2>3. f \in Bijection(numbers, named)
    <3>1. f \in Injection(numbers, named) BY DEF Injection, IsInjective
    <3>2. f \in Surjection(numbers, named) BY DEF Surjection
    <3> QED BY <3>1, <3>2 DEF Bijection
  <2>4. ExistsBijection(numbers, named) BY <2>3 DEF ExistsBijection
  <2>5. Cardinality(named) = c + 1
    <3> HIDE DEF named
    <3>1. Cardinality(numbers) = Cardinality(named)
      BY <1>2, <2>4, FS_Bijection
    <3> QED BY <1>2, <3>1
  <2> QED BY <1>1, <2>2, <2>5
<1>4. PICK k \in free : \A n \in free : k <= n BY <1>2, <1>3, SmallestExists
<1> DEFINE p == <<name, k>>
<1>5. /\ p \in {name} \X (0..Cardinality(DOMAIN files)) /\ p \notin DOMAIN files
      /\ \A n \in 0..(p[2] - 1) : <<name, n>> \in DOMAIN files
  <2>1. k \in Nat /\ k <= c /\ p[2] = k /\ p \notin DOMAIN files BY <1>1, <1>2 DEF numbers
  <2>2. \A n \in 0..(k - 1) : n \in numbers /\ ~(k <= n) BY <1>1, <2>1 DEF numbers
  <2>3. \A n \in 0..(k - 1) : n \notin free BY <1>4, <2>2
  <2>4. p \in {name} \X (0..Cardinality(DOMAIN files)) BY DEF numbers, c
  <2> QED BY <2>1, <2>2, <2>3, <2>4
<1> QED BY <1>5 DEF FreeName

\* As long as no name is given out and no byte is written, nothing changes.
LEMMA SameFiles ==
    ASSUME Apart, UNCHANGED <<files, saved, target, collided>>,
           \A r \in Requests : job'[r] = "write" => job[r] = "write"
    PROVE  Apart'
BY DEF Apart, MediaKept

\* The file of a capture gets a name that is nobody's, unless two chose at once.
LEMMA ChooseNameApart == \A r \in Requests : Types /\ Apart /\ ChooseName(r) => Apart'
<1> SUFFICES ASSUME NEW r \in Requests, Types, Apart, ChooseName(r) PROVE Apart' OBVIOUS
<1> DEFINE name == FreeName(Media[r][NextItem(r)])
<1> USE WorkersAre
<1>1. /\ target' = [target EXCEPT ![r] = name] /\ Go(r, "write") /\ UNCHANGED <<files, saved>>
      /\ collided' = (collided \/ \E q \in Requests \ {r} : job[q] = "write" /\ target[q] = target'[r])
  BY DEF ChooseName
<1>2. name \notin DOMAIN files BY FreeNameFree DEF Apart
<1> HIDE DEF name
<1>3. /\ target'[r] = name /\ job'[r] = "write"
      /\ \A q \in Requests \ {r} : target'[q] = target[q] /\ job'[q] = job[q]
  BY <1>1 DEF Types, Keyed, Go
<1> QED BY <1>1, <1>2, <1>3 DEF Apart, MediaKept

\* The bytes go where nothing is yet.
LEMMA WriteBytesApart == \A r \in Requests : Types /\ Apart /\ WriteBytes(r) => Apart'
<1> SUFFICES ASSUME NEW r \in Requests, Types, Apart, WriteBytes(r) PROVE Apart' OBVIOUS
<1> DEFINE p == target[r]
           k == Len(saved[r]) + 1
<1> USE WorkersAre
<1>1. /\ job[r] = "write" /\ files' = Put(files, p, <<r, k>>)
      /\ saved' = [saved EXCEPT ![r] = Append(@, p)] /\ target' = [target EXCEPT ![r] = None]
      /\ Go(r, "save") /\ collided' = collided
  BY DEF WriteBytes, At, NextItem
<1>2. /\ DOMAIN files' = DOMAIN files \cup {p} /\ files'[p] = <<r, k>>
      /\ \A x \in DOMAIN files \ {p} : files'[x] = files[x]
  BY <1>1 DEF Put
<1>3. job'[r] = "save" /\ \A q \in Requests \ {r} : target'[q] = target[q] /\ job'[q] = job[q]
  BY <1>1 DEF Types, Keyed, Go
<1>4. IsFiniteSet(DOMAIN files')
  <2>1. IsFiniteSet(DOMAIN files) BY DEF Apart
  <2>2. IsFiniteSet(DOMAIN files \cup {p}) BY <2>1, FS_AddElement
  <2> QED BY <1>2, <2>2
<1>5. /\ saved[r] \in Seq(DOMAIN files') /\ p \in DOMAIN files'
      /\ \A q \in Requests : saved[q] \in Seq(DOMAIN files) /\ saved[q] \in Seq(DOMAIN files')
  <2>1. \A q \in Requests : saved[q] \in Seq(DOMAIN files) BY DEF Apart
  <2>2. DOMAIN files \subseteq DOMAIN files' BY <1>2
  <2>3. Seq(DOMAIN files) \subseteq Seq(DOMAIN files') BY <2>2, SeqMonotonic
  <2> QED BY <1>2, <2>1, <2>3
<1>6. saved'[r] = Append(saved[r], p) /\ \A q \in Requests \ {r} : saved'[q] = saved[q]
  BY <1>1 DEF Apart
<1>7. /\ saved'[r] \in Seq(DOMAIN files') /\ Len(saved'[r]) = k /\ k \in Nat \ {0}
      /\ \A i \in 1..Len(saved[r]) : saved'[r][i] = saved[r][i]
      /\ saved'[r][k] = p
  BY <1>5, <1>6, AppendProperties, LenProperties
<1>8. saved' \in [Requests -> Seq(DOMAIN files')]
  <2>1. \A q \in Requests : saved'[q] \in Seq(DOMAIN files') BY <1>5, <1>6, <1>7
  <2>2. DOMAIN saved' = Requests /\ saved' = [q \in Requests |-> saved'[q]] BY <1>1 DEF Apart
  <2> QED BY <2>1, <2>2
<1>9. ASSUME ~collided
      PROVE  /\ p \notin DOMAIN files
             /\ \A q \in Requests \ {r} : job[q] = "write" => target[q] \notin DOMAIN files'
             /\ \A q, s \in Requests :
                    job'[q] = "write" /\ job'[s] = "write" /\ target'[q] = target'[s] => q = s
  BY <1>1, <1>2, <1>3, <1>9 DEF Apart
<1>10. MediaKept'
  <2> SUFFICES ASSUME ~collided, NEW q \in Requests, NEW i \in DOMAIN saved'[q]
               PROVE  files'[saved'[q][i]] = <<q, i>>
    BY <1>1 DEF MediaKept
  <2>1. \A s \in Requests : \A j \in DOMAIN saved[s] :
            saved[s][j] \in DOMAIN files \ {p} /\ files[saved[s][j]] = <<s, j>>
    <3>1. \A s \in Requests : \A j \in DOMAIN saved[s] : saved[s][j] \in DOMAIN files
      BY <1>5, ElementOfSeq, LenProperties
    <3> QED BY <1>9, <2>1, <3>1 DEF Apart, MediaKept
  <2>2. CASE q # r BY <1>2, <1>6, <2>1, <2>2
  <2>3. CASE q = r
    <3>1. DOMAIN saved[r] = 1..Len(saved[r]) /\ DOMAIN saved'[r] = 1..k /\ Len(saved[r]) \in Nat
      BY <1>5, <1>7, LenProperties
    <3>2. CASE i \in 1..Len(saved[r]) BY <1>2, <1>7, <2>1, <2>3, <3>1, <3>2
    <3>3. CASE i = k BY <1>2, <1>7, <2>3, <3>3
    <3> QED BY <2>3, <3>1, <3>2, <3>3
  <2> QED BY <2>2, <2>3
<1> QED BY <1>1, <1>3, <1>4, <1>8, <1>9, <1>10 DEF Apart

LEMMA NextApart == Types /\ Apart /\ [Next]_vars => Apart'
<1> SUFFICES ASSUME Types, Apart, [Next]_vars PROVE Apart' OBVIOUS
<1> USE WorkersAre DEF http, media, notes, desk, counts
<1>0. job \in [Workers -> {"idle", "save", "write", "organize", "done", "failed"}] BY DEF Types
<1>1. CASE UNCHANGED <<job, media, collided>>
  BY <1>1, SameFiles
<1>2. CASE Stop
  BY <1>2, SameFiles DEF Stop, NoJobs
<1>3. CASE UNCHANGED <<media, collided>>
           /\ \E w \in Workers, pc \in {"save", "organize", "done", "failed"} : Go(w, pc)
  BY <1>0, <1>3, SameFiles DEF Go
<1>4. CASE \E r \in Requests : ChooseName(r) \/ WriteBytes(r)
  BY <1>4, ChooseNameApart, WriteBytesApart
<1> QED
  BY <1>1, <1>2, <1>3, <1>4 DEF Next, vars, Environment, Work, Start, PostCapture, Refuse,
     Copy, PressOnSelection, PressOnCopy, Captures, Fail, OrganizeParagraph, Project, Acquire

(* Every path a note refers to holds the attachment it was saved for, within  *)
(* a capture, across captures and across restarts, unless two threads chose   *)
(* one name at once.                                                          *)
THEOREM AttachmentsKept == Spec => []MediaKept
<1>1. Init => Apart
  <2> SUFFICES ASSUME Init PROVE Apart OBVIOUS
  <2>1. DOMAIN files = {} /\ \A r \in Requests : saved[r] = <<>> /\ job[r] = "idle"
    BY WorkersAre DEF Init, NoJobs
  <2>2. IsFiniteSet(DOMAIN files) BY <2>1, FS_EmptySet
  <2>3. saved \in [Requests -> Seq(DOMAIN files)] BY DEF Init
  <2> QED BY <2>1, <2>2, <2>3 DEF Apart, MediaKept
<1>2. Apart => MediaKept BY DEF Apart
<1> QED BY <1>1, <1>2, InitTypes, NextTypes, NextApart, PTL DEF Spec
=============================================================================
