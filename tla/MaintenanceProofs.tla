------------------------- MODULE MaintenanceProofs -------------------------
(***************************************************************************)
(* For any vaults, inputs, agents, removals and crashes: what the commands   *)
(* on a whole vault promise of it.                                          *)
(*                                                                          *)
(* A tombstone is earned if every note of the index that has no file is     *)
(* accounted for: its file was removed, nothing ever wrote it, or the       *)
(* command that runs has it in its memory and will (Shown).  A rebuild is   *)
(* the organizer's work on its memory, and the file it writes never differs *)
(* from that memory (Rebuilding).  An index is found again if it is in its  *)
(* place until the first step that touches it, and in the backup from there *)
(* (Found).                                                                 *)
(***************************************************************************)
EXTENDS Maintenance, FiniteSetTheorems, SequenceTheorems, TLAPS

File == Indexes \cup {None}

Places == {"capture", "organize", "file", "entities", "swap", "replay", "backup", "import", "inbox",
           "relink", "mark", "tombstone", "render"}
Commands ==
    [kind : {"organize", "import", "relink", "rerender", "attach", "regenerate"}, pc : Places,
     by : Organizers \cup {"none"}, todo : Seq(Texts), flag : BOOLEAN, mem : Indexes,
     past : Indexes, origs : SUBSET Texts, protect : SUBSET Notes]
Resets == [kind : {"reset"}, pc : {"index"}, flag : BOOLEAN]

Types ==
    /\ index \in File /\ bak \in File /\ regen \in File
    /\ inbox \in Seq(Texts) /\ legacy \in {None, Source}
    /\ cmd \in {Idle} \cup Commands \cup Resets
    /\ server \in {None} \cup [mem : Indexes, origs : SUBSET Texts]
    /\ agent \in Nat

\* At work on a text: it is at the head, and its original is stored.
AtText ==
    cmd \in Commands =>
        /\ cmd.kind \in {"organize", "regenerate"} => cmd.by \in Organizers
        /\ cmd.kind = "organize" /\ cmd.pc \in {"organize", "file", "entities"} /\ cmd.todo # <<>> =>
              Text \in cmd.origs
        /\ cmd.pc \in {"file", "entities"} => cmd.todo # <<>> /\ NoteId \in cmd.mem.notes

Earned    == removed \cup unshown \cup Source.index.dead
Accounted == vault \cup Earned

\* What the command that runs has in memory and will write.
Due == {n \in cmd.mem.notes : n[1] \in cmd.origs}

Dead ==
    /\ Load(index).dead \subseteq Earned /\ Load(bak).dead \subseteq Earned
    /\ cmd \in Commands => cmd.mem.dead \subseteq Earned /\ cmd.past.dead \subseteq Earned

Shown ==
    /\ legacy # None => Source.index.notes \subseteq Accounted
    /\ cmd = Idle => Load(index).notes \subseteq Accounted
    /\ cmd \in Commands =>
          /\ Load(index).notes \subseteq Accounted \cup Due \cup cmd.protect
          /\ cmd.kind \in {"import", "relink", "rerender", "attach"} /\ cmd.pc # "render" =>
                cmd.mem.notes \subseteq Accounted \cup cmd.protect

Protected ==
    cmd \in Commands =>
        /\ cmd.kind # "import" \/ cmd.pc \in {"backup", "import"} => cmd.protect = {}
        /\ cmd.protect \subseteq Source.index.notes
        /\ cmd.protect \subseteq IF cmd.pc = "inbox" THEN Load(index).notes ELSE Due

Rebuilding ==
    cmd \in Commands /\ cmd.kind = "regenerate" =>
        /\ cmd.origs # {} /\ Range(cmd.todo) \subseteq cmd.origs
        /\ cmd.flag => cmd.past = Load(before)
        /\ \A n \in cmd.mem.notes : n[1] \in cmd.origs /\ n[2] \in {cmd.by, "entity"}
        /\ \A t \in cmd.origs \ Range(cmd.todo) : \E n \in cmd.mem.notes : Similar(n[1], t, Twin)
        /\ cmd.pc \in {"swap", "replay", "render"} => cmd.todo = <<>>
        /\ cmd.pc # "render" => cmd.mem.dead = {}
        /\ cmd.pc \notin {"replay", "render"} => Load(regen) = cmd.mem
        /\ cmd.pc \in {"replay", "render"} /\ Alone => index = cmd.mem
        /\ cmd.pc = "render" => /\ cmd.past.marks \cap cmd.mem.notes \subseteq cmd.mem.marks
                                /\ cmd.past.dead \cap cmd.mem.notes \subseteq cmd.mem.dead

Untouched == {"backup", "organize", "file", "entities"}
Found ==
    /\ cmd # Idle => last = cmd.kind
    /\ last \in {"import", "relink", "regenerate"} /\ Alone /\ before # None =>
          /\ before \in {index, bak}
          /\ cmd \in Commands => before = IF cmd.pc \in Untouched THEN index ELSE bak

IInv == Types /\ AtText /\ Dead /\ Shown /\ Protected /\ Rebuilding /\ Found

-----------------------------------------------------------------------------
(* Indexes *)

LEMMA IndexFields ==
    ASSUME NEW m \in Indexes
    PROVE  /\ m = [notes |-> m.notes, marks |-> m.marks, dead |-> m.dead, edges |-> m.edges]
           /\ DOMAIN m = {"notes", "marks", "dead", "edges"}
           /\ m.notes \subseteq Notes /\ m.marks \subseteq Notes /\ m.dead \subseteq Notes
           /\ m.edges \subseteq Notes \X Notes
BY DEF Indexes

\* An index is its four sets.
LEMMA SameIndex ==
    ASSUME NEW m \in Indexes, NEW n \in Indexes, m.notes = n.notes, m.marks = n.marks,
           m.dead = n.dead, m.edges = n.edges
    PROVE  m = n
BY IndexFields

LEMMA EmptyIndex ==
    /\ Empty \in Indexes /\ Empty.notes = {} /\ Empty.marks = {} /\ Empty.dead = {}
    /\ Empty.edges = {} /\ Empty # None
BY MaintenanceAssumption DEF Empty, Indexes

LEMMA LoadIndex ==
    ASSUME NEW f \in File
    PROVE  Load(f) \in Indexes /\ (f # None => Load(f) = f) /\ (f = None => Load(f) = Empty)
BY EmptyIndex DEF File, Load

LEMMA UnionIndex ==
    ASSUME NEW m \in Indexes, NEW n \in Indexes
    PROVE  /\ Union(m, n) \in Indexes
           /\ Union(m, n).notes = m.notes \cup n.notes /\ Union(m, n).marks = m.marks \cup n.marks
           /\ Union(m, n).dead = m.dead \cup n.dead /\ Union(m, n).edges = m.edges \cup n.edges
<1> DEFINE D == {"notes", "marks", "dead", "edges"}
<1>1. Union(m, n) = [f \in D |-> m[f] \cup n[f]] BY IndexFields DEF Union
<1>2. /\ m["notes"] = m.notes /\ m["marks"] = m.marks /\ m["dead"] = m.dead /\ m["edges"] = m.edges
      /\ n["notes"] = n.notes /\ n["marks"] = n.marks /\ n["dead"] = n.dead /\ n["edges"] = n.edges
  OBVIOUS
<1>3. Union(m, n) = [notes |-> m.notes \cup n.notes, marks |-> m.marks \cup n.marks,
                     dead |-> m.dead \cup n.dead, edges |-> m.edges \cup n.edges]
  BY <1>1, <1>2
<1>4. /\ m.notes \cup n.notes \subseteq Notes /\ m.marks \cup n.marks \subseteq Notes
      /\ m.dead \cup n.dead \subseteq Notes /\ m.edges \cup n.edges \subseteq Notes \X Notes
  BY IndexFields
<1> QED BY <1>3, <1>4 DEF Indexes

\* What a file holds after an append, whether or not it was there before.
LEMMA AppendedIndex ==
    ASSUME NEW f \in File, NEW lines \in Indexes
    PROVE  /\ Appended(f, lines) \in File
           /\ Load(Appended(f, lines)) = Union(Load(f), lines)
           /\ f # None => Appended(f, lines) # None
<1>1. Load(f) \in Indexes /\ Union(Load(f), lines) \in Indexes BY LoadIndex, UnionIndex
<1>2. CASE lines = Empty
  <2>1. Appended(f, lines) = f BY <1>2 DEF Appended
  <2>2. /\ Union(Load(f), lines).notes = Load(f).notes /\ Union(Load(f), lines).dead = Load(f).dead
        /\ Union(Load(f), lines).marks = Load(f).marks /\ Union(Load(f), lines).edges = Load(f).edges
    <3>1. lines.notes = {} /\ lines.dead = {} /\ lines.marks = {} /\ lines.edges = {}
      BY <1>2, EmptyIndex
    <3>2. /\ Union(Load(f), lines).notes = Load(f).notes \cup lines.notes
          /\ Union(Load(f), lines).dead = Load(f).dead \cup lines.dead
          /\ Union(Load(f), lines).marks = Load(f).marks \cup lines.marks
          /\ Union(Load(f), lines).edges = Load(f).edges \cup lines.edges
      BY <1>1, UnionIndex
    <3> QED BY <3>1, <3>2
  <2>3. Union(Load(f), lines) = Load(f) BY <1>1, <2>2, SameIndex
  <2> QED BY <2>1, <2>3
<1>3. CASE lines # Empty
  <2>1. Appended(f, lines) = Union(Load(f), lines) BY <1>3 DEF Appended
  <2>2. Union(Load(f), lines) \in File /\ Union(Load(f), lines) # None
    BY <1>1, MaintenanceAssumption DEF File
  <2> QED BY <1>1, <2>1, <2>2, LoadIndex
<1> QED BY <1>2, <1>3

\* Appending notes, marks and links tombstones nothing, and leaves a note where it was.
LEMMA AppendedNotes ==
    ASSUME NEW f \in File, NEW lines \in Indexes
    PROVE  /\ Appended(f, lines) \in File
           /\ Load(Appended(f, lines)).notes = Load(f).notes \cup lines.notes
           /\ Load(Appended(f, lines)).dead = Load(f).dead \cup lines.dead
<1>1. Load(f) \in Indexes BY LoadIndex
<1>2. /\ Union(Load(f), lines).notes = Load(f).notes \cup lines.notes
      /\ Union(Load(f), lines).dead = Load(f).dead \cup lines.dead
  BY <1>1, UnionIndex
<1> QED BY <1>2, AppendedIndex

-----------------------------------------------------------------------------
(* The lines the commands append *)

LEMMA NotesAre ==
    /\ \A t \in Texts, by \in Organizers \cup {"agent", "entity"} : <<t, by>> \in Notes
    /\ \A n \in Notes : n[1] \in Texts
BY DEF Notes, Organizers

LEMMA LinksType ==
    ASSUME NEW m \in Indexes, NEW n \in Notes PROVE LinksOf(n, m) \subseteq Notes \X Notes
BY IndexFields DEF LinksOf, Live

LEMMA LinesAre ==
    ASSUME NEW N, NEW K, NEW D, NEW E
    PROVE  /\ [Empty EXCEPT !.notes = N, !.edges = E]
                  = [notes |-> N, marks |-> {}, dead |-> {}, edges |-> E]
           /\ [Empty EXCEPT !.notes = N] = [notes |-> N, marks |-> {}, dead |-> {}, edges |-> {}]
           /\ [Empty EXCEPT !.edges = E] = [notes |-> {}, marks |-> {}, dead |-> {}, edges |-> E]
           /\ [Empty EXCEPT !.marks = K] = [notes |-> {}, marks |-> K, dead |-> {}, edges |-> {}]
           /\ [Empty EXCEPT !.dead = D] = [notes |-> {}, marks |-> {}, dead |-> D, edges |-> {}]
           /\ [Empty EXCEPT !.marks = K, !.dead = D]
                  = [notes |-> {}, marks |-> K, dead |-> D, edges |-> {}]
<1> DEFINE L == [notes |-> N, marks |-> {}, dead |-> {}, edges |-> E]
           M == [notes |-> {}, marks |-> K, dead |-> D, edges |-> {}]
           F == {"notes", "marks", "dead", "edges"}
<1> USE DEF Empty
<1>1. [Empty EXCEPT !.notes = N, !.edges = E] = L
  <2> DEFINE X == [Empty EXCEPT !.notes = N, !.edges = E]
  <2>1. X = [f \in F |-> X[f]] /\ L = [f \in F |-> L[f]] OBVIOUS
  <2>2. X["notes"] = N /\ X["edges"] = E /\ X["marks"] = {} /\ X["dead"] = {} OBVIOUS
  <2>3. L["notes"] = N /\ L["edges"] = E /\ L["marks"] = {} /\ L["dead"] = {} OBVIOUS
  <2> HIDE DEF X, L
  <2>4. \A f \in F : X[f] = L[f] BY <2>2, <2>3
  <2> HIDE DEF F
  <2>5. X = L BY <2>1, <2>4
  <2> QED BY <2>5 DEF X, L
<1>2. [Empty EXCEPT !.notes = N] = [notes |-> N, marks |-> {}, dead |-> {}, edges |-> {}] OBVIOUS
<1>3. [Empty EXCEPT !.edges = E] = [notes |-> {}, marks |-> {}, dead |-> {}, edges |-> E] OBVIOUS
<1>4. [Empty EXCEPT !.marks = K] = [notes |-> {}, marks |-> K, dead |-> {}, edges |-> {}] OBVIOUS
<1>5. [Empty EXCEPT !.dead = D] = [notes |-> {}, marks |-> {}, dead |-> D, edges |-> {}] OBVIOUS
<1>6. [Empty EXCEPT !.marks = K, !.dead = D] = M
  <2> DEFINE X == [Empty EXCEPT !.marks = K, !.dead = D]
  <2>1. X = [f \in F |-> X[f]] /\ M = [f \in F |-> M[f]] OBVIOUS
  <2>2. X["marks"] = K /\ X["dead"] = D /\ X["notes"] = {} /\ X["edges"] = {} OBVIOUS
  <2>3. M["marks"] = K /\ M["dead"] = D /\ M["notes"] = {} /\ M["edges"] = {} OBVIOUS
  <2> HIDE DEF X, M
  <2>4. \A f \in F : X[f] = M[f] BY <2>2, <2>3
  <2> HIDE DEF F
  <2>5. X = M BY <2>1, <2>4
  <2> QED BY <2>5 DEF X, M
<1> QED BY <1>1, <1>2, <1>3, <1>4, <1>5, <1>6

LEMMA LinesType ==
    ASSUME NEW N \in SUBSET Notes, NEW K \in SUBSET Notes, NEW D \in SUBSET Notes,
           NEW E \in SUBSET (Notes \X Notes)
    PROVE  [notes |-> N, marks |-> K, dead |-> D, edges |-> E] \in Indexes
BY DEF Indexes

LEMMA NoneType == {} \in SUBSET Notes /\ {} \in SUBSET (Notes \X Notes)
OBVIOUS

LEMMA NoteLinesAre ==
    ASSUME NEW n \in Notes, NEW m \in Indexes
    PROVE  /\ NoteLines(n, m) \in Indexes /\ NoteLines(n, m).dead = {}
           /\ NoteLines(n, m).notes = {n} \ Live(m)
<1>1. {n} \ Live(m) \in SUBSET Notes /\ LinksOf(n, m) \ m.edges \in SUBSET (Notes \X Notes)
  BY LinksType
<1>2. NoteLines(n, m) = [notes |-> {n} \ Live(m), marks |-> {}, dead |-> {},
                         edges |-> LinksOf(n, m) \ m.edges]
  BY <1>1, LinesAre DEF NoteLines
<1>3. NoteLines(n, m) \in Indexes BY <1>1, <1>2, LinesType, NoneType
<1> QED BY <1>2, <1>3

LEMMA EntityLinesAre ==
    ASSUME NEW n \in Notes, NEW m \in Indexes
    PROVE  /\ EntityLines(n, m) \in Indexes /\ EntityLines(n, m).dead = {}
           /\ n \notin Live(m) => EntityLines(n, m).notes = {}
           /\ n \in Live(m) => EntityLines(n, m).notes = People(n[1]) \ Live(m)
           /\ People(n[1]) \subseteq Notes
<1>1. People(n[1]) \subseteq Notes BY NotesAre, MaintenanceAssumption DEF People, Notes
<1>2. CASE n \notin Live(m) BY <1>1, <1>2, EmptyIndex DEF EntityLines
<1>3. CASE n \in Live(m)
  <2> DEFINE N == People(n[1]) \ Live(m)
             E == ({n} \X People(n[1])) \ m.edges
  <2>1. N \in SUBSET Notes /\ E \in SUBSET (Notes \X Notes) BY <1>1
  <2>2. EntityLines(n, m) = [Empty EXCEPT !.notes = N, !.edges = E] BY <1>3 DEF EntityLines
  <2> HIDE DEF N, E
  <2>3. EntityLines(n, m) = [notes |-> N, marks |-> {}, dead |-> {}, edges |-> E]
        /\ EntityLines(n, m) \in Indexes
    <3>1. [Empty EXCEPT !.notes = N, !.edges = E]
              = [notes |-> N, marks |-> {}, dead |-> {}, edges |-> E]
      BY LinesAre
    <3> QED BY <2>1, <2>2, <3>1, LinesType, NoneType
  <2>4. EntityLines(n, m).notes = N /\ EntityLines(n, m).dead = {} BY <2>3
  <2> QED BY <1>1, <1>3, <2>3, <2>4 DEF N
<1> QED BY <1>2, <1>3

-----------------------------------------------------------------------------
(* The inbox *)

\* The originals that are new, in any order, are a sequence.
LEMMA ListingType ==
    ASSUME NEW S \in SUBSET Texts, IsFiniteSet(S) PROVE SetToSeq(S) \in Seq(Texts)
<1>1. Cardinality(S) \in Nat /\ ExistsBijection(1..Cardinality(S), S) BY FS_CardinalityType
<1>2. \E f \in [1..Cardinality(S) -> S] : IsInjective(f)
  BY <1>1 DEF ExistsBijection, Bijection, Injection
<1>3. SetToSeq(S) \in [1..Cardinality(S) -> S] BY <1>2 DEF SetToSeq
<1> QED BY <1>1, <1>3 DEF Seq

LEMMA StoredType ==
    ASSUME inbox \in Seq(Texts), NEW S \in SUBSET Texts, IsFiniteSet(S), NEW known
    PROVE  Stored(S, known) \in Seq(Texts)
<1>1. IsFiniteSet(S \ known) /\ S \ known \in SUBSET Texts BY FS_Subset
<1>2. SetToSeq(S \ known) \in Seq(Texts) BY <1>1, ListingType
<1> QED BY <1>2, ConcatProperties DEF Stored

LEMMA RangeFinite == ASSUME NEW S, NEW s \in Seq(S) PROVE Range(s) \subseteq S /\ IsFiniteSet(Range(s))
<1>1. Len(s) \in Nat /\ DOMAIN s = 1..Len(s) BY LenProperties
<1>2. \A i \in DOMAIN s : s[i] \in S BY <1>1, ElementOfSeq
<1>3. IsFiniteSet(DOMAIN s) BY <1>1, FS_Interval
<1>4. s \in Surjection(DOMAIN s, Range(s)) BY <1>1, <1>2 DEF Surjection, Range
<1> QED BY <1>2, <1>3, <1>4, FS_Surjection DEF Range

\* All the originals that are missing come along.
LEMMA MissingAll ==
    ASSUME NEW known, NEW new \in Missing(Source.inbox, known)
    PROVE  new \in Seq(Texts) /\ Range(Source.inbox) \subseteq known \cup Range(new)
<1> DEFINE S == Range(Source.inbox) \ known
<1>1. IsFiniteSet(S) /\ S \subseteq Texts
  <2>1. Source.inbox \in Seq(Texts) BY MaintenanceAssumption
  <2>2. IsFiniteSet(Range(Source.inbox)) /\ Range(Source.inbox) \subseteq Texts BY <2>1, RangeFinite
  <2> QED BY <2>2, FS_Subset
<1>2. Cardinality(S) \in Nat BY <1>1, FS_CardinalityType
<1>3. new \in SetToSeqs(S) BY DEF Missing
<1> HIDE DEF S
<1>4. new \in [1..Cardinality(S) -> S] /\ \A i, j \in 1..Cardinality(S) : i # j => new[i] # new[j]
  BY <1>3 DEF SetToSeqs
<1>5. new \in Injection(1..Cardinality(S), S) BY <1>4 DEF Injection, IsInjective
<1>6. Cardinality(1..Cardinality(S)) = Cardinality(S)
  <2>1. 1 \in Int /\ Cardinality(S) \in Int BY <1>2
  <2> QED BY <1>2, <2>1, FS_Interval
<1>7. new \in Surjection(1..Cardinality(S), S) BY <1>1, <1>5, <1>6, FS_Injection
<1>8. S \subseteq Range(new) BY <1>4, <1>7 DEF Surjection, Range
<1>9. new \in Seq(Texts) BY <1>1, <1>2, <1>4 DEF Seq
<1> QED BY <1>8, <1>9 DEF S

-----------------------------------------------------------------------------
(* Initially, and as a command begins *)

Kinds == {"organize", "import", "relink", "rerender", "attach", "regenerate"}

LEMMA SourceIs ==
    /\ Source.index \in Indexes /\ Source.index \in File /\ Source.inbox \in Seq(Texts)
    /\ Load(Source.index) = Source.index
<1>1. Source.index \in Indexes /\ Source.inbox \in Seq(Texts) BY MaintenanceAssumption
<1> QED BY <1>1, MaintenanceAssumption DEF File, Load

\* A command that runs is a record of the files it read and of where it is.
LEMMA Working ==
    ASSUME Types, cmd.kind \in Kinds PROVE cmd \in Commands /\ cmd # Idle
<1>1. cmd # Idle BY DEF Idle, Kinds
<1>2. cmd \notin Resets BY DEF Resets, Kinds
<1> QED BY <1>1, <1>2 DEF Types

LEMMA IdleIs == Idle.kind = "none" /\ Idle \notin Commands
BY DEF Idle, Commands

LEMMA ResetIs == \A c \in Resets : c \notin Commands /\ c # Idle /\ c.kind = "reset"
BY DEF Resets, Commands, Idle

LEMMA InitInv == Init => IInv
<1> SUFFICES ASSUME Init PROVE IInv OBVIOUS
<1>1. cmd = Idle /\ cmd \notin Commands /\ index = None /\ bak = None /\ before = None
  BY IdleIs DEF Init
<1>2. Load(index) = Empty /\ Load(bak) = Empty BY <1>1 DEF Load
<1>3. Types BY EmptySeq, <1>1 DEF Init, Types, File
<1>4. Dead BY <1>1, <1>2, EmptyIndex DEF Dead
<1>5. Shown
  <2>1. ASSUME legacy # None PROVE Source.index.notes \subseteq Accounted
    <3>1. vault = Source.index.notes \ Source.index.dead BY <2>1 DEF Init, Live
    <3> QED BY <3>1 DEF Accounted, Earned
  <2> QED BY <1>1, <1>2, <2>1, EmptyIndex DEF Shown
<1>6. AtText /\ Protected /\ Rebuilding /\ Found BY <1>1 DEF AtText, Protected, Rebuilding, Found
<1> QED BY <1>3, <1>4, <1>5, <1>6 DEF IInv

\* What is there once the index is out of the vault.
LEMMA OpenedIs ==
    ASSUME Types, Dead, Shown, cmd = Idle
    PROVE  /\ Opened.index \in File /\ Opened.inbox \in Seq(Texts)
           /\ Load(Opened.index).notes \subseteq Accounted
           /\ Load(Opened.index).dead \subseteq Earned
           /\ index # None => Opened.index = index
           /\ bak # None => Opened.index = index
<1>1. CASE legacy # None /\ ~External
  <2>1. Opened = Source /\ index = None /\ bak = None BY <1>1 DEF Opened, Types, External
  <2>2. Opened.index = Source.index /\ Opened.inbox = Source.inbox BY <2>1
  <2>3. Source.index.dead \subseteq Earned BY DEF Earned
  <2>4. Source.index.notes \subseteq Accounted BY <1>1 DEF Shown
  <2> QED BY <2>1, <2>2, <2>3, <2>4, SourceIs
<1>2. CASE ~(legacy # None /\ ~External)
  <2>1. Opened.index = index /\ Opened.inbox = inbox BY <1>2 DEF Opened
  <2> QED BY <2>1 DEF Types, Dead, Shown
<1> QED BY <1>1, <1>2

\* What a command leaves as it found it while it begins.
Opens == /\ Migrate /\ bak' = bak /\ vault' = vault

\* Where a command of each kind begins, and with what to do.
Starts(kind, pc, by, todo, flag) ==
    /\ kind \in Kinds /\ pc \in Places /\ by \in Organizers \cup {"none"}
    /\ todo \in Seq(Texts) /\ flag \in BOOLEAN
    /\ kind \in {"organize", "regenerate"} => by \in Organizers
    /\ kind = "organize" => pc = "capture"
    /\ kind \in {"import", "relink"} => pc = "backup"
    /\ kind \in {"rerender", "attach"} => pc \in {"tombstone", "mark"}
    /\ kind = "regenerate" => pc = "organize" /\ todo = Opened.inbox /\ todo # <<>> /\ regen' = None
    /\ kind # "regenerate" => regen' = regen

LEMMA BeginInv ==
    ASSUME IInv, Opens, NEW kind, NEW pc, NEW by, NEW todo, NEW flag,
           Starts(kind, pc, by, todo, flag), Begin(kind, pc, by, todo, flag)
    PROVE  IInv'
<1>0. /\ kind \in Kinds /\ pc \in Places /\ by \in Organizers \cup {"none"}
      /\ todo \in Seq(Texts) /\ flag \in BOOLEAN
      /\ kind \in {"organize", "regenerate"} => by \in Organizers
      /\ kind = "organize" => pc = "capture"
      /\ kind \in {"import", "relink"} => pc = "backup"
      /\ kind \in {"rerender", "attach"} => pc \in {"tombstone", "mark"}
      /\ kind = "regenerate" => pc = "organize" /\ todo = Opened.inbox /\ todo # <<>> /\ regen' = None
      /\ kind # "regenerate" => regen' = regen
  BY DEF Starts
<1>1. /\ cmd = Idle /\ last' = kind /\ before' = Opened.index
      /\ UNCHANGED <<server, crashes, agent, removed, unshown>>
      /\ index' = Opened.index /\ inbox' = Opened.inbox
      /\ (legacy' = legacy \/ legacy' = None)
  BY DEF Begin, Opens, Migrate
<1> DEFINE M == IF kind = "regenerate" THEN Empty ELSE Load(Opened.index)
           P == IF kind = "regenerate" /\ flag THEN Load(Opened.index) ELSE Empty
<1>2. cmd' = [kind |-> kind, pc |-> pc, by |-> by, todo |-> todo, flag |-> flag, mem |-> M,
              past |-> P, origs |-> Range(Opened.inbox), protect |-> {}]
  BY DEF Begin
<1>3. /\ Opened.index \in File /\ Opened.inbox \in Seq(Texts)
      /\ Load(Opened.index).notes \subseteq Accounted /\ Load(Opened.index).dead \subseteq Earned
      /\ index # None => Opened.index = index
      /\ bak # None => Opened.index = index
  BY <1>1, OpenedIs DEF IInv
<1>4. M \in Indexes /\ P \in Indexes /\ M.dead \subseteq Earned /\ P.dead \subseteq Earned
      /\ M.notes \subseteq Accounted
  BY <1>3, LoadIndex, EmptyIndex
<1>5. Range(Opened.inbox) \subseteq Texts BY <1>3, RangeFinite
<1>6. (kind = "regenerate" => M = Empty) /\ (kind = "regenerate" /\ flag => P = Load(before'))
  BY <1>1
<1> HIDE DEF M, P
<1>7. /\ cmd' \in Commands /\ cmd' # Idle /\ cmd'.kind = kind /\ cmd'.pc = pc /\ cmd'.by = by
      /\ cmd'.todo = todo /\ cmd'.flag = flag /\ cmd'.mem = M /\ cmd'.past = P
      /\ cmd'.origs = Range(Opened.inbox) /\ cmd'.protect = {}
  BY <1>0, <1>2, <1>4, <1>5, IdleIs DEF Commands, Kinds
<1>8. Accounted' = Accounted /\ Earned' = Earned /\ vault' = vault
  BY <1>1 DEF Accounted, Earned, Opens
<1>9. pc \notin {"file", "entities", "inbox", "swap", "replay", "render"} BY <1>0 DEF Kinds
<1>10. Types' BY <1>0, <1>1, <1>3, <1>7 DEF IInv, Types, Opens, File
<1>11. AtText' BY <1>0, <1>7, <1>9 DEF AtText
<1>12. Dead' BY <1>1, <1>3, <1>4, <1>7, <1>8 DEF IInv, Dead, Opens
<1>13. Shown' BY <1>0, <1>1, <1>3, <1>4, <1>7, <1>8 DEF IInv, Shown
<1>14. Protected' BY <1>0, <1>7, <1>9 DEF Protected
<1>15. Rebuilding'
  <2>1. CASE kind # "regenerate" BY <1>7, <2>1 DEF Rebuilding
  <2>2. CASE kind = "regenerate"
    <3>1. M = Empty /\ M.notes = {} /\ M.dead = {} /\ Load(regen') = M
      BY <1>0, <1>6, <2>2, EmptyIndex DEF Load
    <3>2. Range(todo) = cmd'.origs /\ cmd'.origs # {}
      <4>1. 1 \in DOMAIN todo
        <5>1. Len(todo) \in Nat /\ Len(todo) # 0 /\ DOMAIN todo = 1..Len(todo)
          BY <1>0, <2>2, EmptySeq, LenProperties
        <5> QED BY <5>1
      <4>2. todo[1] \in Range(todo) BY <4>1 DEF Range
      <4> QED BY <1>0, <1>7, <2>2, <4>2
    <3> QED BY <1>0, <1>6, <1>7, <1>9, <2>2, <3>1, <3>2 DEF Rebuilding
  <2> QED BY <2>1, <2>2
<1>16. Found'
  <2>1. before' = index' BY <1>1
  <2>2. kind \in {"import", "relink", "regenerate"} => pc \in Untouched BY <1>0 DEF Untouched
  <2> QED BY <1>0, <1>1, <1>7, <2>1, <2>2 DEF Found
<1> QED BY <1>10, <1>11, <1>12, <1>13, <1>14, <1>15, <1>16 DEF IInv

\* Every command but reset.
LEMMA CommandsInv ==
    ASSUME IInv,
           \/ \E input \in Inputs, by \in Organizers, cull \in BOOLEAN : Organize(input, by, cull)
           \/ \E by \in Organizers, keep \in BOOLEAN : Regenerate(by, keep)
           \/ Import \/ Relink \/ Rerender \/ Attach
    PROVE  IInv'
<1>1. <<>> \in Seq(Texts) BY EmptySeq
<1>2. ASSUME NEW input \in Inputs, NEW by \in Organizers, NEW cull \in BOOLEAN,
             Organize(input, by, cull)
      PROVE  IInv'
  <2>1. Begin("organize", "capture", by, input, cull) /\ Opens /\ regen' = regen
    BY <1>2 DEF Organize, Opens
  <2>2. input \in Seq(Texts) BY MaintenanceAssumption
  <2>3. Starts("organize", "capture", by, input, cull) BY <2>1, <2>2 DEF Starts, Kinds, Places
  <2> QED BY <2>1, <2>3, BeginInv
<1>3. ASSUME NEW by \in Organizers, NEW keep \in BOOLEAN, Regenerate(by, keep) PROVE IInv'
  <2>1. Begin("regenerate", "organize", by, Opened.inbox, keep) /\ Opens /\ regen' = None
        /\ Opened.inbox # <<>>
    BY <1>3 DEF Regenerate, Opens, RebuildStartsClean
  <2>2. Opened.inbox \in Seq(Texts) BY <2>1, OpenedIs DEF IInv, Begin
  <2>3. Starts("regenerate", "organize", by, Opened.inbox, keep) BY <2>1, <2>2 DEF Starts, Kinds, Places
  <2> QED BY <2>1, <2>3, BeginInv
<1>4. ASSUME Import PROVE IInv'
  <2>1. Begin("import", "backup", "none", <<>>, TRUE) /\ Opens /\ regen' = regen
    BY <1>4 DEF Import, Opens
  <2>2. Starts("import", "backup", "none", <<>>, TRUE) BY <1>1, <2>1 DEF Starts, Kinds, Places
  <2> QED BY <2>1, <2>2, BeginInv
<1>5. ASSUME Relink PROVE IInv'
  <2>1. Begin("relink", "backup", "none", <<>>, TRUE) /\ Opens /\ regen' = regen
    BY <1>5 DEF Relink, Opens
  <2>2. Starts("relink", "backup", "none", <<>>, TRUE) BY <1>1, <2>1 DEF Starts, Kinds, Places
  <2> QED BY <2>1, <2>2, BeginInv
<1>6. ASSUME Rerender PROVE IInv'
  <2>1. Begin("rerender", "tombstone", "none", <<>>, TRUE) /\ Opens /\ regen' = regen
    BY <1>6 DEF Rerender, Opens
  <2>2. Starts("rerender", "tombstone", "none", <<>>, TRUE) BY <1>1, <2>1 DEF Starts, Kinds, Places
  <2> QED BY <2>1, <2>2, BeginInv
<1>7. ASSUME Attach PROVE IInv'
  <2>1. Begin("attach", "mark", "none", <<>>, TRUE) /\ Opens /\ regen' = regen
    BY <1>7 DEF Attach, Opens
  <2>2. Starts("attach", "mark", "none", <<>>, TRUE) BY <1>1, <2>1 DEF Starts, Kinds, Places
  <2> QED BY <2>1, <2>2, BeginInv
<1> QED BY <1>2, <1>3, <1>4, <1>5, <1>6, <1>7

\* A reset leaves nothing that could be in its place or in the backup.
LEMMA ResetInv ==
    ASSUME IInv, NEW keep \in BOOLEAN, Reset(keep) PROVE IInv'
<1>1. /\ cmd' = [kind |-> "reset", pc |-> "index", flag |-> keep] /\ legacy' = None
      /\ UNCHANGED <<index, bak, regen, inbox, server, agent, removed, unshown>>
      /\ last' = "reset"
  BY DEF Reset
<1>2. cmd' \in Resets /\ cmd' \notin Commands /\ cmd' # Idle /\ cmd'.kind = "reset"
  <2>1. cmd' \in Resets BY <1>1 DEF Resets
  <2> QED BY <2>1, ResetIs
<1>3. Types' BY <1>1, <1>2 DEF IInv, Types
<1>4. Dead' BY <1>1, <1>2 DEF IInv, Dead, Earned
<1>5. Shown' /\ AtText' /\ Protected' /\ Rebuilding' BY <1>1, <1>2 DEF Shown, AtText, Protected, Rebuilding
<1>6. Found' BY <1>1, <1>2 DEF Found
<1> QED BY <1>3, <1>4, <1>5, <1>6 DEF IInv

-----------------------------------------------------------------------------
(* A command at work *)

\* A command that is at pc, and what it holds.
LEMMA AtIs ==
    ASSUME Types, NEW kinds \in SUBSET Kinds, NEW pc, At(kinds, pc)
    PROVE  /\ cmd \in Commands /\ cmd # Idle /\ cmd.kind \in kinds /\ cmd.pc = pc
           /\ cmd.by \in Organizers \cup {"none"} /\ cmd.todo \in Seq(Texts)
           /\ cmd.mem \in Indexes /\ cmd.past \in Indexes /\ cmd.origs \subseteq Texts
<1>1. cmd.kind \in kinds /\ cmd.pc = pc BY DEF At
<1>2. cmd \in Commands /\ cmd # Idle BY <1>1, Working
<1> QED BY <1>1, <1>2 DEF Commands

\* What a step may change of the command that runs.
LEMMA Update ==
    ASSUME cmd \in Commands, NEW pc \in Places
    PROVE  /\ [cmd EXCEPT !.pc = pc] \in Commands
           /\ \A todo \in Seq(Texts) : [cmd EXCEPT !.pc = pc, !.todo = todo] \in Commands
           /\ \A origs \in SUBSET Texts : [cmd EXCEPT !.pc = pc, !.origs = origs] \in Commands
           /\ \A mem \in Indexes : [cmd EXCEPT !.pc = pc, !.mem = mem] \in Commands
           /\ \A protect \in SUBSET Notes : [cmd EXCEPT !.pc = pc, !.protect = protect] \in Commands
           /\ \A mem \in Indexes, origs \in SUBSET Texts :
                 [cmd EXCEPT !.pc = pc, !.mem = mem, !.origs = origs] \in Commands
           /\ \A todo \in Seq(Texts), mem \in Indexes, origs \in SUBSET Texts :
                 [cmd EXCEPT !.pc = pc, !.todo = todo, !.mem = mem, !.origs = origs] \in Commands
BY DEF Commands

LEMMA CommandsAre ==
    \A c \in Commands : /\ c # Idle /\ c.kind \in Kinds
                        /\ DOMAIN c = {"kind", "pc", "by", "todo", "flag", "mem", "past", "origs", "protect"}
BY IdleIs DEF Commands, Kinds

\* The text at the head, and the rest.
LEMMA TextIs ==
    ASSUME cmd.todo \in Seq(Texts), cmd.todo # <<>>
    PROVE  /\ Text \in Texts /\ Text \in Range(cmd.todo) /\ Tail(cmd.todo) \in Seq(Texts)
           /\ Range(cmd.todo) = {Text} \cup Range(Tail(cmd.todo))
<1> DEFINE s == cmd.todo
<1>1. /\ Len(s) \in Nat /\ Len(s) # 0 /\ DOMAIN s = 1..Len(s) /\ \A i \in 1..Len(s) : s[i] \in Texts
  BY EmptySeq, LenProperties, ElementOfSeq
<1>2. /\ Head(s) = s[1] /\ Tail(s) \in Seq(Texts) /\ Len(Tail(s)) = Len(s) - 1
      /\ \A i \in 1..Len(Tail(s)) : Tail(s)[i] = s[i + 1]
  BY HeadTailProperties
<1>3. DOMAIN Tail(s) = 1..(Len(s) - 1) BY <1>2, LenProperties
<1>4. Text = s[1] /\ 1 \in DOMAIN s BY <1>1, <1>2 DEF Text
<1>5. Range(Tail(s)) = {s[i] : i \in 2..Len(s)}
  <2>1. \A i \in DOMAIN Tail(s) : i + 1 \in 2..Len(s) /\ Tail(s)[i] = s[i + 1] BY <1>1, <1>2, <1>3
  <2>2. \A i \in 2..Len(s) : i - 1 \in DOMAIN Tail(s) /\ Tail(s)[i - 1] = s[i]
    <3>1. \A i \in 2..Len(s) : i - 1 \in 1..(Len(s) - 1) /\ (i - 1) + 1 = i BY <1>1
    <3> QED BY <1>2, <1>3, <3>1
  <2>3. Range(Tail(s)) \subseteq {s[i] : i \in 2..Len(s)} BY <2>1 DEF Range
  <2>4. {s[i] : i \in 2..Len(s)} \subseteq Range(Tail(s))
    <3> SUFFICES ASSUME NEW i \in 2..Len(s) PROVE s[i] \in Range(Tail(s)) OBVIOUS
    <3> QED BY <2>2 DEF Range
  <2> QED BY <2>3, <2>4
<1>6. DOMAIN s = {1} \cup (2..Len(s)) BY <1>1
<1>7. Range(s) = {s[1]} \cup {s[i] : i \in 2..Len(s)} BY <1>6 DEF Range
<1> QED BY <1>1, <1>2, <1>4, <1>5, <1>7

\* What was found stays where it can be found again.
LEMMA FoundStep ==
    ASSUME Found, UNCHANGED <<last, before, agent>>, cmd # Idle, cmd \in Commands, cmd'.kind = cmd.kind,
           \/ cmd.kind \notin {"import", "relink", "regenerate"}
           \/ index' = index /\ bak' = bak /\ (cmd.pc \in Untouched <=> cmd'.pc \in Untouched)
           \/ bak' = bak /\ cmd.pc \notin Untouched /\ cmd'.pc \notin Untouched
    PROVE  Found'
<1>1. last = cmd.kind /\ last' = cmd'.kind BY DEF Found
<1> QED BY <1>1 DEF Found, Alone

\* What is not disturbed is as earned, and as much accounted for, as before.
LEMMA Grown ==
    ASSUME removed \subseteq removed', unshown \subseteq unshown', vault \subseteq vault' \cup removed'
    PROVE  Earned \subseteq Earned' /\ Accounted \subseteq Accounted'
BY DEF Earned, Accounted

\* A command that stops leaves the notes it has not shown to the account.
LEMMA AbandonInv ==
    ASSUME IInv, cmd' = Idle, Abandoned, regen' \in {regen, None},
           UNCHANGED <<index, bak, inbox, legacy, vault, server, agent, last, before, removed>>
    PROVE  IInv'
<1>1. cmd' \notin Commands /\ cmd'.kind = "none" BY IdleIs
<1>2. unshown \subseteq unshown' /\ Load(index').notes \ vault' \subseteq unshown' BY DEF Abandoned
<1>3. Earned \subseteq Earned' /\ Accounted \subseteq Accounted' BY <1>2, Grown
<1>4. Load(index').notes \subseteq Accounted' BY <1>2 DEF Accounted, Earned
<1>5. Types' BY DEF IInv, Types, File
<1>6. Dead' BY <1>1, <1>3 DEF IInv, Dead
<1>7. Shown' BY <1>1, <1>3, <1>4 DEF IInv, Shown
<1>8. AtText' /\ Protected' /\ Rebuilding' BY <1>1 DEF AtText, Protected, Rebuilding
<1>9. Found' BY <1>1 DEF IInv, Found, Alone
<1> QED BY <1>5, <1>6, <1>7, <1>8, <1>9 DEF IInv

LEMMA CrashInv == ASSUME IInv, Crash PROVE IInv'
BY AbandonInv DEF Crash, Done, disk

LEMMA UnavailableInv == ASSUME IInv, Unavailable PROVE IInv'
<1>1. cmd' = Idle /\ Abandoned /\ regen' \in {regen, None}
      /\ UNCHANGED <<index, bak, inbox, legacy, vault, server, agent, last, before, removed>>
  BY DEF Unavailable, Done
<1> QED BY <1>1, AbandonInv

-----------------------------------------------------------------------------
(* Organizing, one text after the other *)

Organizing == {"organize", "regenerate"}

\* What is true of the text at work, in a run and in a rebuild.
LEMMA AtWork ==
    ASSUME Types, AtText, Rebuilding, NEW pc \in {"organize", "file", "entities"},
           At(Organizing, pc), cmd.todo # <<>>
    PROVE  /\ cmd \in Commands /\ cmd # Idle /\ cmd.kind \in Organizing /\ cmd.pc = pc
           /\ cmd.mem \in Indexes /\ cmd.origs \subseteq Texts
           /\ Text \in Texts /\ Text \in cmd.origs /\ Tail(cmd.todo) \in Seq(Texts)
           /\ Range(cmd.todo) = {Text} \cup Range(Tail(cmd.todo))
           /\ NoteId \in Notes /\ NoteId[1] = Text /\ NoteId[2] = cmd.by
<1>1. Organizing \in SUBSET Kinds BY DEF Organizing, Kinds
<1>2. /\ cmd \in Commands /\ cmd # Idle /\ cmd.kind \in Organizing /\ cmd.pc = pc
      /\ cmd.by \in Organizers \cup {"none"} /\ cmd.todo \in Seq(Texts)
      /\ cmd.mem \in Indexes /\ cmd.origs \subseteq Texts
  BY <1>1, AtIs
<1>3. Text \in Texts /\ Text \in Range(cmd.todo) /\ Tail(cmd.todo) \in Seq(Texts)
      /\ Range(cmd.todo) = {Text} \cup Range(Tail(cmd.todo))
  BY <1>2, TextIs
<1>4. Text \in cmd.origs
  <2>1. CASE cmd.kind = "organize" BY <1>2, <2>1 DEF AtText
  <2>2. CASE cmd.kind = "regenerate" BY <1>2, <1>3, <2>2 DEF Rebuilding
  <2> QED BY <1>2, <2>1, <2>2 DEF Organizing
<1>5. cmd.by \in Organizers BY <1>2 DEF AtText, Organizing
<1> QED BY <1>2, <1>3, <1>4, <1>5, NotesAre DEF NoteId

LEMMA CaptureInv == ASSUME IInv, Capture PROVE IInv'
<1>1. /\ At({"organize"}, "capture") /\ cmd.todo # <<>> /\ inbox' = Stored({Text}, cmd.origs)
      /\ cmd' = [cmd EXCEPT !.pc = "organize", !.origs = cmd.origs \cup {Text}]
      /\ UNCHANGED <<index, bak, regen, legacy, vault, server, agent, last, before, removed, unshown>>
  BY DEF Capture, Others, history
<1>2. /\ cmd \in Commands /\ cmd # Idle /\ cmd.kind = "organize"
      /\ cmd.todo \in Seq(Texts) /\ cmd.origs \subseteq Texts
  <2>1. {"organize"} \in SUBSET Kinds BY DEF Kinds
  <2> QED BY <1>1, <2>1, AtIs DEF IInv
<1>3. Text \in Texts /\ {Text} \in SUBSET Texts /\ IsFiniteSet({Text}) BY <1>1, <1>2, TextIs, FS_Singleton
<1>4. cmd' \in Commands /\ cmd' # Idle
  <2>1. cmd.origs \cup {Text} \in SUBSET Texts /\ "organize" \in Places BY <1>2, <1>3 DEF Places
  <2> QED BY <1>1, <1>2, <2>1, Update, CommandsAre
<1>5. /\ cmd'.kind = "organize" /\ cmd'.pc = "organize" /\ cmd'.todo = cmd.todo /\ cmd'.mem = cmd.mem
      /\ cmd'.past = cmd.past /\ cmd'.origs = cmd.origs \cup {Text} /\ cmd'.protect = cmd.protect
      /\ cmd'.by = cmd.by
  BY <1>1, <1>2, CommandsAre
<1>6. inbox' \in Seq(Texts) BY <1>1, <1>3, StoredType DEF IInv, Types
<1>7. Types' BY <1>1, <1>4, <1>6 DEF IInv, Types
<1>8. AtText' BY <1>2, <1>5 DEF IInv, AtText, Text
<1>9. Dead' BY <1>1, <1>2, <1>5 DEF IInv, Dead, Earned
<1>10. Due \subseteq Due' BY <1>5 DEF Due
<1>11. Shown' BY <1>1, <1>2, <1>4, <1>5, <1>10 DEF IInv, Shown, Accounted, Earned
<1>12. Protected' 
  <2>1. cmd.pc # "inbox" BY <1>1 DEF At
  <2> QED BY <1>2, <1>5, <1>10, <2>1 DEF IInv, Protected
<1>13. Rebuilding' BY <1>5 DEF Rebuilding
<1>14. Found' BY <1>1, <1>2, <1>5, FoundStep DEF IInv
<1> QED BY <1>7, <1>8, <1>9, <1>11, <1>12, <1>13, <1>14 DEF IInv

LEMMA CullInv == ASSUME IInv, Cull PROVE IInv'
<1>1. /\ At(Organizing, "organize") /\ cmd.todo # <<>> /\ Culls
      /\ cmd' = [cmd EXCEPT !.pc = NextText, !.todo = Tail(cmd.todo)]
      /\ UNCHANGED <<index, bak, regen, inbox, legacy, vault, server, agent, last, before, removed, unshown>>
  BY DEF Cull, Others, history, disk, Organizing
<1>2. /\ cmd \in Commands /\ cmd # Idle /\ cmd.kind \in Organizing /\ cmd.pc = "organize"
      /\ Tail(cmd.todo) \in Seq(Texts) /\ Range(cmd.todo) = {Text} \cup Range(Tail(cmd.todo))
  BY <1>1, AtWork DEF IInv
<1>3. /\ NextText \in {"capture", "organize"} /\ (cmd.kind = "organize" => NextText = "capture")
      /\ (cmd.kind = "regenerate" => NextText = "organize")
  BY DEF NextText
<1>4. cmd' \in Commands /\ cmd' # Idle
  <2>1. NextText \in Places BY <1>3 DEF Places
  <2> QED BY <1>1, <1>2, <2>1, Update, CommandsAre
<1>5. /\ cmd'.kind = cmd.kind /\ cmd'.pc = NextText /\ cmd'.todo = Tail(cmd.todo) /\ cmd'.mem = cmd.mem
      /\ cmd'.past = cmd.past /\ cmd'.origs = cmd.origs /\ cmd'.protect = cmd.protect
      /\ cmd'.by = cmd.by /\ cmd'.flag = cmd.flag
  BY <1>1, <1>2, CommandsAre
<1>6. Types' BY <1>1, <1>4 DEF IInv, Types
<1>7. AtText' BY <1>2, <1>3, <1>5 DEF IInv, AtText, Organizing
<1>8. Dead' BY <1>1, <1>2, <1>5 DEF IInv, Dead, Earned
<1>9. Due' = Due BY <1>5 DEF Due
<1>10. Shown' BY <1>1, <1>2, <1>4, <1>5, <1>9 DEF IInv, Shown, Accounted, Earned, Organizing
<1>11. Protected' BY <1>2, <1>3, <1>5, <1>9 DEF IInv, Protected
<1>12. Rebuilding'
  <2>1. CASE cmd.kind = "organize" BY <1>5, <2>1 DEF Rebuilding
  <2>2. CASE cmd.kind = "regenerate"
    <3>1. \E n \in cmd.mem.notes : Similar(n[1], Text, Twin) BY <1>1 DEF Culls, Duplicate, Live
    <3>2. \A t \in cmd.origs \ Range(Tail(cmd.todo)) : \E n \in cmd.mem.notes : Similar(n[1], t, Twin)
      BY <1>2, <2>2, <3>1 DEF IInv, Rebuilding
    <3>3. Range(Tail(cmd.todo)) \subseteq cmd.origs BY <1>2, <2>2 DEF IInv, Rebuilding
    <3>4. cmd'.pc = "organize" BY <1>3, <1>5, <2>2
    <3> QED BY <1>1, <1>2, <1>5, <2>2, <3>2, <3>3, <3>4 DEF IInv, Rebuilding
  <2> QED BY <1>2, <2>1, <2>2 DEF Organizing
<1>13. Found'
  <2>1. cmd.kind \notin {"import", "relink", "regenerate"}
        \/ (cmd.pc \in Untouched <=> cmd'.pc \in Untouched)
    BY <1>2, <1>3, <1>5 DEF Organizing, Untouched
  <2> QED BY <1>1, <1>2, <1>5, <2>1, FoundStep DEF IInv
<1> QED BY <1>6, <1>7, <1>8, <1>10, <1>11, <1>12, <1>13 DEF IInv

\* The lines of a note or of its entities go to the index, or to the rebuild.
LEMMA WritesIs ==
    ASSUME Types, NEW lines \in Indexes, lines.dead = {}, Writes(lines)
    PROVE  /\ index' \in File /\ regen' \in File
           /\ Load(index').dead = Load(index).dead
           /\ Load(index').notes \subseteq Load(index).notes \cup lines.notes
           /\ cmd.kind = "regenerate" =>
                 index' = index /\ Load(regen') = Union(Load(regen), lines)
<1>1. CASE cmd.kind = "regenerate"
  <2>1. regen' = Appended(regen, lines) /\ index' = index BY <1>1 DEF Writes
  <2> QED BY <1>1, <2>1, AppendedIndex DEF Types
<1>2. CASE cmd.kind # "regenerate"
  <2>1. index' = Appended(index, lines) /\ regen' = regen BY <1>2 DEF Writes
  <2>2. index \in File /\ regen \in File BY DEF Types
  <2>3. /\ Load(index').dead = Load(index).dead \cup lines.dead
        /\ Load(index').notes = Load(index).notes \cup lines.notes
    BY <2>1, <2>2, AppendedNotes
  <2>4. index' \in File BY <2>1, <2>2, AppendedNotes
  <2> QED BY <1>2, <2>1, <2>2, <2>3, <2>4
<1> QED BY <1>1, <1>2

LEMMA AddNoteInv == ASSUME IInv, AddNote PROVE IInv'
<1> DEFINE lines == NoteLines(NoteId, cmd.mem)
<1>1. /\ At(Organizing, "organize") /\ cmd.todo # <<>> /\ Writes(lines)
      /\ cmd' = [cmd EXCEPT !.pc = "file", !.mem = Union(cmd.mem, lines)]
      /\ UNCHANGED <<bak, inbox, legacy, vault, server, agent, last, before, removed, unshown>>
  BY DEF AddNote, Others, history, Organizing
<1>2. /\ cmd \in Commands /\ cmd # Idle /\ cmd.kind \in Organizing /\ cmd.pc = "organize"
      /\ cmd.mem \in Indexes /\ Text \in cmd.origs
      /\ NoteId \in Notes /\ NoteId[1] = Text /\ NoteId[2] = cmd.by
  BY <1>1, AtWork DEF IInv
<1>3. lines \in Indexes /\ lines.dead = {} /\ lines.notes = {NoteId} \ Live(cmd.mem)
  BY <1>2, NoteLinesAre
<1> HIDE DEF lines
<1> DEFINE mem == Union(cmd.mem, lines)
<1>4. mem \in Indexes /\ mem.dead = cmd.mem.dead /\ mem.notes = cmd.mem.notes \cup {NoteId}
  <2>1. Live(cmd.mem) \subseteq cmd.mem.notes BY DEF Live
  <2>2. mem \in Indexes /\ mem.dead = cmd.mem.dead \cup lines.dead /\ mem.notes = cmd.mem.notes \cup lines.notes
    BY <1>2, <1>3, UnionIndex
  <2> QED BY <1>3, <2>1, <2>2
<1>5. /\ index' \in File /\ regen' \in File /\ Load(index').dead = Load(index).dead
      /\ Load(index').notes \subseteq Load(index).notes \cup {NoteId}
      /\ cmd.kind = "regenerate" => index' = index /\ Load(regen') = Union(Load(regen), lines)
  BY <1>1, <1>3, WritesIs DEF IInv
<1>6. cmd' \in Commands /\ cmd' # Idle
  <2>1. "file" \in Places BY DEF Places
  <2> QED BY <1>1, <1>2, <1>4, <2>1, Update, CommandsAre
<1>7. /\ cmd'.kind = cmd.kind /\ cmd'.pc = "file" /\ cmd'.todo = cmd.todo /\ cmd'.mem = mem
      /\ cmd'.past = cmd.past /\ cmd'.origs = cmd.origs /\ cmd'.protect = cmd.protect
      /\ cmd'.by = cmd.by /\ cmd'.flag = cmd.flag
  BY <1>1, <1>2, CommandsAre
<1> HIDE DEF mem
<1>8. NoteId' = NoteId /\ Text' = Text BY <1>7 DEF NoteId, Text
<1>9. Types' BY <1>1, <1>5, <1>6 DEF IInv, Types
<1>10. AtText' BY <1>1, <1>2, <1>4, <1>7, <1>8 DEF IInv, AtText
<1>11. Dead' BY <1>1, <1>2, <1>4, <1>5, <1>7 DEF IInv, Dead, Earned
<1>12. Due \subseteq Due' /\ NoteId \in Due' BY <1>2, <1>4, <1>7 DEF Due
<1>13. Shown' BY <1>1, <1>2, <1>5, <1>6, <1>7, <1>12 DEF IInv, Shown, Accounted, Earned, Organizing
<1>14. Protected' BY <1>2, <1>7, <1>12 DEF IInv, Protected
<1>15. Rebuilding'
  <2>1. CASE cmd.kind = "organize" BY <1>7, <2>1 DEF Rebuilding
  <2>2. CASE cmd.kind = "regenerate"
    <3>1. Load(regen') = mem BY <1>2, <1>5, <2>2 DEF IInv, Rebuilding, mem
    <3>2. \A n \in mem.notes : n[1] \in cmd.origs /\ n[2] \in {cmd.by, "entity"}
      BY <1>2, <1>4, <2>2 DEF IInv, Rebuilding
    <3> QED BY <1>1, <1>2, <1>4, <1>7, <2>2, <3>1, <3>2 DEF IInv, Rebuilding
  <2> QED BY <1>2, <2>1, <2>2 DEF Organizing
<1>16. Found'
  <2>1. \/ cmd.kind \notin {"import", "relink", "regenerate"}
        \/ index' = index /\ (cmd.pc \in Untouched <=> cmd'.pc \in Untouched)
    BY <1>2, <1>5, <1>7 DEF Organizing, Untouched
  <2> QED BY <1>1, <1>2, <1>7, <2>1, FoundStep DEF IInv
<1> QED BY <1>9, <1>10, <1>11, <1>13, <1>14, <1>15, <1>16 DEF IInv

\* A step of the command that changes no index.
LEMMA GoInv ==
    ASSUME IInv, cmd \in Commands, NEW pc \in Places, Go(pc),
           cmd.kind = "organize" => (cmd.pc = "file" /\ pc = "entities") \/ pc = "render",
           cmd.kind = "regenerate" => cmd.pc = "file" /\ pc = "entities",
           cmd.kind \in Organizing, cmd.pc # "inbox",
           UNCHANGED <<index, bak, regen, inbox, legacy, server, agent, last, before, removed, unshown>>,
           vault \subseteq vault'
    PROVE  IInv'
<1>1. /\ cmd' = [cmd EXCEPT !.pc = pc] /\ cmd' \in Commands /\ cmd # Idle /\ cmd' # Idle
      /\ cmd'.kind = cmd.kind /\ cmd'.pc = pc /\ cmd'.todo = cmd.todo /\ cmd'.mem = cmd.mem
      /\ cmd'.past = cmd.past /\ cmd'.origs = cmd.origs /\ cmd'.protect = cmd.protect
      /\ cmd'.by = cmd.by /\ cmd'.flag = cmd.flag
  BY Update, CommandsAre DEF Go
<1>2. Earned' = Earned /\ Accounted \subseteq Accounted' /\ Due' = Due
  BY <1>1 DEF Earned, Accounted, Due
<1>3. NoteId' = NoteId /\ Text' = Text BY <1>1 DEF NoteId, Text
<1>4. Types' BY <1>1 DEF IInv, Types
<1>5. AtText' BY <1>1, <1>3 DEF IInv, AtText, Organizing
<1>6. Dead' BY <1>1, <1>2 DEF IInv, Dead
<1>7. Shown' BY <1>1, <1>2 DEF IInv, Shown, Organizing
<1>8. Protected' BY <1>1, <1>2 DEF IInv, Protected, Organizing
<1>9. Rebuilding' BY <1>1 DEF IInv, Rebuilding, Alone, Organizing
<1>10. Found'
  <2>1. \/ cmd.kind \notin {"import", "relink", "regenerate"}
        \/ (cmd.pc \in Untouched <=> cmd'.pc \in Untouched)
    BY <1>1 DEF Organizing, Untouched
  <2> QED BY <1>1, <2>1, FoundStep DEF IInv
<1> QED BY <1>4, <1>5, <1>6, <1>7, <1>8, <1>9, <1>10 DEF IInv

LEMMA WriteFileInv == ASSUME IInv, WriteFile PROVE IInv'
<1>1. /\ At(Organizing, "file") /\ Go("entities") /\ vault \subseteq vault'
      /\ UNCHANGED <<index, bak, regen, inbox, legacy, server, agent, last, before, removed, unshown>>
  BY DEF WriteFile, Others, history, Organizing
<1>2. Organizing \in SUBSET Kinds /\ "entities" \in Places BY DEF Organizing, Kinds, Places
<1>3. cmd \in Commands /\ cmd.kind \in Organizing /\ cmd.pc = "file" BY <1>1, <1>2, AtIs DEF IInv
<1> QED BY <1>1, <1>2, <1>3, GoInv

LEMMA OrganizedInv == ASSUME IInv, Organized PROVE IInv'
<1>1. /\ At({"organize"}, "capture") /\ Go("render")
      /\ UNCHANGED <<index, bak, regen, inbox, legacy, vault, server, agent, last, before, removed, unshown>>
  BY DEF Organized, Others, history, disk
<1>2. {"organize"} \in SUBSET Kinds /\ "render" \in Places BY DEF Kinds, Places
<1>3. cmd \in Commands /\ cmd.kind = "organize" /\ cmd.pc = "capture" BY <1>1, <1>2, AtIs DEF IInv
<1>4. cmd.kind \in Organizing BY <1>3 DEF Organizing
<1> QED BY <1>1, <1>2, <1>3, <1>4, GoInv

LEMMA EntitiesInv == ASSUME IInv, Entities PROVE IInv'
<1> DEFINE lines == EntityLines(NoteId, cmd.mem)
           names == IF NoteId \in Live(cmd.mem) THEN Mentions[Text] ELSE {}
<1>1. /\ At(Organizing, "entities") /\ inbox' = Stored(names, cmd.origs) /\ Writes(lines)
      /\ cmd' = [cmd EXCEPT !.pc = NextText, !.todo = Tail(cmd.todo),
                            !.mem = Union(cmd.mem, lines), !.origs = cmd.origs \cup names]
      /\ UNCHANGED <<bak, legacy, vault, server, agent, last, before, removed, unshown>>
  BY DEF Entities, Others, history, Organizing
<1>2. cmd.todo # <<>> /\ NoteId \in cmd.mem.notes
  <2>1. Organizing \in SUBSET Kinds BY DEF Organizing, Kinds
  <2>2. cmd \in Commands /\ cmd.pc = "entities" BY <1>1, <2>1, AtIs DEF IInv
  <2> QED BY <2>2 DEF IInv, AtText
<1>3. /\ cmd \in Commands /\ cmd # Idle /\ cmd.kind \in Organizing /\ cmd.pc = "entities"
      /\ cmd.mem \in Indexes /\ cmd.origs \subseteq Texts /\ Text \in Texts
      /\ Tail(cmd.todo) \in Seq(Texts) /\ Range(cmd.todo) = {Text} \cup Range(Tail(cmd.todo))
      /\ NoteId \in Notes /\ NoteId[1] = Text /\ NoteId[2] = cmd.by
  BY <1>1, <1>2, AtWork DEF IInv
<1>4. /\ NextText \in {"capture", "organize"} /\ (cmd.kind = "organize" => NextText = "capture")
      /\ (cmd.kind = "regenerate" => NextText = "organize")
  BY DEF NextText
<1>5. names \in SUBSET Texts /\ IsFiniteSet(names) BY <1>3, MaintenanceAssumption, FS_EmptySet
<1>6. /\ lines \in Indexes /\ lines.dead = {}
      /\ \A n \in lines.notes : n[1] \in names /\ n[2] = "entity"
      /\ \A t \in names : \E n \in cmd.mem.notes \cup lines.notes : n[1] = t
  <2>1. /\ lines \in Indexes /\ lines.dead = {}
        /\ NoteId \notin Live(cmd.mem) => lines.notes = {}
        /\ NoteId \in Live(cmd.mem) => lines.notes = People(Text) \ Live(cmd.mem)
    BY <1>3, EntityLinesAre
  <2>2. Live(cmd.mem) \subseteq cmd.mem.notes BY DEF Live
  <2> HIDE DEF lines
  <2>3. CASE NoteId \notin Live(cmd.mem) BY <2>1, <2>3
  <2>4. CASE NoteId \in Live(cmd.mem)
    <3>1. lines.notes = People(Text) \ Live(cmd.mem) /\ names = Mentions[Text] BY <2>1, <2>4
    <3>2. \A n \in lines.notes : n[1] \in names /\ n[2] = "entity" BY <3>1 DEF People
    <3>3. \A t \in names : <<t, "entity">> \in cmd.mem.notes \cup lines.notes /\ <<t, "entity">>[1] = t
      BY <2>2, <3>1 DEF People
    <3> QED BY <2>1, <3>2, <3>3
  <2> QED BY <2>3, <2>4
<1> HIDE DEF lines, names
<1> DEFINE mem == Union(cmd.mem, lines)
<1>7. mem \in Indexes /\ mem.dead = cmd.mem.dead /\ mem.notes = cmd.mem.notes \cup lines.notes
  <2>1. mem.dead = cmd.mem.dead \cup lines.dead BY <1>3, <1>6, UnionIndex
  <2> QED BY <1>3, <1>6, <2>1, UnionIndex
<1>8. /\ index' \in File /\ regen' \in File /\ Load(index').dead = Load(index).dead
      /\ Load(index').notes \subseteq Load(index).notes \cup lines.notes
      /\ cmd.kind = "regenerate" => index' = index /\ Load(regen') = Union(Load(regen), lines)
  BY <1>1, <1>6, WritesIs DEF IInv
<1>9. cmd' \in Commands /\ cmd' # Idle
  <2>1. NextText \in Places BY <1>4 DEF Places
  <2>2. cmd.origs \cup names \in SUBSET Texts BY <1>3, <1>5
  <2> QED BY <1>1, <1>3, <1>7, <2>1, <2>2, Update, CommandsAre
<1>10. /\ cmd'.kind = cmd.kind /\ cmd'.pc = NextText /\ cmd'.todo = Tail(cmd.todo) /\ cmd'.mem = mem
       /\ cmd'.past = cmd.past /\ cmd'.origs = cmd.origs \cup names /\ cmd'.protect = cmd.protect
       /\ cmd'.by = cmd.by /\ cmd'.flag = cmd.flag
  BY <1>1, <1>3, CommandsAre
<1> HIDE DEF mem
<1>11. inbox' \in Seq(Texts) BY <1>1, <1>5, StoredType DEF IInv, Types
<1>12. Types' BY <1>1, <1>8, <1>9, <1>11 DEF IInv, Types
<1>13. AtText' BY <1>3, <1>4, <1>10 DEF IInv, AtText, Organizing
<1>14. Dead' BY <1>1, <1>3, <1>7, <1>8, <1>10 DEF IInv, Dead, Earned
<1>15. Due \subseteq Due' /\ lines.notes \subseteq Due' BY <1>6, <1>7, <1>10 DEF Due
<1>16. Shown' BY <1>1, <1>3, <1>8, <1>9, <1>10, <1>15 DEF IInv, Shown, Accounted, Earned, Organizing
<1>17. Protected' BY <1>3, <1>4, <1>10, <1>15 DEF IInv, Protected
<1>18. Rebuilding'
  <2>1. CASE cmd.kind = "organize" BY <1>10, <2>1 DEF Rebuilding
  <2>2. CASE cmd.kind = "regenerate"
    <3>1. Load(regen') = mem BY <1>3, <1>8, <2>2 DEF IInv, Rebuilding, mem
    <3>2. \A n \in mem.notes : n[1] \in cmd.origs \cup names /\ n[2] \in {cmd.by, "entity"}
      BY <1>3, <1>6, <1>7, <2>2 DEF IInv, Rebuilding
    <3>3. \A t \in (cmd.origs \cup names) \ Range(Tail(cmd.todo)) :
             \E n \in mem.notes : Similar(n[1], t, Twin)
      <4> SUFFICES ASSUME NEW t \in (cmd.origs \cup names) \ Range(Tail(cmd.todo))
                   PROVE  \E n \in mem.notes : Similar(n[1], t, Twin)
        OBVIOUS
      <4>1. CASE t \in names
        <5>1. PICK n \in mem.notes : n[1] = t BY <1>6, <1>7, <4>1
        <5> QED BY <5>1 DEF Similar
      <4>2. CASE t = Text
        <5>1. NoteId \in mem.notes /\ NoteId[1] = t BY <1>2, <1>3, <1>7, <4>2
        <5> QED BY <5>1 DEF Similar
      <4>3. CASE t \notin names /\ t # Text
        <5>1. t \in cmd.origs \ Range(cmd.todo) BY <1>3, <4>3
        <5> QED BY <1>3, <1>7, <2>2, <5>1 DEF IInv, Rebuilding
      <4> QED BY <4>1, <4>2, <4>3
    <3>4. /\ cmd.origs \cup names # {} /\ Range(Tail(cmd.todo)) \subseteq cmd.origs \cup names
          /\ cmd.mem.dead = {} /\ (cmd.flag => cmd.past = Load(before))
      BY <1>3, <2>2 DEF IInv, Rebuilding
    <3>5. cmd'.pc = "organize" BY <1>4, <1>10, <2>2
    <3> QED BY <1>1, <1>7, <1>10, <2>2, <3>1, <3>2, <3>3, <3>4, <3>5 DEF Rebuilding
  <2> QED BY <1>3, <2>1, <2>2 DEF Organizing
<1>19. Found'
  <2>1. \/ cmd.kind \notin {"import", "relink", "regenerate"}
        \/ index' = index /\ (cmd.pc \in Untouched <=> cmd'.pc \in Untouched)
    BY <1>3, <1>4, <1>8, <1>10 DEF Organizing, Untouched
  <2> QED BY <1>1, <1>3, <1>10, <2>1, FoundStep DEF IInv
<1> QED BY <1>12, <1>13, <1>14, <1>16, <1>17, <1>18, <1>19 DEF IInv

-----------------------------------------------------------------------------
(* A rebuild that succeeded *)

LEMMA EmptyRange == Range(<<>>) = {}
BY DEF Range

LEMMA BackUpIndexInv == ASSUME IInv, BackUpIndex PROVE IInv'
<1>1. /\ At({"regenerate"}, "organize") /\ cmd.todo = <<>> /\ index' = None
      /\ bak' = IF index = None THEN bak ELSE index
      /\ cmd' = [cmd EXCEPT !.pc = "swap"]
      /\ UNCHANGED <<regen, inbox, legacy, vault, server, agent, last, before, removed, unshown>>
  BY DEF BackUpIndex, Others, history, Go
<1>2. {"regenerate"} \in SUBSET Kinds /\ "swap" \in Places BY DEF Kinds, Places
<1>3. cmd \in Commands /\ cmd # Idle /\ cmd.kind = "regenerate" /\ cmd.pc = "organize"
  BY <1>1, <1>2, AtIs DEF IInv
<1>4. /\ cmd' \in Commands /\ cmd' # Idle
      /\ cmd'.kind = cmd.kind /\ cmd'.pc = "swap" /\ cmd'.todo = cmd.todo /\ cmd'.mem = cmd.mem
      /\ cmd'.past = cmd.past /\ cmd'.origs = cmd.origs /\ cmd'.protect = cmd.protect
      /\ cmd'.by = cmd.by /\ cmd'.flag = cmd.flag
  BY <1>1, <1>2, <1>3, Update, CommandsAre
<1>5. Earned' = Earned /\ Accounted' = Accounted /\ Due' = Due
  BY <1>1, <1>4 DEF Earned, Accounted, Due
<1>6. Load(index').notes = {} /\ Load(index').dead = {} BY <1>1, EmptyIndex DEF Load
<1>7. Types' BY <1>1, <1>4 DEF IInv, Types, File
<1>8. AtText' BY <1>3, <1>4 DEF IInv, AtText
<1>9. Dead' BY <1>1, <1>3, <1>4, <1>5, <1>6 DEF IInv, Dead
<1>10. Shown' BY <1>1, <1>3, <1>4, <1>5, <1>6 DEF IInv, Shown
<1>11. Protected' BY <1>3, <1>4, <1>5 DEF IInv, Protected
<1>12. Rebuilding' BY <1>1, <1>3, <1>4 DEF IInv, Rebuilding, Alone
<1>13. Found' BY <1>1, <1>3, <1>4 DEF IInv, Found, Alone, Untouched
<1> QED BY <1>7, <1>8, <1>9, <1>10, <1>11, <1>12, <1>13 DEF IInv

LEMMA SwapInv == ASSUME IInv, Swap PROVE IInv'
<1>1. /\ At({"regenerate"}, "swap") /\ index' = regen /\ regen' = None
      /\ cmd' = [cmd EXCEPT !.pc = "replay", !.mem = Load(regen)]
      /\ UNCHANGED <<bak, inbox, legacy, vault, server, agent, last, before, removed, unshown>>
  BY DEF Swap, Others, history
<1>2. {"regenerate"} \in SUBSET Kinds /\ "replay" \in Places BY DEF Kinds, Places
<1>3. /\ cmd \in Commands /\ cmd # Idle /\ cmd.kind = "regenerate" /\ cmd.pc = "swap"
      /\ cmd.mem \in Indexes
  BY <1>1, <1>2, AtIs DEF IInv
<1>4. Load(regen) = cmd.mem /\ cmd.mem.dead = {} /\ cmd.todo = <<>> BY <1>3 DEF IInv, Rebuilding
<1>5. /\ cmd' \in Commands /\ cmd' # Idle
      /\ cmd'.kind = cmd.kind /\ cmd'.pc = "replay" /\ cmd'.todo = cmd.todo /\ cmd'.mem = cmd.mem
      /\ cmd'.past = cmd.past /\ cmd'.origs = cmd.origs /\ cmd'.protect = cmd.protect
      /\ cmd'.by = cmd.by /\ cmd'.flag = cmd.flag
  BY <1>1, <1>2, <1>3, <1>4, Update, CommandsAre
<1>6. Earned' = Earned /\ Accounted' = Accounted /\ Due' = Due
  BY <1>1, <1>5 DEF Earned, Accounted, Due
<1>7. index' = cmd.mem
  <2>1. Range(cmd.todo) = {} BY <1>4, EmptyRange
  <2>2. PICK t \in cmd.origs : TRUE BY <1>3 DEF IInv, Rebuilding
  <2>3. cmd.mem.notes # {} BY <1>3, <2>1, <2>2 DEF IInv, Rebuilding
  <2>4. regen # None BY <1>4, <2>3, EmptyIndex DEF Load
  <2> QED BY <1>1, <1>4, <2>4 DEF Load
<1>8. Load(index') = cmd.mem BY <1>1, <1>4
<1>9. cmd.mem.notes \subseteq Due BY <1>3 DEF IInv, Rebuilding, Due
<1>10. Types' BY <1>1, <1>5 DEF IInv, Types, File
<1>11. AtText' BY <1>3, <1>5 DEF IInv, AtText
<1>12. Dead' BY <1>1, <1>3, <1>4, <1>5, <1>6, <1>8 DEF IInv, Dead
<1>13. Shown' BY <1>1, <1>3, <1>5, <1>6, <1>8, <1>9 DEF IInv, Shown
<1>14. Protected' BY <1>3, <1>5, <1>6 DEF IInv, Protected
<1>15. Rebuilding' BY <1>1, <1>3, <1>4, <1>5, <1>7 DEF IInv, Rebuilding, Alone
<1>16. Found'
  <2>1. bak' = bak /\ cmd.pc \notin Untouched /\ cmd'.pc \notin Untouched BY <1>1, <1>3, <1>5 DEF Untouched
  <2> QED BY <1>1, <1>3, <1>5, <2>1, FoundStep DEF IInv
<1> QED BY <1>10, <1>11, <1>12, <1>13, <1>14, <1>15, <1>16 DEF IInv

\* What the replay adds: the history of the notes the rebuild made again.
LEMMA HistoryIs ==
    ASSUME NEW past \in Indexes, NEW mem \in Indexes
    PROVE  /\ History(past, mem) \in Indexes /\ History(past, mem).notes = {}
           /\ History(past, mem).marks = (past.marks \cap mem.notes) \ mem.marks
           /\ History(past, mem).dead = past.dead \cap Live(mem)
<1> DEFINE K == (past.marks \cap mem.notes) \ mem.marks
           D == past.dead \cap Live(mem)
<1>1. K \in SUBSET Notes /\ D \in SUBSET Notes BY IndexFields
<1>2. History(past, mem) = [Empty EXCEPT !.marks = K, !.dead = D] BY DEF History
<1> HIDE DEF K, D
<1>3. [Empty EXCEPT !.marks = K, !.dead = D] = [notes |-> {}, marks |-> K, dead |-> D, edges |-> {}]
  BY LinesAre
<1>4. History(past, mem) = [notes |-> {}, marks |-> K, dead |-> D, edges |-> {}] BY <1>2, <1>3
<1>5. History(past, mem) \in Indexes BY <1>1, <1>4, LinesType, NoneType
<1>6. History(past, mem).notes = {} /\ History(past, mem).marks = K /\ History(past, mem).dead = D BY <1>4
<1> QED BY <1>5, <1>6 DEF K, D

LEMMA ReplayInv == ASSUME IInv, Replay PROVE IInv'
<1> DEFINE lines == History(cmd.past, cmd.mem)
           mem == Union(cmd.mem, lines)
<1>1. /\ At({"regenerate"}, "replay") /\ index' = Appended(index, lines)
      /\ cmd' = [cmd EXCEPT !.pc = "render", !.mem = mem]
      /\ UNCHANGED <<bak, regen, inbox, legacy, vault, server, agent, last, before, removed, unshown>>
  BY DEF Replay, Ends, Others, history
<1>2. {"regenerate"} \in SUBSET Kinds /\ "render" \in Places BY DEF Kinds, Places
<1>3. /\ cmd \in Commands /\ cmd # Idle /\ cmd.kind = "regenerate" /\ cmd.pc = "replay"
      /\ cmd.mem \in Indexes /\ cmd.past \in Indexes
  BY <1>1, <1>2, AtIs DEF IInv
<1>4. /\ lines \in Indexes /\ lines.notes = {} /\ lines.dead = cmd.past.dead \cap Live(cmd.mem)
      /\ lines.marks = (cmd.past.marks \cap cmd.mem.notes) \ cmd.mem.marks
  BY <1>3, HistoryIs
<1> HIDE DEF lines
<1>5. mem \in Indexes /\ mem.notes = cmd.mem.notes /\ mem.dead = cmd.mem.dead \cup lines.dead
      /\ mem.marks = cmd.mem.marks \cup lines.marks
  <2>1. mem.notes = cmd.mem.notes \cup lines.notes BY <1>3, <1>4, UnionIndex
  <2> QED BY <1>3, <1>4, <2>1, UnionIndex
<1>6. /\ cmd' \in Commands /\ cmd' # Idle
      /\ cmd'.kind = cmd.kind /\ cmd'.pc = "render" /\ cmd'.todo = cmd.todo /\ cmd'.mem = mem
      /\ cmd'.past = cmd.past /\ cmd'.origs = cmd.origs /\ cmd'.protect = cmd.protect
      /\ cmd'.by = cmd.by /\ cmd'.flag = cmd.flag
  BY <1>1, <1>2, <1>3, <1>5, Update, CommandsAre
<1>7. index \in File BY DEF IInv, Types
<1>8. /\ index' \in File /\ Load(index').notes = Load(index).notes
      /\ Load(index').dead = Load(index).dead \cup lines.dead
  <2>1. Load(index').notes = Load(index).notes \cup lines.notes BY <1>1, <1>4, <1>7, AppendedNotes
  <2> QED BY <1>1, <1>4, <1>7, <2>1, AppendedNotes
<1>9. ASSUME index = cmd.mem PROVE index' = mem
  <2>1. index # None BY <1>3, <1>9, MaintenanceAssumption
  <2>2. Load(index) = cmd.mem BY <1>7, <1>9, <2>1, LoadIndex
  <2>3. index' # None /\ Load(index') = mem BY <1>1, <1>4, <1>7, <2>1, <2>2, AppendedIndex
  <2> QED BY <1>8, <2>3, LoadIndex
<1> HIDE DEF mem
<1>10. Earned' = Earned /\ Accounted' = Accounted /\ Due' = Due
  BY <1>1, <1>5, <1>6 DEF Earned, Accounted, Due
<1>11. lines.dead \subseteq Earned BY <1>3, <1>4 DEF IInv, Dead
<1>12. Types' BY <1>1, <1>6, <1>8 DEF IInv, Types
<1>13. AtText' BY <1>3, <1>6 DEF IInv, AtText
<1>14. Dead' BY <1>1, <1>3, <1>5, <1>6, <1>8, <1>10, <1>11 DEF IInv, Dead
<1>15. Shown' BY <1>1, <1>3, <1>5, <1>6, <1>8, <1>10 DEF IInv, Shown
<1>16. Protected' BY <1>3, <1>6, <1>10 DEF IInv, Protected
<1>17. Rebuilding'
  <2>1. /\ cmd.past.marks \cap mem.notes \subseteq mem.marks
        /\ cmd.past.dead \cap mem.notes \subseteq mem.dead
    BY <1>3, <1>4, <1>5 DEF Live
  <2> QED BY <1>1, <1>3, <1>5, <1>6, <1>9, <2>1 DEF IInv, Rebuilding, Alone
<1>18. Found'
  <2>1. bak' = bak /\ cmd.pc \notin Untouched /\ cmd'.pc \notin Untouched BY <1>1, <1>3, <1>6 DEF Untouched
  <2> QED BY <1>1, <1>3, <1>6, <2>1, FoundStep DEF IInv
<1> QED BY <1>12, <1>13, <1>14, <1>15, <1>16, <1>17, <1>18 DEF IInv

-----------------------------------------------------------------------------
(* import, relink, rerender, attach *)

Merging == {"import", "relink", "rerender", "attach"}

\* Before it renders, all a merge knows is accounted for, or has come from the source.
LEMMA MergeKnows ==
    ASSUME IInv, cmd \in Commands, cmd.kind \in Merging, cmd.pc # "render"
    PROVE  /\ cmd.mem.notes \subseteq Accounted \cup cmd.protect
           /\ Load(index).notes \subseteq Accounted \cup cmd.protect
<1>1. /\ cmd.mem.notes \subseteq Accounted \cup cmd.protect
      /\ Load(index).notes \subseteq Accounted \cup Due \cup cmd.protect
  BY DEF IInv, Shown, Merging
<1>2. Due \subseteq cmd.mem.notes BY DEF Due
<1> QED BY <1>1, <1>2

LEMMA CopyIndexInv == ASSUME IInv, CopyIndex PROVE IInv'
<1>1. /\ At({"import", "relink"}, "backup") /\ bak' = IF index = None THEN bak ELSE index
      /\ cmd' = [cmd EXCEPT !.pc = cmd.kind]
      /\ UNCHANGED <<index, regen, inbox, legacy, vault, server, agent, last, before, removed, unshown>>
  BY DEF CopyIndex, Others, history, Go
<1>2. {"import", "relink"} \in SUBSET Kinds BY DEF Kinds
<1>3. cmd \in Commands /\ cmd # Idle /\ cmd.kind \in {"import", "relink"} /\ cmd.pc = "backup"
  BY <1>1, <1>2, AtIs DEF IInv
<1>4. cmd.kind \in Places BY <1>3 DEF Places
<1>5. /\ cmd' \in Commands /\ cmd' # Idle
      /\ cmd'.kind = cmd.kind /\ cmd'.pc = cmd.kind /\ cmd'.todo = cmd.todo /\ cmd'.mem = cmd.mem
      /\ cmd'.past = cmd.past /\ cmd'.origs = cmd.origs /\ cmd'.protect = cmd.protect
      /\ cmd'.by = cmd.by /\ cmd'.flag = cmd.flag
  BY <1>1, <1>3, <1>4, Update, CommandsAre
<1>6. Earned' = Earned /\ Accounted' = Accounted /\ Due' = Due
  BY <1>1, <1>5 DEF Earned, Accounted, Due
<1>7. Types' BY <1>1, <1>5 DEF IInv, Types
<1>8. AtText' BY <1>3, <1>5 DEF AtText
<1>9. Dead' BY <1>1, <1>3, <1>5, <1>6 DEF IInv, Dead
<1>10. Shown' BY <1>1, <1>3, <1>5, <1>6 DEF IInv, Shown
<1>11. Protected' BY <1>3, <1>5, <1>6 DEF IInv, Protected
<1>12. Rebuilding' BY <1>3, <1>5 DEF Rebuilding
<1>13. Found' BY <1>1, <1>3, <1>5 DEF IInv, Found, Alone, Untouched
<1> QED BY <1>7, <1>8, <1>9, <1>10, <1>11, <1>12, <1>13 DEF IInv

LEMMA ImportedIs ==
    ASSUME NEW dest \in Indexes
    PROVE  /\ Imported(dest) \in Indexes /\ Imported(dest).notes \subseteq Source.index.notes
           /\ Imported(dest).dead \subseteq Source.index.dead
<1>1. Source.index \in Indexes BY SourceIs
<1>2. /\ Source.index.notes \subseteq Notes /\ Source.index.marks \subseteq Notes
      /\ Source.index.dead \subseteq Notes /\ Source.index.edges \subseteq Notes \X Notes
  BY <1>1, IndexFields
<1> DEFINE N == {n \in Source.index.notes : n \notin dest.notes}
           K == {n \in Source.index.marks : n \notin dest.notes}
           D == {n \in Source.index.dead : n \notin dest.notes}
           E == {e \in Source.index.edges : e[1] \notin dest.notes}
<1>3. N \in SUBSET Notes /\ K \in SUBSET Notes /\ D \in SUBSET Notes /\ E \in SUBSET (Notes \X Notes)
  BY <1>2
<1>4. Imported(dest) = [notes |-> N, marks |-> K, dead |-> D, edges |-> E] BY DEF Imported
<1>5. N \subseteq Source.index.notes /\ D \subseteq Source.index.dead OBVIOUS
<1> HIDE DEF N, K, D, E
<1>6. Imported(dest).notes = N /\ Imported(dest).dead = D BY <1>4
<1>7. Imported(dest) \in Indexes BY <1>3, <1>4, LinesType
<1> QED BY <1>5, <1>6, <1>7

LEMMA ImportIndexInv == ASSUME IInv, ImportIndex PROVE IInv'
<1> DEFINE lines == Imported(Load(index))
<1>1. /\ At({"import"}, "import") /\ index' = Appended(index, lines)
      /\ cmd' = [cmd EXCEPT !.pc = "inbox", !.protect = lines.notes]
      /\ UNCHANGED <<bak, regen, inbox, legacy, vault, server, agent, last, before, removed, unshown>>
  BY DEF ImportIndex, Others, history, Protect
<1>2. {"import"} \in SUBSET Kinds /\ "inbox" \in Places BY DEF Kinds, Places
<1>3. cmd \in Commands /\ cmd # Idle /\ cmd.kind = "import" /\ cmd.pc = "import"
  BY <1>1, <1>2, AtIs DEF IInv
<1>4. index \in File /\ Load(index) \in Indexes BY LoadIndex DEF IInv, Types
<1>5. /\ lines \in Indexes /\ lines.notes \subseteq Source.index.notes
      /\ lines.dead \subseteq Source.index.dead /\ lines.notes \in SUBSET Notes
  <2>1. lines \in Indexes BY <1>4, ImportedIs
  <2> QED BY <1>4, <2>1, ImportedIs, IndexFields
<1> HIDE DEF lines
<1>6. /\ index' \in File /\ Load(index').notes = Load(index).notes \cup lines.notes
      /\ Load(index').dead = Load(index).dead \cup lines.dead
  BY <1>1, <1>4, <1>5, AppendedNotes
<1>7. /\ cmd' \in Commands /\ cmd' # Idle
      /\ cmd'.kind = cmd.kind /\ cmd'.pc = "inbox" /\ cmd'.todo = cmd.todo /\ cmd'.mem = cmd.mem
      /\ cmd'.past = cmd.past /\ cmd'.origs = cmd.origs /\ cmd'.protect = lines.notes
      /\ cmd'.by = cmd.by /\ cmd'.flag = cmd.flag
  BY <1>1, <1>2, <1>3, <1>5, Update, CommandsAre
<1>8. /\ Earned' = Earned /\ Accounted' = Accounted /\ Due' = Due
      /\ Source.index.dead \subseteq Earned
  BY <1>1, <1>7 DEF Earned, Accounted, Due
<1>9. cmd.mem.notes \subseteq Accounted /\ Load(index).notes \subseteq Accounted
  <2>1. cmd.protect = {} BY <1>3 DEF IInv, Protected
  <2>2. cmd.kind \in Merging /\ cmd.pc # "render" BY <1>3 DEF Merging
  <2> QED BY <1>3, <2>1, <2>2, MergeKnows
<1>10. Types' BY <1>1, <1>6, <1>7 DEF IInv, Types
<1>11. AtText' BY <1>3, <1>7 DEF AtText
<1>12. Dead' BY <1>1, <1>3, <1>5, <1>6, <1>7, <1>8 DEF IInv, Dead
<1>13. Shown' BY <1>1, <1>3, <1>6, <1>7, <1>8, <1>9 DEF IInv, Shown
<1>14. Protected' BY <1>3, <1>5, <1>6, <1>7 DEF Protected
<1>15. Rebuilding' BY <1>3, <1>7 DEF Rebuilding
<1>16. Found'
  <2>1. bak' = bak /\ cmd.pc \notin Untouched /\ cmd'.pc \notin Untouched BY <1>1, <1>3, <1>7 DEF Untouched
  <2> QED BY <1>1, <1>3, <1>7, <2>1, FoundStep DEF IInv
<1> QED BY <1>10, <1>11, <1>12, <1>13, <1>14, <1>15, <1>16 DEF IInv

LEMMA ConcatRange ==
    ASSUME NEW s \in Seq(Texts), NEW t \in Seq(Texts) PROVE Range(s) \cup Range(t) \subseteq Range(s \o t)
<1>1. /\ Len(s) \in Nat /\ Len(t) \in Nat /\ DOMAIN s = 1..Len(s) /\ DOMAIN t = 1..Len(t)
  BY LenProperties
<1>2. /\ s \o t \in Seq(Texts) /\ Len(s \o t) = Len(s) + Len(t)
      /\ \A i \in 1..Len(s) + Len(t) : (s \o t)[i] = IF i <= Len(s) THEN s[i] ELSE t[i - Len(s)]
  BY ConcatProperties
<1> DEFINE u == s \o t
<1> HIDE DEF u
<1>3. DOMAIN u = 1..Len(s) + Len(t) BY <1>2, LenProperties DEF u
<1>4. \A i \in 1..Len(s) : i \in DOMAIN u /\ u[i] = s[i] BY <1>1, <1>2, <1>3 DEF u
<1>5. \A i \in 1..Len(t) : i + Len(s) \in DOMAIN u /\ u[i + Len(s)] = t[i]
  <2>1. \A i \in 1..Len(t) : /\ i + Len(s) \in 1..Len(s) + Len(t) /\ ~(i + Len(s) <= Len(s))
                             /\ (i + Len(s)) - Len(s) = i
    BY <1>1
  <2> QED BY <1>2, <1>3, <2>1 DEF u
<1>6. Range(s) \subseteq Range(u) BY <1>1, <1>4 DEF Range
<1>7. Range(t) \subseteq Range(u)
  <2> SUFFICES ASSUME NEW i \in 1..Len(t) PROVE t[i] \in Range(u) BY <1>1 DEF Range
  <2> QED BY <1>5 DEF Range
<1> QED BY <1>6, <1>7 DEF u

\* All that was imported can be rendered: its originals have come too.
LEMMA ImportInboxInv == ASSUME IInv, ImportInbox PROVE IInv'
<1>1. PICK new \in Missing(Source.inbox, Range(inbox)) : inbox' = inbox \o new BY DEF ImportInbox
<1>2. /\ At({"import"}, "inbox")
      /\ cmd' = [cmd EXCEPT !.pc = "tombstone", !.mem = Load(index), !.origs = Range(inbox')]
      /\ UNCHANGED <<index, bak, regen, legacy, vault, server, agent, last, before, removed, unshown>>
  BY DEF ImportInbox, Others, history
<1>3. {"import"} \in SUBSET Kinds /\ "tombstone" \in Places BY DEF Kinds, Places
<1>4. cmd \in Commands /\ cmd # Idle /\ cmd.kind = "import" /\ cmd.pc = "inbox"
  BY <1>2, <1>3, AtIs DEF IInv
<1>5. Load(index) \in Indexes BY LoadIndex DEF IInv, Types
<1>6. /\ inbox' \in Seq(Texts) /\ Range(inbox') \in SUBSET Texts
      /\ Range(Source.inbox) \subseteq Range(inbox')
  <2>1. new \in Seq(Texts) /\ Range(Source.inbox) \subseteq Range(inbox) \cup Range(new) BY MissingAll
  <2>2. inbox \in Seq(Texts) BY DEF IInv, Types
  <2>3. inbox' \in Seq(Texts) BY <1>1, <2>1, <2>2, ConcatProperties
  <2>4. Range(inbox) \cup Range(new) \subseteq Range(inbox') BY <1>1, <2>1, <2>2, ConcatRange
  <2> QED BY <2>1, <2>3, <2>4, RangeFinite
<1>7. /\ cmd' \in Commands /\ cmd' # Idle
      /\ cmd'.kind = cmd.kind /\ cmd'.pc = "tombstone" /\ cmd'.todo = cmd.todo /\ cmd'.mem = Load(index)
      /\ cmd'.past = cmd.past /\ cmd'.origs = Range(inbox') /\ cmd'.protect = cmd.protect
      /\ cmd'.by = cmd.by /\ cmd'.flag = cmd.flag
  BY <1>2, <1>3, <1>4, <1>5, <1>6, Update, CommandsAre
<1>8. Earned' = Earned /\ Accounted' = Accounted BY <1>2 DEF Earned, Accounted
<1>9. Load(index).notes \subseteq Accounted \cup cmd.protect BY <1>4, MergeKnows DEF Merging
<1>10. cmd.protect \subseteq Source.index.notes /\ cmd.protect \subseteq Load(index).notes
  BY <1>4 DEF IInv, Protected
<1>11. cmd.protect \subseteq Due' BY <1>6, <1>7, <1>10, SourceIsWhole DEF Due
<1>12. Types' BY <1>2, <1>6, <1>7 DEF IInv, Types
<1>13. AtText' BY <1>4, <1>7 DEF AtText
<1>14. Dead' BY <1>2, <1>4, <1>7, <1>8 DEF IInv, Dead
<1>15. Shown' BY <1>2, <1>4, <1>7, <1>8, <1>9 DEF IInv, Shown
<1>16. Protected' BY <1>4, <1>7, <1>10, <1>11 DEF Protected
<1>17. Rebuilding' BY <1>4, <1>7 DEF Rebuilding
<1>18. Found'
  <2>1. bak' = bak /\ cmd.pc \notin Untouched /\ cmd'.pc \notin Untouched BY <1>2, <1>4, <1>7 DEF Untouched
  <2> QED BY <1>2, <1>4, <1>7, <2>1, FoundStep DEF IInv
<1> QED BY <1>12, <1>13, <1>14, <1>15, <1>16, <1>17, <1>18 DEF IInv

\* Links, marks and tombstones on notes that are there.
LEMMA MergeInv ==
    ASSUME IInv, cmd \in Commands, cmd.kind \in Merging, cmd.pc \in {"relink", "mark", "tombstone"},
           NEW pc \in {"tombstone", "render"}, NEW lines \in Indexes, lines.notes = {},
           lines.dead \subseteq Earned, index' = Appended(index, lines),
           cmd' = [cmd EXCEPT !.pc = pc, !.mem = Union(cmd.mem, lines)],
           UNCHANGED <<bak, regen, inbox, legacy, vault, server, agent, last, before, removed, unshown>>
    PROVE  IInv'
<1> DEFINE mem == Union(cmd.mem, lines)
<1>1. cmd.mem \in Indexes /\ cmd # Idle /\ pc \in Places BY CommandsAre DEF Commands, Places
<1>2. mem \in Indexes /\ mem.notes = cmd.mem.notes /\ mem.dead = cmd.mem.dead \cup lines.dead
  <2>1. mem.notes = cmd.mem.notes \cup lines.notes BY <1>1, UnionIndex
  <2> QED BY <1>1, <2>1, UnionIndex
<1>3. /\ index' \in File /\ Load(index').notes = Load(index).notes
      /\ Load(index').dead = Load(index).dead \cup lines.dead
  <2>1. index \in File BY DEF IInv, Types
  <2>2. Load(index').notes = Load(index).notes \cup lines.notes BY <2>1, AppendedNotes
  <2> QED BY <2>1, <2>2, AppendedNotes
<1>4. /\ cmd' \in Commands /\ cmd' # Idle
      /\ cmd'.kind = cmd.kind /\ cmd'.pc = pc /\ cmd'.todo = cmd.todo /\ cmd'.mem = mem
      /\ cmd'.past = cmd.past /\ cmd'.origs = cmd.origs /\ cmd'.protect = cmd.protect
      /\ cmd'.by = cmd.by /\ cmd'.flag = cmd.flag
  BY <1>1, <1>2, Update, CommandsAre
<1> HIDE DEF mem
<1>5. Earned' = Earned /\ Accounted' = Accounted /\ Due' = Due
  BY <1>2, <1>4 DEF Earned, Accounted, Due
<1>6. /\ cmd.mem.notes \subseteq Accounted \cup cmd.protect
      /\ Load(index).notes \subseteq Accounted \cup cmd.protect
  BY MergeKnows
<1>7. Types' BY <1>3, <1>4 DEF IInv, Types
<1>8. AtText' BY <1>4 DEF AtText, Merging
<1>9. Dead' BY <1>2, <1>3, <1>4, <1>5 DEF IInv, Dead
<1>10. Shown' BY <1>2, <1>3, <1>4, <1>5, <1>6 DEF IInv, Shown
<1>11. Protected' BY <1>4, <1>5 DEF IInv, Protected
<1>12. Rebuilding' BY <1>4 DEF Rebuilding, Merging
<1>13. Found'
  <2>1. bak' = bak /\ cmd.pc \notin Untouched /\ cmd'.pc \notin Untouched BY <1>4 DEF Untouched
  <2> QED BY <1>1, <1>4, <2>1, FoundStep DEF IInv
<1> QED BY <1>7, <1>8, <1>9, <1>10, <1>11, <1>12, <1>13 DEF IInv

LEMMA RelinkNotesInv == ASSUME IInv, RelinkNotes PROVE IInv'
<1> DEFINE missing == UNION {LinksOf(n, cmd.mem) : n \in Live(cmd.mem)} \ cmd.mem.edges
           lines == [Empty EXCEPT !.edges = missing]
<1>1. /\ At({"relink"}, "relink") /\ index' = Appended(index, lines)
      /\ cmd' = [cmd EXCEPT !.pc = "tombstone", !.mem = Union(cmd.mem, lines)]
      /\ UNCHANGED <<bak, regen, inbox, legacy, vault, server, agent, last, before, removed, unshown>>
  BY DEF RelinkNotes, Others, history
<1>2. {"relink"} \in SUBSET Kinds BY DEF Kinds
<1>3. cmd \in Commands /\ cmd.kind = "relink" /\ cmd.pc = "relink" /\ cmd.mem \in Indexes
  BY <1>1, <1>2, AtIs DEF IInv
<1>4. missing \in SUBSET (Notes \X Notes)
  <2>1. \A n \in Live(cmd.mem) : n \in Notes BY <1>3, IndexFields DEF Live
  <2>2. \A n \in Live(cmd.mem) : LinksOf(n, cmd.mem) \subseteq Notes \X Notes BY <1>3, <2>1, LinksType
  <2> QED BY <2>2
<1> HIDE DEF missing
<1>5. lines = [notes |-> {}, marks |-> {}, dead |-> {}, edges |-> missing] BY LinesAre
<1>6. lines \in Indexes BY <1>4, <1>5, LinesType, NoneType
<1>7. lines.notes = {} /\ lines.dead = {} BY <1>5
<1>8. cmd.kind \in Merging BY <1>3 DEF Merging
<1> HIDE DEF lines
<1> QED BY <1>1, <1>3, <1>6, <1>7, <1>8, MergeInv

\* Only what was removed, or never had a file, is tombstoned.
LEMMA TombstoneInv == ASSUME IInv, Tombstone PROVE IInv'
<1> DEFINE lines == [Empty EXCEPT !.dead = Gone(cmd.mem)]
<1>1. /\ At({"import", "relink", "rerender"}, "tombstone") /\ index' = Appended(index, lines)
      /\ cmd' = [cmd EXCEPT !.pc = "render", !.mem = Union(cmd.mem, lines)]
      /\ UNCHANGED <<bak, regen, inbox, legacy, vault, server, agent, last, before, removed, unshown>>
  BY DEF Tombstone, Ends, Others, history
<1>2. {"import", "relink", "rerender"} \in SUBSET Kinds BY DEF Kinds
<1>3. /\ cmd \in Commands /\ cmd.kind \in {"import", "relink", "rerender"} /\ cmd.pc = "tombstone"
      /\ cmd.mem \in Indexes
  BY <1>1, <1>2, AtIs DEF IInv
<1>4. cmd.kind \in Merging BY <1>3 DEF Merging
<1>5. Gone(cmd.mem) \in SUBSET Notes BY <1>3, IndexFields DEF Gone, Live
<1>6. Gone(cmd.mem) \subseteq Earned
  <2>1. cmd.mem.notes \subseteq Accounted \cup cmd.protect BY <1>3, <1>4, MergeKnows
  <2> QED BY <2>1 DEF Gone, Live, Accounted
<1>7. lines = [notes |-> {}, marks |-> {}, dead |-> Gone(cmd.mem), edges |-> {}] BY LinesAre
<1>8. lines \in Indexes BY <1>5, <1>7, LinesType, NoneType
<1>9. lines.notes = {} /\ lines.dead = Gone(cmd.mem) BY <1>7
<1> HIDE DEF lines
<1> QED BY <1>1, <1>3, <1>4, <1>6, <1>8, <1>9, MergeInv

LEMMA AttachResourceInv == ASSUME IInv, AttachResource PROVE IInv'
<1>1. /\ At({"attach"}, "mark")
      /\ UNCHANGED <<bak, regen, inbox, legacy, vault, server, agent, last, before, removed, unshown>>
  BY DEF AttachResource, Others, history
<1>2. {"attach"} \in SUBSET Kinds BY DEF Kinds
<1>3. /\ cmd \in Commands /\ cmd # Idle /\ cmd.kind = "attach" /\ cmd.pc = "mark" /\ cmd.mem \in Indexes
  BY <1>1, <1>2, AtIs DEF IInv
<1>4. cmd.kind \in Merging BY <1>3 DEF Merging
<1>5. ASSUME NEW n \in Live(cmd.mem),
             index' = Appended(index, [Empty EXCEPT !.marks = {n} \ cmd.mem.marks]),
             Ends(Union(cmd.mem, [Empty EXCEPT !.marks = {n} \ cmd.mem.marks]))
      PROVE  IInv'
  <2> DEFINE marks == {n} \ cmd.mem.marks
             lines == [Empty EXCEPT !.marks = marks]
  <2>1. marks \in SUBSET Notes BY <1>3, IndexFields DEF Live
  <2>2. cmd' = [cmd EXCEPT !.pc = "render", !.mem = Union(cmd.mem, lines)] /\ index' = Appended(index, lines)
    BY <1>5 DEF Ends
  <2> HIDE DEF marks
  <2>3. lines = [notes |-> {}, marks |-> marks, dead |-> {}, edges |-> {}] BY LinesAre
  <2>4. lines \in Indexes BY <2>1, <2>3, LinesType, NoneType
  <2>5. lines.notes = {} /\ lines.dead = {} BY <2>3
  <2> HIDE DEF lines
  <2> QED BY <1>1, <1>3, <1>4, <2>2, <2>4, <2>5, MergeInv
<1>6. ASSUME UNCHANGED index, cmd' = Idle PROVE IInv'
  <2>1. Load(index).notes \subseteq Accounted
    <3>1. cmd.protect = {} BY <1>3 DEF IInv, Protected
    <3>2. Load(index).notes \subseteq Accounted \cup cmd.protect BY <1>3, <1>4, MergeKnows
    <3> QED BY <3>1, <3>2
  <2>2. Earned' = Earned /\ Accounted' = Accounted BY <1>1 DEF Earned, Accounted
  <2>3. cmd' \notin Commands BY <1>6, IdleIs
  <2>4. Types' BY <1>1, <1>6 DEF IInv, Types
  <2>5. Dead' BY <1>1, <1>6, <2>2, <2>3 DEF IInv, Dead
  <2>6. Shown' BY <1>1, <1>6, <2>1, <2>2, <2>3 DEF IInv, Shown
  <2>7. AtText' /\ Protected' /\ Rebuilding' BY <2>3 DEF AtText, Protected, Rebuilding
  <2>8. Found' BY <1>1, <1>6, <2>3 DEF IInv, Found, Alone
  <2> QED BY <2>4, <2>5, <2>6, <2>7, <2>8 DEF IInv
<1> QED BY <1>5, <1>6 DEF AttachResource, Done

-----------------------------------------------------------------------------
(* The ends of the commands *)

\* Once it has rendered, a command has shown all it knew.
LEMMA RenderInv == ASSUME IInv, Render PROVE IInv'
<1>1. /\ cmd # Idle /\ cmd.pc = "render" /\ cmd' = Idle
      /\ vault' = vault \cup {n \in Live(cmd.mem) : n[1] \in cmd.origs}
      /\ UNCHANGED <<index, bak, regen, inbox, legacy, server, agent, last, before, removed, unshown>>
  BY DEF Render, Done, Others, history
<1>2. cmd \in Commands
  <2>1. cmd \notin Resets BY <1>1 DEF Resets
  <2> QED BY <1>1, <2>1 DEF IInv, Types
<1>3. cmd' \notin Commands BY <1>1, IdleIs
<1>4. Earned' = Earned /\ Accounted \subseteq Accounted' BY <1>1 DEF Earned, Accounted
<1>5. Due \subseteq Accounted'
  <2>1. cmd.mem.dead \subseteq Earned BY <1>2 DEF IInv, Dead
  <2>2. Due \ cmd.mem.dead \subseteq vault' BY <1>1 DEF Due, Live
  <2> QED BY <1>4, <2>1, <2>2 DEF Accounted
<1>6. Load(index).notes \subseteq Accounted'
  <2>1. cmd.protect \subseteq Due BY <1>1, <1>2 DEF IInv, Protected
  <2>2. Load(index).notes \subseteq Accounted \cup Due \cup cmd.protect BY <1>2 DEF IInv, Shown
  <2> QED BY <1>4, <1>5, <2>1, <2>2
<1>7. Types' BY <1>1 DEF IInv, Types
<1>8. Dead' BY <1>1, <1>3, <1>4 DEF IInv, Dead
<1>9. Shown' BY <1>1, <1>3, <1>4, <1>6 DEF IInv, Shown
<1>10. AtText' /\ Protected' /\ Rebuilding' BY <1>3 DEF AtText, Protected, Rebuilding
<1>11. Found' BY <1>1, <1>3 DEF IInv, Found, Alone
<1> QED BY <1>7, <1>8, <1>9, <1>10, <1>11 DEF IInv

LEMMA ResetIndexInv == ASSUME IInv, ResetIndex PROVE IInv'
<1>1. /\ At({"reset"}, "index") /\ index' = None /\ bak' = None /\ cmd' = Idle
      /\ (regen' = regen \/ regen' = None) /\ (inbox' = inbox \/ inbox' = <<>>)
      /\ UNCHANGED <<legacy, vault, server, agent, last, before, removed, unshown>>
  BY DEF ResetIndex, Done, Others, history
<1>2. cmd' \notin Commands /\ last' = "reset"
  <2>1. cmd.kind = "reset" BY <1>1 DEF At
  <2> QED BY <1>1, <2>1, IdleIs DEF IInv, Found
<1>3. Load(index').notes = {} /\ Load(index').dead = {} /\ Load(bak').dead = {}
  BY <1>1, EmptyIndex DEF Load
<1>4. Accounted' = Accounted BY <1>1 DEF Accounted, Earned
<1>5. Types' BY <1>1, EmptySeq DEF IInv, Types, File
<1>6. Dead' BY <1>2, <1>3 DEF Dead
<1>7. Shown' BY <1>1, <1>2, <1>3, <1>4 DEF IInv, Shown
<1>8. AtText' /\ Protected' /\ Rebuilding' BY <1>2 DEF AtText, Protected, Rebuilding
<1>9. Found' BY <1>1, <1>2 DEF Found
<1> QED BY <1>5, <1>6, <1>7, <1>8, <1>9 DEF IInv

-----------------------------------------------------------------------------
(* The agent and the user *)

LEMMA ServeInv == ASSUME IInv, Serve PROVE IInv'
<1>1. /\ cmd = Idle /\ cmd' = Idle /\ index' = Opened.index /\ inbox' = Opened.inbox
      /\ (legacy' = legacy \/ legacy' = None)
      /\ server' = [mem |-> Load(Opened.index), origs |-> Range(Opened.inbox)]
      /\ UNCHANGED <<bak, regen, vault, agent, last, before, removed, unshown>>
  BY DEF Serve, Migrate, history
<1>2. /\ Opened.index \in File /\ Opened.inbox \in Seq(Texts)
      /\ Load(Opened.index).notes \subseteq Accounted /\ Load(Opened.index).dead \subseteq Earned
      /\ index # None => Opened.index = index
      /\ bak # None => Opened.index = index
  BY <1>1, OpenedIs DEF IInv
<1>3. Load(Opened.index) \in Indexes /\ Range(Opened.inbox) \subseteq Texts BY <1>2, LoadIndex, RangeFinite
<1>4. Earned' = Earned /\ Accounted' = Accounted BY <1>1 DEF Earned, Accounted
<1>5. cmd' \notin Commands BY <1>1, IdleIs
<1>6. Types' BY <1>1, <1>2, <1>3 DEF IInv, Types
<1>7. Dead' BY <1>1, <1>2, <1>4, <1>5 DEF IInv, Dead
<1>8. Shown' BY <1>1, <1>2, <1>4, <1>5 DEF IInv, Shown
<1>9. AtText' /\ Protected' /\ Rebuilding' BY <1>5 DEF AtText, Protected, Rebuilding
<1>10. Found'
  <2>1. before # None /\ before \in {index, bak} => index' = index BY <1>1, <1>2
  <2> QED BY <1>1, <1>5, <2>1 DEF IInv, Found, Alone
<1> QED BY <1>6, <1>7, <1>8, <1>9, <1>10 DEF IInv

LEMMA DisconnectInv == ASSUME IInv, Disconnect PROVE IInv'
<1> USE DEF Disconnect, disk, history
<1>1. Earned' = Earned /\ Accounted' = Accounted /\ Due' = Due BY DEF Earned, Accounted, Due
<1>2. Types' BY DEF IInv, Types
<1>3. AtText' BY DEF IInv, AtText, NoteId, Text
<1>4. Dead' BY <1>1 DEF IInv, Dead
<1>5. Shown' BY <1>1 DEF IInv, Shown
<1>6. Protected' BY <1>1 DEF IInv, Protected
<1>7. Rebuilding' BY DEF IInv, Rebuilding, Alone
<1>8. Found' BY DEF IInv, Found, Alone
<1> QED BY <1>2, <1>3, <1>4, <1>5, <1>6, <1>7, <1>8 DEF IInv

\* What the agent adds has no file, and says so.
LEMMA ToolInv ==
    ASSUME IInv, NEW lines \in Indexes, lines.dead = {}, NEW texts \in SUBSET Texts, IsFiniteSet(texts),
           Tool(lines, texts)
    PROVE  IInv'
<1>1. /\ server # None /\ agent' = agent + 1 /\ inbox' = Stored(texts, server.origs)
      /\ index' = Appended(index, lines)
      /\ server' = [mem |-> Union(server.mem, lines), origs |-> server.origs \cup texts]
      /\ unshown' = unshown \cup (lines.notes \ vault)
      /\ UNCHANGED <<bak, regen, legacy, vault, cmd, last, before, removed>>
  BY DEF Tool
<1>2. server.mem \in Indexes /\ server.origs \subseteq Texts BY <1>1 DEF IInv, Types
<1>3. Union(server.mem, lines) \in Indexes BY <1>2, UnionIndex
<1>4. /\ index' \in File /\ Load(index').notes = Load(index).notes \cup lines.notes
      /\ Load(index').dead = Load(index).dead
  <2>1. index \in File BY DEF IInv, Types
  <2>2. Load(index').dead = Load(index).dead \cup lines.dead BY <1>1, <2>1, AppendedNotes
  <2> QED BY <1>1, <2>1, <2>2, AppendedNotes
<1>5. inbox' \in Seq(Texts) BY <1>1, StoredType DEF IInv, Types
<1>6. ~Alone' /\ agent' \in Nat BY <1>1 DEF IInv, Types, Alone
<1>7. Earned \subseteq Earned' /\ Accounted \subseteq Accounted' BY <1>1, Grown
<1>8. lines.notes \subseteq Accounted' BY <1>1 DEF Accounted, Earned
<1>9. Due' = Due BY <1>1 DEF Due
<1>10. Types' BY <1>1, <1>2, <1>3, <1>4, <1>5, <1>6 DEF IInv, Types
<1>11. AtText' BY <1>1 DEF IInv, AtText, NoteId, Text
<1>12. Dead' BY <1>1, <1>4, <1>7 DEF IInv, Dead
<1>13. Shown' BY <1>1, <1>4, <1>7, <1>8, <1>9 DEF IInv, Shown
<1>14. Protected' BY <1>1, <1>4, <1>9 DEF IInv, Protected
<1>15. Rebuilding' BY <1>1, <1>6 DEF IInv, Rebuilding
<1>16. Found' BY <1>1, <1>6 DEF IInv, Found
<1> QED BY <1>10, <1>11, <1>12, <1>13, <1>14, <1>15, <1>16 DEF IInv

LEMMA AgentInv == ASSUME IInv, Agent PROVE IInv'
<1>1. ASSUME server # None PROVE server.mem \in Indexes BY <1>1 DEF IInv, Types
<1>2. ASSUME NEW t \in AgentTexts, ProposeNote(t) PROVE IInv'
  <2> DEFINE N == {<<t, "agent">>} \ Live(server.mem)
             lines == [Empty EXCEPT !.notes = N]
  <2>1. server # None /\ Tool(lines, {t}) BY <1>2 DEF ProposeNote
  <2>2. t \in Texts /\ {t} \in SUBSET Texts /\ IsFiniteSet({t}) /\ N \in SUBSET Notes
    <3>1. AgentTexts \subseteq Texts BY MaintenanceAssumption
    <3>2. t \in Texts BY <3>1
    <3>3. <<t, "agent">> \in Notes BY <3>2, NotesAre
    <3> QED BY <3>2, <3>3, FS_Singleton
  <2> HIDE DEF N
  <2>3. lines = [notes |-> N, marks |-> {}, dead |-> {}, edges |-> {}] BY LinesAre
  <2>4. lines \in Indexes BY <2>2, <2>3, LinesType, NoneType
  <2>5. lines.dead = {} BY <2>3
  <2> HIDE DEF lines
  <2> QED BY <2>1, <2>2, <2>4, <2>5, ToolInv
<1>3. ASSUME NEW n \in server.mem.notes, MarkNote(n) PROVE IInv'
  <2> DEFINE K == {n} \ server.mem.marks
             lines == [Empty EXCEPT !.marks = K]
  <2>1. server # None /\ Tool(lines, {}) BY <1>3 DEF MarkNote
  <2>2. K \in SUBSET Notes BY <1>1, <2>1, IndexFields
  <2> HIDE DEF K
  <2>3. lines = [notes |-> {}, marks |-> K, dead |-> {}, edges |-> {}] BY LinesAre
  <2>4. lines \in Indexes BY <2>2, <2>3, LinesType, NoneType
  <2>5. lines.dead = {} BY <2>3
  <2>6. {} \in SUBSET Texts /\ IsFiniteSet({}) BY FS_EmptySet
  <2> HIDE DEF lines
  <2> QED BY <2>1, <2>4, <2>5, <2>6, ToolInv
<1>4. ASSUME NEW n \in server.mem.notes, ExtractEntities(n) PROVE IInv'
  <2> DEFINE lines == EntityLines(n, server.mem)
             texts == Mentions[n[1]]
  <2>1. server # None /\ Tool(lines, texts) BY <1>4 DEF ExtractEntities
  <2>2. n \in Notes /\ n[1] \in Texts BY <1>1, <2>1, IndexFields, NotesAre
  <2>3. lines \in Indexes /\ lines.dead = {} BY <1>1, <2>1, <2>2, EntityLinesAre
  <2>4. texts \in SUBSET Texts /\ IsFiniteSet(texts) BY <2>2, MaintenanceAssumption
  <2> HIDE DEF lines, texts
  <2> QED BY <2>1, <2>3, <2>4, ToolInv
<1>5. ASSUME NEW n \in server.mem.notes, NEW k \in server.mem.notes, Place(n, k) PROVE IInv'
  <2> DEFINE E == {<<n, k>>} \ server.mem.edges
             lines == [Empty EXCEPT !.edges = E]
  <2>1. server # None /\ Tool(lines, {}) BY <1>5 DEF Place
  <2>2. E \in SUBSET (Notes \X Notes)
    <3>1. n \in Notes /\ k \in Notes BY <1>1, <2>1, IndexFields
    <3> QED BY <3>1
  <2> HIDE DEF E
  <2>3. lines = [notes |-> {}, marks |-> {}, dead |-> {}, edges |-> E] BY LinesAre
  <2>4. lines \in Indexes BY <2>2, <2>3, LinesType, NoneType
  <2>5. lines.dead = {} BY <2>3
  <2>6. {} \in SUBSET Texts /\ IsFiniteSet({}) BY FS_EmptySet
  <2> HIDE DEF lines
  <2> QED BY <2>1, <2>4, <2>5, <2>6, ToolInv
<1> QED BY <1>2, <1>3, <1>4, <1>5, ServeInv, DisconnectInv DEF Agent

LEMMA RemoveFileInv == ASSUME IInv, NEW n \in vault, RemoveFile(n) PROVE IInv'
<1>1. /\ vault' = vault \ {n} /\ removed' = removed \cup {n}
      /\ UNCHANGED <<index, bak, regen, inbox, legacy, cmd, server, agent, last, before, unshown>>
  BY DEF RemoveFile
<1>2. Earned \subseteq Earned' /\ Accounted \subseteq Accounted' BY <1>1, Grown
<1>3. Due' = Due BY <1>1 DEF Due
<1>4. Types' BY <1>1 DEF IInv, Types
<1>5. AtText' BY <1>1 DEF IInv, AtText, NoteId, Text
<1>6. Dead' BY <1>1, <1>2 DEF IInv, Dead
<1>7. Shown' BY <1>1, <1>2, <1>3 DEF IInv, Shown
<1>8. Protected' BY <1>1, <1>3 DEF IInv, Protected
<1>9. Rebuilding' BY <1>1 DEF IInv, Rebuilding, Alone
<1>10. Found' BY <1>1 DEF IInv, Found, Alone
<1> QED BY <1>4, <1>5, <1>6, <1>7, <1>8, <1>9, <1>10 DEF IInv

-----------------------------------------------------------------------------
(* The invariant, and what it says *)

LEMMA StepInv == ASSUME IInv, Step PROVE IInv'
BY CaptureInv, UnavailableInv, CullInv, AddNoteInv, WriteFileInv, EntitiesInv, OrganizedInv,
   BackUpIndexInv, SwapInv, ReplayInv, CopyIndexInv, ImportIndexInv, ImportInboxInv, RelinkNotesInv,
   AttachResourceInv, TombstoneInv, RenderInv, ResetIndexInv
DEF Step

LEMMA StutterInv == ASSUME IInv, UNCHANGED vars PROVE IInv'
<1> USE DEF vars, disk, history
<1>1. Earned' = Earned /\ Accounted' = Accounted /\ Due' = Due BY DEF Earned, Accounted, Due
<1>2. Types' BY DEF IInv, Types
<1>3. AtText' BY DEF IInv, AtText, NoteId, Text
<1>4. Dead' BY <1>1 DEF IInv, Dead
<1>5. Shown' BY <1>1 DEF IInv, Shown
<1>6. Protected' BY <1>1 DEF IInv, Protected
<1>7. Rebuilding' BY DEF IInv, Rebuilding, Alone
<1>8. Found' BY DEF IInv, Found, Alone
<1> QED BY <1>2, <1>3, <1>4, <1>5, <1>6, <1>7, <1>8 DEF IInv

(* Whatever commands run, die and are started again, with an agent at work   *)
(* and a user removing files, the invariant holds.                           *)
THEOREM Invariance == Spec => []IInv
<1>1. IInv /\ [Next]_vars => IInv'
  <2> SUFFICES ASSUME IInv, [Next]_vars PROVE IInv' OBVIOUS
  <2>1. ASSUME Command PROVE IInv' BY <2>1, CommandsInv, ResetInv DEF Command
  <2> QED BY <2>1, StepInv, AgentInv, CrashInv, RemoveFileInv, StutterInv DEF Next
<1> QED BY <1>1, InitInv, PTL DEF Spec

(* No command takes for a deletion what is none: every tombstone in the index *)
(* and in its backup is of a note whose file the user removed, of one that    *)
(* was deleted where it comes from, or of one whose file was never written    *)
(* (_tombstone_user_deletions, over all that calls it).                       *)
THEOREM TombstonesAreEarned == Spec => []TombstonesEarned
<1>1. IInv => TombstonesEarned BY DEF IInv, Dead, Earned, TombstonesEarned
<1> QED BY <1>1, Invariance, PTL

(* regenerate leaves no original without a note, or without the duplicate     *)
(* that has one, and no note of another organizer, whatever was interrupted   *)
(* before (_run_regenerate).                                                  *)
THEOREM RebuildIsComplete == Spec => []RebuildComplete
<1>1. ASSUME IInv, Rebuilt PROVE cmd \in Commands /\ cmd.kind = "regenerate" /\ cmd.pc = "render"
  <2>1. {"regenerate"} \in SUBSET Kinds BY DEF Kinds
  <2> QED BY <1>1, <2>1, AtIs DEF IInv, Rebuilt
<1>2. IInv => RebuildComplete
  <2> SUFFICES ASSUME IInv, Rebuilt PROVE RebuildComplete!2 BY DEF RebuildComplete
  <2>1. index = cmd.mem /\ cmd.todo = <<>> /\ Rebuilding BY <1>1 DEF IInv, Rebuilding, Rebuilt
  <2>2. Range(cmd.todo) = {} BY <2>1, EmptyRange
  <2> QED BY <1>1, <2>1, <2>2 DEF Rebuilding
<1> QED BY <1>2, Invariance, PTL

(* regenerate --keep-history loses no status, edit, resource or deletion of a *)
(* note it makes again (_replay_history).                                     *)
THEOREM RebuildKeepsHistory == Spec => []HistoryKept
<1>1. ASSUME IInv, Rebuilt PROVE cmd \in Commands /\ cmd.kind = "regenerate" /\ cmd.pc = "render"
  <2>1. {"regenerate"} \in SUBSET Kinds BY DEF Kinds
  <2> QED BY <1>1, <2>1, AtIs DEF IInv, Rebuilt
<1>2. IInv => HistoryKept BY <1>1 DEF IInv, Rebuilding, Rebuilt, HistoryKept
<1> QED BY <1>2, Invariance, PTL

(* The index that import, relink or regenerate found can be had back, from    *)
(* its place or from index.jsonl.bak, wherever the command was killed.        *)
THEOREM MergesAreReversible == Spec => []Reversible
<1>1. IInv => Reversible BY DEF IInv, Found, Reversible
<1> QED BY <1>1, Invariance, PTL
=============================================================================
