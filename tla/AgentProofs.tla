---------------------------- MODULE AgentProofs ----------------------------
(***************************************************************************)
(* The two parts that act on what the user asks for: the chat, and below    *)
(* it the directive queue with its runner.                                  *)
(*                                                                          *)
(* For every vault, every filter, any number of threads and any history     *)
(* limit: what a turn names was in scope during the turn, and the dialogue  *)
(* is whole exchanges as long as no two turns overlap.                      *)
(*                                                                          *)
(* Three invariants, one on the other.  Base: where each thread is, and     *)
(* that a queued signal is the last word of a thread of its own.  Scoped:   *)
(* the scope of this moment is among those a turn answers for, so whatever  *)
(* it reads, at either of its two reads, it may name.  Exchanged: only the  *)
(* turn that remembers leaves a question open, and every number it may      *)
(* append is larger than those there are.                                   *)
(***************************************************************************)
EXTENDS Chat, Directives, SequenceTheorems, TLAPS

USE ChatAssumption

Steps  == {"refresh", "take", "retrieve", "rank", "recall", "plan", "model"}
Draft  == [of : Nat, sources : SUBSET Notes]
Signal == [from : Threads, kind : {"answered", "drafted", "applied", "failed"}, draft : Draft \cup {None}]
HistoryEntry == [role : {"user", "assistant"}, of : Nat, names : SUBSET Notes]

Types ==
    /\ filter \in Filters /\ scope \subseteq Notes
    /\ doing \in [Threads -> {"free", "ask", "plan", "improve", "apply"}]
    /\ at \in [Threads -> Steps \cup {"idle", "remember", "save", "emitted"}]
    /\ question \in [Threads -> Nat] /\ submits \in Nat
    /\ fetched \in [Threads -> SUBSET Notes] /\ hits \in [Threads -> SUBSET Notes]
    /\ told \in [Threads -> SUBSET Notes] /\ inForce \in [Threads -> SUBSET Notes]
    /\ card \in Draft \cup {None} /\ signals \in Seq(Signal)
    /\ history \in Seq(HistoryEntry) /\ discussed \subseteq Notes

\* A thread that takes the steps of a turn has one; one that has none holds nothing.
Staged ==
    \A t \in Threads :
        /\ doing[t] = "free" <=> at[t] = "idle"
        /\ doing[t] = "free" => hits[t] = {} /\ told[t] = {}
        /\ at[t] \in Steps \cup {"remember"} => t \in Turns
        /\ at[t] = "remember" => doing[t] = "ask"
        /\ at[t] = "save" => doing[t] = "apply"

\* Every signal is the last word of a thread of its own.
Reported ==
    /\ \A i \in 1..Len(signals) : at[signals[i].from] = "emitted"
    /\ \A i, j \in 1..Len(signals) : signals[i].from = signals[j].from => i = j

Base == Types /\ Staged /\ Reported

-----------------------------------------------------------------------------
(* Where the threads are *)

LEMMA InitBase == Init => Base
<1> SUFFICES ASSUME Init PROVE Base OBVIOUS
<1> USE DEF Init, NewSession
<1>1. Types
  <2>1. {} \subseteq Notes /\ signals \in Seq(Signal) /\ history \in Seq(HistoryEntry) OBVIOUS
  <2> QED BY <2>1 DEF Types
<1>2. Staged BY DEF Staged, Steps
<1>3. Reported BY DEF Reported
<1> QED BY <1>1, <1>2, <1>3 DEF Base

\* A thread that has not reported yet goes a step further, or reports.
LEMMA StepBase ==
    ASSUME Base, NEW t \in Threads, at[t] \in Steps \cup {"remember", "save"},
           NEW x \in Steps \cup {"remember", "emitted"}, x # "emitted" => at[t] \in Steps,
           x = "remember" => doing[t] = "ask",
           at' = [at EXCEPT ![t] = x],
           \/ x # "emitted" /\ UNCHANGED signals
           \/ x = "emitted" /\ \E s \in Signal : s.from = t /\ signals' = Append(signals, s),
           UNCHANGED <<filter, doing, question, submits, card>>, scope' \subseteq Notes,
           fetched' \in [Threads -> SUBSET Notes], hits' \in [Threads -> SUBSET Notes],
           told' \in [Threads -> SUBSET Notes], inForce' \in [Threads -> SUBSET Notes],
           \A u \in Threads \ {t} : hits'[u] = hits[u] /\ told'[u] = told[u],
           history' \in Seq(HistoryEntry), discussed' \subseteq Notes
    PROVE  Base'
<1>1. Turns' = Turns BY DEF Turns
<1>2. signals' \in Seq(Signal)
  <2>1. signals \in Seq(Signal) BY DEF Base, Types
  <2>2. \A s \in Signal : Append(signals, s) \in Seq(Signal) BY <2>1, AppendProperties
  <2> QED BY <2>1, <2>2
<1>3. Types' BY <1>2 DEF Base, Types, Steps
<1>4. at \in [Threads -> Steps \cup {"idle", "remember", "save", "emitted"}] BY DEF Base, Types
<1>5. at'[t] = x /\ \A u \in Threads \ {t} : at'[u] = at[u] BY <1>4
<1>6. Staged'
  <2>1. doing[t] # "free" /\ x # "idle" BY DEF Base, Staged, Steps
  <2>2. x \in Steps \cup {"remember"} => t \in Turns BY DEF Base, Staged, Steps
  <2>3. x # "save" /\ (x = "remember" => doing[t] = "ask") BY DEF Steps
  <2> HIDE DEF Steps
  <2> QED BY <1>1, <1>5, <2>1, <2>2, <2>3 DEF Base, Staged
<1>7. at[t] # "emitted" BY DEF Steps
<1>8. \A i \in 1..Len(signals) : signals[i].from \in Threads \ {t}
  <2>1. signals \in Seq(Signal) BY DEF Base, Types
  <2>2. \A i \in 1..Len(signals) : signals[i] \in Signal BY <2>1, ElementOfSeq
  <2> QED BY <1>7, <2>2 DEF Base, Reported, Signal
<1>9. Reported'
  <2>1. CASE UNCHANGED signals BY <1>5, <1>8, <2>1 DEF Base, Reported
  <2>2. CASE x = "emitted" /\ \E s \in Signal : s.from = t /\ signals' = Append(signals, s)
    <3>1. PICK s \in Signal : s.from = t /\ signals' = Append(signals, s) BY <2>2
    <3>2. signals \in Seq(Signal) /\ Len(signals) \in Nat BY LenProperties DEF Base, Types
    <3>3. /\ Len(signals') = Len(signals) + 1
          /\ \A i \in 1..Len(signals) : signals'[i] = signals[i]
          /\ signals'[Len(signals) + 1] = s
      BY <3>1, <3>2, AppendProperties
    <3>4. \A i \in 1..Len(signals') : i \in 1..Len(signals) \/ i = Len(signals) + 1
      BY <3>2, <3>3
    <3>5. \A i \in 1..Len(signals') : at'[signals'[i].from] = "emitted"
      BY <1>5, <1>8, <2>2, <3>1, <3>3, <3>4 DEF Base, Reported
    <3>6. \A i, j \in 1..Len(signals') : signals'[i].from = signals'[j].from => i = j
      BY <1>8, <3>1, <3>3, <3>4 DEF Base, Reported
    <3> QED BY <3>5, <3>6 DEF Reported
  <2> QED BY <2>1, <2>2
<1> QED BY <1>3, <1>6, <1>9 DEF Base

LEMMA EmitSignal ==
    ASSUME NEW t \in Threads, NEW kind \in {"answered", "drafted", "applied", "failed"},
           NEW d \in Draft \cup {None}, Emit(t, kind, d)
    PROVE  /\ at' = [at EXCEPT ![t] = "emitted"]
           /\ \E s \in Signal : s.from = t /\ signals' = Append(signals, s)
<1> DEFINE s == [from |-> t, kind |-> kind, draft |-> d]
<1>1. s \in Signal /\ s.from = t BY DEF Signal
<1> QED BY <1>1 DEF Emit, Go

\* What any step of a thread does, whatever else it does.
Ran(t) ==
    /\ at[t] \in Steps \cup {"remember", "save"}
    /\ \E x \in Steps \cup {"remember", "emitted"} :
          /\ x # "emitted" => at[t] \in Steps
          /\ at' = [at EXCEPT ![t] = x]
          /\ \/ x # "emitted" /\ UNCHANGED signals
             \/ x = "emitted" /\ \E s \in Signal : s.from = t /\ signals' = Append(signals, s)
          /\ x = "remember" => Answers(t)
    /\ UNCHANGED <<filter, doing, question, submits, card, overlapped>>
    /\ at[t] = "remember" => Remembers(t)
    /\ UNCHANGED history \/ Answers(t) \/ Remembers(t)

LEMMA RunRan == \A t \in Threads : Base /\ Run(t) => Ran(t)
<1> SUFFICES ASSUME NEW t \in Threads, Base, Run(t) PROVE Ran(t) OBVIOUS
<1> USE DEF turn, window, session, ghosts, Steps
<1>1. None \in Draft \cup {None} OBVIOUS
<1>2. CASE Refresh(t) BY <1>2 DEF Refresh, Go, Ran
<1>3. CASE Take(t) BY <1>3 DEF Take, SetScope, Go, Ran
<1>4. CASE Retrieve(t)
  <2>1. at[t] = "retrieve" /\ UNCHANGED <<filter, doing, question, submits, card, overlapped, history>>
    BY <1>4 DEF Retrieve
  <2>2. CASE \E kind \in {"drafted", "failed"} : Emit(t, kind, None)
    BY <1>1, <2>1, <2>2, EmitSignal DEF Ran
  <2>3. CASE \E x \in {"model", "recall", "rank"} : Go(t, x) /\ UNCHANGED signals
    BY <2>1, <2>3 DEF Ran, Go
  <2> QED BY <1>4, <2>2, <2>3 DEF Retrieve, Retrieved
<1>5. CASE Rank(t)
  <2>1. at[t] = "rank" /\ UNCHANGED <<filter, doing, question, submits, card, overlapped, history>>
    BY <1>5 DEF Rank
  <2>2. CASE \E kind \in {"drafted", "failed"} : Emit(t, kind, None)
    BY <1>1, <2>1, <2>2, EmitSignal DEF Ran
  <2>3. CASE \E x \in {"model", "recall", "rank"} : Go(t, x) /\ UNCHANGED signals
    BY <2>1, <2>3 DEF Ran, Go
  <2> QED BY <1>5, <2>2, <2>3 DEF Rank, Retrieved
<1>6. CASE Recall(t) \/ PlanBlock(t) BY <1>6 DEF Recall, PlanBlock, Go, Ran
<1>7. CASE NoModel(t)
  <2>1. at[t] = "model" /\ UNCHANGED <<filter, doing, question, submits, card, overlapped, history>>
    BY <1>7 DEF NoModel
  <2>2. \E kind \in {"answered", "drafted"} : Emit(t, kind, None) BY <1>7 DEF NoModel
  <2> QED BY <1>1, <2>1, <2>2, EmitSignal DEF Ran
<1>8. CASE DraftsPlan(t) \/ DraftsImprovement(t)
  <2>1. at[t] = "model" /\ \E sources \in SUBSET Notes : Drafts(t, sources)
    <3>1. Contained(t, Notes) \in SUBSET Notes /\ told[t] \in SUBSET Notes BY DEF Contained, Base, Types
    <3> QED BY <1>8, <3>1 DEF DraftsPlan, DraftsImprovement
  <2>2. PICK sources \in SUBSET Notes : Drafts(t, sources) BY <2>1
  <2>3. [of |-> question[t], sources |-> sources] \in Draft BY DEF Base, Types, Draft
  <2>4. Emit(t, "drafted", [of |-> question[t], sources |-> sources]) BY <2>2 DEF Drafts
  <2>5. UNCHANGED <<filter, doing, question, submits, card, overlapped, history>> BY <2>2 DEF Drafts
  <2> QED BY <2>1, <2>3, <2>4, <2>5, EmitSignal DEF Ran
<1>9. CASE Answers(t) BY <1>9 DEF Answers, Go, Ran
<1>10. CASE Remembers(t)
  <2>1. Emit(t, "answered", None) BY <1>10 DEF Remembers
  <2> QED BY <1>1, <1>10, <2>1, EmitSignal DEF Remembers, Ran
<1>11. CASE Save(t)
  <2>1. \E kind \in {"applied", "failed"} : Emit(t, kind, None) BY <1>11 DEF Save
  <2>2. at[t] = "save" /\ UNCHANGED <<filter, doing, question, submits, card, overlapped, history>>
    BY <1>11 DEF Save
  <2> QED BY <1>1, <2>1, <2>2, EmitSignal DEF Ran
<1> QED BY <1>2, <1>3, <1>4, <1>5, <1>6, <1>7, <1>8, <1>9, <1>10, <1>11 DEF Run

LEMMA RecalledType == Base => Recalled \subseteq Notes
<1> SUFFICES ASSUME Base PROVE Recalled \subseteq Notes OBVIOUS
<1>1. history \in Seq(HistoryEntry) BY DEF Base, Types
<1>2. \A i \in DOMAIN history : history[i].names \subseteq Notes
  <2>1. DOMAIN history = 1..Len(history) BY <1>1, LenProperties
  <2>2. \A i \in 1..Len(history) : history[i] \in HistoryEntry BY <1>1, ElementOfSeq
  <2> QED BY <2>1, <2>2 DEF HistoryEntry
<1> QED BY <1>2 DEF Recalled

\* What a step of a thread may do to what a turn reads and names.
LEMMA RunData ==
    ASSUME Base, NEW t \in Threads, Run(t)
    PROVE  /\ scope' \subseteq Notes
           /\ fetched' \in [Threads -> SUBSET Notes] /\ hits' \in [Threads -> SUBSET Notes]
           /\ told' \in [Threads -> SUBSET Notes] /\ inForce' \in [Threads -> SUBSET Notes]
           /\ discussed' \subseteq Notes
           /\ \A u \in Threads \ {t} : hits'[u] = hits[u] /\ told'[u] = told[u]
<1> USE DEF session, turn, window, ghosts, Base, Types
<1>1. CASE Refresh(t)
  BY <1>1 DEF Refresh
<1>2. CASE Take(t)
  <2>1. fetched[t] \subseteq Notes /\ Reach(fetched[t]) \subseteq Notes BY DEF Reach
  <2> QED BY <1>2, <2>1 DEF Take, SetScope
<1>3. CASE Retrieve(t) \/ Rank(t)
  <2>1. /\ UNCHANGED <<scope, fetched, inForce, discussed>>
        /\ \/ UNCHANGED <<hits, told>>
           \/ \E S \in SUBSET Notes : hits' = [hits EXCEPT ![t] = S] /\ told' = [told EXCEPT ![t] = S]
    BY <1>3 DEF Retrieve, Rank, Retrieved
  <2> QED BY <2>1
<1>4. CASE PlanBlock(t)
  <2>1. /\ UNCHANGED <<scope, fetched, inForce, hits, discussed>>
        /\ \/ UNCHANGED told
           \/ told' = [told EXCEPT ![t] = Notes]
    BY <1>4 DEF PlanBlock
  <2> QED BY <2>1
<1>5. CASE NoModel(t) \/ DraftsPlan(t) \/ DraftsImprovement(t) \/ Recall(t)
  <2>1. Contained(t, Notes) \in SUBSET Notes /\ told[t] \cup Recalled \in SUBSET Notes
    BY RecalledType DEF Contained
  <2>2. /\ UNCHANGED <<scope, fetched, inForce, hits, discussed>>
        /\ \E S \in SUBSET Notes : told' = [told EXCEPT ![t] = S]
    BY <1>5, <2>1 DEF NoModel, DraftsPlan, DraftsImprovement, Drafts, Recall
  <2> QED BY <2>2
<1>6. CASE Remembers(t)
  <2>1. /\ UNCHANGED <<scope, fetched, inForce, hits>> /\ discussed' = discussed \cup inForce[t]
        /\ told' = [told EXCEPT ![t] = Contained(t, Notes)]
    BY <1>6 DEF Remembers
  <2>2. Contained(t, Notes) \in SUBSET Notes BY DEF Contained
  <2> QED BY <2>1, <2>2
<1>7. CASE Answers(t) \/ Save(t)
  BY <1>7 DEF Answers, Save
<1> QED BY <1>1, <1>2, <1>3, <1>4, <1>5, <1>6, <1>7 DEF Run

\* The last n of a sequence.
LEMMA LastOfType ==
    ASSUME NEW S, NEW s \in Seq(S), NEW n \in Nat
    PROVE  /\ LastOf(n, s) \in Seq(S)
           /\ Len(LastOf(n, s)) = IF Len(s) > n THEN n ELSE Len(s)
           /\ \A i \in 1..Len(LastOf(n, s)) :
                  LastOf(n, s)[i] = s[i + (IF Len(s) > n THEN Len(s) - n ELSE 0)]
<1>1. Len(s) \in Nat BY LenProperties
<1>2. CASE Len(s) > n
  <2> DEFINE a == Len(s) - n + 1
             b == Len(s)
  <2>1. LastOf(n, s) = SubSeq(s, a, b) BY <1>2 DEF LastOf
  <2>2. a \in 1..(Len(s) + 1) /\ b \in (a - 1)..Len(s) BY <1>1, <1>2
  <2>3. /\ SubSeq(s, a, b) \in Seq(S)
        /\ Len(SubSeq(s, a, b)) = IF a <= b THEN b - a + 1 ELSE 0
        /\ \A i \in 1..(b - a + 1) : SubSeq(s, a, b)[i] = s[a + i - 1]
    BY <2>2, SubSeqProperties
  <2> QED BY <1>1, <1>2, <2>1, <2>3
<1>3. CASE ~(Len(s) > n)
  BY <1>1, <1>3 DEF LastOf
<1> QED BY <1>2, <1>3

LEMMA EntryType ==
    ASSUME Base, NEW t \in Threads
    PROVE  Entry("user", t, {}) \in HistoryEntry /\ Entry("assistant", t, told[t]) \in HistoryEntry
<1>1. question[t] \in Nat /\ told[t] \subseteq Notes BY DEF Base, Types
<1> QED BY <1>1 DEF Entry, HistoryEntry

LEMMA HistoryType ==
    ASSUME Base, NEW t \in Threads, Run(t)
    PROVE  history' \in Seq(HistoryEntry)
<1>1. history \in Seq(HistoryEntry) BY DEF Base, Types
<1>2. \A e \in HistoryEntry : Append(history, e) \in Seq(HistoryEntry) BY <1>1, AppendProperties
<1>3. CASE Answers(t) BY <1>2, <1>3, EntryType DEF Answers
<1>4. CASE Remembers(t)
  <2>1. 2 * MaxTurns \in Nat OBVIOUS
  <2>2. Entry("assistant", t, told[t]) \in HistoryEntry BY EntryType
  <2> QED BY <1>2, <1>4, <2>1, <2>2, LastOfType DEF Remembers, Trimmed
<1>5. CASE UNCHANGED history BY <1>1, <1>5
<1> QED BY <1>3, <1>4, <1>5, RunRan DEF Ran

LEMMA RunBase == \A t \in Threads : Base /\ Run(t) => Base'
<1> SUFFICES ASSUME NEW t \in Threads, Base, Run(t) PROVE Base' OBVIOUS
<1>1. Ran(t) BY RunRan
<1>2. PICK x \in Steps \cup {"remember", "emitted"} :
          /\ x # "emitted" => at[t] \in Steps
          /\ at' = [at EXCEPT ![t] = x]
          /\ \/ x # "emitted" /\ UNCHANGED signals
             \/ x = "emitted" /\ \E s \in Signal : s.from = t /\ signals' = Append(signals, s)
          /\ x = "remember" => doing[t] = "ask"
  BY <1>1 DEF Ran, Answers
<1>3. at[t] \in Steps \cup {"remember", "save"} /\ UNCHANGED <<filter, doing, question, submits, card>>
  BY <1>1 DEF Ran
<1> QED BY <1>2, <1>3, RunData, HistoryType, StepBase

\* The window's thread handles a signal: the thread that sent it is gone.
LEMMA DeliverBase == Base /\ Deliver => Base'
<1> SUFFICES ASSUME Base, Deliver PROVE Base' OBVIOUS
<1> DEFINE s == Head(signals)
           t == s.from
<1>1. /\ signals # <<>> /\ signals \in Seq(Signal) /\ signals' = Tail(signals)
      /\ card' = IF s.draft # None THEN s.draft ELSE card
      /\ doing' = [doing EXCEPT ![t] = "free"] /\ at' = [at EXCEPT ![t] = "idle"]
      /\ hits' = [hits EXCEPT ![t] = {}] /\ told' = [told EXCEPT ![t] = {}]
      /\ fetched' = [fetched EXCEPT ![t] = {}] /\ question' = [question EXCEPT ![t] = 0]
      /\ inForce' = [inForce EXCEPT ![t] = {}]
      /\ UNCHANGED <<filter, scope, history, submits, discussed>>
  BY DEF Deliver, Base, Types, session
<1>2. /\ s \in Signal /\ Len(signals) \in Nat \ {0} /\ s = signals[1]
      /\ signals' \in Seq(Signal) /\ Len(signals') = Len(signals) - 1
      /\ \A i \in 1..(Len(signals) - 1) : signals'[i] = signals[i + 1]
  BY <1>1, HeadTailProperties, LenProperties, EmptySeq
<1>3. t \in Threads /\ s.draft \in Draft \cup {None} BY <1>2 DEF Signal
<1>4. Types' BY <1>1, <1>2, <1>3 DEF Base, Types
<1>5. Staged'
  <2>1. doing'[t] = "free" /\ at'[t] = "idle" /\ hits'[t] = {} /\ told'[t] = {}
    BY <1>1, <1>3 DEF Base, Types
  <2>2. \A u \in Threads \ {t} : /\ doing'[u] = doing[u] /\ at'[u] = at[u]
                                 /\ hits'[u] = hits[u] /\ told'[u] = told[u]
    BY <1>1 DEF Base, Types
  <2>3. \A u \in Threads \ {t} : u \in Turns => u \in Turns' BY <2>2 DEF Turns
  <2> QED BY <2>1, <2>2, <2>3 DEF Base, Staged, Steps
<1>6. Reported'
  <2>1. \A i \in 1..Len(signals') :
            i + 1 \in 1..Len(signals) /\ i + 1 # 1 /\ 1 \in 1..Len(signals) /\ signals'[i] = signals[i + 1]
    BY <1>2
  <2>2. \A i \in 1..Len(signals') : signals'[i].from # t /\ signals'[i].from \in Threads
    <3>1. \A i \in 1..Len(signals) : signals[i] \in Signal BY <1>1, ElementOfSeq
    <3> QED BY <1>2, <2>1, <3>1 DEF Base, Reported, Signal
  <2>3. \A u \in Threads \ {t} : at'[u] = at[u] BY <1>1 DEF Base, Types
  <2>4. \A i \in 1..Len(signals') : at'[signals'[i].from] = "emitted"
    BY <2>1, <2>2, <2>3 DEF Base, Reported
  <2>5. \A i, j \in 1..Len(signals') : signals'[i].from = signals'[j].from => i + 1 = j + 1
    BY <2>1 DEF Base, Reported
  <2>6. \A i, j \in 1..Len(signals') : i + 1 = j + 1 => i = j BY <1>2
  <2> QED BY <2>4, <2>5, <2>6 DEF Reported
<1> QED BY <1>4, <1>5, <1>6 DEF Base

\* A thread starts, under a number no thread has.
LEMMA BeginBase ==
    ASSUME Base, NEW t \in Threads, NEW kind \in {"ask", "plan", "improve", "apply"},
           NEW first \in Steps \cup {"save"}, first \in Steps <=> kind # "apply",
           Begin(t, kind, first), UNCHANGED <<filter, scope, hits, fetched, signals, history, discussed>>,
           told' \in [Threads -> SUBSET Notes], \A u \in Threads \ {t} : told'[u] = told[u],
           card' \in Draft \cup {None}, submits' \in Nat, question' \in [Threads -> Nat],
           inForce' \in [Threads -> SUBSET Notes]
    PROVE  Base'
<1>1. /\ doing[t] = "free" /\ doing' = [doing EXCEPT ![t] = kind] /\ at' = [at EXCEPT ![t] = first]
      /\ at[t] = "idle"
  BY DEF Begin, Base, Staged
<1>2. Types' BY <1>1 DEF Base, Types
<1>3. /\ at'[t] = first /\ doing'[t] = kind
      /\ \A u \in Threads \ {t} : at'[u] = at[u] /\ doing'[u] = doing[u]
  BY <1>1 DEF Base, Types
<1>4. Staged'
  <2>1. first \in Steps => t \in Turns' BY <1>3 DEF Turns
  <2>2. \A u \in Threads \ {t} : u \in Turns => u \in Turns' BY <1>3 DEF Turns
  <2>3. kind # "free" /\ first \notin {"idle", "remember"} BY DEF Steps
  <2>6. first = "save" => kind = "apply" BY DEF Steps
  <2>4. \A u \in Threads \ {t} :
            /\ doing'[u] = "free" <=> at'[u] = "idle"
            /\ doing'[u] = "free" => hits'[u] = {} /\ told'[u] = {}
            /\ at'[u] \in Steps \cup {"remember"} => u \in Turns'
            /\ at'[u] = "remember" => doing'[u] = "ask"
            /\ at'[u] = "save" => doing'[u] = "apply"
    BY <1>3, <2>2 DEF Base, Staged
  <2>5. /\ doing'[t] = "free" <=> at'[t] = "idle"
        /\ doing'[t] = "free" => hits'[t] = {} /\ told'[t] = {}
        /\ at'[t] \in Steps \cup {"remember"} => t \in Turns'
        /\ at'[t] = "remember" => doing'[t] = "ask"
        /\ at'[t] = "save" => doing'[t] = "apply"
    BY <1>3, <2>1, <2>3, <2>6
  <2> QED BY <2>4, <2>5 DEF Staged
<1>5. Reported'
  <2>1. \A i \in 1..Len(signals) : signals[i] \in Signal BY ElementOfSeq DEF Base, Types
  <2>2. \A i \in 1..Len(signals) : signals[i].from \in Threads \ {t}
    BY <1>1, <2>1 DEF Base, Reported, Signal
  <2> QED BY <1>3, <2>2 DEF Base, Reported
<1> QED BY <1>2, <1>4, <1>5 DEF Base

LEMMA ReachType == \A ids \in SUBSET Notes : Reach(ids) \in SUBSET Notes
BY DEF Reach

LEMMA BeginsBase ==
    \A t \in Threads :
        Base /\ (Approve(t) \/ \E kind \in {"ask", "plan", "improve"} : Submit(t, kind)) => Base'
<1> USE DEF session, ghosts
<1>1. ASSUME NEW t \in Threads, Base, Approve(t) PROVE Base'
  <2>1. /\ Begin(t, "apply", "save") /\ card \in Draft /\ card' = None
        /\ question' = [question EXCEPT ![t] = card.of]
        /\ UNCHANGED <<filter, scope, hits, told, fetched, signals, history, submits, inForce, discussed>>
    BY <1>1 DEF Approve, Base, Types
  <2>2. question' \in [Threads -> Nat]
    <3>1. question \in [Threads -> Nat] BY <1>1 DEF Base, Types
    <3>2. card.of \in Nat BY <2>1 DEF Draft
    <3> QED BY <2>1, <3>1, <3>2
  <2>3. /\ submits' \in Nat /\ inForce' \in [Threads -> SUBSET Notes] /\ card' \in Draft \cup {None}
        /\ told' \in [Threads -> SUBSET Notes] /\ \A u \in Threads \ {t} : told'[u] = told[u]
    BY <1>1, <2>1 DEF Base, Types
  <2>4. "save" \notin Steps BY DEF Steps
  <2> QED BY <1>1, <2>1, <2>2, <2>3, <2>4, BeginBase
<1>2. ASSUME NEW t \in Threads, NEW kind \in {"ask", "plan", "improve"}, Base, Submit(t, kind) PROVE Base'
  <2>1. PICK first \in {"model", "refresh"} : Begin(t, kind, first) BY <1>2 DEF Submit
  <2>2. /\ question' = [question EXCEPT ![t] = submits + 1] /\ submits' = submits + 1
        /\ inForce' = [inForce EXCEPT ![t] = Reach(scope)]
        /\ UNCHANGED <<filter, scope, hits, fetched, signals, history, card, discussed>>
        /\ UNCHANGED told \/ \E n \in Notes : told' = [told EXCEPT ![t] = {n}]
    BY <1>2 DEF Submit
  <2>3. question' \in [Threads -> Nat] /\ submits' \in Nat /\ card' \in Draft \cup {None}
    BY <1>2, <2>2 DEF Base, Types
  <2>4. inForce' \in [Threads -> SUBSET Notes]
    <3>1. Reach(scope) \in SUBSET Notes BY <1>2, ReachType DEF Base, Types
    <3> QED BY <1>2, <2>2, <3>1 DEF Base, Types
  <2>5. /\ first \in Steps \cup {"save"} /\ kind \in {"ask", "plan", "improve", "apply"}
        /\ first \in Steps <=> kind # "apply"
    BY DEF Steps
  <2>6. UNCHANGED <<filter, scope, hits, fetched, signals, history, discussed>> BY <2>2
  <2>7. told' \in [Threads -> SUBSET Notes] /\ \A u \in Threads \ {t} : told'[u] = told[u]
    BY <1>2, <2>2 DEF Base, Types
  <2> HIDE DEF Steps
  <2> QED BY <1>2, <2>1, <2>3, <2>4, <2>5, <2>6, <2>7, BeginBase
<1> QED BY <1>1, <1>2

\* What the user does beside starting a thread.
Idly ==
    /\ filter' \in Filters /\ (UNCHANGED <<scope, inForce>> \/ \E ids \in SUBSET Notes : SetScope(ids))
    /\ card' \in {card, None}
    /\ UNCHANGED <<turn, signals, history, submits, discussed, overlapped>>

LEMMA UserIdly ==
    Base /\ (EditFilter \/ Pin \/ Follow \/ Unfollow \/ ClearScope \/ ScopeLine \/ QuitLine
             \/ DiscardLine \/ Discard) => Idly
<1> SUFFICES ASSUME Base PROVE (EditFilter \/ Pin \/ Follow \/ Unfollow \/ ClearScope \/ ScopeLine
                                \/ QuitLine \/ DiscardLine \/ Discard) => Idly
  OBVIOUS
<1> USE DEF session, window, ghosts
<1>0. filter \in Filters /\ filter \in SUBSET Notes /\ {} \in SUBSET Notes BY DEF Base, Types
<1>1. Pin \/ Follow \/ ClearScope \/ ScopeLine => Idly
  BY <1>0 DEF Pin, Follow, ClearScope, ScopeLine, Idly
<1>2. EditFilter \/ Unfollow \/ QuitLine \/ DiscardLine \/ Discard => Idly
  BY <1>0 DEF EditFilter, Unfollow, QuitLine, DiscardLine, Discard, Idly
<1> QED BY <1>1, <1>2

LEMMA IdlyBase == Base /\ Idly => Base'
<1> SUFFICES ASSUME Base, Idly PROVE Base' OBVIOUS
<1> USE DEF turn, Idly
<1>1. Turns' = Turns BY DEF Turns
<1>2. scope' \subseteq Notes /\ inForce' \in [Threads -> SUBSET Notes]
  <2>1. scope \subseteq Notes /\ inForce \in [Threads -> SUBSET Notes] BY DEF Base, Types
  <2>2. CASE \E ids \in SUBSET Notes : SetScope(ids)
    <3>1. PICK ids \in SUBSET Notes : SetScope(ids) BY <2>2
    <3>2. Reach(ids) \in SUBSET Notes BY ReachType
    <3> QED BY <2>1, <3>1, <3>2 DEF SetScope
  <2> QED BY <2>1, <2>2
<1>3. Types' BY <1>2 DEF Base, Types
<1>4. Staged' BY <1>1 DEF Base, Staged
<1>5. Reported' BY DEF Base, Reported
<1> QED BY <1>3, <1>4, <1>5 DEF Base

\* The steps there are.
LEMMA Cases ==
    ASSUME Base, [Next]_vars
    PROVE  \/ Idly \/ Deliver
           \/ \E t \in Threads : \/ Run(t) \/ Approve(t)
                                 \/ \E kind \in {"ask", "plan", "improve"} : Submit(t, kind)
<1>1. CASE UNCHANGED vars BY <1>1 DEF vars, Idly, turn, session, window, ghosts, Base, Types
<1>2. CASE Next BY <1>2, UserIdly DEF Next, User
<1> QED BY <1>1, <1>2

LEMMA NextBase == Base /\ [Next]_vars => Base'
BY Cases, IdlyBase, DeliverBase, RunBase, BeginsBase

(* Whatever the user does and however turns end, the parts of a session stay  *)
(* together: what runs has a turn, and a turn a scope that was in force.      *)
THEOREM Invariance == Spec => []Base
BY InitBase, NextBase, PTL DEF Spec

-----------------------------------------------------------------------------
(* The scope *)

\* What a turn may name beside: from the recall to the answer, the dialogue.
Carried(t) == IF at[t] \in {"plan", "model", "remember"} THEN discussed ELSE {}

Scoped ==
    /\ \A t \in Turns :
          /\ Reach(scope) \subseteq inForce[t]
          /\ doing[t] # "improve" => /\ hits[t] \subseteq inForce[t]
                                     /\ told[t] \subseteq inForce[t] \cup Carried(t)
    /\ Recalled \subseteq discussed

\* Trimming adds nothing to the dialogue.
LEMMA TrimmedEntries ==
    ASSUME NEW h \in Seq(HistoryEntry)
    PROVE  \A i \in 1..Len(Trimmed(h)) : \E j \in 1..Len(h) : Trimmed(h)[i] = h[j]
<1> DEFINE n == 2 * MaxTurns
           d == IF Len(h) > n THEN Len(h) - n ELSE 0
           g == Trimmed(h)
<1>1. n \in Nat /\ Len(h) \in Nat BY LenProperties
<1>2. /\ Len(g) = IF Len(h) > n THEN n ELSE Len(h)
      /\ \A i \in 1..Len(g) : g[i] = h[i + d]
  BY <1>1, LastOfType DEF Trimmed
<1> HIDE DEF n, g
<1>3. \A i \in 1..Len(g) : i + d \in 1..Len(h) BY <1>1, <1>2
<1>4. \A i \in 1..Len(g) : \E j \in 1..Len(h) : g[i] = h[j] BY <1>2, <1>3
<1> QED BY <1>4 DEF g

\* The dialogue names what was discussed: an answer, what its turn's prompt named.
LEMMA RunRecalled == \A t \in Threads : Base /\ Scoped /\ Run(t) => Recalled' \subseteq discussed'
<1> SUFFICES ASSUME NEW t \in Threads, Base, Scoped, Run(t) PROVE Recalled' \subseteq discussed' OBVIOUS
<1> USE DEF ghosts
<1>1. history \in Seq(HistoryEntry) /\ Len(history) \in Nat BY LenProperties DEF Base, Types
<1>2. \A i \in 1..Len(history) : history[i].names \subseteq discussed
  BY <1>1, LenProperties DEF Scoped, Recalled
<1>3. ASSUME NEW e \in HistoryEntry, e.names \subseteq discussed',
             discussed \subseteq discussed',
             NEW h \in Seq(HistoryEntry), h = Append(history, e), history' \in {h, Trimmed(h)}
      PROVE  Recalled' \subseteq discussed'
  <2>1. /\ Len(h) = Len(history) + 1 /\ h[Len(history) + 1] = e
        /\ \A i \in 1..Len(history) : h[i] = history[i]
    BY <1>1, <1>3, AppendProperties
  <2>2. \A i \in 1..Len(h) : h[i].names \subseteq discussed'
    <3>1. \A i \in 1..Len(h) : i \in 1..Len(history) \/ i = Len(history) + 1 BY <1>1, <2>1
    <3> QED BY <1>2, <1>3, <2>1, <3>1
  <2>3. \A i \in 1..Len(history') : history'[i].names \subseteq discussed'
    <3>1. CASE history' = h BY <2>2, <3>1
    <3>2. CASE history' = Trimmed(h)
      <4>1. \A i \in 1..Len(Trimmed(h)) : \E j \in 1..Len(h) : Trimmed(h)[i] = h[j] BY TrimmedEntries
      <4>2. \A i \in 1..Len(history') : \E j \in 1..Len(h) : history'[i] = h[j] BY <3>2, <4>1
      <4> QED BY <2>2, <4>2
    <3> QED BY <1>3, <3>1, <3>2
  <2>4. DOMAIN history' = 1..Len(history')
    <3>1. history' \in Seq(HistoryEntry) BY HistoryType
    <3> QED BY <3>1, LenProperties
  <2> QED BY <2>3, <2>4 DEF Recalled
<1>4. CASE Answers(t)
  <2> DEFINE e == Entry("user", t, {})
  <2>1. history' = Append(history, e) /\ discussed' = discussed BY <1>4 DEF Answers
  <2>2. e \in HistoryEntry /\ e.names = {} BY EntryType DEF Entry
  <2> HIDE DEF e
  <2>3. Append(history, e) \in Seq(HistoryEntry) BY <1>1, <2>2, AppendProperties
  <2> QED BY <1>3, <2>1, <2>2, <2>3
<1>5. CASE Remembers(t)
  <2> DEFINE e == Entry("assistant", t, told[t])
  <2>1. /\ at[t] = "remember" /\ discussed' = discussed \cup inForce[t]
        /\ history' = Trimmed(Append(history, e))
    BY <1>5 DEF Remembers
  <2>2. e \in HistoryEntry /\ e.names = told[t] BY EntryType DEF Entry
  <2> HIDE DEF e
  <2>3. Append(history, e) \in Seq(HistoryEntry) BY <1>1, <2>2, AppendProperties
  <2>4. t \in Turns /\ doing[t] # "improve" BY <2>1 DEF Base, Staged
  <2>5. told[t] \subseteq discussed' BY <2>1, <2>4 DEF Scoped, Carried
  <2> QED BY <1>3, <2>1, <2>2, <2>3, <2>5
<1>6. CASE UNCHANGED <<history, discussed>>
  BY <1>6 DEF Scoped, Recalled
<1>7. Answers(t) \/ Remembers(t) \/ UNCHANGED <<history, discussed>>
  <2> USE DEF Run
  <2>1. Refresh(t) \/ Take(t) \/ Retrieve(t) \/ Rank(t) \/ Recall(t) \/ PlanBlock(t)
            => UNCHANGED <<history, discussed>>
    BY DEF Refresh, Take, Retrieve, Rank, Recall, PlanBlock
  <2>2. NoModel(t) \/ DraftsPlan(t) \/ DraftsImprovement(t) \/ Save(t) => UNCHANGED <<history, discussed>>
    BY DEF NoModel, DraftsPlan, DraftsImprovement, Drafts, Save
  <2> QED BY <2>1, <2>2
<1> QED BY <1>4, <1>5, <1>6, <1>7

LEMMA RunScoped == \A t \in Threads : Base /\ Scoped /\ Run(t) => Scoped'
<1> SUFFICES ASSUME NEW t \in Threads, Base, Scoped, Run(t) PROVE Scoped' OBVIOUS
<1> USE DEF session, turn, window, ghosts
<1>1. Turns' = Turns /\ doing' = doing /\ \A u \in Threads \ {t} : at'[u] = at[u]
  <2>1. Ran(t) BY RunRan
  <2>2. doing' = doing /\ \E x \in Steps \cup {"remember", "emitted"} : at' = [at EXCEPT ![t] = x]
    BY <2>1 DEF Ran
  <2> QED BY <2>2 DEF Turns, Base, Types
<1>2. /\ hits \in [Threads -> SUBSET Notes] /\ told \in [Threads -> SUBSET Notes]
      /\ at \in [Threads -> Steps \cup {"idle", "remember", "save", "emitted"}]
      /\ \A u \in Threads : inForce[u] \subseteq Notes
  BY DEF Base, Types
<1>3. Recalled' \subseteq discussed' BY RunRecalled
\* The other turns lose nothing they may name.
<1>4. ASSUME discussed \subseteq discussed',
             \A u \in Turns : inForce[u] \cup Reach(scope') \subseteq inForce'[u],
             \A u \in Threads \ {t} : hits'[u] = hits[u] /\ told'[u] = told[u],
             t \in Turns /\ doing[t] # "improve" =>
                 hits'[t] \subseteq inForce'[t] /\ told'[t] \subseteq inForce'[t] \cup Carried(t)'
      PROVE  Scoped'
  <2>1. ASSUME NEW u \in Turns, u # t, doing[u] # "improve"
        PROVE  hits'[u] \subseteq inForce'[u] /\ told'[u] \subseteq inForce'[u] \cup Carried(u)'
    <3>1. u \in Threads /\ at'[u] = at[u] BY <1>1, <2>1 DEF Turns
    <3>2. hits'[u] = hits[u] /\ told'[u] = told[u] BY <1>4, <2>1, <3>1
    <3>3. Carried(u) \subseteq Carried(u)' BY <1>4, <3>1 DEF Carried
    <3>4. inForce[u] \subseteq inForce'[u] BY <1>4
    <3>5. hits[u] \subseteq inForce[u] /\ told[u] \subseteq inForce[u] \cup Carried(u) BY <2>1 DEF Scoped
    <3> QED BY <3>2, <3>3, <3>4, <3>5
  <2>2. \A u \in Turns : Reach(scope') \subseteq inForce'[u] BY <1>4
  <2>3. Reach(scope)' = Reach(scope') BY DEF Reach
  <2> QED BY <1>1, <1>3, <1>4, <2>1, <2>2, <2>3 DEF Scoped
<1>5. \A u \in Turns : Reach(scope) \subseteq inForce[u] BY DEF Scoped
<1>6. t \in Turns /\ doing[t] # "improve" =>
          hits[t] \subseteq inForce[t] /\ told[t] \subseteq inForce[t] \cup Carried(t)
  BY DEF Scoped
<1>7. CASE Take(t)
  <2>1. /\ scope' = fetched[t] /\ UNCHANGED <<hits, told, discussed>> /\ at[t] = "take"
        /\ \A u \in Turns : inForce'[u] = inForce[u] \cup Reach(fetched[t])
    BY <1>7 DEF Take, SetScope, Turns, Go
  <2>2. Carried(t) = {} BY <2>1 DEF Carried
  <2> QED BY <1>4, <1>6, <2>1, <2>2
\* A step that leaves the scope alone.
<1>8. ASSUME UNCHANGED <<scope, inForce>>, discussed \subseteq discussed',
             \A u \in Threads \ {t} : hits'[u] = hits[u] /\ told'[u] = told[u],
             t \in Turns /\ doing[t] # "improve" =>
                 hits'[t] \subseteq inForce[t] /\ told'[t] \subseteq inForce[t] \cup Carried(t)'
      PROVE  Scoped'
  BY <1>4, <1>5, <1>8
<1>9. CASE Refresh(t)
  <2>1. UNCHANGED <<scope, inForce, hits, told, discussed>> /\ at[t] = "refresh"
    BY <1>9 DEF Refresh
  <2>2. Carried(t) = {} BY <2>1 DEF Carried
  <2> QED BY <1>6, <1>8, <2>1, <2>2
<1>10. CASE Retrieve(t) \/ Rank(t)
  <2>1. CASE UNCHANGED <<hits, told>>
    <3>1. UNCHANGED <<scope, inForce, discussed>> /\ at[t] \in {"retrieve", "rank"}
      BY <1>10 DEF Retrieve, Rank
    <3>2. Carried(t) = {} BY <3>1 DEF Carried
    <3> QED BY <1>6, <1>8, <2>1, <3>1, <3>2
  <2>2. CASE \E S \in {Reach(scope), {}} : hits' = [hits EXCEPT ![t] = S] /\ told' = [told EXCEPT ![t] = S]
    <3>1. UNCHANGED <<scope, inForce, discussed>> BY <1>10 DEF Retrieve, Rank
    <3> QED BY <1>2, <1>5, <1>8, <2>2, <3>1
  <2>3. CASE Retrieve(t) BY <2>1, <2>2, <2>3 DEF Retrieve, Retrieved, Reach
  <2>4. CASE Rank(t) BY <2>1, <2>2, <2>4 DEF Rank, Retrieved, Reach
  <2> QED BY <1>10, <2>3, <2>4
<1>11. CASE Recall(t)
  <2>1. /\ UNCHANGED <<scope, inForce, hits, discussed>> /\ told' = [told EXCEPT ![t] = @ \cup Recalled]
        /\ at[t] = "recall" /\ at'[t] = "plan"
    BY <1>2, <1>11 DEF Recall, Go
  <2>2. Carried(t) = {} /\ Carried(t)' = discussed BY <2>1 DEF Carried
  <2>3. Recalled \subseteq discussed BY DEF Scoped
  <2>4. told'[t] = told[t] \cup Recalled /\ \A u \in Threads \ {t} : told'[u] = told[u] BY <1>2, <2>1
  <2> QED BY <1>6, <1>8, <2>1, <2>2, <2>3, <2>4
<1>12. CASE PlanBlock(t)
  <2>1. /\ UNCHANGED <<scope, inForce, hits, discussed>> /\ at[t] = "plan" /\ at'[t] = "model"
        /\ \/ UNCHANGED told
           \/ told' = [told EXCEPT ![t] = Reach(scope)]
    BY <1>2, <1>12 DEF PlanBlock, PlanAllowed, Reach, Go
  <2>2. Carried(t)' = Carried(t) BY <2>1 DEF Carried
  <2>3. /\ told'[t] \in {told[t], Reach(scope)} /\ \A u \in Threads \ {t} : told'[u] = told[u]
    BY <1>2, <2>1
  <2> QED BY <1>5, <1>6, <1>8, <2>1, <2>2, <2>3
<1>13. CASE NoModel(t) \/ DraftsPlan(t) \/ Remembers(t)
  <2>1. /\ UNCHANGED <<scope, inForce, hits>> /\ discussed \subseteq discussed'
        /\ \E S \in SUBSET hits[t] : told' = [told EXCEPT ![t] = S]
    <3>1. /\ hits[t] \in SUBSET hits[t] /\ Contained(t, Notes) \in SUBSET hits[t]
      BY DEF Contained
    <3> QED BY <1>13, <3>1 DEF NoModel, DraftsPlan, Drafts, Remembers
  <2>2. told'[t] \subseteq hits[t] /\ \A u \in Threads \ {t} : told'[u] = told[u] BY <1>2, <2>1
  <2> QED BY <1>6, <1>8, <2>1, <2>2
<1>14. CASE DraftsImprovement(t)
  <2>1. /\ UNCHANGED <<scope, inForce, hits, discussed>> /\ doing[t] = "improve"
        /\ told' = [told EXCEPT ![t] = told[t]]
    BY <1>14 DEF DraftsImprovement, Drafts
  <2> QED BY <1>2, <1>8, <2>1
<1>15. CASE Answers(t)
  <2>1. UNCHANGED <<scope, inForce, hits, told, discussed>> /\ at[t] = "model" /\ at'[t] = "remember"
    BY <1>2, <1>15 DEF Answers, Go
  <2>2. Carried(t)' = Carried(t) BY <2>1 DEF Carried
  <2> QED BY <1>6, <1>8, <2>1, <2>2
<1>16. CASE Save(t)
  <2>1. UNCHANGED <<scope, inForce, hits, told, discussed>> /\ at[t] = "save" BY <1>16 DEF Save
  <2>2. t \notin Turns BY <2>1 DEF Base, Staged, Turns
  <2> QED BY <1>8, <2>1, <2>2
<1> QED BY <1>7, <1>9, <1>10, <1>11, <1>12, <1>13, <1>14, <1>15, <1>16 DEF Run

LEMMA NextScoped == Base /\ Scoped /\ [Next]_vars => Scoped'
<1> SUFFICES ASSUME Base, Scoped, [Next]_vars PROVE Scoped' OBVIOUS
<1> USE DEF session, turn, window, ghosts
<1>1. CASE Idly
  <2>1. Turns' = Turns /\ UNCHANGED <<doing, at, hits, told, history, discussed>> BY <1>1 DEF Idly, Turns
  <2>2. Recalled' = Recalled BY <2>1 DEF Recalled
  <2>3. CASE UNCHANGED <<scope, inForce>> BY <2>1, <2>2, <2>3 DEF Scoped, Reach, Carried
  <2>4. CASE \E ids \in SUBSET Notes : SetScope(ids)
    <3>1. PICK ids \in SUBSET Notes : SetScope(ids) BY <2>4
    <3>2. scope' = ids /\ \A u \in Turns : inForce'[u] = inForce[u] \cup Reach(ids)
      BY <3>1 DEF SetScope, Turns
    <3> QED BY <2>1, <2>2, <3>2 DEF Scoped, Reach, Carried
  <2> QED BY <1>1, <2>3, <2>4 DEF Idly
<1>2. CASE Deliver
  <2> DEFINE t == Head(signals).from
  <2>1. /\ doing' = [doing EXCEPT ![t] = "free"] /\ at' = [at EXCEPT ![t] = "idle"]
        /\ hits' = [hits EXCEPT ![t] = {}] /\ told' = [told EXCEPT ![t] = {}]
        /\ inForce' = [inForce EXCEPT ![t] = {}] /\ UNCHANGED <<scope, history, discussed>>
    BY <1>2 DEF Deliver
  <2> HIDE DEF t
  <2>2. \A u \in Turns' : u \in Turns /\ u # t BY <2>1 DEF Turns, Base, Types
  <2>3. \A u \in Turns' : /\ hits'[u] = hits[u] /\ told'[u] = told[u] /\ inForce'[u] = inForce[u]
                          /\ doing'[u] = doing[u] /\ at'[u] = at[u]
    BY <2>1, <2>2 DEF Turns, Base, Types
  <2>4. Recalled' = Recalled BY <2>1 DEF Recalled
  <2> QED BY <2>1, <2>2, <2>3, <2>4 DEF Scoped, Reach, Carried
<1>3. CASE \E t \in Threads : Approve(t)
  <2>1. PICK t \in Threads : Approve(t) BY <1>3
  <2>2. /\ doing' = [doing EXCEPT ![t] = "apply"] /\ at' = [at EXCEPT ![t] = "save"]
        /\ UNCHANGED <<scope, hits, told, inForce, history, discussed>>
    BY <2>1 DEF Approve, Begin
  <2>3. \A u \in Turns' : u \in Turns /\ doing'[u] = doing[u] /\ u # t BY <2>2 DEF Turns, Base, Types
  <2>4. \A u \in Turns' : at'[u] = at[u] BY <2>2, <2>3 DEF Turns, Base, Types
  <2>5. Recalled' = Recalled BY <2>2 DEF Recalled
  <2> QED BY <2>2, <2>3, <2>4, <2>5 DEF Scoped, Reach, Carried
<1>4. CASE \E t \in Threads, kind \in {"ask", "plan", "improve"} : Submit(t, kind)
  <2>1. PICK t \in Threads, kind \in {"ask", "plan", "improve"} : Submit(t, kind) BY <1>4
  <2>2. /\ doing' = [doing EXCEPT ![t] = kind] /\ inForce' = [inForce EXCEPT ![t] = Reach(scope)]
        /\ doing[t] = "free" /\ UNCHANGED <<scope, hits, history, discussed>>
        /\ \E first \in Steps : at' = [at EXCEPT ![t] = first]
        /\ kind # "improve" => UNCHANGED told
        /\ UNCHANGED told \/ \E n \in Notes : told' = [told EXCEPT ![t] = {n}]
    BY <2>1 DEF Submit, Begin, Steps
  <2>3. Turns' = Turns \cup {t} /\ t \notin Turns /\ doing'[t] = kind BY <2>2 DEF Turns, Base, Types
  <2>4. hits[t] = {} /\ told[t] = {} BY <2>2 DEF Base, Staged
  <2>5. kind # "improve" => told'[t] = {} BY <2>2, <2>4 DEF Base, Types
  <2>6. \A u \in Turns : /\ inForce'[u] = inForce[u] /\ doing'[u] = doing[u]
                         /\ at'[u] = at[u] /\ told'[u] = told[u]
    BY <2>2, <2>3 DEF Turns, Base, Types
  <2>7. Recalled' = Recalled /\ Reach(scope)' = Reach(scope) BY <2>2 DEF Recalled, Reach
  <2>8. inForce'[t] = Reach(scope) BY <2>2 DEF Base, Types
  <2>9. \A u \in Turns : Carried(u)' = Carried(u) BY <2>2, <2>6 DEF Carried
  <2> QED BY <2>2, <2>3, <2>4, <2>5, <2>6, <2>7, <2>8, <2>9 DEF Scoped
<1> QED BY <1>1, <1>2, <1>3, <1>4, Cases, RunScoped

(* Whatever the user does to the scope while a question or a plan runs, what  *)
(* it retrieves, cites and drafts was in scope at some moment of it, and its  *)
(* prompt adds only notes of earlier turns of the dialogue it carries.        *)
THEOREM ScopeKept == Spec => []GroundedInScope
<1>1. Init => Scoped
  <2> SUFFICES ASSUME Init PROVE Scoped OBVIOUS
  <2>1. Turns = {} /\ history = <<>> BY DEF Init, NewSession, Turns
  <2>2. Recalled = {} BY <2>1 DEF Recalled
  <2> QED BY <2>1, <2>2 DEF Scoped
<1>2. Base /\ Scoped => GroundedInScope BY DEF Scoped, GroundedInScope, Carried
<1> QED BY <1>1, <1>2, NextScoped, Invariance, PTL DEF Spec

-----------------------------------------------------------------------------
(* The dialogue *)

\* Whole exchanges, as DialoguePaired wants them, perhaps with an open question.
Exchanges(h) ==
    \A i \in 1..Len(h) :
        /\ h[i].role = (IF i % 2 = 1 THEN "user" ELSE "assistant")
        /\ i > 1 => IF i % 2 = 0 THEN h[i].of = h[i - 1].of ELSE h[i].of > h[i - 1].of

\* Only the turn that remembers has a question in the dialogue without its answer.
Open == \E t \in Threads : at[t] = "remember"

Numbered ==
    /\ \A i \in 1..Len(history) : history[i].of <= submits
    /\ \A t \in Turns : question[t] <= submits

Alone  == \A t, u \in Turns : t = u
Halves == Len(history) % 2 = IF Open THEN 1 ELSE 0
Asked  == \A t \in Threads : at[t] = "remember" => history[Len(history)].of = question[t]
Later  == \A t \in Threads :
              at[t] \in Steps => \A i \in 1..Len(history) : history[i].of < question[t]

Dialogue == ~overlapped => Alone /\ Halves /\ Asked /\ Later /\ Exchanges(history)
Exchanged == Numbered /\ Dialogue

LEMMA Parity ==
    /\ \A n \in Nat : n % 2 \in {0, 1} /\ (n + 1) % 2 = 1 - (n % 2)
    /\ \A m, n \in Nat : m % 2 = 0 => (n + m) % 2 = n % 2
    /\ \A m, n \in Nat : m > n /\ m % 2 = n % 2 => m - n \in Nat /\ (m - n) % 2 = 0
OBVIOUS

LEMMA QuestionAppended ==
    ASSUME NEW h \in Seq(HistoryEntry), NEW e \in HistoryEntry, Exchanges(h), Len(h) % 2 = 0,
           e.role = "user", \A i \in 1..Len(h) : h[i].of < e.of
    PROVE  Exchanges(Append(h, e))
<1> DEFINE g == Append(h, e)
<1>1. /\ Len(h) \in Nat /\ Len(g) = Len(h) + 1 /\ g[Len(h) + 1] = e
      /\ \A i \in 1..Len(h) : g[i] = h[i]
  BY AppendProperties, LenProperties
<1> HIDE DEF g
<1>2. \A i \in 1..Len(h) : h[i].of \in Nat
  <2>1. \A i \in 1..Len(h) : h[i] \in HistoryEntry BY ElementOfSeq
  <2> QED BY <2>1 DEF HistoryEntry
<1>3. (Len(h) + 1) % 2 = 1 BY <1>1, Parity
<1>4. ASSUME NEW i \in 1..Len(g)
      PROVE  /\ g[i].role = (IF i % 2 = 1 THEN "user" ELSE "assistant")
             /\ i > 1 => IF i % 2 = 0 THEN g[i].of = g[i - 1].of ELSE g[i].of > g[i - 1].of
  <2>1. CASE i \in 1..Len(h)
    <3>1. i > 1 => i - 1 \in 1..Len(h) BY <1>1, <2>1
    <3> QED BY <1>1, <2>1, <3>1 DEF Exchanges
  <2>2. CASE i = Len(h) + 1
    <3>1. g[i].role = "user" /\ g[i].of = e.of BY <1>1, <2>2
    <3>2. i > 1 => i - 1 \in 1..Len(h) BY <1>1, <2>2
    <3>3. i > 1 => g[i - 1].of < e.of /\ g[i - 1].of \in Nat BY <1>1, <1>2, <3>2
    <3> QED BY <1>3, <2>2, <3>1, <3>3
  <2> QED BY <1>1, <2>1, <2>2
<1> QED BY <1>4 DEF Exchanges, g

LEMMA AnswerAppended ==
    ASSUME NEW h \in Seq(HistoryEntry), NEW e \in HistoryEntry, Exchanges(h), Len(h) % 2 = 1,
           e.role = "assistant", h[Len(h)].of = e.of
    PROVE  Exchanges(Append(h, e))
<1> DEFINE g == Append(h, e)
<1>1. /\ Len(h) \in Nat /\ Len(g) = Len(h) + 1 /\ g[Len(h) + 1] = e
      /\ \A i \in 1..Len(h) : g[i] = h[i]
  BY AppendProperties, LenProperties
<1> HIDE DEF g
<1>2. Len(h) > 0 /\ (Len(h) + 1) % 2 = 0 BY <1>1, Parity
<1>3. ASSUME NEW i \in 1..Len(g)
      PROVE  /\ g[i].role = (IF i % 2 = 1 THEN "user" ELSE "assistant")
             /\ i > 1 => IF i % 2 = 0 THEN g[i].of = g[i - 1].of ELSE g[i].of > g[i - 1].of
  <2>1. CASE i \in 1..Len(h)
    <3>1. i > 1 => i - 1 \in 1..Len(h) BY <1>1, <2>1
    <3> QED BY <1>1, <2>1, <3>1 DEF Exchanges
  <2>2. CASE i = Len(h) + 1
    <3>1. g[i].role = "assistant" /\ g[i].of = e.of BY <1>1, <2>2
    <3>2. i - 1 = Len(h) /\ g[i - 1].of = e.of BY <1>1, <1>2, <2>2
    <3> QED BY <1>2, <2>2, <3>1, <3>2
  <2> QED BY <1>1, <2>1, <2>2
<1> QED BY <1>3 DEF Exchanges, g

\* Dropping from the front an even number of entries keeps the exchanges whole.
LEMMA TrimmedWhole ==
    ASSUME NEW h \in Seq(HistoryEntry), Exchanges(h), Len(h) % 2 = 0
    PROVE  Exchanges(Trimmed(h)) /\ Len(Trimmed(h)) % 2 = 0
<1> DEFINE n == 2 * MaxTurns
           d == IF Len(h) > n THEN Len(h) - n ELSE 0
           g == Trimmed(h)
<1>1. Len(h) \in Nat /\ n \in Nat /\ n % 2 = 0
  BY LenProperties
<1>2. d \in Nat /\ d % 2 = 0
  <2>1. CASE Len(h) > n
    <3>1. Len(h) - n \in Nat /\ (Len(h) - n) % 2 = 0 BY <1>1, <2>1, Parity
    <3> QED BY <2>1, <3>1
  <2>2. CASE ~(Len(h) > n)
    <3>1. d = 0 BY <2>2
    <3>2. 0 \in Nat /\ 0 % 2 = 0 OBVIOUS
    <3> HIDE DEF d
    <3> QED BY <3>1, <3>2
  <2> QED BY <2>1, <2>2
<1>3. /\ Len(g) = IF Len(h) > n THEN n ELSE Len(h)
      /\ \A i \in 1..Len(g) : g[i] = h[i + d]
  BY <1>1, LastOfType DEF Trimmed
<1> HIDE DEF g, d
<1>4. Len(g) \in Nat /\ Len(g) % 2 = 0 /\ \A i \in 1..Len(g) : i + d \in 1..Len(h)
  <2> HIDE DEF n
  <2>1. CASE Len(h) > n
    <3>1. Len(g) = n /\ d = Len(h) - n BY <1>3, <2>1 DEF d
    <3>2. \A i \in 1..n : i + (Len(h) - n) \in 1..Len(h) BY <1>1, <2>1
    <3> QED BY <1>1, <3>1, <3>2
  <2>2. CASE ~(Len(h) > n)
    <3>1. Len(g) = Len(h) /\ d = 0 BY <1>3, <2>2 DEF d
    <3>2. \A i \in 1..Len(h) : i + 0 \in 1..Len(h) BY <1>1
    <3> QED BY <1>1, <3>1, <3>2
  <2> QED BY <2>1, <2>2
<1>5. ASSUME NEW i \in 1..Len(g)
      PROVE  /\ g[i].role = (IF i % 2 = 1 THEN "user" ELSE "assistant")
             /\ i > 1 => IF i % 2 = 0 THEN g[i].of = g[i - 1].of ELSE g[i].of > g[i - 1].of
  <2>1. i \in Nat /\ (i + d) % 2 = i % 2 BY <1>2, <1>4, Parity
  <2>2. g[i] = h[i + d] /\ i + d \in 1..Len(h) BY <1>3, <1>4
  <2>3. i > 1 => g[i - 1] = h[(i + d) - 1] /\ i + d > 1
    <3>1. i > 1 => i - 1 \in 1..Len(g) /\ (i - 1) + d = (i + d) - 1 BY <1>2, <1>4, <2>1
    <3>2. i > 1 => g[i - 1] = h[(i - 1) + d] BY <1>3, <3>1
    <3>3. i > 1 => i + d > 1 BY <1>2, <2>1
    <3> QED BY <3>1, <3>2, <3>3
  <2> QED BY <2>1, <2>2, <2>3 DEF Exchanges
<1> QED BY <1>4, <1>5 DEF Exchanges, g

\* As long as no entry, no number and no thread at a question is touched, nothing changes.
LEMMA SameDialogue ==
    ASSUME Base, Exchanged, Turns' \subseteq Turns, UNCHANGED <<history, submits, overlapped>>,
           \A t \in Turns' : question'[t] = question[t],
           Open' = Open,
           \A t \in Threads : at'[t] \in Steps => at[t] \in Steps /\ t \in Turns',
           \A t \in Threads : at'[t] = "remember" => at[t] = "remember" /\ t \in Turns'
    PROVE  Exchanged'
BY DEF Exchanged, Numbered, Dialogue, Alone, Halves, Asked, Later

LEMMA DeliverExchanged == Base /\ Exchanged /\ Deliver => Exchanged'
<1> SUFFICES ASSUME Base, Exchanged, Deliver PROVE Exchanged' OBVIOUS
<1> DEFINE t == Head(signals).from
<1>1. /\ signals # <<>> /\ signals \in Seq(Signal)
      /\ doing' = [doing EXCEPT ![t] = "free"] /\ at' = [at EXCEPT ![t] = "idle"]
      /\ question' = [question EXCEPT ![t] = 0] /\ UNCHANGED <<history, submits, overlapped>>
  BY DEF Deliver, Base, Types
<1>2. t \in Threads /\ at[t] = "emitted"
  <2>1. Head(signals) = signals[1] /\ Head(signals) \in Signal /\ 1 \in 1..Len(signals)
    BY <1>1, HeadTailProperties, LenProperties, EmptySeq
  <2> QED BY <2>1 DEF Base, Reported, Signal
<1> HIDE DEF t
<1>3. /\ at'[t] = "idle" /\ doing'[t] = "free"
      /\ \A u \in Threads \ {t} : at'[u] = at[u] /\ doing'[u] = doing[u] /\ question'[u] = question[u]
  BY <1>1, <1>2 DEF Base, Types
<1>4. Turns' = Turns \ {t} BY <1>3 DEF Turns
<1>5. Open' = Open BY <1>2, <1>3 DEF Open
<1>6. \A u \in Threads : at'[u] \in Steps \cup {"remember"} => at[u] = at'[u] /\ u \in Turns'
  BY <1>3, <1>4 DEF Base, Staged, Steps
<1> QED BY <1>1, <1>3, <1>4, <1>5, <1>6, SameDialogue

LEMMA ApproveExchanged == \A t \in Threads : Base /\ Exchanged /\ Approve(t) => Exchanged'
<1> SUFFICES ASSUME NEW t \in Threads, Base, Exchanged, Approve(t) PROVE Exchanged' OBVIOUS
<1>1. /\ doing[t] = "free" /\ doing' = [doing EXCEPT ![t] = "apply"] /\ at' = [at EXCEPT ![t] = "save"]
      /\ question' = [question EXCEPT ![t] = card.of] /\ UNCHANGED <<history, submits, overlapped>>
  BY DEF Approve, Begin, ghosts
<1>2. at[t] = "idle" BY <1>1 DEF Base, Staged
<1>3. /\ at'[t] = "save" /\ doing'[t] = "apply"
      /\ \A u \in Threads \ {t} : at'[u] = at[u] /\ doing'[u] = doing[u] /\ question'[u] = question[u]
  BY <1>1 DEF Base, Types
<1>4. Turns' = Turns /\ t \notin Turns BY <1>1, <1>3 DEF Turns
<1>5. Open' = Open BY <1>2, <1>3 DEF Open
<1>6. \A u \in Threads : at'[u] \in Steps \cup {"remember"} => at[u] = at'[u] /\ u \in Turns'
  BY <1>3, <1>4 DEF Base, Staged, Steps
<1> QED BY <1>1, <1>3, <1>4, <1>5, <1>6, SameDialogue

\* A question sent while no turn runs is numbered above all there are.
LEMMA SubmitExchanged ==
    \A t \in Threads, kind \in {"ask", "plan", "improve"} : Base /\ Exchanged /\ Submit(t, kind) => Exchanged'
<1> SUFFICES ASSUME NEW t \in Threads, NEW kind \in {"ask", "plan", "improve"},
                    Base, Exchanged, Submit(t, kind)
             PROVE  Exchanged'
  OBVIOUS
<1>1. /\ doing[t] = "free" /\ doing' = [doing EXCEPT ![t] = kind]
      /\ \E first \in Steps : at' = [at EXCEPT ![t] = first]
      /\ question' = [question EXCEPT ![t] = submits + 1] /\ submits' = submits + 1 /\ history' = history
  BY DEF Submit, Begin, Steps
<1>2. submits \in Nat /\ history \in Seq(HistoryEntry) /\ question \in [Threads -> Nat] BY DEF Base, Types
<1>3. /\ at'[t] \in Steps /\ doing'[t] = kind /\ question'[t] = submits + 1
      /\ \A u \in Threads \ {t} : at'[u] = at[u] /\ doing'[u] = doing[u] /\ question'[u] = question[u]
  BY <1>1 DEF Base, Types
<1>4. Turns' = Turns \cup {t} /\ t \notin Turns BY <1>1, <1>3 DEF Turns
<1>5. \A i \in 1..Len(history) : history[i].of \in Nat /\ history[i].of <= submits
  <2>1. \A i \in 1..Len(history) : history[i] \in HistoryEntry BY <1>2, ElementOfSeq
  <2> QED BY <2>1 DEF HistoryEntry, Exchanged, Numbered
<1>6. \A u \in Turns : question[u] \in Nat /\ question[u] <= submits
  BY <1>2 DEF Turns, Exchanged, Numbered
<1>7. Numbered'
  <2>1. \A i \in 1..Len(history) : history[i].of <= submits + 1 BY <1>2, <1>5
  <2>2. \A u \in Turns' : question'[u] <= submits + 1
    <3>1. \A u \in Turns : u \in Threads \ {t} BY <1>4 DEF Turns
    <3>2. \A u \in Turns : question'[u] <= submits + 1
      <4>1. \A q \in Nat : q <= submits => q <= submits + 1 BY <1>2
      <4>2. \A u \in Turns : question'[u] = question[u] BY <1>3, <3>1
      <4> QED BY <1>6, <4>1, <4>2
    <3>3. question'[t] <= submits + 1 BY <1>2, <1>3
    <3> QED BY <1>4, <3>2, <3>3
  <2> QED BY <1>1, <2>1, <2>2 DEF Numbered
<1>8. ASSUME ~overlapped' PROVE Dialogue'
  <2>1. ~overlapped /\ Turns = {} BY <1>8 DEF Submit
  <2>2. \A u \in Threads : at[u] \notin Steps \cup {"remember"} BY <2>1 DEF Base, Staged
  <2>3. Open' = Open BY <1>3, <2>2 DEF Open, Steps
  <2>4. Alone' BY <1>4, <2>1 DEF Alone
  <2>5. Asked' BY <1>3, <2>2 DEF Asked, Steps
  <2>6. Later'
    <3>1. \A u \in Threads : at'[u] \in Steps => u = t BY <1>3, <2>2
    <3>2. \A i \in 1..Len(history) : history[i].of < submits + 1 BY <1>2, <1>5
    <3> QED BY <1>1, <1>3, <3>1, <3>2 DEF Later
  <2> QED BY <1>1, <2>1, <2>3, <2>4, <2>5, <2>6 DEF Exchanged, Dialogue, Halves
<1> QED BY <1>7, <1>8 DEF Exchanged, Dialogue

LEMMA RunExchanged == \A t \in Threads : Base /\ Exchanged /\ Run(t) => Exchanged'
<1> SUFFICES ASSUME NEW t \in Threads, Base, Exchanged, Run(t) PROVE Exchanged' OBVIOUS
<1>1. Ran(t) BY RunRan
<1>2. PICK x \in Steps \cup {"remember", "emitted"} :
          /\ x # "emitted" => at[t] \in Steps
          /\ at' = [at EXCEPT ![t] = x]
          /\ x = "remember" => Answers(t)
  BY <1>1 DEF Ran
<1>3. /\ at[t] \in Steps \cup {"remember", "save"}
      /\ UNCHANGED <<doing, question, submits, overlapped>>
      /\ UNCHANGED history \/ Answers(t) \/ Remembers(t)
      /\ at[t] = "remember" => Remembers(t)
  BY <1>1 DEF Ran
<1>4. at'[t] = x /\ \A u \in Threads \ {t} : at'[u] = at[u] BY <1>2 DEF Base, Types
<1>5. Turns' = Turns BY <1>3 DEF Turns
<1>6. \A u \in Threads : at[u] \in Steps \cup {"remember"} => u \in Turns BY DEF Base, Staged
<1>7. history \in Seq(HistoryEntry) /\ question[t] \in Nat /\ Len(history) \in Nat
  BY LenProperties DEF Base, Types
<1>8. CASE ~Answers(t) /\ ~Remembers(t)
  <2>1. x # "remember" /\ at[t] # "remember" /\ UNCHANGED history BY <1>2, <1>3, <1>8
  <2>2. Open' = Open BY <1>4, <2>1 DEF Open
  <2>3. \A u \in Threads : at'[u] \in Steps => at[u] \in Steps /\ u \in Turns'
    BY <1>2, <1>4, <1>5, <1>6 DEF Steps
  <2>4. \A u \in Threads : at'[u] = "remember" => at[u] = "remember" /\ u \in Turns'
    BY <1>4, <1>5, <1>6, <2>1
  <2> QED BY <1>3, <1>5, <2>1, <2>2, <2>3, <2>4, SameDialogue
<1>9. CASE Answers(t)
  <2> DEFINE e == Entry("user", t, {})
  <2>1. at[t] = "model" /\ x = "remember" /\ history' = Append(history, e)
    <3>1. at[t] = "model" /\ at' = [at EXCEPT ![t] = "remember"] /\ history' = Append(history, e)
      BY <1>9 DEF Answers, Go
    <3> QED BY <1>4, <3>1 DEF Base, Types
  <2>2. e \in HistoryEntry /\ e.role = "user" /\ e.of = question[t] BY EntryType DEF Entry
  <2> HIDE DEF e
  <2>3. /\ Len(history') = Len(history) + 1 /\ history'[Len(history) + 1] = e
        /\ \A i \in 1..Len(history) : history'[i] = history[i]
    BY <1>7, <2>1, <2>2, AppendProperties
  <2>4. \A i \in 1..Len(history') : i \in 1..Len(history) \/ i = Len(history) + 1 BY <1>7, <2>3
  <2>5. t \in Turns BY <1>6, <2>1 DEF Steps
  <2>6. Numbered' BY <1>3, <1>5, <2>2, <2>3, <2>4, <2>5 DEF Exchanged, Numbered
  <2>7. ASSUME ~overlapped PROVE Dialogue'
    <3>1. Alone /\ Halves /\ Later /\ Exchanges(history) BY <2>7 DEF Exchanged, Dialogue
    <3>2. \A u \in Threads \ {t} : at[u] \notin Steps \cup {"remember"} BY <1>6, <2>5, <3>1 DEF Alone
    <3>3. ~Open /\ Open' BY <1>4, <2>1, <3>2 DEF Open
    <3>4. Len(history) % 2 = 0 BY <3>1, <3>3 DEF Halves
    <3>5. Halves' BY <1>7, <2>3, <3>3, <3>4, Parity DEF Halves
    <3>6. Asked' BY <1>3, <1>4, <2>2, <2>3, <3>2 DEF Asked
    <3>7. Later' BY <1>4, <2>1, <3>2 DEF Later, Steps
    <3>8. Exchanges(history')
      <4>1. \A i \in 1..Len(history) : history[i].of < question[t] BY <2>1, <3>1 DEF Later, Steps
      <4> QED BY <1>7, <2>1, <2>2, <3>1, <3>4, <4>1, QuestionAppended
    <3>9. Alone' BY <1>5, <3>1 DEF Alone
    <3> QED BY <3>5, <3>6, <3>7, <3>8, <3>9 DEF Dialogue
  <2> QED BY <1>3, <2>6, <2>7 DEF Exchanged, Dialogue
<1>10. CASE Remembers(t)
  <2> DEFINE e == Entry("assistant", t, told[t])
             g == Append(history, e)
  <2>1. at[t] = "remember" /\ x = "emitted" /\ history' = Trimmed(g)
    <3>1. at[t] = "remember" /\ at' = [at EXCEPT ![t] = "emitted"] /\ history' = Trimmed(g)
      BY <1>10 DEF Remembers, Emit, Go
    <3> QED BY <1>4, <3>1 DEF Base, Types
  <2>2. e \in HistoryEntry /\ e.role = "assistant" /\ e.of = question[t] BY EntryType DEF Entry
  <2> HIDE DEF e
  <2>3. /\ g \in Seq(HistoryEntry) /\ Len(g) = Len(history) + 1 /\ g[Len(history) + 1] = e
        /\ \A i \in 1..Len(history) : g[i] = history[i]
    BY <1>7, <2>2, AppendProperties
  <2> HIDE DEF g
  <2>4. \A i \in 1..Len(g) : i \in 1..Len(history) \/ i = Len(history) + 1 BY <1>7, <2>3
  <2>5. t \in Turns BY <1>6, <2>1
  <2>6. \A i \in 1..Len(g) : g[i].of <= submits
    BY <2>2, <2>3, <2>4, <2>5 DEF Exchanged, Numbered
  <2>7. \A i \in 1..Len(history') : \E j \in 1..Len(g) : history'[i] = g[j]
    BY <2>1, <2>3, TrimmedEntries
  <2>8. Numbered' BY <1>3, <1>5, <2>6, <2>7 DEF Exchanged, Numbered
  <2>9. ASSUME ~overlapped PROVE Dialogue'
    <3>1. Alone /\ Halves /\ Asked /\ Exchanges(history) BY <2>9 DEF Exchanged, Dialogue
    <3>2. \A u \in Threads \ {t} : at[u] \notin Steps \cup {"remember"} BY <1>6, <2>5, <3>1 DEF Alone
    <3>3. Open /\ ~Open' BY <1>4, <2>1, <3>2 DEF Open
    <3>4. Len(history) % 2 = 1 /\ history[Len(history)].of = question[t]
      BY <2>1, <3>1, <3>3 DEF Halves, Asked
    <3>5. Exchanges(g) BY <1>7, <2>2, <3>1, <3>4, AnswerAppended DEF g
    <3>6. Len(g) % 2 = 0 BY <1>7, <2>3, <3>4, Parity
    <3>7. Exchanges(history') /\ Len(history') % 2 = 0 BY <2>1, <2>3, <3>5, <3>6, TrimmedWhole
    <3>8. Halves' BY <3>3, <3>7 DEF Halves
    <3>9. Asked' /\ Later' BY <1>4, <2>1, <3>2 DEF Asked, Later, Steps
    <3>10. Alone' BY <1>5, <3>1 DEF Alone
    <3> QED BY <3>7, <3>8, <3>9, <3>10 DEF Dialogue
  <2> QED BY <1>3, <2>8, <2>9 DEF Exchanged, Dialogue
<1> QED BY <1>8, <1>9, <1>10

LEMMA NextExchanged == Base /\ Exchanged /\ [Next]_vars => Exchanged'
<1> SUFFICES ASSUME Base, Exchanged, [Next]_vars PROVE Exchanged' OBVIOUS
<1>1. CASE Idly
  <2>1. UNCHANGED <<doing, at, question, history, submits, overlapped>> BY <1>1 DEF Idly, turn
  <2>2. Turns' = Turns /\ Open' = Open BY <2>1 DEF Turns, Open
  <2>3. \A u \in Threads : at[u] \in Steps \cup {"remember"} => u \in Turns BY DEF Base, Staged
  <2> QED BY <2>1, <2>2, <2>3, SameDialogue
<1> QED
  BY <1>1, Cases, DeliverExchanged, ApproveExchanged, SubmitExchanged, RunExchanged

(* As long as no two turns ran at once, the dialogue is whole exchanges, each *)
(* question with its own answer, in the order they were had, however often it *)
(* was trimmed.                                                               *)
THEOREM DialogueWhole == Spec => []DialoguePaired
<1>1. Init => Exchanged
  <2> SUFFICES ASSUME Init PROVE Exchanged OBVIOUS
  <2>1. Len(history) = 0 /\ Turns = {} /\ \A t \in Threads : at[t] = "idle"
    BY DEF Init, NewSession, Turns
  <2>2. 1..Len(history) = {} /\ Len(history) % 2 = 0 BY <2>1
  <2>3. ~Open /\ \A t \in Threads : at[t] \notin Steps BY <2>1 DEF Open, Steps
  <2> QED
    BY <2>1, <2>2, <2>3 DEF Exchanged, Numbered, Dialogue, Alone, Halves, Asked, Later, Exchanges
<1>2. Base /\ Exchanged => DialoguePaired
  <2> SUFFICES ASSUME Base, Exchanged PROVE DialoguePaired OBVIOUS
  <2>1. DOMAIN history = 1..Len(history) BY LenProperties DEF Base, Types
  <2> QED BY <2>1 DEF Exchanged, Dialogue, Exchanges, DialoguePaired
<1> QED BY <1>1, <1>2, NextExchanged, Invariance, PTL DEF Spec

-----------------------------------------------------------------------------
(***************************************************************************)
(* For any directives, any wordings and any number of faults, kills and     *)
(* processes that append to the file: what the runner marked done has been  *)
(* captured, and a directive has one note and one done record.              *)
(*                                                                          *)
(* The runner works from what it replayed when it started.  The invariant   *)
(* says how far that may lag behind the file: by the agents' completions    *)
(* and by nothing else, because a done record is the runner's own or an     *)
(* agent's, and a runner that is up has added its own to its memory.        *)
(***************************************************************************)


USE DirectivesAssumption

Working == pc \in {"organize", "write", "link", "mark"}

QueueTypes ==
    /\ log \in Seq(Line) /\ index \subseteq Note /\ note \in Note \cup {Nothing}
    /\ pc \in {"off", "pass", "next", "organize", "write", "link", "mark"}
    /\ onDisk \subseteq index /\ linked \subseteq index

Noted(d) == \E n \in index : Content[n.of] = Content[d]

\* What the runner has in hand while it fulfils a directive.
InHand ==
    /\ Working => Head(todo) \in Fulfillable \cap inbox
    /\ pc \in {"write", "link"} => note \in index
    /\ pc \in {"write", "link", "mark"} => Noted(Head(todo))

\* How far the runner's memory may lag behind the file.
Replayed ==
    /\ agents \subseteq Completed
    /\ pc # "off" => ByRunner \subseteq done /\ done \subseteq Completed

IInv == QueueTypes /\ InHand /\ Replayed /\ DoneIsCaptured /\ NoTwins /\ DoneOnce

-----------------------------------------------------------------------------
(* The file grows *)

LEMMA LogGrows ==
    ASSUME log \in Seq(Line), NEW l \in Line, log' = Append(log, l)
    PROVE  /\ log' \in Seq(Line) /\ DOMAIN log' = DOMAIN log \cup {Len(log) + 1}
           /\ Len(log) + 1 \notin DOMAIN log
           /\ \A k \in DOMAIN log : log'[k] = log[k]
           /\ log'[Len(log) + 1] = l
           /\ Completed' = IF l.kind = "done" THEN Completed \cup {l.id} ELSE Completed
<1>1. /\ log' \in Seq(Line) /\ Len(log') = Len(log) + 1 /\ Len(log) \in Nat
      /\ \A k \in 1..Len(log) : log'[k] = log[k]
      /\ log'[Len(log) + 1] = l
  BY AppendProperties, LenProperties
<1>2. DOMAIN log = 1..Len(log) /\ DOMAIN log' = 1..(Len(log) + 1)
  BY <1>1, LenProperties
<1>3. DOMAIN log' = DOMAIN log \cup {Len(log) + 1} /\ Len(log) + 1 \notin DOMAIN log
  BY <1>1, <1>2
<1>4. \A k \in DOMAIN log : log'[k] = log[k] BY <1>1, <1>2
<1>5. ASSUME l.kind = "done" PROVE Completed' = Completed \cup {l.id}
  BY <1>1, <1>3, <1>4, <1>5 DEF Completed
<1>6. ASSUME l.kind # "done" PROVE Completed' = Completed
  BY <1>1, <1>3, <1>4, <1>6 DEF Completed
<1> QED BY <1>1, <1>3, <1>4, <1>5, <1>6

\* A line that is new, or an agent's, keeps the records single.
LEMMA StaysSingle ==
    ASSUME log \in Seq(Line), NEW l \in Line, log' = Append(log, l), DoneOnce,
           agents \subseteq agents', l.id \in agents' \/ \A k \in DOMAIN log : log[k] # l
    PROVE  DoneOnce'
<1>1. ASSUME NEW j \in DOMAIN log', NEW k \in DOMAIN log', log'[j] = log'[k], log'[j].id \notin agents'
      PROVE  j = k
  BY <1>1, LogGrows DEF DoneOnce
<1> QED BY <1>1 DEF DoneOnce

LEMMA InitIInv == DirectivesInit => IInv
<1> SUFFICES ASSUME DirectivesInit PROVE IInv OBVIOUS
<1>1. log \in Seq(Line) /\ DOMAIN log = {} BY DEF DirectivesInit
<1>2. Completed = {} BY <1>1 DEF Completed
<1>3. QueueTypes BY <1>1 DEF DirectivesInit, QueueTypes
<1>4. InHand /\ Replayed BY <1>2 DEF DirectivesInit, InHand, Working, Replayed, ByRunner
<1>5. DoneIsCaptured /\ NoTwins /\ DoneOnce
  BY <1>1, <1>2 DEF DirectivesInit, DoneIsCaptured, ByRunner, NoTwins, DoneOnce
<1> QED BY <1>3, <1>4, <1>5 DEF IInv

-----------------------------------------------------------------------------
(* Other processes append to the file *)

LEMMA QueuedIInv ==
    ASSUME IInv, NEW d \in Requests \ Sent,
           log' = Append(log, [kind |-> "directive", id |-> d]),
           UNCHANGED <<queue, pc, todo, count, note, world, agents>>
    PROVE  IInv'
<1> DEFINE l == [kind |-> "directive", id |-> d]
<1> USE DEF queue, world
<1>1. log \in Seq(Line) /\ l \in Line BY DEF IInv, QueueTypes, Line
<1>2. log' \in Seq(Line) /\ Completed' = Completed BY <1>1, LogGrows
<1>3. \A k \in DOMAIN log : log[k] # l BY DEF Sent
<1>4. DoneOnce' BY <1>1, <1>3, StaysSingle DEF IInv
<1> QED
  BY <1>2, <1>4 DEF IInv, QueueTypes, InHand, Working, Noted, Replayed, ByRunner, DoneIsCaptured, NoTwins

LEMMA OutsideIInv ==
    IInv /\ (Watcher \/ WriteFile \/ Watch \/ \E d \in Requests : Send(d) \/ Complete(d)) => IInv'
<1> SUFFICES ASSUME IInv, Watcher \/ WriteFile \/ Watch \/ \E d \in Requests : Send(d) \/ Complete(d)
             PROVE  IInv'
  OBVIOUS
<1>1. CASE ScanEmpty \/ WriteFile \/ Watch
  BY <1>1 DEF ScanEmpty, WriteFile, Watch, queue, world, IInv, QueueTypes, InHand, Working, Noted, Replayed,
     ByRunner, Completed, DoneIsCaptured, NoTwins, DoneOnce
<1>2. CASE (\E d \in Folder : Scan(d)) \/ (\E d \in Requests : Send(d))
  <2>1. PICK d \in Requests \ Sent : /\ log' = Append(log, [kind |-> "directive", id |-> d])
                                     /\ UNCHANGED <<queue, pc, todo, count, note, world, agents>>
    BY <1>2 DEF Scan, Send
  <2> QED BY <2>1, QueuedIInv
<1>3. CASE \E d \in Requests : Complete(d)
  <2> USE DEF queue, world
  <2>1. PICK d \in Requests : Complete(d) BY <1>3
  <2> DEFINE l == [kind |-> "done", id |-> d]
  <2>2. /\ log \in Seq(Line) /\ l \in Line /\ log' = Append(log, l) /\ agents' = agents \cup {d}
        /\ UNCHANGED <<queue, pc, todo, count, note, world>>
    BY <2>1 DEF IInv, QueueTypes, Line, Complete
  <2>3. log' \in Seq(Line) /\ Completed' = Completed \cup {d} BY <2>2, LogGrows
  <2>4. DoneOnce' BY <2>2, StaysSingle DEF IInv
  <2>5. ByRunner' \subseteq ByRunner BY <2>2, <2>3 DEF ByRunner
  <2> QED
    BY <2>2, <2>3, <2>4, <2>5 DEF IInv, QueueTypes, InHand, Working, Noted, Replayed, DoneIsCaptured, NoTwins
<1> QED BY <1>1, <1>2, <1>3 DEF Watcher

-----------------------------------------------------------------------------
(* The runner *)

\* Between two directives the runner has nothing in hand.
LEMMA RestsIInv ==
    ASSUME IInv, pc' \in {"off", "pass", "next"},
           pc' # "off" => pc # "off" /\ done' = done,
           UNCHANGED <<log, inbox, index, linked, agents>>,
           onDisk' \subseteq index, UNCHANGED note
    PROVE  IInv'
BY DEF IInv, QueueTypes, InHand, Working, Noted, Replayed, ByRunner, Completed, DoneIsCaptured, NoTwins, DoneOnce

\* Replaying the file is what brings the runner's memory up to it.
LEMMA LoadIInv == IInv /\ Load => IInv'
<1> SUFFICES ASSUME IInv, Load PROVE IInv' OBVIOUS
<1>1. /\ pc' = "pass" /\ done' = Completed
      /\ UNCHANGED <<log, note, inbox, index, onDisk, linked, agents>>
  BY DEF Load, world
<1>2. Completed' = Completed BY <1>1 DEF Completed
<1>3. Replayed' BY <1>1, <1>2 DEF IInv, Replayed, ByRunner
<1> QED
  BY <1>1, <1>2, <1>3 DEF IInv, QueueTypes, InHand, Working, ByRunner, DoneIsCaptured, NoTwins, DoneOnce

LEMMA CaptureIInv == IInv /\ Capture => IInv'
BY DEF Capture, queue, world, IInv, QueueTypes, InHand, Working, Noted, Replayed, ByRunner, Completed,
   DoneIsCaptured, NoTwins, DoneOnce

\* A note is added only when no other has its content and its wording.
LEMMA OrganizeIInv == \A take \in Takes : IInv /\ Organize(take) => IInv'
<1> SUFFICES ASSUME NEW take \in Takes, IInv, Organize(take) PROVE IInv' OBVIOUS
<1> DEFINE n == [of |-> Head(todo), take |-> take]
<1> USE DEF queue, world
<1>1. /\ pc = "organize" /\ Head(todo) \in Fulfillable \cap inbox /\ n \in Note
      /\ UNCHANGED <<log, folder, queue, todo, count, inbox, onDisk, linked, agents, bounds>>
  BY DEF Organize, IInv, InHand, Working, Note
<1>2. CASE Duplicate(n)
  <2>1. pc' = "mark" /\ UNCHANGED <<note, index>> BY <1>2 DEF Organize
  <2>2. Noted(Head(todo)) BY <1>2 DEF Duplicate, Noted
  <2> QED
    BY <1>1, <2>1, <2>2 DEF IInv, QueueTypes, InHand, Working, Noted, Replayed, ByRunner, Completed,
       DoneIsCaptured, NoTwins, DoneOnce
<1>3. CASE ~Duplicate(n)
  <2>1. pc' = "write" /\ note' = n /\ index' = index \cup {n} BY <1>3 DEF Organize
  <2>2. Noted(Head(todo))' BY <1>1, <2>1 DEF Noted
  <2>3. NoTwins' BY <1>3, <2>1 DEF IInv, NoTwins, Duplicate
  <2>4. DoneIsCaptured' BY <1>1, <2>1 DEF IInv, DoneIsCaptured, ByRunner, Completed
  <2>5. QueueTypes' BY <1>1, <2>1 DEF IInv, QueueTypes
  <2>6. InHand' BY <1>1, <2>1, <2>2 DEF InHand, Working
  <2> QED
    BY <1>1, <2>1, <2>3, <2>4, <2>5, <2>6 DEF IInv, Replayed, ByRunner, Completed, DoneOnce
<1> QED BY <1>2, <1>3

LEMMA WriteIInv == IInv /\ (WriteVault \/ Link) => IInv'
BY DEF WriteVault, Link, queue, world, IInv, QueueTypes, InHand, Working, Noted, Replayed, ByRunner, Completed,
   DoneIsCaptured, NoTwins, DoneOnce

\* The runner appends a done record when its memory has none: then the file has none but an agent's.
LEMMA MarkDoneIInv == IInv /\ MarkDone => IInv'
<1> SUFFICES ASSUME IInv, MarkDone PROVE IInv' OBVIOUS
<1> DEFINE d == Head(todo)
           l == [kind |-> "done", id |-> d]
<1> USE DEF queue, world
<1>1. /\ pc = "mark" /\ pc' = "next" /\ d \in Fulfillable \cap inbox /\ Noted(d)
      /\ UNCHANGED <<items, note, inbox, index, onDisk, linked, agents>>
  BY DEF MarkDone, IInv, InHand, Working
<1>2. CASE d \in done
  BY <1>1, <1>2, RestsIInv DEF MarkDone, IInv, QueueTypes
<1>3. CASE d \notin done
  <2>1. /\ log \in Seq(Line) /\ l \in Line /\ log' = Append(log, l) /\ done' = done \cup {d}
    BY <1>1, <1>3 DEF MarkDone, IInv, QueueTypes, Line
  <2>2. log' \in Seq(Line) /\ Completed' = Completed \cup {d} BY <2>1, LogGrows
  <2>3. d \in agents \/ \A k \in DOMAIN log : log[k] # l
    <3>1. d \in agents \/ d \notin Completed BY <1>1, <1>3 DEF IInv, Replayed, ByRunner
    <3> QED BY <3>1 DEF Completed
  <2>4. DoneOnce' BY <1>1, <2>1, <2>3, StaysSingle DEF IInv
  <2>5. ByRunner' \subseteq ByRunner \cup {d} BY <1>1, <2>2 DEF ByRunner
  <2>6. DoneIsCaptured' BY <1>1, <2>5 DEF IInv, DoneIsCaptured, Noted
  <2>7. Replayed' BY <1>1, <2>1, <2>2, <2>5 DEF IInv, Replayed
  <2> QED BY <1>1, <2>2, <2>4, <2>6, <2>7 DEF IInv, QueueTypes, InHand, Working, NoTwins
<1> QED BY <1>2, <1>3

LEMMA NextIInv == IInv /\ [DirectivesNext]_queueVars => IInv'
<1> SUFFICES ASSUME IInv, [DirectivesNext]_queueVars PROVE IInv' OBVIOUS
<1>1. CASE UNCHANGED queueVars
  BY <1>1 DEF queueVars, queue, world, IInv, QueueTypes, InHand, Working, Noted, Replayed, ByRunner, Completed,
     DoneIsCaptured, NoTwins, DoneOnce
<1>2. CASE Pass \/ Skip \/ Raise \/ Crash
  BY <1>2, RestsIInv DEF Pass, Skip, Raise, Crash, queue, world, IInv, QueueTypes
<1>3. CASE EndPass
  <2>1. pc = "next" /\ pc' \in {"off", "pass"} /\ onDisk' \subseteq index
        /\ UNCHANGED <<log, done, note, inbox, index, linked, agents>>
    BY <1>3 DEF EndPass, queue, IInv, QueueTypes
  <2> QED BY <2>1, RestsIInv
<1> QED
  BY <1>1, <1>2, <1>3, LoadIInv, CaptureIInv, OrganizeIInv, WriteIInv, MarkDoneIInv, OutsideIInv
  DEF DirectivesNext, Runner, Fulfil

(* Whatever fails, is killed or appended meanwhile, what the runner has in    *)
(* hand is captured, and its memory lags behind the file by completions only. *)
THEOREM QueueInvariance == DirectivesSpec => []IInv
BY InitIInv, NextIInv, PTL DEF DirectivesSpec

(* Whatever the runner marked done is in the vault's index and its verbatim   *)
(* text is in the inbox.                                                      *)
THEOREM DoneMeansCaptured == DirectivesSpec => []DoneIsCaptured
<1>1. IInv => DoneIsCaptured BY DEF IInv
<1> QED BY <1>1, QueueInvariance, PTL

(* However often a run fails, is killed and starts again, one content in one  *)
(* wording has one note, and what no agent completed has one record of each   *)
(* kind.                                                                      *)
THEOREM RetriesHaveOneEffect == DirectivesSpec => []OneEffect
<1>1. IInv => OneEffect BY DEF IInv, OneEffect
<1> QED BY <1>1, QueueInvariance, PTL
=============================================================================
