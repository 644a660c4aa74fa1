-------------------------------- MODULE Chat --------------------------------
(***************************************************************************)
(* The conversation with the vault (app/chat_window.py,                     *)
(* adapters/kb_chat.py).  The window has one user-interface thread; a       *)
(* question, a plan, an improvement and the saving of an approved draft run *)
(* on a thread of their own, which reports by a queued signal.  A turn      *)
(* refreshes the scope when it follows Obsidian's graph filter, retrieves   *)
(* notes, recalls the dialogue so far, adds the plan of the whole vault     *)
(* unless a scope is set, asks two models in order, and remembers question  *)
(* and answer.                                                              *)
(*                                                                          *)
(* `grandplan chat` (cli.py) is the same session behind one prompt: a line  *)
(* at a time, a draft answered before the next line is read.                *)
(*                                                                          *)
(* The scope is one field of the session, written by the window's buttons   *)
(* and by the turns, read twice by every turn, under no lock.               *)
(***************************************************************************)
EXTENDS Naturals, Sequences, FiniteSets

CONSTANTS Notes,       \* the notes of the vault
          Filters,     \* the sets of notes the graph filter may select; {}: it narrows nothing
          Threads,     \* numbers for the threads: as many as may run at once
          MaxTurns,    \* exchanges kept (_MAX_TURNS)
          MaxSubmits,  \* bound: what the user sends
          None

VARIABLES front,       \* "window", "repl" (the terminal), or "ended"
          filter,      \* what the graph filter of .obsidian selects
          scope, live, \* session.scope_ids; is session.scope_provider set?
          chip,        \* the scope the chip states
          clearable,   \* is the Clear button enabled?
          busy,        \* are the input and Send disabled?
          card,        \* the draft on the proposal card, or None
          doing,       \* [Threads -> "free", "ask", "plan", "improve" or "apply"]
          at,          \* [Threads -> the next step of it]
          question,    \* [Threads -> the number of what the user sent]
          fetched,     \* [Threads -> the filter as its refresh read it]
          hits,        \* [Threads -> the notes retrieved]
          told,        \* [Threads -> the notes its prompt may name, then its answer's sources or draft]
          signals,     \* the signals queued for the window, oldest first
          history,     \* session._history
          submits,     \* counted
          inForce,     \* history: [Threads -> the notes in scope at some moment of the turn]
          discussed,   \* history: those of every turn whose answer was remembered
          overlapped   \* history: have two turns run at once?

window  == <<chip, clearable, busy, card>>
session == <<scope, live>>
turn    == <<doing, at, question, fetched, hits, told>>
ghosts  == <<inForce, discussed, overlapped>>
vars    == <<front, filter, session, window, turn, signals, history, submits, ghosts>>

ASSUME ChatAssumption ==
    /\ Filters \subseteq SUBSET Notes /\ Threads \subseteq Nat
    /\ MaxTurns \in Nat \ {0} /\ MaxSubmits \in Nat

Turns == {t \in Threads : doing[t] \in {"ask", "plan", "improve"}}

\* The notes a scope lets a turn reach: no scope is the whole vault.
Reach(ids) == IF ids = {} THEN Notes ELSE ids

\* A session: no scope, no dialogue.
NewSession == scope = {} /\ live = FALSE /\ history = <<>>

\* The window on the app's repository, or the prompt.
Init ==
    /\ front \in {"window", "repl"}
    /\ filter \in Filters /\ NewSession
    /\ chip = {} /\ clearable = FALSE /\ busy = FALSE /\ card = None
    /\ doing = [t \in Threads |-> "free"] /\ at = [t \in Threads |-> "idle"]
    /\ question = [t \in Threads |-> 0]
    /\ fetched = [t \in Threads |-> {}] /\ hits = [t \in Threads |-> {}]
    /\ told = [t \in Threads |-> {}]
    /\ signals = <<>> /\ submits = 0
    /\ inForce = [t \in Threads |-> {}] /\ discussed = {} /\ overlapped = FALSE

-----------------------------------------------------------------------------
(* The scope row.  Typed commands need the input; the buttons do not. *)

\* Every assignment of the scope is in force for the turns under way.
SetScope(ids) ==
    /\ scope' = ids
    /\ inForce' = [t \in Threads |-> IF t \in Turns THEN inForce[t] \cup Reach(ids) ELSE inForce[t]]

\* The user edits the graph filter in Obsidian.
EditFilter ==
    /\ front # "ended" /\ filter' \in Filters \ {filter}
    /\ UNCHANGED <<front, session, window, turn, signals, history, submits, ghosts>>

\* _do_scope("") pins what the filter selects now; reading it may fail.
Pin ==
    /\ front = "window" /\ (~live \/ ~busy)
    /\ live' = FALSE
    /\ \/ SetScope(filter) /\ chip' = filter /\ clearable' = (filter # {})
       \/ clearable' = (IF live THEN scope # {} ELSE clearable) /\ UNCHANGED <<scope, chip, inForce>>
    /\ UNCHANGED <<front, filter, busy, card, turn, signals, history, submits, discussed, overlapped>>

\* _set_live(True)
Follow ==
    /\ front = "window" /\ ~live
    /\ live' = TRUE /\ clearable' = FALSE
    /\ \/ SetScope(filter) /\ chip' = filter
       \/ UNCHANGED <<scope, chip, inForce>>
    /\ UNCHANGED <<front, filter, busy, card, turn, signals, history, submits, discussed, overlapped>>

\* _set_live(False): frozen on what the last turn resolved.
Unfollow ==
    /\ front = "window" /\ live
    /\ live' = FALSE /\ clearable' = (scope # {})
    /\ UNCHANGED <<front, filter, scope, chip, busy, card, turn, signals, history, submits, ghosts>>

\* _do_scope("off")
ClearScope ==
    /\ front = "window" /\ (clearable \/ ~busy)
    /\ live' = FALSE /\ SetScope({}) /\ chip' = {} /\ clearable' = FALSE
    /\ UNCHANGED <<front, filter, busy, card, turn, signals, history, submits, discussed, overlapped>>

\* _chat_repl: the prompt, between two answers; /scope, /scope live, /scope off.
\* A fault in reading the filter ends the session.
AtPrompt == front = "repl" /\ ~busy /\ card = None

ScopeLine ==
    /\ AtPrompt
    /\ \/ SetScope(filter) /\ live' \in BOOLEAN /\ UNCHANGED front
       \/ SetScope({}) /\ live' = FALSE /\ UNCHANGED front
       \/ front' = "ended" /\ live' \in {live, TRUE} /\ UNCHANGED <<scope, inForce>>
    /\ UNCHANGED <<filter, window, turn, signals, history, submits, discussed, overlapped>>

\* /quit, or the end of the input.
QuitLine ==
    /\ AtPrompt /\ front' = "ended"
    /\ UNCHANGED <<filter, session, window, turn, signals, history, submits, ghosts>>

-----------------------------------------------------------------------------
(* Sending, approving, discarding *)

\* A new thread, under the smallest number that is free.
Begin(t, kind, first) ==
    /\ doing[t] = "free" /\ \A u \in Threads : u < t => doing[u] # "free"
    /\ doing' = [doing EXCEPT ![t] = kind]
    /\ at' = [at EXCEPT ![t] = first]
    /\ busy' = TRUE

\* An improvement is of the note the user names, whatever the scope.
Submit(t, kind) ==
    /\ front = "window" \/ AtPrompt
    /\ ~busy /\ submits < MaxSubmits
    /\ Begin(t, kind, IF kind = "improve" THEN "model" ELSE "refresh")
    /\ submits' = submits + 1
    /\ question' = [question EXCEPT ![t] = submits + 1]
    /\ inForce' = [inForce EXCEPT ![t] = Reach(scope)]
    /\ overlapped' = (overlapped \/ Turns # {})
    /\ IF kind = "improve" THEN \E n \in Notes : told' = [told EXCEPT ![t] = {n}] ELSE UNCHANGED told
    /\ UNCHANGED <<front, filter, session, chip, clearable, card, fetched, hits>>
    /\ UNCHANGED <<signals, history, discussed>>

\* The buttons of the card stay enabled while a turn runs; the terminal asks
\* y/N at once.
Approve(t) ==
    /\ card # None
    /\ Begin(t, "apply", "save")
    /\ card' = None
    /\ question' = [question EXCEPT ![t] = card.of]
    /\ UNCHANGED <<front, filter, session, chip, clearable, fetched, hits, told>>
    /\ UNCHANGED <<signals, history, submits, ghosts>>

Discard ==
    /\ front = "window" /\ card # None /\ card' = None
    /\ UNCHANGED <<front, filter, session, chip, clearable, busy, turn, signals, history, submits, ghosts>>

\* "apply this to the vault? [y/N]": anything but yes, or the end of the input.
DiscardLine ==
    /\ front = "repl" /\ card # None /\ card' = None
    /\ UNCHANGED <<front, filter, session, chip, clearable, busy, turn, signals, history, submits, ghosts>>

-----------------------------------------------------------------------------
(* The thread of a turn *)

Go(t, step) == at' = [at EXCEPT ![t] = step]

Emit(t, kind, draft) ==
    /\ signals' = Append(signals, [from |-> t, kind |-> kind, draft |-> draft])
    /\ Go(t, "emitted")

\* Live-follow: the provider reads the filter, and the session then takes it
\* over; a fault (the provider was just removed, too) keeps the scope.
Refresh(t) ==
    /\ at[t] = "refresh"
    /\ \/ live /\ fetched' = [fetched EXCEPT ![t] = filter] /\ Go(t, "take")
       \/ Go(t, "retrieve") /\ UNCHANGED fetched
    /\ UNCHANGED <<front, filter, session, window, doing, question, hits, told>>
    /\ UNCHANGED <<signals, history, submits, ghosts>>

Take(t) ==
    /\ at[t] = "take"
    /\ SetScope(fetched[t]) /\ Go(t, "retrieve")
    /\ UNCHANGED <<front, filter, live, window, doing, question, fetched, hits, told>>
    /\ UNCHANGED <<signals, history, submits, discussed, overlapped>>

\* What is retrieved: some of the notes of the candidates, or none.
Retrieved(t, candidates) ==
    /\ hits' = [hits EXCEPT ![t] = candidates]
    /\ told' = [told EXCEPT ![t] = candidates]
    /\ IF doing[t] = "plan" /\ candidates = {} THEN Emit(t, "drafted", None)
       ELSE Go(t, IF doing[t] = "plan" THEN "model" ELSE "recall") /\ UNCHANGED signals

\* _retrieve: embedding may raise; no scope goes to the whole vault.
Retrieve(t) ==
    /\ at[t] = "retrieve"
    /\ \/ Emit(t, "failed", None) /\ UNCHANGED <<hits, told>>
       \/ scope = {} /\ Retrieved(t, Notes)
       \/ scope = {} /\ Retrieved(t, {})
       \/ scope # {} /\ Go(t, "rank") /\ UNCHANGED <<hits, told, signals>>
    /\ UNCHANGED <<front, filter, session, window, doing, question, fetched, history, submits, ghosts>>

\* _rank_within_scope reads the scope again: whatever it is by now.
Rank(t) ==
    /\ at[t] = "rank"
    /\ Retrieved(t, scope) \/ Retrieved(t, {})
    /\ UNCHANGED <<front, filter, session, window, doing, question, fetched, history, submits, ghosts>>

\* A question's prompt carries the dialogue so far, whatever its scope was.
Recalled == UNION {history[i].names : i \in DOMAIN history}

Recall(t) ==
    /\ at[t] = "recall"
    /\ told' = [told EXCEPT ![t] = @ \cup Recalled]
    /\ Go(t, "plan")
    /\ UNCHANGED <<front, filter, session, window, doing, question, fetched, hits>>
    /\ UNCHANGED <<signals, history, submits, ghosts>>

\* _plan_block names notes of the whole vault: not under a scope.
PlanAlways == TRUE     \* bug: the plan is not suppressed under a scope
PlanAllowed == scope = {}

PlanBlock(t) ==
    /\ at[t] = "plan"
    /\ told' \in {told} \cup (IF PlanAllowed THEN {[told EXCEPT ![t] = Notes]} ELSE {})
    /\ Go(t, "model")
    /\ UNCHANGED <<front, filter, session, window, doing, question, fetched, hits>>
    /\ UNCHANGED <<signals, history, submits, ghosts>>

\* Neither model answers: the matches instead, and nothing is remembered.
NoModel(t) ==
    /\ at[t] = "model"
    /\ told' = [told EXCEPT ![t] = hits[t]]
    /\ Emit(t, IF doing[t] = "ask" THEN "answered" ELSE "drafted", None)
    /\ UNCHANGED <<front, filter, session, window, doing, question, fetched, hits, history, submits, ghosts>>

\* parse_answer and parse_plan keep the cited notes that were retrieved.
Contained(t, cited) == cited \cap hits[t]

Drafts(t, sources) ==
    /\ told' = [told EXCEPT ![t] = sources]
    /\ Emit(t, "drafted", [of |-> question[t], sources |-> sources])
    /\ UNCHANGED <<front, filter, session, window, doing, question, fetched, hits, history, submits, ghosts>>

DraftsPlan(t) == at[t] = "model" /\ doing[t] = "plan" /\ Drafts(t, Contained(t, Notes))

\* Of the one note the user named.
DraftsImprovement(t) == at[t] = "model" /\ doing[t] = "improve" /\ Drafts(t, told[t])

\* _remember, in two appends; the second is followed by the trimming.  The
\* text of an answer may name whatever its prompt named.
Entry(role, t, names) == [role |-> role, of |-> question[t], names |-> names]

Answers(t) ==
    /\ at[t] = "model" /\ doing[t] = "ask"
    /\ history' = Append(history, Entry("user", t, {}))
    /\ Go(t, "remember")
    /\ UNCHANGED <<front, filter, session, window, doing, question, fetched, hits, told>>
    /\ UNCHANGED <<signals, submits, ghosts>>

LastOf(n, turns) == IF Len(turns) > n THEN SubSeq(turns, Len(turns) - n + 1, Len(turns)) ELSE turns
TrimmedShort(turns) == LastOf(2 * MaxTurns - 1, turns)     \* bug: off by one
Trimmed(turns) == LastOf(2 * MaxTurns, turns)

Remembers(t) ==
    /\ at[t] = "remember"
    /\ history' = Trimmed(Append(history, Entry("assistant", t, told[t])))
    /\ told' = [told EXCEPT ![t] = Contained(t, Notes)]
    /\ discussed' = discussed \cup inForce[t]
    /\ Emit(t, "answered", None)
    /\ UNCHANGED <<front, filter, session, window, doing, question, fetched, hits, submits>>
    /\ UNCHANGED <<inForce, overlapped>>

\* apply_plan_draft, apply_improvement_draft: may raise.  What they write is
\* Curation's and VaultProjection's.
Save(t) ==
    /\ at[t] = "save"
    /\ Emit(t, "applied", None) \/ Emit(t, "failed", None)
    /\ UNCHANGED <<front, filter, session, window, doing, question, fetched, hits, told, history, submits, ghosts>>

Run(t) ==
    \/ Refresh(t) \/ Take(t) \/ Retrieve(t) \/ Rank(t) \/ Recall(t) \/ PlanBlock(t)
    \/ NoModel(t) \/ DraftsPlan(t) \/ DraftsImprovement(t) \/ Answers(t) \/ Remembers(t) \/ Save(t)

-----------------------------------------------------------------------------
(* The signals, handled on the window's thread in order; in the terminal, a *)
(* call that returns or raises, which ends the session.                     *)

FreesUnlessFailed(kind) == kind # "failed"     \* bug: a failure leaves the input disabled
Frees(kind) == kind \in {"answered", "drafted", "applied", "failed"}

AfterReply(kind) == IF front = "repl" /\ kind = "failed" THEN "ended" ELSE front

Deliver ==
    /\ signals # <<>>
    /\ LET s == Head(signals)
       IN  /\ busy' = (busy /\ ~Frees(s.kind))
           /\ card' = IF s.draft # None THEN s.draft ELSE card
           /\ front' = AfterReply(s.kind)
           /\ chip' = IF front = "window" /\ live /\ s.kind \in {"answered", "drafted"} THEN scope ELSE chip
           /\ doing' = [doing EXCEPT ![s.from] = "free"]
           /\ at' = [at EXCEPT ![s.from] = "idle"]
           /\ hits' = [hits EXCEPT ![s.from] = {}] /\ told' = [told EXCEPT ![s.from] = {}]
           /\ fetched' = [fetched EXCEPT ![s.from] = {}]
           /\ question' = [question EXCEPT ![s.from] = 0]
           /\ inForce' = [inForce EXCEPT ![s.from] = {}]
    /\ signals' = Tail(signals)
    /\ UNCHANGED <<filter, session, clearable, history, submits, discussed, overlapped>>

-----------------------------------------------------------------------------
User ==
    \/ EditFilter \/ Pin \/ Follow \/ Unfollow \/ ClearScope
    \/ ScopeLine \/ QuitLine \/ DiscardLine \/ Discard
    \/ \E t \in Threads : Approve(t) \/ \E kind \in {"ask", "plan", "improve"} : Submit(t, kind)

Next == User \/ Deliver \/ \E t \in Threads : Run(t)

Spec == Init /\ [][Next]_vars

\* The threads run - every call of a model has a time limit - and so does the
\* event loop; nothing is assumed of the user.
FairSpec == Spec /\ WF_vars(Deliver) /\ \A t \in Threads : WF_vars(Run(t))

-----------------------------------------------------------------------------
(* Properties *)

(* "A scoped conversation is about the chosen notes": whatever the user does  *)
(* to the scope while a question or a plan runs, what it retrieves, the       *)
(* sources of its answer and its draft are notes that were in scope at some   *)
(* moment of the turn.  Its prompt has no others either, but those of an      *)
(* earlier turn of the session whose answer it carries.                       *)
GroundedInScope ==
    \A t \in Turns : doing[t] # "improve" =>
        /\ hits[t] \subseteq inForce[t]
        /\ told[t] \subseteq inForce[t] \cup (IF at[t] = "emitted" THEN {} ELSE discussed)

(* The dialogue carried into the next prompt is whole exchanges in the order  *)
(* they were had, each question with its own answer - as long as no two turns *)
(* ran at once.                                                               *)
DialoguePaired ==
    ~overlapped => \A i \in DOMAIN history :
        /\ history[i].role = (IF i % 2 = 1 THEN "user" ELSE "assistant")
        /\ i > 1 => IF i % 2 = 0 THEN history[i].of = history[i - 1].of
                    ELSE history[i].of > history[i - 1].of

(* Whatever fails, the input comes back.                                      *)
InputReturns == busy ~> ~busy

-----------------------------------------------------------------------------
(* Claims of the code that the code does not keep *)

(* Naming notes outside the scope in a prompt is "the exact thing the scope   *)
(* promises it won't": not so with a dialogue begun under another scope, or   *)
(* an improvement.                                                            *)
PromptInScope == \A t \in Turns : told[t] \subseteq inForce[t]

(* "One turn at a time - the input disables while the model thinks."          *)
OneTurnAtATime == Cardinality(Turns) <= 1

(* "The chip states the current sandbox": with no turn under way.             *)
ChipTells == front = "window" /\ (\A t \in Threads : doing[t] = "free") => Reach(chip) = Reach(scope)
=============================================================================
