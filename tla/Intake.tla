------------------------------- MODULE Intake -------------------------------
(***************************************************************************)
(* `grandplan up`: one process that takes captures from everywhere          *)
(* (cli.py _run_up and _serve_all, adapters/http_intake.py,                 *)
(* capture_intake.py, capture.py).  The phone posts captures; a capture is  *)
(* checked, answered 202, and saved, transcribed and organized by a thread  *)
(* of its own, the organizing under one lock.  The hotkey organizes the     *)
(* selection, or what the user copied, on the listener's thread, without    *)
(* that lock.  What becomes a directive is Directives' part.                *)
(*                                                                          *)
(* organize_text makes one note of every paragraph, so a capture becomes a  *)
(* note for its words, one for each transcript and one for its attachments. *)
(***************************************************************************)
EXTENDS Integers, Sequences, SequencesExt, FiniteSets

CONSTANTS Requests,    \* what the phone sends
          Words,       \* the requests that carry text
          Media,       \* [Requests -> the names of the files attached]
          Audible,     \* the names of the audio files something is heard in
          Texts,       \* what the user copies
          MaxCopies, MaxFaults,       \* bounds
          None

VARIABLES up,          \* is the process running?
          hotkey,      \* was it started with --hotkey?
          answer,      \* [Requests -> "accepted" (202), "refused", or None]
          job,         \* [Workers -> where its thread is]
          target,      \* [Requests -> the free file name its save() found]
          saved,       \* [Requests -> the files its attachments were written to]
          heard,       \* [Requests -> transcripts, by attachment name]
          files,       \* the attachments folder: [<<name, counter>> -> the attachment]
          lock,        \* the worker that organizes, or None
          todo,        \* [Workers -> the paragraphs still to organize]
          mem,         \* [Workers -> the notes its repository knows]
          index, plan, \* the notes of the index file; those Plan.md lists
          clip, lastCaptured,    \* the clipboard, and the capturer's memory of it
          copies, faults,  \* counted
          collided,    \* history: two saves chose one file name
          unfinished,  \* history: an organizing ended before its projections
          filed        \* history: the copies this process has filed, in order

Key == "hotkey"
Workers == Requests \cup {Key}

http   == <<answer, job>>
media  == <<target, saved, heard, files>>
notes  == <<lock, todo, mem, index, plan>>
desk   == <<clip, lastCaptured, filed>>
counts == <<copies, faults>>
vars   == <<up, hotkey, http, media, notes, desk, counts, collided, unfinished>>

ASSUME IntakeAssumption ==
    /\ Words \subseteq Requests
    /\ \A r \in Requests : r \in Words \/ Media[r] # <<>>   \* else: nothing to capture
    /\ Key \notin Requests /\ None \notin Workers \cup {"accepted", "refused"}
    /\ MaxCopies \in Nat /\ MaxFaults \in Nat

-----------------------------------------------------------------------------
(* The gate in front of the body, and the decoding of it *)

\* A request arrives as the phone meant it, or cut, too large, without the
\* token, or at a path this server does not know.
Arrivals == {"meant", "cut", "large", "stranger", "astray"}

\* precheck_routes and the decoding: 404, 413, 401 or 400; else accepted.
Refused(arrival) == arrival \in {"astray", "large", "stranger", "cut"}

-----------------------------------------------------------------------------
(* The text a capture becomes *)

Paragraph(of, part, from, says, refs) ==
    [of |-> of, part |-> part, from |-> from, says |-> says, refs |-> refs]

\* compose_capture_text: the words, the transcript filed under the name of
\* each attachment, and the files.
Composed(r) ==
    LET voiced == SelectSeq([i \in DOMAIN Media[r] |-> i],
                            LAMBDA i : Media[r][i] \in DOMAIN heard[r])
    IN  (IF r \in Words THEN <<Paragraph(r, "words", 0, 0, {})>> ELSE <<>>)
        \o [k \in DOMAIN voiced |->
              Paragraph(r, "voice", voiced[k], heard[r][Media[r][voiced[k]]], {})]
        \o (IF saved[r] = <<>> THEN <<>>
            ELSE <<Paragraph(r, "files", 0, 0, Range(saved[r]))>>)

-----------------------------------------------------------------------------
NoJobs == [w \in Workers |-> "idle"]

Init ==
    /\ up = FALSE /\ hotkey \in BOOLEAN
    /\ answer = [r \in Requests |-> None] /\ job = NoJobs
    /\ target = [r \in Requests |-> None] /\ saved = [r \in Requests |-> <<>>]
    /\ heard = [r \in Requests |-> <<>>] /\ files = <<>>
    /\ lock = None /\ todo = [w \in Workers |-> <<>>] /\ mem = [w \in Workers |-> {}]
    /\ index = {} /\ plan = {}
    /\ clip = None /\ lastCaptured = None /\ filed = <<>>
    /\ copies = 0 /\ faults = 0
    /\ collided = FALSE /\ unfinished = FALSE

Go(w, pc) == job' = [job EXCEPT ![w] = pc]

\* _run_up: new threads, and a new capturer.
Start ==
    /\ ~up /\ up' = TRUE
    /\ lastCaptured' = None /\ filed' = <<>>
    /\ UNCHANGED <<hotkey, http, media, notes, clip, counts, collided, unfinished>>

\* Ctrl+C, or the machine goes down: the threads are daemons.
Stop ==
    /\ up /\ faults < MaxFaults
    /\ up' = FALSE /\ faults' = faults + 1
    /\ job' = NoJobs /\ lock' = None /\ todo' = [w \in Workers |-> <<>>]
    /\ unfinished' = (unfinished \/ \E w \in Workers : job[w] = "organize")
    /\ UNCHANGED <<hotkey, answer, media, mem, index, plan, desk>>
    /\ UNCHANGED <<copies, collided>>

-----------------------------------------------------------------------------
(* do_POST *)

Answers(r, status) == answer' = [answer EXCEPT ![r] = status]

Refuse(r, arrival) ==
    /\ up /\ answer[r] = None /\ Refused(arrival)
    /\ Answers(r, "refused")
    /\ UNCHANGED <<up, hotkey, job, media, notes, desk, counts, collided, unfinished>>

\* The handler of `up` answers before the work is done.
PostCapture(r) ==
    /\ up /\ answer[r] = None /\ ~Refused("meant")
    /\ Answers(r, "accepted") /\ Go(r, "save")
    /\ UNCHANGED <<up, hotkey, media, notes, desk, counts, collided, unfinished>>

-----------------------------------------------------------------------------
(* The thread of a capture: save every attachment, transcribe the audio *)

At(w, pc) == up /\ job[w] = pc
NextItem(r) == Len(saved[r]) + 1
More(r) == NextItem(r) <= Len(Media[r])

FirstOnly(name) == <<name, 0>>     \* bug: the name is not looked up
FreeName(name) ==
    CHOOSE p \in {name} \X (0..Cardinality(DOMAIN files)) :
        /\ p \notin DOMAIN files
        /\ \A n \in 0..(p[2] - 1) : <<name, n>> \in DOMAIN files

ChooseName(r) ==
    /\ At(r, "save") /\ More(r)
    /\ target' = [target EXCEPT ![r] = FreeName(Media[r][NextItem(r)])]
    /\ collided' = (collided \/ \E q \in Requests \ {r} : job[q] = "write" /\ target[q] = target'[r])
    /\ Go(r, "write")
    /\ UNCHANGED <<up, hotkey, answer, saved, heard, files, notes, desk, counts, unfinished>>

\* d[k] = v
Put(d, k, v) == [x \in DOMAIN d \cup {k} |-> IF x = k THEN v ELSE d[x]]

\* What is heard in it is kept under the attachment's name.
Hears(r, item) ==
    LET name == Media[r][item]
    IN  heard' = IF name \in Audible
                 THEN [heard EXCEPT ![r] = Put(@, name, item)]
                 ELSE heard

WriteBytes(r) ==
    /\ At(r, "write")
    /\ files' = Put(files, target[r], <<r, NextItem(r)>>)
    /\ saved' = [saved EXCEPT ![r] = Append(@, target[r])]
    /\ Hears(r, NextItem(r))
    /\ target' = [target EXCEPT ![r] = None]
    /\ Go(r, "save")
    /\ UNCHANGED <<up, hotkey, answer, notes, desk, counts, collided, unfinished>>

\* organize(): `with lock`, then a repository opened afresh.
TakesAnyway(r) == lock' = r     \* bug: two captures organize at once
TakesLock(r) == lock = None /\ lock' = r

Acquire(r) ==
    /\ At(r, "save") /\ ~More(r) /\ TakesLock(r)
    /\ todo' = [todo EXCEPT ![r] = Composed(r)]
    /\ mem' = [mem EXCEPT ![r] = index]
    /\ Go(r, "organize")
    /\ UNCHANGED <<up, hotkey, answer, media, index, plan, desk, counts, collided, unfinished>>

-----------------------------------------------------------------------------
(* organize_text, for a capture and for the hotkey *)

OrganizeParagraph(w) ==
    /\ At(w, "organize") /\ todo[w] # <<>>
    /\ index' = index \cup {Head(todo[w])}
    /\ mem' = [mem EXCEPT ![w] = @ \cup {Head(todo[w])}]
    /\ todo' = [todo EXCEPT ![w] = Tail(@)]
    /\ UNCHANGED <<up, hotkey, http, media, lock, plan, desk, counts, collided, unfinished>>

\* write_projections, of what this repository knows; then the lock is free.
Release(w) == lock' = IF lock = w THEN None ELSE lock

Project(w) ==
    /\ At(w, "organize") /\ todo[w] = <<>>
    /\ plan' = mem[w] /\ unfinished' = FALSE
    /\ Release(w) /\ Go(w, "done")
    /\ UNCHANGED <<up, hotkey, answer, media, todo, mem, index, desk, counts, collided>>

\* A disk error or a pipeline error: logged; the 500 has nobody to go to.
LockKept(w) == lock' = lock     \* bug: the lock is not released on an error
FreesLock(w) == Release(w)

Fail(w) ==
    /\ up /\ job[w] \in {"save", "write", "organize"} /\ faults < MaxFaults
    /\ faults' = faults + 1
    /\ unfinished' = (unfinished \/ job[w] = "organize")
    /\ FreesLock(w)
    /\ Go(w, "failed") /\ todo' = [todo EXCEPT ![w] = <<>>]
    /\ UNCHANGED <<up, hotkey, answer, media, mem, index, plan, desk, copies, collided>>

-----------------------------------------------------------------------------
(* The hotkey: the focused control's selection, or a copy not seen before *)

\* The user copies; the copies are numbered.
Copy(t) ==
    /\ hotkey /\ copies < MaxCopies /\ (clip # None => clip.text # t)
    /\ copies' = copies + 1
    /\ clip' = [text |-> t, number |-> copies + 1]
    /\ UNCHANGED <<up, hotkey, http, media, notes, lastCaptured, filed, faults>>
    /\ UNCHANGED <<collided, unfinished>>

\* _capture_to_vault, on the listener's thread; whatever its text, it is one note here.
Captures ==
    /\ todo' = [todo EXCEPT ![Key] = <<Paragraph(Key, "words", 0, 0, {})>>]
    /\ mem' = [mem EXCEPT ![Key] = index]
    /\ Go(Key, "organize")
    /\ UNCHANGED <<up, hotkey, answer, media, lock, index, plan, clip, counts>>
    /\ UNCHANGED <<collided, unfinished>>

\* A failed organizing raises in the listener, which ends: no press is heard again.
Listening == up /\ hotkey /\ job[Key] \in {"idle", "done"}

PressOnSelection == Listening /\ Captures /\ UNCHANGED <<lastCaptured, filed>>

Forgets == lastCaptured' = lastCaptured     \* bug: what was captured is not remembered
Remembers == lastCaptured' = clip.text

PressOnCopy ==
    /\ Listening /\ clip # None /\ clip.text # lastCaptured
    /\ Remembers
    /\ filed' = Append(filed, clip.number)
    /\ Captures

-----------------------------------------------------------------------------
Work(w) ==
    \/ OrganizeParagraph(w) \/ Project(w)
    \/ w \in Requests /\ (ChooseName(w) \/ WriteBytes(w) \/ Acquire(w))

Environment ==
    \/ Start \/ Stop
    \/ \E r \in Requests : PostCapture(r) \/ \E a \in Arrivals : Refuse(r, a)
    \/ \E t \in Texts : Copy(t)
    \/ PressOnSelection \/ PressOnCopy
    \/ \E w \in Workers : Fail(w)

Next == \/ Environment
        \/ \E w \in Workers : Work(w)

Spec == Init /\ [][Next]_vars

\* The threads run.
FairSpec == Spec /\ \A w \in Workers : WF_vars(Work(w))

-----------------------------------------------------------------------------
(* Properties *)

(* Every capture that was answered 202 is organized - all its paragraphs are  *)
(* notes, all its files are saved - unless its own thread fails or the        *)
(* process ends: no failure of another capture keeps it waiting.              *)
Whole(r) == /\ Len(saved[r]) = Len(Media[r])
            /\ \A i \in DOMAIN Composed(r) : Composed(r)[i] \in index
CapturesOrganized ==
    \A r \in Requests : job[r] = "save" ~> Whole(r) \/ job[r] = "failed" \/ ~up

(* Plan.md lists every note whenever nobody is organizing, however many       *)
(* phones sent at once and whatever failed before the last one that finished; *)
(* as long as the hotkey, which takes no lock, is not used.                   *)
PlanComplete == ~hotkey /\ lock = None /\ ~unfinished => plan = index

(* "Never overwrite an earlier capture's file": every path a note refers to   *)
(* holds the attachment it was saved for, within a capture and across         *)
(* captures and restarts, unless two threads chose one name at once.          *)
MediaKept ==
    ~collided => \A r \in Requests : \A i \in DOMAIN saved[r] :
        files[saved[r][i]] = <<r, i>>

(* "It never re-files stale clipboard content": the hotkey files a copy once  *)
(* in the life of the process, and later copies later.                        *)
CopiesFiledOnce == \A i, j \in DOMAIN filed : i < j => filed[i] < filed[j]

-----------------------------------------------------------------------------
(* A claim of the code that the code does not keep *)

(* "The note links its media": the note with the words of a capture refers to *)
(* its attachments.                                                           *)
NoteLinksMedia ==
    \A n \in index : n.of \in Requests /\ n.part = "words" => n.refs = Range(saved[n.of])
=============================================================================
