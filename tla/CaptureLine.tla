---------------------------- MODULE CaptureLine ----------------------------
(***************************************************************************)
(* What CaptureCoordinator promises its users (module docstring of          *)
(* app/coordinator.py and ADR-0006): every submitted capture is refused     *)
(* visibly or joins one line; the line is bounded, served strictly in       *)
(* order and one capture at a time; and each accepted capture ends in       *)
(* exactly one outcome, which only a failed re-projection may qualify.      *)
(***************************************************************************)
EXTENDS Naturals, Sequences

CONSTANTS Captures, MaxPending, None

VARIABLES line,      \* accepted captures without an outcome, in order of acceptance
          outcome,   \* what became of each capture
          current    \* the capture just settled and not yet retired, or None

lineVars == <<line, outcome, current>>

LineInit ==
    /\ line = <<>>
    /\ outcome = [c \in Captures |-> "unsent"]
    /\ current = None

Refuse(c) ==
    /\ outcome[c] = "unsent"
    /\ \/ outcome' = [outcome EXCEPT ![c] = "empty"]
       \/ /\ Len(line) >= MaxPending
          /\ outcome' = [outcome EXCEPT ![c] = "rejected"]
    /\ UNCHANGED <<line, current>>

Accept(c) ==
    /\ outcome[c] = "unsent"
    /\ Len(line) <= MaxPending
    /\ outcome' = [outcome EXCEPT ![c] = "waiting"]
    /\ line' = Append(line, c)
    /\ UNCHANGED current

Settle(result) ==
    /\ current = None /\ line # <<>>
    /\ outcome' = [outcome EXCEPT ![Head(line)] = result]
    /\ line' = Tail(line)
    /\ current' = Head(line)

\* The note is saved but the plan could not be refreshed.
Degrade ==
    /\ current # None /\ outcome[current] = "saved"
    /\ outcome' = [outcome EXCEPT ![current] = "stale"]
    /\ UNCHANGED <<line, current>>

Retire ==
    /\ current # None
    /\ current' = None
    /\ UNCHANGED <<line, outcome>>

LineNext ==
    \/ \E c \in Captures : Refuse(c) \/ Accept(c)
    \/ \E result \in {"saved", "discarded", "failed"} : Settle(result)
    \/ Degrade
    \/ Retire

LineSpec == LineInit /\ [][LineNext]_lineVars
=============================================================================
