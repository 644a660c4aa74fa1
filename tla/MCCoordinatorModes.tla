------------------------- MODULE MCCoordinatorModes -------------------------
(***************************************************************************)
(* The coordinator in each of its three ways to decide a review: parked for *)
(* the surfaces (the app), answered by an injected function (`grandplan     *)
(* capture`) and approved without asking (--auto).  The way is fixed when   *)
(* the coordinator is built, so it is chosen in the initial state; neither  *)
(* property that the run checks mentions it.                                *)
(***************************************************************************)
EXTENDS Coordinator, TLC

CONSTANTS c1, c2, c3, s1, n1, n2

VARIABLE mode

MCCaptures3  == {c1, c2, c3}
MCSubmitter1 == {s1}
MCNotes      == {n1, n2}
MCNoteOf3    == c1 :> n1 @@ c2 :> n1 @@ c3 :> n2

\* The coordinator extended here is "parked".
Inline == INSTANCE Coordinator WITH ReviewMode <- "inline"
Auto   == INSTANCE Coordinator WITH ReviewMode <- "auto"

ModesInit == mode \in {"parked", "inline", "auto"} /\ Init
ModesNext ==
    /\ UNCHANGED mode
    /\ \/ mode = "parked" /\ Next
       \/ mode = "inline" /\ Inline!Next
       \/ mode = "auto"   /\ Auto!Next
ModesSpec == ModesInit /\ [][ModesNext]_<<mode, vars>>
=============================================================================
