------------------------------- MODULE Vault -------------------------------
(***************************************************************************)
(* Two ways to use the vault, of which more is promised than of all.        *)
(*                                                                          *)
(* In "names" one process projects, which writes its files and is not       *)
(* killed, and finds no entities; titles collide and move, and the user     *)
(* adds, edits and deletes files while a projection runs.                   *)
(*                                                                          *)
(* In "calm" titles neither collide nor change, the user keeps no files of  *)
(* their own in the vault and rests while a projection runs, but both       *)
(* threads of the app project, writes fail and the process dies.            *)
(***************************************************************************)
EXTENDS VaultProjection

CONSTANT Distinct   \* notes whose titles do not collide

ASSUME DistinctAssumption ==
    Distinct \subseteq Ids /\ \A i, j \in Distinct : Title[i] = Title[j] => i = j

VARIABLE setting   \* "names" or "calm"

OneProcess ==
    /\ proc'[Chat] = Resting
    /\ crashes' = crashes /\ ~WriteFails /\ ~ProjectionFails(Worker)
    /\ proc'[Worker].open # None => files'[proc'[Worker].open] = Blank
    /\ At(Worker, "entities") => index' = index

Undisturbed ==
    /\ slug' = slug /\ placed' = placed
    /\ Quiet \/ touches' = touches
    /\ ToSet(index') \subseteq Distinct

VaultInit == Init /\ setting \in {"names", "calm"}
VaultNext ==
    /\ Next /\ UNCHANGED setting
    /\ setting = "names" => OneProcess
    /\ setting = "calm" => Undisturbed
VaultSpec == VaultInit /\ [][VaultNext]_<<setting, vars>>

(* The absence of a file is how the user deletes a note: nothing else ever    *)
(* tombstones one, whatever the titles, and what is tombstoned is never       *)
(* written again (project.py, _tombstone_user_deletions).                     *)
DeletionsAreTheUsers ==
    [][setting = "names" => OnlyUserDeletes' /\ StaysGone]_vars

(* After a projection the vault is what the index says: every current note    *)
(* has its one file under its planned name, every wikilink names the file of  *)
(* the note it is meant for, and the graph and the plans list the notes that  *)
(* have a file (project.py, write_projections and write_notes).               *)
VaultAgrees == setting = "names" => NotesOnDisk /\ LinksResolve /\ ViewsAgree

(* What the user wrote in a note's file is lost only with a torn write of     *)
(* that file: one that failed or was killed after it had emptied the file, or *)
(* in the middle of which the other thread looked at it.  Otherwise it stays  *)
(* until the user removes it, or a thread has it in hand to write it back;    *)
(* and no file ever carries another note's body (vault.py, write).            *)
BodiesKept == setting = "calm" => UntornBodyKept /\ BodyBelongs
=============================================================================
