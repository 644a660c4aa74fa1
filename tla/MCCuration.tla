---------------------------- MODULE MCCuration ----------------------------
(* Three notes, projects and actions: a capture that proposes links and a   *)
(* place while the one before it loses its file.  Two notes are enough for  *)
(* enrichment, which asks about one at a time: one waits while the other is *)
(* placed under it.                                                         *)
EXTENDS Curation
Capacity == [m \in Modes |-> IF m = "enrich" THEN 2 ELSE 3]
=============================================================================
