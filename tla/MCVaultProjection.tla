------------------------- MODULE MCVaultProjection -------------------------
EXTENDS Vault

CONSTANTS s, u   \* slugs of titles

\* The first two notes have one title, the last is an entity, found in every capture.
MCEntities == {4}
MCSlugs    == {s, u}
MCStems    == Slugs \cup (Slugs \X Ids)
MCSuffixed == [p \in Slugs \X Ids |-> p]
MCTitle    == <<s, s, u, u>>
MCRelated  == [i \in Ids |-> Ids \ {i}]
MCMentions == [i \in Ids |-> Entities \ {i}]
=============================================================================
