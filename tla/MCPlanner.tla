----------------------------- MODULE MCPlanner -----------------------------
EXTENDS Planner

\* A goal among tasks, and an entity in its place.
MCTypes == {[n \in Notes |-> IF n = 2 THEN t ELSE "task"] : t \in {"goal", "entity"}}

DependsOn(n, p)  == [source |-> n, target |-> p, kind |-> "depends_on"]
Blocks(p, n)     == [source |-> p, target |-> n, kind |-> "blocks"]
PartOf(n, p)     == [source |-> n, target |-> p, kind |-> "part_of"]
Supersedes(n, p) == [source |-> n, target |-> p, kind |-> "supersedes"]

\* Dependencies against the order of the ids and with it, one said twice, cycles
\* of two and of three, a goal in the way; a second parent, a part_of cycle.
MCEdges ==
    {DependsOn(3, 1), Blocks(1, 3), DependsOn(1, 4), DependsOn(4, 3),
     DependsOn(4, 1), DependsOn(3, 2),
     PartOf(1, 2), PartOf(3, 2), PartOf(2, 3), PartOf(3, 4),
     Supersedes(4, 1)}
=============================================================================
