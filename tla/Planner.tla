------------------------------ MODULE Planner ------------------------------
(***************************************************************************)
(* The plan as a projection of the note graph (core/planner.py) and the     *)
(* schedule drawn from it (core/schedule.py).  Surfaces, agents and the     *)
(* enrichment worker add typed edges and change statuses; build_plan sorts  *)
(* the dependencies with a heap, and every view (Plan.md, Masterplan.md,    *)
(* /focus, the chat's plan context) is read off the order it finds.         *)
(*                                                                          *)
(* The sort is a state machine, one step per note popped, because its       *)
(* bookkeeping is what can go wrong; the views are operators on its result. *)
(* No note is removed here, so "first parent wins" can be recorded when the *)
(* edge is added; `next` and `waiting_on` act as `blocks` and `depends_on`. *)
(***************************************************************************)
EXTENDS Integers, FiniteSets, SequencesExt

CONSTANTS Notes,       \* note ids, compared as the heap compares them
          Types,       \* the ways the notes may be typed
          Edges,       \* the edges that may be added
          Marks,       \* the statuses somebody may set
          MaxEdges,    \* bound: edges of the graph
          MaxChanges,  \* bound: status changes other than doing what the plan says
          None

Kinds    == {"depends_on", "waiting_on", "blocks", "next", "part_of", "supersedes"}
Statuses == {"inbox", "done", "superseded", "needs-review"}

ASSUME PlannerAssumption ==
    /\ Notes \subseteq Nat /\ IsFiniteSet(Notes)
    /\ Types \subseteq [Notes -> {"task", "goal", "entity"}]
    /\ Edges \subseteq {e \in [source : Notes, target : Notes, kind : Kinds] :
                          e.source # e.target}
    /\ Marks \subseteq Statuses
    /\ MaxEdges \in Nat /\ MaxChanges \in Nat
    /\ None \notin Notes

VARIABLES type,      \* [Notes -> kind of note]
          edges,     \* the typed edges, [source, target, kind]
          parent,    \* [Notes -> the target of its first part_of edge, or None]
          status,    \* [Notes -> derived current status]
          phase,     \* "stale": the graph moved on; "sort": _toposort runs; "planned"
          deps,      \* Plan.deps: [Notes -> the prerequisites]
          indegree,  \* [Notes -> number of prerequisites not popped yet]
          ready,     \* the heap
          order,     \* Plan.ordered: the notes popped
          open,      \* Plan.now and Plan.blocked
          changes    \* counter for the bound

graph == <<type, edges, parent, status>>
plan  == <<deps, indegree, ready, order, open>>
vars == <<graph, phase, plan, changes>>

Popped == {order[i] : i \in 1..Len(order)}

-----------------------------------------------------------------------------
NoPrereqs == [n \in Notes |-> {}]

Init ==
    /\ type \in Types
    /\ edges = {} /\ parent = [n \in Notes |-> None] /\ status = [n \in Notes |-> "inbox"]
    /\ phase = "stale" /\ changes = 0
    /\ deps = NoPrereqs /\ indegree = [n \in Notes |-> 0]
    /\ ready = {} /\ order = <<>> /\ open = {}

\* build_plan keeps nothing between two calls.
Outdated ==
    /\ phase' = "stale"
    /\ deps' = NoPrereqs /\ indegree' = [n \in Notes |-> 0]
    /\ ready' = {} /\ order' = <<>> /\ open' = {}

Adopted(e) ==
    parent' = IF e.kind = "part_of" /\ parent[e.source] = None
              THEN [parent EXCEPT ![e.source] = e.target] ELSE parent

\* An edge is added: by an agent, at commit, by enrichment.  None links a note to itself.
Place(e) ==
    /\ phase # "sort" /\ e \notin edges /\ Cardinality(edges) < MaxEdges
    /\ edges' = edges \cup {e}
    /\ Adopted(e)
    /\ Outdated
    /\ UNCHANGED <<type, status, changes>>

SetStatus(n, s) ==
    /\ phase # "sort" /\ status[n] # s /\ changes < MaxChanges
    /\ status' = [status EXCEPT ![n] = s]
    /\ changes' = changes + 1
    /\ Outdated
    /\ UNCHANGED <<type, edges, parent>>

\* Bug: the kinds that point the other way are forgotten.
ForwardOnly(n) == {p \in Notes : \E e \in edges :
                     e.source = n /\ e.target = p /\ e.kind \in {"depends_on", "waiting_on"}}
Dependencies(n) ==
    {p \in Notes : \E e \in edges :
        \/ e.source = n /\ e.target = p /\ e.kind \in {"depends_on", "waiting_on"}
        \/ e.source = p /\ e.target = n /\ e.kind \in {"blocks", "next"}}

\* build_plan as far as the loop of _toposort.
Build ==
    /\ phase = "stale"
    /\ deps' = [n \in Notes |-> Dependencies(n)]
    /\ indegree' = [n \in Notes |-> Cardinality(Dependencies(n))]
    /\ ready' = {n \in Notes : Dependencies(n) = {}}
    /\ order' = <<>>
    /\ phase' = "sort"
    /\ UNCHANGED <<graph, open, changes>>

\* Bug: a dependent joins the heap with its first prerequisite.
FreedEarly(current) == {n \in Notes : current \in deps[n] /\ indegree[n] > 0}
\* The dependents of the popped note that wait for nothing else.
Freed(current) == {n \in Notes : current \in deps[n] /\ indegree[n] = 1}

LargestFirst == CHOOSE n \in ready : \A m \in ready : n >= m  \* bug: a max-heap
Top == CHOOSE n \in ready : \A m \in ready : n <= m            \* heappop

\* One turn of the loop.
Pop ==
    /\ phase = "sort" /\ ready # {}
    /\ order' = Append(order, Top)
    /\ indegree' = [n \in Notes |-> IF Top \in deps[n] THEN indegree[n] - 1 ELSE indegree[n]]
    /\ ready' = (ready \ {Top}) \cup Freed(Top)
    /\ UNCHANGED <<graph, phase, deps, open, changes>>

Superseded == {e.target : e \in {d \in edges : d.kind = "supersedes"}}

Actionable(n) == type[n] = "task" /\ status[n] = "inbox"

\* The loop ends; build_plan walks the order and the views are written.
Finish ==
    /\ phase = "sort" /\ ready = {}
    /\ open' = {n \in Popped : Actionable(n)} \ Superseded
    /\ phase' = "planned"
    /\ UNCHANGED <<graph, deps, indegree, ready, order, changes>>

-----------------------------------------------------------------------------
(* The rest of the Plan *)

CycleSevere == {n \in Notes : indegree[n] > 1}   \* bug: off by one
Cycle == {n \in Notes : indegree[n] > 0}

AllPrereqs(n) == deps[n]                         \* bug: done or not
Incomplete(n) == {p \in deps[n] : status[p] # "done"}

Now     == {n \in open : Incomplete(n) = {}}

AllChildren(n) == {c \in Notes : \E e \in edges :  \* bug: listed under every parent
                       e.kind = "part_of" /\ e.source = c /\ e.target = n}
Children(n) == {c \in Notes : parent[c] = n}

\* root_ids
Roots == {n \in Notes : parent[n] = None /\ type[n] # "entity"}

-----------------------------------------------------------------------------
(* core/schedule.py *)

\* _open_prereqs
OpenPrereqs(n) == deps[n] \cap open

\* _depths: one pass in topological order; a note with an open prerequisite
\* that has no depth yet is left out.
DepthOnce(depth, n) ==     \* bug: the number of prerequisites
    (n :> Cardinality(OpenPrereqs(n))) @@ depth
DepthFromOne(depth, n) ==  \* bug: default=0
    (n :> 1 + Max({depth[p] : p \in OpenPrereqs(n)} \cup {0})) @@ depth
DepthAfter(depth, n) ==
    IF OpenPrereqs(n) \subseteq DOMAIN depth
    THEN (n :> 1 + Max({depth[p] : p \in OpenPrereqs(n)} \cup {-1})) @@ depth
    ELSE depth

Depths == FoldLeft(LAMBDA depth, n : IF n \in open THEN DepthAfter(depth, n) ELSE depth,
                   <<>>, order)

ShallowestOf(depth, S) ==  \* bug
    CHOOSE n \in S : \A m \in S : depth[n] < depth[m] \/ (depth[n] = depth[m] /\ n <= m)
\* _deepest: ties go to the smallest id.
Deepest(depth, S) ==
    CHOOSE n \in S : \A m \in S : depth[n] > depth[m] \/ (depth[n] = depth[m] /\ n <= m)

\* critical_path: from the deepest task back through the deepest prerequisites.
CriticalPath(depth) ==
    IF open = {} THEN <<>>
    ELSE FoldLeft(LAMBDA chain, k :
                      IF OpenPrereqs(Head(chain)) = {} THEN chain
                      ELSE <<Deepest(depth, OpenPrereqs(Head(chain)))>> \o chain,
                  <<Deepest(depth, DOMAIN depth)>>,
                  [k \in 1..Cardinality(open) |-> k])

\* parallel_batches, numbered from 0.
Batch(depth, k) == {n \in DOMAIN depth : depth[n] = k}

-----------------------------------------------------------------------------
(* The part_of hierarchy *)

\* What the recursion over child_ids walks: the paths down from the notes of S,
\* as long as no note can repeat on them.
Paths(S) ==
    LET longer(paths) == UNION {{Append(p, c) : c \in Children(p[Len(p)])} : p \in paths}
    IN  FoldLeft(LAMBDA paths, k : paths \cup longer(paths), {<<n>> : n \in S},
                 [k \in 1..(Cardinality(Notes) - 1) |-> k])

\* _render_tree under every root: the rows of Masterplan.md and of the plan's tree.
Rows == Paths(Roots)

\* _tally: the tasks below a goal, one for every path the recursion takes.
Tally(g) == {p \in Paths({g}) : Len(p) > 1 /\ type[p[Len(p)]] = "task"}

-----------------------------------------------------------------------------
\* Somebody does a task the plan says can be done now.
Work(n) ==
    /\ phase = "planned" /\ n \in Now
    /\ status' = [status EXCEPT ![n] = "done"]
    /\ Outdated
    /\ UNCHANGED <<type, edges, parent, changes>>

Next ==
    \/ \E e \in Edges : Place(e)
    \/ \E n \in Notes, s \in Marks : SetStatus(n, s)
    \/ Build \/ Pop \/ Finish
    \/ \E n \in Notes : Work(n)

Spec == Init /\ [][Next]_vars

\* A projection that began completes, a changed graph is projected again, and
\* the tasks the plan offers are done.
FairSpec == Spec /\ WF_vars(Build \/ Pop \/ Finish) /\ WF_vars(\E n \in Notes : Work(n))

-----------------------------------------------------------------------------
(* Properties *)

TypeOK ==
    /\ type \in Types /\ edges \subseteq Edges /\ parent \in [Notes -> Notes \cup {None}]
    /\ status \in [Notes -> Statuses] /\ phase \in {"stale", "sort", "planned"}
    /\ deps \in [Notes -> SUBSET Notes] /\ indegree \in [Notes -> Nat]
    /\ ready \subseteq Notes /\ order \in Seq(Notes) /\ open \subseteq Notes
    /\ changes \in Nat

Sorting == phase # "stale"
Planned == phase = "planned"

(* _toposort: at every turn the counter of a note is the number of its        *)
(* prerequisites still to come, the heap is what waits for nothing, and no    *)
(* note is popped twice, however the edges double up.                         *)
Bookkeeping ==
    Sorting =>
        /\ \A n \in Notes : indegree[n] = Cardinality(deps[n] \ Popped)
        /\ ready = {n \in Notes : indegree[n] = 0} \ Popped
        /\ \A i, j \in 1..Len(order) : order[i] = order[j] => i = j

\* e says that p is to be done before n, whichever way it points.
Orders(e, p, n) ==
    CASE e.kind \in {"depends_on", "waiting_on"} -> n = e.source /\ p = e.target
      [] e.kind \in {"blocks", "next"}           -> p = e.source /\ n = e.target
      [] OTHER                                   -> FALSE

(* In the order all views share, a note comes after everything an edge puts   *)
(* before it.                                                                 *)
OrderTopological ==
    Sorting => \A e \in edges, i \in 1..Len(order), p \in Notes :
                   Orders(e, p, order[i]) => \E j \in 1..(i - 1) : order[j] = p

(* Every note left out of the order is waiting for another one left out:      *)
(* nothing that could be ordered is reported as a cycle.                      *)
CycleStuck == Planned => Cycle = Notes \ Popped /\ \A n \in Cycle : deps[n] \cap Cycle # {}

\* <<n, m>>: m is reached from n in one or more steps, for no set closed under the
\* steps that has the first ones is without m.
Reaches(step) ==
    LET closed == {S \in SUBSET Notes : \A m \in S : step[m] \subseteq S}
    IN  {p \in Notes \X Notes : \A S \in closed : step[p[1]] \subseteq S => p[2] \in S}

(* The notes reported as a cycle are exactly those from which prerequisites   *)
(* lead into a cycle: not only those on one (focus.py: "these notes depend on *)
(* each other"), but never one that is clear of it.                           *)
CycleExact ==
    Planned => LET needs    == Reaches(deps)
                   circular == {m \in Notes : <<m, m>> \in needs}
               IN  Cycle = {n \in Notes : \E m \in circular : <<n, m>> \in needs}

(* The order is the same whatever order edges came in and however ids sit in  *)
(* the heap: the smallest of all topological orders (the determinism the      *)
(* comment in _toposort promises).                                            *)
Precedes(s, t) == \E i \in 1..Len(s) : s[i] < t[i] /\ \A j \in 1..(i - 1) : s[j] = t[j]
Arrangements == {s \in SetToAllKPermutations(Notes) : Len(s) = Cardinality(Notes)}
OrderSmallest ==
    Planned /\ Cycle = {} =>
        \A s \in Arrangements :
            (\A i \in 1..Len(s) : deps[s[i]] \subseteq {s[j] : j \in 1..(i - 1)})
                => s = order \/ Precedes(order, s)

\* The chains of dependent open tasks.
Chains ==
    {c \in UNION {[1..k -> open] : k \in 1..Cardinality(open)} :
         \A i \in 1..(Len(c) - 1) : c[i] \in deps[c[i + 1]]}

(* critical_path is a chain of dependent open tasks and no chain is longer,   *)
(* so its length is the number of steps left; there are as many batches.      *)
CriticalIsLongest ==
    Planned =>
        LET depth == Depths
            path  == CriticalPath(depth)
        IN  /\ open # {} => path \in Chains
            /\ \A c \in Chains : Len(c) <= Len(path)
            /\ \A k \in 0..Cardinality(Notes) : Batch(depth, k) # {} <=> k < Len(path)

(* parallel_batches: tasks of one batch are independent, each waits for one   *)
(* of the batch before and for none of a later batch, and none is missing.    *)
BatchesLayer ==
    Planned =>
        LET depth == Depths
        IN  /\ \A k \in 0..Cardinality(Notes) : \A n \in Batch(depth, k) :
                  /\ k > 0 => OpenPrereqs(n) \cap Batch(depth, k - 1) # {}
                  /\ OpenPrereqs(n) \subseteq UNION {Batch(depth, j) : j \in 0..(k - 1)}
            /\ open = UNION {Batch(depth, k) : k \in 0..Cardinality(Notes)}

(* The first batch is what can be done now, if what holds tasks up is tasks   *)
(* (a task that waits for a goal is in the first batch and not in "now").     *)
FirstBatchIsNow ==
    Planned /\ (\A n \in open : Incomplete(n) \subseteq open) => Batch(Depths, 0) = Now

(* Every note has one row in the Masterplan, unless it is in or below a       *)
(* part_of cycle or below an entity; nothing is rendered twice.               *)
Above == Reaches([n \in Notes |-> {parent[n]} \ {None}])
RowsOnce ==
    Planned =>
        LET above  == Above
            hidden == {m \in Notes : <<m, m>> \in above \/ (type[m] = "entity" /\ parent[m] = None)}
            rows   == Rows
        IN  /\ \A p, q \in rows : p[Len(p)] = q[Len(q)] => p = q
            /\ {p[Len(p)] : p \in rows} =
                   {n \in Notes \ hidden : \A m \in hidden : <<n, m>> \notin above}

(* roll_up_progress counts each task below a goal once, and nothing else,     *)
(* where the recursion over part_of comes to an end at all.                   *)
TallyExact ==
    Planned =>
        LET above == Above
        IN  (\A m \in Notes : <<m, m>> \notin above) =>
                \A g \in Notes : type[g] = "goal" =>
                    Cardinality(Tally(g)) =
                        Cardinality({n \in Notes : <<n, g>> \in above /\ type[n] = "task"})

(* What schedule.py derives from the order agrees with it: the order is the   *)
(* smallest, the critical path the longest chain, and the batches its layers. *)
ScheduleExact == OrderSmallest /\ CriticalIsLongest /\ BatchesLayer /\ FirstBatchIsNow

(* The tree of part_of, drawn as rows and summed as progress, has every note  *)
(* once wherever it is a tree (_hierarchy, render_masterplan, schedule.py).   *)
HierarchyOnce == RowsOnce /\ TallyExact

\* Every task that is left waits for tasks only, and for nothing circular.
Workable ==
    LET todo == {n \in Notes : Actionable(n)} \ Superseded
        needs == Reaches([n \in Notes |-> Dependencies(n)])
    IN  \A n \in todo :
            /\ \A p \in Dependencies(n) : status[p] = "done" \/ p \in todo
            /\ \A m \in Notes : m = n \/ <<n, m>> \in needs => <<m, m>> \notin needs

(* Following the plan finishes the work: if in the end tasks wait only for    *)
(* tasks and not in a circle, doing what "now" offers leaves nothing open.    *)
PlanDrains == <>[]Workable => <>[](Planned /\ open = {})
=============================================================================
