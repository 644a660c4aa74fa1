CONSTANTS
  Notes = {1, 2, 3, 4}
  Types <- MCTypes
  Edges <- MCEdges
  Marks = {"inbox", "done", "needs-review"}
  MaxEdges = 4
  MaxChanges = 1
  None = None
SPECIFICATION FairSpec
INVARIANTS OrderTopological CycleExact ScheduleExact HierarchyOnce
PROPERTIES PlanDrains
CHECK_DEADLOCK FALSE
