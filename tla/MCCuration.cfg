SPECIFICATION Spec
CONSTANTS
    None = None
    Modes = {"fast", "enrich", "thorough"}
    Horizons = {2, 3}
    MaxNotes <- Capacity
    Near = 1
    MaxEdges = 2
    MaxEvents = 2
INVARIANTS HierarchySound
PROPERTIES NothingBuried
CHECK_DEADLOCK FALSE
