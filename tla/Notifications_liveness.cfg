SPECIFICATION Spec
CONSTANTS
    Scope = 2
    MaxId = 2
    MaxActive = 1
    Capacity = 2
    Keys = {}
    Tokens = {}
    Timeouts = {"set"}
    DndModes = {"off", "timed"}
    MaxBorn = 1
    MaxFaults = 1
    Selections <- MCSelections
    None = None
INVARIANTS ShutdownDrained
PROPERTIES ExpiryHappens HandlersEnd
