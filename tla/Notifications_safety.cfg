SPECIFICATION Spec
CONSTANTS
    Scope = 2
    MaxId = 3
    MaxActive = 1
    Capacity = 2
    Keys = {k}
    Tokens = {t}
    Timeouts = {"set"}
    DndModes = {}
    MaxBorn = 2
    MaxFaults = 1
    Selections <- MCSelections
    None = None
INVARIANTS TypeOK ArchiveFaithful DeletedStaysDeleted RoutesLive OnceShownOnce
