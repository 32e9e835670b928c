SPECIFICATION Spec
CONSTANTS
    Ordered = {o}
    Replaceable = {r}
    Catalogs = {r}
    Monitors = {{r}, {o, r}}
    Clients = {c}
    Values = {v, w}
    Initially = v
    RingSize = 2
    MaxRevision = 2
    None = None
    MaxEvents = 6
INVARIANTS TypeOK IdentityDeterminesContent LineageKept
PROPERTIES FailureSticky KeepsPromise CatchesUp
