SPECIFICATION SafetySpec
CONSTANTS
    Services = {"sleep", "critical", "idle", "telemetry", "workspace", "agenda", "feed", "update",
                "display", "location", "power", "audio", "timezone", "media", "popups"}
    SleepPolicies = {"profile", "lock"}
    SleepOps = 2
    SleepCloses = 2
    SleepEnv = 3
    CriticalTokens = 1
    CriticalEpisodes = 2
    CriticalEnv = 2
    IdleVersions = {1, 2}
    IdleMinutes <- MCMinutes
    IdleEnv = 4
    Sleeps = 1
    TelemetryFaults = 2
    Windows = {w1, w2}
    Keys = {k1, k2}
    WorkspaceIds = 2
    WorkspaceEnv = 2
    Requests = {q1, q2}
    AgendaRevisions = 2
    AgendaImports = 1
    AgendaFaults = 1
    FeedEditors = {"e1"}
    FeedPlaces = {"p1", "p2"}
    FeedEdits = 2
    FeedChanges = 2
    UpdateWorkers = {"w"}
    UpdateManuals = {"m"}
    UpdateFaults = 1
    DisplayAsks = 2
    DisplayEnv = 1
    Zones = {"za", "zb"}
    LocationIds = {"i1"}
    LocationMoments = 1
    LocationEnv = 2
    PowerSamples <- MCSamples
    PowerEnv = 4
    Sinks = {"s1", "s2"}
    RoutedSinks = {"s1"}
    TopVolume = 3
    VolumeSteps <- MCSteps
    AudioQueue = 2
    AudioRequests = 2
    AudioEnv = 1
    ZoneRevisions = 2
    ZoneEnv = 2
    MediaPlayers = {"p1", "p2"}
    MediaRank <- MCRank
    MediaSpotify = {"p2"}
    MediaShows <- MCShows
    MediaRequests = 1
    MediaCache = 1
    MediaEnv = 2
    Decks = 1
    PopupIds = 2
    PopupApps = {"a", "b"}
    PopupMonitors = {"m1", "m2"}
    PopupEnv = 3
SYMMETRY Symmetry
INVARIANTS TypeOK SleepSafe DeskSafe DataSafe AmbientSafe
PROPERTY StepsSafe
CHECK_DEADLOCK FALSE
