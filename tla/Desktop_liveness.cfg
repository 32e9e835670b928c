SPECIFICATION Spec
CONSTANTS
    Services = {"sleep", "idle", "telemetry", "workspace", "feed", "update", "display", "location",
                "power", "audio", "timezone", "media", "popups"}
    SleepPolicies = {"profile", "lock"}
    SleepOps = 1
    SleepCloses = 2
    SleepEnv = 2
    CriticalTokens = 1
    CriticalEpisodes = 2
    CriticalEnv = 0
    IdleVersions = {1, 2}
    IdleMinutes <- MCMinutes
    IdleEnv = 3
    Sleeps = 1
    TelemetryFaults = 1
    Windows = {w1, w2}
    Keys = {k1}
    WorkspaceIds = 3
    WorkspaceEnv = 2
    Requests = {q1}
    AgendaRevisions = 3
    AgendaImports = 1
    AgendaFaults = 0
    FeedEditors = {"e1"}
    FeedPlaces = {"p1"}
    FeedEdits = 2
    FeedChanges = 1
    UpdateWorkers = {"w"}
    UpdateManuals = {"m"}
    UpdateFaults = 1
    DisplayAsks = 1
    DisplayEnv = 1
    Zones = {"za", "zb"}
    LocationIds = {"i1"}
    LocationMoments = 1
    LocationEnv = 1
    PowerSamples <- MCSamples
    PowerEnv = 3
    Sinks = {"s1", "s2"}
    RoutedSinks = {"s1"}
    TopVolume = 3
    VolumeSteps <- MCSteps
    AudioQueue = 2
    AudioRequests = 1
    AudioEnv = 1
    ZoneRevisions = 2
    ZoneEnv = 1
    MediaPlayers = {"p1"}
    MediaRank <- MCRank
    MediaSpotify = {}
    MediaShows <- MCShows
    MediaRequests = 1
    MediaCache = 1
    MediaEnv = 2
    Decks = 1
    PopupIds = 2
    PopupApps = {"a", "b"}
    PopupMonitors = {"m1", "m2"}
    PopupEnv = 2
PROPERTIES Converges Settles
CHECK_DEADLOCK FALSE
