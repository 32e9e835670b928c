---------------------------- MODULE DesktopProofs ---------------------------
(* The desktop services side by side are safe: while a service runs its own    *)
(* invariant holds (MachineProofs, DataProofs, ScreenProofs), and no step        *)
(* hands the registers to another service.                                     *)
EXTENDS Desktop, MachineProofs, DataProofs, ScreenProofs, TLAPS

\* While a service runs, its invariant holds.
SleepInv ==
    /\ focus = "sleep" => Sleep!IInv
    /\ focus = "critical" => Critical!IInv
    /\ focus = "idle" => Idle!IInv

LEMMA SleepStart == ASSUME Init PROVE SleepInv
<1>1. focus = "sleep" => Sleep!Init
  BY DEF Init
<1>2. focus = "critical" => Critical!Init
  BY DEF Init
<1>3. focus = "idle" => Idle!Init
  BY DEF Init
<1> QED
  BY <1>1, <1>2, <1>3, SleepInitHolds, CriticalInitHolds, IdleInitHolds,
     SleepConstants, CriticalConstants, IdleConstants DEF SleepInv

\* No step hands the registers to another service.
LEMMA FocusStays == ASSUME [Next]_vars PROVE focus' = focus
BY DEF Next, vars

LEMMA SleepStep == ASSUME SleepInv, [Next]_vars PROVE SleepInv'
<1>1. focus = "sleep" => [Sleep!Next]_(Sleep!vars)
  BY DEF Next, vars, registers, Sleep!vars
<1>2. focus = "critical" => [Critical!Next]_(Critical!vars)
  BY DEF Next, vars, registers, Critical!vars
<1>3. focus = "idle" => [Idle!Next]_(Idle!vars)
  BY DEF Next, vars, registers, Idle!vars
<1>4. focus = "sleep" => Sleep!IInv'
  BY <1>1, SleepNextKeeps, SleepConstants DEF SleepInv
<1>5. focus = "critical" => Critical!IInv'
  BY <1>2, CriticalNextKeeps, CriticalConstants DEF SleepInv
<1>6. focus = "idle" => Idle!IInv'
  BY <1>3, IdleNextKeeps, IdleConstants DEF SleepInv
<1> QED
  BY <1>4, <1>5, <1>6, FocusStays DEF SleepInv

\* One lid close sends logind at most one sleep call, past its last look no request
\* meets Keep awake, and a timed job runs under its hibernate delay (sleep.rs,
\* lid.rs); a critical episode hibernates at most once and not after a confirmed
\* cancellation, across restarts and failed saves (critical.rs); idle sleep acts on
\* the saved profile and no save loses the critical settings (sleep_policy.rs).
THEOREM SleepIsSafe == SafetySpec => []SleepSafe
<1>1. Init => SleepInv
  BY SleepStart
<1>2. SleepInv /\ [Next]_vars => SleepInv'
  BY SleepStep
<1>3. SleepInv => SleepSafe
  BY IdleSafeFollows DEF SleepInv, SleepSafe, Sleep!IInv, Critical!IInv
<1> QED
  BY <1>1, <1>2, <1>3, PTL DEF SafetySpec

\* The same of the services that follow the surroundings.
AmbientInv ==
    /\ focus = "location" => Location!LocationIInv
    /\ focus = "power" => Power!PowerIInv
    /\ focus = "timezone" => Timezone!TimezoneIInv

LEMMA AmbientStart == ASSUME Init PROVE AmbientInv
<1>1. focus = "location" => Location!LocationInit
  BY DEF Init
<1>2. focus = "power" => Power!PowerInit
  BY DEF Init
<1>3. focus = "timezone" => Timezone!TimezoneInit
  BY DEF Init
<1> QED
  BY <1>1, <1>2, <1>3, LocationInitHolds, PowerInitHolds, TimezoneInitHolds, LocationConstants DEF AmbientInv

LEMMA AmbientStep == ASSUME AmbientInv, [Next]_vars PROVE AmbientInv'
<1>1. focus = "location" => [Location!LocationNext]_(Location!locationVars)
  BY DEF Next, vars, registers, Location!locationVars
<1>2. focus = "power" => [Power!PowerNext]_(Power!powerVars)
  BY DEF Next, vars, registers, Power!powerVars
<1>3. focus = "timezone" => [Timezone!TimezoneNext]_(Timezone!timezoneVars)
  BY DEF Next, vars, registers, Timezone!timezoneVars
<1>4. focus = "location" => Location!LocationIInv'
  BY <1>1, LocationNextKeeps, LocationConstants DEF AmbientInv
<1>5. focus = "power" => Power!PowerIInv'
  BY <1>2, PowerNextKeeps DEF AmbientInv
<1>6. focus = "timezone" => Timezone!TimezoneIInv'
  BY <1>3, TimezoneInvariantKept DEF AmbientInv
<1> QED
  BY <1>4, <1>5, <1>6, FocusStays DEF AmbientInv

\* A request id changes the timezone at most once and a write under way is on disk
\* as pending (location/authority.rs), a profile that the automation holds or would
\* restore is noted as its own (power_profiles/automation.rs), and the published
\* fix and policy belong to one revision (timezone.rs).
THEOREM AmbientIsSafe == SafetySpec => []AmbientSafe
<1>1. Init => AmbientInv
  BY AmbientStart
<1>2. AmbientInv /\ [Next]_vars => AmbientInv'
  BY AmbientStep
<1>3. AmbientInv => AmbientSafe
  BY LocationSafeFollows, PowerSafeFollows, TimezoneSafeFollows, LocationConstants DEF AmbientInv, AmbientSafe
<1> QED
  BY <1>1, <1>2, <1>3, PTL DEF SafetySpec

\* The same of the services that keep the user's data.
DataInv ==
    /\ focus = "agenda" => Agenda!AgendaIInv
    /\ focus = "feed" => Feed!FeedIInv
    /\ focus = "update" => Update!UpdateIInv

LEMMA DataStart == ASSUME Init PROVE DataInv
<1>1. focus = "agenda" => Agenda!AgendaInit
  BY DEF Init
<1>2. focus = "feed" => Feed!FeedInit
  BY DEF Init
<1>3. focus = "update" => Update!UpdateInit
  BY DEF Init
<1> QED
  BY <1>1, <1>2, <1>3, AgendaInitHolds, FeedInitHolds, UpdateInitHolds, FeedConstants DEF DataInv

LEMMA DataStep == ASSUME DataInv, [Next]_vars PROVE DataInv'
<1>1. focus = "agenda" => [Agenda!AgendaNext]_(Agenda!agendaVars)
  BY DEF Next, vars, registers, Agenda!agendaVars
<1>2. focus = "feed" => [Feed!FeedNext]_(Feed!feedVars)
  BY DEF Next, vars, registers, Feed!feedVars
<1>3. focus = "update" => [Update!UpdateNext]_(Update!updateVars)
  BY DEF Next, vars, registers, Update!updateVars
<1>4. focus = "agenda" => Agenda!AgendaIInv'
  BY <1>1, AgendaNextKeeps, AgendaConstants DEF DataInv
<1>5. focus = "feed" => Feed!FeedIInv'
  BY <1>2, FeedNextKeeps, FeedConstants DEF DataInv
<1>6. focus = "update" => Update!UpdateIInv'
  BY <1>3, UpdateNextKeeps DEF DataInv
<1> QED
  BY <1>4, <1>5, <1>6, FocusStays DEF DataInv

\* Whatever is resent, lost, rolled back, crashed or restored, the agenda's items
\* are what its durable receipts and the one adoption say, and no client saw more
\* (agenda_store/, agenda_service.rs); the published activity is never older than
\* its data (activity/service.rs, catalog.rs); and an update run filed as seen was
\* announced, had nothing to tell or shared a key after a fault (updates/desktop.rs).
THEOREM DataIsSafe == SafetySpec => []DataSafe
<1>1. Init => DataInv
  BY DataStart
<1>2. DataInv /\ [Next]_vars => DataInv'
  BY DataStep
<1>3. DataInv => DataSafe
  BY AgendaSafeFollows, FeedSafeFollows, UpdateSafeFollows, FeedConstants DEF DataInv, DataSafe
<1> QED
  BY <1>1, <1>2, <1>3, PTL DEF SafetySpec

\* The same of the services the user sees and hears.
DeskInv ==
    /\ focus = "workspace" => Workspace!IInv
    /\ focus = "display" => Display!DisplayIInv
    /\ focus = "audio" => Audio!IInv
    /\ focus = "media" => Media!IInv
    /\ focus = "popups" => Popups!DecksIInv

LEMMA DeskStart == ASSUME Init PROVE DeskInv
<1>1. focus = "workspace" => Workspace!Init
  BY DEF Init
<1>2. focus = "display" => Display!DisplayInit
  BY DEF Init
<1>3. focus = "audio" => Audio!AudioInit
  BY DEF Init
<1>4. focus = "media" => Media!MediaInit
  BY DEF Init
<1>5. focus = "popups" => Popups!DecksInit
  BY DEF Init
<1> QED
  BY <1>1, <1>2, <1>3, <1>4, <1>5, WorkspaceInitHolds, DisplayInitHolds, AudioInitHolds, MediaInitHolds, PopupsInitHolds,
     WorkspaceConstants, DisplayConstants, AudioConstants, MediaConstants, PopupConstants DEF DeskInv

LEMMA DeskStep == ASSUME DeskInv, [Next]_vars PROVE DeskInv'
<1>1. focus = "workspace" => [Workspace!Next]_(Workspace!workspaceVars)
  BY DEF Next, vars, registers, Workspace!workspaceVars
<1>2. focus = "display" => [Display!DisplayNext]_(Display!displayVars)
  BY DEF Next, vars, registers, Display!displayVars
<1>3. focus = "audio" => [Audio!AudioNext]_(Audio!audioVars)
  BY DEF Next, vars, registers, Audio!audioVars
<1>4. focus = "media" => [Media!MediaNext]_(Media!mediaVars)
  BY DEF Next, vars, registers, Media!mediaVars
<1>5. focus = "popups" => [Popups!DecksNext]_(Popups!deckVars)
  BY DEF Next, vars, registers, Popups!deckVars
<1>6. focus = "workspace" => Workspace!IInv'
  BY <1>1, WorkspaceNextKeeps, WorkspaceConstants DEF DeskInv
<1>7. focus = "display" => Display!DisplayIInv'
  BY <1>2, DisplayNextKeeps, DisplayConstants DEF DeskInv
<1>8. focus = "audio" => Audio!IInv'
  BY <1>3, AudioNextKeeps, AudioConstants DEF DeskInv
<1>9. focus = "media" => Media!IInv'
  BY <1>4, MediaNextKeeps, MediaConstants DEF DeskInv
<1>10. focus = "popups" => Popups!DecksIInv'
  BY <1>5, PopupsNextKeeps, PopupConstants DEF DeskInv
<1> QED
  BY <1>6, <1>7, <1>8, <1>9, <1>10, FocusStays DEF DeskInv

\* Workspace commands take effect once, after they are on disk, under fresh ids
\* (workspace/), a display trial can be rolled back and no mirror loses its source
\* (display_policy/), the volume a batch ends on is the one its requests ask for
\* (audio/coalesce.rs, volume.rs), what was looked up for a video is shown with that
\* video only (media/), and no popup leaks through a screen share or the silence of
\* its application (activity/notifications/decks.rs).
THEOREM DeskIsSafe == SafetySpec => []DeskSafe
<1>1. Init => DeskInv
  BY DeskStart
<1>2. DeskInv /\ [Next]_vars => DeskInv'
  BY DeskStep
<1>3. DeskInv => DeskSafe
  BY WorkspaceSafeFollows, DisplaySafeFollows, AudioSafeFollows, MediaSafeFollows, PopupsSafeFollows,
     WorkspaceConstants, DisplayConstants, AudioConstants, MediaConstants DEF DeskInv, DeskSafe
<1> QED
  BY <1>1, <1>2, <1>3, PTL DEF SafetySpec

\* The services with a say on what a step may do, with those of AmbientInv.
StepsInv ==
    /\ AmbientInv
    /\ focus = "telemetry" => Telemetry!IInv
    /\ focus = "display" => Display!DisplayIInv
    /\ focus = "popups" => Popups!DecksIInv

LEMMA StepsStart == ASSUME Init PROVE StepsInv
<1>1. focus = "telemetry" => Telemetry!Init
  BY DEF Init
<1>2. focus = "display" => Display!DisplayInit
  BY DEF Init
<1>3. focus = "popups" => Popups!DecksInit
  BY DEF Init
<1> QED
  BY <1>1, <1>2, <1>3, AmbientStart, TelemetryInitHolds, DisplayInitHolds, PopupsInitHolds,
     DisplayConstants, PopupConstants DEF StepsInv

LEMMA StepsStep == ASSUME StepsInv, [Next]_vars PROVE StepsInv' /\ [Allowed]_vars
<1>1. AmbientInv /\ AmbientInv'
  BY AmbientStep DEF StepsInv
<1>2. focus = "telemetry" => [Telemetry!Next]_(Telemetry!telemetryVars)
  BY DEF Next, vars, registers, Telemetry!telemetryVars
<1>3. focus = "display" => [Display!DisplayNext]_(Display!displayVars)
  BY DEF Next, vars, registers, Display!displayVars
<1>4. focus = "popups" => [Popups!DecksNext]_(Popups!deckVars)
  BY DEF Next, vars, registers, Popups!deckVars
<1>5. focus = "telemetry" => Telemetry!IInv'
  BY <1>2, TelemetryNextKeeps DEF StepsInv
<1>6. focus = "display" => Display!DisplayIInv' /\ Display!KeepsFallback /\ Display!ConfirmedUndisturbed
  BY <1>3, DisplayNextKeeps, DisplayConstants DEF StepsInv
<1>7. focus = "popups" => Popups!DecksIInv' /\ Popups!FrozenWhileRead /\ Popups!EndsTruly
  BY <1>4, PopupsNextKeeps, PopupConstants DEF StepsInv
<1>8. StepsInv'
  BY <1>1, <1>5, <1>6, <1>7, FocusStays DEF StepsInv
<1>9. ASSUME Next PROVE Allowed
  <2>1. focus = "telemetry" => Telemetry!Newer
    <3>1. focus = "telemetry" => Telemetry!Next
      BY <1>9 DEF Next
    <3> QED
      BY <3>1, TelemetryNextStep DEF StepsInv
  <2>2. focus = "location" => Location!WritesJustified
    <3>1. focus = "location" => Location!LocationNext
      BY <1>9 DEF Next
    <3> QED
      BY <1>1, <3>1, LocationNextStep, LocationConstants DEF AmbientInv
  <2>3. focus = "power" => Power!ActsOnItsOwn
    <3>1. focus = "power" => Power!PowerNext
      BY <1>9 DEF Next
    <3> QED
      BY <1>1, <3>1, PowerNextStep DEF AmbientInv
  <2>4. focus = "timezone" => Timezone!NotOlder
    <3>1. focus = "timezone" => Timezone!TimezoneNext
      BY <1>9 DEF Next
    <3> QED
      BY <1>1, <3>1, TimezoneNextStep DEF AmbientInv
  <2> QED
    BY <1>6, <1>7, <2>1, <2>2, <2>3, <2>4 DEF Allowed
<1> QED
  BY <1>8, <1>9

\* No step rolls sleep telemetry back behind a resume (state.rs), darkens the last
\* display by a command whose outputs did not change meanwhile or keeps a layout
\* whose preview was disturbed (display_policy/), sets a zone on stale evidence
\* (location/authority.rs), overrides a power profile its user chose
\* (power_profiles/automation.rs), shows an older fix (timezone.rs), moves popups
\* that are being read or takes a screen share for over that goes on
\* (activity/notifications/decks.rs, sharing.rs).
THEOREM StepsAreSafe == SafetySpec => StepsSafe
<1>1. Init => StepsInv
  BY StepsStart
<1>2. StepsInv /\ [Next]_vars => StepsInv' /\ [Allowed]_vars
  BY StepsStep
<1> QED
  BY <1>1, <1>2, PTL DEF SafetySpec, StepsSafe

\* All invariants, with the shapes of what no property of a service mentions.
TypesInv ==
    /\ SleepInv /\ AmbientInv /\ DataInv /\ DeskInv
    /\ focus = "telemetry" => Telemetry!IInv /\ Telemetry!Watched
    /\ focus = "agenda" => Agenda!Backups
    /\ focus = "feed" => Feed!Marks
    /\ focus = "timezone" => Timezone!ZoneShapes /\ envz \in Nat

LEMMA TypesStart == ASSUME Init PROVE TypesInv
<1>1. SleepInv /\ AmbientInv /\ DataInv /\ DeskInv
  BY SleepStart, AmbientStart, DataStart, DeskStart
<1>2. focus = "telemetry" => Telemetry!Init
  BY DEF Init
<1>3. focus = "agenda" => Agenda!AgendaInit
  BY DEF Init
<1>4. focus = "feed" => Feed!FeedInit
  BY DEF Init
<1>5. focus = "timezone" => Timezone!TimezoneInit
  BY DEF Init
<1> QED
  BY <1>1, <1>2, <1>3, <1>4, <1>5, TelemetryInitHolds, TelemetryWatched, AgendaBackups, FeedMarks, TimezoneZones DEF TypesInv

LEMMA TypesStep == ASSUME TypesInv, [Next]_vars PROVE TypesInv'
<1>1. SleepInv' /\ AmbientInv' /\ DataInv' /\ DeskInv'
  BY SleepStep, AmbientStep, DataStep, DeskStep DEF TypesInv
<1>2. focus = "telemetry" => [Telemetry!Next]_(Telemetry!telemetryVars)
  BY DEF Next, vars, registers, Telemetry!telemetryVars
<1>3. focus = "agenda" => [Agenda!AgendaNext]_(Agenda!agendaVars)
  BY DEF Next, vars, registers, Agenda!agendaVars
<1>4. focus = "feed" => [Feed!FeedNext]_(Feed!feedVars)
  BY DEF Next, vars, registers, Feed!feedVars
<1>5. focus = "timezone" => [Timezone!TimezoneNext]_(Timezone!timezoneVars)
  BY DEF Next, vars, registers, Timezone!timezoneVars
<1>6. focus = "telemetry" => Telemetry!IInv' /\ Telemetry!Watched'
  BY <1>2, TelemetryNextKeeps, TelemetryWatched DEF TypesInv
<1>7. focus = "agenda" => Agenda!Backups'
  BY <1>3, AgendaBackups DEF TypesInv, DataInv
<1>8. focus = "feed" => Feed!Marks'
  BY <1>4, FeedMarks DEF TypesInv
<1>9. focus = "timezone" => Timezone!ZoneShapes' /\ envz' \in Nat
  BY <1>5, TimezoneZones DEF TypesInv, AmbientInv
<1> QED
  BY <1>1, <1>6, <1>7, <1>8, <1>9, FocusStays DEF TypesInv

\* Every record, file, queue and cache of the fifteen services keeps the shape its
\* Rust type gives it, for any number of requests, revisions, failures and restarts.
THEOREM TypesCorrect == SafetySpec => []TypeOK
<1>1. Init => TypesInv
  BY TypesStart
<1>2. TypesInv /\ [Next]_vars => TypesInv'
  BY TypesStep
<1>3. TypesInv => TypeOK
  <2> SUFFICES ASSUME TypesInv PROVE TypeOK
    OBVIOUS
  <2>1. /\ focus = "sleep" => Sleep!TypeOK
        /\ focus = "critical" => Critical!TypeOK
        /\ focus = "idle" => Idle!TypeOK
        /\ focus = "telemetry" => Telemetry!TypeOK
    BY DEF TypesInv, SleepInv, Sleep!IInv, Critical!IInv, Idle!IInv, Telemetry!IInv, Telemetry!TypeOK
  <2>2. /\ focus = "workspace" => Workspace!TypeOK
        /\ focus = "display" => Display!DisplayTypeOK
        /\ focus = "audio" => Audio!AudioTypeOK
        /\ focus = "media" => Media!MediaTypeOK
        /\ focus = "popups" => Popups!DecksTypeOK
    BY WorkspaceSafeFollows, DisplaySafeFollows, AudioSafeFollows, MediaSafeFollows, PopupsSafeFollows,
       WorkspaceConstants, DisplayConstants, AudioConstants, MediaConstants DEF TypesInv, DeskInv
  <2>3. /\ focus = "agenda" => Agenda!AgendaTypeOK
        /\ focus = "feed" => Feed!FeedTypeOK
        /\ focus = "update" => Update!UpdateTypeOK
    BY AgendaTypesFollow, UpdateSafeFollows DEF TypesInv, DataInv, Feed!FeedIInv, Feed!FeedTypeOK
  <2>4. /\ focus = "location" => Location!LocationTypeOK
        /\ focus = "power" => Power!PowerTypeOK
        /\ focus = "timezone" => Timezone!TimezoneTypeOK
    BY LocationSafeFollows, PowerSafeFollows, LocationConstants
       DEF TypesInv, AmbientInv, Timezone!TimezoneIInv, Timezone!TimezoneTypeOK, envz
  <2> QED
    BY <2>1, <2>2, <2>3, <2>4 DEF TypeOK
<1> QED
  BY <1>1, <1>2, <1>3, PTL DEF SafetySpec
=============================================================================
