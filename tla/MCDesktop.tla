----------------------------- MODULE MCDesktop -----------------------------
(* Instances of Desktop for TLC, and the liveness of its services.            *)
EXTENDS Desktop, TLC

\* Policy 1 sleeps after a minute; policy 2 after two on battery, never on AC.
MCMinutes == [v \in {1, 2} |-> [plugged \in BOOLEAN |-> IF v = 1 THEN 1 ELSE IF plugged THEN 0 ELSE 2]]
MCRank == [p \in MediaPlayers |-> IF p = "p1" THEN 1 ELSE 2]
MCShows == [p \in MediaPlayers |-> IF p = "p1" THEN {"a"} ELSE {}]
\* A step that overshoots the range downwards, and one that does not.
MCSteps == {-2, 1}
\* The warning level balances or keeps what there is; the critical one holds one
\* profile or the other.  Percentages lie below both thresholds, within the margin and above it.
MCSample(percent, plugged, warning, critical) ==
    [known |-> TRUE, plugged |-> plugged, percent |-> percent, policy |-> [low |-> warning, critical |-> critical]]
MCSamples == {MCSample(5, FALSE, "balanced", "saver"),
              MCSample(22, FALSE, "balanced", "saver"), MCSample(40, FALSE, "balanced", "saver"),
              MCSample(5, FALSE, "none", "performance"), MCSample(5, TRUE, "none", "performance")}
Symmetry == Permutations(Windows) \cup Permutations(Keys)

-----------------------------------------------------------------------------
(* Fairness: the conjuncts of the services' own specifications.  The service  *)
(* never changes, so one conjunct holds one assumption of each.               *)

Of(service, rest, action) == focus = service /\ action /\ UNCHANGED <<focus, rest>>
Progress ==
    \/ Of("sleep", From10, Sleep!Steps) \/ Of("idle", From11, Idle!Settle)
    \/ Of("telemetry", From10, Telemetry!ObserveEvent) \/ Of("workspace", From13, Workspace!Works)
    \/ Of("feed", From16, Feed!Releases) \/ Of("update", From12, Update!Pass)
    \/ Of("display", From15, Display!JobSteps \/ Display!tick)
    \/ Of("location", <<>>, Location!WorkerStep) \/ Of("power", From13, Power!EnvelopeSteps)
    \/ Of("audio", From13, Audio!ControlStep) \/ Of("timezone", From10, Timezone!Reads)
    \/ Of("media", From12, Media!Monitor)
    \/ Of("popups", From13, Popups!expire_due)
Observers ==
    \/ Of("sleep", From10, Sleep!Expire) \/ Of("idle", From11, Idle!ObservePolicy)
    \/ Of("telemetry", From10, Telemetry!ObserveClock) \/ Of("display", From15, Display!Resume)
    \/ Of("audio", From13, Audio!MonitorStep) \/ Of("timezone", From10, Timezone!Reported)
    \/ Of("media", From12, Media!Watches)
    \/ Of("popups", From13, Popups!Passes)
FirstTimers ==
    \/ Of("idle", From11, Idle!Starts) \/ Of("telemetry", From10, Telemetry!RecordOperation)
    \/ Of("display", From15, Display!Expire) \/ Of("workspace", From13, Workspace!GraceEnds(2))
    \/ Of("media", From12, Media!Answers)
SecondTimers ==
    \/ Of("idle", From11, Idle!Ready) \/ Of("telemetry", From10, Telemetry!PublishAction)
    \/ Of("display", From15, Display!ApplyTimeout)
    \/ Of("workspace", From13, Workspace!GraceEnds(3))
ThirdTimers ==
    \/ Of("telemetry", From10, Telemetry!ObserveFallback) \/ Of("display", From15, Display!Due)
    \/ \E k \in Keys : Of("workspace", From13, Workspace!GraceEnds(k))
Locking ==
    \/ Of("idle", From11, Idle!MonitorLocks) \/ Of("workspace", From13, Workspace!Project)
    \/ Of("feed", From16, Feed!Refreshes) \/ Of("power", From13, Power!detach)
    \/ Of("timezone", From10, Timezone!OnSignal)
    \/ Of("media", From12, Media!OnOwner)
Waiting ==
    \/ Of("idle", From11, Idle!IdleLocks) \/ Of("feed", From16, Feed!Edits)
    \/ Of("timezone", From10, Timezone!PollStatus)
    \/ Of("media", From12, Media!OnChange)
    \/ \E k \in Keys : Of("workspace", From13, Workspace!ObserveClose(k))
Fairness ==
    /\ WF_vars(Progress) /\ WF_vars(Observers) /\ WF_vars(FirstTimers) /\ WF_vars(SecondTimers)
    /\ WF_vars(ThirdTimers) /\ WF_vars(Of("telemetry", From10, Telemetry!Refresh))
    /\ SF_vars(Locking) /\ SF_vars(Waiting)
Spec == SafetySpec /\ Fairness

-----------------------------------------------------------------------------
(* Liveness of the services, while they run.                                  *)

\* What a service publishes ends up being what it reports on, through lost
\* signals, failed queries and late replies: the idle timeout of the saved policy,
\* logind's sleep status, the records of the update runs, the sound server's
\* volume, timedated's zone with the location daemon's fix, and the players.
Converges ==
    <>[](/\ focus = "idle" => Idle!TimeoutTrue
         /\ focus = "telemetry" => Telemetry!StatusTrue
         /\ focus = "update" => Update!HistoryTrue
         /\ focus = "audio" => Audio!AudioTrue
         /\ focus = "timezone" => Timezone!ShownTrue
         /\ focus = "media" => Media!MediaTrue)

\* What a service owes is paid: a sleep operation gets an outcome, the feed stops
\* syncing, a close and an empty workspace end, a dark desktop is lit, a docking
\* change and a trial end, a location request and a reload are taken, a power hold
\* and a remembered profile are given back, readings and timed popups end.
Owing ==
    CASE focus = "sleep" -> Sleep!Open
      [] focus = "feed" -> Feed!ShowsSyncing
      [] focus = "workspace" -> (\E id \in 1..3 : Workspace!ClosePending(id)) \/ (\E id \in 2..3 : Workspace!RetireDue(id))
      [] focus = "display" -> ~Display!Lit \/ Display!Applying \/ (Display!OnTrial /\ ~Display!Stranded)
      [] focus = "location" -> Location!Queued \/ Location!Reloading
      [] focus = "power" -> Power!HoldDue \/ (Power!RestoreDue /\ ~Power!RestoreBlocked)
      [] focus = "popups" -> Popups!Popping
      [] OTHER -> FALSE
Settles == Owing ~> ~Owing
=============================================================================
