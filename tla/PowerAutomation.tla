-------------------------- MODULE PowerAutomation --------------------------
(***************************************************************************)
(* Battery-level power profiles (src/src/power.rs, power/automation.rs and *)
(* battery/levels.rs).  The daemon holds power-saver through a cooperative *)
(* hold of power-profiles-daemon and, because balanced cannot be held,     *)
(* selects balanced itself and remembers durably what to restore.  The     *)
(* envelope's mutex makes reconciliation and manual selection exclusive;   *)
(* each works on the battery sample it read before it waited for the       *)
(* mutex.  Samples, other applications, the user's own tools, a service    *)
(* restart and a daemon crash come between any two of its calls.           *)
(***************************************************************************)
EXTENDS Naturals

CONSTANTS
    Samples,        \* battery snapshots: plugged, percent around the thresholds, and
                    \* policy [low, critical], the profile each level asks for
    MaxEnv          \* bound on selections, holds, samples, restarts and faults

VARIABLES
    ppd,            \* power-profiles-daemon: selected profile, our hold, another's hold
    battery,        \* the battery snapshot in the store
    taken,          \* the samples that the monitor and a call have read and wait with, the
                    \* one the holder of the mutex works on, and whether it is a call
    run,            \* Runtime: level, manual_override, balanced_restore_profile
    file,           \* battery-profile-state.json
    cookie,         \* the profile our hold cookie stands for
    link,           \* the envelope's connection: attached, loaded, the service it knows renewed,
                    \* and the monitor yet to leave the connection
    step,           \* the holder of the envelope's mutex and its next call
    pinned,         \* history: a manual selection of this episode stands
    ours,           \* history: balanced was selected by the daemon and stands
    late,           \* history: somebody changed the service between a read and the write
    envp

powerVars == <<ppd, battery, taken, run, file, cookie, link, step, pinned, ours, late, envp>>

Profiles == {"saver", "balanced", "performance"}
None == "none"
WarningPercent == 20
CriticalPercent == 10
RecoveryMargin == 3
FreshRun == [level |-> "normal", override |-> FALSE, restore |-> None]
NoSample == [known |-> FALSE]
NothingTaken == [monitor |-> {}, call |-> {}, held |-> NoSample, byCall |-> FALSE]
Holdable == {"saver", "performance"}
Idle == [at |-> "idle", profile |-> None, was |-> FALSE]
Go(at) == [step EXCEPT !.at = at]
Tick == envp < MaxEnv /\ envp' = envp + 1
Fault(b) == (b /\ Tick) \/ (~b /\ UNCHANGED envp)

(* The service: a power-saver hold wins over performance; a selection ends
   every hold. *)
effective == IF "saver" \in {ppd.own, ppd.other} THEN "saver"
             ELSE IF "performance" \in {ppd.own, ppd.other} THEN "performance" ELSE ppd.sel
NoHolds == ppd.own = None /\ ppd.other = None
SetActive(p) == ppd' = [sel |-> p, own |-> None, other |-> None]

(* BatteryLevel::observe and action. *)
recovered(percent, threshold) == percent > threshold + RecoveryMargin
observe_level(level, s) ==
    IF s.plugged THEN "normal"
    ELSE IF s.percent <= CriticalPercent
            \/ (level = "critical" /\ ~recovered(s.percent, CriticalPercent)) THEN "critical"
    ELSE IF s.percent <= WarningPercent
            \/ (level # "normal" /\ ~recovered(s.percent, WarningPercent)) THEN "low"
    ELSE "normal"
action(level) == CASE level = "normal" -> None
                   [] level = "low" -> taken.held.policy.low
                   [] OTHER -> taken.held.policy.critical
desired == IF run.override THEN None ELSE action(run.level)

PowerInit ==
    /\ ppd \in {[sel |-> p, own |-> None, other |-> None] : p \in {"performance", "saver"}}
    /\ battery = NoSample /\ taken = NothingTaken
    /\ run = FreshRun /\ file = FreshRun /\ cookie = None
    /\ link = [up |-> FALSE, loaded |-> FALSE, renewed |-> TRUE, bail |-> FALSE] /\ step = Idle
    /\ pinned = FALSE /\ ours = FALSE /\ late = FALSE /\ envp = 0

-----------------------------------------------------------------------------
(* Battery samples, other clients of the service, restarts. *)

Between == step.at \in {"restoring", "applying", "hold"}

Sample(s) ==
    /\ s # battery /\ Tick /\ battery' = s
    /\ UNCHANGED <<ppd, taken, run, file, cookie, link, step, pinned, ours, late>>

(* Balanced that is selected elsewhere while the daemon remembers what to
   restore looks like the daemon's own: a manual selection ends there. *)
UserSelects(p) ==
    /\ p # effective /\ Tick /\ SetActive(p) /\ ours' = FALSE
    /\ late' = (late \/ Between)
    /\ pinned' = (pinned /\ (p = "balanced" => run.restore = None /\ file.restore = None))
    /\ UNCHANGED <<battery, taken, run, file, cookie, link, step>>

OtherHolds(p) ==
    /\ ppd.other # p /\ (p # None => Tick) /\ (p = None => UNCHANGED envp)
    /\ ppd' = [ppd EXCEPT !.other = p] /\ late' = (late \/ Between)
    /\ UNCHANGED <<battery, taken, run, file, cookie, link, step, pinned, ours>>

(* The service restarts and its holds are gone; the monitor leaves the
   connection, whose end drops any hold taken since, and attaches anew. *)
ServiceRestart ==
    /\ link.up /\ Tick /\ ppd' = [ppd EXCEPT !.own = None, !.other = None]
    /\ link' = [link EXCEPT !.renewed = TRUE, !.bail = TRUE] /\ late' = (late \/ Between)
    /\ UNCHANGED <<battery, taken, run, file, cookie, step, pinned, ours>>

detach ==
    /\ link.up /\ link.bail /\ step = Idle /\ ppd' = [ppd EXCEPT !.own = None]
    /\ link' = [link EXCEPT !.up = FALSE, !.bail = FALSE] /\ cookie' = None
    /\ taken' = [taken EXCEPT !.monitor = {}]
    /\ UNCHANGED <<battery, run, file, step, pinned, ours, late, envp>>

Crash ==
    /\ link.loaded /\ Tick /\ ppd' = [ppd EXCEPT !.own = None]
    /\ link' = [up |-> FALSE, loaded |-> FALSE, renewed |-> TRUE, bail |-> FALSE]
    /\ cookie' = None /\ step' = Idle /\ run' = FreshRun
    /\ battery' = NoSample /\ taken' = NothingTaken
    /\ UNCHANGED <<file, pinned, ours, late>>

attach ==
    /\ ~link.up /\ link' = [link EXCEPT !.up = TRUE, !.loaded = TRUE] /\ cookie' = None
    /\ run' = IF link.loaded THEN run ELSE file
    /\ UNCHANGED <<ppd, battery, taken, file, step, pinned, ours, late, envp>>

-----------------------------------------------------------------------------
(* PowerEnvelope. *)

observed(s) ==
    IF ~s.known THEN run
    ELSE LET l == observe_level(run.level, s)
         IN [run EXCEPT !.level = l, !.override = (@ /\ l # "normal")]

Recovering(s) == s.known /\ observed(s).level = "normal"

(* persist keeps the new state in memory when the write fails, and the caller
   returns its error. *)
Persist(r, failed, next) ==
    /\ run' = r /\ file' = IF failed THEN file ELSE r
    /\ step' = IF failed THEN Idle ELSE next

(* The store is read before the mutex is awaited, so the sample may be
   overtaken by the time it is used. *)
MonitorReads ==
    /\ link.up /\ taken.monitor = {} /\ (step = Idle \/ taken.byCall)
    /\ taken' = [taken EXCEPT !.monitor = {battery}]
    /\ UNCHANGED <<ppd, battery, run, file, cookie, link, step, pinned, ours, late, envp>>

CallReads ==
    /\ link.up /\ taken.call = {} /\ ~taken.byCall /\ Tick
    /\ taken' = [taken EXCEPT !.call = {battery}]
    /\ UNCHANGED <<ppd, battery, run, file, cookie, link, step, pinned, ours, late>>

Begin ==
    /\ link.up /\ step = Idle /\ step' = [Idle EXCEPT !.at = "observe"]
    /\ \E s \in taken.monitor : taken' = [taken EXCEPT !.monitor = {}, !.held = s]
    /\ UNCHANGED <<ppd, battery, run, file, cookie, link, pinned, ours, late, envp>>

reconcile ==
    /\ step.at = "observe"
    /\ \E failed \in BOOLEAN :
        /\ Fault(failed)
        /\ IF taken.held.known THEN Persist(observed(taken.held), failed, Go("external"))
           ELSE run' = observed(taken.held) /\ step' = Idle /\ UNCHANGED file
    /\ pinned' = (pinned /\ ~Recovering(taken.held))
    /\ UNCHANGED <<ppd, battery, cookie, link, ours, late>>

(* Somebody else's selection in an episode pauses automation for its rest. *)
observe_external_selection ==
    /\ step.at = "external"
    /\ LET known == IF link.renewed THEN None ELSE cookie
           lost == known # None /\ ppd.own = None
           replaced == run.restore # None /\ effective # "balanced" /\ NoHolds
           r == [run EXCEPT !.restore = IF replaced THEN None ELSE @, !.override = (run.level # "normal")]
       IN /\ cookie' = IF lost THEN None ELSE known
          /\ link' = [link EXCEPT !.renewed = FALSE]
          /\ IF lost \/ replaced
             THEN \E failed \in BOOLEAN : Fault(failed) /\ Persist(r, failed, Go("release"))
             ELSE step' = Go("release") /\ UNCHANGED <<run, file, envp>>
    /\ UNCHANGED <<ppd, battery, pinned, ours, late>>

(* release, then on to the caller's next call. *)
Release(next, onError) ==
    \E failed \in BOOLEAN :
        /\ Fault(failed)
        /\ IF failed THEN step' = onError /\ UNCHANGED <<ppd, cookie>>
           ELSE ppd' = [ppd EXCEPT !.own = IF cookie # None THEN None ELSE @]
                /\ cookie' = None /\ step' = next

\* Mutant: a hold that is not wanted is not released.
MutRelease ==
    /\ step.at = "release" /\ step' = Go("restore")
    /\ UNCHANGED <<ppd, cookie, envp, battery, run, file, link, pinned, ours, late>>
release ==
    /\ step.at = "release"
    /\ IF cookie # desired /\ cookie # None THEN Release(Go("restore"), Idle)
       ELSE step' = Go("restore") /\ UNCHANGED <<ppd, cookie, envp>>
    /\ UNCHANGED <<battery, run, file, link, pinned, ours, late>>

restore_balanced ==
    /\ step.at = "restore" /\ late' = FALSE
    /\ IF desired = "balanced" \/ run.restore = None
       THEN step' = Go("apply") /\ UNCHANGED <<run, file, envp>>
       ELSE IF ~NoHolds THEN step' = Idle /\ UNCHANGED <<run, file, envp>>
       ELSE IF effective = "balanced" THEN step' = Go("restoring") /\ UNCHANGED <<run, file, envp>>
       ELSE \E failed \in BOOLEAN : Fault(failed) /\ Persist([run EXCEPT !.restore = None], failed, Go("apply"))
    /\ UNCHANGED <<ppd, battery, cookie, link, pinned, ours>>

Restoring ==
    /\ step.at = "restoring"
    /\ \E failed, unsaved \in BOOLEAN :
        /\ Fault(failed \/ unsaved)
        /\ IF failed THEN step' = Idle /\ UNCHANGED <<ppd, run, file, ours>>
           ELSE /\ SetActive(run.restore) /\ ours' = FALSE
                /\ Persist([run EXCEPT !.restore = None], unsaved, Go("apply"))
    /\ UNCHANGED <<battery, cookie, link, pinned, late>>

\* Mutant: balanced is held where there is nothing to select.
MutHolds == desired # None /\ cookie = None
\* apply_profile: a profile other than balanced is held, once.
Holds == desired \in Holdable /\ cookie = None
\* Mutant: the profile is set before what to restore is saved.
MutApply ==
    /\ step.at = "apply" /\ late' = FALSE
    /\ IF desired = "balanced" /\ NoHolds /\ run.restore = None /\ effective # "balanced"
       THEN run' = [run EXCEPT !.restore = effective] /\ step' = Go("applying") /\ UNCHANGED <<file, envp>>
       ELSE /\ step' = IF Holds
                       THEN [Go("hold") EXCEPT !.profile = desired] ELSE Idle
            /\ UNCHANGED <<run, file, envp>>
    /\ UNCHANGED <<ppd, battery, cookie, link, pinned, ours>>
(* apply_profile and apply_balanced: what to restore is saved first. *)
apply_profile ==
    /\ step.at = "apply" /\ late' = FALSE
    /\ IF desired = "balanced" /\ NoHolds /\ run.restore = None /\ effective # "balanced"
       THEN \E failed \in BOOLEAN :
                /\ Fault(failed)
                /\ run' = IF failed THEN run ELSE [run EXCEPT !.restore = effective]
                /\ file' = (IF failed THEN file ELSE run') /\ step' = IF failed THEN Idle ELSE Go("applying")
       ELSE /\ step' = IF Holds
                       THEN [Go("hold") EXCEPT !.profile = desired] ELSE Idle
            /\ UNCHANGED <<run, file, envp>>
    /\ UNCHANGED <<ppd, battery, cookie, link, pinned, ours>>

Applying ==
    /\ step.at = "applying" /\ step' = Idle
    /\ \E failed, unsaved \in BOOLEAN :
        /\ (unsaved => failed) /\ Fault(failed)
        /\ IF failed
           THEN /\ run' = [run EXCEPT !.restore = None] /\ file' = IF unsaved THEN file ELSE run'
                /\ UNCHANGED <<ppd, ours>>
           ELSE SetActive("balanced") /\ ours' = TRUE /\ UNCHANGED <<run, file>>
    /\ UNCHANGED <<battery, cookie, link, pinned, late>>

Hold ==
    /\ step.at = "hold" /\ step' = Idle
    /\ \E failed \in BOOLEAN :
        /\ Fault(failed)
        /\ IF failed THEN UNCHANGED <<ppd, cookie>>
           ELSE ppd' = [ppd EXCEPT !.own = step.profile] /\ cookie' = step.profile
    /\ UNCHANGED <<battery, run, file, link, pinned, ours, late>>

(* A call gets the mutex with the sample it has read. *)
TakeCall(s) ==
    /\ link.up /\ step = Idle /\ s \in taken.call
    /\ taken' = [taken EXCEPT !.call = {}, !.held = IF step' = Idle THEN @ ELSE s, !.byCall = step' # Idle]

\* Mutant: the pause of a manual choice is not saved.
MutSelect(p) ==
    \E s \in taken.call :
        /\ run' = [observed(s) EXCEPT !.override = (observed(s).level # "normal")] /\ file' = observed(s)
        /\ step' = [at |-> "srelease", profile |-> p, was |-> observed(s).override]
        /\ TakeCall(s) /\ pinned' = (pinned /\ ~Recovering(s))
        /\ UNCHANGED <<ppd, battery, cookie, link, ours, late, envp>>
(* Manual selection through the daemon: the pause is durable before the
   hold is released, and undone when the selection fails. *)
select_manual(p) ==
    \E s \in taken.call :
        /\ \/ /\ run' = [observed(s) EXCEPT !.override = (observed(s).level # "normal")] /\ file' = run'
              /\ step' = [at |-> "srelease", profile |-> p, was |-> observed(s).override]
           \/ run' = observed(s) /\ UNCHANGED <<file, step>>     \* the write failed
        /\ TakeCall(s) /\ pinned' = (pinned /\ ~Recovering(s))
        /\ UNCHANGED <<ppd, battery, cookie, link, ours, late, envp>>

Undo == step' = Go("undo")

SelectRelease ==
    /\ step.at = "srelease"
    /\ IF cookie = None THEN step' = Go("sset") /\ UNCHANGED <<ppd, cookie, envp>>
       ELSE Release(Go("sset"), Go("undo"))
    /\ UNCHANGED <<battery, run, file, link, pinned, ours, late>>

SelectSet ==
    /\ step.at = "sset"
    /\ \E failed \in BOOLEAN :
        /\ Fault(failed)
        /\ IF failed THEN Undo /\ UNCHANGED <<ppd, pinned, ours>>
           ELSE /\ SetActive(step.profile) /\ ours' = FALSE /\ step' = Go("ssave")
                /\ pinned' = (run.override /\ (step.profile # "balanced" \/ run.restore = None))
    /\ UNCHANGED <<battery, run, file, cookie, link, late>>

SelectSave ==
    /\ step.at = "ssave"
    /\ \E failed \in BOOLEAN :
        /\ Fault(failed) /\ Persist([run EXCEPT !.restore = None], failed, Idle)
        /\ pinned' = (pinned \/ (run.override /\ ~failed))
    /\ UNCHANGED <<ppd, battery, cookie, link, ours, late>>

Undoing ==
    /\ step.at = "undo"
    /\ \E failed \in BOOLEAN :
        /\ Fault(failed)
        /\ Persist([run EXCEPT !.override = step.was], failed, [Idle EXCEPT !.at = "observe"])
    /\ UNCHANGED <<ppd, battery, cookie, link, pinned, ours, late>>

resume ==
    \E s \in taken.call :
        /\ run.override /\ pinned' = FALSE
        /\ \E failed \in BOOLEAN :
            Persist([run EXCEPT !.override = FALSE], failed, [Idle EXCEPT !.at = "observe"])
        /\ TakeCall(s)
        /\ UNCHANGED <<ppd, battery, cookie, link, ours, late, envp>>

Works ==
    \/ reconcile \/ observe_external_selection \/ release \/ restore_balanced
    \/ Restoring \/ apply_profile \/ Applying \/ Hold \/ SelectRelease \/ SelectSet \/ SelectSave \/ Undoing
(* The sample goes with the mutex. *)
Unlocks == taken' = IF step' = Idle THEN [taken EXCEPT !.held = NoSample, !.byCall = FALSE] ELSE taken
EnvelopeSteps == attach \/ detach \/ MonitorReads \/ Begin \/ (Works /\ Unlocks)

PowerNext ==
    \/ EnvelopeSteps \/ resume \/ ServiceRestart \/ Crash \/ CallReads
    \/ \E s \in Samples : Sample(s)
    \/ \E p \in Profiles : UserSelects(p) \/ select_manual(p)
    \/ \E p \in {None, "saver", "performance"} : OtherHolds(p)

(* The 60 s fallback tick restarts reconciliation; a pending owner change is
   one of the ready branches of the monitor's select, taken in the end. *)
PowerSpec ==
    /\ PowerInit /\ [][PowerNext]_powerVars
    /\ WF_powerVars(EnvelopeSteps) /\ SF_powerVars(detach)

-----------------------------------------------------------------------------
Runs == [level : {"normal", "low", "critical"}, override : BOOLEAN, restore : Profiles \union {None}]

(* The service, the runtime and its file have their types. *)
PowerTypeOK ==
    /\ ppd \in [sel : Profiles, own : {None} \union Holdable, other : {None} \union Holdable]
    /\ run \in Runs /\ file \in Runs /\ cookie \in {None} \union Holdable

(* Balanced that the daemon selected is never left without a durable note of
   what to restore, and a hold outlives its cookie only until the monitor
   leaves the connection of a restarted service. *)
PowerSafe ==
    /\ ours => file.restore # None
    /\ ppd.own # None => cookie # None \/ link.bail

(* After a manual selection has reached the service (balanced itself: once the
   note of what to restore is gone) the daemon neither selects nor holds a
   profile for the rest of the episode, through crashes and failed writes,
   unless somebody selects balanced while such a note is left; its selections
   end nobody's hold (races inside one call excepted). *)
DaemonActs == step.at \in {"restoring", "applying", "hold"} /\ ppd' # ppd /\ step' # step /\ link' = link
ActsOnItsOwn == DaemonActs => ~pinned /\ (step.at # "hold" => ppd.other = None \/ late)
PowerSteps == [][ActsOnItsOwn]_powerVars

(* The inductive invariant: shapes; what a connection, a hold, a note and a
   pause mean at every call of the mutex's holder. *)
Calls == {"idle", "observe", "external", "release", "restore", "restoring", "apply", "applying", "hold",
          "srelease", "sset", "ssave", "undo"}
Holders == [at : Calls, profile : Profiles \union {None}, was : BOOLEAN]
PowerShapes ==
    /\ PowerTypeOK
    /\ link \in [up : BOOLEAN, loaded : BOOLEAN, renewed : BOOLEAN, bail : BOOLEAN]
    /\ step \in Holders
    /\ pinned \in BOOLEAN /\ ours \in BOOLEAN /\ late \in BOOLEAN
    /\ step.at \in {"srelease", "sset"} => step.profile \in Profiles
    /\ step.at = "hold" => step.profile \in Holdable

ConnectionInv ==
    /\ link.up => link.loaded
    /\ ~link.up => step = Idle /\ ppd.own = None

\* Past the look for an outside selection the service is known.
HoldInv ==
    /\ ppd.own # None => cookie # None \/ link.bail
    /\ link.up /\ link.renewed /\ ~link.bail => ppd.own = None
    /\ step.at \in {"release", "restore", "restoring", "apply", "applying", "hold"} =>
          ~link.renewed \/ link.bail

NoteInv ==
    /\ ours => ppd.sel = "balanced" /\ file.restore # None /\ (link.loaded => run.restore # None)
    /\ step.at = "applying" => ~ours /\ file.restore # None /\ run.restore # None
    /\ step.at = "restoring" => run.restore # None
    /\ step.at = "ssave" => ~ours

PauseInv ==
    /\ run.override => run.level # "normal"
    /\ file.override => file.level # "normal"
    /\ pinned => /\ file.override /\ (link.loaded => run.override)
                 /\ ppd.sel # "balanced" \/ (run.restore = None /\ file.restore = None)
    /\ step.at \in {"srelease", "sset", "ssave", "undo"} => run = file
    /\ step.at \in {"srelease", "sset", "undo"} => (pinned => step.was) /\ (step.was => run.level # "normal")
    /\ step.at \in {"applying", "hold"} => ~run.override
    /\ step.at = "restoring" => ~pinned
    /\ step.at \in {"restoring", "applying"} => ppd.other = None \/ late

PowerIInv == PowerShapes /\ ConnectionInv /\ HoldInv /\ NoteInv /\ PauseInv

(* A hold ends with its episode, and a remembered profile is put back unless
   another application keeps a hold. *)
HoldDue == run.level = "normal" /\ ppd.own # None
RestoreDue == run.level = "normal" /\ run.restore # None
RestoreBlocked == ppd.other # None \/ ~battery.known
PowerSettles ==
    /\ HoldDue ~> ~HoldDue
    /\ RestoreDue ~> (~RestoreDue \/ RestoreBlocked)
=============================================================================
