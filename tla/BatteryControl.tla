---------------------------- MODULE BatteryControl ----------------------------
(***************************************************************************)
(* Battery charge control: the interactive API handlers                    *)
(* (src/src/api/battery.rs), the monitor's reconciliation pass             *)
(* (src/src/battery/mod.rs), the durable runtime record and policy         *)
(* (src/src/battery/config.rs) and the client side of the helper call      *)
(* (src/src/battery/helper.rs).                                            *)
(*                                                                         *)
(* One mutex (lock_effects) serialises the handlers and the pass.  What    *)
(* happens outside it is the monitor's read of sysfs before the lock, its  *)
(* publication after the lock, and what the environment does: a caller     *)
(* cancelling, a deadline passing, the disk failing, the daemon crashing,  *)
(* and the helper's answer.  External power, charge and inserted batteries *)
(* are only ever known through a read, which finds any values for them.    *)
(*                                                                         *)
(* A threshold pair is a member of Ranges; Full is 0-100.  Percentages are *)
(* the three levels the code tells apart.  An action that would only       *)
(* return an error leaves no state behind and is therefore not enabled.    *)
(***************************************************************************)
EXTENDS Integers, FiniteSets

CONSTANTS
    Batteries,
    Ranges,        \* threshold pairs, as the hardware may hold them
    Full,          \* 0-100
    EndsFull,      \* the ranges whose end threshold is 100
    Policies,      \* the protected ranges a client may configure
    DefaultPolicy, \* the protected range of a configuration nobody has written, 75-80
    Torn,          \* what a failed two-file write may leave behind
    Readback,      \* the ranges the firmware may report after a request
    None,
    MaxOps,        \* bound: API operations started
    MaxFaults      \* bound: refusals, unknown outcomes, disk faults, removals, crashes

Behaviours == {"auto", "inhibit-charge", "force-discharge"}

ASSUME ControlAssumption ==
    /\ Full \in Ranges /\ Policies \subseteq Ranges /\ Torn \subseteq Ranges
    /\ DefaultPolicy \in Policies
    /\ EndsFull \subseteq Ranges /\ Full \in EndsFull
    /\ Readback \in [Ranges -> SUBSET Ranges]
    /\ None \notin Ranges /\ None \notin Batteries /\ None \notin Behaviours
    /\ MaxOps \in Nat /\ MaxFaults \in Nat

VARIABLES
    hwRange, hwBehaviour,          \* sysfs thresholds and charge_behaviour
    expired,                       \* the running operation's deadline has passed
    disk,                          \* what fails: saves, loads of one file, or nothing
    runtime, config,               \* battery-state.json and battery.json
    view,                          \* the battery part of the StateStore
    call,                          \* the helper call in progress, with its reply
    apiPc, apiBattery, apiPrevious, apiPreviousConfig,  \* the running handler
    cancel,                        \* its cancellation flag
    monPc, seen, mRuntime, mConfig, behaviourOk, due, todo, restored, changed,
    ops, faults

hardware == <<hwRange, hwBehaviour>>
apiVars == <<apiPc, apiBattery, apiPrevious, apiPreviousConfig, cancel>>
monVars == <<monPc, seen, mRuntime, mConfig, behaviourOk, due, todo, restored, changed>>
vars == <<hardware, disk, expired, runtime, config, view, call, apiVars, monVars, ops, faults>>

Levels == {"empty", "some", "full"}     \* <= 1 %, in between, >= 100 %
Kinds == {"none", "inhibit", "calibration"}
Phases == {"none", "paused", "discharging", "charging", "restoring"}
ApiSteps == {"idle", "policy", "once", "inhibit", "resume",
             "calRange", "calBehaviour", "calUndo", "cancelBehaviour", "cancelRange"}
MonSteps == {"idle", "waiting", "operation", "ensure", "finishBehaviour", "finishRange",
             "plan", "devices", "threshold", "publish"}

Disks == {"ok", "readonly", "badRuntime", "badConfig"}

\* BatteryRuntimeState, the durable recovery record.
Runtime == [fence : SUBSET Batteries,
            once : Batteries \cup {None}, onceRange : Ranges \cup {None},
            op : Kinds, opBattery : Batteries \cup {None},
            phase : Phases, opRange : Ranges \cup {None}]

DefaultRuntime == [fence |-> {}, once |-> None, onceRange |-> None,
                   op |-> "none", opBattery |-> None, phase |-> "none", opRange |-> None]

\* BatteryDeviceConfig, the charge policy of one battery.
DeviceConfig == [manage : BOOLEAN, enabled : BOOLEAN, range : Policies,
                 accepted : Ranges \cup {None}]

DefaultConfig == [b \in Batteries |-> [manage |-> FALSE, enabled |-> FALSE,
                                      range |-> DefaultPolicy, accepted |-> None]]

Snapshot == [plugged : BOOLEAN, devices : SUBSET Batteries, range : [Batteries -> Ranges],
             behaviour : [Batteries -> Behaviours], level : [Batteries -> Levels]]

Call == [by : {"none", "api", "monitor"}, battery : Batteries \cup {None},
         range : Ranges \cup {None}, behaviour : Behaviours \cup {None},
         status : {"none", "sent", "ok", "refused", "unknown"}, actual : Ranges \cup {None}]

NoCall == [by |-> "none", battery |-> None, range |-> None, behaviour |-> None,
           status |-> "none", actual |-> None]

desired_thresholds(d) == IF d.enabled THEN d.range ELSE Full

\* Mutant: the check forgets a running charge-once.
MutHasDurableOperation(r) == r.op # "none"

has_durable_operation(r) == r.once # None \/ r.op # "none"

\* Updates of the record, of a device's policy, of a snapshot and of the call.
fenced(r, b) == [r EXCEPT !.fence = @ \cup {b}]
unfenced(r, b) == [r EXCEPT !.fence = @ \ {b}]
in_phase(r, p) == [r EXCEPT !.phase = p]
accepting(d, range) == [d EXCEPT !.accepted = range]
update_observed_thresholds(s, b, range) == [s EXCEPT !.range[b] = range]
observed_behaviour(s, b, behaviour) == [s EXCEPT !.behaviour[b] = behaviour]
replied(c, status, actual) == [c EXCEPT !.status = status, !.actual = actual]

clear_operation(r) ==
    [r EXCEPT !.op = "none", !.opBattery = None, !.phase = "none", !.opRange = None]

start_charge_once(b, r, fence) ==
    [fence |-> fence, once |-> b, onceRange |-> r,
     op |-> "none", opBattery |-> None, phase |-> "none", opRange |-> None]

start_inhibit(b, fence) ==
    [fence |-> fence, once |-> None, onceRange |-> None,
     op |-> "inhibit", opBattery |-> b, phase |-> "paused", opRange |-> None]

start_calibration(b, r, fence) ==
    [fence |-> fence, once |-> None, onceRange |-> None,
     op |-> "calibration", opBattery |-> b, phase |-> "discharging", opRange |-> r]

\* A read of /sys/class/power_supply that finds this power, these batteries
\* and these charges.
read_state(p, d, l) == [plugged |-> p, devices |-> d, range |-> hwRange,
                        behaviour |-> hwBehaviour, level |-> l]

NoSnapshot == [plugged |-> FALSE, devices |-> {}, range |-> [b \in Batteries |-> Full],
               behaviour |-> [b \in Batteries |-> "auto"],
               level |-> [b \in Batteries |-> "some"]]

\* What the handlers use of the published state.
View == [plugged : BOOLEAN, devices : SUBSET Batteries, range : [Batteries -> Ranges]]
ViewOf(s) == [plugged |-> s.plugged, devices |-> s.devices, range |-> s.range]

\* Saving replaces the file atomically, or fails and leaves it.
Save(r) == runtime' = IF disk = "readonly" THEN runtime ELSE r
SaveConfig(c) == config' = IF disk = "readonly" THEN config ELSE c

\* The record can be both loaded and saved; so can the policy, when all is well.
RuntimeUsable == disk \in {"ok", "badConfig"}

\* write_call: a cancelled operation is refused before anything is sent.
Dispatch(who, b, range, behaviour) ==
    call' = [by |-> who, battery |-> b, range |-> range, behaviour |-> behaviour,
             status |-> IF who = "api" /\ cancel' THEN "refused" ELSE "sent", actual |-> None]

TypeOK ==
    /\ hwRange \in [Batteries -> Ranges] /\ hwBehaviour \in [Batteries -> Behaviours]
    /\ expired \in BOOLEAN /\ disk \in Disks
    /\ runtime \in Runtime /\ config \in [Batteries -> DeviceConfig] /\ view \in View
    /\ call \in Call
    /\ apiPc \in ApiSteps /\ apiBattery \in Batteries \cup {None}
    /\ apiPrevious \in Runtime /\ apiPreviousConfig \in [Batteries -> DeviceConfig]
    /\ cancel \in BOOLEAN
    /\ monPc \in MonSteps /\ seen \in Snapshot
    /\ mRuntime \in Runtime /\ mConfig \in [Batteries -> DeviceConfig]
    /\ behaviourOk \in BOOLEAN /\ due \in BOOLEAN /\ restored \in BOOLEAN /\ changed \in BOOLEAN
    /\ todo \subseteq Batteries
    /\ ops \in Nat /\ faults \in Nat

Init ==
    /\ hwRange \in [Batteries -> Policies \cup {Full}]
    /\ hwBehaviour = [b \in Batteries |-> "auto"]
    /\ expired = FALSE /\ disk = "ok"
    /\ runtime = DefaultRuntime
    /\ \E managed \in BOOLEAN :
          config = [b \in Batteries |-> [manage |-> managed, enabled |-> managed,
                                        range |-> DefaultPolicy, accepted |-> None]]
    /\ view = ViewOf(NoSnapshot)
    /\ call = NoCall
    /\ apiPc = "idle" /\ apiBattery = None /\ apiPrevious = DefaultRuntime
    /\ apiPreviousConfig = DefaultConfig /\ cancel = FALSE
    /\ monPc = "idle" /\ seen = NoSnapshot /\ mRuntime = DefaultRuntime /\ mConfig = DefaultConfig
    /\ behaviourOk = FALSE /\ due = FALSE /\ restored = FALSE /\ changed = FALSE /\ todo = {}
    /\ ops = 0 /\ faults = 0

-----------------------------------------------------------------------------
(* The helper call: dispatch_write and the fence that write_call persists. *)

Fault == faults < MaxFaults /\ faults' = faults + 1

\* The write succeeded.  The firmware may report another range than requested;
\* charge_behaviour is checked by the helper and is exact.
HelperOk ==
    /\ call.status = "sent"
    /\ ~(call.by = "api" /\ cancel)        \* the biased select takes cancellation first
    /\ IF call.behaviour # None
         THEN /\ hwBehaviour' = [hwBehaviour EXCEPT ![call.battery] = call.behaviour]
              /\ call' = replied(call, "ok", None)
              /\ UNCHANGED hwRange
         ELSE \E r \in Readback[call.range] :
              /\ hwRange' = [hwRange EXCEPT ![call.battery] = r]
              /\ call' = replied(call, "ok", r)
              /\ UNCHANGED hwBehaviour
    /\ UNCHANGED <<disk, expired, runtime, config, view, apiVars, monVars, ops, faults>>

\* AccessDenied, or no connection to the bus: nothing was written.
HelperRefused ==
    /\ call.status = "sent" /\ Fault
    /\ ~(call.by = "api" /\ cancel)
    /\ call' = replied(call, "refused", None)
    /\ UNCHANGED <<hardware, disk, expired, runtime, config, view, apiVars, monVars, ops>>

\* What a write whose outcome is not known may have done.
MayHaveWritten ==
    \/ UNCHANGED hardware
    \/ /\ call.behaviour # None
       /\ hwBehaviour' = [hwBehaviour EXCEPT ![call.battery] = call.behaviour]
       /\ UNCHANGED hwRange
    \/ /\ call.range # None
       /\ \E r \in Readback[call.range] \cup Torn :
             hwRange' = [hwRange EXCEPT ![call.battery] = r]
       /\ UNCHANGED hwBehaviour

\* A failed reply, a timeout or a cancellation while the call runs: the outcome
\* is unknown, and the battery is fenced in the durable record.
HelperUnknown ==
    /\ call.status = "sent"
    /\ IF call.by = "api" /\ cancel THEN UNCHANGED faults ELSE Fault
    /\ MayHaveWritten
    /\ IF RuntimeUsable
         THEN runtime' = fenced(runtime, call.battery)
         ELSE UNCHANGED runtime
    /\ call' = replied(call, "unknown", None)
    /\ UNCHANGED <<disk, expired, config, view, apiVars, monVars, ops>>

Ok(by) == call.by = by /\ call.status = "ok"
Refused(by) == call.by = by /\ call.status = "refused"
Unknown(by) == call.by = by /\ call.status = "unknown"

-----------------------------------------------------------------------------
(* API handlers.  Each runs under the effects lock from its checks to its    *)
(* reply and suspends only in a helper call.                                *)

LockFree == apiPc = "idle" /\ monPc \in {"idle", "waiting", "publish"}

\* A handler takes the lock.  Its operation may have been cancelled while it
\* waited.  (An immediate call has no cancellation receiver and behaves as an
\* operation that nobody cancels.)
Begin(b, step) ==
    /\ LockFree /\ ops < MaxOps /\ ops' = ops + 1
    /\ apiPc' = step /\ apiBattery' = b
    /\ apiPrevious' = runtime /\ apiPreviousConfig' = config
    /\ cancel' \in BOOLEAN
    /\ UNCHANGED <<hardware, disk, monVars, faults>>

\* The handler returns and releases the lock.
Return ==
    /\ apiPc' = "idle" /\ apiBattery' = None
    /\ apiPrevious' = DefaultRuntime /\ apiPreviousConfig' = DefaultConfig
    /\ cancel' = FALSE
    /\ call' = NoCall
    /\ UNCHANGED <<hardware, disk, expired, monVars, ops, faults>>

\* The handler goes on with another helper call.
Continue(step, range, behaviour) ==
    /\ apiPc' = step
    /\ UNCHANGED <<hardware, disk, expired, runtime, config, view, monVars, ops, faults,
                   apiBattery, apiPrevious, apiPreviousConfig, cancel>>
    /\ Dispatch("api", apiBattery, range, behaviour)

\* sysfs is read again and published.
refresh_state ==
    \E p \in BOOLEAN : view' = [plugged |-> p, devices |-> Batteries, range |-> hwRange]

\* Confirmed hardware ends the uncertainty about b and is published.  r is the
\* record the handler has saved by now, where it could.
hardware_response(r, b) ==
    /\ runtime' = CASE disk = "readonly" -> runtime
                    [] disk = "badRuntime" -> r
                    [] OTHER -> unfenced(r, b)
    /\ IF RuntimeUsable THEN refresh_state ELSE UNCHANGED view

\* editable_policy, and the first save: both files load and the policy is saved.
EditablePolicy == disk = "ok" /\ ~has_durable_operation(runtime)

\* battery.setThresholds and battery.setProtection: the policy is saved first.
ChangePolicy(b, device) ==
    /\ EditablePolicy
    /\ Begin(b, "policy")
    /\ config' = [config EXCEPT ![b] = device]
    /\ Dispatch("api", b, desired_thresholds(device), None)
    /\ UNCHANGED <<expired, runtime, view>>

SetThresholds(b, r) ==
    /\ config[b].manage /\ config[b].enabled
    /\ ChangePolicy(b, [manage |-> TRUE, enabled |-> TRUE, range |-> r, accepted |-> None])

\* Not managed or not enabled: only the file changes.
SetThresholdsInactive(b, r) ==
    /\ ~(config[b].manage /\ config[b].enabled)
    /\ EditablePolicy /\ LockFree /\ ops < MaxOps /\ ops' = ops + 1
    /\ config' = [config EXCEPT ![b] =
                      [manage |-> @.manage, enabled |-> @.enabled, range |-> r, accepted |-> @.accepted]]
    /\ refresh_state
    /\ UNCHANGED <<hardware, disk, expired, runtime, call, monVars, faults,
                   apiVars>>

SetProtection(b, enabled, r) ==
    /\ b \in view.devices
    /\ ChangePolicy(b, [manage |-> TRUE, enabled |-> enabled, range |-> r, accepted |-> None])

PolicyApplied ==
    /\ apiPc = "policy" /\ Ok("api")
    /\ SaveConfig([config EXCEPT ![apiBattery] = accepting(@, call.actual)])
    /\ hardware_response(runtime, apiBattery)
    /\ Return

PolicyFailed ==
    /\ apiPc = "policy" /\ (Refused("api") \/ Unknown("api"))
    /\ SaveConfig(apiPreviousConfig)
    /\ Return
    /\ UNCHANGED <<runtime, view>>

\* battery.chargeOnce: the published range becomes the one to restore.
ChargeOnce(b) ==
    /\ view.plugged /\ b \in view.devices
    /\ RuntimeUsable /\ ~has_durable_operation(runtime)
    /\ Begin(b, "once")
    /\ runtime' = start_charge_once(b, view.range[b], runtime.fence)
    /\ expired' = FALSE
    /\ Dispatch("api", b, Full, None)
    /\ UNCHANGED <<config, view>>

\* battery.setChargingInhibited
StartInhibition(b) ==
    /\ b \in view.devices
    /\ RuntimeUsable /\ ~has_durable_operation(runtime)
    /\ Begin(b, "inhibit")
    /\ runtime' = start_inhibit(b, runtime.fence)
    /\ Dispatch("api", b, None, "inhibit-charge")
    /\ UNCHANGED <<expired, config, view>>

StopInhibition(b) ==
    /\ b \in view.devices /\ disk # "badRuntime"
    /\ runtime.op = "inhibit" /\ runtime.opBattery = b
    /\ Begin(b, "resume")
    /\ Dispatch("api", b, None, "auto")
    /\ UNCHANGED <<expired, runtime, config, view>>

\* battery.startCalibration: marker, then 0-100, then force-discharge.
StartCalibration(b) ==
    /\ view.plugged /\ b \in view.devices
    /\ RuntimeUsable /\ ~has_durable_operation(runtime)
    /\ Begin(b, "calRange")
    /\ runtime' = start_calibration(b, view.range[b], runtime.fence)
    /\ expired' = FALSE
    /\ Dispatch("api", b, Full, None)
    /\ UNCHANGED <<config, view>>

CalibrationRangeSet ==
    apiPc = "calRange" /\ Ok("api") /\ Continue("calBehaviour", None, "force-discharge")

\* rollback_calibration_hardware: put the range back before dropping the marker.
CalibrationBehaviourRefused ==
    apiPc = "calBehaviour" /\ Refused("api") /\ Continue("calUndo", runtime.opRange, None)

\* battery.cancelCalibration: the restoring phase is durable before any write.
CancelCalibration(b) ==
    /\ b \in view.devices /\ RuntimeUsable
    /\ runtime.op = "calibration" /\ runtime.opBattery = b
    /\ Begin(b, "cancelBehaviour")
    /\ runtime' = in_phase(runtime, "restoring")
    /\ Dispatch("api", b, None, "auto")
    /\ UNCHANGED <<expired, config, view>>

CancelBehaviourSet ==
    apiPc = "cancelBehaviour" /\ Ok("api") /\ Continue("cancelRange", runtime.opRange, None)

\* complete_calibration_restoration: only an exact readback clears the marker.
CancelRangeSet ==
    /\ apiPc = "cancelRange" /\ Ok("api")
    /\ IF call.actual = runtime.opRange
         THEN hardware_response(clear_operation(runtime), apiBattery)
         ELSE UNCHANGED <<runtime, view>>
    /\ Return /\ UNCHANGED config

\* The operation's last write succeeded.
OperationStarted ==
    /\ apiPc \in {"once", "inhibit", "calBehaviour"} /\ Ok("api")
    /\ hardware_response(runtime, apiBattery)
    /\ Return /\ UNCHANGED config

OperationStopped ==
    /\ apiPc = "resume" /\ Ok("api")
    /\ hardware_response(clear_operation(runtime), apiBattery)
    /\ Return /\ UNCHANGED config

\* Mutant: a refused undo is tried again until it succeeds.
MutUndoRetried ==
    \/ /\ \/ apiPc \in {"once", "inhibit", "calRange"} /\ Refused("api")
          \/ apiPc = "calUndo" /\ Ok("api")
       /\ Save(apiPrevious)
       /\ Return /\ UNCHANGED <<config, view>>
    \/ apiPc = "calUndo" /\ Refused("api") /\ Continue("calUndo", runtime.opRange, None)

\* Mutant: any failed call rolls the record back, an uncertain one too.
MutOperationRolledBack ==
    /\ \/ apiPc \in {"once", "inhibit", "calRange", "calUndo"} /\ (Refused("api") \/ Unknown("api"))
       \/ apiPc = "calUndo" /\ Ok("api")
    /\ Save(apiPrevious)
    /\ Return /\ UNCHANGED <<config, view>>

\* rollback_runtime and the end of rollback_calibration_hardware: the record
\* from before the operation is saved again.
OperationRolledBack ==
    /\ \/ apiPc \in {"once", "inhibit", "calRange", "calUndo"} /\ Refused("api")
       \/ apiPc = "calUndo" /\ Ok("api")
    /\ Save(apiPrevious)
    /\ Return /\ UNCHANGED <<config, view>>

\* An unknown outcome keeps the marker; a failed cancellation or resumption too.
OperationLeft ==
    /\ \/ apiPc \in {"once", "inhibit", "calRange", "calBehaviour", "calUndo"} /\ Unknown("api")
       \/ /\ apiPc \in {"resume", "cancelBehaviour", "cancelRange"}
          /\ Refused("api") \/ Unknown("api")
    /\ Return /\ UNCHANGED <<runtime, config, view>>

\* battery.operation.cancel, the owner's exit or the operation budget.
Cancel ==
    /\ apiPc # "idle" /\ ~cancel
    /\ cancel' = TRUE
    /\ UNCHANGED <<hardware, disk, expired, runtime, config, view, call, monVars, ops, faults,
                   apiPc, apiBattery, apiPrevious, apiPreviousConfig>>

-----------------------------------------------------------------------------
(* The monitor: read sysfs, then reconcile under the lock, then publish.     *)

monRest == <<hardware, disk, expired, apiVars, ops>>

MonRead ==
    /\ monPc = "idle"
    /\ \E p \in BOOLEAN, d \in SUBSET Batteries, l \in [Batteries -> Levels] :
          /\ seen' = read_state(p, d, l)
          /\ IF d = Batteries THEN UNCHANGED faults ELSE Fault
    /\ monPc' = "waiting"
    /\ UNCHANGED <<monRest, runtime, config, view, call,
                   mRuntime, mConfig, behaviourOk, due, todo, restored, changed>>

\* publish_error: an unreadable sysfs publishes an empty battery.
MonReadFails ==
    /\ monPc = "idle" /\ Fault
    /\ view' = ViewOf(NoSnapshot)
    /\ UNCHANGED <<monRest, monVars, runtime, config, call>>

\* load_policy_data: a file that cannot be read counts as the default one.
MonLock ==
    /\ monPc = "waiting" /\ apiPc = "idle"
    /\ mRuntime' = IF disk = "badRuntime" THEN DefaultRuntime ELSE runtime
    /\ mConfig' = IF disk = "badConfig" THEN DefaultConfig ELSE config
    /\ monPc' = "operation"
    /\ UNCHANGED <<monRest, runtime, config, view, call, faults,
                   seen, behaviourOk, due, todo, restored, changed>>

opFenced == mRuntime.opBattery \in mRuntime.fence

\* Mutant: a calibration found in its restoring phase is not taken up again.
MutMustFinish ==
    /\ mRuntime.op = "calibration" /\ mRuntime.opBattery \in seen.devices
    /\ \/ opFenced
       \/ mRuntime.phase # "restoring" /\ (expired \/ ~seen.plugged)
       \/ mRuntime.phase = "charging" /\ seen.level[mRuntime.opBattery] = "full"

\* The branches of reconcile_runtime_operation and reconcile_calibration that
\* end the calibration.
MustFinish ==
    /\ mRuntime.op = "calibration" /\ mRuntime.opBattery \in seen.devices
    /\ \/ opFenced
       \/ mRuntime.phase \notin {"discharging", "charging"}
       \/ expired \/ ~seen.plugged
       \/ mRuntime.phase = "charging" /\ seen.level[mRuntime.opBattery] = "full"

\* The charge behaviour a running operation asks for.
Wanted ==
    IF mRuntime.op = "inhibit" THEN "inhibit-charge"
    ELSE IF mRuntime.phase = "discharging" /\ seen.level[mRuntime.opBattery] # "empty"
           THEN "force-discharge"
           ELSE "auto"

MustEnsure ==
    /\ mRuntime.op # "none" /\ mRuntime.opBattery \in seen.devices
    /\ ~opFenced /\ ~MustFinish

\* Once the battery is empty and back on "auto", calibration charges.
Advanced(r) ==
    IF r.op = "calibration" /\ r.phase = "discharging" /\ seen.level[r.opBattery] = "empty"
      THEN in_phase(r, "charging") ELSE r

opRest == <<monRest, config, view, mConfig, due, todo, restored, changed>>

\* No operation, its battery absent, a fenced inhibition, or nothing to write.
OperationDone ==
    /\ monPc = "operation" /\ ~MustFinish
    /\ MustEnsure => seen.behaviour[mRuntime.opBattery] = Wanted
    /\ IF MustEnsure
         THEN /\ mRuntime' = Advanced(mRuntime)
              /\ IF Advanced(mRuntime) # mRuntime THEN Save(mRuntime') ELSE UNCHANGED runtime
         ELSE UNCHANGED <<mRuntime, runtime>>
    /\ monPc' = "plan"
    /\ UNCHANGED <<opRest, call, faults, seen, behaviourOk>>

\* ensure_charge_behaviour
EnsureBehaviour ==
    /\ monPc = "operation" /\ MustEnsure
    /\ seen.behaviour[mRuntime.opBattery] # Wanted
    /\ Dispatch("monitor", mRuntime.opBattery, None, Wanted)
    /\ monPc' = "ensure"
    /\ UNCHANGED <<opRest, runtime, faults, seen, mRuntime, behaviourOk>>

BehaviourEnsured ==
    /\ monPc = "ensure" /\ Ok("monitor")
    /\ seen' = observed_behaviour(seen, call.battery, call.behaviour)
    /\ mRuntime' = Advanced(mRuntime)
    /\ IF Advanced(mRuntime) # mRuntime THEN Save(mRuntime') ELSE UNCHANGED runtime
    /\ monPc' = "plan" /\ call' = NoCall
    /\ UNCHANGED <<opRest, faults, behaviourOk>>

BehaviourNotEnsured ==
    /\ monPc = "ensure" /\ (Refused("monitor") \/ Unknown("monitor"))
    /\ monPc' = "plan" /\ call' = NoCall
    /\ UNCHANGED <<opRest, runtime, faults, seen, mRuntime, behaviourOk>>

\* finish_runtime_operation: the restoring phase is durable before any write.
FinishOperation ==
    /\ monPc = "operation" /\ MustFinish
    /\ mRuntime' = in_phase(mRuntime, "restoring")
    /\ IF mRuntime.phase = "restoring"
         THEN UNCHANGED runtime
         ELSE Save(mRuntime')
    /\ IF mRuntime.phase # "restoring" /\ disk = "readonly"
         THEN monPc' = "plan" /\ UNCHANGED call
         ELSE monPc' = "finishBehaviour" /\ Dispatch("monitor", mRuntime.opBattery, None, "auto")
    /\ UNCHANGED <<opRest, faults, seen, behaviourOk>>

\* The range is restored whether or not the behaviour was.
FinishBehaviourReplied ==
    /\ monPc = "finishBehaviour" /\ call.by = "monitor" /\ call.status \in {"ok", "refused", "unknown"}
    /\ behaviourOk' = Ok("monitor")
    /\ Dispatch("monitor", mRuntime.opBattery, mRuntime.opRange, None)
    /\ monPc' = "finishRange"
    /\ UNCHANGED <<opRest, runtime, faults, seen, mRuntime>>

\* Mutant: the readback is not compared with the range to restore.
MutFinishVerified ==
    /\ monPc = "finishRange" /\ Ok("monitor") /\ behaviourOk
    /\ mRuntime' = unfenced(clear_operation(mRuntime), call.battery)
    /\ Save(mRuntime')
    /\ monPc' = "plan" /\ call' = NoCall /\ behaviourOk' = FALSE
    /\ UNCHANGED <<opRest, faults, seen>>

\* Both writes succeeded and the readback is exact: the marker goes, and with
\* it the fence that this restoration reconciled.
FinishVerified ==
    /\ monPc = "finishRange" /\ Ok("monitor") /\ behaviourOk
    /\ call.actual = mRuntime.opRange
    /\ seen' = update_observed_thresholds(observed_behaviour(seen, call.battery, "auto"),
                                          call.battery, call.actual)
    /\ mRuntime' = unfenced(clear_operation(mRuntime), call.battery)
    /\ Save(mRuntime')
    /\ monPc' = "plan" /\ call' = NoCall /\ behaviourOk' = FALSE
    /\ UNCHANGED <<opRest, faults>>

\* Mutant: the observed range is taken from a reply that has none.
MutFinishRetained ==
    /\ monPc = "finishRange" /\ call.by = "monitor" /\ call.status \in {"ok", "refused", "unknown"}
    /\ ~(Ok("monitor") /\ behaviourOk /\ call.actual = mRuntime.opRange)
    /\ seen' = update_observed_thresholds(seen, call.battery, call.actual)
    /\ monPc' = "plan" /\ call' = NoCall /\ behaviourOk' = FALSE
    /\ UNCHANGED <<opRest, runtime, faults, mRuntime>>

\* Otherwise the marker stays and the next pass retries.
FinishRetained ==
    /\ monPc = "finishRange" /\ call.by = "monitor" /\ call.status \in {"ok", "refused", "unknown"}
    /\ ~(Ok("monitor") /\ behaviourOk /\ call.actual = mRuntime.opRange)
    /\ seen' = IF Ok("monitor") /\ behaviourOk
                 THEN update_observed_thresholds(observed_behaviour(seen, call.battery, "auto"),
                                                 call.battery, call.actual)
                 ELSE seen
    /\ monPc' = "plan" /\ call' = NoCall /\ behaviourOk' = FALSE
    /\ UNCHANGED <<opRest, runtime, faults, mRuntime>>

\* Mutant: the deadline is not looked at.
MutChargeOnceIsDue ==
    /\ mRuntime.once # None
    /\ \/ ~seen.plugged
       \/ mRuntime.once \in seen.devices /\ seen.level[mRuntime.once] = "full"

\* charge_once_is_due; an absent battery counts as empty.
charge_once_is_due ==
    /\ mRuntime.once # None
    /\ \/ ~seen.plugged \/ expired
       \/ mRuntime.once \in seen.devices /\ seen.level[mRuntime.once] = "full"

\* From here on the pass reads neither charges nor behaviours: they are forgotten.
PlanThresholds ==
    /\ monPc = "plan"
    /\ due' = charge_once_is_due /\ todo' = seen.devices
    /\ seen' = [NoSnapshot EXCEPT !.plugged = seen.plugged, !.devices = seen.devices, !.range = seen.range]
    /\ monPc' = "devices"
    /\ UNCHANGED <<monRest, runtime, config, view, call, faults,
                   mRuntime, mConfig, behaviourOk, restored, changed>>

(* reconcile_thresholds: threshold_intent, reconciliation_target, apply_threshold *)

Calibrates(b) == mRuntime.op = "calibration" /\ mRuntime.opBattery = b
Restoration(b) == mRuntime.once = b /\ due
Temporary(b) == Calibrates(b) \/ (mRuntime.once = b /\ ~due)
Policy(b) == ~Temporary(b) /\ ~Restoration(b)

configured(b) == IF mConfig[b].manage THEN desired_thresholds(mConfig[b]) ELSE None

reconciliation_target(b) ==
    IF b \in mRuntime.fence /\ ~Restoration(b) THEN None
    ELSE IF Calibrates(b) THEN (IF mRuntime.phase = "restoring" THEN None ELSE Full)
    ELSE IF Temporary(b) THEN Full
    ELSE IF Restoration(b) THEN mRuntime.onceRange
    ELSE configured(b)

target_is_applied(b) ==
    LET target == reconciliation_target(b) IN
    /\ target # None
    /\ \/ seen.range[b] = target
       \/ Temporary(b) /\ seen.range[b] \in EndsFull
       \/ Policy(b) /\ seen.range[b] = mConfig[b].accepted

deviceRest == <<monRest, runtime, config, view, faults, mRuntime, behaviourOk, due>>

\* The device b is finished; for the charge-once battery this decides "restored".
DeviceDone(b, applied) ==
    /\ todo' = todo \ {b}
    /\ restored' = IF mRuntime.once = b THEN applied ELSE restored

\* No target for b, or sysfs already showed it.
ThresholdKept(b) ==
    /\ monPc = "devices" /\ b \in todo
    /\ reconciliation_target(b) = None \/ target_is_applied(b)
    /\ DeviceDone(b, target_is_applied(b))
    /\ UNCHANGED <<deviceRest, monPc, seen, mConfig, changed, call>>

ThresholdWrite(b) ==
    /\ monPc = "devices" /\ b \in todo
    /\ reconciliation_target(b) # None /\ ~target_is_applied(b)
    /\ Dispatch("monitor", b, reconciliation_target(b), None)
    /\ monPc' = "threshold"
    /\ UNCHANGED <<deviceRest, seen, mConfig, todo, restored, changed>>

\* A restoration must be read back exactly; a policy accepts what the firmware reports.
ThresholdWritten ==
    /\ monPc = "threshold" /\ Ok("monitor")
    /\ seen' = update_observed_thresholds(seen, call.battery, call.actual)
    /\ DeviceDone(call.battery, Restoration(call.battery) => call.actual = call.range)
    /\ IF Policy(call.battery)
         THEN mConfig' = [mConfig EXCEPT ![call.battery] = accepting(@, call.actual)] /\ changed' = TRUE
         ELSE UNCHANGED <<mConfig, changed>>
    /\ monPc' = "devices" /\ call' = NoCall
    /\ UNCHANGED deviceRest

ThresholdNotWritten ==
    /\ monPc = "threshold" /\ (Refused("monitor") \/ Unknown("monitor"))
    /\ DeviceDone(call.battery, FALSE)
    /\ monPc' = "devices" /\ call' = NoCall
    /\ UNCHANGED <<deviceRest, seen, mConfig, changed>>

without_charge_once(r) ==
    [fence |-> r.fence \ {r.once}, once |-> None, onceRange |-> None,
     op |-> "none", opBattery |-> None, phase |-> "none", opRange |-> None]

\* finish_charge_once_if_due: the in-memory record, without the charge-once
\* marker and without its fence, replaces the file.
FinishPass ==
    /\ monPc = "devices" /\ todo = {}
    /\ IF changed THEN SaveConfig(mConfig) ELSE UNCHANGED config
    /\ IF due /\ restored
         THEN Save(without_charge_once(mRuntime))
         ELSE UNCHANGED runtime
    /\ monPc' = "publish"
    /\ mRuntime' = DefaultRuntime /\ mConfig' = DefaultConfig
    /\ due' = FALSE /\ restored' = FALSE /\ changed' = FALSE
    /\ UNCHANGED <<monRest, view, call, faults, seen, behaviourOk, todo>>

\* The lock is released before the store is updated.
Publish ==
    /\ monPc = "publish"
    /\ view' = ViewOf(seen)
    /\ monPc' = "idle" /\ seen' = NoSnapshot
    /\ UNCHANGED <<monRest, runtime, config, call, faults,
                   mRuntime, mConfig, behaviourOk, due, todo, restored, changed>>

-----------------------------------------------------------------------------
(* The environment *)

envRest == <<hardware, runtime, config, view, call, apiVars, monVars, ops>>

\* The 24 h or 48 h deadline of a charge-once or a calibration passes.
Expire ==
    /\ ~expired /\ (runtime.once # None \/ runtime.op = "calibration")
    /\ expired' = TRUE
    /\ UNCHANGED <<envRest, disk, faults>>

DiskFails ==
    /\ disk = "ok" /\ Fault
    /\ disk' \in Disks \ {"ok"}
    /\ UNCHANGED <<envRest, expired>>

DiskHeals ==
    /\ disk # "ok" /\ disk' = "ok"
    /\ UNCHANGED <<envRest, expired, faults>>

\* The daemon dies.  A call that was sent may still be executed; what it did is
\* recorded nowhere.
Crash ==
    /\ apiPc # "idle" \/ monPc # "idle"
    /\ Fault
    /\ IF call.status = "sent" THEN MayHaveWritten ELSE UNCHANGED hardware
    /\ view' = ViewOf(NoSnapshot) /\ call' = NoCall
    /\ apiPc' = "idle" /\ apiBattery' = None /\ apiPrevious' = DefaultRuntime
    /\ apiPreviousConfig' = DefaultConfig /\ cancel' = FALSE
    /\ monPc' = "idle" /\ seen' = NoSnapshot /\ mRuntime' = DefaultRuntime /\ mConfig' = DefaultConfig
    /\ behaviourOk' = FALSE /\ due' = FALSE /\ restored' = FALSE /\ changed' = FALSE /\ todo' = {}
    /\ UNCHANGED <<disk, expired, runtime, config, ops>>

-----------------------------------------------------------------------------

ApiStart ==
    \E b \in Batteries :
        \/ \E r \in Policies : SetThresholds(b, r)
        \/ \E r \in Policies : SetThresholdsInactive(b, r)
        \/ \E enabled \in BOOLEAN, r \in Policies : SetProtection(b, enabled, r)
        \/ ChargeOnce(b)
        \/ StartInhibition(b)
        \/ StopInhibition(b)
        \/ StartCalibration(b)
        \/ CancelCalibration(b)

ApiReply ==
    \/ PolicyApplied \/ PolicyFailed
    \/ CalibrationRangeSet \/ CalibrationBehaviourRefused
    \/ CancelBehaviourSet \/ CancelRangeSet
    \/ OperationStarted \/ OperationStopped \/ OperationRolledBack \/ OperationLeft

Pass ==
    \/ MonLock
    \/ OperationDone \/ EnsureBehaviour \/ BehaviourEnsured \/ BehaviourNotEnsured
    \/ FinishOperation \/ FinishBehaviourReplied \/ FinishVerified \/ FinishRetained
    \/ PlanThresholds
    \/ \E b \in Batteries : ThresholdKept(b) \/ ThresholdWrite(b)
    \/ ThresholdWritten \/ ThresholdNotWritten
    \/ FinishPass

Helper == HelperOk \/ HelperUnknown

Environment == Expire \/ DiskFails \/ DiskHeals \/ Crash \/ Cancel

Next ==
    \/ ApiStart \/ ApiReply
    \/ MonRead \/ MonReadFails \/ Pass \/ Publish
    \/ HelperOk \/ HelperRefused \/ HelperUnknown
    \/ Environment

\* The handlers and the monitor are tasks the runtime keeps polling; the mutex is
\* fair (tokio queues waiters), so a waiting pass gets it; a call is answered or
\* times out.  Faults are bounded and disks heal.
Fairness ==
    /\ WF_vars(ApiReply) /\ WF_vars(MonRead) /\ SF_vars(Pass) /\ WF_vars(Publish)
    /\ WF_vars(Helper) /\ WF_vars(DiskHeals)

Spec == Init /\ [][Next]_vars /\ Fairness

-----------------------------------------------------------------------------
(* Properties *)

\* A charge behaviour other than "auto" never outlives the durable marker that
\* will undo it: a forced discharge always has its calibration on disk, and an
\* inhibition its own, through rollbacks, unknown outcomes, failed saves and
\* crashes (api/battery.rs begin_calibration, battery/mod.rs finish_runtime_operation).
BehaviourHasMarker ==
    \A b \in Batteries :
        /\ hwBehaviour[b] = "force-discharge" =>
               runtime.op = "calibration" /\ runtime.opBattery = b
        /\ hwBehaviour[b] = "inhibit-charge" =>
               runtime.op = "inhibit" /\ runtime.opBattery = b

\* A durable marker is never overwritten: until the record is empty again it
\* names the same operation, battery and range to restore, although handlers,
\* rollbacks and a pass working on a copy all replace the record whole
\* (has_durable_operation, save_runtime).
MarkerNotOverwritten ==
    [][(runtime.once # None \/ runtime.op # "none") /\ (runtime'.once # None \/ runtime'.op # "none") =>
          /\ runtime'.once = runtime.once /\ runtime'.onceRange = runtime.onceRange
          /\ runtime'.op = runtime.op /\ runtime'.opBattery = runtime.opBattery
          /\ runtime'.opRange = runtime.opRange]_vars

\* Once a calibration is durably restoring, force-discharge is not resumed and
\* the marker disappears only when the recorded range and "auto" are in place
\* (finish_runtime_operation, battery_cancel_calibration).
RestoringIsFinal ==
    [][\A b \in Batteries :
        runtime.op = "calibration" /\ runtime.opBattery = b /\ runtime.phase = "restoring" =>
            /\ hwBehaviour'[b] = "force-discharge" => hwBehaviour[b] = "force-discharge"
            /\ \/ runtime' = [runtime EXCEPT !.fence = runtime'.fence]
               \/ runtime'.op = "none" /\ hwRange[b] = runtime.opRange /\ hwBehaviour[b] = "auto"]_vars

\* A charge-once whose deadline has passed ends: some pass restores the range
\* and clears the marker, whatever fails a bounded number of times.
ChargeOnceEnds == runtime.once # None /\ expired ~> runtime.once = None

\* A calibration that is being restored is eventually restored and forgotten.
RestorationEnds ==
    runtime.op = "calibration" /\ runtime.phase = "restoring" ~> runtime.op # "calibration"

\* Every handler gives its reply and releases the effects lock.
HandlersReturn == apiPc # "idle" ~> apiPc = "idle"

-----------------------------------------------------------------------------
(* What the documentation states and the code does not keep *)

\* docs/battery.md: "If restoration fails or readback differs, the recovery
\* marker is retained".  rollback_calibration_hardware, which tries to put the
\* range back after forced discharge was refused, does not return without the
\* range in place and the marker gone.
CalibrationMarkerKept ==
    [][ apiPc = "calUndo" /\ apiPc' = "idle" /\ runtime.op = "calibration"
        /\ hwRange[apiBattery] # runtime.opRange
            => runtime'.op = "calibration" ]_vars

\* docs/battery.md: "The runtime marker is cleared only after verified
\* restoration."  The pass clears a charge-once only with the range back.
ChargeOnceMarkerKept ==
    [][\A b \in Batteries :
        runtime.once = b /\ runtime'.once # b /\ monPc = "devices"
            => hwRange[b] = runtime.onceRange]_vars
=============================================================================
