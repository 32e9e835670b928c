------------------------ MODULE BatteryControlProofs ------------------------
(***************************************************************************)
(* Charge control for every set of batteries and ranges, every readback    *)
(* the firmware may give and every number of operations and faults: the    *)
(* variables keep their types, a charge behaviour never outlives its       *)
(* marker, a marker is never overwritten by another operation, and a        *)
(* restoration that has begun is carried through.                           *)
(***************************************************************************)
EXTENDS BatteryControl, TLAPS

MonHolds == monPc \in {"operation", "ensure", "finishBehaviour", "finishRange", "plan",
                       "devices", "threshold"}
MonCalls == monPc \in {"ensure", "finishBehaviour", "finishRange", "threshold"}

\* A record names the battery and range of whatever operation it holds.
WellFormed(r) ==
    /\ r.once = None \/ r.op = "none"
    /\ r.once # None => r.onceRange \in Ranges
    /\ r.op # "none" => r.opBattery \in Batteries
    /\ r.op = "calibration" => r.opRange \in Ranges

\* The lock and the helper call belong to one side.
LockInv ==
    /\ MonHolds => apiPc = "idle"
    /\ apiPc # "idle" => call.by = "api" /\ call.battery = apiBattery /\ apiBattery \in Batteries
    /\ MonCalls => call.by = "monitor" /\ call.battery \in Batteries
    /\ apiPc = "idle" /\ ~MonCalls => call = NoCall
    /\ call.status # "none" => call.behaviour \in Behaviours \/ call.range \in Ranges
    /\ call.status = "ok" /\ call.behaviour = None => call.actual \in Ranges

AllAuto == \A b \in Batteries : hwBehaviour[b] = "auto"

\* What each step of a handler knows of the record, the call and the hardware.
ApiInv ==
    /\ apiPc \in {"once", "inhibit", "calRange", "calBehaviour", "calUndo"} =>
           ~has_durable_operation(apiPrevious)
    /\ apiPc \in {"policy", "once", "calRange", "calUndo", "cancelRange"} => call.behaviour = None
    /\ apiPc \in {"policy", "once"} => runtime.op = "none"
    /\ apiPc = "policy" => runtime.once = None
    /\ apiPc = "inhibit" => call.behaviour = "inhibit-charge"
    /\ apiPc \in {"resume", "cancelBehaviour"} => call.behaviour = "auto"
    /\ apiPc = "calBehaviour" => call.behaviour = "force-discharge"
    /\ apiPc \in {"inhibit", "resume"} => runtime.op = "inhibit" /\ runtime.opBattery = apiBattery
    /\ apiPc \in {"calRange", "calBehaviour", "calUndo"} =>
           runtime.op = "calibration" /\ runtime.opBattery = apiBattery /\ runtime.phase = "discharging"
    /\ apiPc \in {"cancelBehaviour", "cancelRange"} =>
           runtime.op = "calibration" /\ runtime.opBattery = apiBattery /\ runtime.phase = "restoring"
    /\ apiPc \in {"calRange", "calUndo"} => AllAuto
    /\ apiPc \in {"inhibit", "calBehaviour"} /\ call.status \in {"sent", "refused"} => AllAuto
    /\ apiPc \in {"resume", "cancelBehaviour"} /\ call.status = "ok" => hwBehaviour[apiBattery] = "auto"
    /\ apiPc = "cancelRange" => hwBehaviour[apiBattery] = "auto"
    /\ apiPc = "cancelRange" /\ call.status = "ok" => hwRange[apiBattery] = call.actual

\* The pass works on the record on disk, or on one without an operation.
MonInv ==
    /\ MonHolds /\ (mRuntime.op # "none" \/ mRuntime.once # None) =>
           /\ mRuntime.op = runtime.op /\ mRuntime.opBattery = runtime.opBattery
           /\ mRuntime.opRange = runtime.opRange
           /\ mRuntime.once = runtime.once /\ mRuntime.onceRange = runtime.onceRange
           /\ runtime.phase = "restoring" => mRuntime.phase = "restoring"
    /\ monPc = "operation" /\ mRuntime.op # "none" => mRuntime.phase = runtime.phase
    /\ monPc = "ensure" =>
           /\ mRuntime.op # "none" /\ call.battery = mRuntime.opBattery
           /\ call.behaviour = "force-discharge" =>
                  mRuntime.op = "calibration" /\ mRuntime.phase = "discharging"
           /\ call.behaviour = "inhibit-charge" => mRuntime.op = "inhibit"
           /\ call.behaviour # None
    /\ monPc \in {"finishBehaviour", "finishRange"} =>
           /\ mRuntime.op = "calibration" /\ call.battery = mRuntime.opBattery
           /\ mRuntime.phase = "restoring" /\ runtime.phase = "restoring"
    /\ monPc = "finishBehaviour" => call.behaviour = "auto"
    /\ monPc = "finishBehaviour" /\ call.status = "ok" => hwBehaviour[call.battery] = "auto"
    /\ monPc = "finishRange" => call.behaviour = None
    /\ monPc = "finishRange" /\ behaviourOk => hwBehaviour[call.battery] = "auto"
    /\ monPc = "finishRange" /\ call.status = "ok" => hwRange[call.battery] = call.actual
    /\ monPc = "threshold" => call.behaviour = None
    /\ monPc \in {"devices", "threshold"} /\ due => mRuntime.once # None

IInv ==
    /\ TypeOK
    /\ WellFormed(runtime) /\ WellFormed(mRuntime) /\ WellFormed(apiPrevious)
    /\ BehaviourHasMarker
    /\ LockInv /\ ApiInv /\ MonInv

\* The fields of a value have the types its set gives them.
LEMMA FieldTypes ==
  /\ \A r \in Runtime :
       /\ r.fence \subseteq Batteries /\ r.once \in Batteries \cup {None}
       /\ r.onceRange \in Ranges \cup {None} /\ r.op \in Kinds
       /\ r.opBattery \in Batteries \cup {None} /\ r.phase \in Phases
       /\ r.opRange \in Ranges \cup {None}
  /\ \A d \in DeviceConfig : d.manage \in BOOLEAN /\ d.enabled \in BOOLEAN /\ d.range \in Ranges
  /\ \A s \in Snapshot :
       s.plugged \in BOOLEAN /\ s.devices \subseteq Batteries /\ s.range \in [Batteries -> Ranges]
  /\ \A v \in View : v.devices \subseteq Batteries /\ v.range \in [Batteries -> Ranges]
  /\ \A c \in Call :
       /\ c.battery \in Batteries \cup {None} /\ c.range \in Ranges \cup {None}
       /\ c.behaviour \in Behaviours \cup {None} /\ c.actual \in Ranges \cup {None}
BY ControlAssumption DEF Runtime, DeviceConfig, Snapshot, View, Call

\* What the actions build has its type: the record,
LEMMA RuntimeTypes ==
  /\ DefaultRuntime \in Runtime
  /\ \A r \in Runtime :
       /\ clear_operation(r) \in Runtime /\ without_charge_once(r) \in Runtime
       /\ \A p \in Phases : in_phase(r, p) \in Runtime
       /\ \A b \in Batteries : fenced(r, b) \in Runtime /\ unfenced(r, b) \in Runtime
  /\ \A b \in Batteries, f \in SUBSET Batteries :
       /\ start_inhibit(b, f) \in Runtime
       /\ \A r \in Ranges : start_charge_once(b, r, f) \in Runtime /\ start_calibration(b, r, f) \in Runtime
<1>1. DefaultRuntime \in Runtime
  BY DEF DefaultRuntime, Runtime, Kinds, Phases
<1>2. ASSUME NEW r \in Runtime
      PROVE  /\ clear_operation(r) \in Runtime /\ without_charge_once(r) \in Runtime
             /\ \A p \in Phases : in_phase(r, p) \in Runtime
             /\ \A b \in Batteries : fenced(r, b) \in Runtime /\ unfenced(r, b) \in Runtime
  BY DEF Runtime, Kinds, Phases, clear_operation, without_charge_once, in_phase, fenced, unfenced
<1>3. ASSUME NEW b \in Batteries, NEW f \in SUBSET Batteries
      PROVE  /\ start_inhibit(b, f) \in Runtime
             /\ \A r \in Ranges : start_charge_once(b, r, f) \in Runtime /\ start_calibration(b, r, f) \in Runtime
  BY DEF Runtime, Kinds, Phases, start_inhibit, start_charge_once, start_calibration
<1> QED
  BY <1>1, <1>2, <1>3

\* the policy of a device,
LEMMA ConfigTypes ==
  /\ DefaultConfig \in [Batteries -> DeviceConfig]
  /\ \A d \in DeviceConfig, r \in Ranges : accepting(d, r) \in DeviceConfig
  /\ \A m, e \in BOOLEAN, r \in Policies, a \in Ranges \cup {None} :
       [manage |-> m, enabled |-> e, range |-> r, accepted |-> a] \in DeviceConfig
  /\ \A d \in DeviceConfig, r \in Policies :
       [manage |-> d.manage, enabled |-> d.enabled, range |-> r, accepted |-> d.accepted] \in DeviceConfig
BY ControlAssumption DEF DefaultConfig, DeviceConfig, accepting

\* what was observed and what is published of it,
LEMMA SnapshotTypes ==
  /\ NoSnapshot \in Snapshot
  /\ \A s \in Snapshot :
       /\ ViewOf(s) \in View
       /\ [NoSnapshot EXCEPT !.plugged = s.plugged, !.devices = s.devices, !.range = s.range] \in Snapshot
       /\ \A b \in Batteries, r \in Ranges : update_observed_thresholds(s, b, r) \in Snapshot
       /\ \A b \in Batteries, c \in Behaviours : observed_behaviour(s, b, c) \in Snapshot
<1>1. NoSnapshot \in Snapshot
  BY ControlAssumption DEF NoSnapshot, Snapshot, Behaviours, Levels
<1>2. ASSUME NEW s \in Snapshot
      PROVE  /\ ViewOf(s) \in View
             /\ [NoSnapshot EXCEPT !.plugged = s.plugged, !.devices = s.devices, !.range = s.range] \in Snapshot
             /\ \A b \in Batteries, r \in Ranges : update_observed_thresholds(s, b, r) \in Snapshot
             /\ \A b \in Batteries, c \in Behaviours : observed_behaviour(s, b, c) \in Snapshot
  <2>1. ViewOf(s) \in View
    BY DEF ViewOf, View, Snapshot
  <2>2. [NoSnapshot EXCEPT !.plugged = s.plugged, !.devices = s.devices, !.range = s.range] \in Snapshot
    BY <1>1 DEF Snapshot
  <2>3. \A b \in Batteries, r \in Ranges : update_observed_thresholds(s, b, r) \in Snapshot
    BY DEF update_observed_thresholds, Snapshot
  <2>4. \A b \in Batteries, c \in Behaviours : observed_behaviour(s, b, c) \in Snapshot
    BY DEF observed_behaviour, Snapshot
  <2> QED
    BY <2>1, <2>2, <2>3, <2>4
<1> QED
  BY <1>1, <1>2

LEMMA EmptySnapshot == NoSnapshot \in Snapshot /\ ViewOf(NoSnapshot) \in View
  BY SnapshotTypes

LEMMA RefreshTypes == ASSUME TypeOK, refresh_state PROVE view' \in View
  BY DEF TypeOK, refresh_state, View

\* and the helper call.
LEMMA CallTypes ==
  /\ NoCall \in Call
  /\ \A c \in Call, st \in {"ok", "refused", "unknown"}, a \in Ranges \cup {None} : replied(c, st, a) \in Call
  /\ \A w \in {"api", "monitor"}, b \in Batteries, r \in Ranges \cup {None},
        c \in Behaviours \cup {None}, st \in {"sent", "refused"} :
       [by |-> w, battery |-> b, range |-> r, behaviour |-> c, status |-> st, actual |-> None] \in Call
BY DEF Call, NoCall, replied

\* What the actions build holds.
LEMMA RecordFields ==
  /\ \A r \in Runtime, b \in Batteries :
       /\ fenced(r, b).once = r.once /\ fenced(r, b).onceRange = r.onceRange
       /\ fenced(r, b).op = r.op /\ fenced(r, b).opBattery = r.opBattery
       /\ fenced(r, b).phase = r.phase /\ fenced(r, b).opRange = r.opRange
       /\ unfenced(r, b).once = r.once /\ unfenced(r, b).onceRange = r.onceRange
       /\ unfenced(r, b).op = r.op /\ unfenced(r, b).opBattery = r.opBattery
       /\ unfenced(r, b).phase = r.phase /\ unfenced(r, b).opRange = r.opRange
  /\ \A r \in Runtime, p \in Phases :
       /\ in_phase(r, p).once = r.once /\ in_phase(r, p).onceRange = r.onceRange
       /\ in_phase(r, p).op = r.op /\ in_phase(r, p).opBattery = r.opBattery
       /\ in_phase(r, p).phase = p /\ in_phase(r, p).opRange = r.opRange
  /\ \A r \in Runtime :
       /\ clear_operation(r).once = r.once /\ clear_operation(r).onceRange = r.onceRange
       /\ clear_operation(r).op = "none"
       /\ without_charge_once(r).once = None /\ without_charge_once(r).op = "none"
  /\ \A b, r, f :
       /\ start_inhibit(b, f).once = None /\ start_inhibit(b, f).op = "inhibit"
       /\ start_inhibit(b, f).opBattery = b
       /\ start_charge_once(b, r, f).once = b /\ start_charge_once(b, r, f).onceRange = r
       /\ start_charge_once(b, r, f).op = "none"
       /\ start_calibration(b, r, f).once = None /\ start_calibration(b, r, f).op = "calibration"
       /\ start_calibration(b, r, f).opBattery = b /\ start_calibration(b, r, f).opRange = r
       /\ start_calibration(b, r, f).phase = "discharging"
  /\ \A st, a : \A c \in Call :
       /\ replied(c, st, a).by = c.by /\ replied(c, st, a).battery = c.battery
       /\ replied(c, st, a).range = c.range /\ replied(c, st, a).behaviour = c.behaviour
       /\ replied(c, st, a).status = st /\ replied(c, st, a).actual = a
<1>1. \A r \in Runtime, b \in Batteries :
       /\ fenced(r, b).once = r.once /\ fenced(r, b).onceRange = r.onceRange
       /\ fenced(r, b).op = r.op /\ fenced(r, b).opBattery = r.opBattery
       /\ fenced(r, b).phase = r.phase /\ fenced(r, b).opRange = r.opRange
       /\ unfenced(r, b).once = r.once /\ unfenced(r, b).onceRange = r.onceRange
       /\ unfenced(r, b).op = r.op /\ unfenced(r, b).opBattery = r.opBattery
       /\ unfenced(r, b).phase = r.phase /\ unfenced(r, b).opRange = r.opRange
  BY DEF fenced, unfenced, Runtime
<1>2. \A r \in Runtime, p \in Phases :
       /\ in_phase(r, p).once = r.once /\ in_phase(r, p).onceRange = r.onceRange
       /\ in_phase(r, p).op = r.op /\ in_phase(r, p).opBattery = r.opBattery
       /\ in_phase(r, p).phase = p /\ in_phase(r, p).opRange = r.opRange
  BY DEF in_phase, Runtime
<1>3. \A r \in Runtime :
       /\ clear_operation(r).once = r.once /\ clear_operation(r).onceRange = r.onceRange
       /\ clear_operation(r).op = "none"
       /\ without_charge_once(r).once = None /\ without_charge_once(r).op = "none"
  BY DEF clear_operation, without_charge_once, Runtime
<1>4. \A st, a : \A c \in Call :
       /\ replied(c, st, a).by = c.by /\ replied(c, st, a).battery = c.battery
       /\ replied(c, st, a).range = c.range /\ replied(c, st, a).behaviour = c.behaviour
       /\ replied(c, st, a).status = st /\ replied(c, st, a).actual = a
  BY DEF replied, Call
<1> QED
  BY <1>1, <1>2, <1>3, <1>4 DEF start_inhibit, start_charge_once, start_calibration

\* The record and the call of an idle side.
LEMMA Defaults ==
  /\ DefaultRuntime.once = None /\ DefaultRuntime.op = "none"
  /\ NoCall.status = "none" /\ NoCall.behaviour = None
BY DEF DefaultRuntime, NoCall

\* A call that was made names a battery and what to write to it.
LEMMA CallFacts ==
  ASSUME IInv, call.status # "none"
  PROVE  /\ call.battery \in Batteries
         /\ call.behaviour = None => call.range \in Ranges /\ Readback[call.range] \subseteq Ranges
         /\ call.behaviour # None => call.behaviour \in Behaviours
         /\ call.range # None => call.range \in Ranges /\ Readback[call.range] \subseteq Ranges
<1>1. call.battery \in Batteries
  BY Defaults DEF IInv, LockInv, MonCalls
<1>2. call.behaviour \in Behaviours \cup {None} /\ call.range \in Ranges \cup {None}
  BY FieldTypes DEF IInv, TypeOK
<1> QED
  BY <1>1, <1>2, ControlAssumption DEF IInv, LockInv

\* A call that sets a behaviour is covered by the marker on disk.
LEMMA BehaviourCovered ==
  ASSUME IInv, call.status = "sent"
  PROVE  /\ call.behaviour = "force-discharge" =>
                runtime.op = "calibration" /\ runtime.opBattery = call.battery
         /\ call.behaviour = "inhibit-charge" =>
                runtime.op = "inhibit" /\ runtime.opBattery = call.battery
<1>1. apiPc # "idle" \/ MonCalls
  BY Defaults DEF IInv, LockInv
<1>2. CASE apiPc # "idle"
  <2>1. call.battery = apiBattery /\ apiPc \in ApiSteps
    BY <1>2 DEF IInv, LockInv, TypeOK
  <2> QED
    BY <1>2, <2>1, ControlAssumption DEF IInv, ApiInv, ApiSteps, Behaviours
<1>3. CASE MonCalls
  <2>1. CASE monPc = "ensure"
    BY <2>1 DEF IInv, MonInv, MonHolds
  <2>2. CASE monPc # "ensure"
    BY <1>3, <2>2, ControlAssumption DEF IInv, MonInv, MonCalls, Behaviours
  <2> QED
    BY <2>1, <2>2
<1> QED
  BY <1>1, <1>2, <1>3

\* A write of unknown outcome leaves the hardware in its types.
LEMMA MayHaveWrittenTypes ==
  ASSUME TypeOK, MayHaveWritten
  PROVE  hwRange' \in [Batteries -> Ranges] /\ hwBehaviour' \in [Batteries -> Behaviours]
<1>1. hwRange \in [Batteries -> Ranges] /\ hwBehaviour \in [Batteries -> Behaviours] /\ call \in Call
  BY DEF TypeOK
<1>2. call.range \in Ranges \cup {None} /\ call.behaviour \in Behaviours \cup {None}
  BY <1>1, FieldTypes
<1>3. CASE UNCHANGED hardware
  BY <1>1, <1>3 DEF hardware
<1>4. CASE /\ call.behaviour # None
           /\ hwBehaviour' = [hwBehaviour EXCEPT ![call.battery] = call.behaviour]
           /\ UNCHANGED hwRange
  BY <1>1, <1>2, <1>4
<1>5. CASE /\ call.range # None
           /\ \E r \in Readback[call.range] \cup Torn :
                 hwRange' = [hwRange EXCEPT ![call.battery] = r]
           /\ UNCHANGED hwBehaviour
  <2>1. Readback[call.range] \cup Torn \subseteq Ranges
    BY <1>2, <1>5, ControlAssumption
  <2> QED
    BY <1>1, <1>5, <2>1
<1> QED
  BY <1>3, <1>4, <1>5 DEF MayHaveWritten

LEMMA HelperOkKeeps ==
  ASSUME IInv, HelperOk
  PROVE  IInv'
<1> USE ControlAssumption DEF HelperOk, apiVars, monVars
<1>1. TypeOK'
  <2>1. hwRange' \in [Batteries -> Ranges]
    BY FieldTypes DEF IInv, TypeOK, LockInv, MonCalls, MonHolds, WellFormed, Behaviours, Phases, Kinds
  <2>2. hwBehaviour' \in [Batteries -> Behaviours]
    BY FieldTypes DEF IInv, TypeOK, Behaviours, Phases
  <2>3. call' \in Call
    <3>1. call \in Call /\ call.status # "none"
      BY DEF IInv, TypeOK
    <3>2. CASE call.behaviour # None
      BY <3>1, <3>2, CallTypes
    <3>3. CASE call.behaviour = None
      <4>1. PICK r \in Readback[call.range] : call' = replied(call, "ok", r)
        BY <3>3
      <4>2. r \in Ranges
        BY <3>1, <3>3, <4>1, CallFacts
      <4> QED
        BY <3>1, <4>1, <4>2, CallTypes
    <3> QED
      BY <3>2, <3>3
  <2> QED
    BY <2>1, <2>2, <2>3 DEF IInv, TypeOK
<1>2. (WellFormed(runtime) /\ WellFormed(mRuntime) /\ WellFormed(apiPrevious))'
  BY DEF IInv, WellFormed
<1>3. BehaviourHasMarker'
  <2>1. call.battery \in Batteries
    BY CallFacts
  <2>2. ASSUME NEW c \in Batteries
        PROVE  hwBehaviour'[c] = hwBehaviour[c] \/ (c = call.battery /\ hwBehaviour'[c] = call.behaviour)
    BY <2>1, <2>2 DEF IInv, TypeOK
  <2>3. runtime'.op = runtime.op /\ runtime'.opBattery = runtime.opBattery
    BY <2>1, RecordFields DEF IInv, TypeOK
  <2> QED
    BY <2>2, <2>3, BehaviourCovered DEF IInv, BehaviourHasMarker
<1>4. LockInv'
  BY RecordFields, FieldTypes, Defaults DEF IInv, TypeOK, LockInv, MonHolds, MonCalls, WellFormed, Behaviours
<1>5. ApiInv'
  BY RecordFields, FieldTypes, Defaults DEF IInv, LockInv, MonHolds, MonCalls, ApiInv, MonInv, WellFormed,
       BehaviourHasMarker, AllAuto, TypeOK, Behaviours, Phases, Kinds
<1>6. MonInv'
  BY RecordFields, FieldTypes, Defaults DEF IInv, LockInv, MonHolds, MonCalls, ApiInv, MonInv, WellFormed,
       BehaviourHasMarker, AllAuto, TypeOK, Behaviours, Phases, Kinds
<1> QED
  BY <1>1, <1>2, <1>3, <1>4, <1>5, <1>6 DEF IInv

LEMMA HelperRefusedKeeps ==
  ASSUME IInv, HelperRefused
  PROVE  IInv'
<1> USE ControlAssumption DEF HelperRefused, hardware, apiVars, monVars, Fault
<1>1. TypeOK'
  <2>1. call' \in Call
    BY CallTypes DEF IInv, TypeOK
  <2>2. faults' \in Nat
    BY DEF IInv, TypeOK
  <2> QED
    BY <2>1, <2>2 DEF IInv, TypeOK
<1>2. (WellFormed(runtime) /\ WellFormed(mRuntime) /\ WellFormed(apiPrevious))'
  BY DEF IInv, WellFormed
<1>3. BehaviourHasMarker'
  BY DEF IInv, BehaviourHasMarker
<1>4. LockInv'
  BY RecordFields, FieldTypes, Defaults DEF IInv, TypeOK, LockInv, MonHolds, MonCalls, WellFormed, Behaviours
<1>5. ApiInv'
  BY RecordFields DEF IInv, TypeOK, ApiInv, AllAuto, LockInv, MonHolds, MonCalls, BehaviourHasMarker, Phases
<1>6. MonInv'
  BY RecordFields, Defaults DEF IInv, TypeOK, MonInv, MonHolds, LockInv, MonCalls, WellFormed, Phases
<1> QED
  BY <1>1, <1>2, <1>3, <1>4, <1>5, <1>6 DEF IInv

LEMMA HelperUnknownKeeps ==
  ASSUME IInv, HelperUnknown
  PROVE  IInv'
<1> USE ControlAssumption DEF HelperUnknown, hardware, apiVars, monVars, Fault, MayHaveWritten, RuntimeUsable
<1>1. TypeOK'
  <2>1. hwRange' \in [Batteries -> Ranges]
    BY MayHaveWrittenTypes DEF IInv
  <2>2. hwBehaviour' \in [Batteries -> Behaviours]
    BY MayHaveWrittenTypes DEF IInv
  <2>3. runtime' \in Runtime
    <3>1. call.battery \in Batteries
      BY CallFacts
    <3>2. runtime \in Runtime
      BY DEF IInv, TypeOK
    <3>3. fenced(runtime, call.battery) \in Runtime
      BY <3>1, <3>2, RuntimeTypes
    <3> QED
      BY <3>2, <3>3
  <2>4. call' \in Call
    BY CallTypes DEF IInv, TypeOK
  <2>5. faults' \in Nat
    BY DEF IInv, TypeOK
  <2> QED
    BY <2>1, <2>2, <2>3, <2>4, <2>5 DEF IInv, TypeOK
<1>2. (WellFormed(runtime) /\ WellFormed(mRuntime) /\ WellFormed(apiPrevious))'
  BY RecordFields, FieldTypes, Defaults DEF IInv, LockInv, MonHolds, MonCalls, ApiInv, MonInv, WellFormed,
       BehaviourHasMarker, AllAuto, TypeOK, Behaviours, Phases, Kinds
<1>3. BehaviourHasMarker'
  <2>1. call.battery \in Batteries
    BY CallFacts
  <2>2. ASSUME NEW c \in Batteries
        PROVE  hwBehaviour'[c] = hwBehaviour[c] \/ (c = call.battery /\ hwBehaviour'[c] = call.behaviour)
    BY <2>1, <2>2 DEF IInv, TypeOK
  <2>3. runtime'.op = runtime.op /\ runtime'.opBattery = runtime.opBattery
    BY <2>1, RecordFields DEF IInv, TypeOK
  <2> QED
    BY <2>2, <2>3, BehaviourCovered DEF IInv, BehaviourHasMarker
<1>4. LockInv'
  BY RecordFields, FieldTypes, Defaults DEF IInv, TypeOK, LockInv, MonHolds, MonCalls, WellFormed, Behaviours
<1>5. ApiInv'
  BY RecordFields DEF IInv, TypeOK, ApiInv, AllAuto, LockInv, MonHolds, MonCalls, BehaviourHasMarker, Phases
<1>6. MonInv'
  BY RecordFields, Defaults DEF IInv, TypeOK, MonInv, MonHolds, LockInv, MonCalls, WellFormed, Phases
<1> QED
  BY <1>1, <1>2, <1>3, <1>4, <1>5, <1>6 DEF IInv

LEMMA SetThresholdsKeeps ==
  ASSUME IInv, NEW b \in Batteries, NEW r \in Policies, SetThresholds(b, r)
  PROVE  IInv'
<1> USE ControlAssumption DEF SetThresholds, ChangePolicy, EditablePolicy, Begin, LockFree,
     desired_thresholds, has_durable_operation, hardware, monVars, Dispatch, RuntimeUsable
<1>1. TypeOK'
  <2>1. config' \in [Batteries -> DeviceConfig]
    BY ConfigTypes DEF IInv, TypeOK
  <2>2. call' \in Call
    BY CallTypes DEF IInv, TypeOK
  <2>3. apiPc' \in ApiSteps
    BY DEF ApiSteps
  <2>4. apiBattery' \in Batteries \cup {None}
    BY DEF IInv, TypeOK
  <2>5. apiPrevious' \in Runtime
    BY RuntimeTypes DEF IInv, TypeOK
  <2>6. apiPreviousConfig' \in [Batteries -> DeviceConfig]
    BY ConfigTypes DEF IInv, TypeOK
  <2>7. cancel' \in BOOLEAN
    BY DEF IInv, TypeOK
  <2>8. ops' \in Nat
    BY DEF IInv, TypeOK
  <2> QED
    BY <2>1, <2>2, <2>3, <2>4, <2>5, <2>6, <2>7, <2>8 DEF IInv, TypeOK
<1>2. (WellFormed(runtime) /\ WellFormed(mRuntime) /\ WellFormed(apiPrevious))'
  BY DEF IInv, WellFormed
<1>3. BehaviourHasMarker'
  BY DEF IInv, BehaviourHasMarker
<1>4. LockInv'
  BY DEF IInv, LockInv, MonHolds, MonCalls
<1>5. ApiInv'
  BY DEF IInv, ApiInv
<1>6. MonInv'
  BY DEF IInv, MonInv, MonHolds
<1> QED
  BY <1>1, <1>2, <1>3, <1>4, <1>5, <1>6 DEF IInv

LEMMA SetThresholdsInactiveKeeps ==
  ASSUME IInv, NEW b \in Batteries, NEW r \in Policies, SetThresholdsInactive(b, r)
  PROVE  IInv'
<1> USE ControlAssumption DEF SetThresholdsInactive, EditablePolicy, LockFree, has_durable_operation,
     hardware, monVars, apiVars
<1>1. TypeOK'
  <2>1. config' \in [Batteries -> DeviceConfig]
    BY ConfigTypes DEF IInv, TypeOK
  <2>2. view' \in View
    BY RefreshTypes DEF IInv, TypeOK
  <2>3. ops' \in Nat
    BY DEF IInv, TypeOK
  <2> QED
    BY <2>1, <2>2, <2>3 DEF IInv, TypeOK
<1>2. (WellFormed(runtime) /\ WellFormed(mRuntime) /\ WellFormed(apiPrevious))'
  BY DEF IInv, WellFormed
<1>3. BehaviourHasMarker'
  BY DEF IInv, BehaviourHasMarker
<1>4. LockInv'
  BY DEF IInv, LockInv, MonHolds, MonCalls
<1>5. ApiInv'
  BY DEF IInv, ApiInv
<1>6. MonInv'
  BY DEF IInv, MonInv, MonHolds
<1> QED
  BY <1>1, <1>2, <1>3, <1>4, <1>5, <1>6 DEF IInv

LEMMA SetProtectionKeeps ==
  ASSUME IInv, NEW b \in Batteries, NEW enabled \in BOOLEAN, NEW r \in Policies, SetProtection(b, enabled, r)
  PROVE  IInv'
<1> USE ControlAssumption DEF SetProtection, ChangePolicy, EditablePolicy, Begin, LockFree,
     desired_thresholds, has_durable_operation, hardware, monVars, Dispatch, RuntimeUsable
<1>1. TypeOK'
  <2>1. config' \in [Batteries -> DeviceConfig]
    BY ConfigTypes DEF IInv, TypeOK
  <2>2. call' \in Call
    BY CallTypes DEF IInv, TypeOK
  <2>3. apiPc' \in ApiSteps
    BY DEF ApiSteps
  <2>4. apiBattery' \in Batteries \cup {None}
    BY DEF IInv, TypeOK
  <2>5. apiPrevious' \in Runtime
    BY RuntimeTypes DEF IInv, TypeOK
  <2>6. apiPreviousConfig' \in [Batteries -> DeviceConfig]
    BY ConfigTypes DEF IInv, TypeOK
  <2>7. cancel' \in BOOLEAN
    BY DEF IInv, TypeOK
  <2>8. ops' \in Nat
    BY DEF IInv, TypeOK
  <2> QED
    BY <2>1, <2>2, <2>3, <2>4, <2>5, <2>6, <2>7, <2>8 DEF IInv, TypeOK
<1>2. (WellFormed(runtime) /\ WellFormed(mRuntime) /\ WellFormed(apiPrevious))'
  BY DEF IInv, WellFormed
<1>3. BehaviourHasMarker'
  BY DEF IInv, BehaviourHasMarker
<1>4. LockInv'
  BY DEF IInv, LockInv, MonHolds, MonCalls
<1>5. ApiInv'
  BY DEF IInv, ApiInv
<1>6. MonInv'
  BY DEF IInv, MonInv, MonHolds
<1> QED
  BY <1>1, <1>2, <1>3, <1>4, <1>5, <1>6 DEF IInv

LEMMA ChargeOnceKeeps ==
  ASSUME IInv, NEW b \in Batteries, ChargeOnce(b)
  PROVE  IInv'
<1> USE ControlAssumption DEF ChargeOnce, Begin, LockFree, has_durable_operation, hardware, monVars,
     Dispatch, RuntimeUsable
<1>1. TypeOK'
  <2>1. runtime' \in Runtime
    BY RuntimeTypes, FieldTypes DEF IInv, TypeOK, Behaviours, Phases
  <2>2. call' \in Call
    BY CallTypes DEF IInv, TypeOK
  <2>3. apiPc' \in ApiSteps
    BY DEF ApiSteps
  <2>4. apiBattery' \in Batteries \cup {None}
    BY DEF IInv, TypeOK
  <2>5. apiPrevious' \in Runtime
    BY RuntimeTypes DEF IInv, TypeOK
  <2>6. apiPreviousConfig' \in [Batteries -> DeviceConfig]
    BY ConfigTypes DEF IInv, TypeOK
  <2>7. cancel' \in BOOLEAN
    BY DEF IInv, TypeOK
  <2>8. ops' \in Nat
    BY DEF IInv, TypeOK
  <2>9. expired' \in BOOLEAN
    BY DEF IInv, TypeOK
  <2> QED
    BY <2>1, <2>2, <2>3, <2>4, <2>5, <2>6, <2>7, <2>8, <2>9 DEF IInv, TypeOK
<1>2. (WellFormed(runtime) /\ WellFormed(mRuntime) /\ WellFormed(apiPrevious))'
  BY RecordFields, FieldTypes, Defaults DEF IInv, LockInv, MonHolds, MonCalls, ApiInv, MonInv, WellFormed,
       BehaviourHasMarker, AllAuto, TypeOK, Behaviours, Phases, Kinds
<1>3. BehaviourHasMarker'
  BY DEF IInv, BehaviourHasMarker
<1>4. LockInv'
  BY DEF IInv, LockInv, MonHolds, MonCalls
<1>5. ApiInv'
  BY RecordFields DEF IInv, TypeOK, ApiInv, AllAuto, LockInv, MonHolds, MonCalls, BehaviourHasMarker, Phases
<1>6. MonInv'
  BY DEF IInv, MonInv, MonHolds
<1> QED
  BY <1>1, <1>2, <1>3, <1>4, <1>5, <1>6 DEF IInv

LEMMA StartInhibitionKeeps ==
  ASSUME IInv, NEW b \in Batteries, StartInhibition(b)
  PROVE  IInv'
<1> USE ControlAssumption DEF StartInhibition, Begin, LockFree, has_durable_operation, hardware, monVars,
     Dispatch, RuntimeUsable
<1>1. TypeOK'
  <2>1. runtime' \in Runtime
    BY RuntimeTypes, FieldTypes DEF IInv, TypeOK, Behaviours, Phases
  <2>2. call' \in Call
    BY CallTypes, FieldTypes DEF IInv, TypeOK, Behaviours, Phases
  <2>3. apiPc' \in ApiSteps
    BY DEF ApiSteps
  <2>4. apiBattery' \in Batteries \cup {None}
    BY DEF IInv, TypeOK
  <2>5. apiPrevious' \in Runtime
    BY RuntimeTypes DEF IInv, TypeOK
  <2>6. apiPreviousConfig' \in [Batteries -> DeviceConfig]
    BY ConfigTypes DEF IInv, TypeOK
  <2>7. cancel' \in BOOLEAN
    BY DEF IInv, TypeOK
  <2>8. ops' \in Nat
    BY DEF IInv, TypeOK
  <2> QED
    BY <2>1, <2>2, <2>3, <2>4, <2>5, <2>6, <2>7, <2>8 DEF IInv, TypeOK
<1>2. (WellFormed(runtime) /\ WellFormed(mRuntime) /\ WellFormed(apiPrevious))'
  BY RecordFields, Defaults DEF IInv, TypeOK, WellFormed, Phases
<1>3. BehaviourHasMarker'
  BY DEF IInv, BehaviourHasMarker
<1>4. LockInv'
  BY RecordFields, FieldTypes, Defaults DEF IInv, TypeOK, LockInv, MonHolds, MonCalls, WellFormed, Behaviours
<1>5. ApiInv'
  BY RecordFields, FieldTypes, Defaults DEF IInv, LockInv, MonHolds, MonCalls, ApiInv, MonInv, WellFormed,
       BehaviourHasMarker, AllAuto, TypeOK, Behaviours, Phases, Kinds
<1>6. MonInv'
  BY DEF IInv, MonInv, MonHolds
<1> QED
  BY <1>1, <1>2, <1>3, <1>4, <1>5, <1>6 DEF IInv

LEMMA StopInhibitionKeeps ==
  ASSUME IInv, NEW b \in Batteries, StopInhibition(b)
  PROVE  IInv'
<1> USE ControlAssumption DEF StopInhibition, Begin, LockFree, hardware, monVars, Dispatch, RuntimeUsable
<1>1. TypeOK'
  <2>1. call' \in Call
    BY CallTypes, FieldTypes DEF IInv, TypeOK, Behaviours, Phases
  <2>2. apiPc' \in ApiSteps
    BY DEF ApiSteps
  <2>3. apiBattery' \in Batteries \cup {None}
    BY DEF IInv, TypeOK
  <2>4. apiPrevious' \in Runtime
    BY RuntimeTypes DEF IInv, TypeOK
  <2>5. apiPreviousConfig' \in [Batteries -> DeviceConfig]
    BY ConfigTypes DEF IInv, TypeOK
  <2>6. cancel' \in BOOLEAN
    BY DEF IInv, TypeOK
  <2>7. ops' \in Nat
    BY DEF IInv, TypeOK
  <2> QED
    BY <2>1, <2>2, <2>3, <2>4, <2>5, <2>6, <2>7 DEF IInv, TypeOK
<1>2. (WellFormed(runtime) /\ WellFormed(mRuntime) /\ WellFormed(apiPrevious))'
  BY DEF IInv, WellFormed
<1>3. BehaviourHasMarker'
  BY DEF IInv, BehaviourHasMarker
<1>4. LockInv'
  BY RecordFields, FieldTypes, Defaults DEF IInv, TypeOK, LockInv, MonHolds, MonCalls, WellFormed, Behaviours
<1>5. ApiInv'
  BY DEF IInv, ApiInv
<1>6. MonInv'
  BY DEF IInv, MonInv, MonHolds
<1> QED
  BY <1>1, <1>2, <1>3, <1>4, <1>5, <1>6 DEF IInv

LEMMA StartCalibrationKeeps ==
  ASSUME IInv, NEW b \in Batteries, StartCalibration(b)
  PROVE  IInv'
<1> USE ControlAssumption DEF StartCalibration, Begin, LockFree, has_durable_operation, hardware, monVars,
     Dispatch, RuntimeUsable
<1>1. TypeOK'
  <2>1. runtime' \in Runtime
    BY RuntimeTypes, FieldTypes DEF IInv, TypeOK, Behaviours, Phases
  <2>2. call' \in Call
    BY CallTypes DEF IInv, TypeOK
  <2>3. apiPc' \in ApiSteps
    BY DEF ApiSteps
  <2>4. apiBattery' \in Batteries \cup {None}
    BY DEF IInv, TypeOK
  <2>5. apiPrevious' \in Runtime
    BY RuntimeTypes DEF IInv, TypeOK
  <2>6. apiPreviousConfig' \in [Batteries -> DeviceConfig]
    BY ConfigTypes DEF IInv, TypeOK
  <2>7. cancel' \in BOOLEAN
    BY DEF IInv, TypeOK
  <2>8. ops' \in Nat
    BY DEF IInv, TypeOK
  <2>9. expired' \in BOOLEAN
    BY DEF IInv, TypeOK
  <2> QED
    BY <2>1, <2>2, <2>3, <2>4, <2>5, <2>6, <2>7, <2>8, <2>9 DEF IInv, TypeOK
<1>2. (WellFormed(runtime) /\ WellFormed(mRuntime) /\ WellFormed(apiPrevious))'
  BY RecordFields, FieldTypes, Defaults DEF IInv, LockInv, MonHolds, MonCalls, ApiInv, MonInv, WellFormed,
       BehaviourHasMarker, AllAuto, TypeOK, Behaviours, Phases, Kinds
<1>3. BehaviourHasMarker'
  BY DEF IInv, BehaviourHasMarker
<1>4. LockInv'
  BY DEF IInv, LockInv, MonHolds, MonCalls
<1>5. ApiInv'
  BY RecordFields, FieldTypes, Defaults DEF IInv, LockInv, MonHolds, MonCalls, ApiInv, MonInv, WellFormed,
       BehaviourHasMarker, AllAuto, TypeOK, Behaviours, Phases, Kinds
<1>6. MonInv'
  BY DEF IInv, MonInv, MonHolds
<1> QED
  BY <1>1, <1>2, <1>3, <1>4, <1>5, <1>6 DEF IInv

LEMMA CancelCalibrationKeeps ==
  ASSUME IInv, NEW b \in Batteries, CancelCalibration(b)
  PROVE  IInv'
<1> USE ControlAssumption DEF CancelCalibration, Begin, LockFree, hardware, monVars, Dispatch, RuntimeUsable
<1>1. TypeOK'
  <2>1. runtime' \in Runtime
    BY RuntimeTypes, FieldTypes DEF IInv, TypeOK, Behaviours, Phases
  <2>2. call' \in Call
    BY CallTypes, FieldTypes DEF IInv, TypeOK, Behaviours, Phases
  <2>3. apiPc' \in ApiSteps
    BY DEF ApiSteps
  <2>4. apiBattery' \in Batteries \cup {None}
    BY DEF IInv, TypeOK
  <2>5. apiPrevious' \in Runtime
    BY RuntimeTypes DEF IInv, TypeOK
  <2>6. apiPreviousConfig' \in [Batteries -> DeviceConfig]
    BY ConfigTypes DEF IInv, TypeOK
  <2>7. cancel' \in BOOLEAN
    BY DEF IInv, TypeOK
  <2>8. ops' \in Nat
    BY DEF IInv, TypeOK
  <2> QED
    BY <2>1, <2>2, <2>3, <2>4, <2>5, <2>6, <2>7, <2>8 DEF IInv, TypeOK
<1>2. (WellFormed(runtime) /\ WellFormed(mRuntime) /\ WellFormed(apiPrevious))'
  BY RecordFields, Defaults DEF IInv, TypeOK, WellFormed, Phases
<1>3. BehaviourHasMarker'
  BY RecordFields DEF IInv, TypeOK, BehaviourHasMarker, Phases
<1>4. LockInv'
  BY RecordFields, FieldTypes, Defaults DEF IInv, TypeOK, LockInv, MonHolds, MonCalls, WellFormed, Behaviours
<1>5. ApiInv'
  BY RecordFields DEF IInv, TypeOK, ApiInv, AllAuto, LockInv, MonHolds, MonCalls, BehaviourHasMarker, Phases
<1>6. MonInv'
  BY DEF IInv, MonInv, MonHolds
<1> QED
  BY <1>1, <1>2, <1>3, <1>4, <1>5, <1>6 DEF IInv

LEMMA PolicyAppliedKeeps ==
  ASSUME IInv, PolicyApplied
  PROVE  IInv'
<1> USE ControlAssumption DEF PolicyApplied, Ok, SaveConfig, hardware_response, RuntimeUsable, Return,
     hardware, monVars
<1>1. TypeOK'
  <2>1. config' \in [Batteries -> DeviceConfig]
    <3>1. apiBattery \in Batteries /\ call.actual \in Ranges
      BY DEF IInv, LockInv, ApiInv
    <3> QED
      BY <3>1, ConfigTypes DEF IInv, TypeOK
  <2>2. runtime' \in Runtime
    BY RuntimeTypes, FieldTypes DEF IInv, TypeOK, LockInv, MonCalls, WellFormed, Behaviours, Phases
  <2>3. view' \in View
    BY RefreshTypes DEF IInv, TypeOK
  <2>4. apiPc' \in ApiSteps
    BY DEF ApiSteps
  <2>5. apiBattery' \in Batteries \cup {None}
    BY DEF IInv, TypeOK
  <2>6. apiPrevious' \in Runtime
    BY RuntimeTypes DEF IInv, TypeOK
  <2>7. apiPreviousConfig' \in [Batteries -> DeviceConfig]
    BY ConfigTypes DEF IInv, TypeOK
  <2>8. cancel' \in BOOLEAN
    BY DEF IInv, TypeOK
  <2>9. call' \in Call
    BY CallTypes DEF IInv, TypeOK
  <2> QED
    BY <2>1, <2>2, <2>3, <2>4, <2>5, <2>6, <2>7, <2>8, <2>9 DEF IInv, TypeOK
<1>2. (WellFormed(runtime) /\ WellFormed(mRuntime) /\ WellFormed(apiPrevious))'
  BY RecordFields, FieldTypes, Defaults DEF IInv, LockInv, MonHolds, MonCalls, ApiInv, MonInv, WellFormed,
       BehaviourHasMarker, AllAuto, TypeOK, Behaviours, Phases, Kinds
<1>3. BehaviourHasMarker'
  BY RecordFields DEF IInv, TypeOK, BehaviourHasMarker, ApiInv, MonInv, MonHolds, AllAuto
<1>4. LockInv'
  BY Defaults DEF IInv, LockInv, MonHolds, MonCalls, NoCall
<1>5. ApiInv'
  BY DEF IInv, ApiInv
<1>6. MonInv'
  BY DEF IInv, MonInv, MonHolds, LockInv, MonCalls
<1> QED
  BY <1>1, <1>2, <1>3, <1>4, <1>5, <1>6 DEF IInv

LEMMA PolicyFailedKeeps ==
  ASSUME IInv, PolicyFailed
  PROVE  IInv'
<1> USE ControlAssumption DEF PolicyFailed, Refused, Unknown, SaveConfig, Return, hardware, monVars
<1>1. TypeOK'
  <2>1. config' \in [Batteries -> DeviceConfig]
    BY ConfigTypes DEF IInv, TypeOK
  <2>2. apiPc' \in ApiSteps
    BY DEF ApiSteps
  <2>3. apiBattery' \in Batteries \cup {None}
    BY DEF IInv, TypeOK
  <2>4. apiPrevious' \in Runtime
    BY RuntimeTypes DEF IInv, TypeOK
  <2>5. apiPreviousConfig' \in [Batteries -> DeviceConfig]
    BY ConfigTypes DEF IInv, TypeOK
  <2>6. cancel' \in BOOLEAN
    BY DEF IInv, TypeOK
  <2>7. call' \in Call
    BY CallTypes DEF IInv, TypeOK
  <2> QED
    BY <2>1, <2>2, <2>3, <2>4, <2>5, <2>6, <2>7 DEF IInv, TypeOK
<1>2. (WellFormed(runtime) /\ WellFormed(mRuntime) /\ WellFormed(apiPrevious))'
  BY RecordFields, Defaults DEF IInv, TypeOK, WellFormed, Phases
<1>3. BehaviourHasMarker'
  BY DEF IInv, BehaviourHasMarker
<1>4. LockInv'
  BY Defaults DEF IInv, LockInv, MonHolds, MonCalls, NoCall
<1>5. ApiInv'
  BY DEF IInv, ApiInv
<1>6. MonInv'
  BY DEF IInv, MonInv, MonHolds, LockInv, MonCalls
<1> QED
  BY <1>1, <1>2, <1>3, <1>4, <1>5, <1>6 DEF IInv

LEMMA CalibrationRangeSetKeeps ==
  ASSUME IInv, CalibrationRangeSet
  PROVE  IInv'
<1> USE ControlAssumption DEF CalibrationRangeSet, Ok, Continue, Dispatch, hardware, monVars
<1>1. TypeOK'
  <2>1. call' \in Call
    BY CallTypes, FieldTypes DEF IInv, TypeOK, LockInv, MonCalls, WellFormed, Behaviours, Phases
  <2>2. apiPc' \in ApiSteps
    BY DEF ApiSteps
  <2> QED
    BY <2>1, <2>2 DEF IInv, TypeOK
<1>2. (WellFormed(runtime) /\ WellFormed(mRuntime) /\ WellFormed(apiPrevious))'
  BY DEF IInv, WellFormed
<1>3. BehaviourHasMarker'
  BY DEF IInv, BehaviourHasMarker
<1>4. LockInv'
  BY RecordFields, FieldTypes, Defaults DEF IInv, TypeOK, LockInv, MonHolds, MonCalls, WellFormed, Behaviours
<1>5. ApiInv'
  BY DEF IInv, ApiInv, AllAuto, LockInv, MonHolds, MonCalls
<1>6. MonInv'
  BY DEF IInv, MonInv, MonHolds, LockInv, MonCalls
<1> QED
  BY <1>1, <1>2, <1>3, <1>4, <1>5, <1>6 DEF IInv

LEMMA CalibrationBehaviourRefusedKeeps ==
  ASSUME IInv, CalibrationBehaviourRefused
  PROVE  IInv'
<1> USE ControlAssumption DEF CalibrationBehaviourRefused, Refused, Continue, Dispatch, hardware, monVars
<1>1. TypeOK'
  <2>1. call' \in Call
    BY CallTypes, FieldTypes DEF IInv, TypeOK, LockInv, MonCalls, WellFormed, Behaviours, Phases
  <2>2. apiPc' \in ApiSteps
    BY DEF ApiSteps
  <2> QED
    BY <2>1, <2>2 DEF IInv, TypeOK
<1>2. (WellFormed(runtime) /\ WellFormed(mRuntime) /\ WellFormed(apiPrevious))'
  BY DEF IInv, WellFormed
<1>3. BehaviourHasMarker'
  BY DEF IInv, BehaviourHasMarker
<1>4. LockInv'
  BY RecordFields, FieldTypes, Defaults DEF IInv, LockInv, MonHolds, MonCalls, ApiInv, MonInv, WellFormed,
       BehaviourHasMarker, AllAuto, TypeOK, Behaviours, Phases, Kinds
<1>5. ApiInv'
  BY DEF IInv, ApiInv, AllAuto, LockInv, MonHolds, MonCalls
<1>6. MonInv'
  BY DEF IInv, MonInv, MonHolds, LockInv, MonCalls
<1> QED
  BY <1>1, <1>2, <1>3, <1>4, <1>5, <1>6 DEF IInv

LEMMA CancelBehaviourSetKeeps ==
  ASSUME IInv, CancelBehaviourSet
  PROVE  IInv'
<1> USE ControlAssumption DEF CancelBehaviourSet, Ok, Continue, Dispatch, hardware, monVars
<1>1. TypeOK'
  <2>1. call' \in Call
    BY CallTypes, FieldTypes DEF IInv, TypeOK, LockInv, MonCalls, WellFormed, Behaviours, Phases
  <2>2. apiPc' \in ApiSteps
    BY DEF ApiSteps
  <2> QED
    BY <2>1, <2>2 DEF IInv, TypeOK
<1>2. (WellFormed(runtime) /\ WellFormed(mRuntime) /\ WellFormed(apiPrevious))'
  BY DEF IInv, WellFormed
<1>3. BehaviourHasMarker'
  BY DEF IInv, BehaviourHasMarker
<1>4. LockInv'
  BY RecordFields, FieldTypes, Defaults DEF IInv, LockInv, MonHolds, MonCalls, ApiInv, MonInv, WellFormed,
       BehaviourHasMarker, AllAuto, TypeOK, Behaviours, Phases, Kinds
<1>5. ApiInv'
  BY DEF IInv, ApiInv
<1>6. MonInv'
  BY DEF IInv, MonInv, MonHolds, LockInv, MonCalls
<1> QED
  BY <1>1, <1>2, <1>3, <1>4, <1>5, <1>6 DEF IInv

LEMMA CancelRangeSetKeeps ==
  ASSUME IInv, CancelRangeSet
  PROVE  IInv'
<1> USE ControlAssumption DEF CancelRangeSet, Ok, hardware_response, RuntimeUsable, Return, hardware, monVars
<1>1. TypeOK'
  <2>1. runtime' \in Runtime
    <3>1. apiBattery \in Batteries /\ runtime \in Runtime
      BY DEF IInv, LockInv, TypeOK
    <3>2. clear_operation(runtime) \in Runtime
      BY <3>1, RuntimeTypes
    <3>3. unfenced(clear_operation(runtime), apiBattery) \in Runtime
      BY <3>1, <3>2, RuntimeTypes
    <3> QED
      BY <3>1, <3>2, <3>3
  <2>2. view' \in View
    BY RefreshTypes DEF IInv, TypeOK
  <2>3. apiPc' \in ApiSteps
    BY DEF ApiSteps
  <2>4. apiBattery' \in Batteries \cup {None}
    BY DEF IInv, TypeOK
  <2>5. apiPrevious' \in Runtime
    BY RuntimeTypes DEF IInv, TypeOK
  <2>6. apiPreviousConfig' \in [Batteries -> DeviceConfig]
    BY ConfigTypes DEF IInv, TypeOK
  <2>7. cancel' \in BOOLEAN
    BY DEF IInv, TypeOK
  <2>8. call' \in Call
    BY CallTypes DEF IInv, TypeOK
  <2> QED
    BY <2>1, <2>2, <2>3, <2>4, <2>5, <2>6, <2>7, <2>8 DEF IInv, TypeOK
<1>2. (WellFormed(runtime) /\ WellFormed(mRuntime) /\ WellFormed(apiPrevious))'
  <2>1. apiBattery \in Batteries /\ clear_operation(runtime) \in Runtime
    BY RuntimeTypes DEF IInv, TypeOK, LockInv
  <2>2. WellFormed(runtime)'
    BY <2>1, RecordFields DEF IInv, TypeOK, WellFormed
  <2> QED
    BY <2>2, Defaults DEF IInv, WellFormed
<1>3. BehaviourHasMarker'
  BY RecordFields DEF IInv, TypeOK, BehaviourHasMarker, ApiInv, MonInv, MonHolds, AllAuto
<1>4. LockInv'
  BY Defaults DEF IInv, LockInv, MonHolds, MonCalls, NoCall
<1>5. ApiInv'
  BY DEF IInv, ApiInv
<1>6. MonInv'
  BY DEF IInv, MonInv, MonHolds, LockInv, MonCalls
<1> QED
  BY <1>1, <1>2, <1>3, <1>4, <1>5, <1>6 DEF IInv

LEMMA OperationStartedKeeps ==
  ASSUME IInv, OperationStarted
  PROVE  IInv'
<1> USE ControlAssumption DEF OperationStarted, Ok, hardware_response, RuntimeUsable, Return, hardware,
     monVars
<1>1. TypeOK'
  <2>1. runtime' \in Runtime
    BY RuntimeTypes, FieldTypes DEF IInv, TypeOK, LockInv, MonCalls, WellFormed, Behaviours, Phases
  <2>2. view' \in View
    BY RefreshTypes DEF IInv, TypeOK
  <2>3. apiPc' \in ApiSteps
    BY DEF ApiSteps
  <2>4. apiBattery' \in Batteries \cup {None}
    BY DEF IInv, TypeOK
  <2>5. apiPrevious' \in Runtime
    BY RuntimeTypes DEF IInv, TypeOK
  <2>6. apiPreviousConfig' \in [Batteries -> DeviceConfig]
    BY ConfigTypes DEF IInv, TypeOK
  <2>7. cancel' \in BOOLEAN
    BY DEF IInv, TypeOK
  <2>8. call' \in Call
    BY CallTypes DEF IInv, TypeOK
  <2> QED
    BY <2>1, <2>2, <2>3, <2>4, <2>5, <2>6, <2>7, <2>8 DEF IInv, TypeOK
<1>2. (WellFormed(runtime) /\ WellFormed(mRuntime) /\ WellFormed(apiPrevious))'
  BY RecordFields, FieldTypes, Defaults DEF IInv, LockInv, MonHolds, MonCalls, ApiInv, MonInv, WellFormed,
       BehaviourHasMarker, AllAuto, TypeOK, Behaviours, Phases, Kinds
<1>3. BehaviourHasMarker'
  BY RecordFields DEF IInv, TypeOK, BehaviourHasMarker, ApiInv, MonInv, MonHolds, AllAuto
<1>4. LockInv'
  BY Defaults DEF IInv, LockInv, MonHolds, MonCalls, NoCall
<1>5. ApiInv'
  BY DEF IInv, ApiInv
<1>6. MonInv'
  BY DEF IInv, MonInv, MonHolds, LockInv, MonCalls
<1> QED
  BY <1>1, <1>2, <1>3, <1>4, <1>5, <1>6 DEF IInv

LEMMA OperationStoppedKeeps ==
  ASSUME IInv, OperationStopped
  PROVE  IInv'
<1> USE ControlAssumption DEF OperationStopped, Ok, hardware_response, RuntimeUsable, Return, hardware,
     monVars
<1>1. TypeOK'
  <2>1. runtime' \in Runtime
    BY RuntimeTypes, FieldTypes DEF IInv, TypeOK, LockInv, MonCalls, WellFormed, Behaviours, Phases
  <2>2. view' \in View
    BY RefreshTypes DEF IInv, TypeOK
  <2>3. apiPc' \in ApiSteps
    BY DEF ApiSteps
  <2>4. apiBattery' \in Batteries \cup {None}
    BY DEF IInv, TypeOK
  <2>5. apiPrevious' \in Runtime
    BY RuntimeTypes DEF IInv, TypeOK
  <2>6. apiPreviousConfig' \in [Batteries -> DeviceConfig]
    BY ConfigTypes DEF IInv, TypeOK
  <2>7. cancel' \in BOOLEAN
    BY DEF IInv, TypeOK
  <2>8. call' \in Call
    BY CallTypes DEF IInv, TypeOK
  <2> QED
    BY <2>1, <2>2, <2>3, <2>4, <2>5, <2>6, <2>7, <2>8 DEF IInv, TypeOK
<1>2. (WellFormed(runtime) /\ WellFormed(mRuntime) /\ WellFormed(apiPrevious))'
  <2>1. apiBattery \in Batteries /\ clear_operation(runtime) \in Runtime
    BY RuntimeTypes DEF IInv, TypeOK, LockInv
  <2>2. WellFormed(runtime)'
    BY <2>1, RecordFields DEF IInv, TypeOK, WellFormed
  <2> QED
    BY <2>2, Defaults DEF IInv, WellFormed
<1>3. BehaviourHasMarker'
  BY RecordFields DEF IInv, TypeOK, BehaviourHasMarker, ApiInv, MonInv, MonHolds, AllAuto
<1>4. LockInv'
  BY Defaults DEF IInv, LockInv, MonHolds, MonCalls, NoCall
<1>5. ApiInv'
  BY DEF IInv, ApiInv
<1>6. MonInv'
  BY DEF IInv, MonInv, MonHolds, LockInv, MonCalls
<1> QED
  BY <1>1, <1>2, <1>3, <1>4, <1>5, <1>6 DEF IInv

LEMMA OperationRolledBackKeeps ==
  ASSUME IInv, OperationRolledBack
  PROVE  IInv'
<1> USE ControlAssumption DEF OperationRolledBack, Ok, Refused, Save, has_durable_operation, Return,
     hardware, monVars
<1>1. TypeOK'
  <2>1. runtime' \in Runtime
    BY RuntimeTypes DEF IInv, TypeOK
  <2>2. apiPc' \in ApiSteps
    BY DEF ApiSteps
  <2>3. apiBattery' \in Batteries \cup {None}
    BY DEF IInv, TypeOK
  <2>4. apiPrevious' \in Runtime
    BY RuntimeTypes DEF IInv, TypeOK
  <2>5. apiPreviousConfig' \in [Batteries -> DeviceConfig]
    BY ConfigTypes DEF IInv, TypeOK
  <2>6. cancel' \in BOOLEAN
    BY DEF IInv, TypeOK
  <2>7. call' \in Call
    BY CallTypes DEF IInv, TypeOK
  <2> QED
    BY <2>1, <2>2, <2>3, <2>4, <2>5, <2>6, <2>7 DEF IInv, TypeOK
<1>2. (WellFormed(runtime) /\ WellFormed(mRuntime) /\ WellFormed(apiPrevious))'
  BY RecordFields, Defaults DEF IInv, TypeOK, WellFormed, Phases
<1>3. BehaviourHasMarker'
  BY RecordFields DEF IInv, TypeOK, BehaviourHasMarker, ApiInv, MonInv, MonHolds, AllAuto
<1>4. LockInv'
  BY Defaults DEF IInv, LockInv, MonHolds, MonCalls, NoCall
<1>5. ApiInv'
  BY DEF IInv, ApiInv
<1>6. MonInv'
  BY DEF IInv, MonInv, MonHolds, LockInv, MonCalls
<1> QED
  BY <1>1, <1>2, <1>3, <1>4, <1>5, <1>6 DEF IInv

LEMMA OperationLeftKeeps ==
  ASSUME IInv, OperationLeft
  PROVE  IInv'
<1> USE ControlAssumption DEF OperationLeft, Refused, Unknown, Return, hardware, monVars
<1>1. TypeOK'
  <2>1. apiPc' \in ApiSteps
    BY DEF ApiSteps
  <2>2. apiBattery' \in Batteries \cup {None}
    BY DEF IInv, TypeOK
  <2>3. apiPrevious' \in Runtime
    BY RuntimeTypes DEF IInv, TypeOK
  <2>4. apiPreviousConfig' \in [Batteries -> DeviceConfig]
    BY ConfigTypes DEF IInv, TypeOK
  <2>5. cancel' \in BOOLEAN
    BY DEF IInv, TypeOK
  <2>6. call' \in Call
    BY CallTypes DEF IInv, TypeOK
  <2> QED
    BY <2>1, <2>2, <2>3, <2>4, <2>5, <2>6 DEF IInv, TypeOK
<1>2. (WellFormed(runtime) /\ WellFormed(mRuntime) /\ WellFormed(apiPrevious))'
  BY RecordFields, Defaults DEF IInv, TypeOK, WellFormed, Phases
<1>3. BehaviourHasMarker'
  BY DEF IInv, BehaviourHasMarker
<1>4. LockInv'
  BY Defaults DEF IInv, LockInv, MonHolds, MonCalls, NoCall
<1>5. ApiInv'
  BY DEF IInv, ApiInv
<1>6. MonInv'
  BY DEF IInv, MonInv, MonHolds, LockInv, MonCalls
<1> QED
  BY <1>1, <1>2, <1>3, <1>4, <1>5, <1>6 DEF IInv

LEMMA CancelKeeps ==
  ASSUME IInv, Cancel
  PROVE  IInv'
<1> USE ControlAssumption DEF Cancel, hardware, monVars
<1>1. TypeOK'
  BY DEF IInv, TypeOK
<1>2. (WellFormed(runtime) /\ WellFormed(mRuntime) /\ WellFormed(apiPrevious))'
  BY DEF IInv, WellFormed
<1>3. BehaviourHasMarker'
  BY DEF IInv, BehaviourHasMarker
<1>4. LockInv'
  BY DEF IInv, LockInv, MonHolds, MonCalls
<1>5. ApiInv'
  BY DEF IInv, ApiInv, AllAuto, LockInv, MonHolds, MonCalls
<1>6. MonInv'
  BY DEF IInv, MonInv, MonHolds
<1> QED
  BY <1>1, <1>2, <1>3, <1>4, <1>5, <1>6 DEF IInv

LEMMA MonReadKeeps ==
  ASSUME IInv, MonRead
  PROVE  IInv'
<1> USE ControlAssumption DEF MonRead, read_state, Fault, monRest, hardware, apiVars
<1>1. TypeOK'
  <2>1. seen' \in Snapshot
    BY DEF IInv, TypeOK, Snapshot
  <2>2. monPc' \in MonSteps
    BY DEF MonSteps
  <2>3. faults' \in Nat
    BY DEF IInv, TypeOK
  <2> QED
    BY <2>1, <2>2, <2>3 DEF IInv, TypeOK
<1>2. (WellFormed(runtime) /\ WellFormed(mRuntime) /\ WellFormed(apiPrevious))'
  BY DEF IInv, WellFormed
<1>3. BehaviourHasMarker'
  BY DEF IInv, BehaviourHasMarker
<1>4. LockInv'
  BY DEF IInv, LockInv, MonHolds, MonCalls
<1>5. ApiInv'
  BY DEF IInv, ApiInv, AllAuto, LockInv, MonHolds, MonCalls
<1>6. MonInv'
  BY DEF IInv, MonInv, MonHolds
<1> QED
  BY <1>1, <1>2, <1>3, <1>4, <1>5, <1>6 DEF IInv

LEMMA MonReadFailsKeeps ==
  ASSUME IInv, MonReadFails
  PROVE  IInv'
<1> USE ControlAssumption DEF MonReadFails, Fault, monRest, hardware, apiVars, monVars
<1>1. TypeOK'
  <2>1. view' \in View
    BY SnapshotTypes DEF IInv, TypeOK
  <2>2. faults' \in Nat
    BY DEF IInv, TypeOK
  <2> QED
    BY <2>1, <2>2 DEF IInv, TypeOK
<1>2. (WellFormed(runtime) /\ WellFormed(mRuntime) /\ WellFormed(apiPrevious))'
  BY DEF IInv, WellFormed
<1>3. BehaviourHasMarker'
  BY DEF IInv, BehaviourHasMarker
<1>4. LockInv'
  BY DEF IInv, LockInv, MonHolds, MonCalls
<1>5. ApiInv'
  BY DEF IInv, ApiInv, AllAuto, LockInv, MonHolds, MonCalls
<1>6. MonInv'
  BY DEF IInv, MonInv, MonHolds
<1> QED
  BY <1>1, <1>2, <1>3, <1>4, <1>5, <1>6 DEF IInv

LEMMA MonLockKeeps ==
  ASSUME IInv, MonLock
  PROVE  IInv'
<1> USE ControlAssumption DEF MonLock, monRest, hardware, apiVars
<1>1. TypeOK'
  <2>1. mRuntime' \in Runtime
    BY RuntimeTypes DEF IInv, TypeOK
  <2>2. mConfig' \in [Batteries -> DeviceConfig]
    BY ConfigTypes DEF IInv, TypeOK
  <2>3. monPc' \in MonSteps
    BY DEF MonSteps
  <2> QED
    BY <2>1, <2>2, <2>3 DEF IInv, TypeOK
<1>2. (WellFormed(runtime) /\ WellFormed(mRuntime) /\ WellFormed(apiPrevious))'
  BY RecordFields, Defaults DEF IInv, TypeOK, WellFormed, Phases
<1>3. BehaviourHasMarker'
  BY DEF IInv, BehaviourHasMarker
<1>4. LockInv'
  BY DEF IInv, LockInv, MonHolds, MonCalls
<1>5. ApiInv'
  BY DEF IInv, ApiInv
<1>6. MonInv'
  BY Defaults DEF IInv, MonInv, MonHolds, LockInv, MonCalls, WellFormed
<1> QED
  BY <1>1, <1>2, <1>3, <1>4, <1>5, <1>6 DEF IInv

LEMMA OperationDoneKeeps ==
  ASSUME IInv, OperationDone
  PROVE  IInv'
<1> USE ControlAssumption DEF OperationDone, MustFinish, MustEnsure, Wanted, Advanced, Save, opFenced,
     opRest, monRest, hardware, apiVars
<1>1. TypeOK'
  <2>1. runtime' \in Runtime
    BY RuntimeTypes, FieldTypes DEF IInv, TypeOK, Behaviours, Phases
  <2>2. mRuntime' \in Runtime
    BY RuntimeTypes, FieldTypes DEF IInv, TypeOK, Behaviours, Phases
  <2>3. monPc' \in MonSteps
    BY DEF MonSteps
  <2> QED
    BY <2>1, <2>2, <2>3 DEF IInv, TypeOK
<1>2. (WellFormed(runtime) /\ WellFormed(mRuntime) /\ WellFormed(apiPrevious))'
  BY RecordFields, Defaults DEF IInv, TypeOK, WellFormed, Phases
<1>3. BehaviourHasMarker'
  BY RecordFields, FieldTypes, Defaults DEF IInv, LockInv, MonHolds, MonCalls, ApiInv, MonInv, WellFormed,
       BehaviourHasMarker, AllAuto, TypeOK, Behaviours, Phases, Kinds
<1>4. LockInv'
  BY DEF IInv, LockInv, MonHolds, MonCalls
<1>5. ApiInv'
  BY DEF IInv, ApiInv, AllAuto, LockInv, MonHolds, MonCalls
<1>6. MonInv'
  BY RecordFields, Defaults DEF IInv, TypeOK, MonInv, MonHolds, LockInv, MonCalls, WellFormed, Phases
<1> QED
  BY <1>1, <1>2, <1>3, <1>4, <1>5, <1>6 DEF IInv

LEMMA EnsureBehaviourKeeps ==
  ASSUME IInv, EnsureBehaviour
  PROVE  IInv'
<1> USE ControlAssumption DEF EnsureBehaviour, MustFinish, MustEnsure, Wanted, Dispatch, opFenced, opRest,
     monRest, hardware, apiVars
<1>1. TypeOK'
  <2>1. call' \in Call
    BY CallTypes, FieldTypes DEF IInv, TypeOK, Behaviours, Phases
  <2>2. monPc' \in MonSteps
    BY DEF MonSteps
  <2> QED
    BY <2>1, <2>2 DEF IInv, TypeOK
<1>2. (WellFormed(runtime) /\ WellFormed(mRuntime) /\ WellFormed(apiPrevious))'
  BY DEF IInv, WellFormed
<1>3. BehaviourHasMarker'
  BY DEF IInv, BehaviourHasMarker
<1>4. LockInv'
  BY RecordFields, FieldTypes, Defaults DEF IInv, TypeOK, LockInv, MonHolds, MonCalls, WellFormed, Behaviours
<1>5. ApiInv'
  BY DEF IInv, ApiInv, AllAuto, LockInv, MonHolds, MonCalls
<1>6. MonInv'
  BY RecordFields, FieldTypes, Defaults DEF IInv, LockInv, MonHolds, MonCalls, ApiInv, MonInv, WellFormed,
       BehaviourHasMarker, AllAuto, TypeOK, Behaviours, Phases, Kinds
<1> QED
  BY <1>1, <1>2, <1>3, <1>4, <1>5, <1>6 DEF IInv

LEMMA BehaviourEnsuredKeeps ==
  ASSUME IInv, BehaviourEnsured
  PROVE  IInv'
<1> USE ControlAssumption DEF BehaviourEnsured, Ok, Advanced, Save, opRest, monRest, hardware, apiVars
<1>1. TypeOK'
  <2>1. seen' \in Snapshot
    <3>1. call.battery \in Batteries /\ call.behaviour \in Behaviours
      BY CallFacts DEF IInv, MonInv
    <3> QED
      BY <3>1, SnapshotTypes DEF IInv, TypeOK
  <2>2. runtime' \in Runtime
    BY RuntimeTypes, FieldTypes DEF IInv, TypeOK, Behaviours, Phases
  <2>3. mRuntime' \in Runtime
    BY RuntimeTypes, FieldTypes DEF IInv, TypeOK, Behaviours, Phases
  <2>4. monPc' \in MonSteps
    BY DEF MonSteps
  <2>5. call' \in Call
    BY CallTypes DEF IInv, TypeOK
  <2> QED
    BY <2>1, <2>2, <2>3, <2>4, <2>5 DEF IInv, TypeOK
<1>2. (WellFormed(runtime) /\ WellFormed(mRuntime) /\ WellFormed(apiPrevious))'
  BY RecordFields, Defaults DEF IInv, TypeOK, WellFormed, Phases
<1>3. BehaviourHasMarker'
  BY RecordFields, FieldTypes, Defaults DEF IInv, LockInv, MonHolds, MonCalls, ApiInv, MonInv, WellFormed,
       BehaviourHasMarker, AllAuto, TypeOK, Behaviours, Phases, Kinds
<1>4. LockInv'
  BY Defaults DEF IInv, LockInv, MonHolds, MonCalls, NoCall
<1>5. ApiInv'
  BY DEF IInv, ApiInv, AllAuto, LockInv, MonHolds, MonCalls
<1>6. MonInv'
  BY RecordFields, Defaults DEF IInv, TypeOK, MonInv, MonHolds, LockInv, MonCalls, WellFormed, Phases
<1> QED
  BY <1>1, <1>2, <1>3, <1>4, <1>5, <1>6 DEF IInv

LEMMA BehaviourNotEnsuredKeeps ==
  ASSUME IInv, BehaviourNotEnsured
  PROVE  IInv'
<1> USE ControlAssumption DEF BehaviourNotEnsured, Refused, Unknown, opRest, monRest, hardware, apiVars
<1>1. TypeOK'
  <2>1. call' \in Call
    BY CallTypes DEF IInv, TypeOK
  <2>2. monPc' \in MonSteps
    BY DEF MonSteps
  <2> QED
    BY <2>1, <2>2 DEF IInv, TypeOK
<1>2. (WellFormed(runtime) /\ WellFormed(mRuntime) /\ WellFormed(apiPrevious))'
  BY DEF IInv, WellFormed
<1>3. BehaviourHasMarker'
  BY DEF IInv, BehaviourHasMarker
<1>4. LockInv'
  BY Defaults DEF IInv, LockInv, MonHolds, MonCalls, NoCall
<1>5. ApiInv'
  BY DEF IInv, ApiInv, AllAuto, LockInv, MonHolds, MonCalls
<1>6. MonInv'
  BY DEF IInv, MonInv, MonHolds
<1> QED
  BY <1>1, <1>2, <1>3, <1>4, <1>5, <1>6 DEF IInv

LEMMA FinishOperationKeeps ==
  ASSUME IInv, FinishOperation
  PROVE  IInv'
<1> USE ControlAssumption DEF FinishOperation, MustFinish, Save, Dispatch, opRest, monRest, hardware, apiVars
<1>1. TypeOK'
  <2>1. runtime' \in Runtime
    BY RuntimeTypes, FieldTypes DEF IInv, TypeOK, Behaviours, Phases
  <2>2. mRuntime' \in Runtime
    BY RuntimeTypes, FieldTypes DEF IInv, TypeOK, Behaviours, Phases
  <2>3. monPc' \in MonSteps
    BY DEF MonSteps
  <2>4. call' \in Call
    <3>1. mRuntime.opBattery \in Batteries /\ call \in Call
      BY DEF IInv, WellFormed, TypeOK
    <3>2. CASE mRuntime.phase # "restoring" /\ disk = "readonly"
      BY <3>1, <3>2
    <3>3. CASE ~(mRuntime.phase # "restoring" /\ disk = "readonly")
      <4>1. call' = [by |-> "monitor", battery |-> mRuntime.opBattery, range |-> None,
                     behaviour |-> "auto", status |-> "sent", actual |-> None]
        BY <3>3
      <4> QED
        BY <3>1, <4>1, CallTypes DEF Behaviours
    <3> QED
      BY <3>2, <3>3
  <2> QED
    BY <2>1, <2>2, <2>3, <2>4 DEF IInv, TypeOK
<1>2. (WellFormed(runtime) /\ WellFormed(mRuntime) /\ WellFormed(apiPrevious))'
  BY RecordFields, Defaults DEF IInv, TypeOK, WellFormed, Phases
<1>3. BehaviourHasMarker'
  BY RecordFields, FieldTypes, Defaults DEF IInv, LockInv, MonHolds, MonCalls, ApiInv, MonInv, WellFormed,
       BehaviourHasMarker, AllAuto, TypeOK, Behaviours, Phases, Kinds
<1>4. LockInv'
  BY RecordFields, FieldTypes, Defaults DEF IInv, TypeOK, LockInv, MonHolds, MonCalls, WellFormed, Behaviours
<1>5. ApiInv'
  BY DEF IInv, ApiInv, AllAuto, LockInv, MonHolds, MonCalls
<1>6. MonInv'
  <2>1. /\ mRuntime'.op = mRuntime.op /\ mRuntime'.opBattery = mRuntime.opBattery
        /\ mRuntime'.opRange = mRuntime.opRange /\ mRuntime'.phase = "restoring"
        /\ mRuntime'.once = mRuntime.once /\ mRuntime'.onceRange = mRuntime.onceRange
    BY RecordFields DEF IInv, TypeOK, Phases
  <2>2. /\ mRuntime.op = runtime.op /\ mRuntime.opBattery = runtime.opBattery
        /\ mRuntime.opRange = runtime.opRange
        /\ mRuntime.once = runtime.once /\ mRuntime.onceRange = runtime.onceRange
    BY DEF IInv, MonInv, MonHolds
  <2>3. CASE mRuntime.phase # "restoring" /\ disk = "readonly"
    BY <2>1, <2>2, <2>3 DEF MonInv, MonHolds
  <2>4. CASE mRuntime.phase # "restoring" /\ disk # "readonly"
    BY <2>1, <2>2, <2>4 DEF MonInv, MonHolds
  <2>5. CASE mRuntime.phase = "restoring"
    BY <2>1, <2>2, <2>5 DEF MonInv, MonHolds, IInv
  <2> QED
    BY <2>3, <2>4, <2>5
<1> QED
  BY <1>1, <1>2, <1>3, <1>4, <1>5, <1>6 DEF IInv

LEMMA FinishBehaviourRepliedKeeps ==
  ASSUME IInv, FinishBehaviourReplied
  PROVE  IInv'
<1> USE ControlAssumption DEF FinishBehaviourReplied, Ok, Dispatch, opRest, monRest, hardware, apiVars
<1>1. TypeOK'
  <2>1. behaviourOk' \in BOOLEAN
    BY DEF IInv, TypeOK
  <2>2. call' \in Call
    <3>1. mRuntime.opBattery \in Batteries /\ mRuntime.opRange \in Ranges
      BY DEF IInv, WellFormed, MonInv
    <3> QED
      BY <3>1, CallTypes DEF IInv, TypeOK
  <2>3. monPc' \in MonSteps
    BY DEF MonSteps
  <2> QED
    BY <2>1, <2>2, <2>3 DEF IInv, TypeOK
<1>2. (WellFormed(runtime) /\ WellFormed(mRuntime) /\ WellFormed(apiPrevious))'
  BY DEF IInv, WellFormed
<1>3. BehaviourHasMarker'
  BY DEF IInv, BehaviourHasMarker
<1>4. LockInv'
  BY RecordFields, FieldTypes, Defaults DEF IInv, LockInv, MonHolds, MonCalls, ApiInv, MonInv, WellFormed,
       BehaviourHasMarker, AllAuto, TypeOK, Behaviours, Phases, Kinds
<1>5. ApiInv'
  BY DEF IInv, ApiInv, AllAuto, LockInv, MonHolds, MonCalls
<1>6. MonInv'
  <2>1. /\ mRuntime.op = "calibration" /\ call.battery = mRuntime.opBattery
        /\ mRuntime.phase = "restoring" /\ runtime.phase = "restoring"
        /\ behaviourOk' => hwBehaviour[mRuntime.opBattery] = "auto"
    BY DEF IInv, MonInv
  <2>2. /\ call'.battery = mRuntime.opBattery /\ call'.behaviour = None /\ call'.status = "sent"
    OBVIOUS
  <2> QED
    BY <2>1, <2>2 DEF IInv, MonInv, MonHolds
<1> QED
  BY <1>1, <1>2, <1>3, <1>4, <1>5, <1>6 DEF IInv

LEMMA FinishVerifiedKeeps ==
  ASSUME IInv, FinishVerified
  PROVE  IInv'
<1> USE ControlAssumption DEF FinishVerified, Ok, Save, opRest, monRest, hardware, apiVars
<1>1. TypeOK'
  <2>1. seen' \in Snapshot
    <3>1. call.battery \in Batteries
      BY CallFacts
    <3>2. Ok("monitor") => call.actual \in Ranges
      BY DEF IInv, LockInv, MonInv
    <3> QED
      BY <3>1, <3>2, SnapshotTypes DEF IInv, TypeOK, Behaviours
  <2>2. mRuntime' \in Runtime
    BY RuntimeTypes, FieldTypes DEF IInv, TypeOK, LockInv, MonCalls, WellFormed, Behaviours, Phases
  <2>3. runtime' \in Runtime
    BY RuntimeTypes, FieldTypes DEF IInv, TypeOK, LockInv, MonCalls, WellFormed, Behaviours, Phases
  <2>4. monPc' \in MonSteps
    BY DEF MonSteps
  <2>5. call' \in Call
    BY CallTypes DEF IInv, TypeOK
  <2>6. behaviourOk' \in BOOLEAN
    BY DEF IInv, TypeOK
  <2> QED
    BY <2>1, <2>2, <2>3, <2>4, <2>5, <2>6 DEF IInv, TypeOK
<1>2. (WellFormed(runtime) /\ WellFormed(mRuntime) /\ WellFormed(apiPrevious))'
  <2>1. call.battery \in Batteries /\ clear_operation(mRuntime) \in Runtime
    BY CallFacts, RuntimeTypes DEF IInv, TypeOK
  <2>2. WellFormed(mRuntime)'
    BY <2>1, RecordFields DEF IInv, TypeOK, WellFormed
  <2> QED
    BY <2>2 DEF IInv, WellFormed
<1>3. BehaviourHasMarker'
  BY RecordFields DEF IInv, TypeOK, BehaviourHasMarker, ApiInv, MonInv, MonHolds, AllAuto
<1>4. LockInv'
  BY Defaults DEF IInv, LockInv, MonHolds, MonCalls, NoCall
<1>5. ApiInv'
  BY DEF IInv, ApiInv, AllAuto, LockInv, MonHolds, MonCalls
<1>6. MonInv'
  <2>1. call.battery \in Batteries /\ clear_operation(mRuntime) \in Runtime
    BY CallFacts, RuntimeTypes DEF IInv, TypeOK
  <2>2. mRuntime'.op = "none" /\ mRuntime'.once = None
    BY <2>1, RecordFields, SMTT(30) DEF IInv, TypeOK, WellFormed, MonInv
  <2> QED
    BY <2>2 DEF MonInv, MonHolds
<1> QED
  BY <1>1, <1>2, <1>3, <1>4, <1>5, <1>6 DEF IInv

LEMMA FinishRetainedKeeps ==
  ASSUME IInv, FinishRetained
  PROVE  IInv'
<1> USE ControlAssumption DEF FinishRetained, Ok, opRest, monRest, hardware, apiVars
<1>1. TypeOK'
  <2>1. seen' \in Snapshot
    <3>1. call.battery \in Batteries
      BY CallFacts
    <3>2. Ok("monitor") => call.actual \in Ranges
      BY DEF IInv, LockInv, MonInv
    <3> QED
      BY <3>1, <3>2, SnapshotTypes DEF IInv, TypeOK, Behaviours
  <2>2. monPc' \in MonSteps
    BY DEF MonSteps
  <2>3. call' \in Call
    BY CallTypes DEF IInv, TypeOK
  <2>4. behaviourOk' \in BOOLEAN
    BY DEF IInv, TypeOK
  <2> QED
    BY <2>1, <2>2, <2>3, <2>4 DEF IInv, TypeOK
<1>2. (WellFormed(runtime) /\ WellFormed(mRuntime) /\ WellFormed(apiPrevious))'
  BY DEF IInv, WellFormed
<1>3. BehaviourHasMarker'
  BY DEF IInv, BehaviourHasMarker
<1>4. LockInv'
  BY Defaults DEF IInv, LockInv, MonHolds, MonCalls, NoCall
<1>5. ApiInv'
  BY DEF IInv, ApiInv, AllAuto, LockInv, MonHolds, MonCalls
<1>6. MonInv'
  BY DEF IInv, MonInv, MonHolds
<1> QED
  BY <1>1, <1>2, <1>3, <1>4, <1>5, <1>6 DEF IInv

LEMMA PlanThresholdsKeeps ==
  ASSUME IInv, PlanThresholds
  PROVE  IInv'
<1> USE ControlAssumption DEF PlanThresholds, charge_once_is_due, monRest, hardware, apiVars
<1>1. TypeOK'
  <2>1. seen' \in Snapshot
    BY SnapshotTypes DEF IInv, TypeOK
  <2>2. due' \in BOOLEAN
    BY DEF IInv, TypeOK
  <2>3. todo' \in SUBSET Batteries
    BY FieldTypes DEF IInv, TypeOK, Behaviours, Phases
  <2>4. monPc' \in MonSteps
    BY DEF MonSteps
  <2> QED
    BY <2>1, <2>2, <2>3, <2>4 DEF IInv, TypeOK
<1>2. (WellFormed(runtime) /\ WellFormed(mRuntime) /\ WellFormed(apiPrevious))'
  BY DEF IInv, WellFormed
<1>3. BehaviourHasMarker'
  BY DEF IInv, BehaviourHasMarker
<1>4. LockInv'
  BY DEF IInv, LockInv, MonHolds, MonCalls
<1>5. ApiInv'
  BY DEF IInv, ApiInv, AllAuto, LockInv, MonHolds, MonCalls
<1>6. MonInv'
  BY DEF IInv, MonInv, MonHolds
<1> QED
  BY <1>1, <1>2, <1>3, <1>4, <1>5, <1>6 DEF IInv

LEMMA ThresholdKeptKeeps ==
  ASSUME IInv, NEW b \in Batteries, ThresholdKept(b)
  PROVE  IInv'
<1> USE ControlAssumption DEF ThresholdKept, DeviceDone, deviceRest, monRest, hardware, apiVars
<1>1. TypeOK'
  <2>1. todo' \in SUBSET Batteries
    BY DEF IInv, TypeOK
  <2>2. restored' \in BOOLEAN
    BY DEF IInv, TypeOK, target_is_applied
  <2> QED
    BY <2>1, <2>2 DEF IInv, TypeOK
<1>2. (WellFormed(runtime) /\ WellFormed(mRuntime) /\ WellFormed(apiPrevious))'
  BY DEF IInv, WellFormed
<1>3. BehaviourHasMarker'
  BY DEF IInv, BehaviourHasMarker
<1>4. LockInv'
  BY DEF IInv, LockInv, MonHolds, MonCalls
<1>5. ApiInv'
  BY DEF IInv, ApiInv, AllAuto, LockInv, MonHolds, MonCalls
<1>6. MonInv'
  BY DEF IInv, MonInv, MonHolds
<1> QED
  BY <1>1, <1>2, <1>3, <1>4, <1>5, <1>6 DEF IInv

LEMMA ThresholdWriteKeeps ==
  ASSUME IInv, NEW b \in Batteries, ThresholdWrite(b)
  PROVE  IInv'
<1> USE ControlAssumption DEF ThresholdWrite, Dispatch, reconciliation_target, Calibrates, Restoration,
     Temporary, configured, desired_thresholds, deviceRest, monRest, hardware, apiVars
<1>1. TypeOK'
  <2>1. call' \in Call
    BY CallTypes, FieldTypes DEF IInv, TypeOK, Behaviours, Phases
  <2>2. monPc' \in MonSteps
    BY DEF MonSteps
  <2> QED
    BY <2>1, <2>2 DEF IInv, TypeOK
<1>2. (WellFormed(runtime) /\ WellFormed(mRuntime) /\ WellFormed(apiPrevious))'
  BY DEF IInv, WellFormed
<1>3. BehaviourHasMarker'
  BY DEF IInv, BehaviourHasMarker
<1>4. LockInv'
  BY RecordFields, FieldTypes, Defaults DEF IInv, TypeOK, LockInv, MonHolds, MonCalls, WellFormed, Behaviours
<1>5. ApiInv'
  BY DEF IInv, ApiInv, AllAuto, LockInv, MonHolds, MonCalls
<1>6. MonInv'
  BY DEF IInv, MonInv, MonHolds
<1> QED
  BY <1>1, <1>2, <1>3, <1>4, <1>5, <1>6 DEF IInv

LEMMA ThresholdWrittenKeeps ==
  ASSUME IInv, ThresholdWritten
  PROVE  IInv'
<1> USE ControlAssumption DEF ThresholdWritten, Ok, DeviceDone, deviceRest, monRest, hardware, apiVars
<1>1. TypeOK'
  <2>1. seen' \in Snapshot
    <3>1. call.battery \in Batteries
      BY CallFacts
    <3>2. Ok("monitor") => call.actual \in Ranges
      BY DEF IInv, LockInv, MonInv
    <3> QED
      BY <3>1, <3>2, SnapshotTypes DEF IInv, TypeOK, Behaviours
  <2>2. todo' \in SUBSET Batteries
    BY DEF IInv, TypeOK
  <2>3. restored' \in BOOLEAN
    BY DEF IInv, TypeOK
  <2>4. mConfig' \in [Batteries -> DeviceConfig]
    <3>1. call.battery \in Batteries
      BY CallFacts
    <3>2. call.actual \in Ranges /\ mConfig \in [Batteries -> DeviceConfig]
      BY DEF IInv, LockInv, MonInv, TypeOK
    <3>3. accepting(mConfig[call.battery], call.actual) \in DeviceConfig
      BY <3>1, <3>2, ConfigTypes
    <3>4. \/ mConfig' = mConfig
          \/ mConfig' = [mConfig EXCEPT ![call.battery] = accepting(mConfig[call.battery], call.actual)]
      OBVIOUS
    <3> QED
      BY <3>1, <3>2, <3>3, <3>4
  <2>5. changed' \in BOOLEAN
    BY DEF IInv, TypeOK
  <2>6. monPc' \in MonSteps
    BY DEF MonSteps
  <2>7. call' \in Call
    BY CallTypes DEF IInv, TypeOK
  <2> QED
    BY <2>1, <2>2, <2>3, <2>4, <2>5, <2>6, <2>7 DEF IInv, TypeOK
<1>2. (WellFormed(runtime) /\ WellFormed(mRuntime) /\ WellFormed(apiPrevious))'
  BY DEF IInv, WellFormed
<1>3. BehaviourHasMarker'
  BY DEF IInv, BehaviourHasMarker
<1>4. LockInv'
  BY Defaults DEF IInv, LockInv, MonHolds, MonCalls, NoCall
<1>5. ApiInv'
  BY DEF IInv, ApiInv, AllAuto, LockInv, MonHolds, MonCalls
<1>6. MonInv'
  BY DEF IInv, MonInv, MonHolds
<1> QED
  BY <1>1, <1>2, <1>3, <1>4, <1>5, <1>6 DEF IInv

LEMMA ThresholdNotWrittenKeeps ==
  ASSUME IInv, ThresholdNotWritten
  PROVE  IInv'
<1> USE ControlAssumption DEF ThresholdNotWritten, Refused, Unknown, DeviceDone, deviceRest, monRest,
     hardware, apiVars
<1>1. TypeOK'
  <2>1. todo' \in SUBSET Batteries
    BY DEF IInv, TypeOK
  <2>2. restored' \in BOOLEAN
    BY DEF IInv, TypeOK
  <2>3. monPc' \in MonSteps
    BY DEF MonSteps
  <2>4. call' \in Call
    BY CallTypes DEF IInv, TypeOK
  <2> QED
    BY <2>1, <2>2, <2>3, <2>4 DEF IInv, TypeOK
<1>2. (WellFormed(runtime) /\ WellFormed(mRuntime) /\ WellFormed(apiPrevious))'
  BY DEF IInv, WellFormed
<1>3. BehaviourHasMarker'
  BY DEF IInv, BehaviourHasMarker
<1>4. LockInv'
  BY Defaults DEF IInv, LockInv, MonHolds, MonCalls, NoCall
<1>5. ApiInv'
  BY DEF IInv, ApiInv, AllAuto, LockInv, MonHolds, MonCalls
<1>6. MonInv'
  BY DEF IInv, MonInv, MonHolds
<1> QED
  BY <1>1, <1>2, <1>3, <1>4, <1>5, <1>6 DEF IInv

LEMMA FinishPassKeeps ==
  ASSUME IInv, FinishPass
  PROVE  IInv'
<1> USE ControlAssumption DEF FinishPass, Save, SaveConfig, monRest, hardware, apiVars
<1>1. TypeOK'
  <2>1. config' \in [Batteries -> DeviceConfig]
    BY ConfigTypes DEF IInv, TypeOK
  <2>2. runtime' \in Runtime
    BY RuntimeTypes DEF IInv, TypeOK
  <2>3. mRuntime' \in Runtime
    BY RuntimeTypes DEF IInv, TypeOK
  <2>4. mConfig' \in [Batteries -> DeviceConfig]
    BY ConfigTypes DEF IInv, TypeOK
  <2>5. due' \in BOOLEAN
    BY DEF IInv, TypeOK
  <2>6. restored' \in BOOLEAN
    BY DEF IInv, TypeOK
  <2>7. changed' \in BOOLEAN
    BY DEF IInv, TypeOK
  <2>8. monPc' \in MonSteps
    BY DEF MonSteps
  <2> QED
    BY <2>1, <2>2, <2>3, <2>4, <2>5, <2>6, <2>7, <2>8 DEF IInv, TypeOK
<1>2. (WellFormed(runtime) /\ WellFormed(mRuntime) /\ WellFormed(apiPrevious))'
  BY RecordFields, Defaults DEF IInv, TypeOK, WellFormed, Phases
<1>3. BehaviourHasMarker'
  BY RecordFields, FieldTypes, Defaults DEF IInv, LockInv, MonHolds, MonCalls, ApiInv, MonInv, WellFormed,
       BehaviourHasMarker, AllAuto, TypeOK, Behaviours, Phases, Kinds
<1>4. LockInv'
  BY DEF IInv, LockInv, MonHolds, MonCalls
<1>5. ApiInv'
  BY DEF IInv, ApiInv, AllAuto, LockInv, MonHolds, MonCalls
<1>6. MonInv'
  BY DEF IInv, MonInv, MonHolds
<1> QED
  BY <1>1, <1>2, <1>3, <1>4, <1>5, <1>6 DEF IInv

LEMMA PublishKeeps ==
  ASSUME IInv, Publish
  PROVE  IInv'
<1> USE ControlAssumption DEF Publish, monRest, hardware, apiVars
<1>1. TypeOK'
  <2>1. view' \in View
    BY SnapshotTypes DEF IInv, TypeOK
  <2>2. seen' \in Snapshot
    BY SnapshotTypes DEF IInv, TypeOK
  <2>3. monPc' \in MonSteps
    BY DEF MonSteps
  <2> QED
    BY <2>1, <2>2, <2>3 DEF IInv, TypeOK
<1>2. (WellFormed(runtime) /\ WellFormed(mRuntime) /\ WellFormed(apiPrevious))'
  BY DEF IInv, WellFormed
<1>3. BehaviourHasMarker'
  BY DEF IInv, BehaviourHasMarker
<1>4. LockInv'
  BY DEF IInv, LockInv, MonHolds, MonCalls
<1>5. ApiInv'
  BY DEF IInv, ApiInv, AllAuto, LockInv, MonHolds, MonCalls
<1>6. MonInv'
  BY DEF IInv, MonInv, MonHolds
<1> QED
  BY <1>1, <1>2, <1>3, <1>4, <1>5, <1>6 DEF IInv

LEMMA ExpireKeeps ==
  ASSUME IInv, Expire
  PROVE  IInv'
<1> USE ControlAssumption DEF Expire, envRest, hardware, apiVars, monVars
<1>1. TypeOK'
  BY DEF IInv, TypeOK
<1>2. (WellFormed(runtime) /\ WellFormed(mRuntime) /\ WellFormed(apiPrevious))'
  BY DEF IInv, WellFormed
<1>3. BehaviourHasMarker'
  BY DEF IInv, BehaviourHasMarker
<1>4. LockInv'
  BY DEF IInv, LockInv, MonHolds, MonCalls
<1>5. ApiInv'
  BY DEF IInv, ApiInv, AllAuto, LockInv, MonHolds, MonCalls
<1>6. MonInv'
  BY DEF IInv, MonInv, MonHolds
<1> QED
  BY <1>1, <1>2, <1>3, <1>4, <1>5, <1>6 DEF IInv

LEMMA DiskFailsKeeps ==
  ASSUME IInv, DiskFails
  PROVE  IInv'
<1> USE ControlAssumption DEF DiskFails, Fault, envRest, hardware, apiVars, monVars
<1>1. TypeOK'
  <2>1. faults' \in Nat
    BY DEF IInv, TypeOK
  <2> QED
    BY <2>1 DEF IInv, TypeOK
<1>2. (WellFormed(runtime) /\ WellFormed(mRuntime) /\ WellFormed(apiPrevious))'
  BY DEF IInv, WellFormed
<1>3. BehaviourHasMarker'
  BY DEF IInv, BehaviourHasMarker
<1>4. LockInv'
  BY DEF IInv, LockInv, MonHolds, MonCalls
<1>5. ApiInv'
  BY DEF IInv, ApiInv, AllAuto, LockInv, MonHolds, MonCalls
<1>6. MonInv'
  BY DEF IInv, MonInv, MonHolds
<1> QED
  BY <1>1, <1>2, <1>3, <1>4, <1>5, <1>6 DEF IInv

LEMMA DiskHealsKeeps ==
  ASSUME IInv, DiskHeals
  PROVE  IInv'
<1> USE ControlAssumption DEF DiskHeals, envRest, hardware, apiVars, monVars
<1>1. TypeOK'
  BY DEF IInv, TypeOK, Disks
<1>2. (WellFormed(runtime) /\ WellFormed(mRuntime) /\ WellFormed(apiPrevious))'
  BY DEF IInv, WellFormed
<1>3. BehaviourHasMarker'
  BY DEF IInv, BehaviourHasMarker
<1>4. LockInv'
  BY DEF IInv, LockInv, MonHolds, MonCalls
<1>5. ApiInv'
  BY DEF IInv, ApiInv, AllAuto, LockInv, MonHolds, MonCalls
<1>6. MonInv'
  BY DEF IInv, MonInv, MonHolds
<1> QED
  BY <1>1, <1>2, <1>3, <1>4, <1>5, <1>6 DEF IInv

LEMMA CrashKeeps ==
  ASSUME IInv, Crash
  PROVE  IInv'
<1> USE ControlAssumption DEF Crash, Fault, MayHaveWritten, hardware
<1>1. TypeOK'
  <2>1. hwRange' \in [Batteries -> Ranges] /\ hwBehaviour' \in [Batteries -> Behaviours]
    <3>1. CASE call.status = "sent"
      BY <3>1, MayHaveWrittenTypes DEF IInv
    <3>2. CASE call.status # "sent"
      BY <3>2 DEF IInv, TypeOK
    <3> QED
      BY <3>1, <3>2
  <2>2. hwBehaviour' \in [Batteries -> Behaviours]
    BY <2>1
  <2>3. view' \in View
    BY EmptySnapshot
  <2>4. call' \in Call
    BY CallTypes DEF IInv, TypeOK
  <2>5. apiPc' \in ApiSteps
    BY DEF ApiSteps
  <2>6. apiBattery' \in Batteries \cup {None}
    BY DEF IInv, TypeOK
  <2>7. apiPrevious' \in Runtime
    BY RuntimeTypes DEF IInv, TypeOK
  <2>8. apiPreviousConfig' \in [Batteries -> DeviceConfig]
    BY ConfigTypes DEF IInv, TypeOK
  <2>9. cancel' \in BOOLEAN
    BY DEF IInv, TypeOK
  <2>10. monPc' \in MonSteps
    BY DEF MonSteps
  <2>11. seen' \in Snapshot
    BY EmptySnapshot
  <2>12. mRuntime' \in Runtime
    BY RuntimeTypes DEF IInv, TypeOK
  <2>13. mConfig' \in [Batteries -> DeviceConfig]
    BY ConfigTypes DEF IInv, TypeOK
  <2>14. behaviourOk' \in BOOLEAN
    BY DEF IInv, TypeOK
  <2>15. due' \in BOOLEAN
    BY DEF IInv, TypeOK
  <2>16. restored' \in BOOLEAN
    BY DEF IInv, TypeOK
  <2>17. changed' \in BOOLEAN
    BY DEF IInv, TypeOK
  <2>18. todo' \in SUBSET Batteries
    BY DEF IInv, TypeOK
  <2>19. faults' \in Nat
    BY DEF IInv, TypeOK
  <2> QED
    BY <2>1, <2>2, <2>3, <2>4, <2>5, <2>6, <2>7, <2>8, <2>9, <2>10, <2>11, <2>12, <2>13, <2>14, <2>15,
         <2>16, <2>17, <2>18, <2>19 DEF IInv, TypeOK
<1>2. (WellFormed(runtime) /\ WellFormed(mRuntime) /\ WellFormed(apiPrevious))'
  BY RecordFields, Defaults DEF IInv, TypeOK, WellFormed, Phases
<1>3. BehaviourHasMarker'
  <2>1. CASE call.status # "sent"
    BY <2>1 DEF IInv, BehaviourHasMarker
  <2>2. CASE call.status = "sent"
    <3>1. call.battery \in Batteries
      BY <2>2, CallFacts
    <3>2. ASSUME NEW c \in Batteries
          PROVE  hwBehaviour'[c] = hwBehaviour[c] \/ (c = call.battery /\ hwBehaviour'[c] = call.behaviour)
      BY <2>2, <3>1, <3>2 DEF IInv, TypeOK
    <3> QED
      BY <2>2, <3>2, BehaviourCovered DEF IInv, BehaviourHasMarker
  <2> QED
    BY <2>1, <2>2
<1>4. LockInv'
  BY Defaults DEF IInv, LockInv, MonHolds, MonCalls, NoCall
<1>5. ApiInv'
  BY DEF IInv, ApiInv
<1>6. MonInv'
  BY DEF IInv, MonInv, MonHolds
<1> QED
  BY <1>1, <1>2, <1>3, <1>4, <1>5, <1>6 DEF IInv

LEMMA InitHolds == ASSUME Init PROVE IInv
<1> USE ControlAssumption DEF Init
<1>1. TypeOK
  <2>1. runtime \in Runtime /\ mRuntime \in Runtime /\ apiPrevious \in Runtime
    BY RuntimeTypes
  <2>2. /\ config \in [Batteries -> DeviceConfig] /\ mConfig \in [Batteries -> DeviceConfig]
        /\ apiPreviousConfig \in [Batteries -> DeviceConfig]
    BY ConfigTypes DEF DeviceConfig
  <2>3. view \in View /\ seen \in Snapshot
    BY EmptySnapshot
  <2>4. call \in Call
    BY CallTypes
  <2>5. hwRange \in [Batteries -> Ranges] /\ hwBehaviour \in [Batteries -> Behaviours]
    BY DEF Behaviours
  <2> QED
    BY <2>1, <2>2, <2>3, <2>4, <2>5 DEF TypeOK, Disks, ApiSteps, MonSteps
<1>2. WellFormed(runtime) /\ WellFormed(mRuntime) /\ WellFormed(apiPrevious)
  BY Defaults DEF WellFormed
<1>3. BehaviourHasMarker
  BY DEF BehaviourHasMarker
<1>4. LockInv /\ ApiInv /\ MonInv
  BY Defaults DEF LockInv, ApiInv, MonInv, MonHolds, MonCalls
<1> QED
  BY <1>1, <1>2, <1>3, <1>4 DEF IInv

\* A step that changes nothing keeps the invariant.
LEMMA StutterKeeps == ASSUME IInv, UNCHANGED vars PROVE IInv'
BY DEF IInv, TypeOK, WellFormed, BehaviourHasMarker, LockInv, MonHolds, MonCalls, ApiInv, AllAuto, MonInv,
       has_durable_operation, vars, hardware, apiVars, monVars

LEMMA NextKeeps == ASSUME IInv, [Next]_vars PROVE IInv'
<1>1. ASSUME ApiStart PROVE IInv'
  BY <1>1, SetThresholdsKeeps, SetThresholdsInactiveKeeps, SetProtectionKeeps, ChargeOnceKeeps,
     StartInhibitionKeeps, StopInhibitionKeeps, StartCalibrationKeeps, CancelCalibrationKeeps DEF ApiStart
<1>2. ASSUME ApiReply PROVE IInv'
  BY <1>2, PolicyAppliedKeeps, PolicyFailedKeeps, CalibrationRangeSetKeeps, CalibrationBehaviourRefusedKeeps,
     CancelBehaviourSetKeeps, CancelRangeSetKeeps, OperationStartedKeeps, OperationStoppedKeeps,
     OperationRolledBackKeeps, OperationLeftKeeps DEF ApiReply
<1>3. ASSUME Pass PROVE IInv'
  BY <1>3, MonLockKeeps, OperationDoneKeeps, EnsureBehaviourKeeps, BehaviourEnsuredKeeps,
     BehaviourNotEnsuredKeeps, FinishOperationKeeps, FinishBehaviourRepliedKeeps, FinishVerifiedKeeps,
     FinishRetainedKeeps, PlanThresholdsKeeps, ThresholdKeptKeeps, ThresholdWriteKeeps,
     ThresholdWrittenKeeps, ThresholdNotWrittenKeeps, FinishPassKeeps DEF Pass
<1>4. ASSUME Environment PROVE IInv'
  BY <1>4, ExpireKeeps, DiskFailsKeeps, DiskHealsKeeps, CrashKeeps, CancelKeeps DEF Environment
<1> QED
  BY <1>1, <1>2, <1>3, <1>4, MonReadKeeps, MonReadFailsKeeps, PublishKeeps,
     HelperOkKeeps, HelperRefusedKeeps, HelperUnknownKeeps, StutterKeeps DEF Next

LEMMA Inductive == Spec => []IInv
<1>1. Init => IInv
  BY InitHolds
<1>2. IInv /\ [Next]_vars => IInv'
  BY NextKeeps
<1> QED
  BY <1>1, <1>2, PTL DEF Spec

\* Every variable keeps its type under every handler, pass and fault.
THEOREM TypeCorrect == Spec => []TypeOK
<1>1. IInv => TypeOK
  BY DEF IInv
<1> QED
  BY <1>1, Inductive, PTL

\* No forced discharge and no inhibition is ever in force without the durable
\* record that will undo it: rollbacks, unknown outcomes, failed saves and
\* crashes included (begin_calibration, finish_runtime_operation).
THEOREM MarkersCoverBehaviour == Spec => []BehaviourHasMarker
<1>1. IInv => BehaviourHasMarker
  BY DEF IInv
<1> QED
  BY <1>1, Inductive, PTL

\* What an operation records about itself: its kind, battery and range to restore.
Marked(r) == r.once # None \/ r.op # "none"
SameMarker(r, s) ==
    /\ s.once = r.once /\ s.onceRange = r.onceRange
    /\ s.op = r.op /\ s.opBattery = r.opBattery /\ s.opRange = r.opRange
MarkerStep == Marked(runtime) /\ Marked(runtime') => SameMarker(runtime, runtime')

\* Handlers start an operation only in an empty record, change its fence or its
\* phase, or leave an empty record behind.
LEMMA HandlersKeepMarker == ASSUME IInv, ApiStart \/ ApiReply PROVE MarkerStep
<1> USE DEF MarkerStep, Marked, SameMarker, has_durable_operation
<1>1. ASSUME NEW b \in Batteries, \/ \E r \in Policies : SetThresholds(b, r) \/ SetThresholdsInactive(b, r)
                                  \/ \E enabled \in BOOLEAN, r \in Policies : SetProtection(b, enabled, r)
                                  \/ StopInhibition(b)
      PROVE  MarkerStep
  BY <1>1 DEF SetThresholds, SetThresholdsInactive, SetProtection, ChangePolicy, StopInhibition
<1>2. ASSUME NEW b \in Batteries, ChargeOnce(b) \/ StartInhibition(b) \/ StartCalibration(b) PROVE MarkerStep
  BY <1>2 DEF ChargeOnce, StartInhibition, StartCalibration
<1>3. ASSUME NEW b \in Batteries, CancelCalibration(b) PROVE MarkerStep
  BY <1>3, RecordFields DEF CancelCalibration, IInv, TypeOK, Phases
<1>4. CASE PolicyFailed \/ CalibrationRangeSet \/ CalibrationBehaviourRefused \/ CancelBehaviourSet \/ OperationLeft
  BY <1>4 DEF PolicyFailed, CalibrationRangeSet, CalibrationBehaviourRefused, CancelBehaviourSet,
              OperationLeft, Continue
<1>5. CASE PolicyApplied \/ OperationStarted
  <2>1. apiBattery \in Batteries /\ runtime \in Runtime
    BY <1>5 DEF IInv, TypeOK, LockInv, PolicyApplied, OperationStarted
  <2>2. runtime' \in {runtime, unfenced(runtime, apiBattery)}
    BY <1>5 DEF PolicyApplied, OperationStarted, hardware_response
  <2> QED
    BY <2>1, <2>2, RecordFields
<1>6. CASE CancelRangeSet \/ OperationStopped
  <2>1. apiBattery \in Batteries /\ runtime \in Runtime
    BY <1>6 DEF IInv, TypeOK, LockInv, CancelRangeSet, OperationStopped
  <2>2. runtime.op # "none" /\ runtime.once = None
    BY <1>6 DEF IInv, ApiInv, WellFormed, CancelRangeSet, OperationStopped
  <2>3. runtime' \in {runtime, clear_operation(runtime), unfenced(clear_operation(runtime), apiBattery)}
    BY <1>6 DEF CancelRangeSet, OperationStopped, hardware_response
  <2>4. clear_operation(runtime) \in Runtime
    BY <2>1, RuntimeTypes
  <2> QED
    BY <2>1, <2>2, <2>3, <2>4, RecordFields
<1>7. CASE OperationRolledBack
  BY <1>7 DEF OperationRolledBack, Save, IInv, ApiInv
<1> QED
  BY <1>1, <1>2, <1>3, <1>4, <1>5, <1>6, <1>7 DEF ApiStart, ApiReply

\* The pass writes back its own copy of the record, which MonInv ties to the file.
LEMMA PassKeepsMarker == ASSUME IInv, Pass PROVE MarkerStep
<1> USE DEF MarkerStep, Marked, SameMarker
<1>1. CASE MonLock \/ EnsureBehaviour \/ BehaviourNotEnsured \/ FinishBehaviourReplied \/ FinishRetained
           \/ PlanThresholds \/ ThresholdWritten \/ ThresholdNotWritten
  BY <1>1 DEF MonLock, EnsureBehaviour, BehaviourNotEnsured, FinishBehaviourReplied, FinishRetained,
              PlanThresholds, ThresholdWritten, ThresholdNotWritten, deviceRest
<1>2. ASSUME NEW b \in Batteries, ThresholdKept(b) \/ ThresholdWrite(b) PROVE MarkerStep
  BY <1>2 DEF ThresholdKept, ThresholdWrite, deviceRest
<1>3. CASE OperationDone \/ BehaviourEnsured \/ FinishOperation
  <2>1. mRuntime \in Runtime
    BY DEF IInv, TypeOK
  <2>2. \/ runtime' = runtime
        \/ /\ mRuntime.op # "none" /\ MonHolds
           /\ \E p \in Phases : runtime' = in_phase(mRuntime, p)
    BY <1>3 DEF OperationDone, BehaviourEnsured, FinishOperation, MustFinish, MustEnsure, Advanced, Save,
                MonHolds, Phases, IInv, MonInv
  <2> QED
    BY <2>1, <2>2, RecordFields DEF IInv, MonInv
<1>4. CASE FinishVerified
  <2>1. mRuntime \in Runtime /\ clear_operation(mRuntime) \in Runtime /\ call.battery \in Batteries
    BY <1>4, RuntimeTypes DEF IInv, TypeOK, LockInv, MonCalls, FinishVerified
  <2>2. mRuntime.once = None
    BY <1>4 DEF IInv, MonInv, WellFormed, FinishVerified
  <2>3. runtime' = runtime \/ runtime' = unfenced(clear_operation(mRuntime), call.battery)
    BY <1>4 DEF FinishVerified, Save
  <2> QED
    BY <2>1, <2>2, <2>3, RecordFields
<1>5. CASE FinishPass
  BY <1>5, RecordFields DEF FinishPass, Save, IInv, TypeOK
<1> QED
  BY <1>1, <1>2, <1>3, <1>4, <1>5 DEF Pass

LEMMA StepKeepsMarker == ASSUME IInv, [Next]_vars PROVE MarkerStep
<1>1. CASE HelperUnknown
  BY <1>1, CallFacts, RecordFields DEF HelperUnknown, IInv, TypeOK, MarkerStep, Marked, SameMarker
<1>2. CASE HelperOk \/ HelperRefused \/ MonRead \/ MonReadFails \/ Publish \/ Environment
  BY <1>2 DEF HelperOk, HelperRefused, MonRead, MonReadFails, Publish, Environment, Expire, DiskFails,
              DiskHeals, Crash, Cancel, envRest, MarkerStep, Marked, SameMarker
<1>3. CASE UNCHANGED vars
  BY <1>3 DEF vars, MarkerStep, Marked, SameMarker
<1> QED
  BY <1>1, <1>2, <1>3, HandlersKeepMarker, PassKeepsMarker DEF Next

\* A durable marker is never overwritten by another operation, by a rollback or
\* by the pass's copy of the record: until the record is empty again it names
\* the same operation, battery and range (has_durable_operation, save_runtime).
THEOREM MarkersAreNotOverwritten == Spec => MarkerNotOverwritten
<1>1. IInv /\ [Next]_vars =>
        [(runtime.once # None \/ runtime.op # "none") /\ (runtime'.once # None \/ runtime'.op # "none") =>
          /\ runtime'.once = runtime.once /\ runtime'.onceRange = runtime.onceRange
          /\ runtime'.op = runtime.op /\ runtime'.opBattery = runtime.opBattery
          /\ runtime'.opRange = runtime.opRange]_vars
  BY StepKeepsMarker DEF MarkerStep, Marked, SameMarker
<1> QED
  BY <1>1, Inductive, PTL DEF Spec, MarkerNotOverwritten

-----------------------------------------------------------------------------
(* A restoration that is on disk *)

Restoring(b) == runtime.op = "calibration" /\ runtime.opBattery = b /\ runtime.phase = "restoring"
OnlyFence(r, s) == s = [r EXCEPT !.fence = s.fence]
NotResumed(b) == hwBehaviour'[b] = "force-discharge" => hwBehaviour[b] = "force-discharge"
Restored(b) == runtime'.op = "none" /\ hwRange[b] = runtime.opRange /\ hwBehaviour[b] = "auto"
MarkerHeld(b) == OnlyFence(runtime, runtime') \/ Restored(b)

LEMMA FenceChanges ==
  ASSUME NEW r \in Runtime
  PROVE  /\ OnlyFence(r, r) /\ in_phase(r, r.phase) = r
         /\ \A b \in Batteries : OnlyFence(r, fenced(r, b)) /\ OnlyFence(r, unfenced(r, b))
BY DEF Runtime, OnlyFence, in_phase, fenced, unfenced

\* No call that is under way while a calibration is restoring sets force-discharge.
LEMMA NoDischargeInFlight ==
  ASSUME IInv, NEW b \in Batteries, Restoring(b), call.status = "sent"
  PROVE  call.behaviour # "force-discharge"
<1>1. apiPc # "idle" \/ MonCalls
  BY Defaults DEF IInv, LockInv
<1>2. CASE apiPc # "idle"
  <2>1. apiPc \in ApiSteps
    BY DEF IInv, TypeOK
  <2> QED
    BY <1>2, <2>1, ControlAssumption DEF IInv, ApiInv, ApiSteps, Behaviours, Restoring
<1>3. CASE MonCalls
  <2>1. CASE monPc = "ensure"
    BY <2>1 DEF IInv, MonInv, MonHolds, Restoring
  <2>2. CASE monPc # "ensure"
    BY <1>3, <2>2, ControlAssumption DEF IInv, MonInv, MonCalls, Behaviours
  <2> QED
    BY <2>1, <2>2
<1> QED
  BY <1>1, <1>2, <1>3

LEMMA DischargeNotResumed ==
  ASSUME IInv, [Next]_vars, NEW b \in Batteries, Restoring(b)
  PROVE  NotResumed(b)
<1>0. hwBehaviour \in [Batteries -> Behaviours]
  BY DEF IInv, TypeOK
<1>1. ASSUME call.status = "sent",
             \/ hwBehaviour' = hwBehaviour
             \/ hwBehaviour' = [hwBehaviour EXCEPT ![call.battery] = call.behaviour]
      PROVE  NotResumed(b)
  BY <1>0, <1>1, NoDischargeInFlight DEF NotResumed
<1>2. CASE HelperOk \/ HelperUnknown \/ Crash
  BY <1>1, <1>2 DEF HelperOk, HelperUnknown, Crash, MayHaveWritten, hardware, NotResumed
<1>3. CASE ApiStart
  BY <1>3 DEF ApiStart, SetThresholds, SetThresholdsInactive, SetProtection, ChangePolicy, ChargeOnce,
              StartInhibition, StopInhibition, StartCalibration, CancelCalibration, Begin, hardware, NotResumed
<1>4. CASE ApiReply
  BY <1>4 DEF ApiReply, PolicyApplied, PolicyFailed, CalibrationRangeSet, CalibrationBehaviourRefused,
              CancelBehaviourSet, CancelRangeSet, OperationStarted, OperationStopped, OperationRolledBack,
              OperationLeft, Return, Continue, hardware, NotResumed
<1>5. CASE MonRead \/ MonReadFails \/ MonLock \/ PlanThresholds \/ FinishPass \/ Publish
  BY <1>5 DEF MonRead, MonReadFails, MonLock, PlanThresholds, FinishPass, Publish, monRest, hardware, NotResumed
<1>6. CASE OperationDone \/ EnsureBehaviour \/ BehaviourEnsured \/ BehaviourNotEnsured \/ FinishOperation
           \/ FinishBehaviourReplied \/ FinishVerified \/ FinishRetained
  BY <1>6 DEF OperationDone, EnsureBehaviour, BehaviourEnsured, BehaviourNotEnsured, FinishOperation,
              FinishBehaviourReplied, FinishVerified, FinishRetained, opRest, monRest, hardware, NotResumed
<1>7. CASE (\E d \in Batteries : ThresholdKept(d) \/ ThresholdWrite(d)) \/ ThresholdWritten \/ ThresholdNotWritten
  BY <1>7 DEF ThresholdKept, ThresholdWrite, ThresholdWritten, ThresholdNotWritten, deviceRest, monRest,
              hardware, NotResumed
<1>8. CASE HelperRefused \/ Expire \/ DiskFails \/ DiskHeals \/ Cancel \/ UNCHANGED vars
  BY <1>8 DEF HelperRefused, Expire, DiskFails, DiskHeals, Cancel, envRest, vars, hardware, NotResumed
<1> QED
  BY <1>2, <1>3, <1>4, <1>5, <1>6, <1>7, <1>8 DEF Next, Pass, Environment

\* Handlers refuse to begin another operation, and the cancellation drops the marker
\* only after an exact readback.
LEMMA HandlersHoldRestoration ==
  ASSUME IInv, NEW b \in Batteries, Restoring(b), ApiStart \/ ApiReply
  PROVE  MarkerHeld(b)
<1>0. runtime \in Runtime /\ OnlyFence(runtime, runtime)
  BY FenceChanges DEF IInv, TypeOK
<1> USE DEF MarkerHeld
<1>1. ASSUME NEW d \in Batteries, \/ \E r \in Policies : SetThresholds(d, r) \/ SetThresholdsInactive(d, r)
                                  \/ \E enabled \in BOOLEAN, r \in Policies : SetProtection(d, enabled, r)
                                  \/ StopInhibition(d)
      PROVE  MarkerHeld(b)
  BY <1>0, <1>1 DEF SetThresholds, SetThresholdsInactive, SetProtection, ChangePolicy, StopInhibition
<1>2. ASSUME NEW d \in Batteries, ChargeOnce(d) \/ StartInhibition(d) \/ StartCalibration(d) PROVE MarkerHeld(b)
  BY <1>2 DEF ChargeOnce, StartInhibition, StartCalibration, has_durable_operation, Restoring
<1>3. ASSUME NEW d \in Batteries, CancelCalibration(d) PROVE MarkerHeld(b)
  <2>1. runtime' = in_phase(runtime, runtime.phase)
    BY <1>3 DEF CancelCalibration, Restoring
  <2> QED
    BY <1>0, <2>1, FenceChanges
<1>4. CASE PolicyFailed \/ CalibrationRangeSet \/ CalibrationBehaviourRefused \/ CancelBehaviourSet \/ OperationLeft
  BY <1>0, <1>4 DEF PolicyFailed, CalibrationRangeSet, CalibrationBehaviourRefused, CancelBehaviourSet,
              OperationLeft, Continue
<1>5. CASE PolicyApplied \/ OperationStarted
  <2>1. apiBattery \in Batteries
    BY <1>5 DEF IInv, LockInv, PolicyApplied, OperationStarted
  <2>2. runtime' \in {runtime, unfenced(runtime, apiBattery)}
    BY <1>5 DEF PolicyApplied, OperationStarted, hardware_response
  <2> QED
    BY <1>0, <2>1, <2>2, FenceChanges
<1>6. CASE CancelRangeSet
  <2>1. /\ apiPc = "cancelRange" /\ apiBattery = b /\ b \in Batteries
        /\ hwBehaviour[b] = "auto" /\ hwRange[b] = call.actual
    BY <1>6 DEF IInv, ApiInv, LockInv, CancelRangeSet, Ok, Restoring
  <2>2. \/ runtime' = runtime
        \/ /\ call.actual = runtime.opRange
           /\ runtime' \in {clear_operation(runtime), unfenced(clear_operation(runtime), apiBattery)}
    BY <1>6 DEF CancelRangeSet, hardware_response
  <2>3. clear_operation(runtime) \in Runtime
    BY <1>0, RuntimeTypes
  <2> QED
    BY <1>0, <2>1, <2>2, <2>3, RecordFields DEF Restored
<1>7. CASE OperationRolledBack \/ OperationStopped
  BY <1>7 DEF OperationRolledBack, OperationStopped, IInv, ApiInv, Restoring
<1> QED
  BY <1>1, <1>2, <1>3, <1>4, <1>5, <1>6, <1>7 DEF ApiStart, ApiReply

\* The pass's copy is restoring too, so it neither advances nor replaces the record.
LEMMA PassHoldsRestoration ==
  ASSUME IInv, NEW b \in Batteries, Restoring(b), Pass
  PROVE  MarkerHeld(b)
<1>0. runtime \in Runtime /\ mRuntime \in Runtime /\ OnlyFence(runtime, runtime)
  BY FenceChanges DEF IInv, TypeOK
<1> USE DEF MarkerHeld
<1>1. CASE MonLock \/ EnsureBehaviour \/ BehaviourNotEnsured \/ FinishBehaviourReplied \/ FinishRetained
           \/ PlanThresholds \/ ThresholdWritten \/ ThresholdNotWritten
  BY <1>0, <1>1 DEF MonLock, EnsureBehaviour, BehaviourNotEnsured, FinishBehaviourReplied, FinishRetained,
              PlanThresholds, ThresholdWritten, ThresholdNotWritten, deviceRest
<1>2. ASSUME NEW d \in Batteries, ThresholdKept(d) \/ ThresholdWrite(d) PROVE MarkerHeld(b)
  BY <1>0, <1>2 DEF ThresholdKept, ThresholdWrite, deviceRest
<1>3. CASE OperationDone \/ BehaviourEnsured \/ FinishOperation
  <2>1. MonHolds
    BY <1>3 DEF OperationDone, BehaviourEnsured, FinishOperation, MonHolds
  <2>2. mRuntime.op # "none" => mRuntime.phase = "restoring"
    BY <2>1 DEF IInv, MonInv, Restoring
  <2>3. Advanced(mRuntime) = mRuntime
    BY <2>2 DEF Advanced
  <2>4. runtime' = runtime
    BY <1>3, <2>2, <2>3 DEF OperationDone, BehaviourEnsured, FinishOperation, MustFinish
  <2> QED
    BY <1>0, <2>4
<1>4. CASE FinishVerified
  <2>1. /\ monPc = "finishRange" /\ behaviourOk /\ call.status = "ok" /\ call.actual = mRuntime.opRange
        /\ runtime' = runtime \/ runtime' = unfenced(clear_operation(mRuntime), call.battery)
    BY <1>4 DEF FinishVerified, Ok, Save
  <2>2. /\ call.battery = b /\ mRuntime.opRange = runtime.opRange
        /\ hwBehaviour[b] = "auto" /\ hwRange[b] = call.actual
    BY <2>1 DEF IInv, MonInv, MonHolds, Restoring
  <2>3. clear_operation(mRuntime) \in Runtime
    BY <1>0, RuntimeTypes
  <2> QED
    BY <1>0, <2>1, <2>2, <2>3, RecordFields DEF Restored
<1>5. CASE FinishPass
  <2>1. ~due
    BY <1>5 DEF FinishPass, IInv, MonInv, MonHolds, WellFormed, Restoring
  <2> QED
    BY <1>0, <1>5, <2>1 DEF FinishPass
<1> QED
  BY <1>1, <1>2, <1>3, <1>4, <1>5 DEF Pass

\* A calibration that is durably restoring is not resumed, and its marker goes only
\* when the recorded range and "auto" are in place: the restoring phase is saved
\* before the first write (finish_runtime_operation, battery_cancel_calibration).
THEOREM RestorationIsFinal == Spec => RestoringIsFinal
<1>1. ASSUME IInv, [Next]_vars, NEW b \in Batteries, Restoring(b) PROVE MarkerHeld(b)
  <2>0. runtime \in Runtime /\ OnlyFence(runtime, runtime)
    BY <1>1, FenceChanges DEF IInv, TypeOK
  <2>1. CASE HelperUnknown
    <3>1. call.battery \in Batteries
      BY <1>1, <2>1, CallFacts DEF HelperUnknown
    <3> QED
      BY <2>0, <2>1, <3>1, FenceChanges DEF HelperUnknown, MarkerHeld
  <2>2. CASE HelperOk \/ HelperRefused \/ MonRead \/ MonReadFails \/ Publish \/ Environment
    BY <2>0, <2>2 DEF HelperOk, HelperRefused, MonRead, MonReadFails, Publish, Environment, Expire, DiskFails,
                DiskHeals, Crash, Cancel, envRest, MarkerHeld
  <2>3. CASE UNCHANGED vars
    BY <2>0, <2>3 DEF vars, MarkerHeld
  <2> QED
    BY <1>1, <2>1, <2>2, <2>3, HandlersHoldRestoration, PassHoldsRestoration DEF Next
<1>2. IInv /\ [Next]_vars =>
        [\A b \in Batteries :
            runtime.op = "calibration" /\ runtime.opBattery = b /\ runtime.phase = "restoring" =>
                /\ hwBehaviour'[b] = "force-discharge" => hwBehaviour[b] = "force-discharge"
                /\ \/ runtime' = [runtime EXCEPT !.fence = runtime'.fence]
                   \/ runtime'.op = "none" /\ hwRange[b] = runtime.opRange /\ hwBehaviour[b] = "auto"]_vars
  BY <1>1, DischargeNotResumed DEF Restoring, NotResumed, MarkerHeld, OnlyFence, Restored
<1> QED
  BY <1>2, Inductive, PTL DEF Spec, RestoringIsFinal
=============================================================================
