---------------------------- MODULE TimezoneView ----------------------------
(***************************************************************************)
(* The timezone domain (src/src/timezone.rs): one task watches timedated's *)
(* property signal, service owners and the location authority's public     *)
(* status file, keeps the last verified zone and location, and publishes   *)
(* their projection.  The authority's revision stands for its accepted     *)
(* fix and its policy, which change together with it; the three calls of   *)
(* a location read are separate steps.                                     *)
(***************************************************************************)
EXTENDS Naturals

CONSTANTS
    SystemZones,    \* the zones timedated may report
    MaxRevision,    \* bound on the authority's revisions
    MaxEnv          \* bound on zone changes, failures, restarts and messages

VARIABLES
    system,         \* timedated: the zone; the authority: its revision
    status,         \* status.json: revision and message; revision 0 stands for no file
    signals,        \* queued property and owner signals
    zoneSeen, placeSeen,    \* Cached: value, failed, a retry is due, pending
    statusSeen,     \* PublicStatus
    task,           \* the monitor's step, the half-read location, dirty
    shownZone,      \* the store's timezone domain
    envz

timezoneVars == <<system, status, signals, zoneSeen, placeSeen, statusSeen, task, shownZone, envz>>

None == "none"
NoPlace == [accepted |-> 0, control |-> 0]
Cached(value) == [value |-> value, failed |-> FALSE, pending |-> TRUE]
Tick == envz < MaxEnv /\ envz' = envz + 1
Fault(b) == (b /\ Tick) \/ (~b /\ UNCHANGED envz)
Go(at) == [task EXCEPT !.at = at]

TimezoneInit ==
    /\ system \in [zone : SystemZones, revision : {1}] /\ status = [revision |-> 1, message |-> FALSE]
    /\ signals = {} /\ zoneSeen = Cached(None) /\ placeSeen = Cached(NoPlace) /\ statusSeen = status
    /\ task = [at |-> "zone", half |-> NoPlace, dirty |-> TRUE]
    /\ shownZone = [zone |-> None, available |-> FALSE, place |-> NoPlace] /\ envz = 0

-----------------------------------------------------------------------------
(* timedated and the location authority, external to the daemon. *)

SetTimezone(z) ==
    /\ z # system.zone /\ Tick /\ system' = [system EXCEPT !.zone = z]
    /\ signals' = signals \union {"Timezone"}
    /\ UNCHANGED <<status, zoneSeen, placeSeen, statusSeen, task, shownZone>>

AuthorityChange ==
    /\ system.revision < MaxRevision /\ system' = [system EXCEPT !.revision = @ + 1]
    /\ UNCHANGED <<status, signals, zoneSeen, placeSeen, statusSeen, task, shownZone, envz>>

AuthorityReports ==
    /\ \/ /\ status.revision # system.revision /\ status' = [status EXCEPT !.revision = system.revision]
          /\ UNCHANGED envz
       \/ Tick /\ status' = [status EXCEPT !.message = ~@]
    /\ UNCHANGED <<system, signals, zoneSeen, placeSeen, statusSeen, task, shownZone>>

(* A new owner of one of the names; the authority's runtime directory is new. *)
OwnerAppears(name) ==
    /\ Tick /\ signals' = signals \union {name}
    /\ status' = IF name = "Location" THEN [revision |-> 0, message |-> FALSE] ELSE status
    /\ UNCHANGED <<system, zoneSeen, placeSeen, statusSeen, task, shownZone>>

-----------------------------------------------------------------------------
(* Cached::refresh: a failed read keeps the verified value and asks to be
   retried. *)
Completed(cached, value, failed) ==
    [value |-> IF failed THEN cached.value ELSE value, failed |-> failed, pending |-> FALSE]

RefreshZone ==
    /\ task.at = "zone"
    /\ IF zoneSeen.pending
       THEN \E failed \in BOOLEAN :
                /\ Fault(failed) /\ zoneSeen' = Completed(zoneSeen, system.zone, failed)
                /\ task' = [task EXCEPT !.at = "control", !.dirty = TRUE]
       ELSE task' = Go("control") /\ UNCHANGED <<zoneSeen, envz>>
    /\ UNCHANGED <<system, status, signals, placeSeen, statusSeen, shownZone>>

(* read_location: the control, the accepted fix, the control again. *)
ReadControl ==
    /\ task.at = "control"
    /\ IF placeSeen.pending
       THEN \E failed \in BOOLEAN :
                /\ Fault(failed)
                /\ task' = [task EXCEPT !.at = "accepted",
                                        !.half = [accepted |-> 0, control |-> IF failed THEN 0 ELSE system.revision]]
       ELSE task' = Go("publish") /\ UNCHANGED envz
    /\ UNCHANGED <<system, status, signals, zoneSeen, placeSeen, statusSeen, shownZone>>

ReadAccepted ==
    /\ task.at = "accepted"
    /\ task' = [task EXCEPT !.at = "recheck", !.half.accepted = system.revision]
    /\ UNCHANGED <<system, status, signals, zoneSeen, placeSeen, statusSeen, shownZone, envz>>

\* Mutant: the two halves of a reading may belong to two revisions.
MutTorn(half) == FALSE
Torn(half) == half.control # 0 /\ system.revision # half.control

ReadLocation ==
    /\ task.at = "recheck"
    /\ \E failed \in BOOLEAN :
        /\ Fault(failed)
        /\ placeSeen' = Completed(placeSeen, task.half, failed \/ Torn(task.half))
    /\ task' = [task EXCEPT !.at = "publish", !.half = NoPlace, !.dirty = TRUE]
    /\ UNCHANGED <<system, status, signals, zoneSeen, statusSeen, shownZone>>

project == [zone |-> zoneSeen.value, available |-> ~zoneSeen.failed, place |-> placeSeen.value]

Publish ==
    /\ task.at = "publish" /\ task' = [task EXCEPT !.at = "select", !.dirty = FALSE]
    /\ shownZone' = IF task.dirty THEN project ELSE shownZone
    /\ UNCHANGED <<system, status, signals, zoneSeen, placeSeen, statusSeen, envz>>

(* The branches of select. *)
OnSignal ==
    /\ task.at = "select" /\ task' = Go("zone")
    /\ \E name \in signals :
        /\ signals' = signals \ {name}
        /\ zoneSeen' = [zoneSeen EXCEPT !.pending = @ \/ name \in {"Timezone", "Timedate"}]
        /\ placeSeen' = [placeSeen EXCEPT !.pending = @ \/ name = "Location"]
    /\ UNCHANGED <<system, status, statusSeen, shownZone, envz>>

LocalTick ==
    /\ task.at = "select" /\ task' = [task EXCEPT !.at = "zone", !.dirty = TRUE]
    /\ UNCHANGED <<system, status, signals, zoneSeen, placeSeen, statusSeen, shownZone, envz>>

\* Mutant: only a new message invalidates the place.
MutInvalidates(next) == next.message # statusSeen.message
Invalidates(next) == next.revision # statusSeen.revision \/ next.revision = 0

(* update_status, and the retries that are due. *)
PollStatus ==
    /\ task.at = "select"
    /\ statusSeen' = status
    /\ placeSeen' = [placeSeen EXCEPT !.pending = @ \/ placeSeen.failed
                                                  \/ (status # statusSeen /\ Invalidates(status))]
    /\ zoneSeen' = [zoneSeen EXCEPT !.pending = @ \/ zoneSeen.failed]
    /\ task' = [task EXCEPT !.at = "zone", !.dirty = (status # statusSeen)]
    /\ UNCHANGED <<system, status, signals, shownZone, envz>>

\* Mutant: a lost connection drops the place shown.
MutRetained == 0
(* A stream ends or the bus is lost: the place shown is kept, a new
   connection subscribes and reads everything again. *)
Retained == shownZone.place.accepted

Reconnect ==
    /\ task.at = "select" /\ Tick /\ signals' = {} /\ statusSeen' = status
    /\ zoneSeen' = Cached(None)
    /\ placeSeen' = Cached([accepted |-> Retained, control |-> 0])
    /\ task' = [at |-> "zone", half |-> NoPlace, dirty |-> TRUE]
    /\ shownZone' = [zone |-> None, available |-> FALSE,
                     place |-> [accepted |-> Retained, control |-> 0]]
    /\ UNCHANGED <<system, status>>

Reads == RefreshZone \/ ReadControl \/ ReadAccepted \/ ReadLocation \/ Publish

TimezoneNext ==
    \/ Reads \/ OnSignal \/ LocalTick \/ PollStatus \/ Reconnect \/ AuthorityChange \/ AuthorityReports
    \/ \E z \in SystemZones : SetTimezone(z)
    \/ \E name \in {"Timedate", "Location"} : OwnerAppears(name)

Reported == status.revision # system.revision /\ AuthorityReports
(* Every branch of select is taken again and again while it is ready, and the
   authority writes its status after every change. *)
TimezoneSpec ==
    /\ TimezoneInit /\ [][TimezoneNext]_timezoneVars /\ WF_timezoneVars(Reads)
    /\ WF_timezoneVars(Reported)
    /\ SF_timezoneVars(OnSignal) /\ SF_timezoneVars(PollStatus)

-----------------------------------------------------------------------------
(* The fix and the policy that are published together belong to one revision
   of the authority, however its changes interleave with the three calls. *)
TimezoneSafe ==
    shownZone.place.control # 0 => shownZone.place.accepted = shownZone.place.control

(* Publishing never goes back to an older fix, through failures, restarts of
   the authority and reconnects. *)
NotOlder == shownZone'.place.accepted >= shownZone.place.accepted
TimezoneSteps == [][NotOlder]_timezoneVars

(* The inductive invariant.  A fix and a policy kept together belong to one
   revision; revisions only grow, so that a later read finds no older one. *)
Whole(place) == place.control # 0 => place.accepted = place.control
Fixes == [accepted : Nat, control : Nat]
Caches == [value : Fixes, failed : BOOLEAN, pending : BOOLEAN]
Statuses == [revision : Nat, message : BOOLEAN]
Shapes ==
    /\ system \in [zone : SystemZones, revision : Nat \ {0}] /\ placeSeen \in Caches
    /\ task \in [at : {"zone", "control", "accepted", "recheck", "publish", "select"},
                 half : Fixes, dirty : BOOLEAN]
    /\ shownZone.place \in Fixes
\* The status file and its copy, the signals, the zone as it was read and as it is shown.
ZoneShapes ==
    /\ status \in Statuses /\ statusSeen \in Statuses
    /\ signals \subseteq {"Timezone", "Timedate", "Location"}
    /\ zoneSeen \in [value : SystemZones \union {None}, failed : BOOLEAN, pending : BOOLEAN]
    /\ shownZone \in [zone : SystemZones \union {None}, available : BOOLEAN, place : Fixes]
\* Every variable keeps the shape its code gives it.
TimezoneTypeOK == Shapes /\ ZoneShapes /\ envz \in Nat
\* What the task keeps is between what it shows and what the authority has accepted.
Ages ==
    /\ shownZone.place.accepted <= placeSeen.value.accepted
    /\ placeSeen.value.accepted <= system.revision
    /\ Whole(placeSeen.value) /\ Whole(shownZone.place)
\* Halfway through a reading: the control was read no later than the fix, and
\* the fix is not older than the one kept.
Halves ==
    /\ task.at = "accepted" => task.half.control <= system.revision
    /\ task.at = "recheck" => /\ task.half.control <= task.half.accepted
                              /\ task.half.accepted <= system.revision
                              /\ placeSeen.value.accepted <= task.half.accepted
TimezoneIInv == Shapes /\ Ages /\ Halves

(* The zone and the fix shown end up being timedated's and the authority's. *)
ShownTrue == shownZone.zone = system.zone /\ shownZone.available
             /\ shownZone.place.accepted = system.revision
TimezoneConverges == <>[]ShownTrue
=============================================================================
