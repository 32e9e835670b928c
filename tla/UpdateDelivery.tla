-------------------------- MODULE UpdateDelivery --------------------------
(***************************************************************************)
(* Update history and outcome notifications (src/src/updates.rs and        *)
(* src/src/updates/).  Update workers and manual rebuilds are other        *)
(* processes: a worker replaces one record file per run; a rebuild writes  *)
(* a marker, appends the outcome to a ledger, and removes the marker.      *)
(* The monitor reads them file by file while they change, invalidates the  *)
(* published history when the catalog differs, and delivers each outcome   *)
(* through the notification engine's once-only key before it saves what    *)
(* it has seen.                                                            *)
(***************************************************************************)
EXTENDS Naturals, FiniteSets

CONSTANTS
    Workers,        \* runs of the privileged update worker
    Manuals,        \* manual rebuilds
    MaxFaults       \* bound on producer crashes, daemon crashes, failed sends and saves

VARIABLES
    disk,           \* per run: its record, and whether a rebuild's marker exists
    proc,           \* per run: idle, alive or gone
    started,        \* per run: the order in which runs started, 0 before
    monitor,        \* the monitor loop: its step and what it has read so far
    shown,          \* the catalog behind the last history invalidation
    saved,          \* update-delivery.json
    delivered,      \* once-only keys the notification engine has stored
    covered,        \* history: runs a delivered notification told of
    swallowed,      \* history: runs whose notification shared a key already used
    passed,         \* history: runs saved as seen that were no event
    faults

updateVars == <<disk, proc, started, monitor, shown, saved, delivered, covered,
                swallowed, passed, faults>>

Runs == Workers \union Manuals
Problems == {"failed", "interrupted"}
Operations == {"manual", "worker"}
Op(r) == IF r \in Manuals THEN "manual" ELSE "worker"
Fault == faults < MaxFaults /\ faults' = faults + 1
NoCatalog == [r \in Runs |-> "none"]
FirstDelivery == [initialized |-> FALSE, seen |-> {},
                  incidents |-> [op \in Operations |-> "none"]]
Waiting(first) == [at |-> "wait", first |-> first]

UpdateInit ==
    /\ disk = [r \in Runs |-> [record |-> "none", marker |-> FALSE]]
    /\ proc = [r \in Runs |-> "idle"] /\ started = [r \in Runs |-> 0]
    /\ monitor = Waiting(TRUE) /\ shown = NoCatalog /\ saved = FirstDelivery
    /\ delivered = {} /\ covered = {} /\ swallowed = {} /\ passed = {} /\ faults = 0

-----------------------------------------------------------------------------
(* Producers: the update worker and rebuild-report.py. *)

Produce(r) ==
    /\ \/ /\ proc[r] = "idle" /\ proc' = [proc EXCEPT ![r] = "alive"]
          /\ started' = [started EXCEPT ![r] = 1 + Cardinality({x \in Runs : started[x] # 0})]
          /\ disk' = [disk EXCEPT ![r] = IF r \in Manuals THEN [@ EXCEPT !.marker = TRUE]
                                         ELSE [@ EXCEPT !.record = "running"]]
       \/ /\ proc[r] = "alive" /\ disk[r].record \in {"none", "running"}
          /\ \E outcome \in {"ok", "failed"} : disk' = [disk EXCEPT ![r].record = outcome]
          /\ UNCHANGED <<proc, started>>
       \/ /\ proc[r] = "alive" /\ disk[r].record \in {"ok", "failed"} /\ disk[r].marker
          /\ disk' = [disk EXCEPT ![r].marker = FALSE] /\ UNCHANGED <<proc, started>>
       \/ /\ proc[r] = "alive" /\ disk[r].record \in {"ok", "failed"} /\ ~disk[r].marker
          /\ proc' = [proc EXCEPT ![r] = "gone"] /\ UNCHANGED <<disk, started>>
    /\ UNCHANGED <<monitor, shown, saved, delivered, covered, swallowed, passed, faults>>

ProducerCrash(r) ==
    /\ proc[r] = "alive" /\ Fault /\ proc' = [proc EXCEPT ![r] = "gone"]
    /\ UNCHANGED <<disk, started, monitor, shown, saved, delivered, covered, swallowed, passed>>

-----------------------------------------------------------------------------
(* One pass of the monitor. *)

\* The loop of monitor_path: a pass begins on a file event or on the reconcile
\* deadline, whichever comes first.
pass_begins ==
    /\ monitor.at = "wait"
    /\ monitor' = [at |-> "records", first |-> monitor.first]
    /\ UNCHANGED <<disk, proc, started, shown, saved, delivered, covered, swallowed, passed, faults>>

\* history::load and the ledger, then the markers, then is_running of each.
read_records ==
    /\ monitor.at = "records"
    /\ monitor' = [at |-> "markers", first |-> monitor.first,
                   records |-> [r \in Runs |-> disk[r].record]]
    /\ UNCHANGED <<disk, proc, started, shown, saved, delivered, covered, swallowed, passed, faults>>
read_markers ==
    /\ monitor.at = "markers"
    /\ monitor' = [at |-> "check", first |-> monitor.first, records |-> monitor.records,
                   markers |-> {r \in Manuals : disk[r].marker}]
    /\ UNCHANGED <<disk, proc, started, shown, saved, delivered, covered, swallowed, passed, faults>>

\* Mutant: a record is believed only once its marker is gone.
MutOutcome(record, marker, alive) ==
    IF marker THEN IF alive THEN "running" ELSE "interrupted" ELSE record
\* A terminal record wins over a marker; a running one whose process is gone
\* was interrupted.
outcome(record, marker, alive) ==
    IF record \in {"ok", "failed"} THEN record
    ELSE IF record = "running" \/ marker THEN IF alive THEN "running" ELSE "interrupted"
    ELSE "none"

check_processes ==
    /\ monitor.at = "check"
    /\ LET catalog == [r \in Runs |-> outcome(monitor.records[r], r \in monitor.markers,
                                              proc[r] = "alive")]
       IN /\ shown' = catalog
          /\ monitor' = [at |-> "deliver", first |-> monitor.first, catalog |-> catalog]
    /\ UNCHANGED <<disk, proc, started, saved, delivered, covered, swallowed, passed, faults>>

-----------------------------------------------------------------------------
(* Delivery::events and Publisher::reconcile. *)

Ended(catalog) == {r \in Runs : catalog[r] \notin {"none", "running"}}

\* update_incidents: the incident of an operation once these runs of the catalog
\* have been taken in, oldest first; the latest of them decides.
Incident(catalog, runs, op) ==
    LET own == {r \in runs : Op(r) = op}
        latest == CHOOSE r \in own : \A x \in own : started[x] <= started[r]
    IN IF own = {} THEN saved.incidents[op]
       ELSE IF catalog[latest] \in Problems THEN catalog[latest] ELSE "none"

\* The runs that are taken in for the first time and tell something new: a problem
\* that was not there before, or (except in the first scan) a success.  The first
\* scan tells of problems only that no later run has resolved.
events(catalog) ==
    LET initial == ~saved.initialized
        new == Ended(catalog) \ saved.seen
        before(r) == {x \in new : started[x] < started[r]}
        fresh(r) == catalog[r] \in Problems /\ catalog[r] # Incident(catalog, before(r), Op(r))
    IN [seen |-> saved.seen \union new,
        incidents |-> [op \in Operations |-> Incident(catalog, new, op)],
        events |-> {r \in new : IF initial THEN fresh(r) /\ catalog[r] = Incident(catalog, new, Op(r))
                                ELSE fresh(r) \/ catalog[r] = "ok"}]

deliver ==
    /\ monitor.at = "deliver"
    /\ LET e == events(monitor.catalog) IN
       monitor' = [at |-> IF e.events = {} THEN "save" ELSE "send", first |-> monitor.first,
                   batch |-> e]
    /\ UNCHANGED <<disk, proc, started, shown, saved, delivered, covered, swallowed, passed, faults>>

\* notify_update_once: the notification engine refuses a key it has archived.
notify_update_once(key) == key \notin delivered
\* Mutant: a notification that failed is filed as seen.
MutFails == monitor' = [monitor EXCEPT !.at = "save"]
\* send: the once-only key is the last event's run; a failure ends the pass.
Fails == monitor' = Waiting(monitor.first)
send ==
    /\ monitor.at = "send"
    /\ \E last \in monitor.batch.events :
       /\ \A r \in monitor.batch.events : started[r] <= started[last]
       /\ \/ /\ notify_update_once(last) /\ delivered' = delivered \union {last}
             /\ covered' = covered \union monitor.batch.events
             /\ monitor' = [monitor EXCEPT !.at = "save"] /\ UNCHANGED <<swallowed, faults>>
          \/ /\ ~notify_update_once(last)
             /\ swallowed' = swallowed \union monitor.batch.events
             /\ monitor' = [monitor EXCEPT !.at = "save"] /\ UNCHANGED <<delivered, covered, faults>>
          \/ Fault /\ Fails /\ UNCHANGED <<delivered, covered, swallowed>>
    /\ UNCHANGED <<disk, proc, started, shown, saved, passed>>

save ==
    /\ monitor.at = "save"
    /\ \/ /\ saved' = [initialized |-> TRUE, seen |-> monitor.batch.seen,
                       incidents |-> monitor.batch.incidents]
          /\ passed' = passed \union ((monitor.batch.seen \ saved.seen) \ monitor.batch.events)
          /\ monitor' = Waiting(FALSE) /\ UNCHANGED faults
       \/ Fault /\ monitor' = Waiting(monitor.first) /\ UNCHANGED <<saved, passed>>
    /\ UNCHANGED <<disk, proc, started, shown, delivered, covered, swallowed>>

DaemonCrash ==
    /\ Fault /\ monitor' = Waiting(TRUE) /\ shown' = NoCatalog
    /\ UNCHANGED <<disk, proc, started, saved, delivered, covered, swallowed, passed>>

UpdateNext ==
    \/ \E r \in Runs : Produce(r) \/ ProducerCrash(r)
    \/ pass_begins \/ read_records \/ read_markers \/ check_processes
    \/ deliver \/ send \/ save \/ DaemonCrash

\* The monitor task always runs again: its waits have deadlines.
Pass == pass_begins \/ read_records \/ read_markers \/ check_processes \/ deliver \/ send \/ save
UpdateSpec == UpdateInit /\ [][UpdateNext]_updateVars /\ WF_updateVars(Pass)

-----------------------------------------------------------------------------
(* Properties. *)

Outcomes == {"none", "running", "ok", "failed", "interrupted"}

\* Every variable keeps the shape its code gives it.
UpdateTypeOK ==
    /\ disk \in [Runs -> [record : {"none", "running", "ok", "failed"}, marker : BOOLEAN]]
    /\ proc \in [Runs -> {"idle", "alive", "gone"}] /\ shown \in [Runs -> Outcomes]
    /\ saved.initialized \in BOOLEAN /\ saved.seen \subseteq Runs
    /\ delivered \subseteq Runs /\ covered \subseteq Runs

\* A run is filed as seen only after its producer ended it or died, and then its
\* outcome was told, or was none to tell, or shared a key already delivered:
\* neither a failed send nor a crash loses an announcement in any other way.
SeenWasAnnounced ==
    \A r \in saved.seen :
        /\ proc[r] = "gone" \/ disk[r].record \in {"ok", "failed"}
        /\ r \in covered \union swallowed \union passed

\* A key is swallowed only where a delivered batch was not saved.
SwallowedAfterFault == swallowed # {} => faults > 0

UpdateSafe == SeenWasAnnounced /\ SwallowedAfterFault

\* The published history settles on what the producers left on disk.
Settled(r) ==
    shown[r] = IF disk[r].record \in {"ok", "failed"} THEN disk[r].record
               ELSE CASE proc[r] = "idle" -> "none"
                      [] proc[r] = "alive" -> "running"
                      [] proc[r] = "gone" -> "interrupted"
HistoryTrue == \A r \in Runs : Settled(r)
HistoryConverges == <>[]HistoryTrue

(* The inductive invariant: what the monitor has read is still so when it uses
   it, and what it has sent and not yet saved is known to have a fault behind. *)
Final(r) == disk[r].record \in {"ok", "failed"}
Over(r) == proc[r] = "gone" \/ Final(r)

Catalogs == [Runs -> Outcomes]
Batches == [seen : SUBSET Runs, incidents : [Operations -> Outcomes], events : SUBSET Runs]
Monitors ==
    [at : {"wait", "records"}, first : BOOLEAN]
    \union [at : {"markers"}, first : BOOLEAN, records : [Runs -> {"none", "running", "ok", "failed"}]]
    \union [at : {"check"}, first : BOOLEAN, records : [Runs -> {"none", "running", "ok", "failed"}],
            markers : SUBSET Runs]
    \union [at : {"deliver"}, first : BOOLEAN, catalog : Catalogs]
    \union [at : {"send", "save"}, first : BOOLEAN, batch : Batches]

UpdateShapes ==
    /\ UpdateTypeOK /\ monitor \in Monitors /\ faults \in Nat
    /\ saved.incidents \in [Operations -> Outcomes]

\* A run that has left something on disk was started, and what was read of it
\* can only have gone further since.
ReadInv ==
    /\ \A r \in Runs : disk[r].record # "none" \/ disk[r].marker => proc[r] # "idle"
    /\ monitor.at \in {"markers", "check"} =>
        \A r \in Runs : /\ monitor.records[r] # "none" => proc[r] # "idle"
                        /\ monitor.records[r] \in {"ok", "failed"} => Final(r)
    /\ monitor.at = "check" => \A r \in monitor.markers : proc[r] # "idle"
    /\ monitor.at = "deliver" => \A r \in Ended(monitor.catalog) : Over(r)

BatchInv ==
    monitor.at \in {"send", "save"} =>
        /\ saved.seen \subseteq monitor.batch.seen
        /\ monitor.batch.events \subseteq monitor.batch.seen \ saved.seen
        /\ \A r \in monitor.batch.seen : Over(r)
        /\ monitor.at = "save" => monitor.batch.events \subseteq covered \union swallowed

\* Without a fault every key delivered is filed as seen, or is about to be.
KeysInv ==
    faults = 0 =>
        /\ swallowed = {}
        /\ delivered \subseteq IF monitor.at = "save" THEN monitor.batch.seen ELSE saved.seen

UpdateIInv == UpdateShapes /\ ReadInv /\ BatchInv /\ KeysInv /\ SeenWasAnnounced
=============================================================================
