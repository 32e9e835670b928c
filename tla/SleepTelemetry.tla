--------------------------- MODULE SleepTelemetry ---------------------------
(* The published power_sleep state (state.rs commit_power_sleep) and its four *)
(* writers: sleep signals and the clock (sleep/monitoring.rs observe), the    *)
(* slow status query (refresh_loop), the outcome of operations (outcome.rs    *)
(* monitor) and the status that an action returns (protocol/sleep_wire.rs     *)
(* publish).  logind may restart, losing signals; a query may time out.       *)
EXTENDS Naturals, Sequences

CONSTANTS
    MaxSleeps,     \* sleeps of the machine, and operations of the tracker
    MaxFaults      \* lost signals and failed queries

VARIABLES
    machine,       \* logind: preparing, Keep awake's inhibitor, resumes, suspended time
    operation,     \* TRACKER's operation, as a version
    events,        \* the monitor's event channel
    clock,         \* ResumeDetector
    wanted,        \* a refresh is requested (the watch channel's mark)
    query,         \* refresh_loop's query in flight
    toggle,        \* an action's status reply not yet published
    shown,         \* snapshot.power_sleep
    faults

telemetryVars == <<machine, operation, events, clock, wanted, query, toggle, shown, faults>>

None == [none |-> TRUE]
\* A status as any of its writers makes it.
Shape == [preparing: BOOLEAN, awake: BOOLEAN, gen: Nat, op: Nat, ok: BOOLEAN]
Queries == [before: Shape, reply: Shape \cup {None}]
\* The record, the query and the pending answer are statuses, and what is shown
\* of an operation is not ahead of the tracker.
Shapes ==
    /\ machine \in [preparing: BOOLEAN, awake: BOOLEAN, resumes: Nat, offset: Nat]
    /\ query \in Queries \cup {None}
    /\ toggle \in Shape \cup {None}
OperationKnown == operation \in Nat /\ shown \in Shape /\ shown.op <= operation
\* The signals on their way, the detector and the refresh mark.
Watched ==
    /\ events \in Seq({"sleep", "wake", "refresh"})
    /\ clock \in [base: Nat, polled: BOOLEAN] /\ wanted \in BOOLEAN /\ faults \in Nat
TypeOK == Shapes /\ OperationKnown /\ Watched

Blank == [preparing |-> FALSE, awake |-> FALSE, gen |-> 0, op |-> 0, ok |-> FALSE]
Init ==
    /\ machine = [preparing |-> FALSE, awake |-> FALSE, resumes |-> 0, offset |-> 0]
    /\ operation = 0 /\ events = <<"refresh">> /\ clock = [base |-> 0, polled |-> FALSE]
    /\ wanted = FALSE /\ query = None /\ toggle = None /\ shown = Blank /\ faults = 0

-----------------------------------------------------------------------------
\* Mutant: the operation that came with the reply replaces the resident one.
MutCommit(value, resumed) == [value EXCEPT !.gen = shown.gen + resumed]
\* commit_power_sleep keeps the resident generation and operation.
commit_power_sleep(value, resumed) == [value EXCEPT !.gen = shown.gen + resumed, !.op = shown.op]

\* ResumeDetector: a resume is seen by the clock or by the signal, once.
Advanced == machine.offset > clock.base
poll == clock' = IF Advanced THEN [base |-> machine.offset, polled |-> TRUE] ELSE clock
SignalCounts == Advanced \/ ~clock.polled
signal == clock' = [base |-> machine.offset, polled |-> FALSE]

\* read_state: one logind round trip after another; a failed property read
\* keeps the caller's hint.
read_state(hint) ==
    {[preparing |-> p, awake |-> machine.awake, gen |-> 0, op |-> operation, ok |-> TRUE]
        : p \in {machine.preparing} \cup (IF faults < MaxFaults THEN {hint} ELSE {})}

-----------------------------------------------------------------------------
(* logind and the actions that call it                                        *)

\* The signal stream awaits room in the channel: no event is dropped.
Send(e) == events' = Append(events, e)
Sleep ==
    /\ ~machine.preparing /\ machine.resumes < MaxSleeps
    /\ machine' = [machine EXCEPT !.preparing = TRUE]
    /\ \/ Send("sleep") /\ UNCHANGED faults
       \/ faults < MaxFaults /\ faults' = faults + 1 /\ Send("refresh")
    /\ UNCHANGED <<operation, clock, wanted, query, toggle, shown>>
\* Time suspended shows on the clock, unless the sleep was short or refused.
\* A lost signal stream is connected again and asks for a refresh.
Wake ==
    /\ machine.preparing
    /\ \E long \in {0, 1} :
          machine' = [machine EXCEPT !.preparing = FALSE, !.resumes = @ + 1, !.offset = @ + long]
    /\ \/ Send("wake") /\ UNCHANGED faults
       \/ faults < MaxFaults /\ faults' = faults + 1 /\ Send("refresh")
    /\ UNCHANGED <<operation, clock, wanted, query, toggle, shown>>
\* set_keep_awake: the inhibitor, then a status read whose reply is published
\* later and unconditionally; a failed read shows the toggle alone.
SetKeepAwake ==
    /\ toggle = None /\ ~machine.preparing /\ operation < MaxSleeps
    /\ machine' = [machine EXCEPT !.awake = ~@]
    /\ \/ toggle' \in {[preparing |-> machine.preparing, awake |-> machine'.awake, gen |-> 0,
                        op |-> operation, ok |-> TRUE]} /\ UNCHANGED faults
       \/ faults < MaxFaults /\ faults' = faults + 1 /\ toggle' = [Blank EXCEPT !.awake = machine'.awake]
    /\ operation' = operation + 1
    /\ UNCHANGED <<events, clock, wanted, query, shown>>
\* publish -> update_power_sleep
PublishAction ==
    /\ toggle # None /\ toggle' = None
    /\ shown' = commit_power_sleep(toggle, 0)
    /\ UNCHANGED <<machine, operation, events, clock, wanted, query, faults>>
\* outcome::monitor -> record_sleep_operation: always the newest value.
RecordOperation ==
    /\ shown.op # operation /\ shown' = [shown EXCEPT !.op = operation]
    /\ UNCHANGED <<machine, operation, events, clock, wanted, query, toggle, faults>>

-----------------------------------------------------------------------------
(* observe and refresh_loop                                                   *)

record_resume == shown' = [commit_power_sleep(shown, 1) EXCEPT !.preparing = FALSE]
record_sleep_preparation(p) == shown' = [commit_power_sleep(shown, 0) EXCEPT !.preparing = p]
ObserveEvent ==
    /\ events # <<>> /\ events' = Tail(events) /\ wanted' = TRUE
    /\ CASE Head(events) = "sleep" -> record_sleep_preparation(TRUE) /\ UNCHANGED clock
         [] Head(events) = "wake" -> /\ signal
                                     /\ IF SignalCounts THEN record_resume ELSE record_sleep_preparation(FALSE)
         [] OTHER -> UNCHANGED <<shown, clock>>
    /\ UNCHANGED <<machine, operation, query, toggle, faults>>
ObserveClock ==
    /\ Advanced /\ poll /\ record_resume /\ wanted' = TRUE
    /\ UNCHANGED <<machine, operation, events, query, toggle, faults>>
\* Mutant: the periodic refresh only retries after an error.
MutFallback == ~shown.ok
fallback == TRUE
ObserveFallback ==
    /\ fallback /\ ~wanted /\ query = None /\ wanted' = TRUE
    /\ UNCHANGED <<machine, operation, events, clock, query, toggle, shown, faults>>

RefreshStarts ==
    /\ query = None /\ wanted /\ wanted' = FALSE
    /\ query' = [before |-> shown, reply |-> None]
    /\ UNCHANGED <<machine, operation, events, clock, toggle, shown, faults>>
\* The reply is taken some time after the query began and committed later still.
RefreshReads ==
    /\ query # None /\ query.reply = None
    /\ \/ \E r \in read_state(query.before.preparing) :
             query' = [query EXCEPT !.reply = r] /\ faults' = IF r.preparing = machine.preparing THEN faults ELSE faults + 1
       \/ /\ faults < MaxFaults /\ faults' = faults + 1   \* timed out, or logind failed
          /\ query' = [query EXCEPT !.reply = [Blank EXCEPT !.preparing = query.before.preparing]]
    /\ UNCHANGED <<machine, operation, events, clock, wanted, toggle, shown>>
\* Mutant: the reply is committed whatever happened since.
MutUnchanged(expected) == TRUE
if_unchanged(expected) == shown = expected
RefreshCommits ==
    /\ query # None /\ query.reply # None /\ query' = None
    /\ IF if_unchanged(query.before)
       THEN shown' = commit_power_sleep(query.reply, 0) /\ UNCHANGED wanted
       ELSE wanted' = TRUE /\ UNCHANGED shown                     \* mark_changed
    /\ UNCHANGED <<machine, operation, events, clock, toggle, faults>>

Observe == ObserveEvent \/ ObserveClock \/ RecordOperation \/ PublishAction
Refresh == RefreshStarts \/ RefreshReads \/ RefreshCommits
Next == Sleep \/ Wake \/ SetKeepAwake \/ Observe \/ ObserveFallback \/ Refresh
\* Every loop of the monitor keeps being scheduled; the fallback timer ticks.
\* The machine wakes by itself or is never seen again.
Fairness == /\ WF_telemetryVars(ObserveEvent) /\ WF_telemetryVars(ObserveClock)
            /\ WF_telemetryVars(RecordOperation) /\ WF_telemetryVars(PublishAction)
            /\ WF_telemetryVars(ObserveFallback) /\ WF_telemetryVars(Refresh)
Spec == Init /\ [][Next]_telemetryVars /\ Fairness

-----------------------------------------------------------------------------
\* "A query started before a resume/preparation/toggle must never roll that
\* newer state back, even if its old reply arrives afterwards": no writer takes
\* back a resume or an operation, and a query that a resume overtook changes
\* nothing.
Newer ==
    /\ shown'.gen >= shown.gen /\ shown'.op >= shown.op
    /\ RefreshCommits /\ shown.gen > query.before.gen => shown' = shown
NoRollback == [][Newer]_telemetryVars
\* Lost signals, failed queries and late replies heal: once logind rests, what
\* is shown is what logind says.
StatusTrue == shown.preparing = machine.preparing /\ shown.awake = machine.awake
StatusConverges == <>[]StatusTrue

\* The inductive invariant.
IInv == Shapes /\ OperationKnown
=============================================================================
