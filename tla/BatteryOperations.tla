-------------------------- MODULE BatteryOperations --------------------------
(***************************************************************************)
(* The daemon's table of asynchronous battery operations                   *)
(* (src/src/daemon/battery_operations.rs): battery.operation.start admits   *)
(* one operation at a time and spawns a task for it; the task runs the API *)
(* handler, and owner loss, the budget or battery.operation.cancel ask it   *)
(* to stop.  The task never drops the handler: it waits for the reply.     *)
(* What the handler does is the subject of BatteryControl.                  *)
(*                                                                         *)
(* Owners are bus names or socket sessions (daemon/owner.rs); neither is   *)
(* used again after it is gone, but a request of a gone owner may still be *)
(* on its way.  Operation identifiers are the numbers of the store's       *)
(* counter.                                                                *)
(***************************************************************************)
EXTENDS Integers, FiniteSets

CONSTANTS
    Owners,
    Nobody,       \* the owner of an operation not started yet
    Capacity,     \* CAPACITY, 64 in the code
    MaxStarts     \* bound: operations admitted

ASSUME OperationsAssumption == Nobody \notin Owners /\ Capacity \in Nat \ {0} /\ MaxStarts \in Nat

VARIABLES
    alive,     \* owners that still exist
    monitorUp, \* the owner-loss monitor works; when it fails it reports a loss
    next,      \* the store's counter
    entries,   \* identifiers in the table
    owner,     \* who started an operation
    cancel,    \* its cancellation flag
    answer,    \* "running", then "fresh" within and "expired" after RETENTION
    task       \* the spawned task

vars == <<alive, monitorUp, next, entries, owner, cancel, answer, task>>

Ids == 1..MaxStarts
Tasks == {"none", "checking", "working", "ownerLost", "overBudget", "done"}

\* The handler of operation i is or may be running.
Active(i) == task[i] \in {"checking", "working", "ownerLost", "overBudget"}

TypeOK ==
    /\ alive \subseteq Owners /\ monitorUp \in BOOLEAN
    /\ next \in 0..MaxStarts /\ entries \subseteq 1..next
    /\ owner \in [Ids -> Owners \cup {Nobody}] /\ cancel \in [Ids -> BOOLEAN]
    /\ answer \in [Ids -> {"running", "fresh", "expired"}]
    /\ task \in [Ids -> Tasks]

Init ==
    /\ alive = Owners /\ monitorUp = TRUE
    /\ next = 0 /\ entries = {}
    /\ owner = [i \in Ids |-> Nobody] /\ cancel = [i \in Ids |-> FALSE]
    /\ answer = [i \in Ids |-> "running"] /\ task = [i \in Ids |-> "none"]

-----------------------------------------------------------------------------

\* Mutant: pruning keeps only what still runs.
MutRetained == {i \in entries : answer[i] = "running"}

retained == {i \in entries : answer[i] # "expired"}

\* Mutant: off by one at the capacity.
MutAdmitted(kept) == Cardinality(kept) <= Capacity /\ \A i \in kept : answer[i] # "running"

admitted(kept) == Cardinality(kept) < Capacity /\ \A i \in kept : answer[i] # "running"

\* Mutant: the counter is read but not advanced.
MutStart(o) ==
    /\ admitted(retained) /\ next < MaxStarts
    /\ entries' = retained \cup {next + 1}
    /\ owner' = [owner EXCEPT ![next + 1] = o]
    /\ task' = [task EXCEPT ![next + 1] = "checking"]
    /\ UNCHANGED <<alive, monitorUp, next, cancel, answer>>

\* battery.operation.start; pruning the table is its first step either way.
Start(o) ==
    /\ admitted(retained) /\ next < MaxStarts
    /\ next' = next + 1
    /\ entries' = retained \cup {next + 1}
    /\ owner' = [owner EXCEPT ![next + 1] = o]
    /\ task' = [task EXCEPT ![next + 1] = "checking"]
    /\ UNCHANGED <<alive, monitorUp, cancel, answer>>

StartRefused ==
    /\ ~admitted(retained)
    /\ entries' = retained
    /\ UNCHANGED <<alive, monitorUp, next, owner, cancel, answer, task>>

\* Owner::exists; a failed lookup counts as "no".
OwnerConfirmed(i) ==
    /\ task[i] = "checking" /\ owner[i] \in alive
    /\ task' = [task EXCEPT ![i] = "working"]
    /\ UNCHANGED <<alive, monitorUp, next, entries, owner, cancel, answer>>

OwnerNotConfirmed(i) ==
    /\ task[i] = "checking" /\ (owner[i] \notin alive \/ ~monitorUp)
    /\ task' = [task EXCEPT ![i] = "done"]
    /\ entries' = entries \ {i}
    /\ UNCHANGED <<alive, monitorUp, next, owner, cancel, answer>>

\* Mutant: the entry goes as soon as its owner does.
MutOwnerClosed(i) ==
    /\ task[i] = "working" /\ (owner[i] \notin alive \/ ~monitorUp)
    /\ task' = [task EXCEPT ![i] = "ownerLost"]
    /\ cancel' = [cancel EXCEPT ![i] = TRUE]
    /\ entries' = entries \ {i}
    /\ UNCHANGED <<alive, monitorUp, next, owner, answer>>

\* Owner::closed resolves; the handler is told and awaited.
OwnerClosed(i) ==
    /\ task[i] = "working" /\ (owner[i] \notin alive \/ ~monitorUp)
    /\ task' = [task EXCEPT ![i] = "ownerLost"]
    /\ cancel' = [cancel EXCEPT ![i] = TRUE]
    /\ UNCHANGED <<alive, monitorUp, next, entries, owner, answer>>

\* Mutant: the budget does not reach the handler.
MutBudgetSpent(i) ==
    /\ task[i] = "working"
    /\ task' = [task EXCEPT ![i] = "overBudget"]
    /\ UNCHANGED <<alive, monitorUp, next, entries, owner, cancel, answer>>

\* OPERATION_BUDGET has passed.
BudgetSpent(i) ==
    /\ task[i] = "working"
    /\ task' = [task EXCEPT ![i] = "overBudget"]
    /\ cancel' = [cancel EXCEPT ![i] = TRUE]
    /\ UNCHANGED <<alive, monitorUp, next, entries, owner, answer>>

\* Mutant: the answer is stored whoever may still ask for it.
MutReplied(i) ==
    /\ task[i] \in {"working", "ownerLost", "overBudget"}
    /\ task' = [task EXCEPT ![i] = "done"]
    /\ answer' = IF i \in entries THEN [answer EXCEPT ![i] = "fresh"] ELSE answer
    /\ UNCHANGED <<alive, monitorUp, next, entries, owner, cancel>>

\* The handler replied (or panicked, which counts as an unknown outcome).
Replied(i) ==
    /\ task[i] \in {"working", "ownerLost", "overBudget"}
    /\ task' = [task EXCEPT ![i] = "done"]
    /\ IF task[i] = "ownerLost"
         THEN entries' = entries \ {i} /\ UNCHANGED answer
         ELSE /\ answer' = IF i \in entries THEN [answer EXCEPT ![i] = "fresh"] ELSE answer
              /\ UNCHANGED entries
    /\ UNCHANGED <<alive, monitorUp, next, owner, cancel>>

\* battery.operation.status is a read; battery.operation.cancel also sets the flag.
Visible(o, i) == i \in entries /\ owner[i] = o /\ answer[i] # "expired"

Cancel(o, i) ==
    /\ Visible(o, i)
    /\ cancel' = [cancel EXCEPT ![i] = TRUE]
    /\ UNCHANGED <<alive, monitorUp, next, entries, owner, answer, task>>

\* RETENTION has passed since the reply.
Expire(i) ==
    /\ i \in entries /\ answer[i] = "fresh"
    /\ answer' = [answer EXCEPT ![i] = "expired"]
    /\ UNCHANGED <<alive, monitorUp, next, entries, owner, cancel, task>>

OwnerLeaves(o) ==
    /\ o \in alive /\ alive' = alive \ {o}
    /\ UNCHANGED <<monitorUp, next, entries, owner, cancel, answer, task>>

MonitorFails ==
    /\ monitorUp /\ monitorUp' = FALSE
    /\ UNCHANGED <<alive, next, entries, owner, cancel, answer, task>>

Task(i) ==
    \/ OwnerConfirmed(i) \/ OwnerNotConfirmed(i) \/ OwnerClosed(i)
    \/ BudgetSpent(i) \/ Replied(i)

Next ==
    \/ \E o \in Owners : Start(o) \/ OwnerLeaves(o)
    \/ StartRefused \/ MonitorFails
    \/ \E i \in Ids : Task(i) \/ Expire(i) \/ (\E o \in Owners : Cancel(o, i))

\* The runtime polls every task; timers fire; a cancelled handler replies
\* (BatteryControl!HandlersReturn).
Fairness ==
    \A i \in Ids :
        /\ WF_vars(OwnerConfirmed(i) \/ OwnerNotConfirmed(i))
        /\ WF_vars(OwnerClosed(i) \/ BudgetSpent(i))
        /\ WF_vars(cancel[i] /\ Replied(i))

Spec == Init /\ [][Next]_vars /\ Fairness

-----------------------------------------------------------------------------
(* Properties *)

\* Two handlers never run at once, although owner loss and the budget end an
\* operation for its owner long before the handler has replied (Operations::start).
OneHandlerAtATime == \A i, j \in Ids : Active(i) /\ Active(j) => i = j

\* The table never holds more than its capacity, whatever is still running.
TableBounded == Cardinality(entries) <= Capacity

\* An answer is found by its owner for the whole retention: pruning, the owner's
\* loss, a late budget or a cancellation neither remove nor replace it.
AnswerKept ==
    [][\A i \in Ids : i \in entries /\ answer[i] = "fresh" =>
          i \in entries' /\ answer'[i] \in {"fresh", "expired"} /\ task'[i] = "done"]_vars

\* Every admitted operation ends: its handler has replied, or never started.
OperationEnds == \A i \in Ids : i \in entries /\ answer[i] = "running" ~> ~Active(i)

\* An operation that lost its owner leaves the table without being looked up.
OrphanRemoved == \A i \in Ids : task[i] = "ownerLost" ~> i \notin entries
=============================================================================
