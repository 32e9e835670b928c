------------------------ MODULE BatteryServiceProofs ------------------------
(***************************************************************************)
(* The privileged side of battery control: what the helper guarantees for  *)
(* every set of percentages and callers, and the operation table for every *)
(* set of owners, every capacity and every number of operations.           *)
(***************************************************************************)
EXTENDS BatteryHelper, BatteryOperations, FiniteSetTheorems, TLAPS

-----------------------------------------------------------------------------
(* The helper.                                                              *)

\* No two requests are served at the same time.
SingleCaller == \A c, d \in Callers : c = d

\* Where the writer is determines which file it has already changed.
WriterAt(c) ==
    /\ pc[c] \in {"first", "second", "rollback"} =>
           want[c][1] < want[c][2] /\ seen[c][1] < seen[c][2]
    /\ pc[c] = "first" => start = seen[c][1] /\ end = seen[c][2]
    /\ pc[c] \in {"second", "rollback"} /\ EndFirst(c) =>
           start = seen[c][1] /\ end = want[c][2]
    /\ pc[c] \in {"second", "rollback"} /\ ~EndFirst(c) =>
           start = want[c][1] /\ end = seen[c][2]
    /\ pc[c] = "readback" => start = want[c][1] /\ end = want[c][2]

RangeInv == HelperTypeOK /\ IntermediateValid /\ \A c \in Callers : WriterAt(c)

\* A request writes nothing before it is authorized, and has no reply while it runs.
DeniedInv ==
    /\ HelperTypeOK
    /\ DeniedWroteNothing
    /\ \A c \in Callers :
          /\ pc[c] # "idle" => reply[c] = "none"
          /\ pc[c] \in {"polkit", "owner", "read", "first"} => stored[c] = 0

\* Every variable keeps its type in every step of the helper.
THEOREM HelperTypeCorrect == HelperSpec => []HelperTypeOK
<1>1. HelperInit => HelperTypeOK
  BY PercentsAssumption DEF HelperInit, HelperTypeOK, Ranges, Steps, Replies
<1>2. HelperTypeOK /\ [HelperNext]_helperVars => HelperTypeOK'
  <2> SUFFICES ASSUME HelperTypeOK, [HelperNext]_helperVars PROVE HelperTypeOK'
    OBVIOUS
  <2> USE DEF HelperTypeOK, Steps, Replies
  <2>1. ASSUME NEW c \in Callers, NEW s \in Percents, NEW e \in Percents, Request(c, s, e)
        PROVE  HelperTypeOK'
    BY <2>1 DEF Request, registers
  <2>2. ASSUME NEW c \in Callers, OwnerLost(c) PROVE HelperTypeOK'
    BY <2>2 DEF OwnerLost, registers
  <2>3. ASSUME NEW c \in Callers, Authorized(c) \/ Denied(c) \/ OwnerChecked(c) PROVE HelperTypeOK'
    BY <2>3 DEF Authorized, Denied, OwnerChecked, Answer, registers
  <2>4. ASSUME NEW c \in Callers, ReadCurrent(c) PROVE HelperTypeOK'
    <3>1. pc' \in [Callers -> Steps] /\ reply' \in [Callers -> Replies]
      BY <2>4 DEF ReadCurrent, Answer
    <3>2. <<start, end>> \in Percents \X Percents
      OBVIOUS
    <3>3. seen' \in [Callers -> Percents \X Percents]
      BY <2>4, <3>2 DEF ReadCurrent
    <3> QED
      BY <2>4, <3>1, <3>3 DEF ReadCurrent, AccessFails, registers
  <2>5. ASSUME NEW c \in Callers, FirstWrite(c) PROVE HelperTypeOK'
    <3>1. stored' \in [Callers -> 0..2]
      BY <2>5 DEF FirstWrite
    <3>2. start' \in Percents /\ end' \in Percents /\ failures' \in Nat
      BY <2>5 DEF FirstWrite, StoreEnd, StoreStart, AccessFails, registers
    <3>3. pc' \in [Callers -> Steps] /\ reply' \in [Callers -> Replies]
      BY <2>5 DEF FirstWrite, Answer
    <3> QED
      BY <2>5, <3>1, <3>2, <3>3 DEF FirstWrite
  <2>6. ASSUME NEW c \in Callers, SecondWrite(c) PROVE HelperTypeOK'
    BY <2>6 DEF SecondWrite, StoreEnd, StoreStart, AccessFails, registers
  <2>7. ASSUME NEW c \in Callers, Rollback(c) PROVE HelperTypeOK'
    BY <2>7 DEF Rollback, StoreEnd, StoreStart, AccessFails, Answer, registers
  <2>8. ASSUME NEW c \in Callers, Readback(c) PROVE HelperTypeOK'
    BY <2>8 DEF Readback, AccessFails, Answer, registers
  <2>9. CASE UNCHANGED helperVars
    BY <2>9 DEF helperVars
  <2> QED
    BY <2>1, <2>2, <2>3, <2>4, <2>5, <2>6, <2>7, <2>8, <2>9 DEF HelperNext, Serve
<1> QED
  BY <1>1, <1>2, PTL DEF HelperSpec

\* A request answered with AccessDenied wrote no file, whoever else is served.
THEOREM DeniedIsSafe == HelperSpec => []DeniedWroteNothing
<1>1. HelperInit => DeniedInv
  BY HelperTypeCorrect, PercentsAssumption
  DEF HelperInit, DeniedInv, DeniedWroteNothing, HelperTypeOK, Ranges, Steps, Replies
<1>2. DeniedInv /\ HelperTypeOK' /\ [HelperNext]_helperVars => DeniedInv'
  <2> SUFFICES ASSUME DeniedInv, HelperTypeOK', [HelperNext]_helperVars PROVE DeniedInv'
    OBVIOUS
  <2> USE DEF DeniedInv, DeniedWroteNothing, HelperTypeOK
  <2>1. ASSUME NEW c \in Callers, NEW s \in Percents, NEW e \in Percents, Request(c, s, e)
        PROVE  DeniedInv'
    BY <2>1 DEF Request
  <2>2. ASSUME NEW c \in Callers, OwnerLost(c) PROVE DeniedInv'
    BY <2>2 DEF OwnerLost
  <2>3. ASSUME NEW c \in Callers, Authorized(c) \/ Denied(c) \/ OwnerChecked(c) PROVE DeniedInv'
    BY <2>3 DEF Authorized, Denied, OwnerChecked, Answer
  <2>4. ASSUME NEW c \in Callers, ReadCurrent(c) PROVE DeniedInv'
    BY <2>4 DEF ReadCurrent, Answer
  <2>5. ASSUME NEW c \in Callers, FirstWrite(c) PROVE DeniedInv'
    BY <2>5 DEF FirstWrite, Answer
  <2>6. ASSUME NEW c \in Callers, SecondWrite(c) PROVE DeniedInv'
    BY <2>6 DEF SecondWrite
  <2>7. ASSUME NEW c \in Callers, Rollback(c) \/ Readback(c) PROVE DeniedInv'
    BY <2>7 DEF Rollback, Readback, Answer
  <2>8. CASE UNCHANGED helperVars
    BY <2>8 DEF helperVars
  <2> QED
    BY <2>1, <2>2, <2>3, <2>4, <2>5, <2>6, <2>7, <2>8 DEF HelperNext, Serve
<1>3. DeniedInv => DeniedWroteNothing
  BY DEF DeniedInv
<1> QED
  BY <1>1, <1>2, <1>3, HelperTypeCorrect, PTL DEF HelperSpec

\* Alone, a writer finds the files as its last step left them.
LEMMA RangeHolds == SingleCaller => (HelperSpec => []RangeInv)
<1> SUFFICES ASSUME SingleCaller PROVE HelperSpec => []RangeInv
  OBVIOUS
<1>1. HelperInit => RangeInv
  BY PercentsAssumption
  DEF HelperInit, RangeInv, IntermediateValid, WriterAt, HelperTypeOK, Ranges, Steps, Replies
<1>2. RangeInv /\ HelperTypeOK' /\ [HelperNext]_helperVars => RangeInv'
  <2> SUFFICES ASSUME RangeInv, HelperTypeOK', [HelperNext]_helperVars PROVE RangeInv'
    OBVIOUS
  <2> USE PercentsAssumption
  <2> USE DEF RangeInv, IntermediateValid, WriterAt, EndFirst, HelperTypeOK
  <2>1. ASSUME NEW c \in Callers, NEW s \in Percents, NEW e \in Percents, Request(c, s, e)
        PROVE  RangeInv'
    BY <2>1 DEF Request, registers
  <2>2. ASSUME NEW c \in Callers, OwnerLost(c) PROVE RangeInv'
    BY <2>2 DEF OwnerLost, registers
  <2>3. ASSUME NEW c \in Callers, Authorized(c) \/ Denied(c) \/ OwnerChecked(c) PROVE RangeInv'
    BY <2>3 DEF Authorized, Denied, OwnerChecked, Answer, registers
  <2>4. ASSUME NEW c \in Callers, ReadCurrent(c) PROVE RangeInv'
    BY <2>4 DEF ReadCurrent, AccessFails, Answer, registers, valid_thresholds
  <2>5. ASSUME NEW c \in Callers, FirstWrite(c) PROVE RangeInv'
    <3>1. CASE pc'[c] = "second"
      <4>1. IF EndFirst(c) THEN StoreEnd(want[c][2]) ELSE StoreStart(want[c][1])
        BY <2>5, <3>1 DEF FirstWrite, Answer
      <4>2. want' = want /\ seen' = seen /\ pc[c] = "first"
        BY <2>5 DEF FirstWrite
      <4>3. \A d \in Callers : d = c
        BY SingleCaller DEF SingleCaller
      <4>4. /\ want[c][1] \in Int /\ want[c][2] \in Int
            /\ seen[c][1] \in Int /\ seen[c][2] \in Int
            /\ want[c][1] < want[c][2] /\ seen[c][1] < seen[c][2]
            /\ start = seen[c][1] /\ end = seen[c][2]
        <5>1. WriterAt(c) /\ c \in Callers
          BY <2>5
        <5>2. want[c] \in Percents \X Percents /\ seen[c] \in Percents \X Percents
          BY <2>5
        <5>3. Percents \subseteq Int
          BY PercentsAssumption
        <5> QED
          BY <4>2, <5>1, <5>2, <5>3
      <4>5. CASE want[c][1] >= seen[c][2]
        BY <3>1, <4>1, <4>2, <4>4, <4>5, <4>3 DEF StoreEnd, StoreStart
      <4>6. CASE ~(want[c][1] >= seen[c][2])
        BY <3>1, <4>1, <4>2, <4>4, <4>6, <4>3 DEF StoreEnd, StoreStart
      <4> QED
        BY <4>5, <4>6
    <3>2. CASE pc'[c] # "second"
      BY <2>5, <3>2, SingleCaller DEF SingleCaller, FirstWrite, AccessFails, Answer, registers
    <3> QED
      BY <3>1, <3>2
  <2>6. ASSUME NEW c \in Callers, SecondWrite(c) PROVE RangeInv'
    BY <2>6, SingleCaller DEF SingleCaller, SecondWrite, StoreEnd, StoreStart, AccessFails, registers
  <2>7. ASSUME NEW c \in Callers, Rollback(c) PROVE RangeInv'
    BY <2>7, SingleCaller DEF SingleCaller, Rollback, StoreEnd, StoreStart, AccessFails, Answer, registers
  <2>8. ASSUME NEW c \in Callers, Readback(c) PROVE RangeInv'
    BY <2>8 DEF Readback, AccessFails, Answer, registers
  <2>9. CASE UNCHANGED helperVars
    BY <2>9 DEF helperVars
  <2> QED
    BY <2>1, <2>2, <2>3, <2>4, <2>5, <2>6, <2>7, <2>8, <2>9 DEF HelperNext, Serve
<1> QED
  BY <1>1, <1>2, HelperTypeCorrect, PTL DEF HelperSpec

\* Alone, a request has stored as many writes as its writer got through, and it
\* has no reply while it runs.
FailedInv ==
    /\ FailedRangeExplained
    /\ \A c \in Callers :
          /\ pc[c] # "idle" => reply[c] = "none"
          /\ pc[c] \in {"polkit", "owner", "read", "first"} => stored[c] = 0
          /\ pc[c] \in {"second", "rollback"} => stored[c] = 1
          /\ pc[c] = "readback" => stored[c] = 2

\* When requests are served one at a time, every intermediate pair of the two
\* sysfs files is a valid range, whatever writes fail.
THEOREM RangeAlwaysValid == SingleCaller => (HelperSpec => []IntermediateValid)
<1>1. RangeInv => IntermediateValid
  BY DEF RangeInv
<1> QED
  BY <1>1, RangeHolds, PTL

\* When requests are served one at a time, one that failed after a write was
\* stored leaves the range it found, that range with its first write, or, when
\* only the readback failed, the whole range it asked for: set_thresholds never
\* leaves another one, whatever writes and reads fail.
THEOREM FailedRangeIsExplained == SingleCaller => (HelperSpec => []FailedRangeExplained)
<1> SUFFICES ASSUME SingleCaller PROVE HelperSpec => []FailedRangeExplained
  OBVIOUS
<1>1. HelperInit => FailedInv
  BY DEF HelperInit, FailedInv, FailedRangeExplained
<1>2. RangeInv /\ RangeInv' /\ FailedInv /\ [HelperNext]_helperVars => FailedInv'
  <2> SUFFICES ASSUME RangeInv, RangeInv', FailedInv, [HelperNext]_helperVars PROVE FailedInv'
    OBVIOUS
  <2>0. /\ pc \in [Callers -> Steps] /\ reply \in [Callers -> Replies]
        /\ stored \in [Callers -> 0..2]
        /\ want \in [Callers -> Percents \X Percents]
        /\ seen \in [Callers -> Percents \X Percents]
    BY DEF RangeInv, HelperTypeOK
  <2>1. ASSUME NEW c \in Callers, NEW s \in Percents, NEW e \in Percents, Request(c, s, e)
        PROVE  FailedInv'
    BY <2>0, <2>1, SingleCaller DEF SingleCaller, FailedInv, FailedRangeExplained, Request
  <2>2. ASSUME NEW c \in Callers, OwnerLost(c) PROVE FailedInv'
    BY <2>2 DEF FailedInv, FailedRangeExplained, EndFirst, OwnerLost, registers
  <2>3. ASSUME NEW c \in Callers, Authorized(c) \/ Denied(c) \/ OwnerChecked(c) PROVE FailedInv'
    BY <2>0, <2>3, SingleCaller
    DEF SingleCaller, FailedInv, FailedRangeExplained, Authorized, Denied, OwnerChecked, Answer
  <2>4. ASSUME NEW c \in Callers, ReadCurrent(c) PROVE FailedInv'
    BY <2>0, <2>4, SingleCaller DEF SingleCaller, FailedInv, FailedRangeExplained, ReadCurrent, Answer
  <2>5. ASSUME NEW c \in Callers, FirstWrite(c) PROVE FailedInv'
    BY <2>0, <2>5, SingleCaller DEF SingleCaller, FailedInv, FailedRangeExplained, FirstWrite, Answer
  <2>6. ASSUME NEW c \in Callers, SecondWrite(c) PROVE FailedInv'
    BY <2>0, <2>6, SingleCaller DEF SingleCaller, FailedInv, FailedRangeExplained, SecondWrite
  <2>7. ASSUME NEW c \in Callers, Rollback(c) PROVE FailedInv'
    <3>1. /\ \A d \in Callers : d = c
          /\ pc[c] = "rollback" /\ pc'[c] = "idle" /\ want' = want /\ seen' = seen
          /\ stored' = stored /\ stored[c] = 1
      BY <2>0, <2>7, SingleCaller DEF SingleCaller, FailedInv, Rollback, Answer
    <3>2. seen[c] = <<seen[c][1], seen[c][2]>>
      BY <2>0
    <3>3. /\ EndFirst(c) => start = seen[c][1] /\ end = want[c][2]
          /\ ~EndFirst(c) => start = want[c][1] /\ end = seen[c][2]
      BY <3>1 DEF RangeInv, WriterAt
    <3>4. EndFirst(c)' <=> EndFirst(c)
      BY <3>1 DEF EndFirst
    <3>5. \/ <<start', end'>> = seen[c]
          \/ EndFirst(c) /\ <<start', end'>> = <<seen[c][1], want[c][2]>>
          \/ ~EndFirst(c) /\ <<start', end'>> = <<want[c][1], seen[c][2]>>
      <4>1. CASE UNCHANGED registers
        BY <3>3, <4>1 DEF registers
      <4>2. CASE IF EndFirst(c) THEN StoreEnd(seen[c][2]) ELSE StoreStart(seen[c][1])
        BY <3>2, <3>3, <4>2 DEF StoreEnd, StoreStart
      <4> QED
        BY <2>7, <4>1, <4>2 DEF Rollback, AccessFails
    <3> QED
      BY <3>1, <3>4, <3>5 DEF FailedInv, FailedRangeExplained
  <2>8. ASSUME NEW c \in Callers, Readback(c) PROVE FailedInv'
    <3>1. /\ \A d \in Callers : d = c
          /\ pc[c] = "readback" /\ pc'[c] = "idle" /\ want' = want
          /\ stored' = stored /\ stored[c] = 2
          /\ start' = start /\ end' = end
      BY <2>0, <2>8, SingleCaller DEF SingleCaller, FailedInv, Readback, AccessFails, Answer, registers
    <3>2. want[c] = <<want[c][1], want[c][2]>>
      BY <2>0
    <3>3. <<start', end'>> = want[c]
      BY <3>1, <3>2 DEF RangeInv, WriterAt
    <3> QED
      BY <3>1, <3>3 DEF FailedInv, FailedRangeExplained
  <2>9. CASE UNCHANGED helperVars
    BY <2>9 DEF helperVars, FailedInv, FailedRangeExplained, EndFirst
  <2> QED
    BY <2>1, <2>2, <2>3, <2>4, <2>5, <2>6, <2>7, <2>8, <2>9 DEF HelperNext, Serve
<1>3. FailedInv => FailedRangeExplained
  BY DEF FailedInv
<1> QED
  BY <1>1, <1>2, <1>3, RangeHolds, PTL DEF HelperSpec

-----------------------------------------------------------------------------
(* The operation table.                                                     *)

\* The task and the table agree: a running handler has an entry without an
\* answer, and an answer means that the handler is gone.
TaskInv ==
    \A i \in Ids :
        /\ Active(i) => i \in entries /\ answer[i] = "running"
        /\ answer[i] # "running" => task[i] = "done"
        /\ i > next => task[i] = "none"

IInv == TypeOK /\ TaskInv /\ OneHandlerAtATime /\ TableBounded

LEMMA InitHolds == ASSUME Init PROVE IInv
<1>1. Cardinality({}) = 0
  BY FS_EmptySet
<1> QED
  BY <1>1, OperationsAssumption
  DEF Init, IInv, TypeOK, TaskInv, OneHandlerAtATime, TableBounded, Active, Ids, Tasks

LEMMA EntriesFinite == ASSUME TypeOK PROVE IsFiniteSet(entries)
<1>1. IsFiniteSet(1..next)
  BY FS_Interval DEF TypeOK
<1> QED
  BY <1>1, FS_Subset DEF TypeOK

\* Removing entries keeps the table within its capacity.
LEMMA ShrunkBounded ==
  ASSUME IInv, entries' \subseteq entries
  PROVE  TableBounded'
<1>1. IsFiniteSet(entries) /\ Cardinality(entries) <= Capacity
  BY EntriesFinite DEF IInv, TableBounded
<1>2. Cardinality(entries') <= Cardinality(entries)
  BY <1>1, FS_Subset
<1>3. Cardinality(entries') \in Nat /\ Cardinality(entries) \in Nat
  BY <1>1, FS_Subset, FS_CardinalityType
<1> QED
  BY <1>1, <1>2, <1>3, OperationsAssumption DEF TableBounded

\* Admission: nothing was running, so the new handler is alone, and there was room.
LEMMA StartKeeps == ASSUME IInv, NEW o \in Owners, Start(o) PROVE IInv'
<1> USE DEF Start
<1>1. next + 1 \in Ids /\ next \in Nat
  BY OperationsAssumption DEF IInv, TypeOK, Ids
<1>2. \A i \in Ids : ~Active(i)
  BY DEF IInv, TaskInv, admitted, retained
<1>3. task[next + 1] = "none" /\ answer[next + 1] = "running"
  BY <1>1 DEF IInv, TypeOK, TaskInv
<1>4. TypeOK'
  <2>1. next' \in 0..MaxStarts /\ entries' \subseteq 1..next'
    <3>1. retained \subseteq 1..next
      BY DEF IInv, TypeOK, retained
    <3>2. 1..next \subseteq 1..(next + 1) /\ next + 1 \in 1..(next + 1)
      BY <1>1
    <3>3. next + 1 \in 0..MaxStarts
      BY <1>1, OperationsAssumption DEF Ids
    <3> QED
      BY <3>1, <3>2, <3>3
  <2> QED
    BY <1>1, <2>1 DEF IInv, TypeOK, Tasks
<1>5. TaskInv'
  BY <1>1, <1>2, <1>3 DEF IInv, TypeOK, TaskInv, Active, Tasks, Ids
<1>6. OneHandlerAtATime'
  BY <1>1, <1>2 DEF IInv, TypeOK, OneHandlerAtATime, Active
<1>7. TableBounded'
  <2>1. IsFiniteSet(retained) /\ next + 1 \notin retained
    BY <1>1, EntriesFinite, FS_Subset DEF IInv, TypeOK, retained
  <2>2. Cardinality(entries') = Cardinality(retained) + 1
    BY <2>1, FS_AddElement
  <2>3. Cardinality(retained) \in Nat
    BY <2>1, FS_CardinalityType
  <2> QED
    BY <2>2, <2>3, OperationsAssumption DEF TableBounded, admitted
<1> QED
  BY <1>4, <1>5, <1>6, <1>7 DEF IInv

LEMMA StartRefusedKeeps == ASSUME IInv, StartRefused PROVE IInv'
<1> USE DEF StartRefused, retained
<1>1. TableBounded'
  BY ShrunkBounded
<1>2. TypeOK' /\ TaskInv' /\ OneHandlerAtATime'
  BY DEF IInv, TypeOK, TaskInv, OneHandlerAtATime, Active
<1> QED
  BY <1>1, <1>2 DEF IInv

LEMMA TaskKeeps == ASSUME IInv, NEW i \in Ids, Task(i) PROVE IInv'
<1>1. TableBounded'
  <2>1. entries' \subseteq entries
    BY DEF Task, OwnerConfirmed, OwnerNotConfirmed, OwnerClosed, BudgetSpent, Replied
  <2> QED
    BY <2>1, ShrunkBounded
<1>2. TypeOK'
  BY DEF IInv, TypeOK, Tasks, Task, OwnerConfirmed, OwnerNotConfirmed, OwnerClosed, BudgetSpent, Replied
<1>3. TaskInv'
  BY ZenonT(40) DEF IInv, TypeOK, TaskInv, Active, Tasks, Ids,
         Task, OwnerConfirmed, OwnerNotConfirmed, OwnerClosed, BudgetSpent, Replied
<1>4. Active(i)
  BY DEF Active, Task, OwnerConfirmed, OwnerNotConfirmed, OwnerClosed, BudgetSpent, Replied
<1>5. OneHandlerAtATime'
  <2>1. \A j \in Ids : j # i => task'[j] = task[j]
    BY DEF IInv, TypeOK, Task, OwnerConfirmed, OwnerNotConfirmed, OwnerClosed, BudgetSpent, Replied
  <2> QED
    BY <1>4, <2>1 DEF IInv, OneHandlerAtATime, Active
<1> QED
  BY <1>1, <1>2, <1>3, <1>5 DEF IInv

LEMMA OtherKeeps ==
  ASSUME IInv,
         \/ MonitorFails \/ UNCHANGED vars
         \/ \E o \in Owners : OwnerLeaves(o)
         \/ \E i \in Ids : Expire(i) \/ \E o \in Owners : Cancel(o, i)
  PROVE  IInv'
<1>1. TableBounded'
  BY ShrunkBounded DEF MonitorFails, OwnerLeaves, Expire, Cancel, vars
<1>2. TypeOK'
  BY DEF IInv, TypeOK, MonitorFails, OwnerLeaves, Expire, Cancel, vars
<1>3. TaskInv'
  BY DEF IInv, TypeOK, TaskInv, Active, MonitorFails, OwnerLeaves, Expire, Cancel, vars
<1>4. OneHandlerAtATime'
  BY DEF IInv, OneHandlerAtATime, Active, MonitorFails, OwnerLeaves, Expire, Cancel, vars
<1> QED
  BY <1>1, <1>2, <1>3, <1>4 DEF IInv

LEMMA Inductive == Spec => []IInv
<1>1. Init => IInv
  BY InitHolds
<1>2. IInv /\ [Next]_vars => IInv'
  BY StartKeeps, StartRefusedKeeps, TaskKeeps, OtherKeeps DEF Next
<1> QED
  BY <1>1, <1>2, PTL DEF Spec

\* Every task, entry, answer and reservation keeps its type, with the identifiers
\* bounded by the counter that allocates them (Operations::start).
THEOREM TypeCorrect == Spec => []TypeOK
<1>1. IInv => TypeOK
  BY DEF IInv
<1> QED
  BY <1>1, Inductive, PTL

\* However an operation ends for its owner, no second handler starts before the
\* first has replied (Operations::start keeps the entry until work.await returns).
THEOREM HandlersExclusive == Spec => []OneHandlerAtATime
<1>1. IInv => OneHandlerAtATime
  BY DEF IInv
<1> QED
  BY <1>1, Inductive, PTL

\* The table stays within CAPACITY for every capacity and any mix of running,
\* answered, expired and orphaned operations.
THEOREM TableWithinCapacity == Spec => []TableBounded
<1>1. IInv => TableBounded
  BY DEF IInv
<1> QED
  BY <1>1, Inductive, PTL

\* An answer stays in the table, unchanged, until its retention has passed.
THEOREM AnswersAreKept == Spec => AnswerKept
<1>1. IInv /\ [Next]_vars =>
        [\A i \in Ids : i \in entries /\ answer[i] = "fresh" =>
            i \in entries' /\ answer'[i] \in {"fresh", "expired"} /\ task'[i] = "done"]_vars
  <2> SUFFICES ASSUME IInv, Next, NEW i \in Ids, i \in entries, answer[i] = "fresh"
               PROVE  i \in entries' /\ answer'[i] \in {"fresh", "expired"} /\ task'[i] = "done"
    BY DEF vars
  <2>1. task[i] = "done" /\ i <= next /\ next \in Nat
    BY DEF IInv, TaskInv, TypeOK, Ids
  <2>2. ASSUME NEW o \in Owners, Start(o) \/ OwnerLeaves(o)
        PROVE  i \in entries' /\ answer'[i] \in {"fresh", "expired"} /\ task'[i] = "done"
    <3>1. i # next + 1 /\ i \in retained
      BY <2>1 DEF retained, Ids
    <3> QED
      BY <2>1, <2>2, <3>1 DEF IInv, TypeOK, Start, OwnerLeaves
  <2>3. ASSUME StartRefused \/ MonitorFails
        PROVE  i \in entries' /\ answer'[i] \in {"fresh", "expired"} /\ task'[i] = "done"
    BY <2>1, <2>3 DEF StartRefused, MonitorFails, retained
  <2>4. ASSUME NEW j \in Ids, Task(j)
        PROVE  i \in entries' /\ answer'[i] \in {"fresh", "expired"} /\ task'[i] = "done"
    BY <2>1, <2>4 DEF IInv, TypeOK, Task, OwnerConfirmed, OwnerNotConfirmed, OwnerClosed, BudgetSpent, Replied
  <2>5. ASSUME NEW j \in Ids, Expire(j) \/ \E o \in Owners : Cancel(o, j)
        PROVE  i \in entries' /\ answer'[i] \in {"fresh", "expired"} /\ task'[i] = "done"
    BY <2>1, <2>5 DEF IInv, TypeOK, Expire, Cancel
  <2> QED
    BY <2>2, <2>3, <2>4, <2>5 DEF Next
<1> QED
  BY <1>1, Inductive, PTL DEF Spec, AnswerKept
=============================================================================
