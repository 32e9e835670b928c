---------------------------- MODULE SleepRequest ----------------------------
(* One lock or sleep request at a time (sleep.rs), the tracker of what became *)
(* of it (sleep/outcome.rs), Keep awake (sleep/keep_awake.rs), the lid        *)
(* controller that asks on its own and retries (sleep_policy/lid.rs) and the  *)
(* helper's lease on the hibernate delay (sleep_policy/runtime.rs).           *)
(*                                                                            *)
(* logind, the locker and the user are an environment: between any two steps  *)
(* of a request the session may unlock, the lid open, the dock connect.  A    *)
(* sleep call may be accepted, refused or accepted after its reply was given  *)
(* up.  Deadlines are choices; the 30 s for which the helper keeps a setting  *)
(* (runtime.rs) outlast any sleep call that logind has not answered.          *)
EXTENDS Naturals

CONSTANTS
    Policies,     \* lid actions a user chooses from
    MaxOps,       \* sleep operations begun
    MaxCloses,    \* lid closes observed
    MaxEnv        \* changes of the session, failures and restarts

VARIABLES
    session,      \* what logind, UPower and the compositor report
    tracker,      \* TRACKER: the operation, its outcome and its lease
    request,      \* the holder of SLEEP_ACTION, or None
    lid,          \* LidController
    policy,       \* the saved lid action
    calls,        \* logind's side of every operation's sleep call
    override,     \* the helper's runtime sleep setting
    asked,        \* history: sleep calls sent for each observed close
    env           \* changes of the environment so far

vars == <<session, tracker, request, lid, policy, calls, override, asked, env>>

None == [none |-> TRUE]
Ops == 1..MaxOps
Terminal == {"failed", "completed", "unknown"}
dispatched == {"dispatching", "accepted", "preparing", "returned"}
unfinished == dispatched \cup {"requested", "unknown"}
\* What `perform` of a lid action asks for; System and Ignore ask for nothing.
LidAction == {"system", "ignore", "lock", "suspend", "profile"}
Method(p) == IF p = "profile" THEN "timed" ELSE p
Worker == [action: LidAction, operation: 0..MaxOps, close: 1..MaxCloses,
           at: {"queued", "checked", "running", "ok", "retryable", "cancelled", "failed"}, proof: 0..MaxOps]
Request == [who: {"user", "lid"}, action: {"lock", "suspend", "timed"},
            pc: {"check", "lock", "setup", "recheck", "validate", "final", "call", "reply", "status"}]
NoRetry == [armed |-> "system", due |-> FALSE, operation |-> 0, close |-> 0]
Cleared(retry) == [NoRetry EXCEPT !.close = retry.close]   \* LidRetry::clear
LidRetry == [armed: LidAction, due: BOOLEAN, operation: 0..MaxOps, close: 0..MaxCloses]
Resting == [owned |-> FALSE, seen |-> "never", eligible |-> FALSE, retry |-> NoRetry, worker |-> None]

SessionType == [locked: BOOLEAN, active: BOOLEAN, preparing: BOOLEAN,
                inhibited: BOOLEAN, closed: BOOLEAN, docked: BOOLEAN]
Phase == {"", "requested"} \cup dispatched \cup Terminal
TrackerType == [id: 0..MaxOps, phase: Phase, job: 0..MaxOps, lease: BOOLEAN, timed: BOOLEAN]
LidType == [owned: BOOLEAN, seen: {"never", "open", "closed"}, eligible: BOOLEAN,
            retry: LidRetry, worker: Worker \cup {None}]
CallsType == [Ops -> {"unsent", "sent", "accepted", "announced", "over"}]

TypeOK ==
    /\ session \in SessionType /\ tracker \in TrackerType /\ request \in Request \cup {None}
    /\ lid \in LidType /\ policy \in LidAction /\ calls \in CallsType
    /\ override \in {"none", "leased", "closing"}
    /\ asked \in [1..MaxCloses -> Nat] /\ env \in 0..MaxEnv

Init ==
    /\ session = [locked |-> FALSE, active |-> TRUE, preparing |-> FALSE,
                  inhibited |-> FALSE, closed |-> FALSE, docked |-> FALSE]
    /\ tracker = [id |-> 0, phase |-> "", job |-> 0, lease |-> FALSE, timed |-> FALSE]
    /\ request = None /\ lid = Resting /\ policy = "profile"
    /\ calls = [i \in Ops |-> "unsent"] /\ override = "none"
    /\ asked = [e \in 1..MaxCloses |-> 0] /\ env = 0

-----------------------------------------------------------------------------
(* The tracker.                                                               *)

\* modify: a terminal outcome releases the lease with the same update.
modify(phase) == [tracker EXCEPT !.phase = phase, !.lease = @ /\ phase \notin Terminal]
begin(timed) == [id |-> tracker.id + 1, phase |-> "requested", job |-> 0, lease |-> FALSE, timed |-> timed]
ready_for_new_request == tracker.phase # "requested" /\ tracker.phase \notin dispatched
\* Mutant: only an accepted operation is given up.
MutLostMonitor == IF tracker.phase = "accepted" THEN modify("unknown") ELSE tracker
lost_monitor == IF tracker.phase \in dispatched THEN modify("unknown") ELSE tracker
prepared(on) == IF tracker.phase \notin dispatched THEN tracker
                ELSE modify(IF on THEN "preparing" ELSE "returned")
job_new(i) == IF tracker.phase \in dispatched /\ tracker.job = 0
              THEN [tracker EXCEPT !.job = i] ELSE tracker
job_removed(i, done) ==
    IF tracker.job = i /\ tracker.phase \in unfinished
    THEN modify(IF done THEN "completed" ELSE "failed") ELSE tracker
\* A correlated terminal result outranks a lost method reply.
failed(ambiguous) ==
    IF ambiguous /\ tracker.phase \in {"completed", "failed"} THEN tracker
    ELSE modify(IF ambiguous THEN "unknown" ELSE "failed")
\* CancellationGuard::drop, for the operation the dropped request began.
cancelled ==
    CASE tracker.phase = "requested"   -> modify("failed")
      [] tracker.phase = "dispatching" -> modify("unknown")
      [] OTHER                         -> tracker

Monitored == UNCHANGED <<session, request, lid, policy, override, asked, env>>
\* 120 s without a result, or the monitor has lost its connection.  While it is
\* lost, signals about jobs are not heard.
Expire == /\ tracker.phase \in dispatched /\ tracker' = lost_monitor
          /\ UNCHANGED calls /\ Monitored

-----------------------------------------------------------------------------
(* logind: it accepts one sleep call at a time.                               *)

Running(i) == calls[i] \in {"accepted", "announced"}
Asleep == \E i \in Ops : Running(i)
Accept(i) ==
    /\ calls[i] = "sent" /\ ~Asleep
    /\ calls' = [calls EXCEPT ![i] = "accepted"]
    /\ session' = [session EXCEPT !.preparing = TRUE]
    /\ tracker' = prepared(TRUE)
    /\ UNCHANGED <<request, lid, policy, override, asked, env>>
Announce(i, heard) ==
    /\ calls[i] = "accepted" /\ calls' = [calls EXCEPT ![i] = "announced"]
    /\ tracker' = IF heard THEN job_new(i) ELSE tracker
    /\ Monitored
Finished(i, heard, done) ==
    /\ calls[i] = "announced" /\ ~session.preparing
    /\ calls' = [calls EXCEPT ![i] = "over"]
    /\ tracker' = IF heard THEN job_removed(i, done) ELSE tracker
    /\ Monitored
Resume == /\ session.preparing /\ session' = [session EXCEPT !.preparing = FALSE]
          /\ \A i \in Ops : calls[i] # "accepted"
          /\ tracker' = prepared(FALSE)
          /\ UNCHANGED <<request, lid, policy, calls, override, asked, env>>

-----------------------------------------------------------------------------
(* The request: perform_with_validation under SLEEP_ACTION.                   *)

Held == request # None
\* The request ends with this result, which a lid worker reports.  An error
\* carries the operation it proves was not dispatched.
Return(result) ==
    /\ request' = None
    /\ lid' = IF request.who = "lid"
              THEN [lid EXCEPT !.worker.at = result, !.worker.proof = tracker'.id] ELSE lid
At(pc) == Held /\ request.pc = pc
Goto(pc) == request' = [request EXCEPT !.pc = pc] /\ UNCHANGED lid
Untouched == UNCHANGED <<policy, asked, env>>

\* try_lock, ready_for_new_request and begin.
Begins(who, action) ==
    /\ ~Held /\ (action = "lock" \/ (ready_for_new_request /\ tracker.id < MaxOps))
    /\ request' = [who |-> who, action |-> action, pc |-> "check"]
    /\ tracker' = IF action = "lock" THEN tracker ELSE begin(action = "timed")
UserAsks ==
    /\ env < MaxEnv /\ env' = env + 1
    /\ \E action \in {"lock", "suspend"} : Begins("user", action)
    /\ UNCHANGED <<session, lid, calls, override, policy, asked>>

\* Any error before the dispatch: the operation failed, and the error proves it.
Refused(result) ==
    /\ tracker' = IF request.action # "lock" /\ tracker.phase = "requested" THEN failed(FALSE) ELSE tracker
    /\ Return(result) /\ UNCHANGED <<session, calls, override>> /\ Untouched
Fails == /\ Held /\ request.pc \notin {"call", "reply", "status"} /\ Refused("retryable")
Preparing == /\ Held /\ request.action # "lock" /\ request.pc \in {"check", "recheck"}
             /\ session.preparing /\ Refused("cancelled")

Passes(from, ok, to) ==
    /\ At(from) /\ ok /\ Goto(to) /\ UNCHANGED <<session, tracker, calls, override>> /\ Untouched
Check == Passes("check", request.action = "lock" \/ ~(session.preparing \/ session.inhibited), "lock")
\* lock_session: ask the locker and wait until the lock is confirmed.
Lock == /\ At("lock") /\ (request.action = "lock" \/ session.active)
        /\ session' = [session EXCEPT !.locked = TRUE]
        /\ Goto(IF request.action = "lock" THEN "status" ELSE "setup")
        /\ UNCHANGED <<tracker, calls, override>> /\ Untouched
\* validated_setup: with a hibernate delay, lease the helper's setting.
Setup == /\ At("setup")
         /\ \/ request.action = "suspend" /\ UNCHANGED <<tracker, override>>
            \/ /\ request.action = "timed" /\ override = "none" /\ ~Asleep /\ ~session.preparing
               /\ override' = "leased" /\ tracker' = [tracker EXCEPT !.lease = TRUE]
         /\ Goto("recheck") /\ UNCHANGED <<session, calls>> /\ Untouched
Confirmed == session.active /\ session.locked
Recheck == Passes("recheck", Confirmed /\ ~session.inhibited /\ ~session.preparing, "validate")
\* confirm_operation and confirm_trigger.
Triggered == session.active /\ session.closed /\ ~session.docked
Superseded == request.who = "lid" /\ (tracker.id # lid.worker.operation + 1 \/ ~Triggered)
Validate == Passes("validate", ~Superseded, "final")
Obsolete == At("validate") /\ Superseded /\ Refused("cancelled")
Final == Passes("final", Confirmed, "call")
Dispatch ==
    /\ At("call") /\ tracker' = modify("dispatching") /\ Goto("reply")
    /\ calls' = [calls EXCEPT ![tracker.id] = "sent"]
    /\ asked' = IF request.who = "lid" THEN [asked EXCEPT ![lid.worker.close] = @ + 1] ELSE asked
    /\ UNCHANGED <<session, override, policy, env>>

\* The reply to the sleep call.  A refused call is over; a lost reply is not.
Accepted ==
    /\ At("reply") /\ calls[tracker.id] \notin {"unsent", "sent"}
    /\ tracker' = IF tracker.phase \in {"requested", "dispatching"} THEN modify("accepted") ELSE tracker
    /\ Goto("status") /\ UNCHANGED <<session, calls, override>> /\ Untouched
Denied ==
    /\ At("reply") /\ calls[tracker.id] = "sent"
    /\ calls' = [calls EXCEPT ![tracker.id] = "over"]
    /\ tracker' = failed(FALSE) /\ Return("failed") /\ UNCHANGED <<session, override>> /\ Untouched
ReplyLost ==
    /\ At("reply") /\ tracker' = failed(TRUE) /\ Return("failed")
    /\ UNCHANGED <<session, calls, override>> /\ Untouched
\* A failing status read does not undo a sleep that was accepted.
Status == /\ At("status") /\ UNCHANGED tracker /\ Return("ok")
          /\ UNCHANGED <<session, calls, override>> /\ Untouched

\* set_keep_awake, under the same guard; the inhibitor is listed at once.
KeepAwake(on) ==
    /\ ~Held /\ (on => ~session.preparing) /\ session.inhibited # on
    /\ session' = [session EXCEPT !.inhibited = on]
    /\ env < MaxEnv /\ env' = env + 1
    /\ UNCHANGED <<tracker, request, lid, policy, calls, override, asked>>

-----------------------------------------------------------------------------
(* The lid controller.                                                        *)

\* LidRetry::reconcile
reconcile(retry, ok) ==
    IF ~ok \/ (retry.armed # "system" /\ retry.armed # policy) THEN Cleared(retry) ELSE retry
\* LidRetry::due: another operation ends the chain; else the deadline may pass.
LidWorker(operation, close) ==
    [action |-> policy, operation |-> operation, close |-> close, at |-> "queued", proof |-> 0]
Observe ==
    LET managed == policy # "system" /\ session.active
        eligible == managed /\ ~session.docked
        triggered == eligible /\ lid.eligible /\ lid.seen = "open" /\ session.closed
        kept == reconcile(lid.retry, session.closed /\ eligible)
        next == [lid EXCEPT !.owned = managed, !.eligible = eligible,
                            !.seen = IF session.closed THEN "closed" ELSE "open", !.retry = kept]
    IN /\ lid' = IF lid.worker # None THEN next
                 ELSE IF triggered THEN
                    [next EXCEPT !.retry = [armed |-> policy, due |-> FALSE, operation |-> 0, close |-> kept.close + 1],
                                 !.worker = LidWorker(tracker.id, kept.close + 1)]
                 ELSE IF kept.due /\ kept.operation # tracker.id THEN [next EXCEPT !.retry = Cleared(kept)]
                 ELSE IF kept.due THEN [next EXCEPT !.retry.due = FALSE,
                                                    !.worker = LidWorker(kept.operation, kept.close)]
                 ELSE next
       /\ triggered /\ lid.worker = None => kept.close < MaxCloses
       /\ lid' # lid
       /\ UNCHANGED <<session, tracker, request, calls, override>> /\ Untouched

\* lid::perform: policy guard, unchanged policy, unsuperseded operation, trigger.
\* A policy, power source or trigger that cannot be read ends the close as well.
LidChecks ==
    /\ lid.worker # None /\ lid.worker.at = "queued"
    /\ \E at \in {"checked", "retryable", "cancelled", "failed", "ok"} :
        /\ at = "cancelled" => ~Triggered
        /\ at \in {"checked", "ok"} =>
              lid.worker.operation = tracker.id /\ lid.worker.action = policy /\ Triggered
        /\ (at = "ok") => lid.worker.action = "ignore"
        /\ at = "checked" => lid.worker.action # "ignore"
        /\ lid' = [lid EXCEPT !.worker.at = at, !.worker.proof = lid.worker.operation]
    /\ UNCHANGED <<session, tracker, request, calls, override>> /\ Untouched
LidAsks ==
    /\ lid.worker # None /\ lid.worker.at = "checked"
    /\ \/ /\ Begins("lid", Method(lid.worker.action))
          /\ lid' = [lid EXCEPT !.worker.at = "running"]
       \/ \* Busy: retryable only when the tracker shows nothing pending.
          /\ Held /\ UNCHANGED <<tracker, request>>
          /\ lid' = [lid EXCEPT !.worker.proof = tracker.id,
                !.worker.at = IF tracker.phase \in {"", "completed", "failed"} THEN "retryable" ELSE "failed"]
       \/ /\ ~Held /\ ~ready_for_new_request /\ UNCHANGED <<tracker, request>>
          /\ lid' = [lid EXCEPT !.worker.at = "failed"]
    /\ UNCHANGED <<session, calls, override>> /\ Untouched
\* Mutant: a dispatch whose reply was lost is retried like a failed preparation.
MutRetryable(at) == at \in {"retryable", "failed"}
\* LidController::completed and LidRetry::failed
Retryable(at) == at = "retryable"
LidCompleted ==
    /\ lid.worker # None /\ lid.worker.at \in {"ok", "retryable", "cancelled", "failed"}
    /\ lid' = [lid EXCEPT !.worker = None,
          !.retry = IF ~Retryable(lid.worker.at) THEN Cleared(@)
                    ELSE IF @.armed = "system" THEN @
                    ELSE [@ EXCEPT !.operation = lid.worker.proof, !.due = TRUE]]
    /\ UNCHANGED <<session, tracker, request, calls, override>> /\ Untouched
\* logind restarted or the bus is gone: the controller is dropped with its worker.
LidLost ==
    /\ env < MaxEnv /\ env' = env + 1 /\ lid # Resting
    /\ lid' = [Resting EXCEPT !.retry.close = lid.retry.close]
    /\ \/ /\ Held /\ request.who = "lid" /\ request' = None
          /\ tracker' = IF request.action = "lock" THEN tracker ELSE cancelled
       \/ /\ ~(Held /\ request.who = "lid") /\ UNCHANGED <<request, tracker>>
    /\ UNCHANGED <<session, policy, calls, override, asked>>
\* setPolicy waits for POLICY_WRITE, which a lid worker holds to its end.
SetPolicy ==
    /\ env < MaxEnv /\ env' = env + 1
    /\ lid.worker # None => lid.worker.at \in {"queued", "ok", "retryable", "cancelled", "failed"}
    /\ policy' \in Policies \ {policy}
    /\ UNCHANGED <<session, tracker, request, lid, calls, override, asked>>

-----------------------------------------------------------------------------
(* The helper's lease and the user.                                           *)

\* The peer sees the lease closed; after the settle time and with no sleep job
\* the setting is removed.
LeaseEnds == /\ override = "leased" /\ ~tracker.lease /\ override' = "closing"
             /\ UNCHANGED <<session, tracker, request, lid, calls>> /\ Untouched
safe_to_restore == ~session.preparing /\ ~Asleep
Restore == /\ override = "closing" /\ safe_to_restore
           /\ \A i \in Ops : calls[i] # "sent"
           /\ override' = "none"
           /\ UNCHANGED <<session, tracker, request, lid, calls>> /\ Untouched
UserActs ==
    /\ env < MaxEnv /\ env' = env + 1
    /\ \E field \in {"locked", "active", "closed", "docked"} :
        /\ field = "locked" => session.locked
        /\ session' = [session EXCEPT ![field] = ~@]
    /\ UNCHANGED <<tracker, request, lid, policy, calls, override, asked>>

Steps == \/ Check \/ Lock \/ Setup \/ Recheck \/ Validate \/ Obsolete \/ Final \/ Dispatch
         \/ Accepted \/ Denied \/ ReplyLost \/ Status \/ Fails \/ Preparing
Next ==
    \/ UserAsks \/ Steps \/ Expire \/ Resume
    \/ \E i \in Ops, heard, done \in BOOLEAN : Accept(i) \/ Announce(i, heard) \/ Finished(i, heard, done)
    \/ \E on \in BOOLEAN : KeepAwake(on)
    \/ Observe \/ LidChecks \/ LidAsks \/ LidCompleted \/ LidLost \/ SetPolicy
    \/ LeaseEnds \/ Restore \/ UserActs

\* Every step of a request is bounded by a deadline, and the tracker's timer runs.
Fairness == WF_vars(Steps) /\ WF_vars(Expire)
Spec == Init /\ [][Next]_vars /\ Fairness

-----------------------------------------------------------------------------
(* What a sleep request promises.                                             *)

\* "Never replay a request after dispatch" (lid.rs): however often the lid's
\* preparation is retried, one observed close sends logind one sleep call.
OncePerClose == \A e \in 1..MaxCloses : asked[e] <= 1
\* "Enabling cannot race a sleep request between its final checks and logind
\* call" (keep_awake.rs): past its last look no request meets an inhibitor.
KeepAwakeRespected ==
    Held /\ request.pc \in {"validate", "final", "call"} => ~session.inhibited
\* A job that was asked for with a hibernate delay runs with the helper's
\* setting in place, also after its operation has lost its lease.
DelayInForce == \A i \in Ops : i = tracker.id /\ tracker.timed /\ Running(i) => override # "none"
\* The lease belongs to an operation whose outcome is open.
LeaseOpen == tracker.lease => tracker.phase \notin Terminal /\ override = "leased"
Safe == OncePerClose /\ KeepAwakeRespected /\ DelayInForce /\ LeaseOpen

-----------------------------------------------------------------------------
(* Why it does: what holds between the steps, for any constants as they are   *)
(* meant to be.                                                               *)

ConstantsOK == Policies \subseteq LidAction /\ MaxOps \in Nat /\ MaxCloses \in Nat /\ MaxEnv \in Nat

\* Until its call is sent, a request holds the operation it began, open and with
\* nothing asked of logind; past its setup it holds the lease.
RequestInv ==
    Held => /\ request.action = "lock" => request.pc \in {"check", "lock", "status"}
            /\ request.action # "lock" => tracker.id > 0 /\ (tracker.timed <=> request.action = "timed")
            /\ request.action # "lock" /\ request.pc \notin {"reply", "status"} =>
                  tracker.phase = "requested" /\ tracker.job = 0 /\ calls[tracker.id] = "unsent"
            /\ request.action = "timed" /\ request.pc \in {"recheck", "validate", "final", "call"} => tracker.lease
\* An operation that has not begun has sent nothing; the setting of the last one
\* outlasts its call.
CallsInv ==
    /\ \A i \in Ops : i > tracker.id => calls[i] = "unsent"
    /\ \A i \in Ops : i = tracker.id /\ tracker.timed /\ calls[i] \in {"sent", "accepted", "announced"} => override # "none"
\* A worker that runs is the lid's request; what it may still ask for, and what
\* a retry may, has not been asked for yet.
WorkerInv ==
    /\ (Held /\ request.who = "lid") <=> (lid.worker # None /\ lid.worker.at = "running")
    /\ lid.worker # None =>
          /\ lid.worker.close = lid.retry.close /\ ~lid.retry.due /\ lid.worker.action # "system"
          /\ lid.worker.at \in {"checked", "running"} => lid.worker.action # "ignore"
          /\ \/ lid.worker.at \in {"ok", "failed"}
             \/ lid.worker.at = "running" /\ request.pc \in {"reply", "status"}
             \/ asked[lid.worker.close] = 0
    /\ lid.retry.due => lid.retry.close > 0 /\ asked[lid.retry.close] = 0
    /\ \A e \in 1..MaxCloses : e > lid.retry.close => asked[e] = 0
IInv == TypeOK /\ Safe /\ RequestInv /\ CallsInv /\ WorkerInv

\* Every operation gets an outcome, so that a later request is not refused for
\* ever as "still pending" (sleep.rs perform_with_validation).
Open == tracker.phase = "requested" \/ tracker.phase \in dispatched
Ended == tracker.phase \in Terminal
OperationEnds == Open ~> Ended
=============================================================================
