--------------------------- MODULE CriticalBattery ---------------------------
(* Hibernation at a critical battery level (sleep_policy/critical.rs): the    *)
(* engine that counts down and fires once, its recovery file, the user's      *)
(* cancellation, the action worker and the changes of policy that re-arm it.  *)
(*                                                                            *)
(* A battery episode runs from the engine's sight of one recovery, change of  *)
(* policy or countdown given up for want of evidence to the next.  The daemon *)
(* may stop between any two steps; what it knows then is the recovery file.   *)
(* Time is one event: the grace period of the delivered warning passes.       *)
EXTENDS Naturals

CONSTANTS
    MaxTokens,     \* cancellations
    MaxEpisodes,   \* re-arming observations
    MaxEnv         \* chargings, policy changes, restarts and failures

VARIABLES
    battery,       \* UPower: "low", "between" (above the limit, not recovered), "ac"
    policy,        \* the saved settings, by version
    engine,        \* Engine: policy, deadline, token, latched, phase
    saved,         \* what the monitor believes the recovery file holds
    file,          \* the recovery file
    token,         \* CANCELLATION
    step,          \* where Engine::refresh stands, with what it has read
    worker,        \* the hibernate action in progress, or None
    canceller,     \* a cancel request in progress, or None
    shown,         \* the phase the state store publishes
    episode,       \* history: the current episode
    fired,         \* history: hibernate calls sent in each episode
    quiet,         \* history: the episode whose cancellation was confirmed, or 0
    env

vars == <<battery, policy, engine, saved, file, token, step, worker, canceller, shown,
          episode, fired, quiet, env>>

None == [none |-> TRUE]
Policy == [enabled: BOOLEAN, version: 0..MaxEnv]
Recovery == [policy: Policy, attempted: BOOLEAN]
Phase == {"disabled", "latched", "blocked", "armed", "countdown", "acting", "cancelled",
          "accepted", "failed"}
Deadline == {"none", "running", "passed"}
Step == {"idle", "sampled", "warn", "persist"}

EngineType == [policy: Policy, deadline: Deadline, token: 0..MaxTokens, latched: BOOLEAN, phase: Phase]
StepType == [at: Step, policy: Policy, battery: {"low", "between", "ac", "unknown"},
             token: 0..MaxTokens, fire: BOOLEAN]
WorkerType == [policy: Policy, token: 0..MaxTokens, episode: 1..MaxEpisodes,
               at: {"start", "setup", "last", "call", "ok", "error"}]
CancelType == [at: {"loading", "saving"}, token: 0..MaxTokens, policy: Policy, episode: 0..MaxEpisodes]

TypeOK ==
    /\ battery \in {"low", "between", "ac"} /\ policy \in Policy /\ engine \in EngineType
    /\ saved \in Recovery /\ file \in Recovery /\ token \in 0..MaxTokens /\ step \in StepType
    /\ worker \in WorkerType \cup {None} /\ canceller \in CancelType \cup {None}
    /\ shown \in Phase /\ episode \in 1..MaxEpisodes
    /\ fired \in [1..MaxEpisodes -> Nat] /\ quiet \in 0..MaxEpisodes /\ env \in 0..MaxEnv

First == [enabled |-> TRUE, version |-> 0]
Idle == [at |-> "idle", policy |-> First, battery |-> "ac", token |-> 0, fire |-> FALSE]
\* The monitor starts from the recovery file.
Started(recovery) ==
    [policy |-> recovery.policy, deadline |-> "none", token |-> 0, latched |-> recovery.attempted,
     phase |-> IF recovery.attempted THEN "latched" ELSE "disabled"]
Init ==
    /\ battery = "ac" /\ policy = First
    /\ file = [policy |-> First, attempted |-> FALSE] /\ saved = file /\ engine = Started(file)
    /\ token = 0 /\ step = Idle /\ worker = None /\ canceller = None /\ shown = "disabled"
    /\ episode = 1 /\ fired = [e \in 1..MaxEpisodes |-> 0] /\ quiet = 0 /\ env = 0

-----------------------------------------------------------------------------
(* The engine.                                                                *)

\* Mutant: stopping forgets to latch the episode.
MutStop(e, phase) == [e EXCEPT !.deadline = "none", !.phase = phase]
stop(e, phase) == [e EXCEPT !.deadline = "none", !.latched = TRUE, !.phase = phase]
recovered(b) == b = "ac"
critical(b) == b = "low"
\* Engine::observe: the engine after one observation, whether it asks for a
\* warning and whether it fires.
observe(e0, p, b, t) ==
    LET e == IF e0.policy = p THEN e0 ELSE [e0 EXCEPT !.policy = p, !.deadline = "none", !.latched = FALSE]
        unarmed(phase) == [e EXCEPT !.deadline = "none", !.phase = phase]
        c == IF e.deadline # "none" /\ t # e.token THEN stop(e, "cancelled") ELSE e
        result(next, warning, fire) == [engine |-> next, warning |-> warning, fire |-> fire]
    IN CASE ~p.enabled -> result([e EXCEPT !.phase = "disabled"], FALSE, FALSE)
         [] p.enabled /\ b = "unknown" -> result(unarmed("blocked"), FALSE, FALSE)
         [] p.enabled /\ recovered(b) -> result([unarmed("armed") EXCEPT !.latched = FALSE], FALSE, FALSE)
         [] OTHER ->
              IF c.latched THEN result(c, FALSE, FALSE)
              ELSE IF ~critical(b) THEN result([c EXCEPT !.deadline = "none", !.phase = "armed"], FALSE, FALSE)
              ELSE IF c.deadline = "none"
                   THEN result([c EXCEPT !.token = t, !.deadline = "running", !.phase = "countdown"], TRUE, FALSE)
              ELSE IF c.deadline = "passed" THEN result(stop(c, "acting"), FALSE, TRUE)
              ELSE result([c EXCEPT !.phase = "countdown"], FALSE, FALSE)

\* A recovery or a change of policy re-arms an engine that has something to
\* forget; without evidence it gives up a countdown, and the token with it.
rearmed(e, p, b) ==
    \/ e.policy # p
    \/ p.enabled /\ recovered(b) /\ (e.latched \/ e.deadline # "none")
    \/ p.enabled /\ b = "unknown" /\ e.deadline # "none"
Same == UNCHANGED <<battery, policy, token, episode, quiet>>

\* The monitor's tick reads the policy and a sample; both may be stale when used.
Sample ==
    /\ step.at = "idle"
    /\ \E known \in BOOLEAN :
        /\ known \/ env < MaxEnv
        /\ env' = IF known THEN env ELSE env + 1
        /\ step' = [Idle EXCEPT !.at = "sampled", !.policy = policy,
                                !.battery = IF known THEN battery ELSE "unknown"]
    /\ UNCHANGED <<engine, saved, file, worker, canceller, shown, fired>> /\ Same
\* A policy that cannot be read stops the engine: the episode is over, the file as it was.
Unread ==
    /\ step.at = "idle" /\ env < MaxEnv /\ env' = env + 1
    /\ engine' = stop(engine, "blocked") /\ shown' = "blocked"
    /\ UNCHANGED <<saved, file, step, worker, canceller, fired>> /\ Same
Observe ==
    /\ step.at = "sampled"
    /\ LET seen == observe(engine, step.policy, step.battery, token)
       IN /\ engine' = seen.engine
          /\ step' = [step EXCEPT !.at = IF seen.warning THEN "warn" ELSE "persist",
                                  !.token = token, !.fire = seen.fire]
    /\ episode' = IF rearmed(engine, step.policy, step.battery) THEN episode + 1 ELSE episode
    /\ episode' <= MaxEpisodes
    /\ UNCHANGED <<battery, policy, token, quiet, saved, file, worker, canceller, shown, fired, env>>
\* The warning is delivered, and the grace period starts; or it is not.
Warn ==
    /\ step.at = "warn" /\ step' = [step EXCEPT !.at = "persist"]
    /\ \/ engine' = engine /\ UNCHANGED env
       \/ engine' = stop(engine, "blocked") /\ env < MaxEnv /\ env' = env + 1
    /\ UNCHANGED <<saved, file, worker, canceller, shown, fired>> /\ Same
GraceElapses ==
    /\ engine.deadline = "running" /\ step.at = "idle"
    /\ engine' = [engine EXCEPT !.deadline = "passed"]
    /\ UNCHANGED <<saved, file, step, worker, canceller, shown, fired, env>> /\ Same
\* Mutant: a write does not look at cancellations made since its token was read.
MutPersisted(p, attempted, t) == [policy |-> p, attempted |-> attempted]
\* persist_recovery, under RECOVERY_WRITE.
persisted(p, attempted, t) == [policy |-> p, attempted |-> attempted \/ token # t]
\* Intent is durable before the action is spawned.
Persist ==
    /\ step.at = "persist" /\ step' = Idle
    /\ LET wanted == [policy |-> step.policy, attempted |-> engine.latched]
           written == persisted(step.policy, engine.latched, step.token)
           spawned == IF step.fire /\ worker = None
                      THEN [policy |-> step.policy, token |-> engine.token, episode |-> episode, at |-> "start"] ELSE worker
       IN \/ /\ wanted = saved /\ worker' = spawned /\ shown' = engine.phase
             /\ UNCHANGED <<engine, saved, file, env>>
          \/ /\ wanted # saved /\ file' = written /\ saved' = written
             /\ worker' = spawned /\ shown' = engine.phase /\ UNCHANGED <<engine, env>>
          \/ /\ wanted # saved /\ env < MaxEnv /\ env' = env + 1
             /\ engine' = stop(engine, "blocked") /\ shown' = "blocked"
             /\ UNCHANGED <<saved, file, worker>>
    /\ UNCHANGED <<canceller, fired>> /\ Same

-----------------------------------------------------------------------------
(* The worker: validate before the request, in its setup and at its end.      *)

validate == token = worker.token /\ policy = worker.policy /\ critical(battery)
Work ==
    /\ worker # None /\ worker.at \in {"start", "setup", "last"}
    /\ worker' = [worker EXCEPT !.at = IF ~validate THEN "error"
                       ELSE CASE @ = "start" -> "setup" [] @ = "setup" -> "last" [] OTHER -> "call"]
    /\ UNCHANGED <<engine, saved, file, step, canceller, shown, fired, env>> /\ Same
WorkFails ==
    /\ worker # None /\ worker.at \in {"start", "setup", "last"} /\ worker' = [worker EXCEPT !.at = "error"]
    /\ UNCHANGED <<engine, saved, file, step, canceller, shown, fired, env>> /\ Same
Hibernate ==
    /\ worker # None /\ worker.at = "call"
    /\ fired' = [fired EXCEPT ![worker.episode] = @ + 1]
    /\ \E at \in {"ok", "error"} : worker' = [worker EXCEPT !.at = at]
    /\ UNCHANGED <<engine, saved, file, step, canceller, shown, env>> /\ Same
\* join_next: the engine stops with the outcome.
Joined ==
    /\ worker # None /\ worker.at \in {"ok", "error"} /\ step.at = "idle"
    /\ engine' = stop(engine, IF worker.at = "ok" THEN "accepted" ELSE "failed")
    /\ worker' = None /\ shown' = engine'.phase
    /\ UNCHANGED <<saved, file, step, canceller, fired, env>> /\ Same

-----------------------------------------------------------------------------
(* Cancellation, settings, the battery and restarts.                          *)

\* cancel: the token first, then the file, then the published state.
Cancel ==
    /\ canceller = None /\ shown \in {"countdown", "acting"} /\ token < MaxTokens
    /\ token' = token + 1
    /\ canceller' = [at |-> "loading", token |-> token + 1, policy |-> First, 
                     episode |-> IF engine.phase \in {"countdown", "acting"} THEN episode ELSE 0]
    /\ UNCHANGED <<battery, policy, engine, saved, file, step, worker, shown, episode, fired, quiet, env>>
CancelLoads ==
    /\ canceller # None /\ canceller.at = "loading"
    /\ canceller' = [canceller EXCEPT !.at = "saving", !.policy = policy]
    /\ UNCHANGED <<engine, saved, file, step, worker, shown, fired, env>> /\ Same
CancelSaves ==
    /\ canceller # None /\ canceller.at = "saving" /\ canceller' = None
    /\ file' = persisted(canceller.policy, TRUE, canceller.token) /\ shown' = "cancelled"
    /\ quiet' = IF canceller.episode = episode /\ worker = None THEN episode ELSE quiet
    /\ UNCHANGED <<battery, policy, engine, saved, token, step, worker, episode, fired, env>>

\* set_policy, for settings that differ.
SetPolicy ==
    /\ env < MaxEnv /\ env' = env + 1
    /\ \E on \in BOOLEAN : policy' = [enabled |-> on, version |-> env']
    /\ UNCHANGED <<battery, engine, saved, file, token, step, worker, canceller, shown, episode, fired, quiet>>
Charge ==
    /\ battery # "ac" /\ env < MaxEnv /\ env' = env + 1 /\ battery' = "ac"
    /\ UNCHANGED <<policy, engine, saved, file, token, step, worker, canceller, shown, episode, fired, quiet>>
Drain ==
    /\ battery' \in (CASE battery = "ac" -> {"between", "low"} [] battery = "between" -> {"low"} [] OTHER -> {"between"})
    /\ UNCHANGED <<policy, engine, saved, file, token, step, worker, canceller, shown, episode, fired, quiet, env>>
Restart ==
    /\ env < MaxEnv /\ env' = env + 1
    /\ engine' = Started(file) /\ saved' = file /\ token' = 0
    /\ step' = Idle /\ worker' = None /\ canceller' = None /\ shown' = engine'.phase
    /\ UNCHANGED <<battery, policy, file, episode, fired, quiet>>

Refresh == Sample \/ Unread \/ Observe \/ Warn \/ Persist
Action == Work \/ WorkFails \/ Hibernate \/ Joined
Next ==
    \/ Refresh \/ GraceElapses \/ Action
    \/ Cancel \/ CancelLoads \/ CancelSaves
    \/ SetPolicy \/ Charge \/ Drain \/ Restart
Spec == Init /\ [][Next]_vars

-----------------------------------------------------------------------------
\* "One cancellable hibernate attempt per low-battery episode" (critical.rs),
\* across restarts, failed saves and warnings.
OnceAnEpisode == \A e \in 1..MaxEpisodes : fired[e] <= 1
\* "A daemon restart must not replay this episode" (critical.rs cancel): after a
\* confirmed cancellation no call is made until the battery has recovered, the
\* settings changed or the countdown was given up because a sample failed.
CancelHolds == worker # None /\ worker.episode = quiet => worker.at \notin {"call", "ok"}
Safe == OnceAnEpisode /\ CancelHolds

-----------------------------------------------------------------------------
(* Why it does: what holds between the steps, for any constants as they are   *)
(* meant to be.                                                               *)

ConstantsOK == MaxTokens \in Nat /\ MaxEnv \in Nat /\ MaxEpisodes \in Nat \ {0}

\* A countdown has a deadline, an action latches, a disabled engine counts nothing,
\* and no token is ahead of CANCELLATION.
EngineInv ==
    /\ engine.phase = "countdown" => engine.latched \/ engine.deadline # "none"
    /\ engine.phase = "acting" => engine.latched
    /\ ~engine.policy.enabled => engine.deadline = "none"
    /\ engine.token <= token /\ step.token <= token /\ (worker # None => worker.token <= token)
\* The current episode has had its attempt, or has one under way.
Spent == fired[episode] # 0 \/ (worker # None /\ worker.episode = episode)
\* An episode that is spent is latched, in the engine and on disk; one whose action
\* is decided and not yet durable is not spent.
SpentInv ==
    /\ Spent => engine.latched /\ file.attempted
    /\ saved.attempted => file.attempted
    /\ step.at = "persist" /\ step.fire => engine.latched /\ ~Spent
    /\ step.at = "warn" => ~step.fire
    /\ \A e \in 1..MaxEpisodes : e > episode => fired[e] = 0
    /\ worker # None => worker.episode <= episode
    /\ worker # None /\ worker.at \notin {"ok", "error"} => fired[worker.episode] = 0
\* The user is cancelling, or has cancelled, the current episode.
Halting == (canceller # None /\ canceller.episode = episode) \/ quiet = episode
\* Then the engine will not fire, an action already decided will fail its
\* validation, and no write still to come clears the recovery file.
HaltInv ==
    /\ Halting => /\ engine.latched \/ (engine.deadline # "none" /\ engine.token # token)
                  /\ step.at = "persist" /\ step.fire => engine.token # token
                  /\ step.at \in {"warn", "persist"} => engine.latched \/ step.token # token
    /\ quiet <= episode /\ (canceller # None => canceller.episode <= episode)
    /\ quiet = episode => file.attempted
    /\ worker # None /\ worker.episode = quiet => worker.token # token /\ worker.at \notin {"call", "ok"}
IInv == TypeOK /\ Safe /\ EngineInv /\ SpentInv /\ HaltInv
=============================================================================
