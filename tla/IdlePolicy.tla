------------------------------ MODULE IdlePolicy ------------------------------
(* The saved sleep policy and hypridle's live timeout (sleep_policy.rs and     *)
(* sleep_policy/hypridle.rs): a user's new policy is saved, applied and rolled *)
(* back; critical-battery settings share its file; a monitor that observes     *)
(* without the lock repairs the timeout; hypridle restarts by itself; and an   *)
(* idle callback sleeps with the profile that was selected.                    *)
(*                                                                             *)
(* A policy is a version; Minutes gives the inactivity deadline of its profile *)
(* on battery and on mains power, 0 for Never.                                 *)
EXTENDS Integers

CONSTANTS
    Versions,      \* policies a user may save
    Minutes,       \* [Versions -> [BOOLEAN -> Nat]]: sleep_minutes by power source
    MaxEnv         \* requests, restarts, power changes, failures and user activity

VARIABLES
    file,          \* sleep.json: the idle policy and the critical-battery settings
    plugged,       \* UPower
    live,          \* hypridle: is it up, its generation, timeout, idle episode
    lock,          \* POLICY_WRITE
    setter,        \* sleep_policy::set in progress
    critter,       \* critical::set_policy in progress
    monitor,       \* the policy monitor
    idler,         \* idle_sleep in progress
    critSet,       \* history: the critical settings last saved
    env

vars == <<file, plugged, live, lock, setter, critter, monitor, idler, critSet, env>>

None == [none |-> TRUE]
Unset == -1
Policy == [idle: Versions, crit: 0..MaxEnv]
AllMinutes == {Minutes[v][p] : v \in Versions, p \in BOOLEAN} \cup {0}
First == CHOOSE v \in Versions : TRUE

TypeOK ==
    /\ file \in Policy /\ plugged \in BOOLEAN /\ critSet \in 0..MaxEnv /\ env \in 0..MaxEnv
    /\ live \in [up: BOOLEAN, gen: 0..MaxEnv, minutes: AllMinutes, starting: AllMinutes \cup {Unset},
                 episode: 0..MaxEnv, idle: BOOLEAN]
    /\ lock \in {"free", "set", "crit", "monitor", "idle"}
    /\ setter \in [at: {"save", "apply", "restore", "reapply"}, wanted: Policy, previous: Policy] \cup {None}
    /\ critter \in [next: Policy] \cup {None}
    /\ monitor \in [at: {"wait", "locking", "compare", "apply"}, seen: Policy, update: AllMinutes \cup {Unset}]
    /\ idler \in [at: {"queued", "entry", "setup", "last", "sleep"}, minutes: AllMinutes, gen: 0..MaxEnv,
                  episode: 0..MaxEnv, profile: Versions, power: BOOLEAN] \cup {None}

Init ==
    /\ file = [idle |-> First, crit |-> 0] /\ plugged = FALSE
    /\ live = [up |-> TRUE, gen |-> 0, minutes |-> Minutes[First][FALSE], starting |-> Unset, episode |-> 0, idle |-> FALSE]
    /\ lock = "free" /\ setter = None /\ critter = None /\ idler = None
    /\ monitor = [at |-> "wait", seen |-> file, update |-> Unset]
    /\ critSet = 0 /\ env = 0

Spend == env < MaxEnv /\ env' = env + 1
Take(who) == lock = "free" /\ lock' = who
Wanted == Minutes[file.idle][plugged]
\* set_timeout: refused when hypridle is down, confirmed by reading it back.
Applies(minutes) == live.up /\ live' = [live EXCEPT !.minutes = minutes]

-----------------------------------------------------------------------------
(* sleep_policy::set                                                          *)

\* Mutant: the request's own copy of the critical settings is saved.
MutWithStored(v, previous) == [idle |-> v, crit |-> 0]
\* with_stored_critical: the request's critical settings are not its to change.
with_stored_critical(v, previous) == [idle |-> v, crit |-> previous.crit]
Set ==
    /\ Spend /\ setter = None /\ Take("set")
    /\ \E v \in Versions :
          setter' = [at |-> "save", wanted |-> with_stored_critical(v, file), previous |-> file]
    /\ UNCHANGED <<file, plugged, live, critter, monitor, idler, critSet>>
\* validate_config, idle_running, plugged, hibernate_support or the save fail.
SetRefused ==
    /\ setter # None /\ setter.at \in {"save", "restore"} /\ Spend
    /\ setter' = None /\ lock' = "free"
    /\ UNCHANGED <<file, plugged, live, critter, monitor, idler, critSet>>
\* persist_and_apply: save; apply; on failure restore the previous and apply it.
SetSave ==
    /\ setter # None /\ setter.at \in {"save", "restore"}
    /\ file' = IF setter.at = "save" THEN setter.wanted ELSE setter.previous
    /\ setter' = [setter EXCEPT !.at = IF @ = "save" THEN "apply" ELSE "reapply"]
    /\ UNCHANGED <<plugged, live, lock, critter, monitor, idler, critSet, env>>
SetApply ==
    /\ setter # None /\ setter.at \in {"apply", "reapply"}
    /\ Applies(Wanted) /\ setter' = None /\ lock' = "free"
    /\ UNCHANGED <<file, plugged, critter, monitor, idler, critSet, env>>
SetApplyFails ==
    /\ setter # None /\ setter.at \in {"apply", "reapply"} /\ UNCHANGED live
    /\ IF live.up THEN Spend ELSE UNCHANGED env
    /\ IF setter.at = "apply" THEN setter' = [setter EXCEPT !.at = "restore"] /\ UNCHANGED lock
       ELSE setter' = None /\ lock' = "free"
    /\ UNCHANGED <<file, plugged, critter, monitor, idler, critSet>>

\* critical::set_policy reads, checks and saves under the same lock.
CritSet ==
    /\ Spend /\ critter = None /\ Take("crit")
    /\ critter' = [next |-> [file EXCEPT !.crit = env']]
    /\ UNCHANGED <<file, plugged, live, setter, monitor, idler, critSet>>
CritSave ==
    /\ critter # None /\ file' = critter.next /\ critSet' = critter.next.crit
    /\ critter' = None /\ lock' = "free"
    /\ UNCHANGED <<plugged, live, setter, monitor, idler, env>>

-----------------------------------------------------------------------------
(* The monitor: observe without the lock, then compare and apply under it.    *)

Monitoring == UNCHANGED <<file, plugged, setter, critter, idler, critSet, env>>
\* Mutant: only a changed file is applied, not a changed power source.
MutObserved == IF live.up /\ monitor.seen # file THEN Wanted ELSE Unset
\* observe_policy: the timeout to apply; with hypridle down there is none.
Observed == IF live.up /\ live.minutes # Wanted THEN Wanted ELSE Unset
ObservePolicy ==
    /\ monitor.at = "wait" /\ (live.minutes # Wanted \/ monitor.seen # file)
    /\ monitor' = [at |-> "locking", seen |-> file, update |-> Observed]
    /\ UNCHANGED <<live, lock>> /\ Monitoring
MonitorLocks ==
    /\ monitor.at = "locking" /\ Take("monitor") /\ monitor' = [monitor EXCEPT !.at = "compare"]
    /\ UNCHANGED live /\ Monitoring
\* Mutant: the snapshot is applied without looking at the file again.
MutStale == FALSE
\* A setter may have committed meanwhile: never apply the old snapshot over it.
Stale == file # monitor.seen
MonitorCompares ==
    /\ monitor.at = "compare"
    /\ IF ~Stale /\ monitor.update # Unset THEN monitor' = [monitor EXCEPT !.at = "apply"] /\ UNCHANGED lock
       ELSE monitor' = [monitor EXCEPT !.at = "wait"] /\ lock' = "free"
    /\ UNCHANGED live /\ Monitoring
MonitorApplies ==
    /\ monitor.at = "apply" /\ monitor' = [monitor EXCEPT !.at = "wait"] /\ lock' = "free"
    /\ Applies(monitor.update) \/ (~live.up /\ UNCHANGED live)
    /\ Monitoring

-----------------------------------------------------------------------------
(* hypridle and its idle callback.                                            *)

Elsewhere == UNCHANGED <<file, plugged, lock, setter, critter, monitor, critSet>>
Stops == /\ live.up /\ Spend
         /\ live' = [live EXCEPT !.up = FALSE, !.idle = FALSE, !.starting = Unset] /\ UNCHANGED idler /\ Elsewhere
\* hypridle::run selects the profile, then execs; without AC state it is Never.
Starts == /\ ~live.up /\ live.starting = Unset
          /\ \/ live' = [live EXCEPT !.starting = Wanted] /\ UNCHANGED env
             \/ live' = [live EXCEPT !.starting = 0] /\ Spend
          /\ UNCHANGED idler /\ Elsewhere
Ready == /\ ~live.up /\ live.starting # Unset
         /\ live' = [live EXCEPT !.up = TRUE, !.gen = (@ + 1) % (MaxEnv + 1), !.minutes = live.starting, !.starting = Unset]
         /\ UNCHANGED <<idler, env>> /\ Elsewhere
GoesIdle ==
    /\ live.up /\ ~live.idle /\ live.minutes > 0 /\ idler = None /\ Spend
    /\ live' = [live EXCEPT !.idle = TRUE, !.episode = env']
    /\ idler' = [at |-> "queued", minutes |-> live.minutes, gen |-> live.gen, episode |-> env',
                 profile |-> file.idle, power |-> plugged]
    /\ Elsewhere
Activity == /\ live.idle /\ Spend /\ live' = [live EXCEPT !.idle = FALSE] /\ UNCHANGED idler /\ Elsewhere
Plug == /\ Spend /\ plugged' = ~plugged
        /\ UNCHANGED <<file, live, lock, setter, critter, monitor, idler, critSet>>

verify_episode == live.up /\ live.idle /\ live.gen = idler.gen /\ live.episode = idler.episode
Idling == UNCHANGED <<file, plugged, live, setter, critter, monitor, critSet, env>>
IdleLocks == /\ idler # None /\ idler.at = "queued" /\ Take("idle")
             /\ idler' = [idler EXCEPT !.at = "entry"] /\ Idling
IdleGivesUp == /\ idler # None /\ idler.at = "queued" /\ ~verify_episode
               /\ idler' = None /\ UNCHANGED lock /\ Idling
\* perform_idle selects the profile; validate_idle_trigger looks again before
\* and after the helper's setting and as the request's last check.
Selected == file.idle = idler.profile /\ Minutes[file.idle][plugged] = idler.minutes
IdleChecks ==
    /\ idler # None /\ idler.at \in {"entry", "setup", "last"}
    /\ LET ok == verify_episode /\ Minutes[file.idle][plugged] = idler.minutes
                 /\ (idler.at # "entry" => Selected)
       IN /\ idler' = IF ~ok THEN None
                      ELSE [idler EXCEPT !.profile = IF idler.at = "entry" THEN file.idle ELSE @,
                                         !.at = CASE @ = "entry" -> "setup" [] @ = "setup" -> "last" [] OTHER -> "sleep"]
          /\ lock' = IF ok THEN lock ELSE "free"
    /\ Idling
IdleSleeps == /\ idler # None /\ idler.at = "sleep" /\ idler' = None /\ lock' = "free" /\ Idling

\* The daemon restarts; hypridle keeps running.
Crash ==
    /\ Spend /\ lock' = "free" /\ setter' = None /\ critter' = None /\ idler' = None
    /\ monitor' = [at |-> "wait", seen |-> file, update |-> Unset]
    /\ UNCHANGED <<file, plugged, live, critSet>>

Settle == \/ SetSave \/ SetApply \/ SetApplyFails \/ CritSave
          \/ MonitorCompares \/ MonitorApplies \/ IdleChecks \/ IdleSleeps \/ IdleGivesUp
Next == \/ Set \/ SetRefused \/ CritSet \/ Settle \/ ObservePolicy \/ MonitorLocks
        \/ Stops \/ Starts \/ Ready \/ GoesIdle \/ Activity \/ Plug \/ IdleLocks \/ Crash

\* Holders of the lock finish; tokio's mutex is fair, so the monitor gets its
\* turn; systemd starts hypridle again.
Fairness == /\ WF_vars(Settle) /\ WF_vars(ObservePolicy) /\ SF_vars(MonitorLocks) /\ SF_vars(IdleLocks)
            /\ WF_vars(Starts) /\ WF_vars(Ready)
Spec == Init /\ [][Next]_vars /\ Fairness

-----------------------------------------------------------------------------
\* "The general idle/lid API does not own critical-battery settings"
\* (sleep_policy.rs): saves and rollbacks of the idle policy keep the last
\* critical settings that were saved.
CriticalKept == file.crit = critSet
\* An idle callback sleeps with the profile it selected: no save comes between
\* its last validation and the request (the lock is held throughout).
IdleCurrent == idler # None /\ idler.at \in {"last", "sleep"} => file.idle = idler.profile
\* The monitor's timeout belongs to the policy in the file when it is applied.
NeverStale == monitor.at = "apply" => file = monitor.seen
Safe == CriticalKept /\ IdleCurrent /\ NeverStale

-----------------------------------------------------------------------------
(* Why it does: what holds between the steps, for any constants as they are   *)
(* meant to be.                                                               *)

\* POLICY_WRITE has one holder, and what a task does under the lock it does as
\* that holder.
LockInv ==
    /\ setter # None <=> lock = "set"
    /\ critter # None <=> lock = "crit"
    /\ monitor.at \in {"compare", "apply"} <=> lock = "monitor"
    /\ (idler # None /\ idler.at # "queued") <=> lock = "idle"

\* A save in progress carries the critical settings that are in force, both in
\* the new policy and in the one it would put back.
SetterInv == setter # None => setter.wanted.crit = critSet /\ setter.previous.crit = critSet

\* From its selection on, the idle callback's profile is the saved one.
IdlerInv == idler # None /\ idler.at \in {"setup", "last", "sleep"} => file.idle = idler.profile

\* The monitor applies a timeout only when it has one.
ApplyInv == monitor.at = "apply" => monitor.update # Unset

IInv == TypeOK /\ LockInv /\ SetterInv /\ IdlerInv /\ ApplyInv /\ CriticalKept /\ NeverStale

\* There is a policy, and a finite bound.
ConstantsOK == Versions # {} /\ MaxEnv \in Nat

\* Whatever failed or raced, the live timeout comes to agree with the saved
\* policy and the power source once they rest.
TimeoutTrue == live.minutes = Wanted
TimeoutConverges == <>[]TimeoutTrue
=============================================================================
