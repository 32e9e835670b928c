---------------------------- MODULE MachineProofs ---------------------------
(* The services that act on the machine are safe, for every number of          *)
(* requests, episodes, revisions, failures and restarts: those that decide     *)
(* when it sleeps (a request for sleep and the lid that asks for one,          *)
(* hibernation at a critical battery level, the idle policy, what is shown of  *)
(* sleep), and those that follow its surroundings (the published zone and      *)
(* place, the power profile that follows the battery, the location daemon that *)
(* sets the system's timezone).  Each service has a section, in which the      *)
(* registers it uses carry the names that its module gives its variables (two  *)
(* services may not share a name, so a few are longer).  Its invariant, IInv   *)
(* of the module, is shown to be inductive action by action; beside it stands  *)
(* what no step of the service may do.                                         *)
EXTENDS SleepServices, AmbientServices, Sequences, TLAPS


-----------------------------------------------------------------------------
(* The idle policy (IdlePolicy).                                              *)

\* The variables of IdlePolicy.
policyFile == r1
plugged == r2
live == r3
lock == r4
setter == r5
critter == r6
monitor == r7
idler == r8
critSet == r9
idleSpent == r10
USE DEF policyFile, plugged, live, lock, setter, critter, monitor, idler, critSet, idleSpent

LEMMA IdleSafeFollows == ASSUME Idle!IInv PROVE Idle!Safe
BY DEF Idle!IInv, Idle!Safe, Idle!IdlerInv, Idle!IdleCurrent

LEMMA IdleMinutesKnown ==
  ASSUME NEW v \in IdleVersions, NEW p \in BOOLEAN PROVE IdleMinutes[v][p] \in Idle!AllMinutes
BY DEF Idle!AllMinutes

LEMMA IdleWantedKnown == ASSUME Idle!TypeOK PROVE Idle!Wanted \in Idle!AllMinutes
BY IdleMinutesKnown DEF Idle!TypeOK, Idle!Wanted, Idle!Policy

LEMMA IdleInitHolds == ASSUME Idle!ConstantsOK, Idle!Init PROVE Idle!IInv
<1>1. Idle!First \in IdleVersions
  BY DEF Idle!ConstantsOK, Idle!First
<1>2. IdleMinutes[Idle!First][FALSE] \in Idle!AllMinutes
  BY <1>1, IdleMinutesKnown
<1>3. policyFile \in Idle!Policy /\ 0 \in 0..IdleEnv
  BY <1>1 DEF Idle!ConstantsOK, Idle!Init, Idle!Policy
<1>4. Idle!TypeOK
  BY <1>2, <1>3 DEF Idle!Init, Idle!TypeOK
<1> QED
  BY <1>4 DEF Idle!Init, Idle!IInv, Idle!LockInv, Idle!SetterInv, Idle!IdlerInv, Idle!CriticalKept,
     Idle!NeverStale, Idle!ApplyInv, Idle!None

-----------------------------------------------------------------------------
(* A user's policy.                                                           *)

LEMMA IdleSetKeeps == ASSUME Idle!ConstantsOK, Idle!IInv, Idle!Set PROVE Idle!IInv'
<1> USE DEF Idle!Set, Idle!Spend, Idle!Take, Idle!with_stored_critical
<1>1. Idle!TypeOK'
  BY DEF Idle!ConstantsOK, Idle!IInv, Idle!TypeOK, Idle!Policy
<1>2. Idle!LockInv' /\ Idle!SetterInv'
  BY DEF Idle!IInv, Idle!TypeOK, Idle!LockInv, Idle!CriticalKept, Idle!SetterInv, Idle!None, Idle!Policy
<1> QED
  BY <1>1, <1>2 DEF Idle!IInv, Idle!IdlerInv, Idle!CriticalKept, Idle!NeverStale, Idle!ApplyInv

LEMMA IdleSetRefusedKeeps == ASSUME Idle!ConstantsOK, Idle!IInv, Idle!SetRefused PROVE Idle!IInv'
<1> USE DEF Idle!SetRefused, Idle!Spend
<1>1. Idle!TypeOK'
  BY DEF Idle!ConstantsOK, Idle!IInv, Idle!TypeOK
<1> QED
  BY <1>1 DEF Idle!IInv, Idle!LockInv, Idle!SetterInv, Idle!IdlerInv, Idle!CriticalKept,
     Idle!NeverStale, Idle!ApplyInv

LEMMA IdleSetSaveKeeps == ASSUME Idle!ConstantsOK, Idle!IInv, Idle!SetSave PROVE Idle!IInv'
<1> USE DEF Idle!SetSave
<1>1. setter \in [at: {"save", "apply", "restore", "reapply"}, wanted: Idle!Policy, previous: Idle!Policy]
  BY DEF Idle!IInv, Idle!TypeOK
<1>2. Idle!TypeOK'
  BY <1>1 DEF Idle!ConstantsOK, Idle!IInv, Idle!TypeOK
<1>3. Idle!LockInv' /\ Idle!SetterInv' /\ Idle!CriticalKept'
  BY <1>1 DEF Idle!IInv, Idle!LockInv, Idle!SetterInv, Idle!CriticalKept, Idle!None
<1>4. Idle!IdlerInv' /\ Idle!ApplyInv' /\ Idle!NeverStale'
  BY <1>1 DEF Idle!IInv, Idle!TypeOK, Idle!LockInv, Idle!IdlerInv, Idle!ApplyInv, Idle!NeverStale
<1> QED
  BY <1>2, <1>3, <1>4 DEF Idle!IInv

LEMMA IdleSetApplyKeeps == ASSUME Idle!ConstantsOK, Idle!IInv, Idle!SetApply PROVE Idle!IInv'
<1> USE DEF Idle!SetApply, Idle!Applies
<1>1. Idle!TypeOK'
  BY IdleWantedKnown DEF Idle!ConstantsOK, Idle!IInv, Idle!TypeOK
<1> QED
  BY <1>1 DEF Idle!IInv, Idle!LockInv, Idle!SetterInv, Idle!IdlerInv, Idle!CriticalKept,
     Idle!NeverStale, Idle!ApplyInv

LEMMA IdleSetApplyFailsKeeps == ASSUME Idle!ConstantsOK, Idle!IInv, Idle!SetApplyFails PROVE Idle!IInv'
<1> USE DEF Idle!SetApplyFails, Idle!Spend
<1>1. setter \in [at: {"save", "apply", "restore", "reapply"}, wanted: Idle!Policy, previous: Idle!Policy]
  BY DEF Idle!IInv, Idle!TypeOK
<1>2. Idle!TypeOK'
  BY <1>1 DEF Idle!ConstantsOK, Idle!IInv, Idle!TypeOK
<1>3. Idle!LockInv' /\ Idle!SetterInv'
  BY <1>1 DEF Idle!IInv, Idle!LockInv, Idle!SetterInv, Idle!None
<1> QED
  BY <1>2, <1>3 DEF Idle!IInv, Idle!IdlerInv, Idle!CriticalKept, Idle!NeverStale, Idle!ApplyInv

-----------------------------------------------------------------------------
(* Critical settings.                                                         *)

LEMMA IdleCritSetKeeps == ASSUME Idle!ConstantsOK, Idle!IInv, Idle!CritSet PROVE Idle!IInv'
<1> USE DEF Idle!CritSet, Idle!Spend, Idle!Take
<1>1. Idle!TypeOK'
  BY DEF Idle!ConstantsOK, Idle!IInv, Idle!TypeOK, Idle!Policy
<1>2. Idle!LockInv'
  BY DEF Idle!IInv, Idle!TypeOK, Idle!LockInv, Idle!None
<1> QED
  BY <1>1, <1>2 DEF Idle!IInv, Idle!SetterInv, Idle!IdlerInv, Idle!CriticalKept, Idle!NeverStale,
     Idle!ApplyInv

LEMMA IdleCritSaveKeeps == ASSUME Idle!ConstantsOK, Idle!IInv, Idle!CritSave PROVE Idle!IInv'
<1> USE DEF Idle!CritSave
<1>1. critter \in [next: Idle!Policy]
  BY DEF Idle!IInv, Idle!TypeOK
<1>2. Idle!TypeOK'
  BY <1>1 DEF Idle!IInv, Idle!TypeOK, Idle!Policy
<1>3. Idle!LockInv' /\ Idle!SetterInv' /\ Idle!CriticalKept'
  BY <1>1 DEF Idle!IInv, Idle!LockInv, Idle!SetterInv, Idle!CriticalKept
<1>4. Idle!IdlerInv' /\ Idle!ApplyInv' /\ Idle!NeverStale'
  BY DEF Idle!IInv, Idle!TypeOK, Idle!LockInv, Idle!IdlerInv, Idle!ApplyInv, Idle!NeverStale
<1> QED
  BY <1>2, <1>3, <1>4 DEF Idle!IInv

-----------------------------------------------------------------------------
(* The monitor.                                                               *)

LEMMA IdleObserveKeeps == ASSUME Idle!ConstantsOK, Idle!IInv, Idle!ObservePolicy PROVE Idle!IInv'
<1> USE DEF Idle!ObservePolicy, Idle!Monitoring, Idle!Observed
<1>1. Idle!TypeOK'
  BY IdleWantedKnown DEF Idle!IInv, Idle!TypeOK
<1> QED
  BY <1>1 DEF Idle!IInv, Idle!LockInv, Idle!SetterInv, Idle!IdlerInv, Idle!CriticalKept,
     Idle!NeverStale, Idle!ApplyInv

LEMMA IdleMonitorLocksKeeps == ASSUME Idle!ConstantsOK, Idle!IInv, Idle!MonitorLocks PROVE Idle!IInv'
<1> USE DEF Idle!MonitorLocks, Idle!Monitoring, Idle!Take
<1>1. Idle!TypeOK'
  BY DEF Idle!IInv, Idle!TypeOK
<1> QED
  BY <1>1 DEF Idle!IInv, Idle!TypeOK, Idle!LockInv, Idle!SetterInv, Idle!IdlerInv,
     Idle!CriticalKept, Idle!NeverStale, Idle!ApplyInv

LEMMA IdleMonitorComparesKeeps ==
  ASSUME Idle!ConstantsOK, Idle!IInv, Idle!MonitorCompares
  PROVE  Idle!IInv'
<1> USE DEF Idle!MonitorCompares, Idle!Monitoring, Idle!Stale
<1>1. Idle!TypeOK'
  BY DEF Idle!IInv, Idle!TypeOK
<1> QED
  BY <1>1 DEF Idle!IInv, Idle!TypeOK, Idle!LockInv, Idle!SetterInv, Idle!IdlerInv,
     Idle!CriticalKept, Idle!NeverStale, Idle!ApplyInv

LEMMA IdleMonitorAppliesKeeps == ASSUME Idle!ConstantsOK, Idle!IInv, Idle!MonitorApplies PROVE Idle!IInv'
<1> USE DEF Idle!MonitorApplies, Idle!Monitoring, Idle!Applies
<1>1. monitor.update \in Idle!AllMinutes
  BY DEF Idle!IInv, Idle!TypeOK, Idle!ApplyInv
<1>2. Idle!TypeOK'
  BY <1>1 DEF Idle!IInv, Idle!TypeOK
<1> QED
  BY <1>2 DEF Idle!IInv, Idle!TypeOK, Idle!LockInv, Idle!SetterInv, Idle!IdlerInv,
     Idle!CriticalKept, Idle!NeverStale, Idle!ApplyInv

-----------------------------------------------------------------------------
(* hypridle, the power source and the idle callback.                          *)

LEMMA IdleHypridleKeeps ==
  ASSUME Idle!ConstantsOK, Idle!IInv, Idle!Stops \/ Idle!Starts \/ Idle!Ready
  PROVE  Idle!IInv'
<1> USE DEF Idle!Elsewhere, Idle!Spend
<1>1. live' \in [up: BOOLEAN, gen: 0..IdleEnv, minutes: Idle!AllMinutes,
                starting: Idle!AllMinutes \cup {Idle!Unset}, episode: 0..IdleEnv, idle: BOOLEAN]
  <2>1. CASE Idle!Stops
    BY <2>1 DEF Idle!IInv, Idle!TypeOK, Idle!Stops
  <2>2. CASE Idle!Starts
    <3>1. Idle!Wanted \in Idle!AllMinutes /\ 0 \in Idle!AllMinutes
      BY IdleWantedKnown DEF Idle!IInv, Idle!AllMinutes
    <3> QED
      BY <2>2, <3>1 DEF Idle!IInv, Idle!TypeOK, Idle!Starts
  <2>3. CASE Idle!Ready
    <3>1. live.starting \in Idle!AllMinutes /\ live.gen \in 0..IdleEnv
      BY <2>3 DEF Idle!IInv, Idle!TypeOK, Idle!Ready
    <3>2. (live.gen + 1) % (IdleEnv + 1) \in 0..IdleEnv
      BY <3>1 DEF Idle!ConstantsOK
    <3> QED
      BY <2>3, <3>1, <3>2 DEF Idle!IInv, Idle!TypeOK, Idle!Ready
  <2> QED
    BY <2>1, <2>2, <2>3
<1>2. idleSpent' \in 0..IdleEnv
  BY DEF Idle!ConstantsOK, Idle!IInv, Idle!TypeOK, Idle!Stops, Idle!Starts, Idle!Ready
<1>3. UNCHANGED <<policyFile, plugged, lock, setter, critter, monitor, idler, critSet>>
  BY DEF Idle!Stops, Idle!Starts, Idle!Ready
<1> QED
  BY <1>1, <1>2, <1>3 DEF Idle!IInv, Idle!TypeOK, Idle!LockInv, Idle!SetterInv, Idle!IdlerInv,
     Idle!CriticalKept, Idle!NeverStale, Idle!ApplyInv

LEMMA IdleGoesIdleKeeps == ASSUME Idle!ConstantsOK, Idle!IInv, Idle!GoesIdle PROVE Idle!IInv'
<1> USE DEF Idle!GoesIdle, Idle!Elsewhere, Idle!Spend
<1>1. Idle!TypeOK'
  <2>1. idleSpent' \in 0..IdleEnv
    BY DEF Idle!ConstantsOK, Idle!IInv, Idle!TypeOK
  <2>2. live' \in [up: BOOLEAN, gen: 0..IdleEnv, minutes: Idle!AllMinutes,
                  starting: Idle!AllMinutes \cup {Idle!Unset}, episode: 0..IdleEnv, idle: BOOLEAN]
    BY <2>1 DEF Idle!IInv, Idle!TypeOK
  <2>3. live.minutes \in Idle!AllMinutes /\ live.gen \in 0..IdleEnv /\ policyFile.idle \in IdleVersions
    BY DEF Idle!IInv, Idle!TypeOK, Idle!Policy
  <2>4. idler' \in [at: {"queued", "entry", "setup", "last", "sleep"}, minutes: Idle!AllMinutes, gen: 0..IdleEnv,
                   episode: 0..IdleEnv, profile: IdleVersions, power: BOOLEAN]
    BY <2>1, <2>3 DEF Idle!IInv, Idle!TypeOK
  <2> QED
    BY <2>1, <2>2, <2>4 DEF Idle!IInv, Idle!TypeOK
<1>2. Idle!LockInv' /\ Idle!IdlerInv'
  BY DEF Idle!IInv, Idle!LockInv, Idle!IdlerInv
<1> QED
  BY <1>1, <1>2 DEF Idle!IInv, Idle!SetterInv, Idle!CriticalKept, Idle!NeverStale, Idle!ApplyInv

LEMMA IdleWorldKeeps == ASSUME Idle!ConstantsOK, Idle!IInv, Idle!Activity \/ Idle!Plug PROVE Idle!IInv'
<1> USE DEF Idle!Activity, Idle!Plug, Idle!Elsewhere, Idle!Spend
<1>1. Idle!TypeOK'
  <2>1. idleSpent' \in 0..IdleEnv
    BY DEF Idle!ConstantsOK, Idle!IInv, Idle!TypeOK
  <2>2. live' \in [up: BOOLEAN, gen: 0..IdleEnv, minutes: Idle!AllMinutes,
                  starting: Idle!AllMinutes \cup {Idle!Unset}, episode: 0..IdleEnv, idle: BOOLEAN]
    BY DEF Idle!IInv, Idle!TypeOK
  <2>3. plugged' \in BOOLEAN
    BY DEF Idle!IInv, Idle!TypeOK
  <2> QED
    BY <2>1, <2>2, <2>3 DEF Idle!IInv, Idle!TypeOK
<1> QED
  BY <1>1 DEF Idle!IInv, Idle!LockInv, Idle!SetterInv, Idle!IdlerInv, Idle!CriticalKept,
     Idle!NeverStale, Idle!ApplyInv

LEMMA IdleLocksKeeps == ASSUME Idle!ConstantsOK, Idle!IInv, Idle!IdleLocks PROVE Idle!IInv'
<1> USE DEF Idle!IdleLocks, Idle!Idling, Idle!Take
<1>1. idler \in [at: {"queued", "entry", "setup", "last", "sleep"}, minutes: Idle!AllMinutes, gen: 0..IdleEnv,
                 episode: 0..IdleEnv, profile: IdleVersions, power: BOOLEAN]
  BY DEF Idle!IInv, Idle!TypeOK
<1>2. Idle!TypeOK'
  BY <1>1 DEF Idle!IInv, Idle!TypeOK
<1>3. Idle!LockInv' /\ Idle!IdlerInv'
  BY <1>1 DEF Idle!IInv, Idle!LockInv, Idle!IdlerInv, Idle!None
<1> QED
  BY <1>2, <1>3 DEF Idle!IInv, Idle!SetterInv, Idle!CriticalKept, Idle!NeverStale, Idle!ApplyInv

LEMMA IdleChecksKeeps == ASSUME Idle!ConstantsOK, Idle!IInv, Idle!IdleChecks PROVE Idle!IInv'
<1> USE DEF Idle!IdleChecks, Idle!Idling
<1>1. /\ idler \in [at: {"queued", "entry", "setup", "last", "sleep"}, minutes: Idle!AllMinutes, gen: 0..IdleEnv,
                    episode: 0..IdleEnv, profile: IdleVersions, power: BOOLEAN]
      /\ policyFile.idle \in IdleVersions
  BY DEF Idle!IInv, Idle!TypeOK, Idle!Policy
<1>2. Idle!TypeOK'
  <2>1. idler' \in [at: {"queued", "entry", "setup", "last", "sleep"}, minutes: Idle!AllMinutes, gen: 0..IdleEnv,
                   episode: 0..IdleEnv, profile: IdleVersions, power: BOOLEAN] \cup {Idle!None}
    BY <1>1
  <2>2. lock' \in {"free", "set", "crit", "monitor", "idle"}
    BY DEF Idle!IInv, Idle!TypeOK
  <2> QED
    BY <2>1, <2>2 DEF Idle!IInv, Idle!TypeOK
<1>3. Idle!LockInv'
  BY <1>1 DEF Idle!IInv, Idle!LockInv, Idle!None
<1>4. Idle!IdlerInv'
  BY <1>1 DEF Idle!IInv, Idle!IdlerInv, Idle!Selected, Idle!None
<1> QED
  BY <1>2, <1>3, <1>4 DEF Idle!IInv, Idle!SetterInv, Idle!CriticalKept, Idle!NeverStale, Idle!ApplyInv

LEMMA IdleEndsKeeps ==
  ASSUME Idle!ConstantsOK, Idle!IInv, Idle!IdleSleeps \/ Idle!IdleGivesUp
  PROVE  Idle!IInv'
<1> USE DEF Idle!IdleSleeps, Idle!IdleGivesUp, Idle!Idling
<1>1. Idle!TypeOK'
  BY DEF Idle!IInv, Idle!TypeOK
<1> QED
  BY <1>1 DEF Idle!IInv, Idle!LockInv, Idle!SetterInv, Idle!IdlerInv, Idle!CriticalKept,
     Idle!NeverStale, Idle!ApplyInv

LEMMA IdleCrashKeeps == ASSUME Idle!ConstantsOK, Idle!IInv, Idle!Crash PROVE Idle!IInv'
<1> USE DEF Idle!Crash, Idle!Spend
<1>1. Idle!TypeOK'
  BY DEF Idle!ConstantsOK, Idle!IInv, Idle!TypeOK
<1> QED
  BY <1>1 DEF Idle!IInv, Idle!LockInv, Idle!SetterInv, Idle!IdlerInv, Idle!CriticalKept,
     Idle!NeverStale, Idle!ApplyInv

-----------------------------------------------------------------------------
LEMMA IdleNextKeeps == ASSUME Idle!ConstantsOK, Idle!IInv, [Idle!Next]_(Idle!vars) PROVE Idle!IInv'
<1>1. CASE Idle!Next
  BY <1>1, IdleSetKeeps, IdleSetRefusedKeeps, IdleSetSaveKeeps, IdleSetApplyKeeps,
     IdleSetApplyFailsKeeps,
     IdleCritSetKeeps, IdleCritSaveKeeps, IdleObserveKeeps, IdleMonitorLocksKeeps,
     IdleMonitorComparesKeeps,
     IdleMonitorAppliesKeeps, IdleHypridleKeeps, IdleGoesIdleKeeps, IdleWorldKeeps, IdleLocksKeeps,
     IdleChecksKeeps, IdleEndsKeeps, IdleCrashKeeps
  DEF Idle!Next, Idle!Settle
<1>2. CASE UNCHANGED Idle!vars
  BY <1>2 DEF Idle!vars, Idle!IInv, Idle!TypeOK, Idle!LockInv, Idle!SetterInv, Idle!IdlerInv,
     Idle!CriticalKept, Idle!NeverStale, Idle!ApplyInv
<1> QED
  BY <1>1, <1>2

\* Files, tasks and lock keep the shapes the next step relies on, for any policies.
THEOREM IdleTypeCorrect == ASSUME Idle!ConstantsOK PROVE Idle!Spec => []Idle!TypeOK
<1>1. Idle!Init => Idle!IInv
  BY IdleInitHolds
<1>2. Idle!IInv /\ [Idle!Next]_(Idle!vars) => Idle!IInv'
  BY IdleNextKeeps
<1>3. Idle!IInv => Idle!TypeOK
  BY DEF Idle!IInv
<1> QED
  BY <1>1, <1>2, <1>3, PTL DEF Idle!Spec

\* Saves and rollbacks of the idle policy keep the critical settings, an idle
\* callback sleeps with the profile that is saved, and the monitor applies no
\* snapshot that a setter overtook, for any policies and any number of failures
\* (sleep_policy.rs set, perform_idle, monitor).
THEOREM IdlePolicySafe == ASSUME Idle!ConstantsOK PROVE Idle!Spec => []Idle!Safe
<1>1. Idle!Init => Idle!IInv
  BY IdleInitHolds
<1>2. Idle!IInv /\ [Idle!Next]_(Idle!vars) => Idle!IInv'
  BY IdleNextKeeps
<1>3. Idle!IInv => Idle!Safe
  BY IdleSafeFollows
<1> QED
  BY <1>1, <1>2, <1>3, PTL DEF Idle!Spec

HIDE DEF policyFile, plugged, live, lock, setter, critter, monitor, idler, critSet, idleSpent

-----------------------------------------------------------------------------
(* Hibernation at a critical battery level (CriticalBattery).                 *)

\* The variables of CriticalBattery.
battery == r1
critPolicy == r2
engine == r3
saved == r4
recovery == r5
token == r6
step == r7
worker == r8
canceller == r9
critShown == r10
episode == r11
fired == r12
quiet == r13
critSpent == r14
USE DEF battery, critPolicy, engine, saved, recovery, token, step, worker, canceller, critShown, episode, fired, quiet, critSpent

LEMMA CriticalTypesKnown ==
  ASSUME Critical!IInv
  PROVE  /\ battery \in {"low", "between", "ac"} /\ critPolicy \in Critical!Policy /\ engine \in Critical!EngineType
         /\ saved \in Critical!Recovery /\ recovery \in Critical!Recovery /\ token \in 0..CriticalTokens /\ step \in Critical!StepType
         /\ worker \in Critical!WorkerType \cup {Critical!None} /\ canceller \in Critical!CancelType \cup {Critical!None}
         /\ critShown \in Critical!Phase /\ episode \in 1..CriticalEpisodes
         /\ fired \in [1..CriticalEpisodes -> Nat] /\ quiet \in 0..CriticalEpisodes /\ critSpent \in 0..CriticalEnv
BY DEF Critical!IInv, Critical!TypeOK, Critical!EngineType, Critical!StepType, Critical!WorkerType,
   Critical!CancelType

LEMMA CriticalTypeFollows ==
  ASSUME battery' \in {"low", "between", "ac"}, critPolicy' \in Critical!Policy, engine' \in Critical!EngineType,
         saved' \in Critical!Recovery, recovery' \in Critical!Recovery, token' \in 0..CriticalTokens, step' \in Critical!StepType,
         worker' \in Critical!WorkerType \cup {Critical!None}, canceller' \in Critical!CancelType \cup {Critical!None},
         critShown' \in Critical!Phase, episode' \in 1..CriticalEpisodes,
         fired' \in [1..CriticalEpisodes -> Nat], quiet' \in 0..CriticalEpisodes, critSpent' \in 0..CriticalEnv
  PROVE  Critical!TypeOK'
BY DEF Critical!TypeOK, Critical!EngineType, Critical!StepType, Critical!WorkerType, Critical!CancelType

LEMMA CriticalFirstIs ==
  ASSUME Critical!ConstantsOK
  PROVE  /\ Critical!First \in Critical!Policy /\ Critical!First.enabled
         /\ Critical!Idle \in Critical!StepType /\ Critical!Idle.at = "idle"
         /\ Critical!Idle.token = 0 /\ ~Critical!Idle.fire
<1>1. Critical!First \in Critical!Policy /\ Critical!First.enabled
  BY DEF Critical!First, Critical!Policy, Critical!ConstantsOK
<1>2. 0 \in 0..CriticalTokens
  BY DEF Critical!ConstantsOK
<1> QED
  BY <1>1, <1>2 DEF Critical!Idle, Critical!StepType, Critical!Step

LEMMA CriticalStartedIs ==
  ASSUME Critical!ConstantsOK, NEW r \in Critical!Recovery
  PROVE  /\ Critical!Started(r) \in Critical!EngineType /\ Critical!Started(r).deadline = "none" /\ Critical!Started(r).token = 0
         /\ (Critical!Started(r).latched <=> r.attempted) /\ Critical!Started(r).phase \in {"latched", "disabled"}
         /\ Critical!Started(r).policy = r.policy
<1>1. r.policy \in Critical!Policy /\ r.attempted \in BOOLEAN /\ 0 \in 0..CriticalTokens
  BY DEF Critical!Recovery, Critical!ConstantsOK
<1>2. Critical!Started(r) \in Critical!EngineType
  BY <1>1 DEF Critical!Started, Critical!EngineType, Critical!Deadline, Critical!Phase
<1> QED
  BY <1>1, <1>2 DEF Critical!Started

LEMMA CriticalInitHolds == ASSUME Critical!ConstantsOK, Critical!Init PROVE Critical!IInv
<1>1. recovery \in Critical!Recovery /\ ~recovery.attempted
  BY CriticalFirstIs DEF Critical!Init, Critical!Recovery
<1>2. Critical!TypeOK
  BY <1>1, CriticalFirstIs, CriticalStartedIs DEF Critical!Init, Critical!TypeOK,
     Critical!EngineType, Critical!StepType, Critical!Phase, Critical!ConstantsOK
<1>3. Critical!Safe
  <2>1. \A e \in 1..CriticalEpisodes : fired[e] = 0
    BY DEF Critical!Init
  <2> QED
    BY <2>1 DEF Critical!Init, Critical!Safe, Critical!OnceAnEpisode, Critical!CancelHolds
<1>4. Critical!EngineInv
  BY <1>1, CriticalFirstIs, CriticalStartedIs DEF Critical!Init, Critical!EngineInv
<1>5. Critical!SpentInv
  <2>1. ~Critical!Spent
    BY DEF Critical!Init, Critical!Spent, Critical!ConstantsOK
  <2>2. step.at = "idle" /\ worker = Critical!None /\ saved = recovery
    BY CriticalFirstIs DEF Critical!Init
  <2> QED
    BY <1>1, <2>1, <2>2 DEF Critical!Init, Critical!SpentInv
<1>6. Critical!HaltInv
  BY CriticalFirstIs DEF Critical!Init, Critical!HaltInv, Critical!Halting
<1> QED
  BY <1>2, <1>3, <1>4, <1>5, <1>6 DEF Critical!IInv

-----------------------------------------------------------------------------
(* One observation.                                                           *)

LEMMA CriticalStopIs ==
  ASSUME NEW e \in Critical!EngineType, NEW ph \in Critical!Phase
  PROVE  /\ Critical!stop(e, ph) \in Critical!EngineType /\ Critical!stop(e, ph).latched /\ Critical!stop(e, ph).deadline = "none"
         /\ Critical!stop(e, ph).phase = ph /\ Critical!stop(e, ph).token = e.token /\ Critical!stop(e, ph).policy = e.policy
BY DEF Critical!stop, Critical!EngineType, Critical!Deadline

\* What Engine::observe makes of an engine.  It fires only from a countdown that
\* ran to its end under the policy and the token at hand; it forgets a latch or a
\* countdown only by re-arming; a countdown whose token is stale it stops.
LEMMA CriticalObserveIs ==
  ASSUME NEW e0 \in Critical!EngineType, NEW p \in Critical!Policy, NEW b \in {"low", "between", "ac", "unknown"},
         NEW t \in 0..CriticalTokens, ~e0.policy.enabled => e0.deadline = "none"
  PROVE  LET o == Critical!observe(e0, p, b, t) IN
         /\ o.engine \in Critical!EngineType /\ o.warning \in BOOLEAN /\ o.fire \in BOOLEAN
         /\ o.engine.phase = "countdown" => o.engine.latched \/ o.engine.deadline # "none"
         /\ o.engine.phase = "acting" => o.engine.latched
         /\ ~o.engine.policy.enabled => o.engine.deadline = "none"
         /\ o.engine.token \in {e0.token, t}
         /\ o.fire => o.engine.latched /\ ~o.warning /\ ~e0.latched /\ ~Critical!rearmed(e0, p, b)
         /\ ~Critical!rearmed(e0, p, b) /\ e0.latched => o.engine.latched
         /\ ~Critical!rearmed(e0, p, b) /\ e0.deadline # "none" /\ e0.token # t => o.engine.latched /\ ~o.fire
<1> DEFINE e == IF e0.policy = p THEN e0 ELSE [e0 EXCEPT !.policy = p, !.deadline = "none", !.latched = FALSE]
           unarmed(phase) == [e EXCEPT !.deadline = "none", !.phase = phase]
           c == IF e.deadline # "none" /\ t # e.token THEN Critical!stop(e, "cancelled") ELSE e
           o == Critical!observe(e0, p, b, t)
           result(next, warning, fire) == [engine |-> next, warning |-> warning, fire |-> fire]
<1>1. /\ e \in Critical!EngineType /\ e.policy = p /\ e.token = e0.token
      /\ e.latched => e0.latched
      /\ e.deadline # "none" => e0.deadline # "none" /\ e0.policy = p
      /\ e0.policy = p => e = e0
  BY DEF Critical!EngineType, Critical!Deadline
<1>2. "none" \in Critical!Deadline /\ "running" \in Critical!Deadline /\ {"disabled", "blocked", "armed", "countdown", "acting", "cancelled"} \subseteq Critical!Phase
  BY DEF Critical!Deadline, Critical!Phase
<1>3. /\ c \in Critical!EngineType /\ c.policy = p /\ c.token = e.token
      /\ e.latched => c.latched
      /\ c.deadline # "none" => c = e /\ t = e.token
      /\ e.deadline # "none" /\ t # e.token => c.latched
      /\ ~c.latched => c = e
  BY <1>1, <1>2, CriticalStopIs
<1>4. CASE ~p.enabled
  <2>1. o = result([e EXCEPT !.phase = "disabled"], FALSE, FALSE)
    BY <1>4 DEF Critical!observe
  <2>2. e.deadline = "none" /\ (e0.policy = p => e0.deadline = "none")
    BY <1>1, <1>4
  <2> HIDE DEF o, e
  <2>3. /\ o.engine \in Critical!EngineType /\ ~o.warning /\ ~o.fire /\ o.engine.phase = "disabled" /\ o.engine.latched = e.latched
        /\ o.engine.deadline = e.deadline /\ o.engine.token = e.token /\ o.engine.policy = p
        /\ o.warning \in BOOLEAN /\ o.fire \in BOOLEAN
    BY <1>1, <1>2, <2>1 DEF Critical!EngineType
  <2>4. /\ ~Critical!rearmed(e0, p, b) => e0.policy = p
    BY DEF Critical!rearmed
  <2> QED
    BY <1>1, <2>2, <2>3, <2>4 DEF o
<1>5. CASE p.enabled /\ b = "unknown"
  <2>1. o = result(unarmed("blocked"), FALSE, FALSE)
    BY <1>5 DEF Critical!observe, Critical!recovered
  <2> HIDE DEF o, e
  <2>3. /\ o.engine \in Critical!EngineType /\ ~o.warning /\ ~o.fire /\ o.engine.phase = "blocked" /\ o.engine.latched = e.latched
        /\ o.engine.deadline = "none" /\ o.engine.token = e.token /\ o.engine.policy = p
        /\ o.warning \in BOOLEAN /\ o.fire \in BOOLEAN
    BY <1>1, <1>2, <2>1 DEF Critical!EngineType
  <2>4. /\ ~Critical!rearmed(e0, p, b) => e0.policy = p /\ e0.deadline = "none"
    BY <1>5 DEF Critical!rearmed
  <2> QED
    BY <1>1, <2>3, <2>4 DEF o
<1>6. CASE p.enabled /\ Critical!recovered(b)
  <2>1. o = result([unarmed("armed") EXCEPT !.latched = FALSE], FALSE, FALSE)
    BY <1>6 DEF Critical!observe, Critical!recovered
  <2> HIDE DEF o, e
  <2>3. /\ o.engine \in Critical!EngineType /\ ~o.warning /\ ~o.fire /\ o.engine.phase = "armed"
        /\ o.engine.deadline = "none" /\ o.engine.token = e.token /\ o.engine.policy = p
        /\ o.warning \in BOOLEAN /\ o.fire \in BOOLEAN
    BY <1>1, <1>2, <2>1 DEF Critical!EngineType
  <2>4. /\ ~Critical!rearmed(e0, p, b) => e0.policy = p /\ e0.deadline = "none" /\ ~e0.latched
    BY <1>6 DEF Critical!rearmed
  <2> QED
    BY <1>1, <2>3, <2>4 DEF o
<1>7. CASE p.enabled /\ b # "unknown" /\ ~Critical!recovered(b)
  <2>1. o = IF c.latched THEN result(c, FALSE, FALSE)
            ELSE IF ~Critical!critical(b) THEN result([c EXCEPT !.deadline = "none", !.phase = "armed"], FALSE, FALSE)
            ELSE IF c.deadline = "none"
                 THEN result([c EXCEPT !.token = t, !.deadline = "running", !.phase = "countdown"], TRUE, FALSE)
            ELSE IF c.deadline = "passed" THEN result(Critical!stop(c, "acting"), FALSE, TRUE)
            ELSE result([c EXCEPT !.phase = "countdown"], FALSE, FALSE)
    BY <1>7 DEF Critical!observe
  <2>2. Critical!rearmed(e0, p, b) <=> e0.policy # p
    BY <1>7 DEF Critical!rearmed
  <2> HIDE DEF o, e, c
  <2>3. CASE c.latched
    <3>1. o.engine = c /\ ~o.warning /\ ~o.fire /\ o.warning \in BOOLEAN /\ o.fire \in BOOLEAN
      BY <2>1, <2>3
    <3> QED
      BY <1>1, <1>3, <1>7, <2>2, <2>3, <3>1 DEF o
  <2>4. CASE ~c.latched /\ ~Critical!critical(b)
    <3>1. o = result([c EXCEPT !.deadline = "none", !.phase = "armed"], FALSE, FALSE)
      BY <2>1, <2>4
    <3>2. /\ o.engine \in Critical!EngineType /\ ~o.warning /\ ~o.fire /\ o.engine.phase = "armed"
          /\ o.engine.deadline = "none" /\ o.engine.token = c.token /\ o.engine.policy = p
          /\ o.warning \in BOOLEAN /\ o.fire \in BOOLEAN
      BY <1>2, <1>3, <3>1 DEF Critical!EngineType
    <3> QED
      BY <1>1, <1>3, <2>2, <2>4, <3>2 DEF o
  <2>5. CASE ~c.latched /\ Critical!critical(b) /\ c.deadline = "none"
    <3>1. o = result([c EXCEPT !.token = t, !.deadline = "running", !.phase = "countdown"], TRUE, FALSE)
      BY <2>1, <2>5
    <3>2. /\ o.engine \in Critical!EngineType /\ o.warning /\ ~o.fire /\ o.engine.phase = "countdown"
          /\ o.engine.deadline = "running" /\ o.engine.token = t /\ o.engine.policy = p
          /\ o.warning \in BOOLEAN /\ o.fire \in BOOLEAN
      BY <1>2, <1>3, <3>1 DEF Critical!EngineType
    <3> QED
      BY <1>1, <1>3, <1>7, <2>2, <2>5, <3>2 DEF o
  <2>6. CASE ~c.latched /\ Critical!critical(b) /\ c.deadline = "passed"
    <3>1. o = result(Critical!stop(c, "acting"), FALSE, TRUE)
      BY <2>1, <2>6
    <3>2. /\ o.engine \in Critical!EngineType /\ ~o.warning /\ o.fire /\ o.engine.phase = "acting" /\ o.engine.latched
          /\ o.engine.deadline = "none" /\ o.engine.token = c.token /\ o.engine.policy = p
          /\ o.warning \in BOOLEAN /\ o.fire \in BOOLEAN
      <4>1. /\ Critical!stop(c, "acting") \in Critical!EngineType /\ Critical!stop(c, "acting").latched /\ Critical!stop(c, "acting").deadline = "none"
            /\ Critical!stop(c, "acting").phase = "acting" /\ Critical!stop(c, "acting").token = c.token /\ Critical!stop(c, "acting").policy = p
        BY <1>2, <1>3, CriticalStopIs, ZenonT(40)
      <4> QED
        BY <3>1, <4>1
    <3> QED
      BY <1>1, <1>3, <1>7, <2>2, <2>6, <3>2 DEF o
  <2>7. CASE ~c.latched /\ Critical!critical(b) /\ c.deadline \notin {"none", "passed"}
    <3>1. o = result([c EXCEPT !.phase = "countdown"], FALSE, FALSE)
      BY <2>1, <2>7
    <3>2. /\ o.engine \in Critical!EngineType /\ ~o.warning /\ ~o.fire /\ o.engine.phase = "countdown" /\ o.engine.latched = c.latched
          /\ o.engine.deadline = c.deadline /\ o.engine.token = c.token /\ o.engine.policy = p
          /\ o.warning \in BOOLEAN /\ o.fire \in BOOLEAN
      BY <1>2, <1>3, <3>1 DEF Critical!EngineType
    <3> QED
      BY <1>1, <1>3, <1>7, <2>2, <2>7, <3>2 DEF o
  <2> QED
    BY <2>3, <2>4, <2>5, <2>6, <2>7
<1> QED
  BY <1>4, <1>5, <1>6, <1>7

-----------------------------------------------------------------------------
(* The steps.                                                                 *)

LEMMA CriticalNumbers ==
  ASSUME Critical!ConstantsOK, Critical!IInv
  PROVE  /\ token \in Nat /\ engine.token \in Nat /\ step.token \in Nat /\ episode \in Nat /\ episode > 0 /\ quiet \in Nat
         /\ worker # Critical!None => worker \in Critical!WorkerType /\ worker.token \in Nat /\ worker.episode \in Nat /\ worker.episode \in 1..CriticalEpisodes
         /\ canceller # Critical!None => canceller \in Critical!CancelType /\ canceller.episode \in Nat
<1>1. token \in Nat /\ engine.token \in Nat /\ step.token \in Nat /\ episode \in Nat /\ episode > 0 /\ quiet \in Nat
  BY CriticalTypesKnown DEF Critical!ConstantsOK, Critical!EngineType, Critical!StepType
<1>2. worker # Critical!None => worker \in Critical!WorkerType /\ worker.token \in Nat /\ worker.episode \in Nat /\ worker.episode \in 1..CriticalEpisodes
  BY CriticalTypesKnown DEF Critical!ConstantsOK, Critical!WorkerType
<1>3. canceller # Critical!None => canceller \in Critical!CancelType /\ canceller.episode \in Nat
  BY CriticalTypesKnown DEF Critical!ConstantsOK, Critical!CancelType
<1> QED
  BY <1>1, <1>2, <1>3

\* The engine, its files and its tasks are left alone.
LEMMA CriticalOutsideKeeps ==
  ASSUME Critical!ConstantsOK, Critical!IInv,
         UNCHANGED <<engine, saved, recovery, token, worker, canceller, critShown, episode, fired,
         quiet>>,
         step' = step \/ (step' \in Critical!StepType /\ step'.at \in {"idle", "sampled"} /\ step'.token = 0),
         battery' \in {"low", "between", "ac"}, critPolicy' \in Critical!Policy, critSpent' \in 0..CriticalEnv
  PROVE  Critical!IInv'
<1>1. Critical!TypeOK'
  BY CriticalTypesKnown, CriticalTypeFollows
<1>2. Critical!Safe'
  BY DEF Critical!IInv, Critical!Safe, Critical!OnceAnEpisode, Critical!CancelHolds
<1>3. Critical!EngineInv'
  BY CriticalNumbers DEF Critical!IInv, Critical!EngineInv
<1>4. Critical!SpentInv'
  BY DEF Critical!IInv, Critical!SpentInv, Critical!Spent
<1>5. Critical!HaltInv'
  BY DEF Critical!IInv, Critical!HaltInv, Critical!Halting
<1> QED
  BY <1>1, <1>2, <1>3, <1>4, <1>5 DEF Critical!IInv

LEMMA CriticalSpends ==
  ASSUME Critical!ConstantsOK, Critical!IInv, critSpent < CriticalEnv
  PROVE  critSpent + 1 \in 0..CriticalEnv
BY CriticalTypesKnown DEF Critical!ConstantsOK

LEMMA CriticalSampleKeeps ==
  ASSUME Critical!ConstantsOK, Critical!IInv, Critical!Sample
  PROVE  Critical!IInv'
<1>1. PICK known \in BOOLEAN :
        /\ known \/ critSpent < CriticalEnv
        /\ critSpent' = IF known THEN critSpent ELSE critSpent + 1
        /\ step' = [Critical!Idle EXCEPT !.at = "sampled", !.policy = critPolicy,
                                !.battery = IF known THEN battery ELSE "unknown"]
  BY DEF Critical!Sample
<1>2. critSpent' \in 0..CriticalEnv
  BY <1>1, CriticalSpends, CriticalTypesKnown
<1> DEFINE b == IF known THEN battery ELSE "unknown"
<1>3. b \in {"low", "between", "ac", "unknown"}
  BY CriticalTypesKnown
<1>4. step' = [Critical!Idle EXCEPT !.at = "sampled", !.policy = critPolicy, !.battery = b]
  BY <1>1
<1> HIDE DEF b
<1>5. step' \in Critical!StepType /\ step'.at = "sampled" /\ step'.token = 0
  BY <1>3, <1>4, CriticalFirstIs, CriticalTypesKnown DEF Critical!StepType, Critical!Step
<1> QED
  BY <1>2, <1>5, CriticalOutsideKeeps, CriticalTypesKnown DEF Critical!Sample, Critical!Same

LEMMA CriticalWorldKeeps ==
  ASSUME Critical!ConstantsOK, Critical!IInv, Critical!SetPolicy \/ Critical!Charge \/ Critical!Drain
  PROVE  Critical!IInv'
<1>1. CASE Critical!SetPolicy
  <2>1. critPolicy' \in Critical!Policy /\ critSpent' \in 0..CriticalEnv
    BY <1>1, CriticalSpends DEF Critical!SetPolicy, Critical!Policy
  <2> QED
    BY <1>1, <2>1, CriticalOutsideKeeps, CriticalTypesKnown DEF Critical!SetPolicy
<1>2. CASE Critical!Charge
  BY <1>2, CriticalOutsideKeeps, CriticalTypesKnown, CriticalSpends DEF Critical!Charge
<1>3. CASE Critical!Drain
  <2>1. battery' \in {"low", "between", "ac"}
    BY <1>3 DEF Critical!Drain
  <2> QED
    BY <1>3, <2>1, CriticalOutsideKeeps, CriticalTypesKnown DEF Critical!Drain
<1> QED
  BY <1>1, <1>2, <1>3

LEMMA CriticalObserveKeeps ==
  ASSUME Critical!ConstantsOK, Critical!IInv, Critical!Observe
  PROVE  Critical!IInv'
<1> DEFINE o == Critical!observe(engine, step.policy, step.battery, token)
           new == Critical!rearmed(engine, step.policy, step.battery)
<1>1. /\ step.at = "sampled" /\ engine' = o.engine
      /\ step' = [step EXCEPT !.at = IF o.warning THEN "warn" ELSE "persist", !.token = token, !.fire = o.fire]
      /\ episode' = IF new THEN episode + 1 ELSE episode
      /\ episode' <= CriticalEpisodes
      /\ UNCHANGED <<battery, critPolicy, token, quiet, saved, recovery, worker, canceller, critShown, fired, critSpent>>
  BY DEF Critical!Observe
<1>2. /\ engine \in Critical!EngineType /\ step \in Critical!StepType /\ step.policy \in Critical!Policy /\ token \in 0..CriticalTokens
      /\ step.battery \in {"low", "between", "ac", "unknown"}
  BY CriticalTypesKnown DEF Critical!StepType
<1>3. ~engine.policy.enabled => engine.deadline = "none"
  BY DEF Critical!IInv, Critical!EngineInv
<1>4. /\ o.engine \in Critical!EngineType /\ o.warning \in BOOLEAN /\ o.fire \in BOOLEAN
      /\ o.engine.phase = "countdown" => o.engine.latched \/ o.engine.deadline # "none"
      /\ o.engine.phase = "acting" => o.engine.latched
      /\ ~o.engine.policy.enabled => o.engine.deadline = "none"
      /\ o.engine.token \in {engine.token, token}
      /\ o.fire => o.engine.latched /\ ~o.warning /\ ~engine.latched /\ ~new
      /\ ~new /\ engine.latched => o.engine.latched
      /\ ~new /\ engine.deadline # "none" /\ engine.token # token => o.engine.latched /\ ~o.fire
  BY <1>2, <1>3, CriticalObserveIs, SMTT(30)
<1> HIDE DEF o, new
<1>5. /\ step' \in Critical!StepType /\ step'.token = token /\ step'.fire = o.fire
      /\ step'.at = IF o.warning THEN "warn" ELSE "persist"
  BY <1>1, <1>2, <1>4 DEF Critical!StepType, Critical!Step
<1>6. episode' \in 1..CriticalEpisodes /\ episode' \in Nat /\ (new => episode' = episode + 1) /\ (~new => episode' = episode)
  BY <1>1, CriticalNumbers, CriticalTypesKnown DEF Critical!ConstantsOK
<1>7. Critical!TypeOK'
  BY <1>1, <1>4, <1>5, <1>6, CriticalTypesKnown, CriticalTypeFollows
<1>8. Critical!Safe'
  BY <1>1 DEF Critical!IInv, Critical!Safe, Critical!OnceAnEpisode, Critical!CancelHolds
<1>9. Critical!EngineInv'
  BY <1>1, <1>4, <1>5, CriticalNumbers DEF Critical!IInv, Critical!EngineInv
<1>10. new => ~Critical!Spent'
  <2>1. new => fired[episode + 1] = 0
    BY <1>6, CriticalNumbers, CriticalTypesKnown DEF Critical!IInv, Critical!SpentInv
  <2>2. new => ~(worker # Critical!None /\ worker.episode = episode + 1)
    BY CriticalNumbers DEF Critical!IInv, Critical!SpentInv
  <2> QED
    BY <1>1, <1>6, <2>1, <2>2 DEF Critical!Spent
<1>11. ~new => (Critical!Spent' <=> Critical!Spent)
  BY <1>1, <1>6 DEF Critical!Spent
<1>12. Critical!SpentInv'
  <2>1. Critical!Spent' => engine'.latched /\ recovery'.attempted
    BY <1>1, <1>4, <1>10, <1>11 DEF Critical!IInv, Critical!SpentInv
  <2>2. step'.at = "persist" /\ step'.fire => engine'.latched /\ ~Critical!Spent'
    BY <1>1, <1>4, <1>5, <1>11 DEF Critical!IInv, Critical!SpentInv
  <2>3. step'.at = "warn" => ~step'.fire
    BY <1>4, <1>5
  <2>4. \A e \in 1..CriticalEpisodes : e > episode' => fired'[e] = 0
    <3>1. \A e \in 1..CriticalEpisodes : e > episode' => e > episode
      BY <1>6, CriticalNumbers
    <3> QED
      BY <1>1, <3>1 DEF Critical!IInv, Critical!SpentInv
  <2>5. worker' # Critical!None => worker'.episode <= episode'
    BY <1>1, <1>6, CriticalNumbers DEF Critical!IInv, Critical!SpentInv
  <2> QED
    BY <1>1, <2>1, <2>2, <2>3, <2>4, <2>5 DEF Critical!IInv, Critical!SpentInv
<1>13. Critical!HaltInv'
  <2>1. new => ~Critical!Halting'
    BY <1>1, <1>6, CriticalNumbers DEF Critical!IInv, Critical!HaltInv, Critical!Halting
  <2>2. ~new => (Critical!Halting' <=> Critical!Halting)
    BY <1>1, <1>6 DEF Critical!Halting
  <2>3. Critical!Halting' => engine'.latched /\ ~step'.fire
    BY <1>1, <1>4, <1>5, <2>1, <2>2 DEF Critical!IInv, Critical!HaltInv
  <2>4. /\ quiet' <= episode' /\ (canceller' # Critical!None => canceller'.episode <= episode')
        /\ quiet' = episode' => recovery'.attempted
    BY <1>1, <1>6, CriticalNumbers DEF Critical!IInv, Critical!HaltInv
  <2> QED
    BY <1>1, <2>3, <2>4 DEF Critical!IInv, Critical!HaltInv
<1> QED
  BY <1>7, <1>8, <1>9, <1>12, <1>13 DEF Critical!IInv

LEMMA CriticalWarnKeeps == ASSUME Critical!ConstantsOK, Critical!IInv, Critical!Warn PROVE Critical!IInv'
<1>1. /\ step.at = "warn" /\ step' = [step EXCEPT !.at = "persist"]
      /\ UNCHANGED <<battery, critPolicy, token, episode, quiet, saved, recovery, worker, canceller, critShown, fired>>
  BY DEF Critical!Warn, Critical!Same
<1>2. engine \in Critical!EngineType /\ step \in Critical!StepType /\ "blocked" \in Critical!Phase /\ critSpent' \in 0..CriticalEnv
  BY CriticalTypesKnown, CriticalSpends DEF Critical!Warn, Critical!Phase
<1>3. step' \in Critical!StepType /\ step'.at = "persist" /\ step'.fire = step.fire /\ step'.token = step.token
  BY <1>1, <1>2 DEF Critical!StepType, Critical!Step
<1>4. engine' = engine \/ engine' = Critical!stop(engine, "blocked")
  BY DEF Critical!Warn
<1>5. /\ engine' \in Critical!EngineType /\ engine'.token = engine.token /\ (engine.latched => engine'.latched)
      /\ engine'.latched \/ engine' = engine
      /\ engine' # engine => engine'.phase = "blocked" /\ engine'.deadline = "none"
  BY <1>2, <1>4, CriticalStopIs
<1>6. ~step.fire
  BY <1>1 DEF Critical!IInv, Critical!SpentInv
<1>7. Critical!TypeOK'
  BY <1>1, <1>2, <1>3, <1>5, CriticalTypesKnown, CriticalTypeFollows
<1>8. Critical!Safe'
  BY <1>1 DEF Critical!IInv, Critical!Safe, Critical!OnceAnEpisode, Critical!CancelHolds
<1>9. Critical!EngineInv'
  BY <1>1, <1>3, <1>5 DEF Critical!IInv, Critical!EngineInv
<1>10. Critical!SpentInv'
  BY <1>1, <1>3, <1>5, <1>6 DEF Critical!IInv, Critical!SpentInv, Critical!Spent
<1>11. Critical!HaltInv'
  <2>1. Critical!Halting' <=> Critical!Halting
    BY <1>1 DEF Critical!Halting
  <2>2. Critical!Halting => /\ engine'.latched \/ (engine'.deadline # "none" /\ engine'.token # token)
                            /\ engine'.latched \/ step'.token # token
    BY <1>1, <1>3, <1>5 DEF Critical!IInv, Critical!HaltInv
  <2> QED
    BY <1>1, <1>3, <1>6, <2>1, <2>2 DEF Critical!IInv, Critical!HaltInv
<1> QED
  BY <1>7, <1>8, <1>9, <1>10, <1>11 DEF Critical!IInv

LEMMA CriticalGraceKeeps ==
  ASSUME Critical!ConstantsOK, Critical!IInv, Critical!GraceElapses
  PROVE  Critical!IInv'
<1>1. /\ engine.deadline = "running" /\ step.at = "idle" /\ engine' = [engine EXCEPT !.deadline = "passed"]
      /\ UNCHANGED <<battery, critPolicy, token, episode, quiet, saved, recovery, step, worker, canceller, critShown, fired, critSpent>>
  BY DEF Critical!GraceElapses, Critical!Same
<1>2. /\ engine' \in Critical!EngineType /\ engine'.token = engine.token /\ engine'.latched = engine.latched
      /\ engine'.policy = engine.policy /\ engine'.phase = engine.phase /\ engine'.deadline = "passed"
  BY <1>1, CriticalTypesKnown DEF Critical!EngineType, Critical!Deadline
<1>3. Critical!TypeOK'
  BY <1>1, <1>2, CriticalTypesKnown, CriticalTypeFollows
<1>4. Critical!Safe'
  BY <1>1 DEF Critical!IInv, Critical!Safe, Critical!OnceAnEpisode, Critical!CancelHolds
<1>5. Critical!EngineInv'
  BY <1>1, <1>2 DEF Critical!IInv, Critical!EngineInv
<1>6. Critical!SpentInv'
  BY <1>1, <1>2 DEF Critical!IInv, Critical!SpentInv, Critical!Spent
<1>7. Critical!HaltInv'
  BY <1>1, <1>2 DEF Critical!IInv, Critical!HaltInv, Critical!Halting
<1> QED
  BY <1>3, <1>4, <1>5, <1>6, <1>7 DEF Critical!IInv

\* An action is spawned for an episode that is not spent, after its latch is on disk.
LEMMA CriticalPersistKeeps ==
  ASSUME Critical!ConstantsOK, Critical!IInv, Critical!Persist
  PROVE  Critical!IInv'
<1> DEFINE wanted == [policy |-> step.policy, attempted |-> engine.latched]
           written == Critical!persisted(step.policy, engine.latched, step.token)
           task == [policy |-> step.policy, token |-> engine.token, episode |-> episode, at |-> "start"]
           spawned == IF step.fire /\ worker = Critical!None THEN task ELSE worker
<1>1. /\ step.at = "persist" /\ step' = Critical!Idle
      /\ UNCHANGED <<battery, critPolicy, token, episode, quiet, canceller, fired>>
      /\ \/ /\ wanted = saved /\ worker' = spawned /\ critShown' = engine.phase
            /\ UNCHANGED <<engine, saved, recovery, critSpent>>
         \/ /\ wanted # saved /\ recovery' = written /\ saved' = written
            /\ worker' = spawned /\ critShown' = engine.phase /\ UNCHANGED <<engine, critSpent>>
         \/ /\ wanted # saved /\ critSpent < CriticalEnv /\ critSpent' = critSpent + 1
            /\ engine' = Critical!stop(engine, "blocked") /\ critShown' = "blocked"
            /\ UNCHANGED <<saved, recovery, worker>>
  BY DEF Critical!Persist, Critical!Same
<1>2. /\ step.policy \in Critical!Policy /\ engine.token \in 0..CriticalTokens /\ engine.latched \in BOOLEAN /\ engine.phase \in Critical!Phase
      /\ episode \in 1..CriticalEpisodes /\ engine \in Critical!EngineType /\ "blocked" \in Critical!Phase
  BY CriticalTypesKnown DEF Critical!StepType, Critical!EngineType, Critical!Phase
<1>3. task \in Critical!WorkerType /\ task # Critical!None /\ task.episode = episode /\ task.token = engine.token /\ task.at = "start"
  BY <1>2 DEF Critical!WorkerType, Critical!None
<1>4. written \in Critical!Recovery /\ (written.attempted <=> engine.latched \/ token # step.token)
  BY <1>2 DEF Critical!persisted, Critical!Recovery
<1>5. wanted.attempted <=> engine.latched
  OBVIOUS
<1>6. saved' \in Critical!Recovery /\ recovery' \in Critical!Recovery /\ critSpent' \in 0..CriticalEnv /\ critShown' \in Critical!Phase
  BY <1>1, <1>2, <1>4, CriticalTypesKnown, CriticalSpends
<1>7. engine' \in Critical!EngineType /\ engine'.token = engine.token /\ (engine.latched => engine'.latched)
      /\ (engine' = engine \/ (engine'.latched /\ engine'.phase = "blocked" /\ engine'.deadline = "none"))
  BY <1>1, <1>2, CriticalStopIs
<1>8. saved'.attempted => recovery'.attempted
  BY <1>1 DEF Critical!IInv, Critical!SpentInv
\* After a write, or when there is nothing to write, the file has the latch.
<1>9. recovery.attempted /\ engine.latched => recovery'.attempted
  BY <1>1, <1>4
<1>10. worker' # worker => /\ worker' = task /\ step.fire /\ worker = Critical!None
                           /\ recovery'.attempted /\ engine.latched /\ ~Critical!Spent
  <2>1. worker' # worker => worker' = task /\ step.fire /\ worker = Critical!None
    BY <1>1
  <2>2. step.fire => engine.latched /\ ~Critical!Spent
    BY <1>1 DEF Critical!IInv, Critical!SpentInv
  <2>3. CASE wanted = saved
    <3>1. engine.latched => recovery.attempted
      BY <1>5, <2>3 DEF Critical!IInv, Critical!SpentInv
    <3> QED
      BY <1>1, <2>1, <2>2, <2>3, <3>1
  <2>4. CASE wanted # saved
    <3>1. worker' # worker => recovery' = written
      BY <1>1, <2>4
    <3> QED
      BY <1>4, <2>1, <2>2, <3>1
  <2> QED
    BY <2>3, <2>4
<1> HIDE DEF task, written, wanted, spawned
<1>11. step'.at = "idle" /\ step'.token = 0 /\ step' \in Critical!StepType
  BY <1>1, CriticalFirstIs
<1>12. Critical!TypeOK'
  BY <1>1, <1>3, <1>6, <1>7, <1>10, <1>11, CriticalTypesKnown, CriticalTypeFollows
<1>13. worker' # worker => worker'.episode = episode /\ worker'.token = engine.token /\ worker'.at = "start" /\ fired[episode] = 0
  BY <1>3, <1>10 DEF Critical!Spent
<1>14. Critical!Safe'
  BY <1>1, <1>13 DEF Critical!IInv, Critical!Safe, Critical!OnceAnEpisode, Critical!CancelHolds
<1>15. Critical!EngineInv'
  BY <1>1, <1>7, <1>11, <1>13, CriticalNumbers DEF Critical!IInv, Critical!EngineInv
<1>16. Critical!SpentInv'
  <2>1. Critical!Spent' => engine'.latched /\ recovery'.attempted
    <3>1. Critical!Spent' => Critical!Spent \/ worker' # worker
      BY <1>1 DEF Critical!Spent
    <3>2. Critical!Spent => engine.latched /\ recovery.attempted
      BY DEF Critical!IInv, Critical!SpentInv
    <3> QED
      BY <1>7, <1>9, <1>10, <3>1, <3>2
  <2>2. worker' # Critical!None => worker'.episode <= episode
    BY <1>13, CriticalNumbers DEF Critical!IInv, Critical!SpentInv
  <2>3. worker' # Critical!None /\ worker'.at \notin {"ok", "error"} => fired[worker'.episode] = 0
    BY <1>13 DEF Critical!IInv, Critical!SpentInv
  <2>4. \A e \in 1..CriticalEpisodes : e > episode => fired[e] = 0
    BY DEF Critical!IInv, Critical!SpentInv
  <2> QED
    BY <1>1, <1>8, <1>11, <2>1, <2>2, <2>3, <2>4 DEF Critical!SpentInv
<1>17. Critical!HaltInv'
  <2>1. Critical!Halting' <=> Critical!Halting
    BY <1>1 DEF Critical!Halting
  <2>2. Critical!Halting => engine'.latched \/ (engine'.deadline # "none" /\ engine'.token # token)
    BY <1>7 DEF Critical!IInv, Critical!HaltInv
  <2>3. quiet = episode => recovery'.attempted
    <3>1. quiet = episode => recovery.attempted /\ (engine.latched \/ step.token # token)
      BY <1>1 DEF Critical!IInv, Critical!HaltInv, Critical!Halting
    <3> QED
      BY <1>1, <1>4, <3>1
  <2>4. worker' # Critical!None /\ worker'.episode = quiet => worker'.token # token /\ worker'.at \notin {"call", "ok"}
    <3>1. worker' # worker /\ episode = quiet => engine.token # token
      BY <1>1, <1>10 DEF Critical!IInv, Critical!HaltInv, Critical!Halting
    <3> QED
      BY <1>13, <3>1 DEF Critical!IInv, Critical!HaltInv
  <2>5. quiet <= episode /\ (canceller # Critical!None => canceller.episode <= episode)
    BY DEF Critical!IInv, Critical!HaltInv
  <2> QED
    BY <1>1, <1>11, <2>1, <2>2, <2>3, <2>4, <2>5 DEF Critical!HaltInv
<1> QED
  BY <1>12, <1>14, <1>15, <1>16, <1>17 DEF Critical!IInv

-----------------------------------------------------------------------------
(* The worker.                                                                *)

\* The worker moves on: what it keeps, and what a step of it may change.
LEMMA CriticalWorkerMoves ==
  ASSUME Critical!ConstantsOK, Critical!IInv, worker # Critical!None, NEW at \in {"start", "setup", "last", "call", "ok", "error"},
         worker' = [worker EXCEPT !.at = at],
         worker.episode = quiet => at = "error",
         worker.at \in {"ok", "error"} => at \in {"ok", "error"},
         UNCHANGED <<battery, critPolicy, token, episode, quiet, engine, saved, recovery, step,
         canceller, critShown, fired, critSpent>>
  PROVE  Critical!IInv'
<1>1. /\ worker' \in Critical!WorkerType /\ worker'.episode = worker.episode /\ worker'.token = worker.token
      /\ worker'.at = at /\ worker' # Critical!None
  <2>1. worker \in Critical!WorkerType
    BY CriticalNumbers
  <2>2. worker' \in Critical!WorkerType /\ worker'.episode = worker.episode /\ worker'.token = worker.token /\ worker'.at = at
    BY <2>1 DEF Critical!WorkerType
  <2> QED
    BY <2>2 DEF Critical!WorkerType, Critical!None
<1>2. Critical!TypeOK'
  BY <1>1, CriticalTypesKnown, CriticalTypeFollows
<1>3. Critical!Safe'
  BY <1>1 DEF Critical!IInv, Critical!Safe, Critical!OnceAnEpisode, Critical!CancelHolds
<1>4. Critical!EngineInv'
  BY <1>1 DEF Critical!IInv, Critical!EngineInv
<1>5. Critical!SpentInv'
  <2>1. Critical!Spent' <=> Critical!Spent
    BY <1>1 DEF Critical!Spent
  <2> QED
    BY <1>1, <2>1 DEF Critical!IInv, Critical!SpentInv
<1>6. Critical!HaltInv'
  <2>1. Critical!Halting' <=> Critical!Halting
    BY DEF Critical!Halting
  <2> QED
    BY <1>1, <2>1 DEF Critical!IInv, Critical!HaltInv
<1> QED
  BY <1>2, <1>3, <1>4, <1>5, <1>6 DEF Critical!IInv

LEMMA CriticalWorkKeeps ==
  ASSUME Critical!ConstantsOK, Critical!IInv, Critical!Work \/ Critical!WorkFails
  PROVE  Critical!IInv'
<1>1. CASE Critical!Work
  <2> DEFINE at == IF ~Critical!validate THEN "error"
                   ELSE CASE worker.at = "start" -> "setup" [] worker.at = "setup" -> "last" [] OTHER -> "call"
  <2>1. worker # Critical!None /\ worker.at \in {"start", "setup", "last"} /\ worker' = [worker EXCEPT !.at = at]
    BY <1>1, CriticalNumbers DEF Critical!Work, Critical!WorkerType
  <2>2. at \in {"start", "setup", "last", "call", "ok", "error"}
    OBVIOUS
  <2>3. worker.episode = quiet => at = "error"
    <3>1. worker.episode = quiet => ~Critical!validate
      BY <2>1 DEF Critical!IInv, Critical!HaltInv, Critical!validate
    <3> QED
      BY <3>1
  <2>4. UNCHANGED <<battery, critPolicy, token, episode, quiet, engine, saved, recovery, step, canceller, critShown, fired, critSpent>>
    BY <1>1 DEF Critical!Work, Critical!Same
  <2> HIDE DEF at
  <2> QED
    BY <2>1, <2>2, <2>3, <2>4, CriticalWorkerMoves
<1>2. CASE Critical!WorkFails
  BY <1>2, CriticalWorkerMoves DEF Critical!WorkFails, Critical!Same
<1> QED
  BY <1>1, <1>2

LEMMA CriticalHibernateKeeps ==
  ASSUME Critical!ConstantsOK, Critical!IInv, Critical!Hibernate
  PROVE  Critical!IInv'
<1>1. PICK at \in {"ok", "error"} : worker' = [worker EXCEPT !.at = at]
  BY DEF Critical!Hibernate
<1>2. /\ worker # Critical!None /\ worker.at = "call" /\ fired' = [fired EXCEPT ![worker.episode] = @ + 1]
      /\ UNCHANGED <<battery, critPolicy, token, episode, quiet, engine, saved, recovery, step, canceller, critShown, critSpent>>
  BY DEF Critical!Hibernate, Critical!Same
<1>3. worker \in Critical!WorkerType /\ worker.episode \in 1..CriticalEpisodes /\ fired \in [1..CriticalEpisodes -> Nat]
  BY <1>2, CriticalNumbers, CriticalTypesKnown
<1>4. fired[worker.episode] = 0 /\ worker.episode # quiet /\ worker.episode <= episode
  BY <1>2 DEF Critical!IInv, Critical!SpentInv, Critical!HaltInv
<1>5. /\ worker' \in Critical!WorkerType /\ worker'.episode = worker.episode /\ worker'.token = worker.token
      /\ worker'.at \in {"ok", "error"}
  BY <1>1, <1>3 DEF Critical!WorkerType
<1>6. worker' # Critical!None
  BY <1>5 DEF Critical!WorkerType, Critical!None
<1>7. /\ fired' \in [1..CriticalEpisodes -> Nat] /\ fired'[worker.episode] = 1
      /\ \A e \in 1..CriticalEpisodes : e # worker.episode => fired'[e] = fired[e]
  BY <1>2, <1>3, <1>4
<1>8. Critical!TypeOK'
  BY <1>2, <1>5, <1>7, CriticalTypesKnown, CriticalTypeFollows
<1>9. Critical!Safe'
  BY <1>2, <1>4, <1>5, <1>7 DEF Critical!IInv, Critical!Safe, Critical!OnceAnEpisode,
     Critical!CancelHolds
<1>10. Critical!EngineInv'
  BY <1>2, <1>5 DEF Critical!IInv, Critical!EngineInv
<1>11. Critical!Spent' <=> Critical!Spent
  BY <1>2, <1>5, <1>6, <1>7, CriticalTypesKnown DEF Critical!Spent
<1>12. Critical!SpentInv'
  <2>1. \A e \in 1..CriticalEpisodes : e > episode => fired'[e] = 0
    BY <1>4, <1>7, CriticalNumbers DEF Critical!IInv, Critical!SpentInv
  <2> QED
    BY <1>2, <1>4, <1>5, <1>11, <2>1 DEF Critical!IInv, Critical!SpentInv
<1>13. Critical!HaltInv'
  <2>1. Critical!Halting' <=> Critical!Halting
    BY <1>2 DEF Critical!Halting
  <2> QED
    BY <1>2, <1>4, <1>5, <2>1 DEF Critical!IInv, Critical!HaltInv
<1> QED
  BY <1>8, <1>9, <1>10, <1>12, <1>13 DEF Critical!IInv

LEMMA CriticalJoinedKeeps ==
  ASSUME Critical!ConstantsOK, Critical!IInv, Critical!Joined
  PROVE  Critical!IInv'
<1> DEFINE ph == IF worker.at = "ok" THEN "accepted" ELSE "failed"
<1>1. /\ worker # Critical!None /\ step.at = "idle" /\ engine' = Critical!stop(engine, ph) /\ worker' = Critical!None /\ critShown' = engine'.phase
      /\ UNCHANGED <<battery, critPolicy, token, episode, quiet, saved, recovery, step, canceller, fired, critSpent>>
  BY DEF Critical!Joined, Critical!Same
<1>2. ph \in Critical!Phase /\ ph \notin {"countdown", "acting"}
  BY DEF Critical!Phase
<1> HIDE DEF ph
<1>3. /\ engine' \in Critical!EngineType /\ engine'.latched /\ engine'.deadline = "none" /\ engine'.phase = ph
      /\ engine'.token = engine.token
  BY <1>1, <1>2, CriticalStopIs, CriticalTypesKnown
<1>4. Critical!TypeOK'
  BY <1>1, <1>2, <1>3, CriticalTypesKnown, CriticalTypeFollows
<1>5. Critical!Safe'
  BY <1>1 DEF Critical!IInv, Critical!Safe, Critical!OnceAnEpisode, Critical!CancelHolds
<1>6. Critical!EngineInv'
  BY <1>1, <1>2, <1>3 DEF Critical!IInv, Critical!EngineInv
<1>7. Critical!SpentInv'
  BY <1>1, <1>3 DEF Critical!IInv, Critical!SpentInv, Critical!Spent
<1>8. Critical!HaltInv'
  <2>1. Critical!Halting' <=> Critical!Halting
    BY <1>1 DEF Critical!Halting
  <2> QED
    BY <1>1, <1>3, <2>1 DEF Critical!IInv, Critical!HaltInv
<1> QED
  BY <1>4, <1>5, <1>6, <1>7, <1>8 DEF Critical!IInv

\* An engine that cannot read its policy is latched like one that has acted.
LEMMA CriticalUnreadKeeps ==
  ASSUME Critical!ConstantsOK, Critical!IInv, Critical!Unread
  PROVE  Critical!IInv'
<1>1. /\ step.at = "idle" /\ engine' = Critical!stop(engine, "blocked") /\ critShown' = "blocked"
      /\ UNCHANGED <<battery, critPolicy, token, episode, quiet, saved, recovery, step, worker, canceller, fired>>
  BY DEF Critical!Unread, Critical!Same
<1>2. critSpent' \in 0..CriticalEnv /\ "blocked" \in Critical!Phase
  BY CriticalSpends DEF Critical!Unread, Critical!Phase
<1>3. /\ engine' \in Critical!EngineType /\ engine'.latched /\ engine'.deadline = "none" /\ engine'.phase = "blocked"
      /\ engine'.token = engine.token
  BY <1>1, <1>2, CriticalStopIs, CriticalTypesKnown
<1>4. Critical!TypeOK'
  BY <1>1, <1>2, <1>3, CriticalTypesKnown, CriticalTypeFollows
<1>5. Critical!Safe'
  BY <1>1 DEF Critical!IInv, Critical!Safe, Critical!OnceAnEpisode, Critical!CancelHolds
<1>6. Critical!EngineInv'
  BY <1>1, <1>3 DEF Critical!IInv, Critical!EngineInv
<1>7. Critical!SpentInv'
  BY <1>1, <1>3 DEF Critical!IInv, Critical!SpentInv, Critical!Spent
<1>8. Critical!HaltInv'
  <2>1. Critical!Halting' <=> Critical!Halting
    BY <1>1 DEF Critical!Halting
  <2> QED
    BY <1>1, <1>3, <2>1 DEF Critical!IInv, Critical!HaltInv
<1> QED
  BY <1>4, <1>5, <1>6, <1>7, <1>8 DEF Critical!IInv

-----------------------------------------------------------------------------
(* Cancellation and restarts.                                                 *)

\* A new token is ahead of every token that the engine, its step and the worker hold.
LEMMA CriticalCancelKeeps ==
  ASSUME Critical!ConstantsOK, Critical!IInv, Critical!Cancel
  PROVE  Critical!IInv'
<1> DEFINE ep == IF engine.phase \in {"countdown", "acting"} THEN episode ELSE 0
<1>1. /\ canceller = Critical!None /\ token < CriticalTokens /\ token' = token + 1
      /\ canceller' = [at |-> "loading", token |-> token + 1, policy |-> Critical!First, episode |-> ep]
      /\ UNCHANGED <<battery, critPolicy, engine, saved, recovery, step, worker, critShown, episode, fired, quiet, critSpent>>
  BY DEF Critical!Cancel
<1>2. token' \in 0..CriticalTokens /\ token' \in Nat /\ token' > token
  BY <1>1, CriticalNumbers, CriticalTypesKnown DEF Critical!ConstantsOK
<1>3. ep \in 0..CriticalEpisodes /\ ep \in Nat /\ ep <= episode
  BY CriticalNumbers, CriticalTypesKnown DEF Critical!ConstantsOK
<1>4. ep = episode => engine.phase \in {"countdown", "acting"}
  BY CriticalNumbers
<1> HIDE DEF ep
<1>5. canceller' \in Critical!CancelType /\ canceller'.episode = ep
  BY <1>1, <1>2, <1>3, CriticalFirstIs DEF Critical!CancelType
<1>6. Critical!TypeOK'
  BY <1>1, <1>2, <1>5, CriticalTypesKnown, CriticalTypeFollows
<1>7. Critical!Safe'
  BY <1>1 DEF Critical!IInv, Critical!Safe, Critical!OnceAnEpisode, Critical!CancelHolds
<1>8. engine.token # token' /\ step.token # token' /\ (worker # Critical!None => worker.token # token')
  BY <1>2, CriticalNumbers DEF Critical!IInv, Critical!EngineInv
<1>9. Critical!EngineInv'
  BY <1>1, <1>2, CriticalNumbers DEF Critical!IInv, Critical!EngineInv
<1>10. Critical!SpentInv'
  BY <1>1 DEF Critical!IInv, Critical!SpentInv, Critical!Spent
<1>11. Critical!HaltInv'
  <2>1. Critical!Halting' => engine.latched \/ engine.deadline # "none"
    <3>1. quiet = episode => engine.latched \/ engine.deadline # "none"
      BY DEF Critical!IInv, Critical!HaltInv, Critical!Halting
    <3>2. ep = episode => engine.latched \/ engine.deadline # "none"
      BY <1>4 DEF Critical!IInv, Critical!EngineInv
    <3> QED
      BY <1>1, <1>5, <3>1, <3>2 DEF Critical!Halting
  <2> QED
    BY <1>1, <1>3, <1>5, <1>8, <2>1 DEF Critical!IInv, Critical!HaltInv
<1> QED
  BY <1>6, <1>7, <1>9, <1>10, <1>11 DEF Critical!IInv

LEMMA CriticalCancelLoadsKeeps ==
  ASSUME Critical!ConstantsOK, Critical!IInv, Critical!CancelLoads
  PROVE  Critical!IInv'
<1>1. /\ canceller # Critical!None /\ canceller' = [canceller EXCEPT !.at = "saving", !.policy = critPolicy]
      /\ UNCHANGED <<battery, critPolicy, token, episode, quiet, engine, saved, recovery, step, worker, critShown, fired, critSpent>>
  BY DEF Critical!CancelLoads, Critical!Same
<1>2. canceller' \in Critical!CancelType /\ canceller'.episode = canceller.episode
  BY <1>1, CriticalNumbers, CriticalTypesKnown DEF Critical!CancelType
<1>3. Critical!TypeOK'
  BY <1>1, <1>2, CriticalTypesKnown, CriticalTypeFollows
<1>4. Critical!Safe'
  BY <1>1 DEF Critical!IInv, Critical!Safe, Critical!OnceAnEpisode, Critical!CancelHolds
<1>5. Critical!EngineInv'
  BY <1>1 DEF Critical!IInv, Critical!EngineInv
<1>6. Critical!SpentInv'
  BY <1>1 DEF Critical!IInv, Critical!SpentInv, Critical!Spent
<1>7. Critical!HaltInv'
  <2>1. Critical!Halting' => Critical!Halting
    BY <1>1, <1>2 DEF Critical!Halting
  <2> QED
    BY <1>1, <1>2, <2>1 DEF Critical!IInv, Critical!HaltInv
<1> QED
  BY <1>3, <1>4, <1>5, <1>6, <1>7 DEF Critical!IInv

\* The confirmed cancellation is on disk, and no action of the episode is under way.
LEMMA CriticalCancelSavesKeeps ==
  ASSUME Critical!ConstantsOK, Critical!IInv, Critical!CancelSaves
  PROVE  Critical!IInv'
<1>1. /\ canceller # Critical!None /\ canceller' = Critical!None
      /\ recovery' = Critical!persisted(canceller.policy, TRUE, canceller.token) /\ critShown' = "cancelled"
      /\ quiet' = IF canceller.episode = episode /\ worker = Critical!None THEN episode ELSE quiet
      /\ UNCHANGED <<battery, critPolicy, engine, saved, token, step, worker, episode, fired, critSpent>>
  BY DEF Critical!CancelSaves
<1>2. recovery' \in Critical!Recovery /\ recovery'.attempted
  BY <1>1, CriticalNumbers DEF Critical!persisted, Critical!Recovery, Critical!CancelType
<1>3. critShown' \in Critical!Phase /\ quiet' \in 0..CriticalEpisodes /\ quiet' <= episode
  BY <1>1, CriticalNumbers, CriticalTypesKnown DEF Critical!Phase, Critical!IInv, Critical!HaltInv
<1>4. Critical!TypeOK'
  BY <1>1, <1>2, <1>3, CriticalTypesKnown, CriticalTypeFollows
<1>5. worker # Critical!None => quiet' = quiet
  BY <1>1
<1>6. Critical!Safe'
  BY <1>1, <1>5 DEF Critical!IInv, Critical!Safe, Critical!OnceAnEpisode, Critical!CancelHolds
<1>7. Critical!EngineInv'
  BY <1>1 DEF Critical!IInv, Critical!EngineInv
<1>8. Critical!SpentInv'
  BY <1>1, <1>2 DEF Critical!IInv, Critical!SpentInv, Critical!Spent
<1>9. Critical!HaltInv'
  <2>1. Critical!Halting' => Critical!Halting
    BY <1>1 DEF Critical!Halting
  <2> QED
    BY <1>1, <1>2, <1>3, <1>5, <2>1 DEF Critical!IInv, Critical!HaltInv
<1> QED
  BY <1>4, <1>6, <1>7, <1>8, <1>9 DEF Critical!IInv

\* The file remembers the attempt or the cancellation of the episode.
LEMMA CriticalRestartKeeps ==
  ASSUME Critical!ConstantsOK, Critical!IInv, Critical!Restart
  PROVE  Critical!IInv'
<1>1. /\ critSpent' \in 0..CriticalEnv /\ engine' = Critical!Started(recovery) /\ saved' = recovery /\ token' = 0
      /\ step' = Critical!Idle /\ worker' = Critical!None /\ canceller' = Critical!None /\ critShown' = engine'.phase
      /\ UNCHANGED <<battery, critPolicy, recovery, episode, fired, quiet>>
  BY CriticalSpends DEF Critical!Restart
<1>2. /\ engine' \in Critical!EngineType /\ engine'.deadline = "none" /\ engine'.token = 0
      /\ (engine'.latched <=> recovery.attempted) /\ engine'.phase \in {"latched", "disabled"}
  BY <1>1, CriticalStartedIs, CriticalTypesKnown
<1>3. step' \in Critical!StepType /\ step'.at = "idle" /\ step'.token = 0
  BY <1>1, CriticalFirstIs
<1>4. 0 \in 0..CriticalTokens /\ {"latched", "disabled"} \subseteq Critical!Phase
  BY DEF Critical!ConstantsOK, Critical!Phase
<1>5. Critical!TypeOK'
  BY <1>1, <1>2, <1>3, <1>4, CriticalTypesKnown, CriticalTypeFollows
<1>6. Critical!Safe'
  BY <1>1 DEF Critical!IInv, Critical!Safe, Critical!OnceAnEpisode, Critical!CancelHolds
<1>7. Critical!EngineInv'
  BY <1>1, <1>2, <1>3 DEF Critical!EngineInv
<1>8. Critical!SpentInv'
  <2>1. Critical!Spent' => Critical!Spent
    BY <1>1 DEF Critical!Spent
  <2> QED
    BY <1>1, <1>2, <1>3, <2>1 DEF Critical!IInv, Critical!SpentInv
<1>9. Critical!HaltInv'
  <2>1. Critical!Halting' => recovery.attempted
    BY <1>1 DEF Critical!IInv, Critical!HaltInv, Critical!Halting
  <2> QED
    BY <1>1, <1>2, <1>3, <2>1 DEF Critical!IInv, Critical!HaltInv
<1> QED
  BY <1>5, <1>6, <1>7, <1>8, <1>9 DEF Critical!IInv

-----------------------------------------------------------------------------
LEMMA CriticalNextKeeps ==
  ASSUME Critical!ConstantsOK, Critical!IInv, [Critical!Next]_(Critical!vars)
  PROVE  Critical!IInv'
<1>1. CASE Critical!Next
  BY <1>1, CriticalSampleKeeps, CriticalObserveKeeps, CriticalWarnKeeps, CriticalPersistKeeps,
     CriticalGraceKeeps, CriticalWorkKeeps, CriticalHibernateKeeps,
     CriticalJoinedKeeps, CriticalCancelKeeps, CriticalCancelLoadsKeeps, CriticalCancelSavesKeeps,
     CriticalWorldKeeps, CriticalRestartKeeps, CriticalUnreadKeeps
  DEF Critical!Next, Critical!Refresh, Critical!Action
<1>2. CASE UNCHANGED Critical!vars
  BY <1>2, CriticalOutsideKeeps, CriticalTypesKnown DEF Critical!vars
<1> QED
  BY <1>1, <1>2

\* The engine, its recovery file and its worker keep their shapes; an episode is
\* hibernated for at most once, and no call is made after a confirmed cancellation,
\* for any number of cancellations, episodes, restarts and failures (critical.rs).
THEOREM CriticalBatterySafe ==
  ASSUME Critical!ConstantsOK
  PROVE  Critical!Spec => [](Critical!TypeOK /\ Critical!Safe)
<1>1. Critical!Init => Critical!IInv
  BY CriticalInitHolds
<1>2. Critical!IInv /\ [Critical!Next]_(Critical!vars) => Critical!IInv'
  BY CriticalNextKeeps
<1>3. Critical!IInv => Critical!TypeOK /\ Critical!Safe
  BY DEF Critical!IInv
<1> QED
  BY <1>1, <1>2, <1>3, PTL DEF Critical!Spec

HIDE DEF battery, critPolicy, engine, saved, recovery, token, step, worker, canceller, critShown, episode, fired, quiet, critSpent

-----------------------------------------------------------------------------
(* Sleep requests and the lid (SleepRequest).                                 *)

\* The variables of SleepRequest.
session == r1
tracker == r2
request == r3
lid == r4
lidPolicy == r5
calls == r6
override == r7
asked == r8
sleepSpent == r9
USE DEF session, tracker, request, lid, lidPolicy, calls, override, asked, sleepSpent

LEMMA SleepInitHolds == ASSUME Sleep!ConstantsOK, Sleep!Init PROVE Sleep!IInv
<1>1. 0 \in 0..SleepOps /\ 0 \in 0..SleepCloses /\ 0 \in 0..SleepEnv
  BY DEF Sleep!ConstantsOK
<1>2. lid \in Sleep!LidType
  BY <1>1 DEF Sleep!Init, Sleep!LidType, Sleep!Resting, Sleep!NoRetry, Sleep!LidRetry, Sleep!LidAction
<1>3. Sleep!TypeOK
  <2>1. tracker \in Sleep!TrackerType
    BY <1>1 DEF Sleep!Init, Sleep!TrackerType, Sleep!Phase
  <2>2. session \in Sleep!SessionType
    BY DEF Sleep!Init, Sleep!SessionType
  <2>3. calls \in Sleep!CallsType /\ asked \in [1..SleepCloses -> Nat]
    BY DEF Sleep!Init, Sleep!CallsType
  <2> QED
    BY <1>1, <1>2, <2>1, <2>2, <2>3 DEF Sleep!Init, Sleep!TypeOK, Sleep!LidType, Sleep!LidAction,
       Sleep!TrackerType, Sleep!Phase
<1>4. Sleep!Safe /\ Sleep!RequestInv
  <2>1. ~Sleep!Held /\ ~tracker.lease /\ ~tracker.timed
    BY DEF Sleep!Init, Sleep!Held
  <2>2. Sleep!OncePerClose
    <3>1. \A e \in 1..SleepCloses : asked[e] = 0
      BY DEF Sleep!Init
    <3> QED
      BY <3>1 DEF Sleep!OncePerClose
  <2>3. Sleep!RequestInv
    BY <2>1, Zenon DEF Sleep!RequestInv
  <2> QED
    BY <2>1, <2>2, <2>3, Zenon DEF Sleep!Safe, Sleep!KeepAwakeRespected, Sleep!DelayInForce,
       Sleep!LeaseOpen
<1>5. Sleep!CallsInv
  BY DEF Sleep!Init, Sleep!CallsInv
<1>6. Sleep!WorkerInv
  BY DEF Sleep!Init, Sleep!WorkerInv, Sleep!Held, Sleep!Resting, Sleep!NoRetry
<1> QED
  BY <1>3, <1>4, <1>5, <1>6 DEF Sleep!IInv

-----------------------------------------------------------------------------
(* The tracker's updates keep its shape and the lease.                        *)

\* What an update may do to the tracker once a request has sent its call, or while
\* a lock is asked for: the operation and its delay stay, a lease ends with it.
SleepTracked == /\ tracker' \in Sleep!TrackerType
                /\ tracker'.id = tracker.id /\ tracker'.timed = tracker.timed
                /\ tracker'.lease => tracker.lease /\ tracker'.phase \notin Sleep!Terminal
                /\ tracker.phase = "requested" /\ tracker.job = 0 /\ Sleep!Held /\ request' = request => tracker' = tracker

LEMMA SleepModifyType ==
  ASSUME Sleep!TypeOK, NEW p \in Sleep!Phase
  PROVE  /\ Sleep!modify(p) \in Sleep!TrackerType /\ Sleep!modify(p).id = tracker.id /\ Sleep!modify(p).timed = tracker.timed
         /\ Sleep!modify(p).lease => tracker.lease /\ Sleep!modify(p).phase \notin Sleep!Terminal
         /\ Sleep!modify(p).job = tracker.job /\ Sleep!modify(p).phase = p
BY DEF Sleep!TypeOK, Sleep!modify, Sleep!TrackerType, Sleep!Phase

LEMMA SleepSameTracked == ASSUME Sleep!IInv, tracker' = tracker PROVE SleepTracked
BY DEF Sleep!IInv, Sleep!TypeOK, Sleep!Safe, Sleep!LeaseOpen, SleepTracked, Sleep!TrackerType,
   Sleep!Phase

LEMMA SleepModifyTracked ==
  ASSUME Sleep!IInv, NEW p \in Sleep!Phase, tracker' = Sleep!modify(p), tracker.phase # "requested" \/ tracker.job # 0 \/ request' # request
  PROVE  SleepTracked
BY SleepModifyType DEF Sleep!IInv, SleepTracked

LEMMA SleepUpdatesTracked ==
  ASSUME Sleep!ConstantsOK, Sleep!IInv, NEW i \in Sleep!Ops, NEW b \in BOOLEAN,
         \/ tracker' = Sleep!prepared(b) \/ tracker' = Sleep!job_new(i) \/ tracker' = Sleep!job_removed(i, b) \/ tracker' = Sleep!lost_monitor
  PROVE  SleepTracked
<1> USE DEF Sleep!dispatched, Sleep!unfinished
<1>1. tracker \in Sleep!TrackerType
  BY DEF Sleep!IInv, Sleep!TypeOK, Sleep!TrackerType, Sleep!Phase
<1>0. i \in 1..SleepOps /\ i # 0 /\ i \in 0..SleepOps
  BY DEF Sleep!ConstantsOK, Sleep!Ops
<1>2. CASE tracker' = Sleep!prepared(b)
  <2>1. CASE tracker.phase \notin Sleep!dispatched
    BY <1>2, <2>1, SleepSameTracked DEF Sleep!prepared
  <2>2. CASE tracker.phase \in Sleep!dispatched
    <3>1. PICK p \in Sleep!Phase : tracker' = Sleep!modify(p)
      BY <1>2, <2>2 DEF Sleep!prepared, Sleep!Phase
    <3> QED
      BY <2>2, <3>1, SleepModifyTracked
  <2> QED
    BY <2>1, <2>2
<1>3. CASE tracker' = Sleep!job_removed(i, b)
  BY <1>0, <1>1, <1>3, SleepSameTracked, SleepModifyTracked DEF Sleep!job_removed, Sleep!Phase,
     Sleep!Terminal
<1>4. CASE tracker' = Sleep!lost_monitor
  BY <1>4, SleepSameTracked, SleepModifyTracked DEF Sleep!lost_monitor, Sleep!Phase, Sleep!Terminal
<1>5. CASE tracker' = Sleep!job_new(i) /\ tracker' # tracker
  <2>1. tracker' = [tracker EXCEPT !.job = i] /\ tracker.phase \in Sleep!dispatched
    BY <1>5 DEF Sleep!job_new
  <2> QED
    BY <1>0, <1>1, <2>1 DEF SleepTracked, Sleep!TrackerType, Sleep!IInv, Sleep!Safe, Sleep!LeaseOpen
<1> QED
  BY <1>2, <1>3, <1>4, <1>5, SleepSameTracked

LEMMA SleepEndsTracked ==
  ASSUME Sleep!IInv, Sleep!Held, request' = Sleep!None,
         \/ \E b \in BOOLEAN : tracker' = Sleep!failed(b)
         \/ tracker' = Sleep!cancelled
  PROVE  SleepTracked
<1>1. request' # request
  BY DEF Sleep!Held
<1>2. CASE \E b \in BOOLEAN : tracker' = Sleep!failed(b)
  BY <1>1, <1>2, SleepSameTracked, SleepModifyTracked DEF Sleep!failed, Sleep!Phase, Sleep!Terminal
<1>3. CASE tracker' = Sleep!cancelled
  BY <1>1, <1>3, SleepSameTracked, SleepModifyTracked DEF Sleep!cancelled, Sleep!Phase, Sleep!Terminal
<1> QED
  BY <1>2, <1>3

-----------------------------------------------------------------------------
(* What the steps have in common.                                             *)

SleepAsking == {"sent", "accepted", "announced"}
\* No call is sent, and none begins again.
SleepCallsOnward == /\ calls' \in Sleep!CallsType
                    /\ \A i \in Sleep!Ops : /\ calls[i] = "unsent" => calls'[i] = "unsent"
                                            /\ calls'[i] \in SleepAsking => calls[i] \in SleepAsking

LEMMA SleepSameCalls == ASSUME Sleep!IInv, calls' = calls PROVE SleepCallsOnward
BY DEF Sleep!IInv, Sleep!TypeOK, SleepCallsOnward, Sleep!CallsType

LEMMA SleepTrackerSide ==
  ASSUME Sleep!IInv, SleepTracked, SleepCallsOnward, override' = override
  PROVE  Sleep!CallsInv' /\ Sleep!DelayInForce' /\ Sleep!LeaseOpen'
<1>1. Sleep!CallsInv'
  BY DEF Sleep!IInv, Sleep!CallsInv, SleepTracked, SleepCallsOnward, SleepAsking
<1>2. Sleep!DelayInForce'
  BY <1>1 DEF Sleep!CallsInv, Sleep!DelayInForce, Sleep!Running
<1>3. Sleep!LeaseOpen'
  BY DEF Sleep!IInv, Sleep!Safe, Sleep!LeaseOpen, SleepTracked
<1> QED
  BY <1>1, <1>2, <1>3

\* The holder of SLEEP_ACTION is not at work.
LEMMA SleepRequestWaits ==
  ASSUME Sleep!ConstantsOK, Sleep!IInv, SleepTracked, SleepCallsOnward, request' = request, session'.inhibited = session.inhibited
  PROVE  Sleep!RequestInv' /\ Sleep!KeepAwakeRespected'
<1>1. Sleep!KeepAwakeRespected'
  BY DEF Sleep!IInv, Sleep!Safe, Sleep!KeepAwakeRespected, Sleep!Held
<1>2. ASSUME Sleep!Held PROVE Sleep!RequestInv'
  <2>1. tracker' \in Sleep!TrackerType /\ tracker \in Sleep!TrackerType
    BY DEF SleepTracked, Sleep!IInv, Sleep!TypeOK, Sleep!TrackerType, Sleep!Phase
  <2>2. CASE request.action # "lock" /\ request.pc \notin {"reply", "status"}
    <3>1. tracker' = tracker /\ tracker.id > 0 /\ calls[tracker.id] = "unsent"
      BY <1>2, <2>2 DEF Sleep!IInv, Sleep!RequestInv, SleepTracked
    <3>2. tracker.id \in Sleep!Ops
      BY <2>1, <3>1 DEF Sleep!TrackerType, Sleep!Ops, Sleep!ConstantsOK
    <3>3. calls'[tracker.id] = "unsent"
      BY <3>1, <3>2 DEF SleepCallsOnward
    <3> QED
      BY <1>2, <3>1, <3>3 DEF Sleep!IInv, Sleep!RequestInv, Sleep!Held
  <2>3. CASE request.action = "lock" \/ request.pc \in {"reply", "status"}
    BY <1>2, <2>1, <2>3 DEF Sleep!IInv, Sleep!RequestInv, Sleep!Held, SleepTracked
  <2> QED
    BY <2>2, <2>3
<1> QED
  BY <1>1, <1>2 DEF Sleep!RequestInv, Sleep!Held

\* The request has ended.
LEMMA SleepNoRequest == ASSUME request' = Sleep!None PROVE Sleep!RequestInv' /\ Sleep!KeepAwakeRespected'
BY DEF Sleep!RequestInv, Sleep!KeepAwakeRespected, Sleep!Held

LEMMA SleepLidWaits ==
  ASSUME Sleep!IInv, request' = request, lid' = lid, asked' = asked
  PROVE  Sleep!WorkerInv' /\ Sleep!OncePerClose'
BY DEF Sleep!IInv, Sleep!Safe, Sleep!WorkerInv, Sleep!OncePerClose, Sleep!Held

LEMMA SleepTypeFollows ==
  ASSUME session' \in Sleep!SessionType, tracker' \in Sleep!TrackerType, request' \in Sleep!Request \cup {Sleep!None},
         lid' \in Sleep!LidType, lidPolicy' \in Sleep!LidAction, calls' \in Sleep!CallsType,
         override' \in {"none", "leased", "closing"}, asked' \in [1..SleepCloses -> Nat], sleepSpent' \in 0..SleepEnv
  PROVE  Sleep!TypeOK'
BY DEF Sleep!TypeOK, Sleep!SessionType, Sleep!TrackerType, Sleep!LidType, Sleep!CallsType, Sleep!Phase

LEMMA SleepTypesKnown ==
  ASSUME Sleep!IInv
  PROVE  /\ session \in Sleep!SessionType /\ tracker \in Sleep!TrackerType /\ request \in Sleep!Request \cup {Sleep!None}
         /\ lid \in Sleep!LidType /\ lidPolicy \in Sleep!LidAction /\ calls \in Sleep!CallsType
         /\ override \in {"none", "leased", "closing"} /\ asked \in [1..SleepCloses -> Nat] /\ sleepSpent \in 0..SleepEnv
BY DEF Sleep!IInv, Sleep!TypeOK, Sleep!SessionType, Sleep!TrackerType, Sleep!LidType,
   Sleep!CallsType, Sleep!Phase

\* Neither the request nor the lid takes part.
LEMMA SleepWorldKeeps ==
  ASSUME Sleep!ConstantsOK, Sleep!IInv, SleepTracked, SleepCallsOnward, UNCHANGED <<request, lid,
  lidPolicy, override, asked>>,
         session' \in Sleep!SessionType, session'.inhibited = session.inhibited, sleepSpent' \in 0..SleepEnv
  PROVE  Sleep!IInv'
<1>1. Sleep!TypeOK'
  BY SleepTypeFollows, SleepTypesKnown DEF SleepTracked, SleepCallsOnward
<1> QED
  BY <1>1, SleepTrackerSide, SleepRequestWaits, SleepLidWaits DEF Sleep!IInv, Sleep!Safe

-----------------------------------------------------------------------------
(* logind, the monitor, the user and the helper.                              *)

LEMMA SleepExpireKeeps == ASSUME Sleep!ConstantsOK, Sleep!IInv, Sleep!Expire PROVE Sleep!IInv'
<1>1. SleepTracked
  <2>1. tracker.phase \in Sleep!dispatched /\ tracker' = Sleep!modify("unknown")
    BY DEF Sleep!Expire, Sleep!lost_monitor
  <2>2. tracker.phase # "requested" /\ "unknown" \in Sleep!Phase
    BY <2>1 DEF Sleep!dispatched, Sleep!Phase, Sleep!Terminal
  <2> QED
    BY <2>1, <2>2, SleepModifyTracked
<1> QED
  BY <1>1, SleepWorldKeeps, SleepSameCalls, SleepTypesKnown DEF Sleep!Expire, Sleep!Monitored

LEMMA SleepCallMoves ==
  ASSUME Sleep!ConstantsOK, Sleep!IInv, NEW i \in Sleep!Ops, NEW to \in {"accepted", "announced", "over"},
         calls[i] \in SleepAsking, calls' = [calls EXCEPT ![i] = to]
  PROVE  SleepCallsOnward
<1>1. calls \in Sleep!CallsType /\ calls' \in Sleep!CallsType
  BY SleepTypesKnown DEF Sleep!CallsType
<1> QED
  BY <1>1 DEF SleepCallsOnward, Sleep!CallsType, SleepAsking

LEMMA SleepAcceptKeeps ==
  ASSUME Sleep!ConstantsOK, Sleep!IInv, NEW i \in Sleep!Ops, Sleep!Accept(i)
  PROVE  Sleep!IInv'
<1>1. SleepTracked
  BY SleepUpdatesTracked DEF Sleep!Accept
<1>2. SleepCallsOnward
  BY SleepCallMoves DEF Sleep!Accept, SleepAsking
<1>3. session' \in Sleep!SessionType /\ session'.inhibited = session.inhibited
  BY SleepTypesKnown DEF Sleep!Accept, Sleep!SessionType
<1> QED
  BY <1>1, <1>2, <1>3, SleepWorldKeeps, SleepTypesKnown DEF Sleep!Accept

LEMMA SleepAnnounceKeeps ==
  ASSUME Sleep!ConstantsOK, Sleep!IInv, NEW i \in Sleep!Ops, NEW h \in BOOLEAN, Sleep!Announce(i, h)
  PROVE  Sleep!IInv'
<1>1. SleepTracked
  <2>1. tracker' = tracker \/ tracker' = Sleep!job_new(i)
    BY DEF Sleep!Announce
  <2> QED
    BY <2>1, SleepUpdatesTracked, SleepSameTracked
<1>2. SleepCallsOnward
  BY SleepCallMoves DEF Sleep!Announce, SleepAsking
<1> QED
  BY <1>1, <1>2, SleepWorldKeeps, SleepTypesKnown DEF Sleep!Announce, Sleep!Monitored

LEMMA SleepFinishedKeeps ==
  ASSUME Sleep!ConstantsOK, Sleep!IInv, NEW i \in Sleep!Ops, NEW h \in BOOLEAN, NEW d \in BOOLEAN, Sleep!Finished(i, h, d) PROVE Sleep!IInv'
<1>1. SleepTracked
  <2>1. tracker' = tracker \/ tracker' = Sleep!job_removed(i, d)
    BY DEF Sleep!Finished
  <2> QED
    BY <2>1, SleepUpdatesTracked, SleepSameTracked
<1>2. SleepCallsOnward
  BY SleepCallMoves DEF Sleep!Finished, SleepAsking
<1> QED
  BY <1>1, <1>2, SleepWorldKeeps, SleepTypesKnown DEF Sleep!Finished, Sleep!Monitored

LEMMA SleepResumeKeeps == ASSUME Sleep!ConstantsOK, Sleep!IInv, Sleep!Resume PROVE Sleep!IInv'
<1>1. SleepTracked
  <2>1. CASE tracker.phase \notin Sleep!dispatched
    BY <2>1, SleepSameTracked DEF Sleep!Resume, Sleep!prepared
  <2>2. CASE tracker.phase \in Sleep!dispatched
    <3>1. tracker' = Sleep!modify("returned") /\ tracker.phase # "requested" /\ "returned" \in Sleep!Phase
      BY <2>2 DEF Sleep!Resume, Sleep!prepared, Sleep!dispatched, Sleep!Phase
    <3> QED
      BY <3>1, SleepModifyTracked
  <2> QED
    BY <2>1, <2>2
<1>2. session' \in Sleep!SessionType /\ session'.inhibited = session.inhibited
  BY SleepTypesKnown DEF Sleep!Resume, Sleep!SessionType
<1> QED
  BY <1>1, <1>2, SleepWorldKeeps, SleepSameCalls, SleepTypesKnown DEF Sleep!Resume

LEMMA SleepSpends ==
  ASSUME Sleep!ConstantsOK, Sleep!IInv, sleepSpent < SleepEnv, sleepSpent' = sleepSpent + 1
  PROVE  sleepSpent' \in 0..SleepEnv
BY SleepTypesKnown DEF Sleep!ConstantsOK

LEMMA SleepUserActsKeeps == ASSUME Sleep!ConstantsOK, Sleep!IInv, Sleep!UserActs PROVE Sleep!IInv'
<1>1. PICK field \in {"locked", "active", "closed", "docked"} : session' = [session EXCEPT ![field] = ~@]
  BY DEF Sleep!UserActs
<1>2. session' \in Sleep!SessionType /\ session'.inhibited = session.inhibited
  BY <1>1, SleepTypesKnown DEF Sleep!SessionType
<1>3. SleepTracked /\ SleepCallsOnward
  BY SleepSameTracked, SleepSameCalls DEF Sleep!UserActs
<1> QED
  BY <1>2, <1>3, SleepWorldKeeps, SleepSpends DEF Sleep!UserActs

LEMMA SleepKeepAwakeKeeps ==
  ASSUME Sleep!ConstantsOK, Sleep!IInv, NEW on \in BOOLEAN, Sleep!KeepAwake(on)
  PROVE  Sleep!IInv'
<1>1. session' \in Sleep!SessionType
  BY SleepTypesKnown DEF Sleep!KeepAwake, Sleep!SessionType
<1>2. SleepTracked /\ SleepCallsOnward
  BY SleepSameTracked, SleepSameCalls DEF Sleep!KeepAwake
<1>3. Sleep!TypeOK'
  BY <1>1, SleepTypeFollows, SleepTypesKnown, SleepSpends DEF Sleep!KeepAwake
<1>4. Sleep!RequestInv' /\ Sleep!KeepAwakeRespected'
  BY SleepNoRequest DEF Sleep!KeepAwake, Sleep!Held
<1> QED
  BY <1>2, <1>3, <1>4, SleepTrackerSide, SleepLidWaits DEF Sleep!KeepAwake, Sleep!IInv, Sleep!Safe

LEMMA SleepSetPolicyKeeps == ASSUME Sleep!ConstantsOK, Sleep!IInv, Sleep!SetPolicy PROVE Sleep!IInv'
<1>1. SleepTracked /\ SleepCallsOnward
  BY SleepSameTracked, SleepSameCalls DEF Sleep!SetPolicy
<1>2. Sleep!TypeOK'
  BY SleepTypeFollows, SleepTypesKnown, SleepSpends DEF Sleep!SetPolicy, Sleep!ConstantsOK
<1> QED
  BY <1>1, <1>2, SleepTrackerSide, SleepRequestWaits, SleepLidWaits DEF Sleep!SetPolicy, Sleep!IInv,
     Sleep!Safe

LEMMA SleepHelperKeeps ==
  ASSUME Sleep!ConstantsOK, Sleep!IInv, Sleep!LeaseEnds \/ Sleep!Restore
  PROVE  Sleep!IInv'
<1>1. UNCHANGED <<session, tracker, request, lid, calls, lidPolicy, asked, sleepSpent>>
  BY DEF Sleep!LeaseEnds, Sleep!Restore, Sleep!Untouched
<1>2. SleepTracked /\ SleepCallsOnward
  BY <1>1, SleepSameTracked, SleepSameCalls
<1>3. Sleep!TypeOK'
  BY <1>1, SleepTypeFollows, SleepTypesKnown DEF Sleep!LeaseEnds, Sleep!Restore
<1>4. Sleep!LeaseOpen'
  BY <1>1 DEF Sleep!IInv, Sleep!Safe, Sleep!LeaseOpen, Sleep!LeaseEnds, Sleep!Restore
<1>5. Sleep!CallsInv'
  <2>1. \A i \in Sleep!Ops : calls[i] \in {"sent", "accepted", "announced"} => override' # "none"
    BY DEF Sleep!LeaseEnds, Sleep!Restore, Sleep!safe_to_restore, Sleep!Asleep, Sleep!Running
  <2> QED
    BY <1>1, <2>1 DEF Sleep!IInv, Sleep!CallsInv
<1>6. Sleep!DelayInForce'
  BY <1>5 DEF Sleep!CallsInv, Sleep!DelayInForce, Sleep!Running
<1> QED
  BY <1>1, <1>2, <1>3, <1>4, <1>5, <1>6, SleepRequestWaits, SleepLidWaits DEF Sleep!IInv, Sleep!Safe

-----------------------------------------------------------------------------
(* The request up to its call.                                                *)

SleepPC == {"check", "lock", "setup", "recheck", "validate", "final", "call", "reply", "status"}
\* The request goes on to `to'.
SleepMoves(to) == Sleep!Held /\ request' = [request EXCEPT !.pc = to] /\ UNCHANGED <<lid, lidPolicy, sleepSpent>>

LEMMA SleepMovesTo ==
  ASSUME Sleep!IInv, NEW to \in SleepPC, SleepMoves(to)
  PROVE  /\ request \in Sleep!Request /\ request' \in Sleep!Request /\ request' # Sleep!None /\ Sleep!Held'
         /\ request'.who = request.who /\ request'.action = request.action /\ request'.pc = to
<1>1. request \in Sleep!Request
  BY SleepTypesKnown DEF SleepMoves, Sleep!Held
<1>2. /\ request' \in Sleep!Request /\ request'.who = request.who
      /\ request'.action = request.action /\ request'.pc = to
  BY <1>1 DEF SleepMoves, Sleep!Request, SleepPC
<1>3. \A x \in Sleep!Request : x # Sleep!None
  BY DEF Sleep!Request, Sleep!None
<1> QED
  BY <1>1, <1>2, <1>3 DEF Sleep!Held

\* A step of the request that sends nothing does not disturb the lid's books.
LEMMA SleepMovesLid ==
  ASSUME Sleep!IInv, NEW to \in SleepPC, SleepMoves(to), asked' = asked,
         request.pc \in {"reply", "status"} => to \in {"reply", "status"}
  PROVE  Sleep!WorkerInv' /\ Sleep!OncePerClose'
<1>1. /\ Sleep!Held /\ Sleep!Held' /\ request'.who = request.who /\ request'.pc = to
      /\ lid' = lid
  BY SleepMovesTo DEF SleepMoves
<1> QED
  BY <1>1 DEF Sleep!IInv, Sleep!Safe, Sleep!WorkerInv, Sleep!OncePerClose

LEMMA SleepAdvances ==
  ASSUME Sleep!ConstantsOK, Sleep!IInv, NEW to \in SleepPC, SleepMoves(to), UNCHANGED <<tracker, calls, override, asked>>,
         session' \in Sleep!SessionType, session'.inhibited = session.inhibited,
         request.pc \notin {"reply", "status"},
         IF request.action = "lock" THEN to \in {"lock", "status"} ELSE to \notin {"reply", "status"},
         to \in {"recheck", "validate", "final", "call"} => request.pc \in {"recheck", "validate", "final"},
         to \in {"validate", "final", "call"} => ~session.inhibited
  PROVE  Sleep!IInv'
<1>1. SleepTracked /\ SleepCallsOnward
  BY SleepSameTracked, SleepSameCalls
<1>2. Sleep!TypeOK'
  BY SleepMovesTo, SleepTypeFollows, SleepTypesKnown DEF SleepMoves
<1>3. /\ Sleep!Held /\ request'.action = request.action /\ request'.pc = to
  BY SleepMovesTo DEF SleepMoves
<1>4. Sleep!KeepAwakeRespected'
  BY <1>3 DEF Sleep!KeepAwakeRespected
<1>5. Sleep!RequestInv'
  BY <1>3 DEF Sleep!IInv, Sleep!RequestInv
<1> QED
  BY <1>1, <1>2, <1>4, <1>5, SleepTrackerSide, SleepMovesLid DEF Sleep!IInv, Sleep!Safe

LEMMA SleepPassesKeeps ==
  ASSUME Sleep!ConstantsOK, Sleep!IInv, Sleep!Check \/ Sleep!Recheck \/ Sleep!Validate \/ Sleep!Final
  PROVE  Sleep!IInv'
<1> USE SleepTypesKnown DEF Sleep!Passes, Sleep!At, Sleep!Goto, Sleep!Untouched, SleepMoves, SleepPC
<1>1. CASE Sleep!Check
  BY <1>1, SleepAdvances DEF Sleep!Check, Sleep!IInv, Sleep!RequestInv
<1>2. CASE Sleep!Recheck
  <2>1. request.action # "lock"
    BY <1>2 DEF Sleep!Recheck, Sleep!IInv, Sleep!RequestInv
  <2> QED
    BY <1>2, <2>1, SleepAdvances DEF Sleep!Recheck
<1>3. CASE Sleep!Validate
  <2>1. request.action # "lock" /\ ~session.inhibited
    BY <1>3 DEF Sleep!Validate, Sleep!IInv, Sleep!RequestInv, Sleep!Safe, Sleep!KeepAwakeRespected
  <2> QED
    BY <1>3, <2>1, SleepAdvances DEF Sleep!Validate
<1>4. CASE Sleep!Final
  <2>1. request.action # "lock" /\ ~session.inhibited
    BY <1>4 DEF Sleep!Final, Sleep!IInv, Sleep!RequestInv, Sleep!Safe, Sleep!KeepAwakeRespected
  <2> QED
    BY <1>4, <2>1, SleepAdvances DEF Sleep!Final
<1> QED
  BY <1>1, <1>2, <1>3, <1>4

LEMMA SleepLockKeeps == ASSUME Sleep!ConstantsOK, Sleep!IInv, Sleep!Lock PROVE Sleep!IInv'
<1> DEFINE to == IF request.action = "lock" THEN "status" ELSE "setup"
<1>1. to \in SleepPC /\ SleepMoves(to) /\ UNCHANGED <<tracker, calls, override, asked>> /\ request.pc = "lock"
  BY DEF Sleep!Lock, Sleep!At, Sleep!Goto, Sleep!Untouched, SleepMoves, SleepPC
<1>2. session' \in Sleep!SessionType /\ session'.inhibited = session.inhibited
  BY SleepTypesKnown DEF Sleep!Lock, Sleep!SessionType
<1>3. IF request.action = "lock" THEN to \in {"lock", "status"} ELSE to \notin {"reply", "status"}
  OBVIOUS
<1>4. to \notin {"recheck", "validate", "final", "call"}
  OBVIOUS
<1> HIDE DEF to
<1> QED
  BY <1>1, <1>2, <1>3, <1>4, SleepAdvances

LEMMA SleepSetupKeeps == ASSUME Sleep!ConstantsOK, Sleep!IInv, Sleep!Setup PROVE Sleep!IInv'
<1>1. SleepMoves("recheck") /\ UNCHANGED <<session, calls, asked>> /\ request.pc = "setup" /\ "recheck" \in SleepPC
  BY DEF Sleep!Setup, Sleep!At, Sleep!Goto, Sleep!Untouched, SleepMoves, SleepPC
<1>2. Sleep!Held /\ request'.action = request.action /\ request'.pc = "recheck" /\ request.action # "lock"
  BY <1>1, SleepMovesTo DEF SleepMoves, Sleep!Setup
<1>3. SleepCallsOnward
  BY <1>1, SleepSameCalls
<1>4. CASE request.action = "suspend" /\ UNCHANGED <<tracker, override>>
  <2>1. SleepTracked
    BY <1>4, SleepSameTracked
  <2>2. Sleep!TypeOK'
    BY <1>1, <1>4, SleepMovesTo, SleepTypeFollows, SleepTypesKnown DEF SleepMoves
  <2>3. Sleep!KeepAwakeRespected' /\ Sleep!RequestInv'
    BY <1>1, <1>2, <1>4 DEF Sleep!KeepAwakeRespected, Sleep!IInv, Sleep!RequestInv
  <2> QED
    BY <1>1, <1>3, <1>4, <2>1, <2>2, <2>3, SleepTrackerSide, SleepMovesLid DEF Sleep!IInv, Sleep!Safe
<1>5. CASE /\ request.action = "timed" /\ override = "none" /\ override' = "leased"
           /\ tracker' = [tracker EXCEPT !.lease = TRUE]
  <2>1. /\ tracker' \in Sleep!TrackerType /\ tracker'.id = tracker.id /\ tracker'.timed = tracker.timed
        /\ tracker'.phase = tracker.phase /\ tracker'.job = tracker.job /\ tracker'.lease
    BY <1>5, SleepTypesKnown DEF Sleep!TrackerType
  <2>2. Sleep!TypeOK'
    BY <1>1, <1>5, <2>1, SleepMovesTo, SleepTypeFollows, SleepTypesKnown DEF SleepMoves
  <2>3. tracker.phase = "requested"
    BY <1>1, <1>2 DEF Sleep!IInv, Sleep!RequestInv
  <2>4. Sleep!KeepAwakeRespected' /\ Sleep!RequestInv'
    BY <1>1, <1>2, <1>5, <2>1 DEF Sleep!KeepAwakeRespected, Sleep!IInv, Sleep!RequestInv
  <2>5. Sleep!LeaseOpen'
    BY <1>5, <2>1, <2>3 DEF Sleep!LeaseOpen, Sleep!Terminal
  <2>6. Sleep!CallsInv' /\ Sleep!DelayInForce'
    BY <1>1, <1>5, <2>1 DEF Sleep!IInv, Sleep!CallsInv, Sleep!DelayInForce
  <2> QED
    BY <1>1, <2>2, <2>4, <2>5, <2>6, SleepMovesLid DEF Sleep!IInv, Sleep!Safe
<1> QED
  BY <1>4, <1>5 DEF Sleep!Setup

LEMMA SleepDispatchKeeps == ASSUME Sleep!ConstantsOK, Sleep!IInv, Sleep!Dispatch PROVE Sleep!IInv'
<1>1. SleepMoves("reply") /\ UNCHANGED <<session, override>> /\ request.pc = "call" /\ "reply" \in SleepPC
  BY DEF Sleep!Dispatch, Sleep!At, Sleep!Goto, SleepMoves, SleepPC
<1>2. /\ Sleep!Held /\ Sleep!Held' /\ request' \in Sleep!Request /\ request'.action = request.action /\ request'.pc = "reply"
      /\ request'.who = request.who /\ request.action # "lock"
  BY <1>1, SleepMovesTo DEF SleepMoves, Sleep!IInv, Sleep!RequestInv
<1>3. /\ tracker' \in Sleep!TrackerType /\ tracker'.id = tracker.id /\ tracker'.timed = tracker.timed
      /\ tracker'.lease => tracker.lease /\ tracker'.phase \notin Sleep!Terminal
  BY SleepModifyType DEF Sleep!Dispatch, Sleep!IInv, Sleep!Phase, Sleep!dispatched
<1>4. tracker.id \in Sleep!Ops
  BY <1>1, <1>2, SleepTypesKnown DEF Sleep!IInv, Sleep!RequestInv, Sleep!TrackerType, Sleep!Ops,
     Sleep!ConstantsOK
<1>5. calls' = [calls EXCEPT ![tracker.id] = "sent"] /\ calls' \in Sleep!CallsType
  BY <1>4, SleepTypesKnown DEF Sleep!Dispatch, Sleep!CallsType
<1>6. request.action = "timed" => override # "none"
  BY <1>1, <1>2 DEF Sleep!IInv, Sleep!RequestInv, Sleep!Safe, Sleep!LeaseOpen
<1>7. Sleep!CallsInv'
  <2>1. ASSUME NEW i \in Sleep!Ops, i > tracker'.id PROVE calls'[i] = "unsent"
    BY <1>3, <1>4, <1>5, <2>1, SleepTypesKnown DEF Sleep!IInv, Sleep!CallsInv, Sleep!CallsType,
       Sleep!Ops, Sleep!ConstantsOK
  <2>2. tracker'.timed => override' # "none"
    BY <1>1, <1>2, <1>3, <1>6 DEF Sleep!IInv, Sleep!RequestInv
  <2> QED
    BY <2>1, <2>2 DEF Sleep!CallsInv
<1>8. Sleep!DelayInForce' /\ Sleep!LeaseOpen'
  BY <1>1, <1>3, <1>7 DEF Sleep!CallsInv, Sleep!DelayInForce, Sleep!Running, Sleep!LeaseOpen,
     Sleep!IInv, Sleep!Safe
<1>9. Sleep!KeepAwakeRespected' /\ Sleep!RequestInv'
  BY <1>1, <1>2, <1>3 DEF Sleep!KeepAwakeRespected, Sleep!IInv, Sleep!RequestInv
<1>10. Sleep!WorkerInv' /\ Sleep!OncePerClose' /\ asked' \in [1..SleepCloses -> Nat]
  <2>1. CASE request.who # "lid"
    <3>1. asked' = asked
      BY <2>1 DEF Sleep!Dispatch
    <3> QED
      BY <1>1, <3>1, SleepMovesLid, SleepTypesKnown
  <2>2. CASE request.who = "lid"
    <3>1. /\ lid' = lid /\ lid.worker # Sleep!None /\ lid.worker.at = "running" /\ lid.worker \in Sleep!Worker
          /\ lid.worker.close = lid.retry.close /\ asked[lid.worker.close] = 0 /\ ~lid.retry.due
      BY <1>1, <1>2, <2>2, SleepTypesKnown DEF Sleep!IInv, Sleep!WorkerInv, SleepMoves, Sleep!LidType
    <3> DEFINE c == lid.worker.close
    <3>2. c \in 1..SleepCloses
      BY <3>1 DEF Sleep!Worker
    <3>3. asked' = [asked EXCEPT ![c] = asked[c] + 1]
      BY <2>2 DEF Sleep!Dispatch
    <3>4. asked' \in [1..SleepCloses -> Nat] /\ asked'[c] = 1 /\ \A e \in 1..SleepCloses : e # c => asked'[e] = asked[e]
      BY <3>1, <3>2, <3>3, SleepTypesKnown
    <3>5. Sleep!OncePerClose'
      BY <3>4 DEF Sleep!IInv, Sleep!Safe, Sleep!OncePerClose
    <3>6. \A e \in 1..SleepCloses : e > lid.retry.close => asked'[e] = 0
      BY <3>1, <3>2, <3>4 DEF Sleep!IInv, Sleep!WorkerInv, Sleep!ConstantsOK
    <3> HIDE DEF c
    <3>7. Sleep!WorkerInv'
      BY <1>2, <2>2, <3>1, <3>6 DEF Sleep!IInv, Sleep!WorkerInv
    <3> QED
      BY <3>4, <3>5, <3>7
  <2> QED
    BY <2>1, <2>2
<1>11. Sleep!TypeOK'
  BY <1>1, <1>2, <1>3, <1>5, <1>10, SleepTypeFollows, SleepTypesKnown DEF SleepMoves
<1> QED
  BY <1>7, <1>8, <1>9, <1>10, <1>11 DEF Sleep!IInv, Sleep!Safe

-----------------------------------------------------------------------------
(* The request's end.                                                         *)

\* The worker's report, in the lid's books.
SleepReported(result, proof) == [lid EXCEPT !.worker.at = result, !.worker.proof = proof]

LEMMA SleepReportedIs ==
  ASSUME Sleep!IInv, lid.worker # Sleep!None, NEW result \in {"queued", "checked", "running", "ok", "retryable", "cancelled", "failed"},
         NEW proof \in 0..SleepOps
  PROVE  /\ SleepReported(result, proof) \in Sleep!LidType /\ SleepReported(result, proof).retry = lid.retry
         /\ SleepReported(result, proof).worker \in Sleep!Worker /\ SleepReported(result, proof).worker # Sleep!None
         /\ SleepReported(result, proof).worker.at = result
         /\ SleepReported(result, proof).worker.action = lid.worker.action
         /\ SleepReported(result, proof).worker.close = lid.worker.close
<1>1. lid \in Sleep!LidType /\ lid.worker \in Sleep!Worker
  BY SleepTypesKnown DEF Sleep!LidType
<1> DEFINE w == [lid.worker EXCEPT !.at = result, !.proof = proof]
<1>2. w \in Sleep!Worker /\ w.at = result /\ w.action = lid.worker.action /\ w.close = lid.worker.close
  BY <1>1 DEF Sleep!Worker
<1>3. \A x \in Sleep!Worker : x # Sleep!None
  BY DEF Sleep!Worker, Sleep!None
<1>4. SleepReported(result, proof) = [lid EXCEPT !.worker = w]
  BY <1>1 DEF SleepReported, Sleep!LidType
<1> HIDE DEF w
<1>5. [lid EXCEPT !.worker = w] \in Sleep!LidType /\ [lid EXCEPT !.worker = w].retry = lid.retry /\ [lid EXCEPT !.worker = w].worker = w
  BY <1>1, <1>2 DEF Sleep!LidType
<1> QED
  BY <1>2, <1>3, <1>4, <1>5 DEF w

\* A request ends, and the worker whose it was gets its result.
LEMMA SleepReturnLid ==
  ASSUME Sleep!ConstantsOK, Sleep!IInv, Sleep!Held, NEW result \in {"ok", "retryable", "cancelled", "failed"}, Sleep!Return(result),
         tracker' \in Sleep!TrackerType, asked' = asked,
         result \in {"retryable", "cancelled"} => request.pc \notin {"reply", "status"}
  PROVE  lid' \in Sleep!LidType /\ Sleep!WorkerInv' /\ Sleep!OncePerClose'
<1>1. Sleep!OncePerClose' /\ ~Sleep!Held' /\ request' = Sleep!None
  BY DEF Sleep!IInv, Sleep!Safe, Sleep!OncePerClose, Sleep!Return, Sleep!Held
<1>2. CASE request.who # "lid"
  <2>1. lid' = lid
    BY <1>2 DEF Sleep!Return
  <2>2. ~(lid.worker # Sleep!None /\ lid.worker.at = "running")
    BY <1>2 DEF Sleep!IInv, Sleep!WorkerInv
  <2> QED
    BY <1>1, <2>1, <2>2, SleepTypesKnown DEF Sleep!IInv, Sleep!WorkerInv
<1>3. CASE request.who = "lid"
  <2> DEFINE new == SleepReported(result, tracker'.id)
  <2>1. lid' = new
    BY <1>3 DEF Sleep!Return, SleepReported
  <2>2. lid.worker # Sleep!None /\ lid.worker.at = "running"
    BY <1>3 DEF Sleep!IInv, Sleep!WorkerInv
  <2>3. /\ tracker'.id \in 0..SleepOps
        /\ result \in {"queued", "checked", "running", "ok", "retryable", "cancelled", "failed"}
    BY DEF Sleep!TrackerType
  <2>4. /\ new \in Sleep!LidType /\ new.retry = lid.retry /\ new.worker # Sleep!None /\ new.worker.at = result
        /\ new.worker.action = lid.worker.action /\ new.worker.close = lid.worker.close
    BY <2>2, <2>3, SleepReportedIs
  <2> HIDE DEF new
  <2>5. result \in {"ok", "failed"} \/ asked[lid.worker.close] = 0
    BY <2>2 DEF Sleep!IInv, Sleep!WorkerInv
  <2>6. /\ lid.worker.close = lid.retry.close /\ ~lid.retry.due /\ lid.worker.action # "system"
        /\ \A e \in 1..SleepCloses : e > lid.retry.close => asked[e] = 0
    BY <2>2 DEF Sleep!IInv, Sleep!WorkerInv
  <2> QED
    BY <1>1, <2>1, <2>4, <2>5, <2>6 DEF Sleep!WorkerInv
<1> QED
  BY <1>2, <1>3

LEMMA SleepReturnKeeps ==
  ASSUME Sleep!ConstantsOK, Sleep!IInv, Sleep!Held, NEW result \in {"ok", "retryable", "cancelled", "failed"}, Sleep!Return(result),
         SleepTracked, SleepCallsOnward, UNCHANGED <<session, override, lidPolicy, asked, sleepSpent>>,
         result \in {"retryable", "cancelled"} => request.pc \notin {"reply", "status"}
  PROVE  Sleep!IInv'
<1>1. request' = Sleep!None /\ tracker' \in Sleep!TrackerType
  BY DEF Sleep!Return, SleepTracked
<1>2. lid' \in Sleep!LidType /\ Sleep!WorkerInv' /\ Sleep!OncePerClose'
  BY <1>1, SleepReturnLid
<1>3. Sleep!TypeOK'
  BY <1>1, <1>2, SleepTypeFollows, SleepTypesKnown DEF SleepCallsOnward
<1> QED
  BY <1>1, <1>2, <1>3, SleepTrackerSide, SleepNoRequest DEF Sleep!IInv, Sleep!Safe

LEMMA SleepRefusedKeeps ==
  ASSUME Sleep!ConstantsOK, Sleep!IInv, Sleep!Held, NEW result \in {"retryable", "cancelled"}, Sleep!Refused(result),
         request.pc \notin {"reply", "status"}
  PROVE  Sleep!IInv'
<1>1. tracker' = tracker \/ tracker' = Sleep!failed(FALSE)
  BY DEF Sleep!Refused
<1>2. SleepTracked /\ SleepCallsOnward
  BY <1>1, SleepSameTracked, SleepEndsTracked, SleepSameCalls DEF Sleep!Refused, Sleep!Return
<1> QED
  BY <1>2, SleepReturnKeeps DEF Sleep!Refused, Sleep!Untouched

LEMMA SleepEndsEarlyKeeps ==
  ASSUME Sleep!ConstantsOK, Sleep!IInv, Sleep!Fails \/ Sleep!Preparing \/ Sleep!Obsolete
  PROVE  Sleep!IInv'
BY SleepRefusedKeeps DEF Sleep!Fails, Sleep!Preparing, Sleep!Obsolete, Sleep!At

LEMMA SleepAcceptedKeeps == ASSUME Sleep!ConstantsOK, Sleep!IInv, Sleep!Accepted PROVE Sleep!IInv'
<1>1. SleepMoves("status") /\ UNCHANGED <<session, calls, override, asked>> /\ request.pc = "reply" /\ "status" \in SleepPC
  BY DEF Sleep!Accepted, Sleep!At, Sleep!Goto, Sleep!Untouched, SleepMoves, SleepPC
<1>2. /\ Sleep!Held /\ request' \in Sleep!Request /\ request'.action = request.action /\ request'.pc = "status"
      /\ request' # request
  BY <1>1, SleepMovesTo DEF SleepMoves
<1>3. tracker' = tracker \/ tracker' = Sleep!modify("accepted")
  BY DEF Sleep!Accepted
<1>4. SleepTracked /\ SleepCallsOnward
  BY <1>1, <1>2, <1>3, SleepSameTracked, SleepModifyTracked, SleepSameCalls DEF Sleep!Phase,
     Sleep!dispatched
<1>5. Sleep!TypeOK'
  BY <1>1, <1>2, <1>4, SleepTypeFollows, SleepTypesKnown DEF SleepMoves, SleepTracked
<1>6. Sleep!KeepAwakeRespected' /\ Sleep!RequestInv'
  BY <1>1, <1>2, <1>4 DEF Sleep!KeepAwakeRespected, Sleep!IInv, Sleep!RequestInv, SleepTracked
<1> QED
  BY <1>1, <1>4, <1>5, <1>6, SleepTrackerSide, SleepMovesLid DEF Sleep!IInv, Sleep!Safe

LEMMA SleepRepliesKeep ==
  ASSUME Sleep!ConstantsOK, Sleep!IInv, Sleep!Denied \/ Sleep!ReplyLost \/ Sleep!Status
  PROVE  Sleep!IInv'
<1>1. CASE Sleep!Denied
  <2>1. Sleep!Held /\ tracker' = Sleep!failed(FALSE) /\ Sleep!Return("failed") /\ UNCHANGED <<session, override, lidPolicy, asked, sleepSpent>>
    BY <1>1 DEF Sleep!Denied, Sleep!At, Sleep!Untouched
  <2>2. SleepTracked
    BY <2>1, SleepEndsTracked DEF Sleep!Return
  <2>3. request.action # "lock" /\ tracker.id \in Sleep!Ops
    BY <1>1, SleepTypesKnown DEF Sleep!Denied, Sleep!At, Sleep!IInv, Sleep!RequestInv,
       Sleep!TrackerType, Sleep!Ops, Sleep!ConstantsOK
  <2>4. SleepCallsOnward
    BY <1>1, <2>3, SleepCallMoves DEF Sleep!Denied, SleepAsking
  <2> QED
    BY <2>1, <2>2, <2>4, SleepReturnKeeps
<1>2. CASE Sleep!ReplyLost
  <2>1. Sleep!Held /\ tracker' = Sleep!failed(TRUE) /\ Sleep!Return("failed") /\ UNCHANGED <<session, calls, override, lidPolicy, asked, sleepSpent>>
    BY <1>2 DEF Sleep!ReplyLost, Sleep!At, Sleep!Untouched
  <2>2. SleepTracked
    BY <2>1, SleepEndsTracked DEF Sleep!Return
  <2> QED
    BY <2>1, <2>2, SleepSameCalls, SleepReturnKeeps
<1>3. CASE Sleep!Status
  <2>1. Sleep!Held /\ tracker' = tracker /\ Sleep!Return("ok") /\ UNCHANGED <<session, calls, override, lidPolicy, asked, sleepSpent>>
    BY <1>3 DEF Sleep!Status, Sleep!At, Sleep!Untouched
  <2> QED
    BY <2>1, SleepSameTracked, SleepSameCalls, SleepReturnKeeps
<1> QED
  BY <1>1, <1>2, <1>3

-----------------------------------------------------------------------------
(* A request begins.                                                          *)

LEMMA SleepBeginsKeeps ==
  ASSUME Sleep!ConstantsOK, Sleep!IInv, NEW who \in {"user", "lid"}, NEW action \in {"lock", "suspend", "timed"},
         Sleep!Begins(who, action), calls' = calls, override' = override
  PROVE  /\ ~Sleep!Held /\ Sleep!Held' /\ request' \in Sleep!Request /\ request'.who = who /\ request'.pc = "check"
         /\ tracker' \in Sleep!TrackerType
         /\ Sleep!RequestInv' /\ Sleep!KeepAwakeRespected' /\ Sleep!CallsInv' /\ Sleep!DelayInForce' /\ Sleep!LeaseOpen'
<1>1. /\ request' \in Sleep!Request /\ request'.who = who /\ request'.action = action /\ request'.pc = "check"
  BY DEF Sleep!Begins, Sleep!Request
<1>2. ~Sleep!Held /\ Sleep!Held'
  BY DEF Sleep!Begins, Sleep!Held, Sleep!None
<1>3. Sleep!KeepAwakeRespected'
  BY <1>1 DEF Sleep!KeepAwakeRespected
<1>4. CASE action = "lock"
  <2>1. SleepTracked /\ SleepCallsOnward
    BY <1>4, SleepSameTracked, SleepSameCalls DEF Sleep!Begins
  <2>2. Sleep!RequestInv'
    BY <1>1, <1>4 DEF Sleep!RequestInv
  <2> QED
    BY <1>1, <1>2, <1>3, <2>1, <2>2, SleepTrackerSide DEF SleepTracked
<1>5. CASE action # "lock"
  <2>1. tracker' = Sleep!begin(action = "timed") /\ tracker.id < SleepOps
    BY <1>5 DEF Sleep!Begins
  <2>2. tracker.id \in Nat /\ tracker.id + 1 \in 0..SleepOps /\ tracker.id + 1 \in Sleep!Ops /\ tracker.id + 1 > 0
    BY <2>1, SleepTypesKnown DEF Sleep!TrackerType, Sleep!ConstantsOK, Sleep!Ops
  <2>3. /\ tracker'.id = tracker.id + 1 /\ tracker'.phase = "requested" /\ tracker'.job = 0
        /\ ~tracker'.lease /\ (tracker'.timed <=> action = "timed")
    BY <2>1 DEF Sleep!begin
  <2>4. tracker' \in Sleep!TrackerType
    <3>1. (action = "timed") \in BOOLEAN /\ "requested" \in Sleep!Phase /\ 0 \in 0..SleepOps
      BY DEF Sleep!ConstantsOK, Sleep!Phase
    <3> QED
      BY <2>1, <2>2, <3>1 DEF Sleep!begin, Sleep!TrackerType
  <2>5. calls[tracker.id + 1] = "unsent"
    BY <2>2 DEF Sleep!IInv, Sleep!CallsInv
  <2>6. Sleep!RequestInv'
    BY <1>1, <1>5, <2>2, <2>3, <2>5 DEF Sleep!RequestInv
  <2>7. Sleep!CallsInv'
    <3>1. ASSUME NEW i \in Sleep!Ops, i > tracker'.id PROVE calls'[i] = "unsent"
      <4>1. i > tracker.id
        BY <2>2, <2>3, <3>1 DEF Sleep!Ops, Sleep!ConstantsOK
      <4> QED
        BY <4>1 DEF Sleep!IInv, Sleep!CallsInv
    <3>2. calls'[tracker'.id] = "unsent"
      BY <2>3, <2>5
    <3> QED
      BY <3>1, <3>2 DEF Sleep!CallsInv
  <2>8. Sleep!DelayInForce' /\ Sleep!LeaseOpen'
    BY <2>3, <2>7 DEF Sleep!CallsInv, Sleep!DelayInForce, Sleep!Running, Sleep!LeaseOpen
  <2> QED
    BY <1>1, <1>2, <1>3, <2>4, <2>6, <2>7, <2>8
<1> QED
  BY <1>4, <1>5

LEMMA SleepUserAsksKeeps == ASSUME Sleep!ConstantsOK, Sleep!IInv, Sleep!UserAsks PROVE Sleep!IInv'
<1>1. PICK action \in {"lock", "suspend"} : Sleep!Begins("user", action)
  BY DEF Sleep!UserAsks
<1>2. /\ ~Sleep!Held /\ Sleep!Held' /\ request' \in Sleep!Request /\ request'.who = "user" /\ tracker' \in Sleep!TrackerType
      /\ Sleep!RequestInv' /\ Sleep!KeepAwakeRespected' /\ Sleep!CallsInv' /\ Sleep!DelayInForce' /\ Sleep!LeaseOpen'
  BY <1>1, SleepBeginsKeeps DEF Sleep!UserAsks
<1>3. Sleep!WorkerInv' /\ Sleep!OncePerClose'
  <2>1. ~(lid.worker # Sleep!None /\ lid.worker.at = "running")
    BY <1>2 DEF Sleep!IInv, Sleep!WorkerInv
  <2> QED
    BY <1>2, <2>1 DEF Sleep!UserAsks, Sleep!IInv, Sleep!Safe, Sleep!WorkerInv, Sleep!OncePerClose
<1>4. Sleep!TypeOK'
  BY <1>2, SleepTypeFollows, SleepTypesKnown, SleepSpends DEF Sleep!UserAsks
<1> QED
  BY <1>2, <1>3, <1>4 DEF Sleep!IInv, Sleep!Safe

\* A worker that is not running goes on without a request.
LEMMA SleepWorkerMoves ==
  ASSUME Sleep!ConstantsOK, Sleep!IInv, lid.worker # Sleep!None, lid.worker.at \in {"queued", "checked"},
         NEW at \in {"checked", "ok", "retryable", "cancelled", "failed"}, NEW proof \in 0..SleepOps,
         at = "checked" => lid.worker.action # "ignore",
         lid' = SleepReported(at, proof),
         UNCHANGED <<session, tracker, request, calls, override, lidPolicy, asked, sleepSpent>>
  PROVE  Sleep!IInv'
<1> DEFINE new == SleepReported(at, proof)
<1>1. /\ new \in Sleep!LidType /\ new.retry = lid.retry /\ new.worker # Sleep!None /\ new.worker.at = at
      /\ new.worker.action = lid.worker.action /\ new.worker.close = lid.worker.close
  <2>1. at \in {"queued", "checked", "running", "ok", "retryable", "cancelled", "failed"}
    OBVIOUS
  <2> QED
    BY <2>1, SleepReportedIs
<1> HIDE DEF new
<1>2. lid' = new
  BY DEF new
<1>3. /\ asked[lid.worker.close] = 0 /\ ~(Sleep!Held /\ request.who = "lid")
      /\ lid.worker.close = lid.retry.close /\ ~lid.retry.due /\ lid.worker.action # "system"
      /\ \A e \in 1..SleepCloses : e > lid.retry.close => asked[e] = 0
  BY DEF Sleep!IInv, Sleep!WorkerInv
<1>4. Sleep!WorkerInv'
  BY <1>1, <1>2, <1>3 DEF Sleep!WorkerInv, Sleep!Held
<1>5. Sleep!OncePerClose'
  BY DEF Sleep!IInv, Sleep!Safe, Sleep!OncePerClose
<1>6. SleepTracked /\ SleepCallsOnward
  BY SleepSameTracked, SleepSameCalls
<1>7. Sleep!TypeOK'
  BY <1>1, <1>2, SleepTypeFollows, SleepTypesKnown
<1> QED
  BY <1>4, <1>5, <1>6, <1>7, SleepTrackerSide, SleepRequestWaits DEF Sleep!IInv, Sleep!Safe

LEMMA SleepLidChecksKeeps == ASSUME Sleep!ConstantsOK, Sleep!IInv, Sleep!LidChecks PROVE Sleep!IInv'
<1>1. PICK at \in {"checked", "retryable", "cancelled", "failed", "ok"} :
         /\ at = "checked" => lid.worker.action # "ignore"
         /\ lid' = SleepReported(at, lid.worker.operation)
  BY DEF Sleep!LidChecks, SleepReported
<1>2. lid.worker # Sleep!None /\ lid.worker.at = "queued" /\ lid.worker.operation \in 0..SleepOps
  BY SleepTypesKnown DEF Sleep!LidChecks, Sleep!LidType, Sleep!Worker
<1> QED
  BY <1>1, <1>2, SleepWorkerMoves DEF Sleep!LidChecks, Sleep!Untouched

LEMMA SleepReportedAlso ==
  ASSUME Sleep!IInv, lid.worker # Sleep!None, NEW at
  PROVE  /\ [lid EXCEPT !.worker.at = at] = SleepReported(at, lid.worker.proof)
         /\ \A p : [lid EXCEPT !.worker.proof = p, !.worker.at = at] = SleepReported(at, p)
<1>1. lid \in Sleep!LidType /\ lid.worker \in Sleep!Worker
  BY SleepTypesKnown DEF Sleep!LidType
<1> DEFINE plain == [lid.worker EXCEPT !.at = at]
           both(p) == [lid.worker EXCEPT !.at = at, !.proof = p]
           swapped(p) == [lid.worker EXCEPT !.proof = p, !.at = at]
<1>2. plain = both(lid.worker.proof)
  BY <1>1 DEF Sleep!Worker
<1>3. ASSUME NEW p PROVE swapped(p) = both(p)
  BY <1>1 DEF Sleep!Worker
<1>4. [lid EXCEPT !.worker.at = at] = [lid EXCEPT !.worker = plain]
  BY <1>1 DEF Sleep!LidType
<1>5. ASSUME NEW p PROVE SleepReported(at, p) = [lid EXCEPT !.worker = both(p)]
  BY <1>1 DEF SleepReported, Sleep!LidType
<1>6. ASSUME NEW p PROVE [lid EXCEPT !.worker.proof = p, !.worker.at = at] = [lid EXCEPT !.worker = swapped(p)]
  BY <1>1 DEF Sleep!LidType
<1> HIDE DEF plain, both, swapped
<1>7. [lid EXCEPT !.worker.at = at] = SleepReported(at, lid.worker.proof)
  BY <1>2, <1>4, <1>5
<1> QED
  BY <1>3, <1>5, <1>6, <1>7

LEMMA SleepLidAsksKeeps == ASSUME Sleep!ConstantsOK, Sleep!IInv, Sleep!LidAsks PROVE Sleep!IInv'
<1>1. /\ lid.worker # Sleep!None /\ lid.worker.at = "checked" /\ lid.worker \in Sleep!Worker /\ lid.worker.proof \in 0..SleepOps
      /\ UNCHANGED <<session, calls, override, lidPolicy, asked, sleepSpent>>
  BY SleepTypesKnown DEF Sleep!LidAsks, Sleep!Untouched, Sleep!LidType, Sleep!Worker
<1>2. CASE Sleep!Begins("lid", Sleep!Method(lid.worker.action)) /\ lid' = [lid EXCEPT !.worker.at = "running"]
  <2>1. Sleep!Method(lid.worker.action) \in {"lock", "suspend", "timed"}
    <3>1. lid.worker.action \in Sleep!LidAction /\ lid.worker.action \notin {"system", "ignore"}
      BY <1>1 DEF Sleep!IInv, Sleep!WorkerInv, Sleep!Worker
    <3> QED
      BY <3>1 DEF Sleep!LidAction, Sleep!Method
  <2>2. /\ ~Sleep!Held /\ Sleep!Held' /\ request' \in Sleep!Request /\ request'.who = "lid" /\ request'.pc = "check"
        /\ tracker' \in Sleep!TrackerType
        /\ Sleep!RequestInv' /\ Sleep!KeepAwakeRespected' /\ Sleep!CallsInv' /\ Sleep!DelayInForce' /\ Sleep!LeaseOpen'
    BY <1>1, <1>2, <2>1, SleepBeginsKeeps
  <2> DEFINE new == SleepReported("running", lid.worker.proof)
  <2>3. /\ new \in Sleep!LidType /\ new.retry = lid.retry /\ new.worker # Sleep!None /\ new.worker.at = "running"
        /\ new.worker.action = lid.worker.action /\ new.worker.close = lid.worker.close
    BY <1>1, SleepReportedIs, SMTT(30)
  <2>4. lid' = new
    BY <1>1, <1>2, SleepReportedAlso
  <2> HIDE DEF new
  <2>5. /\ asked[lid.worker.close] = 0 /\ lid.worker.action # "ignore"
        /\ lid.worker.close = lid.retry.close /\ ~lid.retry.due /\ lid.worker.action # "system"
        /\ \A e \in 1..SleepCloses : e > lid.retry.close => asked[e] = 0
    BY <1>1 DEF Sleep!IInv, Sleep!WorkerInv
  <2>6. Sleep!WorkerInv'
    BY <1>1, <2>2, <2>3, <2>4, <2>5 DEF Sleep!WorkerInv
  <2>7. Sleep!OncePerClose'
    BY <1>1 DEF Sleep!IInv, Sleep!Safe, Sleep!OncePerClose
  <2>8. Sleep!TypeOK'
    BY <1>1, <2>2, <2>3, <2>4, SleepTypeFollows, SleepTypesKnown
  <2> QED
    BY <2>2, <2>6, <2>7, <2>8 DEF Sleep!IInv, Sleep!Safe
<1>3. CASE /\ UNCHANGED <<tracker, request>>
           /\ lid' = [lid EXCEPT !.worker.proof = tracker.id,
                !.worker.at = IF tracker.phase \in {"", "completed", "failed"} THEN "retryable" ELSE "failed"]
  <2> DEFINE at == IF tracker.phase \in {"", "completed", "failed"} THEN "retryable" ELSE "failed"
  <2>1. at \in {"checked", "ok", "retryable", "cancelled", "failed"} /\ at # "checked"
    OBVIOUS
  <2>2. lid' = [lid EXCEPT !.worker.proof = tracker.id, !.worker.at = at]
    BY <1>3, SMTT(30)
  <2> HIDE DEF at
  <2>3. lid' = SleepReported(at, tracker.id) /\ tracker.id \in 0..SleepOps
    BY <1>1, <2>2, SleepReportedAlso, SleepTypesKnown DEF Sleep!TrackerType
  <2> QED
    BY <1>1, <1>3, <2>1, <2>3, SleepWorkerMoves
<1>4. CASE UNCHANGED <<tracker, request>> /\ lid' = [lid EXCEPT !.worker.at = "failed"]
  BY <1>1, <1>4, SleepReportedAlso, SleepWorkerMoves
<1> QED
  BY <1>2, <1>3, <1>4 DEF Sleep!LidAsks

LEMMA SleepClearedIs ==
  ASSUME Sleep!ConstantsOK, NEW r \in Sleep!LidRetry
  PROVE  Sleep!Cleared(r) \in Sleep!LidRetry /\ Sleep!Cleared(r).close = r.close /\ ~Sleep!Cleared(r).due
<1>1. Sleep!NoRetry \in Sleep!LidRetry /\ ~Sleep!NoRetry.due
  BY DEF Sleep!NoRetry, Sleep!LidRetry, Sleep!LidAction, Sleep!ConstantsOK
<1> QED
  BY <1>1 DEF Sleep!Cleared, Sleep!LidRetry

\* The lid's books after a change that leaves no worker and nothing asked again.
LEMMA SleepRetryKeeps ==
  ASSUME Sleep!ConstantsOK, Sleep!IInv, lid' \in Sleep!LidType, lid'.worker = Sleep!None, lid'.retry.close = lid.retry.close,
         lid'.retry.due => lid.retry.close > 0 /\ asked[lid.retry.close] = 0,
         ~(Sleep!Held /\ request.who = "lid")', asked' = asked
  PROVE  Sleep!WorkerInv' /\ Sleep!OncePerClose'
BY DEF Sleep!IInv, Sleep!Safe, Sleep!WorkerInv, Sleep!OncePerClose

LEMMA SleepLidCompletedKeeps ==
  ASSUME Sleep!ConstantsOK, Sleep!IInv, Sleep!LidCompleted
  PROVE  Sleep!IInv'
<1>1. /\ lid.worker # Sleep!None /\ lid.worker.at \in {"ok", "retryable", "cancelled", "failed"} /\ lid \in Sleep!LidType
      /\ lid.worker \in Sleep!Worker /\ lid.retry \in Sleep!LidRetry
      /\ UNCHANGED <<session, tracker, request, calls, override, lidPolicy, asked, sleepSpent>>
  BY SleepTypesKnown DEF Sleep!LidCompleted, Sleep!Untouched, Sleep!LidType
<1> DEFINE again == IF ~Sleep!Retryable(lid.worker.at) THEN Sleep!Cleared(lid.retry)
                    ELSE IF lid.retry.armed = "system" THEN lid.retry
                    ELSE [lid.retry EXCEPT !.operation = lid.worker.proof, !.due = TRUE]
<1>2. lid' = [lid EXCEPT !.worker = Sleep!None, !.retry = again]
  BY DEF Sleep!LidCompleted
<1>3. again \in Sleep!LidRetry /\ again.close = lid.retry.close
  <2>1. Sleep!Cleared(lid.retry) \in Sleep!LidRetry /\ Sleep!Cleared(lid.retry).close = lid.retry.close
    BY <1>1, SleepClearedIs
  <2>2. /\ [lid.retry EXCEPT !.operation = lid.worker.proof, !.due = TRUE] \in Sleep!LidRetry
        /\ [lid.retry EXCEPT !.operation = lid.worker.proof, !.due = TRUE].close = lid.retry.close
    BY <1>1 DEF Sleep!LidRetry, Sleep!Worker
  <2> QED
    BY <1>1, <2>1, <2>2
<1>4. again.due => Sleep!Retryable(lid.worker.at)
  <2>1. ~Sleep!Cleared(lid.retry).due
    BY DEF Sleep!Cleared, Sleep!NoRetry
  <2> QED
    BY <2>1
<1> HIDE DEF again
<1>5. lid' \in Sleep!LidType /\ lid'.worker = Sleep!None /\ lid'.retry = again
  BY <1>1, <1>2, <1>3 DEF Sleep!LidType
<1>6. ~(Sleep!Held /\ request.who = "lid") /\ lid.worker.close = lid.retry.close /\ lid.worker.close > 0
  BY <1>1 DEF Sleep!IInv, Sleep!WorkerInv, Sleep!Worker, Sleep!ConstantsOK
<1>7. again.due => asked[lid.retry.close] = 0
  BY <1>1, <1>4, <1>6 DEF Sleep!Retryable, Sleep!IInv, Sleep!WorkerInv
<1>8. Sleep!WorkerInv' /\ Sleep!OncePerClose'
  BY <1>1, <1>3, <1>5, <1>6, <1>7, SleepRetryKeeps DEF Sleep!Held
<1>9. SleepTracked /\ SleepCallsOnward
  BY <1>1, SleepSameTracked, SleepSameCalls
<1>10. Sleep!TypeOK'
  BY <1>1, <1>5, SleepTypeFollows, SleepTypesKnown
<1> QED
  BY <1>1, <1>8, <1>9, <1>10, SleepTrackerSide, SleepRequestWaits DEF Sleep!IInv, Sleep!Safe

LEMMA SleepLidLostKeeps == ASSUME Sleep!ConstantsOK, Sleep!IInv, Sleep!LidLost PROVE Sleep!IInv'
<1>1. lid' \in Sleep!LidType /\ lid'.worker = Sleep!None /\ lid'.retry.close = lid.retry.close /\ ~lid'.retry.due
  <2>1. lid' = [Sleep!Resting EXCEPT !.retry.close = lid.retry.close] /\ lid.retry.close \in 0..SleepCloses
    BY SleepTypesKnown DEF Sleep!LidLost, Sleep!LidType, Sleep!LidRetry
  <2> QED
    <3>1. Sleep!NoRetry \in Sleep!LidRetry /\ ~Sleep!NoRetry.due
      BY DEF Sleep!NoRetry, Sleep!LidRetry, Sleep!LidAction, Sleep!ConstantsOK
    <3>2. Sleep!Resting \in Sleep!LidType /\ Sleep!Resting.worker = Sleep!None /\ Sleep!Resting.retry = Sleep!NoRetry
      BY <3>1 DEF Sleep!Resting, Sleep!LidType
    <3> QED
      BY <2>1, <3>1, <3>2 DEF Sleep!LidType, Sleep!LidRetry
<1>2. UNCHANGED <<session, lidPolicy, calls, override, asked>> /\ sleepSpent' \in 0..SleepEnv /\ SleepCallsOnward
  BY SleepSpends, SleepSameCalls DEF Sleep!LidLost
<1>3. CASE Sleep!Held /\ request.who = "lid"
  <2>1. request' = Sleep!None /\ (tracker' = tracker \/ tracker' = Sleep!cancelled)
    BY <1>3 DEF Sleep!LidLost
  <2>2. SleepTracked
    BY <1>3, <2>1, SleepSameTracked, SleepEndsTracked
  <2>3. Sleep!WorkerInv' /\ Sleep!OncePerClose'
    BY <1>1, <1>2, <2>1, SleepRetryKeeps DEF Sleep!Held
  <2>4. Sleep!TypeOK'
    BY <1>1, <1>2, <2>1, <2>2, SleepTypeFollows, SleepTypesKnown DEF SleepTracked
  <2> QED
    BY <1>2, <2>1, <2>2, <2>3, <2>4, SleepTrackerSide, SleepNoRequest DEF Sleep!IInv, Sleep!Safe
<1>4. CASE ~(Sleep!Held /\ request.who = "lid")
  <2>1. UNCHANGED <<request, tracker>>
    BY <1>4 DEF Sleep!LidLost
  <2>2. SleepTracked
    BY <2>1, SleepSameTracked
  <2>3. Sleep!WorkerInv' /\ Sleep!OncePerClose'
    BY <1>1, <1>2, <1>4, <2>1, SleepRetryKeeps DEF Sleep!Held
  <2>4. Sleep!TypeOK'
    BY <1>1, <1>2, <2>1, SleepTypeFollows, SleepTypesKnown
  <2> QED
    BY <1>2, <2>1, <2>2, <2>3, <2>4, SleepTrackerSide, SleepRequestWaits DEF Sleep!IInv, Sleep!Safe
<1> QED
  BY <1>3, <1>4

-----------------------------------------------------------------------------
(* The lid controller's observation.                                          *)

LEMMA SleepReconcileIs ==
  ASSUME Sleep!ConstantsOK, NEW r \in Sleep!LidRetry, NEW ok \in BOOLEAN
  PROVE  /\ Sleep!reconcile(r, ok) \in Sleep!LidRetry /\ Sleep!reconcile(r, ok).close = r.close
         /\ Sleep!reconcile(r, ok).due => r.due /\ ok
<1>1. Sleep!Cleared(r) \in Sleep!LidRetry /\ Sleep!Cleared(r).close = r.close /\ ~Sleep!Cleared(r).due
  BY SleepClearedIs
<1>2. CASE ~ok \/ (r.armed # "system" /\ r.armed # lidPolicy)
  BY <1>1, <1>2 DEF Sleep!reconcile
<1>3. CASE ~(~ok \/ (r.armed # "system" /\ r.armed # lidPolicy))
  BY <1>3 DEF Sleep!reconcile
<1> QED
  BY <1>2, <1>3

LEMMA SleepLidWorkerIs ==
  ASSUME Sleep!IInv, NEW o \in 0..SleepOps, NEW c \in 1..SleepCloses, Sleep!ConstantsOK
  PROVE  /\ Sleep!LidWorker(o, c) \in Sleep!Worker /\ Sleep!LidWorker(o, c) # Sleep!None /\ Sleep!LidWorker(o, c).at = "queued"
         /\ Sleep!LidWorker(o, c).action = lidPolicy /\ Sleep!LidWorker(o, c).close = c
<1>1. lidPolicy \in Sleep!LidAction /\ 0 \in 0..SleepOps
  BY SleepTypesKnown DEF Sleep!ConstantsOK
<1>2. Sleep!LidWorker(o, c) \in Sleep!Worker
  BY <1>1 DEF Sleep!LidWorker, Sleep!Worker
<1>3. \A x \in Sleep!Worker : x # Sleep!None
  BY DEF Sleep!Worker, Sleep!None
<1> QED
  BY <1>2, <1>3 DEF Sleep!LidWorker

\* The books after an observation: an old worker stays, a new one belongs to a
\* close that has not been asked for.
LEMMA SleepBooksKeep ==
  ASSUME Sleep!ConstantsOK, Sleep!IInv, lid' \in Sleep!LidType,
         UNCHANGED <<session, tracker, request, calls, override, lidPolicy, asked, sleepSpent>>,
         lid'.retry.close \in Nat, lid'.retry.close >= lid.retry.close,
         lid'.retry.due => lid.retry.due /\ lid'.retry.close = lid.retry.close /\ lid'.worker = lid.worker,
         \/ lid'.worker = lid.worker /\ (lid.worker # Sleep!None => lid'.retry.close = lid.retry.close)
         \/ /\ lid.worker = Sleep!None /\ lid'.worker # Sleep!None /\ lid'.worker.at = "queued"
            /\ lid'.worker.action # "system" /\ lid'.worker.close = lid'.retry.close
            /\ ~lid'.retry.due /\ asked[lid'.worker.close] = 0
  PROVE  Sleep!IInv'
<1>1. Sleep!OncePerClose'
  BY DEF Sleep!IInv, Sleep!Safe, Sleep!OncePerClose
<1>2. \A e \in 1..SleepCloses : e > lid'.retry.close => asked'[e] = 0
  <2>1. lid.retry.close \in Nat
    BY SleepTypesKnown DEF Sleep!LidType, Sleep!LidRetry, Sleep!ConstantsOK
  <2>2. \A e \in 1..SleepCloses : e > lid'.retry.close => e > lid.retry.close
    BY <2>1 DEF Sleep!ConstantsOK
  <2> QED
    BY <2>2 DEF Sleep!IInv, Sleep!WorkerInv
<1>3. lid'.retry.due => lid'.retry.close > 0 /\ asked'[lid'.retry.close] = 0
  BY DEF Sleep!IInv, Sleep!WorkerInv
<1>4. Sleep!WorkerInv'
  <2>1. CASE lid'.worker = lid.worker /\ (lid.worker # Sleep!None => lid'.retry.close = lid.retry.close)
    <3>1. lid.worker # Sleep!None => ~lid'.retry.due
      BY DEF Sleep!IInv, Sleep!WorkerInv
    <3> QED
      BY <1>2, <1>3, <2>1, <3>1 DEF Sleep!IInv, Sleep!WorkerInv, Sleep!Held
  <2>2. CASE /\ lid.worker = Sleep!None /\ lid'.worker # Sleep!None /\ lid'.worker.at = "queued"
             /\ lid'.worker.action # "system" /\ lid'.worker.close = lid'.retry.close
             /\ ~lid'.retry.due /\ asked[lid'.worker.close] = 0
    <3>1. ~(Sleep!Held /\ request.who = "lid")
      BY <2>2 DEF Sleep!IInv, Sleep!WorkerInv
    <3> QED
      BY <1>2, <2>2, <3>1 DEF Sleep!WorkerInv, Sleep!Held
  <2> QED
    BY <2>1, <2>2
<1>5. SleepTracked /\ SleepCallsOnward
  BY SleepSameTracked, SleepSameCalls
<1>6. Sleep!TypeOK'
  BY SleepTypeFollows, SleepTypesKnown
<1> QED
  BY <1>1, <1>4, <1>5, <1>6, SleepTrackerSide, SleepRequestWaits DEF Sleep!IInv, Sleep!Safe

LEMMA SleepObserveKeeps == ASSUME Sleep!ConstantsOK, Sleep!IInv, Sleep!Observe PROVE Sleep!IInv'
<1> DEFINE managed == lidPolicy # "system" /\ session.active
           eligible == managed /\ ~session.docked
           triggered == eligible /\ lid.eligible /\ lid.seen = "open" /\ session.closed
           kept == Sleep!reconcile(lid.retry, session.closed /\ eligible)
           next == [lid EXCEPT !.owned = managed, !.eligible = eligible,
                               !.seen = IF session.closed THEN "closed" ELSE "open", !.retry = kept]
           first == [armed |-> lidPolicy, due |-> FALSE, operation |-> 0, close |-> kept.close + 1]
           begun == [next EXCEPT !.retry = first, !.worker = Sleep!LidWorker(tracker.id, kept.close + 1)]
           given == [next EXCEPT !.retry = Sleep!Cleared(kept)]
           again == [next EXCEPT !.retry.due = FALSE, !.worker = Sleep!LidWorker(kept.operation, kept.close)]
<1>1. /\ lid' = IF lid.worker # Sleep!None THEN next ELSE IF triggered THEN begun
                ELSE IF kept.due /\ kept.operation # tracker.id THEN given
                ELSE IF kept.due THEN again ELSE next
      /\ triggered /\ lid.worker = Sleep!None => kept.close < SleepCloses
  BY DEF Sleep!Observe
<1>2. UNCHANGED <<session, tracker, request, calls, override, lidPolicy, asked, sleepSpent>>
  BY DEF Sleep!Observe, Sleep!Untouched
<1>3. /\ lid \in Sleep!LidType /\ lid.retry \in Sleep!LidRetry /\ lidPolicy \in Sleep!LidAction /\ tracker.id \in 0..SleepOps
      /\ session \in Sleep!SessionType
  BY SleepTypesKnown DEF Sleep!LidType, Sleep!TrackerType
<1>4. managed \in BOOLEAN /\ eligible \in BOOLEAN /\ (session.closed /\ eligible) \in BOOLEAN
  BY <1>3 DEF Sleep!SessionType
<1>5. triggered => lidPolicy # "system"
  OBVIOUS
<1>6. kept.due => lid.retry.due /\ lidPolicy # "system"
  BY <1>3, <1>4, SleepReconcileIs
<1>7. kept \in Sleep!LidRetry /\ kept.close = lid.retry.close
  BY <1>3, <1>4, SleepReconcileIs
<1> HIDE DEF kept, managed, eligible
<1>8. next \in Sleep!LidType /\ next.retry = kept /\ next.worker = lid.worker
  BY <1>3, <1>4, <1>7 DEF Sleep!LidType
<1>9. kept.close \in 0..SleepCloses /\ kept.close \in Nat /\ kept.operation \in 0..SleepOps
  BY <1>7 DEF Sleep!LidRetry, Sleep!ConstantsOK
<1> HIDE DEF next, triggered
<1>10. CASE lid' = next
  BY <1>2, <1>6, <1>7, <1>8, <1>9, <1>10, SleepBooksKeep
<1>11. CASE lid' = begun /\ triggered /\ lid.worker = Sleep!None
  <2>1. kept.close + 1 \in 1..SleepCloses /\ kept.close + 1 \in 0..SleepCloses /\ kept.close + 1 > lid.retry.close
    BY <1>1, <1>7, <1>9, <1>11 DEF Sleep!ConstantsOK
  <2>2. asked[kept.close + 1] = 0
    BY <2>1 DEF Sleep!IInv, Sleep!WorkerInv
  <2> DEFINE w == Sleep!LidWorker(tracker.id, kept.close + 1)
  <2>3. w \in Sleep!Worker /\ w # Sleep!None /\ w.at = "queued" /\ w.action = lidPolicy /\ w.close = kept.close + 1
    BY <1>3, <2>1, SleepLidWorkerIs
  <2>4. first \in Sleep!LidRetry /\ first.close = kept.close + 1 /\ ~first.due
    BY <1>3, <2>1 DEF Sleep!LidRetry, Sleep!ConstantsOK
  <2> HIDE DEF w, first
  <2>5. begun \in Sleep!LidType /\ begun.retry = first /\ begun.worker = w
    BY <1>8, <2>3, <2>4 DEF Sleep!LidType, w
  <2> HIDE DEF begun
  <2> QED
    BY <1>2, <1>5, <1>7, <1>9, <1>11, <2>1, <2>2, <2>3, <2>4, <2>5, SleepBooksKeep
<1>12. CASE lid' = given /\ lid.worker = Sleep!None
  <2>1. Sleep!Cleared(kept) \in Sleep!LidRetry /\ Sleep!Cleared(kept).close = kept.close /\ ~Sleep!Cleared(kept).due
    BY <1>7, SleepClearedIs
  <2>2. given \in Sleep!LidType /\ given.retry = Sleep!Cleared(kept) /\ given.worker = lid.worker
    BY <1>8, <2>1 DEF Sleep!LidType
  <2> HIDE DEF given
  <2> QED
    BY <1>2, <1>7, <1>9, <1>12, <2>1, <2>2, SleepBooksKeep
<1>13. CASE lid' = again /\ lid.worker = Sleep!None /\ kept.due
  <2>1. kept.close \in 1..SleepCloses /\ asked[kept.close] = 0
    BY <1>6, <1>7, <1>9, <1>13 DEF Sleep!IInv, Sleep!WorkerInv, Sleep!ConstantsOK
  <2> DEFINE w == Sleep!LidWorker(kept.operation, kept.close)
             undue == [kept EXCEPT !.due = FALSE]
  <2>2. w \in Sleep!Worker /\ w # Sleep!None /\ w.at = "queued" /\ w.action = lidPolicy /\ w.close = kept.close
    BY <1>9, <2>1, SleepLidWorkerIs
  <2>3. undue \in Sleep!LidRetry /\ undue.close = kept.close /\ ~undue.due
    BY <1>7 DEF Sleep!LidRetry
  <2>4. again = [next EXCEPT !.retry = undue, !.worker = w]
    BY <1>8 DEF Sleep!LidType
  <2> HIDE DEF w, undue, again
  <2>5. again \in Sleep!LidType /\ again.retry = undue /\ again.worker = w
    BY <1>8, <2>2, <2>3, <2>4 DEF Sleep!LidType
  <2> QED
    BY <1>2, <1>6, <1>7, <1>9, <1>13, <2>1, <2>2, <2>3, <2>5, SleepBooksKeep
<1> QED
  BY <1>1, <1>10, <1>11, <1>12, <1>13

-----------------------------------------------------------------------------

LEMMA SleepNextKeeps == ASSUME Sleep!ConstantsOK, Sleep!IInv, [Sleep!Next]_(Sleep!vars) PROVE Sleep!IInv'
<1>1. CASE Sleep!Steps
  BY <1>1, SleepPassesKeeps, SleepLockKeeps, SleepSetupKeeps, SleepEndsEarlyKeeps,
     SleepDispatchKeeps, SleepAcceptedKeeps, SleepRepliesKeep DEF Sleep!Steps
<1>2. CASE UNCHANGED Sleep!vars
  <2>1. SleepTracked /\ SleepCallsOnward
    BY <1>2, SleepSameTracked, SleepSameCalls DEF Sleep!vars
  <2> QED
    BY <1>2, <2>1, SleepWorldKeeps, SleepTypesKnown DEF Sleep!vars
<1> QED
  BY <1>1, <1>2, SleepUserAsksKeeps, SleepExpireKeeps, SleepResumeKeeps, SleepAcceptKeeps,
     SleepAnnounceKeeps, SleepFinishedKeeps,
     SleepKeepAwakeKeeps, SleepObserveKeeps, SleepLidChecksKeeps, SleepLidAsksKeeps,
     SleepLidCompletedKeeps, SleepLidLostKeeps,
     SleepSetPolicyKeeps, SleepHelperKeeps, SleepUserActsKeeps DEF Sleep!Next

\* Tracker, request, lid and logind's calls keep their shapes; one close asks once,
\* no request passes Keep awake, a timed job keeps its delay and a lease belongs to
\* an open operation, for any number of operations, closes and failures (sleep.rs,
\* sleep/outcome.rs, sleep/keep_awake.rs, sleep_policy/lid.rs, runtime.rs).
THEOREM SleepRequestSafe == ASSUME Sleep!ConstantsOK PROVE Sleep!Spec => [](Sleep!TypeOK /\ Sleep!Safe)
<1>1. Sleep!Init => Sleep!IInv
  BY SleepInitHolds
<1>2. Sleep!IInv /\ [Sleep!Next]_(Sleep!vars) => Sleep!IInv'
  BY SleepNextKeeps
<1>3. Sleep!IInv => Sleep!TypeOK /\ Sleep!Safe
  BY DEF Sleep!IInv
<1> QED
  BY <1>1, <1>2, <1>3, PTL DEF Sleep!Spec

HIDE DEF session, tracker, request, lid, lidPolicy, calls, override, asked, sleepSpent

-----------------------------------------------------------------------------
(* Sleep telemetry (SleepTelemetry).                                          *)

\* The variables of SleepTelemetry.
machine == r1
operation == r2
events == r3
clock == r4
wanted == r5
query == r6
toggle == r7
shown == r8
faults == r9
USE DEF machine, operation, events, clock, wanted, query, toggle, shown, faults

LEMMA TelemetryBlankShape == Telemetry!Blank \in Telemetry!Shape
BY DEF Telemetry!Blank, Telemetry!Shape

\* commit_power_sleep keeps the resident operation and never takes back a resume.
LEMMA TelemetryCommitKeeps ==
  ASSUME NEW value \in Telemetry!Shape, NEW resumed \in Nat, Telemetry!OperationKnown
  PROVE  /\ Telemetry!commit_power_sleep(value, resumed) \in Telemetry!Shape
         /\ Telemetry!commit_power_sleep(value, resumed).gen = shown.gen + resumed
         /\ Telemetry!commit_power_sleep(value, resumed).op = shown.op
<1>1. PICK g \in Nat, o \in Nat : g = shown.gen + resumed /\ o = shown.op
  BY DEF Telemetry!OperationKnown, Telemetry!Shape
<1>2. Telemetry!commit_power_sleep(value, resumed) = [value EXCEPT !.gen = g, !.op = o]
  BY <1>1 DEF Telemetry!commit_power_sleep
<1>3. [value EXCEPT !.gen = g, !.op = o] \in Telemetry!Shape
  BY DEF Telemetry!Shape
<1>4. [value EXCEPT !.gen = g, !.op = o].gen = g /\ [value EXCEPT !.gen = g, !.op = o].op = o
  BY DEF Telemetry!Shape
<1> QED
  BY <1>1, <1>2, <1>3, <1>4

LEMMA TelemetryInitHolds == ASSUME Telemetry!Init PROVE Telemetry!IInv
BY TelemetryBlankShape DEF Telemetry!Init, Telemetry!IInv, Telemetry!Shapes, Telemetry!OperationKnown, Telemetry!Blank

LEMMA TelemetryMachineStep == ASSUME Telemetry!IInv, Telemetry!Sleep \/ Telemetry!Wake PROVE Telemetry!IInv' /\ Telemetry!Newer
<1>1. UNCHANGED <<operation, query, toggle, shown>>
  BY DEF Telemetry!Sleep, Telemetry!Wake
<1>2. machine' \in [preparing: BOOLEAN, awake: BOOLEAN, resumes: Nat, offset: Nat]
  <2>1. CASE Telemetry!Sleep
    BY <2>1 DEF Telemetry!IInv, Telemetry!Shapes, Telemetry!Sleep
  <2>2. CASE Telemetry!Wake
    <3>1. PICK long \in {0, 1} :
            machine' = [machine EXCEPT !.preparing = FALSE, !.resumes = @ + 1, !.offset = @ + long]
      BY <2>2 DEF Telemetry!Wake
    <3>2. machine.resumes + 1 \in Nat /\ machine.offset + long \in Nat
      BY <3>1 DEF Telemetry!IInv, Telemetry!Shapes
    <3> QED
      BY <3>1, <3>2 DEF Telemetry!IInv, Telemetry!Shapes
  <2> QED
    BY <2>1, <2>2
<1> QED
  BY <1>1, <1>2 DEF Telemetry!IInv, Telemetry!Shapes, Telemetry!OperationKnown, Telemetry!Newer, Telemetry!Shape

LEMMA TelemetrySetKeepAwakeStep == ASSUME Telemetry!IInv, Telemetry!SetKeepAwake PROVE Telemetry!IInv' /\ Telemetry!Newer
<1> USE DEF Telemetry!SetKeepAwake
<1>1. machine' \in [preparing: BOOLEAN, awake: BOOLEAN, resumes: Nat, offset: Nat]
  BY DEF Telemetry!IInv, Telemetry!Shapes
<1>2. machine.preparing \in BOOLEAN /\ machine'.awake \in BOOLEAN /\ operation \in Nat
  BY <1>1 DEF Telemetry!IInv, Telemetry!Shapes, Telemetry!OperationKnown
<1>3. [preparing |-> machine.preparing, awake |-> machine'.awake, gen |-> 0, op |-> operation, ok |-> TRUE]
        \in Telemetry!Shape
  BY <1>2 DEF Telemetry!Shape
<1>4. [Telemetry!Blank EXCEPT !.awake = machine'.awake] \in Telemetry!Shape
  BY <1>2 DEF Telemetry!Blank, Telemetry!Shape
<1>5. toggle' \in Telemetry!Shape
  BY <1>3, <1>4
<1>6. ~Telemetry!RefreshCommits
  BY DEF Telemetry!RefreshCommits, Telemetry!IInv, Telemetry!OperationKnown
<1> QED
  BY <1>1, <1>2, <1>5, <1>6 DEF Telemetry!IInv, Telemetry!Shapes, Telemetry!OperationKnown, Telemetry!Newer, Telemetry!Shape

LEMMA TelemetryPublishStep == ASSUME Telemetry!IInv, Telemetry!PublishAction PROVE Telemetry!IInv' /\ Telemetry!Newer
<1>1. toggle \in Telemetry!Shape /\ shown' = Telemetry!commit_power_sleep(toggle, 0) /\ toggle' = Telemetry!None
  BY DEF Telemetry!IInv, Telemetry!Shapes, Telemetry!PublishAction
<1>2. shown' \in Telemetry!Shape /\ shown'.gen = shown.gen + 0 /\ shown'.op = shown.op
  BY <1>1, TelemetryCommitKeeps DEF Telemetry!IInv
<1>3. ~Telemetry!RefreshCommits /\ UNCHANGED <<machine, operation, query>>
  BY DEF Telemetry!RefreshCommits, Telemetry!PublishAction
<1>4. shown.gen \in Nat /\ shown.op \in Nat
  BY DEF Telemetry!IInv, Telemetry!OperationKnown, Telemetry!Shape
<1> QED
  BY <1>1, <1>2, <1>3, <1>4 DEF Telemetry!IInv, Telemetry!Shapes, Telemetry!OperationKnown, Telemetry!Newer

LEMMA TelemetryRecordStep == ASSUME Telemetry!IInv, Telemetry!RecordOperation PROVE Telemetry!IInv' /\ Telemetry!Newer
<1>1. ~Telemetry!RefreshCommits /\ UNCHANGED <<machine, operation, query, toggle>>
  BY DEF Telemetry!RefreshCommits, Telemetry!RecordOperation
<1>2. shown' \in Telemetry!Shape /\ shown'.gen = shown.gen /\ shown'.op = operation
  BY DEF Telemetry!IInv, Telemetry!OperationKnown, Telemetry!RecordOperation, Telemetry!Shape
<1>3. shown.gen \in Nat /\ shown.op \in Nat
  BY DEF Telemetry!IInv, Telemetry!OperationKnown, Telemetry!Shape
<1> QED
  BY <1>1, <1>2, <1>3 DEF Telemetry!IInv, Telemetry!Shapes, Telemetry!OperationKnown, Telemetry!Newer

\* What the observer records: a resume, a preparation, or nothing.
LEMMA TelemetryObservedStep ==
  ASSUME Telemetry!IInv, UNCHANGED <<machine, operation, query, toggle>>,
         \/ Telemetry!record_resume
         \/ \E p \in BOOLEAN : Telemetry!record_sleep_preparation(p)
         \/ UNCHANGED shown
  PROVE  Telemetry!IInv' /\ Telemetry!Newer
<1>1. shown' \in Telemetry!Shape /\ shown'.gen >= shown.gen /\ shown'.op = shown.op
  <2>1. CASE Telemetry!record_resume
    <3>1. Telemetry!commit_power_sleep(shown, 1) \in Telemetry!Shape
          /\ Telemetry!commit_power_sleep(shown, 1).gen = shown.gen + 1
          /\ Telemetry!commit_power_sleep(shown, 1).op = shown.op
      BY TelemetryCommitKeeps DEF Telemetry!IInv, Telemetry!OperationKnown
    <3>2. PICK c \in Telemetry!Shape : /\ shown' = [c EXCEPT !.preparing = FALSE]
                                       /\ c.gen = shown.gen + 1 /\ c.op = shown.op
      BY <2>1, <3>1 DEF Telemetry!record_resume
    <3>3. shown' \in Telemetry!Shape /\ shown'.gen = c.gen /\ shown'.op = c.op
      BY <3>2 DEF Telemetry!Shape
    <3>4. shown.gen \in Nat
      BY DEF Telemetry!IInv, Telemetry!OperationKnown, Telemetry!Shape
    <3> QED
      BY <3>2, <3>3, <3>4
  <2>2. CASE \E p \in BOOLEAN : Telemetry!record_sleep_preparation(p)
    <3>1. Telemetry!commit_power_sleep(shown, 0) \in Telemetry!Shape
          /\ Telemetry!commit_power_sleep(shown, 0).gen = shown.gen + 0
          /\ Telemetry!commit_power_sleep(shown, 0).op = shown.op
      BY TelemetryCommitKeeps DEF Telemetry!IInv, Telemetry!OperationKnown
    <3>2. PICK p \in BOOLEAN : Telemetry!record_sleep_preparation(p)
      BY <2>2
    <3>3. PICK c \in Telemetry!Shape : /\ shown' = [c EXCEPT !.preparing = p]
                                       /\ c.gen = shown.gen + 0 /\ c.op = shown.op
      BY <3>1, <3>2 DEF Telemetry!record_sleep_preparation
    <3>4. shown' \in Telemetry!Shape /\ shown'.gen = c.gen /\ shown'.op = c.op
      BY <3>3 DEF Telemetry!Shape
    <3>5. shown.gen \in Nat
      BY DEF Telemetry!IInv, Telemetry!OperationKnown, Telemetry!Shape
    <3>6. shown'.gen = shown.gen /\ shown'.op = shown.op
      BY <3>3, <3>4, <3>5
    <3>7. shown'.gen >= shown.gen
      BY <3>5, <3>6
    <3> QED
      BY <3>4, <3>6, <3>7
  <2>3. CASE UNCHANGED shown
    BY <2>3 DEF Telemetry!IInv, Telemetry!OperationKnown, Telemetry!Shape
  <2> QED
    BY <2>1, <2>2, <2>3
<1>2. ~Telemetry!RefreshCommits
  BY DEF Telemetry!RefreshCommits, Telemetry!IInv, Telemetry!Shapes, Telemetry!Queries, Telemetry!None
<1>3. shown.gen \in Nat /\ shown.op \in Nat
  BY DEF Telemetry!IInv, Telemetry!OperationKnown, Telemetry!Shape
<1> QED
  BY <1>1, <1>2, <1>3 DEF Telemetry!IInv, Telemetry!Shapes, Telemetry!OperationKnown, Telemetry!Newer

LEMMA TelemetryObserveEventStep == ASSUME Telemetry!IInv, Telemetry!ObserveEvent PROVE Telemetry!IInv' /\ Telemetry!Newer
BY TelemetryObservedStep DEF Telemetry!ObserveEvent

LEMMA TelemetryObserveClockStep == ASSUME Telemetry!IInv, Telemetry!ObserveClock PROVE Telemetry!IInv' /\ Telemetry!Newer
BY TelemetryObservedStep DEF Telemetry!ObserveClock

LEMMA TelemetryFallbackStep == ASSUME Telemetry!IInv, Telemetry!ObserveFallback PROVE Telemetry!IInv' /\ Telemetry!Newer
BY TelemetryObservedStep DEF Telemetry!ObserveFallback

LEMMA TelemetryStartsStep == ASSUME Telemetry!IInv, Telemetry!RefreshStarts PROVE Telemetry!IInv' /\ Telemetry!Newer
BY DEF Telemetry!IInv, Telemetry!Shapes, Telemetry!OperationKnown, Telemetry!Newer, Telemetry!RefreshStarts, Telemetry!Queries, Telemetry!Shape

LEMMA TelemetryReadsStep == ASSUME Telemetry!IInv, Telemetry!RefreshReads PROVE Telemetry!IInv' /\ Telemetry!Newer
<1> USE DEF Telemetry!RefreshReads
<1>1. query \in Telemetry!Queries
  BY DEF Telemetry!IInv, Telemetry!Shapes
<1>2. \A r \in Telemetry!read_state(query.before.preparing) : r \in Telemetry!Shape
  <2>1. machine.preparing \in BOOLEAN /\ machine.awake \in BOOLEAN /\ operation \in Nat
        /\ query.before.preparing \in BOOLEAN
    BY <1>1 DEF Telemetry!IInv, Telemetry!Shapes, Telemetry!OperationKnown, Telemetry!Queries, Telemetry!Shape
  <2>2. \A p \in BOOLEAN :
          [preparing |-> p, awake |-> machine.awake, gen |-> 0, op |-> operation, ok |-> TRUE] \in Telemetry!Shape
    BY <2>1 DEF Telemetry!Shape
  <2>3. {machine.preparing} \cup (IF faults < TelemetryFaults THEN {query.before.preparing} ELSE {}) \subseteq BOOLEAN
    BY <2>1, Zenon
  <2> QED
    BY <2>2, <2>3 DEF Telemetry!read_state
<1>3. [Telemetry!Blank EXCEPT !.preparing = query.before.preparing] \in Telemetry!Shape
  BY <1>1, TelemetryBlankShape DEF Telemetry!Shape, Telemetry!Queries
<1>4. query' \in Telemetry!Queries
  <2>1. PICK r \in Telemetry!Shape : query' = [query EXCEPT !.reply = r]
    BY <1>2, <1>3
  <2> QED
    BY <2>1, <1>1 DEF Telemetry!Queries
<1> QED
  BY <1>4 DEF Telemetry!IInv, Telemetry!Shapes, Telemetry!OperationKnown, Telemetry!Newer, Telemetry!Shape

\* The compare-and-swap: a query that the record has left behind is dropped.
LEMMA TelemetryCommitsStep == ASSUME Telemetry!IInv, Telemetry!RefreshCommits PROVE Telemetry!IInv' /\ Telemetry!Newer
<1> USE DEF Telemetry!RefreshCommits
<1>1. query \in Telemetry!Queries /\ query.reply \in Telemetry!Shape /\ query.before \in Telemetry!Shape
  BY DEF Telemetry!IInv, Telemetry!Shapes, Telemetry!Queries
<1>2. CASE shown = query.before
  <2>1. shown' = Telemetry!commit_power_sleep(query.reply, 0)
    BY <1>2 DEF Telemetry!if_unchanged
  <2>2. shown' \in Telemetry!Shape /\ shown'.gen = shown.gen + 0 /\ shown'.op = shown.op
    BY <1>1, <2>1, TelemetryCommitKeeps DEF Telemetry!IInv
  <2>3. ~(shown.gen > query.before.gen)
    BY <1>1, <1>2 DEF Telemetry!Shape
  <2> QED
    BY <2>2, <2>3 DEF Telemetry!IInv, Telemetry!Shapes, Telemetry!OperationKnown, Telemetry!Newer, Telemetry!Shape
<1>3. CASE shown # query.before
  BY <1>3 DEF Telemetry!if_unchanged, Telemetry!IInv, Telemetry!Shapes, Telemetry!OperationKnown, Telemetry!Newer, Telemetry!Shape
<1> QED
  BY <1>2, <1>3

LEMMA TelemetryNextStep == ASSUME Telemetry!IInv, Telemetry!Next PROVE Telemetry!IInv' /\ Telemetry!Newer
BY TelemetryMachineStep, TelemetrySetKeepAwakeStep, TelemetryPublishStep, TelemetryRecordStep, TelemetryObserveEventStep, TelemetryObserveClockStep,
   TelemetryFallbackStep, TelemetryStartsStep, TelemetryReadsStep, TelemetryCommitsStep
DEF Telemetry!Next, Telemetry!Observe, Telemetry!Refresh

LEMMA TelemetryNextKeeps == ASSUME Telemetry!IInv, [Telemetry!Next]_(Telemetry!telemetryVars) PROVE Telemetry!IInv'
<1>1. CASE UNCHANGED Telemetry!telemetryVars
  BY <1>1 DEF Telemetry!telemetryVars, Telemetry!IInv, Telemetry!Shapes, Telemetry!OperationKnown
<1> QED
  BY <1>1, TelemetryNextStep

\* No writer of the published sleep state takes back a resume or an operation,
\* and a status query that a resume overtook changes nothing (state.rs
\* commit_power_sleep, update_power_sleep_if_unchanged), for any number of
\* sleeps and faults.
THEOREM TelemetryNeverRollsBack == Telemetry!Spec => Telemetry!NoRollback
<1>1. Telemetry!Init => Telemetry!IInv
  BY TelemetryInitHolds
<1>2. Telemetry!IInv /\ [Telemetry!Next]_(Telemetry!telemetryVars) => Telemetry!IInv'
  BY TelemetryNextKeeps
<1>3. Telemetry!IInv /\ [Telemetry!Next]_(Telemetry!telemetryVars) => [Telemetry!Newer]_(Telemetry!telemetryVars)
  BY TelemetryNextStep
<1> QED
  BY <1>1, <1>2, <1>3, PTL DEF Telemetry!Spec, Telemetry!NoRollback

\* The signals, the detector and the refresh mark keep their shapes as well.
LEMMA TelemetryWatched ==
  /\ Telemetry!Init => Telemetry!Watched
  /\ Telemetry!IInv /\ Telemetry!Watched /\ [Telemetry!Next]_(Telemetry!telemetryVars) => Telemetry!Watched'
<1> USE DEF Telemetry!Watched
<1>1. Telemetry!Init => Telemetry!Watched
  <2>1. <<"refresh">> \in Seq({"sleep", "wake", "refresh"})
    OBVIOUS
  <2>2. Telemetry!Init => /\ events = <<"refresh">> /\ clock = [base |-> 0, polled |-> FALSE]
                          /\ wanted = FALSE /\ faults = 0
    BY Zenon DEF Telemetry!Init
  <2>3. [base |-> 0, polled |-> FALSE] \in [base : Nat, polled : BOOLEAN]
    OBVIOUS
  <2> QED
    BY <2>1, <2>2, <2>3
<1>2. ASSUME Telemetry!IInv, Telemetry!Watched, [Telemetry!Next]_(Telemetry!telemetryVars) PROVE Telemetry!Watched'
  <2> USE <1>2
  <2>1. machine.offset \in Nat
    BY DEF Telemetry!IInv, Telemetry!Shapes
  <2>2. CASE Telemetry!Sleep \/ Telemetry!Wake
    <3>1. /\ UNCHANGED <<clock, wanted>> /\ (faults' = faults \/ faults' = faults + 1)
          /\ \E e \in {"sleep", "wake", "refresh"} : events' = Append(events, e)
      BY <2>2, Zenon DEF Telemetry!Sleep, Telemetry!Wake, Telemetry!Send
    <3> QED
      BY <3>1
  <2>3. CASE Telemetry!SetKeepAwake \/ Telemetry!ObserveFallback
    <3>1. /\ UNCHANGED <<events, clock>> /\ (wanted' = wanted \/ wanted' = TRUE)
          /\ (faults' = faults \/ faults' = faults + 1)
      BY <2>3, Zenon DEF Telemetry!SetKeepAwake, Telemetry!ObserveFallback
    <3>2. faults' \in Nat
      BY <3>1
    <3>3. wanted' \in BOOLEAN
      BY <3>1, Zenon
    <3>4. events' = events /\ clock' = clock
      BY <3>1, Zenon
    <3> QED
      BY <3>2, <3>3, <3>4, Zenon
  <2>4. CASE Telemetry!ObserveEvent
    <3>1. /\ events # <<>> /\ events' = Tail(events) /\ wanted' = TRUE /\ faults' = faults
          /\ (Telemetry!signal \/ clock' = clock)
      BY <2>4, Zenon DEF Telemetry!ObserveEvent
    <3>2. [base |-> machine.offset, polled |-> FALSE] \in [base : Nat, polled : BOOLEAN]
      BY <2>1
    <3>3. clock' \in [base : Nat, polled : BOOLEAN]
      BY <3>1, <3>2 DEF Telemetry!signal
    <3>4. Tail(events) \in Seq({"sleep", "wake", "refresh"})
      BY <3>1
    <3> QED
      BY <3>1, <3>3, <3>4
  <2>5. CASE Telemetry!ObserveClock
    <3>1. [base |-> machine.offset, polled |-> TRUE] \in [base : Nat, polled : BOOLEAN]
      BY <2>1
    <3>2. wanted' = TRUE /\ UNCHANGED <<events, faults>> /\ clock' \in {clock, [base |-> machine.offset, polled |-> TRUE]}
      BY <2>5 DEF Telemetry!ObserveClock, Telemetry!poll
    <3> QED
      BY <3>1, <3>2
  <2>6. CASE Telemetry!RecordOperation \/ Telemetry!PublishAction
    <3>1. UNCHANGED <<events, clock, wanted, faults>>
      BY <2>6, Zenon DEF Telemetry!RecordOperation, Telemetry!PublishAction
    <3> QED
      BY <3>1
  <2>7. CASE Telemetry!Refresh
    <3>1. CASE Telemetry!RefreshStarts \/ Telemetry!RefreshCommits
      <4>1. UNCHANGED <<events, clock, faults>> /\ (wanted' = FALSE \/ wanted' = TRUE \/ wanted' = wanted)
        BY <3>1, Zenon DEF Telemetry!RefreshStarts, Telemetry!RefreshCommits
      <4> QED
        BY <4>1
    <3>2. CASE Telemetry!RefreshReads
      <4>1. UNCHANGED <<events, clock, wanted>> /\ (faults' = faults \/ faults' = faults + 1)
        BY <3>2 DEF Telemetry!RefreshReads
      <4> QED
        BY <4>1
    <3> QED
      BY <2>7, <3>1, <3>2 DEF Telemetry!Refresh
  <2>8. CASE UNCHANGED Telemetry!telemetryVars
    BY <2>8 DEF Telemetry!telemetryVars
  <2> QED
    BY <2>2, <2>3, <2>4, <2>5, <2>6, <2>7, <2>8 DEF Telemetry!Next, Telemetry!Observe
<1> QED
  BY <1>1, <1>2

HIDE DEF machine, operation, events, clock, wanted, query, toggle, shown, faults


-----------------------------------------------------------------------------
(* The published place (TimezoneView).                                        *)

\* The variables of TimezoneView.
system == r1
status == r2
signals == r3
zoneSeen == r4
placeSeen == r5
statusSeen == r6
task == r7
shownZone == r8
envz == r9
USE DEF system, status, signals, zoneSeen, placeSeen, statusSeen, task, shownZone, envz

\* Properties of the shown place that follow from the invariant.
LEMMA TimezoneSafeFollows == ASSUME Timezone!TimezoneIInv PROVE Timezone!TimezoneSafe
BY DEF Timezone!TimezoneIInv, Timezone!Ages, Timezone!Whole, Timezone!TimezoneSafe

LEMMA TimezoneInitHolds == ASSUME Timezone!TimezoneInit PROVE Timezone!TimezoneIInv
<1>1. Timezone!NoPlace \in Timezone!Fixes /\ Timezone!NoPlace.accepted = 0 /\ Timezone!NoPlace.control = 0
  BY DEF Timezone!NoPlace, Timezone!Fixes
<1>2. Timezone!Shapes
  BY <1>1 DEF Timezone!TimezoneInit, Timezone!Shapes, Timezone!Cached, Timezone!Caches
<1> QED
  BY <1>1, <1>2 DEF Timezone!TimezoneInit, Timezone!TimezoneIInv, Timezone!Shapes, Timezone!Ages, Timezone!Halves, Timezone!Whole, Timezone!Cached

\* The system and what is outside the task.
LEMMA TimezoneWorldStep ==
  ASSUME Timezone!TimezoneIInv,
         \/ Timezone!AuthorityChange \/ Timezone!AuthorityReports
         \/ \E z \in Zones : Timezone!SetTimezone(z)
         \/ \E name \in {"Timedate", "Location"} : Timezone!OwnerAppears(name)
  PROVE  Timezone!TimezoneIInv' /\ Timezone!NotOlder
<1>1. UNCHANGED <<placeSeen, task, shownZone>>
  BY DEF Timezone!AuthorityChange, Timezone!AuthorityReports, Timezone!SetTimezone, Timezone!OwnerAppears
<1>2. system' \in [zone : Zones, revision : Nat \ {0}] /\ system.revision <= system'.revision
  BY DEF Timezone!TimezoneIInv, Timezone!Shapes, Timezone!AuthorityChange, Timezone!AuthorityReports, Timezone!SetTimezone, Timezone!OwnerAppears
<1>3. shownZone.place.accepted \in Nat /\ placeSeen.value.accepted \in Nat
      /\ task.half.accepted \in Nat /\ task.half.control \in Nat /\ system.revision \in Nat
      /\ system'.revision \in Nat
  BY <1>2 DEF Timezone!TimezoneIInv, Timezone!Shapes, Timezone!Caches, Timezone!Fixes
<1>4. Timezone!Shapes' /\ Timezone!Ages' /\ Timezone!Halves'
  BY <1>1, <1>2, <1>3 DEF Timezone!TimezoneIInv, Timezone!Shapes, Timezone!Ages, Timezone!Halves, Timezone!Whole
<1> QED
  BY <1>1, <1>3, <1>4 DEF Timezone!TimezoneIInv, Timezone!NotOlder

\* Steps of the task that touch neither the place kept nor the place shown.
LEMMA TimezoneQuietStep ==
  ASSUME Timezone!TimezoneIInv, Timezone!RefreshZone \/ Timezone!OnSignal \/ Timezone!LocalTick \/ Timezone!PollStatus
  PROVE  Timezone!TimezoneIInv' /\ Timezone!NotOlder
<1>1. UNCHANGED <<system, shownZone>> /\ task'.at \in {"control", "zone"}
  BY DEF Timezone!RefreshZone, Timezone!OnSignal, Timezone!LocalTick, Timezone!PollStatus, Timezone!Go, Timezone!TimezoneIInv, Timezone!Shapes
<1>2. task' \in [at : {"zone", "control", "accepted", "recheck", "publish", "select"},
                 half : Timezone!Fixes, dirty : BOOLEAN]
  BY DEF Timezone!RefreshZone, Timezone!OnSignal, Timezone!LocalTick, Timezone!PollStatus, Timezone!Go, Timezone!TimezoneIInv, Timezone!Shapes
<1>3. placeSeen' \in Timezone!Caches /\ placeSeen'.value = placeSeen.value
  BY DEF Timezone!RefreshZone, Timezone!OnSignal, Timezone!LocalTick, Timezone!PollStatus, Timezone!TimezoneIInv, Timezone!Shapes, Timezone!Caches
<1>4. Timezone!Shapes' /\ Timezone!Ages' /\ Timezone!Halves'
  BY <1>1, <1>2, <1>3 DEF Timezone!TimezoneIInv, Timezone!Shapes, Timezone!Ages, Timezone!Halves, Timezone!Whole
<1>5. shownZone.place.accepted \in Nat
  BY DEF Timezone!TimezoneIInv, Timezone!Shapes, Timezone!Fixes
<1> QED
  BY <1>1, <1>4, <1>5 DEF Timezone!TimezoneIInv, Timezone!NotOlder

LEMMA TimezoneReadControlStep == ASSUME Timezone!TimezoneIInv, Timezone!ReadControl PROVE Timezone!TimezoneIInv' /\ Timezone!NotOlder
<1>1. task \in [at : {"zone", "control", "accepted", "recheck", "publish", "select"},
                half : Timezone!Fixes, dirty : BOOLEAN]
  BY DEF Timezone!TimezoneIInv, Timezone!Shapes
<1>2. system.revision \in Nat
  BY DEF Timezone!TimezoneIInv, Timezone!Shapes
<1>3. UNCHANGED <<system, placeSeen, shownZone>> /\ shownZone.place.accepted \in Nat
  BY DEF Timezone!TimezoneIInv, Timezone!Shapes, Timezone!Fixes, Timezone!ReadControl
<1>4. Timezone!Shapes' /\ Timezone!Halves'
  <2>1. CASE placeSeen.pending
    <3>1. [accepted |-> 0, control |-> 0] \in Timezone!Fixes /\ [accepted |-> 0, control |-> system.revision] \in Timezone!Fixes
      BY <1>2 DEF Timezone!Fixes
    <3>2. PICK h \in Timezone!Fixes : /\ h.control \in {0, system.revision}
                                      /\ task' = [task EXCEPT !.at = "accepted", !.half = h]
      BY <2>1, <3>1 DEF Timezone!ReadControl
    <3>3. h.control <= system.revision
      BY <3>2, <1>2
    <3> QED
      BY <1>1, <1>3, <3>2, <3>3 DEF Timezone!TimezoneIInv, Timezone!Shapes, Timezone!Halves
  <2>2. CASE ~placeSeen.pending
    BY <1>1, <1>3, <2>2 DEF Timezone!TimezoneIInv, Timezone!Shapes, Timezone!Halves, Timezone!Go, Timezone!ReadControl
  <2> QED
    BY <2>1, <2>2
<1> QED
  BY <1>3, <1>4 DEF Timezone!TimezoneIInv, Timezone!Ages, Timezone!NotOlder, Timezone!Whole

LEMMA TimezoneReadAcceptedStep == ASSUME Timezone!TimezoneIInv, Timezone!ReadAccepted PROVE Timezone!TimezoneIInv' /\ Timezone!NotOlder
<1> USE DEF Timezone!ReadAccepted
<1>1. /\ task \in [at : {"zone", "control", "accepted", "recheck", "publish", "select"},
                   half : Timezone!Fixes, dirty : BOOLEAN]
      /\ system.revision \in Nat /\ task.half.control <= system.revision
      /\ placeSeen.value.accepted <= system.revision
  BY DEF Timezone!TimezoneIInv, Timezone!Shapes, Timezone!Halves, Timezone!Ages
<1>2. task'.half = [task.half EXCEPT !.accepted = system.revision] /\ task'.at = "recheck"
      /\ task'.dirty = task.dirty
  BY <1>1
<1>3. task' \in [at : {"zone", "control", "accepted", "recheck", "publish", "select"},
                 half : Timezone!Fixes, dirty : BOOLEAN]
      /\ task'.half.accepted = system.revision /\ task'.half.control = task.half.control
  BY <1>1 DEF Timezone!Fixes
<1>4. Timezone!Shapes' /\ Timezone!Halves'
  BY <1>1, <1>2, <1>3 DEF Timezone!TimezoneIInv, Timezone!Shapes, Timezone!Halves
<1> QED
  BY <1>4 DEF Timezone!TimezoneIInv, Timezone!Shapes, Timezone!Ages, Timezone!NotOlder, Timezone!Fixes, Timezone!Whole

\* A reading is kept only when its control is still the authority's: then the fix
\* in between belongs to it.
LEMMA TimezoneReadLocationStep == ASSUME Timezone!TimezoneIInv, Timezone!ReadLocation PROVE Timezone!TimezoneIInv' /\ Timezone!NotOlder
<1> USE DEF Timezone!ReadLocation
<1>1. /\ task \in [at : {"zone", "control", "accepted", "recheck", "publish", "select"},
                   half : Timezone!Fixes, dirty : BOOLEAN]
      /\ system.revision \in Nat /\ placeSeen \in Timezone!Caches /\ shownZone.place \in Timezone!Fixes
      /\ task.half.control <= task.half.accepted /\ task.half.accepted <= system.revision
      /\ placeSeen.value.accepted <= task.half.accepted
  BY DEF Timezone!TimezoneIInv, Timezone!Shapes, Timezone!Halves
<1>2. PICK lost \in BOOLEAN :
        /\ placeSeen' = Timezone!Completed(placeSeen, task.half, lost)
        /\ ~lost => ~Timezone!Torn(task.half)
  <2>1. PICK failed \in BOOLEAN : placeSeen' = Timezone!Completed(placeSeen, task.half, failed \/ Timezone!Torn(task.half))
    OBVIOUS
  <2>2. (failed \/ Timezone!Torn(task.half)) \in BOOLEAN
    BY DEF Timezone!Torn
  <2> QED
    BY <2>1, <2>2
<1>3. ~Timezone!Torn(task.half) => Timezone!Whole(task.half)
  BY <1>1 DEF Timezone!Torn, Timezone!Whole, Timezone!Fixes
<1>4. placeSeen' \in Timezone!Caches /\ placeSeen'.value = (IF lost THEN placeSeen.value ELSE task.half)
  BY <1>1, <1>2 DEF Timezone!Completed, Timezone!Caches
<1>5. Timezone!Ages'
  BY <1>1, <1>2, <1>3, <1>4 DEF Timezone!TimezoneIInv, Timezone!Ages, Timezone!Whole, Timezone!Caches, Timezone!Fixes
<1>6. Timezone!NoPlace \in Timezone!Fixes
  BY DEF Timezone!NoPlace, Timezone!Fixes
<1>7. Timezone!Shapes' /\ Timezone!Halves'
  BY <1>1, <1>4, <1>6 DEF Timezone!TimezoneIInv, Timezone!Shapes, Timezone!Halves
<1> QED
  BY <1>1, <1>5, <1>7 DEF Timezone!TimezoneIInv, Timezone!NotOlder, Timezone!Fixes

LEMMA TimezonePublishStep == ASSUME Timezone!TimezoneIInv, Timezone!Publish PROVE Timezone!TimezoneIInv' /\ Timezone!NotOlder
<1> USE DEF Timezone!Publish, Timezone!project
<1>1. shownZone'.place \in {shownZone.place, placeSeen.value}
  OBVIOUS
<1>2. shownZone.place.accepted \in Nat /\ placeSeen.value.accepted \in Nat /\ placeSeen.value \in Timezone!Fixes
      /\ shownZone.place \in Timezone!Fixes
  BY DEF Timezone!TimezoneIInv, Timezone!Shapes, Timezone!Caches, Timezone!Fixes
<1>3. Timezone!Ages' /\ Timezone!NotOlder
  BY <1>1, <1>2 DEF Timezone!TimezoneIInv, Timezone!Ages, Timezone!Whole, Timezone!NotOlder
<1>4. Timezone!Shapes' /\ Timezone!Halves'
  BY <1>1, <1>2 DEF Timezone!TimezoneIInv, Timezone!Shapes, Timezone!Halves
<1> QED
  BY <1>3, <1>4 DEF Timezone!TimezoneIInv

LEMMA TimezoneReconnectStep == ASSUME Timezone!TimezoneIInv, Timezone!Reconnect PROVE Timezone!TimezoneIInv' /\ Timezone!NotOlder
<1> USE DEF Timezone!Reconnect, Timezone!Retained
<1>1. /\ shownZone.place.accepted \in Nat /\ placeSeen.value.accepted \in Nat
      /\ system.revision \in Nat
  BY DEF Timezone!TimezoneIInv, Timezone!Shapes, Timezone!Caches, Timezone!Fixes
<1>2. PICK kept \in Timezone!Fixes : /\ kept.accepted = shownZone.place.accepted /\ kept.control = 0
                                     /\ placeSeen' = Timezone!Cached(kept) /\ shownZone'.place = kept
  <2>1. [accepted |-> shownZone.place.accepted, control |-> 0] \in Timezone!Fixes
    BY <1>1 DEF Timezone!Fixes
  <2> QED
    BY <2>1
<1>3. Timezone!Ages' /\ Timezone!NotOlder
  BY <1>1, <1>2 DEF Timezone!TimezoneIInv, Timezone!Ages, Timezone!Whole, Timezone!Cached, Timezone!NotOlder
<1>4. Timezone!NoPlace \in Timezone!Fixes
  BY DEF Timezone!NoPlace, Timezone!Fixes
<1>5. Timezone!Shapes' /\ Timezone!Halves'
  BY <1>2, <1>4 DEF Timezone!TimezoneIInv, Timezone!Shapes, Timezone!Halves, Timezone!Cached, Timezone!Caches
<1> QED
  BY <1>3, <1>5 DEF Timezone!TimezoneIInv

LEMMA TimezoneNextStep == ASSUME Timezone!TimezoneIInv, Timezone!TimezoneNext PROVE Timezone!TimezoneIInv' /\ Timezone!NotOlder
<1>1. CASE \/ Timezone!AuthorityChange \/ Timezone!AuthorityReports
           \/ \E z \in Zones : Timezone!SetTimezone(z)
           \/ \E name \in {"Timedate", "Location"} : Timezone!OwnerAppears(name)
  BY <1>1, TimezoneWorldStep
<1>2. CASE Timezone!RefreshZone \/ Timezone!OnSignal \/ Timezone!LocalTick \/ Timezone!PollStatus
  BY <1>2, TimezoneQuietStep
<1>3. CASE Timezone!ReadControl \/ Timezone!ReadAccepted \/ Timezone!ReadLocation
  BY <1>3, TimezoneReadControlStep, TimezoneReadAcceptedStep, TimezoneReadLocationStep
<1>4. CASE Timezone!Publish \/ Timezone!Reconnect
  BY <1>4, TimezonePublishStep, TimezoneReconnectStep
<1> QED
  BY <1>1, <1>2, <1>3, <1>4 DEF Timezone!TimezoneNext, Timezone!Reads

LEMMA TimezoneInvariantKept == ASSUME Timezone!TimezoneIInv, [Timezone!TimezoneNext]_(Timezone!timezoneVars) PROVE Timezone!TimezoneIInv'
<1>1. CASE UNCHANGED Timezone!timezoneVars
  BY <1>1 DEF Timezone!timezoneVars, Timezone!TimezoneIInv, Timezone!Shapes, Timezone!Ages, Timezone!Halves, Timezone!Whole
<1> QED
  BY <1>1, TimezoneNextStep

\* The fix and the policy that are published together belong to one revision of
\* the location daemon (timezone.rs read_location), for any number of revisions,
\* failed calls and reconnects.
THEOREM TimezonePlaceIsWhole == Timezone!TimezoneSpec => []Timezone!TimezoneSafe
<1>1. Timezone!TimezoneInit => Timezone!TimezoneIInv
  BY TimezoneInitHolds
<1>2. Timezone!TimezoneIInv /\ [Timezone!TimezoneNext]_(Timezone!timezoneVars) => Timezone!TimezoneIInv'
  BY TimezoneInvariantKept
<1>3. Timezone!TimezoneIInv => Timezone!TimezoneSafe
  BY TimezoneSafeFollows
<1> QED
  BY <1>1, <1>2, <1>3, PTL DEF Timezone!TimezoneSpec

\* What is published never goes back to an older fix (timezone.rs Cached::refresh
\* and the place kept over a reconnect).
THEOREM TimezonePlaceNeverOlder == Timezone!TimezoneSpec => Timezone!TimezoneSteps
<1>1. Timezone!TimezoneInit => Timezone!TimezoneIInv
  BY TimezoneInitHolds
<1>2. Timezone!TimezoneIInv /\ [Timezone!TimezoneNext]_(Timezone!timezoneVars) => Timezone!TimezoneIInv'
  BY TimezoneInvariantKept
<1>3. Timezone!TimezoneIInv /\ [Timezone!TimezoneNext]_(Timezone!timezoneVars) => [Timezone!NotOlder]_(Timezone!timezoneVars)
  BY TimezoneNextStep
<1> QED
  BY <1>1, <1>2, <1>3, PTL DEF Timezone!TimezoneSpec, Timezone!TimezoneSteps

\* The status file and its copy, the signals and the zone keep their shapes as well.
LEMMA TimezoneZones ==
  /\ Timezone!TimezoneInit => Timezone!ZoneShapes /\ envz \in Nat
  /\ Timezone!TimezoneIInv /\ Timezone!ZoneShapes /\ envz \in Nat /\ [Timezone!TimezoneNext]_(Timezone!timezoneVars)
       => Timezone!ZoneShapes' /\ envz' \in Nat
<1> USE DEF Timezone!ZoneShapes, Timezone!Statuses
<1>1. ASSUME Timezone!TimezoneInit PROVE Timezone!ZoneShapes /\ envz \in Nat
  <2>1. /\ status \in Timezone!Statuses /\ statusSeen \in Timezone!Statuses /\ signals = {} /\ envz \in Nat
    BY <1>1 DEF Timezone!TimezoneInit
  <2>2. zoneSeen \in [value : Zones \union {Timezone!None}, failed : BOOLEAN, pending : BOOLEAN]
    BY <1>1 DEF Timezone!TimezoneInit, Timezone!Cached
  <2>3. shownZone \in [zone : Zones \union {Timezone!None}, available : BOOLEAN, place : Timezone!Fixes]
    BY <1>1 DEF Timezone!TimezoneInit, Timezone!NoPlace, Timezone!Fixes
  <2> QED
    BY <2>1, <2>2, <2>3
<1>2. ASSUME Timezone!TimezoneIInv, Timezone!ZoneShapes, envz \in Nat, [Timezone!TimezoneNext]_(Timezone!timezoneVars)
      PROVE  Timezone!ZoneShapes' /\ envz' \in Nat
  <2> USE <1>2 DEF Timezone!Tick, Timezone!Fault
  <2>1. /\ system.zone \in Zones /\ system.revision \in Nat
        /\ placeSeen.value \in Timezone!Fixes
    BY DEF Timezone!TimezoneIInv, Timezone!Shapes, Timezone!Caches
  <2>2. CASE \/ Timezone!AuthorityChange \/ Timezone!AuthorityReports
             \/ \E z \in Zones : Timezone!SetTimezone(z)
    <3>1. /\ UNCHANGED <<statusSeen, zoneSeen, shownZone>> /\ (envz' = envz \/ envz' = envz + 1)
          /\ (signals' = signals \/ signals' = signals \union {"Timezone"})
      BY <2>2, Zenon DEF Timezone!AuthorityChange, Timezone!AuthorityReports, Timezone!SetTimezone
    <3>2. \/ status' = status \/ status' = [status EXCEPT !.revision = system.revision]
          \/ status' = [status EXCEPT !.message = ~status.message]
      BY <2>2, Zenon DEF Timezone!AuthorityChange, Timezone!AuthorityReports, Timezone!SetTimezone
    <3>3. status' \in [revision : Nat, message : BOOLEAN]
      BY <2>1, <3>2
    <3>4. envz' \in Nat
      BY <3>1
    <3>5. signals' \subseteq {"Timezone", "Timedate", "Location"}
      BY <3>1
    <3>6. statusSeen' = statusSeen /\ zoneSeen' = zoneSeen /\ shownZone' = shownZone
      BY <3>1, Zenon
    <3> QED
      BY <3>3, <3>4, <3>5, <3>6, Zenon
  <2>3. CASE \E name \in {"Timedate", "Location"} : Timezone!OwnerAppears(name)
    BY <2>3 DEF Timezone!OwnerAppears
  <2>4. CASE Timezone!RefreshZone
    <3>1. /\ UNCHANGED <<status, statusSeen, signals, shownZone>> /\ (envz' = envz \/ envz' = envz + 1)
          /\ (zoneSeen' = zoneSeen \/ \E failed \in BOOLEAN : zoneSeen' = Timezone!Completed(zoneSeen, system.zone, failed))
      BY <2>4, Zenon DEF Timezone!RefreshZone
    <3>2. \A failed \in BOOLEAN : Timezone!Completed(zoneSeen, system.zone, failed)
                \in [value : Zones \union {Timezone!None}, failed : BOOLEAN, pending : BOOLEAN]
      BY <2>1 DEF Timezone!Completed
    <3> QED
      BY <3>1, <3>2
  <2>5. CASE Timezone!ReadControl \/ Timezone!ReadAccepted \/ Timezone!ReadLocation \/ Timezone!LocalTick
    <3>1. UNCHANGED <<status, statusSeen, signals, zoneSeen, shownZone>> /\ (envz' = envz \/ envz' = envz + 1)
      BY <2>5, Zenon DEF Timezone!ReadControl, Timezone!ReadAccepted, Timezone!ReadLocation, Timezone!LocalTick
    <3> QED
      BY <3>1
  <2>6. CASE Timezone!Publish
    <3>1. Timezone!project \in [zone : Zones \union {Timezone!None}, available : BOOLEAN, place : Timezone!Fixes]
      BY <2>1 DEF Timezone!project
    <3> QED
      BY <2>6, <3>1 DEF Timezone!Publish
  <2>7. CASE Timezone!OnSignal \/ Timezone!PollStatus
    BY <2>7 DEF Timezone!OnSignal, Timezone!PollStatus
  <2>8. CASE Timezone!Reconnect
    <3>1. Timezone!Retained \in Nat
      BY DEF Timezone!Retained, Timezone!Fixes
    <3>2. shownZone' \in [zone : Zones \union {Timezone!None}, available : BOOLEAN, place : Timezone!Fixes]
      BY <2>8, <3>1 DEF Timezone!Reconnect, Timezone!Fixes
    <3> QED
      BY <2>8, <3>2 DEF Timezone!Reconnect, Timezone!Cached
  <2>9. CASE UNCHANGED Timezone!timezoneVars
    BY <2>9 DEF Timezone!timezoneVars
  <2> QED
    BY <2>2, <2>3, <2>4, <2>5, <2>6, <2>7, <2>8, <2>9 DEF Timezone!TimezoneNext, Timezone!Reads
<1> QED
  BY <1>1, <1>2

HIDE DEF system, status, signals, zoneSeen, placeSeen, statusSeen, task, shownZone, envz

-----------------------------------------------------------------------------
(* Power profiles (PowerAutomation).                                          *)

\* The variables of PowerAutomation.
ppd == r1
powerBattery == r2
run == r3
file == r4
cookie == r5
link == r6
powerStep == r7
pinned == r8
ours == r9
lateSelect == r10
envp == r11
powerTaken == r12
USE DEF ppd, powerBattery, run, file, cookie, link, powerStep, pinned, ours, lateSelect, envp, powerTaken, Power!Holdable

LEMMA PowerGoTyped == ASSUME Power!PowerShapes, NEW a \in Power!Calls PROVE Power!Go(a) \in Power!Holders /\ Power!Go(a).at = a
BY DEF Power!PowerShapes, Power!Holders, Power!Go

LEMMA PowerIdleTyped == Power!Idle \in Power!Holders /\ Power!Idle.at = "idle" /\ [Power!Idle EXCEPT !.at = "observe"] \in Power!Holders
BY DEF Power!Idle, Power!Holders, Power!Calls, Power!None

LEMMA PowerAttachKeeps == ASSUME Power!PowerIInv, Power!attach PROVE Power!PowerIInv' /\ Power!ActsOnItsOwn
<1> USE DEF Power!attach, Power!PowerIInv, Power!None
<1>1. Power!PowerShapes'
  <2>1. ppd' \in [sel : Power!Profiles, own : {Power!None} \union Power!Holdable, other : {Power!None} \union Power!Holdable]
    BY DEF Power!PowerShapes, Power!PowerTypeOK, Power!Runs, Power!Profiles, Power!NoteInv
  <2>2. run' \in Power!Runs /\ file' \in Power!Runs
    BY DEF Power!PowerShapes, Power!Holders, Power!PowerTypeOK, Power!Runs, Power!Profiles
  <2>3. cookie' \in {Power!None} \union Power!Holdable /\ pinned' \in BOOLEAN /\ ours' \in BOOLEAN /\ lateSelect' \in BOOLEAN
    BY DEF Power!PowerShapes, Power!PowerTypeOK
  <2>4. link' \in [up : BOOLEAN, loaded : BOOLEAN, renewed : BOOLEAN, bail : BOOLEAN]
    BY DEF Power!PowerShapes
  <2>5. powerStep' \in Power!Holders
    BY PowerIdleTyped DEF Power!PowerShapes, Power!Idle
  <2>6. /\ powerStep'.at \in {"srelease", "sset"} => powerStep'.profile \in Power!Profiles
        /\ powerStep'.at = "hold" => powerStep'.profile \in Power!Holdable
    BY DEF Power!PowerShapes, Power!Holders, Power!Idle
  <2> QED
    BY <2>1, <2>2, <2>3, <2>4, <2>5, <2>6 DEF Power!PowerShapes, Power!PowerTypeOK
<1>2. Power!ConnectionInv'
  BY DEF Power!PowerShapes, Power!Holders, Power!ConnectionInv, Power!Idle
<1>3. Power!HoldInv'
  BY DEF Power!PowerShapes, Power!Holders, Power!PowerTypeOK, Power!ConnectionInv, Power!HoldInv, Power!Idle
<1>4. Power!NoteInv'
  BY DEF Power!PowerShapes, Power!Holders, Power!PowerTypeOK, Power!Profiles, Power!Runs, Power!ConnectionInv, Power!NoteInv, Power!Idle
<1>5. Power!PauseInv'
  BY DEF Power!PowerShapes, Power!Holders, Power!PowerTypeOK, Power!Profiles, Power!Runs, Power!ConnectionInv, Power!NoteInv, Power!PauseInv, Power!Idle
<1>6. Power!ActsOnItsOwn
  BY DEF Power!ActsOnItsOwn, Power!DaemonActs, Power!ConnectionInv, Power!PauseInv, Power!PowerShapes, Power!Holders, Power!Idle
<1> QED
  BY <1>1, <1>2, <1>3, <1>4, <1>5, <1>6

LEMMA PowerDetachKeeps == ASSUME Power!PowerIInv, Power!detach PROVE Power!PowerIInv' /\ Power!ActsOnItsOwn
<1> USE DEF Power!detach, Power!PowerIInv, Power!None
<1>1. Power!PowerShapes'
  <2>1. ppd' \in [sel : Power!Profiles, own : {Power!None} \union Power!Holdable, other : {Power!None} \union Power!Holdable]
    BY DEF Power!PowerShapes, Power!PowerTypeOK, Power!Runs, Power!Profiles, Power!NoteInv
  <2>2. run' \in Power!Runs /\ file' \in Power!Runs
    BY DEF Power!PowerShapes, Power!Holders, Power!PowerTypeOK, Power!Runs, Power!Profiles
  <2>3. cookie' \in {Power!None} \union Power!Holdable /\ pinned' \in BOOLEAN /\ ours' \in BOOLEAN /\ lateSelect' \in BOOLEAN
    BY DEF Power!PowerShapes, Power!PowerTypeOK
  <2>4. link' \in [up : BOOLEAN, loaded : BOOLEAN, renewed : BOOLEAN, bail : BOOLEAN]
    BY DEF Power!PowerShapes
  <2>5. powerStep' \in Power!Holders
    BY PowerIdleTyped DEF Power!PowerShapes, Power!Idle
  <2>6. /\ powerStep'.at \in {"srelease", "sset"} => powerStep'.profile \in Power!Profiles
        /\ powerStep'.at = "hold" => powerStep'.profile \in Power!Holdable
    BY DEF Power!PowerShapes, Power!Holders, Power!Idle
  <2> QED
    BY <2>1, <2>2, <2>3, <2>4, <2>5, <2>6 DEF Power!PowerShapes, Power!PowerTypeOK
<1>2. Power!ConnectionInv'
  BY DEF Power!PowerShapes, Power!Holders, Power!ConnectionInv, Power!Idle
<1>3. Power!HoldInv'
  BY DEF Power!PowerShapes, Power!Holders, Power!PowerTypeOK, Power!ConnectionInv, Power!HoldInv, Power!Idle
<1>4. Power!NoteInv'
  BY DEF Power!PowerShapes, Power!Holders, Power!PowerTypeOK, Power!Profiles, Power!Runs, Power!ConnectionInv, Power!NoteInv, Power!Idle
<1>5. Power!PauseInv'
  BY DEF Power!PowerShapes, Power!Holders, Power!PowerTypeOK, Power!Profiles, Power!Runs, Power!ConnectionInv, Power!NoteInv, Power!PauseInv, Power!Idle
<1>6. Power!ActsOnItsOwn
  BY DEF Power!ActsOnItsOwn, Power!DaemonActs, Power!ConnectionInv, Power!PauseInv, Power!PowerShapes, Power!Holders, Power!Idle
<1> QED
  BY <1>1, <1>2, <1>3, <1>4, <1>5, <1>6

LEMMA PowerBeginKeeps == ASSUME Power!PowerIInv, Power!Begin PROVE Power!PowerIInv' /\ Power!ActsOnItsOwn
<1> USE DEF Power!Begin, Power!PowerIInv, Power!None
<1>1. Power!PowerShapes'
  <2>1. ppd' \in [sel : Power!Profiles, own : {Power!None} \union Power!Holdable, other : {Power!None} \union Power!Holdable]
    BY DEF Power!PowerShapes, Power!PowerTypeOK, Power!Runs, Power!Profiles, Power!NoteInv
  <2>2. run' \in Power!Runs /\ file' \in Power!Runs
    BY DEF Power!PowerShapes, Power!Holders, Power!PowerTypeOK, Power!Runs, Power!Profiles
  <2>3. cookie' \in {Power!None} \union Power!Holdable /\ pinned' \in BOOLEAN /\ ours' \in BOOLEAN /\ lateSelect' \in BOOLEAN
    BY DEF Power!PowerShapes, Power!PowerTypeOK
  <2>4. link' \in [up : BOOLEAN, loaded : BOOLEAN, renewed : BOOLEAN, bail : BOOLEAN]
    BY DEF Power!PowerShapes
  <2>5. powerStep' \in Power!Holders
    BY PowerIdleTyped DEF Power!PowerShapes, Power!Idle
  <2>6. /\ powerStep'.at \in {"srelease", "sset"} => powerStep'.profile \in Power!Profiles
        /\ powerStep'.at = "hold" => powerStep'.profile \in Power!Holdable
    BY DEF Power!PowerShapes, Power!Holders, Power!Idle
  <2> QED
    BY <2>1, <2>2, <2>3, <2>4, <2>5, <2>6 DEF Power!PowerShapes, Power!PowerTypeOK
<1>2. Power!ConnectionInv'
  BY DEF Power!PowerShapes, Power!Holders, Power!ConnectionInv, Power!Idle
<1>3. Power!HoldInv'
  BY DEF Power!PowerShapes, Power!Holders, Power!PowerTypeOK, Power!ConnectionInv, Power!HoldInv, Power!Idle
<1>4. Power!NoteInv'
  BY DEF Power!PowerShapes, Power!Holders, Power!PowerTypeOK, Power!Profiles, Power!Runs, Power!ConnectionInv, Power!NoteInv, Power!Idle
<1>5. Power!PauseInv'
  BY DEF Power!PowerShapes, Power!Holders, Power!PowerTypeOK, Power!Profiles, Power!Runs, Power!ConnectionInv, Power!NoteInv, Power!PauseInv, Power!Idle
<1>6. Power!ActsOnItsOwn
  BY DEF Power!ActsOnItsOwn, Power!DaemonActs, Power!ConnectionInv, Power!PauseInv, Power!PowerShapes, Power!Holders, Power!Idle
<1> QED
  BY <1>1, <1>2, <1>3, <1>4, <1>5, <1>6

LEMMA PowerServiceRestartKeeps == ASSUME Power!PowerIInv, Power!ServiceRestart PROVE Power!PowerIInv' /\ Power!ActsOnItsOwn
<1> USE DEF Power!ServiceRestart, Power!Tick, Power!Between, Power!PowerIInv, Power!None
<1>1. Power!PowerShapes'
  <2>1. ppd' \in [sel : Power!Profiles, own : {Power!None} \union Power!Holdable, other : {Power!None} \union Power!Holdable]
    BY DEF Power!PowerShapes, Power!PowerTypeOK, Power!Runs, Power!Profiles, Power!NoteInv
  <2>2. run' \in Power!Runs /\ file' \in Power!Runs
    BY DEF Power!PowerShapes, Power!Holders, Power!PowerTypeOK, Power!Runs, Power!Profiles
  <2>3. cookie' \in {Power!None} \union Power!Holdable /\ pinned' \in BOOLEAN /\ ours' \in BOOLEAN /\ lateSelect' \in BOOLEAN
    BY DEF Power!PowerShapes, Power!PowerTypeOK
  <2>4. link' \in [up : BOOLEAN, loaded : BOOLEAN, renewed : BOOLEAN, bail : BOOLEAN]
    BY DEF Power!PowerShapes
  <2>5. powerStep' \in Power!Holders
    BY PowerIdleTyped DEF Power!PowerShapes, Power!Idle
  <2>6. /\ powerStep'.at \in {"srelease", "sset"} => powerStep'.profile \in Power!Profiles
        /\ powerStep'.at = "hold" => powerStep'.profile \in Power!Holdable
    BY DEF Power!PowerShapes, Power!Holders, Power!Idle
  <2> QED
    BY <2>1, <2>2, <2>3, <2>4, <2>5, <2>6 DEF Power!PowerShapes, Power!PowerTypeOK
<1>2. Power!ConnectionInv'
  BY DEF Power!PowerShapes, Power!Holders, Power!ConnectionInv, Power!Idle
<1>3. Power!HoldInv'
  BY DEF Power!PowerShapes, Power!Holders, Power!PowerTypeOK, Power!ConnectionInv, Power!HoldInv, Power!Idle
<1>4. Power!NoteInv'
  BY DEF Power!PowerShapes, Power!Holders, Power!PowerTypeOK, Power!Profiles, Power!Runs, Power!ConnectionInv, Power!NoteInv, Power!Idle
<1>5. Power!PauseInv'
  BY DEF Power!PowerShapes, Power!Holders, Power!PowerTypeOK, Power!Profiles, Power!Runs, Power!ConnectionInv, Power!NoteInv, Power!PauseInv, Power!Idle
<1>6. Power!ActsOnItsOwn
  BY DEF Power!ActsOnItsOwn, Power!DaemonActs, Power!ConnectionInv, Power!PauseInv, Power!PowerShapes, Power!Holders, Power!Idle
<1> QED
  BY <1>1, <1>2, <1>3, <1>4, <1>5, <1>6

LEMMA PowerCrashKeeps == ASSUME Power!PowerIInv, Power!Crash PROVE Power!PowerIInv' /\ Power!ActsOnItsOwn
<1> USE DEF Power!Crash, Power!Tick, Power!FreshRun, Power!PowerIInv, Power!None
<1>1. Power!PowerShapes'
  <2>1. ppd' \in [sel : Power!Profiles, own : {Power!None} \union Power!Holdable, other : {Power!None} \union Power!Holdable]
    BY DEF Power!PowerShapes, Power!PowerTypeOK, Power!Runs, Power!Profiles, Power!NoteInv
  <2>2. run' \in Power!Runs /\ file' \in Power!Runs
    BY DEF Power!PowerShapes, Power!Holders, Power!PowerTypeOK, Power!Runs, Power!Profiles
  <2>3. cookie' \in {Power!None} \union Power!Holdable /\ pinned' \in BOOLEAN /\ ours' \in BOOLEAN /\ lateSelect' \in BOOLEAN
    BY DEF Power!PowerShapes, Power!PowerTypeOK
  <2>4. link' \in [up : BOOLEAN, loaded : BOOLEAN, renewed : BOOLEAN, bail : BOOLEAN]
    BY DEF Power!PowerShapes
  <2>5. powerStep' \in Power!Holders
    BY PowerIdleTyped DEF Power!PowerShapes, Power!Idle
  <2>6. /\ powerStep'.at \in {"srelease", "sset"} => powerStep'.profile \in Power!Profiles
        /\ powerStep'.at = "hold" => powerStep'.profile \in Power!Holdable
    BY DEF Power!PowerShapes, Power!Holders, Power!Idle
  <2> QED
    BY <2>1, <2>2, <2>3, <2>4, <2>5, <2>6 DEF Power!PowerShapes, Power!PowerTypeOK
<1>2. Power!ConnectionInv'
  BY DEF Power!PowerShapes, Power!Holders, Power!ConnectionInv, Power!Idle
<1>3. Power!HoldInv'
  BY DEF Power!PowerShapes, Power!Holders, Power!PowerTypeOK, Power!ConnectionInv, Power!HoldInv, Power!Idle
<1>4. Power!NoteInv'
  BY DEF Power!PowerShapes, Power!Holders, Power!PowerTypeOK, Power!Profiles, Power!Runs, Power!ConnectionInv, Power!NoteInv, Power!Idle
<1>5. Power!PauseInv'
  BY DEF Power!PowerShapes, Power!Holders, Power!PowerTypeOK, Power!Profiles, Power!Runs, Power!ConnectionInv, Power!NoteInv, Power!PauseInv, Power!Idle
<1>6. Power!ActsOnItsOwn
  BY DEF Power!ActsOnItsOwn, Power!DaemonActs, Power!ConnectionInv, Power!PauseInv, Power!PowerShapes, Power!Holders, Power!Idle
<1> QED
  BY <1>1, <1>2, <1>3, <1>4, <1>5, <1>6

LEMMA PowerReleaseKeeps == ASSUME Power!PowerIInv, Power!release PROVE Power!PowerIInv' /\ Power!ActsOnItsOwn
<1> USE DEF Power!release, Power!Release, Power!Fault, Power!Tick, Power!desired, Power!PowerIInv, Power!None
<1>1. Power!PowerShapes'
  <2>1. ppd' \in [sel : Power!Profiles, own : {Power!None} \union Power!Holdable, other : {Power!None} \union Power!Holdable]
    BY DEF Power!PowerShapes, Power!PowerTypeOK, Power!Runs, Power!Profiles, Power!NoteInv
  <2>2. run' \in Power!Runs /\ file' \in Power!Runs
    BY DEF Power!PowerShapes, Power!Holders, Power!PowerTypeOK, Power!Runs, Power!Profiles
  <2>3. cookie' \in {Power!None} \union Power!Holdable /\ pinned' \in BOOLEAN /\ ours' \in BOOLEAN /\ lateSelect' \in BOOLEAN
    BY DEF Power!PowerShapes, Power!PowerTypeOK
  <2>4. link' \in [up : BOOLEAN, loaded : BOOLEAN, renewed : BOOLEAN, bail : BOOLEAN]
    BY DEF Power!PowerShapes
  <2>5. powerStep' \in Power!Holders
    <3>1. powerStep' \in {Power!Idle, Power!Go("restore")}
      OBVIOUS
    <3>2. {"restore"} \subseteq Power!Calls
      BY DEF Power!Calls
    <3> QED
      BY <3>1, <3>2, PowerGoTyped, PowerIdleTyped
  <2>6. /\ powerStep'.at \in {"srelease", "sset"} => powerStep'.profile \in Power!Profiles
        /\ powerStep'.at = "hold" => powerStep'.profile \in Power!Holdable
    BY DEF Power!PowerShapes, Power!Holders, Power!Idle, Power!Go
  <2> QED
    BY <2>1, <2>2, <2>3, <2>4, <2>5, <2>6 DEF Power!PowerShapes, Power!PowerTypeOK
<1>2. Power!ConnectionInv'
  BY DEF Power!PowerShapes, Power!Holders, Power!ConnectionInv, Power!Idle, Power!Go
<1>3. Power!HoldInv'
  BY DEF Power!PowerShapes, Power!Holders, Power!PowerTypeOK, Power!ConnectionInv, Power!HoldInv, Power!Idle, Power!Go
<1>4. Power!NoteInv'
  BY DEF Power!PowerShapes, Power!Holders, Power!PowerTypeOK, Power!Profiles, Power!Runs, Power!ConnectionInv, Power!NoteInv, Power!Idle, Power!Go
<1>5. Power!PauseInv'
  BY DEF Power!PowerShapes, Power!Holders, Power!PowerTypeOK, Power!Profiles, Power!Runs, Power!ConnectionInv, Power!NoteInv, Power!PauseInv, Power!Idle, Power!Go
<1>6. Power!ActsOnItsOwn
  BY DEF Power!ActsOnItsOwn, Power!DaemonActs, Power!ConnectionInv, Power!PauseInv, Power!PowerShapes, Power!Holders, Power!Idle, Power!Go
<1> QED
  BY <1>1, <1>2, <1>3, <1>4, <1>5, <1>6

LEMMA PowerRestoreBalancedKeeps == ASSUME Power!PowerIInv, Power!restore_balanced PROVE Power!PowerIInv' /\ Power!ActsOnItsOwn
<1> USE DEF Power!restore_balanced, Power!Persist, Power!Fault, Power!NoHolds, Power!effective, Power!PowerIInv, Power!None
<1>1. Power!PowerShapes'
  <2>1. ppd' \in [sel : Power!Profiles, own : {Power!None} \union Power!Holdable, other : {Power!None} \union Power!Holdable]
    BY DEF Power!PowerShapes, Power!PowerTypeOK, Power!Runs, Power!Profiles, Power!NoteInv
  <2>2. run' \in Power!Runs /\ file' \in Power!Runs
    BY DEF Power!PowerShapes, Power!Holders, Power!PowerTypeOK, Power!Runs, Power!Profiles
  <2>3. cookie' \in {Power!None} \union Power!Holdable /\ pinned' \in BOOLEAN /\ ours' \in BOOLEAN /\ lateSelect' \in BOOLEAN
    BY DEF Power!PowerShapes, Power!PowerTypeOK
  <2>4. link' \in [up : BOOLEAN, loaded : BOOLEAN, renewed : BOOLEAN, bail : BOOLEAN]
    BY DEF Power!PowerShapes
  <2>5. powerStep' \in Power!Holders
    <3>1. powerStep' \in {Power!Idle, Power!Go("apply"), Power!Go("restoring")}
      OBVIOUS
    <3>2. {"apply", "restoring"} \subseteq Power!Calls
      BY DEF Power!Calls
    <3> QED
      BY <3>1, <3>2, PowerGoTyped, PowerIdleTyped
  <2>6. /\ powerStep'.at \in {"srelease", "sset"} => powerStep'.profile \in Power!Profiles
        /\ powerStep'.at = "hold" => powerStep'.profile \in Power!Holdable
    BY DEF Power!PowerShapes, Power!Holders, Power!Idle, Power!Go
  <2> QED
    BY <2>1, <2>2, <2>3, <2>4, <2>5, <2>6 DEF Power!PowerShapes, Power!PowerTypeOK
<1>2. Power!ConnectionInv'
  BY DEF Power!PowerShapes, Power!Holders, Power!ConnectionInv, Power!Idle, Power!Go
<1>3. Power!HoldInv'
  BY DEF Power!PowerShapes, Power!Holders, Power!PowerTypeOK, Power!ConnectionInv, Power!HoldInv, Power!Idle, Power!Go
<1>4. Power!NoteInv'
  BY DEF Power!PowerShapes, Power!Holders, Power!PowerTypeOK, Power!Profiles, Power!Runs, Power!ConnectionInv, Power!NoteInv, Power!Idle, Power!Go
<1>5. Power!PauseInv'
  BY DEF Power!PowerShapes, Power!Holders, Power!PowerTypeOK, Power!Profiles, Power!Runs, Power!ConnectionInv, Power!NoteInv, Power!PauseInv, Power!Idle, Power!Go
<1>6. Power!ActsOnItsOwn
  BY DEF Power!ActsOnItsOwn, Power!DaemonActs, Power!ConnectionInv, Power!PauseInv, Power!PowerShapes, Power!Holders, Power!Idle, Power!Go
<1> QED
  BY <1>1, <1>2, <1>3, <1>4, <1>5, <1>6

LEMMA PowerRestoringKeeps == ASSUME Power!PowerIInv, Power!Restoring PROVE Power!PowerIInv' /\ Power!ActsOnItsOwn
<1> USE DEF Power!Restoring, Power!SetActive, Power!Persist, Power!Fault, Power!PowerIInv, Power!None
<1>1. Power!PowerShapes'
  <2>1. ppd' \in [sel : Power!Profiles, own : {Power!None} \union Power!Holdable, other : {Power!None} \union Power!Holdable]
    BY DEF Power!PowerShapes, Power!PowerTypeOK, Power!Runs, Power!Profiles, Power!NoteInv
  <2>2. run' \in Power!Runs /\ file' \in Power!Runs
    BY DEF Power!PowerShapes, Power!Holders, Power!PowerTypeOK, Power!Runs, Power!Profiles
  <2>3. cookie' \in {Power!None} \union Power!Holdable /\ pinned' \in BOOLEAN /\ ours' \in BOOLEAN /\ lateSelect' \in BOOLEAN
    BY DEF Power!PowerShapes, Power!PowerTypeOK
  <2>4. link' \in [up : BOOLEAN, loaded : BOOLEAN, renewed : BOOLEAN, bail : BOOLEAN]
    BY DEF Power!PowerShapes
  <2>5. powerStep' \in Power!Holders
    <3>1. powerStep' \in {Power!Idle, Power!Go("apply")}
      OBVIOUS
    <3>2. {"apply"} \subseteq Power!Calls
      BY DEF Power!Calls
    <3> QED
      BY <3>1, <3>2, PowerGoTyped, PowerIdleTyped
  <2>6. /\ powerStep'.at \in {"srelease", "sset"} => powerStep'.profile \in Power!Profiles
        /\ powerStep'.at = "hold" => powerStep'.profile \in Power!Holdable
    BY DEF Power!PowerShapes, Power!Holders, Power!Idle, Power!Go
  <2> QED
    BY <2>1, <2>2, <2>3, <2>4, <2>5, <2>6 DEF Power!PowerShapes, Power!PowerTypeOK
<1>2. Power!ConnectionInv'
  BY DEF Power!PowerShapes, Power!Holders, Power!ConnectionInv, Power!Idle, Power!Go
<1>3. Power!HoldInv'
  BY DEF Power!PowerShapes, Power!Holders, Power!PowerTypeOK, Power!ConnectionInv, Power!HoldInv, Power!Idle, Power!Go
<1>4. Power!NoteInv'
  BY DEF Power!PowerShapes, Power!Holders, Power!PowerTypeOK, Power!Profiles, Power!Runs, Power!ConnectionInv, Power!NoteInv, Power!Idle, Power!Go
<1>5. Power!PauseInv'
  BY DEF Power!PowerShapes, Power!Holders, Power!PowerTypeOK, Power!Profiles, Power!Runs, Power!ConnectionInv, Power!NoteInv, Power!PauseInv, Power!Idle, Power!Go
<1>6. Power!ActsOnItsOwn
  BY DEF Power!ActsOnItsOwn, Power!DaemonActs, Power!ConnectionInv, Power!PauseInv, Power!PowerShapes, Power!Holders, Power!Idle, Power!Go
<1> QED
  BY <1>1, <1>2, <1>3, <1>4, <1>5, <1>6

\* Only an unpaused automation goes on from here, with the note it needs on disk.
LEMMA PowerApplyProfileKeeps == ASSUME Power!PowerIInv, Power!apply_profile PROVE Power!PowerIInv' /\ Power!ActsOnItsOwn
<1> DEFINE held == [Power!Go("hold") EXCEPT !.profile = Power!desired]
           noted == [run EXCEPT !.restore = Power!effective]
<1>1. powerStep.at = "apply" /\ lateSelect' = FALSE /\ UNCHANGED <<ppd, powerBattery, cookie, link, pinned, ours>>
  BY DEF Power!apply_profile
<1>2. \/ run' = run /\ file' = file /\ powerStep' = Power!Idle
      \/ run' = run /\ file' = file /\ Power!desired \in Power!Holdable /\ powerStep' = held
      \/ /\ Power!desired = "balanced" /\ Power!NoHolds /\ run.restore = Power!None /\ Power!effective # "balanced"
         /\ run' = noted /\ file' = noted /\ powerStep' = Power!Go("applying")
  BY DEF Power!apply_profile, Power!Holds
<1>3. /\ run \in Power!Runs /\ file \in Power!Runs /\ ppd.sel \in Power!Profiles /\ powerStep \in Power!Holders
  BY DEF Power!PowerIInv, Power!PowerShapes, Power!PowerTypeOK
<1>4. Power!desired # Power!None => ~run.override
  BY DEF Power!desired
<1>5. Power!effective \in Power!Profiles /\ (Power!NoHolds => Power!effective = ppd.sel)
  BY <1>3 DEF Power!effective, Power!NoHolds, Power!None, Power!Profiles
<1>6. Power!desired \in Power!Holdable => Power!desired \in Power!Profiles /\ Power!desired # Power!None
  BY DEF Power!Profiles, Power!None
<1>7. noted \in Power!Runs /\ noted.restore = Power!effective /\ noted.override = run.override /\ noted.level = run.level
  BY <1>3, <1>5 DEF Power!Runs
<1>8. Power!desired \in Power!Holdable => held \in Power!Holders /\ held.at = "hold" /\ held.profile = Power!desired
  BY <1>3, <1>6 DEF Power!Go, Power!Holders, Power!Calls
<1>9. Power!Go("applying") \in Power!Holders /\ Power!Go("applying").at = "applying"
  <2>1. "applying" \in Power!Calls
    BY DEF Power!Calls
  <2> QED
    BY <2>1, PowerGoTyped DEF Power!PowerIInv
<1>10. "balanced" # Power!None /\ \A p \in Power!Profiles : p # Power!None
  BY DEF Power!None, Power!Profiles
<1>11. link.up /\ link.loaded
  BY <1>1 DEF Power!PowerIInv, Power!ConnectionInv, Power!Idle
<1> HIDE DEF held, noted
<1>12. /\ powerStep' \in Power!Holders /\ powerStep'.at \in {"idle", "hold", "applying"}
       /\ powerStep'.at = "hold" => powerStep'.profile \in Power!Holdable
       /\ powerStep'.at \in {"hold", "applying"} => ~run'.override
       /\ powerStep'.at = "applying" => /\ run'.restore # Power!None /\ file'.restore # Power!None
                                        /\ Power!NoHolds /\ ppd.sel # "balanced"
  BY <1>2, <1>4, <1>5, <1>6, <1>7, <1>8, <1>9, <1>10, PowerIdleTyped
<1>13. /\ run' \in Power!Runs /\ file' \in Power!Runs /\ run'.override = run.override /\ run'.level = run.level
       /\ (file' = file /\ run' = run) \/ (file' = run' /\ powerStep'.at = "applying")
       /\ run.restore # Power!None => run'.restore # Power!None
  BY <1>2, <1>3, <1>7, <1>9
<1>14. Power!PowerShapes'
  <2>1. Power!PowerShapes
    BY DEF Power!PowerIInv
  <2>2. Power!PowerTypeOK'
    BY <1>1, <1>13, <2>1, Zenon DEF Power!PowerShapes, Power!PowerTypeOK
  <2>3. /\ link' \in [up : BOOLEAN, loaded : BOOLEAN, renewed : BOOLEAN, bail : BOOLEAN]
        /\ pinned' \in BOOLEAN /\ ours' \in BOOLEAN /\ lateSelect' \in BOOLEAN
    BY <1>1, <2>1, Zenon DEF Power!PowerShapes
  <2>4. powerStep'.at \notin {"srelease", "sset"}
    BY <1>12
  <2> QED
    BY <1>12, <2>2, <2>3, <2>4, Zenon DEF Power!PowerShapes
<1>15. Power!ConnectionInv' /\ Power!HoldInv'
  BY <1>1, <1>11, <1>12 DEF Power!PowerIInv, Power!ConnectionInv, Power!HoldInv
<1>16. Power!NoteInv'
  BY <1>1, <1>11, <1>12, <1>13 DEF Power!PowerIInv, Power!NoteInv
<1>17. Power!PauseInv'
  <2>1. ppd.other = Power!None \/ powerStep'.at # "applying"
    BY <1>12 DEF Power!NoHolds
  <2>2. pinned => run.override
    BY <1>11 DEF Power!PowerIInv, Power!PauseInv
  <2> QED
    BY <1>1, <1>11, <1>12, <1>13, <2>1, <2>2 DEF Power!PowerIInv, Power!PauseInv
<1> QED
  BY <1>1, <1>14, <1>15, <1>16, <1>17 DEF Power!PowerIInv, Power!ActsOnItsOwn, Power!DaemonActs

LEMMA PowerApplyingKeeps == ASSUME Power!PowerIInv, Power!Applying PROVE Power!PowerIInv' /\ Power!ActsOnItsOwn
<1> USE DEF Power!Applying, Power!SetActive, Power!PowerIInv, Power!None
<1>1. Power!PowerShapes'
  <2>1. ppd' \in [sel : Power!Profiles, own : {Power!None} \union Power!Holdable, other : {Power!None} \union Power!Holdable]
    BY DEF Power!PowerShapes, Power!PowerTypeOK, Power!Runs, Power!Profiles, Power!NoteInv
  <2>2. run' \in Power!Runs /\ file' \in Power!Runs
    BY DEF Power!PowerShapes, Power!Holders, Power!PowerTypeOK, Power!Runs, Power!Profiles
  <2>3. cookie' \in {Power!None} \union Power!Holdable /\ pinned' \in BOOLEAN /\ ours' \in BOOLEAN /\ lateSelect' \in BOOLEAN
    BY DEF Power!PowerShapes, Power!PowerTypeOK
  <2>4. link' \in [up : BOOLEAN, loaded : BOOLEAN, renewed : BOOLEAN, bail : BOOLEAN]
    BY DEF Power!PowerShapes
  <2>5. powerStep' \in Power!Holders
    BY PowerIdleTyped DEF Power!PowerShapes, Power!Idle
  <2>6. /\ powerStep'.at \in {"srelease", "sset"} => powerStep'.profile \in Power!Profiles
        /\ powerStep'.at = "hold" => powerStep'.profile \in Power!Holdable
    BY DEF Power!PowerShapes, Power!Holders, Power!Idle
  <2> QED
    BY <2>1, <2>2, <2>3, <2>4, <2>5, <2>6 DEF Power!PowerShapes, Power!PowerTypeOK
<1>2. Power!ConnectionInv'
  BY DEF Power!PowerShapes, Power!Holders, Power!ConnectionInv, Power!Idle
<1>3. Power!HoldInv'
  BY DEF Power!PowerShapes, Power!Holders, Power!PowerTypeOK, Power!ConnectionInv, Power!HoldInv, Power!Idle
<1>4. Power!NoteInv'
  BY DEF Power!PowerShapes, Power!Holders, Power!PowerTypeOK, Power!Profiles, Power!Runs, Power!ConnectionInv, Power!NoteInv, Power!Idle
<1>5. Power!PauseInv'
  BY DEF Power!PowerShapes, Power!Holders, Power!PowerTypeOK, Power!Profiles, Power!Runs, Power!ConnectionInv, Power!NoteInv, Power!PauseInv, Power!Idle
<1>6. Power!ActsOnItsOwn
  BY DEF Power!ActsOnItsOwn, Power!DaemonActs, Power!ConnectionInv, Power!PauseInv, Power!PowerShapes, Power!Holders, Power!Idle
<1> QED
  BY <1>1, <1>2, <1>3, <1>4, <1>5, <1>6

LEMMA PowerHoldKeeps == ASSUME Power!PowerIInv, Power!Hold PROVE Power!PowerIInv' /\ Power!ActsOnItsOwn
<1> USE DEF Power!Hold, Power!PowerIInv, Power!None
<1>1. Power!PowerShapes'
  <2>1. ppd' \in [sel : Power!Profiles, own : {Power!None} \union Power!Holdable, other : {Power!None} \union Power!Holdable]
    BY DEF Power!PowerShapes, Power!PowerTypeOK, Power!Runs, Power!Profiles, Power!NoteInv
  <2>2. run' \in Power!Runs /\ file' \in Power!Runs
    BY DEF Power!PowerShapes, Power!Holders, Power!PowerTypeOK, Power!Runs, Power!Profiles
  <2>3. cookie' \in {Power!None} \union Power!Holdable /\ pinned' \in BOOLEAN /\ ours' \in BOOLEAN /\ lateSelect' \in BOOLEAN
    BY DEF Power!PowerShapes, Power!PowerTypeOK
  <2>4. link' \in [up : BOOLEAN, loaded : BOOLEAN, renewed : BOOLEAN, bail : BOOLEAN]
    BY DEF Power!PowerShapes
  <2>5. powerStep' \in Power!Holders
    BY PowerIdleTyped DEF Power!PowerShapes, Power!Idle
  <2>6. /\ powerStep'.at \in {"srelease", "sset"} => powerStep'.profile \in Power!Profiles
        /\ powerStep'.at = "hold" => powerStep'.profile \in Power!Holdable
    BY DEF Power!PowerShapes, Power!Holders, Power!Idle
  <2> QED
    BY <2>1, <2>2, <2>3, <2>4, <2>5, <2>6 DEF Power!PowerShapes, Power!PowerTypeOK
<1>2. Power!ConnectionInv'
  BY DEF Power!PowerShapes, Power!Holders, Power!ConnectionInv, Power!Idle
<1>3. Power!HoldInv'
  BY DEF Power!PowerShapes, Power!Holders, Power!PowerTypeOK, Power!ConnectionInv, Power!HoldInv, Power!Idle
<1>4. Power!NoteInv'
  BY DEF Power!PowerShapes, Power!Holders, Power!PowerTypeOK, Power!Profiles, Power!Runs, Power!ConnectionInv, Power!NoteInv, Power!Idle
<1>5. Power!PauseInv'
  BY DEF Power!PowerShapes, Power!Holders, Power!PowerTypeOK, Power!Profiles, Power!Runs, Power!ConnectionInv, Power!NoteInv, Power!PauseInv, Power!Idle
<1>6. Power!ActsOnItsOwn
  BY DEF Power!ActsOnItsOwn, Power!DaemonActs, Power!ConnectionInv, Power!PauseInv, Power!PowerShapes, Power!Holders, Power!Idle
<1> QED
  BY <1>1, <1>2, <1>3, <1>4, <1>5, <1>6

LEMMA PowerSelectReleaseKeeps == ASSUME Power!PowerIInv, Power!SelectRelease PROVE Power!PowerIInv' /\ Power!ActsOnItsOwn
<1> USE DEF Power!SelectRelease, Power!Release, Power!PowerIInv, Power!None
<1>1. Power!PowerShapes'
  <2>1. ppd' \in [sel : Power!Profiles, own : {Power!None} \union Power!Holdable, other : {Power!None} \union Power!Holdable]
    BY DEF Power!PowerShapes, Power!PowerTypeOK, Power!Runs, Power!Profiles, Power!NoteInv
  <2>2. run' \in Power!Runs /\ file' \in Power!Runs
    BY DEF Power!PowerShapes, Power!Holders, Power!PowerTypeOK, Power!Runs, Power!Profiles
  <2>3. cookie' \in {Power!None} \union Power!Holdable /\ pinned' \in BOOLEAN /\ ours' \in BOOLEAN /\ lateSelect' \in BOOLEAN
    BY DEF Power!PowerShapes, Power!PowerTypeOK
  <2>4. link' \in [up : BOOLEAN, loaded : BOOLEAN, renewed : BOOLEAN, bail : BOOLEAN]
    BY DEF Power!PowerShapes
  <2>5. powerStep' \in Power!Holders
    <3>1. powerStep' \in {Power!Go("sset"), Power!Go("undo")}
      OBVIOUS
    <3>2. {"sset", "undo"} \subseteq Power!Calls
      BY DEF Power!Calls
    <3> QED
      BY <3>1, <3>2, PowerGoTyped, PowerIdleTyped
  <2>6. /\ powerStep'.at \in {"srelease", "sset"} => powerStep'.profile \in Power!Profiles
        /\ powerStep'.at = "hold" => powerStep'.profile \in Power!Holdable
    BY DEF Power!PowerShapes, Power!Holders, Power!Idle, Power!Go
  <2> QED
    BY <2>1, <2>2, <2>3, <2>4, <2>5, <2>6 DEF Power!PowerShapes, Power!PowerTypeOK
<1>2. Power!ConnectionInv'
  BY DEF Power!PowerShapes, Power!Holders, Power!ConnectionInv, Power!Idle, Power!Go
<1>3. Power!HoldInv'
  BY DEF Power!PowerShapes, Power!Holders, Power!PowerTypeOK, Power!ConnectionInv, Power!HoldInv, Power!Idle, Power!Go
<1>4. Power!NoteInv'
  BY DEF Power!PowerShapes, Power!Holders, Power!PowerTypeOK, Power!Profiles, Power!Runs, Power!ConnectionInv, Power!NoteInv, Power!Idle, Power!Go
<1>5. Power!PauseInv'
  BY DEF Power!PowerShapes, Power!Holders, Power!PowerTypeOK, Power!Profiles, Power!Runs, Power!ConnectionInv, Power!NoteInv, Power!PauseInv, Power!Idle, Power!Go
<1>6. Power!ActsOnItsOwn
  BY DEF Power!ActsOnItsOwn, Power!DaemonActs, Power!ConnectionInv, Power!PauseInv, Power!PowerShapes, Power!Holders, Power!Idle, Power!Go
<1> QED
  BY <1>1, <1>2, <1>3, <1>4, <1>5, <1>6

LEMMA PowerSelectSetKeeps == ASSUME Power!PowerIInv, Power!SelectSet PROVE Power!PowerIInv' /\ Power!ActsOnItsOwn
<1> USE DEF Power!SelectSet, Power!SetActive, Power!Undo, Power!PowerIInv, Power!None
<1>1. Power!PowerShapes'
  <2>1. ppd' \in [sel : Power!Profiles, own : {Power!None} \union Power!Holdable, other : {Power!None} \union Power!Holdable]
    BY DEF Power!PowerShapes, Power!PowerTypeOK, Power!Runs, Power!Profiles, Power!NoteInv
  <2>2. run' \in Power!Runs /\ file' \in Power!Runs
    BY DEF Power!PowerShapes, Power!Holders, Power!PowerTypeOK, Power!Runs, Power!Profiles
  <2>3. cookie' \in {Power!None} \union Power!Holdable /\ pinned' \in BOOLEAN /\ ours' \in BOOLEAN /\ lateSelect' \in BOOLEAN
    BY DEF Power!PowerShapes, Power!PowerTypeOK
  <2>4. link' \in [up : BOOLEAN, loaded : BOOLEAN, renewed : BOOLEAN, bail : BOOLEAN]
    BY DEF Power!PowerShapes
  <2>5. powerStep' \in Power!Holders
    <3>1. powerStep' \in {Power!Go("undo"), Power!Go("ssave")}
      OBVIOUS
    <3>2. {"undo", "ssave"} \subseteq Power!Calls
      BY DEF Power!Calls
    <3> QED
      BY <3>1, <3>2, PowerGoTyped, PowerIdleTyped
  <2>6. /\ powerStep'.at \in {"srelease", "sset"} => powerStep'.profile \in Power!Profiles
        /\ powerStep'.at = "hold" => powerStep'.profile \in Power!Holdable
    BY DEF Power!PowerShapes, Power!Holders, Power!Idle, Power!Go
  <2> QED
    BY <2>1, <2>2, <2>3, <2>4, <2>5, <2>6 DEF Power!PowerShapes, Power!PowerTypeOK
<1>2. Power!ConnectionInv'
  BY DEF Power!PowerShapes, Power!Holders, Power!ConnectionInv, Power!Idle, Power!Go
<1>3. Power!HoldInv'
  BY DEF Power!PowerShapes, Power!Holders, Power!PowerTypeOK, Power!ConnectionInv, Power!HoldInv, Power!Idle, Power!Go
<1>4. Power!NoteInv'
  BY DEF Power!PowerShapes, Power!Holders, Power!PowerTypeOK, Power!Profiles, Power!Runs, Power!ConnectionInv, Power!NoteInv, Power!Idle, Power!Go
<1>5. Power!PauseInv'
  BY DEF Power!PowerShapes, Power!Holders, Power!PowerTypeOK, Power!Profiles, Power!Runs, Power!ConnectionInv, Power!NoteInv, Power!PauseInv, Power!Idle, Power!Go
<1>6. Power!ActsOnItsOwn
  BY DEF Power!ActsOnItsOwn, Power!DaemonActs, Power!ConnectionInv, Power!PauseInv, Power!PowerShapes, Power!Holders, Power!Idle, Power!Go
<1> QED
  BY <1>1, <1>2, <1>3, <1>4, <1>5, <1>6

LEMMA PowerSelectSaveKeeps == ASSUME Power!PowerIInv, Power!SelectSave PROVE Power!PowerIInv' /\ Power!ActsOnItsOwn
<1> USE DEF Power!SelectSave, Power!Persist, Power!PowerIInv, Power!None
<1>1. Power!PowerShapes'
  <2>1. ppd' \in [sel : Power!Profiles, own : {Power!None} \union Power!Holdable, other : {Power!None} \union Power!Holdable]
    BY DEF Power!PowerShapes, Power!PowerTypeOK, Power!Runs, Power!Profiles, Power!NoteInv
  <2>2. run' \in Power!Runs /\ file' \in Power!Runs
    BY DEF Power!PowerShapes, Power!Holders, Power!PowerTypeOK, Power!Runs, Power!Profiles
  <2>3. cookie' \in {Power!None} \union Power!Holdable /\ pinned' \in BOOLEAN /\ ours' \in BOOLEAN /\ lateSelect' \in BOOLEAN
    BY DEF Power!PowerShapes, Power!PowerTypeOK
  <2>4. link' \in [up : BOOLEAN, loaded : BOOLEAN, renewed : BOOLEAN, bail : BOOLEAN]
    BY DEF Power!PowerShapes
  <2>5. powerStep' \in Power!Holders
    <3>1. powerStep' \in {Power!Idle}
      OBVIOUS
    <3> QED
      BY <3>1, PowerIdleTyped
  <2>6. /\ powerStep'.at \in {"srelease", "sset"} => powerStep'.profile \in Power!Profiles
        /\ powerStep'.at = "hold" => powerStep'.profile \in Power!Holdable
    BY DEF Power!PowerShapes, Power!Holders, Power!Idle
  <2> QED
    BY <2>1, <2>2, <2>3, <2>4, <2>5, <2>6 DEF Power!PowerShapes, Power!PowerTypeOK
<1>2. Power!ConnectionInv'
  BY DEF Power!PowerShapes, Power!Holders, Power!ConnectionInv, Power!Idle
<1>3. Power!HoldInv'
  BY DEF Power!PowerShapes, Power!Holders, Power!PowerTypeOK, Power!ConnectionInv, Power!HoldInv, Power!Idle
<1>4. Power!NoteInv'
  BY DEF Power!PowerShapes, Power!Holders, Power!PowerTypeOK, Power!Profiles, Power!Runs, Power!ConnectionInv, Power!NoteInv, Power!Idle
<1>5. Power!PauseInv'
  BY DEF Power!PowerShapes, Power!Holders, Power!PowerTypeOK, Power!Profiles, Power!Runs, Power!ConnectionInv, Power!NoteInv, Power!PauseInv, Power!Idle
<1>6. Power!ActsOnItsOwn
  BY DEF Power!ActsOnItsOwn, Power!DaemonActs, Power!ConnectionInv, Power!PauseInv, Power!PowerShapes, Power!Holders, Power!Idle
<1> QED
  BY <1>1, <1>2, <1>3, <1>4, <1>5, <1>6

LEMMA PowerUndoingKeeps == ASSUME Power!PowerIInv, Power!Undoing PROVE Power!PowerIInv' /\ Power!ActsOnItsOwn
<1> USE DEF Power!Undoing, Power!Persist, Power!PowerIInv, Power!None
<1>1. Power!PowerShapes'
  <2>1. ppd' \in [sel : Power!Profiles, own : {Power!None} \union Power!Holdable, other : {Power!None} \union Power!Holdable]
    BY DEF Power!PowerShapes, Power!PowerTypeOK, Power!Runs, Power!Profiles, Power!NoteInv
  <2>2. run' \in Power!Runs /\ file' \in Power!Runs
    BY DEF Power!PowerShapes, Power!Holders, Power!PowerTypeOK, Power!Runs, Power!Profiles
  <2>3. cookie' \in {Power!None} \union Power!Holdable /\ pinned' \in BOOLEAN /\ ours' \in BOOLEAN /\ lateSelect' \in BOOLEAN
    BY DEF Power!PowerShapes, Power!PowerTypeOK
  <2>4. link' \in [up : BOOLEAN, loaded : BOOLEAN, renewed : BOOLEAN, bail : BOOLEAN]
    BY DEF Power!PowerShapes
  <2>5. powerStep' \in Power!Holders
    <3>1. powerStep' \in {Power!Idle, [Power!Idle EXCEPT !.at = "observe"]}
      OBVIOUS
    <3> QED
      BY <3>1, PowerIdleTyped
  <2>6. /\ powerStep'.at \in {"srelease", "sset"} => powerStep'.profile \in Power!Profiles
        /\ powerStep'.at = "hold" => powerStep'.profile \in Power!Holdable
    BY DEF Power!PowerShapes, Power!Holders, Power!Idle
  <2> QED
    BY <2>1, <2>2, <2>3, <2>4, <2>5, <2>6 DEF Power!PowerShapes, Power!PowerTypeOK
<1>2. Power!ConnectionInv'
  BY DEF Power!PowerShapes, Power!Holders, Power!ConnectionInv, Power!Idle
<1>3. Power!HoldInv'
  BY DEF Power!PowerShapes, Power!Holders, Power!PowerTypeOK, Power!ConnectionInv, Power!HoldInv, Power!Idle
<1>4. Power!NoteInv'
  BY DEF Power!PowerShapes, Power!Holders, Power!PowerTypeOK, Power!Profiles, Power!Runs, Power!ConnectionInv, Power!NoteInv, Power!Idle
<1>5. Power!PauseInv'
  BY DEF Power!PowerShapes, Power!Holders, Power!PowerTypeOK, Power!Profiles, Power!Runs, Power!ConnectionInv, Power!NoteInv, Power!PauseInv, Power!Idle
<1>6. Power!ActsOnItsOwn
  BY DEF Power!ActsOnItsOwn, Power!DaemonActs, Power!ConnectionInv, Power!PauseInv, Power!PowerShapes, Power!Holders, Power!Idle
<1> QED
  BY <1>1, <1>2, <1>3, <1>4, <1>5, <1>6

LEMMA PowerResumeKeeps == ASSUME Power!PowerIInv, Power!resume PROVE Power!PowerIInv' /\ Power!ActsOnItsOwn
<1> USE DEF Power!resume, Power!TakeCall, Power!Persist, Power!PowerIInv, Power!None
<1>1. Power!PowerShapes'
  <2>1. ppd' \in [sel : Power!Profiles, own : {Power!None} \union Power!Holdable, other : {Power!None} \union Power!Holdable]
    BY DEF Power!PowerShapes, Power!PowerTypeOK, Power!Runs, Power!Profiles, Power!NoteInv
  <2>2. run' \in Power!Runs /\ file' \in Power!Runs
    BY DEF Power!PowerShapes, Power!Holders, Power!PowerTypeOK, Power!Runs, Power!Profiles
  <2>3. cookie' \in {Power!None} \union Power!Holdable /\ pinned' \in BOOLEAN /\ ours' \in BOOLEAN /\ lateSelect' \in BOOLEAN
    BY DEF Power!PowerShapes, Power!PowerTypeOK
  <2>4. link' \in [up : BOOLEAN, loaded : BOOLEAN, renewed : BOOLEAN, bail : BOOLEAN]
    BY DEF Power!PowerShapes
  <2>5. powerStep' \in Power!Holders
    <3>1. powerStep' \in {Power!Idle, [Power!Idle EXCEPT !.at = "observe"]}
      OBVIOUS
    <3> QED
      BY <3>1, PowerIdleTyped
  <2>6. /\ powerStep'.at \in {"srelease", "sset"} => powerStep'.profile \in Power!Profiles
        /\ powerStep'.at = "hold" => powerStep'.profile \in Power!Holdable
    BY DEF Power!PowerShapes, Power!Holders, Power!Idle
  <2> QED
    BY <2>1, <2>2, <2>3, <2>4, <2>5, <2>6 DEF Power!PowerShapes, Power!PowerTypeOK
<1>2. Power!ConnectionInv'
  BY DEF Power!PowerShapes, Power!Holders, Power!ConnectionInv, Power!Idle
<1>3. Power!HoldInv'
  BY DEF Power!PowerShapes, Power!Holders, Power!PowerTypeOK, Power!ConnectionInv, Power!HoldInv, Power!Idle
<1>4. Power!NoteInv'
  BY DEF Power!PowerShapes, Power!Holders, Power!PowerTypeOK, Power!Profiles, Power!Runs, Power!ConnectionInv, Power!NoteInv, Power!Idle
<1>5. Power!PauseInv'
  BY DEF Power!PowerShapes, Power!Holders, Power!PowerTypeOK, Power!Profiles, Power!Runs, Power!ConnectionInv, Power!NoteInv, Power!PauseInv, Power!Idle
<1>6. Power!ActsOnItsOwn
  BY DEF Power!ActsOnItsOwn, Power!DaemonActs, Power!ConnectionInv, Power!PauseInv, Power!PowerShapes, Power!Holders, Power!Idle
<1> QED
  BY <1>1, <1>2, <1>3, <1>4, <1>5, <1>6

LEMMA PowerObserveExternalSelectionKeeps == ASSUME Power!PowerIInv, Power!observe_external_selection PROVE Power!PowerIInv' /\ Power!ActsOnItsOwn
<1> DEFINE known == IF link.renewed THEN Power!None ELSE cookie
           lost == known # Power!None /\ ppd.own = Power!None
           replaced == run.restore # Power!None /\ Power!effective # "balanced" /\ Power!NoHolds
           r == [run EXCEPT !.restore = IF replaced THEN Power!None ELSE @, !.override = (run.level # "normal")]
<1>1. /\ UNCHANGED <<ppd, powerBattery, pinned, ours, lateSelect>> /\ powerStep.at = "external"
      /\ powerStep' \in {Power!Idle, Power!Go("release")} /\ cookie' = (IF lost THEN Power!None ELSE known)
      /\ link' = [link EXCEPT !.renewed = FALSE]
      /\ (run' = run /\ file' = file) \/ (run' = r /\ file' \in {file, r})
  BY DEF Power!observe_external_selection, Power!Persist
<1>2. /\ run \in Power!Runs /\ file \in Power!Runs /\ cookie \in {Power!None} \union Power!Holdable
      /\ link \in [up : BOOLEAN, loaded : BOOLEAN, renewed : BOOLEAN, bail : BOOLEAN]
  BY DEF Power!PowerIInv, Power!PowerShapes, Power!PowerTypeOK
<1>3. /\ r \in Power!Runs /\ r.level = run.level /\ r.override = (run.level # "normal")
      /\ r.restore \in {Power!None, run.restore} /\ (ppd.sel = "balanced" => r.restore = run.restore)
  <2>1. replaced => ppd.sel # "balanced"
    BY DEF Power!effective, Power!NoHolds, Power!None
  <2> HIDE DEF replaced
  <2> QED
    BY <1>2, <2>1 DEF Power!Runs
<1> HIDE DEF r, replaced
<1>4. powerStep' \in Power!Holders /\ powerStep'.at \in {"idle", "release"}
  <2>1. "release" \in Power!Calls
    BY DEF Power!Calls
  <2> QED
    BY <1>1, <2>1, PowerGoTyped, PowerIdleTyped DEF Power!PowerIInv
<1>5. link.up /\ link.loaded
  BY <1>1 DEF Power!PowerIInv, Power!ConnectionInv, Power!Idle
<1>6. /\ link' \in [up : BOOLEAN, loaded : BOOLEAN, renewed : BOOLEAN, bail : BOOLEAN]
      /\ link'.up /\ link'.loaded /\ ~link'.renewed /\ link'.bail = link.bail
  BY <1>1, <1>2, <1>5
<1>7. Power!PowerShapes'
  BY <1>1, <1>2, <1>3, <1>4, <1>6 DEF Power!PowerIInv, Power!PowerShapes, Power!PowerTypeOK
<1>8. Power!ConnectionInv' /\ Power!HoldInv'
  BY <1>1, <1>4, <1>5, <1>6 DEF Power!PowerIInv, Power!ConnectionInv, Power!HoldInv, Power!None
<1>9. Power!NoteInv'
  BY <1>1, <1>3, <1>4, <1>5, <1>6 DEF Power!PowerIInv, Power!NoteInv
<1>10. Power!PauseInv'
  BY <1>1, <1>3, <1>4, <1>5, <1>6 DEF Power!PowerIInv, Power!PauseInv
<1> QED
  BY <1>1, <1>7, <1>8, <1>9, <1>10 DEF Power!PowerIInv, Power!ActsOnItsOwn, Power!DaemonActs

LEMMA PowerobservedIs ==
  ASSUME Power!PowerIInv, NEW s
  PROVE  /\ Power!observed(s) \in Power!Runs /\ Power!observed(s).restore = run.restore
         /\ Power!observed(s).override => Power!observed(s).level # "normal" /\ run.override
         /\ run.override /\ ~Power!Recovering(s) => Power!observed(s).override
<1>1. run \in Power!Runs
  BY DEF Power!PowerIInv, Power!PowerShapes, Power!PowerTypeOK
<1>2. Power!PauseInv
  BY DEF Power!PowerIInv
<1>3. CASE ~s.known
  BY <1>1, <1>2, <1>3 DEF Power!observed, Power!PauseInv
<1>4. CASE s.known
  <2> DEFINE l == Power!observe_level(run.level, s)
  <2>1. l \in {"normal", "low", "critical"}
    BY DEF Power!observe_level
  <2> HIDE DEF l
  <2>2. Power!observed(s) = [run EXCEPT !.level = l, !.override = (@ /\ l # "normal")]
    BY <1>4 DEF Power!observed, l
  <2>3. Power!observed(s) \in Power!Runs /\ Power!observed(s).level = l /\ Power!observed(s).override = (run.override /\ l # "normal")
        /\ Power!observed(s).restore = run.restore
    BY <1>1, <2>1, <2>2 DEF Power!Runs
  <2> QED
    BY <1>4, <2>3 DEF Power!Recovering
<1> QED
  BY <1>3, <1>4

\* The battery is seen and the level saved.
LEMMA PowerReconcileKeeps == ASSUME Power!PowerIInv, Power!reconcile PROVE Power!PowerIInv' /\ Power!ActsOnItsOwn
<1>1. /\ UNCHANGED <<ppd, powerBattery, cookie, link, ours, lateSelect>> /\ pinned' = (pinned /\ ~Power!Recovering(powerTaken.held))
      /\ powerStep.at = "observe" /\ powerStep' \in {Power!Idle, Power!Go("external")} /\ run' = Power!observed(powerTaken.held)
      /\ file' \in {file, Power!observed(powerTaken.held)}
  BY DEF Power!reconcile, Power!Persist
<1>2. powerStep' \in Power!Holders /\ powerStep'.at \in {"idle", "external"} /\ link.up /\ link.loaded
  <2>1. "external" \in Power!Calls
    BY DEF Power!Calls
  <2>2. link.up /\ link.loaded
    BY <1>1 DEF Power!PowerIInv, Power!ConnectionInv, Power!Idle
  <2> QED
    BY <1>1, <2>1, <2>2, PowerGoTyped, PowerIdleTyped DEF Power!PowerIInv
<1> DEFINE o == Power!observed(powerTaken.held)
<1>3. /\ o \in Power!Runs /\ o.restore = run.restore /\ (o.override => o.level # "normal" /\ run.override)
      /\ (run.override /\ ~Power!Recovering(powerTaken.held) => o.override)
  BY PowerobservedIs
<1> HIDE DEF o
<1>4. run' = o /\ file' \in {file, o}
  BY <1>1 DEF o
<1>5. Power!PowerShapes'
  BY <1>1, <1>2, <1>3, <1>4 DEF Power!PowerIInv, Power!PowerShapes, Power!PowerTypeOK
<1>6. Power!ConnectionInv' /\ Power!HoldInv'
  BY <1>1, <1>2 DEF Power!PowerIInv, Power!ConnectionInv, Power!HoldInv
<1>7. Power!NoteInv'
  BY <1>1, <1>2, <1>3, <1>4 DEF Power!PowerIInv, Power!NoteInv
<1>8. Power!PauseInv'
  BY <1>1, <1>2, <1>3, <1>4 DEF Power!PowerIInv, Power!PauseInv
<1> QED
  BY <1>1, <1>5, <1>6, <1>7, <1>8 DEF Power!PowerIInv, Power!ActsOnItsOwn, Power!DaemonActs

\* A manual selection starts with a durable pause.
LEMMA PowerSelectManualKeeps ==
  ASSUME Power!PowerIInv, NEW p \in Power!Profiles, Power!select_manual(p) PROVE Power!PowerIInv' /\ Power!ActsOnItsOwn
<1>0. PICK s \in powerTaken.call :
          /\ \/ /\ run' = [Power!observed(s) EXCEPT !.override = (Power!observed(s).level # "normal")] /\ file' = run'
                /\ powerStep' = [at |-> "srelease", profile |-> p, was |-> Power!observed(s).override]
             \/ run' = Power!observed(s) /\ UNCHANGED <<file, powerStep>>
          /\ link.up /\ powerStep = Power!Idle
          /\ pinned' = (pinned /\ ~Power!Recovering(s))
          /\ UNCHANGED <<ppd, powerBattery, cookie, link, ours, lateSelect>>
  BY DEF Power!select_manual, Power!TakeCall
<1> DEFINE o == Power!observed(s)
           chosen == [at |-> "srelease", profile |-> p, was |-> o.override]
           paused == [o EXCEPT !.override = (o.level # "normal")]
<1>1. /\ UNCHANGED <<ppd, powerBattery, cookie, link, ours, lateSelect>> /\ pinned' = (pinned /\ ~Power!Recovering(s))
      /\ powerStep = Power!Idle /\ link.up
      /\ \/ run' = paused /\ file' = paused /\ powerStep' = chosen
         \/ run' = o /\ file' = file /\ powerStep' = powerStep
  BY <1>0
<1>2. /\ o \in Power!Runs /\ o.restore = run.restore /\ (o.override => o.level # "normal" /\ run.override)
      /\ (run.override /\ ~Power!Recovering(s) => o.override)
  BY PowerobservedIs
<1> HIDE DEF o
<1>3. paused \in Power!Runs /\ paused.restore = run.restore /\ paused.level = o.level
      /\ paused.override = (o.level # "normal")
  BY <1>2 DEF Power!Runs
<1>4. chosen \in Power!Holders /\ chosen.at = "srelease" /\ chosen.profile = p /\ chosen.was = o.override
  BY <1>2 DEF Power!Holders, Power!Calls, Power!Runs
<1>5. powerStep.at = "idle"
  BY <1>1 DEF Power!Idle
<1> HIDE DEF paused, chosen
<1>6. Power!PowerShapes'
  BY <1>1, <1>2, <1>3, <1>4 DEF Power!PowerIInv, Power!PowerShapes, Power!PowerTypeOK
<1>7. Power!ConnectionInv' /\ Power!HoldInv'
  BY <1>1, <1>4, <1>5 DEF Power!PowerIInv, Power!ConnectionInv, Power!HoldInv
<1>8. Power!NoteInv'
  BY <1>1, <1>2, <1>3, <1>4, <1>5 DEF Power!PowerIInv, Power!NoteInv, Power!ConnectionInv
<1>9. Power!PauseInv'
  BY <1>1, <1>2, <1>3, <1>4, <1>5 DEF Power!PowerIInv, Power!PauseInv, Power!ConnectionInv
<1> QED
  BY <1>1, <1>6, <1>7, <1>8, <1>9 DEF Power!PowerIInv, Power!ActsOnItsOwn, Power!DaemonActs

\* A sample that is read waits for the mutex.
LEMMA PowerReadsKeep ==
  ASSUME Power!PowerIInv, Power!MonitorReads \/ Power!CallReads PROVE Power!PowerIInv' /\ Power!ActsOnItsOwn
<1>1. UNCHANGED <<ppd, powerBattery, run, file, cookie, link, powerStep, pinned, ours, lateSelect>>
  BY DEF Power!MonitorReads, Power!CallReads
<1> QED
  BY <1>1 DEF Power!PowerIInv, Power!PowerShapes, Power!PowerTypeOK, Power!ConnectionInv, Power!HoldInv, Power!NoteInv, Power!PauseInv,
     Power!ActsOnItsOwn, Power!DaemonActs

\* What comes from outside the daemon.
LEMMA PowerSampleKeeps ==
  ASSUME Power!PowerIInv, NEW s, Power!Sample(s) PROVE Power!PowerIInv' /\ Power!ActsOnItsOwn
BY DEF Power!Sample, Power!PowerIInv, Power!PowerShapes, Power!PowerTypeOK, Power!ConnectionInv, Power!HoldInv, Power!NoteInv, Power!PauseInv,
   Power!ActsOnItsOwn, Power!DaemonActs

LEMMA PowerUserSelectsKeeps ==
  ASSUME Power!PowerIInv, NEW p \in Power!Profiles, Power!UserSelects(p) PROVE Power!PowerIInv' /\ Power!ActsOnItsOwn
<1> USE DEF Power!UserSelects, Power!SetActive
<1>1. ppd'.sel = p /\ ppd'.own = Power!None /\ ppd'.other = Power!None
  OBVIOUS
<1>2. Power!PowerShapes'
  <2>1. ppd' \in [sel : Power!Profiles, own : {Power!None} \union Power!Holdable, other : {Power!None} \union Power!Holdable]
    OBVIOUS
  <2> QED
    BY <2>1 DEF Power!PowerIInv, Power!PowerShapes, Power!PowerTypeOK
<1>3. Power!ConnectionInv' /\ Power!HoldInv' /\ Power!NoteInv'
  BY <1>1 DEF Power!PowerIInv, Power!ConnectionInv, Power!HoldInv, Power!NoteInv
<1>4. Power!PauseInv'
  BY <1>1 DEF Power!PowerIInv, Power!PauseInv
<1> QED
  BY <1>2, <1>3, <1>4 DEF Power!PowerIInv, Power!ActsOnItsOwn, Power!DaemonActs

LEMMA PowerOtherHoldsKeeps ==
  ASSUME Power!PowerIInv, NEW p \in {Power!None, "saver", "performance"}, Power!OtherHolds(p) PROVE Power!PowerIInv' /\ Power!ActsOnItsOwn
<1> USE DEF Power!OtherHolds
<1>1. ppd \in [sel : Power!Profiles, own : {Power!None} \union Power!Holdable, other : {Power!None} \union Power!Holdable]
  BY DEF Power!PowerIInv, Power!PowerShapes, Power!PowerTypeOK
<1>2. ppd'.sel = ppd.sel /\ ppd'.own = ppd.own /\ ppd'.other = p
  BY <1>1
<1>3. Power!PowerShapes'
  BY <1>1 DEF Power!PowerIInv, Power!PowerShapes, Power!PowerTypeOK
<1>4. Power!ConnectionInv' /\ Power!HoldInv' /\ Power!NoteInv'
  BY <1>2 DEF Power!PowerIInv, Power!ConnectionInv, Power!HoldInv, Power!NoteInv
<1>5. Power!PauseInv'
  BY <1>2 DEF Power!PowerIInv, Power!PauseInv, Power!Between
<1> QED
  BY <1>3, <1>4, <1>5 DEF Power!PowerIInv, Power!ActsOnItsOwn, Power!DaemonActs

LEMMA PowerInitHolds == ASSUME Power!PowerInit PROVE Power!PowerIInv
<1>1. powerStep = Power!Idle /\ powerStep.at = "idle" /\ powerStep \in Power!Holders
  BY PowerIdleTyped DEF Power!PowerInit, Power!Idle
<1>2. /\ run = file /\ run \in Power!Runs /\ ~run.override /\ run.restore = Power!None
  BY DEF Power!PowerInit, Power!FreshRun, Power!Runs
<1>3. /\ ppd \in [sel : Power!Profiles, own : {Power!None} \union Power!Holdable, other : {Power!None} \union Power!Holdable]
      /\ ppd.own = Power!None /\ ppd.other = Power!None
  BY DEF Power!PowerInit, Power!Profiles
<1> QED
  BY <1>1, <1>2, <1>3 DEF Power!PowerInit, Power!PowerIInv, Power!PowerShapes, Power!PowerTypeOK, Power!ConnectionInv, Power!HoldInv, Power!NoteInv, Power!PauseInv

LEMMA PowerSafeFollows == ASSUME Power!PowerIInv PROVE Power!PowerTypeOK /\ Power!PowerSafe
BY DEF Power!PowerIInv, Power!PowerShapes, Power!NoteInv, Power!HoldInv, Power!PowerSafe

LEMMA PowerNextStep == ASSUME Power!PowerIInv, Power!PowerNext PROVE Power!PowerIInv' /\ Power!ActsOnItsOwn
BY PowerAttachKeeps, PowerDetachKeeps, PowerBeginKeeps, PowerReconcileKeeps, PowerObserveExternalSelectionKeeps, PowerReleaseKeeps,
   PowerRestoreBalancedKeeps, PowerRestoringKeeps, PowerApplyProfileKeeps, PowerApplyingKeeps, PowerHoldKeeps, PowerSelectReleaseKeeps,
   PowerSelectSetKeeps, PowerSelectSaveKeeps, PowerUndoingKeeps, PowerResumeKeeps, PowerServiceRestartKeeps, PowerCrashKeeps,
   PowerSampleKeeps, PowerUserSelectsKeeps, PowerSelectManualKeeps, PowerOtherHoldsKeeps, PowerReadsKeep
DEF Power!PowerNext, Power!EnvelopeSteps, Power!Works

LEMMA PowerNextKeeps == ASSUME Power!PowerIInv, [Power!PowerNext]_(Power!powerVars) PROVE Power!PowerIInv'
<1>1. CASE UNCHANGED Power!powerVars
  BY <1>1 DEF Power!powerVars, Power!PowerIInv, Power!PowerShapes, Power!PowerTypeOK, Power!ConnectionInv, Power!HoldInv, Power!NoteInv, Power!PauseInv
<1> QED
  BY <1>1, PowerNextStep

\* A hold is not outlived by its note, and balanced that the automation selected
\* stays noted as its own on disk (power_profiles/automation.rs), for any number of
\* episodes, failed calls and writes, service restarts and crashes.
THEOREM PowerAutomationSafe == Power!PowerSpec => [](Power!PowerTypeOK /\ Power!PowerSafe)
<1>1. Power!PowerInit => Power!PowerIInv
  BY PowerInitHolds
<1>2. Power!PowerIInv /\ [Power!PowerNext]_(Power!powerVars) => Power!PowerIInv'
  BY PowerNextKeeps
<1>3. Power!PowerIInv => Power!PowerTypeOK /\ Power!PowerSafe
  BY PowerSafeFollows
<1> QED
  BY <1>1, <1>2, <1>3, PTL DEF Power!PowerSpec

\* After a manual selection has reached the service the automation neither selects
\* nor holds a profile for the rest of the episode, and it selects only over the
\* profile it noted (power_profiles/automation.rs observe_external_selection).
THEOREM PowerAutomationActsOnItsOwn == Power!PowerSpec => Power!PowerSteps
<1>1. Power!PowerInit => Power!PowerIInv
  BY PowerInitHolds
<1>2. Power!PowerIInv /\ [Power!PowerNext]_(Power!powerVars) => Power!PowerIInv'
  BY PowerNextKeeps
<1>3. Power!PowerIInv /\ [Power!PowerNext]_(Power!powerVars) => [Power!ActsOnItsOwn]_(Power!powerVars)
  BY PowerNextStep
<1> QED
  BY <1>1, <1>2, <1>3, PTL DEF Power!PowerSpec, Power!PowerSteps

HIDE DEF ppd, powerBattery, run, file, cookie, link, powerStep, pinned, ours, lateSelect, envp, powerTaken, Power!Holdable

-----------------------------------------------------------------------------
(* The location daemon (LocationAuthority).                                   *)

\* The variables of LocationAuthority.
zone == r1
net == r2
asleep == r3
moment == r4
ctl == r5
disk == r6
mem == r7
auth == r8
sched == r9
locationWorker == r10
queue == r11
sent == r12
ack == r13
uncertain == r14
late == r15
fence == r16
applied == r17
locationSpent == r18
USE DEF zone, net, asleep, moment, ctl, disk, mem, auth, sched, locationWorker, queue, sent, ack, uncertain, late, fence, applied, locationSpent

LEMMA LocationAtTyped ==
  ASSUME NEW a \in {"down", "top", "command", "gate", "recheck"} \cup Location!Checks \cup Location!Asking
  PROVE  /\ Location!At(a) \in Location!Workers /\ Location!At(a).at = a /\ Location!At(a).fix = Location!NoFix /\ Location!At(a).fix.m = 0 /\ Location!At(a).ok /\ Location!At(a).epoch = 0
         /\ Location!At(a).current = "none" /\ Location!At(a).req = Location!NoReq
BY DEF Location!At, Location!Workers, Location!NoReq, Location!NoFix

LEMMA LocationSignalTyped ==
  ASSUME ctl \in Location!Controls, NEW c \in Location!Controls
  PROVE  /\ Location!Signal(c) \in Location!Controls
         /\ locationWorker.at = "down" => Location!Signal(c) = ctl
         /\ locationWorker.at # "down" => /\ Location!Signal(c).epoch = c.epoch /\ ~Location!Signal(c).seen
                                 /\ Location!Signal(c).reload = c.reload
BY DEF Location!Signal, Location!Controls

LEMMA LocationStatesSame == ASSUME UNCHANGED sent PROVE Location!States' = Location!States
BY DEF Location!States, Location!Operations, Location!Asked

LEMMA LocationFreshTyped ==
  /\ Location!FreshState \in Location!States /\ ~Location!FreshState.paused /\ ~Location!FreshState.pending /\ Location!FreshState.rev = 0
  /\ Location!FreshState.expected = "none" /\ Location!FreshCtl \in Location!Controls /\ Location!FreshCtl.epoch = 0 /\ Location!FreshCtl.seen
  /\ Location!FreshSched \in Location!Schedules /\ Location!FreshSched.network = 0 /\ Location!FreshSched.since = 0 /\ Location!FreshSched.completed = 0
BY DEF Location!FreshState, Location!NoOp, Location!States, Location!Operations, Location!Asked, Location!FreshCtl, Location!Controls, Location!FreshSched, Location!Schedules

\* The process ends: its memory is gone, the disk stays.
LEMMA LocationDiesKeeps ==
  ASSUME Location!LocationConstantsOK, Location!LocationIInv, Location!Dies,
         UNCHANGED <<fence, zone, net, asleep, moment, disk, sent, ack, applied>>,
         uncertain' <=> uncertain
  PROVE  Location!LocationIInv' /\ Location!WritesJustified
<1> USE DEF Location!Dies, Location!LocationIInv
<1>1. /\ locationWorker' = Location!At("down") /\ Location!At("down") \in Location!Workers /\ locationWorker'.at = "down" /\ locationWorker'.fix = Location!NoFix
      /\ Location!NoFix.m = 0
  BY LocationAtTyped DEF Location!NoFix
<1>2. /\ mem' = Location!FreshState /\ Location!FreshState \in Location!States' /\ disk' \in Location!States'
      /\ sched' = Location!FreshSched /\ ctl' = Location!FreshCtl /\ queue' = Location!NoReq
  BY LocationStatesSame, LocationFreshTyped DEF Location!LocationShapes, Location!LocationTypeOK
<1>3. auth' \in Location!Authorities /\ auth'.cepoch = 0
  BY DEF Location!Authorities
<1>4. Location!LocationShapes'
  BY <1>1, <1>2, <1>3, LocationFreshTyped DEF Location!LocationShapes, Location!LocationTypeOK, Location!LocationConstantsOK
<1>5. Location!MemoryInv' /\ Location!RequestInv' /\ Location!ZoneInv'
  BY <1>1, <1>2 DEF Location!MemoryInv, Location!RequestInv, Location!ZoneInv, Location!Checks, Location!Asking, Location!PastCheck
<1>6. Location!FenceInv'
  BY <1>1, <1>2, <1>3, LocationFreshTyped DEF Location!FenceInv
<1> QED
  BY <1>1, <1>4, <1>5, <1>6 DEF Location!WritesJustified, Location!DaemonWrites

\* timedated is asked, and perhaps sets the zone.
LEMMA LocationSetTimezoneIs ==
  ASSUME locationWorker \in Location!Workers, NEW target, Location!SetTimezone(target), locationWorker.at \in {"write", "cwrite"}
  PROVE  /\ locationWorker' \in Location!Workers /\ locationWorker'.at = Location!Verifying /\ locationWorker'.fix = locationWorker.fix /\ locationWorker'.req = locationWorker.req
         /\ locationWorker'.epoch = locationWorker.epoch /\ locationWorker'.current = locationWorker.current
         /\ \/ locationWorker.current = target /\ UNCHANGED <<zone, ack, uncertain>>
            \/ /\ uncertain' /\ (locationWorker'.ok => zone' = target /\ ack' = target)
               /\ UNCHANGED <<zone, ack>> \/ (zone' = target /\ ack' = target)
<1>1. Location!Verifying \in Location!Asking
  BY DEF Location!Verifying, Location!Asking
<1>2. CASE locationWorker.current = target
  BY <1>1, <1>2 DEF Location!SetTimezone, Location!Workers
<1>3. CASE locationWorker.current # target
  <2>1. PICK reply \in BOOLEAN, done \in BOOLEAN :
           /\ (reply => done) /\ uncertain' = TRUE
           /\ IF done THEN zone' = target /\ ack' = target ELSE UNCHANGED <<zone, ack>>
           /\ locationWorker' = [locationWorker EXCEPT !.at = Location!Verifying, !.ok = reply]
    BY <1>3 DEF Location!SetTimezone
  <2>2. locationWorker' \in Location!Workers /\ locationWorker'.ok = reply /\ locationWorker'.at = Location!Verifying /\ locationWorker'.fix = locationWorker.fix
        /\ locationWorker'.req = locationWorker.req /\ locationWorker'.epoch = locationWorker.epoch /\ locationWorker'.current = locationWorker.current
    BY <1>1, <2>1 DEF Location!Workers
  <2> QED
    BY <2>1, <2>2
<1> QED
  BY <1>2, <1>3

\* A control event moves the epoch.
LEMMA LocationEpochMoves ==
  ASSUME ctl \in Location!Controls, asleep \in BOOLEAN
  PROVE  /\ [ctl EXCEPT !.epoch = @ + 1] \in Location!Controls
         /\ [ctl EXCEPT !.sleeping = ~asleep, !.epoch = @ + 1] \in Location!Controls
         /\ [ctl EXCEPT !.sleeping = ~asleep, !.epoch = @ + 1].epoch = ctl.epoch + 1
         /\ [ctl EXCEPT !.reload = @ + 1, !.epoch = @ + 1] \in Location!Controls
         /\ [ctl EXCEPT !.reload = @ + 1, !.epoch = @ + 1].epoch = ctl.epoch + 1
<1>1. ctl.epoch + 1 \in Nat /\ ctl.reload + 1 \in Nat
  BY DEF Location!Controls
<1>2. [ctl EXCEPT !.epoch = @ + 1] \in Location!Controls
  BY <1>1 DEF Location!Controls
<1>3. /\ [ctl EXCEPT !.sleeping = ~asleep, !.epoch = @ + 1] \in Location!Controls
      /\ [ctl EXCEPT !.sleeping = ~asleep, !.epoch = @ + 1].epoch = ctl.epoch + 1
  BY <1>1 DEF Location!Controls
<1>4. /\ [ctl EXCEPT !.reload = @ + 1, !.epoch = @ + 1] \in Location!Controls
      /\ [ctl EXCEPT !.reload = @ + 1, !.epoch = @ + 1].epoch = ctl.epoch + 1
  BY <1>1 DEF Location!Controls
<1> QED
  BY <1>2, <1>3, <1>4

\* What a change of the remembered state leaves.
LEMMA LocationStatesChanged ==
  ASSUME NEW s \in Location!States, zone \in Zones
  PROVE  /\ LET t == [s EXCEPT !.paused = TRUE]
            IN t \in Location!States /\ t.paused /\ t.pending = s.pending /\ t.expected = s.expected /\ t.rev = s.rev
         /\ LET t == [s EXCEPT !.pending = TRUE]
            IN t \in Location!States /\ t.pending /\ t.paused = s.paused /\ t.expected = s.expected /\ t.rev = s.rev
         /\ LET t == [s EXCEPT !.pending = FALSE]
            IN t \in Location!States /\ ~t.pending /\ t.paused = s.paused /\ t.expected = s.expected /\ t.rev = s.rev
         /\ LET t == [s EXCEPT !.paused = TRUE, !.pending = TRUE]
            IN t \in Location!States /\ t.pending /\ t.paused /\ t.expected = s.expected /\ t.rev = s.rev
         /\ LET t == [s EXCEPT !.expected = zone, !.rev = @ + 1, !.pending = FALSE]
            IN t \in Location!States /\ ~t.pending /\ t.paused = s.paused /\ t.expected = zone /\ t.rev = s.rev + 1
         /\ LET t == [s EXCEPT !.expected = zone, !.paused = FALSE, !.pending = FALSE, !.manual = FALSE]
            IN t \in Location!States /\ ~t.pending /\ ~t.paused /\ t.expected = zone /\ t.rev = s.rev
         /\ LET t == [s EXCEPT !.manual = TRUE, !.expected = zone, !.rev = @ + 1, !.pending = FALSE,
                               !.op.outcome = "applied"]
            IN t \in Location!States /\ ~t.pending /\ t.paused = s.paused /\ t.expected = zone /\ t.rev = s.rev + 1
         /\ LET t == [s EXCEPT !.paused = TRUE, !.op.outcome = "uncertain"]
            IN t \in Location!States /\ t.paused /\ t.pending = s.pending /\ t.expected = s.expected /\ t.rev = s.rev
<1>1. /\ s.rev + 1 \in Nat /\ zone \in Zones \union {"none"}
      /\ [s.op EXCEPT !.outcome = "applied"] \in Location!Operations /\ [s.op EXCEPT !.outcome = "uncertain"] \in Location!Operations
  BY DEF Location!States, Location!Operations
<1> QED
  BY <1>1 DEF Location!States

-----------------------------------------------------------------------------
(* The machine, its user and the clients.                                     *)

LEMMA LocationNetworkChangeKeeps ==
  ASSUME Location!LocationConstantsOK, Location!LocationIInv, Location!NetworkChange
  PROVE  Location!LocationIInv' /\ Location!WritesJustified
<1> USE DEF Location!NetworkChange, Location!Moved, Location!LocationIInv
<1>1. disk' \in Location!States' /\ mem' \in Location!States'
  BY LocationStatesSame DEF Location!LocationShapes, Location!LocationTypeOK
<1>2. Location!LocationShapes'
  BY <1>1 DEF Location!LocationShapes, Location!LocationTypeOK, Location!LocationConstantsOK
<1>3. Location!MemoryInv'
  BY <1>1 DEF Location!MemoryInv, Location!LocationShapes, Location!LocationTypeOK, Location!LocationConstantsOK
<1>4. Location!RequestInv'
  BY <1>1 DEF Location!RequestInv, Location!MemoryInv, Location!LocationShapes, Location!LocationTypeOK, Location!LocationConstantsOK
<1>5. Location!ZoneInv'
  BY <1>1 DEF Location!ZoneInv, Location!MemoryInv, Location!Checks, Location!Asking, Location!PastCheck, Location!LocationShapes, Location!LocationTypeOK, Location!LocationConstantsOK
<1>6. Location!FenceInv'
  BY <1>1 DEF Location!FenceInv, Location!Reconciled, Location!on_network, Location!LocationShapes, Location!LocationTypeOK, Location!LocationConstantsOK
<1>7. Location!WritesJustified
  BY <1>1 DEF Location!WritesJustified, Location!DaemonWrites, Location!LocationShapes, Location!LocationTypeOK, Location!LocationConstantsOK
<1> QED
  BY <1>2, <1>3, <1>4, <1>5, <1>6, <1>7

LEMMA LocationSleepSignalKeeps ==
  ASSUME Location!LocationConstantsOK, Location!LocationIInv, Location!SleepSignal
  PROVE  Location!LocationIInv' /\ Location!WritesJustified
<1> USE DEF Location!SleepSignal, Location!Moved, Location!LocationIInv
<1>1. disk' \in Location!States' /\ mem' \in Location!States'
  BY LocationStatesSame DEF Location!LocationShapes, Location!LocationTypeOK
<1>2. /\ ctl' \in Location!Controls
      /\ (locationWorker.at = "down" /\ ctl' = ctl) \/ (locationWorker.at # "down" /\ ctl'.epoch = ctl.epoch + 1 /\ ~ctl'.seen)
  <2> DEFINE c == [ctl EXCEPT !.sleeping = ~asleep, !.epoch = @ + 1]
  <2>1. c \in Location!Controls /\ c.epoch = ctl.epoch + 1
    BY LocationEpochMoves DEF Location!LocationShapes
  <2>2. ctl' = Location!Signal(c)
    OBVIOUS
  <2> HIDE DEF c
  <2> QED
    BY <2>1, <2>2, LocationSignalTyped DEF Location!LocationShapes
<1>3. Location!LocationShapes'
  BY <1>1, <1>2 DEF Location!LocationShapes, Location!LocationTypeOK, Location!LocationConstantsOK, Location!Controls, Location!Authorities
<1>4. Location!MemoryInv'
  BY <1>1, <1>2 DEF Location!MemoryInv, Location!LocationShapes, Location!LocationTypeOK, Location!LocationConstantsOK
<1>5. Location!RequestInv'
  BY <1>1, <1>2 DEF Location!RequestInv, Location!MemoryInv, Location!LocationShapes, Location!LocationTypeOK, Location!LocationConstantsOK
<1>6. Location!ZoneInv'
  BY <1>1, <1>2 DEF Location!ZoneInv, Location!MemoryInv, Location!Checks, Location!Asking, Location!PastCheck, Location!LocationShapes, Location!LocationTypeOK, Location!LocationConstantsOK
<1>7. Location!FenceInv'
  <2>1. CASE locationWorker.at = "down"
    BY <1>2, <2>1 DEF Location!FenceInv, Location!Reconciled, Location!FreshSched
  <2>2. CASE locationWorker.at # "down"
    <3>1. ctl'.epoch = ctl.epoch + 1 /\ ~ctl'.seen /\ auth.cepoch <= ctl.epoch /\ auth.cepoch \in Nat /\ ctl.epoch \in Nat
      BY <1>2, <2>2 DEF Location!LocationShapes, Location!Controls, Location!Authorities
    <3>2. ctl'.epoch # auth.cepoch
      BY <3>1
    <3>3. locationWorker' = locationWorker /\ auth' = auth /\ sched' = sched
      OBVIOUS
    <3> QED
      BY <2>2, <3>1, <3>2, <3>3 DEF Location!FenceInv, Location!Reconciled
  <2> QED
    BY <2>1, <2>2
<1>8. Location!WritesJustified
  BY <1>1, <1>2 DEF Location!WritesJustified, Location!DaemonWrites, Location!LocationShapes, Location!LocationTypeOK, Location!LocationConstantsOK
<1> QED
  BY <1>3, <1>4, <1>5, <1>6, <1>7, <1>8

LEMMA LocationReloadKeeps ==
  ASSUME Location!LocationConstantsOK, Location!LocationIInv, Location!Reload
  PROVE  Location!LocationIInv' /\ Location!WritesJustified
<1> USE DEF Location!Reload, Location!Tick, Location!LocationIInv
<1>1. disk' \in Location!States' /\ mem' \in Location!States'
  BY LocationStatesSame DEF Location!LocationShapes, Location!LocationTypeOK
<1>2. ctl' \in Location!Controls /\ ctl'.epoch = ctl.epoch + 1 /\ ~ctl'.seen
  BY LocationEpochMoves, LocationSignalTyped DEF Location!Controls, Location!LocationShapes
<1>3. Location!LocationShapes'
  BY <1>1, <1>2 DEF Location!LocationShapes, Location!LocationTypeOK, Location!LocationConstantsOK, Location!Controls, Location!Authorities
<1>4. Location!MemoryInv'
  BY <1>1, <1>2 DEF Location!MemoryInv, Location!LocationShapes, Location!LocationTypeOK, Location!LocationConstantsOK
<1>5. Location!RequestInv'
  BY <1>1, <1>2 DEF Location!RequestInv, Location!MemoryInv, Location!LocationShapes, Location!LocationTypeOK, Location!LocationConstantsOK
<1>6. Location!ZoneInv'
  BY <1>1, <1>2 DEF Location!ZoneInv, Location!MemoryInv, Location!Checks, Location!Asking, Location!PastCheck, Location!LocationShapes, Location!LocationTypeOK, Location!LocationConstantsOK
<1>7. Location!FenceInv'
  BY <1>1, <1>2 DEF Location!FenceInv, Location!Reconciled, Location!on_network, Location!LocationShapes, Location!LocationTypeOK, Location!LocationConstantsOK, Location!Controls, Location!Authorities, Location!Schedules
<1>8. Location!WritesJustified
  BY <1>1, <1>2 DEF Location!WritesJustified, Location!DaemonWrites, Location!LocationShapes, Location!LocationTypeOK, Location!LocationConstantsOK
<1> QED
  BY <1>3, <1>4, <1>5, <1>6, <1>7, <1>8

LEMMA LocationTerminateKeeps ==
  ASSUME Location!LocationConstantsOK, Location!LocationIInv, Location!Terminate
  PROVE  Location!LocationIInv' /\ Location!WritesJustified
<1> USE DEF Location!Terminate, Location!Tick, Location!LocationIInv
<1>1. disk' \in Location!States' /\ mem' \in Location!States'
  BY LocationStatesSame DEF Location!LocationShapes, Location!LocationTypeOK
<1>2. ctl' \in Location!Controls /\ ctl'.epoch = ctl.epoch /\ ~ctl'.seen
  <2>1. [ctl EXCEPT !.shutdown = TRUE] \in Location!Controls
    BY DEF Location!Controls, Location!LocationShapes
  <2> QED
    BY <2>1, LocationSignalTyped DEF Location!Controls, Location!LocationShapes
<1>3. Location!LocationShapes'
  BY <1>1, <1>2 DEF Location!LocationShapes, Location!LocationTypeOK, Location!LocationConstantsOK, Location!Controls, Location!Authorities
<1>4. Location!MemoryInv'
  BY <1>1, <1>2 DEF Location!MemoryInv, Location!LocationShapes, Location!LocationTypeOK, Location!LocationConstantsOK
<1>5. Location!RequestInv'
  BY <1>1, <1>2 DEF Location!RequestInv, Location!MemoryInv, Location!LocationShapes, Location!LocationTypeOK, Location!LocationConstantsOK
<1>6. Location!ZoneInv'
  BY <1>1, <1>2 DEF Location!ZoneInv, Location!MemoryInv, Location!Checks, Location!Asking, Location!PastCheck, Location!LocationShapes, Location!LocationTypeOK, Location!LocationConstantsOK
<1>7. Location!FenceInv'
  BY <1>1, <1>2 DEF Location!FenceInv, Location!Reconciled, Location!on_network, Location!LocationShapes, Location!LocationTypeOK, Location!LocationConstantsOK, Location!Controls, Location!Authorities, Location!Schedules
<1>8. Location!WritesJustified
  BY <1>1, <1>2 DEF Location!WritesJustified, Location!DaemonWrites, Location!LocationShapes, Location!LocationTypeOK, Location!LocationConstantsOK
<1> QED
  BY <1>3, <1>4, <1>5, <1>6, <1>7, <1>8

LEMMA LocationUserSetsZoneKeeps ==
  ASSUME Location!LocationConstantsOK, Location!LocationIInv, NEW z \in Zones, Location!UserSetsZone(z)
  PROVE  Location!LocationIInv' /\ Location!WritesJustified
<1> USE DEF Location!UserSetsZone, Location!Tick, Location!LocationIInv
<1>1. disk' \in Location!States' /\ mem' \in Location!States'
  BY LocationStatesSame DEF Location!LocationShapes, Location!LocationTypeOK
<1>2. Location!LocationShapes'
  BY <1>1 DEF Location!LocationShapes, Location!LocationTypeOK, Location!LocationConstantsOK
<1>3. Location!MemoryInv'
  BY <1>1 DEF Location!MemoryInv, Location!LocationShapes, Location!LocationTypeOK, Location!LocationConstantsOK
<1>4. Location!RequestInv'
  BY <1>1 DEF Location!RequestInv, Location!MemoryInv, Location!LocationShapes, Location!LocationTypeOK, Location!LocationConstantsOK
<1>5. Location!ZoneInv'
  BY <1>1 DEF Location!ZoneInv, Location!MemoryInv, Location!Checks, Location!Asking, Location!PastCheck, Location!LocationShapes, Location!LocationTypeOK, Location!LocationConstantsOK
<1>6. Location!FenceInv'
  BY <1>1 DEF Location!FenceInv, Location!Reconciled, Location!on_network, Location!LocationShapes, Location!LocationTypeOK, Location!LocationConstantsOK
<1>7. Location!WritesJustified
  BY <1>1 DEF Location!WritesJustified, Location!DaemonWrites, Location!LocationShapes, Location!LocationTypeOK, Location!LocationConstantsOK
<1> QED
  BY <1>2, <1>3, <1>4, <1>5, <1>6, <1>7

LEMMA LocationSetPolicyKeeps ==
  ASSUME Location!LocationConstantsOK, Location!LocationIInv, NEW i \in LocationIds, NEW place \in Zones \union {"auto"}, Location!set_location_policy(i, place)
  PROVE  Location!LocationIInv' /\ Location!WritesJustified
<1> USE DEF Location!LocationIInv
<1>1. /\ UNCHANGED <<fence, zone, net, asleep, moment, disk, mem, auth, sched, locationWorker, ack, uncertain, late, applied>>
      /\ locationWorker.at # "down" /\ ctl' = Location!Signal([ctl EXCEPT !.epoch = @ + 1])
  BY DEF Location!set_location_policy, Location!Tick
<1>2. ctl' \in Location!Controls /\ ctl'.epoch = ctl.epoch + 1 /\ ~ctl'.seen
  <2> DEFINE c == [ctl EXCEPT !.epoch = @ + 1]
  <2>1. c \in Location!Controls /\ c.epoch = ctl.epoch + 1
    BY LocationEpochMoves DEF Location!LocationShapes, Location!Controls
  <2>2. ctl' = Location!Signal(c)
    BY <1>1
  <2> HIDE DEF c
  <2> QED
    BY <1>1, <2>1, <2>2, LocationSignalTyped DEF Location!LocationShapes
<1>3. /\ disk.rev \in Nat /\ sent \in [LocationIds -> Location!Reqs \union {Location!NoReq}]
      /\ \A j \in LocationIds : sent[j] # Location!NoReq => sent[j].id = j /\ sent[j].rev \in Nat /\ sent[j].rev <= disk.rev
  BY DEF Location!RequestInv, Location!LocationShapes, Location!LocationTypeOK, Location!States, Location!Reqs
<1>4. /\ queue' \in Location!Reqs /\ queue'.id = i /\ queue'.rev <= disk.rev /\ sent' = [sent EXCEPT ![i] = queue']
      /\ (sent[i] # Location!NoReq => queue' = sent[i])
  <2>1. CASE sent[i] # Location!NoReq
    BY <1>3, <2>1 DEF Location!set_location_policy, Location!Tick
  <2>2. CASE sent[i] = Location!NoReq
    BY <1>3, <2>2 DEF Location!set_location_policy, Location!Tick, Location!Reqs
  <2> QED
    BY <2>1, <2>2
<1>5. /\ sent' \in [LocationIds -> Location!Reqs \union {Location!NoReq}] /\ sent'[i] = queue' /\ queue' # Location!NoReq
      /\ \A j \in LocationIds : sent[j] # Location!NoReq => sent'[j] = sent[j]
      /\ \A j \in LocationIds : j # i => sent'[j] = sent[j]
  BY <1>3, <1>4 DEF Location!Reqs, Location!NoReq, Location!LocationConstantsOK
<1>6. disk' \in Location!States' /\ mem' \in Location!States'
  <2>1. Location!Asked \subseteq Location!Asked'
    BY <1>5 DEF Location!Asked
  <2>2. disk \in Location!States /\ mem \in Location!States
    BY DEF Location!LocationShapes, Location!LocationTypeOK
  <2>3. Location!States \subseteq Location!States'
    BY <2>1 DEF Location!States, Location!Operations
  <2> QED
    BY <1>1, <2>2, <2>3
<1>7. Location!LocationShapes'
  BY <1>1, <1>2, <1>3, <1>4, <1>5, <1>6 DEF Location!LocationShapes, Location!LocationTypeOK, Location!LocationConstantsOK, Location!Controls, Location!Authorities
<1>8. Location!MemoryInv'
  BY <1>1, <1>2, <1>3, <1>4, <1>5, <1>6 DEF Location!MemoryInv, Location!LocationShapes, Location!LocationTypeOK, Location!LocationConstantsOK
<1>9. Location!RequestInv'
  <2>1. /\ \A j \in LocationIds : sent'[j] # Location!NoReq => sent'[j].id = j /\ sent'[j].rev <= disk'.rev
        /\ queue' = sent'[queue'.id]
    BY <1>1, <1>3, <1>4, <1>5 DEF Location!RequestInv
  <2>2. \A j \in LocationIds : applied'[j] = 0 \/ (applied'[j] = 1 /\ sent'[j] # Location!NoReq /\ sent'[j].rev < disk'.rev)
    BY <1>1, <1>5 DEF Location!RequestInv
  <2>3. locationWorker'.at = "cwrite" => /\ locationWorker'.req = sent'[locationWorker'.req.id] /\ locationWorker'.req.rev < disk'.rev
                               /\ applied'[locationWorker'.req.id] = 0
    <3>1. locationWorker.at = "cwrite" => locationWorker.req \in Location!Reqs /\ locationWorker.req # Location!NoReq /\ locationWorker.req.id \in LocationIds
      BY DEF Location!LocationShapes, Location!Reqs, Location!NoReq, Location!LocationConstantsOK
    <3> QED
      BY <1>1, <1>5, <3>1 DEF Location!RequestInv
  <2> QED
    BY <2>1, <2>2, <2>3 DEF Location!RequestInv
<1>10. Location!ZoneInv'
  BY <1>1, <1>2, <1>3, <1>4, <1>5, <1>6 DEF Location!ZoneInv, Location!MemoryInv, Location!Checks, Location!Asking, Location!PastCheck, Location!LocationShapes, Location!LocationTypeOK, Location!LocationConstantsOK
<1>11. Location!FenceInv'
  BY <1>1, <1>2, <1>3, <1>4, <1>5, <1>6 DEF Location!FenceInv, Location!Reconciled, Location!on_network, Location!LocationShapes, Location!LocationTypeOK, Location!LocationConstantsOK, Location!Controls, Location!Authorities
<1>12. Location!WritesJustified
  BY <1>1, <1>2, <1>3, <1>4, <1>5, <1>6 DEF Location!WritesJustified, Location!DaemonWrites, Location!LocationShapes, Location!LocationTypeOK, Location!LocationConstantsOK
<1> QED
  BY <1>7, <1>8, <1>9, <1>10, <1>11, <1>12

-----------------------------------------------------------------------------
(* The life of the process.                                                   *)

LEMMA LocationCrashKeeps ==
  ASSUME Location!LocationConstantsOK, Location!LocationIInv, Location!Crash
  PROVE  Location!LocationIInv' /\ Location!WritesJustified
BY LocationDiesKeeps DEF Location!Crash

LEMMA LocationStartKeeps ==
  ASSUME Location!LocationConstantsOK, Location!LocationIInv, Location!Start
  PROVE  Location!LocationIInv' /\ Location!WritesJustified
<1> USE DEF Location!Start, Location!LocationIInv
<1>1. /\ mem' \in Location!States' /\ disk' = mem' /\ mem'.expected \in Zones /\ mem'.rev = disk.rev
      /\ mem'.pending = disk.pending
      /\ \/ disk.expected = "none" /\ ack' = zone /\ mem'.expected = zone
         \/ /\ disk.expected # "none" /\ ack' = ack /\ mem'.expected = disk.expected
            /\ ~mem'.paused => disk.expected = zone
  BY LocationStatesSame DEF Location!LocationShapes, Location!LocationTypeOK, Location!States
<1>2. locationWorker' \in Location!Workers /\ locationWorker'.at = "top" /\ locationWorker'.fix.m = 0
  BY LocationAtTyped DEF Location!NoFix
<1>3. auth' \in Location!Authorities /\ auth'.cepoch = 0 /\ auth'.baseline = zone
  BY DEF Location!Authorities, Location!LocationShapes, Location!LocationTypeOK
<1>4. Location!LocationShapes'
  BY <1>1, <1>2, <1>3 DEF Location!LocationShapes, Location!LocationTypeOK, Location!LocationConstantsOK, Location!Controls
<1>5. Location!MemoryInv'
  BY <1>1, <1>2, <1>3 DEF Location!MemoryInv, Location!LocationShapes, Location!LocationTypeOK, Location!LocationConstantsOK
<1>6. Location!RequestInv'
  BY <1>1, <1>2, <1>3 DEF Location!RequestInv, Location!MemoryInv, Location!LocationShapes, Location!LocationTypeOK, Location!LocationConstantsOK
<1>7. Location!ZoneInv'
  BY <1>1, <1>2, <1>3 DEF Location!ZoneInv, Location!MemoryInv, Location!Checks, Location!Asking, Location!PastCheck, Location!LocationShapes, Location!LocationTypeOK, Location!LocationConstantsOK
<1>8. Location!FenceInv'
  BY <1>1, <1>2, <1>3 DEF Location!FenceInv, Location!Reconciled, Location!on_network, Location!LocationShapes, Location!LocationTypeOK, Location!LocationConstantsOK, Location!Controls, Location!FreshSched
<1>9. Location!WritesJustified
  BY <1>1, <1>2, <1>3 DEF Location!WritesJustified, Location!DaemonWrites, Location!LocationShapes, Location!LocationTypeOK, Location!LocationConstantsOK
<1> QED
  BY <1>4, <1>5, <1>6, <1>7, <1>8, <1>9

LEMMA LocationReconcileKeeps ==
  ASSUME Location!LocationConstantsOK, Location!LocationIInv, Location!reconcile_control
  PROVE  Location!LocationIInv' /\ Location!WritesJustified
<1> USE DEF Location!LocationIInv
<1>1. CASE Location!Dies /\ UNCHANGED <<disk, ack, fence>> /\ (uncertain' <=> uncertain)
  BY <1>1, LocationDiesKeeps DEF Location!reconcile_control
<1>2. SUFFICES ASSUME ~(Location!Dies /\ UNCHANGED <<disk, ack, fence>> /\ (uncertain' <=> uncertain)) PROVE Location!LocationIInv' /\ Location!WritesJustified
  BY <1>1
<1>3. /\ locationWorker.at = "top" /\ UNCHANGED <<queue, zone, net, asleep, moment, sent, late, applied>>
      /\ ctl' = [ctl EXCEPT !.seen = TRUE] /\ locationWorker' = Location!At("command")
      /\ \/ /\ auth' = [auth EXCEPT !.cepoch = ctl.epoch] /\ UNCHANGED <<mem, disk, ack, uncertain, fence>>
            /\ \/ sched' = sched /\ ~(ctl.epoch # auth.cepoch /\ sched.network # 0)
               \/ sched' = [sched EXCEPT !.since = moment]
         \/ /\ mem' = [mem EXCEPT !.expected = zone, !.paused = FALSE, !.pending = FALSE, !.manual = FALSE] /\ disk' = mem'
            /\ auth' = [baseline |-> zone, reload |-> ctl.reload, cepoch |-> ctl.epoch]
            /\ sched' = Location!Rearmed /\ ack' = zone /\ ~uncertain' /\ fence' = sched.since
  BY <1>2 DEF Location!reconcile_control
<1>4. /\ ctl' \in Location!Controls /\ ctl'.epoch = ctl.epoch /\ auth' \in Location!Authorities /\ auth'.cepoch = ctl.epoch
      /\ (auth' = [auth EXCEPT !.cepoch = ctl.epoch] => auth'.baseline = auth.baseline)
      /\ (auth' = [baseline |-> zone, reload |-> ctl.reload, cepoch |-> ctl.epoch] => auth'.baseline = zone)
  <2>1. ctl \in Location!Controls /\ auth \in Location!Authorities /\ zone \in Zones /\ ctl.epoch \in Nat /\ ctl.reload \in Nat
    BY DEF Location!LocationShapes, Location!LocationTypeOK, Location!Controls
  <2>2. ctl' \in Location!Controls /\ ctl'.epoch = ctl.epoch
    BY <1>3, <2>1 DEF Location!Controls
  <2>3. CASE auth' = [auth EXCEPT !.cepoch = ctl.epoch]
    BY <2>1, <2>2, <2>3 DEF Location!Authorities
  <2>4. CASE auth' = [baseline |-> zone, reload |-> ctl.reload, cepoch |-> ctl.epoch]
    BY <2>1, <2>2, <2>4 DEF Location!Authorities
  <2> QED
    BY <1>3, <2>3, <2>4
<1>5. /\ disk' \in Location!States' /\ mem' \in Location!States'
      /\ mem' = [mem EXCEPT !.expected = zone, !.paused = FALSE, !.pending = FALSE, !.manual = FALSE]
           => ~mem'.pending /\ ~mem'.paused /\ mem'.expected = zone /\ mem'.rev = mem.rev
  <2>1. mem \in Location!States /\ disk \in Location!States /\ zone \in Zones
    BY DEF Location!LocationShapes, Location!LocationTypeOK
  <2>2. LET t == [mem EXCEPT !.expected = zone, !.paused = FALSE, !.pending = FALSE, !.manual = FALSE]
        IN  t \in Location!States /\ t \in Location!States /\ ~t.paused /\ ~t.pending /\ t.expected = zone /\ t.rev = mem.rev
    BY <2>1, LocationStatesChanged
  <2>3. Location!States' = Location!States
    BY <1>3, LocationStatesSame
  <2> QED
    BY <1>3, <2>1, <2>2, <2>3
<1>6. locationWorker' \in Location!Workers /\ locationWorker'.at = "command" /\ locationWorker'.fix.m = 0
  BY <1>3, LocationAtTyped
<1>7. /\ sched' \in Location!Schedules /\ sched'.network = sched.network /\ sched'.since \in {sched.since, moment}
      /\ sched'.completed \in {sched.completed, 0}
      /\ (sched' = Location!Rearmed => sched'.since = sched.since) /\ (sched' = [sched EXCEPT !.since = moment] => sched'.since = moment)
  <2>1. sched \in Location!Schedules /\ moment \in Nat
    BY DEF Location!LocationShapes, Location!LocationConstantsOK
  <2>2. CASE sched' = Location!Rearmed
    BY <2>1, <2>2 DEF Location!Rearmed, Location!Schedules
  <2>3. CASE sched' = [sched EXCEPT !.since = moment]
    BY <2>1, <2>3 DEF Location!Rearmed, Location!Schedules
  <2>4. CASE sched' = sched
    BY <2>1, <2>4 DEF Location!Rearmed, Location!Schedules
  <2> QED
    BY <1>3, <2>2, <2>3, <2>4
<1>8. Location!LocationShapes'
  BY <1>2, <1>3, <1>4, <1>5, <1>6, <1>7 DEF Location!LocationShapes, Location!LocationTypeOK, Location!LocationConstantsOK, Location!Controls
<1>9. Location!MemoryInv'
  BY <1>2, <1>3, <1>4, <1>5, <1>6, <1>7 DEF Location!MemoryInv, Location!LocationShapes, Location!LocationTypeOK, Location!LocationConstantsOK
<1>10. Location!RequestInv'
  BY <1>2, <1>3, <1>4, <1>5, <1>6, <1>7 DEF Location!RequestInv, Location!MemoryInv, Location!LocationShapes, Location!LocationTypeOK, Location!LocationConstantsOK
<1>11. Location!ZoneInv'
  BY <1>2, <1>3, <1>4, <1>5, <1>6, <1>7 DEF Location!ZoneInv, Location!MemoryInv, Location!Checks, Location!Asking, Location!PastCheck, Location!LocationShapes, Location!LocationTypeOK, Location!LocationConstantsOK
<1>12. Location!FenceInv'
  BY <1>2, <1>3, <1>4, <1>5, <1>6, <1>7 DEF Location!FenceInv, Location!Reconciled, Location!on_network, Location!LocationShapes, Location!LocationTypeOK, Location!LocationConstantsOK
<1>13. Location!WritesJustified
  BY <1>2, <1>3, <1>4, <1>5, <1>6, <1>7 DEF Location!WritesJustified, Location!DaemonWrites, Location!LocationShapes, Location!LocationTypeOK, Location!LocationConstantsOK
<1> QED
  BY <1>8, <1>9, <1>10, <1>11, <1>12, <1>13

-----------------------------------------------------------------------------
(* Explicit choices.                                                          *)

LEMMA LocationApplyKeeps ==
  ASSUME Location!LocationConstantsOK, Location!LocationIInv, Location!apply_control
  PROVE  Location!LocationIInv' /\ Location!WritesJustified
<1> USE DEF Location!LocationIInv
<1> DEFINE auto == queue.place = "auto"
           Taken == [mem EXCEPT !.rev = @ + 1, !.manual = (@ /\ ~auto), !.pending = ~auto,
                                !.op = [req |-> queue, outcome |-> IF auto THEN "applied" ELSE "pending"]]
<1> HIDE DEF Taken
<1>1. /\ locationWorker.at = "command" /\ queue # Location!NoReq /\ queue' = Location!NoReq
      /\ UNCHANGED <<fence, zone, net, asleep, moment, ctl, auth, sent, ack, uncertain, applied>>
      /\ \/ locationWorker' = Location!At("gate") /\ UNCHANGED <<mem, disk, sched, late>>
         \/ /\ locationWorker' = Location!At("gate") /\ mem' = [mem EXCEPT !.paused = TRUE, !.pending = TRUE] /\ UNCHANGED <<disk, sched, late>>
         \/ /\ Location!Accepts(queue) /\ mem' = Taken /\ disk' = mem'
            /\ \/ queue.place = "auto" /\ sched' = Location!Rearmed /\ locationWorker' = Location!At("gate") /\ UNCHANGED late
               \/ /\ queue.place # "auto" /\ sched' = sched
                  /\ locationWorker' = [Location!At("cwrite") EXCEPT !.epoch = ctl.epoch, !.req = queue, !.current = zone]
  BY DEF Location!apply_control, Taken
<1>2. /\ queue \in Location!Reqs /\ queue.id \in LocationIds /\ queue = sent[queue.id] /\ queue \in Location!Asked
      /\ queue.place # "auto" => queue.place \in Zones
  BY <1>1 DEF Location!RequestInv, Location!LocationShapes, Location!Reqs, Location!Asked
<1>3. /\ mem' \in Location!States' /\ disk' \in Location!States'
      /\ (mem' = [mem EXCEPT !.paused = TRUE, !.pending = TRUE] => mem'.paused /\ mem'.pending /\ mem'.expected = mem.expected /\ mem'.rev = mem.rev)
      /\ (mem' = Taken => /\ mem'.paused = mem.paused /\ mem'.pending = (queue.place # "auto")
                          /\ mem'.expected = mem.expected /\ mem'.rev = mem.rev + 1)
  <2>1. mem \in Location!States /\ disk \in Location!States /\ zone \in Zones
    BY DEF Location!LocationShapes, Location!LocationTypeOK
  <2>2. LET t == [mem EXCEPT !.paused = TRUE, !.pending = TRUE]
        IN  t \in Location!States /\ t.paused /\ t.pending /\ t.expected = mem.expected /\ t.rev = mem.rev
    BY <2>1, LocationStatesChanged
  <2>3. /\ Taken \in Location!States /\ Taken.paused = mem.paused /\ Taken.pending = (queue.place # "auto")
        /\ Taken.expected = mem.expected /\ Taken.rev = mem.rev + 1
    <3> DEFINE o == [req |-> queue, outcome |-> IF auto THEN "applied" ELSE "pending"]
    <3>1. o \in Location!Operations
      BY <1>2 DEF Location!Operations
    <3>2. mem.rev + 1 \in Nat
      BY <2>1 DEF Location!States
    <3> HIDE DEF o
    <3>3. Taken = [mem EXCEPT !.rev = @ + 1, !.manual = (@ /\ ~auto), !.pending = ~auto, !.op = o]
      BY DEF Taken, o
    <3>4. CASE auto
      BY <2>1, <3>1, <3>2, <3>3, <3>4 DEF Location!States
    <3>5. CASE ~auto
      BY <2>1, <3>1, <3>2, <3>3, <3>5 DEF Location!States
    <3> QED
      BY <3>4, <3>5
  <2>4. Location!States' = Location!States
    BY <1>1, LocationStatesSame
  <2> QED
    BY <1>1, <2>1, <2>2, <2>3, <2>4
<1>4. /\ locationWorker' \in Location!Workers /\ locationWorker'.fix.m = 0
      /\ locationWorker' = Location!At("gate") => locationWorker'.at = "gate"
      /\ locationWorker' # Location!At("gate") => /\ locationWorker'.at = "cwrite" /\ locationWorker'.req = queue /\ locationWorker'.current = zone
  <2>1. Location!At("cwrite") \in Location!Workers /\ Location!At("gate") \in Location!Workers /\ Location!At("gate").at = "gate" /\ Location!At("cwrite").at = "cwrite"
        /\ Location!At("gate").fix.m = 0 /\ Location!At("cwrite").fix.m = 0
    BY LocationAtTyped DEF Location!Asking
  <2>2. ctl.epoch \in Nat /\ zone \in Zones
    BY DEF Location!LocationShapes, Location!LocationTypeOK, Location!Controls
  <2> QED
    BY <1>1, <1>2, <2>1, <2>2 DEF Location!Workers
<1>5. /\ sched' \in Location!Schedules /\ sched'.network = sched.network /\ sched'.since = sched.since
      /\ sched'.completed \in {sched.completed, 0}
  <2>1. sched \in Location!Schedules
    BY DEF Location!LocationShapes
  <2>2. CASE sched' = Location!Rearmed
    BY <2>1, <2>2 DEF Location!Rearmed, Location!Schedules
  <2>3. CASE sched' = sched
    BY <2>1, <2>3
  <2> QED
    BY <1>1, <2>2, <2>3
<1>6. Location!Accepts(queue) => /\ queue.rev = disk.rev /\ disk.rev \in Nat /\ applied[queue.id] = 0 /\ ~mem.paused /\ ~mem.pending
                                 /\ ~uncertain /\ auth.baseline = ack /\ zone = ack
  BY <1>1, <1>2 DEF Location!Accepts, Location!MemoryInv, Location!RequestInv, Location!ZoneInv, Location!LocationShapes, Location!LocationTypeOK, Location!States
<1>7. Location!LocationShapes'
  BY <1>1, <1>2, <1>3, <1>4, <1>5, <1>6 DEF Location!LocationShapes, Location!LocationTypeOK, Location!LocationConstantsOK
<1>8. Location!MemoryInv'
  BY <1>1, <1>2, <1>3, <1>4, <1>5, <1>6 DEF Location!MemoryInv, Location!LocationShapes, Location!LocationTypeOK, Location!LocationConstantsOK
<1>9. Location!RequestInv'
  BY <1>1, <1>2, <1>3, <1>4, <1>5, <1>6 DEF Location!RequestInv, Location!MemoryInv, Location!LocationShapes, Location!LocationTypeOK, Location!LocationConstantsOK, Location!NoReq, Location!Reqs, Location!States
<1>10. Location!ZoneInv'
  BY <1>1, <1>2, <1>3, <1>4, <1>5, <1>6 DEF Location!ZoneInv, Location!MemoryInv, Location!Checks, Location!Asking, Location!PastCheck, Location!LocationShapes, Location!LocationTypeOK, Location!LocationConstantsOK
<1>11. Location!FenceInv'
  BY <1>1, <1>2, <1>3, <1>4, <1>5, <1>6 DEF Location!FenceInv, Location!Reconciled, Location!on_network, Location!LocationShapes, Location!LocationTypeOK, Location!LocationConstantsOK
<1>12. Location!WritesJustified
  BY <1>1, <1>2, <1>3, <1>4, <1>5, <1>6 DEF Location!WritesJustified, Location!DaemonWrites, Location!LocationShapes, Location!LocationTypeOK, Location!LocationConstantsOK
<1> QED
  BY <1>7, <1>8, <1>9, <1>10, <1>11, <1>12

LEMMA LocationNoCommandKeeps ==
  ASSUME Location!LocationConstantsOK, Location!LocationIInv, Location!NoCommand
  PROVE  Location!LocationIInv' /\ Location!WritesJustified
<1> USE DEF Location!NoCommand, Location!LocationIInv
<1>1. disk' \in Location!States' /\ mem' \in Location!States'
  BY LocationStatesSame DEF Location!LocationShapes, Location!LocationTypeOK
<1>2. locationWorker' \in Location!Workers /\ locationWorker'.at = "gate" /\ locationWorker'.fix.m = 0
  BY LocationAtTyped DEF Location!NoFix
<1>3. Location!LocationShapes'
  BY <1>1, <1>2 DEF Location!LocationShapes, Location!LocationTypeOK, Location!LocationConstantsOK
<1>4. Location!MemoryInv'
  BY <1>1, <1>2 DEF Location!MemoryInv, Location!LocationShapes, Location!LocationTypeOK, Location!LocationConstantsOK
<1>5. Location!RequestInv'
  BY <1>1, <1>2 DEF Location!RequestInv, Location!MemoryInv, Location!LocationShapes, Location!LocationTypeOK, Location!LocationConstantsOK
<1>6. Location!ZoneInv'
  BY <1>1, <1>2 DEF Location!ZoneInv, Location!MemoryInv, Location!Checks, Location!Asking, Location!PastCheck, Location!LocationShapes, Location!LocationTypeOK, Location!LocationConstantsOK
<1>7. Location!FenceInv'
  BY <1>1, <1>2 DEF Location!FenceInv, Location!Reconciled, Location!on_network, Location!LocationShapes, Location!LocationTypeOK, Location!LocationConstantsOK
<1>8. Location!WritesJustified
  BY <1>1, <1>2 DEF Location!WritesJustified, Location!DaemonWrites, Location!LocationShapes, Location!LocationTypeOK, Location!LocationConstantsOK
<1> QED
  BY <1>3, <1>4, <1>5, <1>6, <1>7, <1>8

LEMMA LocationControlWriteKeeps ==
  ASSUME Location!LocationConstantsOK, Location!LocationIInv, Location!ControlWrite
  PROVE  Location!LocationIInv' /\ Location!WritesJustified
<1> USE DEF Location!LocationIInv
<1>1. disk' \in Location!States' /\ mem' \in Location!States'
  BY LocationStatesSame DEF Location!ControlWrite, Location!LocationShapes, Location!LocationTypeOK
<1>2. /\ locationWorker.at = "cwrite" /\ locationWorker.req \in Location!Reqs /\ locationWorker.req.place \in Zones /\ locationWorker \in Location!Workers
      /\ UNCHANGED <<fence, net, asleep, moment, ctl, disk, mem, auth, sched, queue, sent, late>>
  BY DEF Location!ControlWrite, Location!LocationShapes
<1>3. /\ locationWorker' \in Location!Workers /\ locationWorker'.at = "cwrite-verify" /\ locationWorker'.fix = locationWorker.fix /\ locationWorker'.req = locationWorker.req
      /\ \/ ~locationWorker'.ok /\ ~Location!active(locationWorker.epoch) /\ UNCHANGED <<zone, ack, uncertain, applied>>
         \/ /\ applied' = [applied EXCEPT ![locationWorker.req.id] = @ + 1]
            /\ \/ locationWorker.current = locationWorker.req.place /\ UNCHANGED <<zone, ack, uncertain>>
               \/ /\ uncertain' /\ (locationWorker'.ok => zone' = locationWorker.req.place /\ ack' = locationWorker.req.place)
                  /\ UNCHANGED <<zone, ack>> \/ (zone' = locationWorker.req.place /\ ack' = locationWorker.req.place)
  <2>1. CASE Location!active(locationWorker.epoch)
    BY <1>2, <2>1, LocationSetTimezoneIs DEF Location!ControlWrite, Location!Verifying
  <2>2. CASE ~Location!active(locationWorker.epoch)
    BY <1>2, <2>2 DEF Location!ControlWrite, Location!Verifying, Location!Workers, Location!Asking
  <2> QED
    BY <2>1, <2>2
<1>4. /\ applied' \in [LocationIds -> Nat] /\ locationWorker.req.id \in LocationIds
      /\ applied' = applied \/ applied' = [applied EXCEPT ![locationWorker.req.id] = 1]
  BY <1>2, <1>3 DEF Location!RequestInv, Location!LocationShapes, Location!Reqs
<1>5. Location!LocationShapes'
  BY <1>1, <1>2, <1>3, <1>4 DEF Location!LocationShapes, Location!LocationTypeOK, Location!LocationConstantsOK
<1>6. Location!MemoryInv'
  BY <1>1, <1>2, <1>3, <1>4 DEF Location!MemoryInv, Location!LocationShapes, Location!LocationTypeOK, Location!LocationConstantsOK
<1>7. Location!RequestInv'
  BY <1>1, <1>2, <1>3, <1>4 DEF Location!RequestInv, Location!MemoryInv, Location!LocationShapes, Location!LocationTypeOK, Location!LocationConstantsOK, Location!NoReq, Location!Reqs
<1>8. Location!ZoneInv'
  BY <1>1, <1>2, <1>3, <1>4 DEF Location!ZoneInv, Location!MemoryInv, Location!Checks, Location!Asking, Location!PastCheck, Location!LocationShapes, Location!LocationTypeOK, Location!LocationConstantsOK
<1>9. Location!FenceInv'
  BY <1>1, <1>2, <1>3, <1>4 DEF Location!FenceInv, Location!Reconciled, Location!on_network, Location!LocationShapes, Location!LocationTypeOK, Location!LocationConstantsOK
<1>10. Location!WritesJustified
  BY <1>1, <1>2, <1>3, <1>4 DEF Location!WritesJustified, Location!DaemonWrites, Location!LocationShapes, Location!LocationTypeOK, Location!LocationConstantsOK, Location!ZoneInv, Location!PastCheck
<1> QED
  BY <1>5, <1>6, <1>7, <1>8, <1>9, <1>10

LEMMA LocationControlVerifyKeeps ==
  ASSUME Location!LocationConstantsOK, Location!LocationIInv, Location!ControlVerify
  PROVE  Location!LocationIInv' /\ Location!WritesJustified
<1> USE DEF Location!LocationIInv
<1>1. /\ locationWorker.at = "cwrite-verify" /\ locationWorker' = Location!At("gate")
      /\ UNCHANGED <<fence, zone, net, asleep, moment, ctl, sched, queue, sent, ack, late, applied>>
  BY DEF Location!ControlVerify
<1>2. \/ /\ locationWorker.ok /\ zone = locationWorker.req.place /\ auth' = [auth EXCEPT !.baseline = zone] /\ ~uncertain' /\ disk' = mem'
         /\ mem' = [mem EXCEPT !.manual = TRUE, !.expected = zone, !.rev = @ + 1, !.pending = FALSE, !.op.outcome = "applied"]
      \/ /\ mem' = [mem EXCEPT !.paused = TRUE, !.pending = TRUE] /\ disk' = disk /\ auth' = auth /\ (uncertain' <=> uncertain)
      \/ /\ mem' = [mem EXCEPT !.paused = TRUE, !.op.outcome = "uncertain"] /\ auth' = auth /\ (uncertain' <=> uncertain)
         /\ disk' = disk \/ disk' = mem'
  <2>1. PICK failed \in BOOLEAN :
           LET good == locationWorker.ok /\ zone = locationWorker.req.place
               s == IF good
                    THEN [mem EXCEPT !.manual = TRUE, !.expected = zone, !.rev = @ + 1, !.pending = FALSE,
                                     !.op.outcome = "applied"]
                    ELSE [mem EXCEPT !.paused = TRUE, !.op.outcome = "uncertain"]
           IN /\ mem' = IF good /\ failed THEN [mem EXCEPT !.paused = TRUE, !.pending = TRUE] ELSE s
              /\ disk' = IF failed THEN disk ELSE s
              /\ auth' = IF good /\ ~failed THEN [auth EXCEPT !.baseline = zone] ELSE auth
              /\ uncertain' = (uncertain /\ ~(good /\ ~failed))
    BY DEF Location!ControlVerify
  <2>2. CASE locationWorker.ok /\ zone = locationWorker.req.place
    BY <2>1, <2>2
  <2>3. CASE ~(locationWorker.ok /\ zone = locationWorker.req.place)
    BY <2>1, <2>3
  <2> QED
    BY <2>2, <2>3
<1>3. /\ mem' \in Location!States' /\ disk' \in Location!States'
      /\ \/ /\ locationWorker.ok /\ zone = locationWorker.req.place /\ auth' = [auth EXCEPT !.baseline = zone] /\ ~uncertain' /\ disk' = mem'
            /\ ~mem'.pending /\ mem'.expected = zone /\ mem'.rev = mem.rev + 1 /\ mem'.paused = mem.paused
         \/ /\ mem'.paused /\ (mem'.pending = mem.pending \/ mem'.pending) /\ mem'.expected = mem.expected /\ mem'.rev = mem.rev
            /\ auth' = auth /\ (uncertain' <=> uncertain)
            /\ disk' = disk \/ (disk' = mem' /\ mem'.pending = mem.pending)
  <2>1. mem \in Location!States /\ disk \in Location!States /\ zone \in Zones
    BY DEF Location!LocationShapes, Location!LocationTypeOK
  <2>2. LET t == [mem EXCEPT !.manual = TRUE, !.expected = zone, !.rev = @ + 1, !.pending = FALSE, !.op.outcome = "applied"]
        IN  t \in Location!States /\ t.paused = mem.paused /\ ~t.pending /\ t.expected = zone /\ t.rev = mem.rev + 1
    BY <2>1, LocationStatesChanged
  <2>3. LET t == [mem EXCEPT !.paused = TRUE, !.pending = TRUE]
        IN  t \in Location!States /\ t.paused /\ t.pending /\ t.expected = mem.expected /\ t.rev = mem.rev
    BY <2>1, LocationStatesChanged
  <2>4. LET t == [mem EXCEPT !.paused = TRUE, !.op.outcome = "uncertain"]
        IN  t \in Location!States /\ t.paused /\ t.pending = mem.pending /\ t.expected = mem.expected /\ t.rev = mem.rev
    BY <2>1, LocationStatesChanged
  <2>5. Location!States' = Location!States
    BY LocationStatesSame DEF Location!ControlVerify
  <2> QED
    BY <1>1, <1>2, <2>1, <2>2, <2>3, <2>4, <2>5
<1>4. locationWorker' \in Location!Workers /\ locationWorker'.at = "gate" /\ locationWorker'.fix.m = 0
  BY <1>1, LocationAtTyped
<1>5. /\ auth' \in Location!Authorities /\ auth'.cepoch = auth.cepoch /\ (auth' = auth \/ auth'.baseline = zone)
      /\ (auth' = [auth EXCEPT !.baseline = zone] => auth'.baseline = zone)
  BY <1>2 DEF Location!Authorities, Location!LocationShapes, Location!LocationTypeOK
<1>6. Location!LocationShapes'
  BY <1>1, <1>2, <1>3, <1>4, <1>5 DEF Location!LocationShapes, Location!LocationTypeOK, Location!LocationConstantsOK
<1>7. Location!MemoryInv'
  BY <1>1, <1>2, <1>3, <1>4, <1>5 DEF Location!MemoryInv, Location!LocationShapes, Location!LocationTypeOK, Location!LocationConstantsOK
<1>8. Location!RequestInv'
  BY <1>1, <1>2, <1>3, <1>4, <1>5 DEF Location!RequestInv, Location!MemoryInv, Location!LocationShapes, Location!LocationTypeOK, Location!LocationConstantsOK, Location!States, Location!Reqs
<1>9. Location!ZoneInv'
  BY <1>1, <1>2, <1>3, <1>4, <1>5 DEF Location!ZoneInv, Location!MemoryInv, Location!Checks, Location!Asking, Location!PastCheck, Location!LocationShapes, Location!LocationTypeOK, Location!LocationConstantsOK
<1>10. Location!FenceInv'
  BY <1>1, <1>2, <1>3, <1>4, <1>5 DEF Location!FenceInv, Location!Reconciled, Location!on_network, Location!LocationShapes, Location!LocationTypeOK, Location!LocationConstantsOK
<1>11. Location!WritesJustified
  BY <1>1, <1>2, <1>3, <1>4, <1>5 DEF Location!WritesJustified, Location!DaemonWrites, Location!LocationShapes, Location!LocationTypeOK, Location!LocationConstantsOK
<1> QED
  BY <1>6, <1>7, <1>8, <1>9, <1>10, <1>11

-----------------------------------------------------------------------------
(* Automatic checks.                                                          *)

LEMMA LocationGateKeeps ==
  ASSUME Location!LocationConstantsOK, Location!LocationIInv, Location!Gate
  PROVE  Location!LocationIInv' /\ Location!WritesJustified
<1> USE DEF Location!Gate, Location!LocationIInv
<1>1. disk' \in Location!States' /\ mem' \in Location!States'
  BY LocationStatesSame DEF Location!LocationShapes, Location!LocationTypeOK
<1>2. locationWorker' \in Location!Workers /\ locationWorker'.at \in {"top", "observe"} /\ locationWorker'.fix.m = 0
      /\ (locationWorker'.at = "observe" => ~mem.paused /\ ~mem.pending)
  BY LocationAtTyped DEF Location!NoFix, Location!Checks
<1>3. Location!LocationShapes'
  BY <1>1, <1>2 DEF Location!LocationShapes, Location!LocationTypeOK, Location!LocationConstantsOK
<1>4. Location!MemoryInv'
  BY <1>1, <1>2 DEF Location!MemoryInv, Location!LocationShapes, Location!LocationTypeOK, Location!LocationConstantsOK
<1>5. Location!RequestInv'
  BY <1>1, <1>2 DEF Location!RequestInv, Location!MemoryInv, Location!LocationShapes, Location!LocationTypeOK, Location!LocationConstantsOK
<1>6. Location!ZoneInv'
  BY <1>1, <1>2 DEF Location!ZoneInv, Location!MemoryInv, Location!Checks, Location!Asking, Location!PastCheck, Location!LocationShapes, Location!LocationTypeOK, Location!LocationConstantsOK
<1>7. Location!FenceInv'
  BY <1>1, <1>2 DEF Location!FenceInv, Location!Reconciled, Location!on_network, Location!LocationShapes, Location!LocationTypeOK, Location!LocationConstantsOK
<1>8. Location!WritesJustified
  BY <1>1, <1>2 DEF Location!WritesJustified, Location!DaemonWrites, Location!LocationShapes, Location!LocationTypeOK, Location!LocationConstantsOK
<1> QED
  BY <1>3, <1>4, <1>5, <1>6, <1>7, <1>8

LEMMA LocationObserveKeeps ==
  ASSUME Location!LocationConstantsOK, Location!LocationIInv, Location!observe
  PROVE  Location!LocationIInv' /\ Location!WritesJustified
<1> USE DEF Location!observe, Location!LocationIInv
<1>1. disk' \in Location!States' /\ mem' \in Location!States'
  BY LocationStatesSame DEF Location!LocationShapes, Location!LocationTypeOK
<1>2. locationWorker' \in Location!Workers /\ locationWorker'.at \in {"top", "acquire"} /\ locationWorker'.fix.m = 0
  BY LocationAtTyped DEF Location!NoFix, Location!Checks
<1>3. /\ sched' \in Location!Schedules /\ sched'.network <= sched'.since /\ sched'.since \in 0..moment
      /\ sched'.completed = sched.completed /\ sched'.network \in 0..moment
      /\ sched' = sched \/ (sched'.network \in {0, net} /\ sched'.since = moment)
  BY DEF Location!Seen, Location!LocationShapes, Location!LocationTypeOK, Location!Schedules
<1>4. Location!LocationShapes'
  BY <1>1, <1>2, <1>3 DEF Location!LocationShapes, Location!LocationTypeOK, Location!LocationConstantsOK
<1>5. Location!MemoryInv'
  BY <1>1, <1>2, <1>3 DEF Location!MemoryInv, Location!LocationShapes, Location!LocationTypeOK, Location!LocationConstantsOK
<1>6. Location!RequestInv'
  BY <1>1, <1>2, <1>3 DEF Location!RequestInv, Location!MemoryInv, Location!LocationShapes, Location!LocationTypeOK, Location!LocationConstantsOK
<1>7. Location!ZoneInv'
  BY <1>1, <1>2, <1>3 DEF Location!ZoneInv, Location!MemoryInv, Location!Checks, Location!Asking, Location!PastCheck, Location!LocationShapes, Location!LocationTypeOK, Location!LocationConstantsOK
<1>8. Location!FenceInv'
  BY <1>1, <1>2, <1>3 DEF Location!FenceInv, Location!Reconciled, Location!on_network, Location!LocationShapes, Location!LocationTypeOK, Location!LocationConstantsOK
<1>9. Location!WritesJustified
  BY <1>1, <1>2, <1>3 DEF Location!WritesJustified, Location!DaemonWrites, Location!LocationShapes, Location!LocationTypeOK, Location!LocationConstantsOK
<1> QED
  BY <1>4, <1>5, <1>6, <1>7, <1>8, <1>9

LEMMA LocationAcquireKeeps ==
  ASSUME Location!LocationConstantsOK, Location!LocationIInv, Location!Acquire
  PROVE  Location!LocationIInv' /\ Location!WritesJustified
<1> USE DEF Location!Acquire, Location!LocationIInv
<1>1. disk' \in Location!States' /\ mem' \in Location!States'
  BY LocationStatesSame DEF Location!LocationShapes, Location!LocationTypeOK
<1>2. ctl' \in Location!Controls /\ ctl'.epoch = ctl.epoch
  BY DEF Location!LocationShapes, Location!Controls
<1>3. /\ locationWorker' \in Location!Workers /\ locationWorker'.at \in {"top", "geoclue"} /\ locationWorker'.fix.m = 0
      /\ locationWorker'.at = "geoclue" => locationWorker'.epoch = ctl.epoch /\ ctl.seen
  <2>1. [Location!At("geoclue") EXCEPT !.epoch = ctl.epoch] \in Location!Workers
    BY LocationAtTyped DEF Location!Checks, Location!LocationShapes, Location!Controls, Location!Workers
  <2> QED
    BY <2>1, LocationAtTyped DEF Location!NoFix, Location!Checks, Location!Workers
<1>4. Location!LocationShapes'
  BY <1>1, <1>2, <1>3 DEF Location!LocationShapes, Location!LocationTypeOK, Location!LocationConstantsOK
<1>5. Location!MemoryInv'
  BY <1>1, <1>2, <1>3 DEF Location!MemoryInv, Location!LocationShapes, Location!LocationTypeOK, Location!LocationConstantsOK
<1>6. Location!RequestInv'
  BY <1>1, <1>2, <1>3 DEF Location!RequestInv, Location!MemoryInv, Location!LocationShapes, Location!LocationTypeOK, Location!LocationConstantsOK
<1>7. Location!ZoneInv'
  BY <1>1, <1>2, <1>3 DEF Location!ZoneInv, Location!MemoryInv, Location!Checks, Location!Asking, Location!PastCheck, Location!LocationShapes, Location!LocationTypeOK, Location!LocationConstantsOK
<1>8. Location!FenceInv'
  BY <1>1, <1>2, <1>3 DEF Location!FenceInv, Location!Reconciled, Location!on_network, Location!LocationShapes, Location!LocationTypeOK, Location!LocationConstantsOK
<1>9. Location!WritesJustified
  BY <1>1, <1>2, <1>3 DEF Location!WritesJustified, Location!DaemonWrites, Location!LocationShapes, Location!LocationTypeOK, Location!LocationConstantsOK
<1> QED
  BY <1>4, <1>5, <1>6, <1>7, <1>8, <1>9

LEMMA LocationGeoclueKeeps ==
  ASSUME Location!LocationConstantsOK, Location!LocationIInv, Location!geoclue
  PROVE  Location!LocationIInv' /\ Location!WritesJustified
<1> USE DEF Location!geoclue, Location!LocationIInv
<1>1. disk' \in Location!States' /\ mem' \in Location!States'
  BY LocationStatesSame DEF Location!LocationShapes, Location!LocationTypeOK
<1>2. /\ locationWorker' \in Location!Workers /\ locationWorker'.at \in {"top", "ip", "decide"} /\ locationWorker'.fix.m \in 0..moment
      /\ locationWorker'.at # "top" => locationWorker'.fix \in Location!Fixes /\ locationWorker'.fix.m >= sched.since /\ locationWorker'.epoch = locationWorker.epoch
  <2>1. PICK z \in Zones, m \in {k \in 0..moment : Location!fresh(k)}, ip2 \in BOOLEAN :
           LET f == [zone |-> z, m |-> m]
           IN locationWorker' = IF ip2 THEN [locationWorker EXCEPT !.at = "decide", !.fix = f]
                        ELSE IF Location!on_network(sched.network) /\ Location!active(locationWorker.epoch)
                        THEN [locationWorker EXCEPT !.at = "ip", !.fix = f] ELSE Location!At("top")
    OBVIOUS
  <2> DEFINE f == [zone |-> z, m |-> m]
  <2>2. f \in Location!Fixes /\ f.m = m /\ m >= sched.since /\ m \in 0..moment
    BY DEF Location!Fixes, Location!fresh, Location!LocationShapes, Location!LocationTypeOK
  <2>3. CASE locationWorker' = Location!At("top")
    <3>1. Location!At("top") \in Location!Workers /\ Location!At("top").at = "top" /\ Location!At("top").fix.m = 0
      BY LocationAtTyped
    <3>2. 0 \in 0..moment
      BY DEF Location!LocationShapes, Location!LocationConstantsOK
    <3> QED
      BY <2>3, <3>1, <3>2
  <2> HIDE DEF f
  <2>4. CASE locationWorker' = [locationWorker EXCEPT !.at = "decide", !.fix = f]
    BY <2>2, <2>4 DEF Location!LocationShapes, Location!Workers, Location!Checks
  <2>5. CASE locationWorker' = [locationWorker EXCEPT !.at = "ip", !.fix = f]
    BY <2>2, <2>5 DEF Location!LocationShapes, Location!Workers, Location!Checks
  <2> QED
    BY <2>1, <2>3, <2>4, <2>5 DEF f
<1>3. Location!LocationShapes'
  BY <1>1, <1>2 DEF Location!LocationShapes, Location!LocationTypeOK, Location!LocationConstantsOK
<1>4. Location!MemoryInv'
  BY <1>1, <1>2 DEF Location!MemoryInv, Location!LocationShapes, Location!LocationTypeOK, Location!LocationConstantsOK
<1>5. Location!RequestInv'
  BY <1>1, <1>2 DEF Location!RequestInv, Location!MemoryInv, Location!LocationShapes, Location!LocationTypeOK, Location!LocationConstantsOK
<1>6. Location!ZoneInv'
  BY <1>1, <1>2 DEF Location!ZoneInv, Location!MemoryInv, Location!Checks, Location!Asking, Location!PastCheck, Location!LocationShapes, Location!LocationTypeOK, Location!LocationConstantsOK
<1>7. Location!FenceInv'
  BY <1>1, <1>2 DEF Location!FenceInv, Location!Reconciled, Location!on_network, Location!LocationShapes, Location!LocationTypeOK, Location!LocationConstantsOK
<1>8. Location!WritesJustified
  BY <1>1, <1>2 DEF Location!WritesJustified, Location!DaemonWrites, Location!LocationShapes, Location!LocationTypeOK, Location!LocationConstantsOK
<1> QED
  BY <1>3, <1>4, <1>5, <1>6, <1>7, <1>8

LEMMA LocationAbandonKeeps ==
  ASSUME Location!LocationConstantsOK, Location!LocationIInv, Location!Abandon
  PROVE  Location!LocationIInv' /\ Location!WritesJustified
<1> USE DEF Location!Abandon, Location!LocationIInv
<1>1. disk' \in Location!States' /\ mem' \in Location!States'
  BY LocationStatesSame DEF Location!LocationShapes, Location!LocationTypeOK
<1>2. ctl' \in Location!Controls /\ ctl'.epoch = ctl.epoch
  BY DEF Location!LocationShapes, Location!Controls
<1>3. locationWorker' \in Location!Workers /\ locationWorker'.at = "top" /\ locationWorker'.fix.m = 0
  BY LocationAtTyped DEF Location!NoFix
<1>4. Location!LocationShapes'
  BY <1>1, <1>2, <1>3 DEF Location!LocationShapes, Location!LocationTypeOK, Location!LocationConstantsOK
<1>5. Location!MemoryInv'
  BY <1>1, <1>2, <1>3 DEF Location!MemoryInv, Location!LocationShapes, Location!LocationTypeOK, Location!LocationConstantsOK
<1>6. Location!RequestInv'
  BY <1>1, <1>2, <1>3 DEF Location!RequestInv, Location!MemoryInv, Location!LocationShapes, Location!LocationTypeOK, Location!LocationConstantsOK
<1>7. Location!ZoneInv'
  BY <1>1, <1>2, <1>3 DEF Location!ZoneInv, Location!MemoryInv, Location!Checks, Location!Asking, Location!PastCheck, Location!LocationShapes, Location!LocationTypeOK, Location!LocationConstantsOK
<1>8. Location!FenceInv'
  BY <1>1, <1>2, <1>3 DEF Location!FenceInv, Location!Reconciled, Location!on_network, Location!LocationShapes, Location!LocationTypeOK, Location!LocationConstantsOK
<1>9. Location!WritesJustified
  BY <1>1, <1>2, <1>3 DEF Location!WritesJustified, Location!DaemonWrites, Location!LocationShapes, Location!LocationTypeOK, Location!LocationConstantsOK
<1> QED
  BY <1>4, <1>5, <1>6, <1>7, <1>8, <1>9

LEMMA LocationIpKeeps ==
  ASSUME Location!LocationConstantsOK, Location!LocationIInv, Location!ip
  PROVE  Location!LocationIInv' /\ Location!WritesJustified
<1> USE DEF Location!ip, Location!LocationIInv
<1>1. disk' \in Location!States' /\ mem' \in Location!States'
  BY LocationStatesSame DEF Location!LocationShapes, Location!LocationTypeOK
<1>2. /\ sched' \in Location!Schedules /\ sched'.network = sched.network /\ sched'.since = sched.since
      /\ sched'.completed \in {sched.completed, sched.network}
  BY DEF Location!Complete, Location!Schedules, Location!LocationShapes
<1>3. /\ locationWorker' \in Location!Workers /\ locationWorker'.at \in {"top", "decide"} /\ locationWorker'.fix.m \in 0..moment
      /\ locationWorker'.at # "top" => locationWorker'.fix = locationWorker.fix /\ locationWorker'.epoch = locationWorker.epoch
  <2>1. CASE locationWorker' = Location!At("top")
    BY <2>1, LocationAtTyped DEF Location!NoFix, Location!LocationShapes, Location!LocationTypeOK
  <2>2. CASE locationWorker' = [locationWorker EXCEPT !.at = "decide"]
    BY <2>2 DEF Location!LocationShapes, Location!LocationTypeOK, Location!Workers, Location!Checks
  <2> QED
    BY <2>1, <2>2
<1>4. Location!LocationShapes'
  BY <1>1, <1>2, <1>3 DEF Location!LocationShapes, Location!LocationTypeOK, Location!LocationConstantsOK
<1>5. Location!MemoryInv'
  BY <1>1, <1>2, <1>3 DEF Location!MemoryInv, Location!LocationShapes, Location!LocationTypeOK, Location!LocationConstantsOK
<1>6. Location!RequestInv'
  BY <1>1, <1>2, <1>3 DEF Location!RequestInv, Location!MemoryInv, Location!LocationShapes, Location!LocationTypeOK, Location!LocationConstantsOK
<1>7. Location!ZoneInv'
  BY <1>1, <1>2, <1>3 DEF Location!ZoneInv, Location!MemoryInv, Location!Checks, Location!Asking, Location!PastCheck, Location!LocationShapes, Location!LocationTypeOK, Location!LocationConstantsOK
<1>8. Location!FenceInv'
  BY <1>1, <1>2, <1>3 DEF Location!FenceInv, Location!Reconciled, Location!on_network, Location!LocationShapes, Location!LocationTypeOK, Location!LocationConstantsOK
<1>9. Location!WritesJustified
  BY <1>1, <1>2, <1>3 DEF Location!WritesJustified, Location!DaemonWrites, Location!LocationShapes, Location!LocationTypeOK, Location!LocationConstantsOK
<1> QED
  BY <1>4, <1>5, <1>6, <1>7, <1>8, <1>9

LEMMA LocationDecideKeeps ==
  ASSUME Location!LocationConstantsOK, Location!LocationIInv, Location!decide
  PROVE  Location!LocationIInv' /\ Location!WritesJustified
<1> USE DEF Location!LocationIInv
<1>1. CASE Location!Dies /\ UNCHANGED <<disk, ack, fence>> /\ (uncertain' <=> uncertain)
  BY <1>1, LocationDiesKeeps DEF Location!decide, Location!Save, Location!Intent
<1>2. SUFFICES ASSUME ~(Location!Dies /\ UNCHANGED <<disk, ack, fence>> /\ (uncertain' <=> uncertain)) PROVE Location!LocationIInv' /\ Location!WritesJustified
  BY <1>1
<1>3. /\ locationWorker.at = "decide" /\ UNCHANGED <<queue, ctl, auth>> /\ disk' = mem'
      /\ UNCHANGED <<fence, zone, net, asleep, moment, sent, ack, uncertain, applied>>
      /\ \/ /\ locationWorker' = [locationWorker EXCEPT !.at = "recheck", !.current = zone] /\ mem' = Location!Intent
            /\ zone = auth.baseline /\ sched' = sched
         \/ locationWorker' = Location!At("top") /\ mem' = [mem EXCEPT !.paused = TRUE] /\ Location!Complete
  BY <1>2 DEF Location!decide, Location!Save, Location!Intent
<1>4. /\ mem' \in Location!States' /\ mem'.expected = mem.expected /\ mem'.rev = mem.rev
      /\ (mem' = Location!Intent => mem'.pending /\ mem'.paused = mem.paused)
      /\ (mem' = [mem EXCEPT !.paused = TRUE] => mem'.pending = mem.pending /\ mem'.paused)
  <2>1. mem \in Location!States /\ disk \in Location!States /\ zone \in Zones
    BY DEF Location!LocationShapes, Location!LocationTypeOK
  <2>2. LET t == [mem EXCEPT !.pending = TRUE]
        IN  t \in Location!States /\ t.paused = mem.paused /\ t.pending /\ t.expected = mem.expected /\ t.rev = mem.rev
    BY <2>1, LocationStatesChanged
  <2>3. LET t == [mem EXCEPT !.paused = TRUE]
        IN  t \in Location!States /\ t.paused /\ t.pending = mem.pending /\ t.expected = mem.expected /\ t.rev = mem.rev
    BY <2>1, LocationStatesChanged
  <2>4. Location!States' = Location!States
    BY LocationStatesSame DEF Location!decide, Location!Save, Location!Intent
  <2> QED
    BY <1>3, <2>1, <2>2, <2>3, <2>4 DEF Location!Intent
<1>5. /\ locationWorker' \in Location!Workers /\ locationWorker'.fix.m \in 0..moment
      /\ \/ /\ locationWorker'.at = "recheck" /\ locationWorker'.fix = locationWorker.fix /\ locationWorker'.current = zone /\ locationWorker'.epoch = locationWorker.epoch
            /\ sched' = sched /\ zone = auth.baseline /\ mem'.pending /\ mem'.paused = mem.paused
         \/ locationWorker'.at = "top" /\ mem'.paused /\ mem'.pending = mem.pending
  <2>1. Location!At("top") \in Location!Workers /\ Location!At("top").at = "top" /\ Location!At("top").fix.m = 0
    BY LocationAtTyped
  <2>2. [locationWorker EXCEPT !.at = "recheck", !.current = zone] \in Location!Workers
    BY DEF Location!Workers, Location!LocationShapes, Location!LocationTypeOK
  <2>3. locationWorker \in Location!Workers /\ locationWorker.fix.m \in 0..moment /\ 0 \in 0..moment
    BY DEF Location!LocationShapes, Location!LocationTypeOK, Location!LocationConstantsOK
  <2> QED
    BY <1>3, <1>4, <2>1, <2>2, <2>3 DEF Location!Workers
<1>6. /\ sched' \in Location!Schedules /\ sched'.network = sched.network /\ sched'.since = sched.since
      /\ sched'.completed \in {sched.completed, sched.network}
  BY <1>3 DEF Location!Complete, Location!Schedules, Location!LocationShapes
<1>7. Location!LocationShapes'
  BY <1>2, <1>3, <1>4, <1>5, <1>6 DEF Location!LocationShapes, Location!LocationTypeOK, Location!LocationConstantsOK
<1>8. Location!MemoryInv'
  BY <1>2, <1>3, <1>4, <1>5, <1>6 DEF Location!MemoryInv, Location!LocationShapes, Location!LocationTypeOK, Location!LocationConstantsOK
<1>9. Location!RequestInv'
  BY <1>2, <1>3, <1>4, <1>5, <1>6 DEF Location!RequestInv, Location!MemoryInv, Location!LocationShapes, Location!LocationTypeOK, Location!LocationConstantsOK
<1>10. Location!ZoneInv'
  BY <1>2, <1>3, <1>4, <1>5, <1>6 DEF Location!ZoneInv, Location!MemoryInv, Location!Checks, Location!Asking, Location!PastCheck, Location!LocationShapes, Location!LocationTypeOK, Location!LocationConstantsOK
<1>11. Location!FenceInv'
  BY <1>2, <1>3, <1>4, <1>5, <1>6 DEF Location!FenceInv, Location!Reconciled, Location!on_network, Location!LocationShapes, Location!LocationTypeOK, Location!LocationConstantsOK
<1>12. Location!WritesJustified
  BY <1>2, <1>3, <1>4, <1>5, <1>6 DEF Location!WritesJustified, Location!DaemonWrites, Location!LocationShapes, Location!LocationTypeOK, Location!LocationConstantsOK
<1> QED
  BY <1>7, <1>8, <1>9, <1>10, <1>11, <1>12

LEMMA LocationRecheckKeeps ==
  ASSUME Location!LocationConstantsOK, Location!LocationIInv, Location!Recheck
  PROVE  Location!LocationIInv' /\ Location!WritesJustified
<1> USE DEF Location!LocationIInv
<1>1. CASE Location!Dies /\ UNCHANGED <<disk, ack, fence>> /\ (uncertain' <=> uncertain)
  BY <1>1, LocationDiesKeeps DEF Location!Recheck, Location!Save
<1>2. SUFFICES ASSUME ~(Location!Dies /\ UNCHANGED <<disk, ack, fence>> /\ (uncertain' <=> uncertain)) PROVE Location!LocationIInv' /\ Location!WritesJustified
  BY <1>1
<1>3. /\ locationWorker.at = "recheck" /\ UNCHANGED <<queue, ctl, sched, auth>>
      /\ UNCHANGED <<fence, zone, net, asleep, moment, sent, ack, uncertain, late, applied>>
      /\ \/ /\ locationWorker' = [locationWorker EXCEPT !.at = "write"] /\ UNCHANGED <<disk, mem>>
            /\ Location!on_network(sched.network) /\ Location!active(locationWorker.epoch)
         \/ locationWorker' = Location!At("top") /\ mem' = [mem EXCEPT !.pending = FALSE] /\ disk' = mem'
  BY <1>2 DEF Location!Recheck, Location!Save
<1>4. /\ disk' \in Location!States' /\ mem' \in Location!States'
      /\ mem'.expected = mem.expected /\ mem'.rev = mem.rev /\ mem'.paused = mem.paused
      /\ (mem' = mem /\ disk' = disk) \/ mem' = disk'
      /\ mem' = [mem EXCEPT !.pending = FALSE] => ~mem'.pending
  <2>1. mem \in Location!States /\ disk \in Location!States /\ zone \in Zones
    BY DEF Location!LocationShapes, Location!LocationTypeOK
  <2>2. LET t == [mem EXCEPT !.pending = FALSE]
        IN  t \in Location!States /\ t.paused = mem.paused /\ ~t.pending /\ t.expected = mem.expected /\ t.rev = mem.rev
    BY <2>1, LocationStatesChanged
  <2>3. Location!States' = Location!States
    BY LocationStatesSame DEF Location!Recheck, Location!Save
  <2> QED
    BY <1>3, <2>1, <2>2, <2>3
<1>5. /\ locationWorker' \in Location!Workers /\ locationWorker'.fix.m \in 0..moment
      /\ \/ /\ locationWorker'.at = "write" /\ locationWorker'.fix = locationWorker.fix /\ locationWorker'.current = locationWorker.current
            /\ mem' = mem /\ disk' = disk /\ Location!on_network(sched.network) /\ Location!active(locationWorker.epoch)
         \/ locationWorker'.at = "top" /\ mem' = disk' /\ ~mem'.pending
  <2>1. Location!At("top") \in Location!Workers /\ Location!At("top").at = "top" /\ Location!At("top").fix.m = 0
    BY LocationAtTyped
  <2>2. [locationWorker EXCEPT !.at = "write"] \in Location!Workers
    BY DEF Location!Workers, Location!Asking, Location!LocationShapes
  <2>3. locationWorker \in Location!Workers /\ locationWorker.fix.m \in 0..moment /\ 0 \in 0..moment
    BY DEF Location!LocationShapes, Location!LocationTypeOK, Location!LocationConstantsOK
  <2> QED
    BY <1>3, <1>4, <2>1, <2>2, <2>3 DEF Location!Workers
<1>6. Location!LocationShapes'
  BY <1>2, <1>3, <1>4, <1>5 DEF Location!LocationShapes, Location!LocationTypeOK, Location!LocationConstantsOK
<1>7. Location!MemoryInv'
  BY <1>2, <1>3, <1>4, <1>5 DEF Location!MemoryInv, Location!LocationShapes, Location!LocationTypeOK, Location!LocationConstantsOK
<1>8. Location!RequestInv'
  BY <1>2, <1>3, <1>4, <1>5 DEF Location!RequestInv, Location!MemoryInv, Location!LocationShapes, Location!LocationTypeOK, Location!LocationConstantsOK
<1>9. Location!ZoneInv'
  BY <1>2, <1>3, <1>4, <1>5 DEF Location!ZoneInv, Location!MemoryInv, Location!Checks, Location!Asking, Location!PastCheck, Location!LocationShapes, Location!LocationTypeOK, Location!LocationConstantsOK
<1>10. Location!FenceInv'
  BY <1>2, <1>3, <1>4, <1>5 DEF Location!FenceInv, Location!Reconciled, Location!on_network, Location!LocationShapes, Location!LocationTypeOK, Location!LocationConstantsOK, Location!active
<1>11. Location!WritesJustified
  BY <1>2, <1>3, <1>4, <1>5 DEF Location!WritesJustified, Location!DaemonWrites, Location!LocationShapes, Location!LocationTypeOK, Location!LocationConstantsOK
<1> QED
  BY <1>6, <1>7, <1>8, <1>9, <1>10, <1>11

LEMMA LocationWriteKeeps ==
  ASSUME Location!LocationConstantsOK, Location!LocationIInv, Location!Write
  PROVE  Location!LocationIInv' /\ Location!WritesJustified
<1> USE DEF Location!LocationIInv
<1>1. disk' \in Location!States' /\ mem' \in Location!States'
  BY LocationStatesSame DEF Location!Write, Location!LocationShapes, Location!LocationTypeOK
<1>2. /\ locationWorker' \in Location!Workers /\ locationWorker'.at = "write-verify" /\ locationWorker'.fix = locationWorker.fix
      /\ \/ locationWorker.current = locationWorker.fix.zone /\ UNCHANGED <<zone, ack, uncertain>>
         \/ /\ uncertain' /\ (locationWorker'.ok => zone' = locationWorker.fix.zone /\ ack' = locationWorker.fix.zone)
            /\ UNCHANGED <<zone, ack>> \/ (zone' = locationWorker.fix.zone /\ ack' = locationWorker.fix.zone)
  <2>1. locationWorker \in Location!Workers
    BY DEF Location!LocationShapes
  <2> QED
    BY <2>1, LocationSetTimezoneIs DEF Location!Write, Location!Verifying
<1>3. /\ locationWorker.at = "write" /\ locationWorker.fix.zone \in Zones
      /\ UNCHANGED <<fence, net, asleep, moment, ctl, disk, mem, auth, sched, queue, sent, late, applied>>
  BY DEF Location!Write, Location!LocationShapes, Location!Fixes
<1>4. Location!LocationShapes'
  BY <1>1, <1>2, <1>3 DEF Location!LocationShapes, Location!LocationTypeOK, Location!LocationConstantsOK
<1>5. Location!MemoryInv'
  BY <1>1, <1>2, <1>3 DEF Location!MemoryInv, Location!LocationShapes, Location!LocationTypeOK, Location!LocationConstantsOK
<1>6. Location!RequestInv'
  BY <1>1, <1>2, <1>3 DEF Location!RequestInv, Location!MemoryInv, Location!LocationShapes, Location!LocationTypeOK, Location!LocationConstantsOK
<1>7. Location!ZoneInv'
  BY <1>1, <1>2, <1>3 DEF Location!ZoneInv, Location!MemoryInv, Location!Checks, Location!Asking, Location!PastCheck, Location!LocationShapes, Location!LocationTypeOK, Location!LocationConstantsOK
<1>8. Location!FenceInv'
  BY <1>1, <1>2, <1>3 DEF Location!FenceInv, Location!Reconciled, Location!on_network, Location!LocationShapes, Location!LocationTypeOK, Location!LocationConstantsOK
<1>9. Location!WritesJustified
  BY <1>1, <1>2, <1>3 DEF Location!WritesJustified, Location!DaemonWrites, Location!LocationShapes, Location!LocationTypeOK, Location!LocationConstantsOK, Location!ZoneInv, Location!PastCheck, Location!FenceInv
<1> QED
  BY <1>4, <1>5, <1>6, <1>7, <1>8, <1>9

LEMMA LocationVerifyKeeps ==
  ASSUME Location!LocationConstantsOK, Location!LocationIInv, Location!Verify
  PROVE  Location!LocationIInv' /\ Location!WritesJustified
<1> USE DEF Location!LocationIInv
<1>1. CASE Location!Dies /\ UNCHANGED <<disk, ack, fence>> /\ (uncertain' <=> uncertain)
  BY <1>1, LocationDiesKeeps DEF Location!Verify, Location!Save
<1>2. SUFFICES ASSUME ~(Location!Dies /\ UNCHANGED <<disk, ack, fence>> /\ (uncertain' <=> uncertain)) PROVE Location!LocationIInv' /\ Location!WritesJustified
  BY <1>1
<1>3. /\ locationWorker.at = "write-verify" /\ UNCHANGED <<queue, ctl>> /\ disk' = mem'
      /\ UNCHANGED <<fence, zone, net, asleep, moment, sent, ack, late, applied>>
      /\ locationWorker' = Location!At("top") /\ Location!Complete
      /\ \/ /\ locationWorker.ok /\ zone = locationWorker.fix.zone /\ mem' = [mem EXCEPT !.expected = zone, !.rev = @ + 1, !.pending = FALSE]
            /\ auth' = [auth EXCEPT !.baseline = zone] /\ ~uncertain'
         \/ mem' = [mem EXCEPT !.paused = TRUE] /\ auth' = auth /\ (uncertain' <=> uncertain)
  BY <1>2 DEF Location!Verify, Location!Save
<1>4. /\ mem' \in Location!States'
      /\ \/ /\ locationWorker.ok /\ zone = locationWorker.fix.zone /\ mem'.expected = zone /\ ~mem'.pending /\ mem'.rev = mem.rev + 1
            /\ auth' = [auth EXCEPT !.baseline = zone] /\ ~uncertain'
         \/ /\ mem'.paused /\ mem'.pending = mem.pending /\ mem'.expected = mem.expected /\ mem'.rev = mem.rev
            /\ auth' = auth /\ (uncertain' <=> uncertain)
  <2>1. mem \in Location!States /\ disk \in Location!States /\ zone \in Zones
    BY DEF Location!LocationShapes, Location!LocationTypeOK
  <2>2. LET t == [mem EXCEPT !.expected = zone, !.rev = @ + 1, !.pending = FALSE]
        IN  t \in Location!States /\ t.paused = mem.paused /\ ~t.pending /\ t.expected = zone /\ t.rev = mem.rev + 1
    BY <2>1, LocationStatesChanged
  <2>3. LET t == [mem EXCEPT !.paused = TRUE]
        IN  t \in Location!States /\ t.paused /\ t.pending = mem.pending /\ t.expected = mem.expected /\ t.rev = mem.rev
    BY <2>1, LocationStatesChanged
  <2>4. Location!States' = Location!States
    BY LocationStatesSame DEF Location!Verify, Location!Save
  <2> QED
    BY <1>3, <2>1, <2>2, <2>3, <2>4
<1>5. locationWorker' \in Location!Workers /\ locationWorker'.at = "top" /\ locationWorker'.fix.m = 0
  BY <1>3, LocationAtTyped
<1>6. /\ auth' \in Location!Authorities /\ auth'.cepoch = auth.cepoch /\ (auth' = auth \/ auth'.baseline = zone)
      /\ (auth' = [auth EXCEPT !.baseline = zone] => auth'.baseline = zone)
  BY <1>3 DEF Location!Authorities, Location!LocationShapes, Location!LocationTypeOK
<1>7. /\ sched' \in Location!Schedules /\ sched'.network = sched.network /\ sched'.since = sched.since
      /\ sched'.completed \in {sched.completed, sched.network}
  BY <1>3 DEF Location!Complete, Location!Schedules, Location!LocationShapes
<1>8. Location!LocationShapes'
  BY <1>2, <1>3, <1>4, <1>5, <1>6, <1>7 DEF Location!LocationShapes, Location!LocationTypeOK, Location!LocationConstantsOK
<1>9. Location!MemoryInv'
  BY <1>2, <1>3, <1>4, <1>5, <1>6, <1>7 DEF Location!MemoryInv, Location!LocationShapes, Location!LocationTypeOK, Location!LocationConstantsOK
<1>10. Location!RequestInv'
  BY <1>2, <1>3, <1>4, <1>5, <1>6, <1>7 DEF Location!RequestInv, Location!MemoryInv, Location!LocationShapes, Location!LocationTypeOK, Location!LocationConstantsOK, Location!States, Location!Reqs
<1>11. Location!ZoneInv'
  BY <1>2, <1>3, <1>4, <1>5, <1>6, <1>7 DEF Location!ZoneInv, Location!MemoryInv, Location!Checks, Location!Asking, Location!PastCheck, Location!LocationShapes, Location!LocationTypeOK, Location!LocationConstantsOK
<1>12. Location!FenceInv'
  BY <1>2, <1>3, <1>4, <1>5, <1>6, <1>7 DEF Location!FenceInv, Location!Reconciled, Location!on_network, Location!LocationShapes, Location!LocationTypeOK, Location!LocationConstantsOK
<1>13. Location!WritesJustified
  BY <1>2, <1>3, <1>4, <1>5, <1>6, <1>7 DEF Location!WritesJustified, Location!DaemonWrites, Location!LocationShapes, Location!LocationTypeOK, Location!LocationConstantsOK
<1> QED
  BY <1>8, <1>9, <1>10, <1>11, <1>12, <1>13

-----------------------------------------------------------------------------
(* The invariant.                                                             *)

LEMMA LocationInitHolds == ASSUME Location!LocationConstantsOK, Location!LocationInit PROVE Location!LocationIInv
<1> USE DEF Location!LocationInit
<1>1. locationWorker \in Location!Workers /\ locationWorker.at = "down" /\ locationWorker.fix.m = 0
  BY LocationAtTyped
<1>2. disk = Location!FreshState /\ mem = Location!FreshState /\ disk \in Location!States
  BY LocationFreshTyped
<1>3. auth \in Location!Authorities /\ auth.cepoch = 0
  BY DEF Location!Authorities
<1>4. Location!LocationShapes
  <2>1. sched \in Location!Schedules /\ sched.network = 0 /\ sched.since = 0 /\ sched.completed = 0 /\ ctl \in Location!Controls /\ ctl.epoch = 0
    BY LocationFreshTyped
  <2>2. 0 \in 0..LocationMoments /\ 0 \in 0..0
    BY DEF Location!LocationConstantsOK
  <2>3. queue = Location!NoReq /\ sent \in [LocationIds -> Location!Reqs \union {Location!NoReq}] /\ applied \in [LocationIds -> Nat]
    OBVIOUS
  <2>4. moment = 0 /\ fence = 0 /\ net = 0 /\ asleep \in BOOLEAN /\ zone \in Zones /\ ack \in Zones
    OBVIOUS
  <2>5. Location!LocationTypeOK
    BY <1>1, <1>2, <2>1, <2>2, <2>4 DEF Location!LocationTypeOK
  <2> HIDE DEF Location!LocationInit
  <2> QED
    BY <1>1, <1>2, <1>3, <2>1, <2>2, <2>3, <2>4, <2>5 DEF Location!LocationShapes
<1>5. Location!MemoryInv /\ Location!RequestInv /\ Location!ZoneInv /\ Location!FenceInv
  BY <1>1, <1>2, <1>3, LocationFreshTyped DEF Location!MemoryInv, Location!RequestInv, Location!ZoneInv, Location!Checks, Location!Asking, Location!PastCheck, Location!FenceInv, Location!Reconciled
<1> QED
  BY <1>4, <1>5 DEF Location!LocationIInv

LEMMA LocationSafeFollows == ASSUME Location!LocationConstantsOK, Location!LocationIInv PROVE Location!LocationTypeOK /\ Location!LocationSafe
BY DEF Location!LocationIInv, Location!LocationShapes, Location!RequestInv, Location!ZoneInv, Location!Asking, Location!LocationSafe

LEMMA LocationNextStep == ASSUME Location!LocationConstantsOK, Location!LocationIInv, Location!LocationNext PROVE Location!LocationIInv' /\ Location!WritesJustified
<1>1. CASE Location!WorkerStep
  BY <1>1, LocationStartKeeps, LocationReconcileKeeps, LocationApplyKeeps, LocationNoCommandKeeps, LocationControlWriteKeeps, LocationControlVerifyKeeps,
     LocationGateKeeps, LocationObserveKeeps, LocationAcquireKeeps, LocationGeoclueKeeps, LocationAbandonKeeps, LocationIpKeeps, LocationDecideKeeps, LocationRecheckKeeps, LocationWriteKeeps,
     LocationVerifyKeeps DEF Location!WorkerStep
<1>2. CASE Location!NetworkChange \/ Location!SleepSignal \/ Location!Reload \/ Location!Terminate \/ Location!Crash
  BY <1>2, LocationNetworkChangeKeeps, LocationSleepSignalKeeps, LocationReloadKeeps, LocationTerminateKeeps, LocationCrashKeeps
<1>3. CASE \E z \in Zones : Location!UserSetsZone(z)
  BY <1>3, LocationUserSetsZoneKeeps
<1>4. CASE \E i \in LocationIds, place \in Zones \union {"auto"} : Location!set_location_policy(i, place)
  BY <1>4, LocationSetPolicyKeeps
<1> QED
  BY <1>1, <1>2, <1>3, <1>4 DEF Location!LocationNext

LEMMA LocationNextKeeps == ASSUME Location!LocationConstantsOK, Location!LocationIInv, [Location!LocationNext]_(Location!locationVars) PROVE Location!LocationIInv' /\ [Location!WritesJustified]_(Location!locationVars)
<1>1. CASE Location!LocationNext
  BY <1>1, LocationNextStep
<1>2. CASE UNCHANGED Location!locationVars
  <2>1. Location!LocationShapes'
    BY <1>2, LocationStatesSame DEF Location!locationVars, Location!LocationIInv, Location!LocationShapes, Location!LocationTypeOK
  <2>2. Location!MemoryInv' /\ Location!RequestInv' /\ Location!ZoneInv'
    BY <1>2 DEF Location!locationVars, Location!LocationIInv, Location!MemoryInv, Location!RequestInv, Location!ZoneInv
  <2>3. Location!FenceInv'
    BY <1>2 DEF Location!locationVars, Location!LocationIInv, Location!FenceInv, Location!on_network
  <2> QED
    BY <1>2, <2>1, <2>2, <2>3 DEF Location!LocationIInv
<1> QED
  BY <1>1, <1>2

\* A request id changes the zone at most once whatever its client repeats, and a
\* write under way is on disk as pending (location/authority.rs), for any number of
\* requests, failed writes, reloads and crashes.
THEOREM LocationRequestsApplyOnce == ASSUME Location!LocationConstantsOK PROVE Location!LocationSpec => []Location!LocationSafe
<1>1. Location!LocationInit => Location!LocationIInv
  BY LocationInitHolds
<1>2. Location!LocationIInv /\ [Location!LocationNext]_(Location!locationVars) => Location!LocationIInv'
  BY LocationNextKeeps
<1>3. Location!LocationIInv => Location!LocationSafe
  BY LocationSafeFollows
<1> QED
  BY <1>1, <1>2, <1>3, PTL DEF Location!LocationSpec

\* When the daemon changes the zone the user had not changed it unnoticed, no
\* earlier write is unaccounted for, and an automatic change rests on a fix of the
\* present network and waking period (location/authority.rs recheck and fence).
THEOREM LocationZoneWritesJustified == ASSUME Location!LocationConstantsOK PROVE Location!LocationSpec => Location!LocationSteps
<1>1. Location!LocationInit => Location!LocationIInv
  BY LocationInitHolds
<1>2. Location!LocationIInv /\ [Location!LocationNext]_(Location!locationVars) => Location!LocationIInv'
  BY LocationNextKeeps
<1>3. Location!LocationIInv /\ [Location!LocationNext]_(Location!locationVars) => [Location!WritesJustified]_(Location!locationVars)
  BY LocationNextKeeps
<1> QED
  BY <1>1, <1>2, <1>3, PTL DEF Location!LocationSpec, Location!LocationSteps

HIDE DEF zone, net, asleep, moment, ctl, disk, mem, auth, sched, locationWorker, queue, sent, ack, uncertain, late, fence, applied, locationSpent

=============================================================================
