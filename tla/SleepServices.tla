---------------------------- MODULE SleepServices ---------------------------
(* The services that decide when the machine sleeps, and those that report     *)
(* that it did, on the registers.                                              *)
EXTENDS Registers

CONSTANTS
    SleepPolicies, SleepOps, SleepCloses, SleepEnv,             \* SleepRequest
    CriticalTokens, CriticalEpisodes, CriticalEnv,              \* CriticalBattery
    IdleVersions, IdleMinutes, IdleEnv,                         \* IdlePolicy
    Sleeps, TelemetryFaults                                     \* SleepTelemetry

Sleep == INSTANCE SleepRequest WITH
            Policies <- SleepPolicies, MaxOps <- SleepOps, MaxCloses <- SleepCloses, MaxEnv <- SleepEnv,
            session <- r1, tracker <- r2, request <- r3, lid <- r4, policy <- r5, calls <- r6,
            override <- r7, asked <- r8, env <- r9
Critical == INSTANCE CriticalBattery WITH
            MaxTokens <- CriticalTokens, MaxEpisodes <- CriticalEpisodes, MaxEnv <- CriticalEnv,
            battery <- r1, policy <- r2, engine <- r3, saved <- r4, file <- r5, token <- r6,
            step <- r7, worker <- r8, canceller <- r9, shown <- r10, episode <- r11,
            fired <- r12, quiet <- r13, env <- r14
Idle == INSTANCE IdlePolicy WITH
            Versions <- IdleVersions, Minutes <- IdleMinutes, MaxEnv <- IdleEnv,
            file <- r1, plugged <- r2, live <- r3, lock <- r4, setter <- r5, critter <- r6,
            monitor <- r7, idler <- r8, critSet <- r9, env <- r10
Telemetry == INSTANCE SleepTelemetry WITH
            MaxSleeps <- Sleeps, MaxFaults <- TelemetryFaults,
            machine <- r1, operation <- r2, events <- r3, clock <- r4, wanted <- r5,
            query <- r6, toggle <- r7, shown <- r8, faults <- r9

\* What the proofs ask of the constants: the policies are the code's, there is an
\* idle policy and a battery episode, and the bounds are numbers.
ASSUME SleepConstants == Sleep!ConstantsOK
ASSUME CriticalConstants == Critical!ConstantsOK
ASSUME IdleConstants == Idle!ConstantsOK
=============================================================================
