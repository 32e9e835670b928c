--------------------------- MODULE AmbientServices --------------------------
(* The services that follow the machine's surroundings, on the registers.      *)
EXTENDS Registers

CONSTANTS
    Zones, LocationIds, LocationMoments, LocationEnv,           \* LocationAuthority
    PowerSamples, PowerEnv,                                     \* PowerAutomation
    ZoneRevisions, ZoneEnv                                      \* TimezoneView

Location == INSTANCE LocationAuthority WITH
            Zones <- Zones, Ids <- LocationIds, MaxMoment <- LocationMoments, MaxEnv <- LocationEnv,
            zone <- r1, net <- r2, asleep <- r3, moment <- r4, ctl <- r5, disk <- r6,
            mem <- r7, auth <- r8, sched <- r9, worker <- r10, queue <- r11, sent <- r12,
            ack <- r13, uncertain <- r14, late <- r15, fence <- r16, applied <- r17, env <- r18
Power == INSTANCE PowerAutomation WITH
            Samples <- PowerSamples, MaxEnv <- PowerEnv,
            ppd <- r1, battery <- r2, run <- r3, file <- r4, cookie <- r5, link <- r6,
            step <- r7, pinned <- r8, ours <- r9, late <- r10, envp <- r11, taken <- r12
Timezone == INSTANCE TimezoneView WITH
            SystemZones <- Zones, MaxRevision <- ZoneRevisions, MaxEnv <- ZoneEnv,
            system <- r1, status <- r2, signals <- r3, zoneSeen <- r4, placeSeen <- r5,
            statusSeen <- r6, task <- r7, shownZone <- r8, envz <- r9

\* What the proofs ask of the constants: the names of the code's defaults are no
\* timezones or request ids, and the bounds are numbers.
ASSUME LocationConstants == Location!LocationConstantsOK
=============================================================================
