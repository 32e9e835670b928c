---------------------------- MODULE SoundServices ---------------------------
(* The services behind the sound and the players, on the registers.            *)
EXTENDS Registers

CONSTANTS
    Sinks, RoutedSinks, TopVolume, VolumeSteps, AudioQueue,     \* AudioControl
    AudioRequests, AudioEnv,
    MediaPlayers, MediaRank, MediaSpotify, MediaShows,          \* MediaView
    MediaRequests, MediaCache, MediaEnv

Audio == INSTANCE AudioControl WITH
            Sinks <- Sinks, Routed <- RoutedSinks, Top <- TopVolume, Deltas <- VolumeSteps, QueueCap <- AudioQueue,
            MaxRequests <- AudioRequests, MaxEnv <- AudioEnv,
            pw <- r1, requests <- r2, pending <- r3, ctl <- r4, online <- r5, wake <- r6,
            watching <- r7, mon <- r8, shownAudio <- r9, written <- r10, replies <- r11,
            envx <- r12
Media == INSTANCE MediaView WITH
            Players <- MediaPlayers, Rank <- MediaRank, Spotify <- MediaSpotify, Shows <- MediaShows,
            MaxRequests <- MediaRequests, MaxCache <- MediaCache, MaxEnv <- MediaEnv,
            bus <- r1, heard <- r2, view <- r3, watch <- r4, enr <- r5, tasks <- r6, sel <- r7,
            op <- r8, shownMedia <- r9, missed <- r10, envm <- r11

\* What the proofs ask of the constants: there is a sink, no sink, player or video
\* is named like the absent one, volumes and bounds are numbers, and the players
\* are finitely many and ranked.
ASSUME AudioConstants == Audio!AudioConstantsOK
ASSUME MediaConstants == Media!MediaConstantsOK
=============================================================================
