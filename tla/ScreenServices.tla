--------------------------- MODULE ScreenServices ---------------------------
(* The services behind the screen, on the registers.                           *)
EXTENDS Registers

CONSTANTS
    Windows, Keys, WorkspaceIds, WorkspaceEnv,                  \* WorkspaceLifecycle
    DisplayAsks, DisplayEnv,                                    \* DisplayPolicy
    Decks, PopupIds, PopupApps, PopupMonitors, PopupEnv         \* PopupDecks

Workspace == INSTANCE WorkspaceLifecycle WITH
            Windows <- Windows, Keys <- Keys, MaxId <- WorkspaceIds, MaxEnv <- WorkspaceEnv,
            desk <- r1, journal <- r2, disk <- r3, poisoned <- r4, op <- r5, watchers <- r6,
            intake <- r7, pins <- r8, grace <- r9, sent <- r10, used <- r11, turns <- r12
Display == INSTANCE DisplayPolicy WITH
            MaxAsks <- DisplayAsks, MaxEnv <- DisplayEnv,
            outs <- r1, xid <- r2, sleep <- r3, prefer <- r4, doc <- r5, rt <- r6,
            planner <- r7, docking <- r8, job <- r9, expired <- r10, disturbed <- r11,
            tampered <- r12, asks <- r13, env <- r14
Popups == INSTANCE PopupDecks WITH
            Apps <- PopupApps, Monitors <- PopupMonitors, MaxDecks <- Decks, MaxId <- PopupIds, MaxEnv <- PopupEnv,
            active <- r1, dnd <- r2, policies <- r3, leases <- r4, sharing <- r5, cards <- r6,
            screens <- r7, observer <- r8, lastId <- r9, hushed <- r10, ended <- r11,
            envd <- r12

\* What the proofs ask of the constants: there is an output for the popups and a
\* workspace, and the bounds are numbers.
ASSUME WorkspaceConstants == Workspace!WorkspaceConstantsOK
ASSUME DisplayConstants == Display!DisplayConstantsOK
ASSUME PopupConstants == Popups!DecksConstantsOK
=============================================================================
