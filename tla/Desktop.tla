------------------------------ MODULE Desktop ------------------------------
(***************************************************************************)
(* The desktop services that do not share state with one another, side by  *)
(* side: a behaviour belongs to the service `focus' names in its first     *)
(* state and runs that service alone.  The registers r1 to r18 hold the    *)
(* variables of the service that runs, in the order of its module; the     *)
(* registers it does not need stay 0.                                      *)
(***************************************************************************)
EXTENDS SleepServices, AmbientServices, DataServices, ScreenServices, SoundServices

CONSTANT Services                           \* the services to look at

-----------------------------------------------------------------------------
\* The registers from the tenth on that a service leaves unused.
Unused18 == r18 = 0
Unused17 == r17 = 0 /\ Unused18
Unused16 == r16 = 0 /\ Unused17
Unused15 == r15 = 0 /\ Unused16
Unused14 == r14 = 0 /\ Unused15
Unused13 == r13 = 0 /\ Unused14
Unused12 == r12 = 0 /\ Unused13
Unused11 == r11 = 0 /\ Unused12
Unused10 == r10 = 0 /\ Unused11
From10 == <<r10, r11, r12, r13, r14, r15, r16, r17, r18>>
From11 == <<r11, r12, r13, r14, r15, r16, r17, r18>>
From12 == <<r12, r13, r14, r15, r16, r17, r18>>
From13 == <<r13, r14, r15, r16, r17, r18>>
From15 == <<r15, r16, r17, r18>>
From16 == <<r16, r17, r18>>
Init ==
    /\ focus \in Services
    /\ \/ focus = "sleep" /\ Sleep!Init /\ Unused10
       \/ focus = "critical" /\ Critical!Init /\ Unused15
       \/ focus = "idle" /\ Idle!Init /\ Unused11
       \/ focus = "telemetry" /\ Telemetry!Init /\ Unused10
       \/ focus = "workspace" /\ Workspace!Init /\ Unused13
       \/ focus = "agenda" /\ Agenda!AgendaInit /\ Unused15
       \/ focus = "feed" /\ Feed!FeedInit /\ Unused16
       \/ focus = "update" /\ Update!UpdateInit /\ Unused12
       \/ focus = "display" /\ Display!DisplayInit /\ Unused15
       \/ focus = "location" /\ Location!LocationInit
       \/ focus = "power" /\ Power!PowerInit /\ Unused13
       \/ focus = "audio" /\ Audio!AudioInit /\ Unused13
       \/ focus = "timezone" /\ Timezone!TimezoneInit /\ Unused10
       \/ focus = "media" /\ Media!MediaInit /\ Unused12
       \/ focus = "popups" /\ Popups!DecksInit /\ Unused13
Next ==
    \/ focus = "sleep" /\ Sleep!Next /\ UNCHANGED <<focus, From10>>
    \/ focus = "critical" /\ Critical!Next /\ UNCHANGED <<focus, From15>>
    \/ focus = "idle" /\ Idle!Next /\ UNCHANGED <<focus, From11>>
    \/ focus = "telemetry" /\ Telemetry!Next /\ UNCHANGED <<focus, From10>>
    \/ focus = "workspace" /\ Workspace!Next /\ UNCHANGED <<focus, From13>>
    \/ focus = "agenda" /\ Agenda!AgendaNext /\ UNCHANGED <<focus, From15>>
    \/ focus = "feed" /\ Feed!FeedNext /\ UNCHANGED <<focus, From16>>
    \/ focus = "update" /\ Update!UpdateNext /\ UNCHANGED <<focus, From12>>
    \/ focus = "display" /\ Display!DisplayNext /\ UNCHANGED <<focus, From15>>
    \/ focus = "location" /\ Location!LocationNext /\ UNCHANGED focus
    \/ focus = "power" /\ Power!PowerNext /\ UNCHANGED <<focus, From13>>
    \/ focus = "audio" /\ Audio!AudioNext /\ UNCHANGED <<focus, From13>>
    \/ focus = "timezone" /\ Timezone!TimezoneNext /\ UNCHANGED <<focus, From10>>
    \/ focus = "media" /\ Media!MediaNext /\ UNCHANGED <<focus, From12>>
    \/ focus = "popups" /\ Popups!DecksNext /\ UNCHANGED <<focus, From13>>
SafetySpec == Init /\ [][Next]_vars

-----------------------------------------------------------------------------
(* Properties: those of each service's module, while that service runs.       *)

\* Every service keeps its variables in the shape its code gives them: no step
\* or failure leaves a record, a file or a queue that the next step cannot read.
TypeOK ==
    /\ focus = "sleep" => Sleep!TypeOK
    /\ focus = "critical" => Critical!TypeOK
    /\ focus = "idle" => Idle!TypeOK
    /\ focus = "telemetry" => Telemetry!TypeOK
    /\ focus = "workspace" => Workspace!TypeOK
    /\ focus = "agenda" => Agenda!AgendaTypeOK
    /\ focus = "feed" => Feed!FeedTypeOK
    /\ focus = "update" => Update!UpdateTypeOK
    /\ focus = "display" => Display!DisplayTypeOK
    /\ focus = "location" => Location!LocationTypeOK
    /\ focus = "power" => Power!PowerTypeOK
    /\ focus = "audio" => Audio!AudioTypeOK
    /\ focus = "timezone" => Timezone!TimezoneTypeOK
    /\ focus = "media" => Media!MediaTypeOK
    /\ focus = "popups" => Popups!DecksTypeOK

\* Sleeping is asked for at most once per lid close, never against keep-awake,
\* with the hibernate delay in force; a critical battery hibernates once per
\* episode and never after a cancellation; idle sleep acts only on the policy,
\* power source and idle episode that are current, and keeps critical settings.
SleepSafe ==
    /\ focus = "sleep" => Sleep!Safe
    /\ focus = "critical" => Critical!Safe
    /\ focus = "idle" => Idle!Safe

\* Workspace effects happen once and only after durable admission, ids are never
\* reused, kept workspaces stay; a display trial can always be rolled back and
\* no mirror loses its source; every audio request is carried out exactly once;
\* metadata looked up for one video is never shown with another; no popup leaks
\* through a screen share or the silence of its application, or comes back after.
DeskSafe ==
    /\ focus = "workspace" => Workspace!Safe
    /\ focus = "display" => Display!DisplaySafe
    /\ focus = "audio" => Audio!AudioSafe
    /\ focus = "media" => Media!MediaSafe
    /\ focus = "popups" => Popups!DecksSafe

\* Agenda effects match their receipts through lost commits, crashes and
\* restores; the activity feed publishes no older data over newer; an update run
\* filed as seen was announced.
DataSafe ==
    /\ focus = "agenda" => Agenda!AgendaSafe
    /\ focus = "feed" => Feed!FeedSafe
    /\ focus = "update" => Update!UpdateSafe

\* The zone the location daemon expects is one it or its user set; the published
\* place belongs to one revision; a power profile held or restored is one the
\* automation owns.
AmbientSafe ==
    /\ focus = "location" => Location!LocationSafe
    /\ focus = "power" => Power!PowerSafe
    /\ focus = "timezone" => Timezone!TimezoneSafe

\* What no step may do: roll sleep telemetry back behind a resume, switch off the
\* last display or confirm a disturbed trial, set a zone on stale evidence,
\* override a power profile its user chose, show an older fix than before, move
\* popups that are being read, or take a screen share for over that goes on.
Allowed ==
    /\ focus = "telemetry" => Telemetry!Newer
    /\ focus = "display" => Display!KeepsFallback /\ Display!ConfirmedUndisturbed
    /\ focus = "location" => Location!WritesJustified
    /\ focus = "power" => Power!ActsOnItsOwn
    /\ focus = "timezone" => Timezone!NotOlder
    /\ focus = "popups" => Popups!FrozenWhileRead /\ Popups!EndsTruly
StepsSafe == [][Allowed]_vars
=============================================================================
