----------------------------- MODULE PopupDecks -----------------------------
(***************************************************************************)
(* What the notification engine shows as popups                            *)
(* (src/src/activity/notifications/engine.rs, decks.rs, sharing.rs,        *)
(* policy.rs): decks per monitor and application, reading leases, screen   *)
(* sharing, silenced applications and do not disturb.  Every handler holds *)
(* the engine's mutation lock until it has published.  A deadline is       *)
(* None, Later or Due; time may make any of them due, and the expiry task  *)
(* acts some time after that.  A deck is the cards of one application on   *)
(* one monitor.  Storage and eviction are the subject of Notifications.    *)
(***************************************************************************)
EXTENDS Naturals, FiniteSets

CONSTANTS
    Apps, Monitors,     \* application keys, outputs
    MaxDecks,           \* decks on a monitor (3)
    MaxId,              \* bound on the notifications sent
    MaxEnv              \* bound on clients' requests, shares and hotplugs

DecksConstantsOK == MaxDecks \in Nat /\ MaxId \in Nat /\ Monitors # {}

VARIABLES
    active,         \* the notifications: app, monitor, version, toast_visible, deadlines
    dnd,            \* do not disturb, until when
    policies,       \* AppPolicy: silent, until, bypass_dnd
    leases,         \* the deadline of each monitor that is read
    sharing,        \* Sharing
    cards,          \* the decks published
    screens,        \* the outputs there are, the focused one
    observer,       \* PipeWire: sharing or not; the thread, its channel, the value taken
    lastId,
    hushed,         \* notifications meant to be hidden for good
    ended,          \* shares that ended less those the engine ended
    envd

deckVars == <<active, dnd, policies, leases, sharing, cards, screens, observer, lastId, hushed, ended, envd>>

None == "none"
Nothing == "nothing"    \* no observation waits for the lock
Later == "later"
Due == "due"
Tick == envd < MaxEnv /\ envd' = envd + 1
Nobody == [n \in {} |-> None]
With(f, x, value) == [y \in DOMAIN f \union {x} |-> IF y = x THEN value ELSE f[y]]
NoPolicy == [silent |-> FALSE, until |-> None, bypass |-> FALSE]

DecksInit ==
    /\ active = Nobody /\ dnd = [on |-> FALSE, until |-> None] /\ policies = [a \in Apps |-> NoPolicy]
    /\ leases = Nobody /\ cards = {} /\ lastId = 0 /\ hushed = {} /\ ended = 0 /\ envd = 0
    /\ sharing = [active |-> FALSE, prompt |-> FALSE, until |-> None, untilEnds |-> FALSE]
    /\ screens = [on |-> Monitors, focus |-> CHOOSE m \in Monitors : TRUE]
    /\ observer = [shares |-> FALSE, up |-> FALSE, channel |-> None, fresh |-> FALSE, taken |-> Nothing]

-----------------------------------------------------------------------------
(* What a publication makes of the notifications. *)

suppressed(share) == share.prompt \/ (share.active /\ share.untilEnds) \/ share.until = Later
silenced(policy) == policy.silent /\ policy.until # Due

(* Notifications of a lost output move to the focused one. *)
Routed(notes) ==
    [n \in DOMAIN notes |-> IF notes[n].monitor \in screens.on THEN notes[n]
                            ELSE [notes[n] EXCEPT !.monitor = screens.focus]]

Eligible(notes, share, rules, quiet) ==
    {n \in DOMAIN notes :
        LET policy == rules[notes[n].app]
        IN  /\ notes[n].snoozed = None /\ notes[n].visible
            /\ ~silenced(policy) /\ ~suppressed(share) /\ (~quiet.on \/ policy.bypass)}

(* The applications with the newest notifications get a deck. *)
Newest(notes, ids, app) == CHOOSE n \in ids : notes[n].app = app /\ \A k \in ids : notes[k].app = app => k <= n
Stacked(notes, ids) ==
    LET apps == {notes[n].app : n \in ids}
    IN  {a \in apps : Cardinality({b \in apps : Newest(notes, ids, b) > Newest(notes, ids, a)}) < MaxDecks}

\* Mutant: reading freezes what is shown, and arrivals join it.
MutFreeze(m, reading) == FALSE
Freeze(m, reading) == m \in DOMAIN reading

(* Decks::project: a monitor that is read keeps its cards but for those that
   went; every other monitor is dealt anew. *)
project(notes, shown, reading) ==
    {c \in cards : Freeze(c.monitor, reading) /\ c.id \in shown /\ notes[c.id].monitor = c.monitor}
    \union UNION {LET ids == {n \in shown : notes[n].monitor = m}
                  IN  {[monitor |-> m, app |-> notes[n].app, id |-> n, version |-> notes[n].version] :
                        n \in {k \in ids : notes[k].app \in Stacked(notes, ids)}}
                  : m \in {k \in Monitors \union {None} : ~Freeze(k, reading)}}

(* publish_summary, the end of every handler; history records the
   notifications made anew and those meant to be hidden for good. *)
publish_summary(notes, share, rules, quiet, reading, arrived, hidden) ==
    LET routed == Routed(notes)
    IN  /\ active' = routed /\ sharing' = share /\ policies' = rules /\ dnd' = quiet /\ leases' = reading
        /\ cards' = project(routed, Eligible(routed, share, rules, quiet), reading)
        /\ hushed' = ((hushed \intersect DOMAIN notes) \ arrived) \union hidden

-----------------------------------------------------------------------------
(* Requests of applications and of the shell. *)

\* Mutant: only the publication hides what arrives during a share.
MutQuietArrival(app) == silenced(policies[app])
QuietArrival(app) == silenced(policies[app]) \/ suppressed(sharing)

(* Popup and protocol deadline by the timeout a client asks for: none, the
   default, its own. *)
Timeouts == {[toast |-> None, expires |-> None], [toast |-> Later, expires |-> None],
             [toast |-> Later, expires |-> Later]}

(* upsert: a replacement keeps its place and is a new version; a notification
   that arrives during silence or a share never becomes visible. *)
upsert(id, app, timeout) ==
    [app |-> app, monitor |-> IF id \in DOMAIN active THEN active[id].monitor ELSE screens.focus,
     version |-> IF id \in DOMAIN active THEN active[id].version + 1 ELSE 0,
     visible |-> ~QuietArrival(app), toast |-> timeout.toast, expires |-> timeout.expires, snoozed |-> None]

notify(id, app, timeout) ==
    /\ id \in DOMAIN active \/ (id = lastId + 1 /\ id <= MaxId)
    /\ Tick /\ lastId' = IF id > lastId THEN id ELSE lastId
    /\ publish_summary(With(active, id, upsert(id, app, timeout)), sharing, policies, dnd, leases, {id},
                       IF suppressed(sharing) \/ silenced(policies[app]) THEN {id} ELSE {})
    /\ UNCHANGED <<screens, observer, ended>>

Without(ids) == [n \in DOMAIN active \ ids |-> active[n]]
(* close, dismiss, clear_group and clear differ in what they pick. *)
dismiss(ids) ==
    /\ ids \in SUBSET DOMAIN active \ {{}}
    /\ Tick /\ publish_summary(Without(ids), sharing, policies, dnd, leases, {}, {})
    /\ UNCHANGED <<screens, observer, lastId, ended>>

snooze(id) ==
    /\ id \in DOMAIN active /\ Tick
    /\ publish_summary([active EXCEPT ![id].snoozed = Later, ![id].version = @ + 1, ![id].visible = TRUE,
                                      ![id].toast = Later, ![id].expires = IF @ = None THEN None ELSE Later],
                       sharing, policies, dnd, leases, {id}, {})
    /\ UNCHANGED <<screens, observer, lastId, ended>>

set_dnd(on, until) ==
    /\ on # dnd.on \/ until # dnd.until \/ until = Later
    /\ Tick /\ publish_summary(active, sharing, policies, [on |-> on, until |-> until], leases, {}, {})
    /\ UNCHANGED <<screens, observer, lastId, ended>>

Hush(notes, ids) == [n \in DOMAIN notes |-> IF n \in ids THEN [notes[n] EXCEPT !.visible = FALSE, !.toast = None]
                                            ELSE notes[n]]

(* Silencing hides what is there for good: ending it replays nothing. *)
set_app_policy(app, policy) ==
    /\ Tick
    /\ LET mine == IF silenced(policy) THEN {n \in DOMAIN active : active[n].app = app} ELSE {}
       IN  publish_summary(Hush(active, mine), sharing, [policies EXCEPT ![app] = policy], dnd, leases, {}, mine)
    /\ UNCHANGED <<screens, observer, lastId, ended>>

(* Decks::set_reading: leaving gives the popups of the monitor the time they
   were read; one that was due before stays due. *)
Released(notes, monitors, due) ==
    [n \in DOMAIN notes |-> IF notes[n].monitor \in monitors /\ notes[n].toast = Due /\ n \notin due
                            THEN [notes[n] EXCEPT !.toast = Later] ELSE notes[n]]

set_reading(m, reading) ==
    /\ m \in screens.on /\ Tick
    /\ IF reading
       THEN publish_summary(active, sharing, policies, dnd, With(leases, m, Later), {}, {})
       ELSE \E due \in SUBSET {n \in DOMAIN active : active[n].toast = Due} :
                publish_summary(Released(active, {m} \intersect DOMAIN leases, due), sharing, policies, dnd,
                                [k \in DOMAIN leases \ {m} |-> leases[k]], {}, {})
    /\ UNCHANGED <<screens, observer, lastId, ended>>

(* snooze_sharing, for the session the client saw. *)
snoozed(share, minutes) ==
    [share EXCEPT !.prompt = FALSE, !.untilEnds = ~minutes, !.until = IF minutes THEN Later ELSE None]
snooze_sharing(minutes) ==
    /\ sharing.active /\ Tick
    /\ publish_summary(active, snoozed(sharing, minutes), policies, dnd, leases, {}, {})
    /\ UNCHANGED <<screens, observer, lastId, ended>>

-----------------------------------------------------------------------------
(* The outputs, PipeWire and its observer thread. *)

Hotplug ==
    /\ Tick
    /\ \E on \in SUBSET Monitors, m \in Monitors \union {None} :
        /\ m \in on \/ (on = {} /\ m = None)
        /\ screens' = [on |-> on, focus |-> m]
    /\ UNCHANGED <<active, dnd, policies, leases, sharing, cards, observer, lastId, hushed, ended>>

run_routes ==
    /\ publish_summary(active, sharing, policies, dnd, leases, {}, {})
    /\ UNCHANGED <<screens, observer, lastId, ended, envd>>

Seen(shares) == IF shares THEN "yes" ELSE "no"
Send(value) == [observer EXCEPT !.channel = value, !.fresh = TRUE]
ShareChanges ==
    /\ Tick /\ ended' = IF observer.shares THEN ended + 1 ELSE ended
    /\ observer' = [(IF observer.up THEN Send(Seen(~observer.shares)) ELSE observer) EXCEPT !.shares = ~@]
    /\ UNCHANGED <<active, dnd, policies, leases, sharing, cards, screens, lastId, hushed>>

(* The observer loses PipeWire and later enumerates its nodes again. *)
ObserverLost ==
    /\ observer.up /\ Tick /\ observer' = [Send(None) EXCEPT !.up = FALSE]
    /\ UNCHANGED <<active, dnd, policies, leases, sharing, cards, screens, lastId, hushed, ended>>
observe_pipewire ==
    /\ ~observer.up /\ observer' = [Send(Seen(observer.shares)) EXCEPT !.up = TRUE]
    /\ UNCHANGED <<active, dnd, policies, leases, sharing, cards, screens, lastId, hushed, ended, envd>>

(* monitor: the newest value of the channel, then the engine's lock. *)
TakeObservation ==
    /\ observer.fresh /\ observer.taken = Nothing
    /\ observer' = [observer EXCEPT !.fresh = FALSE, !.taken = observer.channel]
    /\ UNCHANGED <<active, dnd, policies, leases, sharing, cards, screens, lastId, hushed, ended, envd>>

\* Mutant: an unknown observation ends a share.
MutObserve(share, value) ==
    CASE value = "yes" /\ ~share.active -> [share EXCEPT !.active = TRUE, !.prompt = TRUE, !.untilEnds = TRUE]
      [] value # "yes" -> [share EXCEPT !.active = FALSE, !.prompt = FALSE, !.untilEnds = FALSE]
      [] OTHER -> share
observe(share, value) ==
    CASE value = "yes" /\ ~share.active -> [share EXCEPT !.active = TRUE, !.prompt = TRUE, !.untilEnds = TRUE]
      [] value = "no" -> [share EXCEPT !.active = FALSE, !.prompt = FALSE, !.untilEnds = FALSE]
      [] OTHER -> share

observe_sharing ==
    /\ observer.taken # Nothing /\ observer' = [observer EXCEPT !.taken = Nothing]
    /\ LET share == observe(sharing, observer.taken)
           all == IF suppressed(share) THEN DOMAIN active ELSE {}
       IN  /\ publish_summary(Hush(active, all), share, policies, dnd, leases, {}, all)
           /\ ended' = IF sharing.active /\ ~share.active /\ ended > 0 THEN ended - 1 ELSE ended
    /\ UNCHANGED <<screens, lastId, envd>>

-----------------------------------------------------------------------------
(* Time and the expiry task. *)

\* A snooze puts off the other deadlines of its notification.
Passes ==
    /\ \/ \E n \in DOMAIN active :
            /\ \/ active[n].snoozed = Later /\ active' = [active EXCEPT ![n].snoozed = Due]
               \/ active[n].snoozed # Later /\ active[n].toast = Later /\ active' = [active EXCEPT ![n].toast = Due]
               \/ active[n].snoozed # Later /\ active[n].expires = Later
                  /\ active' = [active EXCEPT ![n].expires = Due]
            /\ UNCHANGED <<dnd, policies, leases, sharing>>
       \/ dnd.until = Later /\ dnd' = [dnd EXCEPT !.until = Due] /\ UNCHANGED <<active, policies, leases, sharing>>
       \/ sharing.until = Later /\ sharing' = [sharing EXCEPT !.until = Due]
          /\ UNCHANGED <<active, dnd, policies, leases>>
       \/ \E a \in Apps : /\ policies[a].until = Later /\ policies' = [policies EXCEPT ![a].until = Due]
                          /\ UNCHANGED <<active, dnd, leases, sharing>>
       \/ \E m \in DOMAIN leases : /\ leases[m] = Later /\ leases' = [leases EXCEPT ![m] = Due]
                                   /\ UNCHANGED <<active, dnd, policies, sharing>>
    /\ UNCHANGED <<cards, screens, observer, lastId, hushed, ended, envd>>

(* next_expiry_delay: the popups of a monitor that is read wait. *)
SomethingDue ==
    \/ dnd.until = Due \/ sharing.until = Due \/ \E a \in Apps : policies[a].silent /\ policies[a].until = Due
    \/ \E m \in DOMAIN leases : leases[m] = Due
    \/ \E n \in DOMAIN active :
        \/ active[n].snoozed = Due
        \/ active[n].snoozed = None
           /\ (active[n].expires = Due \/ (active[n].toast = Due /\ active[n].monitor \notin DOMAIN leases))

\* Mutant: reading does not hold the popups that run out meanwhile.
MutHeld(note, reading) == FALSE
Held(note, reading) == note.monitor \in DOMAIN reading

advance(note, reading) ==
    IF note.snoozed = Later THEN note
    ELSE IF note.toast = Due /\ ~Held(note, reading)
         THEN [note EXCEPT !.snoozed = None, !.toast = None, !.visible = FALSE]
         ELSE [note EXCEPT !.snoozed = None]

NotDue(until) == IF until = Due THEN None ELSE until

(* expire_due: leases, sharing, policies, each notification, do not disturb. *)
expire_due ==
    /\ SomethingDue
    /\ \E due \in SUBSET {n \in DOMAIN active : active[n].toast = Due} :
        LET over == {m \in DOMAIN leases : leases[m] = Due}
            reading == [m \in DOMAIN leases \ over |-> leases[m]]
            notes == Released(active, over, due)
            gone == {n \in DOMAIN notes : notes[n].snoozed # Later /\ notes[n].expires = Due}
        IN  publish_summary([n \in DOMAIN notes \ gone |-> advance(notes[n], reading)],
                            [sharing EXCEPT !.until = NotDue(@)],
                            [a \in Apps |-> IF policies[a].silent /\ policies[a].until = Due
                                            THEN [policies[a] EXCEPT !.silent = FALSE, !.until = None]
                                            ELSE policies[a]],
                            IF dnd.until = Due THEN [on |-> FALSE, until |-> None] ELSE dnd, reading, {}, {})
    /\ UNCHANGED <<screens, observer, lastId, ended, envd>>

-----------------------------------------------------------------------------
Asks ==
    \/ \E id \in 1..MaxId, app \in Apps, timeout \in Timeouts : notify(id, app, timeout)
    \/ \E ids \in SUBSET (1..MaxId) : dismiss(ids)
    \/ \E id \in 1..MaxId : snooze(id)
    \/ set_dnd(FALSE, None) \/ set_dnd(TRUE, None) \/ set_dnd(TRUE, Later)
    \/ \E app \in Apps, silent, bypass \in BOOLEAN, until \in {None, Later} :
        (until = Later => silent) /\ set_app_policy(app, [silent |-> silent, until |-> until, bypass |-> bypass])
    \/ \E m \in Monitors, reading \in BOOLEAN : set_reading(m, reading)
    \/ \E minutes \in BOOLEAN : snooze_sharing(minutes)

DecksNext ==
    \/ Asks \/ Hotplug \/ run_routes \/ ShareChanges \/ ObserverLost \/ observe_pipewire
    \/ TakeObservation \/ observe_sharing \/ Passes \/ expire_due

(* Time passes, and the expiry task, which waits in order for the lock, acts
   on what is due. *)
DecksSpec == DecksInit /\ [][DecksNext]_deckVars /\ WF_deckVars(Passes) /\ WF_deckVars(expire_due)

-----------------------------------------------------------------------------
(* Cards and deadlines have their types, and every card is of a notification
   that is there. *)
DecksTypeOK ==
    /\ \A c \in cards : c.id \in DOMAIN active /\ c.version <= active[c.id].version /\ c.app \in Apps
    /\ \A n \in DOMAIN active : /\ {active[n].toast, active[n].expires, active[n].snoozed} \subseteq {None, Later, Due}
                                /\ active[n].monitor \in Monitors \union {None}

(* Nothing pops up while sharing or silence suppresses it, and what either hid
   does not pop up when it ends, unless the user snoozed it meanwhile. *)
NothingLeaks ==
    /\ suppressed(sharing) => cards = {}
    /\ \A c \in cards : ~silenced(policies[active[c.id].app]) /\ c.id \notin hushed

(* No monitor shows more decks than it has places for. *)
DecksBounded == \A m \in Monitors : Cardinality({c.app : c \in {d \in cards : d.monitor = m}}) <= MaxDecks

DecksSafe == NothingLeaks /\ DecksBounded

(* Only a share that ended is taken for over: losing sight of PipeWire, or an
   old observation that waited for the lock, ends none. *)
EndsTruly == sharing.active /\ ~sharing'.active => ended > 0

(* While a monitor is read no arrival, replacement or moved notification takes
   a place under the pointer, and time alone takes no card away. *)
FrozenWhileRead ==
    \A m \in DOMAIN leases \intersect DOMAIN leases' :
        /\ {c \in cards' : c.monitor = m} \subseteq cards
        /\ \A c \in cards :
            /\ c.monitor = m /\ c.id \in DOMAIN active' \ hushed'
            /\ active'[c.id].monitor = m /\ active'[c.id].snoozed = None /\ active'[c.id].app = c.app
            /\ ~suppressed(sharing') /\ (~dnd'.on \/ policies'[c.app].bypass)
            => c \in cards'
DecksSteps == [][FrozenWhileRead /\ EndsTruly]_deckVars

(* The inductive invariant behind these: the shapes of the state; a card shows
   a notification that is visible, on its output and not silenced; what was
   hidden for good is not visible; and between what the engine takes for shared
   and what is shared, through the observations under way, no more shares end
   than the history still owes. *)
Deadlines == {None, Later, Due}
Note == [app : Apps, monitor : Monitors \union {None}, version : Nat, visible : BOOLEAN,
         toast : Deadlines, expires : Deadlines, snoozed : Deadlines]
Policy == [silent : BOOLEAN, until : Deadlines, bypass : BOOLEAN]
Sharing == [active : BOOLEAN, prompt : BOOLEAN, until : Deadlines, untilEnds : BOOLEAN]
Notes(notes, last) == notes \in [DOMAIN notes -> Note] /\ DOMAIN notes \subseteq 1..last
ShapeInv ==
    /\ lastId \in 0..MaxId /\ Notes(active, lastId)
    /\ policies \in [Apps -> Policy] /\ sharing \in Sharing
    /\ screens.focus \in Monitors \union {None}
    /\ \A c \in cards : c \in [monitor : Monitors \union {None}, app : Apps, id : Nat, version : Nat]
CardsInv ==
    /\ suppressed(sharing) => cards = {}
    /\ \A c \in cards :
        /\ c.id \in DOMAIN active /\ c.version <= active[c.id].version
        /\ active[c.id].visible /\ active[c.id].monitor = c.monitor
        /\ ~silenced(policies[active[c.id].app])
HushedInv == \A n \in hushed : n \in DOMAIN active /\ ~active[n].visible
PlacesInv ==
    \A m \in Monitors : LET apps == {c.app : c \in {d \in cards : d.monitor = m}}
                        IN  IsFiniteSet(apps) /\ Cardinality(apps) <= MaxDecks
Told(shares, value) == value = "yes" \/ (shares /\ value # "no")
Falls(before, after) == IF before /\ ~after THEN 1 ELSE 0
Applied == Told(sharing.active, observer.taken)
Heard == IF observer.fresh THEN Told(Applied, observer.channel) ELSE Applied
Owed == Falls(sharing.active, Applied) + Falls(Applied, Heard) + Falls(Heard, observer.shares)
Observer == [shares : BOOLEAN, up : BOOLEAN, channel : {None, "yes", "no"}, fresh : BOOLEAN,
             taken : {Nothing, None, "yes", "no"}]
ObserverInv == observer \in Observer /\ ended \in Nat /\ Owed <= ended
DecksIInv == ShapeInv /\ CardsInv /\ HushedInv /\ PlacesInv /\ ObserverInv

(* Readings end, and so do the popups. *)
Popping == DOMAIN leases # {} \/ \E c \in cards : active[c.id].toast # None
DecksSettle == Popping ~> ~Popping
=============================================================================
