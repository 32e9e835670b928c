------------------------- MODULE WorkspaceLifecycle -------------------------
(* Temporary workspaces (workspace/mod.rs, journal.rs, handoff.rs): requests  *)
(* that create, fill and close them, the journal that admits every effect     *)
(* before it is dispatched, and the cleanup that retires empty ones.          *)
(*                                                                            *)
(* One monitor and one application process.  Workspace 1 stands for the five  *)
(* standard ones; the compositor keeps a workspace that is active or holds a  *)
(* window.  One call at a time holds the service's mutex (op); between its    *)
(* steps the user acts, the daemon may crash and a save may fail.             *)
EXTENDS Naturals, FiniteSetsExt

CONSTANTS
    Windows,       \* window addresses of the process
    Keys,          \* request keys
    MaxId,         \* highest workspace id
    MaxEnv         \* commands and actions of the user, crashes, failed saves and lost replies

VARIABLES
    desk,          \* the compositor: active workspace, workspace of each window (0: unmapped)
    journal,       \* Loaded.journal
    disk,          \* the journal's file
    poisoned,      \* Loaded.poisoned
    op,            \* the call that holds the mutex
    watchers,      \* closes observed by a task
    intake,        \* handoff::Events
    pins,          \* the compositor's view of each handoff's pinned window
    grace,         \* empty_since and missing_since: "none", "running", "over"
    sent,          \* history: moves dispatched for a placement; windows closed for a close
    used,          \* history: how often an id was allocated durably
    turns          \* environment steps so far

workspaceVars == <<desk, journal, disk, poisoned, op, watchers, intake, pins, grace, sent, used, turns>>

None == [none |-> TRUE]
Ids == 2..MaxId
Spaces == 1..MaxId
Entry == [gen: Keys \cup {"fallback"}, occupied: BOOLEAN, pad: BOOLEAN, keep: BOOLEAN]
Reservation == [purpose: {"pad", "launch"}, fresh: BOOLEAN, id: Spaces, gen: Keys \cup {"fallback"}, released: BOOLEAN,
                status: {"reserved", "focused", "placing", "placed", "unknown", "released"}]
Close == [id: Spaces, targets: SUBSET Windows, attempted: SUBSET Windows,
          status: {"dispatching", "waiting", "closed", "still-open", "unknown"}]
Handoff == [window: Windows, excluded: SUBSET Windows, replaced: BOOLEAN, watching: BOOLEAN]
Journal == [high: Spaces, entries: [Ids -> Entry \cup {None}], reservations: [Keys -> Reservation \cup {None}],
            closes: [Keys -> Close \cup {None}], handoffs: [Keys -> Handoff \cup {None}]]
Desk == [active: Spaces, at: [Windows -> 0..MaxId]]

TypeOK ==
    /\ desk \in Desk /\ journal \in Journal /\ disk \in Journal /\ poisoned \in BOOLEAN
    /\ op = None \/ (op.kind \in {"create", "place", "follow", "close", "reconcile", "retire"} /\ op.key \in Keys \cup {"-"})
    /\ watchers \subseteq Keys
    /\ intake.lost \in BOOLEAN /\ intake.moved \subseteq Windows \X (0..MaxId)
    /\ pins \in [Keys -> {"none", "present", "moved", "gone"}]
    /\ grace \in [Ids \cup Keys -> {"none", "running", "over"}]
    /\ \A k \in Keys : sent[k].moves \in 0..2 /\ sent[k].closed \subseteq Windows
    /\ used \in [Ids -> 0..2] /\ turns \in 0..MaxEnv

NoEvents == [moved |-> {}, lost |-> FALSE]
Empty == [high |-> 1, entries |-> [i \in Ids |-> None], reservations |-> [k \in Keys |-> None],
          closes |-> [k \in Keys |-> None], handoffs |-> [k \in Keys |-> None]]
Quiet == [x \in Ids \cup Keys |-> "none"]
Init ==
    /\ \E open \in Windows : desk = [active |-> 1, at |-> [w \in Windows |-> IF w = open THEN 1 ELSE 0]]
    /\ journal = Empty /\ disk = Empty /\ poisoned = FALSE /\ op = None /\ watchers = {}
    /\ intake = NoEvents /\ pins = [k \in Keys |-> "none"] /\ grace = Quiet
    /\ sent = [k \in Keys |-> [moves |-> 0, closed |-> {}]] /\ used = [i \in Ids |-> 0] /\ turns = 0

-----------------------------------------------------------------------------
(* The journal                                                                *)

Held(f, k) == f[k] # None
On(id, d) == {w \in Windows : d.at[w] = id}
Live(d) == ({d.active} \cup {d.at[w] : w \in Windows}) \ {0}
closing(j, id) == \E k \in Keys : Held(j.closes, k) /\ j.closes[k].id = id /\ j.closes[k].status \in {"dispatching", "waiting"}
Closed(j, id) == \E k \in Keys : Held(j.closes, k) /\ j.closes[k].id = id
admit(k) == ~Held(journal.reservations, k) /\ ~Held(journal.closes, k)
\* Mutant: the next id follows the live workspaces, not the watermark.
MutAllocate(j, d) == Max(Live(d)) + 1
allocate(j, d) == Max(Live(d) \cup {j.high}) + 1

\* Mutant: reservations keep their writers.
MutLoad(j) == j
\* load: a restarted owner fences every writer and resumes no effect.
load(j) ==
    [j EXCEPT
        !.reservations = [k \in Keys |-> IF Held(@, k) /\ ~@[k].released
                                         THEN [@[k] EXCEPT !.released = TRUE, !.status = "unknown"] ELSE @[k]],
        !.closes = [k \in Keys |-> IF Held(@, k) /\ @[k].status \in {"dispatching", "waiting"}
                                   THEN [@[k] EXCEPT !.status = "unknown"] ELSE @[k]],
        !.handoffs = [k \in Keys |-> IF Held(@, k) THEN [@[k] EXCEPT !.watching = FALSE] ELSE @[k]]]

Spend == turns < MaxEnv /\ turns' = turns + 1
\* Loaded::save: a failed save poisons the service until a restart.
Save(j, next) ==
    /\ ~poisoned /\ journal' = j
    /\ \/ disk' = j /\ op' = next /\ UNCHANGED <<poisoned, turns>>
       \/ Spend /\ poisoned' = TRUE /\ op' = None /\ UNCHANGED disk
\* A dispatched expression is carried out, refused, or its reply is lost.
Reply == {TRUE, FALSE}
Free == op = None /\ ~poisoned
\* cleanup runs against the snapshot its caller took.
cleanup(d) == [kind |-> "reconcile", key |-> "-", at |-> "fence", seen |-> d, todo |-> {}, moved |-> FALSE]

-----------------------------------------------------------------------------
(* create                                                                     *)

Destinations == {1} \cup Live(desk) \cup {i \in Ids : Held(journal.entries, i) /\ journal.entries[i].keep}
create(k, purpose, dest) ==
    /\ Free /\ admit(k)
    /\ dest \in IF purpose = "pad" THEN {0} ELSE {0} \cup Destinations
    /\ LET id == IF dest = 0 THEN allocate(journal, desk) ELSE dest
           gen == IF id \in Ids /\ Held(journal.entries, id) THEN journal.entries[id].gen ELSE k
           entry == [gen |-> gen, occupied |-> FALSE, pad |-> purpose = "pad", keep |-> purpose = "pad"]
           r == [purpose |-> purpose, fresh |-> dest = 0, id |-> id, gen |-> gen, released |-> purpose = "pad", status |-> "reserved"]
       IN /\ id <= MaxId /\ ~closing(journal, id)
          /\ Save([journal EXCEPT !.high = IF dest = 0 THEN id ELSE @, !.reservations[k] = r,
                                  !.entries = IF dest = 0 THEN [@ EXCEPT ![id] = entry] ELSE @],
                  IF purpose = "pad" THEN [kind |-> "create", key |-> k, at |-> "focus", from |-> desk.active] ELSE None)
          /\ used' = IF dest = 0 /\ ~poisoned' THEN [used EXCEPT ![id] = @ + 1] ELSE used
    /\ UNCHANGED <<desk, watchers, intake, pins, grace, sent>>
FocusPad ==
    /\ op # None /\ op.kind = "create" /\ op.at = "focus"
    /\ desk' = IF desk.active = op.from THEN [desk EXCEPT !.active = journal.reservations[op.key].id] ELSE desk
    /\ op' = [op EXCEPT !.at = "record"]
    /\ UNCHANGED <<journal, disk, poisoned, watchers, intake, pins, grace, sent, used, turns>>
RecordPad ==
    /\ op # None /\ op.kind = "create" /\ op.at = "record"
    /\ LET seen == desk.active = journal.reservations[op.key].id
       IN Save([journal EXCEPT !.reservations[op.key].status = IF seen THEN "focused" ELSE "unknown"], None)
    /\ UNCHANGED <<desk, watchers, intake, pins, grace, sent, used>>

-----------------------------------------------------------------------------
(* place and lease release                                                    *)

\* cancel_handoff: fenced and saved, unpinned, forgotten and saved.
Without(j, ks) == [j EXCEPT !.handoffs = [k \in Keys |-> IF k \in ks THEN None ELSE @[k]]]
Observers(j) == {k \in Keys : Held(j.handoffs, k)}
\* check_lease: only a lease that is not released may place.
check_lease(k) == Held(journal.reservations, k) /\ ~journal.reservations[k].released
\* Handoff::prepare: only a fresh launch destination gets an observer.
prepare(k, w) ==
    IF journal.reservations[k].fresh /\ journal.reservations[k].purpose = "launch"
    THEN [window |-> w, excluded |-> {v \in Windows : desk.at[v] # 0 /\ v # w}, replaced |-> FALSE, watching |-> FALSE]
    ELSE None
\* Mutant: a placement that was dispatched before may be dispatched again.
MutPlaceable(r) == r.status \in {"reserved", "placing", "unknown"}
placeable(r) == r.status = "reserved"
place(k, w) ==
    /\ Free /\ check_lease(k) /\ placeable(journal.reservations[k])
    /\ desk.at[w] # 0 /\ ~closing(journal, journal.reservations[k].id)
    /\ Save([Without(journal, Keys) EXCEPT !.reservations[k].status = "placing", !.handoffs[k] = prepare(k, w)],
            [kind |-> "place", key |-> k, at |-> "dispatch", window |-> w, from |-> desk.at[w]])
    /\ pins' = [i \in Keys |-> "none"]
    /\ UNCHANGED <<desk, watchers, intake, grace, sent, used>>
\* move_local checks the window's workspace again; move and pin are one expression.
DispatchPlace ==
    /\ op # None /\ op.kind = "place" /\ op.at = "dispatch"
    /\ LET id == journal.reservations[op.key].id
           moves == desk.at[op.window] = op.from
       IN /\ desk' = IF moves THEN [desk EXCEPT !.at[op.window] = id] ELSE desk
          /\ pins' = IF moves /\ Held(journal.handoffs, op.key) THEN [pins EXCEPT ![op.key] = "present"] ELSE pins
          /\ \E reply \in Reply :
                /\ op' = [op EXCEPT !.at = "record", !.from = IF moves /\ reply THEN 1 ELSE 0]
                /\ IF reply THEN UNCHANGED turns ELSE Spend
    /\ sent' = [sent EXCEPT ![op.key].moves = @ + 1]
    /\ UNCHANGED <<journal, disk, poisoned, watchers, intake, grace, used>>
\* A placement that was not seen is recorded as unknown and its observer is
\* cancelled.  The snapshot may fail, which records nothing, and so may the
\* release of the pin, which leaves an observer that is not watching.
RecordPlace ==
    /\ op # None /\ op.kind = "place" /\ op.at = "record"
    /\ LET id == journal.reservations[op.key].id
           verified == op.from = 1 /\ desk.at[op.window] = id
           j == [journal EXCEPT !.reservations[op.key].status = IF verified THEN "placed" ELSE "unknown"]
       IN \/ /\ verified /\ UNCHANGED pins
             /\ Save([j EXCEPT !.handoffs[op.key] = IF @ = None THEN @ ELSE [@ EXCEPT !.watching = TRUE],
                               !.entries = [i \in Ids |-> IF i = id /\ Held(@, i) THEN [@[i] EXCEPT !.occupied = TRUE] ELSE @[i]]],
                     [kind |-> "follow", key |-> op.key, window |-> op.window, id |-> id])
          \/ /\ ~verified /\ pins' = [pins EXCEPT ![op.key] = "none"]
             /\ Save(Without(j, {op.key}), None)
          \/ ~verified /\ Save(j, None) /\ UNCHANGED pins
          \/ Spend /\ op' = None /\ UNCHANGED <<journal, disk, poisoned, pins>>
    /\ UNCHANGED <<desk, watchers, intake, grace, sent, used>>
\* Only the workspace the request came from may be left for the window's; whether
\* that context is still the active one is any of both here.
Follow ==
    /\ op # None /\ op.kind = "follow" /\ op' = None
    /\ desk' \in {desk} \cup (IF desk.at[op.window] = op.id THEN {[desk EXCEPT !.active = op.id]} ELSE {})
    /\ UNCHANGED <<journal, disk, poisoned, watchers, intake, pins, grace, sent, used, turns>>
\* A lease may be released by whoever holds it, twice or after a restart.
release(k) ==
    /\ Free /\ Held(journal.reservations, k)
    /\ Save([journal EXCEPT !.reservations[k].released = TRUE,
                            !.reservations[k].status = IF @ = "unknown" THEN @ ELSE "released"], cleanup(desk))
    /\ UNCHANGED <<desk, watchers, intake, pins, grace, sent, used>>

-----------------------------------------------------------------------------
(* close                                                                      *)

\* Admission pins the windows, fences writers and observers of the workspace and
\* ends its retention, in one save before the first window is asked to close.
close(k) ==
    /\ Free /\ admit(k) /\ ~closing(journal, desk.active)
    /\ LET id == desk.active IN
       Save([journal EXCEPT
               !.closes[k] = [id |-> id, targets |-> On(id, desk), attempted |-> {}, status |-> "dispatching"],
               !.reservations = [r \in Keys |-> IF Held(@, r) /\ @[r].id = id /\ ~@[r].released
                                                THEN [@[r] EXCEPT !.released = TRUE, !.status = "released"] ELSE @[r]],
               !.handoffs = [h \in Keys |-> IF Held(@, h) /\ journal.reservations[h].id = id
                                            THEN [@[h] EXCEPT !.watching = FALSE] ELSE @[h]],
               !.entries = [i \in Ids |-> IF i = id /\ Held(@, i) THEN [@[i] EXCEPT !.pad = FALSE, !.keep = FALSE] ELSE @[i]]],
            [kind |-> "close", key |-> k, at |-> "next"])
    /\ UNCHANGED <<desk, watchers, intake, pins, grace, sent, used>>
AttemptClose ==
    /\ op # None /\ op.kind = "close" /\ op.at = "next"
    /\ LET c == journal.closes[op.key] IN
       \/ \E w \in c.targets \ c.attempted :
             /\ Save([journal EXCEPT !.closes[op.key].attempted = @ \cup {w}],
                     [kind |-> "close", key |-> op.key, at |-> "ask", window |-> w])
             /\ UNCHANGED watchers
       \/ /\ c.targets = c.attempted
          /\ Save([journal EXCEPT !.closes[op.key].status = "waiting"], None)
          /\ watchers' = IF poisoned' THEN watchers ELSE watchers \cup {op.key}
    /\ UNCHANGED <<desk, intake, pins, grace, sent, used>>
\* close_pinned: only a window still on that workspace is asked; it may refuse.
AskClose ==
    /\ op # None /\ op.kind = "close" /\ op.at = "ask"
    /\ op' = [kind |-> "close", key |-> op.key, at |-> "next"]
    /\ sent' = [sent EXCEPT ![op.key].closed = @ \cup {op.window}]
    /\ \/ /\ desk.at[op.window] = journal.closes[op.key].id
          /\ desk' = [desk EXCEPT !.at[op.window] = 0]
          /\ pins' = [k \in Keys |-> IF Held(journal.handoffs, k) /\ journal.handoffs[k].window = op.window
                                     THEN "gone" ELSE pins[k]]
          /\ UNCHANGED turns
       \/ /\ IF desk.at[op.window] = journal.closes[op.key].id THEN Spend ELSE UNCHANGED turns
          /\ UNCHANGED <<desk, pins>>
    /\ UNCHANGED <<journal, disk, poisoned, watchers, intake, grace, used>>
\* observe_close: at most 26 looks; an unknown outcome cleans nothing up.
ObserveClose(k) ==
    /\ Free /\ k \in watchers
    /\ LET remaining == \E w \in journal.closes[k].targets : desk.at[w] # 0
       IN \E s \in IF remaining THEN {"still-open", "unknown"} ELSE {"closed", "unknown"} :
             Save([journal EXCEPT !.closes[k].status = s], IF s = "unknown" THEN None ELSE cleanup(desk))
    /\ watchers' = watchers \ {k}
    /\ UNCHANGED <<desk, intake, pins, grace, sent, used>>

-----------------------------------------------------------------------------
(* project -> cleanup: reconcile_handoffs, then retire                        *)

Away(h, id, events, d) ==
    \/ events.lost
    \/ \E m \in events.moved : m[2] # id /\ (m[1] = h.window \/ d.at[m[1]] # 0)
Project ==
    /\ Free /\ op' = cleanup(desk)
    /\ UNCHANGED <<desk, journal, disk, poisoned, watchers, intake, pins, grace, sent, used, turns>>
\* Events are taken and every affected observer is fenced before any IPC.
Fence ==
    /\ op # None /\ op.kind = "reconcile" /\ op.at = "fence"
    /\ LET fenced == [k \in Keys |->
              IF Held(journal.handoffs, k) /\ Away(journal.handoffs[k], journal.reservations[k].id, intake, op.seen)
              THEN [journal.handoffs[k] EXCEPT !.watching = FALSE] ELSE journal.handoffs[k]]
           next == [op EXCEPT !.at = "look", !.todo = Observers(journal)]
       IN IF fenced = journal.handoffs THEN op' = next /\ UNCHANGED <<journal, disk, poisoned, turns>>
          ELSE Save([journal EXCEPT !.handoffs = fenced], next)
    /\ intake' = NoEvents
    /\ UNCHANGED <<desk, watchers, pins, grace, sent, used>>
Candidates(h) == {w \in Windows : op.seen.at[w] # 0 /\ w \notin h.excluded /\ w # h.window}
\* Give up: fenced, closed, another generation, moved, too late, ambiguous.
GivesUp(k, h, id) ==
    \/ ~h.watching \/ Closed(journal, id) \/ pins[k] \in {"none", "moved"}
    \/ id \notin Ids \/ ~Held(journal.entries, id) \/ journal.entries[id].gen # journal.reservations[k].gen
    \/ pins[k] = "gone" /\ (grace[k] = "over" \/ h.replaced \/ Cardinality(Candidates(h)) > 1)
Reconcile(k) ==
    /\ op # None /\ op.kind = "reconcile" /\ op.at = "look" /\ k \in op.todo
    /\ LET h == journal.handoffs[k]
           id == journal.reservations[k].id
           rest == [op EXCEPT !.todo = @ \ {k}]
       IN \/ /\ GivesUp(k, h, id)
             /\ Save(Without(journal, {k}), rest)
             /\ pins' = [pins EXCEPT ![k] = "none"] /\ grace' = [grace EXCEPT ![k] = "none"]
          \/ /\ ~GivesUp(k, h, id) /\ pins[k] = "present"
             /\ journal' = [journal EXCEPT !.handoffs[k].excluded = @ \cup Candidates(h)]
             /\ op' = rest /\ grace' = [grace EXCEPT ![k] = "none"] /\ UNCHANGED <<disk, poisoned, turns, pins>>
          \/ /\ ~GivesUp(k, h, id) /\ pins[k] = "gone" /\ Candidates(h) = {}
             /\ op' = rest /\ grace' = [grace EXCEPT ![k] = "running"]
             /\ UNCHANGED <<journal, disk, poisoned, turns, pins>>
          \/ \E w \in Candidates(h) :
             /\ ~GivesUp(k, h, id) /\ pins[k] = "gone"
             /\ Save([journal EXCEPT !.handoffs[k].watching = FALSE],
                     [op EXCEPT !.key = k, !.at = "replace", !.todo = @ \ {k}])
             /\ grace' = [grace EXCEPT ![k] = "running"] /\ UNCHANGED pins
    /\ UNCHANGED <<desk, watchers, intake, sent, used>>
\* replace_pinned moves the candidate if it is still where it was seen.
Replace ==
    /\ op # None /\ op.kind = "reconcile" /\ op.at = "replace"
    /\ LET k == op.key
           w == CHOOSE v \in Candidates(journal.handoffs[k]) : TRUE
       IN IF desk.at[w] = op.seen.at[w]
          THEN /\ desk' = [desk EXCEPT !.at[w] = journal.reservations[k].id]
               /\ pins' = [pins EXCEPT ![k] = "present"]
               /\ \/ op' = [op EXCEPT !.at = "adopt"] /\ UNCHANGED turns
                  \/ op' = [op EXCEPT !.at = "cancel"] /\ Spend
          ELSE op' = [op EXCEPT !.at = "cancel"] /\ UNCHANGED <<desk, pins, turns>>
    /\ UNCHANGED <<journal, disk, poisoned, watchers, intake, grace, sent, used>>
Replaced ==
    /\ op # None /\ op.kind = "reconcile" /\ op.at \in {"adopt", "cancel"}
    /\ LET k == op.key
           w == CHOOSE v \in Candidates(journal.handoffs[k]) : TRUE
           next == [op EXCEPT !.at = "look", !.key = "-", !.moved = @ \/ op.at = "adopt"]
       IN IF op.at = "adopt"
          THEN /\ Save([journal EXCEPT !.handoffs[k] = [@ EXCEPT !.window = w, !.replaced = TRUE, !.watching = TRUE]], next)
               /\ grace' = [grace EXCEPT ![k] = "none"] /\ UNCHANGED pins
          ELSE Save(Without(journal, {k}), next) /\ pins' = [pins EXCEPT ![k] = "none"] /\ UNCHANGED grace
    /\ UNCHANGED <<desk, watchers, intake, sent, used>>
\* A replacement changes occupancy; never retire against the old snapshot.
Refresh ==
    /\ op # None /\ op.kind = "reconcile" /\ op.at = "look" /\ op.todo = {}
    /\ op' = [kind |-> "retire", key |-> "-", at |-> "look", seen |-> IF op.moved THEN desk ELSE op.seen,
              todo |-> {i \in Ids : Held(journal.entries, i)}]
    /\ UNCHANGED <<desk, journal, disk, poisoned, watchers, intake, pins, grace, sent, used, turns>>

\* Entry kept: open lease, closing, kept by its user, landing pad in use, grace.
Leased(id) == \E k \in Keys : Held(journal.reservations, k) /\ journal.reservations[k].id = id /\ ~journal.reservations[k].released
\* Mutant: a workspace its user made is retired when it is left empty.
MutRetained(e, adoptable) == e.pad /\ adoptable
retained(e, adoptable) == e.keep \/ (e.pad /\ adoptable)
Waits(id, e) == e.occupied /\ ~Closed(journal, id)
                /\ (grace[id] # "over" \/ \E k \in Observers(journal) : journal.handoffs[k].watching /\ journal.reservations[k].id = id)
\* fallback: a live workspace that is not closing, else an unused standard one.
fallback(id) ==
    LET usable == {i \in Live(op.seen) \ {id} : ~closing(journal, i)}
    IN IF usable # {} THEN usable ELSE {1} \ (Live(op.seen) \cup {i \in {1} : closing(journal, i)})
leaving(rest, from, to) ==
    [kind |-> "retire", key |-> "-", at |-> "leave", seen |-> rest.seen, todo |-> rest.todo, from |-> from, to |-> to]
Retire(id) ==
    /\ op # None /\ op.kind = "retire" /\ op.at = "look" /\ id \in op.todo
    /\ LET e == journal.entries[id]
           rest == [op EXCEPT !.todo = @ \ {id}]
           adoptable == ~e.occupied /\ op.seen.active = id
           Stay(next, timer) == /\ journal' = [journal EXCEPT !.entries[id] = next] /\ op' = rest
                                /\ grace' = [grace EXCEPT ![id] = timer] /\ UNCHANGED <<disk, poisoned, turns, used>>
       IN CASE On(id, op.seen) # {} -> Stay([e EXCEPT !.occupied = TRUE], "none")
            [] On(id, op.seen) = {} /\ (closing(journal, id) \/ Leased(id)) ->
                  Stay(IF ~closing(journal, id) /\ adoptable THEN [e EXCEPT !.pad = TRUE] ELSE e, grace[id])
            [] OTHER ->
               IF retained(e, adoptable) THEN Stay(e, grace[id])
               ELSE IF Waits(id, e) THEN Stay(e, IF grace[id] = "none" THEN "running" ELSE grace[id])
               ELSE IF op.seen.active # id
               THEN /\ journal' = [journal EXCEPT !.entries[id] = None]
                    /\ grace' = [grace EXCEPT ![id] = "none"] /\ op' = rest /\ UNCHANGED <<disk, poisoned, turns, used>>
               ELSE \* left for a fallback, or for a new landing pad that is saved first
                    LET next == allocate(journal, op.seen)
                        pad == [gen |-> "fallback", occupied |-> FALSE, pad |-> TRUE, keep |-> FALSE]
                    IN /\ UNCHANGED grace
                       /\ \/ \E to \in fallback(id) :
                                /\ op' = leaving(rest, id, to)
                                /\ UNCHANGED <<journal, disk, poisoned, turns, used>>
                          \/ /\ fallback(id) = {} /\ next <= MaxId
                             /\ Save([journal EXCEPT !.high = next, !.entries[next] = pad],
                                     leaving(rest, id, next))
                             /\ used' = IF poisoned' THEN used ELSE [used EXCEPT ![next] = @ + 1]
                          \/ /\ fallback(id) = {} /\ next > MaxId /\ op' = None   \* id space exhausted
                             /\ UNCHANGED <<journal, disk, poisoned, turns, used>>
    /\ UNCHANGED <<desk, watchers, intake, pins, sent>>
\* focus_local, then the focus must be observed before the entry goes.
Leave ==
    /\ op # None /\ op.kind = "retire" /\ op.at = "leave"
    /\ desk' = IF desk.active = op.from THEN [desk EXCEPT !.active = op.to] ELSE desk
    /\ IF desk'.active = op.to
       THEN /\ journal' = [journal EXCEPT !.entries[op.from] = None]
            /\ grace' = [grace EXCEPT ![op.from] = "none"]
            /\ op' = [kind |-> "retire", key |-> "-", at |-> "look", seen |-> op.seen, todo |-> op.todo]
       ELSE op' = None /\ UNCHANGED <<journal, grace>>
    /\ UNCHANGED <<disk, poisoned, watchers, intake, pins, sent, used, turns>>
RetireEnds ==
    /\ op # None /\ op.kind = "retire" /\ op.at = "look" /\ op.todo = {}
    /\ IF journal # disk THEN Save(journal, None) ELSE op' = None /\ UNCHANGED <<journal, disk, poisoned, turns>>
    /\ UNCHANGED <<desk, watchers, intake, pins, grace, sent, used>>
GraceEnds(x) == /\ grace[x] = "running" /\ grace' = [grace EXCEPT ![x] = "over"]
                /\ UNCHANGED <<desk, journal, disk, poisoned, op, watchers, intake, pins, sent, used, turns>>

-----------------------------------------------------------------------------
(* The user, the compositor's events, a crash                                 *)

\* The compositor pins the window it was last told to, saved or not.
Pinned(k) == IF op # None /\ op.kind = "reconcile" /\ op.at = "adopt" /\ op.key = k
             THEN CHOOSE v \in Candidates(journal.handoffs[k]) : TRUE ELSE journal.handoffs[k].window
Moves(w, id) ==
    /\ desk' = [desk EXCEPT !.at[w] = id]
    /\ pins' = [k \in Keys |-> IF pins[k] = "present" /\ journal.handoffs[k] # None /\ Pinned(k) = w
                               THEN (IF id = 0 THEN "gone" ELSE "moved") ELSE pins[k]]
\* workspace.command: focus, or move a window, to a destination of the monitor;
\* a move into an empty entry is saved for its cue.
select(id, windows) ==
    /\ Spend /\ Free /\ id # desk.active /\ id \in Destinations /\ ~closing(journal, id)
    /\ IF windows = {} THEN desk' = [desk EXCEPT !.active = id] /\ UNCHANGED <<intake, pins>>
       ELSE \E w \in windows :
             /\ desk.at[w] = desk.active /\ Moves(w, id)
             /\ intake' = [intake EXCEPT !.moved = @ \cup {<<w, id>>}]
    /\ IF windows # {} /\ On(id, desk) = {} /\ id \in Ids /\ Held(journal.entries, id)
       THEN \/ disk' = journal /\ UNCHANGED poisoned
            \/ poisoned' = TRUE /\ UNCHANGED disk
       ELSE UNCHANGED <<disk, poisoned>>
    /\ UNCHANGED <<journal, op, watchers, grace, sent, used>>
\* next and previous walk the ids the bar shows, wherever they lead.
workspace_ids == {1} \cup Live(desk) \cup {i \in Ids : Held(journal.entries, i)}
cycle ==
    /\ Spend /\ Free /\ workspace_ids # {desk.active}
    /\ LET above == {i \in workspace_ids : i > desk.active}
           below == {i \in workspace_ids : i < desk.active}
       IN \E id \in {IF above = {} THEN Min(workspace_ids) ELSE Min(above),
                     IF below = {} THEN Max(workspace_ids) ELSE Max(below)} :
             desk' = [desk EXCEPT !.active = id]
    /\ UNCHANGED <<journal, disk, poisoned, op, watchers, intake, pins, grace, sent, used>>

User ==
    /\ Spend
    /\ \/ \E w \in Windows, id \in Spaces \cup {0} :
             /\ id \in {0, desk.active} \cup (IF desk.at[w] = 0 THEN {} ELSE Live(desk))
             /\ id # desk.at[w] /\ Moves(w, id)
             /\ intake' = IF desk.at[w] # 0 /\ id # 0 THEN [intake EXCEPT !.moved = @ \cup {<<w, id>>}] ELSE intake
       \/ \E id \in Live(desk) \cup {1} \cup {i \in Ids : Held(journal.entries, i)} :
             id # desk.active /\ desk' = [desk EXCEPT !.active = id] /\ UNCHANGED <<intake, pins>>
       \/ intake' = [intake EXCEPT !.lost = TRUE] /\ UNCHANGED <<desk, pins>>
    /\ UNCHANGED <<journal, disk, poisoned, op, watchers, grace, sent, used>>
\* The daemon restarts and loads the journal; the compositor goes on.
Crash ==
    /\ Spend
    /\ journal' = load(disk) /\ disk' = load(disk) /\ poisoned' = FALSE /\ op' = None /\ watchers' = {}
    /\ intake' = NoEvents /\ grace' = Quiet /\ pins' = [k \in Keys |-> "none"]
    /\ UNCHANGED <<desk, sent, used>>

Request ==
    \/ \E k \in Keys, p \in {"pad", "launch"}, d \in Spaces \cup {0} : create(k, p, d)
    \/ \E k \in Keys : close(k) \/ release(k) \/ \E w \in Windows : place(k, w)
    \/ cycle \/ \E id \in Spaces, windows \in {{}, Windows} : select(id, windows)
Works ==
    \/ FocusPad \/ RecordPad \/ DispatchPlace \/ RecordPlace \/ Follow \/ AttemptClose \/ AskClose
    \/ Fence \/ \E k \in Keys : Reconcile(k)
    \/ Replace \/ Replaced \/ Refresh \/ \E id \in Ids : Retire(id)
    \/ Leave \/ RetireEnds
Next == \/ Request \/ Works \/ Project \/ (\E k \in Keys : ObserveClose(k))
        \/ (\E x \in Ids \cup Keys : GraceEnds(x)) \/ User \/ Crash
\* The holder of the mutex goes on, tasks and timers run, and every event or
\* timer (Service::changed) leads to another projection.
Fairness == /\ WF_workspaceVars(Works) /\ SF_workspaceVars(Project)
            /\ \A k \in Keys : SF_workspaceVars(ObserveClose(k))
            /\ \A x \in Ids \cup Keys : WF_workspaceVars(GraceEnds(x))
Spec == Init /\ [][Next]_workspaceVars /\ Fairness

-----------------------------------------------------------------------------
\* "No old effect is resumed": whatever crashes or is retried, a launch moves
\* its window at most once, only after the move was admitted durably, and a
\* close asks each of its own targets only after recording the attempt.
EffectsOnce ==
    \A k \in Keys :
       /\ sent[k].moves <= 1
       /\ sent[k].moves = 1 => Held(disk.reservations, k) /\ disk.reservations[k].status # "reserved"
       /\ sent[k].closed # {} => Held(disk.closes, k) /\ sent[k].closed \subseteq disk.closes[k].attempted
\* An allocated id is never allocated again, across crashes and failed saves.
IdsFresh == \A id \in Ids : used[id] <= 1
\* A workspace made by its user stays until its user closes it.
RetainedKept ==
    \A k \in Keys : Held(disk.reservations, k) /\ disk.reservations[k].purpose = "pad" =>
       Held(disk.entries, disk.reservations[k].id) \/ Closed(disk, disk.reservations[k].id)
\* Nothing is moved into a workspace that is being closed.
NoRevival ==
    op # None /\ (op.kind = "place" \/ (op.kind = "reconcile" /\ op.at = "replace")) =>
       ~closing(journal, journal.reservations[op.key].id)
Safe == EffectsOnce /\ IdsFresh /\ RetainedKept /\ NoRevival

-----------------------------------------------------------------------------
(* The inductive invariant.                                                   *)

WorkspaceConstantsOK == MaxId \in Nat \ {0} /\ MaxEnv \in Nat

Steps ==
    [kind: {"create"}, key: Keys, at: {"focus", "record"}, from: Spaces]
    \cup [kind: {"place"}, key: Keys, at: {"dispatch", "record"}, window: Windows, from: 0..MaxId]
    \cup [kind: {"follow"}, key: Keys, window: Windows, id: Spaces]
    \cup [kind: {"close"}, key: Keys, at: {"next"}] \cup [kind: {"close"}, key: Keys, at: {"ask"}, window: Windows]
    \cup [kind: {"reconcile"}, key: Keys \cup {"-"}, at: {"fence", "look", "replace", "adopt", "cancel"}, seen: Desk,
          todo: SUBSET Keys, moved: BOOLEAN]
    \cup [kind: {"retire"}, key: {"-"}, at: {"look"}, seen: Desk, todo: SUBSET Ids]
    \cup [kind: {"retire"}, key: {"-"}, at: {"leave"}, seen: Desk, todo: SUBSET Ids, from: Ids, to: Spaces]

Shapes ==
    /\ desk \in Desk /\ poisoned \in BOOLEAN /\ op \in Steps \cup {None}
    /\ intake \in [moved: SUBSET (Windows \X (0..MaxId)), lost: BOOLEAN]
    /\ pins \in [Keys -> {"none", "present", "moved", "gone"}]
    /\ grace \in [Ids \cup Keys -> {"none", "running", "over"}]
    /\ sent \in [Keys -> [moves: 0..1, closed: SUBSET Windows]]
    /\ used \in [Ids -> 0..1] /\ turns \in 0..MaxEnv

\* What a journal, in memory or on file, keeps: its observers have a reservation,
\* the workspaces of a user have their entry until they are closed, and no effect
\* was dispatched that it has not admitted.
Kept(j) ==
    /\ j \in Journal
    /\ \A k \in Keys : Held(j.handoffs, k) => Held(j.reservations, k)
    /\ \A k \in Keys : Held(j.reservations, k) /\ j.reservations[k].purpose = "pad" =>
          LET id == j.reservations[k].id
          IN id \in Ids /\ id <= j.high /\ (Closed(j, id) \/ (Held(j.entries, id) /\ j.entries[id].keep))
    /\ \A k \in Keys :
          /\ sent[k].moves = 1 => Held(j.reservations, k) /\ j.reservations[k].status # "reserved"
          /\ sent[k].closed # {} => Held(j.closes, k) /\ sent[k].closed \subseteq j.closes[k].attempted

\* Only entries and observers differ from the file while saves succeed; after one
\* that failed nobody holds the mutex.
FileInv ==
    /\ Kept(journal) /\ Kept(disk)
    /\ IF poisoned THEN op = None
       ELSE disk.reservations = journal.reservations /\ disk.closes = journal.closes /\ disk.high = journal.high
    /\ \A id \in Ids : used[id] = 1 => id <= disk.high
    /\ \A k \in watchers : k \in Keys /\ Held(journal.closes, k)

\* What the call that holds the mutex has established.
HolderInv ==
    op # None =>
       /\ op.kind \in {"create", "place"} => Held(journal.reservations, op.key)
       /\ op.kind = "place" => /\ journal.reservations[op.key].status # "reserved"
                               /\ op.at = "dispatch" => sent[op.key].moves = 0
       /\ op.kind = "close" => /\ Held(journal.closes, op.key)
                               /\ op.at = "ask" => op.window \in journal.closes[op.key].attempted
       /\ op.kind = "reconcile" /\ op.at # "fence" => op.todo \subseteq Observers(journal)
       /\ op.kind = "reconcile" /\ op.at \in {"replace", "adopt", "cancel"} =>
             op.key \in Observers(journal) \ op.todo /\ Candidates(journal.handoffs[op.key]) # {}
       /\ op.kind = "retire" => \A i \in op.todo : Held(journal.entries, i)
       /\ op.kind = "retire" /\ op.at = "leave" =>
             op.from \notin op.todo /\ Held(journal.entries, op.from) /\ ~journal.entries[op.from].keep

IInv == Shapes /\ FileInv /\ HolderInv /\ NoRevival

\* A close reaches an outcome, and a workspace that was left empty does not stay:
\* it is filled again, kept by a lease or a user, or retired.
ClosePending(id) == ~poisoned /\ closing(journal, id)
RetireDue(id) ==
    /\ ~poisoned /\ Held(journal.entries, id) /\ On(id, desk) = {} /\ ~Leased(id)
    /\ journal.entries[id].occupied /\ ~journal.entries[id].keep
Settles ==
    /\ \A id \in Spaces : ClosePending(id) ~> ~ClosePending(id)
    /\ \A id \in Ids : RetireDue(id) ~> ~RetireDue(id)
=============================================================================
