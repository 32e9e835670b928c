----------------------------- MODULE MediaView -----------------------------
(***************************************************************************)
(* The media domain (src/src/media.rs, media/enrichment.rs): one task      *)
(* lists the MPRIS names, reads every player and publishes the players     *)
(* with the selection its users made; lookups of missing YouTube metadata  *)
(* run beside it and are joined by the same task.  A player's content is   *)
(* the YouTube video its source names, with a title, artist or artwork     *)
(* missing, or None; the metadata fetched for a video is that video.       *)
(* Players are listed in the fixed order Rank.                             *)
(***************************************************************************)
EXTENDS Naturals, FiniteSets

CONSTANTS
    Players, Rank,      \* the MPRIS names and their order
    Spotify,            \* the names of the preferred application
    Shows,              \* the videos each player may show without metadata
    MaxRequests,        \* MAX_REQUESTS: lookups running, and per window
    MaxCache,           \* MAX_CACHE
    MaxEnv              \* bound on player changes, failures and losses

VARIABLES
    bus,            \* the players: on the bus, unique owner, playing, content
    heard,          \* queued owner signal, queued change of a watched player
    view,           \* the monitor: its step, names, players to read, players read, joined lookup
    watch,          \* the names whose watcher has subscribed
    enr,            \* Enrichment: sessions, generation, cache, pending, requests_started
    tasks,          \* its JoinSet: video, tickets, outcome
    sel,            \* MediaSelection
    op,             \* the request that holds the selection lock
    shownMedia,     \* the store's media domain
    missed,         \* players that changed unheard since they were read, a failed listing
    envm

mediaVars == <<bus, heard, view, watch, enr, tasks, sel, op, shownMedia, missed, envm>>

None == "none"
Videos == UNION {Shows[p] : p \in Players}
Content == Videos \union {None}
Listing == "listing"
Nothing == [p \in {} |-> None]
First(ids) == CHOOSE p \in ids : \A q \in ids : Rank[p] <= Rank[q]
Excess(a, b) == IF a > b THEN a - b ELSE 0
Tick == envm < MaxEnv /\ envm' = envm + 1
Fault(b) == (b /\ Tick) \/ (~b /\ UNCHANGED envm)
Go(at) == [view EXCEPT !.at = at]

Silence == [owner |-> FALSE, changed |-> FALSE]
NoEnrichment == [sessions |-> Nothing, generation |-> 0, data |-> {}, failed |-> {},
                 pending |-> {}, started |-> 0]
Cached == enr.data \union enr.failed
NoView(at) == [at |-> at, names |-> {}, todo |-> {}, half |-> 0, seen |-> Nothing, done |-> {}]
NoOp == [kind |-> None, player |-> None, players |-> Nothing, active |-> None]
NoMedia(error) == [players |-> Nothing, active |-> None, pinned |-> None, error |-> error]

MediaInit ==
    /\ \E up \in {{}, Players}, video \in [Players -> Content] :
        /\ \A p \in Players : video[p] \in IF p \in up /\ Shows[p] # {} THEN Shows[p] ELSE {None}
        /\ bus = [p \in Players |-> [up |-> p \in up, owner |-> IF p \in up THEN 1 ELSE 0,
                                    playing |-> FALSE, video |-> video[p]]]
    /\ heard = Silence /\ view = NoView("connect") /\ watch = {} /\ enr = NoEnrichment /\ tasks = {}
    /\ sel = [pinned |-> None, previous |-> {}, started |-> Nothing, modes |-> {},
              sequence |-> 0, initialized |-> FALSE]
    /\ op = NoOp /\ shownMedia = NoMedia(FALSE) /\ missed = {} /\ envm = 0

-----------------------------------------------------------------------------
(* MediaSelection, on the players a snapshot is given. *)

Latest(started, ids) == CHOOSE p \in ids : \A q \in ids : started[q] <= started[p]

select_active_player(players) ==
    LET ids == DOMAIN players
        playing == {p \in ids : players[p].playing}
        preferred == ids \intersect Spotify
        controllable == {p \in ids : players[p].live}
    IN  IF playing # {} THEN First(playing)
        ELSE IF preferred # {} THEN First(preferred)
        ELSE IF controllable # {} THEN First(controllable)
        ELSE IF ids # {} THEN First(ids)
        ELSE None

active(selection, players) ==
    LET playing == {p \in DOMAIN players : players[p].playing}
        recent == DOMAIN selection.started
    IN  IF selection.pinned # None THEN selection.pinned
        ELSE IF recent \intersect playing # {} THEN Latest(selection.started, recent \intersect playing)
        ELSE IF playing # {} THEN First(playing)
        ELSE IF recent # {} THEN Latest(selection.started, recent)
        ELSE select_active_player(players)

\* Mutant: a player that left keeps its pin.
MutStillPinned(selection, ids) == selection.pinned
StillPinned(selection, ids) == IF selection.pinned \in ids THEN selection.pinned ELSE None

(* Players that began to play since the last snapshot are the most recent;
   the first snapshot after an empty one starts nobody. *)
Reselected(selection, players) ==
    LET ids == DOMAIN players
        playing == {p \in ids : players[p].playing}
        begun == IF selection.initialized THEN playing \ selection.previous ELSE {}
        kept == (DOMAIN selection.started \intersect ids) \ begun
    IN  [pinned |-> StillPinned(selection, ids), previous |-> playing, modes |-> selection.modes \intersect ids,
         started |-> [p \in begun \union kept |->
                        IF p \in begun THEN selection.sequence + Cardinality({q \in begun : Rank[q] <= Rank[p]})
                                       ELSE selection.started[p]],
         sequence |-> selection.sequence + Cardinality(begun), initialized |-> ids # {}]

(* snapshot: the selection is brought up to date and its state is published. *)
snapshot(selection, players) ==
    LET next == Reselected(selection, players)
    IN  /\ sel' = next
        /\ shownMedia' = [players |-> [p \in DOMAIN players |->
                                        [players[p] EXCEPT !.mode = p \in next.modes]],
                          active |-> active(next, players), pinned |-> next.pinned, error |-> FALSE]

-----------------------------------------------------------------------------
(* The players, external to the daemon. *)

player_names == {p \in Players : bus[p].up}

PlayerStarts(p) ==
    /\ ~bus[p].up /\ Tick /\ heard' = [heard EXCEPT !.owner = view.at # "connect"]
    /\ \E playing \in BOOLEAN, video \in Shows[p] \union {None} :
        bus' = [bus EXCEPT ![p] = [up |-> TRUE, owner |-> @.owner + 1, playing |-> playing, video |-> video]]
    /\ UNCHANGED <<view, watch, enr, tasks, sel, op, shownMedia, missed>>

PlayerQuits(p) ==
    /\ bus[p].up /\ Tick /\ heard' = [heard EXCEPT !.owner = view.at # "connect"]
    /\ bus' = [bus EXCEPT ![p] = [up |-> FALSE, owner |-> @.owner, playing |-> FALSE, video |-> None]]
    /\ UNCHANGED <<view, watch, enr, tasks, sel, op, shownMedia, missed>>

(* A change of a running player: its watcher, once subscribed, forwards it. *)
Becomes(p, playing, video) ==
    /\ bus[p].up /\ bus' = [bus EXCEPT ![p].playing = playing, ![p].video = video]
    /\ IF p \in watch THEN heard' = [heard EXCEPT !.changed = TRUE] /\ UNCHANGED missed
                      ELSE missed' = missed \union {p} /\ UNCHANGED heard
    /\ UNCHANGED <<view, watch, enr, tasks, sel, op, shownMedia>>

PlayerChanges(p) ==
    /\ Tick
    /\ \/ Becomes(p, ~bus[p].playing, bus[p].video)
       \/ \E video \in (Shows[p] \union {None}) \ {bus[p].video} : Becomes(p, bus[p].playing, video)

(* media.operation play-pause: on the player named, on the one shown active,
   or, with nobody shown, on the one a fresh reading selects. *)
operation(p) == p # None /\ Tick /\ Becomes(p, ~bus[p].playing, bus[p].video)

resolve_player ==
    IF shownMedia.active # None THEN shownMedia.active
    ELSE select_active_player([p \in player_names |-> [playing |-> bus[p].playing, live |-> TRUE]])

-----------------------------------------------------------------------------
(* cycle, select and set_mode read the store's players under the selection
   lock and publish them again. *)

next_player_id(players, current) ==
    LET ids == DOMAIN players
        after == {p \in ids : current \in ids /\ Rank[p] > Rank[current]}
    IN  IF after # {} THEN First(after) ELSE First(ids)

Begin(kind, p) ==
    /\ op = NoOp /\ Tick
    /\ op' = [kind |-> kind, player |-> p, players |-> shownMedia.players, active |-> shownMedia.active]
    /\ UNCHANGED <<bus, heard, view, watch, enr, tasks, sel, shownMedia, missed>>

cycle ==
    /\ op.kind = "cycle" /\ op' = NoOp
    /\ IF Cardinality(DOMAIN op.players) < 2
       THEN UNCHANGED <<sel, shownMedia>>
       ELSE snapshot([sel EXCEPT !.pinned = next_player_id(op.players, op.active)], op.players)
    /\ UNCHANGED <<bus, heard, view, watch, enr, tasks, missed, envm>>

select ==
    /\ op.kind = "select" /\ op' = NoOp
    /\ IF op.player # None /\ op.player \notin DOMAIN op.players
       THEN UNCHANGED <<sel, shownMedia>>
       ELSE snapshot([sel EXCEPT !.pinned = op.player], op.players)
    /\ UNCHANGED <<bus, heard, view, watch, enr, tasks, missed, envm>>

(* Any mode but Automatic is remembered. *)
set_mode ==
    /\ op.kind \in {"override", "automatic"} /\ op' = NoOp
    /\ IF op.player \notin DOMAIN op.players
       THEN UNCHANGED <<sel, shownMedia>>
       ELSE snapshot([sel EXCEPT !.modes = IF op.kind = "override" THEN @ \union {op.player}
                                                                   ELSE @ \ {op.player}], op.players)
    /\ UNCHANGED <<bus, heard, view, watch, enr, tasks, missed, envm>>

Answers == cycle \/ select \/ set_mode

-----------------------------------------------------------------------------
(* The monitor: connect, list the names, read each player, publish, select. *)

connect ==
    /\ view.at = "connect"
    /\ \E failed \in BOOLEAN :
        /\ Fault(failed)
        /\ IF failed THEN shownMedia' = NoMedia(TRUE) /\ UNCHANGED view
                     ELSE view' = NoView("list") /\ UNCHANGED shownMedia
    /\ heard' = Silence /\ watch' = {} /\ enr' = NoEnrichment /\ tasks' = {}
    /\ UNCHANGED <<bus, sel, op, missed>>

(* The connection or a stream ends: lookups die with it, nobody is shown. *)
Disconnect ==
    /\ view.at = "select" /\ Tick /\ view' = NoView("empty")
    /\ heard' = Silence /\ watch' = {} /\ enr' = NoEnrichment /\ tasks' = {}
    /\ UNCHANGED <<bus, sel, op, shownMedia, missed>>

PublishNone ==
    /\ view.at = "empty" /\ op = NoOp /\ view' = Go("connect") /\ snapshot(sel, Nothing)
    /\ UNCHANGED <<bus, heard, watch, enr, tasks, op, missed, envm>>

Reading(names, done) ==
    [at |-> IF names = {} THEN "publish" ELSE "owner", names |-> names, todo |-> names,
     half |-> 0, seen |-> Nothing, done |-> done]

(* refresh: new names replace the watchers, which subscribe in their own time;
   a failed listing publishes its error and reads nobody. *)
refresh ==
    /\ view.at = "list"
    /\ \E failed \in BOOLEAN :
        /\ Fault(failed)
        /\ IF failed
           THEN /\ view' = Go("select") /\ shownMedia' = NoMedia(TRUE)
                /\ missed' = missed \union {Listing} /\ UNCHANGED watch
           ELSE /\ view' = Reading(player_names, {}) /\ missed' = missed \ {Listing}
                /\ watch' = IF player_names = view.names THEN watch ELSE {}
                /\ UNCHANGED shownMedia
    /\ UNCHANGED <<bus, heard, enr, tasks, sel, op>>

watch_properties(p) ==
    /\ p \in view.names \ watch /\ watch' = watch \union {p}
    /\ UNCHANGED <<bus, heard, view, enr, tasks, sel, op, shownMedia, missed, envm>>

(* read_player: the owner, then the properties from that owner; a lost owner
   answers nothing and leaves their defaults. *)
ReadOwner ==
    /\ view.at = "owner"
    /\ LET p == First(view.todo)
       IN  view' = [view EXCEPT !.at = "props", !.half = IF bus[p].up THEN bus[p].owner ELSE 0]
    /\ UNCHANGED <<bus, heard, watch, enr, tasks, sel, op, shownMedia, missed, envm>>

read_player ==
    /\ view.at = "props"
    /\ LET p == First(view.todo)
           live == bus[p].up /\ view.half \in {0, bus[p].owner}
           player == [owner |-> view.half, live |-> live, playing |-> live /\ bus[p].playing,
                      video |-> IF live THEN bus[p].video ELSE None, meta |-> None, mode |-> FALSE]
       IN  /\ view' = [view EXCEPT !.at = IF view.todo = {p} THEN "publish" ELSE "owner",
                                !.todo = @ \ {p}, !.half = 0, !.seen = [q \in DOMAIN @ \union {p} |-> IF q = p THEN player ELSE @[q]]]
           /\ missed' = missed \ {p}
    /\ UNCHANGED <<bus, heard, watch, enr, tasks, sel, op, shownMedia, envm>>

-----------------------------------------------------------------------------
(* Enrichment. *)

content_key(player) == <<player.owner, player.video>>
lookup_video(player) == player.owner # 0 /\ player.video # None

(* The sessions after prepare_player: a new generation for new content. *)
Sessions(players) ==
    LET known == {p \in DOMAIN players :
                    p \in DOMAIN enr.sessions /\ enr.sessions[p].observed = content_key(players[p])}
    IN  [p \in DOMAIN players |->
            IF p \in known THEN enr.sessions[p]
            ELSE [observed |-> content_key(players[p]), metadata |-> None,
                  generation |-> enr.generation
                                 + Cardinality({q \in DOMAIN players \ known : Rank[q] <= Rank[p]})]]

Newest(sessions) ==
    enr.generation + Cardinality({p \in DOMAIN sessions : sessions[p].generation > enr.generation})

FromCache(sessions, players, data) ==
    [p \in DOMAIN sessions |->
        IF lookup_video(players[p]) /\ players[p].video \in data
        THEN [sessions[p] EXCEPT !.metadata = players[p].video] ELSE sessions[p]]

\* Mutant: a completion is bound to the player alone.
MutCurrent(session, ticket) == TRUE
Current(session, ticket) == session.generation = ticket.generation

(* complete: the tickets whose player still shows the content looked up. *)
Applied(sessions, completion) ==
    [p \in DOMAIN sessions |->
        IF \E ticket \in completion.tickets : ticket.player = p /\ Current(sessions[p], ticket)
        THEN [sessions[p] EXCEPT !.metadata = completion.video] ELSE sessions[p]]

(* cache_result for each of vs: entries make room when the cache is full; the
   least recently used one goes, which may be any of them. *)
cache_result(cache, vs, gone) ==
    /\ gone \subseteq cache \ vs
    /\ Cardinality(gone) = Excess(Cardinality(cache \union vs), MaxCache)

(* prepare: the videos neither cached nor pending are asked for, in any order,
   until as many run or were started in this window as the limit allows. *)
Prepared(players, cache, begun, wanted) ==
    LET videos == {players[p].video : p \in {q \in DOMAIN players : lookup_video(players[q])}}
                  \ (cache \union enr.pending)
        full == \/ Cardinality(enr.pending \union wanted) >= MaxRequests
                \/ begun + Cardinality(wanted) >= MaxRequests
    IN  /\ wanted \subseteq videos /\ (wanted = videos \/ full)
        /\ wanted # {} => /\ Cardinality(enr.pending \union wanted) <= MaxRequests
                          /\ begun + Cardinality(wanted) <= MaxRequests

Tickets(players, sessions, video) ==
    {[player |-> p, generation |-> sessions[p].generation] : p \in {q \in DOMAIN players :
        lookup_video(players[q]) /\ players[q].video = video}}

apply_metadata(players, sessions) ==
    [p \in DOMAIN players |-> [players[p] EXCEPT !.meta = sessions[p].metadata]]

(* refresh_players, once every player is read: expired entries leave the
   cache, the request window may have passed, a joined lookup is applied. *)
refresh_players ==
    /\ view.at = "publish" /\ op = NoOp
    /\ \E expired \in SUBSET Cached, passed \in BOOLEAN, gone \in SUBSET Cached, wanted \in SUBSET Videos :
        LET data == enr.data \ expired
            failed == enr.failed \ expired
            begun == IF passed THEN 0 ELSE enr.started
            opened == Sessions(view.seen)
            prepared == FromCache(opened, view.seen, data)
            joined == view.done
            vs == {c.video : c \in joined}
            fetched == {c.video : c \in {d \in joined : d.outcome = "data"}}
            final == IF fetched = {} THEN prepared ELSE Applied(prepared, CHOOSE c \in joined : TRUE)
        IN  /\ Fault(expired # {})
            /\ Prepared(view.seen, data \union failed, begun, wanted)
            /\ cache_result(data \union failed, vs, gone)
            /\ enr' = [sessions |-> final, generation |-> Newest(opened),
                       data |-> ((data \ vs) \union fetched) \ gone,
                       failed |-> ((failed \ vs) \union (vs \ fetched)) \ gone,
                       pending |-> (enr.pending \union wanted) \ vs, started |-> begun + Cardinality(wanted)]
            /\ tasks' = tasks \union {[video |-> v, tickets |-> Tickets(view.seen, opened, v),
                                       outcome |-> "running"] : v \in wanted}
            /\ snapshot(sel, apply_metadata(view.seen, final))
    /\ view' = [view EXCEPT !.at = "select", !.seen = Nothing, !.done = {}]
    /\ heard' = [heard EXCEPT !.changed = @ \/ view.done # {}]
    /\ UNCHANGED <<bus, watch, op, missed>>

(* A lookup ends, with metadata, without, or by an unexpected panic. *)
FetchEnds ==
    /\ \E task \in tasks, outcome \in {"data", "empty", "panic"} :
        /\ task.outcome = "running" /\ Fault(outcome = "panic")
        /\ tasks' = (tasks \ {task}) \union {[task EXCEPT !.outcome = outcome]}
    /\ UNCHANGED <<bus, heard, view, watch, enr, sel, op, shownMedia, missed>>

(* The branches of the monitor's select. *)
OnOwner ==
    /\ view.at = "select" /\ heard.owner /\ heard' = [heard EXCEPT !.owner = FALSE] /\ view' = Go("list")
    /\ UNCHANGED <<bus, watch, enr, tasks, sel, op, shownMedia, missed, envm>>

OnChange ==
    /\ view.at = "select" /\ heard.changed /\ heard' = [heard EXCEPT !.changed = FALSE]
    /\ view' = Reading(view.names, {})
    /\ UNCHANGED <<bus, watch, enr, tasks, sel, op, shownMedia, missed, envm>>

OnCompletion ==
    /\ view.at = "select"
    /\ \E task \in tasks :
        /\ task.outcome \in {"data", "empty"} /\ tasks' = tasks \ {task}
        /\ view' = Reading(view.names, {task})
    /\ UNCHANGED <<bus, heard, watch, enr, sel, op, shownMedia, missed, envm>>

\* Mutant: a failed lookup stays pending.
MutPendingAfterFailure == enr.pending
PendingAfterFailure == {}

(* task_failed: every running lookup is aborted, and will be joined as failed
   itself; the pending videos are cached without metadata. *)
task_failed ==
    /\ view.at = "select"
    /\ \E task \in tasks, gone \in SUBSET Cached :
        /\ task.outcome \in {"panic", "aborted"}
        /\ tasks' = {[t EXCEPT !.outcome = IF @ = "running" THEN "aborted" ELSE @] : t \in tasks \ {task}}
        /\ cache_result(Cached, enr.pending, gone)
        /\ enr' = [enr EXCEPT !.data = (@ \ enr.pending) \ gone,
                              !.failed = (@ \union enr.pending) \ gone, !.pending = PendingAfterFailure]
    /\ UNCHANGED <<bus, heard, view, watch, sel, op, shownMedia, missed, envm>>

Monitor == connect \/ PublishNone \/ refresh \/ ReadOwner \/ read_player \/ refresh_players

MediaNext ==
    \/ Monitor \/ Disconnect \/ OnOwner \/ OnChange \/ OnCompletion \/ task_failed \/ FetchEnds
    \/ Answers \/ \E p \in Players \union {resolve_player} : operation(p)
    \/ \E kind \in {"override", "automatic", "select"}, p \in Players : Begin(kind, p)
    \/ \E kind \in {"cycle", "select"} : Begin(kind, None)
    \/ \E p \in Players : PlayerStarts(p) \/ PlayerQuits(p) \/ PlayerChanges(p) \/ watch_properties(p)

Watches == \E p \in Players : watch_properties(p)
(* The monitor's steps end, each ready branch of its select is taken again and
   again, watchers subscribe and requests are answered. *)
MediaSpec ==
    /\ MediaInit /\ [][MediaNext]_mediaVars /\ WF_mediaVars(Monitor) /\ WF_mediaVars(Watches)
    /\ WF_mediaVars(Answers) /\ SF_mediaVars(OnOwner) /\ SF_mediaVars(OnChange)

-----------------------------------------------------------------------------
(* The players shown and read, the selection and the lookups have their types. *)
MediaTypeOK ==
    /\ \A players \in {shownMedia.players, view.seen, op.players} :
        /\ DOMAIN players \subseteq Players
        /\ \A p \in DOMAIN players : players[p].video \in Content /\ players[p].meta \in Content
    /\ sel.pinned \in Players \union {None} /\ watch \subseteq view.names /\ enr.pending \subseteq Videos

(* The metadata shown with a player is that of the content it shows, however
   late a lookup ends and whatever the player or its owner did meanwhile. *)
MetadataBelongs ==
    \A p \in DOMAIN shownMedia.players :
        shownMedia.players[p].meta \in {None, shownMedia.players[p].video}

(* A video is pending only while a lookup will end for it: a crash of a lookup
   never leaves one that is not asked for again. *)
PendingRuns ==
    enr.pending \subseteq {t.video : t \in {u \in tasks : u.outcome # "aborted"} \union view.done}

(* The player shown active or pinned is one shown, a pin is obeyed, and the
   modes shown are the ones remembered, whichever of the monitor and a request
   published last. *)
ChoiceShown ==
    /\ shownMedia.pinned # None => shownMedia.active = shownMedia.pinned
    /\ shownMedia.active \in DOMAIN shownMedia.players
       \/ (shownMedia.active = None /\ shownMedia.players = Nothing)
    /\ \A p \in DOMAIN shownMedia.players : shownMedia.players[p].mode = (p \in sel.modes)

MediaSafe == MetadataBelongs /\ PendingRuns /\ ChoiceShown

-----------------------------------------------------------------------------
(* The inductive invariant. *)

MediaConstantsOK ==
    IsFiniteSet(Players) /\ Rank \in [Players -> Nat] /\ None \notin Players \union Videos

IsMap(f, S) == \E D \in SUBSET Players : f \in [D -> S]
Player == [owner: Nat, live: BOOLEAN, playing: BOOLEAN, video: Content, meta: Content, mode: BOOLEAN]
Session == [observed: Nat \X Content, metadata: Content, generation: Nat]
Ticket == [player: Players, generation: Nat]
Task == [video: Videos, tickets: SUBSET Ticket, outcome: {"running", "data", "empty", "panic", "aborted"}]

BusInv == bus \in [Players -> [up: BOOLEAN, owner: Nat, playing: BOOLEAN, video: Content]]

\* A reading under way has somebody to read and knows no metadata yet; only a
\* reading carries a lookup that was joined, and only one.
ViewInv ==
    /\ view \in [at: {"connect", "empty", "list", "owner", "props", "publish", "select"},
                 names: SUBSET Players, todo: SUBSET Players, half: Nat, seen: {view.seen}, done: SUBSET Task]
    /\ IsMap(view.seen, Player) /\ \A p \in DOMAIN view.seen : view.seen[p].meta = None
    /\ view.at \in {"owner", "props"} => view.todo # {}
    /\ view.done # {} => view.at \in {"owner", "props", "publish"} /\ \E c \in view.done : view.done = {c}
    /\ watch \subseteq view.names

\* A session's metadata is of the content it observed; a ticket of its generation
\* was issued for that content, and no ticket is from a generation to come.
Bound(sessions, generation, lookups) ==
    /\ \A p \in DOMAIN sessions :
        /\ sessions[p].generation <= generation
        /\ sessions[p].metadata \in {None, sessions[p].observed[2]}
    /\ \A t \in lookups : \A k \in t.tickets :
        /\ k.generation <= generation
        /\ k.player \in DOMAIN sessions /\ sessions[k.player].generation = k.generation =>
                sessions[k.player].observed[2] = t.video

LookupInv ==
    /\ enr \in [sessions: {enr.sessions}, generation: Nat, data: SUBSET Videos, failed: SUBSET Videos,
                pending: SUBSET Videos, started: {enr.started}]
    /\ IsMap(enr.sessions, Session) /\ tasks \subseteq Task
    /\ Bound(enr.sessions, enr.generation, tasks \union view.done) /\ PendingRuns

\* No player began to play later than the selection counted.
Selection(s) ==
    /\ s \in [pinned: Players \union {None}, previous: SUBSET Players, started: {s.started},
             modes: SUBSET Players, sequence: Nat, initialized: BOOLEAN]
    /\ IsMap(s.started, Nat) /\ \A p \in DOMAIN s.started : s.started[p] <= s.sequence

\* What is shown, or was when a request began, names its own players.
Consistent(players, current) ==
    /\ \A p \in DOMAIN players : players[p].meta \in {None, players[p].video}
    /\ current \in DOMAIN players \/ (current = None /\ players = Nothing)

RequestInv ==
    /\ op \in [kind: {None, "cycle", "select", "override", "automatic"}, player: Players \union {None},
               players: {op.players}, active: Players \union {None}]
    /\ IsMap(op.players, Player) /\ Consistent(op.players, op.active)

ShownInv ==
    /\ shownMedia \in [players: {shownMedia.players}, active: Players \union {None},
                       pinned: Players \union {None}, error: BOOLEAN]
    /\ IsMap(shownMedia.players, Player) /\ Consistent(shownMedia.players, shownMedia.active)
    /\ ChoiceShown

IInv == BusInv /\ ViewInv /\ LookupInv /\ Selection(sel) /\ RequestInv /\ ShownInv

(* The players shown end up being the players on the bus and what they do, but
   for what nobody could hear: a change between a reading and the watcher's
   subscription, and everything after a listing that failed. *)
MediaTrue ==
    /\ view.at # "connect"
    /\ Listing \notin missed =>
        /\ DOMAIN shownMedia.players = player_names
        /\ \A p \in DOMAIN shownMedia.players \ missed :
            /\ shownMedia.players[p].playing = bus[p].playing
            /\ shownMedia.players[p].video = bus[p].video
MediaConverges == <>[]MediaTrue
=============================================================================
