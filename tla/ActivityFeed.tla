--------------------------- MODULE ActivityFeed ---------------------------
(***************************************************************************)
(* The activity service (src/src/activity/service.rs): calendar and        *)
(* weather refreshes, edits of the saved cities (catalog.rs), agenda       *)
(* mutations and the minute clock all change one ActivityData and publish  *)
(* one ActivityState.  refresh_guard admits one refresh or city edit at a  *)
(* time, publication_guard one publication; a refresh asked for while one  *)
(* runs is dropped.                                                        *)
(***************************************************************************)
EXTENDS Naturals

CONSTANTS
    Editors,      \* clients that edit the saved cities
    Places,       \* places they may save
    MaxEdits,     \* bound on city edits
    MaxChanges    \* bound on agenda mutations, source changes, failures and restarts

VARIABLES
    data,         \* ActivityData: agenda revision, imported events, cities, forecasts
    file,         \* locations.json
    fenced,       \* catalog_error: an unconfirmed save fences later ones
    published,    \* the ActivityState in the state store
    guard,        \* publication_guard: its holder, or "free"
    draft,        \* the ActivityState each publisher is about to store, or None
    busy,         \* refresh_guard: its holder, or "free"
    refresh,      \* the running refresh: its step and what it read
    asked,        \* request_refresh: a caller publishing, or refreshes spawned
    edit,         \* each editor's step, request and answer
    mutation,     \* an agenda mutation that has not published yet
    kept,         \* history: cities whose save was acknowledged and not undone
    places,       \* history: every id that was ever on file, with its place
    edits, changes

feedVars == <<data, file, fenced, published, guard, draft, busy, refresh, asked, edit,
              mutation, kept, places, edits, changes>>

Change == changes < MaxChanges /\ changes' = changes + 1
Idle == [at |-> "idle"]
None == [none |-> TRUE]
Publishers == {"clock", "mutation", "request", "refresh"} \union Editors

\* publish_state's projection of the data.
Projection == [syncing |-> FALSE, agenda |-> data.agenda, items |-> data.agenda,
               events |-> data.events, cities |-> data.catalog.cities, forecasts |-> data.forecasts]

FirstCatalog == [revision |-> 1, next |-> 1, cities |-> {}]

FeedInit ==
    /\ data = [agenda |-> 0, events |-> 0, catalog |-> FirstCatalog, forecasts |-> {}]
    /\ file = FirstCatalog /\ fenced = FALSE
    /\ published = Projection /\ guard = "free" /\ draft = [w \in Publishers |-> None]
    /\ busy = "free" /\ refresh = Idle /\ asked = [publishing |-> FALSE, spawned |-> 0]
    /\ edit = [e \in Editors |-> Idle] /\ mutation = "none"
    /\ kept = {} /\ places = {} /\ edits = 0 /\ changes = 0

-----------------------------------------------------------------------------
(* Publication: read and store under publication_guard. *)

\* Mutant: a publisher does not wait for the guard.
MutEnter(who, state) == guard' = who /\ draft' = [draft EXCEPT ![who] = state]
Enter(who, state) == guard = "free" /\ guard' = who /\ draft' = [draft EXCEPT ![who] = state]

\* Mutant: a publication keeps the syncing flag that is shown.
MutStore(who) ==
    /\ draft[who] # None /\ published' = [draft[who] EXCEPT !.syncing = @ \/ published.syncing]
    /\ draft' = [draft EXCEPT ![who] = None] /\ guard' = "free"
\* update_activity, and the release of the guard.
Store(who) ==
    /\ draft[who] # None /\ published' = draft[who]
    /\ draft' = [draft EXCEPT ![who] = None] /\ guard' = "free"

\* publish_clock keeps what is published and re-reads the agenda's identity.
Clock == [published EXCEPT !.agenda = data.agenda]
clock_due ==
    /\ Enter("clock", Clock)
    /\ UNCHANGED <<data, file, fenced, published, busy, refresh, asked, edit, mutation, kept,
                   places, edits, changes>>
publish_clock ==
    /\ Store("clock")
    /\ UNCHANGED <<data, file, fenced, busy, refresh, asked, edit, mutation, kept, places,
                   edits, changes>>

Syncing == [published EXCEPT !.syncing = TRUE]

-----------------------------------------------------------------------------
(* An agenda mutation: the cache, then publish_state. *)

mutate ==
    /\ mutation = "none" /\ Change
    /\ data' = [data EXCEPT !.agenda = @ + 1] /\ mutation' = "committed"
    /\ UNCHANGED <<file, fenced, published, guard, draft, busy, refresh, asked, edit, kept,
                   places, edits>>
publish_mutation ==
    /\ \/ /\ mutation = "committed" /\ Enter("mutation", Projection)
          /\ mutation' = "publishing" /\ UNCHANGED published
       \/ mutation = "publishing" /\ Store("mutation") /\ mutation' = "none"
    /\ UNCHANGED <<data, file, fenced, busy, refresh, asked, edit, kept, places, edits, changes>>

-----------------------------------------------------------------------------
(* Refreshing. *)

\* request_refresh: show the spinner, then spawn a refresh.
request_refresh ==
    /\ ~asked.publishing /\ asked.spawned = 0 /\ Change
    /\ Enter("request", Syncing) /\ asked' = [asked EXCEPT !.publishing = TRUE]
    /\ UNCHANGED <<data, file, fenced, published, busy, refresh, edit, mutation, kept, places, edits>>
spawn_refresh ==
    /\ asked.publishing /\ Store("request") /\ asked' = [publishing |-> FALSE, spawned |-> 1]
    /\ UNCHANGED <<data, file, fenced, busy, refresh, edit, mutation, kept, places, edits, changes>>

\* try_lock: a refresh that finds the guard taken is dropped.
refresh_starts ==
    /\ busy = "free" /\ refresh = Idle
    /\ busy' = "refresh" /\ refresh' = [at |-> "sync"]
    /\ asked' = [asked EXCEPT !.spawned = 0]
    /\ UNCHANGED <<data, file, fenced, published, guard, draft, edit, mutation, kept, places,
                   edits, changes>>
refresh_dropped ==
    /\ asked.spawned = 1 /\ busy # "free"
    /\ asked' = [asked EXCEPT !.spawned = 0]
    /\ UNCHANGED <<data, file, fenced, published, guard, draft, busy, refresh, edit, mutation,
                   kept, places, edits, changes>>

publish_syncing ==
    /\ \/ /\ refresh.at = "sync" /\ Enter("refresh", Syncing)
          /\ refresh' = [at |-> "syncing"] /\ UNCHANGED published
       \/ refresh.at = "syncing" /\ Store("refresh") /\ refresh' = [at |-> "load"]
    /\ UNCHANGED <<data, file, fenced, busy, asked, edit, mutation, kept, places, edits, changes>>

\* A provider that fails keeps its last import; an unreadable config ends here.
load_sources ==
    /\ refresh.at = "load"
    /\ \/ refresh' = [at |-> "weather"] /\ UNCHANGED <<data, changes>>
       \/ Change /\ refresh' = [at |-> "publish"] /\ UNCHANGED data
       \/ Change /\ data' = [data EXCEPT !.events = changes + 1, !.agenda = @ + 1]
                 /\ refresh' = [at |-> "weather"]
    /\ UNCHANGED <<file, fenced, published, guard, draft, busy, asked, edit, mutation, kept,
                   places, edits>>

Ids(c) == {x.id : x \in c.cities}

\* refresh_weather: the cities are read before the forecasts are fetched.
refresh_weather ==
    /\ \/ /\ refresh.at = "weather"
          /\ refresh' = [at |-> "fetch", cities |-> Ids(data.catalog)] /\ UNCHANGED data
       \/ /\ refresh.at = "fetch"
          /\ data' = [data EXCEPT !.forecasts = refresh.cities] /\ refresh' = [at |-> "publish"]
    /\ UNCHANGED <<file, fenced, published, guard, draft, busy, asked, edit, mutation, kept,
                   places, edits, changes>>

publish_refresh ==
    /\ \/ /\ refresh.at = "publish" /\ Enter("refresh", Projection)
          /\ refresh' = [at |-> "publishing"] /\ UNCHANGED <<published, busy>>
       \/ refresh.at = "publishing" /\ Store("refresh") /\ refresh' = [at |-> "done"] /\ UNCHANGED busy
       \/ /\ refresh.at = "done" /\ refresh' = Idle /\ busy' = "free"
          /\ UNCHANGED <<published, guard, draft>>
    /\ UNCHANGED <<data, file, fenced, asked, edit, mutation, kept, places, edits, changes>>

-----------------------------------------------------------------------------
(* The saved cities. *)

\* A client edits what it saw: the list's revision, and a place or a city of it.
CityCall(e) ==
    /\ edit[e] = Idle /\ edits < MaxEdits /\ edits' = edits + 1
    /\ \/ \E p \in Places : edit' = [edit EXCEPT ![e] =
              [at |-> "locking", kind |-> "add", place |-> p, revision |-> data.catalog.revision]]
       \/ \E x \in data.catalog.cities : edit' = [edit EXCEPT ![e] =
              [at |-> "locking", kind |-> "remove", city |-> x, revision |-> data.catalog.revision]]
    /\ UNCHANGED <<data, file, fenced, published, guard, draft, busy, refresh, asked, mutation,
                   kept, places, changes>>

add(c, p) == [revision |-> c.revision + 1, next |-> c.next + 1,
              cities |-> c.cities \union {[id |-> c.next, place |-> p]}]
remove(c, x) == [c EXCEPT !.revision = @ + 1, !.cities = @ \ {x}]

\* Under refresh_guard: the fence, the revision check, the edit and its save.
\* A save that fails may have replaced the file.
Current(e) == edit[e].revision = data.catalog.revision
Editable(e) == edit[e].at = "locking" /\ busy = "free"
edit_refused(e) ==
    /\ Editable(e) /\ (fenced \/ ~Current(e))
    /\ edit' = [edit EXCEPT ![e] = Idle]
    /\ UNCHANGED <<data, file, fenced, published, guard, draft, busy, refresh, asked, mutation,
                   kept, places, edits, changes>>
Known(e) == edit[e].kind = "add" /\ \E x \in data.catalog.cities : x.place = edit[e].place
city_known(e) ==
    /\ Editable(e) /\ ~fenced /\ Current(e) /\ Known(e)
    /\ edit' = [edit EXCEPT ![e] = [at |-> "publish", kind |-> "add"]]
    /\ UNCHANGED <<data, file, fenced, published, guard, draft, busy, refresh, asked, mutation,
                   kept, places, edits, changes>>
save_catalog(e) ==
    /\ Editable(e) /\ ~fenced /\ Current(e) /\ ~Known(e)
    /\ LET next == IF edit[e].kind = "add" THEN add(data.catalog, edit[e].place)
                   ELSE remove(data.catalog, edit[e].city)
       IN /\ \/ /\ file' = next /\ data' = [data EXCEPT !.catalog = next]
                /\ edit' = [edit EXCEPT ![e] = [at |-> IF edit[e].kind = "add" THEN "publish"
                                                       ELSE "trim", kind |-> edit[e].kind]]
                /\ busy' = IF edit[e].kind = "add" THEN "free" ELSE e
                /\ kept' = next.cities /\ UNCHANGED <<fenced, changes>>
             \/ /\ Change /\ file' \in {file, next} /\ fenced' = TRUE
                /\ edit' = [edit EXCEPT ![e] = Idle]
                /\ kept' = kept \intersect next.cities /\ UNCHANGED <<data, busy>>
          /\ places' = places \union file'.cities
    /\ UNCHANGED <<published, guard, draft, refresh, asked, mutation, edits>>

\* remove_city drops the city's forecast before it publishes.
trim_forecasts(e) ==
    /\ edit[e].at = "trim"
    /\ data' = [data EXCEPT !.forecasts = @ \intersect Ids(data.catalog)]
    /\ edit' = [edit EXCEPT ![e].at = "publish"]
    /\ UNCHANGED <<file, fenced, published, guard, draft, busy, refresh, asked, mutation, kept,
                   places, edits, changes>>

\* An added city also asks for a refresh.
publish_city(e) ==
    /\ \/ /\ edit[e].at = "publish" /\ Enter(e, Projection)
          /\ edit' = [edit EXCEPT ![e].at = "publishing"] /\ UNCHANGED <<published, busy, asked>>
       \/ /\ edit[e].at = "publishing" /\ Store(e)
          /\ IF edit[e].kind = "add"
             THEN edit' = [edit EXCEPT ![e].at = "request"] /\ UNCHANGED <<busy, asked>>
             ELSE edit' = [edit EXCEPT ![e] = Idle] /\ busy' = "free" /\ UNCHANGED asked
       \/ /\ edit[e].at = "request" /\ Enter(e, Syncing)
          /\ edit' = [edit EXCEPT ![e].at = "requesting"] /\ UNCHANGED <<published, busy, asked>>
       \/ /\ edit[e].at = "requesting" /\ Store(e) /\ edit' = [edit EXCEPT ![e] = Idle]
          /\ asked' = [asked EXCEPT !.spawned = 1] /\ UNCHANGED busy
    /\ UNCHANGED <<data, file, fenced, refresh, mutation, kept, places, edits, changes>>

\* A restart loads the file; with_paths publishes before anything else runs.
restart ==
    /\ Change
    /\ data' = [agenda |-> data.agenda, events |-> 0, catalog |-> file, forecasts |-> {}]
    /\ published' = [syncing |-> FALSE, agenda |-> data.agenda, items |-> data.agenda,
                     events |-> 0, cities |-> file.cities, forecasts |-> {}]
    /\ draft' = [w \in Publishers |-> None] /\ fenced' = FALSE /\ guard' = "free" /\ busy' = "free"
    /\ refresh' = Idle /\ asked' = [publishing |-> FALSE, spawned |-> 0]
    /\ edit' = [e \in Editors |-> Idle] /\ mutation' = "none"
    /\ UNCHANGED <<file, kept, places, edits>>

FeedNext ==
    \/ clock_due \/ publish_clock \/ mutate \/ publish_mutation
    \/ request_refresh \/ spawn_refresh \/ refresh_starts \/ refresh_dropped
    \/ publish_syncing \/ load_sources \/ refresh_weather \/ publish_refresh
    \/ \E e \in Editors : CityCall(e) \/ edit_refused(e) \/ city_known(e) \/ save_catalog(e)
                            \/ trim_forecasts(e) \/ publish_city(e)
    \/ restart

\* The guards are fair mutexes, publications and provider calls end (they have
\* timeouts), and the sixty-second tick keeps starting refreshes.
Releases == publish_clock \/ spawn_refresh \/ (guard = "mutation" /\ publish_mutation)
Refreshes == refresh_starts \/ publish_syncing \/ load_sources \/ refresh_weather \/ publish_refresh
Edits == \E e \in Editors : trim_forecasts(e) \/ publish_city(e)
FeedFair == WF_feedVars(Releases) /\ SF_feedVars(Refreshes) /\ SF_feedVars(Edits)

FeedSpec == FeedInit /\ [][FeedNext]_feedVars /\ FeedFair

-----------------------------------------------------------------------------
(* Properties. *)

\* Somebody has changed the data and not yet stored the state that shows it.
Owing == \/ guard # "free" \/ mutation # "none" \/ refresh # Idle
         \/ \E e \in Editors : edit[e].at \notin {"idle", "locking"}

\* No publication is lost: whenever nobody owes one, what is published is the data.
PublishedCurrent == Owing \/ [published EXCEPT !.syncing = FALSE] = Projection

\* Outside a refresh or an edit there is no forecast of a city that was removed.
NoGhostForecast == busy = "free" => data.forecasts \subseteq Ids(data.catalog)

\* An acknowledged city survives a restart, an id names one place for ever, and
\* unless a save is unconfirmed the file is what the daemon shows.
CitiesKept ==
    /\ kept \subseteq file.cities
    /\ \A x, y \in places : x.id = y.id => x = y
    /\ \A x, y \in data.catalog.cities : x.place = y.place => x = y
    /\ ~fenced => file = data.catalog

FeedSafe == PublishedCurrent /\ NoGhostForecast /\ CitiesKept

\* The spinner stops, also when the refresh that was asked for was dropped.
ShowsSyncing == published.syncing
SyncEnds == ShowsSyncing ~> ~ShowsSyncing

(* What the proofs ask of the constants: the other publishers and the free guards
   are no editors. *)
FeedConstantsOK == Editors \intersect {"free", "clock", "mutation", "request", "refresh"} = {}

(* The inductive invariant: shapes; who holds the guards; who still has to publish
   whenever the state shown, or about to be, is not the data; the saved cities. *)
Cities == [id : Nat, place : Places]
Lists == [revision : Nat, next : Nat, cities : SUBSET Cities]
States == [syncing : BOOLEAN, agenda : Nat, items : Nat, events : Nat,
           cities : SUBSET Cities, forecasts : SUBSET Nat]
Rounds == {Idle} \union [at : {"sync", "syncing", "load", "weather", "publish", "publishing", "done"}]
          \union [at : {"fetch"}, cities : SUBSET Nat]
Calls == {Idle}
         \union [at : {"locking"}, kind : {"add"}, place : Places, revision : Nat]
         \union [at : {"locking"}, kind : {"remove"}, city : Cities, revision : Nat]
         \union [at : {"trim", "publish", "publishing", "request", "requesting"}, kind : {"add", "remove"}]

FeedShapes ==
    /\ data \in [agenda : Nat, events : Nat, catalog : Lists, forecasts : SUBSET Nat]
    /\ file \in Lists /\ published \in States /\ draft \in [Publishers -> {None} \union States]
    /\ guard \in {"free"} \union Publishers /\ refresh \in Rounds /\ edit \in [Editors -> Calls]
    /\ changes \in Nat /\ places \subseteq Cities
\* The fence, the refresh guard, the refreshes asked for and the mutation.
Marks ==
    /\ fenced \in BOOLEAN /\ busy \in {"free", "refresh"} \union Editors
    /\ asked \in [publishing : BOOLEAN, spawned : {0, 1}]
    /\ mutation \in {"none", "committed", "publishing"}

\* Every variable keeps the shape its code gives it.
FeedTypeOK == FeedShapes /\ Marks

Shows(state) ==
    /\ state.agenda = data.agenda /\ state.items = data.agenda /\ state.events = data.events
    /\ state.cities = data.catalog.cities /\ state.forecasts = data.forecasts

\* Somebody has changed the data and has yet to read it for publication.
Debt == \/ mutation = "committed" \/ refresh.at \in {"weather", "fetch", "publish"}
        \/ \E e \in Editors : edit[e].at \in {"trim", "publish"}

GuardInv == \A w \in Publishers : draft[w] # None <=> guard = w
ShownInv == Debt \/ Shows(IF guard = "free" THEN published ELSE draft[guard])

BusyInv ==
    /\ busy = "refresh" <=> refresh.at # "idle"
    /\ refresh.at = "fetch" => refresh.cities = Ids(data.catalog)
    /\ \A e \in Editors : edit[e].at \in {"trim", "publish", "publishing"} /\ edit[e].kind = "remove" => busy = e
    /\ data.forecasts \subseteq Ids(data.catalog) \/ \E e \in Editors : busy = e /\ edit[e].at = "trim"

CatalogInv ==
    /\ CitiesKept
    /\ file.cities \subseteq places /\ \A x \in places : x.id < file.next
    /\ \A x, y \in file.cities : x.place = y.place => x = y

FeedIInv == FeedShapes /\ GuardInv /\ ShownInv /\ BusyInv /\ CatalogInv
=============================================================================
