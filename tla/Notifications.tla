---------------------------- MODULE Notifications ----------------------------
(***************************************************************************)
(* The native notification engine and its persistence worker               *)
(* (src/src/activity/notifications/engine.rs and persistence.rs).          *)
(*                                                                         *)
(* A mutex (mutations) serialises the handlers.  Ordinary handlers reserve *)
(* a slot of the command queue, change the engine's memory and enqueue one *)
(* batch of writes when they end; a thread applies the batches later.      *)
(* Other handlers send a request and keep the mutex until the thread has   *)
(* answered.  A crash loses the engine's memory and the queue.             *)
(*                                                                         *)
(* Deadlines are unset, set or due.  The stamp of a notification is its    *)
(* number in the order of creation: two of them with the same identifier   *)
(* never have the same stamp.  Popups, policies and screen sharing do not  *)
(* reach the history and are left out.                                     *)
(***************************************************************************)
EXTENDS NotificationStore

CONSTANTS
    MaxId,        \* the largest identifier, 2^32 - 1 in the code
    MaxActive,    \* maximum_active, 200
    Capacity,     \* QUEUE_CAPACITY, 1024
    Keys,         \* keys of once-only notifications
    Tokens,       \* delete confirmations that fit at once, 8
    Selections,   \* the identifiers a deletion or a group may select
    Timeouts,     \* the protocol deadlines a client may ask for: "never", "set"
    DndModes,     \* the DND requests a client may make: "off", "on", "timed"
    None,
    MaxBorn,      \* bound: notifications created
    MaxFaults     \* bound: failed transactions and reads, abandoned reads, crashes

Ids == 1..MaxId
Stamps == 1..MaxBorn

ASSUME EngineAssumption ==
    /\ MaxId \in Nat /\ MaxActive \in 1..(MaxId - 1) /\ Capacity \in Nat \ {0, 1}
    /\ Selections \subseteq SUBSET Ids
    /\ Timeouts \subseteq {"never", "set"} /\ DndModes \subseteq {"off", "on", "timed"}
    /\ None \notin Keys /\ MaxBorn \in Nat /\ MaxFaults \in Nat

VARIABLES
    active,       \* the live notifications by identifier
    routes,       \* update_targets: the update run a notification opens
    nextId,       \* the last identifier handed out
    dnd,          \* "off", "on", "timed" or, once its deadline has passed, "due"
    tickets,      \* delete_tickets: pending delete confirmations by token
    op, arg,      \* the handler that waits for the thread, and its data
    reply,        \* the answer it got
    queue,        \* commands; the first one has left the channel and is executed
    admission,    \* the channel accepts commands
    historyError, \* the thread failed to apply an accepted write
    blocked,      \* a transaction ended in an unknown state
    db,           \* the database file
    running,
    born, aged,   \* history: notifications created, highest cutoff so far
    shown,        \* history: how often a key was published
    deleted,      \* history: positions whose deletion was confirmed to the caller
    faults

engine == <<active, routes, nextId, dnd, tickets>>
handler == <<op, arg, reply>>
thread == <<historyError, blocked, db, aged>>
vars == <<engine, handler, thread, queue, admission, running, born, shown, deleted, faults>>

Ops == {"none", "once", "settings", "targets", "delete", "query", "expiry", "shutdown"}
Replies == {"none", "ok", "known", "error"}
\* key: the once-only notification this content belongs to.
Note == [id : Ids, born : Stamps, transient : BOOLEAN, expires : {"never", "set", "due"},
         snoozed : {"no", "set", "due"}, key : Keys \cup {None}]

Live == {Position(active[i]) : i \in DOMAIN active}
Persistent == {Position(active[i]) : i \in {j \in DOMAIN active : ~active[j].transient}}

NoEntries == [x \in {} |-> None]
Without(f, keys) == [x \in DOMAIN f \ keys |-> f[x]]
With(f, x, v) == [y \in DOMAIN f \cup {x} |-> IF y = x THEN v ELSE f[y]]

\* The mutations of a batch.
Saved(n) == [op |-> "save", note |-> [id |-> n.id, born |-> n.born, transient |-> n.transient]]
Closed(id) == [op |-> "close", id |-> id]
Cleared == [op |-> "clear"]
DndSet(d) == [op |-> "dnd", dnd |-> d]

Saves(ids, notes) == [k \in 1..Cardinality(ids) |-> Saved(notes[InOrder(ids)[k]])]
Closes(ids) == [k \in 1..Cardinality(ids) |-> Closed(InOrder(ids)[k])]

TypeOK ==
    /\ DOMAIN active \subseteq Ids /\ \A i \in DOMAIN active : active[i] \in Note /\ active[i].id = i
    /\ DOMAIN routes \subseteq Ids /\ \A i \in DOMAIN routes : routes[i] \in Keys
    /\ Cardinality(DOMAIN active) <= MaxActive
    /\ nextId \in 0..MaxId /\ dnd \in {"off", "on", "timed", "due"}
    /\ DOMAIN tickets \subseteq Tokens
    /\ op \in Ops /\ reply \in Replies
    /\ Len(queue) <= Capacity + 1
    /\ admission \in BOOLEAN /\ historyError \in BOOLEAN /\ blocked \in BOOLEAN
    /\ db.lastId \in 0..MaxId /\ db.once \subseteq Keys /\ db.dnd \in {"off", "on", "timed"}
    /\ running \in BOOLEAN /\ born \in 0..MaxBorn /\ aged \in 0..MaxBorn
    /\ shown \in [Keys -> Nat] /\ faults \in 0..MaxFaults

Init ==
    /\ active = NoEntries /\ routes = NoEntries /\ nextId = 0 /\ dnd = "off" /\ tickets = NoEntries
    /\ op = "none" /\ arg = None /\ reply = "none"
    /\ queue = <<>> /\ admission = TRUE /\ historyError = FALSE /\ blocked = FALSE
    /\ db = EmptyStore /\ running = TRUE
    /\ born = 0 /\ aged = 0 /\ shown = [k \in Keys |-> 0] /\ deleted = {} /\ faults = 0

Fault == faults < MaxFaults /\ faults' = faults + 1

-----------------------------------------------------------------------------
(* The command channel *)

Waiting == IF queue = <<>> THEN 0 ELSE Len(queue) - 1
Room == admission /\ Waiting < Capacity

\* The mutex is free.
LockFree == running /\ op = "none"
\* A handler has the mutex and a slot.
Reserved == LockFree /\ Room

\* Dropping PendingWrites sends the batch, unless it is empty.
Enqueue(batch) ==
    queue' = IF batch = <<>> THEN queue ELSE Append(queue, [kind |-> "batch", rest |-> batch])

\* A handler sends a command and keeps the mutex.
Request(what, command, data) ==
    /\ op' = what /\ arg' = data /\ reply' = "none"
    /\ queue' = Append(queue, command)

\* A handler that waited returns.
Return == op' = "none" /\ arg' = None /\ reply' = "none"

\* What an ordinary handler leaves alone.
plain == <<handler, thread, admission, running, shown, deleted, faults>>

-----------------------------------------------------------------------------
(* Handlers that only enqueue *)

\* allocate_id: the counter wraps, zero is skipped, live identifiers too.
candidate(k) == LET v == (nextId + k) % (MaxId + 1) IN IF v = 0 THEN 1 ELSE v
tries == CHOOSE k \in 1..(MaxId + 1) :
             /\ candidate(k) \notin DOMAIN active
             /\ \A j \in 1..(k - 1) : candidate(j) \in DOMAIN active
allocate_id == candidate(tries)

Fresh(transient, expires, key) ==
    [id |-> allocate_id, born |-> born + 1, transient |-> transient, expires |-> expires,
     snoozed |-> "no", key |-> key]

\* The same notification with other content or deadlines.
Renewed(n, transient, expires, snoozed, key) ==
    [id |-> n.id, born |-> n.born, transient |-> transient, expires |-> expires,
     snoozed |-> snoozed, key |-> key]

Created ==
    /\ born < MaxBorn /\ born' = born + 1
    /\ nextId' = (nextId + tries) % (MaxId + 1)

\* Mutant: one notification too many is kept.
MutEvicted ==
    IF Cardinality(DOMAIN active) <= MaxActive THEN {}
    ELSE {i \in DOMAIN active : \A j \in DOMAIN active : active[i].born <= active[j].born}

\* The oldest notification goes when there is no room for another.
Evicted ==
    IF Cardinality(DOMAIN active) < MaxActive THEN {}
    ELSE {i \in DOMAIN active : \A j \in DOMAIN active : active[i].born <= active[j].born}

Notify(transient, expires) ==
    /\ Reserved /\ Created
    /\ LET n == Fresh(transient, expires, None) IN
       /\ active' = With(Without(active, Evicted), n.id, n)
       /\ routes' = Without(routes, Evicted \cup {n.id})
       /\ Enqueue(<<Saved(n)>> \o Closes(Evicted))
    /\ UNCHANGED <<plain, dnd, tickets>>

\* Mutant: the route of the old content stays.
MutReplace(id, transient, expires) ==
    /\ Reserved /\ id \in DOMAIN active
    /\ LET n == Renewed(active[id], transient, expires, "no", None) IN
       /\ active' = With(active, id, n)
       /\ Enqueue(<<Saved(n)>>)
    /\ UNCHANGED <<plain, routes, nextId, born, dnd, tickets>>

\* replace_from: new content under the same identifier and stamp.
Replace(id, transient, expires) ==
    /\ Reserved /\ id \in DOMAIN active
    /\ LET n == Renewed(active[id], transient, expires, "no", None) IN
       /\ active' = With(active, id, n)
       /\ Enqueue(<<Saved(n)>>)
    /\ routes' = Without(routes, {id})
    /\ UNCHANGED <<plain, nextId, born, dnd, tickets>>

\* close_locked, for each of some live identifiers.
Forget(ids) ==
    /\ active' = Without(active, ids)
    /\ routes' = Without(routes, ids)

\* close, dismiss and an action on a notification that is not resident.
Close(id) ==
    /\ Reserved /\ id \in DOMAIN active
    /\ Forget({id})
    /\ Enqueue(<<Closed(id)>>)
    /\ UNCHANGED <<plain, nextId, born, dnd, tickets>>

clear ==
    /\ Reserved /\ active # NoEntries
    /\ Forget(DOMAIN active)
    /\ Enqueue(<<Cleared>>)
    /\ UNCHANGED <<plain, nextId, born, dnd, tickets>>

clear_group(ids) ==
    /\ Reserved /\ DOMAIN active \cap ids # {}
    /\ Forget(ids)
    /\ Enqueue(Closes(DOMAIN active \cap ids))
    /\ UNCHANGED <<plain, nextId, born, dnd, tickets>>

snooze(id) ==
    /\ Reserved /\ id \in DOMAIN active
    /\ LET old == active[id]
           n == Renewed(old, old.transient, IF old.expires = "never" THEN "never" ELSE "set",
                        "set", old.key) IN
       /\ active' = With(active, id, n)
       /\ Enqueue(<<Saved(n)>>)
    /\ UNCHANGED <<plain, routes, nextId, born, dnd, tickets>>

\* set_dnd and toggle_dnd; a new deadline is a change too.
set_dnd(d) ==
    /\ Reserved /\ (d # dnd \/ d = "timed")
    /\ dnd' = d
    /\ Enqueue(<<DndSet(d)>>)
    /\ UNCHANGED <<plain, active, routes, nextId, born, tickets>>

\* EngineData::expire and what expire_due makes of it: a future snooze defers
\* everything, a snooze that ends is saved, then an expired one is closed.
Woken == {i \in DOMAIN active : active[i].snoozed = "due"}
Expired == {i \in DOMAIN active : active[i].snoozed # "set" /\ active[i].expires = "due"}
\* Mutant: the expiry task only wakes for snoozes and DND.
MutSomethingDue == Woken # {} \/ dnd = "due"
SomethingDue == Woken # {} \/ Expired # {} \/ dnd = "due"

expire ==
    LET wake(n) == Renewed(n, n.transient, n.expires,
                           IF n.snoozed = "due" THEN "no" ELSE n.snoozed, n.key)
        awake == [i \in DOMAIN active |-> wake(active[i])] IN
    /\ active' = Without(awake, Expired)
    /\ routes' = Without(routes, Expired)
    /\ dnd' = IF dnd = "due" THEN "off" ELSE dnd
    /\ Enqueue(Saves(Woken, awake) \o (IF dnd = "due" THEN <<DndSet("off")>> ELSE <<>>)
                                    \o Closes(Expired))

expire_due ==
    /\ Reserved /\ SomethingDue
    /\ expire
    /\ UNCHANGED <<plain, nextId, born, tickets>>

-----------------------------------------------------------------------------
(* Handlers that wait for the thread *)

\* What starting such a handler, and what ending it, leaves alone.
starting == <<thread, admission, running, shown, deleted, faults>>
ending == <<thread, admission, running, faults>>

\* Once a minute the expiry task prunes as well: it holds its own slot while it
\* sends the request, so two are needed.
expire_prune ==
    /\ Reserved /\ Waiting + 1 < Capacity
    /\ Request("expiry", [kind |-> "prune"], None)
    /\ UNCHANGED <<starting, engine, born>>

expire_pruned ==
    /\ op = "expiry" /\ reply # "none"
    /\ Return
    /\ expire
    /\ UNCHANGED <<ending, nextId, born, tickets, shown, deleted>>

\* notify_update_once: nothing is shown before the store has the key.
notify_update_once(k) ==
    /\ Reserved /\ Created
    /\ LET n == Fresh(FALSE, "never", k) IN
       Request("once", [kind |-> "once", key |-> k, note |-> n], n)
    /\ UNCHANGED <<starting, active, routes, dnd, tickets>>

OnceSaved ==
    /\ op = "once" /\ reply = "ok"
    /\ Evicted # {} => Room
    /\ active' = With(Without(active, Evicted), arg.id, arg)
    /\ routes' = With(Without(routes, Evicted), arg.id, arg.key)
    /\ shown' = [shown EXCEPT ![arg.key] = @ + 1]
    /\ Enqueue(Closes(Evicted))
    /\ Return
    /\ UNCHANGED <<ending, nextId, born, dnd, tickets, deleted>>

OnceNotShown ==
    /\ op = "once" /\ reply \in {"known", "error"}
    /\ Return
    /\ UNCHANGED <<ending, engine, queue, born, shown, deleted>>

\* set_settings: the new history duration makes this cutoff.
set_settings(cutoff) ==
    /\ Reserved
    /\ Request("settings", [kind |-> "settings", cutoff |-> cutoff], None)
    /\ UNCHANGED <<starting, engine, born>>

\* query_history and query_center: an overlay of the live notifications over the
\* rows the thread reads.  (The unrevisioned `history' promises less and is left out.)
query_history ==
    /\ Reserved
    /\ Request("query", [kind |-> "read", live |-> TRUE], None)
    /\ UNCHANGED <<starting, engine, born>>

prepare_delete(ids) ==
    /\ Reserved
    /\ Request("targets", [kind |-> "read", live |-> TRUE], [selected |-> ids])
    /\ UNCHANGED <<starting, engine, born>>

\* The reader's deadline passes or its client leaves: the future is dropped.
ReadAbandoned ==
    /\ op \in {"query", "targets"} /\ reply = "none" /\ Fault
    /\ queue' = [queue EXCEPT ![Len(queue)] = [kind |-> "read", live |-> FALSE]]
    /\ Return
    /\ UNCHANGED <<engine, thread, admission, running, born, shown, deleted>>

\* The handler returns an answer and changes nothing more.
Answered ==
    /\ op \in {"settings", "query"} /\ reply # "none"
    /\ Return
    /\ UNCHANGED <<ending, engine, queue, born, shown, deleted>>

\* The confirmation lists the retained rows and the live notifications selected.
Listed == {p \in Positions(db.rows) \cup Live : p[1] \in arg.selected}
Pending == Without(tickets, {t \in DOMAIN tickets : ~tickets[t].live})

TicketIssued(t) ==
    /\ op = "targets" /\ reply = "ok" /\ Listed # {} /\ t \notin DOMAIN Pending
    /\ tickets' = With(Pending, t, [live |-> TRUE, positions |-> Listed])
    /\ Return
    /\ UNCHANGED <<ending, active, routes, nextId, dnd, queue, born, shown, deleted>>

NoTicket ==
    /\ op = "targets"
    /\ reply = "error" \/ (reply = "ok" /\ (Listed = {} \/ DOMAIN Pending = Tokens))
    /\ tickets' = IF reply = "ok" /\ Listed # {} THEN Pending ELSE tickets
    /\ Return
    /\ UNCHANGED <<ending, active, routes, nextId, dnd, queue, born, shown, deleted>>

\* Only the data lock is taken, which a once request holds while it waits.
cancel_delete(t) ==
    /\ running /\ op # "once" /\ t \in DOMAIN tickets
    /\ tickets' = Without(tickets, {t})
    /\ UNCHANGED <<plain, active, routes, nextId, dnd, queue, born>>

\* delete_confirmed: the ticket is used up first; an expired one ends there.
delete_confirmed(t) ==
    /\ Reserved /\ t \in DOMAIN tickets
    /\ tickets' = Without(tickets, {t})
    /\ IF tickets[t].live
         THEN Request("delete", [kind |-> "delete", positions |-> tickets[t].positions],
                      [positions |-> tickets[t].positions])
         ELSE UNCHANGED <<handler, queue>>
    /\ UNCHANGED <<starting, active, routes, nextId, dnd, born>>

\* Mutant: only the rows go, the live notification stays.
MutDeleted ==
    /\ op = "delete" /\ reply = "ok"
    /\ deleted' = deleted \cup arg.positions
    /\ Return
    /\ UNCHANGED <<ending, engine, queue, born, shown>>

\* Rows first, then the live notifications of the same positions.
Deleted ==
    /\ op = "delete" /\ reply = "ok"
    /\ Forget({i \in DOMAIN active : Position(active[i]) \in arg.positions})
    /\ deleted' = deleted \cup arg.positions
    /\ Return
    /\ UNCHANGED <<ending, nextId, dnd, tickets, queue, born, shown>>

NotDeleted ==
    /\ op = "delete" /\ reply = "error"
    /\ Return
    /\ UNCHANGED <<ending, engine, queue, born, shown, deleted>>

shutdown ==
    /\ Reserved
    /\ Request("shutdown", [kind |-> "shutdown"], None)
    /\ UNCHANGED <<starting, engine, born>>

-----------------------------------------------------------------------------
(* The persistence thread: one command after the other *)

First(kind) == queue # <<>> /\ Head(queue).kind = kind

Raised(new) == IF new.cutoff > aged THEN new.cutoff ELSE aged

\* begin and finish: the transaction commits,
Committed(new) ==
    /\ ~blocked /\ db' = new /\ aged' = Raised(new)
    /\ UNCHANGED <<blocked, faults>>

\* or is refused, is rolled back, or ends unknown: then the store is fenced.
NotCommitted(new) ==
    \/ blocked /\ UNCHANGED <<db, aged, blocked, faults>>
    \/ ~blocked /\ Fault /\ blocked' \in BOOLEAN /\ UNCHANGED <<db, aged>>
    \/ ~blocked /\ Fault /\ blocked' = TRUE /\ db' = new /\ aged' = Raised(new)

\* apply_mutations: each mutation is a transaction; one that fails is skipped,
\* and the error sticks.
ApplyMutation ==
    /\ First("batch") /\ Head(queue).rest # <<>>
    /\ LET new == apply(db, Head(Head(queue).rest)) IN
       \/ Committed(new) /\ UNCHANGED historyError
       \/ NotCommitted(new) /\ historyError' = TRUE
    /\ queue' = [queue EXCEPT ![1] = [kind |-> "batch", rest |-> Tail(@.rest)]]
    /\ UNCHANGED <<engine, handler, admission, running, born, shown, deleted>>

PruneAfterBatch ==
    /\ First("batch") /\ Head(queue).rest = <<>>
    /\ \/ Committed(prune_inner(db)) /\ UNCHANGED historyError
       \/ NotCommitted(prune_inner(db)) /\ historyError' = TRUE
    /\ queue' = Tail(queue)
    /\ UNCHANGED <<engine, handler, admission, running, born, shown, deleted>>

\* What a write request does to the database.
Written(c) ==
    CASE c.kind = "once"     -> save_once(db, c.key, c.note)
      [] c.kind = "settings" -> prune_inner([db EXCEPT !.cutoff = c.cutoff])
      [] c.kind = "delete"   -> delete_rows(db, c.positions)
      [] c.kind = "prune"    -> prune_inner(db)

\* reply: a write is refused once the history is stale, and runs otherwise.
ServeWrite ==
    /\ \E kind \in {"once", "settings", "delete", "prune"} : First(kind)
    /\ LET c == Head(queue) IN
       \/ historyError /\ reply' = "error" /\ UNCHANGED <<db, aged, blocked, faults>>
       \/ /\ ~historyError /\ Committed(Written(c))
          /\ reply' = IF c.kind = "once" /\ c.key \in db.once THEN "known" ELSE "ok"
       \/ ~historyError /\ NotCommitted(Written(c)) /\ reply' = "error"
    /\ queue' = Tail(queue)
    /\ UNCHANGED <<engine, op, arg, historyError, admission, running, born, shown, deleted>>

\* Mutant: a stale history is read all the same.
MutServeRead ==
    /\ First("read")
    /\ \/ ~Head(queue).live /\ UNCHANGED <<reply, faults>>
       \/ /\ Head(queue).live
          /\ reply' = IF blocked THEN "error" ELSE "ok"
          /\ UNCHANGED faults
    /\ queue' = Tail(queue)
    /\ UNCHANGED <<engine, op, arg, thread, admission, running, born, shown, deleted>>

\* A read whose waiter has gone is dropped.
ServeRead ==
    /\ First("read")
    /\ \/ ~Head(queue).live /\ UNCHANGED <<reply, faults>>
       \/ /\ Head(queue).live
          /\ reply' = IF historyError \/ blocked THEN "error" ELSE "ok"
          /\ UNCHANGED faults
       \/ Head(queue).live /\ Fault /\ reply' = "error"
    /\ queue' = Tail(queue)
    /\ UNCHANGED <<engine, op, arg, thread, admission, running, born, shown, deleted>>

\* Mutant: what waits in front of the shutdown is dropped.
MutServeShutdown ==
    /\ queue # <<>> /\ queue[Len(queue)].kind = "shutdown"
    /\ admission' = FALSE /\ queue' = <<>>
    /\ UNCHANGED <<engine, handler, thread, running, born, shown, deleted, faults>>

\* Shutdown closes the channel; what was accepted before is still executed.
ServeShutdown ==
    /\ First("shutdown")
    /\ admission' = FALSE /\ queue' = Tail(queue)
    /\ UNCHANGED <<engine, handler, thread, running, born, shown, deleted, faults>>

\* Mutant: a failed checkpoint is repeated until it succeeds.
MutDrained ==
    /\ running /\ ~admission /\ queue = <<>> /\ reply = "none"
    /\ reply' = (IF historyError \/ blocked THEN reply ELSE "ok") /\ UNCHANGED faults
    /\ UNCHANGED <<engine, op, arg, thread, queue, admission, running, born, shown, deleted>>

\* Then the thread checkpoints and acknowledges.
Drained ==
    /\ running /\ ~admission /\ queue = <<>> /\ reply = "none"
    /\ \/ reply' = (IF historyError \/ blocked THEN "error" ELSE "ok") /\ UNCHANGED faults
       \/ reply' = "error" /\ Fault
    /\ UNCHANGED <<engine, op, arg, thread, queue, admission, running, born, shown, deleted>>

-----------------------------------------------------------------------------
(* The end of a process and the start of the next *)

Down ==
    /\ active' = NoEntries /\ routes' = NoEntries /\ nextId' = 0 /\ dnd' = "off"
    /\ tickets' = NoEntries
    /\ op' = "none" /\ arg' = None /\ reply' = "none"
    /\ queue' = <<>> /\ admission' = FALSE /\ historyError' = FALSE /\ blocked' = FALSE
    /\ running' = FALSE
    /\ UNCHANGED <<db, aged, born, shown, deleted>>

Exit == op = "shutdown" /\ reply # "none" /\ Down /\ UNCHANGED faults

Crash == running /\ Fault /\ Down

\* open and build: conversations do not survive, the identifier counter does.
Restart ==
    /\ ~running /\ running' = TRUE /\ admission' = TRUE
    /\ db' = prune_inner(apply(db, Cleared))
    /\ nextId' = db.lastId
    /\ \/ dnd' = db.dnd /\ UNCHANGED queue
       \/ db.dnd = "timed" /\ dnd' = "off" /\ Enqueue(<<DndSet("off")>>)
    /\ UNCHANGED <<active, routes, tickets, handler, historyError, blocked, aged,
                   born, shown, deleted, faults>>

\* Time: a deadline passes, a confirmation expires, or the oldest kept day ends.
Expires(id) ==
    /\ id \in DOMAIN active /\ active[id].expires = "set" /\ active[id].snoozed # "set"
    /\ LET n == active[id] IN
       active' = With(active, id, Renewed(n, n.transient, "due", n.snoozed, n.key))
    /\ UNCHANGED <<plain, routes, nextId, dnd, tickets, queue, born>>

Wakes(id) ==
    /\ id \in DOMAIN active /\ active[id].snoozed = "set"
    /\ LET n == active[id] IN
       active' = With(active, id, Renewed(n, n.transient, n.expires, "due", n.key))
    /\ UNCHANGED <<plain, routes, nextId, dnd, tickets, queue, born>>

DndEnds ==
    /\ dnd = "timed" /\ dnd' = "due"
    /\ UNCHANGED <<plain, active, routes, nextId, tickets, queue, born>>

TicketExpires(t) ==
    /\ t \in DOMAIN tickets /\ tickets[t].live
    /\ tickets' = [tickets EXCEPT ![t].live = FALSE]
    /\ UNCHANGED <<plain, active, routes, nextId, dnd, queue, born>>

DayEnds ==
    /\ db.cutoff < born
    /\ db' = [db EXCEPT !.cutoff = @ + 1] /\ aged' = Raised(db')
    /\ UNCHANGED <<engine, handler, historyError, blocked, queue, admission, running,
                   born, shown, deleted, faults>>

-----------------------------------------------------------------------------

Enqueuing ==
    \/ \E transient \in BOOLEAN, expires \in Timeouts :
          Notify(transient, expires) \/ \E id \in Ids : Replace(id, transient, expires)
    \/ \E id \in Ids : Close(id) \/ snooze(id)
    \/ clear \/ \E ids \in Selections : clear_group(ids)
    \/ \E d \in DndModes : set_dnd(d)

Requesting ==
    \/ expire_prune \/ query_history \/ shutdown
    \/ \E k \in Keys : notify_update_once(k)
    \/ \E cutoff \in {0, born} : set_settings(cutoff)
    \/ \E ids \in Selections : prepare_delete(ids)
    \/ \E t \in Tokens : delete_confirmed(t)

Finishing ==
    \/ expire_pruned \/ OnceSaved \/ OnceNotShown \/ Answered
    \/ \E t \in Tokens : TicketIssued(t)
    \/ NoTicket \/ Deleted \/ NotDeleted

Worker ==
    \/ ApplyMutation \/ PruneAfterBatch \/ ServeWrite \/ ServeRead
    \/ ServeShutdown \/ Drained

Time ==
    \/ \E id \in Ids : Expires(id) \/ Wakes(id)
    \/ DndEnds \/ DayEnds \/ \E t \in Tokens : TicketExpires(t)

Next ==
    \/ Enqueuing \/ expire_due \/ Requesting \/ Finishing
    \/ \E t \in Tokens : cancel_delete(t)
    \/ ReadAbandoned
    \/ Worker \/ Time
    \/ Exit \/ Crash \/ Restart

\* The thread and the tasks run; tokio's mutex and channel are first come, first
\* served, so the expiry task gets both however busy the clients are.
Fairness == WF_vars(Worker) /\ WF_vars(Finishing) /\ WF_vars(Exit) /\ SF_vars(expire_due)

Spec == Init /\ [][Next]_vars /\ Fairness

-----------------------------------------------------------------------------
(* Properties *)

\* The store behind a batch, and behind everything that is queued.
Replay(store, batch) ==
    LET after[k \in 0..Len(batch)] == IF k = 0 THEN store ELSE apply(after[k - 1], batch[k])
    IN  after[Len(batch)]
Replayed ==
    LET behind[i \in 0..Len(queue)] ==
            IF i = 0 THEN db
            ELSE IF queue[i].kind = "batch" THEN Replay(behind[i - 1], queue[i].rest)
            ELSE behind[i - 1]
    IN  behind[Len(queue)]

\* The rows as the engine sees them: a conversation is open exactly when its
\* notification is live and not transient; only a row past the history duration
\* may be missing.
Agrees(rows) ==
    /\ OpenPositions(rows) \subseteq Persistent
    /\ \A p \in Persistent : p \in OpenPositions(rows) \/ p[2] <= aged

\* Behind the queued batches the database agrees with the engine: whatever was
\* evicted, replaced, expired, snoozed, closed or deleted was enqueued too, in
\* this order (engine.rs, PendingWrites).  A once-only row whose answer is on its
\* way, and positions being deleted, are between the two.
CatalogAgrees ==
    running /\ ~historyError /\ ~blocked /\ op \notin {"once", "delete"} =>
        Agrees(Replayed.rows)

\* A page that is handed out never leads or trails the engine it is overlaid
\* with: every accepted write has been applied, or the read fails
\* (engine.rs, query_history; persistence.rs, "Once stale, never label storage
\* with a newer engine revision").
PageAgrees == op \in {"query", "targets"} /\ reply = "ok" => Agrees(db.rows)

\* As long as the counter has not wrapped, no two records in the archive share
\* an identifier, whatever crashed in between (storage_state.rs, remember_id).
ArchiveIdsDistinct ==
    MaxBorn < MaxId =>
        \A i, j \in DOMAIN db.rows : db.rows[i].id = db.rows[j].id => i = j

\* The archive is what the engine takes it for, through dropped handlers, failed
\* and unconfirmed writes and crashes: once everything accepted is written, and
\* in every page handed out, it holds the engine's records, one per identifier
\* (engine.rs, query_history; persistence.rs; storage_state.rs, remember_id).
ArchiveFaithful == CatalogAgrees /\ PageAgrees /\ ArchiveIdsDistinct

\* A deletion that was confirmed to the client is final: no later save, replay
\* or restart brings the record back (engine.rs, delete_confirmed).
DeletedStaysDeleted == \A p \in deleted : p \notin Positions(db.rows) \cup Live

\* "Internal routes have exactly the same lifetime as their active notification"
\* (engine.rs, update_targets): no route outlives its content.
RoutesLive == \A i \in DOMAIN routes : i \in DOMAIN active /\ active[i].key = routes[i]

\* A once-only notification is shown at most once, across retries, unknown
\* commits, crashes and restarts (engine.rs, notify_update_once).
OnceShownOnce == \A k \in Keys : shown[k] <= 1

\* An acknowledged shutdown has executed everything that was accepted: rows and
\* DND on disk are those of the engine (persistence.rs, persistence_worker).
ShutdownDrained ==
    op = "shutdown" /\ reply = "ok" =>
        Agrees(db.rows) /\ db.dnd = (IF dnd = "due" THEN "timed" ELSE dnd)

\* A notification whose time has come is closed, however busy the mutex and the
\* queue are (engine.rs, expire_due).
ExpiryHappens == \A i \in Ids : i \in Expired ~> i \notin Expired

\* Every handler that waits for the thread returns: the slot it holds, the
\* requests before it and the mutex never wait for each other (persistence.rs).
HandlersEnd == op # "none" ~> op = "none"
=============================================================================
