------------------------- MODULE NotificationsProofs -------------------------
(***************************************************************************)
(* For every number of identifiers, notifications, keys and faults and     *)
(* every queue capacity: the six safety properties of Notifications.  Four *)
(* invariants carry them, each resting on the ones before it.              *)
(*                                                                         *)
(*   OnceInv    relates engine, queue and database for once-only requests: *)
(*              a shown key is on disk; a request is queued only while its *)
(*              handler waits; an acknowledged one is not yet shown.       *)
(*   DataInv    types, limits, and positions: what a row, a queued write,  *)
(*              a page or a live record names was once issued, and what is *)
(*              deleted is named by nothing that could write it again.     *)
(*   MatchInv   what the database will hold behind the queued batches is   *)
(*              what the engine holds.  The claims a batch makes (this id  *)
(*              is open with this record, that one is not) are followed    *)
(*              through the queue; the last claim about an identifier is   *)
(*              the engine's.  LedgerInv is what the steps rely on besides.*)
(*   IdsInv     until the counter wraps, an identifier in use or still to  *)
(*              be saved has no closed record, an unissued one none.       *)
(***************************************************************************)
EXTENDS Notifications, FiniteSetTheorems, SequenceTheorems, TLAPS

-----------------------------------------------------------------------------
(* Routes *)

\* The shape of the routes is all that matters: a route that remains has its
\* notification, with the same content key.
LEMMA KeptRoutes ==
  ASSUME RoutesLive, DOMAIN routes' \subseteq DOMAIN routes,
         \A i \in DOMAIN routes' : /\ routes'[i] = routes[i]
                                  /\ i \in DOMAIN active'
                                  /\ active'[i].key = active[i].key
  PROVE  RoutesLive'
BY DEF RoutesLive

LEMMA RenewedFields == \A n, t, e, s, k : Renewed(n, t, e, s, k).key = k
BY DEF Renewed

\* Forgetting identifiers forgets their routes.
LEMMA ForgetRoutes == ASSUME RoutesLive, NEW K, Forget(K) PROVE RoutesLive'
<1>1. DOMAIN routes' = DOMAIN routes \ K /\ DOMAIN active' = DOMAIN active \ K
  BY DEF Forget, Without
<1>2. \A i \in DOMAIN routes' : routes'[i] = routes[i]
  BY DEF Forget, Without
<1>3. \A i \in DOMAIN active' : active'[i] = active[i]
  BY DEF Forget, Without
<1>4. DOMAIN routes \subseteq DOMAIN active
  BY DEF RoutesLive
<1> QED
  BY <1>1, <1>2, <1>3, <1>4, KeptRoutes

\* A notification that keeps its content keeps its route.
LEMMA RenewRoutes ==
  ASSUME RoutesLive, NEW id, id \in DOMAIN active, NEW n, n.key = active[id].key,
         active' = With(active, id, n), routes' = routes
  PROVE  RoutesLive'
<1>1. DOMAIN active' = DOMAIN active /\ \A i \in DOMAIN active : active'[i].key = active[i].key
  BY DEF With
<1>2. DOMAIN routes \subseteq DOMAIN active
  BY DEF RoutesLive
<1> QED
  BY <1>1, <1>2, KeptRoutes

LEMMA ExpireRoutes == ASSUME RoutesLive, expire PROVE RoutesLive'
<1> DEFINE wake(n) == Renewed(n, n.transient, n.expires,
                              IF n.snoozed = "due" THEN "no" ELSE n.snoozed, n.key)
           awake == [i \in DOMAIN active |-> wake(active[i])]
<1>1. active' = Without(awake, Expired) /\ routes' = Without(routes, Expired)
  BY DEF expire
<1>2. DOMAIN awake = DOMAIN active /\ \A i \in DOMAIN active : awake[i].key = active[i].key
  BY RenewedFields
<1> HIDE DEF awake
<1>3. /\ DOMAIN routes' = DOMAIN routes \ Expired /\ DOMAIN active' = DOMAIN active \ Expired
      /\ \A i \in DOMAIN routes' : routes'[i] = routes[i]
  BY <1>1, <1>2 DEF Without
<1>4. \A i \in DOMAIN active' : active'[i].key = active[i].key
  BY <1>1, <1>2 DEF Without
<1>5. DOMAIN routes \subseteq DOMAIN active
  BY DEF RoutesLive
<1> QED
  BY <1>3, <1>4, <1>5, KeptRoutes

LEMMA EnqueuingRoutes == ASSUME RoutesLive, Enqueuing PROVE RoutesLive'
<1>1. ASSUME NEW t \in BOOLEAN, NEW e \in Timeouts, Notify(t, e) PROVE RoutesLive'
  <2>1. PICK n : /\ active' = With(Without(active, Evicted), n.id, n)
                 /\ routes' = Without(routes, Evicted \cup {n.id})
    BY <1>1 DEF Notify
  <2>2. /\ DOMAIN routes' = DOMAIN routes \ (Evicted \cup {n.id})
        /\ \A i \in DOMAIN routes' : routes'[i] = routes[i]
    BY <2>1 DEF Without
  <2>3. /\ DOMAIN active' = (DOMAIN active \ Evicted) \cup {n.id}
        /\ \A i \in DOMAIN active \ Evicted : i # n.id => active'[i] = active[i]
    BY <2>1 DEF With, Without
  <2>4. DOMAIN routes \subseteq DOMAIN active
    BY DEF RoutesLive
  <2> QED
    BY <2>2, <2>3, <2>4, KeptRoutes
<1>2. ASSUME NEW t \in BOOLEAN, NEW e \in Timeouts, NEW id \in Ids, Replace(id, t, e) PROVE RoutesLive'
  <2>1. PICK n : active' = With(active, id, n) /\ routes' = Without(routes, {id})
    BY <1>2 DEF Replace
  <2>2. /\ DOMAIN routes' = DOMAIN routes \ {id}
        /\ \A i \in DOMAIN routes' : routes'[i] = routes[i]
    BY <2>1 DEF Without
  <2>3. /\ DOMAIN active' = DOMAIN active \cup {id}
        /\ \A i \in DOMAIN active : i # id => active'[i] = active[i]
    BY <2>1 DEF With
  <2>4. DOMAIN routes \subseteq DOMAIN active
    BY DEF RoutesLive
  <2> QED
    BY <2>2, <2>3, <2>4, KeptRoutes
<1>3. ASSUME NEW id \in Ids, Close(id) PROVE RoutesLive'
  BY <1>3, ForgetRoutes DEF Close
<1>4. ASSUME NEW id \in Ids, snooze(id) PROVE RoutesLive'
  <2>1. PICK n : n.key = active[id].key /\ active' = With(active, id, n)
    BY <1>4, RenewedFields DEF snooze
  <2> QED
    BY <1>4, <2>1, RenewRoutes DEF snooze
<1>5. CASE clear
  BY <1>5, ForgetRoutes DEF clear
<1>6. ASSUME NEW ids \in Selections, clear_group(ids) PROVE RoutesLive'
  BY <1>6, ForgetRoutes DEF clear_group
<1>7. ASSUME NEW d \in DndModes, set_dnd(d) PROVE RoutesLive'
  BY <1>7 DEF set_dnd, RoutesLive
<1> QED
  BY <1>1, <1>2, <1>3, <1>4, <1>5, <1>6, <1>7 DEF Enqueuing

LEMMA FinishingRoutes == ASSUME RoutesLive, Finishing PROVE RoutesLive'
<1>1. CASE expire_pruned
  BY <1>1, ExpireRoutes DEF expire_pruned
<1>2. CASE OnceSaved
  <2>1. /\ active' = With(Without(active, Evicted), arg.id, arg)
        /\ routes' = With(Without(routes, Evicted), arg.id, arg.key)
    BY <1>2 DEF OnceSaved
  <2>2. /\ DOMAIN routes' = (DOMAIN routes \ Evicted) \cup {arg.id}
        /\ routes'[arg.id] = arg.key
        /\ \A i \in DOMAIN routes \ Evicted : i # arg.id => routes'[i] = routes[i]
    BY <2>1 DEF With, Without
  <2>3. /\ DOMAIN active' = (DOMAIN active \ Evicted) \cup {arg.id}
        /\ active'[arg.id] = arg
        /\ \A i \in DOMAIN active \ Evicted : i # arg.id => active'[i] = active[i]
    BY <2>1 DEF With, Without
  <2> QED
    BY <2>2, <2>3 DEF RoutesLive
<1>3. CASE Deleted
  BY <1>3, ForgetRoutes DEF Deleted
<1>4. CASE OnceNotShown \/ Answered \/ NoTicket \/ NotDeleted \/ \E t \in Tokens : TicketIssued(t)
  BY <1>4 DEF OnceNotShown, Answered, NoTicket, NotDeleted, TicketIssued, engine, RoutesLive
<1> QED
  BY <1>1, <1>2, <1>3, <1>4 DEF Finishing

\* What an update notification opens has exactly the lifetime of its content:
\* replacing, evicting, closing, expiring, deleting or restarting takes the
\* route away (engine.rs, EngineData::remove and upsert).
THEOREM RoutesStayLive == Spec => []RoutesLive
<1>1. Init => RoutesLive
  BY DEF Init, NoEntries, RoutesLive
<1>2. RoutesLive /\ [Next]_vars => RoutesLive'
  <2> SUFFICES ASSUME RoutesLive, [Next]_vars PROVE RoutesLive'
    OBVIOUS
  <2>1. CASE expire_due
    BY <2>1, ExpireRoutes DEF expire_due
  <2>2. CASE Requesting \/ ReadAbandoned \/ \E t \in Tokens : cancel_delete(t)
    BY <2>2 DEF Requesting, expire_prune, query_history, shutdown, notify_update_once, set_settings,
                prepare_delete, delete_confirmed, ReadAbandoned, cancel_delete, engine, RoutesLive
  <2>3. CASE Worker
    BY <2>3 DEF Worker, ApplyMutation, PruneAfterBatch, ServeWrite, ServeRead, ServeShutdown, Drained,
                engine, RoutesLive
  <2>4. ASSUME NEW id \in Ids, Expires(id) \/ Wakes(id) PROVE RoutesLive'
    <3>1. PICK n : n.key = active[id].key /\ active' = With(active, id, n)
      BY <2>4, RenewedFields DEF Expires, Wakes
    <3> QED
      BY <2>4, <3>1, RenewRoutes DEF Expires, Wakes
  <2>5. CASE DndEnds \/ DayEnds \/ \E t \in Tokens : TicketExpires(t)
    BY <2>5 DEF DndEnds, DayEnds, TicketExpires, engine, RoutesLive
  <2>6. CASE Exit \/ Crash
    BY <2>6 DEF Exit, Crash, Down, NoEntries, RoutesLive
  <2>7. CASE Restart \/ UNCHANGED vars
    BY <2>7 DEF Restart, vars, engine, RoutesLive
  <2> QED
    BY <2>1, <2>2, <2>3, <2>4, <2>5, <2>6, <2>7, EnqueuingRoutes, FinishingRoutes DEF Next, Time
<1> QED
  BY <1>1, <1>2, PTL DEF Spec

-----------------------------------------------------------------------------
(* Once-only notifications *)

\* The handlers that may wait for the answer to a command.
Waiters(c) ==
  CASE c.kind = "once"     -> {"once"}
    [] c.kind = "settings" -> {"settings"}
    [] c.kind = "delete"   -> {"delete"}
    [] c.kind = "prune"    -> {"expiry"}
    [] c.kind = "shutdown" -> {"shutdown"}
    [] OTHER               -> {"query", "targets"}

\* Nobody waits for a batch or for a read that was abandoned.
Unanswered(c) == c.kind = "batch" \/ (c.kind = "read" /\ ~c.live)

\* A command that is answered is the last one, and its handler waits.
QueueInv ==
  /\ \E S : queue \in Seq(S)
  /\ \A i \in 1..Len(queue) :
        \/ Unanswered(queue[i])
        \/ /\ i = Len(queue) /\ reply = "none" /\ op \in Waiters(queue[i])
           /\ queue[i].kind = "once" => queue[i].key = arg.key

\* An acknowledged handler holds a key that is on disk and was not shown yet.
HandlerInv ==
  /\ op = "once" => arg.key \in Keys
  /\ op = "once" /\ reply = "ok" => arg.key \in db.once /\ shown[arg.key] = 0
  /\ running /\ ~admission => op = "shutdown"
  /\ ~running => op = "none"

\* A key that was shown is on disk.
ShownInv ==
  /\ shown \in [Keys -> {0, 1}] /\ "once" \in DOMAIN db
  /\ \A k \in Keys : shown[k] = 1 => k \in db.once

OnceInv == QueueInv /\ HandlerInv /\ ShownInv

\* The database never forgets a key.
Keeps(new) == "once" \in DOMAIN new /\ db.once \subseteq new.once

LEMMA PruneKeeps == ASSUME NEW d, "once" \in DOMAIN d
                    PROVE  "once" \in DOMAIN prune_inner(d) /\ prune_inner(d).once = d.once
BY DEF prune_inner

LEMMA SaveKeeps == ASSUME NEW d, "once" \in DOMAIN d, NEW n
                   PROVE  "once" \in DOMAIN save_inner(d, n) /\ save_inner(d, n).once = d.once
BY DEF save_inner, remember_id

LEMMA ApplyKeeps == ASSUME NEW d, "once" \in DOMAIN d, NEW m
                    PROVE  "once" \in DOMAIN apply(d, m) /\ apply(d, m).once = d.once
BY SaveKeeps DEF apply, close_inner

LEMMA SaveOnceKeeps ==
  ASSUME NEW d, "once" \in DOMAIN d, NEW k, NEW n
  PROVE  "once" \in DOMAIN save_once(d, k, n) /\ save_once(d, k, n).once = d.once \cup {k}
<1>1. CASE k \in d.once
  BY <1>1, PruneKeeps DEF save_once
<1>2. CASE k \notin d.once
  <2> DEFINE e == [d EXCEPT !.once = @ \cup {k}]
  <2>1. "once" \in DOMAIN e /\ e.once = d.once \cup {k}
    OBVIOUS
  <2>2. save_once(d, k, n) = prune_inner(save_inner(e, n))
    BY <1>2 DEF save_once
  <2> HIDE DEF e
  <2> QED
    BY <2>1, <2>2, SaveKeeps, PruneKeeps
<1> QED
  BY <1>1, <1>2

\* Adding a batch, or the request of a handler that starts.
LEMMA EnqueueQueue ==
  ASSUME QueueInv, NEW batch, Enqueue(batch),
         \/ op = "none" \/ reply # "none"
  PROVE  QueueInv'
<1>1. PICK S : queue \in Seq(S)
  BY DEF QueueInv
<1>2. \A i \in 1..Len(queue) : Unanswered(queue[i])
  BY DEF QueueInv, Waiters
<1>3. CASE queue' = queue
  BY <1>1, <1>2, <1>3 DEF QueueInv
<1>4. CASE queue' = Append(queue, [kind |-> "batch", rest |-> batch])
  <2> DEFINE c == [kind |-> "batch", rest |-> batch]
  <2>1. Unanswered(c)
    BY DEF Unanswered
  <2> HIDE DEF c
  <2>2. queue \in Seq(S \cup {c}) /\ queue' = Append(queue, c)
    BY <1>1, <1>4 DEF c
  <2>3. /\ queue' \in Seq(S \cup {c}) /\ Len(queue') = Len(queue) + 1
        /\ \A i \in 1..Len(queue) : queue'[i] = queue[i]
        /\ queue'[Len(queue) + 1] = c
    BY <2>2
  <2>4. \A i \in 1..Len(queue') : Unanswered(queue'[i])
    BY <1>1, <1>2, <2>1, <2>3
  <2> QED
    BY <2>3, <2>4 DEF QueueInv
<1> QED
  BY <1>3, <1>4 DEF Enqueue

LEMMA RequestQueue ==
  ASSUME QueueInv, op = "none", NEW what, NEW c, NEW data, Request(what, c, data),
         what \in Waiters(c), c.kind = "once" => c.key = data.key
  PROVE  QueueInv'
<1>1. PICK S : queue \in Seq(S)
  BY DEF QueueInv
<1>2. \A i \in 1..Len(queue) : Unanswered(queue[i])
  BY DEF QueueInv, Waiters
<1>3. queue \in Seq(S \cup {c}) /\ queue' = Append(queue, c)
  BY <1>1 DEF Request
<1>4. /\ queue' \in Seq(S \cup {c}) /\ Len(queue') = Len(queue) + 1
      /\ \A i \in 1..Len(queue) : queue'[i] = queue[i]
      /\ queue'[Len(queue) + 1] = c
  BY <1>3
<1>5. reply' = "none" /\ op' = what /\ arg' = data
  BY DEF Request
<1>6. ASSUME NEW i \in 1..Len(queue')
      PROVE  \/ Unanswered(queue'[i])
             \/ i = Len(queue') /\ queue'[i] = c
  <2> DEFINE m == Len(queue)
  <2>1. m \in Nat /\ i \in 1..(m + 1)
    <3>1. Len(queue') = m + 1
      BY <1>4
    <3> QED
      BY <1>1, <3>1
  <2>2. CASE i = Len(queue) + 1
    BY <1>4, <2>2
  <2>3. CASE i # Len(queue) + 1
    <3>1. i \in 1..Len(queue)
      <4>1. i # m + 1
        BY <2>3
      <4> HIDE DEF m
      <4>2. i \in 1..m
        BY <2>1, <4>1
      <4> QED
        BY <4>2 DEF m
    <3> QED
      BY <1>2, <1>4, <3>1
  <2> QED
    BY <2>2, <2>3
<1> QED
  BY <1>4, <1>5, <1>6 DEF QueueInv

\* Executing the first command.
LEMMA TailQueue ==
  ASSUME QueueInv, queue # <<>>, queue' = Tail(queue), op' = op, arg' = arg,
         reply' = reply \/ ~Unanswered(queue[1])
  PROVE  QueueInv'
<1>1. PICK S : queue \in Seq(S)
  BY DEF QueueInv
<1>2. /\ queue' \in Seq(S) /\ Len(queue') = Len(queue) - 1 /\ Len(queue) \in Nat \ {0}
      /\ \A i \in 1..Len(queue') : queue'[i] = queue[i + 1] /\ i + 1 \in 1..Len(queue)
  BY <1>1
<1>3. ASSUME NEW i \in 1..Len(queue)
      PROVE  \/ Unanswered(queue[i])
             \/ /\ i = Len(queue) /\ reply = "none" /\ op \in Waiters(queue[i])
                /\ queue[i].kind = "once" => queue[i].key = arg.key
  BY DEF QueueInv
<1>4. ASSUME NEW i \in 1..Len(queue')
      PROVE  \/ Unanswered(queue'[i])
             \/ /\ i = Len(queue') /\ reply' = "none" /\ op' \in Waiters(queue'[i])
                /\ queue'[i].kind = "once" => queue'[i].key = arg'.key
  <2>1. queue'[i] = queue[i + 1] /\ i + 1 \in 1..Len(queue) /\ i \in Nat /\ i >= 1
    BY <1>2
  <2>2. CASE reply' = reply
    <3>1. CASE Unanswered(queue[i + 1])
      BY <2>1, <3>1
    <3>2. CASE ~Unanswered(queue[i + 1])
      <4>1. /\ i + 1 = Len(queue) /\ reply = "none" /\ op \in Waiters(queue[i + 1])
            /\ queue[i + 1].kind = "once" => queue[i + 1].key = arg.key
        BY <1>3, <2>1, <3>2
      <4>2. i = Len(queue')
        BY <1>2, <2>1, <4>1
      <4> QED
        BY <2>1, <2>2, <4>1, <4>2
    <3> QED
      BY <3>1, <3>2
  <2>3. CASE ~Unanswered(queue[1])
    <3>1. Len(queue) \in Nat /\ i + 1 <= Len(queue) /\ i >= 1 /\ i \in Nat
      BY <1>2, <2>1
    <3>2. 1 \in 1..Len(queue) /\ 1 # Len(queue)
      BY <3>1
    <3> QED
      BY <1>3, <2>3, <3>2
  <2> QED
    BY <2>2, <2>3
<1> QED
  BY <1>2, <1>4 DEF QueueInv

\* Steps of the thread that leave the handler waiting.
LEMMA KeysStay ==
  ASSUME HandlerInv, ShownInv, Keeps(db'), UNCHANGED <<op, arg, reply, shown, running, admission>>
  PROVE  HandlerInv' /\ ShownInv'
BY DEF HandlerInv, ShownInv, Keeps

\* A handler of another kind is answered.
LEMMA OthersAnswered ==
  ASSUME HandlerInv, ShownInv, Keeps(db'), op # "once", UNCHANGED <<op, arg, shown, running, admission>>
  PROVE  HandlerInv' /\ ShownInv'
BY DEF HandlerInv, ShownInv, Keeps

\* A handler ends, or one that is not a once request starts.
LEMMA NothingOnce ==
  ASSUME ShownInv, op' # "once", running' => admission', ~running' => op' = "none",
         UNCHANGED <<db, shown>>
  PROVE  HandlerInv' /\ ShownInv'
BY DEF HandlerInv, ShownInv

LEMMA SameStore == ASSUME ShownInv, db' = db PROVE Keeps(db')
BY DEF ShownInv, Keeps

LEMMA EnqueuingOnce == ASSUME OnceInv, Enqueuing \/ expire_due PROVE OnceInv'
<1>1. /\ Reserved /\ UNCHANGED plain /\ \E batch : Enqueue(batch)
  <2>1. CASE Enqueuing
    BY <2>1 DEF Enqueuing, Notify, Replace, Close, snooze, clear, clear_group, set_dnd
  <2>2. CASE expire_due
    BY <2>2 DEF expire_due, expire
  <2> QED
    BY <2>1, <2>2
<1>2. UNCHANGED <<op, arg, reply, shown, running, admission>> /\ db' = db /\ op = "none"
  BY <1>1 DEF Reserved, LockFree, plain, handler, thread
<1>3. QueueInv'
  BY <1>1, <1>2, EnqueueQueue DEF OnceInv
<1>4. HandlerInv' /\ ShownInv'
  BY <1>2, SameStore, KeysStay DEF OnceInv
<1> QED
  BY <1>3, <1>4 DEF OnceInv

LEMMA RequestingOnce == ASSUME OnceInv, Requesting PROVE OnceInv'
<1> USE DEF OnceInv
<1>1. ASSUME NEW k \in Keys, notify_update_once(k) PROVE OnceInv'
  <2>1. PICK n : /\ n.key = k
                 /\ Request("once", [kind |-> "once", key |-> k, note |-> n], n)
    BY <1>1 DEF notify_update_once, Fresh
  <2>2. op = "none" /\ db' = db /\ shown' = shown /\ running' /\ admission'
    BY <1>1 DEF notify_update_once, Reserved, LockFree, Room, starting, thread
  <2>3. QueueInv'
    BY <2>1, <2>2, RequestQueue DEF Waiters
  <2>4. op' = "once" /\ arg'.key = k /\ reply' = "none"
    BY <2>1 DEF Request
  <2>5. HandlerInv' /\ ShownInv'
    BY <2>2, <2>4 DEF HandlerInv, ShownInv
  <2> QED
    BY <2>3, <2>5
<1>2. ASSUME NEW what, NEW c, NEW data, Request(what, c, data), Reserved, UNCHANGED starting,
             what # "once", what \in Waiters(c), c.kind # "once"
      PROVE  OnceInv'
  <2>1. op = "none" /\ db' = db /\ shown' = shown /\ running' /\ admission'
    BY <1>2 DEF Reserved, LockFree, Room, starting, thread
  <2>2. QueueInv'
    BY <1>2, <2>1, RequestQueue
  <2>3. op' # "once"
    BY <1>2 DEF Request
  <2> QED
    BY <2>1, <2>2, <2>3, NothingOnce
<1>3. CASE expire_prune
  BY <1>2, <1>3 DEF expire_prune, Waiters
<1>4. CASE query_history
  BY <1>2, <1>4 DEF query_history, Waiters
<1>5. CASE shutdown
  BY <1>2, <1>5 DEF shutdown, Waiters
<1>6. ASSUME NEW cutoff, set_settings(cutoff) PROVE OnceInv'
  BY <1>2, <1>6 DEF set_settings, Waiters
<1>7. ASSUME NEW ids, prepare_delete(ids) PROVE OnceInv'
  BY <1>2, <1>7 DEF prepare_delete, Waiters
<1>8. ASSUME NEW t \in Tokens, delete_confirmed(t) PROVE OnceInv'
  <2>1. CASE tickets[t].live
    BY <1>2, <1>8, <2>1 DEF delete_confirmed, Waiters
  <2>2. CASE ~tickets[t].live
    <3>1. UNCHANGED <<op, arg, reply, queue, shown, running, admission>> /\ db' = db
      BY <1>8, <2>2 DEF delete_confirmed, handler, starting, thread
    <3>2. QueueInv'
      BY <3>1 DEF QueueInv
    <3> QED
      BY <3>1, <3>2, SameStore, KeysStay
  <2> QED
    BY <2>1, <2>2
<1> QED
  BY <1>1, <1>3, <1>4, <1>5, <1>6, <1>7, <1>8 DEF Requesting

LEMMA FinishingOnce == ASSUME OnceInv, Finishing PROVE OnceInv'
<1> USE DEF OnceInv
<1>1. reply # "none" /\ op # "shutdown" /\ Return /\ UNCHANGED ending
  BY DEF Finishing, expire_pruned, OnceSaved, OnceNotShown, Answered, TicketIssued, NoTicket,
         Deleted, NotDeleted
<1>2. (queue' = queue \/ \E batch : Enqueue(batch)) => QueueInv'
  <2>1. ASSUME queue' = queue PROVE Enqueue(<<>>)
    BY <2>1 DEF Enqueue
  <2> QED
    BY <1>1, <2>1, EnqueueQueue
<1>3. CASE OnceSaved
  <2>1. QueueInv'
    BY <1>2, <1>3 DEF OnceSaved
  <2>2. arg.key \in Keys /\ arg.key \in db.once /\ shown[arg.key] = 0
    BY <1>3 DEF OnceSaved, HandlerInv
  <2>3. shown' = [shown EXCEPT ![arg.key] = 1]
    BY <1>3, <2>2 DEF OnceSaved, ShownInv
  <2>4. ShownInv'
    BY <1>1, <2>2, <2>3 DEF ShownInv, ending, thread
  <2>5. HandlerInv'
    BY <1>1 DEF HandlerInv, Return, ending
  <2> QED
    BY <2>1, <2>4, <2>5
<1>4. CASE ~OnceSaved
  <2>1. shown' = shown /\ (queue' = queue \/ \E batch : Enqueue(batch))
    BY <1>4 DEF Finishing, expire_pruned, expire, OnceNotShown, Answered, TicketIssued, NoTicket,
                Deleted, NotDeleted
  <2>2. op' = "none" /\ (running' => admission') /\ db' = db
    BY <1>1 DEF Return, ending, thread, HandlerInv
  <2> QED
    BY <1>2, <2>1, <2>2, NothingOnce
<1> QED
  BY <1>3, <1>4

\* Whatever becomes of a transaction, the keys on disk stay.
LEMMA OutcomeKeeps ==
  ASSUME ShownInv, NEW new, Keeps(new), Committed(new) \/ NotCommitted(new)
  PROVE  Keeps(db')
BY SameStore DEF Committed, NotCommitted

LEMMA ServeWriteOnce == ASSUME OnceInv, ServeWrite PROVE OnceInv'
<1> USE DEF OnceInv
<1> DEFINE c == Head(queue)
<1>1. /\ queue # <<>> /\ c = queue[1] /\ queue' = Tail(queue)
      /\ UNCHANGED <<op, arg, shown, running, admission>>
      /\ c.kind \in {"once", "settings", "delete", "prune"}
  <2>1. PICK S : queue \in Seq(S)
    BY DEF QueueInv
  <2> QED
    BY <2>1 DEF ServeWrite, First
<1>2. ~Unanswered(c)
  BY <1>1 DEF Unanswered
<1>3. QueueInv'
  BY <1>1, <1>2, TailQueue
<1>4. 1 \in 1..Len(queue)
  <2>1. PICK S : queue \in Seq(S)
    BY DEF QueueInv
  <2> QED
    BY <1>1, <2>1
<1>5. op \in Waiters(c) /\ (c.kind = "once" => c.key = arg.key)
  BY <1>1, <1>2, <1>4 DEF QueueInv
<1>6. Keeps(Written(c)) /\ (c.kind = "once" => c.key \in Written(c).once)
  <2>1. CASE c.kind = "once"
    BY <2>1, SaveOnceKeeps DEF Written, Keeps, ShownInv
  <2>2. CASE c.kind = "settings"
    <3> DEFINE e == [db EXCEPT !.cutoff = c.cutoff]
    <3>1. "once" \in DOMAIN e /\ e.once = db.once
      BY DEF ShownInv
    <3>2. Written(c) = prune_inner(e)
      BY <2>2 DEF Written
    <3> HIDE DEF e
    <3> QED
      BY <2>2, <3>1, <3>2, PruneKeeps DEF Keeps
  <2>3. CASE c.kind = "delete"
    BY <2>3 DEF Written, Keeps, ShownInv, delete_rows
  <2>4. CASE c.kind = "prune"
    BY <2>4, PruneKeeps DEF Written, Keeps, ShownInv
  <2> QED
    BY <1>1, <2>1, <2>2, <2>3, <2>4
<1>7. Keeps(db')
  <2>1. db' = db \/ Committed(Written(c)) \/ NotCommitted(Written(c))
    BY DEF ServeWrite
  <2> QED
    BY <1>6, <2>1, OutcomeKeeps, SameStore
<1>8. HandlerInv' /\ ShownInv'
  <2>1. CASE op # "once"
    BY <1>1, <1>7, <2>1, OthersAnswered
  <2>2. CASE op = "once"
    <3>1. c.kind = "once" /\ c.key = arg.key
      BY <1>1, <1>5, <2>2 DEF Waiters
    <3>2. ASSUME reply' = "ok" PROVE arg.key \in db'.once /\ shown[arg.key] = 0
      <4>1. Committed(Written(c)) /\ c.key \notin db.once
        BY <3>1, <3>2 DEF ServeWrite
      <4>2. arg.key \in db'.once
        BY <1>6, <3>1, <4>1 DEF Committed
      <4>3. arg.key \in Keys /\ shown[arg.key] # 1
        BY <2>2, <3>1, <4>1 DEF HandlerInv, ShownInv
      <4> QED
        BY <4>2, <4>3 DEF ShownInv
    <3>3. HandlerInv'
      BY <1>1, <2>2, <3>2 DEF HandlerInv
    <3>4. ShownInv'
      BY <1>1, <1>7 DEF ShownInv, Keeps
    <3> QED
      BY <3>3, <3>4
  <2> QED
    BY <2>1, <2>2
<1> QED
  BY <1>3, <1>8

LEMMA WorkerOnce == ASSUME OnceInv, Worker PROVE OnceInv'
<1> USE DEF OnceInv
<1>0. PICK S : queue \in Seq(S)
  BY DEF QueueInv
<1>1. CASE ApplyMutation
  <2> DEFINE b == [kind |-> "batch", rest |-> Tail(queue[1].rest)]
  <2>1. /\ queue # <<>> /\ queue' = [queue EXCEPT ![1] = b]
        /\ UNCHANGED <<op, arg, reply, shown, running, admission>>
    BY <1>0, <1>1 DEF ApplyMutation, First, handler
  <2>2. Unanswered(b)
    BY DEF Unanswered
  <2> HIDE DEF b
  <2>3. /\ queue' \in Seq(S \cup {b}) /\ Len(queue') = Len(queue)
        /\ \A i \in 1..Len(queue) : queue'[i] = IF i = 1 THEN b ELSE queue[i]
    BY <1>0, <2>1
  <2>4. QueueInv'
    <3>1. ASSUME NEW i \in 1..Len(queue')
          PROVE  \/ Unanswered(queue'[i])
                 \/ /\ i = Len(queue') /\ reply' = "none" /\ op' \in Waiters(queue'[i])
                    /\ queue'[i].kind = "once" => queue'[i].key = arg'.key
      <4>1. CASE i = 1
        <5>1. 1 \in DOMAIN queue
          BY <1>0, <2>1
        <5>2. queue'[i] = b
          BY <2>1, <4>1, <5>1
        <5> QED
          BY <2>2, <5>2
      <4>2. CASE i # 1
        <5>1. i \in 1..Len(queue) /\ queue'[i] = queue[i]
          BY <2>3, <4>2
        <5> QED
          BY <2>1, <2>3, <5>1 DEF QueueInv
      <4> QED
        BY <4>1, <4>2
    <3> QED
      BY <2>3, <3>1 DEF QueueInv
  <2>5. PICK new : Keeps(new) /\ (Committed(new) \/ NotCommitted(new))
    BY <1>1, ApplyKeeps DEF ApplyMutation, Keeps, ShownInv
  <2> QED
    BY <2>1, <2>4, <2>5, OutcomeKeeps, KeysStay
<1>2. CASE PruneAfterBatch
  <2>1. /\ queue # <<>> /\ queue' = Tail(queue) /\ UNCHANGED <<op, arg, reply, shown, running, admission>>
    BY <1>2 DEF PruneAfterBatch, First, handler
  <2>2. PICK new : Keeps(new) /\ (Committed(new) \/ NotCommitted(new))
    BY <1>2, PruneKeeps DEF PruneAfterBatch, Keeps, ShownInv
  <2> QED
    BY <2>1, <2>2, OutcomeKeeps, KeysStay, TailQueue
<1>3. CASE ServeRead
  <2>1. /\ queue # <<>> /\ queue[1].kind = "read" /\ queue' = Tail(queue) /\ 1 \in 1..Len(queue)
        /\ UNCHANGED <<op, arg, shown, running, admission>> /\ db' = db
    BY <1>0, <1>3 DEF ServeRead, First, thread
  <2>2. CASE Unanswered(queue[1])
    <3>1. reply' = reply
      BY <1>0, <1>3, <2>1, <2>2 DEF ServeRead, Unanswered
    <3> QED
      BY <2>1, <3>1, TailQueue, SameStore, KeysStay
  <2>3. CASE ~Unanswered(queue[1])
    <3>1. op # "once"
      BY <2>1, <2>3 DEF QueueInv, Waiters
    <3> QED
      BY <2>1, <2>3, <3>1, TailQueue, SameStore, OthersAnswered
  <2> QED
    BY <2>2, <2>3
<1>4. CASE ServeShutdown
  <2>1. /\ queue # <<>> /\ queue[1].kind = "shutdown" /\ queue' = Tail(queue) /\ 1 \in 1..Len(queue)
        /\ UNCHANGED <<op, arg, reply, shown, running>> /\ db' = db
    BY <1>0, <1>4 DEF ServeShutdown, First, handler, thread
  <2>2. op = "shutdown"
    BY <2>1 DEF QueueInv, Waiters, Unanswered
  <2> QED
    BY <2>1, <2>2, TailQueue DEF HandlerInv, ShownInv
<1>5. CASE Drained
  <2>1. op = "shutdown" /\ queue = <<>>
    BY <1>5 DEF Drained, HandlerInv
  <2>2. UNCHANGED <<op, arg, shown, running, admission, queue>> /\ db' = db
    BY <1>5 DEF Drained, thread
  <2>3. QueueInv'
    BY <1>0, <2>1, <2>2 DEF QueueInv
  <2> QED
    BY <2>1, <2>2, <2>3, SameStore, OthersAnswered
<1> QED
  BY <1>1, <1>2, <1>3, <1>4, <1>5, ServeWriteOnce DEF Worker

LEMMA AbandonedOnce == ASSUME OnceInv, ReadAbandoned PROVE OnceInv'
<1> USE DEF OnceInv
<1> DEFINE c == [kind |-> "read", live |-> FALSE]
<1>1. PICK S : queue \in Seq(S)
  BY DEF QueueInv
<1>2. /\ queue' = [queue EXCEPT ![Len(queue)] = c] /\ Return
      /\ UNCHANGED <<shown, running, admission>> /\ db' = db /\ op # "shutdown"
  BY DEF ReadAbandoned, thread
<1>3. Unanswered(c)
  BY DEF Unanswered
<1> HIDE DEF c
<1>4. /\ queue' \in Seq(S \cup {c}) /\ Len(queue') = Len(queue) /\ Len(queue) \in Nat
      /\ \A i \in 1..Len(queue) : queue'[i] = IF i = Len(queue) THEN c ELSE queue[i]
  <2>1. queue' = [i \in 1..Len(queue) |-> IF i = Len(queue) THEN c ELSE queue[i]] /\ Len(queue) \in Nat
    <3>1. DOMAIN queue = 1..Len(queue) /\ Len(queue) \in Nat
      BY <1>1
    <3>2. queue' = [i \in DOMAIN queue |-> IF i = Len(queue) THEN c ELSE queue[i]]
      BY <1>2, Zenon
    <3> QED
      BY <3>1, <3>2
  <2>2. \A i \in 1..Len(queue) : (IF i = Len(queue) THEN c ELSE queue[i]) \in S \cup {c}
    BY <1>1
  <2> QED
    BY <2>1, <2>2
<1>5. \A i \in 1..Len(queue') : Unanswered(queue'[i])
  BY <1>3, <1>4 DEF QueueInv
<1>6. QueueInv'
  BY <1>4, <1>5 DEF QueueInv
<1>7. op' = "none" /\ (running' => admission')
  BY <1>2 DEF Return, HandlerInv
<1> QED
  BY <1>2, <1>6, <1>7, NothingOnce

\* Keys, requests and showings stay as OnceInv says.
LEMMA OnceAlways == Spec => []OnceInv
<1>1. Init => OnceInv
  <2> SUFFICES ASSUME Init PROVE OnceInv
    OBVIOUS
  <2>1. queue \in Seq({}) /\ Len(queue) = 0
    BY DEF Init
  <2>2. QueueInv
    BY <2>1 DEF QueueInv
  <2>3. HandlerInv /\ ShownInv
    BY DEF Init, HandlerInv, ShownInv, EmptyStore
  <2> QED
    BY <2>2, <2>3 DEF OnceInv
<1>2. OnceInv /\ [Next]_vars => OnceInv'
  <2> SUFFICES ASSUME OnceInv, [Next]_vars PROVE OnceInv'
    OBVIOUS
  <2> USE DEF OnceInv
  <2>1. ASSUME UNCHANGED <<op, arg, reply, shown, running, admission, queue>>, Keeps(db') PROVE OnceInv'
    <3>1. QueueInv'
      BY <2>1 DEF QueueInv
    <3> QED
      BY <2>1, <3>1, KeysStay
  <2>2. CASE Time \/ (\E t \in Tokens : cancel_delete(t)) \/ UNCHANGED vars
    <3>1. UNCHANGED <<op, arg, reply, shown, running, admission, queue>>
      BY <2>2 DEF Time, Expires, Wakes, DndEnds, DayEnds, TicketExpires, cancel_delete, plain,
                  handler, vars
    <3>2. ASSUME DayEnds PROVE Keeps(db')
      <4>1. db' = [db EXCEPT !.cutoff = @ + 1]
        BY <3>2 DEF DayEnds
      <4> QED
        BY <4>1 DEF Keeps, ShownInv
    <3>3. ASSUME ~DayEnds PROVE Keeps(db')
      <4>1. db' = db
        BY <2>2, <3>3 DEF Time, Expires, Wakes, DndEnds, TicketExpires, cancel_delete, plain,
                          thread, vars
      <4> QED
        BY <4>1 DEF Keeps, ShownInv
    <3>4. Keeps(db')
      BY <3>2, <3>3
    <3> QED
      BY <2>1, <3>1, <3>4
  <2>3. CASE Exit \/ Crash
    <3>1. queue' = <<>> /\ op' = "none" /\ ~running' /\ UNCHANGED <<db, shown>>
      BY <2>3 DEF Exit, Crash, Down
    <3>2. QueueInv'
      <4>1. queue' \in Seq({}) /\ Len(queue') = 0
        BY <3>1
      <4> QED
        BY <4>1 DEF QueueInv
    <3> QED
      BY <3>1, <3>2, NothingOnce
  <2>4. CASE Restart
    <3>1. Keeps(db')
      <4>1. db' = prune_inner(apply(db, Cleared))
        BY <2>4 DEF Restart
      <4>2. "once" \in DOMAIN apply(db, Cleared) /\ apply(db, Cleared).once = db.once
        BY ApplyKeeps DEF ShownInv
      <4> QED
        BY <4>1, <4>2, PruneKeeps DEF Keeps
    <3>2. op = "none" /\ UNCHANGED <<op, arg, reply, shown>> /\ running' /\ admission'
      BY <2>4 DEF Restart, HandlerInv, handler
    <3>3. \E batch : Enqueue(batch)
      <4>1. queue' = queue => Enqueue(<<>>)
        BY DEF Enqueue
      <4> QED
        BY <2>4, <4>1 DEF Restart
    <3>4. QueueInv'
      BY <3>2, <3>3, EnqueueQueue
    <3> QED
      BY <3>1, <3>2, <3>4 DEF HandlerInv, ShownInv, Keeps
  <2> QED
    BY <2>2, <2>3, <2>4, EnqueuingOnce, RequestingOnce, FinishingOnce, WorkerOnce, AbandonedOnce DEF Next
<1> QED
  BY <1>1, <1>2, PTL DEF Spec

\* Nothing is shown before its key is durable, and a durable key is never shown
\* again: at most one showing per key, whatever fails, crashes or is retried
\* (engine.rs, notify_update_once; storage.rs, save_once).
THEOREM ShownAtMostOnce == Spec => []OnceShownOnce
<1>1. OnceInv => OnceShownOnce
  BY DEF OnceInv, ShownInv, OnceShownOnce
<1> QED
  BY <1>1, OnceAlways, PTL

-----------------------------------------------------------------------------
(* Natural numbers and finite sets of them *)

LEMMA LeastNat ==
  ASSUME NEW T, T \subseteq Nat, T # {}
  PROVE  \E x \in T : \A y \in T : x <= y
<1> DEFINE R == {p \in Nat \X Nat : p[1] < p[2]}
<1>1. IsWellFoundedOn(R, Nat)
  <2>1. OpToRel(<, Nat) = R
    BY DEF OpToRel
  <2> QED
    BY <2>1, NatLessThanWellFounded
<1>2. PICK x \in T : \A y \in T : ~ (<<y, x>> \in R)
  <2> HIDE DEF R
  <2> QED
    BY <1>1, WFMin
<1>3. ASSUME NEW y \in T PROVE x <= y
  <2>1. <<y, x>> \notin R /\ <<y, x>> \in Nat \X Nat
    BY <1>2
  <2>2. ~ (y < x)
    BY <2>1
  <2> QED
    BY <2>2
<1> QED
  BY <1>3

LEMMA SetInduction ==
  ASSUME NEW S, 0 \in S, \A n \in Nat : n \in S => n + 1 \in S
  PROVE  Nat \subseteq S
<1> DEFINE T == Nat \ S
<1> SUFFICES ASSUME T # {} PROVE FALSE
  OBVIOUS
<1>1. PICK x \in T : \A y \in T : x <= y
  <2>1. T \subseteq Nat
    OBVIOUS
  <2> HIDE DEF T
  <2> QED
    BY <2>1, LeastNat
<1>2. x # 0 /\ x - 1 \in Nat /\ x - 1 < x
  BY <1>1
<1>3. x - 1 \in S
  BY <1>1, <1>2
<1> QED
  BY <1>1, <1>2, <1>3

\* s lists S in ascending order.
Lists(s, m, S) ==
  /\ s \in [1..m -> S]
  /\ \A i, j \in 1..m : i < j => s[i] < s[j]
  /\ \A x \in S : \E i \in 1..m : s[i] = x

LEMMA Listing ==
  ASSUME NEW S
  PROVE  \A n \in Nat : \E m \in Nat : \E s : Lists(s, m, S \cap (1..n))
<1> DEFINE T == {n \in Nat : \E m \in Nat : \E s : Lists(s, m, S \cap (1..n))}
<1>1. 0 \in T
  <2>1. S \cap (1..0) = {} /\ 1..0 = {}
    OBVIOUS
  <2>2. Lists([i \in 1..0 |-> 0], 0, S \cap (1..0))
    BY <2>1 DEF Lists
  <2> QED
    BY <2>2
<1>2. ASSUME NEW n \in Nat, n \in T PROVE n + 1 \in T
  <2>0. PICK m \in Nat : \E s : Lists(s, m, S \cap (1..n))
    BY <1>2
  <2>1. PICK s : Lists(s, m, S \cap (1..n))
    BY <2>0
  <2>2. CASE n + 1 \in S
    <3> DEFINE t == [i \in 1..(m + 1) |-> IF i = m + 1 THEN n + 1 ELSE s[i]]
    <3>1. S \cap (1..(n + 1)) = (S \cap (1..n)) \cup {n + 1}
      BY <2>2
    <3>2. t \in [1..(m + 1) -> S \cap (1..(n + 1))]
      BY <2>1, <3>1 DEF Lists
    <3>3. ASSUME NEW i \in 1..(m + 1), NEW j \in 1..(m + 1), i < j PROVE t[i] < t[j]
      <4>1. i \in 1..m /\ s[i] \in 1..n
        BY <2>1, <3>3 DEF Lists
      <4>2. CASE j = m + 1
        BY <4>1, <4>2
      <4>3. CASE j # m + 1
        BY <2>1, <3>3, <4>1, <4>3 DEF Lists
      <4> QED
        BY <4>2, <4>3
    <3>4. ASSUME NEW x \in S \cap (1..(n + 1)) PROVE \E i \in 1..(m + 1) : t[i] = x
      <4>1. CASE x = n + 1
        BY <4>1
      <4>2. CASE x \in S \cap (1..n)
        <5>1. PICK i \in 1..m : s[i] = x
          BY <2>1, <4>2 DEF Lists
        <5> QED
          BY <5>1
      <4> QED
        BY <3>1, <3>4, <4>1, <4>2
    <3>5. Lists(t, m + 1, S \cap (1..(n + 1)))
      BY <3>2, <3>3, <3>4 DEF Lists
    <3> HIDE DEF t
    <3> QED
      BY <3>5
  <2>3. CASE n + 1 \notin S
    <3>1. S \cap (1..(n + 1)) = S \cap (1..n)
      BY <2>3
    <3> QED
      BY <2>1, <3>1
  <2> QED
    BY <2>2, <2>3
<1>3. Nat \subseteq T
  <2> HIDE DEF T
  <2> QED
    BY <1>1, <1>2, SetInduction
<1> QED
  BY <1>3

\* InOrder lists every bounded set.
LEMMA InOrderLists ==
  ASSUME NEW n \in Nat, NEW S, S \subseteq 1..n
  PROVE  Cardinality(S) \in Nat /\ Lists(InOrder(S), Cardinality(S), S)
<1>0. PICK m \in Nat : \E s : Lists(s, m, S)
  <2>1. S \cap (1..n) = S
    OBVIOUS
  <2> QED
    BY <2>1, Listing
<1>1. PICK s : Lists(s, m, S)
  BY <1>0
<1>2. s \in Bijection(1..m, S)
  <2>1. ASSUME NEW i \in 1..m, NEW j \in 1..m, s[i] = s[j] PROVE i = j
    <3>1. s[i] \in 1..n /\ s[j] \in 1..n
      <4>1. s \in [1..m -> S]
        BY <1>1 DEF Lists
      <4> QED
        BY <4>1
    <3>2. (i < j => s[i] < s[j]) /\ (j < i => s[j] < s[i])
      BY <1>1 DEF Lists
    <3> QED
      BY <2>1, <3>1, <3>2
  <2> QED
    BY <1>1, <2>1 DEF Lists, Bijection, Injection, Surjection, IsInjective
<1>3. Cardinality(S) = m
  BY <1>2, FS_CountingElements DEF ExistsBijection
<1> DEFINE P(t) == \A i, j \in 1..m : i < j => t[i] < t[j]
<1>4. InOrder(S) \in [1..m -> S] /\ P(InOrder(S))
  <2>1. s \in [1..m -> S] /\ P(s)
    BY <1>1 DEF Lists
  <2>2. InOrder(S) = CHOOSE t \in [1..m -> S] : P(t)
    BY <1>3 DEF InOrder
  <2> HIDE DEF P
  <2> QED
    BY <2>1, <2>2
<1>5. ASSUME NEW i \in 1..m, NEW j \in 1..m, InOrder(S)[i] = InOrder(S)[j] PROVE i = j
  <2>1. InOrder(S)[i] \in 1..n /\ InOrder(S)[j] \in 1..n
    BY <1>4
  <2>2. (i < j => InOrder(S)[i] < InOrder(S)[j]) /\ (j < i => InOrder(S)[j] < InOrder(S)[i])
    BY <1>4
  <2> QED
    BY <1>5, <2>1, <2>2
<1>6. InOrder(S) \in Injection(1..m, S)
  BY <1>4, <1>5 DEF Injection, IsInjective
<1>7. InOrder(S) \in Surjection(1..m, S)
  <2>1. IsFiniteSet(1..m) /\ Cardinality(1..m) = m
    BY FS_Interval
  <2>2. IsFiniteSet(S)
    BY <1>2, FS_NatBijection DEF ExistsBijection
  <2> QED
    BY <1>3, <1>6, <2>1, <2>2, FS_Injection
<1> QED
  BY <1>3, <1>4, <1>7 DEF Lists, Surjection

-----------------------------------------------------------------------------
(* What a transaction does to the rows *)

Row == [id : Ids, born : Stamps, open : BOOLEAN]
Store == [rows : Seq(Row), lastId : 0..MaxId, dnd : {"off", "on", "timed"},
          once : SUBSET Keys, cutoff : 0..MaxBorn]

\* A store whose rows have positions of E.
StoreWithin(d, E) == d \in Store /\ Positions(d.rows) \subseteq E

LEMMA RowsAt ==
  ASSUME NEW R, NEW rows \in Seq(R), NEW places, places \subseteq DOMAIN rows
  PROVE  /\ rows_at(rows, places) \in Seq(R)
         /\ \A k \in DOMAIN rows_at(rows, places) : \E i \in places : rows_at(rows, places)[k] = rows[i]
         /\ \A i \in places : \E k \in DOMAIN rows_at(rows, places) : rows_at(rows, places)[k] = rows[i]
<1> DEFINE m == Cardinality(places)
           f == InOrder(places)
<1>1. Len(rows) \in Nat /\ DOMAIN rows = 1..Len(rows) /\ \A i \in 1..Len(rows) : rows[i] \in R
  OBVIOUS
<1>2. m \in Nat /\ Lists(f, m, places)
  BY <1>1, InOrderLists
<1>3. rows_at(rows, places) = [k \in 1..m |-> rows[f[k]]]
  BY DEF rows_at
<1> HIDE DEF m, f
<1>4. \A k \in 1..m : f[k] \in places /\ rows[f[k]] \in R
  BY <1>1, <1>2 DEF Lists
<1>5. rows_at(rows, places) \in Seq(R) /\ DOMAIN rows_at(rows, places) = 1..m
  BY <1>2, <1>3, <1>4
<1>6. \A i \in places : \E k \in 1..m : f[k] = i
  BY <1>2 DEF Lists
<1>7. \A k \in 1..m : rows_at(rows, places)[k] = rows[f[k]]
  BY <1>3
<1> QED
  BY <1>4, <1>5, <1>6, <1>7

LEMMA RowsAtPositions ==
  ASSUME NEW rows \in Seq(Row), NEW places, places \subseteq DOMAIN rows
  PROVE  /\ rows_at(rows, places) \in Seq(Row)
         /\ Positions(rows_at(rows, places)) = {Position(rows[i]) : i \in places}
         /\ OpenPositions(rows_at(rows, places)) = {Position(rows[i]) : i \in {j \in places : rows[j].open}}
<1> DEFINE new == rows_at(rows, places)
<1>1. /\ new \in Seq(Row)
      /\ \A k \in DOMAIN new : \E i \in places : new[k] = rows[i]
      /\ \A i \in places : \E k \in DOMAIN new : new[k] = rows[i]
  BY RowsAt
<1> HIDE DEF new
<1>2. Positions(new) = {Position(rows[i]) : i \in places}
  BY <1>1 DEF Positions
<1>3. OpenPositions(new) = {Position(rows[i]) : i \in {j \in places : rows[j].open}}
  BY <1>1 DEF OpenPositions
<1> QED
  BY <1>1, <1>2, <1>3 DEF new

LEMMA RetainedRows ==
  ASSUME NEW rows \in Seq(Row), NEW cutoff
  PROVE  retained_rows(rows, cutoff) \in Seq(Row) /\ Positions(retained_rows(rows, cutoff)) \subseteq Positions(rows)
<1> DEFINE places == {i \in DOMAIN rows : /\ rows[i].born > cutoff
                                          /\ rows[i].open \/ i > Len(rows) - Scope}
<1>1. places \subseteq DOMAIN rows /\ retained_rows(rows, cutoff) = rows_at(rows, places)
  BY DEF retained_rows
<1> HIDE DEF places
<1> QED
  BY <1>1, RowsAtPositions DEF Positions

LEMMA DeleteRows ==
  ASSUME NEW rows \in Seq(Row), NEW P
  PROVE  /\ delete_where(rows, P) \in Seq(Row)
         /\ Positions(delete_where(rows, P)) = Positions(rows) \ P
<1> DEFINE places == {i \in DOMAIN rows : Position(rows[i]) \notin P}
<1>1. places \subseteq DOMAIN rows /\ delete_where(rows, P) = rows_at(rows, places)
  BY DEF delete_where
<1>2. {Position(rows[i]) : i \in places} = Positions(rows) \ P
  BY DEF Positions
<1> HIDE DEF places
<1> QED
  BY <1>1, <1>2, RowsAtPositions

LEMMA DiscardRows ==
  ASSUME NEW rows \in Seq(Row), NEW id
  PROVE  discard_open(rows, id) \in Seq(Row) /\ Positions(discard_open(rows, id)) \subseteq Positions(rows)
<1> DEFINE places == DOMAIN rows \ Conversation(rows, id)
<1>1. places \subseteq DOMAIN rows /\ discard_open(rows, id) = rows_at(rows, places)
  BY DEF discard_open
<1> HIDE DEF places
<1> QED
  BY <1>1, RowsAtPositions DEF Positions

LEMMA SaveRows ==
  ASSUME NEW rows \in Seq(Row), NEW n, n.id \in Ids, n.born \in Stamps
  PROVE  /\ save_content(rows, n) \in Seq(Row)
         /\ Positions(save_content(rows, n)) \subseteq Positions(rows) \cup {Position(n)}
<1> DEFINE found == Conversation(rows, n.id)
           row == [id |-> n.id, born |-> n.born, open |-> TRUE]
<1>1. row \in Row /\ Position(row) = Position(n)
  BY DEF Row, Position
<1>2. CASE found = {}
  <2>1. save_content(rows, n) = Append(rows, row)
    BY <1>2 DEF save_content
  <2> HIDE DEF row
  <2>2. /\ Append(rows, row) \in Seq(Row) /\ DOMAIN Append(rows, row) = 1..(Len(rows) + 1)
        /\ \A i \in 1..Len(rows) : Append(rows, row)[i] = rows[i]
        /\ Append(rows, row)[Len(rows) + 1] = row
    BY <1>1
  <2>3. DOMAIN rows = 1..Len(rows) /\ Len(rows) \in Nat
    OBVIOUS
  <2>4. ASSUME NEW i \in 1..(Len(rows) + 1)
        PROVE  Append(rows, row)[i] = row \/ \E j \in DOMAIN rows : Append(rows, row)[i] = rows[j]
    BY <2>2, <2>3
  <2> QED
    BY <1>1, <2>1, <2>2, <2>4 DEF Positions
<1>3. CASE found # {}
  <2>1. save_content(rows, n) = [i \in DOMAIN rows |-> IF i \in found THEN row ELSE rows[i]]
    BY <1>3 DEF save_content
  <2> HIDE DEF row, found
  <2>2. [i \in DOMAIN rows |-> IF i \in found THEN row ELSE rows[i]] \in Seq(Row)
    BY <1>1
  <2> QED
    BY <1>1, <2>1, <2>2 DEF Positions
<1> QED
  BY <1>2, <1>3

LEMMA CloseRows ==
  ASSUME NEW rows \in Seq(Row), NEW ids
  PROVE  close_rows(rows, ids) \in Seq(Row) /\ Positions(close_rows(rows, ids)) = Positions(rows)
<1>1. ASSUME NEW i \in DOMAIN rows
      PROVE  /\ [rows[i] EXCEPT !.open = @ /\ rows[i].id \notin ids] \in Row
             /\ Position([rows[i] EXCEPT !.open = @ /\ rows[i].id \notin ids]) = Position(rows[i])
  <2>1. rows[i] \in Row
    OBVIOUS
  <2> QED
    BY <2>1 DEF Row, Position
<1>2. DOMAIN rows = 1..Len(rows) /\ Len(rows) \in Nat
  OBVIOUS
<1>3. close_rows(rows, ids) \in Seq(Row) /\ DOMAIN close_rows(rows, ids) = DOMAIN rows
  BY <1>1, <1>2 DEF close_rows
<1>4. \A i \in DOMAIN rows : Position(close_rows(rows, ids)[i]) = Position(rows[i])
  BY <1>1 DEF close_rows
<1> QED
  BY <1>3, <1>4 DEF Positions

-----------------------------------------------------------------------------
LEMMA PruneWithin == ASSUME NEW E, NEW d, StoreWithin(d, E) PROVE StoreWithin(prune_inner(d), E)
<1>1. d.rows \in Seq(Row) /\ d \in Store
  BY DEF StoreWithin, Store
<1>2. prune_inner(d) = [d EXCEPT !.rows = retained_rows(d.rows, d.cutoff)]
  BY DEF prune_inner
<1>3. prune_inner(d) \in Store /\ prune_inner(d).rows = retained_rows(d.rows, d.cutoff)
  BY <1>1, <1>2, RetainedRows DEF Store
<1> QED
  BY <1>1, <1>3, RetainedRows DEF StoreWithin

LEMMA SaveWithin ==
  ASSUME NEW E, NEW d, StoreWithin(d, E), NEW n, n.id \in Ids, n.born \in Stamps, Position(n) \in E
  PROVE  StoreWithin(save_inner(d, n), E)
<1> DEFINE e == remember_id(d, n.id)
           new == IF n.transient THEN discard_open(d.rows, n.id) ELSE save_content(d.rows, n)
<1>1. d.rows \in Seq(Row) /\ d \in Store
  BY DEF StoreWithin, Store
<1>2. e \in Store /\ e.rows = d.rows
  BY <1>1 DEF remember_id, Store, Ids
<1>3. new \in Seq(Row) /\ Positions(new) \subseteq Positions(d.rows) \cup {Position(n)}
  BY <1>1, DiscardRows, SaveRows
<1>4. save_inner(d, n) = [e EXCEPT !.rows = new]
  BY <1>2 DEF save_inner
<1> HIDE DEF e, new
<1>5. save_inner(d, n) \in Store /\ save_inner(d, n).rows = new
  BY <1>2, <1>3, <1>4 DEF Store
<1> QED
  BY <1>3, <1>5 DEF StoreWithin

LEMMA CloseWithin ==
  ASSUME NEW E, NEW d, StoreWithin(d, E), NEW ids PROVE StoreWithin(close_inner(d, ids), E)
<1>1. d.rows \in Seq(Row) /\ d \in Store
  BY DEF StoreWithin, Store
<1>2. close_inner(d, ids) \in Store /\ close_inner(d, ids).rows = close_rows(d.rows, ids)
  BY <1>1, CloseRows DEF close_inner, Store
<1> QED
  BY <1>1, <1>2, CloseRows DEF StoreWithin

\* The mutations whose saves have positions of E.
Writes(E) ==
  {m \in [op : {"save"}, note : [id : Ids, born : Stamps, transient : BOOLEAN]] : Position(m.note) \in E}
    \cup [op : {"close"}, id : Ids] \cup [op : {"clear"}] \cup [op : {"dnd"}, dnd : {"off", "on", "timed"}]

LEMMA ApplyWithin ==
  ASSUME NEW E, NEW d, StoreWithin(d, E), NEW m \in Writes(E) PROVE StoreWithin(apply(d, m), E)
<1>1. CASE m.op = "save"
  <2>1. m.note.id \in Ids /\ m.note.born \in Stamps /\ Position(m.note) \in E
    BY <1>1 DEF Writes
  <2> QED
    BY <1>1, <2>1, SaveWithin DEF apply
<1>2. CASE m.op = "close"
  BY <1>2, CloseWithin DEF apply
<1>3. CASE m.op = "clear"
  BY <1>3, CloseWithin DEF apply
<1>4. CASE m.op = "dnd"
  <2>1. m.dnd \in {"off", "on", "timed"}
    BY <1>4 DEF Writes
  <2>2. apply(d, m) = [d EXCEPT !.dnd = m.dnd]
    BY <1>4 DEF apply
  <2> QED
    BY <2>1, <2>2 DEF StoreWithin, Store
<1> QED
  BY <1>1, <1>2, <1>3, <1>4 DEF Writes

LEMMA SaveOnceWithin ==
  ASSUME NEW E, NEW d, StoreWithin(d, E), NEW k \in Keys, NEW n, n.id \in Ids, n.born \in Stamps,
         Position(n) \in E
  PROVE  StoreWithin(save_once(d, k, n), E)
<1>1. CASE k \in d.once
  BY <1>1, PruneWithin DEF save_once
<1>2. CASE k \notin d.once
  <2> DEFINE e == [d EXCEPT !.once = @ \cup {k}]
  <2>1. StoreWithin(e, E)
    BY DEF StoreWithin, Store
  <2>2. save_once(d, k, n) = prune_inner(save_inner(e, n))
    BY <1>2 DEF save_once
  <2> HIDE DEF e
  <2> QED
    BY <2>1, <2>2, SaveWithin, PruneWithin
<1> QED
  BY <1>1, <1>2

LEMMA DeleteWithin ==
  ASSUME NEW E, NEW d, StoreWithin(d, E), NEW P
  PROVE  StoreWithin(delete_rows(d, P), E) /\ Positions(delete_rows(d, P).rows) \cap P = {}
<1>1. d.rows \in Seq(Row) /\ d \in Store
  BY DEF StoreWithin, Store
<1>2. delete_rows(d, P) \in Store /\ delete_rows(d, P).rows = delete_where(d.rows, P)
  BY <1>1, DeleteRows DEF delete_rows, Store
<1> QED
  BY <1>1, <1>2, DeleteRows DEF StoreWithin

-----------------------------------------------------------------------------
(* Identifiers *)

LEMMA Wrap ==
  ASSUME NEW M \in Nat \ {0}, NEW x \in Nat
  PROVE  /\ x % M \in 0..(M - 1)
         /\ x < M => x % M = x
         /\ x < M => (x + M) % M = x
OBVIOUS

\* With room for another notification the search of allocate_id ends.
LEMMA AllocateIds ==
  ASSUME DOMAIN active \subseteq Ids, Cardinality(DOMAIN active) <= MaxActive, nextId \in 0..MaxId
  PROVE  /\ tries \in 1..(MaxId + 1) /\ allocate_id \in Ids /\ allocate_id \notin DOMAIN active
         /\ (nextId + tries) % (MaxId + 1) \in 0..MaxId
<1>0. MaxId \in Nat /\ MaxActive \in 1..(MaxId - 1)
  BY EngineAssumption
<1>1. PICK f \in Ids : f \notin DOMAIN active
  <2>1. IsFiniteSet(Ids) /\ Cardinality(Ids) = MaxId
    BY <1>0, FS_Interval DEF Ids
  <2>2. Ids # DOMAIN active
    BY <1>0, <2>1
  <2> QED
    BY <2>2
<1> DEFINE M == MaxId + 1
<1>8. M \in Nat \ {0}
  BY <1>0
<1> DEFINE T == {k \in 1..(MaxId + 1) : candidate(k) \notin DOMAIN active}
<1>2. T # {}
  <2> DEFINE k == IF f > nextId THEN f - nextId ELSE f - nextId + (MaxId + 1)
  <2>1. k \in 1..(MaxId + 1) /\ f \in 1..MaxId
    BY <1>0 DEF Ids
  <2>2. (nextId + k) % M = f
    <3>1. f \in Nat /\ f < M /\ (nextId + k = f \/ nextId + k = f + M)
      BY <1>0, <2>1
    <3> HIDE DEF M
    <3>2. f % M = f /\ (f + M) % M = f
      BY <1>8, <3>1, Wrap
    <3> HIDE DEF k
    <3> QED
      BY <3>1, <3>2, Zenon
  <2> HIDE DEF k
  <2>3. candidate(k) = f
    BY <2>1, <2>2 DEF candidate
  <2> QED
    BY <1>1, <2>1, <2>3
<1>3. PICK k \in T : \A j \in T : k <= j
  <2>1. T \subseteq Nat
    BY <1>0
  <2> HIDE DEF T
  <2> QED
    BY <1>2, <2>1, LeastNat
<1> DEFINE P(x) == /\ candidate(x) \notin DOMAIN active
                   /\ \A j \in 1..(x - 1) : candidate(j) \in DOMAIN active
<1>4. k \in 1..(MaxId + 1) /\ P(k)
  BY <1>0, <1>3
<1>5. tries \in 1..(MaxId + 1) /\ P(tries)
  <2>1. tries = CHOOSE x \in 1..(MaxId + 1) : P(x)
    BY DEF tries
  <2> HIDE DEF P
  <2> QED
    BY <1>4, <2>1
<1>6. (nextId + tries) % (MaxId + 1) \in 0..MaxId
  <2>1. nextId + tries \in Nat /\ 0..(M - 1) = 0..MaxId
    BY <1>0, <1>5
  <2>2. (nextId + tries) % M \in 0..(M - 1)
    <3> HIDE DEF M
    <3> QED
      BY <1>8, <2>1, Wrap
  <2> QED
    BY <2>1, <2>2
<1>7. allocate_id \in Ids
  BY <1>0, <1>6 DEF allocate_id, candidate, Ids
<1> QED
  BY <1>5, <1>6, <1>7 DEF allocate_id

\* When the engine is full, the oldest notification is evicted.
LEMMA EvictedRoom ==
  ASSUME DOMAIN active \subseteq Ids, Cardinality(DOMAIN active) <= MaxActive,
         \A i \in DOMAIN active : active[i].born \in Nat
  PROVE  /\ Evicted \subseteq DOMAIN active
         /\ Cardinality(DOMAIN active \ Evicted) < MaxActive
<1>0. MaxId \in Nat /\ MaxActive \in 1..(MaxId - 1)
  BY EngineAssumption
<1>1. IsFiniteSet(DOMAIN active) /\ Cardinality(DOMAIN active) \in Nat
  <2>1. IsFiniteSet(Ids)
    BY <1>0, FS_Interval DEF Ids
  <2> QED
    BY <2>1, FS_Subset, FS_CardinalityType
<1>2. Evicted \subseteq DOMAIN active
  BY DEF Evicted
<1>3. CASE Cardinality(DOMAIN active) < MaxActive
  <2>1. Evicted = {}
    BY <1>3 DEF Evicted
  <2>2. DOMAIN active \ Evicted = DOMAIN active
    BY <2>1
  <2> QED
    BY <1>2, <1>3, <2>2
<1>4. CASE ~(Cardinality(DOMAIN active) < MaxActive)
  <2>1. Evicted = {i \in DOMAIN active : \A j \in DOMAIN active : active[i].born <= active[j].born}
    BY <1>4 DEF Evicted
  <2>2. DOMAIN active # {}
    BY <1>0, <1>4, FS_EmptySet
  <2> DEFINE T == {active[i].born : i \in DOMAIN active}
  <2>3. T \subseteq Nat /\ T # {}
    BY <2>2
  <2>4. PICK x \in T : \A y \in T : x <= y
    <3> HIDE DEF T
    <3> QED
      BY <2>3, LeastNat
  <2>5. PICK i \in DOMAIN active : active[i].born = x
    BY <2>4
  <2>6. i \in Evicted
    BY <2>1, <2>4, <2>5
  <2>7. IsFiniteSet(DOMAIN active \ {i}) /\ Cardinality(DOMAIN active \ {i}) = Cardinality(DOMAIN active) - 1
    BY <1>1, <2>5, FS_RemoveElement
  <2>8. DOMAIN active \ Evicted \in SUBSET (DOMAIN active \ {i})
    BY <2>6
  <2>9. Cardinality(DOMAIN active \ Evicted) <= Cardinality(DOMAIN active) - 1
    BY <2>7, <2>8, FS_Subset
  <2>10. Cardinality(DOMAIN active \ Evicted) \in Nat
    BY <2>7, <2>8, FS_Subset, FS_CardinalityType
  <2> QED
    BY <1>0, <1>1, <1>2, <2>9, <2>10
<1> QED
  BY <1>3, <1>4

\* The batch of a handler lists its identifiers.
LEMMA ClosesWrite ==
  ASSUME NEW E, NEW ids, ids \subseteq Ids
  PROVE  Closes(ids) \in Seq(Writes(E))
<1>0. MaxId \in Nat
  BY EngineAssumption
<1>1. Cardinality(ids) \in Nat /\ Lists(InOrder(ids), Cardinality(ids), ids)
  BY <1>0, InOrderLists DEF Ids
<1>2. ASSUME NEW k \in 1..Cardinality(ids) PROVE Closed(InOrder(ids)[k]) \in Writes(E)
  <2>1. InOrder(ids)[k] \in Ids
    BY <1>1 DEF Lists
  <2> QED
    BY <2>1 DEF Closed, Writes
<1> QED
  BY <1>1, <1>2 DEF Closes

LEMMA SavedWrite ==
  ASSUME NEW E, NEW n, n.id \in Ids, n.born \in Stamps, n.transient \in BOOLEAN, Position(n) \in E
  PROVE  Saved(n) \in Writes(E)
<1> DEFINE c == [id |-> n.id, born |-> n.born, transient |-> n.transient]
<1>1. c \in [id : Ids, born : Stamps, transient : BOOLEAN] /\ Position(c) \in E
  BY DEF Position
<1>2. Saved(n) = [op |-> "save", note |-> c]
  BY DEF Saved
<1> HIDE DEF c
<1> QED
  BY <1>1, <1>2 DEF Writes

LEMMA SavesWrite ==
  ASSUME NEW E, NEW ids, ids \subseteq Ids, NEW notes,
         \A i \in ids : /\ notes[i].id \in Ids /\ notes[i].born \in Stamps /\ notes[i].transient \in BOOLEAN
                        /\ Position(notes[i]) \in E
  PROVE  Saves(ids, notes) \in Seq(Writes(E))
<1>0. MaxId \in Nat
  BY EngineAssumption
<1>1. Cardinality(ids) \in Nat /\ Lists(InOrder(ids), Cardinality(ids), ids)
  BY <1>0, InOrderLists DEF Ids
<1>2. ASSUME NEW k \in 1..Cardinality(ids) PROVE Saved(notes[InOrder(ids)[k]]) \in Writes(E)
  <2>1. InOrder(ids)[k] \in ids
    BY <1>1 DEF Lists
  <2> QED
    BY <2>1, SavedWrite
<1> QED
  BY <1>1, <1>2 DEF Saves

LEMMA DndWrite == ASSUME NEW E, NEW d \in {"off", "on", "timed"} PROVE DndSet(d) \in Writes(E)
BY DEF DndSet, Writes

LEMMA ClearWrite == ASSUME NEW E PROVE Cleared \in Writes(E)
BY DEF Cleared, Writes

-----------------------------------------------------------------------------
(* The data of the engine, the queue and the store *)

\* The positions handed out so far, and those that were not deleted.
Past == Ids \X (1..born)
Extant == Past \ deleted

ActiveWithin(a, E) ==
  /\ DOMAIN a \subseteq Ids /\ Cardinality(DOMAIN a) <= MaxActive
  /\ \A i \in DOMAIN a : a[i] \in Note /\ a[i].id = i /\ Position(a[i]) \in E
RoutesTyped(r) == DOMAIN r \subseteq Ids /\ \A i \in DOMAIN r : r[i] \in Keys
TicketsWithin(t, P) ==
  /\ DOMAIN t \subseteq Tokens
  /\ \A x \in DOMAIN t : t[x] \in [live : BOOLEAN, positions : SUBSET P]

\* What is live, and what a confirmation lists.
EngineInv ==
  /\ ActiveWithin(active, Extant) /\ RoutesTyped(routes) /\ TicketsWithin(tickets, Past)
  /\ nextId \in 0..MaxId /\ dnd \in {"off", "on", "timed", "due"}

\* What is stored.
StoreInv ==
  /\ StoreWithin(db, Extant) /\ deleted \subseteq Past
  /\ born \in 0..MaxBorn /\ aged \in 0..MaxBorn
  /\ historyError \in BOOLEAN /\ blocked \in BOOLEAN

\* What is on its way: a batch saves extant positions, a request carries the
\* data of its handler.
Proper(c, data, E) ==
  /\ c.kind = "batch" => c.rest \in Seq(Writes(E))
  /\ c.kind = "once" => c.note = data
  /\ c.kind = "settings" => c.cutoff \in 0..MaxBorn
  /\ c.kind = "delete" => c.positions = data.positions
CommandsInv ==
  /\ Len(queue) <= Capacity + 1
  /\ \A i \in 1..Len(queue) : Proper(queue[i], arg, Extant)

\* The handler that waits.  Its answer comes last, and after a deletion the rows
\* are gone.
CallInv ==
  /\ op \in Ops /\ reply \in Replies /\ running \in BOOLEAN /\ admission \in BOOLEAN
  /\ faults \in 0..MaxFaults
  /\ op = "none" => reply = "none"
  /\ reply # "none" \/ ~running => queue = <<>>
  /\ op = "once" => arg \in Note /\ Position(arg) \in Extant
  /\ op = "delete" => arg.positions \subseteq Past
  /\ op = "delete" /\ reply = "ok" => Positions(db.rows) \cap arg.positions = {}

DataInv == EngineInv /\ StoreInv /\ CommandsInv /\ CallInv

\* Time goes on and nothing is deleted.
Onward == born' \in born..MaxBorn /\ deleted' = deleted

LEMMA OnwardGrows ==
  ASSUME StoreInv, Onward
  PROVE  Past \subseteq Past' /\ Extant \subseteq Extant' /\ born' \in 0..MaxBorn /\ deleted' \subseteq Past'
<1>1. MaxBorn \in Nat
  BY EngineAssumption
<1>2. 1..born \subseteq 1..born' /\ born' \in 0..MaxBorn
  BY <1>1 DEF StoreInv, Onward
<1>3. Past \subseteq Past'
  BY <1>2 DEF Past
<1> QED
  BY <1>2, <1>3 DEF Extant, Onward, StoreInv

LEMMA Positioned == ASSUME NEW n, n.id \in Ids, n.born \in 1..born, Position(n) \notin deleted PROVE Position(n) \in Extant
BY DEF Position, Extant, Past

LEMMA FiniteActive ==
  ASSUME NEW S, S \subseteq Ids PROVE IsFiniteSet(S) /\ Cardinality(S) \in Nat
<1>1. IsFiniteSet(Ids)
  BY EngineAssumption, FS_Interval DEF Ids
<1> QED
  BY <1>1, FS_Subset, FS_CardinalityType

LEMMA NoneActive == ASSUME NEW E PROVE ActiveWithin(NoEntries, E)
<1>1. DOMAIN NoEntries = {}
  BY DEF NoEntries
<1>2. 0 <= MaxActive
  BY EngineAssumption
<1> QED
  BY <1>1, <1>2, FS_EmptySet DEF ActiveWithin

LEMMA ActiveGrows ==
  ASSUME NEW a, NEW E, NEW F, E \subseteq F, ActiveWithin(a, E) PROVE ActiveWithin(a, F)
BY DEF ActiveWithin

LEMMA ActiveWithout ==
  ASSUME NEW a, NEW E, ActiveWithin(a, E), NEW K PROVE ActiveWithin(Without(a, K), E)
<1>1. DOMAIN Without(a, K) = DOMAIN a \ K /\ \A i \in DOMAIN a \ K : Without(a, K)[i] = a[i]
  BY DEF Without
<1>2. IsFiniteSet(DOMAIN a) /\ Cardinality(DOMAIN a) \in Nat /\ Cardinality(DOMAIN a \ K) \in Nat
  BY FiniteActive DEF ActiveWithin
<1>3. Cardinality(DOMAIN a \ K) <= Cardinality(DOMAIN a)
  BY <1>2, FS_Subset
<1>4. Cardinality(DOMAIN a \ K) <= MaxActive
  BY <1>2, <1>3, EngineAssumption DEF ActiveWithin
<1> QED
  BY <1>1, <1>4 DEF ActiveWithin

LEMMA ActiveWith ==
  ASSUME NEW a, NEW E, ActiveWithin(a, E), NEW n \in Note, Position(n) \in E,
         NEW id, id = n.id, id \in DOMAIN a \/ Cardinality(DOMAIN a) < MaxActive
  PROVE  ActiveWithin(With(a, id, n), E)
<1>1. /\ DOMAIN With(a, id, n) = DOMAIN a \cup {id}
      /\ \A i \in DOMAIN With(a, id, n) : With(a, id, n)[i] = IF i = id THEN n ELSE a[i]
  BY DEF With
<1>2. id \in Ids
  BY DEF Note
<1>3. IsFiniteSet(DOMAIN a) /\ Cardinality(DOMAIN a) \in Nat
  BY FiniteActive DEF ActiveWithin
<1>4. Cardinality(DOMAIN a \cup {id}) = IF id \in DOMAIN a THEN Cardinality(DOMAIN a) ELSE Cardinality(DOMAIN a) + 1
  BY <1>3, FS_AddElement
<1>5. Cardinality(DOMAIN a \cup {id}) <= MaxActive
  BY <1>3, <1>4, EngineAssumption DEF ActiveWithin
<1> QED
  BY <1>1, <1>2, <1>5 DEF ActiveWithin

LEMMA NoneRoutes == RoutesTyped(NoEntries)
BY DEF RoutesTyped, NoEntries

LEMMA RoutesWithout == ASSUME NEW r, RoutesTyped(r), NEW K PROVE RoutesTyped(Without(r, K))
BY DEF RoutesTyped, Without

LEMMA RoutesWith ==
  ASSUME NEW r, RoutesTyped(r), NEW i \in Ids, NEW k \in Keys PROVE RoutesTyped(With(r, i, k))
BY DEF RoutesTyped, With

LEMMA TicketsGrow ==
  ASSUME NEW t, NEW P, NEW Q, P \subseteq Q, TicketsWithin(t, P) PROVE TicketsWithin(t, Q)
BY DEF TicketsWithin

LEMMA TicketsWithout ==
  ASSUME NEW t, NEW P, TicketsWithin(t, P), NEW K PROVE TicketsWithin(Without(t, K), P)
BY DEF TicketsWithin, Without

LEMMA RenewedNote ==
  ASSUME NEW n \in Note, NEW t \in BOOLEAN, NEW e \in {"never", "set", "due"},
         NEW s \in {"no", "set", "due"}, NEW k \in Keys \cup {None}
  PROVE  /\ Renewed(n, t, e, s, k) \in Note /\ Renewed(n, t, e, s, k).id = n.id
         /\ Position(Renewed(n, t, e, s, k)) = Position(n)
BY DEF Renewed, Note, Position

\* A notification whose deadlines or content change.
LEMMA ActiveRenew ==
  ASSUME NEW a, NEW E, ActiveWithin(a, E), NEW id \in DOMAIN a,
         NEW n \in Note, n.id = a[id].id, Position(n) = Position(a[id])
  PROVE  ActiveWithin(With(a, id, n), E)
<1>1. Position(n) \in E /\ n.id = id
  BY DEF ActiveWithin
<1> QED
  BY <1>1, ActiveWith

\* The notification that Notify or notify_update_once makes.
LEMMA FreshNote ==
  ASSUME EngineInv, StoreInv, Created, deleted' = deleted, NEW t \in BOOLEAN, NEW e \in {"never", "set"},
         NEW k \in Keys \cup {None}
  PROVE  /\ Fresh(t, e, k) \in Note /\ Position(Fresh(t, e, k)) \in Extant'
         /\ Onward /\ nextId' \in 0..MaxId
         /\ Fresh(t, e, k).id = allocate_id
<1>1. MaxBorn \in Nat /\ born \in 0..MaxBorn /\ born < MaxBorn /\ born' = born + 1
  BY EngineAssumption DEF StoreInv, Created
<1>2. allocate_id \in Ids /\ (nextId + tries) % (MaxId + 1) \in 0..MaxId
  BY AllocateIds DEF EngineInv, ActiveWithin
<1>3. Fresh(t, e, k) \in Note
  BY <1>1, <1>2 DEF Fresh, Note, Stamps
<1>4. Position(Fresh(t, e, k)) = <<allocate_id, born + 1>> /\ Fresh(t, e, k).id = allocate_id
  BY DEF Fresh, Position
<1>5. <<allocate_id, born + 1>> \notin Past
  BY <1>1 DEF Past
<1>6. <<allocate_id, born + 1>> \in Ids \X (1..born')
  BY <1>1, <1>2
<1>7. <<allocate_id, born + 1>> \in Extant'
  BY <1>5, <1>6 DEF Extant, Past, StoreInv
<1> QED
  BY <1>1, <1>2, <1>3, <1>4, <1>7 DEF Onward, Created

LEMMA StoreOnward ==
  ASSUME StoreInv, Onward, db' = db, aged' = aged, historyError' \in BOOLEAN, blocked' \in BOOLEAN
  PROVE  StoreInv'
BY OnwardGrows DEF StoreInv, StoreWithin

LEMMA EngineOnward ==
  ASSUME EngineInv, StoreInv, Onward, UNCHANGED engine
  PROVE  EngineInv'
<1>1. ActiveWithin(active, Extant') /\ TicketsWithin(tickets, Past')
  BY OnwardGrows, ActiveGrows, TicketsGrow DEF EngineInv
<1> QED
  BY <1>1 DEF EngineInv, engine

LEMMA WritesGrow ==
  ASSUME NEW E, NEW F, E \subseteq F PROVE Writes(E) \subseteq Writes(F) /\ Seq(Writes(E)) \subseteq Seq(Writes(F))
<1>1. Writes(E) \subseteq Writes(F)
  BY DEF Writes
<1> HIDE DEF Writes
<1> QED
  BY <1>1

-----------------------------------------------------------------------------
(* How the commands change *)

LEMMA ProperStays ==
  ASSUME NEW c, NEW data, NEW E, NEW new, NEW F, E \subseteq F, Proper(c, data, E),
         Unanswered(c) \/ new = data
  PROVE  Proper(c, new, F)
BY WritesGrow DEF Proper, Unanswered

LEMMA IdleQueue ==
  ASSUME QueueInv, op = "none" \/ reply # "none"
  PROVE  \A i \in 1..Len(queue) : Unanswered(queue[i])
BY DEF QueueInv, Waiters

LEMMA RoomLeft == ASSUME QueueInv, Room PROVE Len(queue) <= Capacity
<1>1. PICK S : queue \in Seq(S)
  BY DEF QueueInv
<1> QED
  BY <1>1, EngineAssumption DEF Room, Waiting

LEMMA AppendCommands ==
  ASSUME QueueInv, CommandsInv, op = "none" \/ reply # "none", Len(queue) <= Capacity,
         Extant \subseteq Extant', NEW c, Proper(c, arg', Extant'), queue' = Append(queue, c)
  PROVE  CommandsInv'
<1>1. PICK S : queue \in Seq(S)
  BY DEF QueueInv
<1>2. /\ Len(queue') = Len(queue) + 1 /\ Len(queue) \in Nat
      /\ \A i \in 1..Len(queue) : queue'[i] = queue[i]
      /\ queue'[Len(queue) + 1] = c
  BY <1>1
<1>3. Len(queue') <= Capacity + 1
  BY <1>2, EngineAssumption
<1>4. ASSUME NEW i \in 1..Len(queue') PROVE Proper(queue'[i], arg', Extant')
  <2>1. CASE i = Len(queue) + 1
    BY <1>2, <2>1
  <2>2. CASE i # Len(queue) + 1
    <3>1. i \in 1..Len(queue) /\ queue'[i] = queue[i]
      BY <1>2, <2>2
    <3>2. Unanswered(queue[i]) /\ Proper(queue[i], arg, Extant)
      BY <3>1, IdleQueue DEF CommandsInv
    <3> QED
      BY <3>1, <3>2, ProperStays
  <2> QED
    BY <2>1, <2>2
<1> QED
  BY <1>3, <1>4 DEF CommandsInv

LEMMA KeptCommands ==
  ASSUME QueueInv, CommandsInv, Extant \subseteq Extant', queue' = queue,
         op = "none" \/ reply # "none" \/ arg' = arg
  PROVE  CommandsInv'
<1>1. ASSUME NEW i \in 1..Len(queue) PROVE Proper(queue[i], arg', Extant')
  <2>1. Proper(queue[i], arg, Extant) /\ (Unanswered(queue[i]) \/ arg' = arg)
    BY IdleQueue DEF CommandsInv
  <2> QED
    BY <2>1, ProperStays
<1> QED
  BY <1>1 DEF CommandsInv

LEMMA EnqueueCommands ==
  ASSUME QueueInv, CommandsInv, op = "none" \/ reply # "none", Extant \subseteq Extant',
         NEW batch \in Seq(Writes(Extant')), Enqueue(batch), batch # <<>> => Len(queue) <= Capacity
  PROVE  CommandsInv'
<1> DEFINE c == [kind |-> "batch", rest |-> batch]
<1>1. Proper(c, arg', Extant')
  BY DEF Proper
<1>2. CASE batch = <<>>
  BY <1>2, KeptCommands DEF Enqueue
<1>3. CASE batch # <<>>
  <2>1. queue' = Append(queue, c)
    BY <1>3 DEF Enqueue
  <2> HIDE DEF c
  <2> QED
    BY <1>1, <1>3, <2>1, AppendCommands
<1> QED
  BY <1>2, <1>3

LEMMA RequestCommands ==
  ASSUME QueueInv, CommandsInv, op = "none", Room, Extant \subseteq Extant',
         NEW what, NEW c, NEW data, Request(what, c, data), Proper(c, data, Extant')
  PROVE  CommandsInv'
BY RoomLeft, AppendCommands DEF Request

LEMMA TailCommands ==
  ASSUME QueueInv, CommandsInv, queue # <<>>, queue' = Tail(queue), arg' = arg, Extant \subseteq Extant'
  PROVE  CommandsInv'
<1>1. PICK S : queue \in Seq(S)
  BY DEF QueueInv
<1>2. /\ Len(queue') = Len(queue) - 1 /\ Len(queue) \in Nat \ {0}
      /\ \A i \in 1..Len(queue') : queue'[i] = queue[i + 1] /\ i + 1 \in 1..Len(queue)
  BY <1>1
<1>3. Len(queue') <= Capacity + 1
  BY <1>2, EngineAssumption DEF CommandsInv
<1>4. ASSUME NEW i \in 1..Len(queue') PROVE Proper(queue'[i], arg', Extant')
  <2>1. queue'[i] = queue[i + 1] /\ Proper(queue[i + 1], arg, Extant)
    BY <1>2 DEF CommandsInv
  <2> QED
    BY <2>1, ProperStays
<1> QED
  BY <1>3, <1>4 DEF CommandsInv

-----------------------------------------------------------------------------
(* Handlers that only enqueue *)

\* Such a handler keeps the data when it keeps the engine's and its batch is proper.
LEMMA EnqueuingStep ==
  ASSUME OnceInv, DataInv, Reserved, UNCHANGED plain, Onward, EngineInv',
         NEW batch \in Seq(Writes(Extant')), Enqueue(batch)
  PROVE  DataInv'
<1>1. /\ UNCHANGED <<op, arg, reply, shown, running, admission, faults, historyError, blocked, aged>>
      /\ db' = db /\ op = "none" /\ running /\ Room
  BY DEF Reserved, LockFree, plain, handler, thread
<1>2. StoreInv'
  BY <1>1, StoreOnward DEF DataInv, StoreInv
<1>3. CommandsInv'
  BY <1>1, OnwardGrows, RoomLeft, EnqueueCommands DEF DataInv, OnceInv
<1>4. CallInv'
  BY <1>1 DEF DataInv, CallInv
<1> QED
  BY <1>2, <1>3, <1>4 DEF DataInv

LEMMA ActiveStamps ==
  ASSUME EngineInv PROVE \A i \in DOMAIN active : active[i] \in Note /\ active[i].born \in Nat /\ active[i].id = i
BY EngineAssumption DEF EngineInv, ActiveWithin, Note, Stamps

\* One more notification, after the eviction.
LEMMA ActiveAdd ==
  ASSUME EngineInv, NEW E, Extant \subseteq E, NEW n \in Note, Position(n) \in E
  PROVE  ActiveWithin(With(Without(active, Evicted), n.id, n), E) /\ Evicted \subseteq Ids
<1>1. ActiveWithin(Without(active, Evicted), E)
  BY ActiveGrows, ActiveWithout DEF EngineInv
<1>2. Evicted \subseteq DOMAIN active /\ Cardinality(DOMAIN active \ Evicted) < MaxActive
  BY ActiveStamps, EvictedRoom DEF EngineInv, ActiveWithin
<1>3. DOMAIN Without(active, Evicted) = DOMAIN active \ Evicted
  BY DEF Without
<1> QED
  BY <1>1, <1>2, <1>3, ActiveWith DEF EngineInv, ActiveWithin

LEMMA NotifyData ==
  ASSUME OnceInv, DataInv, NEW t \in BOOLEAN, NEW e \in Timeouts, Notify(t, e) PROVE DataInv'
<1> DEFINE n == Fresh(t, e, None)
<1>1. Reserved /\ Created /\ UNCHANGED plain /\ UNCHANGED <<dnd, tickets>> /\ deleted' = deleted
  BY DEF Notify, plain
<1>2. /\ active' = With(Without(active, Evicted), n.id, n)
      /\ routes' = Without(routes, Evicted \cup {n.id})
      /\ Enqueue(<<Saved(n)>> \o Closes(Evicted))
  BY DEF Notify
<1>3. n \in Note /\ Position(n) \in Extant' /\ Onward /\ nextId' \in 0..MaxId
  <2>1. e \in {"never", "set"}
    BY EngineAssumption
  <2> QED
    BY <1>1, <2>1, FreshNote DEF DataInv
<1> HIDE DEF n
<1>4. Past \subseteq Past' /\ Extant \subseteq Extant'
  BY <1>3, OnwardGrows DEF DataInv
<1>5. EngineInv'
  <2>1. ActiveWithin(active', Extant')
    BY <1>2, <1>3, <1>4, ActiveAdd DEF DataInv
  <2>2. RoutesTyped(routes') /\ TicketsWithin(tickets', Past')
    BY <1>1, <1>2, <1>4, RoutesWithout, TicketsGrow DEF DataInv, EngineInv
  <2> QED
    BY <1>1, <1>3, <2>1, <2>2 DEF DataInv, EngineInv
<1>6. <<Saved(n)>> \o Closes(Evicted) \in Seq(Writes(Extant'))
  <2>1. Saved(n) \in Writes(Extant')
    BY <1>3, SavedWrite DEF Note
  <2>2. Closes(Evicted) \in Seq(Writes(Extant'))
    BY <1>3, <1>4, ActiveAdd, ClosesWrite DEF DataInv
  <2> QED
    BY <2>1, <2>2
<1> QED
  BY <1>1, <1>2, <1>3, <1>5, <1>6, EnqueuingStep

\* A handler that changes no stamp.
LEMMA SameTime ==
  ASSUME DataInv, UNCHANGED <<born, deleted>>
  PROVE  Onward /\ Extant' = Extant /\ Past' = Past
<1>1. born \in 0..MaxBorn /\ MaxBorn \in Nat
  BY EngineAssumption DEF DataInv, StoreInv
<1> QED
  BY <1>1 DEF Onward, Extant, Past

\* replace_from and snooze.
LEMMA RenewData ==
  ASSUME OnceInv, DataInv, Reserved, UNCHANGED plain, UNCHANGED <<born, nextId, dnd, tickets>>,
         NEW id \in DOMAIN active, NEW n \in Note, n.id = active[id].id, Position(n) = Position(active[id]),
         active' = With(active, id, n), RoutesTyped(routes'), Enqueue(<<Saved(n)>>)
  PROVE  DataInv'
<1>1. Onward /\ Extant' = Extant /\ Past' = Past
  BY SameTime DEF plain
<1>2. ActiveWithin(active', Extant)
  BY ActiveRenew DEF DataInv, EngineInv
<1>3. EngineInv'
  BY <1>1, <1>2 DEF DataInv, EngineInv
<1>4. Position(n) \in Extant
  BY DEF DataInv, EngineInv, ActiveWithin
<1>5. Saved(n) \in Writes(Extant')
  BY <1>1, <1>4, SavedWrite DEF Note
<1>6. <<Saved(n)>> \in Seq(Writes(Extant'))
  BY <1>5
<1> QED
  BY <1>1, <1>3, <1>6, EnqueuingStep

LEMMA ReplaceData ==
  ASSUME OnceInv, DataInv, NEW t \in BOOLEAN, NEW e \in Timeouts, NEW id \in Ids, Replace(id, t, e)
  PROVE  DataInv'
<1> DEFINE n == Renewed(active[id], t, e, "no", None)
<1>1. /\ Reserved /\ UNCHANGED plain /\ UNCHANGED <<born, nextId, dnd, tickets>> /\ id \in DOMAIN active
      /\ active' = With(active, id, n) /\ routes' = Without(routes, {id}) /\ Enqueue(<<Saved(n)>>)
  BY DEF Replace
<1>2. n \in Note /\ n.id = active[id].id /\ Position(n) = Position(active[id])
  <2>1. active[id] \in Note /\ e \in {"never", "set", "due"}
    BY <1>1, ActiveStamps, EngineAssumption DEF DataInv
  <2> QED
    BY <2>1, RenewedNote
<1>3. RoutesTyped(routes')
  BY <1>1, RoutesWithout DEF DataInv, EngineInv
<1> HIDE DEF n
<1> QED
  BY <1>1, <1>2, <1>3, RenewData

LEMMA SnoozeData == ASSUME OnceInv, DataInv, NEW id \in Ids, snooze(id) PROVE DataInv'
<1> DEFINE old == active[id]
           n == Renewed(old, old.transient, IF old.expires = "never" THEN "never" ELSE "set", "set", old.key)
<1>1. /\ Reserved /\ UNCHANGED plain /\ UNCHANGED <<born, nextId, dnd, tickets>> /\ id \in DOMAIN active
      /\ active' = With(active, id, n) /\ routes' = routes /\ Enqueue(<<Saved(n)>>)
  BY DEF snooze
<1>2. n \in Note /\ n.id = active[id].id /\ Position(n) = Position(active[id])
  <2>1. old \in Note
    BY <1>1, ActiveStamps DEF DataInv
  <2>2. old.transient \in BOOLEAN /\ old.key \in Keys \cup {None}
    BY <2>1 DEF Note
  <2> HIDE DEF old
  <2>3. (IF old.expires = "never" THEN "never" ELSE "set") \in {"never", "set", "due"}
    OBVIOUS
  <2> QED
    BY <2>1, <2>2, <2>3, RenewedNote, ZenonT(40) DEF old
<1>3. RoutesTyped(routes')
  BY <1>1 DEF DataInv, EngineInv
<1> HIDE DEF n
<1> QED
  BY <1>1, <1>2, <1>3, RenewData

\* Forgetting some notifications.
LEMMA ForgetEngine ==
  ASSUME EngineInv, NEW K, Forget(K), UNCHANGED <<nextId, dnd, tickets>>, Extant' = Extant, Past' = Past
  PROVE  EngineInv'
<1>1. ActiveWithin(active', Extant) /\ RoutesTyped(routes')
  BY ActiveWithout, RoutesWithout DEF EngineInv, Forget
<1> QED
  BY <1>1 DEF EngineInv

LEMMA ForgetData ==
  ASSUME OnceInv, DataInv, Reserved, UNCHANGED plain, UNCHANGED <<nextId, born, dnd, tickets>>,
         NEW K, Forget(K), NEW batch, Enqueue(batch), \A E : batch \in Seq(Writes(E))
  PROVE  DataInv'
<1>1. Onward /\ Extant' = Extant /\ Past' = Past
  BY SameTime DEF plain
<1>2. EngineInv'
  BY <1>1, ForgetEngine DEF DataInv
<1> QED
  BY <1>1, <1>2, EnqueuingStep

\* The end of snoozes, deadlines and DND.
LEMMA ExpireEngine ==
  ASSUME DataInv, expire, UNCHANGED <<nextId, born, tickets, deleted>>
  PROVE  EngineInv' /\ \E batch \in Seq(Writes(Extant')) : Enqueue(batch)
<1> DEFINE wake(n) == Renewed(n, n.transient, n.expires,
                              IF n.snoozed = "due" THEN "no" ELSE n.snoozed, n.key)
           awake == [i \in DOMAIN active |-> wake(active[i])]
           off == IF dnd = "due" THEN <<DndSet("off")>> ELSE <<>>
<1>1. Onward /\ Extant' = Extant /\ Past' = Past
  BY SameTime
<1>2. /\ active' = Without(awake, Expired) /\ routes' = Without(routes, Expired)
      /\ dnd' = (IF dnd = "due" THEN "off" ELSE dnd)
      /\ Enqueue(Saves(Woken, awake) \o off \o Closes(Expired))
  BY DEF expire
<1>3. DOMAIN awake = DOMAIN active
  OBVIOUS
<1>4. ASSUME NEW i \in DOMAIN active
      PROVE  awake[i] \in Note /\ awake[i].id = i /\ Position(awake[i]) \in Extant
  <2>1. active[i] \in Note /\ active[i].id = i /\ Position(active[i]) \in Extant
    BY DEF DataInv, EngineInv, ActiveWithin
  <2> DEFINE n == active[i]
             s == IF n.snoozed = "due" THEN "no" ELSE n.snoozed
  <2>2. /\ n.transient \in BOOLEAN /\ n.expires \in {"never", "set", "due"} /\ s \in {"no", "set", "due"}
        /\ n.key \in Keys \cup {None} /\ n \in Note
    BY <2>1 DEF Note
  <2>4. wake(n) = Renewed(n, n.transient, n.expires, s, n.key)
    OBVIOUS
  <2>3. wake(n) \in Note /\ wake(n).id = n.id /\ Position(wake(n)) = Position(n)
    <3> HIDE DEF n, s, wake
    <3> QED
      BY <2>2, <2>4 DEF Renewed, Note, Position
  <2> QED
    BY <2>1, <2>3
<1> HIDE DEF awake
<1>5. ActiveWithin(awake, Extant)
  BY <1>3, <1>4 DEF ActiveWithin, DataInv, EngineInv
<1>6. ActiveWithin(active', Extant) /\ RoutesTyped(routes')
  BY <1>2, <1>5, ActiveWithout, RoutesWithout DEF DataInv, EngineInv
<1>7. EngineInv'
  BY <1>1, <1>2, <1>6 DEF DataInv, EngineInv
<1>8. Saves(Woken, awake) \in Seq(Writes(Extant))
  <2>1. Woken \subseteq DOMAIN active /\ Woken \subseteq Ids
    BY DEF Woken, DataInv, EngineInv, ActiveWithin
  <2>2. ASSUME NEW i \in Woken
        PROVE  /\ awake[i].id \in Ids /\ awake[i].born \in Stamps /\ awake[i].transient \in BOOLEAN
               /\ Position(awake[i]) \in Extant
    <3>1. awake[i] \in Note /\ Position(awake[i]) \in Extant
      BY <1>4, <2>1
    <3> QED
      BY <3>1 DEF Note
  <2> QED
    BY <2>1, <2>2, SavesWrite
<1>9. Closes(Expired) \in Seq(Writes(Extant))
  BY ClosesWrite DEF Expired, DataInv, EngineInv, ActiveWithin
<1>10. off \in Seq(Writes(Extant))
  <2>1. DndSet("off") \in Writes(Extant)
    BY DndWrite
  <2> QED
    BY <2>1
<1> HIDE DEF off
<1>11. Saves(Woken, awake) \o off \o Closes(Expired) \in Seq(Writes(Extant'))
  BY <1>1, <1>8, <1>9, <1>10
<1> QED
  BY <1>2, <1>7, <1>11

LEMMA EnqueuingData == ASSUME OnceInv, DataInv, Enqueuing \/ expire_due PROVE DataInv'
<1>1. ASSUME NEW id \in Ids, Close(id) PROVE DataInv'
  <2>1. \A E : <<Closed(id)>> \in Seq(Writes(E))
    <3> TAKE E
    <3>1. Closed(id) \in Writes(E)
      BY DEF Closed, Writes
    <3> QED
      BY <3>1
  <2> QED
    BY <1>1, <2>1, ForgetData DEF Close
<1>2. CASE clear
  <2>1. \A E : <<Cleared>> \in Seq(Writes(E))
    BY ClearWrite
  <2> QED
    BY <1>2, <2>1, ForgetData DEF clear
<1>3. ASSUME NEW ids \in Selections, clear_group(ids) PROVE DataInv'
  <2>1. \A E : Closes(DOMAIN active \cap ids) \in Seq(Writes(E))
    BY ClosesWrite DEF DataInv, EngineInv, ActiveWithin
  <2> QED
    BY <1>3, <2>1, ForgetData DEF clear_group
<1>4. ASSUME NEW d \in DndModes, set_dnd(d) PROVE DataInv'
  <2>1. /\ Reserved /\ UNCHANGED plain /\ UNCHANGED <<active, routes, nextId, born, tickets>>
        /\ dnd' = d /\ Enqueue(<<DndSet(d)>>) /\ d \in {"off", "on", "timed"}
    BY <1>4, EngineAssumption DEF set_dnd
  <2>2. Onward /\ Extant' = Extant /\ Past' = Past
    BY <2>1, SameTime DEF plain
  <2>3. EngineInv'
    BY <2>1, <2>2 DEF DataInv, EngineInv
  <2>4. DndSet(d) \in Writes(Extant')
    BY <2>1, DndWrite
  <2>5. <<DndSet(d)>> \in Seq(Writes(Extant'))
    BY <2>4
  <2> QED
    BY <2>1, <2>2, <2>3, <2>5, EnqueuingStep
<1>5. CASE expire_due
  <2>1. Reserved /\ expire /\ UNCHANGED plain /\ UNCHANGED <<nextId, born, tickets, deleted>>
    BY <1>5 DEF expire_due, plain
  <2> QED
    BY <2>1, ExpireEngine, SameTime, EnqueuingStep
<1> QED
  BY <1>1, <1>2, <1>3, <1>4, <1>5, NotifyData, ReplaceData, SnoozeData DEF Enqueuing

-----------------------------------------------------------------------------
(* Handlers that wait *)

LEMMA RequestStep ==
  ASSUME OnceInv, DataInv, Reserved, UNCHANGED starting, Onward, EngineInv',
         NEW what \in Ops \ {"none"}, NEW c, NEW data, Request(what, c, data), Proper(c, data, Extant'),
         what = "once" => data \in Note /\ Position(data) \in Extant',
         what = "delete" => data.positions \subseteq Past'
  PROVE  DataInv'
<1>1. /\ UNCHANGED <<running, admission, faults, historyError, blocked, aged>>
      /\ db' = db /\ op = "none" /\ running /\ Room
  BY DEF Reserved, LockFree, Room, starting, thread
<1>2. op' = what /\ arg' = data /\ reply' = "none"
  BY DEF Request
<1>3. StoreInv'
  BY <1>1, StoreOnward DEF DataInv, StoreInv
<1>4. CommandsInv'
  BY <1>1, OnwardGrows, RequestCommands DEF DataInv, OnceInv
<1>5. CallInv'
  BY <1>1, <1>2 DEF DataInv, CallInv, Replies
<1> QED
  BY <1>3, <1>4, <1>5 DEF DataInv

LEMMA PlainRequest ==
  ASSUME OnceInv, DataInv, Reserved, UNCHANGED <<starting, engine, born>>,
         NEW what \in Ops \ {"none", "once", "delete"}, NEW c, NEW data, Request(what, c, data),
         Proper(c, data, Extant)
  PROVE  DataInv'
<1>1. Onward /\ Extant' = Extant /\ Past' = Past
  BY SameTime DEF starting
<1>2. EngineInv'
  BY <1>1, EngineOnward DEF DataInv
<1>3. UNCHANGED starting
  OBVIOUS
<1> QED
  BY <1>1, <1>2, <1>3, RequestStep

LEMMA RequestingData == ASSUME OnceInv, DataInv, Requesting PROVE DataInv'
<1>1. ASSUME NEW k \in Keys, notify_update_once(k) PROVE DataInv'
  <2> DEFINE n == Fresh(FALSE, "never", k)
             c == [kind |-> "once", key |-> k, note |-> n]
  <2>1. /\ Reserved /\ Created /\ Request("once", c, n) /\ UNCHANGED starting
        /\ UNCHANGED <<active, routes, dnd, tickets>> /\ deleted' = deleted
    BY <1>1 DEF notify_update_once, starting
  <2>2. n \in Note /\ Position(n) \in Extant' /\ Onward /\ nextId' \in 0..MaxId
    BY <2>1, FreshNote DEF DataInv
  <2> HIDE DEF n
  <2>3. Proper(c, n, Extant')
    BY DEF Proper
  <2> HIDE DEF c
  <2>4. ActiveWithin(active, Extant') /\ TicketsWithin(tickets, Past')
    BY <2>2, OnwardGrows, ActiveGrows, TicketsGrow DEF DataInv, EngineInv
  <2>5. EngineInv'
    BY <2>1, <2>2, <2>4 DEF DataInv, EngineInv
  <2> QED
    BY <2>1, <2>2, <2>3, <2>5, RequestStep DEF Ops
<1>2. CASE expire_prune
  BY <1>2, PlainRequest DEF expire_prune, Ops, Proper
<1>3. CASE query_history
  BY <1>3, PlainRequest DEF query_history, Ops, Proper
<1>4. CASE shutdown
  BY <1>4, PlainRequest DEF shutdown, Ops, Proper
<1>5. ASSUME NEW cutoff \in {0, born}, set_settings(cutoff) PROVE DataInv'
  <2>1. cutoff \in 0..MaxBorn
    BY EngineAssumption DEF DataInv, StoreInv
  <2> QED
    BY <1>5, <2>1, PlainRequest DEF set_settings, Ops, Proper
<1>6. ASSUME NEW ids, prepare_delete(ids) PROVE DataInv'
  BY <1>6, PlainRequest DEF prepare_delete, Ops, Proper
<1>7. ASSUME NEW t \in Tokens, delete_confirmed(t) PROVE DataInv'
  <2>1. /\ Reserved /\ t \in DOMAIN tickets /\ tickets' = Without(tickets, {t})
        /\ UNCHANGED starting /\ UNCHANGED <<active, routes, nextId, dnd, born>>
    BY <1>7 DEF delete_confirmed
  <2>2. Onward /\ Extant' = Extant /\ Past' = Past
    BY <2>1, SameTime DEF starting
  <2>3. TicketsWithin(tickets', Past)
    BY <2>1, TicketsWithout DEF DataInv, EngineInv
  <2>4. EngineInv'
    BY <2>1, <2>2, <2>3 DEF DataInv, EngineInv
  <2>5. CASE tickets[t].live
    <3> DEFINE data == [positions |-> tickets[t].positions]
               c == [kind |-> "delete", positions |-> tickets[t].positions]
    <3>1. Request("delete", c, data)
      BY <1>7, <2>5 DEF delete_confirmed
    <3>2. data.positions \subseteq Past
      BY <2>1 DEF DataInv, EngineInv, TicketsWithin
    <3>3. Proper(c, data, Extant')
      BY DEF Proper
    <3> HIDE DEF c, data
    <3> QED
      BY <2>1, <2>2, <2>4, <3>1, <3>2, <3>3, RequestStep DEF Ops
  <2>6. CASE ~tickets[t].live
    <3>1. /\ UNCHANGED <<op, arg, reply, queue, running, admission, faults, historyError, blocked, aged>>
          /\ db' = db
      BY <1>7, <2>1, <2>6 DEF delete_confirmed, handler, starting, thread
    <3>2. StoreInv' /\ CommandsInv'
      BY <2>2, <3>1, StoreOnward, KeptCommands DEF DataInv, OnceInv, StoreInv
    <3>3. CallInv'
      BY <2>2, <3>1 DEF DataInv, CallInv
    <3> QED
      BY <2>4, <3>2, <3>3 DEF DataInv
  <2> QED
    BY <2>5, <2>6
<1> QED
  BY <1>1, <1>2, <1>3, <1>4, <1>5, <1>6, <1>7 DEF Requesting

\* An answered handler returns; nothing is queued but what it enqueues.
LEMMA AnsweredAlone ==
  ASSUME OnceInv, DataInv, reply # "none" PROVE op # "none" /\ running /\ queue = <<>> /\ Len(queue) <= Capacity
<1>1. op # "none" /\ running /\ queue = <<>>
  BY DEF DataInv, CallInv, OnceInv, HandlerInv
<1> QED
  BY <1>1, EngineAssumption

LEMMA FinishStep ==
  ASSUME OnceInv, DataInv, reply # "none", Return, UNCHANGED ending, Onward, EngineInv',
         NEW batch \in Seq(Writes(Extant')), Enqueue(batch)
  PROVE  DataInv'
<1>1. /\ UNCHANGED <<running, admission, faults, historyError, blocked, aged>> /\ db' = db
      /\ op' = "none" /\ reply' = "none"
  BY DEF ending, thread, Return
<1>2. StoreInv'
  BY <1>1, StoreOnward DEF DataInv, StoreInv
<1>3. CommandsInv'
  BY OnwardGrows, AnsweredAlone, EnqueueCommands DEF DataInv, OnceInv
<1>4. CallInv'
  BY <1>1, AnsweredAlone DEF DataInv, CallInv, Ops, Replies
<1> QED
  BY <1>2, <1>3, <1>4 DEF DataInv

LEMMA NothingEnqueued ==
  ASSUME queue' = queue PROVE \A E : \E batch \in Seq(Writes(E)) : Enqueue(batch)
<1> TAKE E
<1>1. <<>> \in Seq(Writes(E)) /\ Enqueue(<<>>)
  BY DEF Enqueue
<1> QED
  BY <1>1

LEMMA FinishingData == ASSUME OnceInv, DataInv, Finishing PROVE DataInv'
<1>1. reply # "none" /\ Return /\ UNCHANGED ending
  BY DEF Finishing, expire_pruned, OnceSaved, OnceNotShown, Answered, TicketIssued, NoTicket,
         Deleted, NotDeleted
<1>2. CASE expire_pruned
  <2>1. expire /\ UNCHANGED <<nextId, born, tickets, deleted>>
    BY <1>2 DEF expire_pruned
  <2> QED
    BY <1>1, <2>1, ExpireEngine, SameTime, FinishStep
<1>3. CASE OnceSaved
  <2>1. /\ op = "once" /\ active' = With(Without(active, Evicted), arg.id, arg)
        /\ routes' = With(Without(routes, Evicted), arg.id, arg.key)
        /\ Enqueue(Closes(Evicted)) /\ UNCHANGED <<nextId, born, dnd, tickets, deleted>>
    BY <1>3 DEF OnceSaved
  <2>2. Onward /\ Extant' = Extant /\ Past' = Past
    BY <2>1, SameTime
  <2>3. arg \in Note /\ Position(arg) \in Extant /\ arg.key \in Keys
    BY <2>1 DEF DataInv, CallInv, OnceInv, HandlerInv
  <2>4. arg.id \in Ids
    BY <2>3 DEF Note
  <2>5. ActiveWithin(active', Extant) /\ Evicted \subseteq Ids
    BY <2>1, <2>3, ActiveAdd DEF DataInv
  <2>6. RoutesTyped(routes')
    BY <2>1, <2>3, <2>4, RoutesWithout, RoutesWith DEF DataInv, EngineInv
  <2>7. EngineInv'
    BY <2>1, <2>2, <2>5, <2>6 DEF DataInv, EngineInv
  <2>8. Closes(Evicted) \in Seq(Writes(Extant'))
    BY <2>5, ClosesWrite
  <2> QED
    BY <1>1, <2>1, <2>2, <2>7, <2>8, FinishStep
<1>4. CASE OnceNotShown \/ Answered \/ NotDeleted
  <2>1. UNCHANGED engine /\ queue' = queue /\ UNCHANGED <<born, deleted>>
    BY <1>4 DEF OnceNotShown, Answered, NotDeleted
  <2> QED
    BY <1>1, <2>1, SameTime, EngineOnward, NothingEnqueued, FinishStep DEF DataInv
<1>5. ASSUME TicketsWithin(tickets', Past),
             UNCHANGED <<active, routes, nextId, dnd, queue, born, deleted>>
      PROVE  DataInv'
  <2>1. Onward /\ Extant' = Extant /\ Past' = Past
    BY <1>5, SameTime
  <2>2. EngineInv'
    BY <1>5, <2>1 DEF DataInv, EngineInv
  <2> QED
    BY <1>1, <1>5, <2>1, <2>2, NothingEnqueued, FinishStep
<1>6. TicketsWithin(Pending, Past)
  BY TicketsWithout DEF Pending, DataInv, EngineInv
<1>7. ASSUME NEW t \in Tokens, TicketIssued(t) PROVE DataInv'
  <2>1. Listed \subseteq Past
    <3>1. Positions(db.rows) \subseteq Extant /\ Live \subseteq Extant
      BY DEF Live, DataInv, EngineInv, ActiveWithin, StoreInv, StoreWithin
    <3> QED
      BY <3>1 DEF Listed, Extant
  <2>2. tickets' = With(Pending, t, [live |-> TRUE, positions |-> Listed])
    BY <1>7 DEF TicketIssued
  <2>3. TicketsWithin(tickets', Past)
    <3> DEFINE r == [live |-> TRUE, positions |-> Listed]
    <3>1. r \in [live : BOOLEAN, positions : SUBSET Past]
      BY <2>1
    <3> HIDE DEF r
    <3> QED
      BY <1>6, <2>2, <3>1 DEF r, TicketsWithin, With
  <2> QED
    BY <1>5, <1>7, <2>3 DEF TicketIssued
<1>8. CASE NoTicket
  <2>1. TicketsWithin(tickets', Past)
    BY <1>6, <1>8 DEF NoTicket, DataInv, EngineInv
  <2> QED
    BY <1>5, <1>8, <2>1 DEF NoTicket
<1>9. CASE Deleted
  <2> DEFINE K == {i \in DOMAIN active : Position(active[i]) \in arg.positions}
  <2>1. /\ op = "delete" /\ reply = "ok" /\ Forget(K) /\ deleted' = deleted \cup arg.positions
        /\ UNCHANGED <<nextId, dnd, tickets, queue, born>>
    BY <1>9 DEF Deleted
  <2>2. arg.positions \subseteq Past /\ Positions(db.rows) \cap arg.positions = {}
    BY <2>1 DEF DataInv, CallInv
  <2>3. Past' = Past /\ Extant' = Extant \ arg.positions /\ deleted' \subseteq Past
    BY <2>1, <2>2 DEF Past, Extant, DataInv, StoreInv
  <2>4. ActiveWithin(active', Extant')
    <3>1. ActiveWithin(active', Extant) /\ active' = Without(active, K)
      BY <2>1, ActiveWithout DEF Forget, DataInv, EngineInv
    <3>2. \A i \in DOMAIN active' : Position(active'[i]) \notin arg.positions
      BY <3>1 DEF Without
    <3> QED
      BY <2>3, <3>1, <3>2 DEF ActiveWithin
  <2>5. RoutesTyped(routes')
    BY <2>1, RoutesWithout DEF Forget, DataInv, EngineInv
  <2>6. EngineInv'
    BY <2>1, <2>3, <2>4, <2>5 DEF DataInv, EngineInv
  <2>7. /\ UNCHANGED <<running, admission, faults, historyError, blocked, aged>> /\ db' = db
        /\ op' = "none" /\ reply' = "none"
    BY <1>1 DEF ending, thread, Return
  <2>8. StoreInv'
    BY <2>1, <2>2, <2>3, <2>7 DEF DataInv, StoreInv, StoreWithin
  <2>9. queue' = <<>>
    BY <2>1, AnsweredAlone
  <2>10. CommandsInv'
    BY <2>9, EngineAssumption DEF CommandsInv
  <2>11. CallInv'
    BY <2>7, <2>9 DEF DataInv, CallInv, Ops, Replies
  <2> QED
    BY <2>6, <2>8, <2>10, <2>11 DEF DataInv
<1> QED
  BY <1>2, <1>3, <1>4, <1>7, <1>8, <1>9 DEF Finishing

-----------------------------------------------------------------------------
(* The thread, time and restarts *)

LEMMA FaultCounted == ASSUME faults \in 0..MaxFaults, Fault PROVE faults' \in 0..MaxFaults
BY EngineAssumption DEF Fault

\* Whatever becomes of a transaction, the store keeps its shape.
LEMMA OutcomeStore ==
  ASSUME StoreInv, faults \in 0..MaxFaults, UNCHANGED <<born, deleted>>, historyError' \in BOOLEAN,
         NEW new, StoreWithin(new, Extant), Committed(new) \/ NotCommitted(new)
  PROVE  StoreInv' /\ faults' \in 0..MaxFaults
<1>1. Extant' = Extant /\ Past' = Past
  BY DEF Extant, Past
<1>2. faults' \in 0..MaxFaults /\ blocked' \in BOOLEAN
  BY FaultCounted DEF Committed, NotCommitted, StoreInv
<1>3. StoreWithin(db', Extant)
  BY DEF Committed, NotCommitted, StoreInv
<1>4. new.cutoff \in 0..MaxBorn /\ aged \in 0..MaxBorn
  BY DEF StoreWithin, Store, StoreInv
<1>5. Raised(new) \in 0..MaxBorn
  BY <1>4 DEF Raised
<1>6. aged' \in 0..MaxBorn
  BY <1>4, <1>5 DEF Committed, NotCommitted
<1> QED
  BY <1>1, <1>2, <1>3, <1>6 DEF StoreInv

LEMMA SameEngine ==
  ASSUME DataInv, UNCHANGED <<engine, born, deleted>> PROVE EngineInv' /\ Extant' = Extant /\ Past' = Past
BY SameTime, EngineOnward DEF DataInv

LEMMA QueueHead ==
  ASSUME OnceInv, DataInv, queue # <<>>
  PROVE  /\ 1 \in 1..Len(queue) /\ Head(queue) = queue[1] /\ Proper(queue[1], arg, Extant)
         /\ reply = "none" /\ running
         /\ ~Unanswered(queue[1]) => /\ op \in Waiters(queue[1]) /\ Tail(queue) = <<>>
                                     /\ queue[1].kind = "once" => queue[1].key = arg.key
<1>1. PICK S : queue \in Seq(S)
  BY DEF OnceInv, QueueInv
<1>2. 1 \in 1..Len(queue) /\ Head(queue) = queue[1] /\ Len(queue) \in Nat \ {0}
  BY <1>1
<1>3. Proper(queue[1], arg, Extant) /\ reply = "none" /\ running
  BY <1>2 DEF DataInv, CommandsInv, CallInv
<1>4. ASSUME ~Unanswered(queue[1])
      PROVE  /\ op \in Waiters(queue[1]) /\ Tail(queue) = <<>>
             /\ queue[1].kind = "once" => queue[1].key = arg.key
  <2>1. /\ 1 = Len(queue) /\ op \in Waiters(queue[1])
        /\ queue[1].kind = "once" => queue[1].key = arg.key
    BY <1>2, <1>4 DEF OnceInv, QueueInv
  <2>2. Tail(queue) \in Seq(S) /\ Len(Tail(queue)) = 0
    BY <1>1, <1>2, <2>1
  <2>3. Tail(queue) = <<>>
    BY <2>2, EmptySeq
  <2> QED
    BY <2>1, <2>3
<1> QED
  BY <1>2, <1>3, <1>4

LEMMA ApplyData == ASSUME OnceInv, DataInv, ApplyMutation PROVE DataInv'
<1> DEFINE rest == queue[1].rest
           b == [kind |-> "batch", rest |-> Tail(rest)]
           new == apply(db, Head(rest))
<1>1. queue # <<>> /\ queue[1].kind = "batch"
  BY QueueHead DEF ApplyMutation, First
<1>2. /\ 1 \in 1..Len(queue) /\ Head(queue) = queue[1] /\ rest \in Seq(Writes(Extant))
      /\ reply = "none" /\ running
  BY <1>1, QueueHead DEF Proper
<1>3. /\ UNCHANGED <<engine, op, arg, reply, admission, running, born, deleted>>
      /\ rest # <<>> /\ queue' = [queue EXCEPT ![1] = b]
      /\ Committed(new) \/ NotCommitted(new)
      /\ historyError' = historyError \/ historyError' = TRUE
  BY <1>2 DEF ApplyMutation, handler
<1>4. Head(rest) \in Writes(Extant) /\ Tail(rest) \in Seq(Writes(Extant))
  BY <1>2, <1>3
<1>5. StoreInv' /\ faults' \in 0..MaxFaults
  <2>1. StoreWithin(new, Extant)
    BY <1>4, ApplyWithin DEF DataInv, StoreInv
  <2> QED
    BY <1>3, <2>1, OutcomeStore DEF DataInv, StoreInv, CallInv
<1>6. EngineInv' /\ Extant' = Extant /\ Past' = Past
  BY <1>3, SameEngine
<1>7. Proper(b, arg, Extant)
  BY <1>4 DEF Proper
<1> HIDE DEF b, rest, new
<1>8. CommandsInv'
  <2>1. PICK S : queue \in Seq(S)
    BY DEF OnceInv, QueueInv
  <2>2. /\ Len(queue') = Len(queue)
        /\ \A i \in 1..Len(queue) : queue'[i] = IF i = 1 THEN b ELSE queue[i]
    BY <1>3, <2>1
  <2>3. \A i \in 1..Len(queue) : Proper(queue'[i], arg, Extant)
    BY <1>7, <2>2 DEF DataInv, CommandsInv
  <2> QED
    BY <1>3, <1>6, <2>2, <2>3 DEF DataInv, CommandsInv
<1>9. CallInv'
  BY <1>2, <1>3, <1>5, <1>6 DEF DataInv, CallInv
<1> QED
  BY <1>5, <1>6, <1>8, <1>9 DEF DataInv

\* The first command is done and nobody waited for it.
LEMMA SkipStep ==
  ASSUME OnceInv, DataInv, queue # <<>>, queue' = Tail(queue), StoreInv', faults' \in 0..MaxFaults,
         UNCHANGED <<engine, op, arg, reply, running, born, deleted>>, admission' \in BOOLEAN
  PROVE  DataInv'
<1>1. EngineInv' /\ Extant' = Extant /\ Past' = Past
  BY SameEngine
<1>2. reply = "none" /\ running
  BY QueueHead
<1>3. CommandsInv'
  BY <1>1, TailCommands DEF OnceInv, DataInv
<1>4. CallInv'
  BY <1>1, <1>2 DEF DataInv, CallInv
<1> QED
  BY <1>1, <1>3, <1>4 DEF DataInv

\* The first command is done, and its handler answered.
LEMMA AnswerStep ==
  ASSUME OnceInv, DataInv, queue # <<>>, ~Unanswered(queue[1]), queue' = Tail(queue), StoreInv',
         faults' \in 0..MaxFaults, UNCHANGED <<engine, op, arg, running, admission, born, deleted>>,
         reply' \in Replies,
         op = "delete" /\ reply' = "ok" => Positions(db'.rows) \cap arg.positions = {}
  PROVE  DataInv'
<1>1. EngineInv' /\ Extant' = Extant /\ Past' = Past
  BY SameEngine
<1>2. op \in Waiters(queue[1]) /\ queue' = <<>>
  BY QueueHead
<1>3. op # "none"
  BY <1>2 DEF Waiters
<1>4. CommandsInv'
  BY <1>1, TailCommands DEF OnceInv, DataInv
<1>5. CallInv'
  BY <1>1, <1>2, <1>3 DEF DataInv, CallInv
<1> QED
  BY <1>1, <1>4, <1>5 DEF DataInv

\* What a request would write keeps the shape of the store, and a deletion
\* leaves none of its positions.
LEMMA WrittenWithin ==
  ASSUME OnceInv, DataInv, queue # <<>>, queue[1].kind \in {"once", "settings", "delete", "prune"}
  PROVE  /\ StoreWithin(Written(queue[1]), Extant)
         /\ queue[1].kind = "delete" => Positions(Written(queue[1]).rows) \cap arg.positions = {}
<1> DEFINE c == queue[1]
<1>5. c.kind \in {"once", "settings", "delete", "prune"}
  OBVIOUS
<1>6. Proper(c, arg, Extant) /\ op \in Waiters(c) /\ (c.kind = "once" => c.key = arg.key)
  BY QueueHead DEF Unanswered
<1>0. StoreWithin(db, Extant)
  BY DEF DataInv, StoreInv
<1>1. CASE c.kind = "once"
  <2>1. op = "once" /\ c.note = arg /\ c.key = arg.key
    BY <1>1, <1>6 DEF Waiters, Proper
  <2>2. arg \in Note /\ Position(arg) \in Extant /\ c.key \in Keys
    BY <2>1 DEF DataInv, CallInv, OnceInv, HandlerInv
  <2>3. arg.id \in Ids /\ arg.born \in Stamps
    BY <2>2 DEF Note
  <2>4. Written(c) = save_once(db, c.key, arg)
    BY <1>1, <2>1 DEF Written
  <2> QED
    BY <1>0, <1>1, <2>2, <2>3, <2>4, SaveOnceWithin
<1>2. CASE c.kind = "settings"
  <2> DEFINE e == [db EXCEPT !.cutoff = c.cutoff]
  <2>1. c.cutoff \in 0..MaxBorn
    BY <1>2, <1>6 DEF Proper
  <2>2. StoreWithin(e, Extant)
    BY <1>0, <2>1 DEF StoreWithin, Store
  <2>3. Written(c) = prune_inner(e)
    BY <1>2 DEF Written
  <2> HIDE DEF e
  <2> QED
    BY <1>2, <2>2, <2>3, PruneWithin
<1>3. CASE c.kind = "delete"
  <2>1. Written(c) = delete_rows(db, arg.positions)
    BY <1>3, <1>6 DEF Written, Proper
  <2> QED
    BY <1>0, <2>1, DeleteWithin
<1>4. CASE c.kind = "prune"
  BY <1>0, <1>4, PruneWithin DEF Written
<1> QED
  BY <1>1, <1>2, <1>3, <1>4, <1>5

LEMMA WriteData == ASSUME OnceInv, DataInv, ServeWrite PROVE DataInv'
<1> DEFINE c == queue[1]
<1>1. /\ queue # <<>> /\ c.kind \in {"once", "settings", "delete", "prune"}
      /\ Head(queue) = c
  BY QueueHead DEF ServeWrite, First
<1>2. ~Unanswered(c)
  BY <1>1 DEF Unanswered
<1>3. Proper(c, arg, Extant) /\ op \in Waiters(c) /\ (c.kind = "once" => c.key = arg.key)
  BY <1>1, <1>2, QueueHead
<1>4. /\ UNCHANGED <<engine, op, arg, historyError, admission, running, born, deleted>>
      /\ queue' = Tail(queue)
  BY DEF ServeWrite
<1>5. /\ StoreWithin(Written(c), Extant)
      /\ c.kind = "delete" => Positions(Written(c).rows) \cap arg.positions = {}
  BY <1>1, WrittenWithin
<1>6. StoreInv' /\ faults' \in 0..MaxFaults
  <2>1. CASE UNCHANGED <<db, aged, blocked, faults>>
    BY <1>4, <2>1 DEF DataInv, StoreInv, CallInv, StoreWithin, Extant, Past
  <2>2. CASE Committed(Written(c)) \/ NotCommitted(Written(c))
    <3>1. historyError' \in BOOLEAN
      BY <1>4 DEF DataInv, StoreInv
    <3> QED
      BY <1>4, <1>5, <2>2, <3>1, OutcomeStore DEF DataInv, CallInv
  <2> QED
    BY <1>1, <2>1, <2>2 DEF ServeWrite
<1>7. reply' \in Replies
  BY DEF ServeWrite, Replies
<1>8. ASSUME op = "delete", reply' = "ok" PROVE Positions(db'.rows) \cap arg.positions = {}
  <2>1. c.kind = "delete"
    BY <1>1, <1>3, <1>8 DEF Waiters
  <2>2. Committed(Written(c))
    BY <1>1, <1>8 DEF ServeWrite
  <2> QED
    BY <1>5, <2>1, <2>2 DEF Committed
<1> QED
  BY <1>1, <1>2, <1>4, <1>6, <1>7, <1>8, AnswerStep

LEMMA WorkerData == ASSUME OnceInv, DataInv, Worker PROVE DataInv'
<1>1. CASE PruneAfterBatch
  <2>1. /\ queue # <<>> /\ queue' = Tail(queue)
        /\ UNCHANGED <<engine, op, arg, reply, running, admission, born, deleted>>
        /\ historyError' = historyError \/ historyError' = TRUE
        /\ Committed(prune_inner(db)) \/ NotCommitted(prune_inner(db))
    BY <1>1 DEF PruneAfterBatch, First, handler
  <2>2. StoreWithin(prune_inner(db), Extant) /\ historyError' \in BOOLEAN
    BY <2>1, PruneWithin DEF DataInv, StoreInv
  <2>3. StoreInv' /\ faults' \in 0..MaxFaults /\ admission' \in BOOLEAN
    BY <2>1, <2>2, OutcomeStore DEF DataInv, CallInv
  <2> QED
    BY <2>1, <2>3, SkipStep
<1>2. CASE ServeRead
  <2>1. /\ queue # <<>> /\ queue[1].kind = "read" /\ Head(queue) = queue[1] /\ queue' = Tail(queue)
        /\ UNCHANGED <<engine, op, arg, running, admission, born, deleted, historyError, blocked, aged>>
        /\ db' = db
    BY <1>2, QueueHead DEF ServeRead, First, thread
  <2>2. StoreInv' /\ faults' \in 0..MaxFaults
    <3>1. faults' = faults \/ Fault
      BY <1>2 DEF ServeRead
    <3>2. StoreInv'
      BY <2>1 DEF DataInv, StoreInv, StoreWithin, Extant, Past
    <3> QED
      BY <3>1, <3>2, FaultCounted DEF DataInv, CallInv
  <2>3. CASE Unanswered(queue[1])
    <3>1. reply' = reply
      BY <1>2, <2>1, <2>3 DEF ServeRead, Unanswered
    <3>2. admission' \in BOOLEAN
      BY <2>1 DEF DataInv, CallInv
    <3> QED
      BY <2>1, <2>2, <3>1, <3>2, SkipStep
  <2>4. CASE ~Unanswered(queue[1])
    <3>1. op # "delete"
      BY <2>1, <2>4, QueueHead DEF Waiters
    <3>2. reply' \in Replies
      BY <1>2, <2>1, <2>4 DEF ServeRead, Unanswered, Replies
    <3> QED
      BY <2>1, <2>2, <2>4, <3>1, <3>2, AnswerStep
  <2> QED
    BY <2>3, <2>4
<1>3. CASE ServeShutdown
  <2>1. /\ queue # <<>> /\ queue' = Tail(queue) /\ admission' = FALSE
        /\ UNCHANGED <<engine, op, arg, reply, running, born, deleted, faults, historyError, blocked, aged>>
        /\ db' = db
    BY <1>3 DEF ServeShutdown, First, handler, thread
  <2>2. StoreInv' /\ faults' \in 0..MaxFaults
    BY <2>1 DEF DataInv, StoreInv, StoreWithin, Extant, Past, CallInv
  <2> QED
    BY <2>1, <2>2, SkipStep
<1>4. CASE Drained
  <2>1. /\ op = "shutdown" /\ queue = <<>>
        /\ UNCHANGED <<engine, op, arg, queue, admission, running, born, deleted, historyError, blocked, aged>>
        /\ db' = db /\ reply' \in {"ok", "error"} /\ (faults' = faults \/ Fault)
    BY <1>4 DEF Drained, thread, OnceInv, HandlerInv
  <2>2. EngineInv' /\ Extant' = Extant /\ Past' = Past
    BY <2>1, SameEngine
  <2>3. StoreInv' /\ faults' \in 0..MaxFaults
    BY <2>1, <2>2, FaultCounted DEF DataInv, StoreInv, CallInv
  <2>4. CommandsInv'
    BY <2>1, <2>2 DEF DataInv, CommandsInv
  <2>5. CallInv'
    BY <2>1, <2>2, <2>3 DEF DataInv, CallInv, Replies
  <2> QED
    BY <2>2, <2>3, <2>4, <2>5 DEF DataInv
<1> QED
  BY <1>1, <1>2, <1>3, <1>4, ApplyData, WriteData DEF Worker

LEMMA AbandonedData == ASSUME OnceInv, DataInv, ReadAbandoned PROVE DataInv'
<1> DEFINE c == [kind |-> "read", live |-> FALSE]
<1>1. /\ op # "none" /\ reply = "none" /\ Fault /\ queue' = [queue EXCEPT ![Len(queue)] = c] /\ Return
      /\ UNCHANGED <<engine, admission, running, born, deleted, historyError, blocked, aged>> /\ db' = db
  BY DEF ReadAbandoned, thread
<1>2. EngineInv' /\ Extant' = Extant /\ Past' = Past
  BY <1>1, SameEngine
<1>3. StoreInv' /\ faults' \in 0..MaxFaults
  BY <1>1, <1>2, FaultCounted DEF DataInv, StoreInv, CallInv
<1>4. \A d, E : Proper(c, d, E)
  BY DEF Proper
<1> HIDE DEF c
<1>5. PICK S : queue \in Seq(S)
  BY DEF OnceInv, QueueInv
<1>6. /\ Len(queue') = Len(queue) /\ Len(queue) \in Nat
      /\ \A i \in 1..Len(queue) : queue'[i] = IF i = Len(queue) THEN c ELSE queue[i]
  <2>1. DOMAIN queue = 1..Len(queue) /\ Len(queue) \in Nat
    BY <1>5
  <2>2. queue' = [i \in DOMAIN queue |-> IF i = Len(queue) THEN c ELSE queue[i]]
    BY <1>1, Zenon
  <2> QED
    BY <2>1, <2>2
<1>7. ASSUME NEW i \in 1..Len(queue) PROVE Proper(queue'[i], arg', Extant)
  <2>1. CASE i = Len(queue)
    BY <1>4, <1>6, <2>1
  <2>2. CASE i # Len(queue)
    <3>1. Unanswered(queue[i]) /\ Proper(queue[i], arg, Extant) /\ queue'[i] = queue[i]
      BY <1>6, <2>2 DEF OnceInv, QueueInv, DataInv, CommandsInv
    <3> QED
      BY <3>1, ProperStays
  <2> QED
    BY <2>1, <2>2
<1>8. CommandsInv'
  BY <1>2, <1>6, <1>7 DEF DataInv, CommandsInv
<1>9. running
  BY <1>1 DEF OnceInv, HandlerInv
<1>10. CallInv'
  BY <1>1, <1>3, <1>9 DEF Return, DataInv, CallInv, Ops, Replies
<1> QED
  BY <1>2, <1>3, <1>8, <1>10 DEF DataInv

\* Only what the engine holds in memory changes.
LEMMA MemoryStep ==
  ASSUME OnceInv, DataInv, UNCHANGED <<plain, queue, born>>, EngineInv' PROVE DataInv'
<1>1. /\ UNCHANGED <<op, arg, reply, queue, running, admission, faults, historyError, blocked, aged, born, deleted>>
      /\ db' = db
  BY DEF plain, handler, thread
<1>2. Onward /\ Extant' = Extant /\ Past' = Past
  BY <1>1, SameTime
<1>3. StoreInv' /\ CommandsInv'
  BY <1>1, <1>2, StoreOnward, KeptCommands DEF DataInv, OnceInv, StoreInv
<1>4. CallInv'
  BY <1>1, <1>2 DEF DataInv, CallInv
<1> QED
  BY <1>3, <1>4 DEF DataInv

LEMMA TimeData ==
  ASSUME OnceInv, DataInv, Time \/ \E t \in Tokens : cancel_delete(t) PROVE DataInv'
<1>1. ASSUME UNCHANGED <<plain, queue, born>> PROVE Extant' = Extant /\ Past' = Past
  BY <1>1, SameTime DEF plain
<1>2. ASSUME NEW id \in DOMAIN active, NEW n \in Note, n.id = active[id].id,
             Position(n) = Position(active[id]), active' = With(active, id, n),
             UNCHANGED <<plain, routes, nextId, dnd, tickets, queue, born>>
      PROVE  DataInv'
  <2>1. ActiveWithin(active', Extant)
    BY <1>2, ActiveRenew DEF DataInv, EngineInv
  <2>2. EngineInv'
    BY <1>1, <1>2, <2>1 DEF DataInv, EngineInv
  <2> QED
    BY <1>2, <2>2, MemoryStep
<1>3. ASSUME NEW id \in Ids, Expires(id) PROVE DataInv'
  <2> DEFINE old == active[id]
             n == Renewed(old, old.transient, "due", old.snoozed, old.key)
  <2>1. /\ id \in DOMAIN active /\ active' = With(active, id, n)
        /\ UNCHANGED <<plain, routes, nextId, dnd, tickets, queue, born>>
    BY <1>3 DEF Expires
  <2>2. old \in Note
    BY <2>1, ActiveStamps DEF DataInv
  <2>3. n \in Note /\ n.id = old.id /\ Position(n) = Position(old)
    <3> HIDE DEF old
    <3> QED
      BY <2>2 DEF Renewed, Note, Position
  <2> HIDE DEF n
  <2> QED
    BY <1>2, <2>1, <2>3
<1>4. ASSUME NEW id \in Ids, Wakes(id) PROVE DataInv'
  <2> DEFINE old == active[id]
             n == Renewed(old, old.transient, old.expires, "due", old.key)
  <2>1. /\ id \in DOMAIN active /\ active' = With(active, id, n)
        /\ UNCHANGED <<plain, routes, nextId, dnd, tickets, queue, born>>
    BY <1>4 DEF Wakes
  <2>2. old \in Note
    BY <2>1, ActiveStamps DEF DataInv
  <2>3. n \in Note /\ n.id = old.id /\ Position(n) = Position(old)
    <3> HIDE DEF old
    <3> QED
      BY <2>2 DEF Renewed, Note, Position
  <2> HIDE DEF n
  <2> QED
    BY <1>2, <2>1, <2>3
<1>5. CASE DndEnds
  <2>1. EngineInv'
    BY <1>1, <1>5 DEF DndEnds, DataInv, EngineInv
  <2> QED
    BY <1>5, <2>1, MemoryStep DEF DndEnds
<1>6. ASSUME TicketsWithin(tickets', Past), UNCHANGED <<plain, active, routes, nextId, dnd, queue, born>>
      PROVE  DataInv'
  <2>1. EngineInv'
    BY <1>1, <1>6 DEF DataInv, EngineInv
  <2> QED
    BY <1>6, <2>1, MemoryStep
<1>7. ASSUME NEW t \in Tokens, TicketExpires(t) PROVE DataInv'
  <2>1. TicketsWithin(tickets', Past)
    BY <1>7 DEF TicketExpires, TicketsWithin, DataInv, EngineInv
  <2> QED
    BY <1>6, <1>7, <2>1 DEF TicketExpires
<1>8. ASSUME NEW t \in Tokens, cancel_delete(t) PROVE DataInv'
  <2>1. TicketsWithin(tickets', Past)
    BY <1>8, TicketsWithout DEF cancel_delete, DataInv, EngineInv
  <2> QED
    BY <1>6, <1>8, <2>1 DEF cancel_delete
<1>9. CASE DayEnds
  <2>1. /\ UNCHANGED <<engine, op, arg, reply, historyError, blocked, queue, admission, running,
                       born, deleted, faults>>
        /\ db.cutoff < born /\ db' = [db EXCEPT !.cutoff = @ + 1] /\ aged' = Raised(db')
    BY <1>9 DEF DayEnds, handler
  <2>2. EngineInv' /\ Extant' = Extant /\ Past' = Past
    BY <2>1, SameEngine
  <2>3. StoreWithin(db', Extant) /\ db'.rows = db.rows /\ db'.cutoff \in 0..MaxBorn
    <3>1. db \in Store /\ born \in 0..MaxBorn /\ MaxBorn \in Nat
      BY EngineAssumption DEF DataInv, StoreInv, StoreWithin
    <3>2. db.cutoff + 1 \in 0..MaxBorn
      BY <2>1, <3>1 DEF Store
    <3>3. db' \in Store /\ db'.rows = db.rows /\ db'.cutoff = db.cutoff + 1
      BY <2>1, <3>1, <3>2 DEF Store
    <3> QED
      BY <3>2, <3>3 DEF DataInv, StoreInv, StoreWithin
  <2>4. aged' \in 0..MaxBorn
    BY <2>1, <2>3 DEF Raised, DataInv, StoreInv
  <2>5. StoreInv'
    BY <2>1, <2>2, <2>3, <2>4 DEF DataInv, StoreInv
  <2>6. CommandsInv' /\ CallInv'
    BY <2>1, <2>2, <2>3 DEF DataInv, CommandsInv, CallInv
  <2> QED
    BY <2>2, <2>5, <2>6 DEF DataInv
<1> QED
  BY <1>3, <1>4, <1>5, <1>7, <1>8, <1>9 DEF Time

LEMMA DownData == ASSUME OnceInv, DataInv, Exit \/ Crash PROVE DataInv'
<1>1. /\ Down /\ (faults' = faults \/ Fault) /\ UNCHANGED <<db, aged, born, deleted>>
  BY DEF Exit, Crash, Down
<1>2. Extant' = Extant /\ Past' = Past
  BY <1>1, SameTime
<1>3. EngineInv'
  <2>1. TicketsWithin(NoEntries, Past) /\ 0 \in 0..MaxId
    BY EngineAssumption DEF TicketsWithin, NoEntries
  <2> QED
    BY <1>1, <1>2, <2>1, NoneActive, NoneRoutes DEF Down, EngineInv
<1>4. StoreInv' /\ faults' \in 0..MaxFaults
  BY <1>1, <1>2, FaultCounted DEF Down, DataInv, StoreInv, CallInv
<1>5. CommandsInv'
  BY <1>1, EngineAssumption DEF Down, CommandsInv
<1>6. CallInv'
  BY <1>1, <1>4 DEF Down, CallInv, Ops, Replies
<1> QED
  BY <1>3, <1>4, <1>5, <1>6 DEF DataInv

LEMMA RestartData == ASSUME OnceInv, DataInv, Restart PROVE DataInv'
<1>1. /\ ~running /\ running' = TRUE /\ admission' = TRUE /\ db' = prune_inner(apply(db, Cleared))
      /\ nextId' = db.lastId /\ dnd' \in {db.dnd, "off"}
      /\ queue' = queue \/ Enqueue(<<DndSet("off")>>)
      /\ UNCHANGED <<active, routes, tickets, op, arg, reply, historyError, blocked, aged, born, deleted, faults>>
  BY DEF Restart, handler
<1>2. Onward /\ Extant' = Extant /\ Past' = Past
  BY <1>1, SameTime
<1>3. StoreWithin(db', Extant)
  <2>1. StoreWithin(apply(db, Cleared), Extant)
    BY ClearWrite, ApplyWithin DEF DataInv, StoreInv
  <2> QED
    BY <1>1, <2>1, PruneWithin
<1>4. StoreInv'
  BY <1>1, <1>2, <1>3 DEF DataInv, StoreInv
<1>5. EngineInv'
  <2>1. db.lastId \in 0..MaxId /\ db.dnd \in {"off", "on", "timed"}
    BY DEF DataInv, StoreInv, StoreWithin, Store
  <2> QED
    BY <1>1, <1>2, <2>1 DEF DataInv, EngineInv
<1>6. op = "none" /\ reply = "none" /\ queue = <<>>
  BY <1>1 DEF OnceInv, HandlerInv, DataInv, CallInv
<1>7. CommandsInv'
  <2>1. CASE queue' = queue
    BY <1>1, <1>2, <2>1, KeptCommands DEF DataInv, OnceInv
  <2>2. CASE Enqueue(<<DndSet("off")>>)
    <3>1. DndSet("off") \in Writes(Extant')
      BY DndWrite
    <3>2. <<DndSet("off")>> \in Seq(Writes(Extant')) /\ Len(queue) <= Capacity
      BY <1>6, <3>1, EngineAssumption
    <3> QED
      BY <1>2, <1>6, <2>2, <3>2, EnqueueCommands DEF DataInv, OnceInv
  <2> QED
    BY <1>1, <2>1, <2>2
<1>8. CallInv'
  BY <1>1, <1>6 DEF DataInv, CallInv
<1> QED
  BY <1>4, <1>5, <1>7, <1>8 DEF DataInv

\* The data of the engine, the queue and the store stay within what was created
\* and not deleted.
LEMMA DataAlways == Spec => []DataInv
<1>1. Init => DataInv
  <2> SUFFICES ASSUME Init PROVE DataInv
    OBVIOUS
  <2>0. /\ MaxId \in Nat /\ MaxBorn \in Nat /\ MaxFaults \in Nat /\ Capacity \in Nat
    BY EngineAssumption
  <2>1. EngineInv
    BY <2>0, NoneActive, NoneRoutes DEF Init, EngineInv, TicketsWithin, NoEntries
  <2>2. StoreInv
    <3>1. EmptyStore \in Store /\ Positions(EmptyStore.rows) = {}
      BY <2>0 DEF EmptyStore, Store, Positions
    <3>2. StoreWithin(db, Extant)
      BY <3>1 DEF Init, StoreWithin
    <3>3. born \in 0..MaxBorn /\ aged \in 0..MaxBorn /\ deleted = {}
      BY <2>0 DEF Init
    <3>4. historyError \in BOOLEAN /\ blocked \in BOOLEAN
      BY DEF Init
    <3> QED
      BY <3>2, <3>3, <3>4 DEF StoreInv
  <2>3. CommandsInv
    BY <2>0 DEF Init, CommandsInv
  <2>4. CallInv
    BY <2>0 DEF Init, CallInv, Ops, Replies
  <2> QED
    BY <2>1, <2>2, <2>3, <2>4 DEF DataInv
<1>2. OnceInv /\ DataInv /\ [Next]_vars => DataInv'
  <2> SUFFICES ASSUME OnceInv, DataInv, [Next]_vars PROVE DataInv'
    OBVIOUS
  <2>1. CASE UNCHANGED vars
    <3>1. UNCHANGED engine /\ UNCHANGED <<plain, queue, born, deleted>>
      BY <2>1 DEF vars, plain
    <3> QED
      BY <3>1, SameEngine, MemoryStep
  <2> QED
    BY <2>1, EnqueuingData, RequestingData, FinishingData, WorkerData, AbandonedData, TimeData,
       DownData, RestartData DEF Next
<1> QED
  BY <1>1, <1>2, OnceAlways, PTL DEF Spec

\* Identifiers, stamps, limits and answers keep their types: the identifier
\* search ends, at most maximum_active notifications are live, and the queue
\* never holds more than its capacity (engine.rs, allocate_id and upsert;
\* persistence.rs).
THEOREM TypeCorrect == Spec => []TypeOK
<1>1. OnceInv /\ DataInv => TypeOK
  <2> SUFFICES ASSUME OnceInv, DataInv PROVE TypeOK
    OBVIOUS
  <2>1. /\ DOMAIN active \subseteq Ids /\ Cardinality(DOMAIN active) <= MaxActive
        /\ \A i \in DOMAIN active : active[i] \in Note /\ active[i].id = i
    BY DEF DataInv, EngineInv, ActiveWithin
  <2>2. /\ DOMAIN routes \subseteq Ids /\ \A i \in DOMAIN routes : routes[i] \in Keys
        /\ DOMAIN tickets \subseteq Tokens
    BY DEF DataInv, EngineInv, RoutesTyped, TicketsWithin
  <2>3. db.lastId \in 0..MaxId /\ db.once \subseteq Keys /\ db.dnd \in {"off", "on", "timed"}
    BY DEF DataInv, StoreInv, StoreWithin, Store
  <2>4. shown \in [Keys -> Nat]
    BY DEF OnceInv, ShownInv
  <2> QED
    BY <2>1, <2>2, <2>3, <2>4 DEF TypeOK, DataInv, EngineInv, StoreInv, CommandsInv, CallInv
<1> QED
  BY <1>1, OnceAlways, DataAlways, PTL

\* A confirmed deletion is final: no row, no live notification and no write
\* still queued brings the record back, through retries, crashes and restarts
\* (engine.rs, delete_confirmed).
THEOREM DeletionIsFinal == Spec => []DeletedStaysDeleted
<1>1. DataInv => DeletedStaysDeleted
  <2> SUFFICES ASSUME DataInv PROVE DeletedStaysDeleted
    OBVIOUS
  <2>1. Positions(db.rows) \subseteq Extant /\ Live \subseteq Extant
    BY DEF Live, DataInv, EngineInv, ActiveWithin, StoreInv, StoreWithin
  <2> QED
    BY <2>1 DEF DeletedStaysDeleted, Extant
<1> QED
  BY <1>1, DataAlways, PTL

-----------------------------------------------------------------------------
(* Replaying what is queued *)

\* f lists the stores behind the first mutations of a batch.
Replays(f, store, batch, n) ==
  /\ DOMAIN f = 0..n /\ f[0] = store
  /\ \A k \in 1..n : f[k] = apply(f[k - 1], batch[k])

LEMMA ReplaysExist ==
  ASSUME NEW store, NEW batch PROVE \A n \in Nat : \E f : Replays(f, store, batch, n)
<1> DEFINE T == {n \in Nat : \E f : Replays(f, store, batch, n)}
<1>1. 0 \in T
  <2>1. Replays([k \in 0..0 |-> store], store, batch, 0)
    BY DEF Replays
  <2> QED
    BY <2>1
<1>2. ASSUME NEW n \in Nat, n \in T PROVE n + 1 \in T
  <2>1. PICK f : Replays(f, store, batch, n)
    BY <1>2
  <2> DEFINE g == [k \in 0..(n + 1) |-> IF k = n + 1 THEN apply(f[n], batch[n + 1]) ELSE f[k]]
  <2>2. DOMAIN g = 0..(n + 1) /\ g[0] = store
    BY <2>1 DEF Replays
  <2>3. ASSUME NEW k \in 1..(n + 1) PROVE g[k] = apply(g[k - 1], batch[k])
    <3>1. CASE k = n + 1
      <4>1. g[k] = apply(f[n], batch[n + 1]) /\ g[k - 1] = f[n]
        BY <3>1
      <4> QED
        BY <3>1, <4>1
    <3>2. CASE k # n + 1
      <4>1. k \in 1..n /\ g[k] = f[k] /\ g[k - 1] = f[k - 1]
        BY <3>2
      <4> QED
        BY <2>1, <4>1 DEF Replays
    <3> QED
      BY <3>1, <3>2
  <2> HIDE DEF g
  <2>4. Replays(g, store, batch, n + 1)
    BY <2>2, <2>3 DEF Replays
  <2> QED
    BY <2>4
<1>3. Nat \subseteq T
  <2> HIDE DEF T
  <2> QED
    BY <1>1, <1>2, SetInduction
<1> QED
  BY <1>3

LEMMA ReplayIs ==
  ASSUME NEW store, NEW batch, Len(batch) \in Nat
  PROVE  \E f : Replays(f, store, batch, Len(batch)) /\ Replay(store, batch) = f[Len(batch)]
<1> DEFINE n == Len(batch)
           P(f) == f = [k \in 0..n |-> IF k = 0 THEN store ELSE apply(f[k - 1], batch[k])]
<1>1. PICK g : Replays(g, store, batch, n)
  BY ReplaysExist
<1> HIDE DEF n
<1>2. P(CHOOSE f : P(f))
  <2>1. \E f : P(f)
    <3> DEFINE h == [k \in 0..n |-> IF k = 0 THEN store ELSE apply(g[k - 1], batch[k])]
    <3>0. n \in Nat
      BY DEF n
    <3>1. \A k \in 0..n : h[k] = g[k]
      BY <1>1, <3>0 DEF Replays
    <3>2. \A k \in 0..n : k # 0 => k - 1 \in 0..n
      BY <3>0
    <3>3. h = [k \in 0..n |-> IF k = 0 THEN store ELSE apply(h[k - 1], batch[k])]
      BY <3>1, <3>2
    <3> HIDE DEF h
    <3> QED
      BY <3>3
  <2> HIDE DEF P
  <2> QED
    BY <2>1
<1>3. PICK f : P(f) /\ Replay(store, batch) = f[n]
  BY <1>2 DEF Replay, n
<1>4. Replays(f, store, batch, n)
  BY <1>3 DEF Replays, n
<1> QED
  BY <1>3, <1>4 DEF n

-----------------------------------------------------------------------------
(* What the queue makes of the store *)

\* A claim about the store: a position is open, or DND has a mode.
OpenClaim(p) == <<"open", p>>
DndClaim(mode) == <<"dnd", mode>>
Modes == {"off", "on", "timed"}
Claims == {OpenClaim(p) : p \in Ids \X Stamps} \cup {DndClaim(mode) : mode \in Modes}

Holds(d, c) ==
  \/ c[1] = "open" /\ c[2] \in OpenPositions(d.rows)
  \/ c[1] = "dnd" /\ d.dnd = c[2]

\* A mutation makes a claim hold, or ends it.
Makes(m, c) ==
  \/ c[1] = "open" /\ m.op = "save" /\ ~m.note.transient /\ Position(m.note) = c[2]
  \/ c[1] = "dnd" /\ m.op = "dnd" /\ m.dnd = c[2]
Ends(m, c) ==
  \/ c[1] = "open" /\ \/ m.op = "clear"
                      \/ m.op = "close" /\ m.id = c[2][1]
                      \/ m.op = "save" /\ m.note.id = c[2][1]
  \/ c[1] = "dnd" /\ m.op = "dnd"

LEMMA ClaimCases ==
  ASSUME NEW c \in Claims
  PROVE  \/ c[1] = "open" /\ c[2] \in Ids \X Stamps /\ c[2] = <<c[2][1], c[2][2]>> /\ c[2][1] \in Ids /\ c[2][2] \in Stamps
         \/ c[1] = "dnd" /\ c[2] \in Modes
BY DEF Claims, OpenClaim, DndClaim

LEMMA OpenAt ==
  ASSUME NEW rows, NEW p
  PROVE  p \in OpenPositions(rows) <=> \E i \in DOMAIN rows : rows[i].open /\ p = Position(rows[i])
BY DEF OpenPositions

\* save_content on the open positions.
LEMMA SaveOpens ==
  ASSUME NEW rows \in Seq(Row), NEW n, n.id \in Ids, n.born \in Stamps, NEW p \in Ids \X Stamps
  PROVE  p \in OpenPositions(save_content(rows, n)) <=>
           \/ p = Position(n)
           \/ p \in OpenPositions(rows) /\ p[1] # n.id
<1> DEFINE found == Conversation(rows, n.id)
           row == [id |-> n.id, born |-> n.born, open |-> TRUE]
           new == save_content(rows, n)
<1>0. DOMAIN rows = 1..Len(rows) /\ Len(rows) \in Nat /\ \A i \in DOMAIN rows : rows[i] \in Row
  OBVIOUS
<1>1. row.open /\ Position(row) = Position(n) /\ row.id = n.id /\ Position(n)[1] = n.id /\ row \in Row
  BY DEF Position, Row
<1>2. \A i \in DOMAIN rows : i \in found <=> rows[i].open /\ rows[i].id = n.id
  BY DEF Conversation
<1>3. \A r : Position(r)[1] = r.id
  BY DEF Position
<1>4. CASE found = {}
  <2>1. new = Append(rows, row)
    BY <1>4 DEF save_content
  <2> HIDE DEF row, new
  <2>2. /\ DOMAIN new = 1..(Len(rows) + 1) /\ new[Len(rows) + 1] = row
        /\ \A i \in DOMAIN rows : new[i] = rows[i] /\ i \in DOMAIN new
    BY <1>0, <1>1, <2>1
  <2>3. \A i \in DOMAIN new : i = Len(rows) + 1 \/ i \in DOMAIN rows
    BY <1>0, <2>2
  <2>4. Len(rows) + 1 \in DOMAIN new
    BY <1>0, <2>2
  <2>5. \A i \in DOMAIN rows : rows[i].open => rows[i].id # n.id
    BY <1>2, <1>4
  <2>6. OpenPositions(new) = OpenPositions(rows) \cup {Position(n)}
    BY <1>1, <2>2, <2>3, <2>4 DEF OpenPositions
  <2>7. \A q \in OpenPositions(rows) : q[1] # n.id
    BY <1>3, <2>5 DEF OpenPositions
  <2> QED
    BY <2>6, <2>7 DEF new
<1>5. CASE found # {}
  <2>1. new = [i \in DOMAIN rows |-> IF i \in found THEN row ELSE rows[i]]
    BY <1>5 DEF save_content
  <2>2. found \subseteq DOMAIN rows
    BY DEF Conversation
  <2> HIDE DEF row, new, found
  <2>3. DOMAIN new = DOMAIN rows /\ \A i \in DOMAIN rows : new[i] = IF i \in found THEN row ELSE rows[i]
    BY <2>1
  <2>4. PICK k \in DOMAIN rows : k \in found
    BY <1>5, <2>2
  <2>5. Position(n) \in OpenPositions(new)
    BY <1>1, <2>3, <2>4 DEF OpenPositions
  <2>6. ASSUME p \in OpenPositions(new), p # Position(n) PROVE p \in OpenPositions(rows) /\ p[1] # n.id
    <3>1. PICK i \in DOMAIN rows : new[i].open /\ p = Position(new[i])
      BY <2>3, <2>6 DEF OpenPositions
    <3>2. i \notin found /\ new[i] = rows[i]
      BY <1>1, <2>3, <2>6, <3>1
    <3>3. rows[i].open /\ rows[i].id # n.id
      BY <1>2, <3>1, <3>2
    <3> QED
      BY <1>3, <3>1, <3>2, <3>3 DEF OpenPositions
  <2>7. ASSUME p \in OpenPositions(rows), p[1] # n.id PROVE p \in OpenPositions(new)
    <3>1. PICK i \in DOMAIN rows : rows[i].open /\ p = Position(rows[i])
      BY <2>7 DEF OpenPositions
    <3>2. i \notin found
      BY <1>2, <1>3, <2>7, <3>1
    <3>3. new[i] = rows[i]
      BY <2>3, <3>2
    <3> QED
      BY <2>3, <3>1, <3>3 DEF OpenPositions
  <2> QED
    BY <2>5, <2>6, <2>7 DEF new
<1> QED
  BY <1>4, <1>5

LEMMA DiscardOpens ==
  ASSUME NEW rows \in Seq(Row), NEW id, NEW p \in Ids \X Stamps
  PROVE  p \in OpenPositions(discard_open(rows, id)) <=> p \in OpenPositions(rows) /\ p[1] # id
<1> DEFINE places == DOMAIN rows \ Conversation(rows, id)
<1>1. places \subseteq DOMAIN rows /\ discard_open(rows, id) = rows_at(rows, places)
  BY DEF discard_open
<1>2. OpenPositions(rows_at(rows, places)) = {Position(rows[i]) : i \in {j \in places : rows[j].open}}
  BY <1>1, RowsAtPositions
<1>3. \A j \in DOMAIN rows : rows[j].open => (j \in places <=> rows[j].id # id)
  BY DEF Conversation
<1>4. \A r : Position(r)[1] = r.id
  BY DEF Position
<1> HIDE DEF places
<1>5. p \in OpenPositions(rows_at(rows, places)) <=> \E i \in places : rows[i].open /\ p = Position(rows[i])
  BY <1>2
<1>6. ASSUME p \in OpenPositions(rows_at(rows, places)) PROVE p \in OpenPositions(rows) /\ p[1] # id
  <2>1. PICK i \in places : rows[i].open /\ p = Position(rows[i])
    BY <1>5, <1>6
  <2>2. i \in DOMAIN rows /\ rows[i].id # id /\ p[1] = rows[i].id
    BY <1>1, <1>3, <1>4, <2>1
  <2> QED
    BY <2>1, <2>2 DEF OpenPositions
<1>7. ASSUME p \in OpenPositions(rows), p[1] # id PROVE p \in OpenPositions(rows_at(rows, places))
  <2>1. PICK i \in DOMAIN rows : rows[i].open /\ p = Position(rows[i])
    BY <1>7 DEF OpenPositions
  <2>2. i \in places
    BY <1>3, <1>4, <1>7, <2>1
  <2> QED
    BY <1>5, <2>1, <2>2
<1> QED
  BY <1>1, <1>6, <1>7

LEMMA CloseOpens ==
  ASSUME NEW rows \in Seq(Row), NEW ids, NEW p \in Ids \X Stamps
  PROVE  p \in OpenPositions(close_rows(rows, ids)) <=> p \in OpenPositions(rows) /\ p[1] \notin ids
<1> DEFINE new == close_rows(rows, ids)
<1>1. ASSUME NEW i \in DOMAIN rows
      PROVE  /\ new[i].open <=> rows[i].open /\ rows[i].id \notin ids
             /\ Position(new[i]) = Position(rows[i])
  <2>1. rows[i] \in Row
    OBVIOUS
  <2>2. new[i] = [rows[i] EXCEPT !.open = @ /\ rows[i].id \notin ids]
    BY DEF close_rows
  <2> HIDE DEF new
  <2> QED
    BY <2>1, <2>2 DEF Row, Position
<1>2. DOMAIN new = DOMAIN rows
  BY DEF close_rows
<1>3. \A r : Position(r)[1] = r.id
  BY DEF Position
<1> HIDE DEF new
<1>4. ASSUME p \in OpenPositions(new) PROVE p \in OpenPositions(rows) /\ p[1] \notin ids
  <2>1. PICK i \in DOMAIN rows : new[i].open /\ p = Position(new[i])
    BY <1>2, <1>4 DEF OpenPositions
  <2>2. rows[i].open /\ rows[i].id \notin ids /\ p = Position(rows[i]) /\ p[1] = rows[i].id
    BY <1>1, <1>3, <2>1
  <2> QED
    BY <2>2 DEF OpenPositions
<1>5. ASSUME p \in OpenPositions(rows), p[1] \notin ids PROVE p \in OpenPositions(new)
  <2>1. PICK i \in DOMAIN rows : rows[i].open /\ p = Position(rows[i])
    BY <1>5 DEF OpenPositions
  <2>2. new[i].open /\ p = Position(new[i])
    BY <1>1, <1>3, <1>5, <2>1
  <2> QED
    BY <1>2, <2>1, <2>2 DEF OpenPositions
<1> QED
  BY <1>4, <1>5 DEF new

LEMMA RetainOpens ==
  ASSUME NEW rows \in Seq(Row), NEW cutoff \in 0..MaxBorn, NEW p \in Ids \X Stamps
  PROVE  p \in OpenPositions(retained_rows(rows, cutoff)) <=> p \in OpenPositions(rows) /\ p[2] > cutoff
<1> DEFINE places == {i \in DOMAIN rows : /\ rows[i].born > cutoff
                                          /\ rows[i].open \/ i > Len(rows) - Scope}
<1>1. places \subseteq DOMAIN rows /\ retained_rows(rows, cutoff) = rows_at(rows, places)
  BY DEF retained_rows
<1>2. OpenPositions(rows_at(rows, places)) = {Position(rows[i]) : i \in {j \in places : rows[j].open}}
  BY <1>1, RowsAtPositions
<1>3. \A j \in DOMAIN rows : rows[j].open => (j \in places <=> rows[j].born > cutoff)
  OBVIOUS
<1>4. \A r : Position(r)[2] = r.born
  BY DEF Position
<1> HIDE DEF places
<1>5. p \in OpenPositions(rows_at(rows, places)) <=> \E i \in places : rows[i].open /\ p = Position(rows[i])
  BY <1>2
<1>6. ASSUME p \in OpenPositions(rows_at(rows, places)) PROVE p \in OpenPositions(rows) /\ p[2] > cutoff
  <2>1. PICK i \in places : rows[i].open /\ p = Position(rows[i])
    BY <1>5, <1>6
  <2>2. i \in DOMAIN rows /\ rows[i].born > cutoff /\ p[2] = rows[i].born
    BY <1>1, <1>3, <1>4, <2>1
  <2> QED
    BY <2>1, <2>2 DEF OpenPositions
<1>7. ASSUME p \in OpenPositions(rows), p[2] > cutoff PROVE p \in OpenPositions(rows_at(rows, places))
  <2>1. PICK i \in DOMAIN rows : rows[i].open /\ p = Position(rows[i])
    BY <1>7 DEF OpenPositions
  <2>2. i \in places
    BY <1>3, <1>4, <1>7, <2>1
  <2> QED
    BY <1>5, <2>1, <2>2
<1> QED
  BY <1>1, <1>6, <1>7

LEMMA SaveHolds ==
  ASSUME NEW E, NEW d, StoreWithin(d, E), NEW n, n.id \in Ids, n.born \in Stamps, NEW c \in Claims
  PROVE  Holds(save_inner(d, n), c) <=>
           \/ c[1] = "open" /\ ~n.transient /\ Position(n) = c[2]
           \/ Holds(d, c) /\ ~(c[1] = "open" /\ n.id = c[2][1])
<1> DEFINE e == remember_id(d, n.id)
           new == IF n.transient THEN discard_open(d.rows, n.id) ELSE save_content(d.rows, n)
<1>1. d.rows \in Seq(Row) /\ d \in Store
  BY DEF StoreWithin, Store
<1>2. e \in Store /\ e.rows = d.rows /\ e.dnd = d.dnd
  BY <1>1 DEF remember_id, Store, Ids
<1>3. save_inner(d, n) = [e EXCEPT !.rows = new]
  BY <1>2 DEF save_inner
<1>4. ASSUME NEW p \in Ids \X Stamps
      PROVE  p \in OpenPositions(new) <=>
               \/ ~n.transient /\ p = Position(n)
               \/ p \in OpenPositions(d.rows) /\ p[1] # n.id
  BY <1>1, DiscardOpens, SaveOpens
<1> HIDE DEF e, new
<1>5. save_inner(d, n).rows = new /\ save_inner(d, n).dnd = d.dnd
  BY <1>2, <1>3 DEF Store
<1>6. CASE c[1] = "open" /\ c[2] \in Ids \X Stamps
  BY <1>4, <1>5, <1>6 DEF Holds
<1>7. CASE c[1] = "dnd"
  BY <1>5, <1>7 DEF Holds
<1> QED
  BY <1>6, <1>7, ClaimCases

LEMMA CloseHolds ==
  ASSUME NEW E, NEW d, StoreWithin(d, E), NEW ids, NEW c \in Claims
  PROVE  Holds(close_inner(d, ids), c) <=> Holds(d, c) /\ ~(c[1] = "open" /\ c[2][1] \in ids)
<1>1. d.rows \in Seq(Row) /\ d \in Store
  BY DEF StoreWithin, Store
<1>2. close_inner(d, ids).rows = close_rows(d.rows, ids) /\ close_inner(d, ids).dnd = d.dnd
  BY <1>1 DEF close_inner, Store
<1>3. CASE c[1] = "open" /\ c[2] \in Ids \X Stamps
  BY <1>1, <1>2, <1>3, CloseOpens DEF Holds
<1>4. CASE c[1] = "dnd"
  BY <1>2, <1>4 DEF Holds
<1> QED
  BY <1>3, <1>4, ClaimCases

\* Pruning only ends claims that are past the cutoff.
LEMMA PruneHolds ==
  ASSUME NEW E, NEW d, StoreWithin(d, E), NEW c \in Claims
  PROVE  Holds(prune_inner(d), c) <=> Holds(d, c) /\ ~(c[1] = "open" /\ c[2][2] <= d.cutoff)
<1>1. d.rows \in Seq(Row) /\ d \in Store /\ d.cutoff \in 0..MaxBorn
  BY DEF StoreWithin, Store
<1>2. /\ prune_inner(d).rows = retained_rows(d.rows, d.cutoff) /\ prune_inner(d).dnd = d.dnd
      /\ prune_inner(d).cutoff = d.cutoff
  BY <1>1 DEF prune_inner, Store
<1>3. CASE c[1] = "open" /\ c[2] \in Ids \X Stamps /\ c[2][2] \in Stamps
  <2>1. c[2][2] > d.cutoff <=> ~(c[2][2] <= d.cutoff)
    BY <1>1, <1>3 DEF Stamps
  <2> QED
    BY <1>1, <1>2, <1>3, <2>1, RetainOpens DEF Holds
<1>4. CASE c[1] = "dnd"
  BY <1>2, <1>4 DEF Holds
<1> QED
  BY <1>3, <1>4, ClaimCases

LEMMA ApplyHolds ==
  ASSUME NEW E, NEW d, StoreWithin(d, E), NEW m \in Writes(E), NEW c \in Claims
  PROVE  Holds(apply(d, m), c) <=> Makes(m, c) \/ (Holds(d, c) /\ ~Ends(m, c))
<1>1. CASE m.op = "save"
  <2>1. m.note.id \in Ids /\ m.note.born \in Stamps
    BY <1>1 DEF Writes
  <2>2. apply(d, m) = save_inner(d, m.note)
    BY <1>1 DEF apply
  <2> QED
    BY <1>1, <2>1, <2>2, SaveHolds, ClaimCases DEF Makes, Ends
<1>2. CASE m.op = "close"
  <2>1. apply(d, m) = close_inner(d, {m.id})
    BY <1>2 DEF apply
  <2> QED
    BY <1>2, <2>1, CloseHolds, ClaimCases DEF Makes, Ends
<1>3. CASE m.op = "clear"
  <2> DEFINE ids == {d.rows[i].id : i \in DOMAIN d.rows}
  <2>1. apply(d, m) = close_inner(d, ids)
    BY <1>3 DEF apply
  <2>2. c[1] = "open" /\ Holds(d, c) => c[2][1] \in ids
    <3>1. \A r : Position(r)[1] = r.id
      BY DEF Position
    <3> QED
      BY <3>1 DEF Holds, OpenPositions
  <2> HIDE DEF ids
  <2> QED
    BY <1>3, <2>1, <2>2, CloseHolds, ClaimCases DEF Makes, Ends
<1>4. CASE m.op = "dnd"
  <2>1. apply(d, m).dnd = m.dnd /\ apply(d, m).rows = d.rows
    BY <1>4 DEF apply, StoreWithin, Store
  <2> QED
    BY <1>4, <2>1, ClaimCases DEF Makes, Ends, Holds
<1> QED
  BY <1>1, <1>2, <1>3, <1>4 DEF Writes

-----------------------------------------------------------------------------
(* Claims behind a batch and behind the queue *)

\* Some place of M, among the first n, has no place of D after it.
Lasts(M, D, n) == \E k \in 1..n : k \in M /\ \A l \in (k + 1)..n : l \notin D

LEMMA LastsAppend ==
  ASSUME NEW n \in Nat, NEW M, NEW D, NEW M1, NEW D1,
         \A k \in 1..n : (k \in M1 <=> k \in M) /\ (k \in D1 <=> k \in D)
  PROVE  Lasts(M1, D1, n + 1) <=> n + 1 \in M1 \/ (Lasts(M, D, n) /\ n + 1 \notin D1)
<1>1. ASSUME Lasts(M1, D1, n + 1), n + 1 \notin M1 PROVE Lasts(M, D, n) /\ n + 1 \notin D1
  <2>1. PICK k \in 1..(n + 1) : k \in M1 /\ \A l \in (k + 1)..(n + 1) : l \notin D1
    BY <1>1 DEF Lasts
  <2>2. k \in 1..n /\ k \in M /\ n + 1 \in (k + 1)..(n + 1)
    BY <1>1, <2>1
  <2>3. \A l \in (k + 1)..n : l \in 1..n /\ l \in (k + 1)..(n + 1)
    BY <2>2
  <2> QED
    BY <2>1, <2>2, <2>3 DEF Lasts
<1>2. ASSUME n + 1 \in M1 PROVE Lasts(M1, D1, n + 1)
  <2>1. n + 1 \in 1..(n + 1) /\ ((n + 1) + 1)..(n + 1) = {}
    OBVIOUS
  <2> QED
    BY <1>2, <2>1 DEF Lasts
<1>3. ASSUME Lasts(M, D, n), n + 1 \notin D1 PROVE Lasts(M1, D1, n + 1)
  <2>1. PICK k \in 1..n : k \in M /\ \A l \in (k + 1)..n : l \notin D
    BY <1>3 DEF Lasts
  <2>2. k \in 1..(n + 1) /\ k \in M1
    BY <2>1
  <2>3. \A l \in (k + 1)..(n + 1) : (l \in 1..n /\ l \in (k + 1)..n) \/ l = n + 1
    BY <2>1
  <2> QED
    BY <1>3, <2>1, <2>2, <2>3 DEF Lasts
<1> QED
  BY <1>1, <1>2, <1>3

LEMMA LastsTail ==
  ASSUME NEW n \in Nat, NEW M, NEW D, NEW M1, NEW D1,
         \A k \in 1..n : (k \in M1 <=> k + 1 \in M) /\ (k \in D1 <=> k + 1 \in D)
  PROVE  Lasts(M, D, n + 1) <=> Lasts(M1, D1, n) \/ (1 \in M /\ \A k \in 1..n : k \notin D1)
<1>1. ASSUME Lasts(M, D, n + 1) PROVE Lasts(M1, D1, n) \/ (1 \in M /\ \A k \in 1..n : k \notin D1)
  <2>1. PICK k \in 1..(n + 1) : k \in M /\ \A l \in (k + 1)..(n + 1) : l \notin D
    BY <1>1 DEF Lasts
  <2>2. CASE k = 1
    <3>1. \A l \in 1..n : l + 1 \in (k + 1)..(n + 1)
      BY <2>2
    <3> QED
      BY <2>1, <2>2, <3>1
  <2>3. CASE k # 1
    <3>1. k - 1 \in 1..n /\ (k - 1) + 1 = k
      BY <2>3
    <3>2. \A l \in ((k - 1) + 1)..n : l \in 1..n /\ l + 1 \in (k + 1)..(n + 1)
      BY <3>1
    <3> QED
      BY <2>1, <3>1, <3>2 DEF Lasts
  <2> QED
    BY <2>2, <2>3
<1>2. ASSUME Lasts(M1, D1, n) PROVE Lasts(M, D, n + 1)
  <2>1. PICK k \in 1..n : k \in M1 /\ \A l \in (k + 1)..n : l \notin D1
    BY <1>2 DEF Lasts
  <2>2. k + 1 \in 1..(n + 1) /\ k + 1 \in M
    BY <2>1
  <2>3. \A l \in ((k + 1) + 1)..(n + 1) : l - 1 \in (k + 1)..n /\ l - 1 \in 1..n /\ (l - 1) + 1 = l
    OBVIOUS
  <2> QED
    BY <2>1, <2>2, <2>3 DEF Lasts
<1>3. ASSUME 1 \in M, \A k \in 1..n : k \notin D1 PROVE Lasts(M, D, n + 1)
  <2>1. \A l \in (1 + 1)..(n + 1) : l - 1 \in 1..n /\ (l - 1) + 1 = l
    OBVIOUS
  <2>2. 1 \in 1..(n + 1)
    OBVIOUS
  <2> QED
    BY <1>3, <2>1, <2>2 DEF Lasts
<1> QED
  BY <1>1, <1>2, <1>3

LEMMA LastsSame ==
  ASSUME NEW n \in Nat, NEW M, NEW D, NEW M1, NEW D1,
         \A k \in 1..n : (k \in M1 <=> k \in M) /\ (k \in D1 <=> k \in D)
  PROVE  Lasts(M1, D1, n) <=> Lasts(M, D, n)
<1>1. \A k \in 1..n : \A l \in (k + 1)..n : l \in 1..n
  OBVIOUS
<1> QED
  BY <1>1 DEF Lasts

\* The mutations of a batch that make a claim and those that end it.
Makers(b, c) == {k \in 1..Len(b) : Makes(b[k], c)}
Enders(b, c) == {k \in 1..Len(b) : Ends(b[k], c)}
MadeIn(b, c) == Lasts(Makers(b, c), Enders(b, c), Len(b))
EndedIn(b, c) == Enders(b, c) # {}
Left(d, b, c) == MadeIn(b, c) \/ (Holds(d, c) /\ ~EndedIn(b, c))

\* The same for the commands of the queue.
BatchOf(x) == IF x.kind = "batch" THEN x.rest ELSE <<>>
Making(q, c) == {i \in 1..Len(q) : MadeIn(BatchOf(q[i]), c)}
Ending(q, c) == {i \in 1..Len(q) : EndedIn(BatchOf(q[i]), c)}
MadeBehind(q, c) == Lasts(Making(q, c), Ending(q, c), Len(q))
EndedBehind(q, c) == Ending(q, c) # {}
Behind(d, q, c) == MadeBehind(q, c) \/ (Holds(d, c) /\ ~EndedBehind(q, c))

LEMMA EmptyIn == ASSUME NEW c PROVE ~MadeIn(<<>>, c) /\ ~EndedIn(<<>>, c)
<1>1. Len(<<>>) = 0 /\ 1..0 = {}
  OBVIOUS
<1> QED
  BY <1>1 DEF MadeIn, EndedIn, Makers, Enders, Lasts

LEMMA OneIn == ASSUME NEW m, NEW c PROVE (MadeIn(<<m>>, c) <=> Makes(m, c)) /\ (EndedIn(<<m>>, c) <=> Ends(m, c))
<1>1. Len(<<m>>) = 1 /\ 1..1 = {1} /\ <<m>>[1] = m /\ (1 + 1)..1 = {}
  OBVIOUS
<1> QED
  BY <1>1 DEF MadeIn, EndedIn, Makers, Enders, Lasts

LEMMA TailIn ==
  ASSUME NEW S, NEW b \in Seq(S), b # <<>>, NEW c
  PROVE  /\ MadeIn(b, c) <=> MadeIn(Tail(b), c) \/ (Makes(Head(b), c) /\ ~EndedIn(Tail(b), c))
         /\ EndedIn(b, c) <=> Ends(Head(b), c) \/ EndedIn(Tail(b), c)
<1> DEFINE n == Len(Tail(b))
<1>1. /\ n \in Nat /\ Len(b) = n + 1 /\ Head(b) = b[1]
      /\ \A k \in 1..n : Tail(b)[k] = b[k + 1] /\ k + 1 \in 1..(n + 1)
  OBVIOUS
<1> HIDE DEF n
<1>2. \A k \in 1..n : /\ k \in Makers(Tail(b), c) <=> k + 1 \in Makers(b, c)
                      /\ k \in Enders(Tail(b), c) <=> k + 1 \in Enders(b, c)
  BY <1>1 DEF Makers, Enders, n
<1>3. (1 \in Makers(b, c) <=> Makes(Head(b), c)) /\ (1 \in Enders(b, c) <=> Ends(Head(b), c))
  BY <1>1 DEF Makers, Enders
<1>4. EndedIn(Tail(b), c) <=> \E k \in 1..n : k \in Enders(Tail(b), c)
  BY DEF EndedIn, Enders, n
<1>5. EndedIn(b, c) <=> Ends(Head(b), c) \/ EndedIn(Tail(b), c)
  <2>1. \A k \in 1..(n + 1) : k = 1 \/ (k - 1 \in 1..n /\ (k - 1) + 1 = k)
    BY <1>1
  <2>2. \A k \in Enders(b, c) : k \in 1..(n + 1)
    BY <1>1 DEF Enders
  <2> QED
    BY <1>2, <1>3, <1>4, <2>1, <2>2 DEF EndedIn
<1>6. Lasts(Makers(b, c), Enders(b, c), n + 1) <=>
        \/ Lasts(Makers(Tail(b), c), Enders(Tail(b), c), n)
        \/ 1 \in Makers(b, c) /\ \A k \in 1..n : k \notin Enders(Tail(b), c)
  BY <1>1, <1>2, LastsTail
<1>7. Len(Tail(b)) = n
  BY DEF n
<1> QED
  BY <1>1, <1>3, <1>4, <1>5, <1>6, <1>7 DEF MadeIn

LEMMA ConcatIn ==
  ASSUME NEW S, NEW a \in Seq(S), NEW b \in Seq(S), NEW c
  PROVE  /\ MadeIn(a \o b, c) <=> MadeIn(b, c) \/ (MadeIn(a, c) /\ ~EndedIn(b, c))
         /\ EndedIn(a \o b, c) <=> EndedIn(a, c) \/ EndedIn(b, c)
<1> DEFINE n == Len(a)
           m == Len(b)
           ab == a \o b
<1>1. /\ n \in Nat /\ m \in Nat /\ Len(ab) = n + m
      /\ \A k \in 1..n : ab[k] = a[k]
      /\ \A k \in 1..m : ab[n + k] = b[k]
  OBVIOUS
<1> HIDE DEF n, m, ab
<1>2. /\ \A k \in 1..n : k \in 1..(n + m)
      /\ \A k \in 1..m : n + k \in 1..(n + m)
      /\ \A k \in 1..(n + m) : k \in 1..n \/ (k - n \in 1..m /\ n + (k - n) = k)
  BY <1>1
<1>3. \A k \in 1..n : /\ k \in Makers(ab, c) <=> k \in Makers(a, c)
                      /\ k \in Enders(ab, c) <=> k \in Enders(a, c)
  BY <1>1, <1>2 DEF Makers, Enders, n
<1>4. \A k \in 1..m : /\ n + k \in Makers(ab, c) <=> k \in Makers(b, c)
                      /\ n + k \in Enders(ab, c) <=> k \in Enders(b, c)
  BY <1>1, <1>2 DEF Makers, Enders, m
<1>5. /\ Makers(a, c) \subseteq 1..n /\ Enders(a, c) \subseteq 1..n
      /\ Makers(b, c) \subseteq 1..m /\ Enders(b, c) \subseteq 1..m
      /\ Makers(ab, c) \subseteq 1..(n + m) /\ Enders(ab, c) \subseteq 1..(n + m)
  BY <1>1 DEF Makers, Enders, n, m
<1>6. EndedIn(ab, c) <=> EndedIn(a, c) \/ EndedIn(b, c)
  BY <1>2, <1>3, <1>4, <1>5 DEF EndedIn
<1>7. /\ MadeIn(ab, c) <=> Lasts(Makers(ab, c), Enders(ab, c), n + m)
      /\ MadeIn(a, c) <=> Lasts(Makers(a, c), Enders(a, c), n)
      /\ MadeIn(b, c) <=> Lasts(Makers(b, c), Enders(b, c), m)
  BY <1>1 DEF MadeIn, n, m
<1>8. ASSUME MadeIn(ab, c) PROVE MadeIn(b, c) \/ (MadeIn(a, c) /\ ~EndedIn(b, c))
  <2>1. PICK k \in 1..(n + m) : k \in Makers(ab, c) /\ \A l \in (k + 1)..(n + m) : l \notin Enders(ab, c)
    BY <1>7, <1>8 DEF Lasts
  <2>2. CASE k \in 1..n
    <3>1. \A l \in 1..m : n + l \in (k + 1)..(n + m)
      BY <1>1, <2>2
    <3>2. ~EndedIn(b, c)
      BY <1>4, <1>5, <2>1, <3>1 DEF EndedIn
    <3>3. \A l \in (k + 1)..n : l \in 1..n /\ l \in (k + 1)..(n + m)
      BY <1>1, <2>2
    <3>4. Lasts(Makers(a, c), Enders(a, c), n)
      BY <1>3, <2>1, <2>2, <3>3 DEF Lasts
    <3> QED
      BY <1>7, <3>2, <3>4
  <2>3. CASE k - n \in 1..m /\ n + (k - n) = k
    <3>1. \A l \in ((k - n) + 1)..m : l \in 1..m /\ n + l \in (k + 1)..(n + m)
      BY <1>1, <2>3
    <3>2. Lasts(Makers(b, c), Enders(b, c), m)
      BY <1>4, <2>1, <2>3, <3>1 DEF Lasts
    <3> QED
      BY <1>7, <3>2
  <2> QED
    BY <1>2, <2>2, <2>3
<1>9. ASSUME MadeIn(b, c) PROVE MadeIn(ab, c)
  <2>1. PICK k \in 1..m : k \in Makers(b, c) /\ \A l \in (k + 1)..m : l \notin Enders(b, c)
    BY <1>7, <1>9 DEF Lasts
  <2>2. \A l \in ((n + k) + 1)..(n + m) : l - n \in (k + 1)..m /\ l - n \in 1..m /\ n + (l - n) = l
    BY <1>1
  <2>3. Lasts(Makers(ab, c), Enders(ab, c), n + m)
    BY <1>2, <1>4, <2>1, <2>2 DEF Lasts
  <2> QED
    BY <1>7, <2>3
<1>10. ASSUME MadeIn(a, c), ~EndedIn(b, c) PROVE MadeIn(ab, c)
  <2>1. PICK k \in 1..n : k \in Makers(a, c) /\ \A l \in (k + 1)..n : l \notin Enders(a, c)
    BY <1>7, <1>10 DEF Lasts
  <2>2. \A l \in (k + 1)..(n + m) : (l \in 1..n /\ l \in (k + 1)..n) \/ (l - n \in 1..m /\ n + (l - n) = l)
    BY <1>1
  <2>3. \A l \in 1..m : l \notin Enders(b, c)
    BY <1>10 DEF EndedIn
  <2>4. Lasts(Makers(ab, c), Enders(ab, c), n + m)
    BY <1>2, <1>3, <1>4, <2>1, <2>2, <2>3 DEF Lasts
  <2> QED
    BY <1>7, <2>4
<1> QED
  BY <1>6, <1>8, <1>9, <1>10 DEF ab

LEMMA TailBehind ==
  ASSUME NEW S, NEW q \in Seq(S), q # <<>>, NEW c
  PROVE  /\ MadeBehind(q, c) <=> MadeBehind(Tail(q), c) \/ (MadeIn(BatchOf(q[1]), c) /\ ~EndedBehind(Tail(q), c))
         /\ EndedBehind(q, c) <=> EndedIn(BatchOf(q[1]), c) \/ EndedBehind(Tail(q), c)
<1> DEFINE n == Len(Tail(q))
<1>1. /\ n \in Nat /\ Len(q) = n + 1
      /\ \A k \in 1..n : Tail(q)[k] = q[k + 1] /\ k + 1 \in 1..(n + 1)
  OBVIOUS
<1> HIDE DEF n
<1>2. \A k \in 1..n : /\ k \in Making(Tail(q), c) <=> k + 1 \in Making(q, c)
                      /\ k \in Ending(Tail(q), c) <=> k + 1 \in Ending(q, c)
  BY <1>1 DEF Making, Ending, n
<1>3. /\ 1 \in Making(q, c) <=> MadeIn(BatchOf(q[1]), c)
      /\ 1 \in Ending(q, c) <=> EndedIn(BatchOf(q[1]), c)
  BY <1>1 DEF Making, Ending
<1>4. EndedBehind(Tail(q), c) <=> \E k \in 1..n : k \in Ending(Tail(q), c)
  BY DEF EndedBehind, Ending, n
<1>5. EndedBehind(q, c) <=> EndedIn(BatchOf(q[1]), c) \/ EndedBehind(Tail(q), c)
  <2>1. \A k \in 1..(n + 1) : k = 1 \/ (k - 1 \in 1..n /\ (k - 1) + 1 = k)
    BY <1>1
  <2>2. \A k \in Ending(q, c) : k \in 1..(n + 1)
    BY <1>1 DEF Ending
  <2> QED
    BY <1>2, <1>3, <1>4, <2>1, <2>2 DEF EndedBehind
<1>6. Lasts(Making(q, c), Ending(q, c), n + 1) <=>
        \/ Lasts(Making(Tail(q), c), Ending(Tail(q), c), n)
        \/ 1 \in Making(q, c) /\ \A k \in 1..n : k \notin Ending(Tail(q), c)
  BY <1>1, <1>2, LastsTail
<1>7. Len(Tail(q)) = n
  BY DEF n
<1> QED
  BY <1>1, <1>3, <1>4, <1>5, <1>6, <1>7 DEF MadeBehind

\* A first command without mutations says nothing.
LEMMA SkipBehind ==
  ASSUME NEW S, NEW q \in Seq(S), q # <<>>, BatchOf(q[1]) = <<>>, NEW d, NEW c
  PROVE  Behind(d, Tail(q), c) <=> Behind(d, q, c)
BY TailBehind, EmptyIn DEF Behind

\* The first mutation of the first batch can be applied.
LEMMA ApplyBehind ==
  ASSUME NEW E, NEW d, StoreWithin(d, E), NEW b \in Seq(Writes(E)), b # <<>>, NEW c \in Claims,
         NEW S, NEW q \in Seq(S), q # <<>>, BatchOf(q[1]) = b,
         NEW r \in Seq(S), r # <<>>, Tail(r) = Tail(q), BatchOf(r[1]) = Tail(b)
  PROVE  Behind(apply(d, Head(b)), r, c) <=> Behind(d, q, c)
<1>1. Head(b) \in Writes(E)
  OBVIOUS
<1>2. Holds(apply(d, Head(b)), c) <=> Makes(Head(b), c) \/ (Holds(d, c) /\ ~Ends(Head(b), c))
  BY <1>1, ApplyHolds
<1>3. /\ MadeIn(b, c) <=> MadeIn(Tail(b), c) \/ (Makes(Head(b), c) /\ ~EndedIn(Tail(b), c))
      /\ EndedIn(b, c) <=> Ends(Head(b), c) \/ EndedIn(Tail(b), c)
  BY TailIn
<1>4. /\ MadeBehind(q, c) <=> MadeBehind(Tail(q), c) \/ (MadeIn(b, c) /\ ~EndedBehind(Tail(q), c))
      /\ EndedBehind(q, c) <=> EndedIn(b, c) \/ EndedBehind(Tail(q), c)
  BY TailBehind
<1>5. /\ MadeBehind(r, c) <=> MadeBehind(Tail(q), c) \/ (MadeIn(Tail(b), c) /\ ~EndedBehind(Tail(q), c))
      /\ EndedBehind(r, c) <=> EndedIn(Tail(b), c) \/ EndedBehind(Tail(q), c)
  BY TailBehind
<1> QED
  BY <1>2, <1>3, <1>4, <1>5 DEF Behind

LEMMA AppendBehind ==
  ASSUME NEW S, NEW q \in Seq(S), NEW x, NEW d, NEW c
  PROVE  Behind(d, Append(q, x), c) <=> MadeIn(BatchOf(x), c) \/ (Behind(d, q, c) /\ ~EndedIn(BatchOf(x), c))
<1> DEFINE n == Len(q)
           r == Append(q, x)
<1>1. n \in Nat /\ Len(r) = n + 1 /\ r[n + 1] = x /\ \A k \in 1..n : r[k] = q[k]
  OBVIOUS
<1> HIDE DEF n, r
<1>2. /\ \A k \in 1..n : k \in 1..(n + 1)
      /\ \A k \in 1..(n + 1) : k \in 1..n \/ k = n + 1
      /\ n + 1 \in 1..(n + 1)
  BY <1>1
<1>3. \A k \in 1..n : (k \in Making(r, c) <=> k \in Making(q, c)) /\ (k \in Ending(r, c) <=> k \in Ending(q, c))
  BY <1>1, <1>2 DEF Making, Ending, n
<1>4. (n + 1 \in Making(r, c) <=> MadeIn(BatchOf(x), c)) /\ (n + 1 \in Ending(r, c) <=> EndedIn(BatchOf(x), c))
  BY <1>1, <1>2 DEF Making, Ending
<1>5. Ending(r, c) \subseteq 1..(n + 1) /\ Ending(q, c) \subseteq 1..n
  BY <1>1 DEF Ending, n
<1>6. EndedBehind(r, c) <=> EndedBehind(q, c) \/ EndedIn(BatchOf(x), c)
  BY <1>2, <1>3, <1>4, <1>5 DEF EndedBehind
<1>7. MadeBehind(r, c) <=> MadeIn(BatchOf(x), c) \/ (MadeBehind(q, c) /\ ~EndedIn(BatchOf(x), c))
  <2>1. MadeBehind(r, c) <=> Lasts(Making(r, c), Ending(r, c), n + 1)
    BY <1>1 DEF MadeBehind
  <2>2. MadeBehind(q, c) <=> Lasts(Making(q, c), Ending(q, c), n)
    BY DEF MadeBehind, n
  <2>3. Lasts(Making(r, c), Ending(r, c), n + 1) <=>
           n + 1 \in Making(r, c) \/ (Lasts(Making(q, c), Ending(q, c), n) /\ n + 1 \notin Ending(r, c))
    BY <1>1, <1>3, LastsAppend
  <2> QED
    BY <1>4, <2>1, <2>2, <2>3
<1> QED
  BY <1>6, <1>7 DEF Behind, r

LEMMA SameBehind ==
  ASSUME NEW S, NEW q \in Seq(S), NEW r, Len(r) = Len(q),
         \A i \in 1..Len(q) : BatchOf(r[i]) = BatchOf(q[i]), NEW d, NEW c
  PROVE  Behind(d, r, c) <=> Behind(d, q, c)
<1>1. Len(q) \in Nat
  OBVIOUS
<1>2. Making(r, c) = Making(q, c) /\ Ending(r, c) = Ending(q, c)
  BY DEF Making, Ending
<1> QED
  BY <1>2 DEF Behind, MadeBehind, EndedBehind

LEMMA EmptyBehind == ASSUME NEW d, NEW c PROVE Behind(d, <<>>, c) <=> Holds(d, c)
<1>1. Len(<<>>) = 0 /\ 1..0 = {}
  OBVIOUS
<1> QED
  BY <1>1 DEF Behind, MadeBehind, EndedBehind, Making, Ending, Lasts

\* A claim holds in the store behind a batch exactly when the batch leaves it so.
LEMMA ReplayHolds ==
  ASSUME NEW E, NEW d, StoreWithin(d, E), NEW b \in Seq(Writes(E)), NEW c \in Claims
  PROVE  StoreWithin(Replay(d, b), E) /\ (Holds(Replay(d, b), c) <=> Left(d, b, c))
<1>1. Len(b) \in Nat /\ \A k \in 1..Len(b) : b[k] \in Writes(E)
  OBVIOUS
<1>2. PICK f : Replays(f, d, b, Len(b)) /\ Replay(d, b) = f[Len(b)]
  BY <1>1, ReplayIs
<1> DEFINE M == Makers(b, c)
           D == Enders(b, c)
           LeftBy(n) == Lasts(M, D, n) \/ (Holds(d, c) /\ \A k \in 1..n : k \notin D)
           T == {n \in Nat : n <= Len(b) => StoreWithin(f[n], E) /\ (Holds(f[n], c) <=> LeftBy(n))}
<1>3. 0 \in T
  <2>1. 1..0 = {} /\ f[0] = d
    BY <1>2 DEF Replays
  <2> QED
    BY <2>1 DEF Lasts
<1>4. ASSUME NEW n \in Nat, n \in T PROVE n + 1 \in T
  <2> SUFFICES ASSUME n + 1 <= Len(b)
               PROVE  StoreWithin(f[n + 1], E) /\ (Holds(f[n + 1], c) <=> LeftBy(n + 1))
    OBVIOUS
  <2>1. n + 1 \in 1..Len(b) /\ n <= Len(b) /\ (n + 1) - 1 = n
    BY <1>1
  <2>2. StoreWithin(f[n], E) /\ (Holds(f[n], c) <=> LeftBy(n))
    BY <1>4, <2>1
  <2>3. f[n + 1] = apply(f[n], b[n + 1]) /\ b[n + 1] \in Writes(E)
    BY <1>1, <1>2, <2>1 DEF Replays
  <2>4. StoreWithin(f[n + 1], E)
    BY <2>2, <2>3, ApplyWithin
  <2>5. Holds(f[n + 1], c) <=> n + 1 \in M \/ (Holds(f[n], c) /\ n + 1 \notin D)
    BY <2>1, <2>2, <2>3, ApplyHolds DEF Makers, Enders
  <2> HIDE DEF M, D
  <2>6. Lasts(M, D, n + 1) <=> n + 1 \in M \/ (Lasts(M, D, n) /\ n + 1 \notin D)
    BY LastsAppend
  <2>7. (\A k \in 1..(n + 1) : k \notin D) <=> (\A k \in 1..n : k \notin D) /\ n + 1 \notin D
    <3>1. \A k \in 1..(n + 1) : k \in 1..n \/ k = n + 1
      OBVIOUS
    <3>2. n + 1 \in 1..(n + 1) /\ \A k \in 1..n : k \in 1..(n + 1)
      OBVIOUS
    <3> QED
      BY <3>1, <3>2
  <2>8. Holds(f[n + 1], c) <=> LeftBy(n + 1)
    BY <2>2, <2>5, <2>6, <2>7
  <2> QED
    BY <2>4, <2>8
<1>5. Nat \subseteq T
  <2> HIDE DEF T
  <2> QED
    BY <1>3, <1>4, SetInduction
<1>6. Len(b) \in T /\ Len(b) <= Len(b)
  BY <1>1, <1>5
<1>7. StoreWithin(f[Len(b)], E) /\ (Holds(f[Len(b)], c) <=> LeftBy(Len(b)))
  BY <1>6
<1>8. LeftBy(Len(b)) <=> Left(d, b, c)
  BY DEF Left, MadeIn, EndedIn, Enders
<1> QED
  BY <1>2, <1>7, <1>8

\* g lists the stores behind the first commands of the queue.
QueueReplays(g, d, q, n) ==
  /\ DOMAIN g = 0..n /\ g[0] = d
  /\ \A i \in 1..n : g[i] = IF q[i].kind = "batch" THEN Replay(g[i - 1], q[i].rest) ELSE g[i - 1]

LEMMA QueueReplaysExist ==
  ASSUME NEW d, NEW q
  PROVE  \A n \in Nat : \E g : QueueReplays(g, d, q, n)
<1> DEFINE T == {n \in Nat : \E g : QueueReplays(g, d, q, n)}
<1>1. 0 \in T
  <2> DEFINE g == [k \in 0..0 |-> d]
  <2>1. QueueReplays(g, d, q, 0)
    BY DEF QueueReplays
  <2> HIDE DEF g
  <2> QED
    BY <2>1
<1>2. ASSUME NEW n \in Nat, n \in T PROVE n + 1 \in T
  <2>1. PICK f : QueueReplays(f, d, q, n)
    BY <1>2
  <2> DEFINE last == IF q[n + 1].kind = "batch" THEN Replay(f[n], q[n + 1].rest) ELSE f[n]
             g == [k \in 0..(n + 1) |-> IF k = n + 1 THEN last ELSE f[k]]
  <2>2. DOMAIN g = 0..(n + 1) /\ g[0] = d
    BY <2>1 DEF QueueReplays
  <2>3. ASSUME NEW k \in 1..(n + 1)
        PROVE  g[k] = IF q[k].kind = "batch" THEN Replay(g[k - 1], q[k].rest) ELSE g[k - 1]
    <3>1. CASE k = n + 1
      <4>1. g[k] = last /\ g[k - 1] = f[n]
        BY <3>1
      <4> QED
        BY <3>1, <4>1
    <3>2. CASE k # n + 1
      <4>1. k \in 1..n /\ g[k] = f[k] /\ g[k - 1] = f[k - 1]
        BY <3>2
      <4> QED
        BY <2>1, <4>1 DEF QueueReplays
    <3> QED
      BY <3>1, <3>2
  <2> HIDE DEF g
  <2>4. QueueReplays(g, d, q, n + 1)
    BY <2>2, <2>3 DEF QueueReplays
  <2> QED
    BY <2>4
<1>3. Nat \subseteq T
  <2> HIDE DEF T
  <2> QED
    BY <1>1, <1>2, SetInduction
<1> QED
  BY <1>3

LEMMA ReplayedIs ==
  ASSUME Len(queue) \in Nat
  PROVE  \E g : QueueReplays(g, db, queue, Len(queue)) /\ Replayed = g[Len(queue)]
<1> DEFINE n == Len(queue)
           step(f, i) == IF queue[i].kind = "batch" THEN Replay(f[i - 1], queue[i].rest) ELSE f[i - 1]
           P(f) == f = [i \in 0..n |-> IF i = 0 THEN db ELSE step(f, i)]
<1>1. PICK g : QueueReplays(g, db, queue, n)
  BY QueueReplaysExist
<1>2. P(CHOOSE f : P(f))
  <2>1. \E f : P(f)
    <3> HIDE DEF n
    <3> DEFINE h == [i \in 0..n |-> IF i = 0 THEN db ELSE step(g, i)]
    <3>0. n \in Nat
      BY DEF n
    <3>1. \A i \in 0..n : h[i] = g[i]
      BY <1>1, <3>0 DEF QueueReplays
    <3>2. \A i \in 0..n : i # 0 => i - 1 \in 0..n
      BY <3>0
    <3>3. \A i \in 0..n : i # 0 => step(h, i) = step(g, i)
      BY <3>1, <3>2
    <3>4. h = [i \in 0..n |-> IF i = 0 THEN db ELSE step(h, i)]
      <4> HIDE DEF step
      <4> QED
        BY <3>3
    <3> HIDE DEF h
    <3> QED
      BY <3>4
  <2> HIDE DEF P
  <2> QED
    BY <2>1
<1>3. PICK f : P(f) /\ Replayed = f[n]
  BY <1>2 DEF Replayed, n
<1> HIDE DEF n
<1>4. QueueReplays(f, db, queue, n)
  <2>0. n \in Nat
    BY DEF n
  <2>1. DOMAIN f = 0..n /\ f[0] = db
    BY <1>3, <2>0
  <2>2. ASSUME NEW i \in 1..n PROVE f[i] = step(f, i)
    <3>1. i \in 0..n /\ i # 0
      BY <2>0
    <3> HIDE DEF step
    <3> QED
      BY <1>3, <3>1
  <2> QED
    BY <2>1, <2>2 DEF QueueReplays
<1> QED
  BY <1>3, <1>4 DEF n

\* The store behind the queue satisfies exactly the claims that the queue leaves.
LEMMA ReplayedHolds ==
  ASSUME OnceInv, DataInv, NEW c \in Claims
  PROVE  StoreWithin(Replayed, Extant) /\ (Holds(Replayed, c) <=> Behind(db, queue, c))
<1>1. Len(queue) \in Nat /\ \A i \in 1..Len(queue) : Proper(queue[i], arg, Extant)
  <2>1. PICK S : queue \in Seq(S)
    BY DEF OnceInv, QueueInv
  <2> QED
    BY <2>1 DEF DataInv, CommandsInv
<1>2. PICK g : QueueReplays(g, db, queue, Len(queue)) /\ Replayed = g[Len(queue)]
  BY <1>1, ReplayedIs
<1> DEFINE M == Making(queue, c)
           D == Ending(queue, c)
           LeftBy(n) == Lasts(M, D, n) \/ (Holds(db, c) /\ \A k \in 1..n : k \notin D)
           T == {n \in Nat : n <= Len(queue) => StoreWithin(g[n], Extant) /\ (Holds(g[n], c) <=> LeftBy(n))}
<1>3. 0 \in T
  <2>1. 1..0 = {} /\ g[0] = db
    BY <1>2 DEF QueueReplays
  <2>2. StoreWithin(db, Extant)
    BY DEF DataInv, StoreInv
  <2> QED
    BY <2>1, <2>2 DEF Lasts
<1>4. ASSUME NEW n \in Nat, n \in T PROVE n + 1 \in T
  <2> SUFFICES ASSUME n + 1 <= Len(queue)
               PROVE  StoreWithin(g[n + 1], Extant) /\ (Holds(g[n + 1], c) <=> LeftBy(n + 1))
    OBVIOUS
  <2>1. n + 1 \in 1..Len(queue) /\ n <= Len(queue) /\ (n + 1) - 1 = n
    BY <1>1
  <2>2. StoreWithin(g[n], Extant) /\ (Holds(g[n], c) <=> LeftBy(n))
    BY <1>4, <2>1
  <2> DEFINE x == queue[n + 1]
  <2>3. g[n + 1] = IF x.kind = "batch" THEN Replay(g[n], x.rest) ELSE g[n]
    BY <1>2, <2>1 DEF QueueReplays
  <2>4. x.kind = "batch" => x.rest \in Seq(Writes(Extant))
    BY <1>1, <2>1 DEF Proper
  <2>5. (n + 1 \in M <=> MadeIn(BatchOf(x), c)) /\ (n + 1 \in D <=> EndedIn(BatchOf(x), c))
    BY <2>1 DEF Making, Ending
  <2> HIDE DEF x, M, D
  <2>6. StoreWithin(g[n + 1], Extant) /\ (Holds(g[n + 1], c) <=> n + 1 \in M \/ (Holds(g[n], c) /\ n + 1 \notin D))
    <3>1. CASE x.kind = "batch"
      <4>1. g[n + 1] = Replay(g[n], x.rest) /\ BatchOf(x) = x.rest
        BY <2>3, <3>1 DEF BatchOf
      <4>2. StoreWithin(Replay(g[n], x.rest), Extant) /\ (Holds(Replay(g[n], x.rest), c) <=> Left(g[n], x.rest, c))
        BY <2>2, <2>4, <3>1, ReplayHolds
      <4> QED
        BY <2>5, <4>1, <4>2 DEF Left
    <3>2. CASE x.kind # "batch"
      <4>1. g[n + 1] = g[n] /\ BatchOf(x) = <<>>
        BY <2>3, <3>2 DEF BatchOf
      <4> QED
        BY <2>2, <2>5, <4>1, EmptyIn
    <3> QED
      BY <3>1, <3>2
  <2>7. Lasts(M, D, n + 1) <=> n + 1 \in M \/ (Lasts(M, D, n) /\ n + 1 \notin D)
    BY LastsAppend
  <2>8. (\A k \in 1..(n + 1) : k \notin D) <=> (\A k \in 1..n : k \notin D) /\ n + 1 \notin D
    <3>1. \A k \in 1..(n + 1) : k \in 1..n \/ k = n + 1
      OBVIOUS
    <3>2. n + 1 \in 1..(n + 1) /\ \A k \in 1..n : k \in 1..(n + 1)
      OBVIOUS
    <3> QED
      BY <3>1, <3>2
  <2> QED
    BY <2>2, <2>6, <2>7, <2>8
<1>5. Nat \subseteq T
  <2> HIDE DEF T
  <2> QED
    BY <1>3, <1>4, SetInduction
<1>6. Len(queue) \in T /\ Len(queue) <= Len(queue)
  BY <1>1, <1>5
<1>7. StoreWithin(g[Len(queue)], Extant) /\ (Holds(g[Len(queue)], c) <=> LeftBy(Len(queue)))
  BY <1>6
<1>8. LeftBy(Len(queue)) <=> Behind(db, queue, c)
  BY DEF Behind, MadeBehind, EndedBehind, Ending
<1> QED
  BY <1>2, <1>7, <1>8

-----------------------------------------------------------------------------
(* What a handler's batch says *)

\* A batch ends the conversations of K, opens the positions of P, and sets DND
\* to the mode in D.
Says(b, K, P, D) ==
  \A c \in Claims :
    /\ c[1] = "open" => (EndedIn(b, c) <=> c[2][1] \in K) /\ (MadeIn(b, c) <=> c[2] \in P)
    /\ c[1] = "dnd" => (EndedIn(b, c) <=> D # {}) /\ (MadeIn(b, c) <=> c[2] \in D)

LEMMA EmptySays == Says(<<>>, {}, {}, {})
BY EmptyIn DEF Says

LEMMA SavedSays ==
  ASSUME NEW n PROVE Says(<<Saved(n)>>, {n.id}, IF n.transient THEN {} ELSE {Position(n)}, {})
<1>1. /\ Saved(n).op = "save" /\ Saved(n).note.id = n.id /\ Saved(n).note.transient = n.transient
      /\ Position(Saved(n).note) = Position(n)
  BY DEF Saved, Position
<1>2. \A c \in Claims : c[1] = "open" \/ c[1] = "dnd"
  BY ClaimCases
<1> QED
  BY <1>1, <1>2, OneIn DEF Says, Makes, Ends

LEMMA ClosedSays == ASSUME NEW id PROVE Says(<<Closed(id)>>, {id}, {}, {})
<1>1. Closed(id).op = "close" /\ Closed(id).id = id
  BY DEF Closed
<1>2. \A c \in Claims : c[1] = "open" \/ c[1] = "dnd"
  BY ClaimCases
<1> QED
  BY <1>1, <1>2, OneIn DEF Says, Makes, Ends

LEMMA ClearedSays == Says(<<Cleared>>, Ids, {}, {})
<1>1. Cleared.op = "clear"
  BY DEF Cleared
<1>2. \A c \in Claims : (c[1] = "open" /\ c[2][1] \in Ids) \/ c[1] = "dnd"
  BY ClaimCases
<1> QED
  BY <1>1, <1>2, OneIn DEF Says, Makes, Ends

LEMMA DndSays == ASSUME NEW d PROVE Says(<<DndSet(d)>>, {}, {}, {d})
<1>1. DndSet(d).op = "dnd" /\ DndSet(d).dnd = d
  BY DEF DndSet
<1>2. \A c \in Claims : c[1] = "open" \/ c[1] = "dnd"
  BY ClaimCases
<1> QED
  BY <1>1, <1>2, OneIn DEF Says, Makes, Ends

LEMMA ClosesSays == ASSUME NEW K, K \subseteq Ids PROVE Says(Closes(K), K, {}, {})
<1>0. MaxId \in Nat
  BY EngineAssumption
<1> DEFINE n == Cardinality(K)
           s == InOrder(K)
           b == Closes(K)
<1>1. n \in Nat /\ Lists(s, n, K)
  BY <1>0, InOrderLists DEF Ids
<1>2. Len(b) = n /\ \A k \in 1..n : b[k] = Closed(s[k])
  BY <1>1 DEF Closes
<1>3. \A k \in 1..n : b[k].op = "close" /\ b[k].id = s[k]
  BY <1>2 DEF Closed
<1> HIDE DEF n, s, b
<1>4. \A i \in K : \E k \in 1..n : s[k] = i
  BY <1>1 DEF Lists
<1>5. \A k \in 1..n : s[k] \in K
  BY <1>1 DEF Lists
<1> SUFFICES ASSUME NEW c \in Claims
             PROVE  /\ c[1] = "open" => (EndedIn(b, c) <=> c[2][1] \in K) /\ ~MadeIn(b, c)
                    /\ c[1] = "dnd" => ~EndedIn(b, c) /\ ~MadeIn(b, c)
  BY DEF Says, b
<1>6. Makers(b, c) = {}
  BY <1>2, <1>3 DEF Makers, Makes
<1>7. ~MadeIn(b, c)
  BY <1>6 DEF MadeIn, Lasts
<1>8. c[1] = "open" => (EndedIn(b, c) <=> c[2][1] \in K)
  BY <1>2, <1>3, <1>4, <1>5 DEF EndedIn, Enders, Ends
<1>9. c[1] = "dnd" => ~EndedIn(b, c)
  BY <1>2, <1>3 DEF EndedIn, Enders, Ends
<1> QED
  BY <1>7, <1>8, <1>9

LEMMA SavesSays ==
  ASSUME NEW K, K \subseteq Ids, NEW notes, \A i \in K : notes[i].id = i
  PROVE  Says(Saves(K, notes), K, {Position(notes[i]) : i \in {j \in K : ~notes[j].transient}}, {})
<1>0. MaxId \in Nat
  BY EngineAssumption
<1> DEFINE n == Cardinality(K)
           s == InOrder(K)
           b == Saves(K, notes)
           P == {Position(notes[i]) : i \in {j \in K : ~notes[j].transient}}
<1>1. n \in Nat /\ Lists(s, n, K)
  BY <1>0, InOrderLists DEF Ids
<1>2. Len(b) = n /\ \A k \in 1..n : b[k] = Saved(notes[s[k]])
  BY <1>1 DEF Saves
<1>5. (\A k \in 1..n : s[k] \in K) /\ (\A i \in K : \E k \in 1..n : s[k] = i)
  BY <1>1 DEF Lists
<1>6. \A k, l \in 1..n : k < l => s[k] < s[l]
  BY <1>1 DEF Lists
<1>3. ASSUME NEW k \in 1..n
      PROVE  /\ b[k].op = "save" /\ b[k].note.id = s[k] /\ b[k].note.transient = notes[s[k]].transient
             /\ Position(b[k].note) = Position(notes[s[k]])
             /\ Position(notes[s[k]])[1] = s[k]
  BY <1>2, <1>5 DEF Saved, Position
<1>7. \A p \in P : \E k \in 1..n : p = Position(notes[s[k]]) /\ ~notes[s[k]].transient
  BY <1>5
<1>8. \A k \in 1..n : ~notes[s[k]].transient => Position(notes[s[k]]) \in P
  BY <1>5
<1> HIDE DEF n, s, b, P
<1> SUFFICES ASSUME NEW c \in Claims
             PROVE  /\ c[1] = "open" => (EndedIn(b, c) <=> c[2][1] \in K) /\ (MadeIn(b, c) <=> c[2] \in P)
                    /\ c[1] = "dnd" => ~EndedIn(b, c) /\ ~MadeIn(b, c)
  BY DEF Says, b, P
<1>9. ASSUME c[1] = "dnd" PROVE ~EndedIn(b, c) /\ ~MadeIn(b, c)
  <2>1. Makers(b, c) = {} /\ Enders(b, c) = {}
    BY <1>2, <1>3, <1>9 DEF Makers, Makes, Enders, Ends
  <2> QED
    BY <2>1 DEF MadeIn, EndedIn, Lasts
<1>10. ASSUME c[1] = "open" PROVE EndedIn(b, c) <=> c[2][1] \in K
  BY <1>2, <1>3, <1>5, <1>10 DEF EndedIn, Enders, Ends
<1>11. ASSUME c[1] = "open", MadeIn(b, c) PROVE c[2] \in P
  <2>1. PICK k \in 1..n : k \in Makers(b, c)
    BY <1>2, <1>11 DEF MadeIn, Lasts
  <2>2. ~notes[s[k]].transient /\ Position(notes[s[k]]) = c[2]
    BY <1>2, <1>3, <1>11, <2>1 DEF Makers, Makes
  <2> QED
    BY <1>8, <2>1, <2>2
<1>12. ASSUME c[1] = "open", c[2] \in P PROVE MadeIn(b, c)
  <2>1. PICK k \in 1..n : c[2] = Position(notes[s[k]]) /\ ~notes[s[k]].transient
    BY <1>7, <1>12
  <2>2. k \in Makers(b, c)
    BY <1>2, <1>3, <1>12, <2>1 DEF Makers, Makes
  <2>3. ASSUME NEW l \in (k + 1)..n PROVE l \notin Enders(b, c)
    <3>1. l \in 1..n /\ k < l
      BY <1>1, <2>1, <2>3
    <3>2. s[k] < s[l] /\ s[k] \in 1..MaxId /\ s[l] \in 1..MaxId
      BY <1>5, <1>6, <3>1 DEF Ids
    <3>3. s[l] # c[2][1]
      BY <1>0, <1>3, <2>1, <3>2
    <3> QED
      BY <1>3, <1>12, <3>1, <3>3 DEF Enders, Ends
  <2> QED
    BY <1>2, <2>1, <2>2, <2>3 DEF MadeIn, Lasts
<1> QED
  BY <1>9, <1>10, <1>11, <1>12

\* What one batch leaves of what another one before it says.
OpenAfter(P, L, Q) == Q \cup {p \in P : p[1] \notin L}
DndAfter(D, F) == IF F = {} THEN D ELSE F

LEMMA ConcatSays ==
  ASSUME NEW S, NEW a \in Seq(S), NEW b \in Seq(S), NEW K, NEW P, NEW D, NEW L, NEW Q, NEW F,
         Says(a, K, P, D), Says(b, L, Q, F)
  PROVE  Says(a \o b, K \cup L, OpenAfter(P, L, Q), DndAfter(D, F))
<1> SUFFICES ASSUME NEW c \in Claims
             PROVE  /\ c[1] = "open" =>
                         /\ EndedIn(a \o b, c) <=> c[2][1] \in K \cup L
                         /\ MadeIn(a \o b, c) <=> c[2] \in OpenAfter(P, L, Q)
                    /\ c[1] = "dnd" =>
                         /\ EndedIn(a \o b, c) <=> DndAfter(D, F) # {}
                         /\ MadeIn(a \o b, c) <=> c[2] \in DndAfter(D, F)
  BY DEF Says
<1>1. /\ MadeIn(a \o b, c) <=> MadeIn(b, c) \/ (MadeIn(a, c) /\ ~EndedIn(b, c))
      /\ EndedIn(a \o b, c) <=> EndedIn(a, c) \/ EndedIn(b, c)
  BY ConcatIn
<1>2. CASE c[1] = "open"
  BY <1>1, <1>2 DEF Says, OpenAfter
<1>3. CASE c[1] = "dnd"
  BY <1>1, <1>3 DEF Says, DndAfter
<1> QED
  BY <1>2, <1>3, ClaimCases

-----------------------------------------------------------------------------
(* The engine and the store behind the queue *)

\* The positions of the notifications in a that are not transient.
Lasting(a) == {Position(a[i]) : i \in {j \in DOMAIN a : ~a[j].transient}}
Keyed(a) == \A i \in DOMAIN a : a[i].id = i

LEMMA PersistentLasts == Persistent = Lasting(active)
BY DEF Persistent, Lasting

LEMMA LastingAt ==
  ASSUME NEW a, Keyed(a), NEW p
  PROVE  p \in Lasting(a) <=> p[1] \in DOMAIN a /\ ~a[p[1]].transient /\ p = Position(a[p[1]])
<1>1. \A i \in DOMAIN a : Position(a[i])[1] = i
  BY DEF Position, Keyed
<1> QED
  BY <1>1 DEF Lasting

LEMMA LastingWithout ==
  ASSUME NEW a, Keyed(a), NEW K, NEW p
  PROVE  Keyed(Without(a, K)) /\ (p \in Lasting(Without(a, K)) <=> p \in Lasting(a) /\ p[1] \notin K)
<1>1. DOMAIN Without(a, K) = DOMAIN a \ K /\ \A i \in DOMAIN a \ K : Without(a, K)[i] = a[i]
  BY DEF Without
<1>2. Keyed(Without(a, K))
  BY <1>1 DEF Keyed
<1> QED
  BY <1>1, <1>2, LastingAt

LEMMA LastingWith ==
  ASSUME NEW a, Keyed(a), NEW x, NEW n, n.id = x, NEW p
  PROVE  /\ Keyed(With(a, x, n))
         /\ p \in Lasting(With(a, x, n)) <=>
              (~n.transient /\ p = Position(n)) \/ (p \in Lasting(a) /\ p[1] # x)
<1> DEFINE w == With(a, x, n)
<1>1. /\ DOMAIN w = DOMAIN a \cup {x} /\ w[x] = n
      /\ \A i \in DOMAIN a : i # x => w[i] = a[i]
  BY DEF With
<1> HIDE DEF w
<1>2. Keyed(w)
  BY <1>1 DEF Keyed
<1>3. Position(n)[1] = x
  BY DEF Position
<1>4. p \in Lasting(w) <=> p[1] \in DOMAIN w /\ ~w[p[1]].transient /\ p = Position(w[p[1]])
  BY <1>2, LastingAt
<1>5. p \in Lasting(a) <=> p[1] \in DOMAIN a /\ ~a[p[1]].transient /\ p = Position(a[p[1]])
  BY LastingAt
<1>6. p \in Lasting(w) <=> (~n.transient /\ p = Position(n)) \/ (p \in Lasting(a) /\ p[1] # x)
  <2>1. CASE p[1] = x
    BY <1>1, <1>3, <1>4, <2>1
  <2>2. CASE p[1] # x
    BY <1>1, <1>3, <1>4, <1>5, <2>2
  <2> QED
    BY <2>1, <2>2
<1> QED
  BY <1>2, <1>6 DEF w

\* What the engine claims of the store: these positions are open, DND has this mode.
Held(t, m, c) == (c[1] = "open" /\ c[2] \in t) \/ (c[1] = "dnd" /\ c[2] = m)
\* A row past the history duration or just deleted may be missing.
Excused(a, g, c) == c[1] = "open" /\ (c[2][2] <= a \/ c[2] \in g)
Matches(d, q, t, m, a, g) ==
  \A c \in Claims : /\ Behind(d, q, c) => Held(t, m, c)
                    /\ Held(t, m, c) => Behind(d, q, c) \/ Excused(a, g, c)

Enqueued(q, b) == IF b = <<>> THEN q ELSE Append(q, [kind |-> "batch", rest |-> b])
\* The engine's claims (t1, m1) are those of (t, m) changed by what a batch says.
Follows(t, m, K, P, D, t1, m1) ==
  /\ \A p \in Ids \X Stamps : p \in t1 <=> p \in P \/ (p \in t /\ p[1] \notin K)
  /\ (D = {} /\ m1 = m) \/ D = {m1}

\* A handler's batch takes the claims from one engine to the next.
LEMMA EnqueueMatches ==
  ASSUME NEW S, NEW q \in Seq(S), NEW d, NEW t, NEW m, NEW a, NEW g, Matches(d, q, t, m, a, g),
         NEW b, NEW K, NEW P, NEW D, Says(b, K, P, D), NEW t1, NEW m1, Follows(t, m, K, P, D, t1, m1)
  PROVE  Matches(d, Enqueued(q, b), t1, m1, a, g)
<1> DEFINE r == Enqueued(q, b)
<1> SUFFICES ASSUME NEW c \in Claims
             PROVE  /\ Behind(d, r, c) => Held(t1, m1, c)
                    /\ Held(t1, m1, c) => Behind(d, r, c) \/ Excused(a, g, c)
  BY DEF Matches
<1>1. Behind(d, r, c) <=> MadeIn(b, c) \/ (Behind(d, q, c) /\ ~EndedIn(b, c))
  <2>1. CASE b = <<>>
    BY <2>1, EmptyIn DEF Enqueued
  <2>2. CASE b # <<>>
    <3> DEFINE x == [kind |-> "batch", rest |-> b]
    <3>1. BatchOf(x) = b /\ r = Append(q, x)
      BY <2>2 DEF BatchOf, Enqueued
    <3> HIDE DEF x, r
    <3> QED
      BY <3>1, AppendBehind
  <2> QED
    BY <2>1, <2>2
<1>2. Held(t1, m1, c) <=> MadeIn(b, c) \/ (Held(t, m, c) /\ ~EndedIn(b, c))
  <2>1. CASE c[1] = "open" /\ c[2] \in Ids \X Stamps
    BY <2>1 DEF Held, Says, Follows
  <2>2. CASE c[1] = "dnd"
    BY <2>2 DEF Held, Says, Follows
  <2> QED
    BY <2>1, <2>2, ClaimCases
<1> QED
  BY <1>1, <1>2 DEF Matches

\* The store changes under the queue: claims may be lost if they are excused.
LEMMA StoreMatches ==
  ASSUME NEW d, NEW q, NEW t, NEW m, NEW a, NEW g, Matches(d, q, t, m, a, g),
         NEW e, NEW r, NEW b, NEW h,
         \A c \in Claims : /\ Behind(d, r, c) <=> Behind(d, q, c)
                           /\ Holds(e, c) => Holds(d, c)
                           /\ Holds(d, c) => Holds(e, c) \/ Excused(b, h, c)
                           /\ Excused(a, g, c) => Excused(b, h, c)
  PROVE  Matches(e, r, t, m, b, h)
BY DEF Matches, Behind

\* A deadline that has passed is still on disk.
Mode == IF dnd = "due" THEN "timed" ELSE dnd
\* The acknowledged row of a once-only notification is on its way to the engine.
Target == IF op = "once" /\ reply = "ok" THEN Persistent \cup {Position(arg)} ELSE Persistent
\* Confirmed positions are on their way out of it.
Gone == IF op = "delete" /\ reply = "ok" THEN arg.positions ELSE {}
Settled == running /\ ~historyError /\ ~blocked

MatchInv == Settled => Matches(db, queue, Target, Mode, aged, Gone)

\* What the steps rely on besides.
LedgerInv ==
  /\ db.cutoff <= aged
  /\ ~running => active = NoEntries
  /\ op = "once" => arg.id \notin DOMAIN active /\ ~arg.transient
  /\ reply = "ok" => ~historyError /\ ~blocked
  /\ op \in {"query", "targets"} /\ reply = "none" => queue # <<>> /\ ~Unanswered(queue[Len(queue)])

LEMMA OutcomeAges ==
  ASSUME StoreInv, db.cutoff <= aged, NEW new, StoreWithin(new, Extant), Committed(new) \/ NotCommitted(new)
  PROVE  db'.cutoff <= aged' /\ aged <= aged'
<1>1. new.cutoff \in Nat /\ aged \in Nat
  BY EngineAssumption DEF StoreWithin, Store, StoreInv
<1>2. new.cutoff <= Raised(new) /\ aged <= Raised(new)
  BY <1>1 DEF Raised
<1> QED
  BY <1>1, <1>2 DEF Committed, NotCommitted

LEMMA EnqueuingLedger == ASSUME OnceInv, DataInv, LedgerInv, Enqueuing \/ expire_due PROVE LedgerInv'
<1>1. Reserved /\ UNCHANGED plain
  BY DEF Enqueuing, Notify, Replace, Close, snooze, clear, clear_group, set_dnd, expire_due
<1>2. /\ UNCHANGED <<op, reply, running, historyError, blocked, aged>> /\ db' = db
      /\ op = "none" /\ running
  BY <1>1 DEF Reserved, LockFree, plain, handler, thread
<1> QED
  BY <1>2 DEF LedgerInv

LEMMA RequestLedger ==
  ASSUME OnceInv, DataInv, LedgerInv, Reserved, UNCHANGED starting, active' = active,
         NEW what, NEW c, NEW data, Request(what, c, data),
         what = "once" => data.id \notin DOMAIN active /\ ~data.transient,
         what \in {"query", "targets"} => ~Unanswered(c)
  PROVE  LedgerInv'
<1>1. /\ UNCHANGED <<running, historyError, blocked, aged>> /\ db' = db /\ running
      /\ op' = what /\ arg' = data /\ reply' = "none" /\ queue' = Append(queue, c)
  BY DEF Reserved, LockFree, starting, thread, Request
<1>2. PICK S : queue \in Seq(S)
  BY DEF OnceInv, QueueInv
<1>3. queue' # <<>> /\ queue'[Len(queue')] = c
  BY <1>1, <1>2
<1> QED
  BY <1>1, <1>3 DEF LedgerInv

LEMMA RequestingLedger == ASSUME OnceInv, DataInv, LedgerInv, Requesting PROVE LedgerInv'
<1>1. ASSUME NEW k \in Keys, notify_update_once(k) PROVE LedgerInv'
  <2> DEFINE n == Fresh(FALSE, "never", k)
             c == [kind |-> "once", key |-> k, note |-> n]
  <2>1. Reserved /\ Request("once", c, n) /\ UNCHANGED starting /\ active' = active
    BY <1>1 DEF notify_update_once
  <2>2. n.id = allocate_id /\ ~n.transient
    BY DEF Fresh
  <2>3. allocate_id \notin DOMAIN active
    BY AllocateIds DEF DataInv, EngineInv, ActiveWithin
  <2> HIDE DEF n, c
  <2> QED
    BY <2>1, <2>2, <2>3, RequestLedger
<1>2. CASE expire_prune
  BY <1>2, RequestLedger DEF expire_prune, engine, starting
<1>3. CASE query_history
  BY <1>3, RequestLedger DEF query_history, engine, starting, Unanswered
<1>4. CASE shutdown
  BY <1>4, RequestLedger DEF shutdown, engine, starting
<1>5. ASSUME NEW cutoff, set_settings(cutoff) PROVE LedgerInv'
  BY <1>5, RequestLedger DEF set_settings, engine, starting
<1>6. ASSUME NEW ids, prepare_delete(ids) PROVE LedgerInv'
  BY <1>6, RequestLedger DEF prepare_delete, engine, starting, Unanswered
<1>7. ASSUME NEW t \in Tokens, delete_confirmed(t) PROVE LedgerInv'
  <2>1. Reserved /\ UNCHANGED starting /\ active' = active
    BY <1>7 DEF delete_confirmed
  <2>2. CASE tickets[t].live
    BY <1>7, <2>1, <2>2, RequestLedger DEF delete_confirmed
  <2>3. CASE ~tickets[t].live
    <3>1. UNCHANGED <<op, arg, reply, queue, running, historyError, blocked, aged>> /\ db' = db
      BY <1>7, <2>1, <2>3 DEF delete_confirmed, handler, starting, thread
    <3> QED
      BY <2>1, <3>1 DEF LedgerInv
  <2> QED
    BY <2>2, <2>3
<1> QED
  BY <1>1, <1>2, <1>3, <1>4, <1>5, <1>6, <1>7 DEF Requesting

LEMMA FinishingLedger == ASSUME OnceInv, DataInv, LedgerInv, Finishing PROVE LedgerInv'
<1>1. reply # "none" /\ Return /\ UNCHANGED ending
  BY DEF Finishing, expire_pruned, OnceSaved, OnceNotShown, Answered, TicketIssued, NoTicket,
         Deleted, NotDeleted
<1>2. /\ UNCHANGED <<running, historyError, blocked, aged>> /\ db' = db /\ op' = "none" /\ reply' = "none"
      /\ running
  BY <1>1, AnsweredAlone DEF ending, thread, Return
<1> QED
  BY <1>2 DEF LedgerInv

\* The last command stays when the first is done.
LEMMA TailLast ==
  ASSUME NEW S, NEW q \in Seq(S), q # <<>>
  PROVE  Len(q) = 1 \/ (Tail(q) # <<>> /\ Tail(q)[Len(Tail(q))] = q[Len(q)])
<1>1. Len(q) \in Nat \ {0} /\ Len(Tail(q)) = Len(q) - 1
  OBVIOUS
<1>2. ASSUME Len(q) # 1 PROVE Tail(q) # <<>> /\ Tail(q)[Len(Tail(q))] = q[Len(q)]
  <2>1. Len(Tail(q)) \in 1..Len(Tail(q)) /\ Len(Tail(q)) # 0 /\ Len(Tail(q)) + 1 = Len(q)
    BY <1>1, <1>2
  <2>2. \A i \in 1..Len(Tail(q)) : Tail(q)[i] = q[i + 1]
    OBVIOUS
  <2>3. Len(<<>>) = 0
    OBVIOUS
  <2> QED
    BY <2>1, <2>2, <2>3
<1> QED
  BY <1>2

\* The thread is done with a command: a waiting reader's request is still there.
LEMMA TailLedger ==
  ASSUME OnceInv, LedgerInv, queue # <<>>, queue' = Tail(queue), UNCHANGED <<engine, op, arg, running>>,
         db'.cutoff <= aged', reply' = "ok" => ~historyError' /\ ~blocked',
         op \in {"query", "targets"} /\ reply' = "none" => reply = "none" /\ Unanswered(queue[1])
  PROVE  LedgerInv'
<1>1. PICK S : queue \in Seq(S)
  BY DEF OnceInv, QueueInv
<1>2. active' = active
  BY DEF engine
<1>3. ASSUME op \in {"query", "targets"}, reply' = "none"
      PROVE  queue' # <<>> /\ ~Unanswered(queue'[Len(queue')])
  <2>1. ~Unanswered(queue[Len(queue)]) /\ Unanswered(queue[1])
    BY <1>3 DEF LedgerInv
  <2>2. Len(queue) # 1
    BY <2>1
  <2>3. Tail(queue) # <<>> /\ Tail(queue)[Len(Tail(queue))] = queue[Len(queue)]
    BY <1>1, <2>2, TailLast
  <2> QED
    BY <2>1, <2>3
<1> QED
  BY <1>2, <1>3 DEF LedgerInv

LEMMA WorkerLedger == ASSUME OnceInv, DataInv, LedgerInv, Worker PROVE LedgerInv'
<1>0. StoreInv /\ StoreWithin(db, Extant)
  BY DEF DataInv, StoreInv
<1>1. CASE ApplyMutation
  <2> DEFINE rest == queue[1].rest
             b == [kind |-> "batch", rest |-> Tail(rest)]
             new == apply(db, Head(rest))
  <2>1. queue # <<>> /\ queue[1].kind = "batch"
    BY <1>1, QueueHead DEF ApplyMutation, First
  <2>2. /\ 1 \in 1..Len(queue) /\ Head(queue) = queue[1] /\ rest \in Seq(Writes(Extant)) /\ reply = "none"
    BY <2>1, QueueHead DEF Proper
  <2>3. /\ UNCHANGED <<engine, op, arg, reply, running>>
        /\ rest # <<>> /\ queue' = [queue EXCEPT ![1] = b]
        /\ Committed(new) \/ NotCommitted(new)
    BY <1>1, <2>2 DEF ApplyMutation, handler
  <2>4. Head(rest) \in Writes(Extant)
    BY <2>2, <2>3
  <2>5. StoreWithin(new, Extant)
    BY <1>0, <2>4, ApplyWithin
  <2>6. db'.cutoff <= aged'
    BY <1>0, <2>3, <2>5, OutcomeAges DEF LedgerInv
  <2> HIDE DEF b, rest, new
  <2>7. PICK S : queue \in Seq(S)
    BY DEF OnceInv, QueueInv
  <2>8. /\ Len(queue') = Len(queue) /\ Len(queue) \in Nat \ {0}
        /\ \A i \in 1..Len(queue) : queue'[i] = IF i = 1 THEN b ELSE queue[i]
    BY <2>1, <2>3, <2>7
  <2>9. ASSUME op \in {"query", "targets"} PROVE queue' # <<>> /\ ~Unanswered(queue'[Len(queue')])
    <3>1. ~Unanswered(queue[Len(queue)]) /\ Unanswered(queue[1])
      BY <2>1, <2>2, <2>9 DEF LedgerInv, Unanswered
    <3>2. Len(queue) # 1 /\ Len(queue) \in 1..Len(queue)
      BY <2>8, <3>1
    <3>3. queue'[Len(queue')] = queue[Len(queue)]
      BY <2>8, <3>2
    <3>4. queue' # <<>>
      BY <2>8
    <3> QED
      BY <3>1, <3>3, <3>4
  <2> QED
    BY <2>2, <2>3, <2>6, <2>9 DEF LedgerInv, engine
<1>2. CASE PruneAfterBatch
  <2>1. /\ queue # <<>> /\ queue[1].kind = "batch" /\ queue' = Tail(queue) /\ reply = "none"
        /\ UNCHANGED <<engine, op, arg, reply, running>>
        /\ Committed(prune_inner(db)) \/ NotCommitted(prune_inner(db))
    BY <1>2, QueueHead DEF PruneAfterBatch, First, handler
  <2>2. db'.cutoff <= aged'
    BY <1>0, <2>1, PruneWithin, OutcomeAges DEF LedgerInv
  <2> QED
    BY <2>1, <2>2, TailLedger DEF Unanswered
<1>3. CASE ServeWrite
  <2> DEFINE c == queue[1]
  <2>1. /\ queue # <<>> /\ c.kind \in {"once", "settings", "delete", "prune"} /\ Head(queue) = c
    BY <1>3, QueueHead DEF ServeWrite, First
  <2>2. UNCHANGED <<engine, op, arg, historyError, running>> /\ queue' = Tail(queue)
    BY <1>3 DEF ServeWrite
  <2>3. CASE historyError /\ reply' = "error" /\ UNCHANGED <<db, aged, blocked>>
    BY <2>1, <2>2, <2>3, TailLedger DEF LedgerInv
  <2>4. ASSUME ~historyError, Committed(Written(c)) \/ NotCommitted(Written(c)),
               reply' = "ok" => Committed(Written(c)), reply' # "none"
        PROVE  LedgerInv'
    <3>1. db'.cutoff <= aged'
      BY <1>0, <2>1, <2>4, WrittenWithin, OutcomeAges DEF LedgerInv
    <3>2. reply' = "ok" => ~blocked'
      BY <2>4 DEF Committed
    <3> QED
      BY <2>1, <2>2, <2>4, <3>1, <3>2, TailLedger
  <2> QED
    BY <1>3, <2>1, <2>3, <2>4 DEF ServeWrite
<1>4. CASE ServeRead
  <2>1. /\ queue # <<>> /\ queue[1].kind = "read" /\ Head(queue) = queue[1] /\ queue' = Tail(queue)
        /\ UNCHANGED <<engine, op, arg, running, historyError, blocked, aged>>
        /\ db' = db /\ reply = "none"
    BY <1>4, QueueHead DEF ServeRead, First, thread
  <2>2. reply' = "ok" => ~historyError /\ ~blocked
    BY <1>4, <2>1 DEF ServeRead
  <2>3. reply' = "none" => Unanswered(queue[1])
    BY <1>4, <2>1 DEF ServeRead, Unanswered
  <2>4. db'.cutoff <= aged'
    BY <2>1 DEF LedgerInv
  <2> QED
    BY <2>1, <2>2, <2>3, <2>4, TailLedger
<1>5. CASE ServeShutdown
  <2>1. /\ queue # <<>> /\ queue' = Tail(queue) /\ queue[1].kind = "shutdown" /\ reply = "none"
        /\ UNCHANGED <<engine, op, arg, reply, running, historyError, blocked, aged>> /\ db' = db
    BY <1>5, QueueHead DEF ServeShutdown, First, handler, thread
  <2>2. op = "shutdown"
    BY <2>1, QueueHead DEF Unanswered, Waiters
  <2>3. db'.cutoff <= aged'
    BY <2>1 DEF LedgerInv
  <2> QED
    BY <2>1, <2>2, <2>3, TailLedger
<1>6. CASE Drained
  <2>1. /\ op = "shutdown" /\ UNCHANGED <<engine, op, arg, queue, running, historyError, blocked, aged>>
        /\ db' = db /\ (reply' = "ok" => ~historyError /\ ~blocked)
    BY <1>6 DEF Drained, thread, OnceInv, HandlerInv
  <2> QED
    BY <2>1 DEF LedgerInv, engine
<1> QED
  BY <1>1, <1>2, <1>3, <1>4, <1>5, <1>6 DEF Worker

LEMMA OtherLedger ==
  ASSUME OnceInv, DataInv, LedgerInv,
         Time \/ ReadAbandoned \/ Exit \/ Crash \/ Restart \/ \E t \in Tokens : cancel_delete(t)
  PROVE  LedgerInv'
<1>1. ASSUME UNCHANGED <<plain, queue>>, DOMAIN active' = DOMAIN active, ~running => active' = active
      PROVE  LedgerInv'
  <2>1. UNCHANGED <<op, arg, reply, queue, running, historyError, blocked, aged>> /\ db' = db
    BY <1>1 DEF plain, handler, thread
  <2> QED
    BY <1>1, <2>1 DEF LedgerInv
<1>2. ASSUME NEW id, NEW n, id \in DOMAIN active, active' = With(active, id, n)
      PROVE  DOMAIN active' = DOMAIN active /\ running
  <2>1. DOMAIN active' = DOMAIN active
    BY <1>2 DEF With
  <2>2. ~running => DOMAIN active = {}
    BY DEF LedgerInv, NoEntries
  <2>3. running \in BOOLEAN
    BY DEF DataInv, CallInv
  <2> QED
    BY <1>2, <2>1, <2>2, <2>3
<1>3. ASSUME NEW id \in Ids, Expires(id) \/ Wakes(id) PROVE LedgerInv'
  BY <1>1, <1>2, <1>3 DEF Expires, Wakes
<1>4. ASSUME NEW t \in Tokens, TicketExpires(t) \/ cancel_delete(t) PROVE LedgerInv'
  BY <1>1, <1>4 DEF TicketExpires, cancel_delete
<1>5. CASE DndEnds
  BY <1>1, <1>5 DEF DndEnds
<1>6. CASE DayEnds
  <2>1. /\ UNCHANGED <<engine, op, arg, reply, historyError, blocked, queue, running>>
        /\ db' = [db EXCEPT !.cutoff = @ + 1] /\ aged' = Raised(db')
    BY <1>6 DEF DayEnds, handler
  <2>2. db'.cutoff \in Nat /\ aged \in Nat
    BY <2>1, EngineAssumption DEF DataInv, StoreInv, StoreWithin, Store
  <2>3. db'.cutoff <= aged'
    BY <2>1, <2>2 DEF Raised
  <2> QED
    BY <2>1, <2>3 DEF LedgerInv, engine
<1>7. CASE ReadAbandoned
  <2>1. /\ op \in {"query", "targets"} /\ op' = "none" /\ reply' = "none"
        /\ UNCHANGED <<active, historyError, blocked, running, aged>> /\ db' = db
    BY <1>7 DEF ReadAbandoned, Return, engine, thread
  <2> QED
    BY <2>1 DEF LedgerInv
<1>8. CASE Exit \/ Crash
  <2>1. Down
    BY <1>8 DEF Exit, Crash
  <2> QED
    BY <2>1 DEF Down, LedgerInv
<1>9. CASE Restart
  <2>1. /\ ~running /\ running' = TRUE /\ UNCHANGED <<active, op, arg, reply, historyError, blocked, aged>>
        /\ db' = prune_inner(apply(db, Cleared))
    BY <1>9 DEF Restart, handler
  <2>2. op = "none" /\ reply = "none"
    BY <2>1 DEF OnceInv, HandlerInv, DataInv, CallInv
  <2>3. db'.cutoff = db.cutoff
    BY <2>1 DEF prune_inner, apply, Cleared, close_inner, DataInv, StoreInv, StoreWithin, Store
  <2> QED
    BY <2>1, <2>2, <2>3 DEF LedgerInv
<1> QED
  BY <1>3, <1>4, <1>5, <1>6, <1>7, <1>8, <1>9 DEF Time

-----------------------------------------------------------------------------
(* The steps of the engine keep the match *)

LEMMA EngineKeyed == ASSUME DataInv PROVE Keyed(active) /\ DOMAIN active \subseteq Ids
BY DEF DataInv, EngineInv, ActiveWithin, Keyed

LEMMA IdleTarget ==
  ASSUME op \notin {"once", "delete"} \/ reply # "ok" PROVE Target = Lasting(active) /\ Gone = {}
BY PersistentLasts DEF Target, Gone

\* A handler ends with one batch.
LEMMA BatchMatch ==
  ASSUME OnceInv, DataInv, MatchInv, op' = "none", Gone = {},
         UNCHANGED <<db, running, historyError, blocked, aged>>,
         NEW b, NEW K, NEW P, NEW D, Says(b, K, P, D), Enqueue(b),
         \A p \in Ids \X Stamps : p \in Lasting(active') <=> p \in P \/ (p \in Target /\ p[1] \notin K),
         (D = {} /\ Mode' = Mode) \/ D = {Mode'}
  PROVE  MatchInv'
<1> SUFFICES ASSUME Settled' PROVE Matches(db, queue', Target', Mode', aged, {})
  BY DEF MatchInv, Gone
<1>1. Matches(db, queue, Target, Mode, aged, {})
  BY DEF MatchInv, Settled
<1>2. Target' = Lasting(active')
  BY DEF Target, Persistent, Lasting
<1>3. PICK S : queue \in Seq(S)
  BY DEF OnceInv, QueueInv
<1>4. queue' = Enqueued(queue, b)
  BY DEF Enqueue, Enqueued
<1>5. Follows(Target, Mode, K, P, D, Target', Mode')
  BY <1>2 DEF Follows
<1>6. Matches(db, Enqueued(queue, b), Target', Mode', aged, {})
  BY <1>1, <1>3, <1>5, EnqueueMatches
<1> QED
  BY <1>4, <1>6

\* The same for a handler that never waited.
LEMMA PlainMatch ==
  ASSUME OnceInv, DataInv, MatchInv, Reserved, UNCHANGED plain,
         NEW b, NEW K, NEW P, NEW D, Says(b, K, P, D), Enqueue(b),
         \A p \in Ids \X Stamps : p \in Lasting(active') <=> p \in P \/ (p \in Lasting(active) /\ p[1] \notin K),
         (D = {} /\ Mode' = Mode) \/ D = {Mode'}
  PROVE  MatchInv'
<1>1. op = "none" /\ op' = "none" /\ UNCHANGED <<db, running, historyError, blocked, aged>>
  BY DEF Reserved, LockFree, plain, handler, thread
<1>2. Target = Lasting(active) /\ Gone = {}
  BY <1>1, IdleTarget
<1> QED
  BY <1>1, <1>2, BatchMatch

\* New or renewed content is saved.
LEMMA SavedMatch ==
  ASSUME OnceInv, DataInv, MatchInv, Reserved, UNCHANGED plain, dnd' = dnd,
         NEW id, NEW n, n.id = id, active' = With(active, id, n), Enqueue(<<Saved(n)>>)
  PROVE  MatchInv'
<1> DEFINE P == IF n.transient THEN {} ELSE {Position(n)}
<1>1. Says(<<Saved(n)>>, {n.id}, P, {})
  BY SavedSays
<1>2. \A p : p \in Lasting(active') <=> (~n.transient /\ p = Position(n)) \/ (p \in Lasting(active) /\ p[1] # id)
  BY EngineKeyed, LastingWith
<1>3. \A p \in Ids \X Stamps : p \in Lasting(active') <=> p \in P \/ (p \in Lasting(active) /\ p[1] \notin {n.id})
  BY <1>2
<1>4. Mode' = Mode
  BY DEF Mode
<1> HIDE DEF P
<1> QED
  BY <1>1, <1>3, <1>4, PlainMatch

\* What is forgotten is closed.
LEMMA ForgetMatch ==
  ASSUME OnceInv, DataInv, MatchInv, Reserved, UNCHANGED plain, dnd' = dnd,
         NEW K, Forget(K), NEW b, Enqueue(b), NEW L, Says(b, L, {}, {}),
         \A i \in DOMAIN active : i \in K <=> i \in L
  PROVE  MatchInv'
<1>1. active' = Without(active, K)
  BY DEF Forget
<1>2. ASSUME NEW p \in Ids \X Stamps
      PROVE  p \in Lasting(active') <=> p \in {} \/ (p \in Lasting(active) /\ p[1] \notin L)
  BY <1>1, EngineKeyed, LastingWithout, LastingAt
<1>3. Mode' = Mode
  BY DEF Mode
<1> QED
  BY <1>2, <1>3, PlainMatch

LEMMA NotifyMatch ==
  ASSUME OnceInv, DataInv, MatchInv, NEW t \in BOOLEAN, NEW e \in Timeouts, Notify(t, e) PROVE MatchInv'
<1> DEFINE n == Fresh(t, e, None)
           b == <<Saved(n)>> \o Closes(Evicted)
           P == IF n.transient THEN {} ELSE {Position(n)}
           Q == OpenAfter(P, Evicted, {})
<1>1. /\ Reserved /\ UNCHANGED plain /\ dnd' = dnd
      /\ active' = With(Without(active, Evicted), n.id, n) /\ Enqueue(b)
  BY DEF Notify
<1>2. n.id = allocate_id /\ allocate_id \notin DOMAIN active
  BY AllocateIds DEF Fresh, DataInv, EngineInv, ActiveWithin
<1>3. Evicted \subseteq DOMAIN active /\ Evicted \subseteq Ids
  BY EngineKeyed DEF Evicted
<1>4. Says(b, {n.id} \cup Evicted, Q, {})
  <2>1. Says(<<Saved(n)>>, {n.id}, P, {}) /\ Says(Closes(Evicted), Evicted, {}, {})
    BY <1>3, SavedSays, ClosesSays
  <2> DEFINE S == Writes({}) \cup {Saved(n)}
  <2>2. <<Saved(n)>> \in Seq(S) /\ Closes(Evicted) \in Seq(S)
    <3>1. Closes(Evicted) \in Seq(Writes({}))
      BY <1>3, ClosesWrite
    <3> HIDE DEF n
    <3>2. Saved(n) \in S /\ Writes({}) \subseteq S
      OBVIOUS
    <3> HIDE DEF S
    <3> QED
      BY <3>1, <3>2
  <2>3. DndAfter({}, {}) = {}
    BY DEF DndAfter
  <2> HIDE DEF S, n, P
  <2>4. Says(<<Saved(n)>> \o Closes(Evicted), {n.id} \cup Evicted, OpenAfter(P, Evicted, {}), DndAfter({}, {}))
    BY <2>1, <2>2, ConcatSays
  <2> QED
    BY <2>3, <2>4
<1> HIDE DEF n, b
<1>5. Position(n)[1] = n.id
  BY DEF Position
<1>6. ASSUME NEW p \in Ids \X Stamps
      PROVE  p \in Lasting(active') <=> p \in Q \/ (p \in Lasting(active) /\ p[1] \notin {n.id} \cup Evicted)
  <2>1. /\ Keyed(Without(active, Evicted))
        /\ p \in Lasting(Without(active, Evicted)) <=> p \in Lasting(active) /\ p[1] \notin Evicted
    BY EngineKeyed, LastingWithout
  <2>2. p \in Lasting(active') <=>
          (~n.transient /\ p = Position(n)) \/ (p \in Lasting(Without(active, Evicted)) /\ p[1] # n.id)
    BY <1>1, <2>1, LastingWith
  <2>3. p \in Q <=> ~n.transient /\ p = Position(n)
    BY <1>2, <1>3, <1>5 DEF OpenAfter
  <2> QED
    BY <2>1, <2>2, <2>3
<1>7. Mode' = Mode
  BY <1>1 DEF Mode
<1> HIDE DEF P, Q
<1> QED
  BY <1>1, <1>4, <1>6, <1>7, PlainMatch

\* The end of snoozes, deadlines and DND.
LEMMA ExpireMatch ==
  ASSUME OnceInv, DataInv, MatchInv, expire, op' = "none", op \in {"none", "expiry"},
         UNCHANGED <<db, running, historyError, blocked, aged>>
  PROVE  MatchInv'
<1> DEFINE wake(n) == Renewed(n, n.transient, n.expires,
                              IF n.snoozed = "due" THEN "no" ELSE n.snoozed, n.key)
           awake == [i \in DOMAIN active |-> wake(active[i])]
           off == IF dnd = "due" THEN <<DndSet("off")>> ELSE <<>>
           F == IF dnd = "due" THEN {"off"} ELSE {}
           b == Saves(Woken, awake) \o off \o Closes(Expired)
<1>1. /\ active' = Without(awake, Expired) /\ dnd' = (IF dnd = "due" THEN "off" ELSE dnd) /\ Enqueue(b)
  BY DEF expire
<1>2. DOMAIN awake = DOMAIN active /\ Keyed(active) /\ DOMAIN active \subseteq Ids
  BY EngineKeyed
<1>3. ASSUME NEW i \in DOMAIN active
      PROVE  awake[i].id = i /\ Position(awake[i]) = Position(active[i]) /\ awake[i].transient = active[i].transient
  <2>1. awake[i] = wake(active[i])
    OBVIOUS
  <2>2. wake(active[i]).id = active[i].id /\ wake(active[i]).born = active[i].born
        /\ wake(active[i]).transient = active[i].transient
    BY DEF Renewed
  <2> HIDE DEF wake, awake
  <2> QED
    BY <1>2, <2>1, <2>2 DEF Keyed, Position
<1> HIDE DEF awake
<1>4. Woken \subseteq DOMAIN active /\ Expired \subseteq DOMAIN active /\ Woken \subseteq Ids /\ Expired \subseteq Ids
  BY <1>2 DEF Woken, Expired
<1> DEFINE P == {Position(awake[i]) : i \in {j \in Woken : ~awake[j].transient}}
<1>5. Says(Saves(Woken, awake), Woken, P, {})
  BY <1>3, <1>4, SavesSays
<1>6. Says(off, {}, {}, F)
  BY EmptySays, DndSays
<1>7. Says(Closes(Expired), Expired, {}, {})
  BY <1>4, ClosesSays
<1>8. \A p : p \in P <=> p \in Lasting(active) /\ p[1] \in Woken
  <2>1. \A i \in DOMAIN active : Position(active[i])[1] = i
    BY <1>2 DEF Keyed, Position
  <2> QED
    BY <1>3, <1>4, <2>1 DEF Lasting
<1> HIDE DEF P
<1> DEFINE S == {Saves(Woken, awake)[k] : k \in DOMAIN Saves(Woken, awake)} \cup Writes({})
<1>9. Saves(Woken, awake) \in Seq(S) /\ off \in Seq(S) /\ Closes(Expired) \in Seq(S)
  <2>1. Closes(Expired) \in Seq(Writes({})) /\ DndSet("off") \in Writes({})
    BY <1>4, ClosesWrite, DndWrite
  <2>2. Writes({}) \subseteq S
    OBVIOUS
  <2>3. Saves(Woken, awake) \in Seq(S)
    <3>1. Cardinality(Woken) \in Nat
      BY <1>4, FiniteActive
    <3>2. DOMAIN Saves(Woken, awake) = 1..Cardinality(Woken) /\ Saves(Woken, awake) = [k \in 1..Cardinality(Woken) |-> Saves(Woken, awake)[k]]
      BY DEF Saves
    <3>3. \A k \in 1..Cardinality(Woken) : Saves(Woken, awake)[k] \in S
      BY <3>2
    <3> HIDE DEF S
    <3> QED
      BY <3>1, <3>2, <3>3
  <2> HIDE DEF S
  <2> QED
    BY <2>1, <2>2, <2>3
<1> HIDE DEF S, off, F
<1>10. Saves(Woken, awake) \o off \in Seq(S)
  BY <1>9
<1> DEFINE P1 == OpenAfter(P, {}, {})
           P2 == OpenAfter(P1, Expired, {})
<1>11. Says(Saves(Woken, awake) \o off, Woken \cup {}, P1, DndAfter({}, F))
  BY <1>5, <1>6, <1>9, ConcatSays
<1>12. Says(b, (Woken \cup {}) \cup Expired, P2, DndAfter(DndAfter({}, F), {}))
  <2> HIDE DEF P1
  <2> QED
    BY <1>7, <1>9, <1>10, <1>11, ConcatSays
<1>13. Says(b, Woken \cup Expired, P2, F)
  <2>1. (Woken \cup {}) \cup Expired = Woken \cup Expired
    OBVIOUS
  <2>2. DndAfter(DndAfter({}, F), {}) = F
    BY DEF DndAfter
  <2> HIDE DEF b, P2
  <2> QED
    BY <1>12, <2>1, <2>2
<1>14. Lasting(awake) = Lasting(active) /\ Keyed(awake)
  BY <1>2, <1>3 DEF Lasting, Keyed
<1>15. Target = Lasting(active) /\ Gone = {}
  BY IdleTarget
<1>16. ASSUME NEW p \in Ids \X Stamps
       PROVE  p \in Lasting(active') <=> p \in P2 \/ (p \in Target /\ p[1] \notin Woken \cup Expired)
  <2>1. p \in Lasting(active') <=> p \in Lasting(active) /\ p[1] \notin Expired
    BY <1>1, <1>14, LastingWithout
  <2>2. p \in P2 <=> p \in Lasting(active) /\ p[1] \in Woken /\ p[1] \notin Expired
    BY <1>8 DEF OpenAfter
  <2> QED
    BY <1>15, <2>1, <2>2
<1>17. (F = {} /\ Mode' = Mode) \/ F = {Mode'}
  BY <1>1 DEF F, Mode
<1> HIDE DEF b, P2
<1> QED
  BY <1>1, <1>13, <1>15, <1>16, <1>17, BatchMatch

LEMMA EnqueuingMatch == ASSUME OnceInv, DataInv, MatchInv, Enqueuing \/ expire_due PROVE MatchInv'
<1>1. ASSUME NEW t \in BOOLEAN, NEW e \in Timeouts, NEW id \in Ids, Replace(id, t, e) PROVE MatchInv'
  <2> DEFINE n == Renewed(active[id], t, e, "no", None)
  <2>1. /\ Reserved /\ UNCHANGED plain /\ dnd' = dnd /\ id \in DOMAIN active
        /\ active' = With(active, id, n) /\ Enqueue(<<Saved(n)>>)
    BY <1>1 DEF Replace
  <2>2. n.id = id
    BY <2>1, EngineKeyed DEF Renewed, Keyed
  <2> HIDE DEF n
  <2> QED
    BY <2>1, <2>2, SavedMatch
<1>2. ASSUME NEW id \in Ids, snooze(id) PROVE MatchInv'
  <2> DEFINE old == active[id]
             n == Renewed(old, old.transient, IF old.expires = "never" THEN "never" ELSE "set", "set", old.key)
  <2>1. /\ Reserved /\ UNCHANGED plain /\ dnd' = dnd /\ id \in DOMAIN active
        /\ active' = With(active, id, n) /\ Enqueue(<<Saved(n)>>)
    BY <1>2 DEF snooze
  <2>2. n.id = id
    BY <2>1, EngineKeyed DEF Renewed, Keyed
  <2> HIDE DEF n
  <2> QED
    BY <2>1, <2>2, SavedMatch
<1>3. ASSUME NEW id \in Ids, Close(id) PROVE MatchInv'
  BY <1>3, ClosedSays, ForgetMatch DEF Close
<1>4. CASE clear
  BY <1>4, ClearedSays, EngineKeyed, ForgetMatch DEF clear
<1>5. ASSUME NEW ids \in Selections, clear_group(ids) PROVE MatchInv'
  <2> DEFINE L == DOMAIN active \cap ids
  <2>1. Reserved /\ UNCHANGED plain /\ dnd' = dnd /\ Forget(ids) /\ Enqueue(Closes(L))
    BY <1>5 DEF clear_group
  <2>2. Says(Closes(L), L, {}, {})
    BY EngineKeyed, ClosesSays
  <2>3. \A i \in DOMAIN active : i \in ids <=> i \in L
    OBVIOUS
  <2> HIDE DEF L
  <2> QED
    BY <2>1, <2>2, <2>3, ForgetMatch
<1>6. ASSUME NEW d \in DndModes, set_dnd(d) PROVE MatchInv'
  <2>1. Reserved /\ UNCHANGED plain /\ active' = active /\ dnd' = d /\ Enqueue(<<DndSet(d)>>)
    BY <1>6 DEF set_dnd
  <2>2. {d} = {Mode'}
    BY <2>1, EngineAssumption DEF Mode
  <2>3. Says(<<DndSet(d)>>, {}, {}, {d})
    BY DndSays
  <2>4. \A p \in Ids \X Stamps : p \in Lasting(active') <=> p \in {} \/ (p \in Lasting(active) /\ p[1] \notin {})
    BY <2>1
  <2> QED
    BY <2>1, <2>2, <2>3, <2>4, PlainMatch
<1>7. CASE expire_due
  <2>1. expire /\ op = "none" /\ op' = "none" /\ UNCHANGED <<db, running, historyError, blocked, aged>>
    BY <1>7 DEF expire_due, Reserved, LockFree, plain, handler, thread
  <2> QED
    BY <2>1, ExpireMatch
<1> QED
  BY <1>1, <1>2, <1>3, <1>4, <1>5, <1>6, <1>7, NotifyMatch DEF Enqueuing

\* The engine's claims stay, the commands keep their mutations.
LEMMA SameMatch ==
  ASSUME MatchInv, Settled' => Settled, UNCHANGED <<db, aged>>, Target' = Target, Mode' = Mode, Gone' = Gone,
         \A c \in Claims : Behind(db, queue', c) <=> Behind(db, queue, c)
  PROVE  MatchInv'
<1> SUFFICES ASSUME Settled' PROVE Matches(db, queue', Target', Mode', aged, Gone')
  BY DEF MatchInv
<1>1. Matches(db, queue, Target, Mode, aged, Gone)
  BY DEF MatchInv
<1> QED
  BY <1>1 DEF Matches

LEMMA RequestMatch ==
  ASSUME OnceInv, MatchInv, Reserved, UNCHANGED starting, UNCHANGED <<active, dnd>>,
         NEW what, NEW x, x.kind # "batch", NEW data, Request(what, x, data)
  PROVE  MatchInv'
<1>1. /\ UNCHANGED <<running, historyError, blocked, aged, db>> /\ op = "none"
      /\ reply' = "none" /\ queue' = Append(queue, x)
  BY DEF Reserved, LockFree, starting, thread, Request
<1>2. Target = Lasting(active) /\ Gone = {} /\ Target' = Lasting(active) /\ Gone' = {}
  BY <1>1 DEF Target, Gone, Persistent, Lasting
<1>3. PICK S : queue \in Seq(S)
  BY DEF OnceInv, QueueInv
<1>4. BatchOf(x) = <<>>
  BY DEF BatchOf
<1>5. \A c \in Claims : Behind(db, queue', c) <=> Behind(db, queue, c)
  BY <1>1, <1>3, <1>4, AppendBehind, EmptyIn
<1> QED
  BY <1>1, <1>2, <1>5, SameMatch DEF Mode, Settled

LEMMA RequestingMatch == ASSUME OnceInv, DataInv, MatchInv, Requesting PROVE MatchInv'
<1>1. ASSUME NEW k \in Keys, notify_update_once(k) PROVE MatchInv'
  <2> DEFINE n == Fresh(FALSE, "never", k)
             x == [kind |-> "once", key |-> k, note |-> n]
  <2>1. Reserved /\ Request("once", x, n) /\ UNCHANGED starting /\ UNCHANGED <<active, dnd>>
    BY <1>1 DEF notify_update_once
  <2>2. x.kind # "batch"
    OBVIOUS
  <2> HIDE DEF n, x
  <2> QED
    BY <2>1, <2>2, RequestMatch
<1>2. CASE expire_prune
  BY <1>2, RequestMatch DEF expire_prune, engine, starting
<1>3. CASE query_history
  BY <1>3, RequestMatch DEF query_history, engine, starting
<1>4. CASE shutdown
  BY <1>4, RequestMatch DEF shutdown, engine, starting
<1>5. ASSUME NEW cutoff, set_settings(cutoff) PROVE MatchInv'
  BY <1>5, RequestMatch DEF set_settings, engine, starting
<1>6. ASSUME NEW ids, prepare_delete(ids) PROVE MatchInv'
  BY <1>6, RequestMatch DEF prepare_delete, engine, starting
<1>7. ASSUME NEW t \in Tokens, delete_confirmed(t) PROVE MatchInv'
  <2>1. Reserved /\ UNCHANGED starting /\ UNCHANGED <<active, dnd>>
    BY <1>7 DEF delete_confirmed
  <2>2. CASE tickets[t].live
    BY <1>7, <2>1, <2>2, RequestMatch DEF delete_confirmed
  <2>3. CASE ~tickets[t].live
    <3>1. UNCHANGED <<op, arg, reply, queue, running, historyError, blocked, aged, db>>
      BY <1>7, <2>1, <2>3 DEF delete_confirmed, handler, starting, thread
    <3> QED
      BY <2>1, <3>1, SameMatch DEF Target, Persistent, Gone, Mode, Settled
  <2> QED
    BY <2>2, <2>3
<1> QED
  BY <1>1, <1>2, <1>3, <1>4, <1>5, <1>6, <1>7 DEF Requesting

LEMMA FinishingMatch == ASSUME OnceInv, DataInv, LedgerInv, MatchInv, Finishing PROVE MatchInv'
<1>1. reply # "none" /\ Return /\ UNCHANGED ending
  BY DEF Finishing, expire_pruned, OnceSaved, OnceNotShown, Answered, TicketIssued, NoTicket,
         Deleted, NotDeleted
<1>2. UNCHANGED <<running, historyError, blocked, aged, db>> /\ op' = "none" /\ reply' = "none"
  BY <1>1 DEF ending, thread, Return
<1>3. CASE expire_pruned
  BY <1>2, <1>3, ExpireMatch DEF expire_pruned
<1>4. CASE OnceSaved
  <2>1. /\ op = "once" /\ reply = "ok" /\ active' = With(Without(active, Evicted), arg.id, arg)
        /\ Enqueue(Closes(Evicted)) /\ dnd' = dnd
    BY <1>4 DEF OnceSaved
  <2>2. Target = Lasting(active) \cup {Position(arg)} /\ Gone = {}
    BY <2>1, PersistentLasts DEF Target, Gone
  <2>3. arg.id \notin DOMAIN active /\ ~arg.transient
    BY <2>1 DEF LedgerInv
  <2>4. Evicted \subseteq DOMAIN active /\ Evicted \subseteq Ids
    BY EngineKeyed DEF Evicted
  <2>5. Says(Closes(Evicted), Evicted, {}, {})
    BY <2>4, ClosesSays
  <2>6. Position(arg)[1] = arg.id
    BY DEF Position
  <2>7. ASSUME NEW p \in Ids \X Stamps
        PROVE  p \in Lasting(active') <=> p \in {} \/ (p \in Target /\ p[1] \notin Evicted)
    <3>1. /\ Keyed(Without(active, Evicted))
          /\ p \in Lasting(Without(active, Evicted)) <=> p \in Lasting(active) /\ p[1] \notin Evicted
      BY EngineKeyed, LastingWithout
    <3>2. p \in Lasting(active') <=>
            (~arg.transient /\ p = Position(arg)) \/ (p \in Lasting(Without(active, Evicted)) /\ p[1] # arg.id)
      BY <2>1, <3>1, LastingWith
    <3>3. p \in Lasting(active) => p[1] # arg.id
      BY <2>3, EngineKeyed, LastingAt
    <3>4. p = Position(arg) => p[1] \notin Evicted
      BY <2>3, <2>4, <2>6
    <3> QED
      BY <2>2, <2>3, <3>1, <3>2, <3>3, <3>4
  <2>8. Mode' = Mode
    BY <2>1 DEF Mode
  <2> QED
    BY <1>2, <2>1, <2>2, <2>5, <2>7, <2>8, BatchMatch
<1>5. CASE \/ OnceNotShown \/ Answered \/ NotDeleted \/ NoTicket
           \/ \E t \in Tokens : TicketIssued(t)
  <2>1. UNCHANGED <<active, dnd, queue>> /\ (op \notin {"once", "delete"} \/ reply # "ok")
    BY <1>5 DEF OnceNotShown, Answered, NotDeleted, NoTicket, TicketIssued, engine
  <2>2. Target = Lasting(active) /\ Gone = {} /\ Target' = Lasting(active) /\ Gone' = {}
    BY <1>2, <2>1 DEF Target, Gone, Persistent, Lasting
  <2> QED
    BY <1>2, <2>1, <2>2, SameMatch DEF Mode, Settled
<1>6. CASE Deleted
  <2> DEFINE K == {i \in DOMAIN active : Position(active[i]) \in arg.positions}
  <2>1. op = "delete" /\ reply = "ok" /\ Forget(K) /\ UNCHANGED <<dnd, queue>>
    BY <1>6 DEF Deleted
  <2>2. Positions(db.rows) \cap arg.positions = {} /\ queue = <<>>
    BY <2>1 DEF DataInv, CallInv
  <2>3. Target = Lasting(active) /\ Gone = arg.positions /\ Target' = Lasting(active') /\ Gone' = {} /\ Mode' = Mode
    BY <1>2, <2>1 DEF Target, Gone, Mode, Persistent, Lasting
  <2>4. \A p : p \in Lasting(active') <=> p \in Lasting(active) /\ p \notin arg.positions
    <3>1. \A p : p \in Lasting(active') <=> p \in Lasting(active) /\ p[1] \notin K
      BY <2>1, EngineKeyed, LastingWithout DEF Forget
    <3>2. \A p \in Lasting(active) : p[1] \in K <=> p \in arg.positions
      BY EngineKeyed, LastingAt
    <3> HIDE DEF K
    <3> QED
      BY <3>1, <3>2
  <2>5. ASSUME NEW c \in Claims, Behind(db, queue, c), c[1] = "open" PROVE c[2] \notin arg.positions
    <3>1. c[2] \in OpenPositions(db.rows)
      BY <2>2, <2>5, EmptyBehind DEF Holds
    <3> QED
      BY <2>2, <3>1 DEF OpenPositions, Positions
  <2> SUFFICES ASSUME Settled' PROVE Matches(db, queue, Target', Mode, aged, {})
    BY <1>2, <2>1, <2>3 DEF MatchInv
  <2>6. Matches(db, queue, Target, Mode, aged, Gone)
    BY <1>2 DEF MatchInv, Settled
  <2> QED
    BY <2>3, <2>4, <2>5, <2>6 DEF Matches, Held, Excused
<1> QED
  BY <1>3, <1>4, <1>5, <1>6 DEF Finishing

-----------------------------------------------------------------------------
(* The steps of the thread keep the match *)

LEMMA DeleteHolds ==
  ASSUME NEW E, NEW d, StoreWithin(d, E), NEW positions, NEW c \in Claims
  PROVE  Holds(delete_rows(d, positions), c) <=> Holds(d, c) /\ ~(c[1] = "open" /\ c[2] \in positions)
<1> DEFINE rows == d.rows
           places == {i \in DOMAIN rows : Position(rows[i]) \notin positions}
           e == delete_rows(d, positions)
<1>1. rows \in Seq(Row) /\ d \in Store
  BY DEF StoreWithin, Store
<1>2. e.rows = rows_at(rows, places) /\ e.dnd = d.dnd
  BY <1>1 DEF delete_rows, delete_where, Store
<1>3. places \subseteq DOMAIN rows
  OBVIOUS
<1>4. OpenPositions(rows_at(rows, places)) = {Position(rows[i]) : i \in {j \in places : rows[j].open}}
  BY <1>1, <1>3, RowsAtPositions
<1>5. OpenPositions(e.rows) = OpenPositions(rows) \ positions
  BY <1>2, <1>4 DEF OpenPositions
<1> HIDE DEF e, rows
<1>6. Holds(e, c) <=> Holds(d, c) /\ ~(c[1] = "open" /\ c[2] \in positions)
  BY <1>2, <1>5 DEF Holds, rows
<1> QED
  BY <1>6 DEF e

\* Pruning loses nothing that is not excused.
LEMMA PruneExcused ==
  ASSUME NEW E, NEW d, StoreWithin(d, E), NEW a \in Nat, prune_inner(d).cutoff <= a, NEW g, NEW c \in Claims
  PROVE  /\ Holds(prune_inner(d), c) => Holds(d, c)
         /\ Holds(d, c) => Holds(prune_inner(d), c) \/ Excused(a, g, c)
<1>1. d \in Store /\ d.cutoff \in Nat
  BY EngineAssumption DEF StoreWithin, Store
<1>2. prune_inner(d).cutoff = d.cutoff
  BY <1>1 DEF prune_inner, Store
<1>3. Holds(prune_inner(d), c) <=> Holds(d, c) /\ ~(c[1] = "open" /\ c[2][2] <= d.cutoff)
  BY PruneHolds
<1>4. c[1] = "open" => c[2][2] \in Nat
  BY ClaimCases, EngineAssumption DEF Stamps
<1> QED
  BY <1>1, <1>2, <1>3, <1>4 DEF Excused

LEMMA OlderExcused ==
  ASSUME NEW a \in Nat, NEW b \in Nat, a <= b, NEW g, NEW c \in Claims, Excused(a, g, c)
  PROVE  Excused(b, g, c)
<1>1. c[1] = "open" => c[2][2] \in Nat
  BY ClaimCases, EngineAssumption DEF Stamps
<1> QED
  BY <1>1 DEF Excused

LEMMA AgedTypes == ASSUME OnceInv, DataInv, DataInv' PROVE aged \in Nat /\ aged' \in Nat
BY EngineAssumption DEF DataInv, StoreInv

\* A store of the thread's own making replaces the database.
LEMMA ThreadMatch ==
  ASSUME OnceInv, DataInv, DataInv', MatchInv, Settled' => Settled, aged <= aged',
         Target' = Target, Mode' = Mode, Gone = {},
         \A c \in Claims : /\ Behind(db, queue', c) <=> Behind(db, queue, c)
                           /\ Holds(db', c) => Holds(db, c)
                           /\ Holds(db, c) => Holds(db', c) \/ Excused(aged', Gone', c)
  PROVE  MatchInv'
<1> SUFFICES ASSUME Settled' PROVE Matches(db', queue', Target', Mode', aged', Gone')
  BY DEF MatchInv
<1>1. Matches(db, queue, Target, Mode, aged, {})
  BY DEF MatchInv
<1>2. ASSUME NEW c \in Claims, Excused(aged, {}, c) PROVE Excused(aged', Gone', c)
  <2>1. Excused(aged', {}, c)
    BY <1>2, AgedTypes, OlderExcused
  <2> QED
    BY <2>1 DEF Excused
<1>3. Matches(db', queue', Target, Mode, aged', Gone')
  BY <1>1, <1>2, StoreMatches
<1> QED
  BY <1>3

LEMMA ApplyMatch == ASSUME OnceInv, DataInv, DataInv', LedgerInv, MatchInv, ApplyMutation PROVE MatchInv'
<1> DEFINE rest == queue[1].rest
           b == [kind |-> "batch", rest |-> Tail(rest)]
           m == Head(rest)
<1>1. queue # <<>> /\ queue[1].kind = "batch"
  BY QueueHead DEF ApplyMutation, First
<1>2. /\ 1 \in 1..Len(queue) /\ Head(queue) = queue[1] /\ rest \in Seq(Writes(Extant)) /\ reply = "none"
  BY <1>1, QueueHead DEF Proper
<1>3. /\ UNCHANGED <<engine, op, arg, reply, running>> /\ rest # <<>> /\ queue' = [queue EXCEPT ![1] = b]
      /\ (Committed(apply(db, m)) /\ historyError' = historyError) \/ historyError' = TRUE
  BY <1>2 DEF ApplyMutation, handler
<1>4. StoreWithin(db, Extant) /\ m \in Writes(Extant)
  BY <1>2, <1>3 DEF DataInv, StoreInv
<1>5. BatchOf(queue[1]) = rest /\ BatchOf(b) = Tail(rest)
  BY <1>1 DEF BatchOf
<1> HIDE DEF b, rest
<1>6. PICK S : queue \in Seq(S)
  BY DEF OnceInv, QueueInv
<1>7. \E R : queue \in Seq(R) /\ queue' \in Seq(R) /\ queue' # <<>> /\ Tail(queue') = Tail(queue) /\ queue'[1] = b
  <2> DEFINE R == S \cup {b}
  <2>1. queue \in Seq(R)
    BY <1>6
  <2>2. b \in R
    OBVIOUS
  <2> HIDE DEF R
  <2>3. queue' \in Seq(R) /\ Len(queue') = Len(queue) /\ queue'[1] = b
        /\ \A i \in 2..Len(queue) : queue'[i] = queue[i]
    BY <1>2, <1>3, <2>1, <2>2
  <2>4. Tail(queue') = Tail(queue)
    <3>1. Len(queue) \in Nat \ {0}
      BY <1>2, <2>1
    <3>2. /\ Tail(queue) \in Seq(R) /\ Len(Tail(queue)) = Len(queue) - 1
          /\ \A i \in 1..Len(Tail(queue)) : Tail(queue)[i] = queue[i + 1]
      BY <1>1, <2>1, HeadTailProperties
    <3>3. /\ Tail(queue') \in Seq(R) /\ Len(Tail(queue')) = Len(queue) - 1
          /\ \A i \in 1..Len(Tail(queue')) : Tail(queue')[i] = queue'[i + 1]
      <4>1. queue' # <<>>
        BY <2>3, <3>1, EmptySeq
      <4> QED
        BY <2>3, <4>1, HeadTailProperties
    <3>4. \A i \in 1..(Len(queue) - 1) : i + 1 \in 2..Len(queue)
      BY <3>1
    <3> QED
      BY <2>3, <3>2, <3>3, <3>4, SeqEqual
  <2>5. queue' # <<>>
    BY <1>2, <2>3
  <2> QED
    BY <2>1, <2>3, <2>4, <2>5
<1>8. PICK R : queue \in Seq(R) /\ queue' \in Seq(R) /\ queue' # <<>> /\ Tail(queue') = Tail(queue) /\ queue'[1] = b
  BY <1>7
<1> SUFFICES ASSUME Settled' PROVE Matches(db', queue', Target', Mode', aged', Gone')
  BY DEF MatchInv
<1>9. Committed(apply(db, m)) /\ historyError' = historyError /\ db' = apply(db, m) /\ blocked' = blocked
  BY <1>3 DEF Settled, Committed
<1>10. Target' = Target /\ Mode' = Mode /\ Gone' = {} /\ Gone = {}
  BY <1>2, <1>3 DEF Target, Mode, Gone, Persistent, engine
<1>11. Matches(db, queue, Target, Mode, aged, {})
  BY <1>3, <1>9, <1>10 DEF MatchInv, Settled
<1>12. ASSUME NEW c \in Claims PROVE Behind(db', queue', c) <=> Behind(db, queue, c)
  BY <1>1, <1>2, <1>3, <1>4, <1>5, <1>8, <1>9, ApplyBehind DEF m
<1>13. aged <= aged'
  <2>1. StoreWithin(apply(db, m), Extant)
    BY <1>4, ApplyWithin
  <2> QED
    BY <1>9, <2>1, OutcomeAges DEF LedgerInv, DataInv
<1>14. \A c \in Claims : Excused(aged, {}, c) => Excused(aged', {}, c)
  BY <1>13, AgedTypes, OlderExcused
<1> HIDE DEF m
<1> QED
  BY <1>10, <1>11, <1>12, <1>14 DEF Matches

\* The first command had no mutation left.
LEMMA TailMatch ==
  ASSUME OnceInv, queue # <<>>, queue[1].kind = "batch" => queue[1].rest = <<>>, queue' = Tail(queue), NEW d, NEW c
  PROVE  Behind(d, queue', c) <=> Behind(d, queue, c)
<1>1. PICK S : queue \in Seq(S)
  BY DEF OnceInv, QueueInv
<1>2. BatchOf(queue[1]) = <<>>
  BY DEF BatchOf
<1> QED
  BY <1>1, <1>2, SkipBehind

LEMMA PruneMatch == ASSUME OnceInv, DataInv, DataInv', LedgerInv, LedgerInv', MatchInv, PruneAfterBatch PROVE MatchInv'
<1>1. /\ queue # <<>> /\ queue[1].kind = "batch" /\ queue[1].rest = <<>> /\ queue' = Tail(queue) /\ reply = "none"
      /\ UNCHANGED <<engine, op, arg, reply, running>>
      /\ (Committed(prune_inner(db)) /\ historyError' = historyError) \/ historyError' = TRUE
  BY QueueHead DEF PruneAfterBatch, First, handler
<1>2. Target' = Target /\ Mode' = Mode /\ Gone = {} /\ Gone' = {}
  BY <1>1 DEF Target, Mode, Gone, Persistent, engine
<1> SUFFICES ASSUME Settled' PROVE MatchInv'
  BY DEF MatchInv
<1>3. Committed(prune_inner(db)) /\ historyError' = historyError /\ db' = prune_inner(db) /\ blocked' = blocked
  BY <1>1 DEF Settled, Committed
<1>4. Settled
  BY <1>1, <1>3 DEF Settled
<1>5. StoreWithin(db, Extant)
  BY DEF DataInv, StoreInv
<1>6. aged <= aged' /\ db'.cutoff <= aged'
  BY <1>3, <1>5, PruneWithin, OutcomeAges DEF LedgerInv, DataInv
<1>7. \A c \in Claims : /\ Behind(db, queue', c) <=> Behind(db, queue, c)
                        /\ Holds(db', c) => Holds(db, c)
                        /\ Holds(db, c) => Holds(db', c) \/ Excused(aged', Gone', c)
  BY <1>1, <1>3, <1>5, <1>6, AgedTypes, TailMatch, PruneExcused
<1> QED
  BY <1>2, <1>4, <1>6, <1>7, ThreadMatch

\* A once-only row that is new.
LEMMA OnceMatch ==
  ASSUME OnceInv, DataInv, DataInv', LedgerInv, MatchInv, queue # <<>>, queue[1].kind = "once",
         queue[1].key \notin db.once, Committed(Written(queue[1])), reply' = "ok", queue' = Tail(queue),
         UNCHANGED <<engine, op, arg, historyError, running>>
  PROVE  MatchInv'
<1> DEFINE k == queue[1].key
           d == [db EXCEPT !.once = @ \cup {k}]
           e == save_inner(d, arg)
<1>1. /\ op = "once" /\ queue[1].note = arg /\ queue' = <<>> /\ reply = "none" /\ k = arg.key
  BY QueueHead DEF Unanswered, Waiters, Proper
<1>2. /\ arg \in Note /\ Position(arg) \in Extant /\ k \in Keys /\ arg.id \in Ids /\ arg.born \in Stamps
      /\ arg.id \notin DOMAIN active /\ ~arg.transient
  BY <1>1 DEF DataInv, CallInv, OnceInv, HandlerInv, LedgerInv, Note
<1>3. StoreWithin(db, Extant)
  BY DEF DataInv, StoreInv
<1>4. StoreWithin(d, Extant) /\ d.rows = db.rows /\ d.dnd = db.dnd
  BY <1>2, <1>3 DEF StoreWithin, Store
<1>5. db' = prune_inner(e) /\ blocked' = blocked
  BY <1>1 DEF Committed, Written, save_once
<1>6. StoreWithin(e, Extant)
  <2> HIDE DEF d
  <2> QED
    BY <1>2, <1>4, SaveWithin
<1>7. aged <= aged' /\ db'.cutoff <= aged'
  <2>1. StoreWithin(Written(queue[1]), Extant)
    BY WrittenWithin
  <2> QED
    BY <2>1, OutcomeAges DEF LedgerInv, DataInv
<1> SUFFICES ASSUME Settled' PROVE Matches(db', queue', Target', Mode', aged', Gone')
  BY DEF MatchInv
<1>8. Settled
  BY <1>5 DEF Settled
<1>9. /\ Target = Lasting(active) /\ Target' = Lasting(active) \cup {Position(arg)}
      /\ Mode' = Mode /\ Gone = {} /\ Gone' = {}
  BY <1>1 DEF Target, Mode, Gone, Persistent, Lasting, engine
<1>10. Matches(db, queue, Target, Mode, aged, {})
  BY <1>8, <1>9 DEF MatchInv
<1> HIDE DEF e, d, k
<1>11. SUFFICES ASSUME NEW c \in Claims
                PROVE  /\ Behind(db', queue', c) => Held(Target', Mode, c)
                       /\ Held(Target', Mode, c) => Behind(db', queue', c) \/ Excused(aged', {}, c)
  BY <1>9 DEF Matches
<1>12. Behind(db', queue', c) <=> Holds(db', c)
  BY <1>1, EmptyBehind
<1>13. Behind(db, queue, c) <=> Holds(db, c)
  <2>1. Behind(db, queue', c) <=> Behind(db, queue, c)
    BY TailMatch
  <2> QED
    BY <1>1, <2>1, EmptyBehind
<1>14. Holds(e, c) <=> \/ c[1] = "open" /\ Position(arg) = c[2]
                       \/ Holds(db, c) /\ ~(c[1] = "open" /\ arg.id = c[2][1])
  <2>1. Holds(d, c) <=> Holds(db, c)
    BY <1>4 DEF Holds
  <2> QED
    BY <1>2, <1>4, <2>1, SaveHolds DEF e
<1>15. /\ Holds(db', c) => Holds(e, c)
       /\ Holds(e, c) => Holds(db', c) \/ Excused(aged', {}, c)
  BY <1>5, <1>6, <1>7, AgedTypes, PruneExcused
<1>16. c[2] \in Lasting(active) => c[2][1] # arg.id
  BY <1>2, EngineKeyed, LastingAt
<1>17. Excused(aged, {}, c) => Excused(aged', {}, c)
  BY <1>7, AgedTypes, OlderExcused
<1>18. Held(Target', Mode, c) <=> Held(Target, Mode, c) \/ (c[1] = "open" /\ Position(arg) = c[2])
  BY <1>9 DEF Held
<1>19. (Holds(db, c) => Held(Target, Mode, c)) /\ (Held(Target, Mode, c) => Holds(db, c) \/ Excused(aged, {}, c))
  BY <1>10, <1>13 DEF Matches
<1>20. Held(Target, Mode, c) => ~(c[1] = "open" /\ arg.id = c[2][1])
  BY <1>9, <1>16 DEF Held
<1> QED
  BY <1>12, <1>14, <1>15, <1>17, <1>18, <1>19, <1>20

LEMMA WriteMatch == ASSUME OnceInv, DataInv, DataInv', LedgerInv, MatchInv, ServeWrite PROVE MatchInv'
<1> DEFINE x == queue[1]
<1>1. queue # <<>> /\ x.kind \in {"once", "settings", "delete", "prune"} /\ Head(queue) = x
  BY QueueHead DEF ServeWrite, First
<1>2. UNCHANGED <<engine, op, arg, historyError, running>> /\ queue' = Tail(queue)
  BY DEF ServeWrite
<1>3. op \in Waiters(x) /\ reply = "none" /\ Proper(x, arg, Extant)
  BY <1>1, QueueHead DEF Unanswered
<1>4. Mode' = Mode /\ Target = Lasting(active) /\ Gone = {}
  BY <1>2, <1>3, IdleTarget DEF Mode, engine
<1>5. \A c \in Claims : Behind(db, queue', c) <=> Behind(db, queue, c)
  BY <1>1, <1>2, TailMatch
<1>6. reply' # "ok" => Target' = Target /\ Gone' = {}
  BY <1>2, <1>4 DEF Target, Gone, Persistent, Lasting, engine
<1> SUFFICES ASSUME Settled' PROVE MatchInv'
  BY DEF MatchInv
<1>7. CASE reply' # "ok" /\ UNCHANGED <<db, aged>>
  <2>1. Settled
    BY <1>1, <1>2, <1>7 DEF ServeWrite, Committed, NotCommitted, Settled
  <2> QED
    BY <1>4, <1>5, <1>6, <1>7, <2>1, SameMatch
<1>8. ASSUME Committed(Written(x)), reply' = IF x.kind = "once" /\ x.key \in db.once THEN "known" ELSE "ok"
      PROVE  MatchInv'
  <2>0. db' = Written(x) /\ blocked' = blocked
    BY <1>8 DEF Committed
  <2>1. Settled
    BY <1>2, <2>0 DEF Settled
  <2>2. StoreWithin(db, Extant) /\ StoreWithin(Written(x), Extant)
    BY <1>1, WrittenWithin DEF DataInv, StoreInv
  <2>3. aged <= aged' /\ db'.cutoff <= aged'
    BY <1>8, <2>2, OutcomeAges DEF LedgerInv, DataInv
  <2>4. CASE x.kind = "once" /\ x.key \notin db.once
    BY <1>1, <1>2, <1>8, <2>4, OnceMatch
  <2>5. ASSUME ~(x.kind = "once" /\ x.key \notin db.once) PROVE Target' = Target
    <3>1. op = "once" => reply' # "ok"
      BY <1>1, <1>3, <1>8, <2>5 DEF Waiters
    <3> QED
      BY <1>2, <1>4, <3>1 DEF Target, Persistent, Lasting, engine
  <2>6. ASSUME NEW d, StoreWithin(d, Extant), db' = prune_inner(d),
               \A c \in Claims : Holds(d, c) <=> Holds(db, c), ~(x.kind = "once" /\ x.key \notin db.once)
        PROVE  MatchInv'
    <3>1. \A c \in Claims : /\ Holds(db', c) => Holds(db, c)
                            /\ Holds(db, c) => Holds(db', c) \/ Excused(aged', Gone', c)
      BY <2>3, <2>6, AgedTypes, PruneExcused
    <3> QED
      BY <1>4, <1>5, <2>1, <2>3, <2>5, <2>6, <3>1, ThreadMatch
  <2>7. CASE x.kind = "once" /\ x.key \in db.once
    <3>1. db' = prune_inner(db)
      BY <2>0, <2>7 DEF Written, save_once
    <3> QED
      BY <2>2, <2>6, <2>7, <3>1
  <2>8. CASE x.kind = "settings"
    <3> DEFINE d == [db EXCEPT !.cutoff = x.cutoff]
    <3>1. db' = prune_inner(d)
      BY <2>0, <2>8 DEF Written
    <3>2. x.cutoff \in 0..MaxBorn
      BY <1>3, <2>8 DEF Proper
    <3>3. StoreWithin(d, Extant) /\ d.rows = db.rows /\ d.dnd = db.dnd
      BY <2>2, <3>2 DEF StoreWithin, Store
    <3> HIDE DEF d
    <3>4. \A c \in Claims : Holds(d, c) <=> Holds(db, c)
      BY <3>3 DEF Holds
    <3> QED
      BY <2>6, <2>8, <3>1, <3>3, <3>4
  <2>9. CASE x.kind = "prune"
    <3>1. db' = prune_inner(db)
      BY <2>0, <2>9 DEF Written
    <3> QED
      BY <2>2, <2>6, <2>9, <3>1
  <2>10. CASE x.kind = "delete"
    <3>1. db' = delete_rows(db, arg.positions) /\ op = "delete" /\ reply' = "ok"
      BY <1>3, <1>8, <2>0, <2>10 DEF Written, Proper, Waiters
    <3>2. Gone' = arg.positions
      BY <1>2, <3>1 DEF Gone
    <3>3. \A c \in Claims : /\ Holds(db', c) => Holds(db, c)
                            /\ Holds(db, c) => Holds(db', c) \/ Excused(aged', Gone', c)
      BY <2>2, <3>1, <3>2, DeleteHolds DEF Excused
    <3> QED
      BY <1>4, <1>5, <2>1, <2>3, <2>5, <2>10, <3>3, ThreadMatch
  <2> QED
    BY <1>1, <2>4, <2>7, <2>8, <2>9, <2>10
<1>9. ASSUME NotCommitted(Written(x)), reply' = "error" PROVE reply' # "ok" /\ UNCHANGED <<db, aged>>
  BY <1>9 DEF NotCommitted, Settled
<1> QED
  BY <1>1, <1>7, <1>8, <1>9 DEF ServeWrite

LEMMA WorkerMatch ==
  ASSUME OnceInv, DataInv, DataInv', LedgerInv, LedgerInv', MatchInv, Worker PROVE MatchInv'
<1>1. CASE ServeRead
  <2>1. /\ queue # <<>> /\ queue[1].kind = "read" /\ Head(queue) = queue[1] /\ queue' = Tail(queue)
        /\ UNCHANGED <<engine, op, arg, running, historyError, blocked, aged, db>> /\ reply = "none"
    BY <1>1, QueueHead DEF ServeRead, First, thread
  <2>2. Target = Lasting(active) /\ Gone = {}
    BY <2>1, IdleTarget
  <2>3. reply' = reply \/ op \notin {"once", "delete"}
    <3>1. ~Unanswered(queue[1]) => op \in {"query", "targets"}
      BY <2>1, QueueHead DEF Waiters
    <3> QED
      BY <1>1, <2>1, <3>1 DEF ServeRead, Unanswered
  <2>4. Target' = Target /\ Gone' = Gone /\ Mode' = Mode
    BY <2>1, <2>2, <2>3 DEF Target, Gone, Mode, Persistent, Lasting, engine
  <2>5. \A c \in Claims : Behind(db, queue', c) <=> Behind(db, queue, c)
    BY <2>1, TailMatch
  <2> QED
    BY <2>1, <2>4, <2>5, SameMatch DEF Settled
<1>2. CASE ServeShutdown
  <2>1. /\ queue # <<>> /\ queue' = Tail(queue) /\ queue[1].kind = "shutdown"
        /\ UNCHANGED <<engine, op, arg, reply, running, historyError, blocked, aged, db>>
    BY <1>2, QueueHead DEF ServeShutdown, First, handler, thread
  <2>2. Target' = Target /\ Gone' = Gone /\ Mode' = Mode
    BY <2>1 DEF Target, Gone, Mode, Persistent, engine
  <2>3. \A c \in Claims : Behind(db, queue', c) <=> Behind(db, queue, c)
    BY <2>1, TailMatch
  <2> QED
    BY <2>1, <2>2, <2>3, SameMatch DEF Settled
<1>3. CASE Drained
  <2>1. /\ op = "shutdown" /\ UNCHANGED <<engine, op, arg, queue, running, historyError, blocked, aged, db>>
    BY <1>3 DEF Drained, thread, OnceInv, HandlerInv
  <2>2. Target' = Target /\ Gone' = Gone /\ Mode' = Mode
    BY <2>1 DEF Target, Gone, Mode, Persistent, engine
  <2> QED
    BY <2>1, <2>2, SameMatch DEF Settled
<1> QED
  BY <1>1, <1>2, <1>3, ApplyMatch, PruneMatch, WriteMatch DEF Worker

-----------------------------------------------------------------------------
(* Time, abandoned reads, crashes and restarts keep the match *)

\* Another deadline is the same notification.
LEMMA DeadlineMatch ==
  ASSUME DataInv, MatchInv, UNCHANGED <<plain, dnd, queue>>, NEW id, id \in DOMAIN active,
         NEW n, n.id = id, Position(n) = Position(active[id]), n.transient = active[id].transient,
         active' = With(active, id, n)
  PROVE  MatchInv'
<1>1. UNCHANGED <<op, arg, reply, running, historyError, blocked, aged>> /\ db' = db
  BY DEF plain, handler, thread
<1>2. ASSUME NEW p PROVE p \in Lasting(active') <=> p \in Lasting(active)
  <2>1. p \in Lasting(active') <=> (~n.transient /\ p = Position(n)) \/ (p \in Lasting(active) /\ p[1] # id)
    BY EngineKeyed, LastingWith
  <2>2. p \in Lasting(active) <=> p[1] \in DOMAIN active /\ ~active[p[1]].transient /\ p = Position(active[p[1]])
    BY EngineKeyed, LastingAt
  <2>3. Position(n)[1] = id
    BY DEF Position
  <2> QED
    BY <2>1, <2>2, <2>3
<1>3. Persistent' = Persistent
  BY <1>2 DEF Persistent, Lasting
<1>4. Target' = Target /\ Mode' = Mode /\ Gone' = Gone
  BY <1>1, <1>3 DEF Target, Mode, Gone
<1> QED
  BY <1>1, <1>4, SameMatch DEF Settled

LEMMA DayMatch == ASSUME DataInv, DataInv', LedgerInv, MatchInv, DayEnds PROVE MatchInv'
<1>1. /\ UNCHANGED <<engine, op, arg, reply, historyError, blocked, queue, running>>
      /\ db' = [db EXCEPT !.cutoff = @ + 1] /\ aged' = Raised(db')
  BY DEF DayEnds, handler
<1>2. db' .rows = db.rows /\ db'.dnd = db.dnd
  BY <1>1 DEF DataInv, StoreInv, StoreWithin, Store
<1>3. \A c \in Claims : Holds(db', c) <=> Holds(db, c)
  BY <1>2 DEF Holds
<1>4. db'.cutoff \in Nat /\ aged \in Nat
  BY <1>1, EngineAssumption, SMTT(30) DEF DataInv, StoreInv, StoreWithin, Store
<1>5. aged \in Nat /\ aged' \in Nat /\ aged <= aged'
  BY <1>1, <1>4 DEF Raised
<1>6. Target' = Target /\ Mode' = Mode /\ Gone' = Gone
  BY <1>1 DEF Target, Mode, Gone, Persistent, engine
<1> SUFFICES ASSUME Settled' PROVE Matches(db', queue, Target, Mode, aged', Gone)
  BY <1>1, <1>6 DEF MatchInv
<1>7. Matches(db, queue, Target, Mode, aged, Gone)
  BY <1>1 DEF MatchInv, Settled
<1>8. ASSUME NEW c \in Claims, Excused(aged, Gone, c) PROVE Excused(aged', Gone, c)
  <2>1. c[1] = "open"
    BY <1>8 DEF Excused
  <2>2. c[2] \in Ids \X Stamps /\ c[2][2] \in Nat
    BY <2>1, ClaimCases, EngineAssumption DEF Stamps
  <2> QED
    BY <1>5, <1>8, <2>2 DEF Excused
<1> QED
  BY <1>3, <1>7, <1>8, StoreMatches

LEMMA AbandonedMatch == ASSUME OnceInv, DataInv, LedgerInv, MatchInv, ReadAbandoned PROVE MatchInv'
<1> DEFINE n == Len(queue)
           x == [kind |-> "read", live |-> FALSE]
<1>1. /\ op \in {"query", "targets"} /\ reply = "none" /\ op' = "none"
      /\ UNCHANGED <<active, dnd, historyError, blocked, running, aged>> /\ db' = db
      /\ queue' = [queue EXCEPT ![n] = x]
  BY DEF ReadAbandoned, Return, engine, thread
<1>0. BatchOf(x) = <<>>
  BY DEF BatchOf
<1> HIDE DEF x
<1>2. PICK S : queue \in Seq(S)
  BY DEF OnceInv, QueueInv
<1>3. queue # <<>> /\ ~Unanswered(queue[n])
  BY <1>1 DEF LedgerInv
<1>4. n \in Nat /\ DOMAIN queue = 1..n /\ n \in 1..n
  BY <1>2, <1>3
<1>5. queue' = [i \in DOMAIN queue |-> IF i = n THEN x ELSE queue[i]]
  BY <1>1, Zenon
<1>6. Len(queue') = n /\ queue'[n] = x
      /\ \A i \in 1..n : i # n => queue'[i] = queue[i]
  <2> HIDE DEF n
  <2>1. DOMAIN queue' = 1..n /\ \A i \in 1..n : queue'[i] = IF i = n THEN x ELSE queue[i]
    BY <1>4, <1>5
  <2>2. Len(queue') = n
    BY <1>4, <1>5
  <2> QED
    BY <1>4, <2>1, <2>2
<1>7. BatchOf(queue'[n]) = <<>> /\ BatchOf(queue[n]) = <<>>
  BY <1>0, <1>3, <1>6 DEF BatchOf, Unanswered
<1>8. \A i \in 1..n : BatchOf(queue'[i]) = BatchOf(queue[i])
  BY <1>6, <1>7
<1>9. \A c \in Claims : Behind(db, queue', c) <=> Behind(db, queue, c)
  BY <1>2, <1>6, <1>8, SameBehind
<1>10. Target' = Target /\ Mode' = Mode /\ Gone' = Gone
  BY <1>1 DEF Target, Mode, Gone, Persistent
<1> QED
  BY <1>1, <1>9, <1>10, SameMatch DEF Settled

LEMMA RestartMatch == ASSUME OnceInv, DataInv, LedgerInv, Restart PROVE MatchInv'
<1> DEFINE d == apply(db, Cleared)
<1>1. /\ ~running /\ db' = prune_inner(d) /\ UNCHANGED <<active, op, arg, reply, aged>>
      /\ (dnd' = db.dnd /\ queue' = queue) \/ (dnd' = "off" /\ Enqueue(<<DndSet("off")>>))
  BY DEF Restart, handler
<1>2. op = "none" /\ queue = <<>> /\ active = NoEntries
  BY <1>1 DEF OnceInv, HandlerInv, DataInv, CallInv, LedgerInv
<1>3. Target' = {} /\ Gone' = {}
  BY <1>1, <1>2 DEF Target, Gone, Persistent, NoEntries
<1>4. StoreWithin(db, Extant) /\ db.dnd \in {"off", "on", "timed"}
  BY DEF DataInv, StoreInv, StoreWithin, Store
<1>5. Cleared \in Writes(Extant) /\ Cleared.op = "clear"
  BY DEF Cleared, Writes
<1>6. StoreWithin(d, Extant)
  BY <1>4, <1>5, ApplyWithin
<1>7. ASSUME NEW c \in Claims PROVE Holds(db', c) <=> c[1] = "dnd" /\ db.dnd = c[2]
  <2>1. Holds(d, c) <=> Holds(db, c) /\ ~Ends(Cleared, c)
    BY <1>4, <1>5, ApplyHolds DEF Makes
  <2>2. Holds(db', c) <=> Holds(d, c) /\ ~(c[1] = "open" /\ c[2][2] <= d.cutoff)
    BY <1>1, <1>6, PruneHolds
  <2> HIDE DEF d
  <2> QED
    BY <1>5, <2>1, <2>2, ClaimCases DEF Ends, Holds
<1>8. Matches(db', <<>>, {}, db.dnd, aged, {})
  BY <1>7, EmptyBehind DEF Matches, Held
<1>9. CASE dnd' = db.dnd /\ queue' = queue
  <2>1. Mode' = db.dnd
    BY <1>4, <1>9 DEF Mode
  <2> QED
    BY <1>1, <1>2, <1>3, <1>8, <1>9, <2>1 DEF MatchInv
<1>10. CASE dnd' = "off" /\ Enqueue(<<DndSet("off")>>)
  <2>1. Mode' = "off" /\ queue' = Enqueued(<<>>, <<DndSet("off")>>)
    BY <1>2, <1>10 DEF Mode, Enqueue, Enqueued
  <2>2. Follows({}, db.dnd, {}, {}, {"off"}, {}, "off")
    BY DEF Follows
  <2>3. <<>> \in Seq({})
    OBVIOUS
  <2>4. Says(<<DndSet("off")>>, {}, {}, {"off"})
    BY DndSays
  <2>5. Matches(db', Enqueued(<<>>, <<DndSet("off")>>), {}, "off", aged, {})
    BY <1>8, <2>2, <2>3, <2>4, EnqueueMatches
  <2> QED
    BY <1>1, <1>3, <2>1, <2>5 DEF MatchInv
<1> QED
  BY <1>1, <1>9, <1>10

LEMMA OtherMatch ==
  ASSUME OnceInv, DataInv, DataInv', LedgerInv, MatchInv,
         Time \/ ReadAbandoned \/ Exit \/ Crash \/ Restart \/ \E t \in Tokens : cancel_delete(t)
  PROVE  MatchInv'
<1>1. ASSUME NEW id \in Ids, Expires(id) \/ Wakes(id) PROVE MatchInv'
  <2>1. UNCHANGED <<plain, dnd, queue>> /\ id \in DOMAIN active
    BY <1>1 DEF Expires, Wakes
  <2>2. active[id] \in Note /\ active[id].id = id
    BY <2>1 DEF DataInv, EngineInv, ActiveWithin
  <2>3. ASSUME NEW x, NEW y PROVE
           LET n == Renewed(active[id], active[id].transient, x, y, active[id].key)
           IN  n.id = id /\ Position(n) = Position(active[id]) /\ n.transient = active[id].transient
    BY <2>2 DEF Renewed, Position
  <2>4. \E x, y : active' = With(active, id, Renewed(active[id], active[id].transient, x, y, active[id].key))
    BY <1>1 DEF Expires, Wakes
  <2> QED
    BY <2>1, <2>3, <2>4, DeadlineMatch
<1>2. ASSUME UNCHANGED <<plain, queue, active>>, Mode' = Mode PROVE MatchInv'
  <2>1. UNCHANGED <<op, arg, reply, queue, running, historyError, blocked, aged>> /\ db' = db
    BY <1>2 DEF plain, handler, thread
  <2>2. Target' = Target /\ Gone' = Gone
    BY <1>2, <2>1 DEF Target, Gone, Persistent
  <2> QED
    BY <1>2, <2>1, <2>2, SameMatch DEF Settled
<1>3. ASSUME NEW t \in Tokens, TicketExpires(t) \/ cancel_delete(t) PROVE MatchInv'
  BY <1>2, <1>3 DEF TicketExpires, cancel_delete, Mode
<1>4. CASE DndEnds
  BY <1>2, <1>4 DEF DndEnds, Mode
<1>5. CASE Exit \/ Crash
  BY <1>5 DEF Exit, Crash, Down, MatchInv, Settled
<1> QED
  BY <1>1, <1>3, <1>4, <1>5, DayMatch, AbandonedMatch, RestartMatch DEF Time

\* The ledger and the match hold throughout.
LEMMA MatchAlways == Spec => [](LedgerInv /\ MatchInv)
<1>1. Init => LedgerInv /\ MatchInv
  <2> SUFFICES ASSUME Init PROVE LedgerInv /\ MatchInv
    OBVIOUS
  <2>1. LedgerInv
    BY DEF Init, LedgerInv, EmptyStore
  <2>2. Target = {} /\ Mode = "off" /\ Gone = {}
    BY DEF Init, Target, Mode, Gone, Persistent, NoEntries
  <2>3. ASSUME NEW c \in Claims PROVE Holds(db, c) <=> Held({}, "off", c)
    <3>1. db.rows = <<>> /\ db.dnd = "off" /\ OpenPositions(<<>>) = {}
      BY DEF Init, EmptyStore, OpenPositions
    <3> QED
      BY <3>1 DEF Holds, Held
  <2>4. queue = <<>>
    BY DEF Init
  <2> QED
    BY <2>1, <2>2, <2>3, <2>4, EmptyBehind DEF MatchInv, Matches
<1>2. OnceInv /\ DataInv /\ DataInv' /\ LedgerInv /\ MatchInv /\ [Next]_vars => LedgerInv' /\ MatchInv'
  <2> SUFFICES ASSUME OnceInv, DataInv, DataInv', LedgerInv, MatchInv, [Next]_vars PROVE LedgerInv' /\ MatchInv'
    OBVIOUS
  <2>1. CASE Enqueuing \/ expire_due
    BY <2>1, EnqueuingLedger, EnqueuingMatch
  <2>2. CASE Requesting
    BY <2>2, RequestingLedger, RequestingMatch
  <2>3. CASE Finishing
    BY <2>3, FinishingLedger, FinishingMatch
  <2>4. CASE Worker
    BY <2>4, WorkerLedger, WorkerMatch
  <2>5. CASE Time \/ ReadAbandoned \/ Exit \/ Crash \/ Restart \/ \E t \in Tokens : cancel_delete(t)
    BY <2>5, OtherLedger, OtherMatch
  <2>6. CASE UNCHANGED vars
    <3>1. UNCHANGED <<active, dnd, op, arg, reply, queue, running, historyError, blocked, aged>> /\ db' = db
      BY <2>6 DEF vars, engine, handler, thread
    <3>2. Target' = Target /\ Mode' = Mode /\ Gone' = Gone
      BY <3>1 DEF Target, Mode, Gone, Persistent
    <3>3. LedgerInv'
      BY <3>1 DEF LedgerInv
    <3> QED
      BY <3>1, <3>2, <3>3, SameMatch DEF Settled
  <2> QED
    BY <2>1, <2>2, <2>3, <2>4, <2>5, <2>6 DEF Next
<1> QED
  BY <1>1, <1>2, OnceAlways, DataAlways, PTL DEF Spec

\* What the match says of the rows, once nothing is on its way.
LEMMA MatchAgrees ==
  ASSUME DataInv, NEW d, StoreWithin(d, Extant), op \notin {"once", "delete"},
         \A c \in Claims : /\ Holds(d, c) => Held(Target, Mode, c)
                           /\ Held(Target, Mode, c) => Holds(d, c) \/ Excused(aged, Gone, c)
  PROVE  Agrees(d.rows)
<1>1. Target = Persistent /\ Gone = {}
  BY DEF Target, Gone
<1>2. ASSUME NEW p \in Ids \X Stamps
      PROVE  /\ p \in OpenPositions(d.rows) => p \in Persistent
             /\ p \in Persistent => p \in OpenPositions(d.rows) \/ p[2] <= aged
  <2>1. OpenClaim(p) \in Claims /\ OpenClaim(p)[1] = "open" /\ OpenClaim(p)[2] = p
    BY DEF OpenClaim, Claims
  <2> QED
    BY <1>1, <2>1 DEF Holds, Held, Excused
<1>3. OpenPositions(d.rows) \subseteq Ids \X Stamps
  <2>1. d.rows \in Seq(Row)
    BY DEF StoreWithin, Store
  <2>2. \A i \in DOMAIN d.rows : d.rows[i] \in Row
    BY <2>1
  <2> QED
    BY <2>2 DEF OpenPositions, Position, Row
<1>4. Persistent \subseteq Ids \X Stamps
  BY DEF Persistent, Position, DataInv, EngineInv, ActiveWithin, Note
<1> QED
  BY <1>2, <1>3, <1>4 DEF Agrees

LEMMA CatalogHolds == ASSUME OnceInv, DataInv, MatchInv PROVE CatalogAgrees
<1> SUFFICES ASSUME running, ~historyError, ~blocked, op \notin {"once", "delete"} PROVE Agrees(Replayed.rows)
  BY DEF CatalogAgrees
<1>1. Matches(db, queue, Target, Mode, aged, Gone)
  BY DEF MatchInv, Settled
<1>2. DndClaim("off") \in Claims
  BY DEF DndClaim, Claims, Modes
<1>3. StoreWithin(Replayed, Extant)
  BY <1>2, ReplayedHolds
<1>4. \A c \in Claims : /\ Holds(Replayed, c) => Held(Target, Mode, c)
                        /\ Held(Target, Mode, c) => Holds(Replayed, c) \/ Excused(aged, Gone, c)
  BY <1>1, ReplayedHolds DEF Matches
<1> QED
  BY <1>3, <1>4, MatchAgrees

\* Behind an answer nothing is queued.
LEMMA AnsweredMatch ==
  ASSUME OnceInv, DataInv, LedgerInv, MatchInv, op \notin {"none", "once", "delete"}, reply = "ok"
  PROVE  Agrees(db.rows) /\ Holds(db, DndClaim(Mode))
<1>1. queue = <<>> /\ ~historyError /\ ~blocked /\ running
  BY DEF DataInv, CallInv, LedgerInv, OnceInv, HandlerInv
<1>2. Matches(db, <<>>, Target, Mode, aged, Gone)
  BY <1>1 DEF MatchInv, Settled
<1>3. \A c \in Claims : /\ Holds(db, c) => Held(Target, Mode, c)
                        /\ Held(Target, Mode, c) => Holds(db, c) \/ Excused(aged, Gone, c)
  BY <1>2, EmptyBehind DEF Matches
<1>4. StoreWithin(db, Extant)
  BY DEF DataInv, StoreInv
<1>5. Agrees(db.rows)
  BY <1>3, <1>4, MatchAgrees
<1>6. DndClaim(Mode) \in Claims /\ DndClaim(Mode)[1] = "dnd" /\ DndClaim(Mode)[2] = Mode
  BY DEF DndClaim, Claims, Modes, Mode, DataInv, EngineInv
<1> QED
  BY <1>3, <1>5, <1>6 DEF Held, Excused

\* An acknowledged shutdown is a durable one: every accepted batch was executed,
\* in order, so the open rows and the DND setting on disk are those of the engine
\* (persistence.rs, persistence_worker; engine.rs, shutdown).
THEOREM ShutdownIsDurable == Spec => []ShutdownDrained
<1>1. OnceInv /\ DataInv /\ LedgerInv /\ MatchInv => ShutdownDrained
  <2> SUFFICES ASSUME OnceInv, DataInv, LedgerInv, MatchInv, op = "shutdown", reply = "ok"
               PROVE  Agrees(db.rows) /\ db.dnd = Mode
    BY DEF ShutdownDrained, Mode
  <2>1. Agrees(db.rows) /\ Holds(db, DndClaim(Mode))
    BY AnsweredMatch
  <2> QED
    BY <2>1 DEF Holds, DndClaim
<1> QED
  BY <1>1, OnceAlways, DataAlways, MatchAlways, PTL

-----------------------------------------------------------------------------
(* The queued mutations as one sequence *)

\* s is the concatenation of the batches of q; cut[k] is where batch k ends.
Cuts(cut, s, q) ==
  /\ cut \in [0..Len(q) -> Nat] /\ cut[0] = 0 /\ cut[Len(q)] = Len(s)
  /\ \A k, l \in 0..Len(q) : k <= l => cut[k] <= cut[l]
  /\ \A k \in 1..Len(q) :
        /\ Len(BatchOf(q[k])) \in Nat /\ cut[k] = cut[k - 1] + Len(BatchOf(q[k]))
        /\ \A j \in 1..Len(BatchOf(q[k])) : s[cut[k - 1] + j] = BatchOf(q[k])[j]
Flat(s, q) == (\E S : s \in Seq(S)) /\ \E cut : Cuts(cut, s, q)

LEMMA FlatNone == Flat(<<>>, <<>>)
<1>1. <<>> \in Seq({}) /\ Len(<<>>) = 0
  OBVIOUS
<1>2. Cuts([k \in 0..0 |-> 0], <<>>, <<>>)
  BY <1>1 DEF Cuts
<1> QED
  BY <1>1, <1>2 DEF Flat

LEMMA FlatOfNone == ASSUME NEW s, Flat(s, <<>>) PROVE s = <<>>
<1>1. PICK S, cut : s \in Seq(S) /\ Cuts(cut, s, <<>>)
  BY DEF Flat
<1>2. Len(s) = 0
  BY <1>1 DEF Cuts
<1> QED
  BY <1>1, <1>2, EmptySeq

LEMMA FlatSame ==
  ASSUME NEW s, NEW q, NEW r, Flat(s, q), Len(r) = Len(q), \A i \in 1..Len(q) : BatchOf(r[i]) = BatchOf(q[i])
  PROVE  Flat(s, r)
<1>1. PICK S, cut : s \in Seq(S) /\ Cuts(cut, s, q)
  BY DEF Flat
<1>2. Cuts(cut, s, r)
  BY <1>1 DEF Cuts
<1> QED
  BY <1>1, <1>2 DEF Flat

\* Positions of a stretch of the flattened queue are positions of the whole.
LEMMA StretchWithin ==
  ASSUME NEW a \in Nat, NEW w \in Nat, NEW z \in Nat, a + w <= z, NEW j \in 1..w
  PROVE  a + j \in 1..z
OBVIOUS

LEMMA FlatAppend ==
  ASSUME NEW Q, NEW q \in Seq(Q), NEW s, Flat(s, q), NEW x, NEW W, BatchOf(x) \in Seq(W)
  PROVE  Flat(s \o BatchOf(x), Append(q, x))
<1> DEFINE b == BatchOf(x)
           r == Append(q, x)
           t == s \o b
           n == Len(q)
<1>1. PICK S, cut : s \in Seq(S) /\ Cuts(cut, s, q)
  BY DEF Flat
<1> DEFINE end == [k \in 0..(n + 1) |-> IF k = n + 1 THEN Len(s) + Len(b) ELSE cut[k]]
<1>2. /\ n \in Nat /\ Len(r) = n + 1 /\ r[n + 1] = x /\ \A k \in 1..n : r[k] = q[k]
  OBVIOUS
<1>3. /\ s \in Seq(S \cup W) /\ b \in Seq(S \cup W) /\ Len(s) \in Nat /\ Len(b) \in Nat
  BY <1>1
<1>4. /\ t \in Seq(S \cup W) /\ Len(t) = Len(s) + Len(b)
      /\ \A i \in 1..Len(s) : t[i] = s[i]
      /\ \A j \in 1..Len(b) : t[Len(s) + j] = b[j]
  BY <1>3
<1>5. /\ cut \in [0..n -> Nat] /\ cut[0] = 0 /\ cut[n] = Len(s)
      /\ \A k, l \in 0..n : k <= l => cut[k] <= cut[l]
  BY <1>1 DEF Cuts
<1>6. \A k \in 1..n : /\ Len(BatchOf(q[k])) \in Nat /\ cut[k] = cut[k - 1] + Len(BatchOf(q[k]))
                      /\ \A j \in 1..Len(BatchOf(q[k])) : s[cut[k - 1] + j] = BatchOf(q[k])[j]
  BY <1>1 DEF Cuts
<1> HIDE DEF b, r, t, n
<1>7. /\ end \in [0..(n + 1) -> Nat] /\ end[0] = 0 /\ end[n + 1] = Len(t) /\ \A k \in 0..n : end[k] = cut[k]
  BY <1>2, <1>3, <1>4, <1>5
<1>8. \A k, l \in 0..(n + 1) : k <= l => end[k] <= end[l]
  <2>1. \A k \in 0..n : cut[k] <= Len(s)
    BY <1>2, <1>5
  <2> HIDE DEF end
  <2> SUFFICES ASSUME NEW k \in 0..(n + 1), NEW l \in 0..(n + 1), k <= l PROVE end[k] <= end[l]
    OBVIOUS
  <2>2. CASE k = n + 1
    <3>1. l = k /\ end[k] \in Nat
      BY <1>2, <1>7, <2>2
    <3> QED
      BY <3>1
  <2>3. CASE k # n + 1 /\ l = n + 1
    <3>1. k \in 0..n
      BY <1>2, <2>3
    <3>2. end[k] = cut[k] /\ cut[k] \in Nat /\ cut[k] <= Len(s)
      BY <1>5, <1>7, <2>1, <3>1
    <3>3. end[l] = Len(s) + Len(b)
      BY <1>4, <1>7, <2>3
    <3> QED
      BY <1>3, <3>2, <3>3
  <2>4. CASE k # n + 1 /\ l # n + 1
    <3>1. k \in 0..n /\ l \in 0..n
      BY <1>2, <2>4
    <3> QED
      BY <1>5, <1>7, <3>1
  <2> QED
    BY <2>2, <2>3, <2>4
<1> HIDE DEF end
<1>9. ASSUME NEW k \in 1..(n + 1)
      PROVE  /\ Len(BatchOf(r[k])) \in Nat /\ end[k] = end[k - 1] + Len(BatchOf(r[k]))
             /\ \A j \in 1..Len(BatchOf(r[k])) : t[end[k - 1] + j] = BatchOf(r[k])[j]
  <2>1. CASE k = n + 1
    <3>1. k - 1 = n /\ n \in 0..n /\ BatchOf(r[k]) = b
      BY <1>2, <2>1 DEF b
    <3>2. end[k] = Len(s) + Len(b) /\ end[k - 1] = Len(s)
      BY <1>4, <1>5, <1>7, <2>1, <3>1
    <3> QED
      BY <1>3, <1>4, <3>1, <3>2
  <2>2. CASE k \in 1..n
    <3>1. k - 1 \in 0..n /\ k \in 0..n
      BY <1>2, <2>2
    <3>2. /\ Len(BatchOf(q[k])) \in Nat /\ cut[k] = cut[k - 1] + Len(BatchOf(q[k])) /\ cut[k] <= Len(s)
          /\ cut[k] \in Nat /\ cut[k - 1] \in Nat
      BY <1>2, <1>5, <1>6, <2>2, <3>1
    <3>3. end[k] = cut[k] /\ end[k - 1] = cut[k - 1] /\ r[k] = q[k]
      BY <1>2, <1>7, <2>2, <3>1
    <3>4. ASSUME NEW j \in 1..Len(BatchOf(q[k])) PROVE t[cut[k - 1] + j] = BatchOf(q[k])[j]
      <4>1. Len(s) \in Nat
        BY <1>3
      <4>2. cut[k - 1] + j \in 1..Len(s)
        BY <3>2, <4>1, StretchWithin
      <4>3. s[cut[k - 1] + j] = BatchOf(q[k])[j]
        BY <1>6, <2>2
      <4> QED
        BY <1>4, <4>2, <4>3
    <3> QED
      BY <3>2, <3>3, <3>4
  <2> QED
    BY <1>2, <2>1, <2>2
<1>10. Cuts(end, t, r)
  BY <1>2, <1>7, <1>8, <1>9 DEF Cuts
<1> QED
  BY <1>4, <1>10 DEF Flat, b, r, t

LEMMA FlatTail ==
  ASSUME NEW Q, NEW q \in Seq(Q), q # <<>>, BatchOf(q[1]) = <<>>, NEW s, Flat(s, q)
  PROVE  Flat(s, Tail(q))
<1> DEFINE r == Tail(q)
           n == Len(q)
<1>1. PICK S, cut : s \in Seq(S) /\ Cuts(cut, s, q)
  BY DEF Flat
<1>2. n \in Nat \ {0} /\ Len(r) = n - 1 /\ \A k \in 1..(n - 1) : r[k] = q[k + 1]
  OBVIOUS
<1> DEFINE end == [k \in 0..(n - 1) |-> cut[k + 1]]
<1>3. /\ cut \in [0..n -> Nat] /\ cut[0] = 0 /\ cut[n] = Len(s)
      /\ \A k, l \in 0..n : k <= l => cut[k] <= cut[l]
  BY <1>1 DEF Cuts
<1>4. \A k \in 1..n : /\ Len(BatchOf(q[k])) \in Nat /\ cut[k] = cut[k - 1] + Len(BatchOf(q[k]))
                      /\ \A j \in 1..Len(BatchOf(q[k])) : s[cut[k - 1] + j] = BatchOf(q[k])[j]
  BY <1>1 DEF Cuts
<1>5. cut[1] = 0
  <2>1. 1 \in 1..n /\ 1 - 1 = 0 /\ Len(<<>>) = 0
    BY <1>2
  <2>2. cut[1] = cut[0] + 0
    BY <1>4, <2>1
  <2> QED
    BY <1>3, <2>2
<1> HIDE DEF r, n
<1>6. end \in [0..(n - 1) -> Nat] /\ end[0] = 0 /\ end[n - 1] = Len(s)
  BY <1>2, <1>3, <1>5
<1>7. \A k, l \in 0..(n - 1) : k <= l => end[k] <= end[l]
  BY <1>2, <1>3
<1>8. ASSUME NEW k \in 1..(n - 1)
      PROVE  /\ Len(BatchOf(r[k])) \in Nat /\ end[k] = end[k - 1] + Len(BatchOf(r[k]))
             /\ \A j \in 1..Len(BatchOf(r[k])) : s[end[k - 1] + j] = BatchOf(r[k])[j]
  <2>1. k + 1 \in 1..n /\ (k + 1) - 1 = k /\ end[k] = cut[k + 1] /\ end[k - 1] = cut[k] /\ r[k] = q[k + 1]
    BY <1>2
  <2> HIDE DEF end
  <2> QED
    BY <1>4, <2>1
<1> HIDE DEF end
<1>9. Cuts(end, s, r)
  BY <1>2, <1>6, <1>7, <1>8 DEF Cuts
<1> QED
  BY <1>1, <1>9 DEF Flat, r

\* The first mutation of the first batch is the first of all.
LEMMA FlatNext ==
  ASSUME NEW Q, NEW q \in Seq(Q), q # <<>>, NEW s, Flat(s, q), NEW W, BatchOf(q[1]) \in Seq(W),
         BatchOf(q[1]) # <<>>, NEW r, Len(r) = Len(q), BatchOf(r[1]) = Tail(BatchOf(q[1])),
         \A i \in 2..Len(q) : BatchOf(r[i]) = BatchOf(q[i])
  PROVE  s # <<>> /\ s[1] = BatchOf(q[1])[1] /\ Flat(Tail(s), r)
<1> DEFINE b == BatchOf(q[1])
           n == Len(q)
           t == Tail(s)
<1>1. PICK S, cut : s \in Seq(S) /\ Cuts(cut, s, q)
  BY DEF Flat
<1>2. n \in Nat \ {0} /\ 1 \in 1..n /\ 1 - 1 = 0
  OBVIOUS
<1>3. /\ cut \in [0..n -> Nat] /\ cut[0] = 0 /\ cut[n] = Len(s)
      /\ \A k, l \in 0..n : k <= l => cut[k] <= cut[l]
  BY <1>1 DEF Cuts
<1>4. \A k \in 1..n : /\ Len(BatchOf(q[k])) \in Nat /\ cut[k] = cut[k - 1] + Len(BatchOf(q[k]))
                      /\ \A j \in 1..Len(BatchOf(q[k])) : s[cut[k - 1] + j] = BatchOf(q[k])[j]
  BY <1>1 DEF Cuts
<1>5. /\ Len(b) \in Nat \ {0} /\ Tail(b) \in Seq(W) /\ Len(Tail(b)) = Len(b) - 1
      /\ \A j \in 1..(Len(b) - 1) : Tail(b)[j] = b[j + 1]
  OBVIOUS
<1> HIDE DEF b, n
<1>6. cut[1] = Len(b) /\ \A j \in 1..Len(b) : s[j] = b[j]
  <2>1. cut[1] = cut[0] + Len(b) /\ \A j \in 1..Len(b) : s[cut[0] + j] = b[j]
    BY <1>2, <1>4 DEF b
  <2> QED
    BY <1>3, <1>5, <2>1
<1>7. \A k \in 1..n : cut[k] \in Nat /\ cut[k] >= 1
  BY <1>2, <1>3, <1>5, <1>6
<1>8. Len(s) \in Nat \ {0}
  BY <1>2, <1>3, <1>7
<1>9. s # <<>> /\ t \in Seq(S) /\ Len(t) = Len(s) - 1 /\ \A i \in 1..(Len(s) - 1) : t[i] = s[i + 1]
  BY <1>1, <1>8
<1> DEFINE end == [k \in 0..n |-> IF k = 0 THEN 0 ELSE cut[k] - 1]
<1> HIDE DEF t
<1>10. /\ end \in [0..n -> Nat] /\ end[0] = 0 /\ end[n] = Len(t)
       /\ \A k \in 1..n : end[k] = cut[k] - 1
  BY <1>2, <1>3, <1>7, <1>9
<1> HIDE DEF end
<1>11. \A k, l \in 0..n : k <= l => end[k] <= end[l]
  <2> SUFFICES ASSUME NEW k \in 0..n, NEW l \in 0..n, k <= l PROVE end[k] <= end[l]
    OBVIOUS
  <2>1. CASE k = 0
    <3>1. end[l] \in Nat
      BY <1>10
    <3> QED
      BY <1>10, <2>1, <3>1
  <2>2. CASE k # 0
    <3>1. k \in 1..n /\ l \in 1..n
      BY <1>2, <2>2
    <3>2. cut[k] <= cut[l] /\ cut[k] \in Nat /\ cut[l] \in Nat
      BY <1>3
    <3> QED
      BY <1>10, <3>1, <3>2
  <2> QED
    BY <2>1, <2>2
<1>12. ASSUME NEW k \in 1..n
       PROVE  /\ Len(BatchOf(r[k])) \in Nat /\ end[k] = end[k - 1] + Len(BatchOf(r[k]))
              /\ \A j \in 1..Len(BatchOf(r[k])) : t[end[k - 1] + j] = BatchOf(r[k])[j]
  <2>1. CASE k = 1
    <3>1. end[k] = Len(b) - 1 /\ end[k - 1] = 0 /\ BatchOf(r[k]) = Tail(b)
      BY <1>2, <1>6, <1>10, <2>1 DEF b
    <3>2. ASSUME NEW j \in 1..(Len(b) - 1) PROVE t[j] = Tail(b)[j]
      <4>1. j \in 1..(Len(s) - 1) /\ j + 1 \in 1..Len(b) /\ Len(b) <= Len(s)
        BY <1>2, <1>3, <1>5, <1>6, <1>8
      <4> QED
        BY <1>5, <1>6, <1>9, <4>1
    <3> QED
      BY <1>5, <3>1, <3>2
  <2>2. CASE k # 1
    <3>1. /\ k \in 2..n /\ k - 1 \in 1..n /\ BatchOf(r[k]) = BatchOf(q[k])
      BY <1>2, <2>2 DEF n
    <3>2. /\ end[k] = cut[k] - 1 /\ end[k - 1] = cut[k - 1] - 1
          /\ Len(BatchOf(q[k])) \in Nat /\ cut[k] = cut[k - 1] + Len(BatchOf(q[k]))
          /\ cut[k] \in Nat /\ cut[k - 1] \in Nat /\ cut[k - 1] >= 1 /\ cut[k] <= Len(s)
      BY <1>2, <1>3, <1>4, <1>7, <1>10, <3>1
    <3>3. ASSUME NEW j \in 1..Len(BatchOf(q[k])) PROVE t[end[k - 1] + j] = BatchOf(q[k])[j]
      <4>1. s[cut[k - 1] + j] = BatchOf(q[k])[j]
        BY <1>4
      <4>2. end[k - 1] + j \in 1..(Len(s) - 1) /\ (end[k - 1] + j) + 1 = cut[k - 1] + j
        <5> DEFINE m == Len(BatchOf(q[k]))
                   u == cut[k - 1]
                   v == Len(s)
        <5>1. m \in Nat /\ j \in 1..m /\ u \in Nat /\ u >= 1 /\ v \in Nat /\ u + m <= v /\ end[k - 1] = u - 1
          BY <1>8, <3>2
        <5> HIDE DEF m, u, v
        <5>2. (u - 1) + j \in 1..(v - 1) /\ ((u - 1) + j) + 1 = u + j
          BY <5>1
        <5> QED
          BY <5>1, <5>2 DEF u, v
      <4> QED
        BY <1>9, <4>1, <4>2
    <3>4. end[k] = end[k - 1] + Len(BatchOf(q[k]))
      BY <3>2
    <3> QED
      BY <3>1, <3>3, <3>4
  <2> QED
    BY <2>1, <2>2
<1>13. Cuts(end, t, r)
  BY <1>10, <1>11, <1>12 DEF Cuts, n
<1>14. s[1] = b[1]
  BY <1>5, <1>6
<1> QED
  BY <1>9, <1>13, <1>14 DEF Flat, b, t

-----------------------------------------------------------------------------
(* Identifiers are not used again *)

\* A row of an identifier, and one that is closed.
Archived(rows, i) == \E r \in DOMAIN rows : rows[r].id = i
Shut(rows, i) == \E r \in DOMAIN rows : rows[r].id = i /\ ~rows[r].open
OnePerId(rows) == \A r, t \in DOMAIN rows : rows[r].id = rows[t].id => r = t

\* A mutation saves an identifier, or closes what it finds of it.
Names(m, i) == m.op = "save" /\ m.note.id = i
Retires(m, i) == m.op = "clear" \/ (m.op = "close" /\ m.id = i)

\* Neither the rows nor the first n mutations know the identifier; no record of
\* it is closed now or by one of them.
Unseen(rows, s, i, n) == ~Archived(rows, i) /\ \A a \in 1..n : ~Names(s[a], i)
Unretired(rows, s, i, n) ==
  ~Shut(rows, i) /\ \A b \in 1..n : Retires(s[b], i) => Unseen(rows, s, i, b - 1)

\* n is the last identifier handed out, living the ones in use: what is in use or
\* still to be saved has no closed record, and what was not handed out none at all.
Numbered(d, s, living, n) ==
  /\ OnePerId(d.rows) /\ d.lastId <= n
  /\ \A i \in Ids : Archived(d.rows, i) => i <= d.lastId
  /\ \A c \in 1..Len(s), i \in Ids : Names(s[c], i) => Unretired(d.rows, s, i, c - 1)
  /\ \A i \in living : i <= n /\ Unretired(d.rows, s, i, Len(s))
  /\ \A i \in Ids : i > n => Unseen(d.rows, s, i, Len(s))

\* Some of the rows.
Thins(x, rows) ==
  /\ \A i \in Ids : (Archived(x, i) => Archived(rows, i)) /\ (Shut(x, i) => Shut(rows, i))
  /\ OnePerId(rows) => OnePerId(x)

LEMMA RowsAtThins ==
  ASSUME NEW R, NEW rows \in Seq(R), NEW places, places \subseteq DOMAIN rows
  PROVE  Thins(rows_at(rows, places), rows)
<1> DEFINE m == Cardinality(places)
           f == InOrder(places)
           x == rows_at(rows, places)
<1>1. Len(rows) \in Nat /\ DOMAIN rows = 1..Len(rows)
  OBVIOUS
<1>2. m \in Nat /\ Lists(f, m, places)
  BY <1>1, InOrderLists
<1>3. DOMAIN x = 1..m /\ \A k \in 1..m : x[k] = rows[f[k]]
  BY DEF rows_at
<1>4. \A k \in 1..m : f[k] \in places /\ f[k] \in DOMAIN rows /\ f[k] \in Nat
  <2>1. f \in [1..m -> places]
    BY <1>2 DEF Lists
  <2> HIDE DEF f, m
  <2> QED
    BY <1>1, <2>1
<1>5. ASSUME NEW j \in 1..m, NEW k \in 1..m, f[j] = f[k] PROVE j = k
  <2>1. (j < k => f[j] < f[k]) /\ (k < j => f[k] < f[j])
    BY <1>2 DEF Lists
  <2> HIDE DEF f
  <2> QED
    BY <1>2, <1>4, <1>5, <2>1
<1> HIDE DEF m, f, x
<1>6. \A i \in Ids : (Archived(x, i) => Archived(rows, i)) /\ (Shut(x, i) => Shut(rows, i))
  BY <1>3, <1>4 DEF Archived, Shut
<1>7. ASSUME OnePerId(rows) PROVE OnePerId(x)
  <2> SUFFICES ASSUME NEW j \in 1..m, NEW k \in 1..m, x[j].id = x[k].id PROVE j = k
    BY <1>3 DEF OnePerId
  <2>1. rows[f[j]].id = rows[f[k]].id
    BY <1>3
  <2> QED
    BY <1>4, <1>5, <1>7, <2>1 DEF OnePerId
<1> QED
  BY <1>6, <1>7 DEF Thins, x

\* A transaction that only removes rows.
LEMMA ThinnedNumbered ==
  ASSUME NEW d, NEW s, NEW L, L \subseteq Ids, NEW n, Numbered(d, s, L, n),
         NEW e, Thins(e.rows, d.rows), e.lastId = d.lastId
  PROVE  Numbered(e, s, L, n)
<1>1. ASSUME NEW i \in Ids, NEW k, Unseen(d.rows, s, i, k) PROVE Unseen(e.rows, s, i, k)
  BY <1>1 DEF Unseen, Thins
<1>2. ASSUME NEW i \in Ids, NEW k, Unretired(d.rows, s, i, k) PROVE Unretired(e.rows, s, i, k)
  BY <1>1, <1>2 DEF Unretired, Thins
<1>3. OnePerId(e.rows) /\ e.lastId <= n /\ \A i \in Ids : Archived(e.rows, i) => i <= e.lastId
  BY DEF Numbered, Thins
<1>4. \A c \in 1..Len(s), i \in Ids : Names(s[c], i) => Unretired(e.rows, s, i, c - 1)
  BY <1>2 DEF Numbered
<1>5. \A i \in L : i <= n /\ Unretired(e.rows, s, i, Len(s))
  BY <1>2 DEF Numbered
<1>6. \A i \in Ids : i > n => Unseen(e.rows, s, i, Len(s))
  BY <1>1 DEF Numbered
<1> QED
  BY <1>3, <1>4, <1>5, <1>6 DEF Numbered

LEMMA DiscardThins == ASSUME NEW rows \in Seq(Row), NEW i PROVE Thins(discard_open(rows, i), rows)
BY RowsAtThins DEF discard_open

LEMMA PruneThins ==
  ASSUME NEW d \in Store PROVE Thins(prune_inner(d).rows, d.rows) /\ prune_inner(d).lastId = d.lastId
<1>1. d.rows \in Seq(Row)
  BY DEF Store
<1>2. prune_inner(d).rows = retained_rows(d.rows, d.cutoff) /\ prune_inner(d).lastId = d.lastId
  BY DEF prune_inner, Store
<1>3. Thins(retained_rows(d.rows, d.cutoff), d.rows)
  BY <1>1, RowsAtThins DEF retained_rows
<1> QED
  BY <1>2, <1>3

LEMMA DeleteThins ==
  ASSUME NEW d \in Store, NEW P PROVE Thins(delete_rows(d, P).rows, d.rows) /\ delete_rows(d, P).lastId = d.lastId
<1>1. d.rows \in Seq(Row)
  BY DEF Store
<1>2. delete_rows(d, P).rows = delete_where(d.rows, P) /\ delete_rows(d, P).lastId = d.lastId
  BY DEF delete_rows, Store
<1>3. Thins(delete_where(d.rows, P), d.rows)
  BY <1>1, RowsAtThins DEF delete_where
<1> QED
  BY <1>2, <1>3

\* A saved notification gets a row of its own, or updates the one it has.
LEMMA SaveNumbers ==
  ASSUME NEW d \in Store, NEW m, m.id \in Ids, OnePerId(d.rows), ~Shut(d.rows, m.id),
         \A i \in Ids : Archived(d.rows, i) => i <= d.lastId
  PROVE  LET e == save_inner(d, m)
         IN  /\ OnePerId(e.rows) /\ \A i \in Ids : Archived(e.rows, i) => i <= e.lastId
             /\ e.lastId = IF m.id > d.lastId THEN m.id ELSE d.lastId
             /\ \A i \in Ids : Archived(e.rows, i) => Archived(d.rows, i) \/ i = m.id
             /\ \A i \in Ids : Shut(e.rows, i) => Shut(d.rows, i)
<1> DEFINE e == save_inner(d, m)
           x == d.rows
           y == e.rows
           found == Conversation(x, m.id)
           row == [id |-> m.id, born |-> m.born, open |-> TRUE]
<1>1. x \in Seq(Row) /\ Len(x) \in Nat /\ DOMAIN x = 1..Len(x) /\ d.lastId \in Nat /\ m.id \in Nat
  BY EngineAssumption DEF Store, Ids
<1>2. /\ y = IF m.transient THEN discard_open(x, m.id) ELSE save_content(x, m)
      /\ e.lastId = IF m.id > d.lastId THEN m.id ELSE d.lastId
  BY DEF save_inner, remember_id, Store
<1>3. m.id <= e.lastId /\ d.lastId <= e.lastId
  BY <1>1, <1>2
<1>4. row.id = m.id /\ row.open
  OBVIOUS
<1> HIDE DEF row
<1>5. CASE m.transient
  <2>1. Thins(y, x)
    BY <1>1, <1>2, <1>5, DiscardThins
  <2>2. OnePerId(y) /\ \A i \in Ids : (Archived(y, i) => Archived(x, i)) /\ (Shut(y, i) => Shut(x, i))
    BY <2>1 DEF Thins
  <2> HIDE DEF x, y, e
  <2> QED
    BY <1>1, <1>2, <1>3, <2>2 DEF x, y, e, Ids
<1>6. CASE ~m.transient /\ found = {}
  <2>1. y = Append(x, row)
    BY <1>2, <1>6 DEF save_content, row
  <2>2. DOMAIN y = 1..(Len(x) + 1) /\ y[Len(x) + 1] = row /\ \A r \in 1..Len(x) : y[r] = x[r]
    BY <1>1, <2>1
  <2>3. ~Archived(x, m.id)
    BY <1>6 DEF Archived, Shut, Conversation
  <2> HIDE DEF x, y, found
  <2>4. OnePerId(y)
    <3> SUFFICES ASSUME NEW r \in DOMAIN y, NEW t \in DOMAIN y, y[r].id = y[t].id PROVE r = t
      BY DEF OnePerId
    <3>1. CASE r \in 1..Len(x) /\ t \in 1..Len(x)
      BY <1>1, <2>2, <3>1 DEF OnePerId, x
    <3>2. CASE r = Len(x) + 1 /\ t \in 1..Len(x)
      BY <1>1, <1>4, <2>2, <2>3, <3>2 DEF Archived
    <3>3. CASE t = Len(x) + 1 /\ r \in 1..Len(x)
      BY <1>1, <1>4, <2>2, <2>3, <3>3 DEF Archived
    <3>4. CASE r = Len(x) + 1 /\ t = Len(x) + 1
      BY <3>4
    <3> QED
      BY <1>1, <2>2, <3>1, <3>2, <3>3, <3>4
  <2>5. ASSUME NEW i \in Ids, Archived(y, i) PROVE Archived(x, i) \/ i = m.id
    BY <1>1, <1>4, <2>2, <2>5 DEF Archived
  <2>6. ASSUME NEW i \in Ids, Shut(y, i) PROVE Shut(x, i)
    BY <1>1, <1>4, <2>2, <2>6 DEF Shut
  <2> QED
    BY <1>1, <1>2, <1>3, <2>4, <2>5, <2>6 DEF x, y, Ids
<1>7. CASE ~m.transient /\ found # {}
  <2>1. y = [r \in DOMAIN x |-> IF r \in found THEN row ELSE x[r]]
    BY <1>2, <1>7 DEF save_content, row
  <2>2. \A r \in found : x[r].id = m.id
    BY DEF Conversation
  <2> HIDE DEF x, found
  <2>3. DOMAIN y = DOMAIN x /\ \A r \in DOMAIN x : y[r].id = x[r].id /\ (~y[r].open => ~x[r].open)
    BY <1>4, <2>1, <2>2
  <2> HIDE DEF y
  <2>4. OnePerId(y)
    BY <2>3 DEF OnePerId, x
  <2>5. \A i \in Ids : (Archived(y, i) => Archived(x, i)) /\ (Shut(y, i) => Shut(x, i))
    BY <2>3 DEF Archived, Shut
  <2> QED
    BY <1>1, <1>2, <1>3, <2>4, <2>5 DEF x, y, Ids
<1> QED
  BY <1>5, <1>6, <1>7

\* In a batch no identifier is saved after it is closed.
Orderly(b) == \A j, k \in 1..Len(b) : \A i \in Ids : k < j /\ Names(b[j], i) => ~Retires(b[k], i)

LEMMA EnqueueNumbered ==
  ASSUME NEW S, NEW s \in Seq(S), NEW W, NEW b \in Seq(W), Orderly(b), NEW d, d.lastId \in Nat,
         NEW L, L \subseteq Ids, NEW n \in Nat, Numbered(d, s, L, n),
         NEW M, M \subseteq Ids, NEW m \in Nat, n <= m,
         \A j \in 1..Len(b), i \in Ids : Names(b[j], i) => (i \in L \/ i > n) /\ i <= m,
         \A i \in M : (i \in L \/ i > n) /\ i <= m /\ \A j \in 1..Len(b) : ~Retires(b[j], i)
  PROVE  Numbered(d, s \o b, M, m)
<1> DEFINE t == s \o b
           x == d.rows
           u == Len(s)
           v == Len(b)
<1>0. Ids \subseteq Nat
  BY EngineAssumption DEF Ids
<1>1. u \in Nat /\ v \in Nat /\ Len(t) = u + v
  OBVIOUS
<1>2. \A k \in 1..u : t[k] = s[k]
  OBVIOUS
<1>3. \A k \in (u + 1)..(u + v) : k - u \in 1..v /\ t[k] = b[k - u]
  OBVIOUS
<1> HIDE DEF t, u, v
<1>4. ASSUME NEW i \in Ids, i \in L \/ i > n PROVE Unretired(x, s, i, u)
  <2>1. CASE i \in L
    BY <2>1 DEF Numbered, u
  <2>2. CASE i > n
    <3>1. Unseen(x, s, i, u)
      BY <2>2 DEF Numbered, u
    <3>2. \A k \in 1..u : \A a \in 1..(k - 1) : a \in 1..u
      BY <1>1
    <3> QED
      BY <3>1, <3>2 DEF Unseen, Unretired, Archived, Shut
  <2> QED
    BY <1>4, <2>1, <2>2
<1>5. ASSUME NEW i, NEW k \in 0..u, Unseen(x, s, i, k) PROVE Unseen(x, t, i, k)
  <2>1. \A a \in 1..k : a \in 1..u
    BY <1>1
  <2> QED
    BY <1>2, <1>5, <2>1 DEF Unseen
<1>6. ASSUME NEW i, NEW k \in 0..u, Unretired(x, s, i, k) PROVE Unretired(x, t, i, k)
  <2>1. \A c \in 1..k : c \in 1..u /\ c - 1 \in 0..u
    BY <1>1
  <2> QED
    BY <1>2, <1>5, <1>6, <2>1 DEF Unretired
<1>7. ASSUME NEW i \in Ids, i \in L \/ i > n, NEW k \in u..(u + v), \A j \in 1..(k - u) : ~Retires(b[j], i)
      PROVE  Unretired(x, t, i, k)
  <2>1. Unretired(x, t, i, u)
    <3>1. u \in 0..u
      BY <1>1
    <3> QED
      BY <1>4, <1>6, <1>7, <3>1
  <2>2. ASSUME NEW c \in 1..k, Retires(t[c], i) PROVE c \in 1..u
    <3>1. c \in (u + 1)..(u + v) => c - u \in 1..(k - u) /\ t[c] = b[c - u]
      BY <1>1, <1>3
    <3> QED
      BY <1>1, <1>7, <2>2, <3>1
  <2> QED
    BY <2>1, <2>2 DEF Unretired
<1>8. ASSUME NEW c \in 1..(u + v), NEW i \in Ids, Names(t[c], i) PROVE Unretired(x, t, i, c - 1)
  <2>1. CASE c \in 1..u
    <3>1. Names(s[c], i) /\ c - 1 \in 0..u
      BY <1>1, <1>2, <1>8, <2>1
    <3>2. Unretired(x, s, i, c - 1)
      BY <2>1, <3>1 DEF Numbered, u
    <3> QED
      BY <1>6, <3>1, <3>2
  <2>2. CASE c \in (u + 1)..(u + v)
    <3>1. c - u \in 1..v /\ Names(b[c - u], i) /\ c - 1 \in u..(u + v)
      BY <1>1, <1>3, <1>8, <2>2
    <3>2. i \in L \/ i > n
      BY <3>1 DEF v
    <3>3. ASSUME NEW j \in 1..((c - 1) - u) PROVE ~Retires(b[j], i)
      <4>1. j \in 1..v /\ j < c - u
        BY <1>1, <3>1
      <4> QED
        BY <3>1, <4>1 DEF Orderly, v
    <3> QED
      BY <1>7, <3>1, <3>2, <3>3
  <2> QED
    BY <1>1, <2>1, <2>2
<1>9. ASSUME NEW i \in M PROVE i <= m /\ Unretired(x, t, i, u + v)
  <2>1. u + v \in u..(u + v) /\ (u + v) - u = v
    BY <1>1
  <2> QED
    BY <1>7, <2>1 DEF v
<1>10. ASSUME NEW i \in Ids, i > m PROVE Unseen(x, t, i, u + v)
  <2>1. i > n /\ ~(i <= m)
    BY <1>0, <1>10
  <2>2. Unseen(x, s, i, u)
    BY <2>1 DEF Numbered, u
  <2>3. ASSUME NEW a \in 1..(u + v), Names(t[a], i) PROVE FALSE
    <3>1. CASE a \in 1..u
      BY <1>2, <2>2, <2>3, <3>1 DEF Unseen
    <3>2. CASE a \in (u + 1)..(u + v)
      BY <1>3, <2>1, <2>3, <3>2 DEF v
    <3> QED
      BY <1>1, <3>1, <3>2
  <2> QED
    BY <2>2, <2>3 DEF Unseen
<1>11. OnePerId(x) /\ d.lastId <= m /\ \A i \in Ids : Archived(x, i) => i <= d.lastId
  BY DEF Numbered
<1> QED
  BY <1>1, <1>8, <1>9, <1>10, <1>11 DEF Numbered, t

\* The first mutation is applied, or skipped.
LEMMA AppliedNumbered ==
  ASSUME NEW S, NEW s \in Seq(S), s # <<>>, NEW d, NEW L, L \subseteq Ids, NEW n, Numbered(d, s, L, n),
         NEW e, OnePerId(e.rows), e.lastId <= n, \A i \in Ids : Archived(e.rows, i) => i <= e.lastId,
         \A i \in Ids : Archived(e.rows, i) => Archived(d.rows, i) \/ Names(s[1], i),
         \A i \in Ids : Shut(e.rows, i) => Shut(d.rows, i) \/ (Retires(s[1], i) /\ Archived(d.rows, i))
  PROVE  Numbered(e, Tail(s), L, n)
<1> DEFINE t == Tail(s)
           x == d.rows
           y == e.rows
           u == Len(s)
<1>1. u \in Nat \ {0} /\ Len(t) = u - 1 /\ \A k \in 1..(u - 1) : t[k] = s[k + 1]
  OBVIOUS
<1> HIDE DEF t, u
<1>2. ASSUME NEW i \in Ids, NEW k \in 1..u, Unseen(x, s, i, k) PROVE Unseen(y, t, i, k - 1)
  <2>1. 1 \in 1..k
    BY <1>1
  <2>2. ~Archived(y, i)
    BY <1>2, <2>1 DEF Unseen
  <2>3. \A a \in 1..(k - 1) : a + 1 \in 1..k /\ t[a] = s[a + 1]
    BY <1>1
  <2> QED
    BY <1>2, <2>2, <2>3 DEF Unseen
<1>3. ASSUME NEW i \in Ids, NEW k \in 1..u, Unretired(x, s, i, k) PROVE Unretired(y, t, i, k - 1)
  <2>1. 1 \in 1..k
    BY <1>1
  <2>2. ~Shut(y, i)
    BY <1>3, <2>1 DEF Unretired, Unseen
  <2>3. ASSUME NEW b \in 1..(k - 1), Retires(t[b], i) PROVE Unseen(y, t, i, b - 1)
    <3>0. b + 1 \in 1..k /\ b \in 1..u /\ b \in 1..(u - 1) /\ (b + 1) - 1 = b
      BY <1>1
    <3>1. b + 1 \in 1..k /\ b \in 1..u /\ t[b] = s[b + 1] /\ (b + 1) - 1 = b
      BY <1>1, <3>0
    <3>2. Unseen(x, s, i, b)
      BY <1>3, <2>3, <3>1 DEF Unretired
    <3> QED
      BY <1>2, <3>1, <3>2
  <2> QED
    BY <2>2, <2>3 DEF Unretired
<1>4. ASSUME NEW c \in 1..(u - 1), NEW i \in Ids, Names(t[c], i) PROVE Unretired(y, t, i, c - 1)
  <2>1. c + 1 \in 1..u /\ c \in 1..u /\ t[c] = s[c + 1] /\ (c + 1) - 1 = c
    BY <1>1
  <2>2. Unretired(x, s, i, c)
    BY <1>4, <2>1 DEF Numbered, u
  <2> QED
    BY <1>3, <2>1, <2>2
<1>5. u \in 1..u
  BY <1>1
<1>6. \A i \in L : i <= n /\ Unretired(y, t, i, u - 1)
  <2>1. \A i \in L : i \in Ids /\ i <= n /\ Unretired(x, s, i, u)
    BY DEF Numbered, u
  <2> QED
    BY <1>3, <1>5, <2>1
<1>7. \A i \in Ids : i > n => Unseen(y, t, i, u - 1)
  <2>1. \A i \in Ids : i > n => Unseen(x, s, i, u)
    BY DEF Numbered, u
  <2> QED
    BY <1>2, <1>5, <2>1
<1> QED
  BY <1>1, <1>4, <1>6, <1>7 DEF Numbered, t

LEMMA MutationNumbered ==
  ASSUME NEW S, NEW s \in Seq(S), s # <<>>, NEW E, NEW d, StoreWithin(d, E), s[1] \in Writes(E),
         NEW L, L \subseteq Ids, NEW n \in Nat, Numbered(d, s, L, n)
  PROVE  Numbered(apply(d, s[1]), Tail(s), L, n) /\ Numbered(d, Tail(s), L, n)
<1> DEFINE m == s[1]
           e == apply(d, m)
<1>0. d \in Store /\ d.rows \in Seq(Row)
  BY DEF StoreWithin, Store
<1>1. /\ OnePerId(d.rows) /\ d.lastId <= n /\ \A i \in Ids : Archived(d.rows, i) => i <= d.lastId
  BY DEF Numbered
<1>2. Numbered(d, Tail(s), L, n)
  BY <1>1, AppliedNumbered
<1>3. CASE m.op = "save"
  <2>1. e = save_inner(d, m.note) /\ m.note.id \in Ids /\ Names(m, m.note.id)
    BY <1>3 DEF apply, Writes, Names
  <2>2. 1 \in 1..Len(s) /\ 1 - 1 = 0
    OBVIOUS
  <2>3. ~Shut(d.rows, m.note.id)
    BY <2>1, <2>2 DEF Numbered, Unretired
  <2>4. m.note.id <= n
    <3>1. m.note.id \in Nat
      BY <2>1, EngineAssumption DEF Ids
    <3>2. ~(m.note.id > n)
      BY <2>1, <2>2 DEF Numbered, Unseen
    <3> QED
      BY <3>1, <3>2
  <2> DEFINE w == m.note
  <2> HIDE DEF m, e, w
  <2>5. /\ OnePerId(e.rows) /\ \A i \in Ids : Archived(e.rows, i) => i <= e.lastId
        /\ e.lastId = IF w.id > d.lastId THEN w.id ELSE d.lastId
        /\ \A i \in Ids : Archived(e.rows, i) => Archived(d.rows, i) \/ i = w.id
        /\ \A i \in Ids : Shut(e.rows, i) => Shut(d.rows, i)
    BY <1>0, <1>1, <2>1, <2>3, SaveNumbers DEF w
  <2>6. e.lastId <= n
    BY <1>1, <2>4, <2>5 DEF w
  <2>7. Numbered(e, Tail(s), L, n)
    BY <2>1, <2>5, <2>6, AppliedNumbered DEF w, m
  <2> QED
    BY <1>2, <2>7 DEF e, m
<1>4. ASSUME NEW ids, e = close_inner(d, ids), \A i \in ids : Archived(d.rows, i) => Retires(m, i)
      PROVE  Numbered(e, Tail(s), L, n)
  <2>1. e.lastId = d.lastId /\ e.rows = close_rows(d.rows, ids)
    BY <1>0, <1>4 DEF close_inner, Store
  <2> HIDE DEF e, m
  <2>2. \A r \in DOMAIN d.rows : d.rows[r] \in Row
    BY <1>0
  <2>3. /\ DOMAIN e.rows = DOMAIN d.rows
        /\ \A r \in DOMAIN d.rows : /\ e.rows[r].id = d.rows[r].id
                                    /\ ~e.rows[r].open => ~d.rows[r].open \/ d.rows[r].id \in ids
    BY <2>1, <2>2 DEF close_rows, Row
  <2>4. OnePerId(e.rows)
    BY <1>1, <2>3 DEF OnePerId
  <2>5. ASSUME NEW i \in Ids PROVE /\ Archived(e.rows, i) => Archived(d.rows, i)
                                   /\ Shut(e.rows, i) => Shut(d.rows, i) \/ (i \in ids /\ Archived(d.rows, i))
    BY <2>3 DEF Archived, Shut
  <2> QED
    BY <1>1, <1>4, <2>1, <2>4, <2>5, AppliedNumbered DEF m
<1>5. CASE m.op = "close"
  <2>1. e = close_inner(d, {m.id}) /\ \A i \in {m.id} : Retires(m, i)
    BY <1>5 DEF apply, Retires
  <2>2. Numbered(e, Tail(s), L, n)
    <3> DEFINE ids == {m.id}
    <3> HIDE DEF ids
    <3>1. e = close_inner(d, ids) /\ \A i \in ids : Archived(d.rows, i) => Retires(m, i)
      BY <2>1 DEF ids
    <3> HIDE DEF e, m
    <3> QED
      BY <1>4, <3>1
  <2> QED
    BY <1>2, <2>2
<1>6. CASE m.op = "clear"
  <2> DEFINE ids == {d.rows[i].id : i \in DOMAIN d.rows}
  <2>1. e = close_inner(d, ids) /\ \A i \in ids : Retires(m, i)
    BY <1>6 DEF apply, Retires
  <2> HIDE DEF e, m, ids
  <2> QED
    BY <1>2, <1>4, <2>1 DEF e, m
<1>7. CASE m.op \notin {"save", "close", "clear"}
  <2>1. e = [d EXCEPT !.dnd = m.dnd]
    BY <1>7 DEF apply
  <2>2. e.rows = d.rows /\ e.lastId = d.lastId
    BY <1>0, <2>1 DEF Store
  <2> HIDE DEF e
  <2> QED
    BY <1>1, <1>2, <2>2, AppliedNumbered DEF e
<1> QED
  BY <1>3, <1>5, <1>6, <1>7

\* A batch that saves identifiers of N and closes some of K.
Shaped(b, N, K) ==
  /\ \E W : b \in Seq(W)
  /\ Orderly(b)
  /\ \A j \in 1..Len(b) : \A i \in Ids : (Names(b[j], i) => i \in N) /\ (Retires(b[j], i) => i \in K)

LEMMA OneShaped ==
  ASSUME NEW m, NEW N, NEW K, \A i \in Ids : (Names(m, i) => i \in N) /\ (Retires(m, i) => i \in K)
  PROVE  Shaped(<<m>>, N, K)
<1> DEFINE b == <<m>>
<1>1. b \in Seq({m}) /\ Len(b) = 1 /\ b[1] = m
  OBVIOUS
<1> HIDE DEF b
<1>2. \A j \in 1..Len(b) : j = 1 /\ b[j] = m
  BY <1>1
<1>3. Orderly(b)
  BY <1>1, <1>2 DEF Orderly
<1> QED
  BY <1>1, <1>2, <1>3 DEF Shaped, b

LEMMA EmptyShaped == Shaped(<<>>, {}, {})
<1>1. <<>> \in Seq({}) /\ Len(<<>>) = 0 /\ 1..0 = {}
  OBVIOUS
<1> QED
  BY <1>1 DEF Shaped, Orderly

LEMMA SavedShaped == ASSUME NEW n PROVE Shaped(<<Saved(n)>>, {n.id}, {})
<1>1. Saved(n).op = "save" /\ Saved(n).note.id = n.id
  BY DEF Saved
<1> QED
  BY <1>1, OneShaped DEF Names, Retires

LEMMA ClosedShaped == ASSUME NEW id PROVE Shaped(<<Closed(id)>>, {}, {id})
<1>1. Closed(id).op = "close" /\ Closed(id).id = id
  BY DEF Closed
<1> QED
  BY <1>1, OneShaped DEF Names, Retires

LEMMA ClearedShaped == Shaped(<<Cleared>>, {}, Ids)
<1>1. Cleared.op = "clear"
  BY DEF Cleared
<1> QED
  BY <1>1, OneShaped DEF Names, Retires

LEMMA DndShaped == ASSUME NEW d PROVE Shaped(<<DndSet(d)>>, {}, {})
<1>1. DndSet(d).op = "dnd"
  BY DEF DndSet
<1> QED
  BY <1>1, OneShaped DEF Names, Retires

LEMMA ClosesShaped == ASSUME NEW K, K \subseteq Ids PROVE Shaped(Closes(K), {}, K)
<1> DEFINE m == Cardinality(K)
           f == InOrder(K)
           b == Closes(K)
<1>1. m \in Nat /\ Lists(f, m, K)
  BY EngineAssumption, InOrderLists DEF Ids
<1>2. f \in [1..m -> K]
  BY <1>1 DEF Lists
<1>3. b = [k \in 1..m |-> Closed(f[k])]
  BY DEF Closes
<1> HIDE DEF m, f, b
<1>4. b \in Seq({Closed(i) : i \in K}) /\ Len(b) = m /\ \A k \in 1..m : b[k] = Closed(f[k])
  BY <1>1, <1>2, <1>3
<1>5. \A k \in 1..m : b[k].op = "close" /\ b[k].id \in K
  BY <1>2, <1>4 DEF Closed
<1>6. Orderly(b)
  BY <1>4, <1>5 DEF Orderly, Names
<1>7. \A j \in 1..Len(b) : \A i \in Ids : ~Names(b[j], i) /\ (Retires(b[j], i) => i \in K)
  BY <1>4, <1>5 DEF Names, Retires
<1> QED
  BY <1>4, <1>6, <1>7 DEF Shaped, b

LEMMA SavesShaped ==
  ASSUME NEW K, K \subseteq Ids, NEW a, \A i \in K : a[i].id = i PROVE Shaped(Saves(K, a), K, {})
<1> DEFINE m == Cardinality(K)
           f == InOrder(K)
           b == Saves(K, a)
<1>1. m \in Nat /\ Lists(f, m, K)
  BY EngineAssumption, InOrderLists DEF Ids
<1>2. f \in [1..m -> K]
  BY <1>1 DEF Lists
<1>3. b = [k \in 1..m |-> Saved(a[f[k]])]
  BY DEF Saves
<1> HIDE DEF m, f, b
<1>4. b \in Seq({Saved(a[i]) : i \in K}) /\ Len(b) = m /\ \A k \in 1..m : b[k] = Saved(a[f[k]])
  BY <1>1, <1>2, <1>3
<1>5. \A k \in 1..m : b[k].op = "save" /\ b[k].note.id \in K
  BY <1>2, <1>4, SMTT(30) DEF Saved
<1>6. Orderly(b)
  BY <1>4, <1>5 DEF Orderly, Retires
<1>7. \A j \in 1..Len(b) : \A i \in Ids : (Names(b[j], i) => i \in K) /\ ~Retires(b[j], i)
  BY <1>4, <1>5 DEF Names, Retires
<1> QED
  BY <1>4, <1>6, <1>7 DEF Shaped, b

\* What the second batch saves, the first has not closed.
LEMMA ConcatShaped ==
  ASSUME NEW a, NEW N, NEW K, Shaped(a, N, K), NEW b, NEW M, NEW J, Shaped(b, M, J), K \cap M = {}
  PROVE  Shaped(a \o b, N \cup M, K \cup J)
<1> DEFINE t == a \o b
           u == Len(a)
           v == Len(b)
<1>1. PICK V : a \in Seq(V)
  BY DEF Shaped
<1>2. PICK W : b \in Seq(W)
  BY DEF Shaped
<1>3. a \in Seq(V \cup W) /\ b \in Seq(V \cup W)
  BY <1>1, <1>2
<1>4. t \in Seq(V \cup W) /\ Len(t) = u + v /\ u \in Nat /\ v \in Nat
  BY <1>3
<1>5. \A k \in 1..(u + v) : (k \in 1..u /\ t[k] = a[k]) \/ (k > u /\ k - u \in 1..v /\ t[k] = b[k - u])
  <2>1. \A k \in 1..u : t[k] = a[k]
    BY <1>3
  <2>2. \A k \in (u + 1)..(u + v) : k - u \in 1..v /\ t[k] = b[k - u]
    BY <1>3
  <2> HIDE DEF t, u, v
  <2> QED
    BY <1>4, <2>1, <2>2
<1> HIDE DEF t, u, v
<1>6. ASSUME NEW j \in 1..(u + v), NEW i \in Ids
      PROVE  /\ Names(t[j], i) => (j \in 1..u /\ i \in N) \/ (j > u /\ i \in M)
             /\ Retires(t[j], i) => (j \in 1..u /\ i \in K) \/ (j > u /\ i \in J)
  BY <1>4, <1>5 DEF Shaped, u, v
<1>7. ASSUME NEW j \in 1..(u + v), NEW k \in 1..(u + v), NEW i \in Ids, k < j, Names(t[j], i), Retires(t[k], i)
      PROVE  FALSE
  <2>1. CASE j \in 1..u
    <3>1. k \in 1..u /\ ~(k > u) /\ ~(j > u)
      BY <1>4, <1>7, <2>1
    <3> QED
      BY <1>5, <1>7, <2>1, <3>1 DEF Shaped, Orderly, u
  <2>2. CASE j > u /\ k \in 1..u
    <3>1. ~(j \in 1..u) /\ ~(k > u)
      BY <1>4, <2>2
    <3> QED
      BY <1>6, <1>7, <3>1
  <2>3. CASE j > u /\ k > u
    <3>1. j - u \in 1..v /\ k - u \in 1..v /\ k - u < j - u /\ t[j] = b[j - u] /\ t[k] = b[k - u]
      BY <1>4, <1>5, <1>7, <2>3
    <3> QED
      BY <1>7, <3>1 DEF Shaped, Orderly, v
  <2> QED
    BY <1>4, <2>1, <2>2, <2>3
<1>8. Orderly(t)
  BY <1>4, <1>7 DEF Orderly
<1> QED
  BY <1>4, <1>6, <1>8 DEF Shaped, t

-----------------------------------------------------------------------------
(* The steps keep the numbering *)

Living == DOMAIN active \cup (IF op = "once" THEN {arg.id} ELSE {})
Top == IF running THEN nextId ELSE db.lastId
IdsInv == MaxBorn < MaxId => Top <= born /\ \E s : Flat(s, queue) /\ Numbered(db, s, Living, Top)

LEMMA LivingIds == ASSUME DataInv PROVE Living \subseteq Ids /\ nextId \in Nat /\ db.lastId \in Nat /\ born \in Nat /\ db \in Store
<1>1. DOMAIN active \subseteq Ids /\ (op = "once" => arg.id \in Ids)
  BY DEF DataInv, EngineInv, ActiveWithin, CallInv, Note
<1>2. nextId \in 0..MaxId /\ db \in Store /\ born \in 0..MaxBorn
  BY DEF DataInv, EngineInv, StoreInv, StoreWithin
<1>3. MaxId \in Nat /\ MaxBorn \in Nat /\ db.lastId \in 0..MaxId
  BY <1>2, EngineAssumption DEF Store
<1> QED
  BY <1>1, <1>2, <1>3 DEF Living

\* A handler adds a batch, or a request that has none.
Adds(b) == (queue' = queue /\ b = <<>>) \/ \E x : BatchOf(x) = b /\ queue' = Append(queue, x)

LEMMA EnqueueAdds == ASSUME NEW b, Enqueue(b) PROVE Adds(b)
<1> DEFINE x == [kind |-> "batch", rest |-> b]
<1>1. BatchOf(x) = b
  BY DEF BatchOf
<1>2. queue' = IF b = <<>> THEN queue ELSE Append(queue, x)
  BY DEF Enqueue
<1> HIDE DEF x
<1> QED
  BY <1>1, <1>2 DEF Adds

LEMMA EngineIds ==
  ASSUME OnceInv, DataInv, DataInv', IdsInv, running, running', db' = db,
         MaxBorn < MaxId => nextId <= nextId' /\ nextId' <= born', NEW b, NEW N, NEW K, Shaped(b, N, K), Adds(b),
         MaxBorn < MaxId => \A i \in N : i \in Living \/ (i > nextId /\ i <= nextId'),
         MaxBorn < MaxId => \A i \in Living' : (i \in Living \/ (i > nextId /\ i <= nextId')) /\ i \notin K
  PROVE  IdsInv'
<1> SUFFICES ASSUME MaxBorn < MaxId PROVE Top' <= born' /\ \E s : Flat(s, queue') /\ Numbered(db', s, Living', Top')
  BY DEF IdsInv
<1>1. Top = nextId /\ Top' = nextId'
  BY DEF Top
<1>2. PICK s : Flat(s, queue) /\ Numbered(db, s, Living, nextId)
  BY <1>1 DEF IdsInv
<1>3. PICK S : s \in Seq(S)
  BY <1>2 DEF Flat
<1>4. PICK W : b \in Seq(W)
  BY DEF Shaped
<1>5. /\ Living \subseteq Ids /\ Living' \subseteq Ids /\ nextId \in Nat /\ nextId' \in Nat /\ db.lastId \in Nat
      /\ Ids \subseteq Nat
  <2>1. Living \subseteq Ids /\ nextId \in Nat /\ db.lastId \in Nat
    BY LivingIds
  <2>2. Living' \subseteq Ids
    <3>1. DOMAIN active' \subseteq Ids /\ (op' = "once" => arg'.id \in Ids)
      BY DEF DataInv, EngineInv, ActiveWithin, CallInv, Note
    <3> QED
      BY <3>1 DEF Living
  <2>3. nextId' \in 0..MaxId /\ MaxId \in Nat
    BY EngineAssumption DEF DataInv, EngineInv
  <2> QED
    BY <2>1, <2>2, <2>3 DEF Ids
<1>6. \A i \in Living : i <= nextId
  BY <1>2 DEF Numbered
<1>7. \A i \in Living : i <= nextId'
  BY <1>5, <1>6
<1>8. Orderly(b) /\ \A j \in 1..Len(b) : \A i \in Ids : (Names(b[j], i) => i \in N) /\ (Retires(b[j], i) => i \in K)
  BY DEF Shaped
<1>9. \A j \in 1..Len(b), i \in Ids : Names(b[j], i) => (i \in Living \/ i > nextId) /\ i <= nextId'
  BY <1>7, <1>8
<1>10. \A i \in Living' : (i \in Living \/ i > nextId) /\ i <= nextId' /\ \A j \in 1..Len(b) : ~Retires(b[j], i)
  BY <1>5, <1>7, <1>8
<1>11. Numbered(db, s \o b, Living', nextId')
  BY <1>2, <1>3, <1>4, <1>5, <1>8, <1>9, <1>10, EnqueueNumbered
<1>12. Flat(s \o b, queue')
  <2>1. CASE queue' = queue /\ b = <<>>
    <3>1. s \o <<>> = s
      BY <1>3
    <3> QED
      BY <1>2, <2>1, <3>1
  <2>2. ASSUME NEW x, BatchOf(x) = b, queue' = Append(queue, x) PROVE Flat(s \o b, queue')
    <3>1. PICK Q : queue \in Seq(Q)
      BY DEF OnceInv, QueueInv
    <3>2. Flat(s \o BatchOf(x), Append(queue, x))
      BY <1>2, <1>4, <2>2, <3>1, FlatAppend
    <3> QED
      BY <2>2, <3>2
  <2> QED
    BY <2>1, <2>2 DEF Adds
<1> QED
  BY <1>1, <1>11, <1>12

\* Until the counter wraps, the identifier after the last one is free.
LEMMA NextIdentifier ==
  ASSUME DataInv, IdsInv, running, MaxBorn < MaxId, Created
  PROVE  /\ allocate_id = nextId + 1 /\ nextId' = nextId + 1 /\ nextId' <= born' /\ nextId + 1 \notin DOMAIN active
<1>1. /\ MaxId \in Nat /\ MaxBorn \in Nat /\ nextId \in Nat /\ born \in Nat
      /\ born < MaxBorn /\ born' = born + 1 /\ nextId' = (nextId + tries) % (MaxId + 1)
  BY LivingIds, EngineAssumption DEF Created
<1>2. nextId <= born
  BY DEF IdsInv, Top
<1>3. nextId + 1 \in 1..MaxId
  BY <1>1, <1>2
<1>4. (nextId + 1) % (MaxId + 1) = nextId + 1
  BY <1>1, <1>3
<1>5. candidate(1) = nextId + 1
  BY <1>3, <1>4 DEF candidate
<1>6. nextId + 1 \notin DOMAIN active
  <2>1. PICK s : Numbered(db, s, Living, nextId)
    BY DEF IdsInv, Top
  <2>2. \A i \in DOMAIN active : i <= nextId
    BY <2>1 DEF Numbered, Living
  <2> QED
    BY <1>1, <2>2
<1> DEFINE P(k) == candidate(k) \notin DOMAIN active /\ \A j \in 1..(k - 1) : candidate(j) \in DOMAIN active
<1>7. P(1) /\ 1 \in 1..(MaxId + 1)
  BY <1>1, <1>5, <1>6
<1>8. ASSUME NEW k \in 1..(MaxId + 1), P(k) PROVE k = 1
  <2>1. k # 1 => 1 \in 1..(k - 1)
    OBVIOUS
  <2> QED
    BY <1>5, <1>6, <1>8, <2>1
<1>9. tries = 1
  <2>1. tries = CHOOSE k \in 1..(MaxId + 1) : P(k)
    BY DEF tries
  <2> HIDE DEF P
  <2> QED
    BY <1>7, <1>8, <2>1
<1> QED
  BY <1>1, <1>2, <1>4, <1>5, <1>6, <1>9 DEF allocate_id

\* A handler that hands out no identifier.
LEMMA SteadyIds ==
  ASSUME OnceInv, DataInv, DataInv', IdsInv, running, running', db' = db, UNCHANGED <<nextId, born>>,
         NEW b, NEW N, NEW K, Shaped(b, N, K), Adds(b), N \subseteq Living, Living' \subseteq Living \ K
  PROVE  IdsInv'
<1>1. nextId \in Nat
  BY LivingIds
<1>2. MaxBorn < MaxId => nextId <= nextId' /\ nextId' <= born'
  BY <1>1 DEF IdsInv, Top
<1> QED
  BY <1>2, EngineIds

LEMMA PlainIds ==
  ASSUME OnceInv, DataInv, DataInv', IdsInv, Reserved, UNCHANGED <<plain, nextId, born>>,
         NEW b, NEW N, NEW K, Shaped(b, N, K), Enqueue(b), N \subseteq DOMAIN active,
         DOMAIN active' \subseteq DOMAIN active \ K
  PROVE  IdsInv'
<1>1. running /\ running' /\ db' = db /\ op = "none" /\ op' = "none"
  BY DEF Reserved, LockFree, plain, handler, thread
<1>2. Living = DOMAIN active /\ Living' = DOMAIN active'
  BY <1>1 DEF Living
<1> QED
  BY <1>1, <1>2, EnqueueAdds, SteadyIds

LEMMA EvictedLive == ASSUME DataInv PROVE Evicted \subseteq DOMAIN active /\ Evicted \subseteq Ids
BY DEF Evicted, DataInv, EngineInv, ActiveWithin

LEMMA NotifyIds ==
  ASSUME OnceInv, DataInv, DataInv', IdsInv, NEW t \in BOOLEAN, NEW x \in Timeouts, Notify(t, x) PROVE IdsInv'
<1> DEFINE n == Fresh(t, x, None)
           b == <<Saved(n)>> \o Closes(Evicted)
<1>1. /\ running /\ running' /\ op = "none" /\ op' = "none" /\ db' = db /\ Created
      /\ active' = With(Without(active, Evicted), n.id, n) /\ Enqueue(b)
  BY DEF Notify, Reserved, LockFree, plain, handler, thread
<1>2. n.id = allocate_id
  BY DEF Fresh
<1>3. Living = DOMAIN active /\ Living' = (DOMAIN active \ Evicted) \cup {n.id}
  BY <1>1 DEF Living, With, Without
<1>4. Evicted \subseteq DOMAIN active /\ Evicted \subseteq Ids
  BY EvictedLive
<1> HIDE DEF n
<1>5. Shaped(b, {n.id}, Evicted)
  <2>1. Shaped(<<Saved(n)>>, {n.id}, {}) /\ Shaped(Closes(Evicted), {}, Evicted)
    BY <1>4, SavedShaped, ClosesShaped
  <2>2. Shaped(b, {n.id} \cup {}, {} \cup Evicted)
    BY <2>1, ConcatShaped
  <2>3. {n.id} \cup {} = {n.id} /\ {} \cup Evicted = Evicted
    OBVIOUS
  <2> QED
    BY <2>2, <2>3
<1> HIDE DEF b
<1>6. ASSUME MaxBorn < MaxId
      PROVE  nextId <= nextId' /\ nextId' <= born' /\ n.id > nextId /\ n.id <= nextId' /\ n.id \notin DOMAIN active
  <2>1. nextId \in Nat
    BY LivingIds
  <2> QED
    BY <1>1, <1>2, <1>6, <2>1, NextIdentifier
<1>7. MaxBorn < MaxId => \A i \in {n.id} : i \in Living \/ (i > nextId /\ i <= nextId')
  BY <1>6
<1>8. MaxBorn < MaxId => \A i \in Living' : (i \in Living \/ (i > nextId /\ i <= nextId')) /\ i \notin Evicted
  BY <1>3, <1>4, <1>6
<1>9. Adds(b)
  BY <1>1, EnqueueAdds
<1> QED
  BY <1>1, <1>5, <1>6, <1>7, <1>8, <1>9, EngineIds

\* New content or deadlines for a live notification.
LEMMA RenewIds ==
  ASSUME OnceInv, DataInv, DataInv', IdsInv, Reserved, UNCHANGED <<plain, nextId, born>>, NEW id \in DOMAIN active,
         NEW n, n.id = id, active' = With(active, id, n), Enqueue(<<Saved(n)>>)
  PROVE  IdsInv'
<1>1. DOMAIN active' \subseteq DOMAIN active \ {}
  BY DEF With
<1>2. Shaped(<<Saved(n)>>, {id}, {})
  BY SavedShaped
<1> QED
  BY <1>1, <1>2, PlainIds

LEMMA RenewedId == ASSUME DataInv, NEW id \in DOMAIN active, NEW t, NEW x, NEW y, NEW k
                   PROVE  Renewed(active[id], t, x, y, k).id = id
BY DEF Renewed, DataInv, EngineInv, ActiveWithin

LEMMA ExpireIds ==
  ASSUME OnceInv, DataInv, DataInv', IdsInv, running, running', db' = db, UNCHANGED <<nextId, born>>,
         op # "once", op' # "once", expire
  PROVE  IdsInv'
<1> DEFINE awake == [i \in DOMAIN active |->
                       Renewed(active[i], active[i].transient, active[i].expires,
                               IF active[i].snoozed = "due" THEN "no" ELSE active[i].snoozed, active[i].key)]
           off == IF dnd = "due" THEN <<DndSet("off")>> ELSE <<>>
           b == (Saves(Woken, awake) \o off) \o Closes(Expired)
<1>1. active' = Without(awake, Expired) /\ Enqueue(b)
  BY DEF expire
<1>2. \A i \in DOMAIN active : awake[i].id = i
  BY RenewedId
<1>3. Woken \subseteq DOMAIN active /\ Expired \subseteq DOMAIN active /\ DOMAIN active \subseteq Ids
  BY EngineKeyed DEF Woken, Expired
<1>4. DOMAIN active' = DOMAIN active \ Expired
  BY <1>1 DEF Without
<1> HIDE DEF awake
<1>5. Shaped(Saves(Woken, awake), Woken, {})
  BY <1>2, <1>3, SavesShaped
<1>6. Shaped(off, {}, {})
  BY EmptyShaped, DndShaped
<1>7. Shaped(Closes(Expired), {}, Expired)
  BY <1>3, ClosesShaped
<1> HIDE DEF off
<1>8. Shaped(b, Woken, Expired)
  <2>1. Shaped(Saves(Woken, awake) \o off, Woken \cup {}, {} \cup {})
    BY <1>5, <1>6, ConcatShaped
  <2>2. Woken \cup {} = Woken /\ {} \cup {} = {} /\ {} \cup Expired = Expired
    OBVIOUS
  <2>3. Shaped(Saves(Woken, awake) \o off, Woken, {})
    BY <2>1, <2>2
  <2>4. Shaped(b, Woken \cup {}, {} \cup Expired)
    BY <1>7, <2>3, ConcatShaped
  <2> QED
    BY <2>2, <2>4
<1> HIDE DEF b
<1>9. Adds(b)
  BY <1>1, EnqueueAdds
<1>10. Living = DOMAIN active /\ Living' = DOMAIN active \ Expired
  BY <1>4 DEF Living
<1> QED
  BY <1>3, <1>8, <1>9, <1>10, SteadyIds

LEMMA EnqueuingIds == ASSUME OnceInv, DataInv, DataInv', IdsInv, Enqueuing \/ expire_due PROVE IdsInv'
<1>1. ASSUME NEW t \in BOOLEAN, NEW x \in Timeouts, Notify(t, x) PROVE IdsInv'
  BY <1>1, NotifyIds
<1>2. ASSUME NEW id \in Ids, NEW t, NEW x, Replace(id, t, x) PROVE IdsInv'
  BY <1>2, RenewIds, RenewedId DEF Replace
<1>3. ASSUME NEW id \in Ids, snooze(id) PROVE IdsInv'
  BY <1>3, RenewIds, RenewedId DEF snooze
<1>4. ASSUME NEW id \in Ids, Close(id) PROVE IdsInv'
  <2>1. DOMAIN active' = DOMAIN active \ {id}
    BY <1>4 DEF Close, Forget, Without
  <2>2. Reserved /\ UNCHANGED <<plain, nextId, born>> /\ Enqueue(<<Closed(id)>>) /\ Shaped(<<Closed(id)>>, {}, {id})
    BY <1>4, ClosedShaped DEF Close
  <2> QED
    BY <2>1, <2>2, PlainIds
<1>5. CASE clear
  <2>1. DOMAIN active' = {}
    BY <1>5 DEF clear, Forget, Without
  <2>2. Reserved /\ UNCHANGED <<plain, nextId, born>> /\ Enqueue(<<Cleared>>) /\ Shaped(<<Cleared>>, {}, Ids)
    BY <1>5, ClearedShaped DEF clear
  <2> QED
    BY <2>1, <2>2, PlainIds
<1>6. ASSUME NEW ids \in Selections, clear_group(ids) PROVE IdsInv'
  <2> DEFINE K == DOMAIN active \cap ids
  <2>1. DOMAIN active' = DOMAIN active \ K
    BY <1>6 DEF clear_group, Forget, Without
  <2>2. K \subseteq Ids
    BY EngineKeyed
  <2>3. Reserved /\ UNCHANGED <<plain, nextId, born>> /\ Enqueue(Closes(K)) /\ Shaped(Closes(K), {}, K)
    BY <1>6, <2>2, ClosesShaped DEF clear_group
  <2> HIDE DEF K
  <2> QED
    BY <2>1, <2>3, PlainIds
<1>7. ASSUME NEW d, set_dnd(d) PROVE IdsInv'
  <2>1. Reserved /\ UNCHANGED <<plain, nextId, born, active>> /\ Enqueue(<<DndSet(d)>>) /\ Shaped(<<DndSet(d)>>, {}, {})
    BY <1>7, DndShaped DEF set_dnd
  <2> QED
    BY <2>1, PlainIds
<1>8. CASE expire_due
  <2>1. running /\ running' /\ db' = db /\ UNCHANGED <<nextId, born>> /\ op = "none" /\ op' = "none" /\ expire
    BY <1>8 DEF expire_due, Reserved, LockFree, plain, handler, thread
  <2> QED
    BY <2>1, ExpireIds
<1> QED
  BY <1>1, <1>2, <1>3, <1>4, <1>5, <1>6, <1>7, <1>8 DEF Enqueuing

LEMMA RequestAdds == ASSUME NEW what, NEW x, x.kind # "batch", NEW data, Request(what, x, data) PROVE Adds(<<>>)
<1>1. BatchOf(x) = <<>> /\ queue' = Append(queue, x)
  BY DEF BatchOf, Request
<1> QED
  BY <1>1 DEF Adds

LEMMA RequestingIds == ASSUME OnceInv, DataInv, DataInv', IdsInv, Requesting PROVE IdsInv'
<1>1. ASSUME NEW what, what # "once", NEW x, x.kind # "batch", NEW data, Request(what, x, data), Reserved,
             UNCHANGED starting, UNCHANGED <<active, nextId, born>>
      PROVE  IdsInv'
  <2>1. running /\ running' /\ db' = db /\ op = "none" /\ op' = what
    BY <1>1 DEF Reserved, LockFree, starting, thread, Request
  <2>2. Living' = Living
    BY <1>1, <2>1 DEF Living
  <2>3. Adds(<<>>)
    BY <1>1, RequestAdds
  <2> QED
    BY <1>1, <2>1, <2>2, <2>3, EmptyShaped, SteadyIds
<1>2. CASE expire_prune
  <2> DEFINE x == [kind |-> "prune"]
  <2>1. Request("expiry", x, None) /\ x.kind # "batch" /\ Reserved /\ UNCHANGED starting /\ UNCHANGED <<active, nextId, born>>
    BY <1>2 DEF expire_prune, engine
  <2> HIDE DEF x
  <2> QED
    BY <1>1, <2>1
<1>3. CASE query_history
  <2> DEFINE x == [kind |-> "read", live |-> TRUE]
  <2>1. Request("query", x, None) /\ x.kind # "batch" /\ Reserved /\ UNCHANGED starting /\ UNCHANGED <<active, nextId, born>>
    BY <1>3 DEF query_history, engine
  <2> HIDE DEF x
  <2> QED
    BY <1>1, <2>1
<1>4. CASE shutdown
  <2> DEFINE x == [kind |-> "shutdown"]
  <2>1. Request("shutdown", x, None) /\ x.kind # "batch" /\ Reserved /\ UNCHANGED starting /\ UNCHANGED <<active, nextId, born>>
    BY <1>4 DEF shutdown, engine
  <2> HIDE DEF x
  <2> QED
    BY <1>1, <2>1
<1>5. ASSUME NEW cutoff, set_settings(cutoff) PROVE IdsInv'
  <2> DEFINE x == [kind |-> "settings", cutoff |-> cutoff]
  <2>1. Request("settings", x, None) /\ x.kind # "batch" /\ Reserved /\ UNCHANGED starting /\ UNCHANGED <<active, nextId, born>>
    BY <1>5 DEF set_settings, engine
  <2> HIDE DEF x
  <2> QED
    BY <1>1, <2>1
<1>6. ASSUME NEW ids, prepare_delete(ids) PROVE IdsInv'
  <2> DEFINE x == [kind |-> "read", live |-> TRUE]
             data == [selected |-> ids]
  <2>1. Request("targets", x, data) /\ x.kind # "batch" /\ Reserved /\ UNCHANGED starting /\ UNCHANGED <<active, nextId, born>>
    BY <1>6 DEF prepare_delete, engine
  <2> HIDE DEF x, data
  <2> QED
    BY <1>1, <2>1
<1>7. ASSUME NEW t, delete_confirmed(t) PROVE IdsInv'
  <2> DEFINE x == [kind |-> "delete", positions |-> tickets[t].positions]
             data == [positions |-> tickets[t].positions]
  <2>1. /\ Request("delete", x, data) \/ UNCHANGED <<handler, queue>>
        /\ x.kind # "batch" /\ Reserved /\ UNCHANGED starting /\ UNCHANGED <<active, nextId, born>>
    BY <1>7 DEF delete_confirmed
  <2> HIDE DEF x, data
  <2>2. CASE Request("delete", x, data)
    BY <1>1, <2>1, <2>2
  <2>3. CASE UNCHANGED <<handler, queue>>
    <3>1. running /\ running' /\ db' = db /\ op' = op /\ arg' = arg
      BY <2>1, <2>3 DEF Reserved, LockFree, starting, thread, handler
    <3>2. Living' = Living /\ Adds(<<>>)
      BY <2>1, <2>3, <3>1 DEF Living, Adds
    <3> QED
      BY <2>1, <3>1, <3>2, EmptyShaped, SteadyIds
  <2> QED
    BY <2>1, <2>2, <2>3
<1>8. ASSUME NEW k \in Keys, notify_update_once(k) PROVE IdsInv'
  <2> DEFINE n == Fresh(FALSE, "never", k)
             x == [kind |-> "once", key |-> k, note |-> n]
  <2>1. /\ Request("once", x, n) /\ x.kind # "batch" /\ Reserved /\ UNCHANGED starting /\ UNCHANGED active /\ Created
    BY <1>8 DEF notify_update_once
  <2>2. n.id = allocate_id
    BY DEF Fresh
  <2> HIDE DEF n, x
  <2>3. running /\ running' /\ db' = db /\ op = "none" /\ op' = "once" /\ arg' = n
    BY <2>1 DEF Reserved, LockFree, starting, thread, Request
  <2>4. Living = DOMAIN active /\ Living' = DOMAIN active \cup {n.id}
    BY <2>1, <2>3 DEF Living
  <2>5. ASSUME MaxBorn < MaxId
        PROVE  nextId <= nextId' /\ nextId' <= born' /\ n.id > nextId /\ n.id <= nextId'
    <3>1. nextId \in Nat
      BY LivingIds
    <3> QED
      BY <2>1, <2>2, <2>3, <2>5, <3>1, NextIdentifier
  <2>6. Adds(<<>>)
    BY <2>1, RequestAdds
  <2>7. MaxBorn < MaxId => \A i \in Living' : (i \in Living \/ (i > nextId /\ i <= nextId')) /\ i \notin {}
    BY <2>4, <2>5
  <2>8. MaxBorn < MaxId => \A i \in {} : i \in Living \/ (i > nextId /\ i <= nextId')
    OBVIOUS
  <2> QED
    BY <2>3, <2>5, <2>6, <2>7, <2>8, EmptyShaped, EngineIds
<1> QED
  BY <1>2, <1>3, <1>4, <1>5, <1>6, <1>7, <1>8 DEF Requesting

LEMMA FinishingIds == ASSUME OnceInv, DataInv, DataInv', LedgerInv, IdsInv, Finishing PROVE IdsInv'
<1>1. ASSUME op # "none", UNCHANGED ending, op' = "none", UNCHANGED <<nextId, born, queue>>,
             DOMAIN active' \subseteq DOMAIN active
      PROVE  IdsInv'
  <2>1. running /\ running' /\ db' = db
    BY <1>1 DEF ending, thread, OnceInv, HandlerInv
  <2>2. Living' \subseteq Living \ {} /\ Adds(<<>>)
    BY <1>1 DEF Living, Adds
  <2> QED
    BY <1>1, <2>1, <2>2, EmptyShaped, SteadyIds
<1>2. CASE expire_pruned
  <2>1. running /\ running' /\ db' = db /\ UNCHANGED <<nextId, born>> /\ op # "once" /\ op' # "once" /\ expire
    BY <1>2 DEF expire_pruned, Return, ending, thread, OnceInv, HandlerInv
  <2> QED
    BY <2>1, ExpireIds
<1>3. CASE OnceSaved
  <2>1. /\ running /\ running' /\ db' = db /\ UNCHANGED <<nextId, born>> /\ op = "once" /\ op' = "none"
        /\ active' = With(Without(active, Evicted), arg.id, arg) /\ Enqueue(Closes(Evicted))
    BY <1>3 DEF OnceSaved, Return, ending, thread, OnceInv, HandlerInv
  <2>2. Evicted \subseteq DOMAIN active /\ Evicted \subseteq Ids /\ arg.id \notin DOMAIN active
    BY <2>1, EvictedLive DEF LedgerInv
  <2>3. Shaped(Closes(Evicted), {}, Evicted) /\ Adds(Closes(Evicted))
    BY <2>1, <2>2, ClosesShaped, EnqueueAdds
  <2>4. Living' = (DOMAIN active \ Evicted) \cup {arg.id} /\ Living = DOMAIN active \cup {arg.id}
    BY <2>1 DEF Living, With, Without
  <2>5. Living' \subseteq Living \ Evicted
    BY <2>2, <2>4
  <2> QED
    BY <2>1, <2>3, <2>5, SteadyIds
<1>4. CASE OnceNotShown \/ Answered \/ NotDeleted
  <2>1. op # "none" /\ UNCHANGED ending /\ op' = "none" /\ UNCHANGED <<nextId, born, queue, active>>
    BY <1>4 DEF OnceNotShown, Answered, NotDeleted, Return, engine
  <2> QED
    BY <1>1, <2>1
<1>5. ASSUME NoTicket \/ \E t \in Tokens : TicketIssued(t) PROVE IdsInv'
  <2>1. op # "none" /\ UNCHANGED ending /\ op' = "none" /\ UNCHANGED <<nextId, born, queue, active>>
    BY <1>5 DEF NoTicket, TicketIssued, Return
  <2> QED
    BY <1>1, <2>1
<1>6. CASE Deleted
  <2>1. op # "none" /\ UNCHANGED ending /\ op' = "none" /\ UNCHANGED <<nextId, born, queue>>
    BY <1>6 DEF Deleted, Return
  <2>2. DOMAIN active' \subseteq DOMAIN active
    BY <1>6 DEF Deleted, Forget, Without
  <2> QED
    BY <1>1, <2>1, <2>2
<1> QED
  BY <1>2, <1>3, <1>4, <1>5, <1>6 DEF Finishing

\* The thread changes the store and the queue.
LEMMA ThreadIds ==
  ASSUME running, UNCHANGED <<active, op, arg, nextId, born, running>>, IdsInv,
         \A s : Flat(s, queue) /\ Numbered(db, s, Living, nextId) =>
                   \E t : Flat(t, queue') /\ Numbered(db', t, Living, nextId)
  PROVE  IdsInv'
<1>1. Living' = Living /\ Top = nextId /\ Top' = nextId
  BY DEF Living, Top
<1> QED
  BY <1>1 DEF IdsInv

\* It is done with a command.
LEMMA TailIds ==
  ASSUME OnceInv, DataInv, IdsInv, queue # <<>>, queue[1].kind = "batch" => queue[1].rest = <<>>, queue' = Tail(queue),
         UNCHANGED <<active, op, arg, nextId, born, running>>,
         db' = db \/ (Thins(db'.rows, db.rows) /\ db'.lastId = db.lastId)
  PROVE  IdsInv'
<1>1. PICK Q : queue \in Seq(Q)
  BY DEF OnceInv, QueueInv
<1>2. BatchOf(queue[1]) = <<>>
  BY DEF BatchOf
<1>3. running
  BY QueueHead
<1>4. ASSUME NEW s, Flat(s, queue), Numbered(db, s, Living, nextId)
      PROVE  Flat(s, queue') /\ Numbered(db', s, Living, nextId)
  BY <1>1, <1>2, <1>4, FlatTail, LivingIds, ThinnedNumbered
<1> QED
  BY <1>3, <1>4, ThreadIds

LEMMA ApplyIds == ASSUME OnceInv, DataInv, IdsInv, ApplyMutation PROVE IdsInv'
<1> DEFINE b == queue[1].rest
           r == [kind |-> "batch", rest |-> Tail(b)]
<1>1. /\ queue # <<>> /\ Head(queue) = queue[1] /\ queue[1].kind = "batch" /\ running
      /\ Proper(queue[1], arg, Extant)
  BY QueueHead DEF ApplyMutation, First
<1>2. /\ b # <<>> /\ UNCHANGED <<active, op, arg, nextId, born, running>>
      /\ queue' = [queue EXCEPT ![1] = r]
      /\ db' = db \/ db' = apply(db, Head(b))
  BY <1>1 DEF ApplyMutation, Committed, NotCommitted, engine, handler
<1>3. b \in Seq(Writes(Extant)) /\ BatchOf(queue[1]) = b
  BY <1>1 DEF Proper, BatchOf
<1>4. Head(b) = b[1] /\ b[1] \in Writes(Extant)
  BY <1>2, <1>3
<1>5. BatchOf(r) = Tail(b)
  BY DEF BatchOf
<1> HIDE DEF b, r
<1>6. PICK Q : queue \in Seq(Q)
  BY DEF OnceInv, QueueInv
<1>7. queue' = [i \in DOMAIN queue |-> IF i = 1 THEN r ELSE queue[i]]
  BY <1>2, Zenon
<1>8. Len(queue) \in Nat /\ DOMAIN queue = 1..Len(queue) /\ 1 \in 1..Len(queue)
  BY <1>1, <1>6
<1>9. Len(queue') = Len(queue) /\ queue'[1] = r /\ \A i \in 2..Len(queue) : queue'[i] = queue[i]
  <2>1. Len(queue') = Len(queue)
    BY <1>7, <1>8
  <2>2. \A i \in 2..Len(queue) : i \in DOMAIN queue /\ i # 1
    BY <1>8
  <2> QED
    BY <1>7, <1>8, <2>1, <2>2
<1>10. ASSUME NEW s, Flat(s, queue), Numbered(db, s, Living, nextId)
       PROVE  Flat(Tail(s), queue') /\ Numbered(db', Tail(s), Living, nextId)
  <2>1. s # <<>> /\ s[1] = b[1] /\ Flat(Tail(s), queue')
    BY <1>1, <1>2, <1>3, <1>5, <1>6, <1>9, <1>10, FlatNext
  <2>2. PICK S : s \in Seq(S)
    BY <1>10 DEF Flat
  <2>3. StoreWithin(db, Extant) /\ Living \subseteq Ids /\ nextId \in Nat
    BY LivingIds DEF DataInv, StoreInv
  <2>4. Numbered(apply(db, s[1]), Tail(s), Living, nextId) /\ Numbered(db, Tail(s), Living, nextId)
    BY <1>4, <1>10, <2>1, <2>2, <2>3, MutationNumbered
  <2> QED
    BY <1>2, <1>4, <2>1, <2>4
<1> QED
  BY <1>1, <1>2, <1>10, ThreadIds

LEMMA SameThins == ASSUME NEW x PROVE Thins(x, x)
BY DEF Thins

LEMMA ThinsTwice == ASSUME NEW x, NEW y, NEW z, Thins(x, y), Thins(y, z) PROVE Thins(x, z)
BY DEF Thins

\* A once-only row that is new: its identifier is in use and has no closed record.
LEMMA OnceIds ==
  ASSUME OnceInv, DataInv, IdsInv, queue # <<>>, queue[1].kind = "once", queue[1].key \notin db.once,
         db' = Written(queue[1]), queue' = Tail(queue), UNCHANGED <<active, op, arg, nextId, born, running>>
  PROVE  IdsInv'
<1> DEFINE k == queue[1].key
           d == [db EXCEPT !.once = @ \cup {k}]
           e == save_inner(d, arg)
<1>1. /\ op = "once" /\ queue[1].note = arg /\ queue' = <<>> /\ running /\ k = arg.key
  BY QueueHead DEF Unanswered, Waiters, Proper
<1>2. /\ arg \in Note /\ Position(arg) \in Extant /\ k \in Keys /\ arg.id \in Ids /\ arg.born \in Stamps /\ arg.id \in Living
  BY <1>1 DEF DataInv, CallInv, OnceInv, HandlerInv, Note, Living
<1>3. StoreWithin(db, Extant)
  BY DEF DataInv, StoreInv
<1>4. StoreWithin(d, Extant) /\ d \in Store /\ d.rows = db.rows /\ d.lastId = db.lastId
  BY <1>2, <1>3 DEF StoreWithin, Store
<1>5. db' = prune_inner(e)
  BY <1>1 DEF Written, save_once
<1> HIDE DEF d
<1>6. e \in Store
  BY <1>2, <1>4, SaveWithin DEF StoreWithin
<1> HIDE DEF e
<1>7. Thins(db'.rows, e.rows) /\ db'.lastId = e.lastId
  BY <1>5, <1>6, PruneThins
<1>8. ASSUME NEW s, Flat(s, queue), Numbered(db, s, Living, nextId)
      PROVE  Flat(s, queue') /\ Numbered(db', s, Living, nextId)
  <2>1. Flat(s, queue') /\ s = <<>>
    <3>1. PICK Q : queue \in Seq(Q)
      BY DEF OnceInv, QueueInv
    <3>2. BatchOf(queue[1]) = <<>>
      BY DEF BatchOf
    <3>3. Flat(s, queue')
      BY <1>8, <3>1, <3>2, FlatTail
    <3> QED
      BY <1>1, <3>3, FlatOfNone
  <2>2. /\ OnePerId(db.rows) /\ db.lastId <= nextId /\ \A i \in Ids : Archived(db.rows, i) => i <= db.lastId
        /\ arg.id <= nextId /\ ~Shut(db.rows, arg.id)
    BY <1>2, <1>8 DEF Numbered, Unretired
  <2>3. /\ OnePerId(e.rows) /\ \A i \in Ids : Archived(e.rows, i) => i <= e.lastId
        /\ e.lastId = IF arg.id > d.lastId THEN arg.id ELSE d.lastId
        /\ \A i \in Ids : Archived(e.rows, i) => Archived(d.rows, i) \/ i = arg.id
        /\ \A i \in Ids : Shut(e.rows, i) => Shut(d.rows, i)
    BY <1>2, <1>4, <2>2, SaveNumbers DEF e
  <2>4. Living \subseteq Ids /\ nextId \in Nat /\ Ids \subseteq Nat
    BY LivingIds, EngineAssumption DEF Ids
  <2>5. \A n : 1..Len(<<>>) = {} /\ Len(<<>>) = 0 /\ 1..0 = {}
    OBVIOUS
  <2>6. \A i \in Living : i <= nextId /\ Unretired(e.rows, <<>>, i, 0)
    <3>1. \A i \in Living : i \in Ids /\ i <= nextId /\ ~Shut(d.rows, i)
      BY <1>4, <1>8, <2>4 DEF Numbered, Unretired
    <3> QED
      BY <2>3, <2>5, <3>1 DEF Unretired
  <2>7. \A i \in Ids : i > nextId => Unseen(e.rows, <<>>, i, 0)
    <3>1. \A i \in Ids : i > nextId => ~Archived(d.rows, i) /\ i # arg.id
      BY <1>2, <1>4, <1>8, <2>2, <2>4 DEF Numbered, Unseen
    <3> QED
      BY <2>3, <2>5, <3>1 DEF Unseen
  <2>8. e.lastId <= nextId
    BY <1>4, <2>2, <2>3
  <2>9. Numbered(e, <<>>, Living, nextId)
    BY <2>3, <2>5, <2>6, <2>7, <2>8 DEF Numbered
  <2>10. Numbered(db', <<>>, Living, nextId)
    BY <1>7, <2>4, <2>9, ThinnedNumbered
  <2> QED
    BY <2>1, <2>10
<1> QED
  BY <1>1, <1>8, ThreadIds

LEMMA WorkerIds == ASSUME OnceInv, DataInv, IdsInv, Worker PROVE IdsInv'
<1>0. db \in Store
  BY LivingIds
<1>1. CASE PruneAfterBatch
  <2>1. /\ queue # <<>> /\ queue[1].kind = "batch" /\ queue[1].rest = <<>> /\ queue' = Tail(queue)
        /\ UNCHANGED <<active, op, arg, nextId, born, running>> /\ (db' = db \/ db' = prune_inner(db))
    BY <1>1, QueueHead DEF PruneAfterBatch, First, Committed, NotCommitted, engine, handler
  <2> QED
    BY <1>0, <2>1, PruneThins, TailIds
<1>2. CASE ServeRead \/ ServeShutdown
  <2>1. /\ queue # <<>> /\ queue[1].kind # "batch" /\ queue' = Tail(queue)
        /\ UNCHANGED <<active, op, arg, nextId, born, running>> /\ db' = db
    BY <1>2, QueueHead DEF ServeRead, ServeShutdown, First, engine, handler, thread
  <2> QED
    BY <2>1, TailIds
<1>3. CASE Drained
  <2>1. UNCHANGED <<active, op, arg, nextId, born, running, queue>> /\ db' = db /\ running
    BY <1>3 DEF Drained, engine, thread
  <2>2. Living' = Living /\ Top' = Top
    BY <2>1 DEF Living, Top
  <2> QED
    BY <2>1, <2>2 DEF IdsInv
<1>4. CASE ServeWrite
  <2> DEFINE x == queue[1]
  <2>1. /\ queue # <<>> /\ x.kind \in {"once", "settings", "delete", "prune"} /\ queue' = Tail(queue)
        /\ UNCHANGED <<active, op, arg, nextId, born, running>> /\ (db' = db \/ db' = Written(x))
    BY <1>4, QueueHead DEF ServeWrite, First, Committed, NotCommitted, engine
  <2>2. Proper(x, arg, Extant)
    BY <2>1, QueueHead
  <2>3. CASE db' = db
    BY <2>1, <2>3, TailIds
  <2>4. CASE db' = Written(x)
    <3>1. CASE x.kind = "once" /\ x.key \notin db.once
      BY <2>1, <2>4, <3>1, OnceIds
    <3>2. CASE (x.kind = "once" /\ x.key \in db.once) \/ x.kind = "prune"
      <4>1. db' = prune_inner(db)
        BY <2>4, <3>2 DEF Written, save_once
      <4> QED
        BY <1>0, <2>1, <4>1, PruneThins, TailIds
    <3>3. CASE x.kind = "settings"
      <4> DEFINE d == [db EXCEPT !.cutoff = x.cutoff]
      <4>1. db' = prune_inner(d)
        BY <2>4, <3>3 DEF Written
      <4>2. x.cutoff \in 0..MaxBorn
        BY <2>2, <3>3 DEF Proper
      <4>3. d \in Store /\ d.rows = db.rows /\ d.lastId = db.lastId
        BY <1>0, <4>2 DEF Store
      <4> HIDE DEF d
      <4>4. Thins(db'.rows, db.rows) /\ db'.lastId = db.lastId
        BY <4>1, <4>3, PruneThins
      <4> QED
        BY <2>1, <4>4, TailIds
    <3>4. CASE x.kind = "delete"
      <4>1. db' = delete_rows(db, x.positions)
        BY <2>4, <3>4 DEF Written
      <4> QED
        BY <1>0, <2>1, <4>1, DeleteThins, TailIds
    <3> QED
      BY <2>1, <3>1, <3>2, <3>3, <3>4
  <2> QED
    BY <2>1, <2>3, <2>4
<1> QED
  BY <1>1, <1>2, <1>3, <1>4, ApplyIds DEF Worker

LEMMA DownIds == ASSUME OnceInv, DataInv, IdsInv, running, Down PROVE IdsInv'
<1> SUFFICES ASSUME MaxBorn < MaxId PROVE Top' <= born' /\ \E s : Flat(s, queue') /\ Numbered(db', s, Living', Top')
  BY DEF IdsInv
<1>1. active' = NoEntries /\ op' = "none" /\ ~running' /\ queue' = <<>> /\ db' = db /\ born' = born
  BY DEF Down
<1>2. Living' = {} /\ Top' = db.lastId /\ Top = nextId
  BY <1>1 DEF Living, Top, NoEntries
<1>3. nextId \in Nat /\ db.lastId \in Nat /\ born \in Nat /\ Ids \subseteq Nat
  BY LivingIds, EngineAssumption DEF Ids
<1>4. PICK s : nextId <= born /\ Numbered(db, s, Living, nextId)
  BY <1>2 DEF IdsInv
<1>5. db.lastId <= born
  BY <1>3, <1>4 DEF Numbered
<1>6. OnePerId(db.rows) /\ db.lastId <= db.lastId /\ \A i \in Ids : Archived(db.rows, i) => i <= db.lastId
  BY <1>3, <1>4 DEF Numbered
<1>7. \A i \in Ids : i > db.lastId => Unseen(db.rows, <<>>, i, 0)
  BY <1>3, <1>6 DEF Unseen
<1>8. Len(<<>>) = 0 /\ 1..0 = {}
  OBVIOUS
<1>9. Numbered(db, <<>>, {}, db.lastId)
  BY <1>6, <1>7, <1>8 DEF Numbered
<1> QED
  BY <1>1, <1>2, <1>5, <1>9, FlatNone

\* A restart closes every record before it hands out identifiers.
LEMMA RestartIds == ASSUME OnceInv, DataInv, LedgerInv, IdsInv, Restart PROVE IdsInv'
<1> SUFFICES ASSUME MaxBorn < MaxId PROVE Top' <= born' /\ \E s : Flat(s, queue') /\ Numbered(db', s, Living', Top')
  BY DEF IdsInv
<1> DEFINE n == db.lastId
           e == apply(db, Cleared)
           c == <<Cleared>>
<1>1. /\ ~running /\ running' /\ db' = prune_inner(e) /\ nextId' = n /\ UNCHANGED <<active, op, arg, born>>
      /\ queue' = queue \/ Enqueue(<<DndSet("off")>>)
  BY DEF Restart, handler
<1>2. op = "none" /\ queue = <<>> /\ active = NoEntries
  BY <1>1 DEF OnceInv, HandlerInv, DataInv, CallInv, LedgerInv
<1>3. Living = {} /\ Living' = {} /\ Top = n /\ Top' = n
  BY <1>1, <1>2 DEF Living, Top, NoEntries
<1>4. n \in Nat /\ StoreWithin(db, Extant) /\ n <= n
  BY LivingIds DEF DataInv, StoreInv
<1>5. Numbered(db, <<>>, {}, n) /\ n <= born
  BY <1>2, <1>3, FlatOfNone DEF IdsInv
<1>6. <<>> \in Seq({}) /\ {} \subseteq Ids
  OBVIOUS
<1>7. ASSUME NEW d, d.lastId \in Nat, Numbered(d, <<>>, {}, n), NEW b, NEW K, Shaped(b, {}, K)
      PROVE  Numbered(d, b, {}, n)
  <2>1. PICK W : b \in Seq(W)
    BY <1>7 DEF Shaped
  <2>2. <<>> \o b = b
    BY <2>1
  <2>3. /\ Orderly(b)
        /\ \A j \in 1..Len(b), i \in Ids : Names(b[j], i) => (i \in {} \/ i > n) /\ i <= n
    BY <1>7 DEF Shaped
  <2>4. \A i \in {} : (i \in {} \/ i > n) /\ i <= n /\ \A j \in 1..Len(b) : ~Retires(b[j], i)
    OBVIOUS
  <2> HIDE DEF n
  <2>5. Numbered(d, <<>> \o b, {}, n)
    BY <1>4, <1>6, <1>7, <2>1, <2>3, <2>4, EnqueueNumbered
  <2> QED
    BY <2>2, <2>5
<1>8. Numbered(db, c, {}, n)
  BY <1>4, <1>5, <1>7, ClearedShaped
<1>9. c \in Seq({Cleared}) /\ c # <<>> /\ c[1] = Cleared /\ Tail(c) = <<>>
  OBVIOUS
<1>10. Cleared \in Writes(Extant)
  BY DEF Cleared, Writes
<1> HIDE DEF c
<1>11. Numbered(e, <<>>, {}, n)
  BY <1>4, <1>6, <1>8, <1>9, <1>10, MutationNumbered
<1>12. e \in Store
  BY <1>4, <1>10, ApplyWithin DEF StoreWithin
<1> HIDE DEF e
<1>13. Numbered(db', <<>>, {}, n) /\ db'.lastId = e.lastId
  BY <1>1, <1>6, <1>11, <1>12, PruneThins, ThinnedNumbered
<1>14. db'.lastId \in Nat
  BY <1>12, <1>13, EngineAssumption DEF Store
<1>15. CASE queue' = queue
  BY <1>1, <1>2, <1>3, <1>5, <1>13, <1>15, FlatNone
<1>16. CASE Enqueue(<<DndSet("off")>>)
  <2> DEFINE b == <<DndSet("off")>>
             x == [kind |-> "batch", rest |-> b]
  <2>1. queue' = Append(<<>>, x) /\ BatchOf(x) = b /\ b \in Seq({DndSet("off")})
    BY <1>2, <1>16 DEF Enqueue, BatchOf
  <2>2. Shaped(b, {}, {})
    BY DndShaped
  <2> HIDE DEF b, x
  <2>3. <<>> \o b = b
    BY <2>1
  <2>5. Flat(<<>> \o BatchOf(x), Append(<<>>, x))
    <3>1. BatchOf(x) \in Seq({DndSet("off")})
      BY <2>1
    <3> QED
      BY <1>6, <3>1, FlatNone, FlatAppend
  <2>4. Numbered(db', b, {}, n)
    BY <1>7, <1>13, <1>14, <2>2
  <2> QED
    BY <1>1, <1>3, <1>5, <2>1, <2>3, <2>4, <2>5
<1> QED
  BY <1>1, <1>15, <1>16

LEMMA OtherIds ==
  ASSUME OnceInv, DataInv, LedgerInv, IdsInv,
         Time \/ ReadAbandoned \/ Exit \/ Crash \/ Restart \/ (\E t \in Tokens : cancel_delete(t)) \/ UNCHANGED vars
  PROVE  IdsInv'
<1>1. ASSUME UNCHANGED <<op, arg, nextId, born, running, queue>>, DOMAIN active' = DOMAIN active,
             db'.rows = db.rows, db'.lastId = db.lastId
      PROVE  IdsInv'
  <2>1. Living' = Living /\ Top' = Top
    BY <1>1 DEF Living, Top
  <2>2. Living \subseteq Ids
    BY LivingIds
  <2>3. \A s : Numbered(db, s, Living, Top) => Numbered(db', s, Living, Top)
    BY <1>1 DEF Numbered
  <2> QED
    BY <1>1, <2>1, <2>3 DEF IdsInv
<1>2. ASSUME NEW id \in Ids, Expires(id) \/ Wakes(id) PROVE IdsInv'
  <2>1. UNCHANGED <<op, arg, nextId, born, running, queue>> /\ db' = db
    BY <1>2 DEF Expires, Wakes, plain, handler, thread
  <2>2. \E n : active' = With(active, id, n) /\ id \in DOMAIN active
    BY <1>2 DEF Expires, Wakes
  <2>3. DOMAIN active' = DOMAIN active
    BY <2>2 DEF With
  <2> QED
    BY <1>1, <2>1, <2>3
<1>3. ASSUME DndEnds \/ (\E t \in Tokens : TicketExpires(t) \/ cancel_delete(t)) \/ UNCHANGED vars PROVE IdsInv'
  <2>1. UNCHANGED <<op, arg, nextId, born, running, queue, active>> /\ db' = db
    BY <1>3 DEF DndEnds, TicketExpires, cancel_delete, plain, handler, thread, vars, engine
  <2> QED
    BY <1>1, <2>1
<1>4. CASE DayEnds
  <2>1. UNCHANGED <<op, arg, nextId, born, running, queue, active>> /\ db' = [db EXCEPT !.cutoff = @ + 1]
    BY <1>4 DEF DayEnds, handler, engine
  <2>2. db'.rows = db.rows /\ db'.lastId = db.lastId
    BY <2>1, LivingIds DEF Store
  <2> QED
    BY <1>1, <2>1, <2>2
<1>5. CASE ReadAbandoned
  <2> DEFINE n == Len(queue)
             x == [kind |-> "read", live |-> FALSE]
  <2>1. /\ op \in {"query", "targets"} /\ reply = "none" /\ op' = "none" /\ queue' = [queue EXCEPT ![n] = x]
        /\ UNCHANGED <<active, nextId, born, running>> /\ db' = db
    BY <1>5 DEF ReadAbandoned, Return, engine, thread
  <2>2. BatchOf(x) = <<>>
    BY DEF BatchOf
  <2> HIDE DEF x
  <2>3. PICK S : queue \in Seq(S)
    BY DEF OnceInv, QueueInv
  <2>4. queue # <<>> /\ BatchOf(queue[n]) = <<>>
    BY <2>1 DEF LedgerInv, BatchOf, Unanswered
  <2>5. n \in Nat /\ DOMAIN queue = 1..n /\ n \in 1..n
    BY <2>3, <2>4
  <2>6. queue' = [i \in DOMAIN queue |-> IF i = n THEN x ELSE queue[i]]
    BY <2>1, Zenon
  <2>7. Len(queue') = n /\ \A i \in 1..n : BatchOf(queue'[i]) = BatchOf(queue[i])
    <3> HIDE DEF n
    <3>1. \A i \in 1..n : queue'[i] = IF i = n THEN x ELSE queue[i]
      BY <2>5, <2>6
    <3>2. Len(queue') = n
      BY <2>5, <2>6
    <3> QED
      BY <2>2, <2>4, <3>1, <3>2
  <2>8. \A s : Flat(s, queue) => Flat(s, queue')
    BY <2>7, FlatSame
  <2>9. Living' = Living /\ Top' = Top
    BY <2>1 DEF Living, Top
  <2> QED
    BY <2>1, <2>8, <2>9 DEF IdsInv
<1>6. CASE Exit \/ Crash
  <2>1. running /\ Down
    BY <1>6 DEF Exit, Crash, OnceInv, HandlerInv
  <2> QED
    BY <2>1, DownIds
<1> QED
  BY <1>2, <1>3, <1>4, <1>5, <1>6, RestartIds DEF Time

LEMMA IdsAlways == Spec => []IdsInv
<1>1. Init => IdsInv
  <2> SUFFICES ASSUME Init PROVE IdsInv
    OBVIOUS
  <2>1. queue = <<>> /\ Living = {} /\ Top = 0 /\ born = 0 /\ db.rows = <<>> /\ db.lastId = 0
    BY DEF Init, Living, Top, NoEntries, EmptyStore
  <2>2. Len(<<>>) = 0 /\ 1..0 = {} /\ DOMAIN <<>> = {}
    OBVIOUS
  <2>3. Numbered(db, <<>>, {}, 0)
    BY <2>1, <2>2 DEF Numbered, OnePerId, Archived, Unseen
  <2> QED
    BY <2>1, <2>3, FlatNone DEF IdsInv
<1>2. OnceInv /\ DataInv /\ DataInv' /\ LedgerInv /\ IdsInv /\ [Next]_vars => IdsInv'
  BY EnqueuingIds, RequestingIds, FinishingIds, WorkerIds, OtherIds DEF Next
<1> QED
  BY <1>1, <1>2, OnceAlways, DataAlways, MatchAlways, PTL DEF Spec

\* The archive is what the engine takes it for.  Behind the queued batches, and in
\* every page that is handed out, the open rows are the live notifications but for
\* those past the history duration; and until the counter wraps no two records
\* share an identifier, whatever was skipped, crashed or restarted in between
\* (engine.rs, PendingWrites and query_history; persistence.rs; storage_state.rs,
\* remember_id).
THEOREM ArchiveIsFaithful == Spec => []ArchiveFaithful
<1>1. OnceInv /\ DataInv /\ LedgerInv /\ MatchInv => CatalogAgrees /\ PageAgrees
  BY CatalogHolds, AnsweredMatch DEF PageAgrees
<1>2. IdsInv => ArchiveIdsDistinct
  BY DEF IdsInv, Numbered, OnePerId, ArchiveIdsDistinct
<1>3. OnceInv /\ DataInv /\ LedgerInv /\ MatchInv /\ IdsInv => ArchiveFaithful
  BY <1>1, <1>2 DEF ArchiveFaithful
<1> QED
  BY <1>3, OnceAlways, DataAlways, MatchAlways, IdsAlways, PTL
=============================================================================
