----------------------------- MODULE Publication -----------------------------
(***************************************************************************)
(* The state store and its subscriptions (src/src/state.rs, state/events.rs,*)
(* state/publication.rs, daemon/subscriptions.rs, protocol/read_wire.rs).  *)
(*                                                                         *)
(* Writers change one domain of the snapshot under its write lock and      *)
(* publish it before they release the lock; new subscribers take the read  *)
(* lock.  Each of these is one action.  A subscription has one worker per  *)
(* stream, which takes an event from its receiver and then emits it.       *)
(*                                                                         *)
(* Streams are ordered (a broadcast channel that keeps RingSize events) or  *)
(* replaceable (a watch channel that keeps the last).  Domain data is a     *)
(* value; an epoch, random in the code, is a number not used before.        *)
(* The transport is external: it delivers what is emitted until the client's *)
(* connection breaks, and nothing after that.                               *)
(***************************************************************************)
EXTENDS Integers, Sequences, FiniteSets, FiniteSetsExt

CONSTANTS
    Ordered, Replaceable,  \* the streams of either kind
    Catalogs,              \* streams with history that can be invalidated
    Monitors,              \* the sets of streams that one monitor owns
    Clients,
    Values,
    Initially,             \* the value of a default domain
    RingSize,              \* 128
    MaxRevision,           \* 2^53 - 1
    None,
    MaxEvents              \* bound: publications in all, the first ones included

Streams == Ordered \cup Replaceable

ASSUME PublicationAssumption ==
    /\ Ordered \cap Replaceable = {} /\ Catalogs \subseteq Streams
    /\ Monitors \subseteq SUBSET Streams
    /\ Initially \in Values
    /\ RingSize \in Nat \ {0} /\ MaxRevision \in Nat \ {0} /\ MaxEvents \in Nat

VARIABLES
    value,      \* the domains of the snapshot
    pub,        \* their publication identities
    failed,     \* failed_monitors: the streams of a monitor that stopped
    log,        \* history: all publications of a stream; its channel keeps the end
    sub,        \* the streams a client is subscribed to
    broken,     \* the clients whose connection broke
    cursor,     \* a receiver's position in the log
    hand,       \* the message a worker is about to emit
    got,        \* the last state a client received
    missed,     \* how many publications it was told it missed since
    from        \* history: publication that was current at the subscription

store == <<value, pub, failed, log>>
delivery == <<cursor, hand, got, missed>>
vars == <<store, sub, broken, delivery, from>>

Identity == [epoch : Nat, revision : 1..MaxRevision, previous : Nat]
Projection == [pub : Identity, value : Values, available : BOOLEAN]
Message ==
    [kind : {"subscribed", "changed", "gap"}, state : Projection \cup {None}, missed : Nat]

ASSUME NoneAssumption == None \notin Projection /\ None \notin Message

\* Publication::new; no predecessor is 0.
FirstIdentity == [epoch |-> 1, revision |-> 1, previous |-> 0]

\* Mutant: the predecessor is only known to the first revision of an epoch.
MutAdvance(p) ==
    IF p.revision = MaxRevision
      THEN [epoch |-> p.epoch + 1, revision |-> 1, previous |-> p.epoch]
      ELSE [epoch |-> p.epoch, revision |-> p.revision + 1, previous |-> 0]

\* Mutant: off by one at the last revision.
MutRollover(p) ==
    IF p.revision > MaxRevision
      THEN [epoch |-> p.epoch + 1, revision |-> 1, previous |-> p.epoch]
      ELSE [epoch |-> p.epoch, revision |-> p.revision + 1, previous |-> p.previous]

advance(p) ==
    IF p.revision = MaxRevision
      THEN [epoch |-> p.epoch + 1, revision |-> 1, previous |-> p.epoch]
      ELSE [epoch |-> p.epoch, revision |-> p.revision + 1, previous |-> p.previous]

\* The number of a publication, which its identity stands for.
Number(p) == (p.epoch - 1) * MaxRevision + p.revision

\* The overlay of unhealthy and healthy_snapshot.
healthy(s) == s \notin failed

\* StreamSpec::project, which every reader, event and reply shows.
project(s) == [pub |-> pub[s], value |-> value[s], available |-> healthy(s)]

Subscribed(p) == [kind |-> "subscribed", state |-> p, missed |-> 0]
Changed(p) == [kind |-> "changed", state |-> p, missed |-> 0]
Lagged(n) == [kind |-> "gap", state |-> None, missed |-> n]

TypeOK ==
    /\ value \in [Streams -> Values] /\ pub \in [Streams -> Identity] /\ failed \subseteq Streams
    /\ log \in [Streams -> Seq(Projection)]
    /\ sub \in [Clients -> SUBSET Streams] /\ broken \subseteq Clients
    /\ cursor \in [Clients -> [Streams -> Nat]]
    /\ hand \in [Clients -> [Streams -> Message \cup {None}]]
    /\ got \in [Clients -> [Streams -> Projection \cup {None}]]
    /\ missed \in [Clients -> [Streams -> Nat]]
    /\ from \in [Clients -> [Streams -> Nat]]

PerWorker(v) == [c \in Clients |-> [s \in Streams |-> v]]

Init ==
    /\ value = [s \in Streams |-> Initially] /\ pub = [s \in Streams |-> FirstIdentity]
    /\ failed = {} /\ log = [s \in Streams |-> <<project(s)>>]
    /\ sub = [c \in Clients |-> {}] /\ broken = {}
    /\ cursor = PerWorker(0) /\ hand = PerWorker(None) /\ got = PerWorker(None)
    /\ missed = PerWorker(0) /\ from = PerWorker(0)

-----------------------------------------------------------------------------
(* Writers, under the write lock *)

Room(S) == MapThenSumSet(LAMBDA s : Len(log[s]), Streams) + Cardinality(S) <= MaxEvents

\* publish, for each of the streams: value' and failed' are what it projects.
publish(S) ==
    /\ Room(S)
    /\ pub' = [s \in Streams |-> IF s \in S THEN advance(pub[s]) ELSE pub[s]]
    /\ log' = [s \in Streams |-> IF s \in S THEN Append(log[s], project(s)') ELSE log[s]]
    /\ UNCHANGED <<sub, broken, delivery, from>>

\* update, and likewise update_work_area, update_compositor, commit_power_sleep
\* and record_sleep_operation: an unchanged state is not published.
update(s, v) ==
    /\ value[s] # v
    /\ value' = [value EXCEPT ![s] = v]
    /\ UNCHANGED failed
    /\ publish({s})

\* invalidate_update_history
invalidate(s) == UNCHANGED <<value, failed>> /\ publish({s})

\* Mutant: the failure is noted, and shows whenever something is published next.
MutMonitorFailed(S) ==
    /\ failed' = failed \cup S
    /\ UNCHANGED <<value, pub, log, sub, broken, delivery, from>>

\* Mutant: a later failure replaces the record of an earlier one.
MutFailedReplaced(S) == failed' = S /\ UNCHANGED value /\ publish(S \cup failed)

\* monitor_failed: a monitor panicked or returned; sticky until the daemon restarts.
monitor_failed(S) == failed' = failed \cup S /\ UNCHANGED value /\ publish(S)

-----------------------------------------------------------------------------
(* Subscriptions *)

\* Per stream of S for the client c, another value; the rest stays.
For(f, c, S, g) == [f EXCEPT ![c] = [s \in Streams |-> IF s \in S THEN g[s] ELSE f[c][s]]]

\* snapshot_and_subscribe_domains; the workers' first message is that snapshot.
Subscribe(c, S) ==
    /\ sub[c] = {} /\ S # {}
    /\ sub' = [sub EXCEPT ![c] = S]
    /\ cursor' = For(cursor, c, S, [s \in Streams |-> Len(log[s])])
    /\ hand' = For(hand, c, S, [s \in Streams |-> Subscribed(project(s))])
    /\ from' = For(from, c, S, [s \in Streams |-> Number(pub[s])])
    /\ UNCHANGED <<store, broken, got, missed>>

\* The owner cancels or disappears: the workers and receivers are dropped.
Leave(c) ==
    /\ sub[c] # {}
    /\ sub' = [sub EXCEPT ![c] = {}]
    /\ cursor' = [cursor EXCEPT ![c] = [s \in Streams |-> 0]]
    /\ hand' = [hand EXCEPT ![c] = [s \in Streams |-> None]]
    /\ got' = [got EXCEPT ![c] = [s \in Streams |-> None]]
    /\ missed' = [missed EXCEPT ![c] = [s \in Streams |-> 0]]
    /\ from' = [from EXCEPT ![c] = [s \in Streams |-> 0]]
    /\ broken' = broken \ {c}
    /\ UNCHANGED store

\* The client's connection breaks.
Break(c) ==
    /\ sub[c] # {} /\ c \notin broken
    /\ broken' = broken \cup {c}
    /\ UNCHANGED <<store, sub, delivery, from>>

-----------------------------------------------------------------------------
(* The worker of a client for a stream *)

\* What the channel has dropped.
Dropped(s) == IF Len(log[s]) > RingSize THEN Len(log[s]) - RingSize ELSE 0

Idle(c, s) == s \in sub[c] /\ hand[c][s] = None

Takes(c, s, position, message) ==
    /\ cursor' = [cursor EXCEPT ![c][s] = position]
    /\ hand' = [hand EXCEPT ![c][s] = message]
    /\ UNCHANGED <<store, sub, broken, got, missed, from>>

\* Watch: the latest event, the others are coalesced.
ReceiveLatest(c, s) ==
    /\ Idle(c, s) /\ s \in Replaceable /\ cursor[c][s] < Len(log[s])
    /\ Takes(c, s, Len(log[s]), Changed(log[s][Len(log[s])]))

\* Broadcast: the next event,
ReceiveNext(c, s) ==
    /\ Idle(c, s) /\ s \in Ordered /\ cursor[c][s] \in Dropped(s)..(Len(log[s]) - 1)
    /\ Takes(c, s, cursor[c][s] + 1, Changed(log[s][cursor[c][s] + 1]))

\* Mutant: a receiver that lags starts again at the end.
MutReceiveGap(c, s) ==
    /\ Idle(c, s) /\ s \in Ordered /\ cursor[c][s] < Dropped(s)
    /\ Takes(c, s, Len(log[s]), Lagged(Len(log[s]) - cursor[c][s]))

\* Mutant: a lag is taken for a closed channel, and the worker is done.
MutLagCloses(c, s) ==
    Idle(c, s) /\ s \in Ordered /\ cursor[c][s] < Dropped(s) /\ UNCHANGED vars

\* or, when that was dropped, their number; the oldest one kept is next.
ReceiveGap(c, s) ==
    /\ Idle(c, s) /\ s \in Ordered /\ cursor[c][s] < Dropped(s)
    /\ Takes(c, s, Dropped(s), Lagged(Dropped(s) - cursor[c][s]))

Emitted(c, s) ==
    /\ s \in sub[c] /\ hand[c][s] # None
    /\ hand' = [hand EXCEPT ![c][s] = None]
    /\ UNCHANGED <<store, sub, broken, cursor, from>>

\* emit_event, and what the client makes of a state
EmitState(c, s) ==
    /\ Emitted(c, s) /\ c \notin broken /\ hand[c][s].kind # "gap"
    /\ got' = [got EXCEPT ![c][s] = hand[c][s].state]
    /\ missed' = [missed EXCEPT ![c][s] = 0]

\* and of a gap;
EmitGap(c, s) ==
    /\ Emitted(c, s) /\ c \notin broken /\ hand[c][s].kind = "gap"
    /\ missed' = [missed EXCEPT ![c][s] = @ + hand[c][s].missed]
    /\ UNCHANGED got

\* a message that cannot be emitted is dropped, with a warning.
EmitFails(c, s) == Emitted(c, s) /\ c \in broken /\ UNCHANGED <<got, missed>>

Worker(c, s) == ReceiveLatest(c, s) \/ ReceiveNext(c, s) \/ ReceiveGap(c, s)
    \/ EmitState(c, s) \/ EmitGap(c, s) \/ EmitFails(c, s)

-----------------------------------------------------------------------------

Next ==
    \/ \E s \in Streams, v \in Values : update(s, v)
    \/ \E s \in Catalogs : invalidate(s)
    \/ \E S \in Monitors : monitor_failed(S)
    \/ \E c \in Clients :
          \/ \E S \in SUBSET Streams : Subscribe(c, S)
          \/ Leave(c) \/ Break(c)
          \/ \E s \in Streams : Worker(c, s)

\* The runtime polls each worker; a slow transport is slow, not stuck, and the
\* owner of a broken connection is seen to close.
Fairness ==
    /\ \A c \in Clients, s \in Streams : WF_vars(Worker(c, s))
    /\ \A c \in Clients : WF_vars(c \in broken /\ Leave(c))

Spec == Init /\ [][Next]_vars /\ Fairness

-----------------------------------------------------------------------------
(* Properties *)

\* The subscription of c to s, in the terms of StateStream: publications are
\* numbered by their identities, and the client's place is that of its last
\* state plus what it was told it missed.
At(c, s) == IF got[c][s] = None THEN 0 ELSE Number(got[c][s].pub) + missed[c][s]

Stream(c, s) == INSTANCE StateStream WITH
    Lossy <- s \in Replaceable, now <- Number(pub[s]), from <- from[c][s], at <- At(c, s)

\* Every subscription keeps the promise of StateStream: first the state of the
\* moment it began, nothing skipped in silence, nothing twice or out of order,
\* and the newest never missed (state.rs, snapshot_and_subscribe_domains;
\* subscriptions.rs, forward_events).  This is Stream(c, s)!Spec for all c and s.
KeepsPromise ==
    /\ \A c \in Clients, s \in Streams : Stream(c, s)!Init
    /\ [][\A c \in Clients, s \in Streams : [Stream(c, s)!Next]_(Stream(c, s)!vars)]_vars

\* A subscriber is brought up to date, or told what it missed, whenever the store
\* is quiet for long enough (subscriptions.rs, forward_events).
CatchesUp ==
    \A c \in Clients, s \in Streams :
        []<><<pub'[s] # pub[s]>>_vars \/ []<>(s \notin sub[c] \/ At(c, s) = Number(pub[s]))

Projections(s) ==
    {log[s][i] : i \in DOMAIN log[s]} \cup {project(s)}
        \cup {hand[c][s].state : c \in {d \in Clients : hand[d][s] # None /\ hand[d][s].kind # "gap"}}
        \cup {got[c][s] : c \in {d \in Clients : got[d][s] # None}}

\* A publication identity stands for one content, whoever captured it and when:
\* an event, the initial state, a snapshot or a reply, health included
\* (README.md: "without stamping previously captured payloads").
IdentityDeterminesContent ==
    \A s \in Streams : \A p, q \in Projections(s) : p.pub = q.pub => p = q

\* A client that meets another epoch knows that it continues the one it has,
\* unless it has missed a whole epoch (README.md: "retains its predecessor
\* through coalescing").
LineageKept ==
    \A c \in Clients, s \in Streams :
        got[c][s] # None /\ hand[c][s] # None /\ hand[c][s].kind # "gap" =>
            LET old == got[c][s].pub
                new == hand[c][s].state.pub IN
            new.epoch = old.epoch \/ new.previous = old.epoch
                \/ Number(new) - Number(old) > MaxRevision

\* A stream whose monitor stopped never looks healthy again to a subscriber,
\* late completions and other monitors' failures included (state.rs, monitor_failed).
FailureSticky ==
    [][\A c \in Clients, s \in Streams :
        got[c][s] # None /\ ~got[c][s].available /\ got'[c][s] # None => ~got'[c][s].available]_vars
=============================================================================
