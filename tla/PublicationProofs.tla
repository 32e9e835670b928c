------------------------- MODULE PublicationProofs -------------------------
(***************************************************************************)
(* Every subscription keeps the promise of StateStream, and an identity    *)
(* stands for one content, for any streams, clients, ring size and         *)
(* revision limit.  Neither is inductive by itself: IInv says where each    *)
(* worker stands between the publications and its client.                  *)
(***************************************************************************)
EXTENDS Publication, TLAPS

\* The number of a publication is its place in the log, and the last one is current.
Numbered ==
    \A s \in Streams :
        /\ Len(log[s]) = Number(pub[s]) /\ Len(log[s]) > 0
        /\ log[s][Len(log[s])] = project(s)
        /\ \A i \in 1..Len(log[s]) : Number(log[s][i].pub) = i

Published(p, s) ==
    p \in Projection /\ Number(p.pub) \in 1..Len(log[s]) /\ p = log[s][Number(p.pub)]

\* A client that is connected is at its worker's cursor, but for the message in hand.
InStep(c, s) ==
    /\ hand[c][s] = None => got[c][s] # None /\ At(c, s) = cursor[c][s]
    /\ hand[c][s] # None /\ hand[c][s].kind = "subscribed" =>
          /\ got[c][s] = None
          /\ Number(hand[c][s].state.pub) = from[c][s] /\ cursor[c][s] = from[c][s]
    /\ hand[c][s] # None /\ hand[c][s].kind = "changed" =>
          /\ got[c][s] # None
          /\ Number(hand[c][s].state.pub) = cursor[c][s] /\ At(c, s) < cursor[c][s]
          /\ s \in Ordered => cursor[c][s] = At(c, s) + 1
    /\ hand[c][s] # None /\ hand[c][s].kind = "gap" =>
          /\ got[c][s] # None /\ s \in Ordered
          /\ hand[c][s].missed > 0 /\ At(c, s) + hand[c][s].missed = cursor[c][s]
          /\ cursor[c][s] < Len(log[s])

Away(c, s) == hand[c][s] = None /\ got[c][s] = None /\ from[c][s] = 0

Attached(c, s) ==
    /\ from[c][s] \in 1..cursor[c][s] /\ cursor[c][s] \in 1..Len(log[s])
    /\ got[c][s] # None => Published(got[c][s], s)
    /\ hand[c][s] # None /\ hand[c][s].kind # "gap" => Published(hand[c][s].state, s)
    /\ c \notin broken => InStep(c, s)

WorkerOK(c, s) ==
    /\ s \notin sub[c] => Away(c, s)
    /\ s \in sub[c] => Attached(c, s)

IInv == TypeOK /\ Numbered /\ \A c \in Clients, s \in Streams : WorkerOK(c, s)

-----------------------------------------------------------------------------
(* Numbers, and what a step leaves alone *)

\* advance takes an identity to the next number, across the revision limit too.
LEMMA NumberAdvances ==
    ASSUME NEW p \in Identity
    PROVE  advance(p) \in Identity /\ Number(p) \in Int /\ Number(advance(p)) = Number(p) + 1
<1>1. MaxRevision \in Nat /\ MaxRevision > 0
  BY PublicationAssumption
<1>2. CASE p.revision = MaxRevision
  <2>1. (p.epoch + 1 - 1) * MaxRevision = (p.epoch - 1) * MaxRevision + MaxRevision
    BY <1>1 DEF Identity
  <2> QED BY <1>1, <1>2, <2>1 DEF Identity, advance, Number
<1>3. CASE p.revision # MaxRevision
  BY <1>1, <1>3 DEF Identity, advance, Number
<1> QED BY <1>2, <1>3

\* A projection that was published stays published when the log grows.
LEMMA PublishedStays ==
    ASSUME NEW s \in Streams, NEW p, TypeOK, Published(p, s),
           log'[s] = log[s] \/ \E q \in Projection : log'[s] = Append(log[s], q)
    PROVE  Published(p, s)'
<1>1. log[s] \in Seq(Projection)
  BY DEF TypeOK
<1>2. CASE log'[s] = log[s]
  BY <1>2 DEF Published
<1>3. ASSUME NEW q \in Projection, log'[s] = Append(log[s], q)
      PROVE  Published(p, s)'
  <2>1. Len(log'[s]) = Len(log[s]) + 1
        /\ \A i \in 1..Len(log[s]) : log'[s][i] = log[s][i]
    BY <1>1, <1>3
  <2> HIDE DEF Projection
  <2> QED BY <1>1, <2>1 DEF Published
<1> QED BY <1>2, <1>3

\* A worker that a step does not touch keeps its place.
LEMMA WorkerFrame ==
    ASSUME NEW c \in Clients, NEW s \in Streams, TypeOK, WorkerOK(c, s),
           s \in sub'[c] <=> s \in sub[c], c \in broken => c \in broken',
           hand'[c][s] = hand[c][s], got'[c][s] = got[c][s], missed'[c][s] = missed[c][s],
           cursor'[c][s] = cursor[c][s], from'[c][s] = from[c][s],
           log'[s] = log[s] \/ \E q \in Projection : log'[s] = Append(log[s], q)
    PROVE  WorkerOK(c, s)'
<1>1. log[s] \in Seq(Projection) /\ Len(log[s]) \in Nat /\ cursor[c][s] \in Nat /\ from[c][s] \in Nat
  BY DEF TypeOK
<1>2. Len(log'[s]) \in Nat /\ Len(log[s]) <= Len(log'[s])
  BY <1>1
<1>3. At(c, s)' = At(c, s)
  BY DEF At
<1>4. CASE s \notin sub[c]
  BY <1>4 DEF WorkerOK, Away
<1>5. CASE s \in sub[c]
  <2>1. Attached(c, s)
    BY <1>5 DEF WorkerOK
  <2>2. from'[c][s] \in 1..cursor'[c][s] /\ cursor'[c][s] \in 1..Len(log'[s])
    BY <1>1, <1>2, <2>1 DEF Attached
  <2>3. got'[c][s] # None => Published(got[c][s], s)'
    BY <2>1, PublishedStays DEF Attached
  <2>4. hand'[c][s] # None /\ hand'[c][s].kind # "gap" => Published(hand[c][s].state, s)'
    BY <2>1, PublishedStays DEF Attached
  <2>5. c \notin broken' => InStep(c, s)'
    BY <1>1, <1>2, <1>3, <2>1 DEF Attached, InStep
  <2> QED BY <1>5, <2>2, <2>3, <2>4, <2>5 DEF WorkerOK, Attached, Published
<1> QED BY <1>4, <1>5

-----------------------------------------------------------------------------
(* The actions *)

\* A new store has published its default domains and has no subscriptions.
LEMMA InitHolds == Init => IInv
<1> SUFFICES ASSUME Init PROVE IInv
  OBVIOUS
<1>1. FirstIdentity \in Identity /\ Number(FirstIdentity) = 1
  BY PublicationAssumption DEF FirstIdentity, Identity, Number
<1>2. \A s \in Streams : project(s) \in Projection /\ project(s).pub = FirstIdentity
  BY <1>1, PublicationAssumption DEF Init, project, healthy, Projection
<1>3. \A s \in Streams : log[s] \in Seq(Projection) /\ Len(log[s]) = 1 /\ log[s][1] = project(s)
  BY <1>2 DEF Init
<1>4. TypeOK
  BY <1>1, <1>3, PublicationAssumption DEF Init, TypeOK, PerWorker
<1>5. Numbered
  <2> SUFFICES ASSUME NEW s \in Streams
               PROVE  /\ Len(log[s]) = Number(pub[s]) /\ Len(log[s]) > 0
                      /\ log[s][Len(log[s])] = project(s)
                      /\ \A i \in 1..Len(log[s]) : Number(log[s][i].pub) = i
    BY DEF Numbered
  <2>1. pub[s] = FirstIdentity
    BY DEF Init
  <2> QED BY <1>1, <1>2, <1>3, <2>1
<1>6. \A c \in Clients, s \in Streams : WorkerOK(c, s)
  BY DEF Init, PerWorker, WorkerOK, Away
<1> QED BY <1>4, <1>5, <1>6 DEF IInv

\* Publishing, whatever the new contents are.
LEMMA PublishHolds ==
    ASSUME IInv, NEW S \in SUBSET Streams, publish(S),
           value' \in [Streams -> Values], failed' \subseteq Streams,
           \A s \in Streams \ S : value'[s] = value[s] /\ (s \in failed' <=> s \in failed)
    PROVE  IInv'
<1>0. TypeOK /\ Numbered
  BY DEF IInv
<1>1. pub' \in [Streams -> Identity]
  BY <1>0, NumberAdvances DEF publish, TypeOK
<1>2. \A s \in Streams : project(s)' \in Projection /\ project(s)'.pub = pub'[s]
  BY <1>1 DEF project, healthy, Projection
<1>3. \A s \in S : /\ log'[s] = Append(log[s], project(s)')
                   /\ pub'[s] = advance(pub[s])
  BY <1>0 DEF publish, TypeOK
<1>4. \A s \in Streams \ S : log'[s] = log[s] /\ pub'[s] = pub[s] /\ project(s)' = project(s)
  BY <1>0 DEF publish, TypeOK, project, healthy
<1>5. \A s \in Streams : log'[s] \in Seq(Projection)
  <2> SUFFICES ASSUME NEW s \in Streams PROVE log'[s] \in Seq(Projection)
    OBVIOUS
  <2>1. log[s] \in Seq(Projection) /\ project(s)' \in Projection
    BY <1>0, <1>2 DEF TypeOK
  <2>2. \A p \in Projection : Append(log[s], p) \in Seq(Projection)
    BY <2>1
  <2> QED BY <1>3, <1>4, <2>1, <2>2
<1>6. TypeOK'
  <2>1. log' \in [Streams -> Seq(Projection)]
    BY <1>5 DEF publish
  <2> QED BY <1>0, <1>1, <2>1 DEF TypeOK, publish, delivery
<1>7. Numbered'
  <2> SUFFICES ASSUME NEW s \in Streams
               PROVE  /\ Len(log'[s]) = Number(pub'[s]) /\ Len(log'[s]) > 0
                      /\ log'[s][Len(log'[s])] = project(s)'
                      /\ \A i \in 1..Len(log'[s]) : Number(log'[s][i].pub) = i
    BY DEF Numbered, Number
  <2>0. /\ Len(log[s]) = Number(pub[s]) /\ Len(log[s]) > 0
        /\ log[s][Len(log[s])] = project(s)
        /\ \A i \in 1..Len(log[s]) : Number(log[s][i].pub) = i
    BY <1>0 DEF Numbered
  <2>1. CASE s \notin S
    BY <1>4, <2>0, <2>1
  <2>2. CASE s \in S
    <3>1. log[s] \in Seq(Projection) /\ pub[s] \in Identity
      BY <1>0 DEF TypeOK
    <3>2. Number(pub'[s]) = Len(log[s]) + 1
      BY <1>3, <2>0, <2>2, <3>1, NumberAdvances
    <3>3. /\ Len(log'[s]) = Len(log[s]) + 1 /\ log'[s][Len(log[s]) + 1] = project(s)'
          /\ \A i \in 1..Len(log[s]) : log'[s][i] = log[s][i]
      BY <1>2, <1>3, <2>2, <3>1
    <3>4. ASSUME NEW i \in 1..Len(log'[s]) PROVE Number(log'[s][i].pub) = i
      <4>1. CASE i = Len(log[s]) + 1
        BY <1>2, <3>2, <3>3, <4>1
      <4>2. CASE i # Len(log[s]) + 1
        <5>1. i \in 1..Len(log[s])
          BY <3>1, <3>3, <4>2
        <5> QED BY <2>0, <3>3, <5>1
      <4> QED BY <4>1, <4>2
    <3> QED BY <2>0, <3>1, <3>2, <3>3, <3>4
  <2> QED BY <2>1, <2>2
<1>8. \A c \in Clients, s \in Streams : WorkerOK(c, s)'
  <2> SUFFICES ASSUME NEW c \in Clients, NEW s \in Streams PROVE WorkerOK(c, s)'
    OBVIOUS
  <2>1. WorkerOK(c, s)
    BY DEF IInv
  <2>2. log'[s] = log[s] \/ \E q \in Projection : log'[s] = Append(log[s], q)
    BY <1>2, <1>3, <1>4
  <2>3. UNCHANGED <<sub, broken, cursor, hand, got, missed, from>>
    BY DEF publish, delivery
  <2> QED BY <1>0, <2>1, <2>2, <2>3, WorkerFrame
<1> QED BY <1>6, <1>7, <1>8 DEF IInv

\* The writers: update, invalidate_update_history, monitor_failed.
LEMMA WritersHold ==
    ASSUME IInv,
           \/ \E s \in Streams, v \in Values : update(s, v)
           \/ \E s \in Catalogs : invalidate(s)
           \/ \E S \in Monitors : monitor_failed(S)
    PROVE  IInv'
<1>0. value \in [Streams -> Values] /\ failed \subseteq Streams
  BY DEF IInv, TypeOK
<1>1. ASSUME NEW s \in Streams, NEW v \in Values, update(s, v) PROVE IInv'
  <2>1. value' \in [Streams -> Values] /\ failed' = failed
        /\ \A r \in Streams \ {s} : value'[r] = value[r]
    BY <1>0, <1>1 DEF update
  <2>2. publish({s})
    BY <1>1 DEF update
  <2> QED BY <1>0, <2>1, <2>2, PublishHolds
<1>2. ASSUME NEW s \in Catalogs, invalidate(s) PROVE IInv'
  <2>1. s \in Streams
    BY PublicationAssumption
  <2>2. publish({s}) /\ value' = value /\ failed' = failed
    BY <1>2 DEF invalidate
  <2> QED BY <1>0, <2>1, <2>2, PublishHolds
<1>3. ASSUME NEW S \in Monitors, monitor_failed(S) PROVE IInv'
  <2>1. S \in SUBSET Streams
    BY PublicationAssumption
  <2>2. publish(S) /\ value' = value /\ failed' = failed \cup S
    BY <1>3 DEF monitor_failed
  <2> QED BY <1>0, <2>1, <2>2, PublishHolds
<1> QED BY <1>1, <1>2, <1>3

\* Steps that leave the store alone keep the log's numbering.
LEMMA NumberedStays ==
    ASSUME Numbered, UNCHANGED store
    PROVE  Numbered'
  BY DEF Numbered, store, project, healthy, Number

\* snapshot_and_subscribe_domains: the receivers start behind the projection in hand.
LEMMA SubscribeHolds ==
    ASSUME IInv, NEW c \in Clients, NEW S \in SUBSET Streams, Subscribe(c, S)
    PROVE  IInv'
<1>0. TypeOK /\ Numbered
  BY DEF IInv
<1>1. \A s \in Streams : project(s) \in Projection /\ project(s).pub = pub[s] /\ Published(project(s), s)
  <2> SUFFICES ASSUME NEW s \in Streams
               PROVE  project(s) \in Projection /\ project(s).pub = pub[s] /\ Published(project(s), s)
    OBVIOUS
  <2>1. project(s) \in Projection /\ project(s).pub = pub[s]
    BY <1>0 DEF TypeOK, project, healthy, Projection
  <2>2. Len(log[s]) = Number(pub[s]) /\ Len(log[s]) > 0 /\ log[s][Len(log[s])] = project(s)
    BY <1>0 DEF Numbered
  <2>3. Len(log[s]) \in Nat
    BY <1>0 DEF TypeOK
  <2> QED BY <2>1, <2>2, <2>3 DEF Published
<1>2. \A s \in Streams : Subscribed(project(s)) \in Message
                         /\ Subscribed(project(s)).kind = "subscribed"
                         /\ Subscribed(project(s)).state = project(s)
  BY <1>1 DEF Subscribed, Message
<1>3. \A s \in Streams : Len(log[s]) \in Nat /\ Number(pub[s]) = Len(log[s]) /\ Len(log[s]) > 0
  BY <1>0 DEF Numbered, TypeOK
<1>4. /\ sub' = [sub EXCEPT ![c] = S]
      /\ \A s \in Streams :
            /\ cursor'[c][s] = IF s \in S THEN Len(log[s]) ELSE cursor[c][s]
            /\ hand'[c][s] = IF s \in S THEN Subscribed(project(s)) ELSE hand[c][s]
            /\ from'[c][s] = IF s \in S THEN Number(pub[s]) ELSE from[c][s]
      /\ \A d \in Clients \ {c} : cursor'[d] = cursor[d] /\ hand'[d] = hand[d] /\ from'[d] = from[d]
      /\ UNCHANGED <<store, broken, got, missed>>
  BY <1>0 DEF Subscribe, For, TypeOK
<1>5. TypeOK'
  <2>1. cursor' \in [Clients -> [Streams -> Nat]]
    BY <1>0, <1>3 DEF Subscribe, For, TypeOK
  <2>2. from' \in [Clients -> [Streams -> Nat]]
    BY <1>0, <1>3 DEF Subscribe, For, TypeOK
  <2>3. hand' \in [Clients -> [Streams -> Message \cup {None}]]
    BY <1>0, <1>2 DEF Subscribe, For, TypeOK
  <2> QED BY <1>0, <1>4, <2>1, <2>2, <2>3 DEF TypeOK, store
<1>6. Numbered'
  BY <1>0, <1>4, NumberedStays
<1>7. \A d \in Clients, s \in Streams : WorkerOK(d, s)'
  <2> SUFFICES ASSUME NEW d \in Clients, NEW s \in Streams PROVE WorkerOK(d, s)'
    OBVIOUS
  <2>0. WorkerOK(d, s) /\ log' = log
    BY <1>4 DEF IInv, store
  <2>1. CASE d # c
    BY <1>0, <1>4, <2>0, <2>1, WorkerFrame DEF TypeOK
  <2>2. CASE d = c /\ s \notin S
    <3>1. s \notin sub[c] /\ s \notin sub'[c]
      BY <1>0, <1>4, <2>2 DEF Subscribe, TypeOK
    <3> QED BY <1>4, <2>0, <2>2, <3>1 DEF WorkerOK, Away
  <2>3. CASE d = c /\ s \in S
    <3>1. s \notin sub[c] /\ s \in sub'[c]
      BY <1>0, <1>4, <2>3 DEF Subscribe, TypeOK
    <3>2. got'[c][s] = None
      BY <1>4, <2>0, <2>3, <3>1 DEF WorkerOK, Away
    <3>3. hand'[c][s] = Subscribed(project(s)) /\ hand'[c][s] # None
      BY <1>2, <1>4, <2>3, NoneAssumption
    <3>4. Published(hand[c][s].state, s)'
      BY <1>1, <1>2, <2>0, <3>3 DEF Published
    <3>5. InStep(c, s)'
      BY <1>1, <1>2, <1>3, <1>4, <2>3, <3>2, <3>3 DEF InStep
    <3> QED BY <1>3, <1>4, <2>0, <2>3, <3>1, <3>2, <3>4, <3>5 DEF WorkerOK, Attached
  <2> QED BY <2>1, <2>2, <2>3
<1> QED BY <1>5, <1>6, <1>7 DEF IInv

\* A subscription that ends drops its workers.
LEMMA LeaveHolds ==
    ASSUME IInv, NEW c \in Clients, Leave(c)
    PROVE  IInv'
<1>0. TypeOK /\ Numbered
  BY DEF IInv
<1>1. TypeOK'
  BY <1>0 DEF TypeOK, Leave, store
<1>2. Numbered'
  BY <1>0, NumberedStays DEF Leave
<1>3. \A d \in Clients, s \in Streams : WorkerOK(d, s)'
  <2> SUFFICES ASSUME NEW d \in Clients, NEW s \in Streams PROVE WorkerOK(d, s)'
    OBVIOUS
  <2>0. WorkerOK(d, s)
    BY DEF IInv
  <2>1. CASE d # c
    <3>1. /\ sub'[d] = sub[d] /\ hand'[d] = hand[d] /\ got'[d] = got[d] /\ missed'[d] = missed[d]
          /\ cursor'[d] = cursor[d] /\ from'[d] = from[d] /\ log' = log
          /\ d \in broken => d \in broken'
      BY <1>0, <2>1 DEF Leave, TypeOK, store
    <3> QED BY <1>0, <2>0, <3>1, WorkerFrame
  <2>2. CASE d = c
    BY <1>0, <2>2 DEF Leave, TypeOK, WorkerOK, Away
  <2> QED BY <2>1, <2>2
<1> QED BY <1>1, <1>2, <1>3 DEF IInv

\* Nothing is delivered on a broken connection; its workers go on.
LEMMA BreakHolds ==
    ASSUME IInv, NEW c \in Clients, Break(c)
    PROVE  IInv'
<1>0. TypeOK /\ Numbered
  BY DEF IInv
<1>1. TypeOK'
  BY <1>0 DEF TypeOK, Break, store, delivery
<1>2. Numbered'
  BY <1>0, NumberedStays DEF Break
<1>3. \A d \in Clients, s \in Streams : WorkerOK(d, s)'
  <2> SUFFICES ASSUME NEW d \in Clients, NEW s \in Streams PROVE WorkerOK(d, s)'
    OBVIOUS
  <2>1. WorkerOK(d, s) /\ UNCHANGED <<sub, hand, got, missed, cursor, from, log>>
        /\ (d \in broken => d \in broken')
    BY DEF IInv, Break, store, delivery
  <2> QED BY <1>0, <2>1, WorkerFrame
<1> QED BY <1>1, <1>2, <1>3 DEF IInv

\* What a worker may take from its receiver.
Takeable(c, s, position, message) ==
    /\ message \in Message /\ position \in 1..Len(log[s]) /\ cursor[c][s] < position
    /\ \/ /\ message.kind = "changed" /\ Published(message.state, s)
          /\ Number(message.state.pub) = position
          /\ s \in Ordered => position = cursor[c][s] + 1
       \/ /\ message.kind = "gap" /\ s \in Ordered
          /\ message.missed = position - cursor[c][s] /\ position < Len(log[s])

\* A worker takes a message that fits its place.
LEMMA TakesHolds ==
    ASSUME IInv, NEW c \in Clients, NEW s \in Streams, NEW position, NEW message,
           Idle(c, s), Takeable(c, s, position, message), Takes(c, s, position, message)
    PROVE  IInv'
<1>0. TypeOK /\ Numbered
  BY DEF IInv
<1>1. position \in Nat /\ message \in Message /\ message # None /\ Len(log[s]) \in Nat
      /\ cursor[c][s] \in Nat /\ from[c][s] \in Nat
  BY <1>0, NoneAssumption DEF Takeable, TypeOK
<1>2. /\ cursor'[c][s] = position /\ hand'[c][s] = message
      /\ \A d \in Clients, r \in Streams :
            <<d, r>> # <<c, s>> => cursor'[d][r] = cursor[d][r] /\ hand'[d][r] = hand[d][r]
      /\ UNCHANGED <<store, sub, broken, got, missed, from>>
  BY <1>0 DEF Takes, TypeOK
<1>3. TypeOK'
  <2>1. cursor' \in [Clients -> [Streams -> Nat]]
    BY <1>0, <1>1 DEF Takes, TypeOK
  <2>2. hand' \in [Clients -> [Streams -> Message \cup {None}]]
    BY <1>0, <1>1 DEF Takes, TypeOK
  <2> QED BY <1>0, <1>2, <2>1, <2>2 DEF TypeOK, store
<1>4. Numbered'
  BY <1>0, <1>2, NumberedStays
<1>5. \A d \in Clients, r \in Streams : WorkerOK(d, r)'
  <2> SUFFICES ASSUME NEW d \in Clients, NEW r \in Streams PROVE WorkerOK(d, r)'
    OBVIOUS
  <2>0. WorkerOK(d, r) /\ log' = log
    BY <1>2 DEF IInv, store
  <2>1. CASE <<d, r>> # <<c, s>>
    BY <1>0, <1>2, <2>0, <2>1, WorkerFrame
  <2>2. CASE d = c /\ r = s
    <3>1. s \in sub[c] /\ hand[c][s] = None /\ Attached(c, s)
      BY <2>0, <2>2 DEF Idle, WorkerOK
    <3>2. from'[c][s] \in 1..cursor'[c][s] /\ cursor'[c][s] \in 1..Len(log'[s])
      BY <1>1, <1>2, <2>0, <3>1 DEF Attached, Takeable
    <3>3. got'[c][s] # None => Published(got[c][s], s)'
      BY <1>2, <2>0, <3>1 DEF Attached, Published
    <3>4. hand'[c][s].kind # "gap" => Published(hand[c][s].state, s)'
      BY <1>2, <2>0 DEF Takeable, Published
    <3>5. ASSUME c \notin broken' PROVE InStep(c, s)'
      <4>1. got[c][s] # None /\ At(c, s) = cursor[c][s] /\ At(c, s)' = At(c, s)
        BY <1>2, <3>1, <3>5 DEF Attached, InStep, At
      <4>2. CASE message.kind = "changed"
        BY <1>1, <1>2, <2>0, <4>1, <4>2 DEF Takeable, InStep
      <4>3. CASE message.kind = "gap"
        <5>1. s \in Ordered /\ message.missed = position - cursor[c][s] /\ position < Len(log[s])
              /\ cursor[c][s] < position
          BY <4>3 DEF Takeable
        <5> QED BY <1>1, <1>2, <2>0, <4>1, <4>3, <5>1 DEF InStep
      <4> QED BY <4>2, <4>3 DEF Takeable
    <3> QED BY <1>2, <2>2, <3>1, <3>2, <3>3, <3>4, <3>5 DEF WorkerOK, Attached
  <2> QED BY <2>1, <2>2
<1> QED BY <1>3, <1>4, <1>5 DEF IInv

\* DomainReceiver::recv only returns such messages.
LEMMA ReceivesHold ==
    ASSUME IInv, NEW c \in Clients, NEW s \in Streams,
           ReceiveLatest(c, s) \/ ReceiveNext(c, s) \/ ReceiveGap(c, s)
    PROVE  IInv'
<1>0. /\ log[s] \in Seq(Projection) /\ Len(log[s]) \in Nat /\ cursor[c][s] \in Nat
      /\ \A i \in 1..Len(log[s]) : log[s][i] \in Projection /\ Number(log[s][i].pub) = i
  <2>1. log[s] \in Seq(Projection) /\ cursor[c][s] \in Nat
    BY DEF IInv, TypeOK
  <2>2. \A i \in 1..Len(log[s]) : Number(log[s][i].pub) = i
    BY DEF IInv, Numbered
  <2> QED BY <2>1, <2>2
<1>1. \A i \in 1..Len(log[s]) : /\ Published(log[s][i], s)
                                /\ Changed(log[s][i]) \in Message
                                /\ Changed(log[s][i]).kind = "changed"
                                /\ Changed(log[s][i]).state = log[s][i]
  BY <1>0 DEF Published, Changed, Message
<1>2. CASE ReceiveLatest(c, s)
  <2>1. Len(log[s]) \in 1..Len(log[s]) /\ s \notin Ordered /\ cursor[c][s] < Len(log[s])
        /\ Idle(c, s) /\ Takes(c, s, Len(log[s]), Changed(log[s][Len(log[s])]))
    BY <1>0, <1>2, PublicationAssumption DEF ReceiveLatest
  <2>2. Takeable(c, s, Len(log[s]), Changed(log[s][Len(log[s])]))
    BY <1>0, <1>1, <2>1 DEF Takeable
  <2> QED BY <2>1, <2>2, TakesHolds
<1>3. CASE ReceiveNext(c, s)
  <2>1. cursor[c][s] + 1 \in 1..Len(log[s]) /\ Idle(c, s)
        /\ Takes(c, s, cursor[c][s] + 1, Changed(log[s][cursor[c][s] + 1]))
    BY <1>0, <1>3 DEF ReceiveNext
  <2>2. Takeable(c, s, cursor[c][s] + 1, Changed(log[s][cursor[c][s] + 1]))
    BY <1>0, <1>1, <2>1, SMTT(30) DEF Takeable
  <2> QED BY <2>1, <2>2, TakesHolds
<1>4. CASE ReceiveGap(c, s)
  <2>1. /\ Dropped(s) \in 1..Len(log[s]) /\ Dropped(s) < Len(log[s]) /\ cursor[c][s] < Dropped(s)
        /\ s \in Ordered
        /\ Idle(c, s) /\ Takes(c, s, Dropped(s), Lagged(Dropped(s) - cursor[c][s]))
    BY <1>0, <1>4, PublicationAssumption DEF ReceiveGap, Dropped
  <2>2. Dropped(s) - cursor[c][s] \in Nat
    BY <1>0, <2>1
  <2>3. /\ Lagged(Dropped(s) - cursor[c][s]) \in Message
        /\ Lagged(Dropped(s) - cursor[c][s]).kind = "gap"
        /\ Lagged(Dropped(s) - cursor[c][s]).missed = Dropped(s) - cursor[c][s]
    BY <2>2 DEF Lagged, Message
  <2>4. Takeable(c, s, Dropped(s), Lagged(Dropped(s) - cursor[c][s]))
    BY <2>1, <2>3 DEF Takeable
  <2> QED BY <2>1, <2>4, TakesHolds
<1> QED BY <1>2, <1>3, <1>4

\* emit_event brings the client to the place of the cursor, or drops the message.
LEMMA EmitsHold ==
    ASSUME IInv, NEW c \in Clients, NEW s \in Streams,
           EmitState(c, s) \/ EmitGap(c, s) \/ EmitFails(c, s)
    PROVE  IInv'
<1>0. TypeOK /\ Numbered
  BY DEF IInv
<1>1. Emitted(c, s)
  BY DEF EmitState, EmitGap, EmitFails
<1>2. s \in sub[c] /\ hand[c][s] # None /\ hand[c][s] \in Message /\ Attached(c, s)
  BY <1>0, <1>1 DEF Emitted, TypeOK, IInv, WorkerOK
<1>3. /\ hand'[c][s] = None
      /\ \A d \in Clients, r \in Streams :
            <<d, r>> # <<c, s>> =>
                hand'[d][r] = hand[d][r] /\ got'[d][r] = got[d][r] /\ missed'[d][r] = missed[d][r]
      /\ UNCHANGED <<store, sub, broken, cursor, from>>
  <2>1. \A d \in Clients, r \in Streams :
            <<d, r>> # <<c, s>> => got'[d][r] = got[d][r] /\ missed'[d][r] = missed[d][r]
    BY <1>0, SMTT(30) DEF EmitState, EmitGap, EmitFails, TypeOK
  <2> QED BY <1>0, <1>1, <2>1 DEF Emitted, TypeOK
<1>4. hand[c][s].kind # "gap" => Published(hand[c][s].state, s) /\ hand[c][s].state \in Projection
  BY <1>2 DEF Attached, Published
<1>5. TypeOK'
  <2>1. hand' \in [Clients -> [Streams -> Message \cup {None}]]
    BY <1>0, <1>1 DEF Emitted, TypeOK
  <2>2. got' \in [Clients -> [Streams -> Projection \cup {None}]]
    <3>1. got \in [Clients -> [Streams -> Projection \cup {None}]]
      BY <1>0 DEF TypeOK
    <3>2. CASE EmitState(c, s)
      BY <1>4, <3>1, <3>2 DEF EmitState
    <3>3. CASE EmitGap(c, s) \/ EmitFails(c, s)
      BY <3>1, <3>3 DEF EmitGap, EmitFails
    <3> QED BY <3>2, <3>3
  <2>3. missed[c][s] + hand[c][s].missed \in Nat
    BY <1>0, <1>2 DEF TypeOK, Message
  <2>4. missed' \in [Clients -> [Streams -> Nat]]
    <3>1. missed \in [Clients -> [Streams -> Nat]]
      BY <1>0 DEF TypeOK
    <3>2. CASE EmitState(c, s)
      BY <3>1, <3>2 DEF EmitState
    <3>3. CASE EmitGap(c, s)
      BY <2>3, <3>1, <3>3 DEF EmitGap
    <3>4. CASE EmitFails(c, s)
      BY <3>1, <3>4 DEF EmitFails
    <3> QED BY <3>2, <3>3, <3>4
  <2> QED BY <1>0, <1>3, <2>1, <2>2, <2>4 DEF TypeOK, store
<1>6. Numbered'
  BY <1>0, <1>3, NumberedStays
<1>7. \A d \in Clients, r \in Streams : WorkerOK(d, r)'
  <2> SUFFICES ASSUME NEW d \in Clients, NEW r \in Streams PROVE WorkerOK(d, r)'
    OBVIOUS
  <2>0. WorkerOK(d, r) /\ log' = log
    BY <1>3 DEF IInv, store
  <2>1. CASE <<d, r>> # <<c, s>>
    BY <1>0, <1>3, <2>0, <2>1, WorkerFrame
  <2>2. CASE d = c /\ r = s
    <3>1. /\ from'[c][s] \in 1..cursor'[c][s] /\ cursor'[c][s] \in 1..Len(log'[s])
      BY <1>2, <1>3, <2>0 DEF Attached
    <3>2. CASE EmitFails(c, s)
      <4>1. got'[c][s] = got[c][s] /\ c \in broken'
        BY <1>3, <3>2 DEF EmitFails
      <4>2. got'[c][s] # None => Published(got[c][s], s)'
        BY <1>2, <2>0, <4>1 DEF Attached, Published
      <4> QED BY <1>2, <1>3, <2>2, <3>1, <4>1, <4>2 DEF WorkerOK, Attached
    <3>3. CASE EmitState(c, s)
      <4>1. got'[c][s] = hand[c][s].state /\ missed'[c][s] = 0 /\ InStep(c, s)
            /\ hand[c][s].kind # "gap"
        BY <1>0, <1>2, <3>3 DEF EmitState, TypeOK, Attached
      <4>2. got'[c][s] # None /\ Published(got[c][s], s)'
        BY <1>4, <2>0, <4>1, NoneAssumption DEF Published
      <4>3. hand[c][s].kind \in {"subscribed", "changed"} /\ cursor[c][s] \in Nat
        BY <1>0, <1>2, <4>1 DEF Message, TypeOK
      <4>4. Number(hand[c][s].state.pub) = cursor[c][s]
        BY <1>2, <4>1, <4>3 DEF InStep
      <4>5. At(c, s)' = cursor'[c][s]
        BY <1>3, <4>1, <4>2, <4>3, <4>4 DEF At, Number
      <4> QED BY <1>2, <1>3, <2>2, <3>1, <4>2, <4>5 DEF WorkerOK, Attached, InStep
    <3>4. CASE EmitGap(c, s)
      <4>1. /\ got'[c][s] = got[c][s] /\ missed'[c][s] = missed[c][s] + hand[c][s].missed
            /\ InStep(c, s) /\ hand[c][s].kind = "gap"
        BY <1>0, <1>2, <3>4 DEF EmitGap, TypeOK, Attached
      <4>2. got[c][s] # None /\ At(c, s) + hand[c][s].missed = cursor[c][s]
        BY <1>2, <4>1 DEF InStep
      <4>3. Published(got[c][s], s) /\ Published(got[c][s], s)'
        BY <1>2, <2>0, <4>1, <4>2 DEF Attached, Published
      <4>4. At(c, s)' = cursor'[c][s]
        <5>1. Number(got[c][s].pub) \in Int /\ missed[c][s] \in Nat /\ hand[c][s].missed \in Nat
          BY <1>0, <1>2, <4>3 DEF Published, TypeOK, Message
        <5>2. At(c, s)' = Number(got[c][s].pub) + (missed[c][s] + hand[c][s].missed)
          BY <4>1, <4>2 DEF At, Number
        <5> QED BY <1>3, <4>2, <5>1, <5>2 DEF At
      <4> QED BY <1>2, <1>3, <2>2, <3>1, <4>1, <4>2, <4>3, <4>4 DEF WorkerOK, Attached, InStep
    <3> QED BY <3>2, <3>3, <3>4
  <2> QED BY <2>1, <2>2
<1> QED BY <1>5, <1>6, <1>7 DEF IInv

\* Every step keeps the invariant.
LEMMA NextHolds == IInv /\ [Next]_vars => IInv'
<1> SUFFICES ASSUME IInv, [Next]_vars PROVE IInv'
  OBVIOUS
<1>1. CASE UNCHANGED vars
  <2>1. UNCHANGED <<value, pub, failed, log, sub, broken, cursor, hand, got, missed, from>>
    BY <1>1 DEF vars, store, delivery
  <2>2. TypeOK /\ Numbered /\ TypeOK'
    BY <2>1 DEF IInv, TypeOK
  <2>3. Numbered'
    BY <2>1, <2>2, NumberedStays DEF store
  <2>4. \A c \in Clients, s \in Streams : WorkerOK(c, s)'
    BY <2>1, <2>2, WorkerFrame DEF IInv
  <2> QED BY <2>2, <2>3, <2>4 DEF IInv
<1>2. CASE \/ \E s \in Streams, v \in Values : update(s, v)
           \/ \E s \in Catalogs : invalidate(s)
           \/ \E S \in Monitors : monitor_failed(S)
  BY <1>2, WritersHold
<1>3. ASSUME NEW c \in Clients,
             \/ \E S \in SUBSET Streams : Subscribe(c, S)
             \/ Leave(c) \/ Break(c)
      PROVE  IInv'
  BY <1>3, SubscribeHolds, LeaveHolds, BreakHolds
<1>4. ASSUME NEW c \in Clients, NEW s \in Streams, Worker(c, s)
      PROVE  IInv'
  BY <1>4, ReceivesHold, EmitsHold DEF Worker
<1> QED BY <1>1, <1>2, <1>3, <1>4 DEF Next

\* The invariant holds of every behaviour of the store and its subscriptions.
THEOREM PublicationInvariant == Spec => []IInv
  BY InitHolds, NextHolds, PTL DEF Spec

\* The state of the store and of its subscriptions keeps its types.
THEOREM TypeCorrect == Spec => []TypeOK
<1>1. IInv => TypeOK
  BY DEF IInv
<1> QED BY <1>1, PublicationInvariant, PTL

\* Whoever captured it and when, a publication identity stands for one content
\* (state.rs: publish and monitor_failed advance it in the step that changes it).
THEOREM IdentityIsContent == Spec => []IdentityDeterminesContent
<1>1. ASSUME IInv PROVE IdentityDeterminesContent
  <2>1. ASSUME NEW s \in Streams, NEW p \in Projections(s) PROVE Published(p, s)
    <3>0. /\ Len(log[s]) \in Nat /\ log[s] \in Seq(Projection)
          /\ \A i \in 1..Len(log[s]) : Number(log[s][i].pub) = i
          /\ log[s][Len(log[s])] = project(s) /\ Len(log[s]) > 0
      BY <1>1 DEF IInv, TypeOK, Numbered
    <3>1. \A i \in 1..Len(log[s]) : Published(log[s][i], s)
      BY <3>0 DEF Published
    <3>2. CASE \E i \in DOMAIN log[s] : p = log[s][i]
      BY <3>0, <3>1, <3>2
    <3>3. CASE p = project(s)
      BY <3>0, <3>1, <3>3
    <3>4. CASE \E c \in Clients : hand[c][s] # None /\ hand[c][s].kind # "gap" /\ p = hand[c][s].state
      BY <1>1, <3>4 DEF IInv, WorkerOK, Attached, Away
    <3>5. CASE \E c \in Clients : got[c][s] # None /\ p = got[c][s]
      BY <1>1, <3>5 DEF IInv, WorkerOK, Attached, Away
    <3> QED BY <2>1, <3>2, <3>3, <3>4, <3>5 DEF Projections
  <2> QED BY <2>1 DEF IdentityDeterminesContent, Published
<1> QED BY <1>1, PublicationInvariant, PTL

-----------------------------------------------------------------------------
(* The promise *)

\* A new store is the initial state of every stream.
LEMMA PromisedInitially ==
    ASSUME Init, NEW c \in Clients, NEW s \in Streams
    PROVE  Stream(c, s)!Init
<1>1. Number(FirstIdentity) = 1
  BY PublicationAssumption DEF FirstIdentity, Number
<1> QED BY <1>1 DEF Init, PerWorker, At, Stream!Init

\* Publishing is Publish of the streams concerned.
LEMMA PromisedByPublish ==
    ASSUME IInv, NEW c \in Clients, NEW s \in Streams, NEW S \in SUBSET Streams, publish(S)
    PROVE  [Stream(c, s)!Next]_(Stream(c, s)!vars)
<1>1. pub[s] \in Identity
  BY DEF IInv, TypeOK
<1>2. from' = from /\ At(c, s)' = At(c, s)
  BY DEF publish, delivery, At, Number
<1>3. CASE s \in S
  <2>1. Number(pub[s])' = Number(pub[s]) + 1
    BY <1>1, <1>3, NumberAdvances DEF publish
  <2> QED BY <1>2, <2>1 DEF Stream!Next, Stream!Publish
<1>4. CASE s \notin S
  BY <1>1, <1>2, <1>4 DEF publish, Stream!vars
<1> QED BY <1>3, <1>4

\* Subscribing is Subscribe of the streams asked for.
LEMMA PromisedBySubscribe ==
    ASSUME IInv, NEW c \in Clients, NEW s \in Streams, NEW d \in Clients,
           NEW S \in SUBSET Streams, Subscribe(d, S)
    PROVE  [Stream(c, s)!Next]_(Stream(c, s)!vars)
<1>0. pub' = pub /\ from \in [Clients -> [Streams -> Nat]] /\ At(c, s)' = At(c, s)
  BY DEF IInv, TypeOK, Subscribe, store, At, Number
<1>1. CASE c = d /\ s \in S
  <2>1. from'[c][s] = Number(pub[s])
    BY <1>0, <1>1 DEF Subscribe, For
  <2>2. s \notin sub[c]
    BY <1>1 DEF Subscribe
  <2>3. from[c][s] = 0
    BY <2>2 DEF IInv, WorkerOK, Away
  <2> QED BY <1>0, <2>1, <2>3 DEF Stream!Next, Stream!Subscribe, Number
<1>2. CASE ~(c = d /\ s \in S)
  <2>1. from'[c][s] = from[c][s]
    BY <1>0, <1>2 DEF Subscribe, For
  <2> QED BY <1>0, <2>1 DEF Stream!vars, Number
<1> QED BY <1>1, <1>2

\* Leaving is Leave of the streams that were subscribed.
LEMMA PromisedByLeave ==
    ASSUME IInv, NEW c \in Clients, NEW s \in Streams, NEW d \in Clients, Leave(d)
    PROVE  [Stream(c, s)!Next]_(Stream(c, s)!vars)
<1>0. TypeOK /\ WorkerOK(c, s) /\ pub' = pub
  BY DEF IInv, Leave, store
<1>1. CASE c # d
  <2>1. from'[c][s] = from[c][s] /\ At(c, s)' = At(c, s)
    BY <1>0, <1>1 DEF TypeOK, Leave, At, Number
  <2> QED BY <1>0, <2>1 DEF Stream!vars, Number
<1>2. CASE c = d
  <2>1. from'[c][s] = 0 /\ At(c, s)' = 0
    BY <1>0, <1>2 DEF TypeOK, Leave, At
  <2>2. CASE s \in sub[c]
    <3>1. from[c][s] # 0
      BY <1>0, <2>2 DEF WorkerOK, Attached
    <3> QED BY <1>0, <2>1, <3>1 DEF Stream!Next, Stream!Leave, Number
  <2>3. CASE s \notin sub[c]
    <3>1. from[c][s] = 0 /\ At(c, s) = 0
      BY <1>0, <2>3 DEF WorkerOK, Away, At
    <3> QED BY <1>0, <2>1, <3>1 DEF Stream!vars, Number
  <2> QED BY <2>2, <2>3
<1> QED BY <1>1, <1>2

\* Emitting is Initial, Deliver or Gap.
LEMMA PromisedByEmit ==
    ASSUME IInv, NEW c \in Clients, NEW s \in Streams, NEW d \in Clients, NEW r \in Streams,
           EmitState(d, r) \/ EmitGap(d, r)
    PROVE  [Stream(c, s)!Next]_(Stream(c, s)!vars)
<1>0. TypeOK /\ WorkerOK(c, s) /\ pub' = pub /\ from' = from /\ cursor' = cursor
  BY DEF IInv, EmitState, EmitGap, Emitted, store
<1>1. CASE ~(c = d /\ s = r)
  <2>1. got'[c][s] = got[c][s] /\ missed'[c][s] = missed[c][s]
    BY <1>0, <1>1, SMTT(30) DEF TypeOK, EmitState, EmitGap
  <2> QED BY <1>0, <2>1 DEF Stream!vars, At, Number
<1>2. CASE c = d /\ s = r
  <2>1. /\ s \in sub[c] /\ hand[c][s] # None /\ hand[c][s] \in Message
        /\ Attached(c, s) /\ InStep(c, s)
    BY <1>0, <1>2 DEF EmitState, EmitGap, Emitted, TypeOK, WorkerOK, Attached
  <2>2. /\ Len(log[s]) \in Nat /\ Number(pub[s]) = Len(log[s]) /\ cursor[c][s] \in Nat
        /\ from[c][s] \in Nat /\ from[c][s] # 0 /\ cursor[c][s] <= Len(log[s])
    BY <1>0, <2>1 DEF IInv, TypeOK, Numbered, Attached
  <2>3. /\ got[c][s] = None => At(c, s) = 0
        /\ got[c][s] # None => At(c, s) \in Nat /\ At(c, s) # 0
    <3>1. missed[c][s] \in Nat
      BY <1>0 DEF TypeOK
    <3>2. got[c][s] # None => Number(got[c][s].pub) \in 1..Len(log[s])
      BY <2>1 DEF Attached, Published
    <3> QED BY <2>2, <3>1, <3>2 DEF At
  <2>4. s \in Ordered <=> s \notin Replaceable
    BY PublicationAssumption DEF Streams
  <2>5. CASE EmitState(c, s)
    <3>1. At(c, s)' = Number(hand[c][s].state.pub)
      <4>1. got'[c][s] = hand[c][s].state /\ missed'[c][s] = 0
        BY <1>0, <2>5 DEF EmitState, TypeOK
      <4>2. hand[c][s].state \in Projection /\ Number(hand[c][s].state.pub) \in 1..Len(log[s])
        BY <2>1, <2>5 DEF EmitState, Attached, Published
      <4> QED BY <2>2, <4>1, <4>2, NoneAssumption DEF At, Number
    <3>2. hand[c][s].kind \in {"subscribed", "changed"}
      BY <2>1, <2>5 DEF EmitState, Message
    <3>3. CASE hand[c][s].kind = "subscribed"
      BY <1>0, <2>1, <2>2, <2>3, <3>1, <3>3 DEF InStep, Stream!Next, Stream!Initial, Number
    <3>4. CASE hand[c][s].kind = "changed"
      <4>1. /\ At(c, s) \in Nat /\ At(c, s) # 0 /\ At(c, s) < cursor[c][s] /\ At(c, s)' = cursor[c][s]
            /\ s \in Ordered => cursor[c][s] = At(c, s) + 1
        BY <2>1, <2>3, <3>1, <3>4 DEF InStep
      <4> QED BY <1>0, <2>2, <2>4, <4>1 DEF Stream!Next, Stream!Deliver, Number
    <3> QED BY <3>2, <3>3, <3>4
  <2>6. CASE EmitGap(c, s)
    <3>1. /\ got[c][s] # None /\ s \in Ordered
          /\ hand[c][s].missed \in Nat /\ hand[c][s].missed > 0
          /\ At(c, s) + hand[c][s].missed = cursor[c][s] /\ cursor[c][s] < Len(log[s])
      BY <2>1, <2>6 DEF InStep, EmitGap, Message
    <3>2. At(c, s)' = At(c, s) + hand[c][s].missed
      <4>1. got'[c][s] = got[c][s] /\ missed'[c][s] = missed[c][s] + hand[c][s].missed
            /\ missed[c][s] \in Nat
        BY <1>0, <2>6 DEF EmitGap, TypeOK
      <4>2. Number(got[c][s].pub) \in Int
        BY <2>1, <3>1 DEF Attached, Published
      <4> QED BY <3>1, <4>1, <4>2 DEF At, Number
    <3>3. At(c, s) # 0 /\ At(c, s)' \in (At(c, s) + 1)..(Number(pub[s]) - 1)
      BY <2>2, <2>3, <3>1, <3>2
    <3>4. UNCHANGED <<Number(pub[s]), from[c][s]>>
      BY <1>0 DEF Number
    <3> QED BY <2>4, <3>1, <3>3, <3>4 DEF Stream!Next, Stream!Gap
  <2> QED BY <1>2, <2>5, <2>6
<1> QED BY <1>1, <1>2

\* The others do not change what a subscription has or what is published.
LEMMA PromisedByOthers ==
    ASSUME NEW c \in Clients, NEW s \in Streams, UNCHANGED <<pub, from, got, missed>>
    PROVE  [Stream(c, s)!Next]_(Stream(c, s)!vars)
  BY DEF Stream!vars, At, Number

\* Every subscription implements StateStream, for any number of clients and streams
\* of either kind, any ring size and revision limit (snapshot_and_subscribe_domains,
\* publish, DomainReceiver::recv, forward_events).
THEOREM PromiseKept == Spec => KeepsPromise
<1>1. Init => \A c \in Clients, s \in Streams : Stream(c, s)!Init
  BY PromisedInitially
<1>2. IInv /\ [Next]_vars =>
        [\A c \in Clients, s \in Streams : [Stream(c, s)!Next]_(Stream(c, s)!vars)]_vars
  <2> SUFFICES ASSUME IInv, Next, NEW c \in Clients, NEW s \in Streams
               PROVE  [Stream(c, s)!Next]_(Stream(c, s)!vars)
    OBVIOUS
  <2>1. ASSUME NEW r \in Streams, NEW v \in Values, update(r, v)
        PROVE  [Stream(c, s)!Next]_(Stream(c, s)!vars)
    BY <2>1, PromisedByPublish DEF update
  <2>2. ASSUME NEW r \in Catalogs, invalidate(r)
        PROVE  [Stream(c, s)!Next]_(Stream(c, s)!vars)
    BY <2>2, PromisedByPublish, PublicationAssumption DEF invalidate
  <2>3. ASSUME NEW S \in Monitors, monitor_failed(S)
        PROVE  [Stream(c, s)!Next]_(Stream(c, s)!vars)
    BY <2>3, PromisedByPublish, PublicationAssumption DEF monitor_failed
  <2>4. ASSUME NEW d \in Clients, NEW S \in SUBSET Streams, Subscribe(d, S)
        PROVE  [Stream(c, s)!Next]_(Stream(c, s)!vars)
    BY <2>4, PromisedBySubscribe
  <2>5. ASSUME NEW d \in Clients, Leave(d)
        PROVE  [Stream(c, s)!Next]_(Stream(c, s)!vars)
    BY <2>5, PromisedByLeave
  <2>6. ASSUME NEW d \in Clients, Break(d)
        PROVE  [Stream(c, s)!Next]_(Stream(c, s)!vars)
    BY <2>6, PromisedByOthers DEF Break, store, delivery
  <2>7. ASSUME NEW d \in Clients, NEW r \in Streams,
               ReceiveLatest(d, r) \/ ReceiveNext(d, r) \/ ReceiveGap(d, r) \/ EmitFails(d, r)
        PROVE  [Stream(c, s)!Next]_(Stream(c, s)!vars)
    <3>1. UNCHANGED <<pub, from, got, missed>>
      BY <2>7 DEF ReceiveLatest, ReceiveNext, ReceiveGap, EmitFails, Takes, Emitted, store
    <3> QED BY <3>1, PromisedByOthers
  <2>8. ASSUME NEW d \in Clients, NEW r \in Streams, EmitState(d, r) \/ EmitGap(d, r)
        PROVE  [Stream(c, s)!Next]_(Stream(c, s)!vars)
    BY <2>8, PromisedByEmit
  <2> QED BY <2>1, <2>2, <2>3, <2>4, <2>5, <2>6, <2>7, <2>8 DEF Next, Worker
<1> QED BY <1>1, <1>2, PublicationInvariant, PTL DEF Spec, KeepsPromise

-----------------------------------------------------------------------------
(* A failure is sticky *)

\* In the log of a stream nothing looks healthy after a failure.
FailuresStay ==
    \A s \in Streams : \A i, j \in 1..Len(log[s]) :
        i < j /\ ~log[s][i].available => ~log[s][j].available

\* Publishing after a failure publishes the failure.
LEMMA FailuresStayByPublish ==
    ASSUME IInv, FailuresStay, NEW S \in SUBSET Streams, publish(S), failed \subseteq failed'
    PROVE  FailuresStay'
<1> SUFFICES ASSUME NEW s \in Streams, NEW i \in 1..Len(log'[s]), NEW j \in 1..Len(log'[s]),
                    i < j, ~log'[s][i].available
             PROVE  ~log'[s][j].available
  BY DEF FailuresStay
<1>1. /\ log[s] \in Seq(Projection) /\ Len(log[s]) \in Nat /\ Len(log[s]) > 0
      /\ log[s][Len(log[s])] = project(s)
  BY DEF IInv, TypeOK, Numbered
<1>2. CASE s \notin S
  BY <1>2 DEF publish, FailuresStay, IInv, TypeOK
<1>3. CASE s \in S
  <2>0. log'[s] = Append(log[s], project(s)')
    BY <1>3 DEF publish
  <2>1. /\ Len(log'[s]) = Len(log[s]) + 1 /\ log'[s][Len(log[s]) + 1] = project(s)'
        /\ \A k \in 1..Len(log[s]) : log'[s][k] = log[s][k]
    BY <1>1, <2>0
  <2>2. i \in 1..Len(log[s]) /\ ~log[s][i].available
    BY <1>1, <2>1
  <2>3. CASE j \in 1..Len(log[s])
    BY <2>1, <2>2, <2>3 DEF FailuresStay
  <2>4. CASE j = Len(log[s]) + 1
    <3>1. ~project(s).available
      <4>1. CASE i = Len(log[s])
        BY <1>1, <2>2, <4>1
      <4>2. CASE i < Len(log[s])
        BY <1>1, <2>2, <4>2 DEF FailuresStay
      <4> QED BY <1>1, <2>2, <4>1, <4>2
    <3>2. ~project(s)'.available
      BY <3>1 DEF project, healthy
    <3> QED BY <2>1, <2>4, <3>2
  <2> QED BY <1>1, <2>1, <2>3, <2>4
<1> QED BY <1>2, <1>3

\* No other step adds to the log.
LEMMA FailuresStayByNext == IInv /\ FailuresStay /\ [Next]_vars => FailuresStay'
<1> SUFFICES ASSUME IInv, FailuresStay, [Next]_vars PROVE FailuresStay'
  OBVIOUS
<1>1. CASE UNCHANGED log
  BY <1>1 DEF FailuresStay
<1>2. ASSUME NEW s \in Streams, NEW v \in Values, update(s, v) PROVE FailuresStay'
  <2>1. publish({s}) /\ failed \subseteq failed'
    BY <1>2 DEF update
  <2> QED BY <2>1, FailuresStayByPublish
<1>3. ASSUME NEW s \in Catalogs, invalidate(s) PROVE FailuresStay'
  <2>1. publish({s}) /\ failed \subseteq failed' /\ s \in Streams
    BY <1>3, PublicationAssumption DEF invalidate
  <2> QED BY <2>1, FailuresStayByPublish
<1>4. ASSUME NEW S \in Monitors, monitor_failed(S) PROVE FailuresStay'
  <2>1. publish(S) /\ failed \subseteq failed' /\ S \in SUBSET Streams
    BY <1>4, PublicationAssumption DEF monitor_failed
  <2> QED BY <2>1, FailuresStayByPublish
<1>5. ASSUME NEW c \in Clients,
             \/ \E S \in SUBSET Streams : Subscribe(c, S)
             \/ Leave(c) \/ Break(c)
      PROVE  UNCHANGED log
  BY <1>5 DEF Subscribe, Leave, Break, store
<1>6. ASSUME NEW c \in Clients, NEW s \in Streams, Worker(c, s) PROVE UNCHANGED log
  BY <1>6 DEF Worker, ReceiveLatest, ReceiveNext, ReceiveGap, Takes,
              EmitState, EmitGap, EmitFails, Emitted, store
<1>7. CASE UNCHANGED vars
  BY <1>1, <1>7 DEF vars, store
<1> QED BY <1>1, <1>2, <1>3, <1>4, <1>5, <1>6, <1>7 DEF Next

\* A state delivered after one that showed a failure shows it too.
LEMMA StickyDelivery ==
    ASSUME IInv, FailuresStay, NEW c \in Clients, NEW s \in Streams, EmitState(c, s),
           got[c][s] # None, ~got[c][s].available
    PROVE  ~got'[c][s].available
<1>0. /\ got'[c][s] = hand[c][s].state /\ hand[c][s] \in Message /\ hand[c][s] # None
      /\ s \in sub[c] /\ c \notin broken /\ hand[c][s].kind # "gap"
      /\ cursor[c][s] \in Nat /\ missed[c][s] \in Nat /\ Len(log[s]) \in Nat
  BY DEF EmitState, Emitted, IInv, TypeOK
<1>1. Attached(c, s) /\ InStep(c, s)
  BY <1>0 DEF IInv, WorkerOK, Attached
<1>2. /\ Published(got[c][s], s) /\ Published(hand[c][s].state, s)
  BY <1>0, <1>1 DEF Attached
<1>3. hand[c][s].kind = "changed"
  BY <1>0, <1>1 DEF InStep, Message
<1>4. Number(hand[c][s].state.pub) = cursor[c][s] /\ At(c, s) < cursor[c][s]
  BY <1>0, <1>1, <1>3 DEF InStep
<1>5. Number(got[c][s].pub) < Number(hand[c][s].state.pub)
  <2>1. At(c, s) = Number(got[c][s].pub) + missed[c][s] /\ Number(got[c][s].pub) \in Int
    BY <1>2 DEF At, Published
  <2> QED BY <1>0, <1>4, <2>1
<1> QED BY <1>0, <1>2, <1>5 DEF FailuresStay, Published

\* A stream whose monitor stopped never looks healthy again to a subscriber
\* (monitor_failed, and every publication after it).
THEOREM FailureIsSticky == Spec => FailureSticky
<1>1. Init => FailuresStay
  BY DEF Init, FailuresStay
<1>2. IInv /\ FailuresStay /\ [Next]_vars =>
        [\A c \in Clients, s \in Streams :
            got[c][s] # None /\ ~got[c][s].available /\ got'[c][s] # None =>
                ~got'[c][s].available]_vars
  <2> SUFFICES ASSUME IInv, FailuresStay, Next, NEW c \in Clients, NEW s \in Streams,
                      got[c][s] # None, ~got[c][s].available, got'[c][s] # None
               PROVE  ~got'[c][s].available
    OBVIOUS
  <2>0. got \in [Clients -> [Streams -> Projection \cup {None}]]
    BY DEF IInv, TypeOK
  <2>1. CASE got' = got
    BY <2>1
  <2>2. ASSUME NEW d \in Clients, Leave(d) PROVE ~got'[c][s].available
    BY <2>0, <2>2 DEF Leave
  <2>3. ASSUME NEW d \in Clients, NEW r \in Streams, EmitState(d, r)
        PROVE  ~got'[c][s].available
    <3>1. CASE c = d /\ s = r
      BY <2>3, <3>1, StickyDelivery
    <3>2. CASE ~(c = d /\ s = r)
      BY <2>0, <2>3, <3>2 DEF EmitState
    <3> QED BY <3>1, <3>2
  <2>4. ASSUME \/ \E r \in Streams, v \in Values : update(r, v)
               \/ \E r \in Catalogs : invalidate(r)
               \/ \E S \in Monitors : monitor_failed(S)
        PROVE  got' = got
    BY <2>4 DEF update, invalidate, monitor_failed, publish, delivery
  <2>5. ASSUME NEW d \in Clients, (\E S \in SUBSET Streams : Subscribe(d, S)) \/ Break(d)
        PROVE  got' = got
    BY <2>5 DEF Subscribe, Break, delivery
  <2>6. ASSUME NEW d \in Clients, NEW r \in Streams,
               \/ ReceiveLatest(d, r) \/ ReceiveNext(d, r) \/ ReceiveGap(d, r)
               \/ EmitGap(d, r) \/ EmitFails(d, r)
        PROVE  got' = got
    BY <2>6 DEF ReceiveLatest, ReceiveNext, ReceiveGap, Takes, EmitGap, EmitFails
  <2> QED BY <2>1, <2>2, <2>3, <2>4, <2>5, <2>6 DEF Next, Worker
<1> QED BY <1>1, <1>2, FailuresStayByNext, PublicationInvariant, PTL DEF Spec, FailureSticky

-----------------------------------------------------------------------------
(* Lineage *)

\* An epoch names the one before it, in each of its identities.
Successive(p) == p.epoch >= 1 /\ p.previous = p.epoch - 1

Successions ==
    \A s \in Streams :
        Successive(pub[s]) /\ \A i \in 1..Len(log[s]) : Successive(log[s][i].pub)

\* The message in hand is at the worker's cursor and the client is not past it,
\* whether or not its connection still delivers.
Ahead(c, s) ==
    /\ got[c][s] # None => Number(got[c][s].pub) <= cursor[c][s]
    /\ hand[c][s] # None /\ hand[c][s].kind # "gap" => Number(hand[c][s].state.pub) = cursor[c][s]

LineageInv == Successions /\ \A c \in Clients : \A s \in sub[c] : Ahead(c, s)

\* advance names the epoch that it leaves, and keeps the name in later revisions.
LEMMA SuccessiveAdvances ==
    ASSUME NEW p \in Identity, Successive(p)
    PROVE  Successive(advance(p))
  BY DEF Identity, Successive, advance

\* Two identities less than a whole epoch apart are of one epoch or of two that follow
\* one another.
LEMMA NearIsSuccessive ==
    ASSUME NEW p \in Identity, NEW q \in Identity, Successive(p), Successive(q),
           Number(p) <= Number(q), ~(Number(q) - Number(p) > MaxRevision)
    PROVE  q.epoch = p.epoch \/ q.previous = p.epoch
<1>1. /\ MaxRevision \in Nat /\ MaxRevision > 0 /\ p.epoch \in Nat /\ q.epoch \in Nat
      /\ p.revision \in 1..MaxRevision /\ q.revision \in 1..MaxRevision
  BY PublicationAssumption DEF Identity
<1> DEFINE d == q.epoch - p.epoch
<1>2. d \in Int /\ q.epoch = p.epoch + d
  BY <1>1
<1>3. (q.epoch - 1) * MaxRevision = (p.epoch - 1) * MaxRevision + d * MaxRevision
  <2>1. \A a, b, m \in Int : (a + b) * m = a * m + b * m
    OBVIOUS
  <2>2. p.epoch - 1 \in Int /\ q.epoch - 1 = (p.epoch - 1) + d /\ MaxRevision \in Int
    BY <1>1, <1>2
  <2> HIDE DEF d
  <2> QED BY <1>2, <2>1, <2>2
<1> HIDE DEF d
<1>4. Number(q) - Number(p) = d * MaxRevision + (q.revision - p.revision)
  <2>1. (q.epoch - 1) * MaxRevision \in Int /\ (p.epoch - 1) * MaxRevision \in Int
        /\ d * MaxRevision \in Int
    BY <1>1, <1>2
  <2> QED BY <1>1, <1>3, <2>1 DEF Number
<1>5. d * MaxRevision \in Int /\ Number(p) \in Int /\ Number(q) \in Int
  BY <1>1, <1>2, NumberAdvances
<1>6. CASE d < 0
  <2>1. d * MaxRevision <= -MaxRevision
    BY <1>1, <1>2, <1>6
  <2> QED BY <1>1, <1>4, <1>5, <2>1
<1>7. CASE d > 1
  <2>1. d * MaxRevision >= 2 * MaxRevision
    BY <1>1, <1>2, <1>7
  <2> QED BY <1>1, <1>4, <1>5, <2>1
<1>8. CASE d \in {0, 1}
  BY <1>1, <1>2, <1>8 DEF Successive
<1> QED BY <1>2, <1>6, <1>7, <1>8

\* A publication continues the lineage of its stream.
LEMMA SuccessionsByPublish ==
    ASSUME IInv, Successions, NEW S \in SUBSET Streams, publish(S)
    PROVE  Successions'
<1> SUFFICES ASSUME NEW s \in Streams
             PROVE  Successive(pub'[s]) /\ \A i \in 1..Len(log'[s]) : Successive(log'[s][i].pub)
  BY DEF Successions, Successive
<1>0. /\ log[s] \in Seq(Projection) /\ pub[s] \in Identity /\ Successive(pub[s])
      /\ \A i \in 1..Len(log[s]) : Successive(log[s][i].pub)
  BY DEF IInv, TypeOK, Successions
<1>1. CASE s \notin S
  BY <1>0, <1>1 DEF publish
<1>2. CASE s \in S
  <2>1. pub'[s] = advance(pub[s]) /\ log'[s] = Append(log[s], project(s)')
    BY <1>2 DEF publish
  <2>2. Successive(pub'[s]) /\ project(s)'.pub = pub'[s]
    BY <1>0, <2>1, SuccessiveAdvances DEF project
  <2>3. /\ Len(log'[s]) = Len(log[s]) + 1 /\ log'[s][Len(log[s]) + 1] = project(s)'
        /\ \A i \in 1..Len(log[s]) : log'[s][i] = log[s][i]
    BY <1>0, <2>1
  <2>4. ASSUME NEW i \in 1..Len(log'[s]) PROVE Successive(log'[s][i].pub)
    <3>1. i = Len(log[s]) + 1 \/ i \in 1..Len(log[s])
      BY <1>0, <2>3
    <3> QED BY <1>0, <2>2, <2>3, <3>1
  <2> QED BY <2>2, <2>4
<1> QED BY <1>1, <1>2

\* A worker that takes a message takes one at its new cursor.
LEMMA AheadByTakes ==
    ASSUME IInv, NEW c \in Clients, NEW s \in sub[c], NEW position \in Nat, NEW message \in Message,
           s \in Streams, Ahead(c, s), Takes(c, s, position, message), cursor[c][s] <= position,
           message.kind # "gap" => Number(message.state.pub) = position
    PROVE  Ahead(c, s)'
<1>1. cursor'[c][s] = position /\ hand'[c][s] = message /\ got' = got
  BY DEF Takes, IInv, TypeOK
<1>2. got[c][s] # None => Number(got[c][s].pub) <= position
  <2>1. got[c][s] # None => Number(got[c][s].pub) \in Int
    BY NumberAdvances DEF IInv, TypeOK, Projection
  <2>2. cursor[c][s] \in Nat
    BY DEF IInv, TypeOK
  <2> QED BY <2>1, <2>2 DEF Ahead
<1> QED BY <1>1, <1>2 DEF Ahead, Number

LEMMA LineageByNext == IInv /\ LineageInv /\ [Next]_vars => LineageInv'
<1> SUFFICES ASSUME IInv, LineageInv, [Next]_vars PROVE LineageInv'
  OBVIOUS
<1>0. /\ TypeOK /\ Numbered /\ Successions
      /\ \A c \in Clients : sub[c] \subseteq Streams
      /\ \A c \in Clients : \A s \in sub[c] : Ahead(c, s)
  BY DEF IInv, TypeOK, LineageInv
<1>1. UNCHANGED store => Successions'
  BY <1>0 DEF Successions, Successive, store
<1>2. UNCHANGED <<sub, cursor, hand, got>> => \A c \in Clients : \A s \in sub'[c] : Ahead(c, s)'
  BY <1>0 DEF Ahead, Number
<1>3. CASE UNCHANGED vars
  BY <1>1, <1>2, <1>3 DEF vars, store, delivery, LineageInv
<1>4. ASSUME NEW S \in SUBSET Streams, publish(S) PROVE LineageInv'
  BY <1>0, <1>2, <1>4, SuccessionsByPublish DEF publish, delivery, LineageInv
<1>5. ASSUME NEW c \in Clients, NEW S \in SUBSET Streams, Subscribe(c, S) PROVE LineageInv'
  <2>1. /\ sub' = [sub EXCEPT ![c] = S] /\ sub[c] = {}
        /\ \A s \in S : cursor'[c][s] = Len(log[s]) /\ hand'[c][s] = Subscribed(project(s))
        /\ \A d \in Clients \ {c} : cursor'[d] = cursor[d] /\ hand'[d] = hand[d]
        /\ got' = got
    BY <1>0, <1>5 DEF Subscribe, For, TypeOK
  <2>2. ASSUME NEW d \in Clients, NEW s \in sub'[d] PROVE Ahead(d, s)'
    <3>1. CASE d # c
      BY <1>0, <2>1, <2>2, <3>1 DEF Ahead, Number, TypeOK
    <3>2. CASE d = c
      <4>1. s \in S /\ s \in Streams /\ s \notin sub[c]
        BY <1>0, <2>1, <2>2, <3>2 DEF TypeOK
      <4>2. got'[c][s] = None
        BY <2>1, <4>1 DEF IInv, WorkerOK, Away
      <4>3. Number(hand'[c][s].state.pub) = cursor'[c][s]
        <5>1. hand'[c][s].state.pub = pub[s] /\ cursor'[c][s] = Len(log[s])
          <6>1. hand'[c][s] = Subscribed(project(s)) /\ cursor'[c][s] = Len(log[s])
            BY <2>1, <4>1
          <6>2. Subscribed(project(s)).state = project(s) /\ project(s).pub = pub[s]
            BY DEF Subscribed, project
          <6> QED BY <6>1, <6>2
        <5>2. Len(log[s]) = Number(pub[s])
          BY <1>0, <4>1 DEF Numbered
        <5> QED BY <5>1, <5>2
      <4> QED BY <3>2, <4>2, <4>3 DEF Ahead, Number
    <3> QED BY <3>1, <3>2
  <2> QED BY <1>1, <1>5, <2>2 DEF Subscribe, LineageInv
<1>6. ASSUME NEW c \in Clients, Leave(c) PROVE LineageInv'
  <2>1. ASSUME NEW d \in Clients, NEW s \in sub'[d] PROVE Ahead(d, s)'
    <3>1. d # c
      BY <1>0, <1>6, <2>1 DEF Leave, TypeOK
    <3> QED BY <1>0, <1>6, <2>1, <3>1 DEF Leave, TypeOK, Ahead, Number
  <2> QED BY <1>1, <1>6, <2>1 DEF Leave, LineageInv
<1>7. ASSUME NEW c \in Clients, Break(c) PROVE LineageInv'
  BY <1>1, <1>2, <1>7 DEF Break, delivery, LineageInv
<1>8. ASSUME NEW c \in Clients, NEW s \in Streams, Worker(c, s) PROVE LineageInv'
  <2>0. /\ UNCHANGED <<store, sub>> /\ s \in sub[c] /\ Ahead(c, s)
        /\ \A d \in Clients, r \in Streams : <<d, r>> # <<c, s>> =>
              hand'[d][r] = hand[d][r] /\ got'[d][r] = got[d][r] /\ cursor'[d][r] = cursor[d][r]
    <3>1. UNCHANGED <<store, sub>> /\ s \in sub[c]
      BY <1>8 DEF Worker, ReceiveLatest, ReceiveNext, ReceiveGap, Takes, Idle, EmitState, EmitGap, EmitFails, Emitted
    <3>2. CASE ReceiveLatest(c, s) \/ ReceiveNext(c, s) \/ ReceiveGap(c, s)
      BY <1>0, <3>1, <3>2, SMTT(30) DEF ReceiveLatest, ReceiveNext, ReceiveGap, Takes, TypeOK
    <3>3. CASE EmitState(c, s) \/ EmitGap(c, s) \/ EmitFails(c, s)
      BY <1>0, <3>1, <3>3, SMTT(30) DEF EmitState, EmitGap, EmitFails, Emitted, TypeOK
    <3> QED BY <1>8, <3>2, <3>3 DEF Worker
  <2>1. /\ log[s] \in Seq(Projection) /\ Len(log[s]) \in Nat /\ cursor[c][s] \in Nat
        /\ \A i \in 1..Len(log[s]) : log[s][i] \in Projection /\ Number(log[s][i].pub) = i
    BY <1>0 DEF TypeOK, Numbered
  <2>2. \A i \in 1..Len(log[s]) : Changed(log[s][i]) \in Message /\ Changed(log[s][i]).state = log[s][i]
    BY <2>1 DEF Changed, Message
  <2>3. ASSUME ReceiveLatest(c, s) PROVE Ahead(c, s)'
    BY <2>0, <2>1, <2>2, <2>3, AheadByTakes DEF ReceiveLatest
  <2>4. ASSUME ReceiveNext(c, s) PROVE Ahead(c, s)'
    <3>1. cursor[c][s] + 1 \in 1..Len(log[s])
          /\ Takes(c, s, cursor[c][s] + 1, Changed(log[s][cursor[c][s] + 1]))
      BY <2>1, <2>4 DEF ReceiveNext
    <3> QED BY <2>0, <2>1, <2>2, <3>1, AheadByTakes
  <2>5. ASSUME ReceiveGap(c, s) PROVE Ahead(c, s)'
    <3>1. Dropped(s) \in Nat /\ Dropped(s) - cursor[c][s] \in Nat /\ cursor[c][s] <= Dropped(s)
      BY <2>1, <2>5, PublicationAssumption, SMTT(30) DEF ReceiveGap, Dropped
    <3>2. Lagged(Dropped(s) - cursor[c][s]) \in Message /\ Lagged(Dropped(s) - cursor[c][s]).kind = "gap"
      BY <3>1 DEF Lagged, Message
    <3> QED BY <2>0, <2>5, <3>1, <3>2, AheadByTakes DEF ReceiveGap
  <2>6. ASSUME EmitState(c, s) \/ EmitGap(c, s) \/ EmitFails(c, s) PROVE Ahead(c, s)'
    <3>1. hand'[c][s] = None /\ cursor' = cursor /\ hand[c][s] # None
      BY <1>0, <2>6 DEF EmitState, EmitGap, EmitFails, Emitted, TypeOK
    <3>2. got'[c][s] = got[c][s] \/ (hand[c][s].kind # "gap" /\ got'[c][s] = hand[c][s].state)
      BY <1>0, <2>6 DEF EmitState, EmitGap, EmitFails, TypeOK
    <3>3. Ahead(c, s)
      BY <2>0
    <3> QED BY <2>1, <3>1, <3>2, <3>3 DEF Ahead, Number
  <2>7. Ahead(c, s)'
    BY <1>8, <2>3, <2>4, <2>5, <2>6 DEF Worker
  <2>8. ASSUME NEW d \in Clients, NEW r \in sub'[d] PROVE Ahead(d, r)'
    BY <1>0, <2>0, <2>7, <2>8 DEF Ahead, Number
  <2> QED BY <1>1, <2>0, <2>8 DEF LineageInv
<1>9. ASSUME NEW s \in Catalogs PROVE s \in Streams
  BY PublicationAssumption
<1> QED
  BY <1>3, <1>4, <1>5, <1>6, <1>7, <1>8, <1>9, PublicationAssumption
  DEF Next, update, invalidate, monitor_failed

\* A client that meets another epoch is told that it continues the one it has, unless
\* it has missed a whole epoch, for every revision limit and however much its channel
\* coalesced or its worker dropped (Publication::advance keeps `previous`).
THEOREM LineageIsKept == Spec => []LineageKept
<1>1. Init => LineageInv
  <2> SUFFICES ASSUME Init PROVE LineageInv
    OBVIOUS
  <2>1. Successive(FirstIdentity)
    BY DEF Successive, FirstIdentity
  <2>2. \A s \in Streams : pub[s] = FirstIdentity /\ Len(log[s]) = 1 /\ log[s][1].pub = FirstIdentity
    BY DEF Init, project
  <2> QED BY <2>1, <2>2 DEF LineageInv, Successions, Init
<1>2. ASSUME IInv, LineageInv PROVE LineageKept
  <2> SUFFICES ASSUME NEW c \in Clients, NEW s \in Streams,
                      got[c][s] # None, hand[c][s] # None, hand[c][s].kind # "gap",
                      ~(Number(hand[c][s].state.pub) - Number(got[c][s].pub) > MaxRevision)
               PROVE  \/ hand[c][s].state.pub.epoch = got[c][s].pub.epoch
                      \/ hand[c][s].state.pub.previous = got[c][s].pub.epoch
    BY DEF LineageKept
  <2>1. s \in sub[c] /\ Published(got[c][s], s) /\ Published(hand[c][s].state, s)
    BY <1>2 DEF IInv, WorkerOK, Away, Attached
  <2>2. Ahead(c, s) /\ Successions
    BY <1>2, <2>1 DEF LineageInv
  <2>3. /\ got[c][s].pub \in Identity /\ hand[c][s].state.pub \in Identity
        /\ Successive(got[c][s].pub) /\ Successive(hand[c][s].state.pub)
    BY <2>1, <2>2 DEF Published, Projection, Successions
  <2>4. Number(got[c][s].pub) <= Number(hand[c][s].state.pub)
    BY <2>2 DEF Ahead
  <2> QED BY <2>3, <2>4, NearIsSuccessive
<1> QED BY <1>1, <1>2, LineageByNext, PublicationInvariant, PTL DEF Spec
=============================================================================
