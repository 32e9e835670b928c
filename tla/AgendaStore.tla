---------------------------- MODULE AgendaStore ----------------------------
(***************************************************************************)
(* The agenda: one embedded database owned by one worker thread, and the   *)
(* service in front of it (src/src/activity/agenda_store/,                 *)
(* src/src/activity/agenda_service.rs, src/src/agenda_maintenance.rs).     *)
(*                                                                         *)
(* Every mutation carries a request id.  Its effect, the new catalog       *)
(* revision and a receipt are committed in one transaction; the service    *)
(* then brings its cached snapshot up to date and answers.  A COMMIT that  *)
(* reports an error may or may not be durable, a ROLLBACK may fail, the    *)
(* daemon may die between any two steps, and clients resend what they are  *)
(* unsure about.  Legacy todos are adopted once; stores are exported and   *)
(* restored offline.                                                       *)
(***************************************************************************)
EXTENDS Naturals, FiniteSets

CONSTANTS
    Requests,       \* request ids clients use; a created item's id derives from it
    MaxRevision,    \* bound on catalog revisions
    MaxImports,     \* bound on accepted calendar imports
    MaxFaults       \* bound on failures, crashes, restores and edits of the legacy file

VARIABLES
    db,             \* the committed content of agenda.db
    txn,            \* the open transaction's view of it, or None
    owner,          \* the worker: down, migrating, up, or failed to open
    blocked,        \* Database.blocked: writes are fenced until a reopen
    legacy,         \* content of the legacy todos.json
    backups,        \* legacy contents saved beside the database
    exported,       \* a logical export, or None
    op,             \* the holder of todo_guard, or None
    cache,          \* agenda_snapshot: items and catalog revision, or None
    imports,        \* events_by_source (a version) and import_revision
    catalog,        \* the cached list projection with its key, or None
    told,           \* newest catalog revision a client heard of from this daemon
    acked,          \* requests a client was told have succeeded
    faults

agendaVars == <<db, txn, owner, blocked, legacy, backups, exported, op, cache,
                imports, catalog, told, acked, faults>>

None == [none |-> TRUE]
Legacy == "legacy"
Ids == Requests \union {Legacy}
Mutations ==
    [request : Requests, kind : {"create"}, expected : {0}, id : {Legacy}]
      \union [request : Requests, kind : {"patch", "delete"}, expected : 1 .. 2, id : Ids]
Contents == {"A", "B"}

\* The item a mutation is about: a created item is named after its request.
Target(m) == IF m.kind = "create" THEN m.request ELSE m.id

Empty == [items |-> [i \in Ids |-> 0], revision |-> 0,
          receipts |-> [q \in Requests |-> None], migrated |-> "never"]

-----------------------------------------------------------------------------
(* The database. *)

\* What the connection reads: its own open transaction, if there is one.
View == IF txn = None THEN db ELSE txn

\* ensure_committed_reads: a failed rollback leaves the owner inside its own
\* transaction, whose content is no durable outcome.
ensure_committed_reads == ~blocked \/ txn = None

\* create_item, patch_item and delete_item: the optimistic revision check.
Applicable(m, s) ==
    IF m.kind = "create" THEN s.items[m.request] = 0
    ELSE s.items[m.id] # 0 /\ s.items[m.id] = m.expected

\* create_record and patch_record: an item is known by its revision, and each
\* change of it by the next one.
create_record == 1
patch_record(record) == record + 1

\* apply: the effect, the catalog revision and the receipt, in one transaction.
apply(m, s) ==
    [s EXCEPT !.items[Target(m)] = CASE m.kind = "create" -> create_record
                                     [] m.kind = "patch" -> patch_record(@)
                                     [] m.kind = "delete" -> 0,
              !.revision = @ + 1,
              !.receipts[m.request] =
                  [mutation |-> m, revision |-> s.revision + 1,
                   item |-> IF m.kind = "delete" THEN 0 ELSE s.items[Target(m)] + 1]]

invalidate_catalog(s) == [s EXCEPT !.revision = @ + 1]

\* migrate_legacy: adopt the todos and record the fingerprint of their file.
adopt(s) ==
    IF legacy = "missing" THEN [s EXCEPT !.migrated = legacy]
    ELSE [s EXCEPT !.migrated = legacy, !.items[Legacy] = 1, !.revision = @ + 1]

Fault(n) == faults + n =< MaxFaults /\ faults' = faults + n

\* Mutant: a commit whose outcome is unknown does not fence later writes.
MutFinish(done) ==
    \/ done /\ db' = txn /\ txn' = None /\ UNCHANGED <<blocked, faults>>
    \/ ~done /\ Fault(1) /\ txn' = None /\ UNCHANGED blocked /\ db' \in {db, txn}
\* finish: COMMIT, or on an error ROLLBACK.  `done' says whether the caller
\* sees success; an error after COMMIT began fences later writes.
finish(done) ==
    \/ done /\ db' = txn /\ txn' = None /\ UNCHANGED <<blocked, faults>>
    \/ /\ ~done /\ Fault(1)
       /\ \/ txn' = None /\ UNCHANGED <<db, blocked>>              \* apply failed, rolled back
          \/ db' = txn /\ txn' = None /\ blocked' = TRUE           \* durable all the same
          \/ txn' = None /\ blocked' = TRUE /\ UNCHANGED db        \* lost
          \/ blocked' = TRUE /\ UNCHANGED <<db, txn>>              \* rollback failed too

-----------------------------------------------------------------------------
(* Opening, adopting the legacy todos, and going down. *)

Snapshot(s) == [items |-> s.items, revision |-> s.revision]

opened == /\ owner' = "up"
          /\ blocked' = FALSE

\* Database::open up to the migration: an adopted file may be gone, not changed.
\* The backup is on disk before the adopting transaction begins.
open_agenda ==
    /\ owner \in {"down", "failed"} /\ op = None
    /\ \/ /\ db.migrated # "never" /\ legacy \in {"missing", db.migrated}
          /\ opened /\ cache' = Snapshot(db) /\ UNCHANGED <<txn, backups>>
       \/ /\ db.migrated # "never" /\ legacy \notin {"missing", db.migrated}
          /\ owner' = "failed" /\ UNCHANGED <<txn, blocked, cache, backups>>
       \/ /\ db.migrated = "never"
          /\ backups' = backups \union ({legacy} \ {"missing"})
          /\ txn' = adopt(db) /\ owner' = "migrating" /\ UNCHANGED <<blocked, cache>>
    /\ UNCHANGED <<db, legacy, exported, op, imports, catalog, told, acked, faults>>

\* The end of open: a failed adoption drops the connection and its transaction.
migrate_legacy ==
    /\ owner = "migrating"
    /\ \/ /\ db' = txn /\ opened /\ cache' = Snapshot(txn) /\ UNCHANGED faults
       \/ /\ Fault(1) /\ db' \in {db, txn} /\ owner' = "failed" /\ UNCHANGED <<blocked, cache>>
    /\ txn' = None
    /\ UNCHANGED <<legacy, backups, exported, op, imports, catalog, told, acked>>

Down ==
    /\ owner' = "down" /\ txn' = None /\ blocked' = FALSE /\ op' = None /\ cache' = None
    /\ imports' = [events |-> 0, revision |-> 0] /\ catalog' = None /\ told' = 0

\* The worker drains its queue, checkpoints and releases the ownership lock.
Drained == owner \in {"up", "failed"} /\ op = None
\* shutdown: todo_guard is free.
shutdown ==
    /\ Drained /\ Fault(1) /\ Down
    /\ UNCHANGED <<db, legacy, backups, exported, acked>>

Crash ==
    /\ owner # "down" /\ Fault(1) /\ Down
    /\ UNCHANGED <<db, legacy, backups, exported, acked>>

-----------------------------------------------------------------------------
(* The service.  todo_guard is held from the call to the accepted result. *)

agenda_mutation(m) ==
    /\ owner = "up" /\ op = None
    /\ ensure_committed_reads
    /\ op' = [kind |-> "mutate", mutation |-> m, step |-> "begin"]
    /\ UNCHANGED <<db, txn, owner, blocked, legacy, backups, exported, cache, imports,
                   catalog, told, acked, faults>>

\* accept_calendar_imports: equal imports write nothing.
accept_calendar_imports(v) ==
    /\ owner = "up" /\ op = None /\ ~blocked
    /\ v # imports.events /\ imports.revision < MaxImports /\ db.revision < MaxRevision
    /\ op' = [kind |-> "import", events |-> v, step |-> "commit"]
    /\ txn' = invalidate_catalog(db)
    /\ UNCHANGED <<db, owner, blocked, legacy, backups, exported, cache, imports,
                   catalog, told, acked, faults>>

\* Mutant: a known request is applied again.
MutKnown(m) == FALSE
\* mutate: a known request is answered by its receipt and never applied again.
Known(m) == View.receipts[m.request] # None

mutate ==
    /\ op # None /\ op.step = "begin"
    /\ LET m == op.mutation IN
       IF blocked THEN op' = None /\ UNCHANGED txn
       ELSE IF Known(m)
         THEN /\ op' = IF db.receipts[m.request].mutation = m
                       THEN [op EXCEPT !.step = "accept"] ELSE None
              /\ UNCHANGED txn
       ELSE IF Applicable(m, db)
         THEN /\ db.revision < MaxRevision
              /\ txn' = apply(m, db) /\ op' = [op EXCEPT !.step = "commit"]
       ELSE op' = None /\ UNCHANGED txn
    /\ UNCHANGED <<db, owner, blocked, legacy, backups, exported, cache, imports,
                   catalog, told, acked, faults>>

commit ==
    /\ op # None /\ op.step = "commit"
    /\ \/ finish(TRUE) /\ op' = [op EXCEPT !.step = "accept"]
       \/ finish(FALSE) /\ op' = None
    /\ UNCHANGED <<owner, legacy, backups, exported, cache, imports, catalog, told, acked>>

\* apply_agenda_result: a contiguous delta is applied, an old receipt ignored.
apply_agenda_result(c, m, r) ==
    IF r.revision =< c.revision THEN c
    ELSE [items |-> [c.items EXCEPT ![Target(m)] = r.item], revision |-> r.revision]

accept_agenda ==
    /\ op # None /\ op.step = "accept" /\ op.kind = "mutate"
    /\ LET m == op.mutation
           r == db.receipts[m.request]
       IN /\ cache' = IF r.revision > cache.revision + 1 THEN Snapshot(db)
                      ELSE apply_agenda_result(cache, m, r)
          /\ told' = IF r.revision > told THEN r.revision ELSE told
          /\ acked' = acked \union {m.request}
    /\ op' = None
    /\ UNCHANGED <<db, txn, owner, blocked, legacy, backups, exported, imports, catalog, faults>>

import_accepted ==
    /\ op # None /\ op.step = "accept" /\ op.kind = "import"
    /\ cache' = [cache EXCEPT !.revision = db.revision]
    /\ imports' = [events |-> op.events, revision |-> imports.revision + 1]
    /\ op' = None
    /\ UNCHANGED <<db, txn, owner, blocked, legacy, backups, exported, catalog, told, acked, faults>>

\* Mutant: an answered request leaves the cache alone.
MutReconciled(r) == cache
\* agenda_receipt: resolving an uncertain request also reconciles the cache.
Reconciled(r) == IF r.revision > cache.revision THEN Snapshot(View) ELSE cache
agenda_receipt(q) ==
    /\ owner = "up" /\ op = None /\ ensure_committed_reads
    /\ View.receipts[q] # None
    /\ LET r == View.receipts[q] IN
       /\ cache' = Reconciled(r)
       /\ told' = IF r.revision > told THEN r.revision ELSE told
       /\ acked' = acked \union {q}
    /\ UNCHANGED <<db, txn, owner, blocked, legacy, backups, exported, op, imports, catalog, faults>>

\* cached_catalog: the projection is rebuilt when its key differs.
Key == [revision |-> cache.revision, imports |-> imports.revision]
cached_catalog ==
    /\ owner = "up"
    /\ catalog # None => catalog.key # Key
    /\ catalog' = [key |-> Key, items |-> cache.items, events |-> imports.events]
    /\ UNCHANGED <<db, txn, owner, blocked, legacy, backups, exported, op, cache, imports,
                   told, acked, faults>>

-----------------------------------------------------------------------------
(* Offline maintenance and the legacy file's own life. *)

\* export needs the ownership lock and never overwrites a file.
Exported == db
export ==
    /\ owner = "down" /\ exported = None
    /\ exported' = Exported
    /\ UNCHANGED <<db, txn, owner, blocked, legacy, backups, op, cache, imports, catalog,
                   told, acked, faults>>

\* restore fills a new, empty store in one transaction; the operator then
\* puts it in the place of the lost one.
restore ==
    /\ owner = "down" /\ exported # None /\ Fault(1)
    /\ db' = exported
    /\ acked' = {q \in acked : exported.receipts[q] # None}
    /\ UNCHANGED <<txn, owner, blocked, legacy, backups, exported, op, cache, imports,
                   catalog, told>>

\* The old file is edited while no daemon has it.
EditLegacy(c) ==
    /\ c # legacy /\ owner = "down"
    /\ legacy' = c
    /\ UNCHANGED <<db, txn, owner, blocked, backups, exported, op, cache, imports, catalog,
                   told, acked, faults>>

AgendaInit ==
    /\ db = Empty /\ txn = None /\ owner = "down" /\ blocked = FALSE
    /\ legacy \in {"missing", "A"} /\ backups = {} /\ exported = None
    /\ op = None /\ cache = None /\ imports = [events |-> 0, revision |-> 0]
    /\ catalog = None /\ told = 0 /\ acked = {} /\ faults = 0

AgendaNext ==
    \/ open_agenda \/ migrate_legacy \/ shutdown \/ Crash
    \/ \E m \in Mutations : agenda_mutation(m)
    \/ \E v \in 0 .. MaxImports : accept_calendar_imports(v)
    \/ mutate \/ commit \/ accept_agenda \/ import_accepted
    \/ \E q \in Requests : agenda_receipt(q)
    \/ cached_catalog \/ export \/ restore
    \/ \E c \in {"missing"} \union Contents : EditLegacy(c)

AgendaSpec == AgendaInit /\ [][AgendaNext]_agendaVars

-----------------------------------------------------------------------------
(* Properties. *)

\* The durable receipts for changes of a kind to an item, and whether the item was
\* ever made.
Of(s, kind, i) == {q \in Requests : /\ s.receipts[q] # None /\ s.receipts[q].mutation.kind = kind
                                   /\ Target(s.receipts[q].mutation) = i}
Made(s, i) == Of(s, "create", i) # {} \/ (i = Legacy /\ s.migrated \in Contents)
Effects(s) ==
    \A i \in Ids : s.items[i] = IF Made(s, i) /\ Of(s, "delete", i) = {}
                               THEN 1 + Cardinality(Of(s, "patch", i)) ELSE 0
\* Whatever was resent, lost, rolled back, crashed or restored, the durable
\* items are exactly what the durable receipts and the one adoption say: no
\* request took effect twice, none left an effect without its receipt.
EffectsMatchReceipts == Effects(db)

PatchesDiffer(s) ==
    \A q, r \in Requests :
        LET a == s.receipts[q]
            b == s.receipts[r]
        IN (a # None /\ a.mutation.kind = "patch") =>
             /\ a.item = a.mutation.expected + 1
             /\ (q # r /\ b # None /\ b.mutation.kind = "patch" /\ b.mutation.id = a.mutation.id)
                  => b.mutation.expected # a.mutation.expected
\* A patch changed the revision its client had seen, and only one patch did.
NoLostUpdate == PatchesDiffer(db)

\* A success a client was told of, directly or by receipt, survives every crash.
AckedDurable == \A q \in acked : db.receipts[q] # None

\* A daemon that told a client of a revision shows at least that revision, and a
\* cache at the store's revision holds the store's items.
CacheFaithful ==
    cache # None =>
        /\ told =< cache.revision
        /\ cache.revision =< db.revision
        /\ cache.revision = db.revision => cache.items = db.items

\* A list served without a rebuild is the list a rebuild would give.
ListCurrent ==
    (catalog # None /\ cache # None /\ catalog.key = Key)
        => catalog.items = cache.items /\ catalog.events = imports.events

\* Adopted legacy todos were saved beside the database before they were adopted.
BackedUp == db.migrated \in Contents => db.migrated \in backups

AgendaSafe ==
    /\ EffectsMatchReceipts /\ NoLostUpdate /\ AckedDurable
    /\ CacheFaithful /\ ListCurrent /\ BackedUp

(* What the proofs ask of the constants: no request has the name of the adopted
   item, and there are finitely many. *)
AgendaConstantsOK == Legacy \notin Requests /\ IsFiniteSet(Requests) /\ MaxImports \in Nat

(* The inductive invariant: shapes; every store (committed, in a transaction or
   exported) obeys its own rules; what an open transaction holds; what the cache
   knows of the store at each step of the holder of todo_guard. *)
Receipts == [mutation : Mutations, revision : Nat, item : Nat]
StoreShapes == [items : [Ids -> Nat], revision : Nat, receipts : [Requests -> {None} \union Receipts],
                migrated : {"never", "missing"} \union Contents]
Ops == {None} \union [kind : {"mutate"}, mutation : Mutations, step : {"begin", "commit", "accept"}]
              \union [kind : {"import"}, events : Nat, step : {"commit", "accept"}]
Caches == [items : [Ids -> Nat], revision : Nat]
Lists == [key : [revision : Nat, imports : Nat], items : [Ids -> Nat], events : Nat]

AgendaShapes ==
    /\ db \in StoreShapes /\ txn \in {None} \union StoreShapes /\ exported \in {None} \union StoreShapes
    /\ owner \in {"down", "migrating", "up", "failed"} /\ blocked \in BOOLEAN
    /\ legacy \in {"missing"} \union Contents /\ op \in Ops /\ cache \in {None} \union Caches
    /\ imports \in [events : Nat, revision : Nat] /\ catalog \in {None} \union Lists
    /\ told \in Nat /\ acked \subseteq Requests /\ faults \in Nat
Backups == backups \subseteq Contents

\* Every variable keeps the shape its code gives it, and only an owner has a cache.
AgendaTypeOK == AgendaShapes /\ Backups /\ (cache # None) = (owner = "up")

\* The rules of a store beyond the properties: a receipt is filed under its request
\* and not dated ahead of the catalog, only what was made was changed, and a patch
\* saw a revision that the patches so far have passed.
Sound(s) ==
    /\ Effects(s) /\ PatchesDiffer(s)
    /\ \A q \in Requests : s.receipts[q] # None =>
          LET m == s.receipts[q].mutation IN
          /\ m.request = q /\ s.receipts[q].revision =< s.revision
          /\ m.kind # "create" => Made(s, Target(m))
          /\ m.kind = "patch" => m.expected =< Cardinality(Of(s, "patch", m.id))
Saved(s) == s.migrated \in Contents => s.migrated \in backups

Committing == op # None /\ op.step = "commit"
Accepting == op # None /\ op.step = "accept"
TxnInv ==
    /\ txn # None => \/ owner = "migrating" \/ (owner = "up" /\ (blocked \/ Committing))
    /\ txn # None => \A q \in Requests : db.receipts[q] # None => txn.receipts[q] = db.receipts[q]
    /\ op # None => owner = "up"
    /\ op # None /\ op.step # "begin" => ~blocked
    /\ owner = "migrating" => txn = adopt(db) /\ db.migrated = "never"
    /\ Committing => txn = IF op.kind = "mutate" THEN apply(op.mutation, db) ELSE invalidate_catalog(db)
    /\ Committing /\ op.kind = "mutate" => /\ db.receipts[op.mutation.request] = None
                                          /\ Applicable(op.mutation, db)

StoresInv ==
    /\ Sound(db) /\ (txn # None => Sound(txn)) /\ (exported # None => Sound(exported))
    /\ Saved(db) /\ (txn # None => Saved(txn)) /\ (exported # None => Saved(exported))

\* Outside the acceptance of a result the cache is the store, unless a commit is in
\* doubt; during it the cache lacks at most the change that is being accepted.
CacheInv ==
    /\ (cache # None) = (owner = "up") /\ (cache = None => catalog = None /\ told = 0)
    /\ CacheFaithful
    /\ owner = "up" /\ ~blocked /\ ~Accepting => cache = Snapshot(db)
    /\ Accepting /\ op.kind = "mutate" =>
          LET r == db.receipts[op.mutation.request] IN
          /\ r # None /\ r.mutation = op.mutation
          /\ \/ cache = Snapshot(db)
             \/ /\ r.revision = db.revision /\ db.revision = cache.revision + 1
                /\ db.items = [cache.items EXCEPT ![Target(op.mutation)] = r.item]
    /\ Accepting /\ op.kind = "import" => cache.items = db.items /\ db.revision = cache.revision + 1

CatalogInv ==
    catalog # None =>
        /\ catalog.key.revision =< cache.revision /\ catalog.key.imports =< imports.revision
        /\ catalog.key.revision = cache.revision => catalog.items = cache.items
        /\ catalog.key.imports = imports.revision => catalog.events = imports.events

AgendaIInv == AgendaShapes /\ TxnInv /\ StoresInv /\ CacheInv /\ CatalogInv /\ AckedDurable
=============================================================================
