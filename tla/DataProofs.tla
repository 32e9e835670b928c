----------------------------- MODULE DataProofs -----------------------------
(* The services that keep the user's data, and those behind the sound and the  *)
(* players, are safe, for every number of clients, items, runs, requests,      *)
(* players, failures and restarts: the agenda and its store, the activity      *)
(* feed, the outcomes of updates, audio control and the players' view.  The    *)
(* sections are laid out as those of MachineProofs.                            *)
EXTENDS DataServices, SoundServices, FiniteSetTheorems, SequenceTheorems, WellFoundedInduction, TLAPS

-----------------------------------------------------------------------------
(* The agenda and its store (AgendaStore).                                    *)

\* The variables of AgendaStore.
db == r1
txn == r2
owner == r3
writesBlocked == r4
legacy == r5
backups == r6
exported == r7
agendaOp == r8
cache == r9
imports == r10
servedList == r11
told == r12
acked == r13
agendaSpent == r14
USE DEF db, txn, owner, writesBlocked, legacy, backups, exported, agendaOp, cache, imports, servedList, told, acked, agendaSpent

\* The agenda counts its receipts as the standard module does.
LEMMA AgendaCounts == \A S : (Agenda!IsFiniteSet(S) <=> IsFiniteSet(S)) /\ Agenda!Cardinality(S) = Cardinality(S)
BY DEF Agenda!IsFiniteSet, IsFiniteSet, Agenda!Cardinality, Cardinality

\* Nothing is no store, receipt, cache, list or operation.
LEMMA AgendaNoneApart ==
  /\ Agenda!None \notin Agenda!StoreShapes /\ Agenda!None \notin Agenda!Receipts /\ Agenda!None \notin Agenda!Caches /\ Agenda!None \notin Agenda!Lists
  /\ \A o \in Agenda!Ops : o # Agenda!None => /\ o.kind \in {"mutate", "import"} /\ o.step \in {"begin", "commit", "accept"}
                                              /\ o.kind = "mutate" => o.mutation \in Agenda!Mutations
                                              /\ o.kind = "import" => o.events \in Nat /\ o.step # "begin"
<1>1. DOMAIN Agenda!None = {"none"}
  BY DEF Agenda!None
<1>2. ASSUME NEW s \in Agenda!StoreShapes PROVE s # Agenda!None
  <2>1. "items" \in DOMAIN s
    BY DEF Agenda!StoreShapes
  <2> QED
    BY <1>1, <2>1
<1>3. ASSUME NEW s \in Agenda!Receipts PROVE s # Agenda!None
  <2>1. "mutation" \in DOMAIN s
    BY DEF Agenda!Receipts
  <2> QED
    BY <1>1, <2>1
<1>4. ASSUME NEW s \in Agenda!Caches PROVE s # Agenda!None
  <2>1. "items" \in DOMAIN s
    BY DEF Agenda!Caches
  <2> QED
    BY <1>1, <2>1
<1>5. ASSUME NEW s \in Agenda!Lists PROVE s # Agenda!None
  <2>1. "items" \in DOMAIN s
    BY DEF Agenda!Lists
  <2> QED
    BY <1>1, <2>1
<1>6. ASSUME NEW o \in Agenda!Ops, o # Agenda!None
      PROVE  /\ o.kind \in {"mutate", "import"} /\ o.step \in {"begin", "commit", "accept"}
             /\ o.kind = "mutate" => o.mutation \in Agenda!Mutations
             /\ o.kind = "import" => o.events \in Nat /\ o.step # "begin"
  BY <1>6 DEF Agenda!Ops
<1> QED
  BY <1>2, <1>3, <1>4, <1>5, <1>6

LEMMA AgendaStoreTyped ==
  ASSUME NEW s \in Agenda!StoreShapes
  PROVE  /\ s.items \in [Agenda!Ids -> Nat] /\ s.revision \in Nat
         /\ s.receipts \in [Requests -> {Agenda!None} \union Agenda!Receipts]
         /\ s.migrated \in {"never", "missing"} \union Agenda!Contents
BY DEF Agenda!StoreShapes

LEMMA AgendaMutationTyped ==
  ASSUME NEW m \in Agenda!Mutations
  PROVE  /\ m.request \in Requests /\ m.kind \in {"create", "patch", "delete"} /\ m.expected \in Nat
         /\ m.id \in Agenda!Ids /\ Agenda!Target(m) \in Agenda!Ids
         /\ m.kind = "create" => Agenda!Target(m) = m.request
         /\ m.kind # "create" => Agenda!Target(m) = m.id
BY DEF Agenda!Mutations, Agenda!Target, Agenda!Ids

\* The receipts for an item are finitely many.
LEMMA AgendaOfFinite ==
  ASSUME Agenda!AgendaConstantsOK, NEW s \in Agenda!StoreShapes, NEW kind, NEW i
  PROVE  IsFiniteSet(Agenda!Of(s, kind, i)) /\ Cardinality(Agenda!Of(s, kind, i)) \in Nat
<1>1. Agenda!Of(s, kind, i) \subseteq Requests /\ IsFiniteSet(Requests)
  BY AgendaCounts DEF Agenda!Of, Agenda!AgendaConstantsOK
<1>2. IsFiniteSet(Agenda!Of(s, kind, i))
  BY <1>1, FS_Subset
<1> QED
  BY <1>2, FS_CardinalityType

\* What a mutation makes of a store to which it is applicable.
LEMMA AgendaApplied ==
  ASSUME NEW s \in Agenda!StoreShapes, NEW m \in Agenda!Mutations, Agenda!Applicable(m, s)
  PROVE  LET n == Agenda!apply(m, s)
             item == IF m.kind = "delete" THEN 0 ELSE s.items[Agenda!Target(m)] + 1
             receipt == [mutation |-> m, revision |-> s.revision + 1, item |-> item]
         IN /\ n \in Agenda!StoreShapes /\ receipt \in Agenda!Receipts
            /\ n.items = [s.items EXCEPT ![Agenda!Target(m)] = item]
            /\ n.revision = s.revision + 1
            /\ n.receipts = [s.receipts EXCEPT ![m.request] = receipt]
            /\ n.migrated = s.migrated
<1> DEFINE item == IF m.kind = "delete" THEN 0 ELSE s.items[Agenda!Target(m)] + 1
           receipt == [mutation |-> m, revision |-> s.revision + 1, item |-> item]
           made == CASE m.kind = "create" -> Agenda!create_record
                     [] m.kind = "patch" -> Agenda!patch_record(s.items[Agenda!Target(m)])
                     [] m.kind = "delete" -> 0
<1>1. s.items[Agenda!Target(m)] \in Nat /\ Agenda!Target(m) \in Agenda!Ids /\ m.request \in Requests
      /\ m.kind \in {"create", "patch", "delete"}
  BY AgendaMutationTyped, AgendaStoreTyped
<1>2. made = item /\ item \in Nat
  BY <1>1, AgendaMutationTyped DEF Agenda!create_record, Agenda!patch_record, Agenda!Applicable
<1>3. receipt \in Agenda!Receipts
  BY <1>2, AgendaStoreTyped DEF Agenda!Receipts
<1>4. Agenda!apply(m, s) = [s EXCEPT !.items = [s.items EXCEPT ![Agenda!Target(m)] = made],
                              !.revision = s.revision + 1,
                              !.receipts = [s.receipts EXCEPT ![m.request] = receipt]]
  BY <1>1, AgendaStoreTyped DEF Agenda!apply, Agenda!StoreShapes
<1> HIDE DEF item, receipt, made
<1>5. [s.items EXCEPT ![Agenda!Target(m)] = made] \in [Agenda!Ids -> Nat] /\ s.revision + 1 \in Nat
      /\ [s.receipts EXCEPT ![m.request] = receipt] \in [Requests -> {Agenda!None} \union Agenda!Receipts]
  BY <1>1, <1>2, <1>3, AgendaStoreTyped
<1>6. /\ Agenda!apply(m, s) \in Agenda!StoreShapes
      /\ Agenda!apply(m, s).items = [s.items EXCEPT ![Agenda!Target(m)] = item]
      /\ Agenda!apply(m, s).revision = s.revision + 1
      /\ Agenda!apply(m, s).receipts = [s.receipts EXCEPT ![m.request] = receipt]
      /\ Agenda!apply(m, s).migrated = s.migrated
  BY <1>2, <1>4, <1>5 DEF Agenda!StoreShapes
<1> QED
  BY <1>3, <1>6 DEF item, receipt

\* The receipts for an item after a mutation: those before, and its own.
LEMMA AgendaOfApplied ==
  ASSUME NEW s \in Agenda!StoreShapes, NEW m \in Agenda!Mutations, Agenda!Applicable(m, s), s.receipts[m.request] = Agenda!None,
         NEW kind, NEW i
  PROVE  /\ Agenda!Of(Agenda!apply(m, s), kind, i) = IF kind = m.kind /\ i = Agenda!Target(m) THEN Agenda!Of(s, kind, i) \union {m.request}
                                       ELSE Agenda!Of(s, kind, i)
         /\ m.request \notin Agenda!Of(s, kind, i)
<1> DEFINE n == Agenda!apply(m, s)
<1>1. PICK receipt \in Agenda!Receipts : receipt.mutation = m /\ n.receipts = [s.receipts EXCEPT ![m.request] = receipt]
  <2> DEFINE item == IF m.kind = "delete" THEN 0 ELSE s.items[Agenda!Target(m)] + 1
             receipt == [mutation |-> m, revision |-> s.revision + 1, item |-> item]
  <2>1. receipt \in Agenda!Receipts /\ n.receipts = [s.receipts EXCEPT ![m.request] = receipt] /\ receipt.mutation = m
    BY AgendaApplied
  <2> QED
    BY <2>1
<1>2. receipt # Agenda!None /\ m.request \in Requests /\ s.receipts \in [Requests -> {Agenda!None} \union Agenda!Receipts]
  BY AgendaNoneApart, AgendaMutationTyped, AgendaStoreTyped
<1> HIDE DEF n
<1>3. n.receipts[m.request] = receipt /\ \A q \in Requests : q # m.request => n.receipts[q] = s.receipts[q]
  BY <1>1, <1>2
<1>4. Agenda!Of(n, kind, i) = IF kind = m.kind /\ i = Agenda!Target(m) THEN Agenda!Of(s, kind, i) \union {m.request} ELSE Agenda!Of(s, kind, i)
  BY <1>1, <1>2, <1>3 DEF Agenda!Of
<1>5. m.request \notin Agenda!Of(s, kind, i)
  BY DEF Agenda!Of
<1> QED
  BY <1>4, <1>5 DEF n

\* In a sound store an item that nobody made was never changed.
LEMMA AgendaUnmadeUntouched ==
  ASSUME NEW s \in Agenda!StoreShapes, Agenda!Sound(s), NEW i, ~Agenda!Made(s, i), NEW kind \in {"patch", "delete"}
  PROVE  Agenda!Of(s, kind, i) = {}
BY DEF Agenda!Sound, Agenda!Of

\* A request that has no receipt has made no item.
LEMMA AgendaUnknownUnmade ==
  ASSUME Agenda!AgendaConstantsOK, NEW s \in Agenda!StoreShapes, Agenda!Sound(s), NEW q \in Requests, s.receipts[q] = Agenda!None
  PROVE  ~Agenda!Made(s, q)
<1>1. ASSUME NEW r \in Agenda!Of(s, "create", q) PROVE FALSE
  <2>1. r \in Requests /\ s.receipts[r] # Agenda!None /\ s.receipts[r].mutation.kind = "create"
        /\ Agenda!Target(s.receipts[r].mutation) = q
    BY DEF Agenda!Of
  <2>2. s.receipts[r].mutation.request = r
    BY <2>1 DEF Agenda!Sound
  <2> QED
    BY <2>1, <2>2 DEF Agenda!Target
<1>2. q # Agenda!Legacy
  BY DEF Agenda!AgendaConstantsOK
<1> QED
  BY <1>1, <1>2 DEF Agenda!Made

LEMMA AgendaAppliedEffects ==
  ASSUME Agenda!AgendaConstantsOK, NEW s \in Agenda!StoreShapes, Agenda!Sound(s), NEW m \in Agenda!Mutations, Agenda!Applicable(m, s),
         s.receipts[m.request] = Agenda!None
  PROVE  Agenda!Effects(Agenda!apply(m, s))
<1> DEFINE n == Agenda!apply(m, s)
           target == Agenda!Target(m)
<1>1. /\ n.items = [s.items EXCEPT ![target] = IF m.kind = "delete" THEN 0 ELSE s.items[target] + 1]
      /\ n.migrated = s.migrated /\ target \in Agenda!Ids /\ s.items \in [Agenda!Ids -> Nat]
  BY AgendaApplied, AgendaMutationTyped, AgendaStoreTyped
<1>2. ASSUME NEW i \in Agenda!Ids, i # target
      PROVE  n.items[i] = IF Agenda!Made(n, i) /\ Agenda!Of(n, "delete", i) = {} THEN 1 + Cardinality(Agenda!Of(n, "patch", i)) ELSE 0
  <2>1. n.items[i] = s.items[i]
    BY <1>1, <1>2
  <2>2. \A kind : Agenda!Of(n, kind, i) = Agenda!Of(s, kind, i)
    BY <1>2, AgendaOfApplied
  <2>3. Agenda!Made(n, i) <=> Agenda!Made(s, i)
    BY <1>1, <2>2 DEF Agenda!Made
  <2> QED
    BY AgendaCounts, <2>1, <2>2, <2>3 DEF Agenda!Sound, Agenda!Effects
<1>3. n.items[target] = IF Agenda!Made(n, target) /\ Agenda!Of(n, "delete", target) = {}
                        THEN 1 + Cardinality(Agenda!Of(n, "patch", target)) ELSE 0
  <2>1. CASE m.kind = "create"
    <3>1. target = m.request /\ s.items[target] = 0
      BY <2>1 DEF Agenda!Target, Agenda!Applicable
    <3>2. ~Agenda!Made(s, target)
      BY <3>1, AgendaUnknownUnmade, AgendaMutationTyped
    <3>3. Agenda!Of(s, "patch", target) = {} /\ Agenda!Of(s, "delete", target) = {}
      BY <3>2, AgendaUnmadeUntouched
    <3>4. /\ Agenda!Of(n, "patch", target) = {} /\ Agenda!Of(n, "delete", target) = {}
          /\ m.request \in Agenda!Of(n, "create", target)
      BY <2>1, <3>3, AgendaOfApplied
    <3>5. Agenda!Made(n, target) /\ Cardinality(Agenda!Of(n, "patch", target)) = 0
      BY <3>4, FS_EmptySet DEF Agenda!Made
    <3>6. n.items[target] = 1
      BY <1>1, <2>1, <3>1
    <3> QED
      BY <3>4, <3>5, <3>6
  <2>2. CASE m.kind = "patch"
    <3>1. s.items[target] # 0
      BY <2>2 DEF Agenda!Target, Agenda!Applicable
    <3>2. /\ Agenda!Made(s, target) /\ Agenda!Of(s, "delete", target) = {}
          /\ s.items[target] = 1 + Cardinality(Agenda!Of(s, "patch", target))
      BY AgendaCounts, <1>1, <3>1 DEF Agenda!Sound, Agenda!Effects
    <3>3. /\ Agenda!Of(n, "patch", target) = Agenda!Of(s, "patch", target) \union {m.request}
          /\ m.request \notin Agenda!Of(s, "patch", target)
          /\ Agenda!Of(n, "delete", target) = {} /\ Agenda!Of(n, "create", target) = Agenda!Of(s, "create", target)
      BY <2>2, <3>2, AgendaOfApplied
    <3>4. Cardinality(Agenda!Of(n, "patch", target)) = Cardinality(Agenda!Of(s, "patch", target)) + 1
      BY <3>3, AgendaOfFinite, FS_AddElement
    <3>5. Agenda!Made(n, target) /\ Cardinality(Agenda!Of(s, "patch", target)) \in Nat
      BY <1>1, <3>2, <3>3, AgendaOfFinite DEF Agenda!Made
    <3> QED
      BY <1>1, <2>2, <3>2, <3>3, <3>4, <3>5
  <2>3. CASE m.kind = "delete"
    <3>1. m.request \in Agenda!Of(n, "delete", target)
      BY <2>3, AgendaOfApplied
    <3> QED
      BY <1>1, <2>3, <3>1
  <2> QED
    BY <2>1, <2>2, <2>3, AgendaMutationTyped
<1> QED
  BY AgendaCounts, <1>2, <1>3 DEF Agenda!Effects

LEMMA AgendaAppliedSound ==
  ASSUME Agenda!AgendaConstantsOK, NEW s \in Agenda!StoreShapes, Agenda!Sound(s), NEW m \in Agenda!Mutations, Agenda!Applicable(m, s),
         s.receipts[m.request] = Agenda!None
  PROVE  Agenda!Sound(Agenda!apply(m, s))
<1> DEFINE n == Agenda!apply(m, s)
           item == IF m.kind = "delete" THEN 0 ELSE s.items[Agenda!Target(m)] + 1
           receipt == [mutation |-> m, revision |-> s.revision + 1, item |-> item]
           card(t, i) == Cardinality(Agenda!Of(t, "patch", i))
<1>1. /\ n.receipts = [s.receipts EXCEPT ![m.request] = receipt] /\ receipt \in Agenda!Receipts
      /\ n.revision = s.revision + 1 /\ n.migrated = s.migrated
      /\ m.request \in Requests /\ s.receipts \in [Requests -> {Agenda!None} \union Agenda!Receipts] /\ s.revision \in Nat
  BY AgendaApplied, AgendaMutationTyped, AgendaStoreTyped
<1>2. /\ n.receipts[m.request] = receipt /\ receipt # Agenda!None
      /\ \A q \in Requests : q # m.request => n.receipts[q] = s.receipts[q]
      /\ receipt.mutation = m /\ receipt.revision = s.revision + 1 /\ receipt.item = item
  BY <1>1, AgendaNoneApart
<1>3. ASSUME NEW i PROVE Agenda!Made(s, i) => Agenda!Made(n, i)
  BY <1>1, AgendaOfApplied DEF Agenda!Made
<1>4. ASSUME NEW i PROVE card(s, i) =< card(n, i) /\ card(n, i) \in Nat /\ card(s, i) \in Nat
  <2>1. n \in Agenda!StoreShapes /\ card(n, i) \in Nat /\ card(s, i) \in Nat
    BY AgendaApplied, AgendaOfFinite
  <2>2. Agenda!Of(n, "patch", i) = Agenda!Of(s, "patch", i)
        \/ (Agenda!Of(n, "patch", i) = Agenda!Of(s, "patch", i) \union {m.request} /\ m.request \notin Agenda!Of(s, "patch", i))
    BY AgendaOfApplied
  <2>3. Agenda!Of(n, "patch", i) = Agenda!Of(s, "patch", i) \/ card(n, i) = card(s, i) + 1
    BY <2>2, AgendaOfFinite, FS_AddElement
  <2> QED
    BY <2>1, <2>3
<1>5. m.kind = "patch" => /\ s.items[m.id] = m.expected /\ Agenda!Made(s, m.id) /\ m.expected = 1 + card(s, m.id)
                          /\ m.expected = card(n, m.id) /\ item = m.expected + 1
  <2>1. SUFFICES ASSUME m.kind = "patch"
                 PROVE  /\ s.items[m.id] = m.expected /\ Agenda!Made(s, m.id) /\ m.expected = 1 + card(s, m.id)
                        /\ m.expected = card(n, m.id) /\ item = m.expected + 1
    OBVIOUS
  <2>2. /\ s.items[m.id] = m.expected /\ m.expected # 0 /\ Agenda!Target(m) = m.id /\ m.id \in Agenda!Ids
    BY <2>1, AgendaMutationTyped DEF Agenda!Applicable
  <2>3. Agenda!Made(s, m.id) /\ m.expected = 1 + card(s, m.id)
    BY AgendaCounts, <2>2 DEF Agenda!Sound, Agenda!Effects
  <2>4. card(n, m.id) = card(s, m.id) + 1
    <3>1. /\ Agenda!Of(n, "patch", m.id) = Agenda!Of(s, "patch", m.id) \union {m.request}
          /\ m.request \notin Agenda!Of(s, "patch", m.id)
      BY <2>1, <2>2, AgendaOfApplied
    <3> QED
      BY <3>1, AgendaOfFinite, FS_AddElement
  <2>5. card(s, m.id) \in Nat
    BY <1>4
  <2> QED
    BY <2>1, <2>2, <2>3, <2>4, <2>5
<1>6. m.kind = "delete" => Agenda!Made(s, Agenda!Target(m))
  <2>1. SUFFICES ASSUME m.kind = "delete" PROVE Agenda!Made(s, Agenda!Target(m))
    OBVIOUS
  <2>2. s.items[Agenda!Target(m)] # 0 /\ Agenda!Target(m) \in Agenda!Ids
    BY <2>1, AgendaMutationTyped DEF Agenda!Applicable
  <2> QED
    BY <2>2 DEF Agenda!Sound, Agenda!Effects
<1>7. ASSUME NEW q \in Requests, s.receipts[q] # Agenda!None, s.receipts[q].mutation.kind = "patch"
      PROVE  /\ s.receipts[q].mutation.expected =< card(s, s.receipts[q].mutation.id)
             /\ s.receipts[q].mutation.expected \in Nat
             /\ s.receipts[q].item = s.receipts[q].mutation.expected + 1
  <2>1. s.receipts[q] \in Agenda!Receipts
    BY <1>1, <1>7
  <2>2. s.receipts[q].mutation.expected \in Nat
    BY <2>1, AgendaMutationTyped DEF Agenda!Receipts
  <2>3. s.receipts[q].mutation.expected =< card(s, s.receipts[q].mutation.id)
    BY AgendaCounts, <1>7 DEF Agenda!Sound
  <2>4. s.receipts[q].item = s.receipts[q].mutation.expected + 1
    BY <1>7 DEF Agenda!Sound, Agenda!PatchesDiffer
  <2> QED
    BY <2>2, <2>3, <2>4
<1>8. Agenda!PatchesDiffer(s) /\ (\A q \in Requests : s.receipts[q] # Agenda!None =>
          LET d == s.receipts[q].mutation IN
          /\ d.request = q /\ s.receipts[q].revision =< s.revision
          /\ d.kind # "create" => Agenda!Made(s, Agenda!Target(d))
          /\ d.kind = "patch" => d.expected =< card(s, d.id))
  BY AgendaCounts DEF Agenda!Sound
<1> HIDE DEF n, item, receipt, card
<1>9. Agenda!PatchesDiffer(n)
  <2>1. SUFFICES ASSUME NEW q \in Requests, NEW r \in Requests,
                        n.receipts[q] # Agenda!None, n.receipts[q].mutation.kind = "patch"
                 PROVE  /\ n.receipts[q].item = n.receipts[q].mutation.expected + 1
                        /\ (q # r /\ n.receipts[r] # Agenda!None /\ n.receipts[r].mutation.kind = "patch"
                               /\ n.receipts[r].mutation.id = n.receipts[q].mutation.id)
                             => n.receipts[r].mutation.expected # n.receipts[q].mutation.expected
    BY DEF Agenda!PatchesDiffer
  <2>2. CASE q = m.request
    <3>1. n.receipts[q].item = n.receipts[q].mutation.expected + 1
      BY <1>2, <1>5, <2>1, <2>2
    <3>2. SUFFICES ASSUME q # r, n.receipts[r] # Agenda!None, n.receipts[r].mutation.kind = "patch",
                          n.receipts[r].mutation.id = n.receipts[q].mutation.id
                   PROVE  n.receipts[r].mutation.expected # n.receipts[q].mutation.expected
      BY <3>1
    <3>3. s.receipts[r].mutation.expected =< card(s, m.id) /\ s.receipts[r].mutation.expected \in Nat
      BY <1>2, <1>7, <2>2, <3>2
    <3>4. m.expected = 1 + card(s, m.id) /\ card(s, m.id) \in Nat
      BY <1>2, <1>4, <1>5, <2>1, <2>2
    <3> QED
      BY <1>2, <2>2, <3>2, <3>3, <3>4
  <2>3. CASE q # m.request /\ r = m.request
    <3>1. n.receipts[q].item = n.receipts[q].mutation.expected + 1
      BY <1>2, <1>7, <2>1, <2>3
    <3>2. SUFFICES ASSUME m.kind = "patch", m.id = n.receipts[q].mutation.id
                   PROVE  m.expected # n.receipts[q].mutation.expected
      BY <1>2, <2>3, <3>1
    <3>3. s.receipts[q].mutation.expected =< card(s, m.id) /\ s.receipts[q].mutation.expected \in Nat
      BY <1>2, <1>7, <2>1, <2>3, <3>2
    <3>4. m.expected = 1 + card(s, m.id) /\ card(s, m.id) \in Nat
      BY <1>4, <1>5, <3>2
    <3> QED
      BY <1>2, <2>1, <2>3, <3>3, <3>4
  <2>4. CASE q # m.request /\ r # m.request
    BY <1>2, <1>8, <2>1, <2>4 DEF Agenda!PatchesDiffer
  <2> QED
    BY <2>2, <2>3, <2>4
<1>10. ASSUME NEW q \in Requests, n.receipts[q] # Agenda!None
       PROVE  LET d == n.receipts[q].mutation IN
              /\ d.request = q /\ n.receipts[q].revision =< n.revision
              /\ d.kind # "create" => Agenda!Made(n, Agenda!Target(d))
              /\ d.kind = "patch" => d.expected =< card(n, d.id)
  <2>1. CASE q = m.request
    <3>1. n.receipts[q].mutation = m /\ n.receipts[q].revision = n.revision /\ n.revision \in Nat
      BY <1>1, <1>2, <2>1
    <3>2. m.kind # "create" => Agenda!Made(n, Agenda!Target(m))
      BY <1>3, <1>5, <1>6, AgendaMutationTyped
    <3>3. m.kind = "patch" => m.expected =< card(n, m.id)
      BY <1>4, <1>5
    <3> QED
      BY <2>1, <3>1, <3>2, <3>3
  <2>2. CASE q # m.request
    <3>1. n.receipts[q] = s.receipts[q] /\ s.receipts[q] # Agenda!None
      BY <1>2, <1>10, <2>2
    <3>2. s.receipts[q].revision \in Nat
      BY <1>1, <3>1 DEF Agenda!Receipts
    <3>3. s.receipts[q].mutation.request = q /\ s.receipts[q].revision =< s.revision
      BY <1>8, <3>1
    <3>4. s.receipts[q].mutation.kind # "create" => Agenda!Made(n, Agenda!Target(s.receipts[q].mutation))
      BY <1>3, <1>8, <3>1
    <3>5. ASSUME s.receipts[q].mutation.kind = "patch"
          PROVE  s.receipts[q].mutation.expected =< card(n, s.receipts[q].mutation.id)
      BY <1>4, <1>7, <3>1, <3>5
    <3> QED
      BY <1>1, <3>1, <3>2, <3>3, <3>4, <3>5
  <2> QED
    BY <2>1, <2>2
<1>11. Agenda!Effects(n)
  BY AgendaAppliedEffects DEF n
<1>12. Agenda!Sound(n)
  BY AgendaCounts, <1>9, <1>10, <1>11 DEF Agenda!Sound, card
<1> QED
  BY <1>12 DEF n

\* A store with the same items and receipts, and no less a revision, is as sound.
LEMMA AgendaSameSound ==
  ASSUME NEW s \in Agenda!StoreShapes, NEW t \in Agenda!StoreShapes, Agenda!Sound(s), t.items = s.items, t.receipts = s.receipts,
         s.revision =< t.revision, t.migrated \in Agenda!Contents <=> s.migrated \in Agenda!Contents
  PROVE  Agenda!Sound(t)
<1>1. \A kind, i : Agenda!Of(t, kind, i) = Agenda!Of(s, kind, i)
  BY DEF Agenda!Of
<1>2. \A i : Agenda!Made(t, i) <=> Agenda!Made(s, i)
  BY <1>1 DEF Agenda!Made
<1>3. Agenda!Effects(t)
  BY <1>1, <1>2 DEF Agenda!Sound, Agenda!Effects
<1>4. Agenda!PatchesDiffer(t)
  BY DEF Agenda!Sound, Agenda!PatchesDiffer
<1>5. ASSUME NEW q \in Requests, t.receipts[q] # Agenda!None
      PROVE  LET m == t.receipts[q].mutation IN
             /\ m.request = q /\ t.receipts[q].revision =< t.revision
             /\ m.kind # "create" => Agenda!Made(t, Agenda!Target(m))
             /\ m.kind = "patch" => m.expected =< Cardinality(Agenda!Of(t, "patch", m.id))
  <2>1. s.receipts[q].revision \in Nat /\ s.revision \in Nat /\ t.revision \in Nat
    BY <1>5, AgendaStoreTyped DEF Agenda!Receipts
  <2>2. s.receipts[q].mutation.request = q /\ s.receipts[q].revision =< s.revision
    BY <1>5 DEF Agenda!Sound
  <2>3. LET m == s.receipts[q].mutation IN
        /\ m.kind # "create" => Agenda!Made(s, Agenda!Target(m))
        /\ m.kind = "patch" => m.expected =< Cardinality(Agenda!Of(s, "patch", m.id))
    BY AgendaCounts, <1>5 DEF Agenda!Sound
  <2> QED
    BY <1>1, <1>2, <2>1, <2>2, <2>3
<1> QED
  BY AgendaCounts, <1>3, <1>4, <1>5 DEF Agenda!Sound

LEMMA AgendaInvalidated ==
  ASSUME NEW s \in Agenda!StoreShapes, Agenda!Sound(s)
  PROVE  LET t == Agenda!invalidate_catalog(s) IN
         /\ t \in Agenda!StoreShapes /\ t.items = s.items /\ t.receipts = s.receipts
         /\ t.revision = s.revision + 1 /\ t.migrated = s.migrated /\ Agenda!Sound(t)
<1> DEFINE t == Agenda!invalidate_catalog(s)
<1>1. t = [s EXCEPT !.revision = s.revision + 1] /\ s.revision + 1 \in Nat
  BY AgendaStoreTyped DEF Agenda!invalidate_catalog
<1>2. /\ t \in Agenda!StoreShapes /\ t.items = s.items /\ t.receipts = s.receipts
      /\ t.revision = s.revision + 1 /\ t.migrated = s.migrated
  BY <1>1 DEF Agenda!StoreShapes
<1>3. s.revision =< t.revision
  BY <1>2, AgendaStoreTyped
<1> HIDE DEF t
<1>4. Agenda!Sound(t)
  BY <1>2, <1>3, AgendaSameSound
<1> QED
  BY <1>2, <1>4 DEF t

\* The legacy todos are adopted into a store in which nobody can have touched them.
LEMMA AgendaAdopted ==
  ASSUME Agenda!AgendaConstantsOK, NEW s \in Agenda!StoreShapes, Agenda!Sound(s), s.migrated = "never",
         legacy \in {"missing"} \union Agenda!Contents
  PROVE  LET t == Agenda!adopt(s) IN
         /\ t \in Agenda!StoreShapes /\ t.receipts = s.receipts /\ s.revision =< t.revision
         /\ t.migrated = legacy /\ Agenda!Sound(t)
<1> DEFINE t == Agenda!adopt(s)
<1>1. CASE legacy = "missing"
  <2>1. t = [s EXCEPT !.migrated = "missing"]
    BY <1>1 DEF Agenda!adopt
  <2>2. /\ t \in Agenda!StoreShapes /\ t.items = s.items /\ t.receipts = s.receipts
        /\ t.revision = s.revision /\ t.migrated = "missing"
    BY <2>1 DEF Agenda!StoreShapes
  <2>3. s.revision =< t.revision /\ (t.migrated \in Agenda!Contents <=> s.migrated \in Agenda!Contents)
    BY <2>2, AgendaStoreTyped DEF Agenda!Contents
  <2> HIDE DEF t
  <2>4. Agenda!Sound(t)
    BY <2>2, <2>3, AgendaSameSound
  <2> QED
    BY <1>1, <2>2, <2>3, <2>4 DEF t
<1>2. CASE legacy \in Agenda!Contents
  <2>1. legacy # "missing" /\ Agenda!Legacy \in Agenda!Ids /\ s.items \in [Agenda!Ids -> Nat] /\ s.revision \in Nat
    BY <1>2, AgendaStoreTyped DEF Agenda!Contents, Agenda!Ids
  <2>2. t = [s EXCEPT !.migrated = legacy, !.items = [s.items EXCEPT ![Agenda!Legacy] = 1], !.revision = s.revision + 1]
    BY <2>1 DEF Agenda!adopt, Agenda!StoreShapes
  <2>3. [s.items EXCEPT ![Agenda!Legacy] = 1] \in [Agenda!Ids -> Nat] /\ s.revision + 1 \in Nat
    BY <2>1
  <2>4. /\ t \in Agenda!StoreShapes /\ t.items = [s.items EXCEPT ![Agenda!Legacy] = 1] /\ t.receipts = s.receipts
        /\ t.revision = s.revision + 1 /\ t.migrated = legacy
    BY <1>2, <2>2, <2>3 DEF Agenda!StoreShapes
  <2>5. s.revision =< t.revision
    BY <2>1, <2>4
  <2> HIDE DEF t
  <2>6. \A kind, i : Agenda!Of(t, kind, i) = Agenda!Of(s, kind, i)
    BY <2>4 DEF Agenda!Of
  <2>7. Agenda!Of(s, "create", Agenda!Legacy) = {}
    <3>1. ASSUME NEW q \in Agenda!Of(s, "create", Agenda!Legacy) PROVE FALSE
      <4>1. q \in Requests /\ s.receipts[q] # Agenda!None /\ s.receipts[q].mutation.kind = "create"
            /\ Agenda!Target(s.receipts[q].mutation) = Agenda!Legacy
        BY DEF Agenda!Of
      <4>2. s.receipts[q].mutation.request = q
        BY <4>1 DEF Agenda!Sound
      <4> QED
        BY <4>1, <4>2 DEF Agenda!Target, Agenda!AgendaConstantsOK
    <3> QED
      BY <3>1
  <2>8. ~Agenda!Made(s, Agenda!Legacy) /\ Agenda!Made(t, Agenda!Legacy)
    BY <1>2, <2>4, <2>7 DEF Agenda!Made, Agenda!Contents
  <2>9. \A i : i # Agenda!Legacy => (Agenda!Made(t, i) <=> Agenda!Made(s, i))
    BY <2>6 DEF Agenda!Made
  <2>10. Agenda!Of(s, "patch", Agenda!Legacy) = {} /\ Agenda!Of(s, "delete", Agenda!Legacy) = {} /\ Cardinality({}) = 0
    BY <2>8, AgendaUnmadeUntouched, FS_EmptySet
  <2>11. Agenda!Effects(t)
    <3>1. SUFFICES ASSUME NEW i \in Agenda!Ids
                   PROVE  t.items[i] = IF Agenda!Made(t, i) /\ Agenda!Of(t, "delete", i) = {}
                                       THEN 1 + Cardinality(Agenda!Of(t, "patch", i)) ELSE 0
      BY AgendaCounts DEF Agenda!Effects
    <3>2. CASE i = Agenda!Legacy
      <4>1. t.items[i] = 1
        BY <2>1, <2>4, <3>2
      <4>2. Agenda!Of(t, "delete", i) = {} /\ Cardinality(Agenda!Of(t, "patch", i)) = 0 /\ Agenda!Made(t, i)
        BY <2>6, <2>8, <2>10, <3>2
      <4> QED
        BY <4>1, <4>2
    <3>3. CASE i # Agenda!Legacy
      <4>1. t.items[i] = s.items[i]
        BY <2>1, <2>4, <3>3
      <4> QED
        BY AgendaCounts, <2>6, <2>9, <3>3, <4>1 DEF Agenda!Sound, Agenda!Effects
    <3> QED
      BY <3>2, <3>3
  <2>12. Agenda!PatchesDiffer(t)
    BY <2>4 DEF Agenda!Sound, Agenda!PatchesDiffer
  <2>13. ASSUME NEW q \in Requests, t.receipts[q] # Agenda!None
         PROVE  LET m == t.receipts[q].mutation IN
                /\ m.request = q /\ t.receipts[q].revision =< t.revision
                /\ m.kind # "create" => Agenda!Made(t, Agenda!Target(m))
                /\ m.kind = "patch" => m.expected =< Cardinality(Agenda!Of(t, "patch", m.id))
    <3>1. s.receipts[q].revision \in Nat /\ t.receipts[q] = s.receipts[q] /\ t.revision \in Nat
      BY <2>4, <2>13, AgendaStoreTyped DEF Agenda!Receipts
    <3>2. s.receipts[q].mutation.request = q /\ s.receipts[q].revision =< s.revision
      BY <2>13, <3>1 DEF Agenda!Sound
    <3>3. LET m == s.receipts[q].mutation IN
          /\ m.kind # "create" => Agenda!Made(s, Agenda!Target(m))
          /\ m.kind = "patch" => m.expected =< Cardinality(Agenda!Of(s, "patch", m.id))
      BY AgendaCounts, <2>13, <3>1 DEF Agenda!Sound
    <3> QED
      BY <2>1, <2>5, <2>6, <2>8, <2>9, <3>1, <3>2, <3>3
  <2>14. Agenda!Sound(t)
    BY AgendaCounts, <2>11, <2>12, <2>13 DEF Agenda!Sound
  <2> QED
    BY <2>4, <2>5, <2>14 DEF t
<1> QED
  BY <1>1, <1>2

\* What the steps below say of the store between transactions, and of the cache.
LEMMA AgendaAtRest ==
  ASSUME Agenda!AgendaIInv, owner = "up", ~Agenda!Committing, Agenda!ensure_committed_reads
  PROVE  txn = Agenda!None /\ Agenda!View = db /\ cache \in Agenda!Caches /\ cache # Agenda!None
BY AgendaNoneApart DEF Agenda!AgendaIInv, Agenda!AgendaShapes, Agenda!TxnInv, Agenda!CacheInv, Agenda!ensure_committed_reads, Agenda!View

LEMMA AgendaNotUp ==
  ASSUME Agenda!AgendaIInv, owner \in {"down", "failed", "migrating"}
  PROVE  agendaOp = Agenda!None /\ cache = Agenda!None /\ servedList = Agenda!None /\ told = 0 /\ (owner # "migrating" => txn = Agenda!None)
BY DEF Agenda!AgendaIInv, Agenda!TxnInv, Agenda!CacheInv

LEMMA AgendaStepped ==
  ASSUME NEW o \in Agenda!Ops, o # Agenda!None, NEW st \in {"commit", "accept"}
  PROVE  LET n == [o EXCEPT !.step = st] IN
         /\ n \in Agenda!Ops /\ n # Agenda!None /\ n.step = st /\ n.kind = o.kind
         /\ o.kind = "mutate" => n.mutation = o.mutation
         /\ o.kind = "import" => n.events = o.events
<1>1. CASE o \in [kind : {"mutate"}, mutation : Agenda!Mutations, step : {"begin", "commit", "accept"}]
  <2>1. [o EXCEPT !.step = st] = [kind |-> "mutate", mutation |-> o.mutation, step |-> st] /\ o.kind = "mutate"
    BY <1>1
  <2>2. [kind |-> "mutate", mutation |-> o.mutation, step |-> st] # Agenda!None
    <3>1. "kind" \in DOMAIN [kind |-> "mutate", mutation |-> o.mutation, step |-> st] /\ DOMAIN Agenda!None = {"none"}
      BY DEF Agenda!None
    <3> QED
      BY <3>1
  <2> QED
    BY <1>1, <2>1, <2>2 DEF Agenda!Ops
<1>2. CASE o \in [kind : {"import"}, events : Nat, step : {"commit", "accept"}]
  <2>1. [o EXCEPT !.step = st] = [kind |-> "import", events |-> o.events, step |-> st] /\ o.kind = "import"
    BY <1>2
  <2>2. [kind |-> "import", events |-> o.events, step |-> st] # Agenda!None
    <3>1. "kind" \in DOMAIN [kind |-> "import", events |-> o.events, step |-> st] /\ DOMAIN Agenda!None = {"none"}
      BY DEF Agenda!None
    <3> QED
      BY <3>1
  <2> QED
    BY <1>2, <2>1, <2>2 DEF Agenda!Ops
<1> QED
  BY <1>1, <1>2 DEF Agenda!Ops

LEMMA AgendaPictured ==
  ASSUME NEW s \in Agenda!StoreShapes
  PROVE  /\ Agenda!Snapshot(s) \in Agenda!Caches /\ Agenda!Snapshot(s) # Agenda!None
         /\ Agenda!Snapshot(s).items = s.items /\ Agenda!Snapshot(s).revision = s.revision
<1>1. Agenda!Snapshot(s) \in Agenda!Caches
  BY AgendaStoreTyped DEF Agenda!Snapshot, Agenda!Caches
<1> QED
  BY <1>1, AgendaNoneApart DEF Agenda!Snapshot

\* The frames: what a part of the invariant depends on.
LEMMA AgendaStoresKept ==
  ASSUME Agenda!StoresInv, UNCHANGED <<db, txn, exported, backups>>
  PROVE  Agenda!StoresInv'
BY DEF Agenda!StoresInv, Agenda!Saved

LEMMA AgendaCatalogKept ==
  ASSUME Agenda!CatalogInv, UNCHANGED <<cache, servedList, imports>>
  PROVE  Agenda!CatalogInv'
BY DEF Agenda!CatalogInv

LEMMA AgendaAckedKept ==
  ASSUME Agenda!AckedDurable, UNCHANGED <<db, acked>>
  PROVE  Agenda!AckedDurable'
BY DEF Agenda!AckedDurable

\* Without a holder of todo_guard and an open transaction there is little to say.
LEMMA AgendaIdle ==
  ASSUME agendaOp' = Agenda!None, txn' = Agenda!None, owner' # "migrating"
  PROVE  Agenda!TxnInv'
BY DEF Agenda!TxnInv, Agenda!Committing

\* Without a running owner there is no cache.
LEMMA AgendaDark ==
  ASSUME agendaOp' = Agenda!None, cache' = Agenda!None, servedList' = Agenda!None, told' = 0, owner' # "up"
  PROVE  Agenda!CacheInv' /\ Agenda!CatalogInv'
BY DEF Agenda!CacheInv, Agenda!CatalogInv, Agenda!CacheFaithful, Agenda!Accepting

\* A cache that is the store is right, whatever was told of it.
LEMMA AgendaFresh ==
  ASSUME db' \in Agenda!StoreShapes, owner' = "up", cache' = Agenda!Snapshot(db'), told' =< db'.revision, ~Agenda!Accepting'
  PROVE  Agenda!CacheInv'
<1>1. cache' # Agenda!None /\ cache'.items = db'.items /\ cache'.revision = db'.revision /\ db'.revision \in Nat
  BY AgendaPictured, AgendaStoreTyped
<1>2. Agenda!CacheFaithful'
  BY <1>1 DEF Agenda!CacheFaithful
<1> QED
  BY <1>1, <1>2 DEF Agenda!CacheInv

LEMMA AgendaOpenKeeps ==
  ASSUME Agenda!AgendaConstantsOK, Agenda!AgendaIInv, Agenda!open_agenda
  PROVE  Agenda!AgendaIInv'
<1>1. /\ agendaOp' = Agenda!None /\ agendaOp = Agenda!None /\ servedList' = Agenda!None /\ told' = 0 /\ txn = Agenda!None /\ cache = Agenda!None
      /\ owner \in {"down", "failed"}
      /\ UNCHANGED <<db, legacy, exported, agendaOp, imports, servedList, told, acked, agendaSpent>>
  BY AgendaNotUp DEF Agenda!open_agenda
<1>2. db \in Agenda!StoreShapes /\ Agenda!AgendaShapes /\ Agenda!StoresInv /\ Agenda!AckedDurable /\ legacy \in {"missing"} \union Agenda!Contents
  BY DEF Agenda!AgendaIInv, Agenda!AgendaShapes
<1>3. Agenda!AckedDurable'
  BY <1>1, <1>2, AgendaAckedKept
<1>4. CASE owner' = "up" /\ writesBlocked' = FALSE /\ cache' = Agenda!Snapshot(db) /\ UNCHANGED <<txn, backups>>
  <2>1. Agenda!AgendaShapes'
    BY <1>1, <1>2, <1>4, AgendaPictured DEF Agenda!AgendaShapes
  <2>2. Agenda!TxnInv' /\ Agenda!StoresInv'
    BY <1>1, <1>2, <1>4, AgendaIdle, AgendaStoresKept
  <2>3. Agenda!CacheInv'
    <3>1. told' =< db'.revision /\ ~Agenda!Accepting' /\ db' \in Agenda!StoreShapes
      BY <1>1, <1>2, AgendaStoreTyped DEF Agenda!Accepting
    <3> QED
      BY <1>1, <1>4, <3>1, AgendaFresh
  <2>4. Agenda!CatalogInv'
    BY <1>1 DEF Agenda!CatalogInv
  <2> QED
    BY <1>3, <2>1, <2>2, <2>3, <2>4 DEF Agenda!AgendaIInv
<1>5. CASE owner' = "failed" /\ UNCHANGED <<txn, writesBlocked, cache, backups>>
  <2>1. Agenda!AgendaShapes'
    BY <1>1, <1>2, <1>5 DEF Agenda!AgendaShapes
  <2>2. Agenda!TxnInv' /\ Agenda!StoresInv'
    BY <1>1, <1>2, <1>5, AgendaIdle, AgendaStoresKept
  <2>3. Agenda!CacheInv' /\ Agenda!CatalogInv'
    BY <1>1, <1>5, AgendaDark
  <2> QED
    BY <1>3, <2>1, <2>2, <2>3 DEF Agenda!AgendaIInv
<1>6. CASE /\ db.migrated = "never" /\ backups' = backups \union ({legacy} \ {"missing"})
           /\ txn' = Agenda!adopt(db) /\ owner' = "migrating" /\ UNCHANGED <<writesBlocked, cache>>
  <2>1. /\ txn' \in Agenda!StoreShapes /\ txn'.receipts = db.receipts /\ txn'.migrated = legacy /\ Agenda!Sound(txn')
    BY <1>2, <1>6, AgendaAdopted DEF Agenda!StoresInv
  <2>2. Agenda!AgendaShapes'
    BY <1>1, <1>2, <1>6, <2>1 DEF Agenda!AgendaShapes
  <2>3. Agenda!adopt(db)' = Agenda!adopt(db)
    BY <1>1 DEF Agenda!adopt
  <2>4. Agenda!TxnInv'
    BY <1>1, <1>6, <2>1, <2>3 DEF Agenda!TxnInv, Agenda!Committing
  <2>5. Agenda!StoresInv'
    <3>1. legacy \in Agenda!Contents => legacy \in backups'
      BY <1>6 DEF Agenda!Contents
    <3> QED
      BY <1>1, <1>2, <1>6, <2>1, <3>1 DEF Agenda!StoresInv, Agenda!Saved
  <2>6. Agenda!CacheInv' /\ Agenda!CatalogInv'
    BY <1>1, <1>6, AgendaDark
  <2> QED
    BY <1>3, <2>2, <2>4, <2>5, <2>6 DEF Agenda!AgendaIInv
<1> QED
  BY <1>4, <1>5, <1>6 DEF Agenda!open_agenda, Agenda!opened

LEMMA AgendaMigrateKeeps ==
  ASSUME Agenda!AgendaConstantsOK, Agenda!AgendaIInv, Agenda!migrate_legacy
  PROVE  Agenda!AgendaIInv'
<1>0. /\ owner = "migrating" /\ txn' = Agenda!None /\ db' \in {db, txn}
      /\ UNCHANGED <<legacy, backups, exported, agendaOp, imports, servedList, told, acked>>
      /\ owner' \in {"up", "failed"} /\ (UNCHANGED writesBlocked \/ writesBlocked' = FALSE) /\ (UNCHANGED agendaSpent \/ agendaSpent' = agendaSpent + 1)
  BY DEF Agenda!migrate_legacy, Agenda!opened, Agenda!Fault
<1>1. agendaOp' = Agenda!None /\ servedList' = Agenda!None /\ told' = 0 /\ cache = Agenda!None
  BY <1>0, AgendaNotUp
<1>11. agendaSpent \in Nat /\ writesBlocked \in BOOLEAN
  BY DEF Agenda!AgendaIInv, Agenda!AgendaShapes
<1>12. agendaSpent' \in Nat
  BY <1>0, <1>11
<1>13. writesBlocked' \in BOOLEAN
  BY <1>0, <1>11
<1>2. db \in Agenda!StoreShapes /\ Agenda!AgendaShapes /\ Agenda!StoresInv /\ Agenda!AckedDurable /\ Agenda!TxnInv
  BY DEF Agenda!AgendaIInv, Agenda!AgendaShapes
<1>3. txn = Agenda!adopt(db) /\ db.migrated = "never" /\ legacy \in {"missing"} \union Agenda!Contents
  BY <1>0, <1>1, <1>2 DEF Agenda!TxnInv, Agenda!AgendaShapes
<1>4. txn \in Agenda!StoreShapes /\ txn # Agenda!None /\ txn.receipts = db.receipts
  BY <1>2, <1>3, AgendaNoneApart, AgendaAdopted DEF Agenda!StoresInv
<1>5. db' \in Agenda!StoreShapes /\ db'.receipts = db.receipts
  BY <1>0, <1>1, <1>2, <1>4
<1>6. Agenda!AckedDurable'
  BY <1>0, <1>1, <1>2, <1>5 DEF Agenda!AckedDurable
<1>7. Agenda!TxnInv'
  BY <1>0, <1>1, AgendaIdle
<1>8. Agenda!StoresInv'
  BY <1>0, <1>1, <1>2, <1>4 DEF Agenda!StoresInv, Agenda!Saved
<1>9. CASE db' = txn /\ owner' = "up" /\ cache' = Agenda!Snapshot(txn)
  <2>1. Agenda!AgendaShapes'
    BY <1>0, <1>1, <1>2, <1>5, <1>9, <1>12, <1>13, AgendaPictured DEF Agenda!AgendaShapes
  <2>2. told' =< db'.revision /\ ~Agenda!Accepting'
    BY <1>0, <1>1, <1>5, AgendaStoreTyped DEF Agenda!Accepting
  <2>3. Agenda!CacheInv'
    BY <1>5, <1>9, <2>2, AgendaFresh
  <2>4. Agenda!CatalogInv'
    BY <1>0, <1>1 DEF Agenda!CatalogInv
  <2> QED
    BY <1>6, <1>7, <1>8, <2>1, <2>3, <2>4 DEF Agenda!AgendaIInv
<1>10. CASE owner' = "failed" /\ UNCHANGED cache
  <2>1. Agenda!AgendaShapes'
    BY <1>0, <1>1, <1>2, <1>5, <1>10, <1>12, <1>13 DEF Agenda!AgendaShapes
  <2>2. Agenda!CacheInv' /\ Agenda!CatalogInv'
    BY <1>0, <1>1, <1>10, AgendaDark
  <2> QED
    BY <1>6, <1>7, <1>8, <2>1, <2>2 DEF Agenda!AgendaIInv
<1> QED
  BY <1>9, <1>10 DEF Agenda!migrate_legacy, Agenda!opened

LEMMA AgendaDownKeeps ==
  ASSUME Agenda!AgendaIInv, Agenda!Down, UNCHANGED <<db, legacy, backups, exported, acked>>, agendaSpent' \in Nat
  PROVE  Agenda!AgendaIInv'
<1>1. Agenda!AgendaShapes'
  BY DEF Agenda!AgendaIInv, Agenda!AgendaShapes, Agenda!Down, Agenda!Ops
<1>2. Agenda!TxnInv'
  BY AgendaIdle DEF Agenda!Down
<1>3. Agenda!StoresInv'
  BY DEF Agenda!AgendaIInv, Agenda!StoresInv, Agenda!Saved, Agenda!Down
<1>4. Agenda!CacheInv' /\ Agenda!CatalogInv'
  BY AgendaDark DEF Agenda!Down
<1>5. Agenda!AckedDurable'
  BY AgendaAckedKept DEF Agenda!AgendaIInv
<1> QED
  BY <1>1, <1>2, <1>3, <1>4, <1>5 DEF Agenda!AgendaIInv

\* What a request that is being served says of the operation.
LEMMA AgendaHeld ==
  ASSUME Agenda!AgendaIInv, agendaOp # Agenda!None
  PROVE  /\ owner = "up" /\ agendaOp \in Agenda!Ops /\ agendaOp.kind \in {"mutate", "import"} /\ agendaOp.step \in {"begin", "commit", "accept"}
         /\ agendaOp.kind = "mutate" => agendaOp.mutation \in Agenda!Mutations
         /\ agendaOp.kind = "import" => agendaOp.events \in Nat /\ agendaOp.step # "begin"
         /\ agendaOp.step # "begin" => ~writesBlocked
BY AgendaNoneApart DEF Agenda!AgendaIInv, Agenda!AgendaShapes, Agenda!TxnInv

LEMMA AgendaParts ==
  ASSUME Agenda!AgendaIInv
  PROVE  /\ Agenda!AgendaShapes /\ Agenda!TxnInv /\ Agenda!StoresInv /\ Agenda!CacheInv /\ Agenda!CatalogInv /\ Agenda!AckedDurable
         /\ db \in Agenda!StoreShapes /\ Agenda!Sound(db) /\ Agenda!Saved(db) /\ cache \in {Agenda!None} \union Agenda!Caches
BY DEF Agenda!AgendaIInv, Agenda!AgendaShapes, Agenda!StoresInv

LEMMA AgendaStarted ==
  ASSUME NEW m \in Agenda!Mutations
  PROVE  LET o == [kind |-> "mutate", mutation |-> m, step |-> "begin"] IN o \in Agenda!Ops /\ o # Agenda!None
<1>1. "kind" \in DOMAIN [kind |-> "mutate", mutation |-> m, step |-> "begin"] /\ DOMAIN Agenda!None = {"none"}
  BY DEF Agenda!None
<1> QED
  BY <1>1 DEF Agenda!Ops

LEMMA AgendaMutationKeeps ==
  ASSUME Agenda!AgendaIInv, NEW m \in Agenda!Mutations, Agenda!agenda_mutation(m)
  PROVE  Agenda!AgendaIInv'
<1>1. /\ owner = "up" /\ agendaOp = Agenda!None /\ Agenda!ensure_committed_reads
      /\ agendaOp' = [kind |-> "mutate", mutation |-> m, step |-> "begin"]
      /\ UNCHANGED <<db, txn, owner, writesBlocked, legacy, backups, exported, cache, imports,
                     servedList, told, acked, agendaSpent>>
  BY DEF Agenda!agenda_mutation
<1>2. agendaOp' \in Agenda!Ops /\ agendaOp' # Agenda!None /\ agendaOp'.step = "begin"
  BY <1>1, AgendaStarted
<1>3. txn = Agenda!None /\ ~Agenda!Committing /\ ~Agenda!Accepting /\ ~Agenda!Committing' /\ ~Agenda!Accepting'
  <2>1. ~Agenda!Committing /\ ~Agenda!Accepting
    BY <1>1 DEF Agenda!Committing, Agenda!Accepting
  <2> QED
    BY <1>1, <1>2, <2>1, AgendaAtRest DEF Agenda!Committing, Agenda!Accepting
<1>4. Agenda!AgendaShapes'
  BY <1>1, <1>2, AgendaParts DEF Agenda!AgendaShapes
<1>5. Agenda!TxnInv'
  BY <1>1, <1>2, <1>3 DEF Agenda!TxnInv
<1>6. Agenda!CacheInv'
  <2>1. Agenda!CacheFaithful'
    BY <1>1, AgendaParts DEF Agenda!CacheInv, Agenda!CacheFaithful
  <2> QED
    BY <1>1, <1>3, <2>1, AgendaParts DEF Agenda!CacheInv, Agenda!Snapshot
<1>7. Agenda!StoresInv' /\ Agenda!CatalogInv' /\ Agenda!AckedDurable'
  BY <1>1, AgendaParts, AgendaStoresKept, AgendaCatalogKept, AgendaAckedKept
<1> QED
  BY <1>4, <1>5, <1>6, <1>7 DEF Agenda!AgendaIInv

LEMMA AgendaImportKeeps ==
  ASSUME Agenda!AgendaConstantsOK, Agenda!AgendaIInv, NEW v \in 0 .. AgendaImports, Agenda!accept_calendar_imports(v)
  PROVE  Agenda!AgendaIInv'
<1>1. /\ owner = "up" /\ agendaOp = Agenda!None /\ ~writesBlocked
      /\ agendaOp' = [kind |-> "import", events |-> v, step |-> "commit"]
      /\ txn' = Agenda!invalidate_catalog(db)
      /\ UNCHANGED <<db, owner, writesBlocked, legacy, backups, exported, cache, imports,
                     servedList, told, acked, agendaSpent>>
  BY DEF Agenda!accept_calendar_imports
<1>2. agendaOp' \in Agenda!Ops /\ agendaOp' # Agenda!None /\ agendaOp'.step = "commit" /\ agendaOp'.kind = "import"
  <2>1. "kind" \in DOMAIN agendaOp' /\ DOMAIN Agenda!None = {"none"}
    BY <1>1 DEF Agenda!None
  <2>2. v \in Nat
    BY DEF Agenda!AgendaConstantsOK
  <2> QED
    BY <1>1, <2>1, <2>2 DEF Agenda!Ops
<1>3. ~Agenda!Committing /\ ~Agenda!Accepting /\ Agenda!Committing' /\ ~Agenda!Accepting'
  BY <1>1, <1>2 DEF Agenda!Committing, Agenda!Accepting
<1>4. txn' \in Agenda!StoreShapes /\ txn' # Agenda!None /\ txn'.receipts = db.receipts /\ txn'.migrated = db.migrated /\ Agenda!Sound(txn')
  BY <1>1, AgendaInvalidated, AgendaParts, AgendaNoneApart
<1>5. Agenda!AgendaShapes'
  BY <1>1, <1>2, <1>4, AgendaParts DEF Agenda!AgendaShapes
<1>6. Agenda!TxnInv'
  <2>1. Agenda!invalidate_catalog(db)' = Agenda!invalidate_catalog(db)
    BY <1>1
  <2> QED
    BY <1>1, <1>2, <1>3, <1>4, <2>1 DEF Agenda!TxnInv
<1>7. Agenda!CacheInv'
  <2>1. Agenda!CacheFaithful'
    BY <1>1, AgendaParts DEF Agenda!CacheInv, Agenda!CacheFaithful
  <2> QED
    BY <1>1, <1>3, <2>1, AgendaParts DEF Agenda!CacheInv, Agenda!Snapshot
<1>8. Agenda!StoresInv'
  BY <1>1, <1>4, AgendaParts DEF Agenda!StoresInv, Agenda!Saved
<1>9. Agenda!CatalogInv' /\ Agenda!AckedDurable'
  BY <1>1, AgendaParts, AgendaCatalogKept, AgendaAckedKept
<1> QED
  BY <1>5, <1>6, <1>7, <1>8, <1>9 DEF Agenda!AgendaIInv

\* Leaving todo_guard without a transaction: the cache is as it was.
LEMMA AgendaLeaveKeeps ==
  ASSUME Agenda!AgendaIInv, agendaOp # Agenda!None, ~Agenda!Accepting, agendaOp' = Agenda!None, txn' = Agenda!None \/ (writesBlocked /\ txn' = txn),
         UNCHANGED <<db, owner, writesBlocked, legacy, backups, exported, cache, imports, servedList, told, acked>>,
         agendaSpent' \in Nat
  PROVE  Agenda!AgendaIInv'
<1>1. owner = "up" /\ ~Agenda!Committing' /\ ~Agenda!Accepting'
  BY AgendaHeld DEF Agenda!Committing, Agenda!Accepting
<1>2. Agenda!AgendaShapes'
  BY AgendaParts DEF Agenda!AgendaShapes, Agenda!Ops
<1>3. Agenda!TxnInv'
  BY <1>1, AgendaParts DEF Agenda!TxnInv
<1>4. Agenda!CacheInv'
  <2>1. Agenda!CacheFaithful'
    BY AgendaParts DEF Agenda!CacheInv, Agenda!CacheFaithful
  <2> QED
    BY <1>1, <2>1, AgendaParts DEF Agenda!CacheInv, Agenda!Snapshot
<1>5. Agenda!StoresInv'
  BY AgendaParts DEF Agenda!StoresInv, Agenda!Saved
<1>6. Agenda!CatalogInv' /\ Agenda!AckedDurable'
  BY AgendaParts, AgendaCatalogKept, AgendaAckedKept
<1> QED
  BY <1>2, <1>3, <1>4, <1>5, <1>6 DEF Agenda!AgendaIInv

LEMMA AgendaMutateKeeps ==
  ASSUME Agenda!AgendaConstantsOK, Agenda!AgendaIInv, Agenda!mutate
  PROVE  Agenda!AgendaIInv'
<1> DEFINE m == agendaOp.mutation
<1>1. /\ agendaOp # Agenda!None /\ agendaOp.step = "begin"
      /\ UNCHANGED <<db, owner, writesBlocked, legacy, backups, exported, cache, imports,
                     servedList, told, acked, agendaSpent>>
      /\ \/ writesBlocked /\ agendaOp' = Agenda!None /\ UNCHANGED txn
         \/ ~writesBlocked /\ Agenda!Known(m) /\ UNCHANGED txn
              /\ (agendaOp' = Agenda!None \/ (db.receipts[m.request].mutation = m /\ agendaOp' = [agendaOp EXCEPT !.step = "accept"]))
         \/ ~writesBlocked /\ ~Agenda!Known(m) /\ Agenda!Applicable(m, db) /\ txn' = Agenda!apply(m, db) /\ agendaOp' = [agendaOp EXCEPT !.step = "commit"]
         \/ ~writesBlocked /\ agendaOp' = Agenda!None /\ UNCHANGED txn
  BY DEF Agenda!mutate
<1>2. owner = "up" /\ agendaOp \in Agenda!Ops /\ m \in Agenda!Mutations /\ agendaOp.kind = "mutate" /\ agendaSpent \in Nat
  BY <1>1, AgendaHeld, AgendaParts DEF Agenda!AgendaShapes
<1>3. ~Agenda!Committing /\ ~Agenda!Accepting
  BY <1>1 DEF Agenda!Committing, Agenda!Accepting
<1>4. ~writesBlocked => txn = Agenda!None /\ Agenda!View = db /\ cache = Agenda!Snapshot(db)
  BY <1>2, <1>3, AgendaAtRest, AgendaParts DEF Agenda!ensure_committed_reads, Agenda!CacheInv
<1>5. CASE agendaOp' = Agenda!None /\ UNCHANGED txn
  BY <1>1, <1>2, <1>3, <1>4, <1>5, AgendaLeaveKeeps
<1>6. CASE /\ ~writesBlocked /\ Agenda!Known(m) /\ UNCHANGED txn
           /\ db.receipts[m.request].mutation = m /\ agendaOp' = [agendaOp EXCEPT !.step = "accept"]
  <2>1. /\ agendaOp' \in Agenda!Ops /\ agendaOp' # Agenda!None /\ agendaOp'.step = "accept" /\ agendaOp'.kind = "mutate" /\ agendaOp'.mutation = m
    BY <1>1, <1>2, <1>6, AgendaStepped
  <2>2. ~Agenda!Committing' /\ Agenda!Accepting' /\ txn' = Agenda!None /\ db.receipts[m.request] # Agenda!None
    BY <1>4, <1>6, <2>1 DEF Agenda!Committing, Agenda!Accepting, Agenda!Known
  <2>3. Agenda!AgendaShapes'
    BY <1>1, <1>6, <2>1, AgendaParts DEF Agenda!AgendaShapes
  <2>4. Agenda!TxnInv'
    BY <1>1, <1>2, <1>6, <2>1, <2>2 DEF Agenda!TxnInv
  <2>5. Agenda!CacheInv'
    <3>1. Agenda!CacheFaithful'
      BY <1>1, AgendaParts DEF Agenda!CacheInv, Agenda!CacheFaithful
    <3>2. cache' = Agenda!Snapshot(db')
      BY <1>1, <1>4, <1>6
    <3> HIDE DEF m
    <3> QED
      BY <1>1, <1>2, <1>6, <2>1, <2>2, <3>1, <3>2, AgendaParts DEF Agenda!CacheInv
  <2>6. Agenda!StoresInv' /\ Agenda!CatalogInv' /\ Agenda!AckedDurable'
    BY <1>1, <1>6, AgendaParts, AgendaStoresKept, AgendaCatalogKept, AgendaAckedKept
  <2> QED
    BY <2>3, <2>4, <2>5, <2>6 DEF Agenda!AgendaIInv
<1>7. CASE ~writesBlocked /\ ~Agenda!Known(m) /\ Agenda!Applicable(m, db) /\ txn' = Agenda!apply(m, db) /\ agendaOp' = [agendaOp EXCEPT !.step = "commit"]
  <2>1. /\ agendaOp' \in Agenda!Ops /\ agendaOp' # Agenda!None /\ agendaOp'.step = "commit" /\ agendaOp'.kind = "mutate" /\ agendaOp'.mutation = m
    BY <1>1, <1>2, <1>7, AgendaStepped
  <2>2. Agenda!Committing' /\ ~Agenda!Accepting' /\ db.receipts[m.request] = Agenda!None
    BY <1>4, <1>7, <2>1 DEF Agenda!Committing, Agenda!Accepting, Agenda!Known
  <2>3. /\ txn' \in Agenda!StoreShapes /\ txn' # Agenda!None /\ txn'.migrated = db.migrated /\ Agenda!Sound(txn')
        /\ \A q \in Requests : q # m.request => txn'.receipts[q] = db.receipts[q]
    <3>1. txn' \in Agenda!StoreShapes /\ txn'.migrated = db.migrated
      BY <1>2, <1>7, AgendaApplied, AgendaParts
    <3>2. Agenda!Sound(txn')
      BY <1>2, <1>7, <2>2, AgendaAppliedSound, AgendaParts
    <3> DEFINE item == IF m.kind = "delete" THEN 0 ELSE db.items[Agenda!Target(m)] + 1
               receipt == [mutation |-> m, revision |-> db.revision + 1, item |-> item]
    <3>3. txn'.receipts = [db.receipts EXCEPT ![m.request] = receipt]
      BY <1>2, <1>7, AgendaApplied, AgendaParts
    <3> HIDE DEF receipt
    <3>4. db.receipts \in [Requests -> {Agenda!None} \union Agenda!Receipts]
      BY AgendaParts, AgendaStoreTyped
    <3> QED
      BY <3>1, <3>2, <3>3, <3>4, AgendaNoneApart
  <2>4. Agenda!AgendaShapes'
    BY <1>1, <2>1, <2>3, AgendaParts DEF Agenda!AgendaShapes
  <2> HIDE DEF m
  <2>5. Agenda!TxnInv'
    <3>1. Agenda!apply(agendaOp.mutation, db)' = Agenda!apply(m, db) /\ Agenda!Applicable(agendaOp.mutation, db)' /\ m.request = agendaOp.mutation.request'
      BY <1>1, <1>7, <2>1
    <3> QED
      BY <1>1, <1>2, <1>7, <2>1, <2>2, <2>3, <3>1 DEF Agenda!TxnInv
  <2>6. Agenda!CacheInv'
    <3>1. Agenda!CacheFaithful'
      BY <1>1, AgendaParts DEF Agenda!CacheInv, Agenda!CacheFaithful
    <3> QED
      BY <1>1, <1>2, <1>3, <2>2, <3>1, AgendaParts DEF Agenda!CacheInv, Agenda!Snapshot
  <2>7. Agenda!StoresInv'
    BY <1>1, <2>3, AgendaParts DEF Agenda!StoresInv, Agenda!Saved
  <2>8. Agenda!CatalogInv' /\ Agenda!AckedDurable'
    BY <1>1, AgendaParts, AgendaCatalogKept, AgendaAckedKept
  <2> QED
    BY <2>4, <2>5, <2>6, <2>7, <2>8 DEF Agenda!AgendaIInv
<1> QED
  BY <1>1, <1>5, <1>6, <1>7

LEMMA AgendaCommitKeeps ==
  ASSUME Agenda!AgendaConstantsOK, Agenda!AgendaIInv, Agenda!commit
  PROVE  Agenda!AgendaIInv'
<1> DEFINE m == agendaOp.mutation
           item == IF m.kind = "delete" THEN 0 ELSE db.items[Agenda!Target(m)] + 1
           receipt == [mutation |-> m, revision |-> db.revision + 1, item |-> item]
<1>1. /\ agendaOp # Agenda!None /\ agendaOp.step = "commit"
      /\ UNCHANGED <<owner, legacy, backups, exported, cache, imports, servedList, told, acked>>
      /\ \/ /\ db' = txn /\ txn' = Agenda!None /\ UNCHANGED <<writesBlocked, agendaSpent>>
            /\ agendaOp' = [agendaOp EXCEPT !.step = "accept"]
         \/ /\ agendaOp' = Agenda!None /\ agendaSpent' = agendaSpent + 1
            /\ \/ txn' = Agenda!None /\ UNCHANGED <<db, writesBlocked>>
               \/ db' \in {db, txn} /\ txn' = Agenda!None /\ writesBlocked' = TRUE
               \/ writesBlocked' = TRUE /\ UNCHANGED <<db, txn>>
  BY DEF Agenda!commit, Agenda!finish, Agenda!Fault
<1>2. /\ owner = "up" /\ agendaOp \in Agenda!Ops /\ agendaOp.kind \in {"mutate", "import"} /\ ~writesBlocked /\ agendaSpent \in Nat
      /\ Agenda!Committing /\ ~Agenda!Accepting
  BY <1>1, AgendaHeld, AgendaParts DEF Agenda!AgendaShapes, Agenda!Committing, Agenda!Accepting
<1>3. /\ cache = Agenda!Snapshot(db) /\ cache \in Agenda!Caches /\ cache # Agenda!None
      /\ cache.items = db.items /\ cache.revision = db.revision /\ db.revision \in Nat
  BY <1>2, AgendaParts, AgendaPictured, AgendaStoreTyped DEF Agenda!CacheInv
<1>4. agendaOp.kind = "mutate" =>
        /\ m \in Agenda!Mutations /\ txn = Agenda!apply(m, db) /\ db.receipts[m.request] = Agenda!None /\ Agenda!Applicable(m, db)
        /\ txn.receipts = [db.receipts EXCEPT ![m.request] = receipt]
        /\ txn.items = [db.items EXCEPT ![Agenda!Target(m)] = item]
        /\ txn \in Agenda!StoreShapes /\ txn.revision = db.revision + 1 /\ receipt # Agenda!None
  <2>1. agendaOp.kind = "mutate" =>
          m \in Agenda!Mutations /\ txn = Agenda!apply(m, db) /\ db.receipts[m.request] = Agenda!None /\ Agenda!Applicable(m, db)
    BY <1>1, <1>2, AgendaHeld, AgendaParts DEF Agenda!TxnInv
  <2> QED
    BY <2>1, AgendaApplied, AgendaNoneApart, AgendaParts
<1>5. agendaOp.kind = "import" =>
        /\ txn \in Agenda!StoreShapes /\ txn.receipts = db.receipts /\ txn.items = db.items
        /\ txn.revision = db.revision + 1
  <2>1. agendaOp.kind = "import" => txn = Agenda!invalidate_catalog(db)
    BY <1>2, AgendaParts DEF Agenda!TxnInv
  <2> QED
    BY <2>1, AgendaInvalidated, AgendaParts
<1>6. /\ txn \in Agenda!StoreShapes /\ txn # Agenda!None /\ txn.revision = db.revision + 1
      /\ \A q \in Requests : db.receipts[q] # Agenda!None => txn.receipts[q] = db.receipts[q]
  <2>1. txn \in Agenda!StoreShapes /\ txn.revision = db.revision + 1
    BY <1>2, <1>4, <1>5
  <2> QED
    BY <2>1, AgendaNoneApart, AgendaParts DEF Agenda!TxnInv
<1>7. Agenda!Sound(txn) /\ Agenda!Saved(txn)
  BY <1>6, AgendaParts DEF Agenda!StoresInv
<1>8. db' \in Agenda!StoreShapes /\ db'.revision \in {db.revision, db.revision + 1}
      /\ (db'.revision = db.revision => db' = db)
      /\ \A q \in Requests : db.receipts[q] # Agenda!None => db'.receipts[q] # Agenda!None
  <2>1. db' \in {db, txn}
    BY <1>1
  <2> QED
    BY <1>3, <1>6, <2>1, AgendaParts
<1>9. Agenda!StoresInv' /\ Agenda!CatalogInv' /\ Agenda!AckedDurable'
  <2>1. db' \in {db, txn} /\ (txn' = Agenda!None \/ txn' = txn)
    BY <1>1
  <2>2. Agenda!StoresInv'
    BY <1>1, <1>6, <1>7, <2>1, AgendaParts DEF Agenda!StoresInv, Agenda!Saved
  <2>3. Agenda!AckedDurable'
    BY <1>1, <1>8, AgendaParts DEF Agenda!AckedDurable, Agenda!AgendaShapes
  <2> QED
    BY <1>1, <2>2, <2>3, AgendaParts, AgendaCatalogKept
<1>10. Agenda!CacheFaithful'
  <2>1. told =< cache.revision
    BY <1>3, AgendaParts DEF Agenda!CacheInv, Agenda!CacheFaithful
  <2> QED
    BY <1>1, <1>3, <1>8, <2>1 DEF Agenda!CacheFaithful
<1>11. CASE db' = txn /\ txn' = Agenda!None /\ UNCHANGED <<writesBlocked, agendaSpent>> /\ agendaOp' = [agendaOp EXCEPT !.step = "accept"]
  <2>1. /\ agendaOp' \in Agenda!Ops /\ agendaOp' # Agenda!None /\ agendaOp'.step = "accept" /\ agendaOp'.kind = agendaOp.kind
        /\ agendaOp.kind = "mutate" => agendaOp'.mutation = m
    BY <1>1, <1>2, <1>11, AgendaStepped
  <2>2. Agenda!Accepting' /\ ~Agenda!Committing'
    BY <2>1 DEF Agenda!Accepting, Agenda!Committing
  <2>3. Agenda!AgendaShapes'
    BY <1>1, <1>8, <1>11, <2>1, AgendaParts DEF Agenda!AgendaShapes
  <2>4. Agenda!TxnInv'
    BY <1>1, <1>2, <1>11, <2>1, <2>2 DEF Agenda!TxnInv
  <2>5. agendaOp.kind = "mutate" =>
          LET r == db'.receipts[m.request] IN
          /\ r # Agenda!None /\ r.mutation = m /\ r.revision = db'.revision /\ db'.revision = cache.revision + 1
          /\ db'.items = [cache.items EXCEPT ![Agenda!Target(m)] = r.item]
    <3>1. SUFFICES ASSUME agendaOp.kind = "mutate"
                   PROVE  LET r == db'.receipts[m.request] IN
                          /\ r # Agenda!None /\ r.mutation = m /\ r.revision = db'.revision
                          /\ db'.revision = cache.revision + 1
                          /\ db'.items = [cache.items EXCEPT ![Agenda!Target(m)] = r.item]
      OBVIOUS
    <3>2. m.request \in Requests /\ db.receipts \in [Requests -> {Agenda!None} \union Agenda!Receipts]
      BY <1>4, <3>1, AgendaMutationTyped, AgendaParts, AgendaStoreTyped
    <3>3. db'.receipts[m.request] = receipt
      BY <1>4, <1>11, <3>1, <3>2
    <3>4. receipt.mutation = m /\ receipt.revision = db.revision + 1 /\ receipt.item = item /\ receipt # Agenda!None
      BY <1>4, <3>1
    <3> HIDE DEF receipt, item, m
    <3> QED
      BY <1>3, <1>4, <1>11, <3>1, <3>3, <3>4
  <2>6. agendaOp.kind = "import" => cache.items = db'.items /\ db'.revision = cache.revision + 1
    BY <1>3, <1>5, <1>11
  <2> HIDE DEF m
  <2>7. Agenda!CacheInv'
    <3>1. agendaOp.kind = "mutate" => agendaOp.mutation' = m
      BY <2>1
    <3> QED
      BY <1>1, <1>2, <1>3, <1>10, <2>1, <2>2, <2>5, <2>6, <3>1 DEF Agenda!CacheInv
  <2> QED
    BY <1>9, <2>3, <2>4, <2>7 DEF Agenda!AgendaIInv
<1>12. CASE agendaOp' = Agenda!None /\ agendaSpent' = agendaSpent + 1 /\ txn' = Agenda!None /\ UNCHANGED <<db, writesBlocked>>
  BY <1>1, <1>2, <1>12, AgendaLeaveKeeps
<1>13. CASE agendaOp' = Agenda!None /\ agendaSpent' = agendaSpent + 1 /\ writesBlocked' = TRUE /\ db' \in {db, txn}
            /\ (txn' = Agenda!None \/ (txn' = txn /\ db' = db))
  <2>1. ~Agenda!Accepting' /\ ~Agenda!Committing' /\ agendaSpent' \in Nat
    BY <1>2, <1>13 DEF Agenda!Accepting, Agenda!Committing
  <2>2. Agenda!AgendaShapes'
    BY <1>1, <1>8, <1>13, <2>1, AgendaParts DEF Agenda!AgendaShapes, Agenda!Ops
  <2>3. Agenda!TxnInv'
    BY <1>1, <1>2, <1>6, <1>13, <2>1 DEF Agenda!TxnInv
  <2>4. Agenda!CacheInv'
    BY <1>1, <1>2, <1>3, <1>10, <1>13, <2>1 DEF Agenda!CacheInv
  <2> QED
    BY <1>9, <2>2, <2>3, <2>4 DEF Agenda!AgendaIInv
<1> QED
  BY <1>1, <1>11, <1>12, <1>13

LEMMA AgendaAcceptKeeps ==
  ASSUME Agenda!AgendaConstantsOK, Agenda!AgendaIInv, Agenda!accept_agenda
  PROVE  Agenda!AgendaIInv'
<1> DEFINE m == agendaOp.mutation
           r == db.receipts[m.request]
<1>1. /\ agendaOp # Agenda!None /\ agendaOp.step = "accept" /\ agendaOp.kind = "mutate"
      /\ cache' = IF r.revision > cache.revision + 1 THEN Agenda!Snapshot(db) ELSE Agenda!apply_agenda_result(cache, m, r)
      /\ told' = IF r.revision > told THEN r.revision ELSE told
      /\ acked' = acked \union {m.request}
      /\ agendaOp' = Agenda!None
      /\ UNCHANGED <<db, txn, owner, writesBlocked, legacy, backups, exported, imports, servedList, agendaSpent>>
  BY DEF Agenda!accept_agenda
<1>2. /\ owner = "up" /\ m \in Agenda!Mutations /\ m.request \in Requests /\ ~writesBlocked /\ Agenda!Accepting /\ ~Agenda!Committing
      /\ ~Agenda!Committing' /\ ~Agenda!Accepting'
  BY <1>1, AgendaHeld, AgendaMutationTyped DEF Agenda!Accepting, Agenda!Committing
<1>3. /\ r # Agenda!None /\ r \in Agenda!Receipts /\ r.revision \in Nat /\ r.revision =< db.revision /\ db.revision \in Nat
      /\ told \in Nat /\ cache \in Agenda!Caches /\ cache.revision \in Nat /\ told =< cache.revision
      /\ cache.revision =< db.revision
  <2>1. r # Agenda!None
    BY <1>1, <1>2, AgendaParts DEF Agenda!CacheInv
  <2>2. r \in Agenda!Receipts /\ r.revision \in Nat /\ db.revision \in Nat
    BY <1>2, <2>1, AgendaParts, AgendaStoreTyped DEF Agenda!Receipts
  <2>3. r.revision =< db.revision
    BY <1>2, <2>1, AgendaParts DEF Agenda!Sound
  <2>4. cache \in Agenda!Caches /\ cache # Agenda!None /\ cache.revision \in Nat /\ told \in Nat
    BY <1>2, AgendaParts, AgendaNoneApart DEF Agenda!CacheInv, Agenda!AgendaShapes, Agenda!Caches
  <2>5. told =< cache.revision /\ cache.revision =< db.revision
    BY <2>4, AgendaParts DEF Agenda!CacheInv, Agenda!CacheFaithful
  <2> QED
    BY <2>1, <2>2, <2>3, <2>4, <2>5
<1>4. \/ cache = Agenda!Snapshot(db)
      \/ /\ r.revision = db.revision /\ db.revision = cache.revision + 1
         /\ db.items = [cache.items EXCEPT ![Agenda!Target(m)] = r.item]
  BY <1>1, <1>2, AgendaParts DEF Agenda!CacheInv
<1>5. cache' = Agenda!Snapshot(db) /\ (cache'.revision = cache.revision => cache' = cache)
  <2>1. CASE cache = Agenda!Snapshot(db)
    <3>1. cache.revision = db.revision
      BY <2>1, AgendaPictured, AgendaParts
    <3> QED
      BY <1>1, <1>3, <2>1, <3>1 DEF Agenda!apply_agenda_result
  <2>2. CASE /\ r.revision = db.revision /\ db.revision = cache.revision + 1
             /\ db.items = [cache.items EXCEPT ![Agenda!Target(m)] = r.item]
    <3>1. ~(r.revision > cache.revision + 1) /\ ~(r.revision =< cache.revision)
      BY <1>3, <2>2
    <3>2. cache' = [items |-> db.items, revision |-> db.revision]
      BY <1>1, <2>2, <3>1 DEF Agenda!apply_agenda_result
    <3>3. cache'.revision # cache.revision
      BY <1>3, <2>2, <3>2
    <3> QED
      BY <3>2, <3>3 DEF Agenda!Snapshot
  <2> QED
    BY <1>4, <2>1, <2>2
<1> HIDE DEF m, r
<1>6. told' =< db.revision /\ told' \in Nat
  BY <1>1, <1>3
<1>7. Agenda!AgendaShapes'
  BY <1>1, <1>2, <1>5, <1>6, AgendaPictured, AgendaParts DEF Agenda!AgendaShapes, Agenda!Ops
<1>8. Agenda!TxnInv'
  BY <1>1, <1>2, AgendaParts DEF Agenda!TxnInv
<1>9. Agenda!CacheInv'
  BY <1>1, <1>2, <1>5, <1>6, AgendaFresh, AgendaParts
<1>10. Agenda!CatalogInv'
  <2>1. cache'.revision \in Nat /\ cache.revision =< cache'.revision
    BY <1>3, <1>5, AgendaPictured, AgendaParts
  <2> QED
    BY <1>1, <1>3, <1>5, <2>1, AgendaParts DEF Agenda!CatalogInv, Agenda!AgendaShapes, Agenda!Lists
<1>11. Agenda!StoresInv'
  BY <1>1, AgendaParts, AgendaStoresKept
<1>12. Agenda!AckedDurable'
  BY <1>1, <1>3, AgendaParts DEF Agenda!AckedDurable, r
<1> QED
  BY <1>7, <1>8, <1>9, <1>10, <1>11, <1>12 DEF Agenda!AgendaIInv

LEMMA AgendaImportedKeeps ==
  ASSUME Agenda!AgendaIInv, Agenda!import_accepted
  PROVE  Agenda!AgendaIInv'
<1>1. /\ agendaOp # Agenda!None /\ agendaOp.step = "accept" /\ agendaOp.kind = "import"
      /\ cache' = [cache EXCEPT !.revision = db.revision]
      /\ imports' = [events |-> agendaOp.events, revision |-> imports.revision + 1]
      /\ agendaOp' = Agenda!None
      /\ UNCHANGED <<db, txn, owner, writesBlocked, legacy, backups, exported, servedList, told, acked, agendaSpent>>
  BY DEF Agenda!import_accepted
<1>2. /\ owner = "up" /\ agendaOp.events \in Nat /\ ~writesBlocked /\ Agenda!Accepting /\ ~Agenda!Committing
      /\ ~Agenda!Committing' /\ ~Agenda!Accepting'
  BY <1>1, AgendaHeld DEF Agenda!Accepting, Agenda!Committing
<1>3. /\ cache \in Agenda!Caches /\ cache # Agenda!None /\ cache.items = db.items /\ db.revision = cache.revision + 1
      /\ cache.revision \in Nat /\ db.revision \in Nat /\ told \in Nat /\ told =< cache.revision
      /\ imports \in [events : Nat, revision : Nat]
  <2>1. cache \in Agenda!Caches /\ cache # Agenda!None /\ cache.items = db.items /\ db.revision = cache.revision + 1
    BY <1>1, <1>2, AgendaParts, AgendaNoneApart DEF Agenda!CacheInv
  <2>2. cache.revision \in Nat /\ db.revision \in Nat /\ told \in Nat /\ imports \in [events : Nat, revision : Nat]
    BY <2>1, AgendaParts, AgendaStoreTyped DEF Agenda!AgendaShapes, Agenda!Caches
  <2>3. told =< cache.revision
    BY <2>1, AgendaParts DEF Agenda!CacheInv, Agenda!CacheFaithful
  <2> QED
    BY <2>1, <2>2, <2>3
<1>4. cache' = Agenda!Snapshot(db)
  BY <1>1, <1>3 DEF Agenda!Caches, Agenda!Snapshot
<1>5. imports' \in [events : Nat, revision : Nat] /\ imports'.revision = imports.revision + 1
      /\ imports.revision \in Nat
  BY <1>1, <1>2, <1>3
<1>6. Agenda!AgendaShapes'
  BY <1>1, <1>4, <1>5, AgendaPictured, AgendaParts DEF Agenda!AgendaShapes, Agenda!Ops
<1>7. Agenda!TxnInv'
  BY <1>1, <1>2, AgendaParts DEF Agenda!TxnInv
<1>8. told' =< db.revision
  BY <1>1, <1>3
<1>9. Agenda!CacheInv'
  BY <1>1, <1>2, <1>4, <1>8, AgendaFresh, AgendaParts
<1>10. Agenda!CatalogInv'
  <2>1. cache'.revision = cache.revision + 1
    BY <1>3, <1>4, AgendaPictured, AgendaParts
  <2> QED
    BY <1>1, <1>3, <1>5, <2>1, AgendaParts DEF Agenda!CatalogInv, Agenda!AgendaShapes, Agenda!Lists
<1>11. Agenda!StoresInv' /\ Agenda!AckedDurable'
  BY <1>1, AgendaParts, AgendaStoresKept, AgendaAckedKept
<1> QED
  BY <1>6, <1>7, <1>9, <1>10, <1>11 DEF Agenda!AgendaIInv

LEMMA AgendaReceiptKeeps ==
  ASSUME Agenda!AgendaIInv, NEW q \in Requests, Agenda!agenda_receipt(q)
  PROVE  Agenda!AgendaIInv'
<1> DEFINE r == db.receipts[q]
<1>1. /\ owner = "up" /\ agendaOp = Agenda!None /\ Agenda!ensure_committed_reads
      /\ UNCHANGED <<db, txn, owner, writesBlocked, legacy, backups, exported, agendaOp, imports, servedList, agendaSpent>>
  BY DEF Agenda!agenda_receipt
<1>2. ~Agenda!Committing /\ ~Agenda!Accepting /\ ~Agenda!Committing' /\ ~Agenda!Accepting'
  BY <1>1 DEF Agenda!Committing, Agenda!Accepting
<1>3. txn = Agenda!None /\ Agenda!View = db /\ cache \in Agenda!Caches /\ cache # Agenda!None
  BY <1>1, <1>2, AgendaAtRest
<1>4. /\ r # Agenda!None /\ cache' = (IF r.revision > cache.revision THEN Agenda!Snapshot(db) ELSE cache)
      /\ told' = (IF r.revision > told THEN r.revision ELSE told) /\ acked' = acked \union {q}
  BY <1>3 DEF Agenda!agenda_receipt, Agenda!Reconciled
<1>5. /\ r.revision \in Nat /\ db.revision \in Nat /\ r.revision =< db.revision
      /\ cache.revision \in Nat /\ told \in Nat /\ told =< cache.revision /\ cache.revision =< db.revision
      /\ (cache.revision = db.revision => cache.items = db.items)
  <2>1. r \in Agenda!Receipts /\ r.revision \in Nat /\ db.revision \in Nat /\ cache.revision \in Nat /\ told \in Nat
    BY <1>3, <1>4, AgendaParts, AgendaStoreTyped DEF Agenda!Receipts, Agenda!AgendaShapes, Agenda!Caches
  <2>2. r.revision =< db.revision
    BY <1>4, AgendaParts DEF Agenda!Sound
  <2>3. told =< cache.revision /\ cache.revision =< db.revision
        /\ (cache.revision = db.revision => cache.items = db.items)
    BY <1>3, AgendaParts DEF Agenda!CacheInv, Agenda!CacheFaithful
  <2> QED
    BY <2>1, <2>2, <2>3
<1>6. /\ cache' \in Agenda!Caches /\ cache' # Agenda!None /\ cache' \in {cache, Agenda!Snapshot(db)}
      /\ told' \in Nat /\ told' =< cache'.revision /\ cache'.revision =< db.revision
      /\ cache.revision =< cache'.revision /\ cache'.revision \in Nat
      /\ (cache'.revision = cache.revision => cache' = cache)
      /\ (cache'.revision = db.revision => cache'.items = db.items)
  <2>1. CASE r.revision > cache.revision
    <3>1. cache' = Agenda!Snapshot(db) /\ cache'.revision = db.revision /\ cache'.items = db.items /\ cache' \in Agenda!Caches
          /\ cache' # Agenda!None
      BY <1>4, <2>1, AgendaPictured, AgendaParts
    <3> HIDE DEF r
    <3> QED
      BY <1>4, <1>5, <2>1, <3>1
  <2>2. CASE ~(r.revision > cache.revision)
    <3>1. cache' = cache
      BY <1>4, <2>2
    <3> HIDE DEF r
    <3> QED
      BY <1>3, <1>4, <1>5, <2>2, <3>1
  <2> QED
    BY <2>1, <2>2
<1>7. Agenda!AgendaShapes'
  BY <1>1, <1>4, <1>6, AgendaParts DEF Agenda!AgendaShapes
<1>8. Agenda!TxnInv'
  BY <1>1, <1>2, <1>3, AgendaParts DEF Agenda!TxnInv
<1>9. Agenda!CacheInv'
  <2>1. Agenda!CacheFaithful'
    BY <1>1, <1>6 DEF Agenda!CacheFaithful
  <2>2. ~writesBlocked' => cache' = Agenda!Snapshot(db')
    <3>1. ~writesBlocked => cache = Agenda!Snapshot(db)
      BY <1>1, <1>2, AgendaParts DEF Agenda!CacheInv
    <3> QED
      BY <1>1, <1>6, <3>1
  <2> QED
    BY <1>1, <1>2, <1>6, <2>1, <2>2 DEF Agenda!CacheInv
<1>10. Agenda!CatalogInv'
  BY <1>1, <1>5, <1>6, AgendaParts DEF Agenda!CatalogInv, Agenda!AgendaShapes, Agenda!Lists
<1>11. Agenda!StoresInv'
  BY <1>1, AgendaParts, AgendaStoresKept
<1>12. Agenda!AckedDurable'
  BY <1>1, <1>4, AgendaParts DEF Agenda!AckedDurable
<1> QED
  BY <1>7, <1>8, <1>9, <1>10, <1>11, <1>12 DEF Agenda!AgendaIInv

LEMMA AgendaListKeeps ==
  ASSUME Agenda!AgendaIInv, Agenda!cached_catalog
  PROVE  Agenda!AgendaIInv'
<1>1. /\ owner = "up"
      /\ servedList' = [key |-> [revision |-> cache.revision, imports |-> imports.revision],
                     items |-> cache.items, events |-> imports.events]
      /\ UNCHANGED <<db, txn, owner, writesBlocked, legacy, backups, exported, agendaOp, cache, imports,
                     told, acked, agendaSpent>>
  BY DEF Agenda!cached_catalog, Agenda!Key
<1>2. cache \in Agenda!Caches /\ cache # Agenda!None /\ imports \in [events : Nat, revision : Nat]
  BY <1>1, AgendaParts, AgendaNoneApart DEF Agenda!CacheInv, Agenda!AgendaShapes
<1>3. servedList' \in Agenda!Lists
  BY <1>1, <1>2 DEF Agenda!Lists, Agenda!Caches
<1>4. Agenda!AgendaShapes'
  BY <1>1, <1>3, AgendaParts DEF Agenda!AgendaShapes
<1>5. Agenda!TxnInv'
  <2>1. Agenda!Committing' <=> Agenda!Committing
    BY <1>1 DEF Agenda!Committing
  <2>2. Agenda!adopt(db)' = Agenda!adopt(db)
    BY <1>1 DEF Agenda!adopt
  <2> QED
    BY <1>1, <2>1, <2>2, AgendaParts DEF Agenda!TxnInv
<1>6. Agenda!CacheInv'
  <2>1. Agenda!CacheFaithful'
    BY <1>1, AgendaParts DEF Agenda!CacheInv, Agenda!CacheFaithful
  <2>2. Agenda!Accepting' <=> Agenda!Accepting
    BY <1>1 DEF Agenda!Accepting
  <2> QED
    BY <1>1, <1>2, <2>1, <2>2, AgendaParts DEF Agenda!CacheInv
<1>7. Agenda!CatalogInv'
  BY <1>1, <1>2 DEF Agenda!CatalogInv, Agenda!Caches
<1>8. Agenda!StoresInv' /\ Agenda!AckedDurable'
  BY <1>1, AgendaParts, AgendaStoresKept, AgendaAckedKept
<1> QED
  BY <1>4, <1>5, <1>6, <1>7, <1>8 DEF Agenda!AgendaIInv

\* While the daemon is down its store and its files are all there is.
LEMMA AgendaOfflineKeeps ==
  ASSUME Agenda!AgendaIInv, owner = "down", UNCHANGED <<txn, owner, writesBlocked, backups, agendaOp, cache, imports, servedList, told>>,
         Agenda!AgendaShapes', Agenda!StoresInv', Agenda!AckedDurable'
  PROVE  Agenda!AgendaIInv'
<1>1. agendaOp' = Agenda!None /\ cache' = Agenda!None /\ servedList' = Agenda!None /\ told' = 0 /\ txn' = Agenda!None /\ owner' = "down"
  BY AgendaNotUp
<1> QED
  BY <1>1, AgendaIdle, AgendaDark DEF Agenda!AgendaIInv

LEMMA AgendaOfflineStepsKeep ==
  ASSUME Agenda!AgendaIInv, Agenda!export \/ Agenda!restore \/ \E c \in {"missing"} \union Agenda!Contents : Agenda!EditLegacy(c)
  PROVE  Agenda!AgendaIInv'
<1>1. CASE Agenda!export
  <2>1. Agenda!AgendaShapes' /\ Agenda!StoresInv' /\ Agenda!AckedDurable'
    <3>1. exported' = db /\ exported' # Agenda!None
      BY <1>1, AgendaNoneApart, AgendaParts DEF Agenda!export, Agenda!Exported
    <3> QED
      BY <1>1, <3>1, AgendaParts, AgendaAckedKept DEF Agenda!export, Agenda!AgendaShapes, Agenda!StoresInv, Agenda!Saved
  <2> QED
    BY <1>1, <2>1, AgendaOfflineKeeps DEF Agenda!export
<1>2. CASE Agenda!restore
  <2>1. Agenda!AgendaShapes' /\ Agenda!StoresInv' /\ Agenda!AckedDurable'
    <3>1. agendaSpent \in Nat /\ agendaSpent' = agendaSpent + 1
      BY <1>2, AgendaParts DEF Agenda!restore, Agenda!Fault, Agenda!AgendaShapes
    <3>2. txn = Agenda!None /\ exported # Agenda!None
      BY <1>2, AgendaNotUp DEF Agenda!restore
    <3>3. agendaSpent' \in Nat
      BY <3>1
    <3>4. Agenda!AgendaShapes'
      BY <1>2, <3>3, AgendaParts DEF Agenda!restore, Agenda!AgendaShapes
    <3> QED
      BY <1>2, <3>2, <3>4, AgendaParts DEF Agenda!restore, Agenda!StoresInv, Agenda!Saved, Agenda!AckedDurable
  <2> QED
    BY <1>2, <2>1, AgendaOfflineKeeps DEF Agenda!restore
<1>3. CASE \E c \in {"missing"} \union Agenda!Contents : Agenda!EditLegacy(c)
  <2>1. /\ owner = "down" /\ legacy' \in {"missing"} \union Agenda!Contents
        /\ UNCHANGED <<db, txn, owner, writesBlocked, backups, exported, agendaOp, cache, imports, servedList, told, acked, agendaSpent>>
    BY <1>3 DEF Agenda!EditLegacy
  <2>2. Agenda!AgendaShapes'
    BY <2>1, AgendaParts DEF Agenda!AgendaShapes
  <2>3. Agenda!StoresInv' /\ Agenda!AckedDurable'
    BY <2>1, AgendaParts, AgendaStoresKept, AgendaAckedKept
  <2> QED
    BY <2>1, <2>2, <2>3, AgendaOfflineKeeps
<1> QED
  BY <1>1, <1>2, <1>3

LEMMA AgendaEmptySound == Agenda!Empty \in Agenda!StoreShapes /\ Agenda!Sound(Agenda!Empty) /\ Agenda!Empty.migrated = "never"
<1>1. /\ Agenda!Empty.items = [i \in Agenda!Ids |-> 0] /\ Agenda!Empty.revision = 0 /\ Agenda!Empty.migrated = "never"
      /\ Agenda!Empty.receipts = [q \in Requests |-> Agenda!None]
  BY DEF Agenda!Empty
<1>2. Agenda!Empty \in Agenda!StoreShapes
  BY DEF Agenda!Empty, Agenda!StoreShapes
<1>3. ASSUME NEW i, NEW kind PROVE Agenda!Of(Agenda!Empty, kind, i) = {}
  BY <1>1 DEF Agenda!Of
<1>4. ASSUME NEW i \in Agenda!Ids PROVE ~Agenda!Made(Agenda!Empty, i) /\ Agenda!Empty.items[i] = 0
  BY <1>1, <1>3 DEF Agenda!Made, Agenda!Contents
<1>5. Agenda!Effects(Agenda!Empty)
  BY <1>4 DEF Agenda!Effects
<1>6. Agenda!PatchesDiffer(Agenda!Empty)
  BY <1>1 DEF Agenda!PatchesDiffer
<1>7. \A q \in Requests : Agenda!Empty.receipts[q] = Agenda!None
  BY <1>1
<1> QED
  BY <1>1, <1>2, <1>5, <1>6, <1>7 DEF Agenda!Sound

LEMMA AgendaInitHolds == Agenda!AgendaInit => Agenda!AgendaIInv
<1> SUFFICES ASSUME Agenda!AgendaInit PROVE Agenda!AgendaIInv
  OBVIOUS
<1>1. Agenda!AgendaShapes
  BY AgendaEmptySound DEF Agenda!AgendaInit, Agenda!AgendaShapes, Agenda!Ops, Agenda!Contents
<1>2. Agenda!TxnInv
  BY DEF Agenda!AgendaInit, Agenda!TxnInv, Agenda!Committing
<1>3. Agenda!StoresInv
  BY AgendaEmptySound DEF Agenda!AgendaInit, Agenda!StoresInv, Agenda!Saved, Agenda!Contents
<1>4. Agenda!CacheInv /\ Agenda!CatalogInv
  BY DEF Agenda!AgendaInit, Agenda!CacheInv, Agenda!CatalogInv, Agenda!CacheFaithful, Agenda!Accepting
<1>5. Agenda!AckedDurable
  BY DEF Agenda!AgendaInit, Agenda!AckedDurable
<1> QED
  BY <1>1, <1>2, <1>3, <1>4, <1>5 DEF Agenda!AgendaIInv

LEMMA AgendaSafeFollows == Agenda!AgendaIInv => Agenda!AgendaSafe
<1> SUFFICES ASSUME Agenda!AgendaIInv PROVE Agenda!AgendaSafe
  OBVIOUS
<1>1. Agenda!EffectsMatchReceipts /\ Agenda!NoLostUpdate
  BY AgendaParts DEF Agenda!Sound, Agenda!EffectsMatchReceipts, Agenda!NoLostUpdate
<1>2. Agenda!CacheFaithful
  BY AgendaParts DEF Agenda!CacheInv
<1>3. Agenda!ListCurrent
  BY AgendaParts DEF Agenda!CatalogInv, Agenda!ListCurrent, Agenda!Key
<1>4. Agenda!BackedUp
  BY AgendaParts DEF Agenda!Saved, Agenda!BackedUp
<1> QED
  BY <1>1, <1>2, <1>3, <1>4, AgendaParts DEF Agenda!AgendaSafe

LEMMA AgendaNextKeeps ==
  ASSUME Agenda!AgendaConstantsOK, Agenda!AgendaIInv, [Agenda!AgendaNext]_(Agenda!agendaVars)
  PROVE  Agenda!AgendaIInv'
<1>1. CASE UNCHANGED Agenda!agendaVars
  <2>1. UNCHANGED <<db, txn, owner, writesBlocked, legacy, backups, exported, agendaOp, cache, imports, servedList, told, acked, agendaSpent>>
    BY <1>1 DEF Agenda!agendaVars
  <2>2. Agenda!AgendaShapes' /\ Agenda!StoresInv' /\ Agenda!CatalogInv' /\ Agenda!AckedDurable'
    BY <2>1, AgendaParts, AgendaStoresKept, AgendaCatalogKept, AgendaAckedKept DEF Agenda!AgendaShapes
  <2>3. Agenda!TxnInv'
    <3>1. (Agenda!Committing' <=> Agenda!Committing) /\ Agenda!adopt(db)' = Agenda!adopt(db)
      BY <2>1 DEF Agenda!Committing, Agenda!adopt
    <3> QED
      BY <2>1, <3>1, AgendaParts DEF Agenda!TxnInv
  <2>4. Agenda!CacheInv'
    <3>1. (Agenda!Accepting' <=> Agenda!Accepting) /\ (Agenda!CacheFaithful' <=> Agenda!CacheFaithful)
      BY <2>1 DEF Agenda!Accepting, Agenda!CacheFaithful
    <3> QED
      BY <2>1, <3>1, AgendaParts DEF Agenda!CacheInv
  <2> QED
    BY <2>2, <2>3, <2>4 DEF Agenda!AgendaIInv
<1>2. CASE Agenda!shutdown \/ Agenda!Crash
  <2>1. Agenda!Down /\ UNCHANGED <<db, legacy, backups, exported, acked>> /\ agendaSpent' = agendaSpent + 1
    BY <1>2 DEF Agenda!shutdown, Agenda!Crash, Agenda!Fault
  <2>2. agendaSpent' \in Nat
    BY <2>1, AgendaParts DEF Agenda!AgendaShapes
  <2> QED
    BY <2>1, <2>2, AgendaDownKeeps
<1> QED
  BY <1>1, <1>2, AgendaOpenKeeps, AgendaMigrateKeeps, AgendaMutationKeeps, AgendaImportKeeps, AgendaMutateKeeps, AgendaCommitKeeps, AgendaAcceptKeeps,
     AgendaImportedKeeps, AgendaReceiptKeeps, AgendaListKeeps, AgendaOfflineStepsKeep DEF Agenda!AgendaNext

\* Whatever is resent, lost, rolled back, crashed or restored, the durable items are
\* what the durable receipts and the one adoption say, no patch overwrote another,
\* and what clients were told or shown holds.
THEOREM AgendaEffectsMatchReceipts == ASSUME Agenda!AgendaConstantsOK PROVE Agenda!AgendaSpec => []Agenda!AgendaSafe
<1>1. Agenda!AgendaIInv /\ [Agenda!AgendaNext]_(Agenda!agendaVars) => Agenda!AgendaIInv'
  BY AgendaNextKeeps
<1> QED
  BY <1>1, AgendaInitHolds, AgendaSafeFollows, PTL DEF Agenda!AgendaSpec

\* What stands beside the database is what a legacy file held.
LEMMA AgendaBackups ==
  /\ Agenda!AgendaInit => Agenda!Backups
  /\ Agenda!AgendaIInv /\ Agenda!Backups /\ [Agenda!AgendaNext]_(Agenda!agendaVars) => Agenda!Backups'
<1> USE DEF Agenda!Backups
<1>1. Agenda!AgendaInit => Agenda!Backups
  BY DEF Agenda!AgendaInit
<1>2. ASSUME Agenda!AgendaIInv, Agenda!Backups, [Agenda!AgendaNext]_(Agenda!agendaVars) PROVE Agenda!Backups'
  <2>1. CASE Agenda!open_agenda
    <3>1. legacy \in {"missing"} \union Agenda!Contents
      BY <1>2 DEF Agenda!AgendaIInv, Agenda!AgendaShapes
    <3>2. backups' = backups \/ backups' = backups \union ({legacy} \ {"missing"})
      BY <2>1 DEF Agenda!open_agenda
    <3> QED
      BY <1>2, <3>1, <3>2
  <2>2. CASE Agenda!AgendaNext /\ ~Agenda!open_agenda
    <3>1. backups' = backups
      BY <2>2 DEF Agenda!AgendaNext, Agenda!migrate_legacy, Agenda!shutdown, Agenda!Crash, Agenda!agenda_mutation,
         Agenda!accept_calendar_imports, Agenda!mutate, Agenda!commit, Agenda!accept_agenda, Agenda!import_accepted,
         Agenda!agenda_receipt, Agenda!cached_catalog, Agenda!export, Agenda!restore, Agenda!EditLegacy
    <3> QED
      BY <1>2, <3>1
  <2>3. CASE UNCHANGED Agenda!agendaVars
    BY <1>2, <2>3 DEF Agenda!agendaVars
  <2> QED
    BY <1>2, <2>1, <2>2, <2>3
<1> QED
  BY <1>1, <1>2

LEMMA AgendaTypesFollow == Agenda!AgendaIInv /\ Agenda!Backups => Agenda!AgendaTypeOK
BY DEF Agenda!AgendaIInv, Agenda!CacheInv, Agenda!AgendaTypeOK

HIDE DEF db, txn, owner, writesBlocked, legacy, backups, exported, agendaOp, cache, imports, servedList, told, acked, agendaSpent

-----------------------------------------------------------------------------
(* The activity feed (ActivityFeed).                                          *)

\* The variables of ActivityFeed.
data == r1
feedFile == r2
fenced == r3
published == r4
guard == r5
draft == r6
busy == r7
refresh == r8
feedAsked == r9
edit == r10
mutation == r11
kept == r12
places == r13
edits == r14
changes == r15
USE DEF data, feedFile, fenced, published, guard, draft, busy, refresh, feedAsked, edit, mutation, kept, places, edits, changes

LEMMA FeedStatesFields ==
  ASSUME NEW s \in Feed!States
  PROVE  /\ s.syncing \in BOOLEAN /\ s.agenda \in Nat /\ s.items \in Nat /\ s.events \in Nat
         /\ s.cities \subseteq Feed!Cities /\ s.forecasts \subseteq Nat /\ s # Feed!None
<1>1. s.syncing \in BOOLEAN /\ s.agenda \in Nat /\ s.items \in Nat /\ s.events \in Nat
      /\ s.cities \subseteq Feed!Cities /\ s.forecasts \subseteq Nat
  BY DEF Feed!States
<1>2. DOMAIN s = {"syncing", "agenda", "items", "events", "cities", "forecasts"} /\ DOMAIN Feed!None = {"none"}
  BY DEF Feed!States, Feed!None
<1> QED
  BY <1>1, <1>2

LEMMA FeedStatesEqual ==
  ASSUME NEW s \in Feed!States, NEW t \in Feed!States, s.syncing = t.syncing, s.agenda = t.agenda, s.items = t.items,
         s.events = t.events, s.cities = t.cities, s.forecasts = t.forecasts
  PROVE  s = t
BY DEF Feed!States

LEMMA FeedNotIdle ==
  /\ Feed!Idle.at = "idle"
  /\ \A r \in Feed!Rounds : r.at = "idle" => r = Feed!Idle
  /\ \A c \in Feed!Calls : c.at = "idle" => c = Feed!Idle
BY DEF Feed!Idle, Feed!Rounds, Feed!Calls

\* What the client of an edit may hold at each of its steps.
LEMMA FeedCallTyped ==
  ASSUME NEW c \in Feed!Calls
  PROVE  /\ c.at \in {"idle", "locking", "trim", "publish", "publishing", "request", "requesting"}
         /\ c.at = "locking" => /\ c.kind \in {"add", "remove"} /\ c.revision \in Nat
                                /\ c.kind = "add" => c.place \in FeedPlaces
                                /\ c.kind = "remove" => c.city \in Feed!Cities
         /\ c.at \notin {"idle", "locking"} => c.kind \in {"add", "remove"}
BY DEF Feed!Calls, Feed!Idle

\* What is published, up to the spinner, is the projection exactly when it shows the data.
LEMMA FeedShowsProjection ==
  ASSUME Feed!FeedShapes
  PROVE  /\ Feed!Projection \in Feed!States /\ Feed!Shows(Feed!Projection)
         /\ \A s \in Feed!States : Feed!Shows(s) => [s EXCEPT !.syncing = FALSE] = Feed!Projection
<1>1. Feed!Projection \in Feed!States
  BY DEF Feed!FeedShapes, Feed!Projection, Feed!States, Feed!Lists
<1>2. Feed!Shows(Feed!Projection)
  BY DEF Feed!Projection, Feed!Shows
<1>3. ASSUME NEW s \in Feed!States, Feed!Shows(s) PROVE [s EXCEPT !.syncing = FALSE] = Feed!Projection
  <2> DEFINE t == [s EXCEPT !.syncing = FALSE]
  <2>1. /\ t \in Feed!States /\ t.syncing = FALSE /\ t.agenda = s.agenda /\ t.items = s.items
        /\ t.events = s.events /\ t.cities = s.cities /\ t.forecasts = s.forecasts
    BY DEF Feed!States
  <2>2. Feed!Projection.syncing = FALSE /\ Feed!Shows(Feed!Projection)
    BY <1>2 DEF Feed!Projection
  <2> HIDE DEF t
  <2> QED
    <3>1. t.syncing = Feed!Projection.syncing
      BY <2>1, <2>2
    <3>2. /\ t.agenda = Feed!Projection.agenda /\ t.items = Feed!Projection.items /\ t.events = Feed!Projection.events
          /\ t.cities = Feed!Projection.cities /\ t.forecasts = Feed!Projection.forecasts
      BY <1>3, <2>1, <2>2 DEF Feed!Shows
    <3>3. t = Feed!Projection
      BY <1>1, <2>1, <3>1, <3>2, FeedStatesEqual
    <3> QED
      BY <3>3 DEF t
<1> QED
  BY <1>1, <1>2, <1>3

LEMMA FeedSpinnerShows ==
  ASSUME Feed!FeedShapes
  PROVE  /\ Feed!Syncing \in Feed!States /\ (Feed!Shows(published) => Feed!Shows(Feed!Syncing))
         /\ Feed!Clock \in Feed!States /\ (Feed!Shows(published) => Feed!Shows(Feed!Clock))
BY DEF Feed!FeedShapes, Feed!Syncing, Feed!Clock, Feed!States, Feed!Shows

LEMMA FeedSafeFollows == ASSUME Feed!FeedConstantsOK, Feed!FeedIInv PROVE Feed!FeedSafe
<1>1. Feed!PublishedCurrent
  <2>1. SUFFICES ASSUME ~Feed!Owing PROVE [published EXCEPT !.syncing = FALSE] = Feed!Projection
    BY DEF Feed!PublishedCurrent
  <2>2. guard = "free" /\ mutation = "none" /\ refresh = Feed!Idle
        /\ \A e \in FeedEditors : edit[e].at \in {"idle", "locking"}
    BY <2>1 DEF Feed!Owing
  <2>3. ~Feed!Debt
    BY <2>2, FeedNotIdle DEF Feed!Debt
  <2> QED
    BY <2>2, <2>3, FeedShowsProjection DEF Feed!FeedIInv, Feed!ShownInv, Feed!FeedShapes
<1>2. Feed!NoGhostForecast
  BY DEF Feed!FeedIInv, Feed!BusyInv, Feed!NoGhostForecast, Feed!FeedConstantsOK
<1> QED
  BY <1>1, <1>2 DEF Feed!FeedIInv, Feed!CatalogInv, Feed!FeedSafe

LEMMA FeedInitHolds == ASSUME Feed!FeedConstantsOK, Feed!FeedInit PROVE Feed!FeedIInv
<1>1. Feed!FirstCatalog \in Feed!Lists /\ Feed!FirstCatalog.cities = {}
  BY DEF Feed!FirstCatalog, Feed!Lists
<1>2. data \in [agenda : Nat, events : Nat, catalog : Feed!Lists, forecasts : SUBSET Nat]
      /\ data.catalog = Feed!FirstCatalog /\ data.forecasts = {}
  BY <1>1 DEF Feed!FeedInit
<1>3. Feed!Projection \in Feed!States /\ Feed!Shows(Feed!Projection)
  BY <1>2 DEF Feed!Projection, Feed!States, Feed!Lists, Feed!Shows
<1>4. Feed!FeedShapes
  BY <1>1, <1>2, <1>3 DEF Feed!FeedInit, Feed!FeedShapes, Feed!Rounds, Feed!Calls
<1>5. Feed!GuardInv /\ Feed!ShownInv
  BY <1>3 DEF Feed!FeedInit, Feed!GuardInv, Feed!ShownInv, Feed!Publishers, Feed!FeedConstantsOK
<1>6. Feed!BusyInv
  BY <1>2, FeedNotIdle DEF Feed!FeedInit, Feed!BusyInv
<1>7. Feed!CatalogInv
  BY <1>1, <1>2 DEF Feed!FeedInit, Feed!CatalogInv, Feed!CitiesKept
<1> QED
  BY <1>4, <1>5, <1>6, <1>7 DEF Feed!FeedIInv

\* A publisher that enters holds the guard with the state it has read.
LEMMA FeedEnterGuard ==
  ASSUME Feed!FeedIInv, Feed!FeedConstantsOK, NEW who \in Feed!Publishers, NEW state \in Feed!States, Feed!Enter(who, state)
  PROVE  /\ guard = "free" /\ guard' = who /\ guard' # "free" /\ guard' \in Feed!Publishers
         /\ draft' \in [Feed!Publishers -> {Feed!None} \union Feed!States]
         /\ draft'[guard'] = state /\ Feed!GuardInv'
<1>1. /\ guard = "free" /\ guard' = who /\ draft' = [draft EXCEPT ![who] = state]
      /\ draft \in [Feed!Publishers -> {Feed!None} \union Feed!States]
  BY DEF Feed!Enter, Feed!FeedIInv, Feed!FeedShapes
<1>2. "free" \notin Feed!Publishers
  BY DEF Feed!Publishers, Feed!FeedConstantsOK
<1>3. state # Feed!None
  BY FeedStatesFields
<1> QED
  BY <1>1, <1>2, <1>3 DEF Feed!FeedIInv, Feed!GuardInv

\* A publisher that stores held the guard, and its state is what is shown now.
LEMMA FeedStoreGuard ==
  ASSUME Feed!FeedIInv, Feed!FeedConstantsOK, NEW who \in Feed!Publishers, Feed!Store(who)
  PROVE  /\ guard # "free" /\ guard = who /\ guard' = "free"
         /\ published' = draft[guard] /\ published' \in Feed!States
         /\ draft' \in [Feed!Publishers -> {Feed!None} \union Feed!States] /\ Feed!GuardInv'
<1>1. /\ draft[who] # Feed!None /\ published' = draft[who] /\ guard' = "free"
      /\ draft' = [draft EXCEPT ![who] = Feed!None] /\ draft \in [Feed!Publishers -> {Feed!None} \union Feed!States]
  BY DEF Feed!Store, Feed!FeedIInv, Feed!FeedShapes
<1>2. "free" \notin Feed!Publishers
  BY DEF Feed!Publishers, Feed!FeedConstantsOK
<1>3. guard = who
  BY <1>1 DEF Feed!FeedIInv, Feed!GuardInv
<1> QED
  BY <1>1, <1>2, <1>3 DEF Feed!FeedIInv, Feed!GuardInv

\* A step that leaves the data and the debts alone, except that it enters, stores or
\* does neither, keeps what is owed.
LEMMA FeedEnterShown ==
  ASSUME Feed!FeedIInv, Feed!FeedConstantsOK, NEW who \in Feed!Publishers, NEW state \in Feed!States, Feed!Enter(who, state),
         UNCHANGED <<data, published>>, Feed!Debt' \/ Feed!Shows(state)
  PROVE  Feed!ShownInv'
BY FeedEnterGuard DEF Feed!ShownInv, Feed!Shows

LEMMA FeedStoreShown ==
  ASSUME Feed!FeedIInv, Feed!FeedConstantsOK, NEW who \in Feed!Publishers, Feed!Store(who),
         UNCHANGED data, Feed!Debt => Feed!Debt'
  PROVE  Feed!ShownInv'
BY FeedStoreGuard DEF Feed!FeedIInv, Feed!ShownInv, Feed!Shows

LEMMA FeedPublishersKnown ==
  /\ {"clock", "mutation", "request", "refresh"} \subseteq Feed!Publishers
  /\ FeedEditors \subseteq Feed!Publishers
BY DEF Feed!Publishers

LEMMA FeedClockDueKeeps == ASSUME Feed!FeedConstantsOK, Feed!FeedIInv, Feed!clock_due PROVE Feed!FeedIInv'
<1>1. /\ Feed!Enter("clock", Feed!Clock)
      /\ UNCHANGED <<data, feedFile, fenced, published, busy, refresh, mutation, edit, kept, places, changes>>
  BY DEF Feed!clock_due
<1>2. "clock" \in Feed!Publishers /\ Feed!Clock \in Feed!States /\ (Feed!Shows(published) => Feed!Shows(Feed!Clock))
  BY FeedPublishersKnown, FeedSpinnerShows DEF Feed!FeedIInv
<1>3. Feed!Debt' \/ Feed!Shows(Feed!Clock)
  BY <1>1, <1>2 DEF Feed!FeedIInv, Feed!ShownInv, Feed!Debt, Feed!Enter
<1>4. Feed!ShownInv' /\ Feed!GuardInv' /\ guard' \in Feed!Publishers /\ draft' \in [Feed!Publishers -> {Feed!None} \union Feed!States]
  BY <1>1, <1>2, <1>3, FeedEnterShown, FeedEnterGuard
<1> QED
  BY <1>1, <1>4 DEF Feed!FeedIInv, Feed!FeedShapes, Feed!BusyInv, Feed!CatalogInv, Feed!CitiesKept

LEMMA FeedPublishClockKeeps == ASSUME Feed!FeedConstantsOK, Feed!FeedIInv, Feed!publish_clock PROVE Feed!FeedIInv'
<1>1. /\ Feed!Store("clock")
      /\ UNCHANGED <<data, feedFile, fenced, busy, refresh, mutation, edit, kept, places, changes>>
  BY DEF Feed!publish_clock
<1>2. "clock" \in Feed!Publishers /\ (Feed!Debt => Feed!Debt')
  BY <1>1, FeedPublishersKnown DEF Feed!Debt
<1>3. /\ Feed!ShownInv' /\ Feed!GuardInv' /\ guard' = "free" /\ published' \in Feed!States
      /\ draft' \in [Feed!Publishers -> {Feed!None} \union Feed!States]
  BY <1>1, <1>2, FeedStoreShown, FeedStoreGuard
<1> QED
  BY <1>1, <1>3 DEF Feed!FeedIInv, Feed!FeedShapes, Feed!BusyInv, Feed!CatalogInv, Feed!CitiesKept

LEMMA FeedMutateKeeps == ASSUME Feed!FeedConstantsOK, Feed!FeedIInv, Feed!mutate PROVE Feed!FeedIInv'
<1>1. /\ data' = [data EXCEPT !.agenda = @ + 1] /\ mutation' = "committed" /\ changes' = changes + 1
      /\ UNCHANGED <<feedFile, fenced, published, guard, draft, busy, refresh, edit, kept, places>>
  BY DEF Feed!mutate, Feed!Change
<1>2. /\ data' \in [agenda : Nat, events : Nat, catalog : Feed!Lists, forecasts : SUBSET Nat]
      /\ data'.catalog = data.catalog /\ data'.forecasts = data.forecasts /\ changes' \in Nat
  BY <1>1 DEF Feed!FeedIInv, Feed!FeedShapes
<1>3. Feed!ShownInv'
  BY <1>1 DEF Feed!ShownInv, Feed!Debt
<1> QED
  BY <1>1, <1>2, <1>3 DEF Feed!FeedIInv, Feed!FeedShapes, Feed!GuardInv, Feed!BusyInv, Feed!CatalogInv, Feed!CitiesKept

LEMMA FeedPublishMutationKeeps == ASSUME Feed!FeedConstantsOK, Feed!FeedIInv, Feed!publish_mutation PROVE Feed!FeedIInv'
<1>1. UNCHANGED <<data, feedFile, fenced, busy, refresh, edit, kept, places, changes>>
  BY DEF Feed!publish_mutation
<1>2. CASE mutation = "committed" /\ Feed!Enter("mutation", Feed!Projection) /\ UNCHANGED published
  <2>1. "mutation" \in Feed!Publishers /\ Feed!Projection \in Feed!States /\ Feed!Shows(Feed!Projection)
    BY FeedPublishersKnown, FeedShowsProjection DEF Feed!FeedIInv
  <2>2. Feed!ShownInv' /\ Feed!GuardInv' /\ guard' \in Feed!Publishers /\ draft' \in [Feed!Publishers -> {Feed!None} \union Feed!States]
    BY <1>1, <1>2, <2>1, FeedEnterShown, FeedEnterGuard
  <2> QED
    BY <1>1, <1>2, <2>2 DEF Feed!FeedIInv, Feed!FeedShapes, Feed!BusyInv, Feed!CatalogInv, Feed!CitiesKept
<1>3. CASE mutation = "publishing" /\ Feed!Store("mutation")
  <2>1. "mutation" \in Feed!Publishers /\ (Feed!Debt => Feed!Debt')
    BY <1>1, <1>3, FeedPublishersKnown DEF Feed!Debt
  <2>2. /\ Feed!ShownInv' /\ Feed!GuardInv' /\ guard' = "free" /\ published' \in Feed!States
        /\ draft' \in [Feed!Publishers -> {Feed!None} \union Feed!States]
    BY <1>1, <1>3, <2>1, FeedStoreShown, FeedStoreGuard
  <2> QED
    BY <1>1, <2>2 DEF Feed!FeedIInv, Feed!FeedShapes, Feed!BusyInv, Feed!CatalogInv, Feed!CitiesKept
<1> QED
  BY <1>2, <1>3 DEF Feed!publish_mutation

LEMMA FeedRequestRefreshKeeps == ASSUME Feed!FeedConstantsOK, Feed!FeedIInv, Feed!request_refresh PROVE Feed!FeedIInv'
<1>1. /\ Feed!Enter("request", Feed!Syncing) /\ changes' = changes + 1
      /\ UNCHANGED <<data, feedFile, fenced, published, busy, refresh, mutation, edit, kept, places>>
  BY DEF Feed!request_refresh, Feed!Change
<1>2. "request" \in Feed!Publishers /\ Feed!Syncing \in Feed!States /\ (Feed!Shows(published) => Feed!Shows(Feed!Syncing))
  BY FeedPublishersKnown, FeedSpinnerShows DEF Feed!FeedIInv
<1>3. Feed!Debt' \/ Feed!Shows(Feed!Syncing)
  BY <1>1, <1>2 DEF Feed!FeedIInv, Feed!ShownInv, Feed!Debt, Feed!Enter
<1>4. Feed!ShownInv' /\ Feed!GuardInv' /\ guard' \in Feed!Publishers /\ draft' \in [Feed!Publishers -> {Feed!None} \union Feed!States]
  BY <1>1, <1>2, <1>3, FeedEnterShown, FeedEnterGuard
<1> QED
  BY <1>1, <1>4 DEF Feed!FeedIInv, Feed!FeedShapes, Feed!BusyInv, Feed!CatalogInv, Feed!CitiesKept

LEMMA FeedSpawnRefreshKeeps == ASSUME Feed!FeedConstantsOK, Feed!FeedIInv, Feed!spawn_refresh PROVE Feed!FeedIInv'
<1>1. /\ Feed!Store("request")
      /\ UNCHANGED <<data, feedFile, fenced, busy, refresh, mutation, edit, kept, places, changes>>
  BY DEF Feed!spawn_refresh
<1>2. "request" \in Feed!Publishers /\ (Feed!Debt => Feed!Debt')
  BY <1>1, FeedPublishersKnown DEF Feed!Debt
<1>3. /\ Feed!ShownInv' /\ Feed!GuardInv' /\ guard' = "free" /\ published' \in Feed!States
      /\ draft' \in [Feed!Publishers -> {Feed!None} \union Feed!States]
  BY <1>1, <1>2, FeedStoreShown, FeedStoreGuard
<1> QED
  BY <1>1, <1>3 DEF Feed!FeedIInv, Feed!FeedShapes, Feed!BusyInv, Feed!CatalogInv, Feed!CitiesKept

LEMMA FeedRefreshStartsKeeps == ASSUME Feed!FeedConstantsOK, Feed!FeedIInv, Feed!refresh_starts \/ Feed!refresh_dropped PROVE Feed!FeedIInv'
<1>1. UNCHANGED <<data, feedFile, fenced, published, guard, draft, mutation, edit, kept, places, changes>>
  BY DEF Feed!refresh_starts, Feed!refresh_dropped
<1>2. CASE Feed!refresh_starts
  <2>1. /\ busy = "free" /\ busy' = "refresh" /\ refresh.at = "idle"
        /\ refresh' \in Feed!Rounds /\ refresh'.at = "sync"
    BY <1>2, FeedNotIdle DEF Feed!refresh_starts, Feed!Rounds
  <2>2. Feed!ShownInv'
    BY <1>1, <2>1 DEF Feed!FeedIInv, Feed!ShownInv, Feed!Debt, Feed!Shows
  <2>3. Feed!BusyInv'
    BY <1>1, <2>1 DEF Feed!FeedIInv, Feed!BusyInv, Feed!FeedConstantsOK
  <2> QED
    BY <1>1, <2>1, <2>2, <2>3 DEF Feed!FeedIInv, Feed!FeedShapes, Feed!GuardInv, Feed!CatalogInv, Feed!CitiesKept
<1>3. CASE Feed!refresh_dropped
  <2>1. UNCHANGED <<busy, refresh>>
    BY <1>3 DEF Feed!refresh_dropped
  <2> QED
    BY <1>1, <2>1 DEF Feed!FeedIInv, Feed!FeedShapes, Feed!GuardInv, Feed!ShownInv, Feed!Debt, Feed!Shows, Feed!BusyInv, Feed!CatalogInv, Feed!CitiesKept
<1> QED
  BY <1>2, <1>3

LEMMA FeedPublishSyncingKeeps == ASSUME Feed!FeedConstantsOK, Feed!FeedIInv, Feed!publish_syncing PROVE Feed!FeedIInv'
<1>1. UNCHANGED <<data, feedFile, fenced, busy, mutation, edit, kept, places, changes>>
  BY DEF Feed!publish_syncing
<1>2. "refresh" \in Feed!Publishers
  BY FeedPublishersKnown
<1>3. CASE refresh.at = "sync" /\ Feed!Enter("refresh", Feed!Syncing) /\ refresh' = [at |-> "syncing"] /\ UNCHANGED published
  <2>1. Feed!Syncing \in Feed!States /\ (Feed!Shows(published) => Feed!Shows(Feed!Syncing))
    BY FeedSpinnerShows DEF Feed!FeedIInv
  <2>2. refresh' \in Feed!Rounds /\ refresh'.at = "syncing"
    BY <1>3 DEF Feed!Rounds
  <2>3. Feed!Debt' \/ Feed!Shows(Feed!Syncing)
    BY <1>1, <1>3, <2>1, <2>2 DEF Feed!FeedIInv, Feed!ShownInv, Feed!Debt, Feed!Enter
  <2>4. Feed!ShownInv' /\ Feed!GuardInv' /\ guard' \in Feed!Publishers /\ draft' \in [Feed!Publishers -> {Feed!None} \union Feed!States]
    BY <1>1, <1>2, <1>3, <2>1, <2>3, FeedEnterShown, FeedEnterGuard
  <2> QED
    BY <1>1, <1>3, <2>2, <2>4 DEF Feed!FeedIInv, Feed!FeedShapes, Feed!BusyInv, Feed!CatalogInv, Feed!CitiesKept
<1>4. CASE refresh.at = "syncing" /\ Feed!Store("refresh") /\ refresh' = [at |-> "load"]
  <2>1. refresh' \in Feed!Rounds /\ refresh'.at = "load"
    BY <1>4 DEF Feed!Rounds
  <2>2. Feed!Debt => Feed!Debt'
    BY <1>1, <1>4, <2>1 DEF Feed!Debt
  <2>3. /\ Feed!ShownInv' /\ Feed!GuardInv' /\ guard' = "free" /\ published' \in Feed!States
        /\ draft' \in [Feed!Publishers -> {Feed!None} \union Feed!States]
    BY <1>1, <1>2, <1>4, <2>2, FeedStoreShown, FeedStoreGuard
  <2> QED
    BY <1>1, <1>4, <2>1, <2>3 DEF Feed!FeedIInv, Feed!FeedShapes, Feed!BusyInv, Feed!CatalogInv, Feed!CitiesKept
<1> QED
  BY <1>3, <1>4 DEF Feed!publish_syncing

LEMMA FeedLoadSourcesKeeps == ASSUME Feed!FeedConstantsOK, Feed!FeedIInv, Feed!load_sources PROVE Feed!FeedIInv'
<1>1. /\ UNCHANGED <<feedFile, fenced, published, guard, draft, busy, mutation, edit, kept, places>>
      /\ refresh.at = "load" /\ refresh' \in {[at |-> "weather"], [at |-> "publish"]}
  BY DEF Feed!load_sources
<1>2. refresh' \in Feed!Rounds /\ refresh'.at \in {"weather", "publish"}
  BY <1>1 DEF Feed!Rounds
<1>3. changes' \in Nat /\ changes + 1 \in Nat
  BY DEF Feed!load_sources, Feed!Change, Feed!FeedIInv, Feed!FeedShapes
<1>4. \/ data' = data
      \/ data' = [data EXCEPT !.events = changes + 1, !.agenda = @ + 1]
  BY DEF Feed!load_sources
<1>5. /\ data' \in [agenda : Nat, events : Nat, catalog : Feed!Lists, forecasts : SUBSET Nat]
      /\ data'.catalog = data.catalog /\ data'.forecasts = data.forecasts
  <2>1. /\ data \in [agenda : Nat, events : Nat, catalog : Feed!Lists, forecasts : SUBSET Nat]
        /\ data.agenda + 1 \in Nat
    BY DEF Feed!FeedIInv, Feed!FeedShapes
  <2>2. CASE data' = [data EXCEPT !.events = changes + 1, !.agenda = @ + 1]
    <3> DEFINE event == changes + 1
               next == data.agenda + 1
    <3>1. data' = [data EXCEPT !.events = event, !.agenda = next] /\ event \in Nat /\ next \in Nat
      BY <1>3, <2>1, <2>2
    <3> HIDE DEF event, next
    <3> QED
      BY <2>1, <3>1
  <2> QED
    BY <1>4, <2>1, <2>2
<1>6. Feed!ShownInv'
  BY <1>2 DEF Feed!ShownInv, Feed!Debt
<1>7. Feed!BusyInv'
  BY <1>1, <1>2, <1>5 DEF Feed!FeedIInv, Feed!BusyInv
<1> QED
  BY <1>1, <1>2, <1>3, <1>5, <1>6, <1>7 DEF Feed!FeedIInv, Feed!FeedShapes, Feed!GuardInv, Feed!CatalogInv, Feed!CitiesKept

LEMMA FeedIdsTyped == ASSUME NEW c \in Feed!Lists PROVE Feed!Ids(c) \subseteq Nat
BY DEF Feed!Lists, Feed!Ids, Feed!Cities

LEMMA FeedRefreshWeatherKeeps == ASSUME Feed!FeedConstantsOK, Feed!FeedIInv, Feed!refresh_weather PROVE Feed!FeedIInv'
<1>1. UNCHANGED <<feedFile, fenced, published, guard, draft, busy, mutation, edit, kept, places, changes>>
  BY DEF Feed!refresh_weather
<1>2. CASE /\ refresh.at = "weather" /\ UNCHANGED data
           /\ refresh' = [at |-> "fetch", cities |-> Feed!Ids(data.catalog)]
  <2>1. Feed!Ids(data.catalog) \in SUBSET Nat
    BY FeedIdsTyped DEF Feed!FeedIInv, Feed!FeedShapes
  <2>2. refresh' \in Feed!Rounds /\ refresh'.at = "fetch" /\ refresh'.cities = Feed!Ids(data.catalog)
    BY <1>2, <2>1 DEF Feed!Rounds
  <2>3. Feed!ShownInv'
    BY <2>2 DEF Feed!ShownInv, Feed!Debt
  <2>4. Feed!BusyInv'
    BY <1>1, <1>2, <2>2 DEF Feed!FeedIInv, Feed!BusyInv
  <2> QED
    BY <1>1, <1>2, <2>2, <2>3, <2>4 DEF Feed!FeedIInv, Feed!FeedShapes, Feed!GuardInv, Feed!CatalogInv, Feed!CitiesKept
<1>3. CASE /\ refresh.at = "fetch" /\ data' = [data EXCEPT !.forecasts = refresh.cities]
           /\ refresh' = [at |-> "publish"]
  <2>1. refresh.cities = Feed!Ids(data.catalog) /\ refresh.cities \in SUBSET Nat
    BY <1>3, FeedIdsTyped DEF Feed!FeedIInv, Feed!FeedShapes, Feed!BusyInv
  <2>2. /\ data' \in [agenda : Nat, events : Nat, catalog : Feed!Lists, forecasts : SUBSET Nat]
        /\ data'.catalog = data.catalog /\ data'.forecasts = Feed!Ids(data.catalog)
    BY <1>3, <2>1 DEF Feed!FeedIInv, Feed!FeedShapes
  <2>3. refresh' \in Feed!Rounds /\ refresh'.at = "publish"
    BY <1>3 DEF Feed!Rounds
  <2>4. Feed!ShownInv'
    BY <2>3 DEF Feed!ShownInv, Feed!Debt
  <2>5. Feed!BusyInv'
    BY <1>1, <1>3, <2>2, <2>3 DEF Feed!FeedIInv, Feed!BusyInv
  <2> QED
    BY <1>1, <2>2, <2>3, <2>4, <2>5 DEF Feed!FeedIInv, Feed!FeedShapes, Feed!GuardInv, Feed!CatalogInv, Feed!CitiesKept
<1> QED
  BY <1>2, <1>3 DEF Feed!refresh_weather

LEMMA FeedPublishRefreshKeeps == ASSUME Feed!FeedConstantsOK, Feed!FeedIInv, Feed!publish_refresh PROVE Feed!FeedIInv'
<1>1. UNCHANGED <<data, feedFile, fenced, mutation, edit, kept, places, changes>>
  BY DEF Feed!publish_refresh
<1>2. "refresh" \in Feed!Publishers
  BY FeedPublishersKnown
<1>3. CASE /\ refresh.at = "publish" /\ Feed!Enter("refresh", Feed!Projection) /\ refresh' = [at |-> "publishing"]
           /\ UNCHANGED <<published, busy>>
  <2>1. Feed!Projection \in Feed!States /\ Feed!Shows(Feed!Projection)
    BY FeedShowsProjection DEF Feed!FeedIInv
  <2>2. refresh' \in Feed!Rounds /\ refresh'.at = "publishing"
    BY <1>3 DEF Feed!Rounds
  <2>3. Feed!ShownInv' /\ Feed!GuardInv' /\ guard' \in Feed!Publishers /\ draft' \in [Feed!Publishers -> {Feed!None} \union Feed!States]
    BY <1>1, <1>2, <1>3, <2>1, FeedEnterShown, FeedEnterGuard
  <2> QED
    BY <1>1, <1>3, <2>2, <2>3 DEF Feed!FeedIInv, Feed!FeedShapes, Feed!BusyInv, Feed!CatalogInv, Feed!CitiesKept
<1>4. CASE /\ refresh.at = "publishing" /\ Feed!Store("refresh") /\ refresh' = [at |-> "done"] /\ UNCHANGED busy
  <2>1. refresh' \in Feed!Rounds /\ refresh'.at = "done"
    BY <1>4 DEF Feed!Rounds
  <2>2. Feed!Debt => Feed!Debt'
    BY <1>1, <1>4, <2>1 DEF Feed!Debt
  <2>3. /\ Feed!ShownInv' /\ Feed!GuardInv' /\ guard' = "free" /\ published' \in Feed!States
        /\ draft' \in [Feed!Publishers -> {Feed!None} \union Feed!States]
    BY <1>1, <1>2, <1>4, <2>2, FeedStoreShown, FeedStoreGuard
  <2> QED
    BY <1>1, <1>4, <2>1, <2>3 DEF Feed!FeedIInv, Feed!FeedShapes, Feed!BusyInv, Feed!CatalogInv, Feed!CitiesKept
<1>5. CASE /\ refresh.at = "done" /\ refresh' = Feed!Idle /\ busy' = "free"
           /\ UNCHANGED <<published, guard, draft>>
  <2>1. refresh' \in Feed!Rounds /\ refresh'.at = "idle" /\ busy = "refresh"
    BY <1>5, FeedNotIdle DEF Feed!Rounds, Feed!FeedIInv, Feed!BusyInv
  <2>2. Feed!ShownInv'
    BY <1>1, <1>5, <2>1 DEF Feed!FeedIInv, Feed!ShownInv, Feed!Debt, Feed!Shows
  <2>3. Feed!BusyInv'
    BY <1>1, <1>5, <2>1 DEF Feed!FeedIInv, Feed!BusyInv, Feed!FeedConstantsOK
  <2> QED
    BY <1>1, <1>5, <2>1, <2>2, <2>3 DEF Feed!FeedIInv, Feed!FeedShapes, Feed!GuardInv, Feed!CatalogInv, Feed!CitiesKept
<1> QED
  BY <1>3, <1>4, <1>5 DEF Feed!publish_refresh

\* An editor's step that leaves the data alone and owes nothing it did not owe.
LEMMA FeedEditKept ==
  ASSUME Feed!FeedIInv, NEW e \in FeedEditors, NEW c \in Feed!Calls, edit' = [edit EXCEPT ![e] = c],
         c.at \notin {"trim", "publishing"}, c.at = "publish" => c.kind = "add",
         edit[e].at \notin {"trim", "publish"},
         UNCHANGED <<data, feedFile, fenced, published, guard, draft, busy, refresh, mutation, kept, places, changes>>
  PROVE  Feed!FeedIInv'
<1>1. edit' \in [FeedEditors -> Feed!Calls] /\ edit'[e] = c /\ \A x \in FeedEditors : x # e => edit'[x] = edit[x]
  BY DEF Feed!FeedIInv, Feed!FeedShapes
<1>2. Feed!Debt => Feed!Debt'
  BY <1>1 DEF Feed!Debt
<1>3. Feed!ShownInv'
  BY <1>2 DEF Feed!FeedIInv, Feed!ShownInv, Feed!Shows
<1>4. Feed!BusyInv'
  BY <1>1 DEF Feed!FeedIInv, Feed!BusyInv
<1> QED
  BY <1>1, <1>3, <1>4 DEF Feed!FeedIInv, Feed!FeedShapes, Feed!GuardInv, Feed!CatalogInv, Feed!CitiesKept

LEMMA FeedCityCallKeeps == ASSUME Feed!FeedConstantsOK, Feed!FeedIInv, NEW e \in FeedEditors, Feed!CityCall(e) PROVE Feed!FeedIInv'
<1>1. /\ edit[e] = Feed!Idle
      /\ UNCHANGED <<data, feedFile, fenced, published, guard, draft, busy, refresh, mutation, kept, places, changes>>
  BY DEF Feed!CityCall
<1>2. data.catalog.revision \in Nat /\ data.catalog.cities \subseteq Feed!Cities
  BY DEF Feed!FeedIInv, Feed!FeedShapes, Feed!Lists
<1>3. CASE \E p \in FeedPlaces : edit' = [edit EXCEPT ![e] =
              [at |-> "locking", kind |-> "add", place |-> p, revision |-> data.catalog.revision]]
  <2>1. PICK p \in FeedPlaces : edit' = [edit EXCEPT ![e] =
              [at |-> "locking", kind |-> "add", place |-> p, revision |-> data.catalog.revision]]
    BY <1>3
  <2> DEFINE c == [at |-> "locking", kind |-> "add", place |-> p, revision |-> data.catalog.revision]
  <2>2. c \in Feed!Calls /\ c.at = "locking"
    BY <1>2 DEF Feed!Calls
  <2> HIDE DEF c
  <2>3. edit' = [edit EXCEPT ![e] = c]
    BY <2>1 DEF c
  <2> QED
    BY <1>1, <2>2, <2>3, FeedEditKept, FeedNotIdle
<1>4. CASE \E x \in data.catalog.cities : edit' = [edit EXCEPT ![e] =
              [at |-> "locking", kind |-> "remove", city |-> x, revision |-> data.catalog.revision]]
  <2>1. PICK x \in data.catalog.cities : edit' = [edit EXCEPT ![e] =
              [at |-> "locking", kind |-> "remove", city |-> x, revision |-> data.catalog.revision]]
    BY <1>4
  <2> DEFINE c == [at |-> "locking", kind |-> "remove", city |-> x, revision |-> data.catalog.revision]
  <2>2. c \in Feed!Calls /\ c.at = "locking"
    BY <1>2 DEF Feed!Calls
  <2> HIDE DEF c
  <2>3. edit' = [edit EXCEPT ![e] = c]
    BY <2>1 DEF c
  <2> QED
    BY <1>1, <2>2, <2>3, FeedEditKept, FeedNotIdle
<1> QED
  BY <1>3, <1>4 DEF Feed!CityCall

LEMMA FeedEditRefusedKeeps == ASSUME Feed!FeedConstantsOK, Feed!FeedIInv, NEW e \in FeedEditors, Feed!edit_refused(e) PROVE Feed!FeedIInv'
<1>1. /\ edit[e].at = "locking" /\ edit' = [edit EXCEPT ![e] = Feed!Idle]
      /\ UNCHANGED <<data, feedFile, fenced, published, guard, draft, busy, refresh, mutation, kept, places, changes>>
  BY DEF Feed!edit_refused, Feed!Editable
<1>2. Feed!Idle \in Feed!Calls /\ Feed!Idle.at = "idle"
  BY FeedNotIdle DEF Feed!Calls
<1> QED
  BY <1>1, <1>2, FeedEditKept

LEMMA FeedCityKnownKeeps == ASSUME Feed!FeedConstantsOK, Feed!FeedIInv, NEW e \in FeedEditors, Feed!city_known(e) PROVE Feed!FeedIInv'
<1> DEFINE c == [at |-> "publish", kind |-> "add"]
<1>1. /\ edit[e].at = "locking" /\ edit' = [edit EXCEPT ![e] = c]
      /\ UNCHANGED <<data, feedFile, fenced, published, guard, draft, busy, refresh, mutation, kept, places, changes>>
  BY DEF Feed!city_known, Feed!Editable
<1>2. c \in Feed!Calls /\ c.at = "publish" /\ c.kind = "add"
  BY DEF Feed!Calls
<1> HIDE DEF c
<1> QED
  BY <1>1, <1>2, FeedEditKept

\* The two edits of a list, and what they leave of its rules.
LEMMA FeedAdded ==
  ASSUME NEW c \in Feed!Lists, \A x, y \in c.cities : x.place = y.place => x = y,
         NEW p \in FeedPlaces, \A x \in c.cities : x.place # p
  PROVE  LET n == Feed!add(c, p)
         IN /\ n \in Feed!Lists /\ n.cities = c.cities \union {[id |-> c.next, place |-> p]} /\ n.next = c.next + 1
            /\ \A x, y \in n.cities : x.place = y.place => x = y
<1> DEFINE n == Feed!add(c, p)
           new == [id |-> c.next, place |-> p]
<1>1. new \in Feed!Cities /\ new.place = p
  BY DEF Feed!Lists, Feed!Cities
<1>2. n.cities = c.cities \union {new} /\ n.next = c.next + 1 /\ n \in Feed!Lists
  BY <1>1 DEF Feed!add, Feed!Lists
<1>3. \A x, y \in n.cities : x.place = y.place => x = y
  BY <1>1, <1>2
<1> QED
  BY <1>2, <1>3

LEMMA FeedRemoved ==
  ASSUME NEW c \in Feed!Lists, \A x, y \in c.cities : x.place = y.place => x = y, NEW z
  PROVE  LET n == Feed!remove(c, z)
         IN /\ n \in Feed!Lists /\ n.cities = c.cities \ {z} /\ n.next = c.next
            /\ \A x, y \in n.cities : x.place = y.place => x = y
<1> DEFINE n == Feed!remove(c, z)
<1>1. n = [c EXCEPT !.revision = c.revision + 1, !.cities = c.cities \ {z}] /\ c.revision + 1 \in Nat
  BY DEF Feed!remove, Feed!Lists
<1>2. n.cities = c.cities \ {z} /\ n.next = c.next /\ n \in Feed!Lists
  BY <1>1 DEF Feed!Lists
<1> QED
  BY <1>2

\* A list that a save writes: it follows from the one shown, and what it adds has an
\* id that was never on file.
LEMMA FeedNextList ==
  ASSUME Feed!FeedIInv, NEW e \in FeedEditors, edit[e].at = "locking", ~fenced, ~Feed!Known(e), NEW n,
         n = IF edit[e].kind = "add" THEN Feed!add(data.catalog, edit[e].place) ELSE Feed!remove(data.catalog, edit[e].city)
  PROVE  /\ n \in Feed!Lists /\ feedFile.next <= n.next /\ \A x, y \in n.cities : x.place = y.place => x = y
         /\ edit[e].kind = "add" => data.catalog.cities \subseteq n.cities
         /\ \A x \in n.cities : x.id < n.next
         /\ n.cities \subseteq Feed!Cities
         /\ \A x \in places, y \in n.cities : x.id = y.id => x = y
         /\ \A x, y \in n.cities : x.id = y.id => x = y
<1>1. /\ feedFile = data.catalog /\ data.catalog \in Feed!Lists /\ edit[e] \in Feed!Calls
      /\ \A x, y \in data.catalog.cities : x.place = y.place => x = y
      /\ data.catalog.cities \subseteq places /\ places \subseteq Feed!Cities
      /\ \A x \in places : x.id < data.catalog.next
      /\ \A x, y \in places : x.id = y.id => x = y
  BY DEF Feed!FeedIInv, Feed!CatalogInv, Feed!CitiesKept, Feed!FeedShapes
<1>2. /\ data.catalog.next \in Nat /\ data.catalog.cities \subseteq Feed!Cities /\ \A x \in places : x.id \in Nat
  BY <1>1 DEF Feed!Lists, Feed!Cities
<1>3. CASE edit[e].kind = "add"
  <2>1. edit[e].place \in FeedPlaces /\ \A x \in data.catalog.cities : x.place # edit[e].place
    BY <1>1, <1>3, FeedCallTyped DEF Feed!Known
  <2> DEFINE new == [id |-> data.catalog.next, place |-> edit[e].place]
  <2>2. /\ n \in Feed!Lists /\ n.cities = data.catalog.cities \union {new} /\ n.next = data.catalog.next + 1
        /\ \A x, y \in n.cities : x.place = y.place => x = y
    BY <1>1, <1>3, <2>1, FeedAdded
  <2>3. new.id = data.catalog.next /\ n.cities \subseteq Feed!Cities
    BY <2>2 DEF Feed!Lists
  <2> HIDE DEF new
  <2>4. \A x \in n.cities : x.id < n.next
    BY <1>1, <1>2, <2>2, <2>3
  <2>5. \A x \in places : x.id # new.id
    BY <1>1, <1>2, <2>3
  <2> QED
    BY <1>1, <1>2, <2>2, <2>3, <2>4, <2>5
<1>4. CASE edit[e].kind # "add"
  <2>1. /\ n \in Feed!Lists /\ n.cities = data.catalog.cities \ {edit[e].city} /\ n.next = data.catalog.next
        /\ \A x, y \in n.cities : x.place = y.place => x = y
    BY <1>1, <1>4, FeedRemoved
  <2> QED
    BY <1>1, <1>2, <1>4, <2>1
<1> QED
  BY <1>3, <1>4

LEMMA FeedSaveCatalogKeeps == ASSUME Feed!FeedConstantsOK, Feed!FeedIInv, NEW e \in FeedEditors, Feed!save_catalog(e) PROVE Feed!FeedIInv'
<1> DEFINE n == IF edit[e].kind = "add" THEN Feed!add(data.catalog, edit[e].place) ELSE Feed!remove(data.catalog, edit[e].city)
<1>1. /\ edit[e].at = "locking" /\ busy = "free" /\ ~fenced
      /\ UNCHANGED <<published, guard, draft, refresh, mutation>>
      /\ places' = places \union feedFile'.cities
      /\ refresh.at = "idle" /\ feedFile = data.catalog
  BY DEF Feed!save_catalog, Feed!Editable, Feed!FeedIInv, Feed!BusyInv, Feed!CatalogInv, Feed!CitiesKept
<1>2. /\ n \in Feed!Lists /\ feedFile.next <= n.next /\ \A x, y \in n.cities : x.place = y.place => x = y
      /\ edit[e].kind = "add" => data.catalog.cities \subseteq n.cities
      /\ \A x \in n.cities : x.id < n.next
      /\ n.cities \subseteq Feed!Cities
      /\ \A x \in places, y \in n.cities : x.id = y.id => x = y
      /\ \A x, y \in n.cities : x.id = y.id => x = y
  BY <1>1, FeedNextList DEF Feed!save_catalog
<1>3. edit[e] \in Feed!Calls /\ edit[e].kind \in {"add", "remove"} /\ feedFile.next \in Nat /\ n.next \in Nat
  BY <1>1, <1>2, FeedCallTyped DEF Feed!FeedIInv, Feed!FeedShapes, Feed!Lists
<1>4. /\ feedFile' \in {feedFile, n} /\ kept' \subseteq feedFile'.cities
      /\ \/ /\ feedFile' = n /\ data' = [data EXCEPT !.catalog = n] /\ UNCHANGED <<fenced, changes>>
            /\ edit' = [edit EXCEPT ![e] = [at |-> IF edit[e].kind = "add" THEN "publish" ELSE "trim",
                                            kind |-> edit[e].kind]]
            /\ busy' = IF edit[e].kind = "add" THEN "free" ELSE e
         \/ /\ fenced' = TRUE /\ edit' = [edit EXCEPT ![e] = Feed!Idle] /\ UNCHANGED <<data, busy>>
            /\ changes' = changes + 1
  BY DEF Feed!save_catalog, Feed!Change, Feed!FeedIInv, Feed!CatalogInv, Feed!CitiesKept
<1> HIDE DEF n
<1>5. /\ feedFile' \in Feed!Lists /\ feedFile'.cities \subseteq Feed!Cities /\ feedFile.next <= feedFile'.next /\ feedFile'.next \in Nat
      /\ \A x, y \in feedFile'.cities : x.place = y.place => x = y
      /\ \A x \in feedFile'.cities : x.id < feedFile'.next
      /\ \A x \in places, y \in feedFile'.cities : x.id = y.id => x = y
      /\ \A x, y \in feedFile'.cities : x.id = y.id => x = y
  BY <1>2, <1>3, <1>4 DEF Feed!FeedIInv, Feed!FeedShapes, Feed!Lists, Feed!CatalogInv, Feed!CitiesKept
<1>6. /\ places' \subseteq Feed!Cities /\ feedFile'.cities \subseteq places'
      /\ \A x \in places' : x.id < feedFile'.next
      /\ \A x, y \in places' : x.id = y.id => x = y
  <2>1. places \subseteq Feed!Cities /\ \A x \in places : x.id \in Nat /\ x.id < feedFile.next
    BY DEF Feed!FeedIInv, Feed!FeedShapes, Feed!CatalogInv, Feed!Cities
  <2>2. \A x \in places' : x.id < feedFile'.next
    BY <1>1, <1>3, <1>5, <2>1
  <2>3. \A x, y \in places' : x.id = y.id => x = y
    BY <1>1, <1>5 DEF Feed!FeedIInv, Feed!CatalogInv, Feed!CitiesKept
  <2> QED
    BY <1>1, <1>5, <2>1, <2>2, <2>3
<1>7. CASE /\ fenced' = TRUE /\ edit' = [edit EXCEPT ![e] = Feed!Idle] /\ UNCHANGED <<data, busy>>
           /\ changes' = changes + 1
  <2>1. /\ edit' \in [FeedEditors -> Feed!Calls] /\ edit'[e].at = "idle"
        /\ \A x \in FeedEditors : x # e => edit'[x] = edit[x]
    BY <1>7, FeedNotIdle DEF Feed!FeedIInv, Feed!FeedShapes, Feed!Calls
  <2>2. Feed!Debt => Feed!Debt'
    BY <1>1, <2>1 DEF Feed!Debt
  <2>3. Feed!ShownInv' /\ Feed!GuardInv'
    BY <1>1, <1>7, <2>2 DEF Feed!FeedIInv, Feed!GuardInv, Feed!ShownInv, Feed!Shows
  <2>4. Feed!BusyInv'
    BY <1>1, <1>7, <2>1 DEF Feed!FeedIInv, Feed!BusyInv
  <2>5. Feed!CatalogInv'
    BY <1>4, <1>5, <1>6, <1>7 DEF Feed!FeedIInv, Feed!CatalogInv, Feed!CitiesKept
  <2>6. Feed!FeedShapes'
    BY <1>1, <1>5, <1>6, <1>7, <2>1 DEF Feed!FeedIInv, Feed!FeedShapes
  <2> QED
    BY <2>3, <2>4, <2>5, <2>6 DEF Feed!FeedIInv
<1>8. CASE /\ feedFile' = n /\ data' = [data EXCEPT !.catalog = n] /\ UNCHANGED <<fenced, changes>>
           /\ edit' = [edit EXCEPT ![e] = [at |-> IF edit[e].kind = "add" THEN "publish" ELSE "trim",
                                           kind |-> edit[e].kind]]
           /\ busy' = IF edit[e].kind = "add" THEN "free" ELSE e
  <2>1. [at |-> IF edit[e].kind = "add" THEN "publish" ELSE "trim", kind |-> edit[e].kind] \in Feed!Calls
    BY <1>3 DEF Feed!Calls
  <2>2. /\ edit' \in [FeedEditors -> Feed!Calls] /\ edit'[e].kind = edit[e].kind
        /\ edit'[e].at = IF edit[e].kind = "add" THEN "publish" ELSE "trim"
        /\ \A x \in FeedEditors : x # e => edit'[x] = edit[x]
    BY <1>8, <2>1 DEF Feed!FeedIInv, Feed!FeedShapes
  <2>3. /\ data' \in [agenda : Nat, events : Nat, catalog : Feed!Lists, forecasts : SUBSET Nat]
        /\ data'.catalog = n /\ data'.forecasts = data.forecasts
    BY <1>2, <1>8 DEF Feed!FeedIInv, Feed!FeedShapes
  <2>4. Feed!ShownInv'
    BY <2>2 DEF Feed!ShownInv, Feed!Debt
  <2>5. Feed!GuardInv'
    BY <1>1 DEF Feed!FeedIInv, Feed!GuardInv
  <2>6. data.forecasts \subseteq Feed!Ids(data.catalog) /\ \A x \in FeedEditors : busy # x
    BY <1>1 DEF Feed!FeedIInv, Feed!BusyInv, Feed!FeedConstantsOK
  <2>7. busy' # "refresh"
    BY <1>3, <1>8 DEF Feed!FeedConstantsOK
  <2>8. \A x \in FeedEditors : edit'[x].at \in {"trim", "publish", "publishing"} /\ edit'[x].kind = "remove" => busy' = x
    BY <1>8, <2>2, <2>6 DEF Feed!FeedIInv, Feed!BusyInv
  <2>9. data'.forecasts \subseteq Feed!Ids(data'.catalog) \/ \E x \in FeedEditors : busy' = x /\ edit'[x].at = "trim"
    <3>1. CASE edit[e].kind = "add"
      BY <1>2, <2>3, <2>6, <3>1 DEF Feed!Ids
    <3>2. CASE edit[e].kind # "add"
      BY <1>8, <2>2, <3>2
    <3> QED
      BY <3>1, <3>2
  <2>10. Feed!BusyInv'
    BY <1>1, <2>7, <2>8, <2>9 DEF Feed!BusyInv
  <2>11. Feed!CatalogInv'
    BY <1>2, <1>4, <1>5, <1>6, <1>8, <2>3 DEF Feed!FeedIInv, Feed!CatalogInv, Feed!CitiesKept
  <2>12. Feed!FeedShapes'
    BY <1>1, <1>5, <1>6, <1>8, <2>2, <2>3 DEF Feed!FeedIInv, Feed!FeedShapes
  <2> QED
    BY <2>4, <2>5, <2>10, <2>11, <2>12 DEF Feed!FeedIInv
<1> QED
  BY <1>4, <1>7, <1>8

LEMMA FeedTrimForecastsKeeps == ASSUME Feed!FeedConstantsOK, Feed!FeedIInv, NEW e \in FeedEditors, Feed!trim_forecasts(e) PROVE Feed!FeedIInv'
<1>1. /\ edit[e].at = "trim" /\ data' = [data EXCEPT !.forecasts = @ \intersect Feed!Ids(data.catalog)]
      /\ edit' = [edit EXCEPT ![e] = [edit[e] EXCEPT !.at = "publish"]]
      /\ UNCHANGED <<feedFile, fenced, published, guard, draft, busy, refresh, mutation, kept, places, changes>>
  BY DEF Feed!trim_forecasts
<1>2. [edit[e] EXCEPT !.at = "publish"] \in Feed!Calls
  BY <1>1 DEF Feed!FeedIInv, Feed!FeedShapes, Feed!Calls, Feed!Idle
<1>3. [edit[e] EXCEPT !.at = "publish"].at = "publish" /\ [edit[e] EXCEPT !.at = "publish"].kind = edit[e].kind
  BY <1>1 DEF Feed!FeedIInv, Feed!FeedShapes, Feed!Calls, Feed!Idle
<1>4. /\ edit' \in [FeedEditors -> Feed!Calls] /\ edit'[e].kind = edit[e].kind /\ edit'[e].at = "publish"
      /\ \A x \in FeedEditors : x # e => edit'[x] = edit[x]
  BY <1>1, <1>2, <1>3 DEF Feed!FeedIInv, Feed!FeedShapes
<1>5. /\ data' \in [agenda : Nat, events : Nat, catalog : Feed!Lists, forecasts : SUBSET Nat]
      /\ data'.catalog = data.catalog /\ data'.forecasts \subseteq Feed!Ids(data.catalog)
  BY <1>1 DEF Feed!FeedIInv, Feed!FeedShapes
<1>6. Feed!ShownInv'
  BY <1>4 DEF Feed!ShownInv, Feed!Debt
<1>7. Feed!BusyInv'
  BY <1>1, <1>4, <1>5 DEF Feed!FeedIInv, Feed!BusyInv
<1> QED
  BY <1>1, <1>4, <1>5, <1>6, <1>7 DEF Feed!FeedIInv, Feed!FeedShapes, Feed!GuardInv, Feed!CatalogInv, Feed!CitiesKept

\* An editor's publication: the call moves on, and the guards are the caller's.
LEMMA FeedEditorMoves ==
  ASSUME Feed!FeedIInv, NEW e \in FeedEditors, NEW a \in {"publishing", "request", "requesting"},
         edit[e].at \in {"publish", "publishing", "request", "requesting"},
         edit' = [edit EXCEPT ![e].at = a]
  PROVE  /\ edit' \in [FeedEditors -> Feed!Calls] /\ edit'[e].at = a /\ edit'[e].kind = edit[e].kind
         /\ \A x \in FeedEditors : x # e => edit'[x] = edit[x]
<1>1. edit' = [edit EXCEPT ![e] = [edit[e] EXCEPT !.at = a]]
  OBVIOUS
<1>2. [edit[e] EXCEPT !.at = a] \in Feed!Calls
  BY DEF Feed!FeedIInv, Feed!FeedShapes, Feed!Calls, Feed!Idle
<1>3. [edit[e] EXCEPT !.at = a].at = a /\ [edit[e] EXCEPT !.at = a].kind = edit[e].kind
  BY DEF Feed!FeedIInv, Feed!FeedShapes, Feed!Calls, Feed!Idle
<1> QED
  BY <1>1, <1>2, <1>3 DEF Feed!FeedIInv, Feed!FeedShapes

LEMMA FeedPublishCityKeeps == ASSUME Feed!FeedConstantsOK, Feed!FeedIInv, NEW e \in FeedEditors, Feed!publish_city(e) PROVE Feed!FeedIInv'
<1>1. UNCHANGED <<data, feedFile, fenced, refresh, mutation, kept, places, changes>>
  BY DEF Feed!publish_city
<1>2. e \in Feed!Publishers /\ Feed!Projection \in Feed!States /\ Feed!Shows(Feed!Projection) /\ Feed!Syncing \in Feed!States
      /\ (Feed!Shows(published) => Feed!Shows(Feed!Syncing))
  BY FeedPublishersKnown, FeedShowsProjection, FeedSpinnerShows DEF Feed!FeedIInv
<1>3. CASE /\ edit[e].at = "publish" /\ Feed!Enter(e, Feed!Projection)
           /\ edit' = [edit EXCEPT ![e].at = "publishing"] /\ UNCHANGED <<published, busy>>
  <2>1. /\ edit' \in [FeedEditors -> Feed!Calls] /\ edit'[e].at = "publishing" /\ edit'[e].kind = edit[e].kind
        /\ \A x \in FeedEditors : x # e => edit'[x] = edit[x]
    BY <1>3, FeedEditorMoves
  <2>2. Feed!ShownInv' /\ Feed!GuardInv' /\ guard' \in Feed!Publishers /\ draft' \in [Feed!Publishers -> {Feed!None} \union Feed!States]
    BY <1>1, <1>2, <1>3, FeedEnterShown, FeedEnterGuard
  <2>3. Feed!BusyInv'
    BY <1>1, <1>3, <2>1 DEF Feed!FeedIInv, Feed!BusyInv
  <2> QED
    BY <1>1, <1>3, <2>1, <2>2, <2>3 DEF Feed!FeedIInv, Feed!FeedShapes, Feed!CatalogInv, Feed!CitiesKept
<1>4. CASE edit[e].at = "publishing" /\ Feed!Store(e)
  <2>1. /\ guard' = "free" /\ published' \in Feed!States
        /\ draft' \in [Feed!Publishers -> {Feed!None} \union Feed!States] /\ Feed!GuardInv'
    BY <1>2, <1>4, FeedStoreGuard
  <2>2. CASE edit[e].kind = "add"
    <3>1. edit' = [edit EXCEPT ![e].at = "request"] /\ UNCHANGED busy
      BY <1>4, <2>2 DEF Feed!publish_city
    <3>2. /\ edit' \in [FeedEditors -> Feed!Calls] /\ edit'[e].at = "request" /\ edit'[e].kind = edit[e].kind
          /\ \A x \in FeedEditors : x # e => edit'[x] = edit[x]
      BY <1>4, <3>1, FeedEditorMoves
    <3>3. Feed!Debt => Feed!Debt'
      BY <1>1, <1>4, <3>2 DEF Feed!Debt
    <3>4. Feed!ShownInv'
      BY <1>1, <1>2, <1>4, <3>3, FeedStoreShown
    <3>5. Feed!BusyInv'
      BY <1>1, <1>4, <3>1, <3>2 DEF Feed!FeedIInv, Feed!BusyInv
    <3> QED
      BY <1>1, <2>1, <3>1, <3>2, <3>4, <3>5 DEF Feed!FeedIInv, Feed!FeedShapes, Feed!CatalogInv, Feed!CitiesKept
  <2>3. CASE edit[e].kind # "add"
    <3>1. edit' = [edit EXCEPT ![e] = Feed!Idle] /\ busy' = "free" /\ edit[e] \in Feed!Calls
      BY <1>4, <2>3 DEF Feed!publish_city, Feed!FeedIInv, Feed!FeedShapes
    <3>2. edit[e].kind = "remove" /\ busy = e
      BY <1>4, <2>3, <3>1, FeedCallTyped DEF Feed!FeedIInv, Feed!BusyInv
    <3>3. /\ edit' \in [FeedEditors -> Feed!Calls] /\ edit'[e].at = "idle"
          /\ \A x \in FeedEditors : x # e => edit'[x] = edit[x]
      BY <3>1, FeedNotIdle DEF Feed!FeedIInv, Feed!FeedShapes, Feed!Calls
    <3>4. Feed!Debt => Feed!Debt'
      BY <1>1, <1>4, <3>3 DEF Feed!Debt
    <3>5. Feed!ShownInv'
      BY <1>1, <1>2, <1>4, <3>4, FeedStoreShown
    <3>6. e # "refresh" /\ \A x \in FeedEditors : busy = x => x = e
      BY <3>2 DEF Feed!FeedConstantsOK
    <3>7. Feed!BusyInv'
      BY <1>1, <1>4, <3>1, <3>2, <3>3, <3>6 DEF Feed!FeedIInv, Feed!BusyInv
    <3> QED
      BY <1>1, <2>1, <3>1, <3>3, <3>5, <3>7 DEF Feed!FeedIInv, Feed!FeedShapes, Feed!CatalogInv, Feed!CitiesKept
  <2> QED
    BY <2>2, <2>3
<1>5. CASE /\ edit[e].at = "request" /\ Feed!Enter(e, Feed!Syncing)
           /\ edit' = [edit EXCEPT ![e].at = "requesting"] /\ UNCHANGED <<published, busy>>
  <2>1. /\ edit' \in [FeedEditors -> Feed!Calls] /\ edit'[e].at = "requesting" /\ edit'[e].kind = edit[e].kind
        /\ \A x \in FeedEditors : x # e => edit'[x] = edit[x]
    BY <1>5, FeedEditorMoves
  <2>2. Feed!Debt => Feed!Debt'
    BY <1>1, <1>5, <2>1 DEF Feed!Debt
  <2>3. Feed!Debt' \/ Feed!Shows(Feed!Syncing)
    BY <1>2, <1>5, <2>2 DEF Feed!FeedIInv, Feed!ShownInv, Feed!Enter
  <2>4. Feed!ShownInv' /\ Feed!GuardInv' /\ guard' \in Feed!Publishers /\ draft' \in [Feed!Publishers -> {Feed!None} \union Feed!States]
    BY <1>1, <1>2, <1>5, <2>3, FeedEnterShown, FeedEnterGuard
  <2>5. Feed!BusyInv'
    BY <1>1, <1>5, <2>1 DEF Feed!FeedIInv, Feed!BusyInv
  <2> QED
    BY <1>1, <1>5, <2>1, <2>4, <2>5 DEF Feed!FeedIInv, Feed!FeedShapes, Feed!CatalogInv, Feed!CitiesKept
<1>6. CASE edit[e].at = "requesting" /\ Feed!Store(e) /\ edit' = [edit EXCEPT ![e] = Feed!Idle] /\ UNCHANGED busy
  <2>1. /\ edit' \in [FeedEditors -> Feed!Calls] /\ edit'[e].at = "idle"
        /\ \A x \in FeedEditors : x # e => edit'[x] = edit[x]
    BY <1>6, FeedNotIdle DEF Feed!FeedIInv, Feed!FeedShapes, Feed!Calls
  <2>2. Feed!Debt => Feed!Debt'
    BY <1>1, <1>6, <2>1 DEF Feed!Debt
  <2>3. /\ Feed!ShownInv' /\ Feed!GuardInv' /\ guard' = "free" /\ published' \in Feed!States
        /\ draft' \in [Feed!Publishers -> {Feed!None} \union Feed!States]
    BY <1>1, <1>2, <1>6, <2>2, FeedStoreShown, FeedStoreGuard
  <2>4. Feed!BusyInv'
    BY <1>1, <1>6, <2>1 DEF Feed!FeedIInv, Feed!BusyInv
  <2> QED
    BY <1>1, <1>6, <2>1, <2>3, <2>4 DEF Feed!FeedIInv, Feed!FeedShapes, Feed!CatalogInv, Feed!CitiesKept
<1> QED
  BY <1>3, <1>4, <1>5, <1>6 DEF Feed!publish_city

LEMMA FeedRestartKeeps == ASSUME Feed!FeedConstantsOK, Feed!FeedIInv, Feed!restart PROVE Feed!FeedIInv'
<1>1. /\ data' = [agenda |-> data.agenda, events |-> 0, catalog |-> feedFile, forecasts |-> {}]
      /\ published' = [syncing |-> FALSE, agenda |-> data.agenda, items |-> data.agenda,
                       events |-> 0, cities |-> feedFile.cities, forecasts |-> {}]
      /\ draft' = [w \in Feed!Publishers |-> Feed!None] /\ fenced' = FALSE /\ guard' = "free" /\ busy' = "free"
      /\ refresh' = Feed!Idle /\ edit' = [e \in FeedEditors |-> Feed!Idle] /\ mutation' = "none"
      /\ changes' = changes + 1 /\ UNCHANGED <<feedFile, kept, places>>
  BY DEF Feed!restart, Feed!Change
<1>2. data.agenda \in Nat /\ feedFile \in Feed!Lists /\ changes' \in Nat /\ feedFile.cities \subseteq Feed!Cities
  BY <1>1 DEF Feed!FeedIInv, Feed!FeedShapes, Feed!Lists
<1>3. published' \in Feed!States /\ data' \in [agenda : Nat, events : Nat, catalog : Feed!Lists, forecasts : SUBSET Nat]
  BY <1>1, <1>2 DEF Feed!States
<1>4. /\ data'.catalog = feedFile /\ data'.forecasts = {} /\ refresh'.at = "idle"
      /\ \A e \in FeedEditors : edit'[e].at = "idle"
  BY <1>1, FeedNotIdle
<1>5. Feed!FeedShapes'
  BY <1>1, <1>2, <1>3 DEF Feed!FeedIInv, Feed!FeedShapes, Feed!Rounds, Feed!Calls
<1>6. Feed!ShownInv'
  BY <1>1 DEF Feed!ShownInv, Feed!Shows
<1>7. Feed!GuardInv'
  BY <1>1 DEF Feed!GuardInv, Feed!Publishers, Feed!FeedConstantsOK
<1>8. Feed!BusyInv'
  BY <1>1, <1>4 DEF Feed!BusyInv
<1>9. Feed!CatalogInv'
  BY <1>1, <1>4 DEF Feed!FeedIInv, Feed!CatalogInv, Feed!CitiesKept
<1> QED
  BY <1>5, <1>6, <1>7, <1>8, <1>9 DEF Feed!FeedIInv

LEMMA FeedNextKeeps == ASSUME Feed!FeedConstantsOK, Feed!FeedIInv, [Feed!FeedNext]_(Feed!feedVars) PROVE Feed!FeedIInv'
<1>1. CASE Feed!clock_due \/ Feed!publish_clock \/ Feed!mutate \/ Feed!publish_mutation \/ Feed!request_refresh \/ Feed!spawn_refresh
  BY <1>1, FeedClockDueKeeps, FeedPublishClockKeeps, FeedMutateKeeps, FeedPublishMutationKeeps, FeedRequestRefreshKeeps, FeedSpawnRefreshKeeps
<1>2. CASE \/ Feed!refresh_starts \/ Feed!refresh_dropped \/ Feed!publish_syncing \/ Feed!load_sources \/ Feed!refresh_weather
           \/ Feed!publish_refresh \/ Feed!restart
  BY <1>2, FeedRefreshStartsKeeps, FeedPublishSyncingKeeps, FeedLoadSourcesKeeps, FeedRefreshWeatherKeeps, FeedPublishRefreshKeeps, FeedRestartKeeps
<1>3. CASE \E e \in FeedEditors : Feed!CityCall(e) \/ Feed!edit_refused(e) \/ Feed!city_known(e) \/ Feed!save_catalog(e)
                                \/ Feed!trim_forecasts(e) \/ Feed!publish_city(e)
  BY <1>3, FeedCityCallKeeps, FeedEditRefusedKeeps, FeedCityKnownKeeps, FeedSaveCatalogKeeps, FeedTrimForecastsKeeps, FeedPublishCityKeeps
<1>4. CASE UNCHANGED Feed!feedVars
  BY <1>4 DEF Feed!feedVars, Feed!FeedIInv, Feed!FeedShapes, Feed!GuardInv, Feed!ShownInv, Feed!Debt, Feed!Shows, Feed!BusyInv, Feed!CatalogInv, Feed!CitiesKept
<1> QED
  BY <1>1, <1>2, <1>3, <1>4 DEF Feed!FeedNext

\* No publication is lost to another, no forecast outlives its city, and the saved
\* cities survive restarts under ids that name one place (activity/service.rs,
\* catalog.rs), for any number of editors, edits, failed saves and restarts.
THEOREM FeedShowsItsData == ASSUME Feed!FeedConstantsOK PROVE Feed!FeedSpec => []Feed!FeedSafe
<1>1. Feed!FeedInit => Feed!FeedIInv
  BY FeedInitHolds
<1>2. Feed!FeedIInv /\ [Feed!FeedNext]_(Feed!feedVars) => Feed!FeedIInv'
  BY FeedNextKeeps
<1>3. Feed!FeedIInv => Feed!FeedSafe
  BY FeedSafeFollows
<1> QED
  BY <1>1, <1>2, <1>3, PTL DEF Feed!FeedSpec

\* The fence, the refresh guard, the refreshes asked for and the mutation keep
\* their shapes as well.
LEMMA FeedMarks ==
  /\ Feed!FeedInit => Feed!Marks
  /\ Feed!Marks /\ [Feed!FeedNext]_(Feed!feedVars) => Feed!Marks'
<1> USE DEF Feed!Marks
<1>1. Feed!FeedInit => Feed!Marks
  <2>1. Feed!FeedInit => fenced = FALSE /\ busy = "free" /\ feedAsked = [publishing |-> FALSE, spawned |-> 0] /\ mutation = "none"
    BY Zenon DEF Feed!FeedInit
  <2>2. [publishing |-> FALSE, spawned |-> 0] \in [publishing : BOOLEAN, spawned : {0, 1}]
    OBVIOUS
  <2> QED
    BY <2>1, <2>2, Zenon
<1>2. ASSUME Feed!Marks, [Feed!FeedNext]_(Feed!feedVars) PROVE Feed!Marks'
  <2> USE <1>2
  <2>1. CASE Feed!clock_due \/ Feed!publish_clock \/ Feed!mutate \/ Feed!publish_mutation
    BY <2>1 DEF Feed!clock_due, Feed!publish_clock, Feed!mutate, Feed!publish_mutation
  <2>2. CASE \/ Feed!request_refresh \/ Feed!spawn_refresh \/ Feed!refresh_starts \/ Feed!refresh_dropped
    <3>1. /\ UNCHANGED <<fenced, mutation>> /\ (busy' = busy \/ busy' = "refresh")
          /\ \/ feedAsked' = [feedAsked EXCEPT !.publishing = TRUE] \/ feedAsked' = [feedAsked EXCEPT !.spawned = 0]
             \/ feedAsked' = [publishing |-> FALSE, spawned |-> 1]
      BY <2>2, Zenon DEF Feed!request_refresh, Feed!spawn_refresh, Feed!refresh_starts, Feed!refresh_dropped
    <3>2. \A a \in [publishing : BOOLEAN, spawned : {0, 1}] :
             /\ [a EXCEPT !.publishing = TRUE] \in [publishing : BOOLEAN, spawned : {0, 1}]
             /\ [a EXCEPT !.spawned = 0] \in [publishing : BOOLEAN, spawned : {0, 1}]
             /\ [publishing |-> FALSE, spawned |-> 1] \in [publishing : BOOLEAN, spawned : {0, 1}]
      OBVIOUS
    <3>3. feedAsked' \in [publishing : BOOLEAN, spawned : {0, 1}]
      BY <3>1, <3>2
    <3> QED
      BY <3>1, <3>3, Zenon
  <2>3. CASE \/ Feed!publish_syncing \/ Feed!load_sources \/ Feed!refresh_weather \/ Feed!publish_refresh \/ Feed!restart
    <3>1. CASE Feed!restart
      <4>1. fenced' = FALSE /\ busy' = "free" /\ feedAsked' = [publishing |-> FALSE, spawned |-> 0] /\ mutation' = "none"
        BY <3>1, Zenon DEF Feed!restart
      <4> QED
        BY <4>1
    <3>2. CASE Feed!publish_syncing \/ Feed!load_sources \/ Feed!refresh_weather \/ Feed!publish_refresh
      <4>1. UNCHANGED <<fenced, feedAsked, mutation>> /\ (busy' = busy \/ busy' = "free")
        BY <3>2, Zenon DEF Feed!publish_syncing, Feed!load_sources, Feed!refresh_weather, Feed!publish_refresh
      <4> QED
        BY <4>1
    <3> QED
      BY <2>3, <3>1, <3>2
  <2>4. CASE \E e \in FeedEditors : \/ Feed!CityCall(e) \/ Feed!edit_refused(e) \/ Feed!city_known(e)
                                   \/ Feed!trim_forecasts(e)
    BY <2>4 DEF Feed!CityCall, Feed!edit_refused, Feed!city_known, Feed!trim_forecasts
  <2>5. CASE \E e \in FeedEditors : Feed!save_catalog(e)
    BY <2>5 DEF Feed!save_catalog
  <2>6. CASE \E e \in FeedEditors : Feed!publish_city(e)
    BY <2>6 DEF Feed!publish_city
  <2>7. CASE UNCHANGED Feed!feedVars
    BY <2>7 DEF Feed!feedVars
  <2> QED
    BY <2>1, <2>2, <2>3, <2>4, <2>5, <2>6, <2>7 DEF Feed!FeedNext
<1> QED
  BY <1>1, <1>2

HIDE DEF data, feedFile, fenced, published, guard, draft, busy, refresh, feedAsked, edit, mutation, kept, places, edits, changes

-----------------------------------------------------------------------------
(* Update outcomes (UpdateDelivery).                                          *)

\* The variables of UpdateDelivery.
runDisk == r1
proc == r2
started == r3
updateMonitor == r4
updateShown == r5
updateSaved == r6
delivered == r7
covered == r8
swallowed == r9
passed == r10
updateSpent == r11
USE DEF runDisk, proc, started, updateMonitor, updateShown, updateSaved, delivered, covered, swallowed, passed, updateSpent

LEMMA UpdateSafeFollows == ASSUME Update!UpdateIInv PROVE Update!UpdateTypeOK /\ Update!UpdateSafe
BY DEF Update!UpdateIInv, Update!UpdateShapes, Update!KeysInv, Update!UpdateSafe, Update!SwallowedAfterFault

LEMMA UpdateInitHolds == ASSUME Update!UpdateInit PROVE Update!UpdateIInv
<1>1. updateMonitor = Update!Waiting(TRUE) /\ updateMonitor.at = "wait" /\ updateMonitor \in Update!Monitors
  BY DEF Update!UpdateInit, Update!Waiting, Update!Monitors
<1>2. Update!UpdateTypeOK
  BY DEF Update!UpdateInit, Update!UpdateTypeOK, Update!NoCatalog, Update!FirstDelivery, Update!Outcomes
<1>3. updateSaved.incidents \in [Update!Operations -> Update!Outcomes] /\ updateSaved.seen = {}
  BY DEF Update!UpdateInit, Update!FirstDelivery, Update!Outcomes
<1> QED
  BY <1>1, <1>2, <1>3 DEF Update!UpdateInit, Update!UpdateIInv, Update!UpdateShapes, Update!ReadInv, Update!BatchInv, Update!KeysInv, Update!SeenWasAnnounced

\* What the monitor may hold at each of its steps.
LEMMA UpdateMonitorTyped ==
  ASSUME updateMonitor \in Update!Monitors
  PROVE  /\ updateMonitor.first \in BOOLEAN
         /\ updateMonitor.at \in {"wait", "records", "markers", "check", "deliver", "send", "save"}
         /\ updateMonitor.at \in {"markers", "check"} => updateMonitor.records \in [Update!Runs -> {"none", "running", "ok", "failed"}]
         /\ updateMonitor.at = "check" => updateMonitor.markers \subseteq Update!Runs
         /\ updateMonitor.at = "deliver" => updateMonitor.catalog \in Update!Catalogs
         /\ updateMonitor.at \in {"send", "save"} => updateMonitor.batch \in Update!Batches
BY DEF Update!Monitors

\* A monitor that returns to its wait keeps the invariant of what it holds.
LEMMA UpdateWaitingTyped ==
  ASSUME NEW first \in BOOLEAN
  PROVE  Update!Waiting(first) \in Update!Monitors /\ Update!Waiting(first).at = "wait"
BY DEF Update!Waiting, Update!Monitors

\* A run that is over stays so, and one that was started is never idle again.
LEMMA UpdateProducersAdvance ==
  ASSUME Update!UpdateIInv, NEW r \in Update!Runs, Update!Produce(r) \/ Update!ProducerCrash(r), NEW x \in Update!Runs
  PROVE  /\ Update!Over(x) => Update!Over(x)'
         /\ Update!Final(x) => Update!Final(x)'
         /\ proc[x] # "idle" => proc'[x] # "idle"
         /\ runDisk'[x].record # "none" \/ runDisk'[x].marker => proc'[x] # "idle"
<1> USE DEF Update!UpdateIInv, Update!UpdateShapes, Update!UpdateTypeOK, Update!ReadInv, Update!Over, Update!Final
<1>1. CASE x # r
  BY <1>1 DEF Update!Produce, Update!ProducerCrash
<1>2. CASE x = r /\ Update!Produce(r)
  BY <1>2 DEF Update!Produce
<1>3. CASE x = r /\ Update!ProducerCrash(r)
  BY <1>3 DEF Update!ProducerCrash
<1> QED
  BY <1>1, <1>2, <1>3

LEMMA UpdateProducersTyped ==
  ASSUME Update!UpdateIInv, NEW r \in Update!Runs, Update!Produce(r) \/ Update!ProducerCrash(r)
  PROVE  /\ runDisk' \in [Update!Runs -> [record : {"none", "running", "ok", "failed"}, marker : BOOLEAN]]
         /\ proc' \in [Update!Runs -> {"idle", "alive", "gone"}]
         /\ updateSpent' \in Nat /\ (updateSpent' = 0 => updateSpent = 0)
         /\ UNCHANGED <<updateMonitor, updateShown, updateSaved, delivered, covered, swallowed, passed>>
<1> USE DEF Update!UpdateIInv, Update!UpdateShapes, Update!UpdateTypeOK
<1>1. CASE Update!Produce(r)
  <2>1. runDisk[r] \in [record : {"none", "running", "ok", "failed"}, marker : BOOLEAN]
    OBVIOUS
  <2>2. \E entry \in [record : {"none", "running", "ok", "failed"}, marker : BOOLEAN] :
           runDisk' = [runDisk EXCEPT ![r] = entry]
    BY <1>1, <2>1 DEF Update!Produce
  <2>3. proc' \in [Update!Runs -> {"idle", "alive", "gone"}] /\ UNCHANGED updateSpent
        /\ UNCHANGED <<updateMonitor, updateShown, updateSaved, delivered, covered, swallowed, passed>>
    BY <1>1 DEF Update!Produce
  <2> QED
    BY <2>2, <2>3
<1>2. CASE Update!ProducerCrash(r)
  BY <1>2 DEF Update!ProducerCrash, Update!Fault
<1> QED
  BY <1>1, <1>2

LEMMA UpdateProducersKeep ==
  ASSUME Update!UpdateIInv, NEW r \in Update!Runs, Update!Produce(r) \/ Update!ProducerCrash(r) PROVE Update!UpdateIInv'
<1>1. /\ UNCHANGED <<updateMonitor, updateShown, updateSaved, delivered, covered, swallowed, passed>>
      /\ updateSpent' \in Nat /\ (updateSpent' = 0 => updateSpent = 0)
  BY UpdateProducersTyped
<1>2. Update!UpdateShapes'
  BY <1>1, UpdateProducersTyped DEF Update!UpdateIInv, Update!UpdateShapes, Update!UpdateTypeOK
<1>3. Update!ReadInv'
  <2>1. Update!Ended(updateMonitor.catalog) \subseteq Update!Runs /\ (updateMonitor.at = "check" => updateMonitor.markers \subseteq Update!Runs)
    BY UpdateMonitorTyped DEF Update!Ended, Update!UpdateIInv, Update!UpdateShapes
  <2> QED
    BY <1>1, <2>1, UpdateProducersAdvance DEF Update!UpdateIInv, Update!ReadInv, Update!Ended
<1>4. Update!BatchInv'
  <2>1. updateMonitor.at \in {"send", "save"} => updateMonitor.batch.seen \subseteq Update!Runs
    BY UpdateMonitorTyped DEF Update!Batches, Update!UpdateIInv, Update!UpdateShapes
  <2> QED
    BY <1>1, <2>1, UpdateProducersAdvance DEF Update!UpdateIInv, Update!BatchInv
<1>5. Update!KeysInv'
  BY <1>1 DEF Update!UpdateIInv, Update!KeysInv
<1>6. Update!SeenWasAnnounced'
  BY <1>1, UpdateProducersAdvance DEF Update!UpdateIInv, Update!SeenWasAnnounced, Update!UpdateShapes, Update!UpdateTypeOK, Update!Over, Update!Final
<1> QED
  BY <1>2, <1>3, <1>4, <1>5, <1>6 DEF Update!UpdateIInv

\* Steps of the monitor before it delivers.
LEMMA UpdatePassBeginsKeeps == ASSUME Update!UpdateIInv, Update!pass_begins PROVE Update!UpdateIInv'
<1>1. /\ UNCHANGED <<runDisk, proc, updateShown, updateSaved, delivered, covered, swallowed, passed, updateSpent>>
      /\ updateMonitor.at = "wait" /\ updateMonitor' = [at |-> "records", first |-> updateMonitor.first]
  BY DEF Update!pass_begins
<1>2. updateMonitor' \in Update!Monitors /\ updateMonitor'.at = "records"
  BY <1>1, UpdateMonitorTyped DEF Update!UpdateIInv, Update!UpdateShapes, Update!Monitors
<1> QED
  BY <1>1, <1>2 DEF Update!UpdateIInv, Update!UpdateShapes, Update!UpdateTypeOK, Update!ReadInv, Update!BatchInv, Update!KeysInv, Update!SeenWasAnnounced, Update!Final

LEMMA UpdateReadRecordsKeeps == ASSUME Update!UpdateIInv, Update!read_records PROVE Update!UpdateIInv'
<1>1. /\ UNCHANGED <<runDisk, proc, updateShown, updateSaved, delivered, covered, swallowed, passed, updateSpent>>
      /\ updateMonitor.at = "records"
      /\ updateMonitor' = [at |-> "markers", first |-> updateMonitor.first, records |-> [r \in Update!Runs |-> runDisk[r].record]]
  BY DEF Update!read_records
<1>2. [r \in Update!Runs |-> runDisk[r].record] \in [Update!Runs -> {"none", "running", "ok", "failed"}]
  BY DEF Update!UpdateIInv, Update!UpdateShapes, Update!UpdateTypeOK
<1>3. /\ updateMonitor' \in Update!Monitors /\ updateMonitor'.at = "markers"
      /\ \A r \in Update!Runs : updateMonitor'.records[r] = runDisk[r].record
  BY <1>1, <1>2, UpdateMonitorTyped DEF Update!UpdateIInv, Update!UpdateShapes, Update!Monitors
<1> QED
  BY <1>1, <1>3 DEF Update!UpdateIInv, Update!UpdateShapes, Update!UpdateTypeOK, Update!ReadInv, Update!BatchInv, Update!KeysInv, Update!SeenWasAnnounced, Update!Final

LEMMA UpdateReadMarkersKeeps == ASSUME Update!UpdateIInv, Update!read_markers PROVE Update!UpdateIInv'
<1>1. /\ UNCHANGED <<runDisk, proc, updateShown, updateSaved, delivered, covered, swallowed, passed, updateSpent>>
      /\ updateMonitor.at = "markers"
      /\ updateMonitor' = [at |-> "check", first |-> updateMonitor.first, records |-> updateMonitor.records,
                     markers |-> {r \in UpdateManuals : runDisk[r].marker}]
  BY DEF Update!read_markers
<1>2. {r \in UpdateManuals : runDisk[r].marker} \in SUBSET Update!Runs
  BY DEF Update!Runs
<1>3. /\ updateMonitor' \in Update!Monitors /\ updateMonitor'.at = "check" /\ updateMonitor'.records = updateMonitor.records
      /\ updateMonitor'.markers = {r \in UpdateManuals : runDisk[r].marker}
  BY <1>1, <1>2, UpdateMonitorTyped DEF Update!UpdateIInv, Update!UpdateShapes, Update!Monitors
<1>4. Update!ReadInv'
  BY <1>1, <1>2, <1>3 DEF Update!UpdateIInv, Update!ReadInv, Update!Final
<1> QED
  BY <1>1, <1>3, <1>4 DEF Update!UpdateIInv, Update!UpdateShapes, Update!UpdateTypeOK, Update!BatchInv, Update!KeysInv, Update!SeenWasAnnounced

\* A run is entered as ended only when its producer has ended it or is gone.
LEMMA UpdateOutcomeTrue ==
  ASSUME Update!UpdateIInv, updateMonitor.at = "check", NEW r \in Update!Runs
  PROVE  LET o == Update!outcome(updateMonitor.records[r], r \in updateMonitor.markers, proc[r] = "alive")
         IN o \in Update!Outcomes /\ (o \notin {"none", "running"} => Update!Over(r))
<1>1. updateMonitor.records[r] \in {"none", "running", "ok", "failed"} /\ proc[r] \in {"idle", "alive", "gone"}
  BY UpdateMonitorTyped DEF Update!UpdateIInv, Update!UpdateShapes, Update!UpdateTypeOK
<1>2. /\ updateMonitor.records[r] # "none" => proc[r] # "idle"
      /\ updateMonitor.records[r] \in {"ok", "failed"} => Update!Final(r)
      /\ r \in updateMonitor.markers => proc[r] # "idle"
  BY DEF Update!UpdateIInv, Update!ReadInv
<1> QED
  BY <1>1, <1>2 DEF Update!outcome, Update!Outcomes, Update!Over

LEMMA UpdateCheckProcessesKeeps == ASSUME Update!UpdateIInv, Update!check_processes PROVE Update!UpdateIInv'
<1> DEFINE catalog == [r \in Update!Runs |-> Update!outcome(updateMonitor.records[r], r \in updateMonitor.markers, proc[r] = "alive")]
<1>1. /\ UNCHANGED <<runDisk, proc, updateSaved, delivered, covered, swallowed, passed, updateSpent>>
      /\ updateMonitor.at = "check" /\ updateShown' = catalog
      /\ updateMonitor' = [at |-> "deliver", first |-> updateMonitor.first, catalog |-> catalog]
  BY DEF Update!check_processes
<1>2. catalog \in Update!Catalogs /\ \A r \in Update!Runs : catalog[r] \notin {"none", "running"} => Update!Over(r)
  BY <1>1, UpdateOutcomeTrue DEF Update!Catalogs
<1> HIDE DEF catalog
<1>3. updateMonitor' \in Update!Monitors /\ updateMonitor'.at = "deliver" /\ updateMonitor'.catalog = catalog
  BY <1>1, <1>2, UpdateMonitorTyped DEF Update!UpdateIInv, Update!UpdateShapes, Update!Monitors
<1>4. Update!ReadInv'
  BY <1>1, <1>2, <1>3 DEF Update!UpdateIInv, Update!ReadInv, Update!Over, Update!Final, Update!Ended
<1> QED
  BY <1>1, <1>2, <1>3, <1>4 DEF Update!UpdateIInv, Update!UpdateShapes, Update!UpdateTypeOK, Update!BatchInv, Update!KeysInv, Update!SeenWasAnnounced, Update!Catalogs

\* The batch that events computes: new runs that are over, and among them those told.
LEMMA UpdateBatchTyped ==
  ASSUME Update!UpdateIInv, NEW catalog \in Update!Catalogs
  PROVE  /\ Update!events(catalog) \in Update!Batches
         /\ Update!events(catalog).seen = updateSaved.seen \union Update!Ended(catalog)
         /\ Update!events(catalog).events \subseteq Update!Ended(catalog) \ updateSaved.seen
<1>1. Update!Ended(catalog) \subseteq Update!Runs /\ updateSaved.seen \subseteq Update!Runs
  BY DEF Update!Ended, Update!UpdateIInv, Update!UpdateShapes, Update!UpdateTypeOK
<1>2. ASSUME NEW runs \in SUBSET Update!Runs, NEW op \in Update!Operations PROVE Update!Incident(catalog, runs, op) \in Update!Outcomes
  <2>1. "none" \in Update!Outcomes /\ Update!Problems \subseteq Update!Outcomes /\ updateSaved.incidents[op] \in Update!Outcomes
    BY DEF Update!Outcomes, Update!Problems, Update!UpdateIInv, Update!UpdateShapes
  <2> QED
    BY <2>1 DEF Update!Incident
<1>3. [op \in Update!Operations |-> Update!Incident(catalog, Update!Ended(catalog) \ updateSaved.seen, op)] \in [Update!Operations -> Update!Outcomes]
  BY <1>1, <1>2
<1> QED
  BY <1>1, <1>3 DEF Update!events, Update!Batches

LEMMA UpdateDeliverKeeps == ASSUME Update!UpdateIInv, Update!deliver PROVE Update!UpdateIInv'
<1> DEFINE e == Update!events(updateMonitor.catalog)
<1>1. /\ UNCHANGED <<runDisk, proc, updateShown, updateSaved, delivered, covered, swallowed, passed, updateSpent>>
      /\ updateMonitor.at = "deliver"
      /\ updateMonitor' = [at |-> IF e.events = {} THEN "save" ELSE "send", first |-> updateMonitor.first, batch |-> e]
  BY DEF Update!deliver
<1>2. /\ e \in Update!Batches /\ e.seen = updateSaved.seen \union Update!Ended(updateMonitor.catalog)
      /\ e.events \subseteq Update!Ended(updateMonitor.catalog) \ updateSaved.seen
  BY <1>1, UpdateBatchTyped, UpdateMonitorTyped DEF Update!UpdateIInv, Update!UpdateShapes
<1> HIDE DEF e
<1>3. /\ updateMonitor' \in Update!Monitors /\ updateMonitor'.at \in {"send", "save"} /\ updateMonitor'.batch = e
      /\ updateMonitor'.at = "save" => e.events = {}
  BY <1>1, <1>2, UpdateMonitorTyped DEF Update!UpdateIInv, Update!UpdateShapes, Update!Monitors
<1>4. \A r \in updateSaved.seen \union Update!Ended(updateMonitor.catalog) : Update!Over(r)
  BY <1>1 DEF Update!UpdateIInv, Update!ReadInv, Update!SeenWasAnnounced, Update!Over, Update!Final
<1>5. Update!ReadInv' /\ Update!BatchInv'
  BY <1>1, <1>2, <1>3, <1>4 DEF Update!UpdateIInv, Update!ReadInv, Update!BatchInv, Update!Over, Update!Final
<1>6. Update!KeysInv'
  BY <1>1, <1>2, <1>3 DEF Update!UpdateIInv, Update!KeysInv
<1> QED
  BY <1>1, <1>3, <1>5, <1>6 DEF Update!UpdateIInv, Update!UpdateShapes, Update!UpdateTypeOK, Update!SeenWasAnnounced

LEMMA UpdateSendKeeps == ASSUME Update!UpdateIInv, Update!send PROVE Update!UpdateIInv'
<1>1. /\ UNCHANGED <<runDisk, proc, updateShown, updateSaved, passed>> /\ updateMonitor.at = "send"
  BY DEF Update!send
<1>2. /\ updateMonitor.batch \in Update!Batches /\ updateMonitor.first \in BOOLEAN
      /\ updateMonitor.batch.events \subseteq updateMonitor.batch.seen \ updateSaved.seen
  BY <1>1, UpdateMonitorTyped DEF Update!UpdateIInv, Update!UpdateShapes, Update!BatchInv
<1>3. CASE updateMonitor' = [updateMonitor EXCEPT !.at = "save"]
  <2>1. PICK last \in updateMonitor.batch.events :
           \/ /\ last \notin delivered /\ delivered' = delivered \union {last}
              /\ covered' = covered \union updateMonitor.batch.events /\ UNCHANGED <<swallowed, updateSpent>>
           \/ /\ last \in delivered /\ swallowed' = swallowed \union updateMonitor.batch.events
              /\ UNCHANGED <<delivered, covered, updateSpent>>
    <3>1. [updateMonitor EXCEPT !.at = "save"].at # Update!Waiting(updateMonitor.first).at
      BY <1>1, <1>2 DEF Update!Waiting, Update!UpdateIInv, Update!UpdateShapes, Update!Monitors
    <3> QED
      BY <1>3, <3>1 DEF Update!send, Update!notify_update_once, Update!Fails
  <2>2. updateMonitor' \in Update!Monitors /\ updateMonitor'.at = "save" /\ updateMonitor'.batch = updateMonitor.batch
    BY <1>1, <1>2, <1>3 DEF Update!UpdateIInv, Update!UpdateShapes, Update!Monitors
  <2>3. updateMonitor.batch.events \subseteq Update!Runs /\ updateMonitor.batch.events \subseteq covered' \union swallowed'
        /\ covered \union swallowed \subseteq covered' \union swallowed'
    BY <1>2, <2>1 DEF Update!Batches
  <2>4. Update!UpdateShapes'
    BY <1>1, <2>1, <2>2, <2>3 DEF Update!UpdateIInv, Update!UpdateShapes, Update!UpdateTypeOK
  <2>5. Update!ReadInv' /\ Update!BatchInv'
    BY <1>1, <2>2, <2>3 DEF Update!UpdateIInv, Update!ReadInv, Update!BatchInv, Update!Over, Update!Final
  <2>6. Update!KeysInv'
    BY <1>1, <1>2, <2>1, <2>2 DEF Update!UpdateIInv, Update!KeysInv, Update!BatchInv
  <2>7. Update!SeenWasAnnounced'
    BY <1>1, <2>3 DEF Update!UpdateIInv, Update!SeenWasAnnounced
  <2> QED
    BY <2>4, <2>5, <2>6, <2>7 DEF Update!UpdateIInv
<1>4. CASE Update!Fault /\ Update!Fails /\ UNCHANGED <<delivered, covered, swallowed>>
  <2>1. /\ updateMonitor' \in Update!Monitors /\ updateMonitor'.at = "wait" /\ updateSpent' \in Nat /\ updateSpent' # 0
        /\ UNCHANGED <<delivered, covered, swallowed>>
    BY <1>2, <1>4, UpdateWaitingTyped DEF Update!Fails, Update!Fault, Update!UpdateIInv, Update!UpdateShapes
  <2> QED
    BY <1>1, <2>1 DEF Update!UpdateIInv, Update!UpdateShapes, Update!UpdateTypeOK, Update!ReadInv, Update!BatchInv, Update!KeysInv, Update!SeenWasAnnounced, Update!Final
<1> QED
  BY <1>3, <1>4 DEF Update!send

LEMMA UpdateSaveKeeps == ASSUME Update!UpdateIInv, Update!save PROVE Update!UpdateIInv'
<1>1. /\ UNCHANGED <<runDisk, proc, updateShown, delivered, covered, swallowed>> /\ updateMonitor.at = "save"
  BY DEF Update!save
<1>2. /\ updateMonitor.batch \in Update!Batches /\ updateMonitor.first \in BOOLEAN
      /\ updateSaved.seen \subseteq updateMonitor.batch.seen
      /\ \A r \in updateMonitor.batch.seen : Update!Over(r)
      /\ updateMonitor.batch.events \subseteq covered \union swallowed
  BY <1>1, UpdateMonitorTyped DEF Update!UpdateIInv, Update!UpdateShapes, Update!BatchInv
<1>3. \E first \in BOOLEAN : updateMonitor' = Update!Waiting(first)
  BY <1>2 DEF Update!save
<1>4. updateMonitor' \in Update!Monitors /\ updateMonitor'.at = "wait"
  BY <1>3, UpdateWaitingTyped
<1>5. CASE Update!Fault /\ UNCHANGED <<updateSaved, passed>>
  <2>1. updateSpent' \in Nat /\ updateSpent' # 0
    BY <1>5 DEF Update!Fault, Update!UpdateIInv, Update!UpdateShapes
  <2> QED
    BY <1>1, <1>4, <1>5, <2>1 DEF Update!UpdateIInv, Update!UpdateShapes, Update!UpdateTypeOK, Update!ReadInv, Update!BatchInv, Update!KeysInv, Update!SeenWasAnnounced, Update!Final
<1>6. CASE /\ updateSaved' = [initialized |-> TRUE, seen |-> updateMonitor.batch.seen, incidents |-> updateMonitor.batch.incidents]
           /\ passed' = passed \union ((updateMonitor.batch.seen \ updateSaved.seen) \ updateMonitor.batch.events)
           /\ UNCHANGED updateSpent
  <2>1. /\ updateSaved'.initialized = TRUE /\ updateSaved'.seen = updateMonitor.batch.seen
        /\ updateSaved'.incidents = updateMonitor.batch.incidents
    BY <1>6
  <2>2. Update!UpdateShapes'
    BY <1>1, <1>2, <1>4, <1>6, <2>1 DEF Update!UpdateIInv, Update!UpdateShapes, Update!UpdateTypeOK, Update!Batches
  <2>3. Update!SeenWasAnnounced'
    <3>1. ASSUME NEW r \in updateMonitor.batch.seen PROVE r \in covered' \union swallowed' \union passed'
      <4>1. CASE r \in updateSaved.seen
        BY <1>1, <1>6, <4>1 DEF Update!UpdateIInv, Update!SeenWasAnnounced
      <4>2. CASE r \notin updateSaved.seen
        BY <1>1, <1>2, <1>6, <4>2
      <4> QED
        BY <4>1, <4>2
    <3> QED
      BY <1>1, <1>2, <2>1, <3>1 DEF Update!SeenWasAnnounced, Update!Over, Update!Final
  <2>4. Update!ReadInv' /\ Update!BatchInv'
    BY <1>1, <1>4 DEF Update!UpdateIInv, Update!ReadInv, Update!BatchInv, Update!Final
  <2>5. Update!KeysInv'
    BY <1>1, <1>4, <1>6, <2>1 DEF Update!UpdateIInv, Update!KeysInv
  <2> QED
    BY <2>2, <2>3, <2>4, <2>5 DEF Update!UpdateIInv
<1> QED
  BY <1>5, <1>6 DEF Update!save

LEMMA UpdateDaemonCrashKeeps == ASSUME Update!UpdateIInv, Update!DaemonCrash PROVE Update!UpdateIInv'
<1>1. /\ UNCHANGED <<runDisk, proc, updateSaved, delivered, covered, swallowed, passed>>
      /\ updateMonitor' \in Update!Monitors /\ updateMonitor'.at = "wait" /\ updateSpent' \in Nat /\ updateSpent' # 0
      /\ updateShown' \in [Update!Runs -> Update!Outcomes]
  <2>1. Update!Waiting(TRUE) \in Update!Monitors /\ Update!Waiting(TRUE).at = "wait" /\ Update!NoCatalog \in [Update!Runs -> Update!Outcomes]
    BY UpdateWaitingTyped DEF Update!NoCatalog, Update!Outcomes
  <2>2. updateSpent' = updateSpent + 1 /\ updateSpent \in Nat
    BY DEF Update!DaemonCrash, Update!Fault, Update!UpdateIInv, Update!UpdateShapes
  <2>3. /\ updateMonitor' = Update!Waiting(TRUE) /\ updateShown' = Update!NoCatalog
        /\ UNCHANGED <<runDisk, proc, updateSaved, delivered, covered, swallowed, passed>>
    BY DEF Update!DaemonCrash
  <2>4. updateSpent' \in Nat /\ updateSpent' # 0
    BY <2>2
  <2> QED
    BY <2>1, <2>3, <2>4
<1> QED
  BY <1>1 DEF Update!UpdateIInv, Update!UpdateShapes, Update!UpdateTypeOK, Update!ReadInv, Update!BatchInv, Update!KeysInv, Update!SeenWasAnnounced, Update!Final

LEMMA UpdateNextKeeps == ASSUME Update!UpdateIInv, [Update!UpdateNext]_(Update!updateVars) PROVE Update!UpdateIInv'
<1>1. CASE \E r \in Update!Runs : Update!Produce(r) \/ Update!ProducerCrash(r)
  BY <1>1, UpdateProducersKeep
<1>2. CASE Update!pass_begins \/ Update!read_records \/ Update!read_markers \/ Update!check_processes
  BY <1>2, UpdatePassBeginsKeeps, UpdateReadRecordsKeeps, UpdateReadMarkersKeeps, UpdateCheckProcessesKeeps
<1>3. CASE Update!deliver \/ Update!send \/ Update!save \/ Update!DaemonCrash
  BY <1>3, UpdateDeliverKeeps, UpdateSendKeeps, UpdateSaveKeeps, UpdateDaemonCrashKeeps
<1>4. CASE UNCHANGED Update!updateVars
  BY <1>4 DEF Update!updateVars, Update!UpdateIInv, Update!UpdateShapes, Update!UpdateTypeOK, Update!ReadInv, Update!BatchInv, Update!KeysInv, Update!SeenWasAnnounced, Update!Final, Update!Over, Update!Ended
<1> QED
  BY <1>1, <1>2, <1>3, <1>4 DEF Update!UpdateNext

\* A run is filed as seen only when it is over and its outcome was told, was none
\* to tell, or shared a key already delivered, and a key is shared only after a
\* fault (updates/desktop.rs Publisher::reconcile), for any number of runs.
THEOREM UpdateNoOutcomeLost == Update!UpdateSpec => []Update!UpdateSafe
<1>1. Update!UpdateInit => Update!UpdateIInv
  BY UpdateInitHolds
<1>2. Update!UpdateIInv /\ [Update!UpdateNext]_(Update!updateVars) => Update!UpdateIInv'
  BY UpdateNextKeeps
<1>3. Update!UpdateIInv => Update!UpdateSafe
  BY UpdateSafeFollows
<1> QED
  BY <1>1, <1>2, <1>3, PTL DEF Update!UpdateSpec

HIDE DEF runDisk, proc, started, updateMonitor, updateShown, updateSaved, delivered, covered, swallowed, passed, updateSpent

-----------------------------------------------------------------------------
(* Audio control (AudioControl).                                              *)

\* The variables of AudioControl.
pw == r1
audioRequests == r2
audioPending == r3
audioCtl == r4
online == r5
wake == r6
watching == r7
mon == r8
shownAudio == r9
written == r10
replies == r11
envx == r12
USE DEF pw, audioRequests, audioPending, audioCtl, online, wake, watching, mon, shownAudio, written, replies, envx

LEMMA AudioLeastNat ==
  ASSUME NEW T, T \subseteq Nat, T # {}
  PROVE  \E x \in T : \A y \in T : x <= y
<1> DEFINE R == {p \in Nat \X Nat : p[1] < p[2]}
<1>1. IsWellFoundedOn(R, Nat)
  <2>1. OpToRel(<, Nat) = R
    BY DEF OpToRel
  <2> QED
    BY <2>1, NatLessThanWellFounded
<1>2. PICK x \in T : \A y \in T : ~ (<<y, x>> \in R)
  <2> HIDE DEF R
  <2> QED
    BY <1>1, WFMin
<1>3. ASSUME NEW y \in T PROVE x <= y
  <2>1. <<y, x>> \notin R /\ <<y, x>> \in Nat \X Nat
    BY <1>2
  <2>2. ~ (y < x)
    BY <2>1
  <2> QED
    BY <2>2
<1> QED
  BY <1>3

LEMMA AudioSetInduction ==
  ASSUME NEW S, 0 \in S, \A n \in Nat : n \in S => n + 1 \in S
  PROVE  Nat \subseteq S
<1> DEFINE T == Nat \ S
<1> SUFFICES ASSUME T # {} PROVE FALSE
  OBVIOUS
<1>1. PICK x \in T : \A y \in T : x <= y
  <2>1. T \subseteq Nat
    OBVIOUS
  <2> HIDE DEF T
  <2> QED
    BY <2>1, AudioLeastNat
<1>2. x # 0 /\ x - 1 \in Nat /\ x - 1 < x
  BY <1>1
<1>3. x - 1 \in S
  BY <1>1, <1>2
<1> QED
  BY <1>1, <1>2, <1>3

-----------------------------------------------------------------------------
(* Sums and volumes over a run of requests.                                  *)

\* f is v at 0 and goes on as F says, up to n.
AudioGoes(f, F, v, n) == f \in [0..n -> Int] /\ f[0] = v /\ \A i \in 1..n : f[i] = F[<<i, f[i - 1]>>]

LEMMA AudioGoesExists ==
  ASSUME NEW v \in Int, NEW m \in Nat, NEW F \in [(1..m) \X Int -> Int]
  PROVE  \E f : AudioGoes(f, F, v, m)
<1> DEFINE T == {n \in Nat : n <= m => \E f : AudioGoes(f, F, v, n)}
<1>1. 0 \in T
  <2>1. AudioGoes([i \in 0..0 |-> v], F, v, 0)
    BY DEF AudioGoes
  <2> QED
    BY <2>1
<1>2. ASSUME NEW n \in Nat, n \in T PROVE n + 1 \in T
  <2> SUFFICES ASSUME n + 1 <= m PROVE \E f : AudioGoes(f, F, v, n + 1)
    OBVIOUS
  <2>1. PICK f : AudioGoes(f, F, v, n)
    BY <1>2
  <2> DEFINE new == F[<<n + 1, f[n]>>]
             g == [i \in 0..(n + 1) |-> IF i = n + 1 THEN new ELSE f[i]]
  <2>2. f[n] \in Int /\ n + 1 \in 1..m
    BY <2>1 DEF AudioGoes
  <2>3. new \in Int
    BY <2>2
  <2>4. \A i \in 0..n : f[i] \in Int /\ i \in 0..(n + 1) /\ i # n + 1
    BY <2>1 DEF AudioGoes
  <2> HIDE DEF new
  <2>5. g \in [0..(n + 1) -> Int] /\ \A i \in 0..n : g[i] = f[i]
    BY <2>3, <2>4
  <2>6. g[0] = v
    BY <2>1, <2>5 DEF AudioGoes
  <2>7. ASSUME NEW i \in 1..(n + 1) PROVE g[i] = F[<<i, g[i - 1]>>]
    <3>1. i - 1 \in 0..n /\ g[i - 1] = f[i - 1]
      BY <2>5
    <3>2. CASE i = n + 1
      <4>1. i - 1 = n /\ n \in 0..n /\ i \in 0..(n + 1) /\ g[i] = new
        BY <3>2
      <4>2. g[n] = f[n]
        BY <2>5, <4>1
      <4> QED
        BY <3>2, <4>1, <4>2 DEF new
    <3>3. CASE i # n + 1
      <4>1. i \in 1..n /\ i \in 0..n
        BY <3>3
      <4>2. g[i] = f[i] /\ f[i] = F[<<i, f[i - 1]>>]
        BY <2>1, <2>5, <4>1 DEF AudioGoes
      <4> QED
        BY <3>1, <4>2
    <3> QED
      BY <3>2, <3>3
  <2> HIDE DEF g
  <2> QED
    BY <2>5, <2>6, <2>7 DEF AudioGoes
<1>3. Nat \subseteq T
  <2> HIDE DEF T
  <2> QED
    BY <1>1, <1>2, AudioSetInduction
<1> QED
  BY <1>3

\* The running sums of the adjustments of s.
AudioSums(f, s) == /\ DOMAIN f = 0..Len(s) /\ f[0] = 0
                   /\ \A i \in 1..Len(s) : f[i] = f[i - 1] + s[i].cmd.delta
\* The volumes after each request of s, from v.
AudioLevels(f, v, s) == /\ DOMAIN f = 0..Len(s) /\ f[0] = v
                        /\ \A i \in 1..Len(s) : f[i] = Audio!adjusted_volume(f[i - 1], s[i].cmd.delta)

LEMMA AudioClampIs ==
  ASSUME Audio!AudioConstantsOK, NEW v \in Int
  PROVE  Audio!Clamp(v) \in 0..TopVolume /\ Audio!Clamp(v) \in Int /\ (v \in 0..TopVolume => Audio!Clamp(v) = v)
BY DEF Audio!Clamp, Audio!AudioConstantsOK

LEMMA AudioEntriesAre ==
  ASSUME NEW s \in Seq(Audio!Entry)
  PROVE  /\ Len(s) \in Nat /\ DOMAIN s = 1..Len(s)
         /\ \A i \in 1..Len(s) : s[i] \in Audio!Entry /\ s[i].cmd.delta \in Int
<1>1. Len(s) \in Nat /\ DOMAIN s = 1..Len(s) /\ \A i \in 1..Len(s) : s[i] \in Audio!Entry
  <2> HIDE DEF Audio!Entry
  <2> QED
    OBVIOUS
<1>2. \A e \in Audio!Entry : e.cmd.delta \in Int
  BY DEF Audio!Entry
<1> QED
  BY <1>1, <1>2

LEMMA AudioTotalIs ==
  ASSUME NEW s \in Seq(Audio!Entry)
  PROVE  \E f : AudioSums(f, s) /\ Audio!Total(s) = f[Len(s)]
<1> DEFINE n == Len(s)
           step(f, i) == f[i - 1] + s[i].cmd.delta
           P(f) == f = [i \in 0..n |-> IF i = 0 THEN 0 ELSE step(f, i)]
           F == [x \in (1..n) \X Int |-> x[2] + s[x[1]].cmd.delta]
<1>1. n \in Nat /\ \A i \in 1..n : s[i].cmd.delta \in Int
  BY AudioEntriesAre
<1>2. F \in [(1..n) \X Int -> Int]
  <2>1. \A x \in (1..n) \X Int : x[1] \in 1..n /\ x[2] \in Int
    OBVIOUS
  <2>2. \A x \in (1..n) \X Int : x[2] + s[x[1]].cmd.delta \in Int
    BY <1>1, <2>1
  <2> QED
    BY <2>2
<1>3. PICK g : AudioGoes(g, F, 0, n)
  <2>1. 0 \in Int
    OBVIOUS
  <2>2. n \in Nat
    BY <1>1
  <2> HIDE DEF F, n
  <2> QED
    BY <1>2, <2>1, <2>2, AudioGoesExists
<1>4. P(CHOOSE f : P(f))
  <2>1. \E f : P(f)
    <3> HIDE DEF n
    <3>1. \A i \in 1..n : g[i - 1] \in Int /\ g[i] = step(g, i)
      <4> SUFFICES ASSUME NEW i \in 1..n PROVE g[i - 1] \in Int /\ g[i] = step(g, i)
        OBVIOUS
      <4>1. i - 1 \in 0..n /\ g \in [0..n -> Int] /\ g[i] = F[<<i, g[i - 1]>>]
        <5> HIDE DEF F
        <5> QED
          BY <1>1, <1>3 DEF AudioGoes
      <4>2. <<i, g[i - 1]>> \in (1..n) \X Int
        BY <4>1
      <4> QED
        BY <4>1, <4>2
    <3>2. \A i \in 0..n : g[i] = IF i = 0 THEN 0 ELSE step(g, i)
      <4> HIDE DEF step
      <4> QED
        BY <1>1, <1>3, <3>1 DEF AudioGoes
    <3>3. g = [i \in 0..n |-> IF i = 0 THEN 0 ELSE step(g, i)]
      <4>1. g \in [0..n -> Int]
        BY <1>3 DEF AudioGoes
      <4> HIDE DEF step
      <4> QED
        BY <3>2, <4>1
    <3> QED
      BY <3>3
  <2> HIDE DEF P
  <2> QED
    BY <2>1
<1>5. PICK f : P(f) /\ Audio!Total(s) = f[n]
  BY <1>4 DEF Audio!Total, n
<1> HIDE DEF n, F
<1>6. AudioSums(f, s)
  <2>1. DOMAIN f = 0..n /\ f[0] = 0
    BY <1>1, <1>5
  <2>2. ASSUME NEW i \in 1..n PROVE f[i] = step(f, i)
    <3>1. i \in 0..n /\ i # 0
      BY <1>1
    <3> HIDE DEF step
    <3> QED
      BY <1>5, <3>1
  <2> QED
    BY <2>1, <2>2 DEF AudioSums, n
<1> QED
  BY <1>5, <1>6 DEF n

LEMMA AudioOneByOneIs ==
  ASSUME Audio!AudioConstantsOK, NEW s \in Seq(Audio!Entry), NEW v \in Int
  PROVE  \E f : AudioLevels(f, v, s) /\ Audio!OneByOne(v, s) = f[Len(s)]
<1> DEFINE n == Len(s)
           step(f, i) == Audio!adjusted_volume(f[i - 1], s[i].cmd.delta)
           P(f) == f = [i \in 0..n |-> IF i = 0 THEN v ELSE step(f, i)]
           F == [x \in (1..n) \X Int |-> Audio!adjusted_volume(x[2], s[x[1]].cmd.delta)]
<1>1. n \in Nat /\ \A i \in 1..n : s[i].cmd.delta \in Int
  BY AudioEntriesAre
<1>2. F \in [(1..n) \X Int -> Int]
  <2>1. \A x \in (1..n) \X Int : x[1] \in 1..n /\ x[2] \in Int
    OBVIOUS
  <2>2. \A x \in (1..n) \X Int : x[2] + s[x[1]].cmd.delta \in Int
    BY <1>1, <2>1
  <2>3. \A x \in (1..n) \X Int : Audio!adjusted_volume(x[2], s[x[1]].cmd.delta) \in Int
    BY <2>2, AudioClampIs DEF Audio!adjusted_volume
  <2> QED
    BY <2>3
<1>3. PICK g : AudioGoes(g, F, v, n)
  <2>1. n \in Nat
    BY <1>1
  <2> HIDE DEF F, n
  <2> QED
    BY <1>2, <2>1, AudioGoesExists
<1>4. P(CHOOSE f : P(f))
  <2>1. \E f : P(f)
    <3> HIDE DEF n
    <3>1. \A i \in 1..n : g[i - 1] \in Int /\ g[i] = step(g, i)
      <4> SUFFICES ASSUME NEW i \in 1..n PROVE g[i - 1] \in Int /\ g[i] = step(g, i)
        OBVIOUS
      <4>1. i - 1 \in 0..n /\ g \in [0..n -> Int] /\ g[i] = F[<<i, g[i - 1]>>]
        <5> HIDE DEF F
        <5> QED
          BY <1>1, <1>3 DEF AudioGoes
      <4>2. <<i, g[i - 1]>> \in (1..n) \X Int
        BY <4>1
      <4> QED
        BY <4>1, <4>2
    <3>2. \A i \in 0..n : g[i] = IF i = 0 THEN v ELSE step(g, i)
      <4> HIDE DEF step
      <4> QED
        BY <1>1, <1>3, <3>1 DEF AudioGoes
    <3>3. g = [i \in 0..n |-> IF i = 0 THEN v ELSE step(g, i)]
      <4>1. g \in [0..n -> Int]
        BY <1>3 DEF AudioGoes
      <4> HIDE DEF step
      <4> QED
        BY <3>2, <4>1
    <3> QED
      BY <3>3
  <2> HIDE DEF P
  <2> QED
    BY <2>1
<1>5. PICK f : P(f) /\ Audio!OneByOne(v, s) = f[n]
  BY <1>4 DEF Audio!OneByOne, n
<1> HIDE DEF n, F
<1>6. AudioLevels(f, v, s)
  <2>1. DOMAIN f = 0..n /\ f[0] = v
    BY <1>1, <1>5
  <2>2. ASSUME NEW i \in 1..n PROVE f[i] = step(f, i)
    <3>1. i \in 0..n /\ i # 0
      BY <1>1
    <3> HIDE DEF step
    <3> QED
      BY <1>5, <3>1
  <2> QED
    BY <2>1, <2>2 DEF AudioLevels, n
<1> QED
  BY <1>5, <1>6 DEF n

\* Adjustments in one direction, each with its own clamp, end where their sum ends.
LEMMA AudioOneDirection ==
  ASSUME Audio!AudioConstantsOK, NEW s \in Seq(Audio!Entry), NEW v \in 0..TopVolume,
         \A i, j \in DOMAIN s : Audio!signum(s[i].cmd.delta) = Audio!signum(s[j].cmd.delta)
  PROVE  Audio!Total(s) \in Int /\ Audio!adjusted_volume(v, Audio!Total(s)) = Audio!OneByOne(v, s)
<1>1. v \in Int /\ TopVolume \in Nat
  BY DEF Audio!AudioConstantsOK
<1>2. PICK sum : AudioSums(sum, s) /\ Audio!Total(s) = sum[Len(s)]
  BY AudioTotalIs
<1>3. PICK f : AudioLevels(f, v, s) /\ Audio!OneByOne(v, s) = f[Len(s)]
  BY <1>1, AudioOneByOneIs
<1> DEFINE n == Len(s)
           d(i) == s[i].cmd.delta
           T == {i \in Nat : i <= n => /\ sum[i] \in Int /\ f[i] = Audio!Clamp(v + sum[i])
                                     /\ \A j \in 1..n : (0 <= d(j) => 0 <= sum[i]) /\ (d(j) <= 0 => sum[i] <= 0)}
<1>4. n \in Nat /\ DOMAIN s = 1..n /\ \A i \in 1..n : d(i) \in Int
  BY AudioEntriesAre
<1>5. \A i, j \in 1..n : (0 <= d(j) => 0 <= d(i)) /\ (d(j) <= 0 => d(i) <= 0)
  BY <1>4 DEF Audio!signum
<1>6. 0 \in T
  <2>1. sum[0] = 0 /\ f[0] = v /\ v + 0 = v
    BY <1>1, <1>2, <1>3 DEF AudioSums, AudioLevels
  <2> QED
    BY <1>1, <2>1, AudioClampIs
<1>7. ASSUME NEW i \in Nat, i \in T PROVE i + 1 \in T
  <2> SUFFICES ASSUME i + 1 <= n
               PROVE  /\ sum[i + 1] \in Int /\ f[i + 1] = Audio!Clamp(v + sum[i + 1])
                      /\ \A j \in 1..n : (0 <= d(j) => 0 <= sum[i + 1]) /\ (d(j) <= 0 => sum[i + 1] <= 0)
    OBVIOUS
  <2> HIDE DEF n, d
  <2>1. /\ sum[i] \in Int /\ f[i] = Audio!Clamp(v + sum[i])
        /\ \A j \in 1..n : (0 <= d(j) => 0 <= sum[i]) /\ (d(j) <= 0 => sum[i] <= 0)
    BY <1>4, <1>7
  <2>2. i + 1 \in 1..n /\ (i + 1) - 1 = i
    BY <1>4
  <2>3. sum[i + 1] = sum[i] + d(i + 1) /\ f[i + 1] = Audio!Clamp(f[i] + d(i + 1))
    BY <1>2, <1>3, <2>2 DEF AudioSums, AudioLevels, Audio!adjusted_volume, n, d
  <2>4. d(i + 1) \in Int /\ sum[i + 1] \in Int
    BY <1>4, <2>1, <2>2, <2>3
  <2>5. \A j \in 1..n : (0 <= d(j) => 0 <= sum[i + 1]) /\ (d(j) <= 0 => sum[i + 1] <= 0)
    BY <1>4, <1>5, <2>1, <2>2, <2>3, <2>4
  <2>6. Audio!Clamp(Audio!Clamp(v + sum[i]) + d(i + 1)) = Audio!Clamp(v + (sum[i] + d(i + 1)))
    <3>1. CASE 0 <= d(i + 1)
      <4>1. 0 <= sum[i]
        BY <2>1, <2>2, <3>1
      <4> QED
        BY <1>1, <2>1, <2>4, <3>1, <4>1 DEF Audio!Clamp
    <3>2. CASE d(i + 1) <= 0
      <4>1. sum[i] <= 0
        BY <2>1, <2>2, <3>2
      <4> QED
        BY <1>1, <2>1, <2>4, <3>2, <4>1 DEF Audio!Clamp
    <3> QED
      BY <2>4, <3>1, <3>2
  <2> QED
    BY <2>1, <2>3, <2>4, <2>5, <2>6
<1>8. Nat \subseteq T
  <2> HIDE DEF T
  <2> QED
    BY <1>6, <1>7, AudioSetInduction
<1>9. sum[n] \in Int /\ f[n] = Audio!Clamp(v + sum[n])
  BY <1>4, <1>8
<1> QED
  BY <1>2, <1>3, <1>9 DEF Audio!adjusted_volume
-----------------------------------------------------------------------------
(* The runs of requests the controller takes.                                *)

\* The requests are the first waiting ones, in one direction when they adjust.
AudioTaken(n) ==
  /\ n \in 1..Len(audioPending)
  /\ Head(audioPending).cmd.kind = "adjust" =>
       \A i \in 1..n : Audio!signum(audioPending[i].cmd.delta) = Audio!signum(Head(audioPending).cmd.delta)
  /\ Head(audioPending).cmd.kind # "adjust" => n = 1

LEMMA AudioRunIs ==
  ASSUME audioPending \in Seq(Audio!Entry), audioPending # <<>>
  PROVE  AudioTaken(Audio!Run(Head(audioPending).cmd))
<1> DEFINE first == Head(audioPending).cmd
           last == Len(audioPending)
           Ends(n) == \A i \in 1..n : Audio!Mergeable(first, audioPending[i].cmd)
           Stops(n) == n < last => ~Audio!Mergeable(first, audioPending[n + 1].cmd)
           T == {n \in 1..last : Stops(n)}
<1>1. last \in Nat /\ last # 0 /\ Head(audioPending) = audioPending[1]
  BY EmptySeq, LenProperties
<1>2. CASE first.kind # "adjust"
  <2>1. Audio!Run(first) = 1 /\ 1 \in 1..last
    BY <1>1, <1>2 DEF Audio!Run
  <2> QED
    BY <1>2, <2>1 DEF AudioTaken
<1>3. CASE first.kind = "adjust"
  <2>1. PICK n \in T : \A m \in T : n <= m
    <3>1. last \in T
      BY <1>1
    <3>2. T \subseteq Nat
      BY <1>1
    <3> HIDE DEF T
    <3> QED
      BY <3>1, <3>2, AudioLeastNat
  <2>2. Audio!Mergeable(first, audioPending[1].cmd)
    BY <1>1, <1>3 DEF Audio!Mergeable
  <2>3. Ends(n)
    <3> SUFFICES ASSUME NEW i \in 1..n PROVE Audio!Mergeable(first, audioPending[i].cmd)
      OBVIOUS
    <3>1. CASE i = 1
      BY <2>2, <3>1
    <3>2. CASE i # 1
      <4> HIDE DEF first, last
      <4>1. i - 1 \in 1..last /\ i - 1 < n /\ i - 1 < last /\ (i - 1) + 1 = i
        BY <1>1, <2>1, <3>2
      <4>2. i - 1 \notin T
        BY <2>1, <4>1
      <4> QED
        BY <4>1, <4>2
    <3> QED
      BY <3>1, <3>2
  <2> DEFINE k == CHOOSE m \in 1..last : Ends(m) /\ Stops(m)
  <2>4. Audio!Run(first) = k
    BY <1>3 DEF Audio!Run
  <2>5. k \in 1..last /\ Ends(k)
    <3> HIDE DEF first, last, Ends, Stops
    <3> QED
      BY <2>1, <2>3
  <2>6. \A i \in 1..k : Audio!signum(audioPending[i].cmd.delta) = Audio!signum(first.delta)
    <3> HIDE DEF k
    <3> QED
      BY <2>5 DEF Audio!Mergeable
  <2> HIDE DEF k
  <2> QED
    BY <1>3, <2>4, <2>5, <2>6 DEF AudioTaken
<1> QED
  BY <1>2, <1>3

\* s without its first n entries, and those.
LEMMA AudioSplitIs ==
  ASSUME NEW s \in Seq(Audio!Entry), NEW n \in 1..Len(s)
  PROVE  /\ SubSeq(s, 1, n) \in Seq(Audio!Entry) /\ Len(SubSeq(s, 1, n)) = n
         /\ \A i \in 1..n : SubSeq(s, 1, n)[i] = s[i]
         /\ SubSeq(s, n + 1, Len(s)) \in Seq(Audio!Entry) /\ Len(SubSeq(s, n + 1, Len(s))) = Len(s) - n
         /\ \A i \in 1..(Len(s) - n) : SubSeq(s, n + 1, Len(s))[i] = s[n + i]
<1> DEFINE l == Len(s)
<1>1. l \in Nat /\ n \in Int /\ n + 1 \in Int /\ 1 <= n /\ n <= l /\ \A i \in 1..l : s[i] \in Audio!Entry
  BY AudioEntriesAre
<1> HIDE DEF l, Audio!Entry
<1>2. /\ SubSeq(s, 1, n) \in Seq(Audio!Entry) /\ Len(SubSeq(s, 1, n)) = (IF 1 <= n THEN n - 1 + 1 ELSE 0)
      /\ \A i \in 1..(n - 1 + 1) : SubSeq(s, 1, n)[i] = s[1 + i - 1]
  <2>1. \A i \in 1..n : s[i] \in Audio!Entry
    BY <1>1
  <2> QED
    BY <1>1, <2>1, SubSeqProperties
<1>3. /\ SubSeq(s, n + 1, l) \in Seq(Audio!Entry) /\ Len(SubSeq(s, n + 1, l)) = (IF n + 1 <= l THEN l - (n + 1) + 1 ELSE 0)
      /\ \A i \in 1..(l - (n + 1) + 1) : SubSeq(s, n + 1, l)[i] = s[(n + 1) + i - 1]
  <2>1. \A i \in (n + 1)..l : s[i] \in Audio!Entry
    BY <1>1
  <2> QED
    BY <1>1, <2>1, SubSeqProperties
<1>4. Len(SubSeq(s, 1, n)) = n /\ Len(SubSeq(s, n + 1, l)) = l - n /\ n - 1 + 1 = n /\ l - (n + 1) + 1 = l - n
  BY <1>1, <1>2, <1>3
<1>5. \A i \in 1..n : SubSeq(s, 1, n)[i] = s[i]
  <2>1. \A i \in 1..n : 1 + i - 1 = i
    BY <1>1
  <2> QED
    BY <1>2, <1>4, <2>1
<1>6. \A i \in 1..(l - n) : SubSeq(s, n + 1, l)[i] = s[n + i]
  <2>1. \A i \in 1..(l - n) : (n + 1) + i - 1 = n + i
    BY <1>1
  <2> QED
    BY <1>3, <1>4, <2>1
<1> QED
  BY <1>2, <1>3, <1>4, <1>5, <1>6 DEF l

-----------------------------------------------------------------------------
(* What PipeWire can answer.                                                 *)

LEMMA AudioErrorIs ==
  ASSUME Audio!AudioConstantsOK
  PROVE  Audio!Error \in Audio!Probe
<1>1. 0 \in 0..TopVolume
  BY DEF Audio!AudioConstantsOK
<1> QED
  BY <1>1 DEF Audio!Error, Audio!Probe

LEMMA AudioProbesAre ==
  ASSUME Audio!AudioConstantsOK, Audio!ServerInv
  PROVE  (\A p \in Audio!Probes : p \in Audio!Probe /\ p.sink \in Sinks) /\ Audio!Snapshots \subseteq Audio!Probe
<1>1. ASSUME NEW p \in Audio!Probes PROVE p \in Audio!Probe /\ p.sink \in Sinks
  <2>1. PICK s \in Audio!Targets : p = [sink |-> s, volume |-> pw.volume[s], muted |-> pw.muted[s], mic |-> pw.mic]
    BY <1>1 DEF Audio!Probes
  <2>2. s \in Sinks
    BY <2>1 DEF Audio!Targets, Audio!ServerInv
  <2>3. pw.volume[s] \in 0..TopVolume /\ pw.muted[s] \in BOOLEAN /\ pw.mic \in {"live", "muted", Audio!None}
    BY <2>2 DEF Audio!ServerInv
  <2> QED
    BY <2>1, <2>2, <2>3 DEF Audio!Probe
<1> QED
  BY <1>1, AudioErrorIs DEF Audio!Snapshots
-----------------------------------------------------------------------------
(* What a step leaves in place.                                              *)

LEMMA AudioServerStays == ASSUME Audio!ServerInv, UNCHANGED pw PROVE Audio!ServerInv'
BY DEF Audio!ServerInv

LEMMA AudioControlStays == ASSUME Audio!ControlInv, UNCHANGED audioCtl PROVE Audio!ControlInv'
BY DEF Audio!ControlInv, Audio!Total

LEMMA AudioQueueStays ==
  ASSUME Audio!QueueInv, UNCHANGED <<audioRequests, audioPending, replies>>, audioCtl'.batch = audioCtl.batch
  PROVE  Audio!QueueInv' /\ Audio!Issued' = Audio!Issued
BY DEF Audio!QueueInv, Audio!Issued

\* What WrittenInv says of request i, of l answered ones and b of the batch.
AudioRight(i, l, b, at, w, r) ==
  CASE i <= l -> w[i] <= 1 /\ (r[i].ok => w[i] = 1)
    [] i > l + b -> w[i] = 0
    [] OTHER -> CASE at \in {"probe", "write"} -> w[i] = 0
                  [] at \in {"readback", "publish"} -> w[i] = 1
                  [] OTHER -> w[i] <= 1

LEMMA AudioWrittenIs ==
  ASSUME Audio!WrittenInv
  PROVE  /\ written \in Seq(Nat) /\ Len(written) = Audio!Issued
         /\ \A i \in 1..Audio!Issued : AudioRight(i, Len(replies), Len(audioCtl.batch), audioCtl.at, written, replies)
BY DEF Audio!WrittenInv, AudioRight

LEMMA AudioWrittenFollows ==
  ASSUME written' \in Seq(Nat), Len(written') = Audio!Issued',
         \A i \in 1..Audio!Issued' : AudioRight(i, Len(replies'), Len((audioCtl').batch), (audioCtl').at, written', replies')
  PROVE  Audio!WrittenInv'
BY DEF Audio!WrittenInv, AudioRight

\* ctl may go on with its batch, but not back to before its write.
LEMMA AudioWrittenStays ==
  ASSUME Audio!WrittenInv, Audio!Issued' = Audio!Issued, UNCHANGED <<replies, written>>, audioCtl'.batch = audioCtl.batch,
         audioCtl'.at \in {"probe", "write"} => audioCtl.at \in {"probe", "write"},
         audioCtl'.at \in {"readback", "publish"} => audioCtl.at \in {"readback", "publish"}
  PROVE  Audio!WrittenInv'
<1>1. /\ written' \in Seq(Nat) /\ Len(written') = Audio!Issued' /\ Audio!Issued' = Audio!Issued
      /\ Len(replies') = Len(replies) /\ Len((audioCtl').batch) = Len(audioCtl.batch)
  BY DEF Audio!WrittenInv
<1>2. ASSUME NEW i \in 1..Audio!Issued
      PROVE  AudioRight(i, Len(replies), Len(audioCtl.batch), (audioCtl').at, written', replies')
  <2>1. AudioRight(i, Len(replies), Len(audioCtl.batch), audioCtl.at, written, replies)
    BY AudioWrittenIs
  <2> DEFINE l == Len(replies)
             b == Len(audioCtl.batch)
  <2> HIDE DEF l, b
  <2> QED
    BY <2>1 DEF AudioRight, l, b
<1> QED
  BY <1>1, <1>2, AudioWrittenFollows

LEMMA AudioThreadStays == ASSUME Audio!ThreadInv, UNCHANGED <<mon, wake, watching, online>> PROVE Audio!ThreadInv'
BY DEF Audio!ThreadInv

\* Nothing of the queues, the controller or the answers changes.
AudioAside == UNCHANGED <<audioRequests, audioPending, audioCtl, replies, written>>

LEMMA AudioAsideKeeps ==
  ASSUME Audio!ControlInv, Audio!QueueInv, Audio!WrittenInv, AudioAside
  PROVE  Audio!ControlInv' /\ Audio!QueueInv' /\ Audio!WrittenInv'
<1>1. Audio!QueueInv' /\ Audio!Issued' = Audio!Issued
  BY AudioQueueStays DEF AudioAside
<1>2. Audio!WrittenInv'
  BY <1>1, AudioWrittenStays DEF AudioAside
<1> QED
  BY <1>1, <1>2, AudioControlStays DEF AudioAside

-----------------------------------------------------------------------------
(* Other clients, the watcher and the monitor.                               *)

LEMMA AudioChangedKeeps ==
  ASSUME Audio!ThreadInv, NEW new, Audio!Changed(new), UNCHANGED <<mon, watching, online>>
  PROVE  Audio!ThreadInv' /\ pw' = new
BY DEF Audio!ThreadInv, Audio!Changed

LEMMA AudioOtherClientKeeps ==
  ASSUME Audio!AudioConstantsOK, Audio!IInv, NEW s \in Sinks, Audio!OtherClient(s)
  PROVE  Audio!IInv'
<1>1. Audio!ControlInv' /\ Audio!QueueInv' /\ Audio!WrittenInv'
  BY AudioAsideKeeps DEF Audio!IInv, Audio!OtherClient, AudioAside
<1>2. Audio!ThreadInv'
  <2>1. \E new : Audio!Changed(new)
    BY DEF Audio!OtherClient
  <2> QED
    BY <2>1, AudioChangedKeeps DEF Audio!IInv, Audio!OtherClient
<1>3. Audio!ServerInv'
  <2>1. Audio!ServerInv
    BY DEF Audio!IInv
  <2>2. ASSUME NEW v \in {0, TopVolume}, pw' = [pw EXCEPT !.volume[s] = v] PROVE Audio!ServerInv'
    BY <2>1, <2>2 DEF Audio!ServerInv, Audio!AudioConstantsOK
  <2>3. ASSUME pw' = [pw EXCEPT !.muted[s] = ~@] PROVE Audio!ServerInv'
    BY <2>1, <2>3, Zenon DEF Audio!ServerInv
  <2>4. ASSUME pw' = [pw EXCEPT !.default = s] PROVE Audio!ServerInv'
    BY <2>1, <2>4 DEF Audio!ServerInv
  <2>5. ASSUME pw' = [pw EXCEPT !.present = IF s \in @ THEN @ \ {s} ELSE @ \union {s}] PROVE Audio!ServerInv'
    BY <2>1, <2>5 DEF Audio!ServerInv
  <2> QED
    BY <2>2, <2>3, <2>4, <2>5 DEF Audio!OtherClient, Audio!Changed
<1> QED
  BY <1>1, <1>2, <1>3 DEF Audio!IInv

LEMMA AudioWatcherEndsKeeps == ASSUME Audio!IInv, Audio!WatcherEnds PROVE Audio!IInv'
<1>1. Audio!ControlInv' /\ Audio!QueueInv' /\ Audio!WrittenInv'
  BY AudioAsideKeeps DEF Audio!IInv, Audio!WatcherEnds, AudioAside
<1>2. Audio!ThreadInv' /\ Audio!ServerInv'
  BY AudioServerStays DEF Audio!IInv, Audio!ThreadInv, Audio!WatcherEnds
<1> QED
  BY <1>1, <1>2 DEF Audio!IInv

LEMMA AudioMonitorStepKeeps ==
  ASSUME Audio!AudioConstantsOK, Audio!IInv, Audio!MonitorStep
  PROVE  Audio!IInv'
<1>1. Audio!ControlInv' /\ Audio!QueueInv' /\ Audio!WrittenInv'
  BY AudioAsideKeeps DEF Audio!IInv, Audio!MonitorStep, Audio!monitor, Audio!probe, Audio!refresh, AudioAside
<1>2. Audio!ServerInv'
  BY AudioServerStays DEF Audio!IInv, Audio!MonitorStep, Audio!monitor, Audio!probe, Audio!refresh
<1>3. Audio!ThreadInv'
  <2>1. Audio!ThreadInv /\ Audio!Error \in Audio!Probe
    BY AudioErrorIs DEF Audio!IInv
  <2>2. CASE Audio!monitor
    BY <2>1, <2>2 DEF Audio!monitor, Audio!ThreadInv
  <2>3. CASE Audio!probe
    <3>1. Audio!Snapshots \subseteq Audio!Probe
      BY AudioProbesAre DEF Audio!IInv
    <3>2. PICK p \in Audio!Probe : mon' = [at |-> "publish", probe |-> p]
      BY <2>1, <2>3, <3>1 DEF Audio!probe
    <3> QED
      BY <2>1, <2>3, <3>2 DEF Audio!probe, Audio!ThreadInv
  <2>4. CASE Audio!refresh
    BY <2>1, <2>4 DEF Audio!refresh, Audio!ThreadInv
  <2> QED
    BY <2>2, <2>3, <2>4 DEF Audio!MonitorStep
<1> QED
  BY <1>1, <1>2, <1>3 DEF Audio!IInv
-----------------------------------------------------------------------------
(* The controller's steps.                                                   *)

\* The controller goes to step a with probe p.
AudioMoves(a, p) == audioCtl' = [audioCtl EXCEPT !.at = a, !.probe = p]

LEMMA AudioMovesKeep ==
  ASSUME Audio!ControlInv, audioCtl.at # "idle", NEW p \in Audio!Probe,
         NEW a \in {"probe", "write", "readback", "publish", "failed"},
         a = "write" => p.sink \in Sinks, AudioMoves(a, p)
  PROVE  Audio!ControlInv' /\ audioCtl'.batch = audioCtl.batch /\ audioCtl'.at = a
<1>1. audioCtl' \in [at: {"idle", "probe", "write", "readback", "publish", "failed"}, batch: Seq(Audio!Entry),
                cmd: [kind: Audio!Kinds, delta: Int], probe: Audio!Probe]
  BY DEF Audio!ControlInv, AudioMoves
<1>2. /\ audioCtl'.at = a /\ audioCtl'.probe = p /\ audioCtl'.batch = audioCtl.batch /\ audioCtl'.cmd = audioCtl.cmd
  BY DEF Audio!ControlInv, AudioMoves
<1> QED
  BY <1>1, <1>2 DEF Audio!ControlInv, Audio!Total

LEMMA AudioFailMoves ==
  ASSUME Audio!ControlInv, NEW applied, Audio!Fail(applied)
  PROVE  AudioMoves("failed", audioCtl.probe) /\ audioCtl.probe \in Audio!Probe /\ online' = FALSE
BY DEF Audio!ControlInv, Audio!Fail, Audio!After, AudioMoves

LEMMA AudioProbeDefaultKeeps ==
  ASSUME Audio!AudioConstantsOK, Audio!IInv, Audio!probe_default
  PROVE  Audio!IInv'
<1>1. Audio!ServerInv' /\ Audio!QueueInv /\ Audio!WrittenInv /\ Audio!ControlInv /\ Audio!ThreadInv /\ audioCtl.at = "probe"
  BY AudioServerStays DEF Audio!IInv, Audio!probe_default
<1>2. PICK a \in {"write", "failed"}, p \in Audio!Probe :
         AudioMoves(a, p) /\ (a = "write" => p.sink \in Sinks) /\ online' \in BOOLEAN
  <2>1. ASSUME Audio!Fail(FALSE)
        PROVE  \E a \in {"write", "failed"}, p \in Audio!Probe :
                  AudioMoves(a, p) /\ (a = "write" => p.sink \in Sinks) /\ online' \in BOOLEAN
    BY <1>1, <2>1, AudioFailMoves
  <2>2. ASSUME NEW p \in Audio!Probes, online' = TRUE, audioCtl' = [audioCtl EXCEPT !.at = "write", !.probe = p]
        PROVE  \E a \in {"write", "failed"}, q \in Audio!Probe :
                  AudioMoves(a, q) /\ (a = "write" => q.sink \in Sinks) /\ online' \in BOOLEAN
    <3>1. p \in Audio!Probe /\ p.sink \in Sinks /\ AudioMoves("write", p)
      BY <2>2, AudioProbesAre DEF Audio!IInv, AudioMoves
    <3> QED
      BY <2>2, <3>1
  <2>3. Audio!Fail(FALSE) \/ \E p \in Audio!Probes : online' = TRUE /\ audioCtl' = [audioCtl EXCEPT !.at = "write", !.probe = p]
    BY DEF Audio!probe_default
  <2> QED
    BY <2>1, <2>2, <2>3
<1>3. Audio!ControlInv' /\ audioCtl'.batch = audioCtl.batch /\ audioCtl'.at = a
  BY <1>1, <1>2, AudioMovesKeep
<1>4. Audio!QueueInv' /\ Audio!Issued' = Audio!Issued
  BY <1>1, <1>3, AudioQueueStays DEF Audio!probe_default
<1>5. Audio!WrittenInv'
  BY <1>1, <1>3, <1>4, AudioWrittenStays DEF Audio!probe_default
<1>6. Audio!ThreadInv'
  BY <1>1, <1>2 DEF Audio!ThreadInv, Audio!probe_default
<1> QED
  BY <1>1, <1>3, <1>4, <1>5, <1>6 DEF Audio!IInv

LEMMA AudioSnapshotKeeps ==
  ASSUME Audio!AudioConstantsOK, Audio!IInv, Audio!snapshot
  PROVE  Audio!IInv'
<1>1. Audio!ServerInv' /\ Audio!QueueInv /\ Audio!WrittenInv /\ Audio!ControlInv /\ Audio!ThreadInv /\ audioCtl.at = "readback"
  BY AudioServerStays DEF Audio!IInv, Audio!snapshot
<1>2. PICK a \in {"publish", "failed"}, p \in Audio!Probe : AudioMoves(a, p) /\ online' \in BOOLEAN
  <2>1. ASSUME Audio!Fail(TRUE)
        PROVE  \E a \in {"publish", "failed"}, p \in Audio!Probe : AudioMoves(a, p) /\ online' \in BOOLEAN
    BY <1>1, <2>1, AudioFailMoves
  <2>2. ASSUME NEW p \in Audio!Probes, audioCtl' = [audioCtl EXCEPT !.at = "publish", !.probe = p], UNCHANGED online
        PROVE  \E a \in {"publish", "failed"}, q \in Audio!Probe : AudioMoves(a, q) /\ online' \in BOOLEAN
    <3>1. p \in Audio!Probe /\ AudioMoves("publish", p) /\ online' \in BOOLEAN
      BY <1>1, <2>2, AudioProbesAre DEF Audio!IInv, AudioMoves, Audio!ThreadInv
    <3> QED
      BY <3>1
  <2>3. Audio!Fail(TRUE) \/ \E p \in Audio!Probes : audioCtl' = [audioCtl EXCEPT !.at = "publish", !.probe = p] /\ UNCHANGED online
    BY DEF Audio!snapshot
  <2> QED
    BY <2>1, <2>2, <2>3
<1>3. Audio!ControlInv' /\ audioCtl'.batch = audioCtl.batch /\ audioCtl'.at = a
  BY <1>1, <1>2, AudioMovesKeep
<1>4. Audio!QueueInv' /\ Audio!Issued' = Audio!Issued
  BY <1>1, <1>3, AudioQueueStays DEF Audio!snapshot
<1>5. Audio!WrittenInv'
  BY <1>1, <1>3, <1>4, AudioWrittenStays DEF Audio!snapshot
<1>6. Audio!ThreadInv'
  BY <1>1, <1>2 DEF Audio!ThreadInv, Audio!snapshot
<1> QED
  BY <1>1, <1>3, <1>4, <1>5, <1>6 DEF Audio!IInv

\* A write leaves PipeWire well formed.
LEMMA AudioWriteIs ==
  ASSUME Audio!AudioConstantsOK, Audio!ServerInv, Audio!ControlInv, audioCtl.at = "write"
  PROVE  Audio!Write(audioCtl.probe) \in [present: SUBSET Sinks, default: Sinks, volume: [Sinks -> 0..TopVolume],
                               muted: [Sinks -> BOOLEAN], mic: {"live", "muted"}]
<1> DEFINE p == audioCtl.probe
<1>1. p.sink \in Sinks /\ p.volume \in 0..TopVolume /\ p.muted \in BOOLEAN
  BY DEF Audio!ControlInv, Audio!Probe
<1>2. Audio!Volume(p) \in 0..TopVolume
  <2>1. audioCtl.cmd.kind = "adjust" => p.volume + audioCtl.cmd.delta \in Int
    BY <1>1 DEF Audio!ControlInv, Audio!AudioConstantsOK
  <2>2. pw.volume[p.sink] \in 0..TopVolume
    BY <1>1 DEF Audio!ServerInv
  <2> HIDE DEF p
  <2> QED
    BY <1>1, <2>1, <2>2, AudioClampIs DEF Audio!Volume, Audio!adjusted_volume
<1>3. Audio!Muted(p) \in BOOLEAN
  <2> HIDE DEF p
  <2> QED
    BY <1>1, Zenon DEF Audio!Muted
<1>4. Audio!Flip(p.mic) \in {"live", "muted"}
  BY DEF Audio!Flip
<1> HIDE DEF p
<1> DEFINE v == Audio!Volume(p)
           m == Audio!Muted(p)
           f == Audio!Flip(p.mic)
<1>5. Audio!Write(p) = IF audioCtl.cmd.kind = "input" THEN [pw EXCEPT !.mic = f]
                 ELSE [pw EXCEPT !.volume[p.sink] = v, !.muted[p.sink] = m]
  BY DEF Audio!Write
<1>6. v \in 0..TopVolume /\ m \in BOOLEAN /\ f \in {"live", "muted"}
  BY <1>2, <1>3, <1>4
<1> HIDE DEF v, m, f
<1>7. [pw EXCEPT !.mic = f] \in [present: SUBSET Sinks, default: Sinks, volume: [Sinks -> 0..TopVolume],
                               muted: [Sinks -> BOOLEAN], mic: {"live", "muted"}]
  BY <1>6 DEF Audio!ServerInv
<1>8. [pw EXCEPT !.volume[p.sink] = v, !.muted[p.sink] = m]
        \in [present: SUBSET Sinks, default: Sinks, volume: [Sinks -> 0..TopVolume],
             muted: [Sinks -> BOOLEAN], mic: {"live", "muted"}]
  BY <1>1, <1>6 DEF Audio!ServerInv
<1> QED
  BY <1>5, <1>7, <1>8 DEF p

\* The numbers of the batch are those after the answered ones.
LEMMA AudioBatchIds ==
  ASSUME Audio!ControlInv, Audio!QueueInv
  PROVE  /\ Len(audioCtl.batch) \in Nat /\ Len(replies) \in Nat /\ Audio!Issued \in Nat
         /\ Len(replies) + Len(audioCtl.batch) <= Audio!Issued
         /\ \A i \in Nat : (\E j \in DOMAIN audioCtl.batch : audioCtl.batch[j].id = i)
                             <=> Len(replies) < i /\ i <= Len(replies) + Len(audioCtl.batch)
<1> DEFINE l == Len(replies)
           b == Len(audioCtl.batch)
<1>1. l \in Nat /\ b \in Nat /\ DOMAIN audioCtl.batch = 1..b /\ Audio!Issued \in Nat /\ l + b <= Audio!Issued
  <2>1. Len(audioRequests) \in Nat /\ Len(audioPending) \in Nat /\ l \in Nat /\ b \in Nat /\ DOMAIN audioCtl.batch = 1..b
    BY AudioEntriesAre, LenProperties DEF Audio!ControlInv, Audio!QueueInv
  <2> HIDE DEF l, b
  <2>2. Audio!Issued = Len(audioRequests) + Len(audioPending) + b + l
    BY DEF Audio!Issued, l, b
  <2> QED
    BY <2>1, <2>2
<1>2. \A j \in 1..b : audioCtl.batch[j].id = l + j
  BY <1>1 DEF Audio!QueueInv, Audio!Numbered
<1> HIDE DEF l, b
<1>3. ASSUME NEW i \in Nat
      PROVE  (\E j \in 1..b : audioCtl.batch[j].id = i) <=> l < i /\ i <= l + b
  <2>1. ASSUME l < i, i <= l + b PROVE \E j \in 1..b : audioCtl.batch[j].id = i
    <3>1. i - l \in 1..b /\ l + (i - l) = i
      BY <1>1, <2>1
    <3> QED
      BY <1>2, <3>1
  <2> QED
    BY <1>1, <1>2, <2>1
<1> QED
  BY <1>1, <1>3 DEF l, b

LEMMA AudioCountIs ==
  ASSUME Audio!ControlInv, Audio!QueueInv, Audio!WrittenInv, audioCtl.at = "write"
  PROVE  /\ Audio!Count(written) \in Seq(Nat) /\ Len(Audio!Count(written)) = Audio!Issued
         /\ \A i \in 1..Audio!Issued :
              Audio!Count(written)[i] = IF Len(replies) < i /\ i <= Len(replies) + Len(audioCtl.batch) THEN 1 ELSE written[i]
<1> DEFINE l == Len(replies)
           b == Len(audioCtl.batch)
           w == Audio!Count(written)
           mine(i) == \E j \in DOMAIN audioCtl.batch : audioCtl.batch[j].id = i
<1>1. l \in Nat /\ b \in Nat /\ Audio!Issued \in Nat /\ DOMAIN written = 1..Audio!Issued /\ \A i \in 1..Audio!Issued : written[i] \in Nat
  BY AudioBatchIds, LenProperties DEF Audio!WrittenInv
<1>2. \A i \in 1..Audio!Issued : mine(i) <=> l < i /\ i <= l + b
  BY <1>1, AudioBatchIds
<1>3. w = [i \in 1..Audio!Issued |-> IF mine(i) THEN written[i] + 1 ELSE written[i]]
  BY <1>1 DEF Audio!Count
<1>4. \A i \in 1..Audio!Issued : l < i /\ i <= l + b => written[i] = 0
  BY <1>1 DEF Audio!WrittenInv
<1> HIDE DEF mine, w, l, b
<1>5. \A i \in 1..Audio!Issued : w[i] = (IF l < i /\ i <= l + b THEN 1 ELSE written[i]) /\ w[i] \in Nat
  BY <1>1, <1>2, <1>3, <1>4
<1>6. DOMAIN w = 1..Audio!Issued /\ w = [i \in 1..Audio!Issued |-> w[i]]
  BY <1>3
<1>7. w \in Seq(Nat) /\ Len(w) = Audio!Issued
  BY <1>1, <1>5, <1>6
<1> QED
  BY <1>5, <1>7 DEF w, l, b
\* The batch and the answers stay, the batch's writes are counted once.
LEMMA AudioCountRight ==
  ASSUME Audio!ControlInv, Audio!QueueInv, Audio!WrittenInv, audioCtl.at = "write", written' = Audio!Count(written),
         Audio!Issued' = Audio!Issued, UNCHANGED replies, audioCtl'.batch = audioCtl.batch, audioCtl'.at \in {"readback", "failed"}
  PROVE  Audio!WrittenInv'
<1> DEFINE l == Len(replies)
           b == Len(audioCtl.batch)
<1>1. /\ written' \in Seq(Nat) /\ Len(written') = Audio!Issued'
      /\ \A i \in 1..Audio!Issued : written'[i] = IF l < i /\ i <= l + b THEN 1 ELSE written[i]
  BY AudioCountIs
<1>2. \A i \in 1..Audio!Issued : AudioRight(i, l, b, audioCtl.at, written, replies)
  BY AudioWrittenIs
<1>3. l \in Nat /\ b \in Nat
  BY AudioBatchIds
<1>4. ASSUME NEW i \in 1..Audio!Issued
      PROVE  AudioRight(i, Len(replies'), Len((audioCtl').batch), (audioCtl').at, written', replies')
  <2>1. AudioRight(i, l, b, audioCtl.at, written, replies) /\ i \in Int
    BY <1>2
  <2>2. Len(replies') = l /\ Len((audioCtl').batch) = b
    OBVIOUS
  <2> HIDE DEF l, b
  <2>3. written'[i] = IF l < i /\ i <= l + b THEN 1 ELSE written[i]
    BY <1>1
  <2> QED
    BY <1>3, <2>1, <2>2, <2>3 DEF AudioRight
<1> QED
  BY <1>1, <1>4, AudioWrittenFollows

LEMMA AudioSetParameterKeeps ==
  ASSUME Audio!AudioConstantsOK, Audio!IInv, Audio!set_parameter
  PROVE  Audio!IInv'
<1>1. Audio!ServerInv /\ Audio!QueueInv /\ Audio!WrittenInv /\ Audio!ControlInv /\ Audio!ThreadInv /\ audioCtl.at = "write"
  BY DEF Audio!IInv, Audio!set_parameter
<1>2. audioCtl.probe \in Audio!Probe
  BY <1>1 DEF Audio!ControlInv
<1>3. PICK a \in {"readback", "failed"} : AudioMoves(a, audioCtl.probe) /\ online' \in BOOLEAN
  <2>1. ASSUME NEW applied, Audio!Fail(applied)
        PROVE  AudioMoves("failed", audioCtl.probe) /\ online' \in BOOLEAN
    BY <1>1, <2>1, AudioFailMoves
  <2>2. ASSUME audioCtl' = [audioCtl EXCEPT !.at = "readback"], UNCHANGED online
        PROVE  AudioMoves("readback", audioCtl.probe) /\ online' \in BOOLEAN
    BY <1>1, <2>2 DEF Audio!ControlInv, AudioMoves, Audio!ThreadInv
  <2>3. (\E applied : Audio!Fail(applied)) \/ (audioCtl' = [audioCtl EXCEPT !.at = "readback"] /\ UNCHANGED online)
    BY DEF Audio!set_parameter
  <2> QED
    BY <2>1, <2>2, <2>3
<1>4. Audio!ControlInv' /\ audioCtl'.batch = audioCtl.batch /\ audioCtl'.at = a
  BY <1>1, <1>2, <1>3, AudioMovesKeep
<1>5. Audio!QueueInv' /\ Audio!Issued' = Audio!Issued
  BY <1>1, <1>4, AudioQueueStays DEF Audio!set_parameter
<1>6. (UNCHANGED <<pw, wake, written>> /\ a = "failed") \/ (Audio!Changed(Audio!Write(audioCtl.probe)) /\ written' = Audio!Count(written))
  <2>1. ASSUME audioCtl' = [audioCtl EXCEPT !.at = "readback"] PROVE a = "readback"
    BY <1>1, <1>4, <2>1 DEF Audio!ControlInv
  <2>2. ASSUME NEW applied, Audio!Fail(applied) PROVE a = "failed"
    BY <1>1, <1>4, <2>2 DEF Audio!ControlInv, Audio!Fail, Audio!After
  <2> QED
    BY <2>1, <2>2 DEF Audio!set_parameter
<1>7. Audio!ServerInv' /\ Audio!ThreadInv'
  <2>1. CASE UNCHANGED <<pw, wake>>
    BY <1>1, <1>3, <2>1, AudioServerStays DEF Audio!ThreadInv, Audio!set_parameter
  <2>2. CASE Audio!Changed(Audio!Write(audioCtl.probe))
    <3> DEFINE new == Audio!Write(audioCtl.probe)
    <3>1. pw' = new /\ wake' \in BOOLEAN
      BY <1>1, <2>2 DEF Audio!Changed, Audio!ThreadInv
    <3> HIDE DEF new
    <3>2. Audio!ServerInv'
      BY <1>1, <3>1, AudioWriteIs DEF Audio!ServerInv, new
    <3> QED
      BY <1>1, <1>3, <3>1, <3>2 DEF Audio!ThreadInv, Audio!set_parameter
  <2> QED
    BY <1>6, <2>1, <2>2
<1>8. Audio!WrittenInv'
  <2>1. replies' = replies
    BY DEF Audio!set_parameter
  <2>2. CASE UNCHANGED written /\ a = "failed"
    BY <1>1, <1>4, <1>5, <2>1, <2>2, AudioWrittenStays
  <2>3. CASE written' = Audio!Count(written)
    BY <1>1, <1>4, <1>5, <2>1, <2>3, AudioCountRight
  <2> QED
    BY <1>6, <2>2, <2>3
<1> QED
  BY <1>4, <1>5, <1>7, <1>8 DEF Audio!IInv

\* The answers to the batch.
LEMMA AudioAnswersAre ==
  ASSUME Audio!ControlInv, Audio!QueueInv
  PROVE  LET new == replies \o [i \in DOMAIN audioCtl.batch |-> [id |-> audioCtl.batch[i].id, ok |-> audioCtl.at = "publish"]]
             l == Len(replies)
             b == Len(audioCtl.batch)
         IN  /\ new \in Seq([id: Nat, ok: BOOLEAN]) /\ Len(new) = l + b
             /\ Audio!Numbered(new, 0)
             /\ \A i \in 1..l : new[i] = replies[i]
             /\ \A i \in (l + 1)..(l + b) : new[i].ok = (audioCtl.at = "publish")
<1> DEFINE l == Len(replies)
           b == Len(audioCtl.batch)
           ok == audioCtl.at = "publish"
           said == [i \in DOMAIN audioCtl.batch |-> [id |-> audioCtl.batch[i].id, ok |-> ok]]
           new == replies \o said
           R == [id: Nat, ok: BOOLEAN]
<1>1. l \in Nat /\ b \in Nat /\ DOMAIN audioCtl.batch = 1..b /\ replies \in Seq(R) /\ DOMAIN replies = 1..l
  BY AudioBatchIds, AudioEntriesAre, LenProperties DEF Audio!ControlInv, Audio!QueueInv
<1>2. (\A i \in 1..l : replies[i].id = i) /\ \A i \in 1..b : audioCtl.batch[i].id = l + i
  <2>1. Audio!Numbered(replies, 0) /\ Audio!Numbered(audioCtl.batch, l) /\ \A i \in 1..l : 0 + i = i
    BY <1>1 DEF Audio!QueueInv
  <2> HIDE DEF l, b
  <2> QED
    BY <1>1, <2>1 DEF Audio!Numbered
<1>3. ok \in BOOLEAN
  OBVIOUS
<1> HIDE DEF l, b, ok
<1>4. said = [i \in 1..b |-> [id |-> audioCtl.batch[i].id, ok |-> ok]]
  BY <1>1
<1>5. \A i \in 1..b : said[i] = [id |-> l + i, ok |-> ok] /\ l + i \in Nat
  BY <1>1, <1>2, <1>4
<1>6. \A i \in 1..b : said[i] \in R
  <2>1. \A k \in Nat : [id |-> k, ok |-> ok] \in R
    BY <1>3
  <2> HIDE DEF said, R
  <2> QED
    BY <1>5, <2>1
<1>7. said \in Seq(R) /\ Len(said) = b
  <2>1. said \in [1..b -> R]
    BY <1>4, <1>6
  <2> HIDE DEF said, R
  <2> QED
    BY <1>1, <2>1
<1> HIDE DEF said, R
<1>8. /\ new \in Seq(R) /\ Len(new) = l + b
      /\ \A i \in 1..(l + b) : new[i] = IF i <= l THEN replies[i] ELSE said[i - l]
  BY <1>1, <1>7, ConcatProperties DEF l
<1> HIDE DEF new
<1>9. \A i \in 1..l : new[i] = replies[i]
  BY <1>1, <1>8
<1>10. ASSUME NEW i \in (l + 1)..(l + b) PROVE new[i] = [id |-> i, ok |-> ok]
  <2>1. i - l \in 1..b /\ ~(i <= l) /\ i \in 1..(l + b) /\ l + (i - l) = i
    BY <1>1
  <2> QED
    BY <1>5, <1>8, <2>1
<1>11. Audio!Numbered(new, 0)
  <2>1. DOMAIN new = 1..(l + b)
    BY <1>8, LenProperties
  <2>2. ASSUME NEW i \in 1..(l + b) PROVE new[i].id = 0 + i
    <3>1. CASE i <= l
      BY <1>1, <1>2, <1>9, <3>1
    <3>2. CASE ~(i <= l)
      <4>1. i \in (l + 1)..(l + b)
        BY <1>1, <3>2
      <4>2. new[i] = [id |-> i, ok |-> ok] /\ 0 + i = i
        BY <1>10, <4>1
      <4> QED
        BY <4>2
    <3> QED
      BY <3>1, <3>2
  <2> QED
    BY <2>1, <2>2 DEF Audio!Numbered
<1> QED
  BY <1>8, <1>9, <1>10, <1>11 DEF new, said, R, l, b, ok
LEMMA AudioPublishKeeps ==
  ASSUME Audio!AudioConstantsOK, Audio!IInv, Audio!publish_audio_result
  PROVE  Audio!IInv'
<1> DEFINE l == Len(replies)
           b == Len(audioCtl.batch)
<1>1. Audio!ServerInv' /\ Audio!QueueInv /\ Audio!WrittenInv /\ Audio!ControlInv /\ Audio!ThreadInv' /\ audioCtl' = Audio!Rest
  BY AudioServerStays DEF Audio!IInv, Audio!publish_audio_result, Audio!ThreadInv
<1>2. UNCHANGED <<audioRequests, audioPending, written>> /\ audioCtl.at \in {"publish", "failed"}
  BY DEF Audio!publish_audio_result
<1>3. Audio!Rest.at = "idle" /\ Audio!Rest.batch = <<>> /\ Audio!Rest.cmd = [kind |-> "mute", delta |-> 0] /\ Audio!Rest.probe = Audio!Error
  BY DEF Audio!Rest
<1>4. Audio!ControlInv'
  <2>1. Audio!Rest \in [at: {"idle", "probe", "write", "readback", "publish", "failed"}, batch: Seq(Audio!Entry),
                cmd: [kind: Audio!Kinds, delta: Int], probe: Audio!Probe]
    BY AudioErrorIs DEF Audio!Rest, Audio!Kinds
  <2> QED
    BY <1>1, <1>3, <2>1 DEF Audio!ControlInv
<1>5. /\ replies' \in Seq([id: Nat, ok: BOOLEAN]) /\ Len(replies') = l + b /\ Audio!Numbered(replies', 0)
      /\ \A i \in 1..l : replies'[i] = replies[i]
      /\ \A i \in (l + 1)..(l + b) : replies'[i].ok = (audioCtl.at = "publish")
  <2>1. replies' = replies \o [i \in DOMAIN audioCtl.batch |-> [id |-> audioCtl.batch[i].id, ok |-> audioCtl.at = "publish"]]
    BY DEF Audio!publish_audio_result
  <2> QED
    BY <1>1, <2>1, AudioAnswersAre
<1>6. l \in Nat /\ b \in Nat /\ Len((audioCtl').batch) = 0 /\ (audioCtl').batch = <<>> /\ (audioCtl').at = "idle"
  BY <1>1, <1>3, AudioBatchIds
<1>7. Audio!Issued' = Audio!Issued /\ Len(audioRequests) \in Nat /\ Len(audioPending) \in Nat
  <2>1. Len(audioRequests) \in Nat /\ Len(audioPending) \in Nat
    BY <1>1, LenProperties DEF Audio!QueueInv
  <2>2. Audio!Issued = Len(audioRequests) + Len(audioPending) + b + l /\ Audio!Issued' = Len(audioRequests) + Len(audioPending) + 0 + (l + b)
    BY <1>2, <1>5, <1>6 DEF Audio!Issued
  <2> HIDE DEF l, b
  <2> QED
    BY <1>6, <2>1, <2>2
<1>8. Audio!QueueInv'
  <2>1. Audio!Numbered(<<>>, l + b)
    BY DEF Audio!Numbered
  <2>2. (l + b) + 0 = l + b /\ (l + b) + 0 + Len(audioPending) = l + b + Len(audioPending)
    BY <1>6, <1>7
  <2>3. Audio!Numbered(audioPending, l + b) /\ Audio!Numbered(audioRequests, l + b + Len(audioPending))
    BY <1>1 DEF Audio!QueueInv
  <2> QED
    BY <1>1, <1>2, <1>5, <1>6, <1>7, <2>1, <2>2, <2>3 DEF Audio!QueueInv, Audio!Numbered
<1>9. Audio!WrittenInv'
  <2>1. \A i \in 1..Audio!Issued : AudioRight(i, l, b, audioCtl.at, written, replies)
    BY <1>1, AudioWrittenIs
  <2>2. ASSUME NEW i \in 1..Audio!Issued
        PROVE  AudioRight(i, l + b, 0, "idle", written, replies')
    <3>1. AudioRight(i, l, b, audioCtl.at, written, replies) /\ i \in Int
      BY <2>1
    <3> HIDE DEF l, b
    <3>2. CASE i <= l
      <4>1. i \in 1..l
        BY <3>1, <3>2
      <4>2. replies'[i] = replies[i]
        BY <1>5, <4>1
      <4> QED
        BY <1>6, <3>1, <3>2, <4>2 DEF AudioRight
    <3>3. CASE i > l /\ i <= l + b
      <4>1. i \in (l + 1)..(l + b)
        BY <1>6, <3>1, <3>3
      <4>2. replies'[i].ok = (audioCtl.at = "publish")
        BY <1>5, <4>1
      <4>3. CASE audioCtl.at = "publish"
        <5>1. written[i] = 1
          BY <1>6, <3>1, <3>3, <4>3 DEF AudioRight
        <5> QED
          BY <1>6, <3>1, <3>3, <5>1 DEF AudioRight
      <4>4. CASE audioCtl.at = "failed"
        <5>1. written[i] <= 1
          BY <1>6, <3>1, <3>3, <4>4 DEF AudioRight
        <5>2. ~replies'[i].ok
          BY <4>2, <4>4
        <5> QED
          BY <1>6, <3>1, <3>3, <5>1, <5>2 DEF AudioRight
      <4> QED
        BY <1>2, <4>3, <4>4
    <3>4. CASE i > l + b
      BY <1>6, <3>1, <3>4 DEF AudioRight
    <3> QED
      BY <1>6, <3>1, <3>2, <3>3, <3>4
  <2>3. written' \in Seq(Nat) /\ Len(written') = Audio!Issued'
    BY <1>1, <1>2, <1>7, AudioWrittenIs
  <2> QED
    BY <1>2, <1>5, <1>6, <1>7, <2>2, <2>3, AudioWrittenFollows
<1> QED
  BY <1>1, <1>4, <1>8, <1>9 DEF Audio!IInv

LEMMA AudioReceiveKeeps ==
  ASSUME Audio!AudioConstantsOK, Audio!IInv, Audio!Receive
  PROVE  Audio!IInv'
<1>1. Audio!ServerInv' /\ Audio!QueueInv /\ Audio!WrittenInv /\ Audio!ControlInv' /\ Audio!ThreadInv'
  BY AudioServerStays, AudioControlStays, AudioThreadStays DEF Audio!IInv, Audio!Receive
<1>2. /\ UNCHANGED <<audioCtl, replies, written>> /\ audioPending = <<>> /\ audioPending' = audioRequests /\ audioRequests' = <<>>
      /\ Len(audioPending) = 0
  BY DEF Audio!Receive
<1>3. Len(audioRequests) \in Nat /\ Len(replies) \in Nat /\ Len(audioCtl.batch) \in Nat /\ Audio!ControlInv
  BY AudioBatchIds, LenProperties DEF Audio!IInv, Audio!QueueInv
<1>4. Audio!Issued' = Audio!Issued
  BY <1>2, <1>3 DEF Audio!Issued
<1>5. Audio!QueueInv'
  <2>1. Len(replies) + Len(audioCtl.batch) + 0 = Len(replies) + Len(audioCtl.batch)
    BY <1>3
  <2>2. audioRequests' \in Seq(Audio!Entry) /\ Len(audioRequests') <= AudioQueue
    BY <1>1, <1>2, <1>3 DEF Audio!QueueInv, Audio!AudioConstantsOK
  <2>3. Audio!Numbered(<<>>, Len(replies) + Len(audioCtl.batch) + Len(audioRequests))
    BY DEF Audio!Numbered
  <2> QED
    BY <1>1, <1>2, <1>4, <2>1, <2>2, <2>3 DEF Audio!QueueInv, Audio!Numbered
<1>6. Audio!WrittenInv'
  BY <1>1, <1>2, <1>4, AudioWrittenStays
<1> QED
  BY <1>1, <1>5, <1>6 DEF Audio!IInv

\* The controller goes on with the first n pending requests as cmd.
AudioTakes(n, cmd) ==
  /\ audioCtl' = [at |-> "probe", batch |-> SubSeq(audioPending, 1, n), cmd |-> cmd, probe |-> Audio!Error]
  /\ audioPending' = SubSeq(audioPending, n + 1, Len(audioPending))

LEMMA AudioTakesQueue ==
  ASSUME Audio!ControlInv, Audio!QueueInv, Audio!WrittenInv, audioCtl.at = "idle", NEW n \in 1..Len(audioPending), NEW cmd, AudioTakes(n, cmd),
         UNCHANGED <<audioRequests, replies, written>>
  PROVE  Audio!QueueInv' /\ Audio!WrittenInv'
<1> DEFINE l == Len(replies)
           q == Len(audioPending)
           b == SubSeq(audioPending, 1, n)
<1>1. audioPending \in Seq(Audio!Entry) /\ l \in Nat /\ q \in Nat /\ n \in Nat /\ n <= q /\ Len(audioRequests) \in Nat
      /\ audioCtl.batch = <<>> /\ Len(audioCtl.batch) = 0
  BY AudioBatchIds, AudioEntriesAre, LenProperties DEF Audio!QueueInv, Audio!ControlInv
<1>2. /\ audioPending' \in Seq(Audio!Entry) /\ Len(audioPending') = q - n /\ Len(b) = n /\ b \in Seq(Audio!Entry)
      /\ (\A i \in 1..n : b[i] = audioPending[i]) /\ \A i \in 1..(q - n) : audioPending'[i] = audioPending[n + i]
  BY <1>1, AudioSplitIs DEF AudioTakes
<1>3. (audioCtl').batch = b /\ (audioCtl').at = "probe"
  BY DEF AudioTakes
<1>4. DOMAIN b = 1..n /\ DOMAIN audioPending' = 1..(q - n) /\ DOMAIN audioPending = 1..q
  <2> HIDE DEF b, Audio!Entry
  <2> QED
    BY <1>1, <1>2, LenProperties
<1> HIDE DEF l, q, b
<1>5. \A i \in 1..q : audioPending[i].id = l + i
  <2>1. Audio!Numbered(audioPending, l + 0) /\ l + 0 = l
    BY <1>1 DEF Audio!QueueInv, l
  <2> QED
    BY <1>4, <2>1 DEF Audio!Numbered
<1>6. Audio!Numbered(b, l)
  <2>1. \A i \in 1..n : i \in 1..q
    BY <1>1
  <2> QED
    BY <1>2, <1>4, <1>5, <2>1 DEF Audio!Numbered
<1>7. Audio!Numbered(audioPending', l + n)
  <2>1. \A i \in 1..(q - n) : n + i \in 1..q /\ l + (n + i) = (l + n) + i
    BY <1>1
  <2> QED
    BY <1>2, <1>4, <1>5, <2>1 DEF Audio!Numbered
<1>8. Audio!Issued' = Audio!Issued
  <2>1. Audio!Issued = Len(audioRequests) + q + 0 + l /\ Audio!Issued' = Len(audioRequests) + (q - n) + n + l
    BY <1>1, <1>2, <1>3 DEF Audio!Issued, l, q
  <2> QED
    BY <1>1, <2>1
<1>9. Audio!QueueInv'
  <2>1. Audio!Numbered(audioRequests, l + 0 + q)
    BY <1>1 DEF Audio!QueueInv, l, q
  <2>2. l + 0 + q = l + n + (q - n)
    BY <1>1
  <2>3. Audio!Numbered(audioRequests, l + n + (q - n))
    BY <2>1, <2>2
  <2> QED
    BY <1>2, <1>3, <1>6, <1>7, <1>8, <2>3 DEF Audio!QueueInv, l, Audio!Numbered
<1>10. Audio!WrittenInv'
  <2>1. \A i \in 1..Audio!Issued : AudioRight(i, l, 0, "idle", written, replies)
    BY <1>1, AudioWrittenIs DEF l
  <2>2. ASSUME NEW i \in 1..Audio!Issued PROVE AudioRight(i, l, n, "probe", written, replies)
    <3>1. AudioRight(i, l, 0, "idle", written, replies) /\ i \in Int
      BY <2>1
    <3> QED
      BY <1>1, <3>1 DEF AudioRight
  <2>3. Len(replies') = l /\ Len((audioCtl').batch) = n /\ replies' = replies /\ written' = written
    BY <1>2, <1>3 DEF l
  <2>4. written' \in Seq(Nat) /\ Len(written') = Audio!Issued'
    BY <1>8, AudioWrittenIs
  <2> QED
    BY <1>3, <1>8, <2>2, <2>3, <2>4, AudioWrittenFollows
<1> QED
  BY <1>9, <1>10

LEMMA AudioBatchKeeps ==
  ASSUME Audio!AudioConstantsOK, Audio!IInv, Audio!batch
  PROVE  Audio!IInv'
<1> DEFINE first == Head(audioPending).cmd
           n == Audio!Run(first)
           merged == SubSeq(audioPending, 1, n)
           cmd == [first EXCEPT !.delta = Audio!Total(merged)]
<1>1. Audio!ServerInv' /\ Audio!QueueInv /\ Audio!WrittenInv /\ Audio!ControlInv /\ Audio!ThreadInv' /\ audioCtl.at = "idle" /\ audioPending # <<>>
  BY AudioServerStays, AudioThreadStays DEF Audio!IInv, Audio!batch
<1>2. audioPending \in Seq(Audio!Entry) /\ Len(audioPending) \in Nat /\ Head(audioPending) \in Audio!Entry /\ Head(audioPending) = audioPending[1]
  BY <1>1, AudioEntriesAre, HeadTailProperties DEF Audio!QueueInv
<1>3. AudioTaken(n)
  BY <1>1, <1>2, AudioRunIs
<1>4. n \in 1..Len(audioPending)
  BY <1>3 DEF AudioTaken
<1>5. AudioTakes(n, cmd)
  BY DEF Audio!batch, AudioTakes, Audio!Rest
<1>6. merged \in Seq(Audio!Entry) /\ Len(merged) = n /\ DOMAIN merged = 1..n /\ \A i \in 1..n : merged[i] = audioPending[i]
  <2>1. merged \in Seq(Audio!Entry) /\ Len(merged) = n /\ \A i \in 1..n : merged[i] = audioPending[i]
    BY <1>2, <1>4, AudioSplitIs
  <2> HIDE DEF merged, n
  <2> QED
    BY <2>1, AudioEntriesAre
<1> HIDE DEF n, merged
<1>7. \A i, j \in DOMAIN merged : Audio!signum(merged[i].cmd.delta) = Audio!signum(merged[j].cmd.delta)
  <2>1. CASE first.kind = "adjust"
    BY <1>3, <1>6, <2>1 DEF AudioTaken
  <2>2. CASE first.kind # "adjust"
    <3>1. n = 1
      BY <1>3, <2>2 DEF AudioTaken
    <3>2. \A i, j \in 1..n : i = j
      BY <3>1
    <3> QED
      BY <1>6, <3>2
  <2> QED
    BY <2>1, <2>2
<1>8. Audio!Total(merged) \in Int
  <2>1. 0 \in 0..TopVolume
    BY DEF Audio!AudioConstantsOK
  <2> QED
    BY <1>6, <1>7, <2>1, AudioOneDirection
<1>9. cmd \in [kind: Audio!Kinds, delta: Int] /\ cmd.delta = Audio!Total(merged)
  <2>1. first \in [kind: Audio!Kinds, delta: Int]
    BY <1>2 DEF Audio!Entry
  <2> HIDE DEF first
  <2> QED
    BY <1>8, <2>1
<1> HIDE DEF cmd
<1>10. Audio!ControlInv'
  <2>1. audioCtl' = [at |-> "probe", batch |-> merged, cmd |-> cmd, probe |-> Audio!Error]
    BY <1>5 DEF AudioTakes, merged
  <2>2. Audio!Error \in Audio!Probe
    BY AudioErrorIs
  <2>3. audioCtl' \in [at: {"idle", "probe", "write", "readback", "publish", "failed"}, batch: Seq(Audio!Entry),
                  cmd: [kind: Audio!Kinds, delta: Int], probe: Audio!Probe]
    BY <1>6, <1>9, <2>1, <2>2
  <2>4. (audioCtl').at = "probe" /\ (audioCtl').batch = merged /\ (audioCtl').cmd = cmd
    BY <2>1
  <2> QED
    BY <1>7, <1>9, <2>3, <2>4 DEF Audio!ControlInv, Audio!Total
<1>11. Audio!QueueInv' /\ Audio!WrittenInv'
  BY <1>1, <1>4, <1>5, AudioTakesQueue DEF Audio!batch
<1> QED
  BY <1>1, <1>10, <1>11 DEF Audio!IInv
LEMMA AudioExecuteKeeps ==
  ASSUME Audio!AudioConstantsOK, Audio!IInv, NEW cmd \in Audio!Commands, Audio!execute(cmd)
  PROVE  Audio!IInv'
<1> DEFINE e == [id |-> Audio!Issued + 1, cmd |-> cmd]
<1>1. Audio!ServerInv' /\ Audio!QueueInv /\ Audio!WrittenInv /\ Audio!ControlInv' /\ Audio!ThreadInv' /\ Audio!ControlInv
  BY AudioServerStays, AudioControlStays, AudioThreadStays DEF Audio!IInv, Audio!execute
<1>2. /\ Len(audioRequests) < AudioQueue /\ Audio!Issued < AudioRequests /\ audioRequests' = Append(audioRequests, e)
      /\ written' = Append(written, 0) /\ UNCHANGED <<audioPending, audioCtl, replies>>
  BY DEF Audio!execute
<1>3. /\ Audio!Issued \in Nat /\ Len(audioRequests) \in Nat /\ Len(audioPending) \in Nat /\ Len(audioCtl.batch) \in Nat
      /\ Len(replies) \in Nat /\ audioRequests \in Seq(Audio!Entry) /\ DOMAIN audioRequests = 1..Len(audioRequests)
  BY <1>1, AudioBatchIds, AudioEntriesAre, LenProperties DEF Audio!QueueInv
<1>4. e \in Audio!Entry /\ e.id = Audio!Issued + 1
  <2>1. cmd \in [kind: Audio!Kinds, delta: Int]
    BY DEF Audio!Commands, Audio!Kinds, Audio!AudioConstantsOK
  <2> QED
    BY <1>3, <2>1 DEF Audio!Entry
<1> HIDE DEF e
<1>5. /\ audioRequests' \in Seq(Audio!Entry) /\ Len(audioRequests') = Len(audioRequests) + 1 /\ DOMAIN audioRequests' = 1..(Len(audioRequests) + 1)
      /\ \A i \in 1..Len(audioRequests) : audioRequests'[i] = audioRequests[i]
      /\ audioRequests'[Len(audioRequests) + 1] = e
  <2>1. /\ audioRequests' \in Seq(Audio!Entry) /\ Len(audioRequests') = Len(audioRequests) + 1
        /\ \A i \in 1..Len(audioRequests) : audioRequests'[i] = audioRequests[i]
        /\ audioRequests'[Len(audioRequests) + 1] = e
    BY <1>2, <1>3, <1>4, AppendProperties
  <2> QED
    BY <2>1, LenProperties
<1>6. Audio!Issued' = Audio!Issued + 1
  <2> DEFINE q == Len(audioRequests)
             p == Len(audioPending)
             b == Len(audioCtl.batch)
             l == Len(replies)
  <2>1. Audio!Issued = q + p + b + l /\ Audio!Issued' = (q + 1) + p + b + l
    BY <1>2, <1>5 DEF Audio!Issued
  <2>2. q \in Nat /\ p \in Nat /\ b \in Nat /\ l \in Nat
    BY <1>3
  <2> HIDE DEF q, p, b, l
  <2> QED
    BY <2>1, <2>2
<1>7. Audio!QueueInv'
  <2> DEFINE k == Len(replies) + Len(audioCtl.batch) + Len(audioPending)
             q == Len(audioRequests)
  <2>1. k \in Nat /\ k + q = Audio!Issued /\ q \in Nat
    <3> DEFINE p == Len(audioPending)
               b == Len(audioCtl.batch)
               l == Len(replies)
    <3>1. Audio!Issued = q + p + b + l /\ k = l + b + p
      BY DEF Audio!Issued
    <3>2. q \in Nat /\ p \in Nat /\ b \in Nat /\ l \in Nat
      BY <1>3
    <3> HIDE DEF q, p, b, l, k
    <3> QED
      BY <3>1, <3>2
  <2>2. Audio!Numbered(audioRequests, k)
    BY <1>1 DEF Audio!QueueInv
  <2>3. Audio!Numbered(audioRequests', k)
    <3> HIDE DEF k, q
    <3>1. ASSUME NEW i \in 1..(q + 1) PROVE audioRequests'[i].id = k + i
      <4>1. CASE i = q + 1
        <5>1. k + i = Audio!Issued + 1
          BY <2>1, <4>1
        <5> QED
          BY <1>4, <1>5, <4>1, <5>1 DEF q
      <4>2. CASE i # q + 1
        <5>1. i \in 1..q
          BY <2>1, <4>2
        <5> QED
          BY <1>3, <1>5, <2>2, <5>1 DEF Audio!Numbered, q
      <4> QED
        BY <4>1, <4>2
    <3> QED
      BY <1>5, <3>1 DEF Audio!Numbered, q
  <2>4. Len(audioRequests') <= AudioQueue /\ Audio!Issued' <= AudioRequests
    BY <1>2, <1>3, <1>5, <1>6 DEF Audio!AudioConstantsOK
  <2> QED
    BY <1>1, <1>2, <1>5, <2>3, <2>4 DEF Audio!QueueInv, Audio!Numbered
<1>8. Audio!WrittenInv'
  <2> DEFINE l == Len(replies)
             b == Len(audioCtl.batch)
  <2>1. \A i \in 1..Audio!Issued : AudioRight(i, l, b, audioCtl.at, written, replies)
    BY <1>1, AudioWrittenIs
  <2>2. l + b <= Audio!Issued /\ l \in Nat /\ b \in Nat
    BY <1>1, AudioBatchIds
  <2>3. written \in Seq(Nat) /\ Len(written) = Audio!Issued /\ 0 \in Nat
    BY <1>1, AudioWrittenIs
  <2>4. /\ written' \in Seq(Nat) /\ Len(written') = Audio!Issued + 1
        /\ \A i \in 1..Audio!Issued : written'[i] = written[i]
        /\ written'[Audio!Issued + 1] = 0
    BY <1>2, <2>3, AppendProperties
  <2> HIDE DEF l, b
  <2>5. ASSUME NEW i \in 1..(Audio!Issued + 1) PROVE AudioRight(i, l, b, audioCtl.at, written', replies)
    <3>1. CASE i = Audio!Issued + 1
      <4>1. i > l + b /\ ~(i <= l) /\ written'[i] = 0
        BY <1>3, <2>2, <2>4, <3>1
      <4> QED
        BY <4>1 DEF AudioRight
    <3>2. CASE i # Audio!Issued + 1
      <4>1. i \in 1..Audio!Issued
        BY <1>3, <3>2
      <4>2. written'[i] = written[i] /\ AudioRight(i, l, b, audioCtl.at, written, replies)
        BY <2>1, <2>4, <4>1
      <4> QED
        BY <4>2 DEF AudioRight
    <3> QED
      BY <3>1, <3>2
  <2> QED
    BY <1>2, <1>6, <2>4, <2>5, AudioWrittenFollows DEF l, b
<1> QED
  BY <1>1, <1>7, <1>8 DEF Audio!IInv

-----------------------------------------------------------------------------
(* The invariant.                                                            *)

LEMMA AudioInitHolds ==
  ASSUME Audio!AudioConstantsOK, Audio!AudioInit
  PROVE  Audio!IInv
<1>1. Audio!ServerInv
  <2>1. (CHOOSE s \in Sinks : TRUE) \in Sinks /\ TopVolume \in 0..TopVolume
    BY DEF Audio!AudioConstantsOK
  <2> QED
    BY <2>1 DEF Audio!AudioInit, Audio!ServerInv
<1>2. Audio!ControlInv
  <2>1. Audio!Rest \in [at: {"idle", "probe", "write", "readback", "publish", "failed"}, batch: Seq(Audio!Entry),
                cmd: [kind: Audio!Kinds, delta: Int], probe: Audio!Probe]
    BY AudioErrorIs DEF Audio!Rest, Audio!Kinds
  <2>2. audioCtl = Audio!Rest /\ Audio!Rest.at = "idle" /\ Audio!Rest.batch = <<>>
    BY DEF Audio!AudioInit, Audio!Rest
  <2> QED
    BY <2>1, <2>2 DEF Audio!ControlInv
<1>3. audioRequests = <<>> /\ audioPending = <<>> /\ replies = <<>> /\ written = <<>> /\ audioCtl.batch = <<>>
  BY DEF Audio!AudioInit, Audio!Rest
<1>4. Audio!Issued = 0
  BY <1>3 DEF Audio!Issued
<1>5. Audio!QueueInv
  BY <1>3, <1>4 DEF Audio!QueueInv, Audio!Numbered, Audio!AudioConstantsOK
<1>6. Audio!WrittenInv
  BY <1>3, <1>4 DEF Audio!WrittenInv
<1>7. Audio!ThreadInv
  BY AudioErrorIs DEF Audio!AudioInit, Audio!ThreadInv
<1> QED
  BY <1>1, <1>2, <1>5, <1>6, <1>7 DEF Audio!IInv

LEMMA AudioNextKeeps ==
  ASSUME Audio!AudioConstantsOK, Audio!IInv, [Audio!AudioNext]_(Audio!audioVars)
  PROVE  Audio!IInv'
<1>1. CASE UNCHANGED Audio!audioVars
  BY <1>1, AudioAsideKeeps, AudioServerStays, AudioThreadStays DEF Audio!IInv, Audio!audioVars, AudioAside
<1>2. CASE \E s \in Sinks : Audio!OtherClient(s)
  BY <1>2, AudioOtherClientKeeps
<1>3. CASE \E cmd \in Audio!Commands : Audio!execute(cmd)
  BY <1>3, AudioExecuteKeeps
<1>4. CASE Audio!WatcherEnds
  BY <1>4, AudioWatcherEndsKeeps
<1>5. CASE Audio!ControlStep
  BY <1>5, AudioReceiveKeeps, AudioBatchKeeps, AudioProbeDefaultKeeps, AudioSetParameterKeeps, AudioSnapshotKeeps, AudioPublishKeeps DEF Audio!ControlStep
<1>6. CASE Audio!MonitorStep
  BY <1>6, AudioMonitorStepKeeps
<1> QED
  BY <1>1, <1>2, <1>3, <1>4, <1>5, <1>6 DEF Audio!AudioNext

-----------------------------------------------------------------------------
(* What follows from it.                                                     *)

LEMMA AudioSequentialFollows ==
  ASSUME Audio!AudioConstantsOK, Audio!IInv
  PROVE  Audio!BatchIsSequential
<1> SUFFICES ASSUME audioCtl.at = "write", audioCtl.cmd.kind = "adjust"
             PROVE  Audio!Volume(audioCtl.probe) = Audio!OneByOne(audioCtl.probe.volume, audioCtl.batch)
  BY DEF Audio!BatchIsSequential
<1>1. /\ audioCtl.batch \in Seq(Audio!Entry) /\ audioCtl.probe.volume \in 0..TopVolume /\ audioCtl.cmd.delta = Audio!Total(audioCtl.batch)
      /\ \A i, j \in DOMAIN audioCtl.batch : Audio!signum(audioCtl.batch[i].cmd.delta) = Audio!signum(audioCtl.batch[j].cmd.delta)
  BY DEF Audio!IInv, Audio!ControlInv, Audio!Probe
<1>2. Audio!Volume(audioCtl.probe) = Audio!adjusted_volume(audioCtl.probe.volume, Audio!Total(audioCtl.batch))
  BY <1>1 DEF Audio!Volume
<1> QED
  BY <1>1, <1>2, AudioOneDirection

\* s with the numbers after n.
LEMMA AudioIdsAre ==
  ASSUME NEW R, NEW s \in Seq(R), NEW n \in Nat, Audio!Numbered(s, n)
  PROVE  Audio!Ids(s) \in Seq(Nat) /\ Len(Audio!Ids(s)) = Len(s) /\ \A i \in 1..Len(s) : Audio!Ids(s)[i] = n + i
<1>1. Len(s) \in Nat /\ DOMAIN s = 1..Len(s)
  BY LenProperties
<1> DEFINE t == Audio!Ids(s)
           l == Len(s)
<1>2. t = [i \in 1..l |-> s[i].id] /\ \A i \in 1..l : s[i].id = n + i /\ n + i \in Nat
  BY <1>1 DEF Audio!Ids, Audio!Numbered
<1> HIDE DEF l, t
<1>3. \A i \in 1..l : t[i] = n + i /\ t[i] \in Nat
  BY <1>2
<1>4. t \in [1..l -> Nat]
  BY <1>2, <1>3
<1>5. t \in Seq(Nat) /\ Len(t) = l
  BY <1>1, <1>4 DEF l
<1> QED
  BY <1>3, <1>5 DEF t, l

\* Numbers in order, then the next ones in order.
LEMMA AudioInOrder ==
  ASSUME NEW s \in Seq(Nat), NEW t \in Seq(Nat), \A i \in 1..Len(s) : s[i] = i,
         \A i \in 1..Len(t) : t[i] = Len(s) + i
  PROVE  s \o t \in Seq(Nat) /\ Len(s \o t) = Len(s) + Len(t) /\ \A i \in 1..Len(s \o t) : (s \o t)[i] = i
<1>1. Len(s) \in Nat /\ Len(t) \in Nat
  OBVIOUS
<1>2. /\ s \o t \in Seq(Nat) /\ Len(s \o t) = Len(s) + Len(t)
      /\ \A i \in 1..(Len(s) + Len(t)) : (s \o t)[i] = IF i <= Len(s) THEN s[i] ELSE t[i - Len(s)]
  BY ConcatProperties
<1>3. ASSUME NEW i \in 1..(Len(s) + Len(t)) PROVE (s \o t)[i] = i
  <2>1. CASE i <= Len(s)
    BY <1>1, <1>2, <2>1
  <2>2. CASE ~(i <= Len(s))
    <3>1. i - Len(s) \in 1..Len(t) /\ Len(s) + (i - Len(s)) = i
      BY <1>1, <2>2
    <3> QED
      BY <1>2, <2>2, <3>1
  <2> QED
    BY <2>1, <2>2
<1> QED
  BY <1>2, <1>3

LEMMA AudioAppliedFollows ==
  ASSUME Audio!IInv
  PROVE  Audio!AppliedOnce
<1> DEFINE l == Len(replies)
           b == Len(audioCtl.batch)
           p == Len(audioPending)
           q == Len(audioRequests)
<1>1. Audio!QueueInv /\ Audio!ControlInv /\ Audio!WrittenInv
  BY DEF Audio!IInv
<1>2. l \in Nat /\ b \in Nat /\ p \in Nat /\ q \in Nat /\ Audio!Issued \in Nat /\ Audio!Issued = l + b + p + q /\ l + b <= Audio!Issued
      /\ l + b \in Nat /\ l + b + p \in Nat
  <2>1. l \in Nat /\ b \in Nat /\ p \in Nat /\ q \in Nat /\ Audio!Issued \in Nat /\ l + b <= Audio!Issued
    BY <1>1, AudioBatchIds, LenProperties DEF Audio!QueueInv
  <2>2. Audio!Issued = q + p + b + l
    BY DEF Audio!Issued
  <2> HIDE DEF l, b, p, q
  <2> QED
    BY <2>1, <2>2
<1>3. DOMAIN replies = 1..l
  BY <1>1, LenProperties DEF Audio!QueueInv
<1>4. Audio!Ids(replies) \o Audio!Ids(audioCtl.batch) \o Audio!Ids(audioPending) \o Audio!Ids(audioRequests) = [i \in 1..Audio!Issued |-> i]
  <2> DEFINE n1 == Audio!Ids(replies)
             n2 == Audio!Ids(audioCtl.batch)
             n3 == Audio!Ids(audioPending)
             n4 == Audio!Ids(audioRequests)
             all == n1 \o n2 \o n3 \o n4
  <2>1. n1 \in Seq(Nat) /\ Len(n1) = l /\ \A i \in 1..l : n1[i] = i
    <3>1. Audio!Ids(replies) \in Seq(Nat) /\ Len(Audio!Ids(replies)) = l /\ \A i \in 1..l : Audio!Ids(replies)[i] = 0 + i
      BY <1>1, AudioIdsAre DEF Audio!QueueInv
    <3>2. \A i \in 1..l : 0 + i = i
      BY <1>2
    <3> QED
      BY <3>1, <3>2
  <2>2. n2 \in Seq(Nat) /\ Len(n2) = b /\ \A i \in 1..b : n2[i] = l + i
    BY <1>1, <1>2, AudioIdsAre DEF Audio!QueueInv, Audio!ControlInv
  <2>3. n3 \in Seq(Nat) /\ Len(n3) = p /\ \A i \in 1..p : n3[i] = l + b + i
    BY <1>1, <1>2, AudioIdsAre DEF Audio!QueueInv
  <2>4. n4 \in Seq(Nat) /\ Len(n4) = q /\ \A i \in 1..q : n4[i] = l + b + p + i
    BY <1>1, <1>2, AudioIdsAre DEF Audio!QueueInv
  <2> HIDE DEF n1, n2, n3, n4, l, b, p, q
  <2>5. /\ n1 \o n2 \in Seq(Nat) /\ Len(n1 \o n2) = l + b /\ \A i \in 1..Len(n1 \o n2) : (n1 \o n2)[i] = i
    BY <2>1, <2>2, AudioInOrder
  <2>6. /\ (n1 \o n2) \o n3 \in Seq(Nat) /\ Len((n1 \o n2) \o n3) = l + b + p
        /\ \A i \in 1..Len((n1 \o n2) \o n3) : ((n1 \o n2) \o n3)[i] = i
    BY <2>3, <2>5, AudioInOrder
  <2>7. all \in Seq(Nat) /\ Len(all) = l + b + p + q /\ \A i \in 1..Len(all) : all[i] = i
    BY <2>4, <2>6, AudioInOrder
  <2>8. all = [i \in 1..Audio!Issued |-> i]
    <3> HIDE DEF all
    <3>1. DOMAIN all = 1..Audio!Issued /\ all = [i \in DOMAIN all |-> all[i]]
      BY <1>2, <2>7, LenProperties
    <3> QED
      BY <1>2, <2>7, <3>1
  <2> QED
    BY <2>8 DEF n1, n2, n3, n4
<1>5. ASSUME NEW i \in DOMAIN replies PROVE written[i] <= 1 /\ (replies[i].ok => written[i] = 1)
  <2>1. i \in 1..Audio!Issued /\ i <= l
    <3> HIDE DEF l, b
    <3> QED
      BY <1>2, <1>3
  <2>2. AudioRight(i, l, b, audioCtl.at, written, replies)
    BY <1>1, <2>1, AudioWrittenIs
  <2> QED
    BY <2>1, <2>2 DEF AudioRight
<1>6. ASSUME NEW i \in (l + 1)..Audio!Issued, written[i] # 0
      PROVE  /\ written[i] = 1 /\ i \in {audioCtl.batch[j].id : j \in DOMAIN audioCtl.batch}
             /\ audioCtl.at \in {"readback", "publish", "failed"}
  <2>1. i \in 1..Audio!Issued /\ ~(i <= l) /\ i \in Nat
    <3> HIDE DEF l, b
    <3> QED
      BY <1>2
  <2>2. AudioRight(i, l, b, audioCtl.at, written, replies) /\ written[i] \in Nat
    BY <1>1, <2>1, AudioWrittenIs
  <2>3. ~(i > l + b) /\ audioCtl.at \notin {"probe", "write"} /\ written[i] <= 1
    <3> HIDE DEF l, b
    <3> QED
      BY <1>6, <2>1, <2>2 DEF AudioRight
  <2>4. l < i /\ i <= l + b
    <3> HIDE DEF l, b
    <3> QED
      BY <1>2, <2>1, <2>3
  <2>5. i \in {audioCtl.batch[j].id : j \in DOMAIN audioCtl.batch}
    BY <1>1, <2>1, <2>4, AudioBatchIds
  <2>6. audioCtl.at # "idle"
    BY <1>1, <2>5 DEF Audio!ControlInv
  <2>7. written[i] = 1
    BY <1>6, <2>2, <2>3
  <2> QED
    BY <1>1, <2>3, <2>5, <2>6, <2>7 DEF Audio!ControlInv
<1> QED
  BY <1>4, <1>5, <1>6 DEF Audio!AppliedOnce

LEMMA AudioSafeFollows ==
  ASSUME Audio!AudioConstantsOK, Audio!IInv
  PROVE  Audio!AudioTypeOK /\ Audio!AudioSafe
<1>1. Audio!AudioTypeOK
  BY DEF Audio!IInv, Audio!QueueInv, Audio!WrittenInv, Audio!ServerInv, Audio!ControlInv, Audio!ThreadInv, Audio!AudioTypeOK
<1> QED
  BY <1>1, AudioSequentialFollows, AudioAppliedFollows DEF Audio!AudioSafe

HIDE DEF pw, audioRequests, audioPending, audioCtl, online, wake, watching, mon, shownAudio, written, replies, envx

-----------------------------------------------------------------------------
(* The players (MediaView).                                                   *)

\* The variables of MediaView.
bus == r1
heard == r2
view == r3
watch == r4
enr == r5
tasks == r6
sel == r7
mediaOp == r8
shownMedia == r9
missed == r10
envm == r11
USE DEF bus, heard, view, watch, enr, tasks, sel, mediaOp, shownMedia, missed, envm

\* The players are counted as the standard module does.
LEMMA MediaCounts == \A S : (Media!IsFiniteSet(S) <=> IsFiniteSet(S)) /\ Media!Cardinality(S) = Cardinality(S)
BY DEF Media!IsFiniteSet, IsFiniteSet, Media!Cardinality, Cardinality

LEMMA MediaCountIs ==
  ASSUME Media!MediaConstantsOK, NEW S, S \subseteq MediaPlayers
  PROVE  /\ Cardinality(S) \in Nat
         /\ \A T \in SUBSET S : Cardinality(T) \in Nat /\ Cardinality(T) <= Cardinality(S)
         /\ \A p \in S : \A T \in SUBSET S : p \in T => 1 <= Cardinality(T)
<1>1. IsFiniteSet(S)
  BY FS_Subset, MediaCounts DEF Media!MediaConstantsOK
<1>2. ASSUME NEW T \in SUBSET S PROVE IsFiniteSet(T) /\ Cardinality(T) \in Nat /\ Cardinality(T) <= Cardinality(S)
  BY <1>1, FS_Subset, FS_CardinalityType
<1>3. ASSUME NEW T \in SUBSET S, NEW p \in T PROVE 1 <= Cardinality(T)
  <2>1. IsFiniteSet(T) /\ Cardinality(T) \in Nat /\ T # {}
    BY <1>2
  <2>2. Cardinality(T) # 0
    BY <2>1, FS_EmptySet
  <2> QED
    BY <2>1, <2>2
<1> QED
  BY <1>1, <1>2, <1>3, FS_CardinalityType

\* Of some players one comes first.
LEMMA MediaFirstIs ==
  ASSUME Media!MediaConstantsOK, NEW ids, ids \subseteq MediaPlayers, ids # {}
  PROVE  Media!First(ids) \in ids
<1> DEFINE T == {MediaRank[p] : p \in ids}
<1>1. T \subseteq Nat /\ T # {}
  BY DEF Media!MediaConstantsOK
<1>2. PICK x \in T : \A y \in T : x <= y
  <2> HIDE DEF T
  <2> QED
    BY <1>1, AudioLeastNat
<1>3. PICK p \in ids : MediaRank[p] = x
  OBVIOUS
<1>4. \A q \in ids : MediaRank[p] <= MediaRank[q]
  BY <1>2, <1>3
<1> QED
  BY <1>4 DEF Media!First

\* Of some players that began to play by a given time one began last.
LEMMA MediaLatestIs ==
  ASSUME NEW starts, NEW ids, ids # {}, NEW n \in Nat,
         \A p \in ids : starts[p] \in Nat /\ starts[p] <= n
  PROVE  Media!Latest(starts, ids) \in ids
<1> DEFINE T == {n - starts[p] : p \in ids}
<1>1. T \subseteq Nat /\ T # {}
  OBVIOUS
<1>2. PICK x \in T : \A y \in T : x <= y
  <2> HIDE DEF T
  <2> QED
    BY <1>1, AudioLeastNat
<1>3. PICK p \in ids : n - starts[p] = x
  OBVIOUS
<1>4. ASSUME NEW q \in ids PROVE starts[q] <= starts[p]
  <2>1. n - starts[p] <= n - starts[q]
    BY <1>2, <1>3
  <2> QED
    BY <2>1
<1> QED
  BY <1>4 DEF Media!Latest

\* The player chosen to be shown is one of those given, or there is none.
LEMMA MediaSelectIs ==
  ASSUME Media!MediaConstantsOK, NEW players, DOMAIN players \subseteq MediaPlayers
  PROVE  IF DOMAIN players = {} THEN Media!select_active_player(players) = Media!None
         ELSE Media!select_active_player(players) \in DOMAIN players
<1> DEFINE ids == DOMAIN players
           playing == {p \in ids : players[p].playing}
           preferred == ids \intersect MediaSpotify
           controllable == {p \in ids : players[p].live}
<1>1. /\ playing # {} => Media!First(playing) \in ids
      /\ preferred # {} => Media!First(preferred) \in ids
      /\ controllable # {} => Media!First(controllable) \in ids
      /\ ids # {} => Media!First(ids) \in ids
  <2>1. playing \subseteq MediaPlayers /\ preferred \subseteq MediaPlayers /\ controllable \subseteq MediaPlayers
    OBVIOUS
  <2> HIDE DEF playing, preferred, controllable
  <2>2. playing # {} => Media!First(playing) \in playing
    BY <2>1, MediaFirstIs
  <2>3. preferred # {} => Media!First(preferred) \in preferred
    BY <2>1, MediaFirstIs
  <2>4. controllable # {} => Media!First(controllable) \in controllable
    BY <2>1, MediaFirstIs
  <2>5. ids # {} => Media!First(ids) \in ids
    BY MediaFirstIs
  <2> QED
    BY <2>2, <2>3, <2>4, <2>5 DEF playing, preferred, controllable
<1>2. playing \subseteq ids /\ preferred \subseteq ids /\ controllable \subseteq ids
  OBVIOUS
<1>3. Media!select_active_player(players) =
        IF playing # {} THEN Media!First(playing)
        ELSE IF preferred # {} THEN Media!First(preferred)
        ELSE IF controllable # {} THEN Media!First(controllable)
        ELSE IF ids # {} THEN Media!First(ids)
        ELSE Media!None
  BY DEF Media!select_active_player
<1> HIDE DEF playing, preferred, controllable, ids
<1>4. CASE ids = {}
  BY <1>2, <1>3, <1>4 DEF ids
<1>5. CASE ids # {}
  BY <1>1, <1>3, <1>5 DEF ids
<1> QED
  BY <1>4, <1>5 DEF ids

LEMMA MediaActiveIs ==
  ASSUME Media!MediaConstantsOK, NEW s, Media!Selection(s), NEW players, DOMAIN players \subseteq MediaPlayers,
         DOMAIN s.started \subseteq DOMAIN players, s.pinned \in DOMAIN players \union {Media!None}
  PROVE  /\ s.pinned # Media!None => Media!active(s, players) = s.pinned
         /\ IF DOMAIN players = {} THEN Media!active(s, players) = Media!None ELSE Media!active(s, players) \in DOMAIN players
<1> DEFINE playing == {p \in DOMAIN players : players[p].playing}
           recent == DOMAIN s.started
<1>1. Media!active(s, players) =
        IF s.pinned # Media!None THEN s.pinned
        ELSE IF recent \intersect playing # {} THEN Media!Latest(s.started, recent \intersect playing)
        ELSE IF playing # {} THEN Media!First(playing)
        ELSE IF recent # {} THEN Media!Latest(s.started, recent)
        ELSE Media!select_active_player(players)
  BY DEF Media!active
<1>2. playing \subseteq DOMAIN players /\ recent \subseteq DOMAIN players
  OBVIOUS
<1>3. s.sequence \in Nat /\ \A p \in recent : s.started[p] \in Nat /\ s.started[p] <= s.sequence
  BY DEF Media!Selection, Media!IsMap
<1> HIDE DEF playing, recent
<1>4. recent \intersect playing # {} => Media!Latest(s.started, recent \intersect playing) \in recent \intersect playing
  <2> DEFINE both == recent \intersect playing
  <2>1. \A p \in both : s.started[p] \in Nat /\ s.started[p] <= s.sequence
    BY <1>3
  <2> HIDE DEF both
  <2>2. both # {} => Media!Latest(s.started, both) \in both
    BY <1>3, <2>1, MediaLatestIs
  <2> QED
    BY <2>2 DEF both
<1>5. recent # {} => Media!Latest(s.started, recent) \in recent
  BY <1>3, MediaLatestIs
<1>6. playing # {} => Media!First(playing) \in playing
  BY <1>2, MediaFirstIs
<1>7. CASE DOMAIN players = {}
  <2>1. s.pinned = Media!None /\ playing = {} /\ recent = {} /\ recent \intersect playing = {}
    BY <1>2, <1>7
  <2>2. Media!active(s, players) = Media!select_active_player(players)
    BY <1>1, <2>1
  <2> QED
    BY <1>7, <2>1, <2>2, MediaSelectIs
<1>8. CASE DOMAIN players # {}
  <2>1. Media!select_active_player(players) \in DOMAIN players
    BY <1>8, MediaSelectIs
  <2>2. CASE s.pinned # Media!None
    <3>1. Media!active(s, players) = s.pinned
      BY <1>1, <2>2
    <3> QED
      BY <1>8, <2>2, <3>1
  <2>3. CASE s.pinned = Media!None
    BY <1>1, <1>2, <1>4, <1>5, <1>6, <1>8, <2>1, <2>3
  <2> QED
    BY <2>2, <2>3
<1> QED
  BY <1>7, <1>8

\* A selection brought up to date remembers only players that are there, and in
\* the order in which they began to play.
LEMMA MediaReselectedIs ==
  ASSUME Media!MediaConstantsOK, NEW s, Media!Selection(s), NEW players, DOMAIN players \subseteq MediaPlayers
  PROVE  /\ Media!Selection(Media!Reselected(s, players))
         /\ DOMAIN Media!Reselected(s, players).started \subseteq DOMAIN players
         /\ Media!Reselected(s, players).pinned \in DOMAIN players \union {Media!None}
<1> DEFINE ids == DOMAIN players
           playing == {p \in ids : players[p].playing}
           begun == IF s.initialized THEN playing \ s.previous ELSE {}
           stay == (DOMAIN s.started \intersect ids) \ begun
           starts == [p \in begun \union stay |->
                          IF p \in begun THEN s.sequence + Cardinality({q \in begun : MediaRank[q] <= MediaRank[p]})
                                         ELSE s.started[p]]
           r == [pinned |-> Media!StillPinned(s, ids), previous |-> playing, modes |-> s.modes \intersect ids,
                 started |-> starts, sequence |-> s.sequence + Cardinality(begun), initialized |-> ids # {}]
<1>1. Media!Reselected(s, players) = r
  BY MediaCounts DEF Media!Reselected
<1>2. playing \subseteq ids /\ begun \subseteq ids /\ stay \subseteq ids /\ stay \subseteq DOMAIN s.started
  OBVIOUS
<1>3. /\ s.sequence \in Nat /\ s.modes \subseteq MediaPlayers
      /\ \A p \in DOMAIN s.started : s.started[p] \in Nat /\ s.started[p] <= s.sequence
  BY DEF Media!Selection, Media!IsMap
<1>4. Media!StillPinned(s, ids) \in ids \union {Media!None}
  BY DEF Media!StillPinned
<1> HIDE DEF playing, begun, stay
<1>5. /\ Cardinality(begun) \in Nat
      /\ \A p \in begun : LET c == Cardinality({q \in begun : MediaRank[q] <= MediaRank[p]})
                           IN c \in Nat /\ c <= Cardinality(begun)
  <2>1. \A p \in begun : {q \in begun : MediaRank[q] <= MediaRank[p]} \in SUBSET begun
    OBVIOUS
  <2> QED
    BY <1>2, <2>1, MediaCountIs
<1>6. \A p \in begun \union stay : starts[p] \in Nat /\ starts[p] <= s.sequence + Cardinality(begun)
  BY <1>2, <1>3, <1>5
<1>7. Media!IsMap(starts, Nat)
  BY <1>2, <1>6 DEF Media!IsMap
<1>8. r.started = starts /\ DOMAIN starts = begun \union stay /\ r.sequence = s.sequence + Cardinality(begun)
      /\ r.pinned = Media!StillPinned(s, ids)
  OBVIOUS
<1>9. r \in [pinned: MediaPlayers \union {Media!None}, previous: SUBSET MediaPlayers, started: {r.started},
              modes: SUBSET MediaPlayers, sequence: Nat, initialized: BOOLEAN]
  BY <1>2, <1>3, <1>4, <1>5
<1> HIDE DEF r, starts
<1>10. Media!Selection(r)
  BY <1>6, <1>7, <1>8, <1>9 DEF Media!Selection
<1> QED
  BY <1>1, <1>2, <1>4, <1>8, <1>10

\* Publishing leaves the selection and what is shown as the invariant wants them.
LEMMA MediaSnapshotIs ==
  ASSUME Media!MediaConstantsOK, NEW s, Media!Selection(s), NEW players, Media!IsMap(players, Media!Player),
         \A p \in DOMAIN players : players[p].meta \in {Media!None, players[p].video},
         Media!snapshot(s, players)
  PROVE  Media!Selection(sel') /\ Media!ShownInv'
<1> DEFINE next == Media!Reselected(s, players)
           shown == [p \in DOMAIN players |-> [players[p] EXCEPT !.mode = p \in next.modes]]
<1>1. sel' = next /\ shownMedia' = [players |-> shown, active |-> Media!active(next, players),
                                   pinned |-> next.pinned, error |-> FALSE]
  BY DEF Media!snapshot
<1>2. DOMAIN players \subseteq MediaPlayers /\ players \in [DOMAIN players -> Media!Player]
  BY DEF Media!IsMap
<1>3. /\ Media!Selection(next) /\ DOMAIN next.started \subseteq DOMAIN players
      /\ next.pinned \in DOMAIN players \union {Media!None}
  BY <1>2, MediaReselectedIs
<1> HIDE DEF next
<1>4. /\ next.pinned # Media!None => Media!active(next, players) = next.pinned
      /\ IF DOMAIN players = {} THEN Media!active(next, players) = Media!None ELSE Media!active(next, players) \in DOMAIN players
  BY <1>2, <1>3, MediaActiveIs
<1>5. \A p \in DOMAIN players :
        /\ shown[p] \in Media!Player /\ shown[p].mode = (p \in next.modes)
        /\ shown[p].meta = players[p].meta /\ shown[p].video = players[p].video
  <2> SUFFICES ASSUME NEW p \in DOMAIN players
               PROVE  /\ shown[p] \in Media!Player /\ shown[p].mode = (p \in next.modes)
                      /\ shown[p].meta = players[p].meta /\ shown[p].video = players[p].video
    OBVIOUS
  <2>1. players[p] \in Media!Player /\ shown[p] = [players[p] EXCEPT !.mode = p \in next.modes]
    BY <1>2
  <2> DEFINE known == p \in next.modes
  <2>2. known \in BOOLEAN /\ shown[p] = [players[p] EXCEPT !.mode = known]
    BY <2>1
  <2> HIDE DEF known
  <2>3. shown[p] \in Media!Player /\ shown[p].mode = known
    BY <2>1, <2>2 DEF Media!Player
  <2>4. shown[p].meta = players[p].meta /\ shown[p].video = players[p].video
    BY <2>1, <2>2 DEF Media!Player
  <2> QED
    BY <2>3, <2>4 DEF known
<1>6. DOMAIN shown = DOMAIN players /\ shown \in [DOMAIN players -> Media!Player]
  BY <1>5
<1> HIDE DEF shown
<1>7. Media!IsMap(shown, Media!Player)
  BY <1>2, <1>6 DEF Media!IsMap
<1>8. DOMAIN players = {} => shown = Media!Nothing
  BY <1>6 DEF Media!Nothing
<1>9. Media!Consistent(shown, Media!active(next, players))
  BY <1>4, <1>5, <1>6, <1>8 DEF Media!Consistent
<1>10. /\ shownMedia'.players = shown /\ shownMedia'.active = Media!active(next, players)
       /\ shownMedia'.pinned = next.pinned
  BY <1>1
<1>11. Media!active(next, players) \in MediaPlayers \union {Media!None} /\ next.pinned \in MediaPlayers \union {Media!None}
  BY <1>2, <1>3, <1>4
<1>12. shownMedia' \in [players: {shownMedia'.players}, active: MediaPlayers \union {Media!None},
                        pinned: MediaPlayers \union {Media!None}, error: BOOLEAN]
  BY <1>1, <1>11
<1>13. Media!ChoiceShown'
  BY <1>1, <1>4, <1>5, <1>6, <1>8, <1>10 DEF Media!ChoiceShown
<1> QED
  BY <1>1, <1>3, <1>7, <1>9, <1>10, <1>12, <1>13 DEF Media!ShownInv

-----------------------------------------------------------------------------
\* What a step leaves alone stays as the invariant wants it.
LEMMA MediaStays ==
  ASSUME Media!IInv
  PROVE  /\ UNCHANGED bus => Media!BusInv'
         /\ UNCHANGED <<view, watch>> => Media!ViewInv'
         /\ (UNCHANGED <<enr, tasks>> /\ view'.done = view.done) => Media!LookupInv'
         /\ UNCHANGED sel => Media!Selection(sel)'
         /\ UNCHANGED mediaOp => Media!RequestInv'
         /\ UNCHANGED <<shownMedia, sel>> => Media!ShownInv'
<1>1. UNCHANGED bus => Media!BusInv'
  BY DEF Media!IInv, Media!BusInv
<1>2. UNCHANGED <<view, watch>> => Media!ViewInv'
  BY DEF Media!IInv, Media!ViewInv
<1>3. ASSUME UNCHANGED <<enr, tasks>>, view'.done = view.done PROVE Media!LookupInv'
  BY <1>3 DEF Media!IInv, Media!LookupInv, Media!PendingRuns
<1>4. UNCHANGED sel => Media!Selection(sel)'
  BY DEF Media!IInv, Media!Selection
<1>5. UNCHANGED mediaOp => Media!RequestInv'
  BY DEF Media!IInv, Media!RequestInv
<1>6. UNCHANGED <<shownMedia, sel>> => Media!ShownInv'
  BY DEF Media!IInv, Media!ShownInv, Media!ChoiceShown
<1> QED
  BY <1>1, <1>2, <1>3, <1>4, <1>5, <1>6

\* Nobody is shown when the players cannot be listed.
LEMMA MediaErrorIs == ASSUME NEW error \in BOOLEAN, shownMedia' = Media!NoMedia(error) PROVE Media!ShownInv'
<1>1. DOMAIN Media!Nothing = {} /\ Media!Nothing \in [{} -> Media!Player]
  BY DEF Media!Nothing
<1>2. Media!IsMap(Media!Nothing, Media!Player) /\ Media!Consistent(Media!Nothing, Media!None)
  BY <1>1 DEF Media!IsMap, Media!Consistent
<1>3. /\ shownMedia'.players = Media!Nothing /\ shownMedia'.active = Media!None /\ shownMedia'.pinned = Media!None
      /\ shownMedia'.error = error
  BY DEF Media!NoMedia
<1>4. shownMedia' \in [players: {shownMedia'.players}, active: MediaPlayers \union {Media!None},
                       pinned: MediaPlayers \union {Media!None}, error: BOOLEAN]
  BY DEF Media!NoMedia
<1>5. Media!ChoiceShown'
  BY <1>1, <1>3 DEF Media!ChoiceShown
<1> QED
  BY <1>2, <1>3, <1>4, <1>5 DEF Media!ShownInv

\* The monitor's record before and after it reads the players.
LEMMA MediaNoViewIs ==
  ASSUME NEW at \in {"connect", "empty", "list"}, view' = Media!NoView(at), watch' = {}
  PROVE  Media!ViewInv' /\ view'.done = {}
<1>1. DOMAIN Media!Nothing = {} /\ Media!Nothing \in [{} -> Media!Player]
  BY DEF Media!Nothing
<1>2. Media!IsMap(Media!Nothing, Media!Player)
  BY <1>1 DEF Media!IsMap
<1>3. view' = [at |-> at, names |-> {}, todo |-> {}, half |-> 0, seen |-> Media!Nothing, done |-> {}]
  BY DEF Media!NoView
<1>4. view'.at = at /\ view'.seen = Media!Nothing /\ view'.done = {}
  BY <1>3
<1>5. view' \in [at: {"connect", "empty", "list", "owner", "props", "publish", "select"},
                 names: SUBSET MediaPlayers, todo: SUBSET MediaPlayers, half: Nat, seen: {view'.seen}, done: SUBSET Media!Task]
  BY <1>3, <1>4
<1> QED
  BY <1>1, <1>2, <1>4, <1>5 DEF Media!ViewInv

LEMMA MediaReadingIs ==
  ASSUME NEW names \in SUBSET MediaPlayers, NEW done \in SUBSET Media!Task, view' = Media!Reading(names, done),
         done # {} => \E c \in done : done = {c}, watch' \subseteq names
  PROVE  Media!ViewInv' /\ view'.done = done
<1>1. DOMAIN Media!Nothing = {} /\ Media!Nothing \in [{} -> Media!Player]
  BY DEF Media!Nothing
<1>2. Media!IsMap(Media!Nothing, Media!Player)
  BY <1>1 DEF Media!IsMap
<1>3. view' = [at |-> IF names = {} THEN "publish" ELSE "owner", names |-> names, todo |-> names,
               half |-> 0, seen |-> Media!Nothing, done |-> done]
  BY DEF Media!Reading
<1>4. /\ view'.at = (IF names = {} THEN "publish" ELSE "owner") /\ view'.seen = Media!Nothing
      /\ view'.done = done /\ view'.names = names /\ view'.todo = names
  BY <1>3
<1>5. view' \in [at: {"connect", "empty", "list", "owner", "props", "publish", "select"},
                 names: SUBSET MediaPlayers, todo: SUBSET MediaPlayers, half: Nat, seen: {view'.seen}, done: SUBSET Media!Task]
  BY <1>3, <1>4
<1> QED
  BY <1>1, <1>2, <1>4, <1>5 DEF Media!ViewInv

LEMMA MediaGoIs ==
  ASSUME Media!ViewInv, NEW at \in {"connect", "list", "select"}, view.done = {}, view' = Media!Go(at), UNCHANGED watch
  PROVE  Media!ViewInv' /\ view'.done = view.done
<1>1. view' = [view EXCEPT !.at = at]
  BY DEF Media!Go
<1>2. /\ view'.at = at /\ view'.seen = view.seen /\ view'.done = {} /\ view'.names = view.names
      /\ view' \in [at: {"connect", "empty", "list", "owner", "props", "publish", "select"},
                    names: SUBSET MediaPlayers, todo: SUBSET MediaPlayers, half: Nat, seen: {view'.seen}, done: SUBSET Media!Task]
  BY <1>1 DEF Media!ViewInv
<1> QED
  BY <1>2 DEF Media!ViewInv

-----------------------------------------------------------------------------
LEMMA MediaBusKeeps ==
  ASSUME Media!MediaConstantsOK, Media!IInv, Media!BusInv', UNCHANGED <<view, watch, enr, tasks, sel, mediaOp, shownMedia>>
  PROVE  Media!IInv'
<1>1. view'.done = view.done
  OBVIOUS
<1> QED
  BY <1>1, MediaStays DEF Media!IInv

LEMMA MediaPlayerStartsKeeps == ASSUME Media!MediaConstantsOK, Media!IInv, NEW p \in MediaPlayers, Media!PlayerStarts(p) PROVE Media!IInv'
<1>1. Media!BusInv'
  BY DEF Media!IInv, Media!BusInv, Media!PlayerStarts, Media!Content, Media!Videos
<1> QED
  BY <1>1, MediaBusKeeps DEF Media!PlayerStarts

LEMMA MediaPlayerQuitsKeeps == ASSUME Media!MediaConstantsOK, Media!IInv, NEW p \in MediaPlayers, Media!PlayerQuits(p) PROVE Media!IInv'
<1>1. Media!BusInv'
  BY DEF Media!IInv, Media!BusInv, Media!PlayerQuits, Media!Content
<1> QED
  BY <1>1, MediaBusKeeps DEF Media!PlayerQuits

LEMMA MediaBecomesKeeps ==
  ASSUME Media!MediaConstantsOK, Media!IInv, NEW p \in MediaPlayers, NEW playing \in BOOLEAN, NEW video \in Media!Content,
         Media!Becomes(p, playing, video)
  PROVE  Media!IInv'
<1>1. Media!BusInv'
  BY DEF Media!IInv, Media!BusInv, Media!Becomes
<1> QED
  BY <1>1, MediaBusKeeps DEF Media!Becomes

LEMMA MediaPlayerChangesKeeps == ASSUME Media!MediaConstantsOK, Media!IInv, NEW p \in MediaPlayers, Media!PlayerChanges(p) PROVE Media!IInv'
<1>1. bus[p].playing \in BOOLEAN /\ (~bus[p].playing) \in BOOLEAN /\ bus[p].video \in Media!Content
  BY DEF Media!IInv, Media!BusInv
<1>2. MediaShows[p] \union {Media!None} \subseteq Media!Content
  BY DEF Media!Content, Media!Videos
<1>3. CASE Media!Becomes(p, ~bus[p].playing, bus[p].video)
  BY <1>1, <1>3, MediaBecomesKeeps
<1>4. CASE \E video \in (MediaShows[p] \union {Media!None}) \ {bus[p].video} : Media!Becomes(p, bus[p].playing, video)
  BY <1>1, <1>2, <1>4, MediaBecomesKeeps
<1> QED
  BY <1>3, <1>4 DEF Media!PlayerChanges

LEMMA MediaOperationKeeps ==
  ASSUME Media!MediaConstantsOK, Media!IInv, NEW p \in MediaPlayers \union {Media!resolve_player}, Media!operation(p)
  PROVE  Media!IInv'
<1> DEFINE fresh == [q \in Media!player_names |-> [playing |-> bus[q].playing, live |-> TRUE]]
<1>1. DOMAIN fresh = Media!player_names /\ Media!player_names \subseteq MediaPlayers
  BY DEF Media!player_names
<1>2. Media!resolve_player = IF shownMedia.active # Media!None THEN shownMedia.active ELSE Media!select_active_player(fresh)
  BY DEF Media!resolve_player
<1> HIDE DEF fresh
<1>3. Media!select_active_player(fresh) \in MediaPlayers \union {Media!None}
  BY <1>1, MediaSelectIs
<1>4. shownMedia.active \in MediaPlayers \union {Media!None}
  BY DEF Media!IInv, Media!ShownInv
<1>5. p \in MediaPlayers /\ Media!Becomes(p, ~bus[p].playing, bus[p].video)
  BY <1>2, <1>3, <1>4 DEF Media!operation
<1>6. bus[p].playing \in BOOLEAN /\ (~bus[p].playing) \in BOOLEAN /\ bus[p].video \in Media!Content
  BY <1>5 DEF Media!IInv, Media!BusInv
<1> QED
  BY <1>5, <1>6, MediaBecomesKeeps

-----------------------------------------------------------------------------
\* The requests.
LEMMA MediaBeginKeeps ==
  ASSUME Media!MediaConstantsOK, Media!IInv, NEW kind \in {"cycle", "select", "override", "automatic"},
         NEW p \in MediaPlayers \union {Media!None}, Media!Begin(kind, p)
  PROVE  Media!IInv'
<1>1. mediaOp' = [kind |-> kind, player |-> p, players |-> shownMedia.players, active |-> shownMedia.active]
      /\ UNCHANGED <<bus, view, watch, enr, tasks, sel, shownMedia>>
  BY DEF Media!Begin
<1>2. /\ Media!IsMap(shownMedia.players, Media!Player) /\ Media!Consistent(shownMedia.players, shownMedia.active)
      /\ shownMedia.active \in MediaPlayers \union {Media!None}
  BY DEF Media!IInv, Media!ShownInv
<1>3. mediaOp'.players = shownMedia.players /\ mediaOp'.active = shownMedia.active
  BY <1>1
<1>4. mediaOp' \in [kind: {Media!None, "cycle", "select", "override", "automatic"}, player: MediaPlayers \union {Media!None},
               players: {mediaOp'.players}, active: MediaPlayers \union {Media!None}]
  BY <1>1, <1>2, <1>3
<1>5. Media!RequestInv'
  BY <1>2, <1>3, <1>4 DEF Media!RequestInv
<1> QED
  BY <1>1, <1>5, MediaStays DEF Media!IInv

LEMMA MediaNoOpIs == ASSUME mediaOp' = Media!NoOp PROVE Media!RequestInv'
<1>1. DOMAIN Media!Nothing = {} /\ Media!Nothing \in [{} -> Media!Player]
  BY DEF Media!Nothing
<1>2. Media!IsMap(Media!Nothing, Media!Player) /\ Media!Consistent(Media!Nothing, Media!None)
  BY <1>1 DEF Media!IsMap, Media!Consistent
<1>3. mediaOp'.players = Media!Nothing /\ mediaOp'.active = Media!None
  BY DEF Media!NoOp
<1>4. mediaOp' \in [kind: {Media!None, "cycle", "select", "override", "automatic"}, player: MediaPlayers \union {Media!None},
               players: {mediaOp'.players}, active: MediaPlayers \union {Media!None}]
  BY DEF Media!NoOp
<1> QED
  BY <1>2, <1>3, <1>4 DEF Media!RequestInv

\* A request publishes the players it read, with another choice.
LEMMA MediaAnswerKeeps ==
  ASSUME Media!MediaConstantsOK, Media!IInv, NEW s, Media!Selection(s), mediaOp' = Media!NoOp, UNCHANGED <<bus, view, watch, enr, tasks>>,
         UNCHANGED <<sel, shownMedia>> \/ Media!snapshot(s, mediaOp.players)
  PROVE  Media!IInv'
<1>1. Media!RequestInv'
  BY MediaNoOpIs
<1>2. Media!BusInv' /\ Media!ViewInv' /\ Media!LookupInv'
  BY MediaStays
<1>3. CASE UNCHANGED <<sel, shownMedia>>
  BY <1>1, <1>2, <1>3, MediaStays DEF Media!IInv
<1>4. CASE Media!snapshot(s, mediaOp.players)
  <2>1. /\ Media!IsMap(mediaOp.players, Media!Player)
        /\ \A p \in DOMAIN mediaOp.players : mediaOp.players[p].meta \in {Media!None, mediaOp.players[p].video}
    BY DEF Media!IInv, Media!RequestInv, Media!Consistent
  <2>2. Media!Selection(sel') /\ Media!ShownInv'
    BY <1>4, <2>1, MediaSnapshotIs
  <2> QED
    BY <1>1, <1>2, <2>2 DEF Media!IInv
<1> QED
  BY <1>3, <1>4

LEMMA MediaPinIs ==
  ASSUME NEW s, Media!Selection(s), NEW p \in MediaPlayers \union {Media!None}
  PROVE  Media!Selection([s EXCEPT !.pinned = p])
<1> DEFINE r == [s EXCEPT !.pinned = p]
<1>1. /\ r.started = s.started /\ r.sequence = s.sequence
      /\ r \in [pinned: MediaPlayers \union {Media!None}, previous: SUBSET MediaPlayers, started: {r.started},
                modes: SUBSET MediaPlayers, sequence: Nat, initialized: BOOLEAN]
  BY DEF Media!Selection
<1> QED
  BY <1>1 DEF Media!Selection

LEMMA MediaModesAre ==
  ASSUME NEW s, Media!Selection(s), NEW modes \in SUBSET MediaPlayers
  PROVE  Media!Selection([s EXCEPT !.modes = modes])
<1> DEFINE r == [s EXCEPT !.modes = modes]
<1>1. /\ r.started = s.started /\ r.sequence = s.sequence
      /\ r \in [pinned: MediaPlayers \union {Media!None}, previous: SUBSET MediaPlayers, started: {r.started},
                modes: SUBSET MediaPlayers, sequence: Nat, initialized: BOOLEAN]
  BY DEF Media!Selection
<1> QED
  BY <1>1 DEF Media!Selection

LEMMA MediaCycleKeeps == ASSUME Media!MediaConstantsOK, Media!IInv, Media!cycle PROVE Media!IInv'
<1> DEFINE next == Media!next_player_id(mediaOp.players, mediaOp.active)
           s == [sel EXCEPT !.pinned = next]
<1>1. mediaOp' = Media!NoOp /\ UNCHANGED <<bus, view, watch, enr, tasks>>
  BY DEF Media!cycle
<1>2. Media!Selection(sel) /\ Media!IsMap(mediaOp.players, Media!Player)
  BY DEF Media!IInv, Media!RequestInv
<1>3. CASE Cardinality(DOMAIN mediaOp.players) < 2
  BY <1>1, <1>2, <1>3, MediaAnswerKeeps, MediaCounts DEF Media!cycle
<1>4. CASE ~(Cardinality(DOMAIN mediaOp.players) < 2)
  <2> DEFINE ids == DOMAIN mediaOp.players
             after == {p \in ids : mediaOp.active \in ids /\ MediaRank[p] > MediaRank[mediaOp.active]}
  <2>1. ids \subseteq MediaPlayers /\ after \subseteq MediaPlayers
    BY <1>2 DEF Media!IsMap
  <2>2. ids # {}
    <3>1. Cardinality({}) = 0
      BY FS_EmptySet
    <3> QED
      BY <1>4, <3>1
  <2>3. next = IF after # {} THEN Media!First(after) ELSE Media!First(ids)
    BY DEF Media!next_player_id
  <2> HIDE DEF ids, after, next
  <2>4. next \in MediaPlayers
    BY <2>1, <2>2, <2>3, MediaFirstIs
  <2>5. Media!Selection(s)
    BY <1>2, <2>4, MediaPinIs
  <2>6. Media!snapshot(s, mediaOp.players)
    BY <1>4, MediaCounts DEF Media!cycle, next
  <2> QED
    BY <1>1, <2>5, <2>6, MediaAnswerKeeps
<1> QED
  BY <1>3, <1>4

LEMMA MediaSelectKeeps == ASSUME Media!MediaConstantsOK, Media!IInv, Media!select PROVE Media!IInv'
<1> DEFINE s == [sel EXCEPT !.pinned = mediaOp.player]
<1>1. mediaOp' = Media!NoOp /\ UNCHANGED <<bus, view, watch, enr, tasks>>
  BY DEF Media!select
<1>2. UNCHANGED <<sel, shownMedia>> \/ Media!snapshot(s, mediaOp.players)
  BY DEF Media!select
<1>3. mediaOp.player \in MediaPlayers \union {Media!None} /\ Media!Selection(sel)
  BY DEF Media!IInv, Media!RequestInv
<1>4. Media!Selection(s)
  BY <1>3, MediaPinIs
<1> HIDE DEF s
<1> QED
  BY <1>1, <1>2, <1>4, MediaAnswerKeeps

LEMMA MediaSetModeKeeps == ASSUME Media!MediaConstantsOK, Media!IInv, Media!set_mode PROVE Media!IInv'
<1> DEFINE modes == IF mediaOp.kind = "override" THEN sel.modes \union {mediaOp.player} ELSE sel.modes \ {mediaOp.player}
           s == [sel EXCEPT !.modes = modes]
<1>1. mediaOp' = Media!NoOp /\ UNCHANGED <<bus, view, watch, enr, tasks>>
  BY DEF Media!set_mode
<1>2. UNCHANGED <<sel, shownMedia>> \/ (mediaOp.player \in DOMAIN mediaOp.players /\ Media!snapshot(s, mediaOp.players))
  BY DEF Media!set_mode
<1>3. Media!Selection(sel) /\ sel.modes \subseteq MediaPlayers /\ DOMAIN mediaOp.players \subseteq MediaPlayers
  BY DEF Media!IInv, Media!RequestInv, Media!IsMap, Media!Selection
<1>4. CASE UNCHANGED <<sel, shownMedia>>
  BY <1>1, <1>3, <1>4, MediaAnswerKeeps
<1>5. CASE mediaOp.player \in DOMAIN mediaOp.players /\ Media!snapshot(s, mediaOp.players)
  <2>1. modes \in SUBSET MediaPlayers
    BY <1>3, <1>5
  <2> HIDE DEF modes
  <2>2. Media!Selection(s)
    BY <1>3, <2>1, MediaModesAre
  <2> HIDE DEF s
  <2> QED
    BY <1>1, <1>5, <2>2, MediaAnswerKeeps
<1> QED
  BY <1>2, <1>4, <1>5

-----------------------------------------------------------------------------
\* The monitor.
LEMMA MediaFreshLookups == ASSUME enr' = Media!NoEnrichment, tasks' = {}, view'.done = {} PROVE Media!LookupInv'
<1>1. DOMAIN Media!Nothing = {} /\ Media!Nothing \in [{} -> Media!Session]
  BY DEF Media!Nothing
<1>2. Media!IsMap(Media!Nothing, Media!Session)
  BY <1>1 DEF Media!IsMap
<1>3. enr'.sessions = Media!Nothing /\ enr'.pending = {} /\ enr'.generation = 0
  BY DEF Media!NoEnrichment
<1>4. enr' \in [sessions: {enr'.sessions}, generation: Nat, data: SUBSET Media!Videos, failed: SUBSET Media!Videos,
                pending: SUBSET Media!Videos, started: {enr'.started}]
  BY DEF Media!NoEnrichment
<1>5. Media!Bound(Media!Nothing, 0, {})
  BY <1>1 DEF Media!Bound
<1>6. tasks' \union view'.done = {} /\ Media!PendingRuns'
  BY <1>3 DEF Media!PendingRuns
<1> QED
  BY <1>2, <1>3, <1>4, <1>5, <1>6 DEF Media!LookupInv

LEMMA MediaNotReading == ASSUME Media!ViewInv, view.at \in {"connect", "empty", "list", "select"} PROVE view.done = {}
BY DEF Media!ViewInv

LEMMA MediaConnectKeeps == ASSUME Media!MediaConstantsOK, Media!IInv, Media!connect PROVE Media!IInv'
<1>1. enr' = Media!NoEnrichment /\ tasks' = {} /\ watch' = {} /\ UNCHANGED <<bus, sel, mediaOp>>
  BY DEF Media!connect
<1>2. view.done = {}
  BY MediaNotReading DEF Media!IInv, Media!connect
<1>3. Media!ViewInv' /\ view'.done = {} /\ Media!ShownInv'
  <2>1. CASE shownMedia' = Media!NoMedia(TRUE) /\ UNCHANGED view
    <3>1. Media!ViewInv'
      BY <1>1, <2>1 DEF Media!IInv, Media!ViewInv
    <3> QED
      BY <1>2, <2>1, <3>1, MediaErrorIs
  <2>2. CASE view' = Media!NoView("list") /\ UNCHANGED shownMedia
    BY <1>1, <2>2, MediaNoViewIs, MediaStays
  <2> QED
    BY <2>1, <2>2 DEF Media!connect
<1>4. Media!LookupInv'
  BY <1>1, <1>3, MediaFreshLookups
<1> QED
  BY <1>1, <1>3, <1>4, MediaStays DEF Media!IInv

LEMMA MediaDisconnectKeeps == ASSUME Media!MediaConstantsOK, Media!IInv, Media!Disconnect PROVE Media!IInv'
<1>1. /\ enr' = Media!NoEnrichment /\ tasks' = {} /\ watch' = {} /\ view' = Media!NoView("empty")
      /\ UNCHANGED <<bus, sel, mediaOp, shownMedia>>
  BY DEF Media!Disconnect
<1>2. Media!ViewInv' /\ view'.done = {}
  BY <1>1, MediaNoViewIs
<1>3. Media!LookupInv'
  BY <1>1, <1>2, MediaFreshLookups
<1> QED
  BY <1>1, <1>2, <1>3, MediaStays DEF Media!IInv

LEMMA MediaPublishNoneKeeps == ASSUME Media!MediaConstantsOK, Media!IInv, Media!PublishNone PROVE Media!IInv'
<1>1. view' = Media!Go("connect") /\ Media!snapshot(sel, Media!Nothing) /\ UNCHANGED <<bus, watch, enr, tasks, mediaOp>>
  BY DEF Media!PublishNone
<1>2. view.done = {}
  BY MediaNotReading DEF Media!IInv, Media!PublishNone
<1>3. Media!ViewInv' /\ view'.done = view.done
  BY <1>1, <1>2, MediaGoIs DEF Media!IInv
<1>4. DOMAIN Media!Nothing = {} /\ Media!Nothing \in [{} -> Media!Player]
  BY DEF Media!Nothing
<1>5. Media!IsMap(Media!Nothing, Media!Player)
  BY <1>4 DEF Media!IsMap
<1>6. Media!Selection(sel') /\ Media!ShownInv'
  BY <1>1, <1>4, <1>5, MediaSnapshotIs DEF Media!IInv
<1> QED
  BY <1>1, <1>3, <1>6, MediaStays DEF Media!IInv

LEMMA MediaRefreshKeeps == ASSUME Media!MediaConstantsOK, Media!IInv, Media!refresh PROVE Media!IInv'
<1>1. UNCHANGED <<bus, enr, tasks, sel, mediaOp>>
  BY DEF Media!refresh
<1>2. view.done = {}
  BY MediaNotReading DEF Media!IInv, Media!refresh
<1>3. Media!ViewInv' /\ view'.done = view.done /\ Media!ShownInv'
  <2>1. CASE view' = Media!Go("select") /\ shownMedia' = Media!NoMedia(TRUE) /\ UNCHANGED watch
    BY <1>2, <2>1, MediaGoIs, MediaErrorIs DEF Media!IInv
  <2>2. CASE /\ view' = Media!Reading(Media!player_names, {}) /\ UNCHANGED shownMedia
             /\ watch' = IF Media!player_names = view.names THEN watch ELSE {}
    <3>1. Media!player_names \in SUBSET MediaPlayers /\ watch' \subseteq Media!player_names
      BY <2>2 DEF Media!player_names, Media!IInv, Media!ViewInv
    <3>2. Media!ViewInv' /\ view'.done = {}
      BY <2>2, <3>1, MediaReadingIs
    <3> QED
      BY <1>1, <1>2, <2>2, <3>2, MediaStays
  <2> QED
    BY <2>1, <2>2 DEF Media!refresh
<1> QED
  BY <1>1, <1>3, MediaStays DEF Media!IInv

LEMMA MediaWatchKeeps == ASSUME Media!MediaConstantsOK, Media!IInv, NEW p \in MediaPlayers, Media!watch_properties(p) PROVE Media!IInv'
<1>1. p \in view.names /\ watch' = watch \union {p} /\ UNCHANGED <<bus, view, enr, tasks, sel, mediaOp, shownMedia>>
  BY DEF Media!watch_properties
<1>2. Media!ViewInv'
  BY <1>1 DEF Media!IInv, Media!ViewInv
<1> QED
  BY <1>1, <1>2, MediaStays DEF Media!IInv

LEMMA MediaReadOwnerKeeps == ASSUME Media!MediaConstantsOK, Media!IInv, Media!ReadOwner PROVE Media!IInv'
<1> DEFINE p == Media!First(view.todo)
           half == IF bus[p].up THEN bus[p].owner ELSE 0
<1>1. /\ view.at = "owner" /\ view' = [view EXCEPT !.at = "props", !.half = half]
      /\ UNCHANGED <<bus, watch, enr, tasks, sel, mediaOp, shownMedia>>
  BY DEF Media!ReadOwner
<1>2. p \in MediaPlayers
  BY <1>1, MediaFirstIs DEF Media!IInv, Media!ViewInv
<1>3. half \in Nat
  BY <1>2 DEF Media!IInv, Media!BusInv
<1> HIDE DEF half
<1>4. /\ view'.at = "props" /\ view'.seen = view.seen /\ view'.done = view.done /\ view'.names = view.names
      /\ view'.todo = view.todo
      /\ view' \in [at: {"connect", "empty", "list", "owner", "props", "publish", "select"},
                    names: SUBSET MediaPlayers, todo: SUBSET MediaPlayers, half: Nat, seen: {view'.seen}, done: SUBSET Media!Task]
  BY <1>1, <1>3 DEF Media!IInv, Media!ViewInv
<1>5. Media!ViewInv'
  BY <1>1, <1>4 DEF Media!IInv, Media!ViewInv
<1> QED
  BY <1>1, <1>4, <1>5, MediaStays DEF Media!IInv

LEMMA MediaReadPlayerKeeps == ASSUME Media!MediaConstantsOK, Media!IInv, Media!read_player PROVE Media!IInv'
<1> DEFINE p == Media!First(view.todo)
           live == bus[p].up /\ view.half \in {0, bus[p].owner}
           player == [owner |-> view.half, live |-> live, playing |-> live /\ bus[p].playing,
                      video |-> IF live THEN bus[p].video ELSE Media!None, meta |-> Media!None, mode |-> FALSE]
           seen == [q \in DOMAIN view.seen \union {p} |-> IF q = p THEN player ELSE view.seen[q]]
           at == IF view.todo = {p} THEN "publish" ELSE "owner"
<1>1. /\ view.at = "props"
      /\ view' = [view EXCEPT !.at = at, !.todo = @ \ {p}, !.half = 0, !.seen = seen]
      /\ UNCHANGED <<bus, watch, enr, tasks, sel, mediaOp, shownMedia>>
  BY DEF Media!read_player
<1>2. p \in MediaPlayers /\ p \in view.todo
  BY <1>1, MediaFirstIs DEF Media!IInv, Media!ViewInv
<1>3. live \in BOOLEAN /\ (live /\ bus[p].playing) \in BOOLEAN
  BY <1>2 DEF Media!IInv, Media!BusInv
<1>4. (IF live THEN bus[p].video ELSE Media!None) \in Media!Content /\ view.half \in Nat /\ Media!None \in Media!Content
  BY <1>2 DEF Media!IInv, Media!BusInv, Media!ViewInv, Media!Content
<1> HIDE DEF live
<1>5. player \in Media!Player /\ player.meta = Media!None
  BY <1>3, <1>4 DEF Media!Player
<1> HIDE DEF player
<1>6. /\ DOMAIN view.seen \subseteq MediaPlayers /\ view.seen \in [DOMAIN view.seen -> Media!Player]
      /\ \A q \in DOMAIN view.seen : view.seen[q].meta = Media!None
  BY DEF Media!IInv, Media!ViewInv, Media!IsMap
<1>7. /\ DOMAIN seen = DOMAIN view.seen \union {p} /\ DOMAIN seen \subseteq MediaPlayers
      /\ \A q \in DOMAIN seen : seen[q] \in Media!Player /\ seen[q].meta = Media!None
  BY <1>2, <1>5, <1>6
<1>8. Media!IsMap(seen, Media!Player)
  BY <1>7 DEF Media!IsMap
<1>9. at \in {"publish", "owner"} /\ (at = "owner" => view.todo \ {p} # {})
  BY <1>2
<1> HIDE DEF seen, at, p
<1>10. /\ view'.at = at /\ view'.seen = seen /\ view'.done = view.done /\ view'.names = view.names
       /\ view'.todo = view.todo \ {p}
       /\ view' \in [at: {"connect", "empty", "list", "owner", "props", "publish", "select"},
                     names: SUBSET MediaPlayers, todo: SUBSET MediaPlayers, half: Nat, seen: {view'.seen}, done: SUBSET Media!Task]
  BY <1>1, <1>9 DEF Media!IInv, Media!ViewInv
<1>11. Media!ViewInv'
  BY <1>1, <1>7, <1>8, <1>9, <1>10 DEF Media!IInv, Media!ViewInv
<1> QED
  BY <1>1, <1>10, <1>11, MediaStays DEF Media!IInv

LEMMA MediaOnOwnerKeeps == ASSUME Media!MediaConstantsOK, Media!IInv, Media!OnOwner PROVE Media!IInv'
<1>1. view.at = "select" /\ view' = Media!Go("list") /\ UNCHANGED <<bus, watch, enr, tasks, sel, mediaOp, shownMedia>>
  BY DEF Media!OnOwner
<1>2. view.done = {}
  BY <1>1, MediaNotReading DEF Media!IInv
<1>3. Media!ViewInv' /\ view'.done = view.done
  BY <1>1, <1>2, MediaGoIs DEF Media!IInv
<1> QED
  BY <1>1, <1>3, MediaStays DEF Media!IInv

LEMMA MediaOnChangeKeeps == ASSUME Media!MediaConstantsOK, Media!IInv, Media!OnChange PROVE Media!IInv'
<1>1. /\ view.at = "select" /\ view' = Media!Reading(view.names, {})
      /\ UNCHANGED <<bus, watch, enr, tasks, sel, mediaOp, shownMedia>>
  BY DEF Media!OnChange
<1>2. view.done = {}
  BY <1>1, MediaNotReading DEF Media!IInv
<1>3. view.names \in SUBSET MediaPlayers /\ watch' \subseteq view.names
  BY <1>1 DEF Media!IInv, Media!ViewInv
<1>4. Media!ViewInv' /\ view'.done = view.done
  BY <1>1, <1>2, <1>3, MediaReadingIs
<1> QED
  BY <1>1, <1>4, MediaStays DEF Media!IInv

-----------------------------------------------------------------------------
\* The lookups.
LEMMA MediaBoundStays ==
  ASSUME NEW sessions, NEW g, NEW L, Media!Bound(sessions, g, L), NEW M,
         \A t \in M : \E u \in L : u.tickets = t.tickets /\ u.video = t.video
  PROVE  Media!Bound(sessions, g, M)
BY DEF Media!Bound

LEMMA MediaFetchEndsKeeps == ASSUME Media!MediaConstantsOK, Media!IInv, Media!FetchEnds PROVE Media!IInv'
<1>1. PICK task \in tasks, outcome \in {"data", "empty", "panic"} :
         task.outcome = "running" /\ tasks' = (tasks \ {task}) \union {[task EXCEPT !.outcome = outcome]}
  BY DEF Media!FetchEnds
<1>2. UNCHANGED <<bus, view, watch, enr, sel, mediaOp, shownMedia>>
  BY DEF Media!FetchEnds
<1> DEFINE ended == [task EXCEPT !.outcome = outcome]
<1>3. tasks \subseteq Media!Task /\ task \in Media!Task
  BY <1>1 DEF Media!IInv, Media!LookupInv
<1>4. ended \in Media!Task /\ ended.outcome = outcome /\ ended.video = task.video /\ ended.tickets = task.tickets
  BY <1>3 DEF Media!Task
<1> HIDE DEF ended
<1>5. tasks' = (tasks \ {task}) \union {ended}
  BY <1>1 DEF ended
<1>6. tasks' \subseteq Media!Task
  BY <1>3, <1>4, <1>5
<1>7. Media!Bound(enr.sessions, enr.generation, tasks' \union view.done)
  <2>1. \A t \in tasks' \union view.done : \E u \in tasks \union view.done :
           u.tickets = t.tickets /\ u.video = t.video
    BY <1>1, <1>4, <1>5
  <2> QED
    BY <2>1, MediaBoundStays DEF Media!IInv, Media!LookupInv
<1>8. Media!PendingRuns'
  <2> SUFFICES ASSUME NEW v \in enr.pending
               PROVE  v \in {t.video : t \in {u \in tasks' : u.outcome # "aborted"} \union view.done}
    BY <1>2 DEF Media!PendingRuns
  <2>1. PICK t \in {u \in tasks : u.outcome # "aborted"} \union view.done : t.video = v
    BY DEF Media!IInv, Media!LookupInv, Media!PendingRuns
  <2>2. CASE t = task
    BY <1>4, <1>5, <2>1, <2>2
  <2>3. CASE t # task
    BY <1>5, <2>1, <2>3
  <2> QED
    BY <2>2, <2>3
<1>9. Media!LookupInv'
  BY <1>2, <1>6, <1>7, <1>8 DEF Media!IInv, Media!LookupInv
<1> QED
  BY <1>2, <1>9, MediaStays DEF Media!IInv

LEMMA MediaOnCompletionKeeps == ASSUME Media!MediaConstantsOK, Media!IInv, Media!OnCompletion PROVE Media!IInv'
<1>1. PICK task \in tasks : /\ task.outcome \in {"data", "empty"} /\ tasks' = tasks \ {task}
                           /\ view' = Media!Reading(view.names, {task})
  BY DEF Media!OnCompletion
<1>2. view.at = "select" /\ UNCHANGED <<bus, watch, enr, sel, mediaOp, shownMedia>>
  BY DEF Media!OnCompletion
<1>3. view.done = {}
  BY <1>2, MediaNotReading DEF Media!IInv
<1>4. view.names \in SUBSET MediaPlayers /\ watch' \subseteq view.names /\ tasks \subseteq Media!Task
  BY <1>2 DEF Media!IInv, Media!ViewInv, Media!LookupInv
<1>5. Media!ViewInv' /\ view'.done = {task}
  BY <1>1, <1>4, MediaReadingIs
<1>6. tasks' \union view'.done = tasks \union view.done
  BY <1>1, <1>3, <1>5
<1>7. Media!PendingRuns'
  <2> SUFFICES ASSUME NEW v \in enr.pending
               PROVE  v \in {t.video : t \in {u \in tasks' : u.outcome # "aborted"} \union view'.done}
    BY <1>2 DEF Media!PendingRuns
  <2>1. PICK t \in {u \in tasks : u.outcome # "aborted"} \union view.done : t.video = v
    BY DEF Media!IInv, Media!LookupInv, Media!PendingRuns
  <2> QED
    BY <1>1, <1>3, <1>5, <2>1
<1>8. Media!LookupInv'
  BY <1>1, <1>2, <1>4, <1>6, <1>7 DEF Media!IInv, Media!LookupInv
<1> QED
  BY <1>2, <1>5, <1>8, MediaStays DEF Media!IInv

LEMMA MediaTaskFailedKeeps == ASSUME Media!MediaConstantsOK, Media!IInv, Media!task_failed PROVE Media!IInv'
<1>1. PICK task \in tasks, gone \in SUBSET Media!Cached :
         /\ tasks' = {[t EXCEPT !.outcome = IF @ = "running" THEN "aborted" ELSE @] : t \in tasks \ {task}}
         /\ enr' = [enr EXCEPT !.data = (@ \ enr.pending) \ gone,
                              !.failed = (@ \union enr.pending) \ gone, !.pending = {}]
  BY DEF Media!task_failed, Media!PendingAfterFailure
<1>2. UNCHANGED <<bus, view, watch, sel, mediaOp, shownMedia>>
  BY DEF Media!task_failed
<1>3. \A t \in Media!Task : LET u == [t EXCEPT !.outcome = IF @ = "running" THEN "aborted" ELSE @]
                     IN u \in Media!Task /\ u.video = t.video /\ u.tickets = t.tickets
  BY DEF Media!Task
<1>4. tasks \subseteq Media!Task
  BY DEF Media!IInv, Media!LookupInv
<1>5. tasks' \subseteq Media!Task /\ \A t \in tasks' : \E u \in tasks : u.tickets = t.tickets /\ u.video = t.video
  <2> SUFFICES ASSUME NEW t \in tasks' PROVE t \in Media!Task /\ \E u \in tasks : u.tickets = t.tickets /\ u.video = t.video
    OBVIOUS
  <2>1. PICK u \in tasks \ {task} : t = [u EXCEPT !.outcome = IF @ = "running" THEN "aborted" ELSE @]
    BY <1>1
  <2> QED
    BY <1>3, <1>4, <2>1
<1>6. /\ enr'.sessions = enr.sessions /\ enr'.generation = enr.generation /\ enr'.pending = {}
      /\ enr' \in [sessions: {enr'.sessions}, generation: Nat, data: SUBSET Media!Videos, failed: SUBSET Media!Videos,
                   pending: SUBSET Media!Videos, started: {enr'.started}]
  BY <1>1 DEF Media!IInv, Media!LookupInv
<1>7. Media!Bound(enr.sessions, enr.generation, tasks' \union view.done)
  <2>1. \A t \in tasks' \union view.done : \E u \in tasks \union view.done :
           u.tickets = t.tickets /\ u.video = t.video
    BY <1>5
  <2> QED
    BY <2>1, MediaBoundStays DEF Media!IInv, Media!LookupInv
<1>8. Media!PendingRuns'
  BY <1>6 DEF Media!PendingRuns
<1>9. Media!LookupInv'
  BY <1>2, <1>5, <1>6, <1>7, <1>8 DEF Media!IInv, Media!LookupInv
<1> QED
  BY <1>2, <1>9, MediaStays DEF Media!IInv

\* The sessions opened for the players read observe what those players show; one
\* whose content is new is of a new generation and knows nothing of it yet.
LEMMA MediaSessionsAre ==
  ASSUME Media!MediaConstantsOK, Media!IInv, NEW players, Media!IsMap(players, Media!Player)
  PROVE  LET opened == Media!Sessions(players)
             g == Media!Newest(opened)
         IN  /\ Media!IsMap(opened, Media!Session) /\ DOMAIN opened = DOMAIN players
             /\ g \in Nat /\ enr.generation <= g /\ Media!Bound(opened, g, tasks \union view.done)
             /\ \A p \in DOMAIN players : opened[p].observed = Media!content_key(players[p])
<1> DEFINE known == {p \in DOMAIN players :
                       p \in DOMAIN enr.sessions /\ enr.sessions[p].observed = Media!content_key(players[p])}
           new == DOMAIN players \ known
           rank(p) == Cardinality({q \in new : MediaRank[q] <= MediaRank[p]})
           opened == Media!Sessions(players)
           g == Media!Newest(opened)
<1>1. opened = [p \in DOMAIN players |->
                  IF p \in known THEN enr.sessions[p]
                  ELSE [observed |-> Media!content_key(players[p]), metadata |-> Media!None,
                        generation |-> enr.generation + rank(p)]]
  BY MediaCounts DEF Media!Sessions
<1>2. /\ DOMAIN players \subseteq MediaPlayers /\ \A p \in DOMAIN players : players[p] \in Media!Player
      /\ \A p \in DOMAIN enr.sessions : enr.sessions[p] \in Media!Session
      /\ enr.generation \in Nat /\ Media!Bound(enr.sessions, enr.generation, tasks \union view.done)
  BY DEF Media!IInv, Media!LookupInv, Media!IsMap
<1>3. new \subseteq MediaPlayers /\ \A p \in new : p \in {q \in new : MediaRank[q] <= MediaRank[p]}
  BY <1>2 DEF Media!MediaConstantsOK
<1>4. /\ Cardinality(new) \in Nat
      /\ \A p \in new : rank(p) \in Nat /\ 1 <= rank(p) /\ rank(p) <= Cardinality(new)
  <2> HIDE DEF new
  <2>1. \A p \in new : {q \in new : MediaRank[q] <= MediaRank[p]} \in SUBSET new
    OBVIOUS
  <2> QED
    BY <1>3, <2>1, MediaCountIs
<1>5. known \subseteq DOMAIN enr.sessions /\ known \subseteq DOMAIN players /\ known \union new = DOMAIN players
      /\ \A p \in known : enr.sessions[p].observed = Media!content_key(players[p])
  OBVIOUS
<1>6. \A p \in DOMAIN players : Media!content_key(players[p]) \in Nat \X Media!Content
  BY <1>2 DEF Media!content_key, Media!Player
<1>7. Media!None \in Media!Content
  BY DEF Media!Content
<1> HIDE DEF known, opened, rank
<1>8. /\ DOMAIN opened = DOMAIN players
      /\ \A p \in known : opened[p] = enr.sessions[p]
      /\ \A p \in new : opened[p] = [observed |-> Media!content_key(players[p]), metadata |-> Media!None,
                                    generation |-> enr.generation + rank(p)]
  BY <1>1, <1>5
<1> HIDE DEF new
<1>9. /\ \A p \in known : opened[p].generation <= enr.generation /\ opened[p] \in Media!Session
      /\ \A p \in new : /\ opened[p].generation = enr.generation + rank(p) /\ opened[p] \in Media!Session
                       /\ opened[p].metadata = Media!None /\ opened[p].observed = Media!content_key(players[p])
  <2>1. ASSUME NEW p \in known PROVE opened[p].generation <= enr.generation /\ opened[p] \in Media!Session
    BY <1>2, <1>5, <1>8 DEF Media!Bound
  <2>2. ASSUME NEW p \in new
        PROVE  /\ opened[p].generation = enr.generation + rank(p) /\ opened[p] \in Media!Session
               /\ opened[p].metadata = Media!None /\ opened[p].observed = Media!content_key(players[p])
    <3>1. enr.generation + rank(p) \in Nat /\ Media!content_key(players[p]) \in Nat \X Media!Content
      BY <1>2, <1>4, <1>5, <1>6
    <3> DEFINE key == Media!content_key(players[p])
               n == enr.generation + rank(p)
    <3>2. opened[p] = [observed |-> key, metadata |-> Media!None, generation |-> n]
      BY <1>8
    <3>3. key \in Nat \X Media!Content /\ n \in Nat
      BY <3>1
    <3> HIDE DEF key, n
    <3>4. opened[p] \in Media!Session
      BY <1>7, <3>2, <3>3 DEF Media!Session
    <3>5. opened[p].generation = n /\ opened[p].metadata = Media!None /\ opened[p].observed = key
      BY <3>2
    <3> QED
      BY <3>4, <3>5 DEF key, n
  <2> QED
    BY <2>1, <2>2
<1>10. g = enr.generation + Cardinality(new)
  <2>1. \A p \in new : opened[p].generation > enr.generation
    BY <1>2, <1>4, <1>9
  <2>2. \A p \in known : ~ (opened[p].generation > enr.generation)
    BY <1>2, <1>9 DEF Media!Session
  <2>3. {p \in DOMAIN opened : opened[p].generation > enr.generation} = new
    BY <1>5, <1>8, <2>1, <2>2
  <2> QED
    BY <2>3, MediaCounts DEF Media!Newest
<1> HIDE DEF g
<1>11. \A p \in DOMAIN players : opened[p].observed = Media!content_key(players[p]) /\ opened[p] \in Media!Session
  BY <1>5, <1>8, <1>9
<1>12. g \in Nat /\ enr.generation <= g
  BY <1>2, <1>4, <1>10
<1>13. Media!Bound(opened, g, tasks \union view.done)
  <2>1. ASSUME NEW p \in DOMAIN opened
        PROVE  opened[p].generation <= g /\ opened[p].metadata \in {Media!None, opened[p].observed[2]}
    <3>1. CASE p \in known
      <4>1. opened[p].generation <= enr.generation /\ opened[p].generation \in Nat
        BY <1>9, <3>1 DEF Media!Session
      <4> QED
        BY <1>2, <1>5, <1>8, <1>12, <3>1, <4>1 DEF Media!Bound
    <3>2. CASE p \in new
      BY <1>2, <1>4, <1>9, <1>10, <3>2
    <3> QED
      BY <1>5, <1>8, <3>1, <3>2
  <2>2. ASSUME NEW t \in tasks \union view.done, NEW k \in t.tickets
        PROVE  /\ k.generation <= g
               /\ k.player \in DOMAIN opened /\ opened[k.player].generation = k.generation =>
                     opened[k.player].observed[2] = t.video
    <3>1. k.generation \in Nat /\ k.generation <= enr.generation
      <4>1. t \in Media!Task
        BY DEF Media!IInv, Media!LookupInv, Media!ViewInv
      <4> QED
        BY <1>2, <4>1 DEF Media!Bound, Media!Task, Media!Ticket
    <3>2. k.generation <= g
      BY <1>2, <1>12, <3>1
    <3>3. CASE k.player \in known
      BY <1>2, <1>5, <1>8, <3>2, <3>3 DEF Media!Bound
    <3>4. CASE k.player \in new
      <4>1. opened[k.player].generation # k.generation
        BY <1>2, <1>4, <1>9, <3>1, <3>4
      <4> QED
        BY <3>2, <4>1
    <3> QED
      BY <1>5, <1>8, <3>2, <3>3, <3>4
  <2> QED
    BY <2>1, <2>2 DEF Media!Bound
<1>14. Media!IsMap(opened, Media!Session)
  <2>1. opened \in [DOMAIN players -> Media!Session]
    BY <1>1, <1>8, <1>11
  <2> QED
    BY <1>2, <2>1 DEF Media!IsMap
<1> QED
  BY <1>8, <1>11, <1>12, <1>13, <1>14 DEF opened, g

\* Sessions that learn only the metadata of what they observe stay bound.
LEMMA MediaLearnedIs ==
  ASSUME NEW sessions, Media!IsMap(sessions, Media!Session), NEW g, NEW L, Media!Bound(sessions, g, L),
         NEW learned, NEW m,
         learned = [p \in DOMAIN sessions |-> IF m[p] = Media!None THEN sessions[p] ELSE [sessions[p] EXCEPT !.metadata = m[p]]],
         \A p \in DOMAIN sessions : m[p] \in {Media!None, sessions[p].observed[2]}
  PROVE  /\ Media!IsMap(learned, Media!Session) /\ DOMAIN learned = DOMAIN sessions /\ Media!Bound(learned, g, L)
         /\ \A p \in DOMAIN sessions : /\ learned[p].observed = sessions[p].observed
                                       /\ learned[p].generation = sessions[p].generation
<1>1. DOMAIN sessions \subseteq MediaPlayers /\ \A p \in DOMAIN sessions : sessions[p] \in Media!Session
  BY DEF Media!IsMap
<1>2. ASSUME NEW p \in DOMAIN sessions
      PROVE  /\ learned[p] \in Media!Session /\ learned[p].observed = sessions[p].observed
             /\ learned[p].generation = sessions[p].generation
             /\ learned[p].metadata \in {Media!None, learned[p].observed[2]}
  <2>1. sessions[p] \in Media!Session /\ sessions[p].metadata \in {Media!None, sessions[p].observed[2]}
    BY <1>1 DEF Media!Bound
  <2>2. sessions[p].observed[2] \in Media!Content
    BY <2>1 DEF Media!Session
  <2>3. CASE m[p] = Media!None
    BY <2>1, <2>3
  <2>4. CASE m[p] # Media!None
    <3>1. learned[p] = [sessions[p] EXCEPT !.metadata = m[p]] /\ m[p] = sessions[p].observed[2]
      BY <2>4
    <3>2. learned[p] \in Media!Session
      BY <2>1, <2>2, <3>1 DEF Media!Session
    <3>3. /\ learned[p].observed = sessions[p].observed /\ learned[p].generation = sessions[p].generation
          /\ learned[p].metadata = m[p]
      BY <2>1, <3>1 DEF Media!Session
    <3> QED
      BY <3>1, <3>2, <3>3
  <2> QED
    BY <2>3, <2>4
<1>3. DOMAIN learned = DOMAIN sessions /\ learned \in [DOMAIN sessions -> Media!Session]
  BY <1>2
<1>4. Media!IsMap(learned, Media!Session)
  BY <1>1, <1>3 DEF Media!IsMap
<1>5. Media!Bound(learned, g, L)
  BY <1>2, <1>3 DEF Media!Bound
<1> QED
  BY <1>2, <1>3, <1>4, <1>5

LEMMA MediaFromCacheIs ==
  ASSUME NEW sessions, Media!IsMap(sessions, Media!Session), NEW g, NEW L, Media!Bound(sessions, g, L), NEW players, NEW facts,
         \A p \in DOMAIN sessions : sessions[p].observed = Media!content_key(players[p])
  PROVE  LET prepared == Media!FromCache(sessions, players, facts)
         IN  /\ Media!IsMap(prepared, Media!Session) /\ DOMAIN prepared = DOMAIN sessions /\ Media!Bound(prepared, g, L)
             /\ \A p \in DOMAIN sessions : /\ prepared[p].observed = sessions[p].observed
                                           /\ prepared[p].generation = sessions[p].generation
<1> DEFINE m == [p \in DOMAIN sessions |->
                   IF Media!lookup_video(players[p]) /\ players[p].video \in facts THEN players[p].video ELSE Media!None]
<1>1. Media!FromCache(sessions, players, facts) =
         [p \in DOMAIN sessions |-> IF m[p] = Media!None THEN sessions[p] ELSE [sessions[p] EXCEPT !.metadata = m[p]]]
  <2>1. ASSUME NEW p \in DOMAIN sessions
        PROVE  (IF Media!lookup_video(players[p]) /\ players[p].video \in facts
                THEN [sessions[p] EXCEPT !.metadata = players[p].video] ELSE sessions[p])
               = IF m[p] = Media!None THEN sessions[p] ELSE [sessions[p] EXCEPT !.metadata = m[p]]
    BY DEF Media!lookup_video
  <2> QED
    BY <2>1 DEF Media!FromCache
<1>2. \A p \in DOMAIN sessions : m[p] \in {Media!None, sessions[p].observed[2]}
  BY DEF Media!content_key
<1> HIDE DEF m
<1> QED
  BY <1>1, <1>2, MediaLearnedIs

LEMMA MediaAppliedIs ==
  ASSUME NEW sessions, Media!IsMap(sessions, Media!Session), NEW g, NEW L, Media!Bound(sessions, g, L), NEW c \in L, c.video # Media!None
  PROVE  LET applied == Media!Applied(sessions, c)
         IN  /\ Media!IsMap(applied, Media!Session) /\ DOMAIN applied = DOMAIN sessions /\ Media!Bound(applied, g, L)
             /\ \A p \in DOMAIN sessions : /\ applied[p].observed = sessions[p].observed
                                           /\ applied[p].generation = sessions[p].generation
<1> DEFINE hit(p) == \E ticket \in c.tickets : ticket.player = p /\ Media!Current(sessions[p], ticket)
           m == [p \in DOMAIN sessions |-> IF hit(p) THEN c.video ELSE Media!None]
<1>1. Media!Applied(sessions, c) =
         [p \in DOMAIN sessions |-> IF m[p] = Media!None THEN sessions[p] ELSE [sessions[p] EXCEPT !.metadata = m[p]]]
  <2>1. ASSUME NEW p \in DOMAIN sessions
        PROVE  (IF hit(p) THEN [sessions[p] EXCEPT !.metadata = c.video] ELSE sessions[p])
               = IF m[p] = Media!None THEN sessions[p] ELSE [sessions[p] EXCEPT !.metadata = m[p]]
    <3> HIDE DEF hit
    <3> QED
      OBVIOUS
  <2> QED
    BY <2>1 DEF Media!Applied
<1>2. \A p \in DOMAIN sessions : m[p] \in {Media!None, sessions[p].observed[2]}
  <2>1. ASSUME NEW p \in DOMAIN sessions, hit(p) PROVE c.video = sessions[p].observed[2]
    <3>1. PICK k \in c.tickets : k.player = p /\ sessions[p].generation = k.generation
      BY <2>1 DEF Media!Current
    <3> QED
      BY <3>1 DEF Media!Bound
  <2> HIDE DEF hit
  <2> QED
    BY <2>1
<1> HIDE DEF m
<1> QED
  BY <1>1, <1>2, MediaLearnedIs

\* A ticket is issued for what its player shows, in its session's generation.
LEMMA MediaTicketsAre ==
  ASSUME NEW players, Media!IsMap(players, Media!Player), NEW sessions, Media!IsMap(sessions, Media!Session), DOMAIN sessions = DOMAIN players,
         NEW g, NEW L, Media!Bound(sessions, g, L), NEW v \in Media!Videos,
         \A p \in DOMAIN sessions : sessions[p].observed = Media!content_key(players[p])
  PROVE  LET task == [video |-> v, tickets |-> Media!Tickets(players, sessions, v), outcome |-> "running"]
         IN  task \in Media!Task /\ Media!Bound(sessions, g, {task})
<1> DEFINE task == [video |-> v, tickets |-> Media!Tickets(players, sessions, v), outcome |-> "running"]
<1>1. ASSUME NEW k \in Media!Tickets(players, sessions, v)
      PROVE  /\ k \in Media!Ticket /\ k.player \in DOMAIN sessions /\ k.generation = sessions[k.player].generation
             /\ sessions[k.player].observed[2] = v
  <2>1. PICK p \in DOMAIN players : /\ players[p].video = v
                                    /\ k = [player |-> p, generation |-> sessions[p].generation]
    BY DEF Media!Tickets
  <2>2. p \in MediaPlayers /\ sessions[p].generation \in Nat
    BY DEF Media!IsMap, Media!Session
  <2>3. k.player = p /\ k.generation = sessions[p].generation /\ k \in Media!Ticket
    BY <2>1, <2>2 DEF Media!Ticket
  <2>4. sessions[p].observed[2] = v
    BY <2>1 DEF Media!content_key
  <2> QED
    BY <2>3, <2>4
<1>2. task.tickets = Media!Tickets(players, sessions, v) /\ task.video = v
  OBVIOUS
<1>3. task \in Media!Task
  BY <1>1 DEF Media!Task
<1> HIDE DEF task
<1>4. Media!Bound(sessions, g, {task})
  BY <1>1, <1>2 DEF Media!Bound
<1> QED
  BY <1>3, <1>4 DEF task

\* What is published is what was read, with what its sessions know.
LEMMA MediaMetadataIs ==
  ASSUME NEW players, Media!IsMap(players, Media!Player), NEW sessions, Media!IsMap(sessions, Media!Session), DOMAIN sessions = DOMAIN players,
         NEW g, NEW L, Media!Bound(sessions, g, L),
         \A p \in DOMAIN sessions : sessions[p].observed = Media!content_key(players[p])
  PROVE  LET shown == Media!apply_metadata(players, sessions)
         IN  /\ Media!IsMap(shown, Media!Player)
             /\ \A p \in DOMAIN shown : shown[p].meta \in {Media!None, shown[p].video}
<1> DEFINE shown == Media!apply_metadata(players, sessions)
<1>1. shown = [p \in DOMAIN players |-> [players[p] EXCEPT !.meta = sessions[p].metadata]]
  BY DEF Media!apply_metadata
<1> HIDE DEF shown
<1>2. ASSUME NEW p \in DOMAIN players
      PROVE  shown[p] \in Media!Player /\ shown[p].meta \in {Media!None, shown[p].video}
  <2>1. players[p] \in Media!Player /\ sessions[p] \in Media!Session
    BY DEF Media!IsMap
  <2>2. sessions[p].metadata \in {Media!None, players[p].video} /\ sessions[p].metadata \in Media!Content
    BY <2>1 DEF Media!Bound, Media!content_key, Media!Session
  <2>3. shown[p] = [players[p] EXCEPT !.meta = sessions[p].metadata]
    BY <1>1
  <2>4. shown[p] \in Media!Player /\ shown[p].meta = sessions[p].metadata /\ shown[p].video = players[p].video
    BY <2>1, <2>2, <2>3 DEF Media!Player
  <2> QED
    BY <2>2, <2>4
<1>3. DOMAIN shown = DOMAIN players /\ shown \in [DOMAIN players -> Media!Player] /\ DOMAIN players \subseteq MediaPlayers
  BY <1>1, <1>2 DEF Media!IsMap
<1>4. Media!IsMap(shown, Media!Player)
  BY <1>3 DEF Media!IsMap
<1> QED
  BY <1>2, <1>3, <1>4 DEF shown

LEMMA MediaRefreshPlayersKeeps == ASSUME Media!MediaConstantsOK, Media!IInv, Media!refresh_players PROVE Media!IInv'
<1>1. PICK expired \in SUBSET Media!Cached, rested \in BOOLEAN, gone \in SUBSET Media!Cached, wanted \in SUBSET Media!Videos :
        LET facts == enr.data \ expired
            failed == enr.failed \ expired
            begun == IF rested THEN 0 ELSE enr.started
            opened == Media!Sessions(view.seen)
            prepared == Media!FromCache(opened, view.seen, facts)
            joined == view.done
            vs == {c.video : c \in joined}
            fetched == {c.video : c \in {d \in joined : d.outcome = "data"}}
            final == IF fetched = {} THEN prepared ELSE Media!Applied(prepared, CHOOSE c \in joined : TRUE)
        IN  /\ Media!Fault(expired # {})
            /\ Media!Prepared(view.seen, facts \union failed, begun, wanted)
            /\ Media!cache_result(facts \union failed, vs, gone)
            /\ enr' = [sessions |-> final, generation |-> Media!Newest(opened),
                       data |-> ((facts \ vs) \union fetched) \ gone,
                       failed |-> ((failed \ vs) \union (vs \ fetched)) \ gone,
                       pending |-> (enr.pending \union wanted) \ vs, started |-> begun + Media!Cardinality(wanted)]
            /\ tasks' = tasks \union {[video |-> v, tickets |-> Media!Tickets(view.seen, opened, v),
                                       outcome |-> "running"] : v \in wanted}
            /\ Media!snapshot(sel, Media!apply_metadata(view.seen, final))
  BY DEF Media!refresh_players
<1> DEFINE seen == view.seen
           facts == enr.data \ expired
           failed == enr.failed \ expired
           n == (IF rested THEN 0 ELSE enr.started) + Cardinality(wanted)
           opened == Media!Sessions(seen)
           g == Media!Newest(opened)
           prepared == Media!FromCache(opened, seen, facts)
           vs == {c.video : c \in view.done}
           fetched == {c.video : c \in {d \in view.done : d.outcome = "data"}}
           final == IF fetched = {} THEN prepared ELSE Media!Applied(prepared, CHOOSE c \in view.done : TRUE)
           task(v) == [video |-> v, tickets |-> Media!Tickets(seen, opened, v), outcome |-> "running"]
           L == tasks \union view.done
<1>2. /\ enr' = [sessions |-> final, generation |-> g, data |-> ((facts \ vs) \union fetched) \ gone,
                 failed |-> ((failed \ vs) \union (vs \ fetched)) \ gone,
                 pending |-> (enr.pending \union wanted) \ vs, started |-> n]
      /\ tasks' = tasks \union {task(v) : v \in wanted}
      /\ Media!snapshot(sel, Media!apply_metadata(seen, final))
  BY <1>1, MediaCounts
<1>3. /\ view' = [view EXCEPT !.at = "select", !.seen = Media!Nothing, !.done = {}]
      /\ UNCHANGED <<bus, watch, mediaOp>>
  BY DEF Media!refresh_players
<1>4. /\ Media!IsMap(seen, Media!Player) /\ view.done \subseteq Media!Task /\ tasks \subseteq Media!Task
      /\ (view.done # {} => \E c \in view.done : view.done = {c})
      /\ enr.data \subseteq Media!Videos /\ enr.failed \subseteq Media!Videos /\ enr.pending \subseteq Media!Videos
  BY DEF Media!IInv, Media!ViewInv, Media!LookupInv
<1>5. /\ Media!IsMap(opened, Media!Session) /\ DOMAIN opened = DOMAIN seen /\ Media!Bound(opened, g, L)
      /\ \A p \in DOMAIN seen : opened[p].observed = Media!content_key(seen[p])
  BY <1>4, MediaSessionsAre
<1> HIDE DEF g, opened, seen
<1>6. /\ Media!IsMap(prepared, Media!Session) /\ DOMAIN prepared = DOMAIN opened /\ Media!Bound(prepared, g, L)
      /\ \A p \in DOMAIN opened : /\ prepared[p].observed = opened[p].observed
                                  /\ prepared[p].generation = opened[p].generation
  BY <1>5, MediaFromCacheIs
<1> HIDE DEF prepared
<1>7. \A c \in view.done : c.video \in Media!Videos /\ c.video # Media!None
  BY <1>4 DEF Media!Task, Media!MediaConstantsOK
<1>8. /\ Media!IsMap(final, Media!Session) /\ DOMAIN final = DOMAIN opened /\ Media!Bound(final, g, L)
      /\ \A p \in DOMAIN opened : final[p].observed = opened[p].observed /\ final[p].generation = opened[p].generation
  <2>1. CASE fetched = {}
    BY <1>6, <2>1
  <2>2. CASE fetched # {}
    <3> DEFINE c == CHOOSE d \in view.done : TRUE
    <3>1. c \in view.done
      BY <2>2
    <3>2. c \in L /\ c.video # Media!None /\ final = Media!Applied(prepared, c)
      BY <1>7, <2>2, <3>1
    <3> HIDE DEF c, final, L
    <3> QED
      BY <1>6, <3>2, MediaAppliedIs
  <2> QED
    BY <2>1, <2>2
<1>9. vs \subseteq Media!Videos /\ fetched \subseteq vs
  BY <1>7
<1> HIDE DEF final, fetched
<1>10. ASSUME NEW v \in wanted
       PROVE  task(v) \in Media!Task /\ Media!Bound(final, g, {task(v)})
  <2>1. \A p \in DOMAIN final : final[p].observed = Media!content_key(seen[p])
    BY <1>5, <1>8
  <2>2. Media!Tickets(seen, final, v) = Media!Tickets(seen, opened, v)
    BY <1>5, <1>8 DEF Media!Tickets
  <2>3. v \in Media!Videos /\ DOMAIN final = DOMAIN seen
    BY <1>5, <1>8
  <2> HIDE DEF L
  <2> DEFINE same == [video |-> v, tickets |-> Media!Tickets(seen, final, v), outcome |-> "running"]
  <2>4. same \in Media!Task /\ Media!Bound(final, g, {same})
    BY <1>4, <1>8, <2>1, <2>3, MediaTicketsAre DEF seen
  <2> QED
    BY <2>2, <2>4
<1> HIDE DEF task
<1>11. Media!Bound(final, g, tasks' \union {})
  <2>1. ASSUME NEW t \in tasks', NEW k \in t.tickets
        PROVE  /\ k.generation <= g
               /\ k.player \in DOMAIN final /\ final[k.player].generation = k.generation =>
                     final[k.player].observed[2] = t.video
    <3>1. CASE t \in tasks
      BY <1>8, <3>1 DEF Media!Bound
    <3>2. CASE t \in {task(v) : v \in wanted}
      <4>1. PICK v \in wanted : t = task(v)
        BY <3>2
      <4> QED
        BY <1>10, <4>1 DEF Media!Bound
    <3> QED
      BY <1>2, <3>1, <3>2
  <2> QED
    BY <1>8, <2>1 DEF Media!Bound
<1>12. tasks' \subseteq Media!Task
  BY <1>2, <1>4, <1>10
<1>13. \A v \in wanted : task(v).video = v /\ task(v).outcome = "running"
  BY DEF task
<1>14. /\ view'.at = "select" /\ view'.seen = Media!Nothing /\ view'.done = {} /\ view'.names = view.names
       /\ view' \in [at: {"connect", "empty", "list", "owner", "props", "publish", "select"},
                     names: SUBSET MediaPlayers, todo: SUBSET MediaPlayers, half: Nat, seen: {view'.seen}, done: SUBSET Media!Task]
  BY <1>3 DEF Media!IInv, Media!ViewInv
<1>15. /\ enr'.sessions = final /\ enr'.generation = g /\ enr'.pending = (enr.pending \union wanted) \ vs
       /\ enr' \in [sessions: {enr'.sessions}, generation: Nat, data: SUBSET Media!Videos, failed: SUBSET Media!Videos,
                    pending: SUBSET Media!Videos, started: {enr'.started}]
  <2>1. g \in Nat
    BY <1>4, MediaSessionsAre DEF g, opened, seen
  <2>2. /\ ((facts \ vs) \union fetched) \ gone \subseteq Media!Videos
        /\ ((failed \ vs) \union (vs \ fetched)) \ gone \subseteq Media!Videos
        /\ (enr.pending \union wanted) \ vs \subseteq Media!Videos
    BY <1>4, <1>9
  <2> HIDE DEF facts, failed, vs, n
  <2> QED
    BY <1>2, <2>1, <2>2
<1>16. Media!PendingRuns'
  <2> SUFFICES ASSUME NEW v \in enr'.pending
               PROVE  v \in {t.video : t \in {u \in tasks' : u.outcome # "aborted"} \union view'.done}
    BY DEF Media!PendingRuns
  <2>1. CASE v \in wanted
    <3>1. task(v) \in tasks' /\ task(v).video = v /\ task(v).outcome # "aborted"
      BY <1>2, <1>13, <2>1
    <3> QED
      BY <3>1
  <2>2. CASE v \in enr.pending \ vs
    <3>1. PICK t \in {u \in tasks : u.outcome # "aborted"} \union view.done : t.video = v
      BY <2>2 DEF Media!IInv, Media!LookupInv, Media!PendingRuns
    <3>2. t \in tasks /\ t.outcome # "aborted"
      BY <2>2, <3>1
    <3> QED
      BY <1>2, <3>1, <3>2
  <2> QED
    BY <1>15, <2>1, <2>2
<1>17. Media!LookupInv'
  <2>1. tasks' \union view'.done = tasks' \union {}
    BY <1>14
  <2>2. Media!Bound(enr'.sessions, enr'.generation, tasks' \union view'.done)
    BY <1>11, <1>15, <2>1
  <2>3. Media!IsMap(enr'.sessions, Media!Session)
    BY <1>8, <1>15
  <2> QED
    BY <1>12, <1>15, <1>16, <2>2, <2>3 DEF Media!LookupInv
<1>18. Media!ViewInv'
  <2>1. DOMAIN Media!Nothing = {} /\ Media!Nothing \in [{} -> Media!Player]
    BY DEF Media!Nothing
  <2>2. Media!IsMap(Media!Nothing, Media!Player)
    BY <2>1 DEF Media!IsMap
  <2> QED
    BY <1>3, <1>14, <2>1, <2>2 DEF Media!IInv, Media!ViewInv
<1>19. Media!Selection(sel') /\ Media!ShownInv'
  <2> DEFINE shown == Media!apply_metadata(seen, final)
  <2>1. \A p \in DOMAIN final : final[p].observed = Media!content_key(seen[p])
    BY <1>5, <1>8
  <2>2. DOMAIN final = DOMAIN seen
    BY <1>5, <1>8
  <2> HIDE DEF L
  <2>3. Media!IsMap(shown, Media!Player) /\ \A p \in DOMAIN shown : shown[p].meta \in {Media!None, shown[p].video}
    BY <1>4, <1>8, <2>1, <2>2, MediaMetadataIs DEF seen
  <2> HIDE DEF shown
  <2>4. Media!snapshot(sel, shown)
    BY <1>2 DEF shown
  <2> QED
    BY <2>3, <2>4, MediaSnapshotIs DEF Media!IInv
<1> QED
  BY <1>3, <1>17, <1>18, <1>19, MediaStays DEF Media!IInv

-----------------------------------------------------------------------------
LEMMA MediaInitHolds == ASSUME Media!MediaConstantsOK, Media!MediaInit PROVE Media!IInv
<1>1. DOMAIN Media!Nothing = {} /\ Media!Nothing \in [{} -> Media!Player] /\ Media!Nothing \in [{} -> Media!Session] /\ Media!Nothing \in [{} -> Nat]
  BY DEF Media!Nothing
<1>2. Media!IsMap(Media!Nothing, Media!Player) /\ Media!IsMap(Media!Nothing, Media!Session) /\ Media!IsMap(Media!Nothing, Nat) /\ Media!Consistent(Media!Nothing, Media!None)
  BY <1>1 DEF Media!IsMap, Media!Consistent
<1>3. Media!BusInv
  <2>1. PICK up \in {{}, MediaPlayers}, video \in [MediaPlayers -> Media!Content] :
          bus = [p \in MediaPlayers |-> [up |-> p \in up, owner |-> IF p \in up THEN 1 ELSE 0,
                                    playing |-> FALSE, video |-> video[p]]]
    BY DEF Media!MediaInit
  <2> QED
    BY <2>1 DEF Media!BusInv
<1>4. Media!ViewInv
  <2>1. view = [at |-> "connect", names |-> {}, todo |-> {}, half |-> 0, seen |-> Media!Nothing, done |-> {}] /\ watch = {}
    BY DEF Media!MediaInit, Media!NoView
  <2> QED
    BY <1>1, <1>2, <2>1 DEF Media!ViewInv
<1>5. Media!LookupInv
  <2>1. /\ enr = [sessions |-> Media!Nothing, generation |-> 0, data |-> {}, failed |-> {}, pending |-> {}, started |-> 0]
        /\ tasks = {} /\ view.done = {}
    BY DEF Media!MediaInit, Media!NoEnrichment, Media!NoView
  <2>2. Media!Bound(enr.sessions, enr.generation, tasks \union view.done)
    BY <1>1, <2>1 DEF Media!Bound
  <2> QED
    BY <1>2, <2>1, <2>2 DEF Media!LookupInv, Media!PendingRuns
<1>6. Media!Selection(sel)
  <2>1. sel = [pinned |-> Media!None, previous |-> {}, started |-> Media!Nothing, modes |-> {}, sequence |-> 0, initialized |-> FALSE]
    BY DEF Media!MediaInit
  <2> QED
    BY <1>1, <1>2, <2>1 DEF Media!Selection
<1>7. Media!RequestInv
  <2>1. mediaOp = [kind |-> Media!None, player |-> Media!None, players |-> Media!Nothing, active |-> Media!None]
    BY DEF Media!MediaInit, Media!NoOp
  <2> QED
    BY <1>2, <2>1 DEF Media!RequestInv
<1>8. Media!ShownInv
  <2>1. shownMedia = [players |-> Media!Nothing, active |-> Media!None, pinned |-> Media!None, error |-> FALSE]
    BY DEF Media!MediaInit, Media!NoMedia
  <2> QED
    BY <1>1, <1>2, <2>1 DEF Media!ShownInv, Media!ChoiceShown
<1> QED
  BY <1>3, <1>4, <1>5, <1>6, <1>7, <1>8 DEF Media!IInv

LEMMA MediaNextKeeps == ASSUME Media!MediaConstantsOK, Media!IInv, [Media!MediaNext]_(Media!mediaVars) PROVE Media!IInv'
<1>1. CASE UNCHANGED Media!mediaVars
  BY <1>1, MediaStays DEF Media!mediaVars, Media!IInv
<1>2. CASE Media!Monitor
  BY <1>2, MediaConnectKeeps, MediaPublishNoneKeeps, MediaRefreshKeeps, MediaReadOwnerKeeps, MediaReadPlayerKeeps, MediaRefreshPlayersKeeps DEF Media!Monitor
<1>3. CASE Media!Disconnect \/ Media!OnOwner \/ Media!OnChange \/ Media!OnCompletion \/ Media!task_failed \/ Media!FetchEnds
  BY <1>3, MediaDisconnectKeeps, MediaOnOwnerKeeps, MediaOnChangeKeeps, MediaOnCompletionKeeps, MediaTaskFailedKeeps, MediaFetchEndsKeeps
<1>4. CASE Media!Answers
  BY <1>4, MediaCycleKeeps, MediaSelectKeeps, MediaSetModeKeeps DEF Media!Answers
<1>5. CASE \E p \in MediaPlayers \union {Media!resolve_player} : Media!operation(p)
  BY <1>5, MediaOperationKeeps
<1>6. CASE \/ \E kind \in {"override", "automatic", "select"}, p \in MediaPlayers : Media!Begin(kind, p)
           \/ \E kind \in {"cycle", "select"} : Media!Begin(kind, Media!None)
  BY <1>6, MediaBeginKeeps
<1>7. CASE \E p \in MediaPlayers : Media!PlayerStarts(p) \/ Media!PlayerQuits(p) \/ Media!PlayerChanges(p) \/ Media!watch_properties(p)
  BY <1>7, MediaPlayerStartsKeeps, MediaPlayerQuitsKeeps, MediaPlayerChangesKeeps, MediaWatchKeeps
<1> QED
  BY <1>1, <1>2, <1>3, <1>4, <1>5, <1>6, <1>7 DEF Media!MediaNext

LEMMA MediaSafeFollows == ASSUME Media!MediaConstantsOK, Media!IInv PROVE Media!MediaTypeOK /\ Media!MediaSafe
<1>1. ASSUME NEW players, Media!IsMap(players, Media!Player)
      PROVE  /\ DOMAIN players \subseteq MediaPlayers
             /\ \A p \in DOMAIN players : players[p].video \in Media!Content /\ players[p].meta \in Media!Content
  BY <1>1 DEF Media!IsMap, Media!Player
<1>2. Media!IsMap(shownMedia.players, Media!Player) /\ Media!IsMap(view.seen, Media!Player) /\ Media!IsMap(mediaOp.players, Media!Player)
  BY DEF Media!IInv, Media!ShownInv, Media!ViewInv, Media!RequestInv
<1>3. Media!MediaTypeOK
  BY <1>1, <1>2 DEF Media!IInv, Media!ViewInv, Media!LookupInv, Media!Selection, Media!MediaTypeOK
<1>4. Media!MediaSafe
  BY DEF Media!IInv, Media!LookupInv, Media!ShownInv, Media!Consistent, Media!MediaSafe, Media!MetadataBelongs
<1> QED
  BY <1>3, <1>4

HIDE DEF bus, heard, view, watch, enr, tasks, sel, mediaOp, shownMedia, missed, envm
=============================================================================
