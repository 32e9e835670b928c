-------------------------- MODULE NotificationStore --------------------------
(***************************************************************************)
(* What one transaction of the notification store does to the database     *)
(* (src/src/activity/notifications/storage.rs, storage_state.rs and        *)
(* storage_rows.rs).                                                       *)
(*                                                                         *)
(* A database holds the history rows in the order of their history_id, the *)
(* highest notification identifier remembered, the DND setting, the keys   *)
(* of once-only notifications, and the cutoff that the clock and the       *)
(* history_days setting make: older stamps are not kept.  A row has a      *)
(* session identifier, its creation stamp `born' and whether the           *)
(* conversation is still open; a Position is an identifier with its stamp. *)
(***************************************************************************)
EXTENDS Integers, Sequences, FiniteSets

CONSTANT Scope     \* SCOPE_LIMIT, 5000 in the code

ASSUME ScopeAssumption == Scope \in Nat \ {0}

EmptyStore == [rows |-> <<>>, lastId |-> 0, dnd |-> "off", once |-> {}, cutoff |-> 0]

Position(r) == <<r.id, r.born>>
Positions(rows) == {Position(rows[i]) : i \in DOMAIN rows}
OpenPositions(rows) == {Position(rows[i]) : i \in {j \in DOMAIN rows : rows[j].open}}

Conversation(rows, id) == {i \in DOMAIN rows : rows[i].open /\ rows[i].id = id}

\* remember_id
remember_id(db, id) == [db EXCEPT !.lastId = IF id > @ THEN id ELSE @]

\* save_content: a notification updates its open row or gets a new one.
save_content(rows, n) ==
    LET found == Conversation(rows, n.id)
        row == [id |-> n.id, born |-> n.born, open |-> TRUE]
    IN  IF found = {} THEN Append(rows, row)
        ELSE [i \in DOMAIN rows |-> IF i \in found THEN row ELSE rows[i]]

\* A finite set of integers in ascending order, and the rows at some places.
InOrder(S) == CHOOSE s \in [1..Cardinality(S) -> S] :
                  \A i, j \in 1..Cardinality(S) : i < j => s[i] < s[j]
rows_at(rows, places) == [k \in 1..Cardinality(places) |-> rows[InOrder(places)[k]]]

discard_open(rows, id) == rows_at(rows, DOMAIN rows \ Conversation(rows, id))

\* save_inner: a transient notification leaves no open row.
save_inner(db, n) ==
    [remember_id(db, n.id) EXCEPT
        !.rows = IF n.transient THEN discard_open(@, n.id) ELSE save_content(@, n)]

\* close_inner, for the identifiers it is given.
close_rows(rows, ids) ==
    [i \in DOMAIN rows |-> [rows[i] EXCEPT !.open = @ /\ rows[i].id \notin ids]]
close_inner(db, ids) == [db EXCEPT !.rows = close_rows(@, ids)]

delete_where(rows, positions) == rows_at(rows, {i \in DOMAIN rows : Position(rows[i]) \notin positions})
delete_rows(db, positions) == [db EXCEPT !.rows = delete_where(@, positions)]

\* prune_inner: rows older than the history duration, and closed rows outside the
\* newest Scope.
retained_rows(rows, cutoff) ==
    rows_at(rows, {i \in DOMAIN rows : /\ rows[i].born > cutoff
                                       /\ rows[i].open \/ i > Len(rows) - Scope})
prune_inner(db) == [db EXCEPT !.rows = retained_rows(@, db.cutoff)]

apply(db, m) ==
    CASE m.op = "save"  -> save_inner(db, m.note)
      [] m.op = "close" -> close_inner(db, {m.id})
      [] m.op = "clear" -> close_inner(db, {db.rows[i].id : i \in DOMAIN db.rows})
      [] OTHER          -> [db EXCEPT !.dnd = m.dnd]      \* "dnd"

\* Mutant: the key is not recorded with the row.
MutSaveOnce(db, key, n) == prune_inner(IF key \in db.once THEN db ELSE save_inner(db, n))

\* save_once: the key, the row and the retention in one transaction.
save_once(db, key, n) ==
    prune_inner(IF key \in db.once
                  THEN db
                  ELSE save_inner([db EXCEPT !.once = @ \cup {key}], n))

=============================================================================
