----------------------------- MODULE StateStream -----------------------------
(***************************************************************************)
(* What a subscription to one stream of the state store promises           *)
(* (README.md, "Atomic state publications"; docs/event-domains.md).        *)
(*                                                                         *)
(* Publications are numbered.  A subscriber first gets the state that was  *)
(* current when it subscribed, then later ones, in order.  A stream of     *)
(* complete, replaceable states may leave some out; an ordered one may not *)
(* without saying how many, and never leaves out the newest.               *)
(***************************************************************************)
EXTENDS Integers

CONSTANT Lossy    \* states are replaceable

VARIABLES
    now,          \* the newest publication
    from,         \* the one that was current at the subscription, or 0
    at            \* the newest one the subscriber has, or was told it missed, or 0

vars == <<now, from, at>>

Init == now = 1 /\ from = 0 /\ at = 0

Publish == now' = now + 1 /\ UNCHANGED <<from, at>>

Subscribe == from = 0 /\ from' = now /\ UNCHANGED <<now, at>>

Initial == from # 0 /\ at = 0 /\ at' = from /\ UNCHANGED <<now, from>>

Deliver ==
    /\ at # 0 /\ at < now
    /\ at' \in (at + 1)..(IF Lossy THEN now ELSE at + 1)
    /\ UNCHANGED <<now, from>>

Gap ==
    /\ at # 0 /\ ~Lossy
    /\ at' \in (at + 1)..(now - 1)
    /\ UNCHANGED <<now, from>>

Leave == from # 0 /\ from' = 0 /\ at' = 0 /\ UNCHANGED now

Next == Publish \/ Subscribe \/ Initial \/ Deliver \/ Gap \/ Leave

Spec == Init /\ [][Next]_vars
=============================================================================
