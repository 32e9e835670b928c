--------------------------- MODULE MCNotifications ---------------------------
(* Instances of Notifications for TLC.                                        *)
EXTENDS Notifications

\* A deletion or a group selects everything.
MCSelections == {Ids}
=============================================================================
