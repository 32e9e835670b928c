--------------------------- MODULE MCBatteryHelper ---------------------------
(* Instances of BatteryHelper for TLC.  Five percentages are enough for every *)
(* order of two ranges: disjoint either way, touching, nested, overlapping.   *)
EXTENDS BatteryHelper

MCPercents == {0, 40, 60, 80, 100}
=============================================================================
