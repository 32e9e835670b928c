--------------------------- MODULE MCBatteryControl ---------------------------
(* Instances of BatteryControl for TLC.                                       *)
EXTENDS BatteryControl

CONSTANTS full, care, odd, b1

MCRanges == {full, care, odd}
\* The firmware rounds the protected range now and then; 0-100 it takes exactly.
MCReadback == [r \in MCRanges |-> IF r = care THEN {care, odd} ELSE {r}]
\* Firmware that always reports what was asked.
MCExact == [r \in MCRanges |-> {r}]
=============================================================================
