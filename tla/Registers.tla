------------------------------ MODULE Registers -----------------------------
(* The registers that the desktop services share (see Desktop).              *)
EXTENDS Integers

VARIABLES focus, r1, r2, r3, r4, r5, r6, r7, r8, r9, r10, r11, r12, r13, r14, r15, r16, r17, r18

registers == <<r1, r2, r3, r4, r5, r6, r7, r8, r9, r10, r11, r12, r13, r14, r15, r16, r17, r18>>
vars == <<focus, registers>>
=============================================================================
