---------------------------- MODULE BatteryHelper ----------------------------
(***************************************************************************)
(* The privileged battery helper (src/src/battery/helper.rs): a D-Bus      *)
(* service that authorizes each caller with polkit and then rewrites the   *)
(* two sysfs threshold files of a battery, one file at a time.             *)
(*                                                                         *)
(* Requests are served by independent tasks.  A request is authorized by   *)
(* asynchronous steps (polkit answers, its budget runs out, the caller     *)
(* leaves the bus) and then performs the synchronous writer, whose file    *)
(* writes are separate steps here because another task, the kernel and     *)
(* every reader of sysfs see them one at a time.                           *)
(*                                                                         *)
(* The kernel is external: a write either stores the value or fails, and   *)
(* reading the two files back may fail as well.                            *)
(***************************************************************************)
EXTENDS Integers

CONSTANTS
    Callers,      \* bus connections that send SetThresholds
    Percents,     \* the percentages that occur, a subset of 0..100
    MaxFailures   \* bound: sysfs reads and writes that fail

ASSUME PercentsAssumption == Percents \subseteq 0..100 /\ MaxFailures \in Nat

VARIABLES
    start, end,   \* charge_control_start_threshold, charge_control_end_threshold
    pc,           \* where each caller's request is
    want,         \* the range it asked for
    seen,         \* current_start, current_end as the writer read them
    present,      \* callers that still own their bus name
    reply,        \* the last reply of each caller's requests
    stored,       \* history: how many writes of the request the kernel stored
    failures

registers == <<start, end>>
helperVars == <<start, end, pc, want, seen, present, reply, stored, failures>>

Steps == {"idle", "polkit", "owner", "read", "first", "second", "rollback", "readback"}
Replies == {"none", "denied", "failed", "verified", "differs"}

\* 0 <= start < end <= 100
valid_thresholds(s, e) == s < e /\ e <= 100

Ranges == {p \in Percents \X Percents : p[1] < p[2]}

HelperTypeOK ==
    /\ start \in Percents /\ end \in Percents
    /\ pc \in [Callers -> Steps]
    /\ want \in [Callers -> Percents \X Percents]
    /\ seen \in [Callers -> Percents \X Percents]
    /\ present \subseteq Callers
    /\ reply \in [Callers -> Replies]
    /\ stored \in [Callers -> 0..2]
    /\ failures \in Nat

HelperInit ==
    /\ \E r \in Ranges : start = r[1] /\ end = r[2]
    /\ pc = [c \in Callers |-> "idle"]
    /\ want = [c \in Callers |-> <<start, end>>]
    /\ seen = [c \in Callers |-> <<start, end>>]
    /\ present = Callers
    /\ reply = [c \in Callers |-> "none"]
    /\ stored = [c \in Callers |-> 0]
    /\ failures = 0

-----------------------------------------------------------------------------
(* Authorization *)

\* A SetThresholds call arrives and CheckAuthorization is sent to polkit.
Request(c, s, e) ==
    /\ pc[c] = "idle" /\ c \in present
    /\ pc' = [pc EXCEPT ![c] = "polkit"]
    /\ want' = [want EXCEPT ![c] = <<s, e>>]
    /\ reply' = [reply EXCEPT ![c] = "none"]
    /\ stored' = [stored EXCEPT ![c] = 0]
    /\ UNCHANGED <<registers, seen, present, failures>>

\* The request ends with an error or a result.
Answer(c, r) ==
    /\ pc' = [pc EXCEPT ![c] = "idle"]
    /\ reply' = [reply EXCEPT ![c] = r]

\* polkit authorizes; has_owner is asked before anything is written.
Authorized(c) ==
    /\ pc[c] = "polkit"
    /\ pc' = [pc EXCEPT ![c] = "owner"]
    /\ UNCHANGED <<registers, want, seen, present, reply, stored, failures>>

\* polkit refuses, the budget of the check expires, or the owner-loss monitor
\* fires first.  (A refusal is only reported after has_owner; nothing is
\* written in between, so both checks are one step.)
Denied(c) ==
    /\ pc[c] = "polkit"
    /\ Answer(c, "denied")
    /\ UNCHANGED <<registers, want, seen, present, stored, failures>>

\* Mutant of OwnerChecked: a caller that left is never answered.
MutOwnerChecked(c) ==
    /\ pc[c] = "owner"
    /\ c \in present /\ pc' = [pc EXCEPT ![c] = "read"] /\ UNCHANGED reply
    /\ UNCHANGED <<registers, want, seen, present, stored, failures>>

\* has_owner answers; the writer starts only for a caller still on the bus.
OwnerChecked(c) ==
    /\ pc[c] = "owner"
    /\ \/ c \in present /\ pc' = [pc EXCEPT ![c] = "read"] /\ UNCHANGED reply
       \/ c \notin present /\ Answer(c, "denied")
    /\ UNCHANGED <<registers, want, seen, present, stored, failures>>

\* The caller closes its connection (cancellation, timeout, exit) at any time.
OwnerLost(c) ==
    /\ c \in present
    /\ present' = present \ {c}
    /\ UNCHANGED <<registers, pc, want, seen, reply, stored, failures>>

-----------------------------------------------------------------------------
(* ThresholdWriter::set_thresholds *)

\* Mutant of EndFirst: misses the range that starts where the old one ends.
MutEndFirst(c) == want[c][1] > seen[c][2]

\* The end file is written first when the new start would pass the current end.
EndFirst(c) == want[c][1] >= seen[c][2]

\* A write or a read of the files fails and leaves them as they are.
AccessFails ==
    /\ failures < MaxFailures
    /\ failures' = failures + 1
    /\ UNCHANGED registers

\* Validate, read both files, and return at once when nothing has to change.
ReadCurrent(c) ==
    /\ pc[c] = "read"
    /\ \/ /\ IF ~valid_thresholds(want[c][1], want[c][2])
              THEN Answer(c, "failed") /\ UNCHANGED seen
              ELSE IF <<start, end>> = want[c]
                     THEN Answer(c, "verified") /\ UNCHANGED seen
                     ELSE /\ seen' = [seen EXCEPT ![c] = <<start, end>>]
                          /\ pc' = [pc EXCEPT ![c] = "first"]
                          /\ UNCHANGED reply
          /\ UNCHANGED <<registers, failures>>
       \/ AccessFails /\ Answer(c, "failed") /\ UNCHANGED seen
    /\ UNCHANGED <<want, present, stored>>

\* Mutant of StoreEnd: one percent short.
MutStoreEnd(v) == end' = v - 1 /\ UNCHANGED start

\* write_percent: the kernel stores v in the chosen file, or the write fails.
StoreEnd(v) == end' = v /\ UNCHANGED start
StoreStart(v) == start' = v /\ UNCHANGED end

FirstWrite(c) ==
    /\ pc[c] = "first"
    /\ \/ /\ IF EndFirst(c) THEN StoreEnd(want[c][2]) ELSE StoreStart(want[c][1])
          /\ stored' = [stored EXCEPT ![c] = 1]
          /\ pc' = [pc EXCEPT ![c] = "second"]
          /\ UNCHANGED <<reply, failures>>
       \/ AccessFails /\ Answer(c, "failed") /\ UNCHANGED stored
    /\ UNCHANGED <<want, seen, present>>

SecondWrite(c) ==
    /\ pc[c] = "second"
    /\ \/ /\ IF EndFirst(c) THEN StoreStart(want[c][1]) ELSE StoreEnd(want[c][2])
          /\ stored' = [stored EXCEPT ![c] = 2]
          /\ pc' = [pc EXCEPT ![c] = "readback"]
          /\ UNCHANGED failures
       \/ AccessFails /\ pc' = [pc EXCEPT ![c] = "rollback"] /\ UNCHANGED stored
    /\ UNCHANGED <<want, seen, present, reply>>

\* Mutant of Rollback: the failure is reported as a refused authorization.
MutRollbackDenied(c) ==
    /\ pc[c] = "rollback"
    /\ UNCHANGED <<registers, failures>>
    /\ Answer(c, "denied")
    /\ UNCHANGED <<want, seen, present, stored>>

\* Mutant of Rollback: the second write is tried again instead.
MutRollbackFile(c) ==
    /\ pc[c] = "rollback"
    /\ IF EndFirst(c) THEN StoreStart(want[c][1]) ELSE StoreEnd(want[c][2])
    /\ UNCHANGED failures
    /\ Answer(c, "failed")
    /\ UNCHANGED <<want, seen, present, stored>>

\* The first file gets its old value back, or keeps the new one if that fails too.
Rollback(c) ==
    /\ pc[c] = "rollback"
    /\ \/ /\ IF EndFirst(c) THEN StoreEnd(seen[c][2]) ELSE StoreStart(seen[c][1])
          /\ UNCHANGED failures
       \/ AccessFails
    /\ Answer(c, "failed")
    /\ UNCHANGED <<want, seen, present, stored>>

\* Both writes are stored; the files are read once more, and a failing read
\* turns the request into an error although the new range is in place.
Readback(c) ==
    /\ pc[c] = "readback"
    /\ \/ /\ Answer(c, IF <<start, end>> = want[c] THEN "verified" ELSE "differs")
          /\ UNCHANGED <<registers, failures>>
       \/ AccessFails /\ Answer(c, "failed")
    /\ UNCHANGED <<want, seen, present, stored>>

-----------------------------------------------------------------------------

Serve(c) ==
    \/ Authorized(c) \/ Denied(c) \/ OwnerChecked(c)
    \/ ReadCurrent(c) \/ FirstWrite(c) \/ SecondWrite(c) \/ Rollback(c) \/ Readback(c)

HelperNext ==
    \E c \in Callers :
        \/ \E s \in Percents, e \in Percents : Request(c, s, e)
        \/ OwnerLost(c)
        \/ Serve(c)

\* Every request is driven to its reply: polkit is bounded by a timeout, and
\* the writer never waits.
HelperSpec == HelperInit /\ [][HelperNext]_helperVars /\ \A c \in Callers : WF_helperVars(Serve(c))

-----------------------------------------------------------------------------
(* Properties *)

\* Whatever instant the firmware, the kernel or a reader looks, the two files
\* hold a range with start below end: the writer picks the order of its two
\* writes for that, and its rollback keeps it (helper.rs, set_thresholds).
IntermediateValid == start < end

\* A caller told AccessDenied can rely on it: that request wrote no file.  The
\* daemon does so, since it records no uncertainty fence for this error
\* (helper.rs, dispatch_write).
DeniedWroteNothing == \A c \in Callers : reply[c] = "denied" => stored[c] = 0

\* Without a competing request, one that failed after a write was stored leaves
\* one of three ranges, and how far it came says which: one write stored leaves
\* the range it found, or that range with the first write if undoing it failed
\* too; both stored, with only the readback failing, leaves the range it asked
\* for.  The failed reply itself does not tell them apart, which is why the
\* daemon takes it for an unknown outcome (helper.rs, set_thresholds and
\* dispatch_write).
FailedRangeExplained ==
    \A c \in Callers :
        reply[c] = "failed" /\ pc[c] = "idle" /\ stored[c] > 0 =>
            \/ /\ stored[c] = 1
               /\ \/ <<start, end>> = seen[c]
                  \/ EndFirst(c) /\ <<start, end>> = <<seen[c][1], want[c][2]>>
                  \/ ~EndFirst(c) /\ <<start, end>> = <<want[c][1], seen[c][2]>>
            \/ stored[c] = 2 /\ <<start, end>> = want[c]

\* Every request is answered, the caller's disappearance included: the check is
\* bounded by its budget and the owner-loss monitor (helper.rs, authorize).
EveryRequestAnswered == \A c \in Callers : pc[c] # "idle" ~> pc[c] = "idle"
=============================================================================
