------------------------- MODULE LocationAuthority -------------------------
(***************************************************************************)
(* The system location daemon (src/src/bin/bar-location-daemon/location):  *)
(* one worker that checks the current place after a network change and     *)
(* sets the system timezone from it, and applies explicit user choices.    *)
(* Evidence must belong to the present network and waking period, a        *)
(* timezone the user set elsewhere is never overwritten, and a write whose *)
(* outcome is unknown is never repeated without an explicit reload.        *)
(*                                                                         *)
(* Wall time is a count of network changes, sleeps and resumes (`moment'); *)
(* a network is named by the moment it came up, as NetworkManager's        *)
(* activation paths are never reused.  Retry delays and the provider's     *)
(* cooldowns are left to nondeterminism.                                   *)
(***************************************************************************)
EXTENDS Naturals

CONSTANTS
    Zones,          \* canonical timezones
    Ids,            \* request ids of SetLocationPolicy
    MaxMoment,      \* bound on network changes, sleeps and resumes
    MaxEnv          \* bound on reloads, user changes, faults and process deaths

VARIABLES
    zone,           \* timedated's timezone
    net,            \* the usable network, 0 when offline or behind a VPN
    asleep, moment,
    ctl,            \* the Control watch: epoch, reload, sleeping, shutdown, seen
    disk,           \* state.json
    mem,            \* Authority.state
    auth,           \* Authority.baseline, reload and control_epoch
    sched,          \* Schedule: network, since, completed, due
    worker,         \* the worker's step and its locals
    queue,          \* the command channel, capacity one
    sent,           \* per request id, what its client sends, again after a lost reply
    ack,            \* history: the zone last set by the daemon or acknowledged
    uncertain,      \* history: a write whose outcome was never recorded
    late,           \* history: the user changed the zone, or the machine moved, after the last check
    fence,          \* history: the last network change, sleep or resume a fix must follow
    applied,        \* history: per request id, the writes it caused
    env

locationVars == <<zone, net, asleep, moment, ctl, disk, mem, auth, sched, worker, queue,
                  sent, ack, uncertain, late, fence, applied, env>>

NoReq == [id |-> "none", rev |-> 0, place |-> "auto"]
NoOp == [req |-> NoReq, outcome |-> "none"]
NoFix == [zone |-> "none", m |-> 0]
FreshCtl == [epoch |-> 0, reload |-> 0, sleeping |-> FALSE, shutdown |-> FALSE, seen |-> TRUE]
FreshSched == [network |-> 0, since |-> 0, completed |-> 0, due |-> FALSE]
FreshState == [paused |-> FALSE, pending |-> FALSE, manual |-> FALSE, expected |-> "none",
               rev |-> 0, op |-> NoOp]
At(step) == [at |-> step, epoch |-> 0, fix |-> NoFix, current |-> "none", req |-> NoReq, ok |-> TRUE]
Tick == env < MaxEnv /\ env' = env + 1
Fault(b) == (b /\ Tick) \/ (~b /\ UNCHANGED env)

active(epoch) == ctl.epoch = epoch /\ ~ctl.sleeping /\ ~ctl.shutdown
on_network(n) == ~asleep /\ net # 0 /\ net = n
(* Processes outside the worker's run loop. *)
PastCheck == {"recheck", "write", "cwrite"}

LocationInit ==
    /\ zone \in Zones /\ net = 0 /\ asleep = FALSE /\ moment = 0
    /\ ctl = FreshCtl /\ disk = FreshState /\ mem = FreshState
    /\ auth = [baseline |-> "none", reload |-> 0, cepoch |-> 0] /\ sched = FreshSched
    /\ worker = At("down") /\ queue = NoReq /\ sent = [i \in Ids |-> NoReq]
    /\ ack = zone /\ uncertain = FALSE /\ late = FALSE /\ fence = 0
    /\ applied = [i \in Ids |-> 0] /\ env = 0

-----------------------------------------------------------------------------
(* logind, NetworkManager, the user, and the clients. *)

Moved == moment < MaxMoment /\ moment' = moment + 1 /\ late' = (late \/ worker.at = "write")
         /\ fence' = moment + 1

NetworkChange ==
    /\ Moved /\ net' \in {0, moment + 1} /\ net' # net
    /\ UNCHANGED <<zone, asleep, ctl, disk, mem, auth, sched, worker, queue, sent, ack,
                   uncertain, applied, env>>

(* A control event reaches the watch only while the process runs. *)
Signal(c) == IF worker.at = "down" THEN ctl ELSE [c EXCEPT !.seen = FALSE]

SleepSignal ==
    /\ Moved /\ asleep' = ~asleep
    /\ ctl' = Signal([ctl EXCEPT !.sleeping = ~asleep, !.epoch = @ + 1])
    /\ UNCHANGED <<zone, net, disk, mem, auth, sched, worker, queue, sent, ack, uncertain,
                   applied, env>>

Reload ==
    /\ worker.at # "down" /\ Tick
    /\ ctl' = Signal([ctl EXCEPT !.reload = @ + 1, !.epoch = @ + 1])
    /\ UNCHANGED <<fence, zone, net, asleep, moment, disk, mem, auth, sched, worker, queue, sent, ack,
                   uncertain, late, applied>>

Terminate ==
    /\ worker.at # "down" /\ ~ctl.shutdown /\ Tick
    /\ ctl' = Signal([ctl EXCEPT !.shutdown = TRUE])
    /\ UNCHANGED <<fence, zone, net, asleep, moment, disk, mem, auth, sched, worker, queue, sent, ack,
                   uncertain, late, applied>>

UserSetsZone(z) ==
    /\ z # zone /\ Tick /\ zone' = z /\ late' = (late \/ worker.at \in PastCheck)
    /\ UNCHANGED <<fence, net, asleep, moment, ctl, disk, mem, auth, sched, worker, queue, sent, ack,
                   uncertain, applied>>

(* Reader::set_location_policy: the epoch moves with the queued command. *)
set_location_policy(i, place) ==
    /\ worker.at # "down" /\ queue = NoReq
    /\ LET req == IF sent[i] # NoReq THEN sent[i] ELSE [id |-> i, rev |-> disk.rev, place |-> place]
       IN queue' = req /\ sent' = [sent EXCEPT ![i] = req]
    /\ (sent[i] # NoReq => Tick) /\ (sent[i] = NoReq => UNCHANGED env)
    /\ ctl' = Signal([ctl EXCEPT !.epoch = @ + 1])
    /\ UNCHANGED <<fence, zone, net, asleep, moment, disk, mem, auth, sched, worker, ack, uncertain,
                   late, applied>>

-----------------------------------------------------------------------------
(* Process life. *)

Dies == /\ worker' = At("down") /\ queue' = NoReq /\ ctl' = FreshCtl
        /\ mem' = FreshState /\ sched' = FreshSched
        /\ auth' = [baseline |-> "none", reload |-> 0, cepoch |-> 0]

Crash ==
    /\ worker.at # "down" /\ Tick /\ Dies
    /\ UNCHANGED <<fence, zone, net, asleep, moment, disk, sent, ack, uncertain, late, applied>>

(* Authority::new: a zone that is not the expected one pauses. *)
Start ==
    /\ worker.at = "down"
    /\ LET s == IF disk.expected = "none" THEN [disk EXCEPT !.expected = zone]
                ELSE [disk EXCEPT !.paused = (@ \/ disk.expected # zone)]
       IN mem' = s /\ disk' = s
    /\ ack' = IF disk.expected = "none" THEN zone ELSE ack
    /\ auth' = [baseline |-> zone, reload |-> 0, cepoch |-> 0]
    /\ worker' = At("top")
    /\ UNCHANGED <<fence, zone, net, asleep, moment, ctl, sched, queue, sent, uncertain, late, applied, env>>

(* storage.save: its failure ends the process in run, check and finish. *)
Save(s, failed, then) ==
    IF failed THEN Dies /\ UNCHANGED disk
    ELSE disk' = s /\ mem' = s /\ worker' = then /\ UNCHANGED <<queue, ctl>>

Rearmed == [sched EXCEPT !.completed = 0, !.due = (sched.network # 0)]

\* Mutant: a reload only moves the epoch.
MutReconcile ==
    /\ worker.at = "top" /\ UNCHANGED env
    /\ sched' = sched
    /\ auth' = [auth EXCEPT !.cepoch = ctl.epoch]
    /\ ctl' = [ctl EXCEPT !.seen = TRUE] /\ worker' = At("command")
    /\ UNCHANGED <<fence, mem, disk, ack, uncertain, queue, zone, net, asleep, moment, sent, late, applied>>
(* The top of run and reconcile_control. *)
reconcile_control ==
    /\ worker.at = "top"
    /\ \E failed \in BOOLEAN :
        /\ Fault(failed /\ ctl.reload # auth.reload)
        /\ IF ctl.shutdown THEN Dies /\ UNCHANGED <<disk, ack, uncertain, fence>>
           ELSE IF ctl.reload = auth.reload
           THEN /\ sched' = IF ctl.epoch # auth.cepoch /\ sched.network # 0
                            THEN [sched EXCEPT !.since = moment] ELSE sched
                /\ auth' = [auth EXCEPT !.cepoch = ctl.epoch]
                /\ ctl' = [ctl EXCEPT !.seen = TRUE] /\ worker' = At("command")
                /\ UNCHANGED <<mem, disk, ack, uncertain, queue, fence>>
           ELSE IF failed THEN Dies /\ UNCHANGED <<disk, ack, uncertain, fence>>
           ELSE LET s == [mem EXCEPT !.expected = zone, !.paused = FALSE, !.pending = FALSE, !.manual = FALSE]
                IN /\ mem' = s /\ disk' = s /\ sched' = Rearmed
                   /\ auth' = [baseline |-> zone, reload |-> ctl.reload, cepoch |-> ctl.epoch]
                   /\ ctl' = [ctl EXCEPT !.seen = TRUE] /\ worker' = At("command")
                   /\ ack' = zone /\ uncertain' = FALSE /\ fence' = sched.since /\ UNCHANGED queue
    /\ UNCHANGED <<zone, net, asleep, moment, sent, late, applied>>

-----------------------------------------------------------------------------
(* Explicit choices: apply_control. *)

\* Mutant: a request may be based on any revision.
MutAccepts(r) ==
    /\ ~mem.paused /\ ~mem.pending /\ active(ctl.epoch) /\ zone = auth.baseline
(* A repeated id is answered from the recorded operation; anything else
   needs the present revision, no pause, and the zone the daemon expects. *)
Accepts(r) ==
    /\ mem.op.req.id # r.id /\ r.rev = mem.rev
    /\ ~mem.paused /\ ~mem.pending /\ active(ctl.epoch) /\ zone = auth.baseline

apply_control ==
    /\ worker.at = "command" /\ queue # NoReq /\ queue' = NoReq
    /\ \E failed \in BOOLEAN :
        /\ Fault(failed /\ Accepts(queue))
        /\ IF ~Accepts(queue) THEN worker' = At("gate") /\ UNCHANGED <<mem, disk, sched, late>>
           ELSE IF failed
           THEN /\ mem' = [mem EXCEPT !.paused = TRUE, !.pending = TRUE] /\ worker' = At("gate")
                /\ UNCHANGED <<disk, sched, late>>
           ELSE LET auto == queue.place = "auto"
                    s == [mem EXCEPT !.rev = @ + 1, !.manual = (@ /\ ~auto), !.pending = ~auto,
                                     !.op = [req |-> queue, outcome |-> IF auto THEN "applied" ELSE "pending"]]
                IN /\ mem' = s /\ disk' = s
                   /\ IF auto THEN sched' = Rearmed /\ worker' = At("gate") /\ UNCHANGED late
                      ELSE /\ worker' = [At("cwrite") EXCEPT !.epoch = ctl.epoch, !.req = queue, !.current = zone]
                           /\ late' = FALSE /\ UNCHANGED sched
    /\ UNCHANGED <<fence, zone, net, asleep, moment, ctl, auth, sent, ack, uncertain, applied>>

NoCommand ==
    /\ worker.at = "command" /\ queue = NoReq /\ worker' = At("gate")
    /\ UNCHANGED <<fence, zone, net, asleep, moment, ctl, disk, mem, auth, sched, queue, sent, ack,
                   uncertain, late, applied, env>>

Verifying == IF worker.at = "write" THEN "write-verify" ELSE "cwrite-verify"

(* apply_timezone's call: done, lost before or lost after it took effect. *)
SetTimezone(target) ==
    IF worker.current = target
    THEN UNCHANGED <<zone, ack, uncertain, env>> /\ worker' = [worker EXCEPT !.at = Verifying]
    ELSE \E reply, done \in BOOLEAN :
            /\ (reply => done) /\ Fault(~reply) /\ uncertain' = TRUE
            /\ IF done THEN zone' = target /\ ack' = target ELSE UNCHANGED <<zone, ack>>
            /\ worker' = [worker EXCEPT !.at = Verifying, !.ok = reply]

ControlWrite ==
    /\ worker.at = "cwrite"
    /\ IF active(worker.epoch)
       THEN /\ SetTimezone(worker.req.place)
            /\ applied' = [applied EXCEPT ![worker.req.id] = @ + 1]
       ELSE /\ worker' = [worker EXCEPT !.at = Verifying, !.ok = FALSE]
            /\ UNCHANGED <<zone, ack, uncertain, env, applied>>
    /\ UNCHANGED <<fence, net, asleep, moment, ctl, disk, mem, auth, sched, queue, sent, late>>

ControlVerify ==
    /\ worker.at = "cwrite-verify"
    /\ \E failed \in BOOLEAN :
        /\ Fault(failed)
        /\ LET good == worker.ok /\ zone = worker.req.place
               s == IF good
                    THEN [mem EXCEPT !.manual = TRUE, !.expected = zone, !.rev = @ + 1, !.pending = FALSE,
                                     !.op.outcome = "applied"]
                    ELSE [mem EXCEPT !.paused = TRUE, !.op.outcome = "uncertain"]
           IN /\ mem' = IF good /\ failed THEN [mem EXCEPT !.paused = TRUE, !.pending = TRUE] ELSE s
              /\ disk' = IF failed THEN disk ELSE s
              /\ auth' = IF good /\ ~failed THEN [auth EXCEPT !.baseline = zone] ELSE auth
              /\ uncertain' = (uncertain /\ ~(good /\ ~failed))
    /\ worker' = At("gate")
    /\ UNCHANGED <<fence, zone, net, asleep, moment, ctl, sched, queue, sent, ack, late, applied>>

-----------------------------------------------------------------------------
(* Automatic checks: observe, check and acquire. *)

Gate ==
    /\ worker.at = "gate"
    /\ worker' = IF mem.paused \/ mem.pending \/ mem.manual THEN At("top") ELSE At("observe")
    /\ UNCHANGED <<fence, zone, net, asleep, moment, ctl, disk, mem, auth, sched, queue, sent, ack,
                   uncertain, late, applied, env>>

Seen(n) == IF n = sched.network THEN sched
           ELSE [network |-> n, since |-> moment, completed |-> sched.completed,
                 due |-> n # 0 /\ n # sched.completed]

observe ==
    /\ worker.at = "observe"
    /\ \E failed, ready \in BOOLEAN :
        /\ Fault(failed)
        /\ LET n == IF failed \/ asleep \/ ctl.sleeping THEN 0 ELSE net
               go == ~failed /\ ready /\ n # 0 /\ n = sched.network /\ sched.due
           IN sched' = Seen(n) /\ worker' = IF go THEN At("acquire") ELSE At("top")
    /\ UNCHANGED <<fence, zone, net, asleep, moment, ctl, disk, mem, auth, queue, sent, ack, uncertain,
                   late, applied>>

Complete == sched' = [sched EXCEPT !.completed = sched.network, !.due = FALSE]

(* A pending control event cancels the lookup at its first poll. *)
Acquire ==
    /\ worker.at = "acquire"
    /\ worker' = IF ctl.seen THEN [At("geoclue") EXCEPT !.epoch = ctl.epoch] ELSE At("top")
    /\ ctl' = [ctl EXCEPT !.seen = TRUE]
    /\ UNCHANGED <<fence, zone, net, asleep, moment, disk, mem, auth, sched, queue, sent, ack,
                   uncertain, late, applied, env>>

\* Mutant: a fix of any age counts.
MutFresh(m) == TRUE
(* Only a fix measured since the network came up or the machine woke counts. *)
fresh(m) == m >= sched.since

geoclue ==
    /\ worker.at = "geoclue"
    /\ \E z \in Zones, m \in {k \in 0..moment : fresh(k)}, ip \in BOOLEAN :
        LET fix == [zone |-> z, m |-> m]
        IN worker' = IF ip THEN [worker EXCEPT !.at = "decide", !.fix = fix]
                     ELSE IF on_network(sched.network) /\ active(worker.epoch)
                     THEN [worker EXCEPT !.at = "ip", !.fix = fix] ELSE At("top")
    /\ UNCHANGED <<fence, zone, net, asleep, moment, ctl, disk, mem, auth, sched, queue, sent, ack,
                   uncertain, late, applied, env>>

(* Unavailable, interrupted, timed out or off the network: retried later. *)
Abandon ==
    /\ worker.at \in {"geoclue", "ip"} /\ worker' = At("top")
    /\ ctl' = [ctl EXCEPT !.seen = TRUE]
    /\ UNCHANGED <<fence, zone, net, asleep, moment, disk, mem, auth, sched, queue, sent, ack,
                   uncertain, late, applied, env>>

(* Zones::decide: a fix that is not GeoClue's own IP lookup needs the IP's zone
   to be the same; a disagreement stops until the network changes. *)
agrees(z) == z = worker.fix.zone
ip ==
    /\ worker.at = "ip"
    /\ \E z \in Zones :
        IF agrees(z) THEN worker' = [worker EXCEPT !.at = "decide"] /\ UNCHANGED sched
        ELSE Complete /\ worker' = At("top")
    /\ UNCHANGED <<fence, zone, net, asleep, moment, ctl, disk, mem, auth, queue, sent, ack, uncertain,
                   late, applied, env>>

\* Mutant: the intent to write is not saved.
MutIntent == mem
(* The write is durable intent before timedated is asked. *)
Intent == [mem EXCEPT !.pending = TRUE]

decide ==
    /\ worker.at = "decide"
    /\ \E failed \in BOOLEAN :
        /\ Fault(failed)
        /\ IF zone # auth.baseline
           THEN /\ Save([mem EXCEPT !.paused = TRUE], failed, At("top"))
                /\ IF failed THEN TRUE ELSE Complete /\ UNCHANGED auth
                /\ UNCHANGED late
           ELSE /\ Save(Intent, failed, [worker EXCEPT !.at = "recheck", !.current = zone])
                /\ IF failed THEN TRUE ELSE UNCHANGED <<sched, auth>>
                /\ late' = FALSE
    /\ UNCHANGED <<fence, zone, net, asleep, moment, sent, ack, uncertain, applied>>

Recheck ==
    /\ worker.at = "recheck"
    /\ \E unread, failed \in BOOLEAN :
        /\ Fault(unread \/ failed)
        /\ IF ~unread /\ on_network(sched.network) /\ active(worker.epoch)
           THEN /\ worker' = [worker EXCEPT !.at = "write"]
                /\ UNCHANGED <<disk, mem, queue, ctl, sched, auth>>
           ELSE /\ Save([mem EXCEPT !.pending = FALSE], failed, At("top"))
                /\ IF failed THEN TRUE ELSE UNCHANGED <<sched, auth>>
    /\ UNCHANGED <<fence, zone, net, asleep, moment, sent, ack, uncertain, late, applied>>

Write ==
    /\ worker.at = "write" /\ SetTimezone(worker.fix.zone)
    /\ UNCHANGED <<fence, net, asleep, moment, ctl, disk, mem, auth, sched, queue, sent, late, applied>>

Verify ==
    /\ worker.at = "write-verify"
    /\ \E failed \in BOOLEAN :
        /\ Fault(failed)
        /\ LET good == worker.ok /\ zone = worker.fix.zone
           IN /\ Save(IF good THEN [mem EXCEPT !.expected = zone, !.rev = @ + 1, !.pending = FALSE]
                      ELSE [mem EXCEPT !.paused = TRUE], failed, At("top"))
              /\ IF failed THEN TRUE
                 ELSE Complete /\ auth' = IF good THEN [auth EXCEPT !.baseline = zone] ELSE auth
              /\ uncertain' = (uncertain /\ ~(good /\ ~failed))
    /\ UNCHANGED <<fence, zone, net, asleep, moment, sent, ack, late, applied>>

WorkerStep ==
    \/ Start \/ reconcile_control \/ apply_control \/ NoCommand \/ ControlWrite \/ ControlVerify
    \/ Gate \/ observe \/ Acquire \/ geoclue \/ Abandon \/ ip \/ decide \/ Recheck \/ Write \/ Verify

LocationNext ==
    \/ WorkerStep \/ NetworkChange \/ SleepSignal \/ Reload \/ Terminate \/ Crash
    \/ \E z \in Zones : UserSetsZone(z)
    \/ \E i \in Ids, place \in Zones \union {"auto"} : set_location_policy(i, place)

(* Every await of the worker is bounded by a timeout, and systemd restarts it. *)
LocationSpec == LocationInit /\ [][LocationNext]_locationVars /\ WF_locationVars(WorkerStep)

-----------------------------------------------------------------------------
Asked == {NoReq} \union {sent[i] : i \in Ids}
Operations == [req : Asked, outcome : {"none", "pending", "applied", "uncertain"}]
States == [paused : BOOLEAN, pending : BOOLEAN, manual : BOOLEAN, expected : Zones \union {"none"},
           rev : Nat, op : Operations]

(* The durable and cached state have their types. *)
LocationTypeOK ==
    /\ zone \in Zones /\ net \in 0..MaxMoment /\ disk \in States /\ mem \in States
    /\ sched.network \in 0..MaxMoment /\ sched.since \in 0..moment /\ sched.completed \in 0..MaxMoment
    /\ worker.fix.m \in 0..moment /\ ack \in Zones

(* A request id changes the timezone at most once, whatever its client
   repeats; a write in progress is on disk as pending. *)
LocationSafe ==
    /\ \A i \in Ids : applied[i] <= 1
    /\ worker.at \in {"write", "write-verify", "cwrite", "cwrite-verify"} => disk.pending

(* When the daemon changes the zone: the user had not changed it unnoticed,
   no earlier write is unaccounted for, and an automatic change rests on a fix
   of the present network and waking period (races after the last recheck
   excepted, and a reload keeps the fence of the schedule: a sleep that the
   worker first sees together with a reload does not move it). *)
DaemonWrites == worker.at \in {"write", "cwrite"} /\ uncertain' /\ worker' # worker /\ worker'.at # "down"
                    /\ worker.current # (IF worker.at = "write" THEN worker.fix.zone ELSE worker.req.place)
                    /\ (worker.at = "cwrite" => active(worker.epoch))
WritesJustified ==
    DaemonWrites =>
        /\ zone = ack \/ late
        /\ ~uncertain
        /\ worker.at = "write" => worker.fix.m >= fence \/ late
LocationSteps == [][WritesJustified]_locationVars

(* What the proofs ask of the constants: the names for nothing and for the
   automatic choice are no zone and no request id. *)
LocationConstantsOK ==
    /\ "none" \notin Zones /\ "auto" \notin Zones /\ "none" \notin Ids
    /\ MaxMoment \in Nat /\ MaxEnv \in Nat

(* The inductive invariant.  The shapes, and the order of the moments. *)
Checks == {"observe", "acquire", "geoclue", "ip", "decide"}
Asking == {"write", "write-verify", "cwrite", "cwrite-verify"}
Reqs == [id : Ids, rev : Nat, place : Zones \union {"auto"}]
Fixes == [zone : Zones, m : Nat]
Schedules == [network : Nat, since : Nat, completed : Nat, due : BOOLEAN]
Controls == [epoch : Nat, reload : Nat, sleeping : BOOLEAN, shutdown : BOOLEAN, seen : BOOLEAN]
Authorities == [baseline : Zones \union {"none"}, reload : Nat, cepoch : Nat]
Workers == [at : {"down", "top", "command", "gate", "recheck"} \union Checks \union Asking, epoch : Nat,
            fix : Fixes \union {NoFix}, current : Zones \union {"none"}, req : Reqs \union {NoReq}, ok : BOOLEAN]
LocationShapes ==
    /\ LocationTypeOK /\ asleep \in BOOLEAN /\ moment \in 0..MaxMoment /\ fence \in 0..moment /\ net \in 0..moment
    /\ sched.network \in 0..moment /\ sched.network <= sched.since
    /\ sched \in Schedules /\ ctl \in Controls /\ auth \in Authorities /\ worker \in Workers
    /\ queue \in Reqs \union {NoReq} /\ sent \in [Ids -> Reqs \union {NoReq}]
    /\ applied \in [Ids -> Nat] /\ auth.cepoch <= ctl.epoch
    /\ worker.at \in {"ip", "decide", "recheck", "write", "write-verify"} => worker.fix \in Fixes
    /\ worker.at \in {"cwrite", "cwrite-verify"} => worker.req \in Reqs /\ worker.req.place \in Zones

\* Memory and disk tell the same but for a pause or an intent that was not saved.
MemoryInv ==
    worker.at # "down" =>
        /\ mem.expected = disk.expected /\ mem.rev = disk.rev /\ disk.expected # "none"
        /\ disk.paused => mem.paused
        /\ disk.pending => mem.pending

\* A request is what its client sent, and its revision is spent once it is applied.
RequestInv ==
    /\ \A i \in Ids : sent[i] # NoReq => sent[i].id = i /\ sent[i].rev <= disk.rev
    /\ queue # NoReq => queue = sent[queue.id]
    /\ \A i \in Ids : applied[i] = 0 \/ (applied[i] = 1 /\ sent[i] # NoReq /\ sent[i].rev < disk.rev)
    /\ worker.at = "cwrite" => /\ worker.req = sent[worker.req.id] /\ worker.req.rev < disk.rev
                              /\ applied[worker.req.id] = 0

\* What the worker knows of the zone, the intent and the writes under way.
ZoneInv ==
    /\ uncertain => disk.pending
    /\ disk.expected # "none" /\ ~uncertain => disk.expected = ack
    /\ worker.at # "down" /\ ~mem.paused /\ ~mem.pending => auth.baseline = ack
    /\ worker.at \in Checks => ~mem.paused /\ ~mem.pending
    /\ worker.at \in Asking \union {"recheck"} => disk.pending /\ ~mem.paused
    /\ worker.at \in PastCheck => ~uncertain /\ auth.baseline = ack /\ worker.current = ack /\ (zone = ack \/ late)
    /\ worker.at = "write-verify" /\ worker.ok => worker.fix.zone = ack
    /\ worker.at = "cwrite-verify" /\ worker.ok => worker.req.place = ack

\* A fix follows the last change of the network or the machine that the worker knows of.
Reconciled == {"command", "cwrite", "cwrite-verify", "gate", "observe", "acquire"}
FenceInv ==
    /\ worker.at \in Reconciled /\ ctl.seen => auth.cepoch = ctl.epoch
    /\ worker.at \in {"geoclue", "ip", "decide", "recheck"} => worker.epoch = auth.cepoch
    /\ worker.at \in {"ip", "decide", "recheck"} => worker.fix.m >= sched.since
    /\ sched.network # 0 /\ on_network(sched.network) /\ auth.cepoch = ctl.epoch => sched.since >= fence
    /\ worker.at = "write" => worker.fix.m >= fence \/ late
    /\ worker.at = "down" => sched = FreshSched

LocationIInv == LocationShapes /\ MemoryInv /\ RequestInv /\ ZoneInv /\ FenceInv

(* A queued command is taken, and a reload is carried out. *)
Queued == queue # NoReq
Reloading == ctl.reload # auth.reload
LocationAnswers == (Queued ~> ~Queued) /\ (Reloading ~> ~Reloading)
=============================================================================
