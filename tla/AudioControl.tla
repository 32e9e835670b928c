---------------------------- MODULE AudioControl ----------------------------
(***************************************************************************)
(* Audio control (src/src/audio.rs, audio/controller.rs, api/audio.rs).    *)
(* Requests queue for one thread that owns a PipeWire connection, merges   *)
(* runs of adjustments, probes the defaults, writes, reads back and        *)
(* publishes.  A second thread watches PipeWire and wakes a monitor that   *)
(* probes and publishes too, so the two publications race.  Other clients  *)
(* change volumes, the default sink and the devices at any time.           *)
(***************************************************************************)
EXTENDS Integers, Sequences

CONSTANTS
    Sinks,          \* the output nodes
    Routed,         \* those whose volume belongs to a device route
    Top,            \* full volume
    Deltas,         \* the adjustments requested
    QueueCap,       \* the controller channel's capacity (64)
    MaxRequests,
    MaxEnv          \* bound on other clients' changes, disconnects and errors

VARIABLES
    pw,             \* PipeWire: present sinks, the default, volumes, mutes, the microphone
    requests,       \* the requests not yet received by the controller thread, oldest first
    pending,        \* those it has received
    ctl,            \* the controller thread: its step, the batch and the probed sink
    online,         \* it has a connection
    wake,           \* a wake-up is queued for the monitor
    watching,       \* the PipeWire watcher thread runs
    mon,            \* the monitor: its step and the probed snapshot
    shownAudio,     \* the store's audio domain
    written,        \* history: how often each request's effect was written
    replies,        \* history: the answers
    envx

audioVars ==
    <<pw, requests, pending, ctl, online, wake, watching, mon, shownAudio, written, replies, envx>>

Commands == {[kind |-> "adjust", delta |-> d] : d \in Deltas}
            \union {[kind |-> "mute", delta |-> 0], [kind |-> "unmute", delta |-> 0],
                    [kind |-> "input", delta |-> 0]}
None == "none"
Error == [sink |-> None, volume |-> 0, muted |-> FALSE, mic |-> None]
Rest == [at |-> "idle", batch |-> <<>>, cmd |-> [kind |-> "mute", delta |-> 0], probe |-> Error]
Tick == envx < MaxEnv /\ envx' = envx + 1
Fault(b) == (b /\ Tick) \/ (~b /\ UNCHANGED envx)
Issued == Len(requests) + Len(pending) + Len(ctl.batch) + Len(replies)

(* Mutant: no upper end of the scale. *)
MutClamp(v) == IF v < 0 THEN 0 ELSE v
Clamp(v) == IF v < 0 THEN 0 ELSE IF v > Top THEN Top ELSE v
adjusted_volume(v, delta) == Clamp(v + delta)
signum(d) == IF d < 0 THEN -1 ELSE IF d > 0 THEN 1 ELSE 0

(* probe_default and audio_state: the default sink, else any present one. *)
Targets == IF pw.default \in pw.present THEN {pw.default} ELSE pw.present
Probes == {[sink |-> s, volume |-> pw.volume[s], muted |-> pw.muted[s], mic |-> pw.mic] : s \in Targets}
Snapshots == IF Probes = {} THEN {Error} ELSE Probes

AudioInit ==
    /\ pw = [present |-> Sinks, default |-> CHOOSE s \in Sinks : TRUE,
             volume |-> [s \in Sinks |-> Top], muted |-> [s \in Sinks |-> FALSE], mic |-> "live"]
    /\ requests = <<>> /\ pending = <<>> /\ ctl = Rest /\ online = TRUE
    /\ wake = FALSE /\ watching = TRUE /\ mon = [at |-> "probe", probe |-> Error]
    /\ shownAudio = Error /\ written = <<>> /\ replies = <<>> /\ envx = 0

-----------------------------------------------------------------------------
(* Every change of a relevant object calls the watcher's callback; a full
   wake-up channel already holds one. *)
Changed(new) == pw' = new /\ wake' = (wake \/ watching)

OtherClient(s) ==
    /\ Tick
    /\ \/ \E v \in {0, Top} : pw.volume[s] # v /\ Changed([pw EXCEPT !.volume[s] = v])
       \/ Changed([pw EXCEPT !.muted[s] = ~@])
       \/ pw.default # s /\ Changed([pw EXCEPT !.default = s])
       \/ Changed([pw EXCEPT !.present = IF s \in @ THEN @ \ {s} ELSE @ \union {s}])
    /\ UNCHANGED <<requests, pending, ctl, online, watching, mon, shownAudio, written, replies>>

WatcherEnds ==
    /\ watching /\ Tick /\ watching' = FALSE
    /\ UNCHANGED <<pw, requests, pending, ctl, online, wake, mon, shownAudio, written, replies>>

-----------------------------------------------------------------------------
(* The controller thread. *)

execute(cmd) ==
    /\ Len(requests) < QueueCap /\ Issued < MaxRequests
    /\ requests' = Append(requests, [id |-> Issued + 1, cmd |-> cmd])
    /\ written' = Append(written, 0)
    /\ UNCHANGED <<pw, pending, ctl, online, wake, watching, mon, shownAudio, replies, envx>>

Receive ==
    /\ ctl.at = "idle" /\ pending = <<>> /\ requests # <<>>
    /\ pending' = requests /\ requests' = <<>>
    /\ UNCHANGED <<pw, ctl, online, wake, watching, mon, shownAudio, written, replies, envx>>

\* Mutant: adjustments in both directions are merged.
MutMergeable(first, cmd) == cmd.kind = "adjust"
(* The longest run of adjustments in the first one's direction. *)
Mergeable(first, cmd) == cmd.kind = "adjust" /\ signum(cmd.delta) = signum(first.delta)

Run(first) ==
    IF first.kind # "adjust" THEN 1
    ELSE CHOOSE n \in 1..Len(pending) :
            /\ \A i \in 1..n : Mergeable(first, pending[i].cmd)
            /\ n < Len(pending) => ~Mergeable(first, pending[n + 1].cmd)
Total(s) == LET sum[n \in 0..Len(s)] == IF n = 0 THEN 0 ELSE sum[n - 1] + s[n].cmd.delta
            IN  sum[Len(s)]

batch ==
    /\ ctl.at = "idle" /\ pending # <<>>
    /\ LET first == Head(pending).cmd
           n == Run(first)
           merged == SubSeq(pending, 1, n)
       IN /\ ctl' = [Rest EXCEPT !.at = "probe", !.batch = merged,
                                 !.cmd = [first EXCEPT !.delta = Total(merged)]]
          /\ pending' = SubSeq(pending, n + 1, Len(pending))
    /\ UNCHANGED <<pw, requests, online, wake, watching, mon, shownAudio, written, replies, envx>>

\* Mutant: a write whose acknowledgement was lost is made again.
MutAfter(applied) == IF applied THEN "probe" ELSE "failed"
(* execute_audio: a failure drops the connection and is never retried. *)
After(applied) == "failed"
Fail(applied) == ctl' = [ctl EXCEPT !.at = After(applied)] /\ online' = FALSE

probe_default ==
    /\ ctl.at = "probe"
    /\ \E failed \in BOOLEAN :
        /\ Fault(failed)
        /\ IF failed \/ Probes = {} THEN Fail(FALSE)
           ELSE \E p \in Probes :
                    IF ctl.cmd.kind = "input" /\ p.mic = None THEN Fail(FALSE)
                    ELSE online' = TRUE /\ ctl' = [ctl EXCEPT !.at = "write", !.probe = p]
    /\ UNCHANGED <<pw, requests, pending, wake, watching, mon, shownAudio, written, replies>>

(* What set_node writes, or set_route with the route's probed values for what
   was not asked. *)
Volume(p) == IF ctl.cmd.kind = "adjust" THEN adjusted_volume(p.volume, ctl.cmd.delta)
             ELSE IF p.sink \in Routed THEN p.volume ELSE pw.volume[p.sink]
Muted(p) == CASE ctl.cmd.kind = "mute" -> ~p.muted [] OTHER -> FALSE
Flip(mic) == IF mic = "live" THEN "muted" ELSE "live"
Write(p) ==
    IF ctl.cmd.kind = "input" THEN [pw EXCEPT !.mic = Flip(p.mic)]
    ELSE [pw EXCEPT !.volume[p.sink] = Volume(p), !.muted[p.sink] = Muted(p)]
Count(w) == [i \in DOMAIN w |-> IF \E j \in DOMAIN ctl.batch : ctl.batch[j].id = i THEN w[i] + 1 ELSE w[i]]

(* set_parameter: the object may be gone; a lost acknowledgement leaves it
   unknown whether the write was made. *)
set_parameter ==
    /\ ctl.at = "write"
    /\ \/ /\ ctl.cmd.kind # "input" /\ ctl.probe.sink \notin pw.present
          /\ Fail(FALSE) /\ UNCHANGED <<pw, wake, written, envx>>
       \/ /\ ctl.cmd.kind = "input" \/ ctl.probe.sink \in pw.present
          /\ \E acknowledged, applied \in BOOLEAN :
                /\ (acknowledged => applied) /\ Fault(~acknowledged)
                /\ IF applied THEN Changed(Write(ctl.probe)) /\ written' = Count(written)
                   ELSE UNCHANGED <<pw, wake, written>>
                /\ IF acknowledged THEN ctl' = [ctl EXCEPT !.at = "readback"] /\ UNCHANGED online
                   ELSE Fail(applied)
    /\ UNCHANGED <<requests, pending, watching, mon, shownAudio, replies>>

snapshot ==
    /\ ctl.at = "readback"
    /\ \E failed \in BOOLEAN :
        /\ Fault(failed)
        /\ IF failed \/ Probes = {} THEN Fail(TRUE)
           ELSE \E p \in Probes :
                    ctl' = [ctl EXCEPT !.at = "publish", !.probe = p] /\ UNCHANGED online
    /\ UNCHANGED <<pw, requests, pending, wake, watching, mon, shownAudio, written, replies>>

publish_audio_result ==
    /\ ctl.at \in {"publish", "failed"}
    /\ shownAudio' = IF ctl.at = "publish" THEN ctl.probe ELSE shownAudio
    /\ replies' = replies \o [i \in DOMAIN ctl.batch |-> [id |-> ctl.batch[i].id, ok |-> ctl.at = "publish"]]
    /\ ctl' = Rest
    /\ UNCHANGED <<pw, requests, pending, online, wake, watching, mon, written, envx>>

ControlStep == Receive \/ batch \/ probe_default \/ set_parameter \/ snapshot \/ publish_audio_result

-----------------------------------------------------------------------------
\* Mutant: only a wake-up leads to a probe.
MutAwake == wake
(* The monitor: a wake-up, drained before the probe; polling once the watcher
   has ended; a poll every 30 s in any case. *)
Awake == TRUE

monitor ==
    /\ mon.at = "wait" /\ Awake
    /\ mon' = [mon EXCEPT !.at = "probe"] /\ wake' = FALSE
    /\ UNCHANGED <<pw, requests, pending, ctl, online, watching, shownAudio, written, replies, envx>>

probe ==
    /\ mon.at = "probe"
    /\ \E failed \in BOOLEAN :
        /\ Fault(failed)
        /\ \E p \in Snapshots : mon' = [at |-> "publish", probe |-> IF failed THEN Error ELSE p]
    /\ UNCHANGED <<pw, requests, pending, ctl, online, wake, watching, shownAudio, written, replies>>

refresh ==
    /\ mon.at = "publish" /\ shownAudio' = mon.probe /\ mon' = [at |-> "wait", probe |-> Error]
    /\ UNCHANGED <<pw, requests, pending, ctl, online, wake, watching, written, replies, envx>>

MonitorStep == monitor \/ probe \/ refresh

AudioNext ==
    \/ \E s \in Sinks : OtherClient(s)
    \/ \E cmd \in Commands : execute(cmd)
    \/ WatcherEnds \/ ControlStep \/ MonitorStep

(* Both threads keep running; their calls return or time out. *)
AudioSpec ==
    AudioInit /\ [][AudioNext]_audioVars /\ WF_audioVars(ControlStep) /\ WF_audioVars(MonitorStep)

-----------------------------------------------------------------------------
Ids(s) == [i \in DOMAIN s |-> s[i].id]

(* The threads, the queues and the counts have their types. *)
AudioTypeOK ==
    /\ Len(requests) <= QueueCap /\ Issued <= MaxRequests /\ Len(written) = Issued
    /\ \A s \in Sinks : pw.volume[s] \in 0..Top
    /\ ctl.at \in {"idle", "probe", "write", "readback", "publish", "failed"}
    /\ mon.at \in {"wait", "probe", "publish"} /\ {wake, watching, online} \subseteq BOOLEAN

\* The volume after the requests of s, one after the other, from v.
OneByOne(v, s) == LET after[n \in 0..Len(s)] == IF n = 0 THEN v ELSE adjusted_volume(after[n - 1], s[n].cmd.delta)
                  IN  after[Len(s)]

(* A merged batch leaves the volume the single requests would have left one
   after the other, each with its own clamp at 0 and at full volume. *)
BatchIsSequential ==
    (ctl.at = "write" /\ ctl.cmd.kind = "adjust") =>
        Volume(ctl.probe) = OneByOne(ctl.probe.volume, ctl.batch)

(* No request is applied twice or lost: requests are answered in order, each
   once; success means one write, failure at most one, and a request that has
   not reached its write has none. *)
AppliedOnce ==
    /\ Ids(replies) \o Ids(ctl.batch) \o Ids(pending) \o Ids(requests) = [i \in 1..Issued |-> i]
    /\ \A i \in DOMAIN replies : written[i] <= 1 /\ (replies[i].ok => written[i] = 1)
    /\ \A i \in (Len(replies) + 1)..Issued :
            written[i] # 0 => /\ written[i] = 1 /\ i \in {ctl.batch[j].id : j \in DOMAIN ctl.batch}
                              /\ ctl.at \in {"readback", "publish", "failed"}

AudioSafe == BatchIsSequential /\ AppliedOnce

-----------------------------------------------------------------------------
(* The inductive invariant. *)

AudioConstantsOK == /\ Sinks # {} /\ None \notin Sinks /\ Top \in Nat /\ Deltas \subseteq Int
                    /\ QueueCap \in Nat /\ MaxRequests \in Nat

Kinds == {"adjust", "mute", "unmute", "input"}
Entry == [id: Nat, cmd: [kind: Kinds, delta: Int]]
Probe == [sink: Sinks \union {None}, volume: 0..Top, muted: BOOLEAN, mic: {"live", "muted", None}]

ServerInv == pw \in [present: SUBSET Sinks, default: Sinks, volume: [Sinks -> 0..Top],
                    muted: [Sinks -> BOOLEAN], mic: {"live", "muted"}]

\* A batch under way has a request, and merges only adjustments in one direction.
ControlInv ==
    /\ ctl \in [at: {"idle", "probe", "write", "readback", "publish", "failed"}, batch: Seq(Entry),
                cmd: [kind: Kinds, delta: Int], probe: Probe]
    /\ ctl.at = "idle" => ctl.batch = <<>>
    /\ ctl.at = "write" => ctl.probe.sink \in Sinks
    /\ ctl.at # "idle" /\ ctl.cmd.kind = "adjust" =>
            /\ ctl.cmd.delta = Total(ctl.batch)
            /\ \A i, j \in DOMAIN ctl.batch : signum(ctl.batch[i].cmd.delta) = signum(ctl.batch[j].cmd.delta)

\* The requests are numbered in the order in which they are answered, carried
\* out, received and queued.
Numbered(s, from) == \A i \in DOMAIN s : s[i].id = from + i
QueueInv ==
    /\ requests \in Seq(Entry) /\ pending \in Seq(Entry) /\ replies \in Seq([id: Nat, ok: BOOLEAN])
    /\ Len(requests) <= QueueCap /\ Issued <= MaxRequests
    /\ Numbered(replies, 0) /\ Numbered(ctl.batch, Len(replies))
    /\ Numbered(pending, Len(replies) + Len(ctl.batch))
    /\ Numbered(requests, Len(replies) + Len(ctl.batch) + Len(pending))

\* What was written for the requests answered, for those of the batch and for
\* those still waiting.
WrittenInv ==
    /\ written \in Seq(Nat) /\ Len(written) = Issued
    /\ \A i \in 1..Issued :
        CASE i <= Len(replies) -> written[i] <= 1 /\ (replies[i].ok => written[i] = 1)
          [] i > Len(replies) + Len(ctl.batch) -> written[i] = 0
          [] OTHER -> CASE ctl.at \in {"probe", "write"} -> written[i] = 0
                        [] ctl.at \in {"readback", "publish"} -> written[i] = 1
                        [] OTHER -> written[i] <= 1

ThreadInv ==
    /\ mon \in [at: {"wait", "probe", "publish"}, probe: Probe]
    /\ wake \in BOOLEAN /\ watching \in BOOLEAN /\ online \in BOOLEAN

IInv == ServerInv /\ ControlInv /\ QueueInv /\ WrittenInv /\ ThreadInv

(* However the controller's and the monitor's publications interleave, the
   store ends up showing PipeWire's state, and every request is answered. *)
AudioTrue == shownAudio \in Snapshots /\ Issued = Len(replies)
AudioConverges == <>[]AudioTrue
=============================================================================
