--------------------------- MODULE DisplayPolicy ---------------------------
(***************************************************************************)
(* Laptop display policy and layout previews (src/src/display_policy.rs,   *)
(* display_policy/layout.rs, planner.rs and transition.rs).  A laptop      *)
(* panel and one external connector.  The monitor pass and the clients'    *)
(* requests hold POLICY_WRITE from start to end; hotplug, sleep, failed    *)
(* compositor calls, the 8 s request timeout and a daemon restart fall     *)
(* between any two of their awaits.                                        *)
(*                                                                         *)
(* A setting abstracts geometry to the place of an independent output, so  *)
(* two outputs overlap exactly when they have the same place.              *)
(***************************************************************************)
EXTENDS Integers, Sequences

CONSTANTS
    MaxAsks,        \* bound on client requests
    MaxEnv          \* bound on hotplugs, sleeps, faults and restarts

DisplayConstantsOK == MaxAsks \in Nat /\ MaxEnv \in Nat

VARIABLES
    outs,           \* the compositor: one setting per output
    xid,            \* the compositor's id of the external output
    sleep,          \* power_sleep in the store: preparing and resume generation
    prefer,         \* displays.json: prefer_external
    doc,            \* display-layout.json: manual_enablement, saved, trial
    rt,             \* layout RUNTIME
    planner,        \* docking planner, and the resume the monitor last saw
    docking,        \* published docking state, and the transition's timer
    job,            \* what holds POLICY_WRITE, and its step
    expired,        \* the pending trial's time is over
    disturbed,      \* history: sleep, restart, expiry or a lost output since the preview
    tampered,       \* history: a preview changed an output and is not settled
    asks, env

displayVars == <<outs, xid, sleep, prefer, doc, rt, planner, docking, job, expired,
                 disturbed, tampered, asks, env>>

Names == {"laptop", "external"}
Places == {"left", "right"}
Settings == Places \union {"mirror", "off"}
Other(n) == IF n = "laptop" THEN "external" ELSE "laptop"
Own(n) == IF n = "laptop" THEN "left" ELSE "right"
NoLayout == <<>>
NoTrial == [id |-> 0, proposed |-> NoLayout, previous |-> NoLayout]

(* Output::usable, mirror_source, the topology key and the planner's signature. *)
usable(o) == o \in Places
Lit == \E n \in Names : usable(outs[n])
Present == {n \in Names : outs[n] # "gone"}
HasMirror(n) == outs[Other(n)] = "mirror"
topology == IF "external" \in Present THEN xid ELSE 0
signature == IF usable(outs["external"]) THEN xid ELSE 0

FreshRt == [trial |-> 0, topology |-> -1, due |-> FALSE, applied |-> FALSE,
            error |-> FALSE, resume |-> 0]
NewPlanner(resume) == [candidate |-> 0, ripe |-> FALSE, resume |-> resume]
reset == NewPlanner(planner.resume)
Settled == [state |-> "settled", started |-> "no"]
NoJob == [who |-> "none", at |-> "none", layout |-> NoLayout, todo |-> <<>>, gen |-> 0,
          ok |-> TRUE, paused |-> FALSE, disable |-> FALSE, sig |-> 0, status |-> "none",
          raced |-> FALSE]

Tick == env < MaxEnv /\ env' = env + 1
Fault(b) == (b /\ Tick) \/ (~b /\ UNCHANGED env)
interrupted(gen) == sleep.preparing \/ sleep.gen # gen

DisplayInit ==
    /\ outs \in {[laptop |-> "left", external |-> x] : x \in {"right", "gone"}}
    /\ xid = 1 /\ sleep = [preparing |-> FALSE, gen |-> 0] /\ prefer = TRUE
    /\ doc = [manual |-> FALSE, saved |-> NoLayout, trial |-> NoTrial]
    /\ rt = FreshRt /\ planner = NewPlanner(0) /\ docking = Settled /\ job = NoJob
    /\ expired = FALSE /\ disturbed = FALSE /\ tampered = FALSE /\ asks = 0 /\ env = 0

-----------------------------------------------------------------------------
(* The compositor, logind and the clocks. *)

Replugged(n, s) == IF n = "laptop" /\ s = "mirror" THEN "left" ELSE s

Hotplug ==
    /\ Tick
    /\ IF "external" \in Present
       THEN outs' = [laptop |-> Replugged("laptop", outs["laptop"]), external |-> "gone"] /\ UNCHANGED xid
       ELSE /\ outs' = [outs EXCEPT !["external"] = IF outs["laptop"] = "right" THEN "left" ELSE "right"]
            /\ xid' = xid + 1
    /\ disturbed' = (disturbed \/ "external" \in DOMAIN doc.trial.previous)
    /\ job' = [job EXCEPT !.raced = (job.at \in {"configure", "switch"})]
    /\ UNCHANGED <<sleep, prefer, doc, rt, planner, docking, expired, tampered, asks>>

PrepareForSleep ==
    /\ ~sleep.preparing /\ Tick /\ sleep' = [sleep EXCEPT !.preparing = TRUE]
    /\ disturbed' = TRUE
    /\ UNCHANGED <<outs, xid, prefer, doc, rt, planner, docking, job, expired, tampered, asks>>

Resume ==
    /\ sleep.preparing /\ sleep' = [preparing |-> FALSE, gen |-> sleep.gen + 1]
    /\ UNCHANGED <<outs, xid, prefer, doc, rt, planner, docking, job, expired, disturbed,
                   tampered, asks, env>>

Expire ==
    /\ doc.trial # NoTrial /\ ~expired /\ expired' = TRUE /\ disturbed' = TRUE
    /\ UNCHANGED <<outs, xid, sleep, prefer, doc, rt, planner, docking, job, tampered, asks, env>>

Due ==
    /\ rt.topology # -1 /\ ~rt.due /\ rt' = [rt EXCEPT !.due = TRUE]
    /\ UNCHANGED <<outs, xid, sleep, prefer, doc, planner, docking, job, expired, disturbed,
                   tampered, asks, env>>

Ripen ==
    /\ planner.candidate # 0 /\ ~planner.ripe /\ planner' = [planner EXCEPT !.ripe = TRUE]
    /\ UNCHANGED <<outs, xid, sleep, prefer, doc, rt, docking, job, expired, disturbed,
                   tampered, asks, env>>

ApplyTimeout ==
    /\ docking.started = "running" /\ docking' = [docking EXCEPT !.started = "over"]
    /\ UNCHANGED <<outs, xid, sleep, prefer, doc, rt, planner, job, expired, disturbed,
                   tampered, asks, env>>

Restart ==
    /\ Tick /\ job' = NoJob /\ rt' = FreshRt /\ planner' = NewPlanner(0) /\ docking' = Settled
    /\ sleep' = [sleep EXCEPT !.gen = 0] /\ disturbed' = TRUE
    /\ UNCHANGED <<outs, xid, prefer, doc, expired, tampered, asks>>

-----------------------------------------------------------------------------
(* Layouts. *)

independent(l) == {n \in DOMAIN l : usable(l[n])}
validate(l) ==
    /\ l # NoLayout /\ DOMAIN l \subseteq Present /\ independent(l) # {}
    /\ \A n \in DOMAIN l : l[n] = "mirror" => Other(n) \in independent(l)

observed == [n \in Present |-> outs[n]]
Overlap(l) == DOMAIN l = Names /\ l["laptop"] = l["external"] /\ l["laptop"] \in Places
validate_arrangement(l) == Overlap(l) => l = observed

(* A mirror whose source is unplugged is promoted. *)
connected(l) ==
    [n \in DOMAIN l \intersect Present |->
        IF l[n] = "mirror" /\ Other(n) \notin Present THEN Own(n) ELSE l[n]]

(* Document::restoration: without a manual choice docking alone owns the panel. *)
restoration ==
    LET l == connected(doc.saved)
        panel == IF outs["laptop"] = "off" THEN "off"
                 ELSE IF l["laptop"] = "off" THEN Own("laptop") ELSE l["laptop"]
    IN IF doc.manual \/ "laptop" \notin DOMAIN l THEN l
       ELSE [n \in DOMAIN l |->
                IF n = "laptop" THEN panel
                ELSE IF l[n] = "mirror" /\ panel = "off" THEN Own(n) ELSE l[n]]

(* layout::apply: detach changing mirrors, then enable, mirror and disable. *)
Rank(s) == IF s = "off" THEN 2 ELSE IF s = "mirror" THEN 1 ELSE 0
ordered(l) ==
    LET pair == [n \in DOMAIN l |-> <<n, l[n]>>]
    IN IF DOMAIN l = Names
       THEN IF Rank(l["laptop"]) <= Rank(l["external"])
            THEN <<pair["laptop"], pair["external"]>> ELSE <<pair["external"], pair["laptop"]>>
       ELSE IF l = NoLayout THEN <<>> ELSE LET n == CHOOSE m \in DOMAIN l : TRUE IN <<pair[n]>>
detach(l) ==
    LET changing == {n \in DOMAIN l : outs[n] = "mirror" /\ l[n] # "mirror"}
    IN IF changing = {} THEN <<>>
       ELSE LET n == CHOOSE m \in changing : TRUE
            IN <<<<n, IF usable(outs[Other(n)]) THEN outs[Other(n)] ELSE Own(n)>>>>

apply ==
    /\ job.at = "list"
    /\ job' = [job EXCEPT !.at = "check", !.gen = sleep.gen,
                          !.todo = detach(job.layout) \o ordered(job.layout)]
    /\ UNCHANGED <<outs, xid, sleep, prefer, doc, rt, planner, docking, expired, disturbed,
                   tampered, asks, env>>

\* Mutant: an output may go dark without another one being lit.
MutRefused(n, s) ==
    \/ s = "mirror" /\ ~usable(outs[Other(n)])
    \/ s = "off" /\ outs[Other(n)] = "off"
(* The checks of apply_setting against a fresh read of the outputs. *)
Refused(n, s) ==
    \/ s \in {"off", "mirror"} /\ HasMirror(n)
    \/ s = "mirror" /\ ~usable(outs[Other(n)])
    \/ s = "off" /\ ~usable(outs[Other(n)])

apply_setting ==
    /\ job.at = "check"
    /\ IF job.todo = <<>> THEN job' = [job EXCEPT !.at = "applied"] /\ UNCHANGED env
       ELSE LET n == job.todo[1][1]
                s == job.todo[1][2]
            IN \E ineligible \in BOOLEAN :
                /\ Fault(ineligible)
                /\ job' = IF ineligible \/ interrupted(job.gen) THEN [job EXCEPT !.at = "failed"]
                          ELSE IF n \notin Present \/ outs[n] = s THEN [job EXCEPT !.todo = Tail(@)]
                          ELSE IF Refused(n, s) THEN [job EXCEPT !.at = "failed"]
                          ELSE [job EXCEPT !.at = "configure", !.raced = FALSE]
    /\ UNCHANGED <<outs, xid, sleep, prefer, doc, rt, planner, docking, expired, disturbed,
                   tampered, asks>>

Configured(n, s) ==
    IF n \notin Present THEN outs
    ELSE [outs EXCEPT ![n] = IF s = "mirror" /\ Other(n) \notin Present THEN Own(n) ELSE s]

configure ==
    /\ job.at = "configure"
    /\ \E failed \in BOOLEAN :
        /\ Fault(failed)
        /\ IF failed THEN job' = [job EXCEPT !.at = "failed"] /\ UNCHANGED <<outs, tampered>>
           ELSE /\ outs' = Configured(job.todo[1][1], job.todo[1][2])
                /\ tampered' = (tampered \/ job.who = "preview")
                /\ job' = [job EXCEPT !.at = "check", !.todo = Tail(@), !.raced = FALSE]
    /\ UNCHANGED <<xid, sleep, prefer, doc, rt, planner, docking, expired, disturbed, asks>>

-----------------------------------------------------------------------------
(* Client requests. *)

Ask == job = NoJob /\ asks < MaxAsks /\ asks' = asks + 1

set(p) ==
    /\ Ask /\ docking.state # "applying" /\ doc.trial = NoTrial
    /\ prefer' = p /\ job' = [NoJob EXCEPT !.who = "set", !.at = "release"]
    /\ UNCHANGED <<outs, xid, sleep, doc, rt, planner, docking, expired, disturbed, tampered, env>>

use_docking_policy ==
    /\ job.at = "release"
    /\ \E failed \in BOOLEAN :
        /\ Fault(failed /\ doc.manual)
        /\ doc' = IF failed THEN doc ELSE [doc EXCEPT !.manual = FALSE]
        /\ docking' = IF failed /\ doc.manual THEN docking ELSE [docking EXCEPT !.state = "applying"]
    /\ job' = NoJob
    /\ UNCHANGED <<outs, xid, sleep, prefer, rt, planner, expired, disturbed, tampered, asks>>

\* Mutant: the compositor is touched before the trial is saved.
MutPreview(l) ==
    /\ Ask /\ docking.state # "applying" /\ ~sleep.preparing /\ doc.trial = NoTrial
    /\ DOMAIN l = Present /\ validate(l) /\ validate(observed) /\ validate_arrangement(l)
    /\ rt' = [rt EXCEPT !.trial = asks + 1, !.topology = topology, !.applied = TRUE,
                        !.error = FALSE, !.resume = sleep.gen]
    /\ job' = [NoJob EXCEPT !.who = "preview", !.at = "list", !.layout = l]
    /\ expired' = FALSE /\ disturbed' = FALSE
    /\ UNCHANGED <<outs, xid, sleep, prefer, doc, planner, docking, tampered, env>>
(* A trial is saved before the compositor is touched; a draft is accepted
   only when its baseline is that of the current outputs and policy. *)
preview(l) ==
    /\ Ask /\ docking.state # "applying" /\ ~sleep.preparing /\ doc.trial = NoTrial
    /\ DOMAIN l = Present /\ validate(l) /\ validate(observed) /\ validate_arrangement(l)
    /\ doc' = [doc EXCEPT !.trial = [id |-> asks + 1, proposed |-> l, previous |-> observed]]
    /\ rt' = [rt EXCEPT !.trial = asks + 1, !.topology = topology, !.applied = TRUE,
                        !.error = FALSE, !.resume = sleep.gen]
    /\ job' = [NoJob EXCEPT !.who = "preview", !.at = "list", !.layout = l]
    /\ expired' = FALSE /\ disturbed' = FALSE
    /\ UNCHANGED <<outs, xid, sleep, prefer, planner, docking, tampered, env>>

finish(id, confirm) ==
    /\ Ask /\ doc.trial # NoTrial /\ doc.trial.id = id
    /\ job' = IF confirm THEN [NoJob EXCEPT !.who = "confirm", !.at = "confirm"]
              ELSE [NoJob EXCEPT !.who = "revert", !.at = "list",
                                 !.layout = connected(doc.trial.previous)]
    /\ UNCHANGED <<outs, xid, sleep, prefer, doc, rt, planner, docking, expired, disturbed,
                   tampered, env>>

Shown(l) == \A n \in DOMAIN l : outs[n] = l[n]

\* Mutant: a trial may be confirmed after a sleep.
MutConfirmable ==
    /\ rt.trial = doc.trial.id /\ ~expired /\ topology = rt.topology
    /\ validate(doc.trial.proposed) /\ Shown(doc.trial.proposed)
Confirmable ==
    /\ rt.trial = doc.trial.id /\ ~expired /\ ~interrupted(rt.resume)
    /\ topology = rt.topology /\ validate(doc.trial.proposed) /\ Shown(doc.trial.proposed)

Confirm ==
    /\ job.at = "confirm"
    /\ job' = IF Confirmable THEN [job EXCEPT !.at = "save"] ELSE NoJob
    /\ UNCHANGED <<outs, xid, sleep, prefer, doc, rt, planner, docking, expired, disturbed,
                   tampered, asks, env>>

(* finish_at's save after a confirmation: a changed enablement is manual. *)
Kept ==
    LET t == doc.trial
        kind(s) == IF s \in Places THEN "own" ELSE s
    IN [manual |-> doc.manual \/ \E n \in DOMAIN t.proposed \intersect DOMAIN t.previous :
                                    kind(t.proposed[n]) # kind(t.previous[n]),
        saved |-> t.proposed, trial |-> NoTrial]

SaveConfirmed ==
    /\ job.at = "save"
    /\ \E failed \in BOOLEAN :
        /\ Fault(failed)
        /\ IF failed THEN UNCHANGED <<doc, rt, docking, tampered>>
           ELSE /\ doc' = Kept /\ rt' = [rt EXCEPT !.trial = 0, !.applied = TRUE, !.error = FALSE]
                /\ docking' = IF Kept.manual THEN [docking EXCEPT !.state = "settled"] ELSE docking
                /\ tampered' = FALSE
    /\ job' = NoJob
    /\ UNCHANGED <<outs, xid, sleep, prefer, planner, expired, disturbed, asks>>

(* What follows an applied or failed layout, by who asked for it. *)
ToReconcile(ok, paused) == [NoJob EXCEPT !.who = "monitor", !.at = "reconcile", !.ok = ok, !.paused = paused]

Applied ==
    /\ job.at = "applied"
    /\ \E failed \in BOOLEAN :
        /\ Fault(failed /\ job.who \in {"revert", "rollback"})
        /\ IF job.who \in {"revert", "rollback"} /\ ~failed
           THEN /\ doc' = [doc EXCEPT !.trial = NoTrial] /\ tampered' = FALSE
                /\ rt' = [rt EXCEPT !.trial = 0, !.applied = TRUE,
                                    !.error = IF job.who = "revert" THEN FALSE ELSE @]
                /\ docking' = IF job.who = "revert" /\ doc.manual
                              THEN [docking EXCEPT !.state = "settled"] ELSE docking
           ELSE /\ rt' = IF job.who = "saved" THEN [rt EXCEPT !.error = FALSE] ELSE rt
                /\ UNCHANGED <<doc, tampered, docking>>
        /\ job' = IF job.who \in {"preview", "revert"} THEN NoJob
                  ELSE ToReconcile(job.who = "saved" \/ ~failed, job.who = "rollback" /\ failed)
    /\ UNCHANGED <<outs, xid, sleep, prefer, planner, expired, disturbed, asks>>

Failed ==
    /\ job.at = "failed"
    /\ rt' = CASE job.who = "preview" -> [rt EXCEPT !.trial = 0]
               [] job.who = "saved" -> [rt EXCEPT !.error = TRUE]
               [] OTHER -> rt
    /\ job' = IF job.who \in {"preview", "revert"} THEN NoJob ELSE ToReconcile(FALSE, TRUE)
    /\ UNCHANGED <<outs, xid, sleep, prefer, doc, planner, docking, expired, disturbed,
                   tampered, asks, env>>
-----------------------------------------------------------------------------
(* The monitor: layout::tick, reconcile, and the docking transition. *)

TrialAlive == rt.trial = doc.trial.id /\ ~expired /\ rt.resume = sleep.gen /\ topology = rt.topology

(* tick_at's remaining case: one attempt per stable topology or resume. *)
apply_saved(r) ==
    LET try == ~r.applied /\ doc.saved # NoLayout
        l == restoration
        enabled == \E n \in DOMAIN l : l[n] # "off"
        tried == [r EXCEPT !.applied = TRUE, !.error = (enabled /\ ~validate(l))]
    IN IF try /\ ~r.due THEN [rt |-> r, job |-> ToReconcile(TRUE, TRUE)]
       ELSE IF try /\ enabled /\ validate(l)
       THEN [rt |-> tried, job |-> [NoJob EXCEPT !.who = "saved", !.at = "list", !.layout = l]]
       ELSE LET q == IF try THEN tried ELSE r
            IN [rt |-> q, job |-> ToReconcile(~q.error, q.error)]

tick ==
    /\ job = NoJob
    /\ planner' = IF planner.resume # sleep.gen THEN NewPlanner(sleep.gen) ELSE planner
    /\ IF sleep.preparing THEN rt' = [rt EXCEPT !.trial = 0] /\ job' = ToReconcile(TRUE, TRUE)
       ELSE IF doc.trial # NoTrial
       THEN /\ UNCHANGED rt
            /\ job' = IF TrialAlive THEN ToReconcile(TRUE, TRUE)
                      ELSE [NoJob EXCEPT !.who = "rollback", !.at = "list",
                                         !.layout = connected(doc.trial.previous)]
       ELSE LET r == IF topology # rt.topology \/ rt.resume # sleep.gen
                     THEN [rt EXCEPT !.topology = topology, !.resume = sleep.gen, !.due = FALSE,
                                     !.applied = FALSE, !.error = FALSE]
                     ELSE rt
            IN rt' = apply_saved(r).rt /\ job' = apply_saved(r).job
    /\ UNCHANGED <<outs, xid, sleep, prefer, doc, docking, expired, disturbed, tampered, asks, env>>

\* Mutant: a change that is applying has no deadline.
MutUpdate(status) ==
    LET applying == ~doc.manual /\ doc.trial = NoTrial /\
                    status \in {"pending", "settling", "layout-preview"}
    IN CASE status = "error" -> [state |-> "failed", started |-> "no"]
         [] status = "sleeping" -> [state |-> docking.state, started |-> "no"]
         [] status \notin {"error", "sleeping"} /\ applying -> [state |-> "applying", started |-> "no"]
         [] OTHER -> [state |-> "settled", started |-> "no"]
(* Transition::update on the outcome of a pass. *)
update(status) ==
    LET own == doc.manual /\ doc.trial = NoTrial
        state == IF own THEN "settled" ELSE docking.state
        applying == ~own /\ ~doc.manual /\ doc.trial = NoTrial /\
                    status \in {"pending", "settling", "layout-preview"}
        started == IF docking.started = "no" THEN "running" ELSE docking.started
        failed == [state |-> "failed", started |-> "no"]
    IN IF status = "error" \/ state = "failed" THEN failed
       ELSE IF status = "sleeping" THEN [state |-> state, started |-> "no"]
       ELSE IF ~applying THEN [state |-> "settled", started |-> "no"]
       ELSE IF started = "over" THEN failed
       ELSE [state |-> "applying", started |-> started]

(* The end of a pass: a failed layout step fails it whatever docking did. *)
Publish(status, p) ==
    LET s == IF ~job.ok THEN "error"
             ELSE IF job.paused /\ status \notin {"sleeping", "error"} THEN "layout-preview" ELSE status
    IN /\ docking' = update(s) /\ job' = NoJob
       /\ planner' = IF s = "error" THEN reset ELSE p

preserve_enablement ==
    (job.ok /\ (doc.trial # NoTrial \/ doc.manual)) \/ docking.state = "failed"

(* Planner::plan: the external set must be stable before the panel goes off. *)
plan(p) ==
    LET wants == prefer /\ ~job.paused
        same == p.candidate = signature
        disable == wants /\ signature # 0 /\ same /\ p.ripe
        target == IF disable THEN usable(outs["laptop"]) /\ ~HasMirror("laptop")
                  ELSE outs["laptop"] = "off" \/ (outs["laptop"] = "mirror" /\ ~Lit)
    IN [planner |-> IF ~wants \/ signature = 0 THEN [p EXCEPT !.candidate = 0, !.ripe = FALSE]
                    ELSE [p EXCEPT !.candidate = signature, !.ripe = (p.ripe /\ same)],
        job |-> [job EXCEPT !.at = IF target THEN "target" ELSE "observe", !.disable = disable,
                            !.sig = signature, !.gen = sleep.gen,
                            !.status = IF ~wants THEN "all-displays" ELSE IF signature = 0 THEN "internal"
                                       ELSE IF disable THEN "external" ELSE "settling"]]

reconcile ==
    /\ job.at = "reconcile"
    /\ \E ineligible, gap \in BOOLEAN :
        /\ Fault(ineligible \/ gap)
        /\ IF sleep.preparing THEN Publish("sleeping", reset)
           ELSE IF ineligible THEN Publish("error", reset)
           ELSE IF preserve_enablement /\ Lit THEN Publish("layout", reset)
           ELSE LET q == plan(IF gap THEN reset ELSE planner)
                IN planner' = q.planner /\ job' = q.job /\ UNCHANGED docking
    /\ UNCHANGED <<outs, xid, sleep, prefer, doc, rt, expired, disturbed, tampered, asks>>

\* Mutant: the outputs are not looked at again before the panel is switched off.
MutValidateDisable == TRUE
validate_disable == signature = job.sig /\ ~HasMirror("laptop")

Target ==
    /\ job.at = "target"
    /\ IF (job.disable /\ ~validate_disable) \/ interrupted(job.gen) THEN Publish("error", planner)
       ELSE job' = [job EXCEPT !.at = "switch", !.raced = FALSE] /\ UNCHANGED <<docking, planner>>
    /\ UNCHANGED <<outs, xid, sleep, prefer, doc, rt, expired, disturbed, tampered, asks, env>>

(* Backend::apply: enabling the panel uses its saved geometry. *)
saved_internal ==
    IF doc.saved # NoLayout /\ "laptop" \in DOMAIN doc.saved /\ doc.saved["laptop"] \in Places
    THEN doc.saved["laptop"] ELSE Own("laptop")

Switch ==
    /\ job.at = "switch"
    /\ \E failed \in BOOLEAN :
        /\ Fault(failed)
        /\ IF failed THEN Publish("error", planner) /\ UNCHANGED outs
           ELSE /\ outs' = [outs EXCEPT !["laptop"] = IF job.disable THEN "off" ELSE saved_internal]
                /\ job' = [job EXCEPT !.at = "observe", !.raced = FALSE] /\ UNCHANGED <<docking, planner>>
    /\ UNCHANGED <<xid, sleep, prefer, doc, rt, expired, disturbed, tampered, asks>>

Observed ==
    /\ signature = job.sig /\ Lit
    /\ IF job.disable THEN outs["laptop"] = "off" ELSE outs["laptop"] # "off"

Observe ==
    /\ job.at = "observe"
    /\ Publish(IF interrupted(job.gen) THEN "error" ELSE IF Observed THEN job.status ELSE "pending", planner)
    /\ UNCHANGED <<outs, xid, sleep, prefer, doc, rt, expired, disturbed, tampered, asks, env>>

(* The 8 s limit: a request is dropped where it stands, a pass fails. *)
TimedOut ==
    /\ job.who \notin {"none", "set"} /\ Tick
    /\ IF job.who \in {"preview", "revert", "confirm"} THEN job' = NoJob /\ UNCHANGED <<docking, planner>>
       ELSE Publish("error", planner)
    /\ UNCHANGED <<outs, xid, sleep, prefer, doc, rt, expired, disturbed, tampered, asks>>

Layouts == [Present -> Settings]

ClientAsks ==
    \/ \E p \in BOOLEAN : set(p)
    \/ \E l \in Layouts : preview(l)
    \/ \E id \in 1..MaxAsks, confirm \in BOOLEAN : finish(id, confirm)
JobSteps ==
    \/ apply \/ apply_setting \/ configure \/ use_docking_policy \/ Confirm \/ SaveConfirmed
    \/ Applied \/ Failed \/ reconcile \/ Target \/ Switch \/ Observe
Clocks == Resume \/ Expire \/ Due \/ Ripen \/ ApplyTimeout

DisplayNext == ClientAsks \/ tick \/ JobSteps \/ Clocks \/ Hotplug \/ PrepareForSleep \/ Restart \/ TimedOut

(* The monitor's 2 s timer and the FIFO lock: requests are bounded, so the
   pass is eventually always possible. *)
DisplayFair ==
    /\ WF_displayVars(JobSteps \/ tick) /\ WF_displayVars(Resume) /\ WF_displayVars(Expire)
    /\ WF_displayVars(ApplyTimeout) /\ WF_displayVars(Due)
DisplaySpec == DisplayInit /\ [][DisplayNext]_displayVars /\ DisplayFair

-----------------------------------------------------------------------------
LayoutSet == UNION {[d -> Settings] : d \in SUBSET Names}

(* The published, durable and compositor state have their types. *)
DisplayTypeOK ==
    /\ outs \in [laptop : Settings, external : Settings \union {"gone"}] /\ xid \in 1..(MaxEnv + 1)
    /\ doc \in [manual : BOOLEAN, saved : LayoutSet,
                trial : [id : 0..MaxAsks, proposed : LayoutSet, previous : LayoutSet]]
    /\ docking \in [state : {"settled", "applying", "failed"}, started : {"no", "running", "over"}]
    /\ planner.candidate \in 0..(MaxEnv + 1) /\ rt.trial \in 0..MaxAsks

(* While a preview that changed an output is neither kept nor undone, its
   rollback is on disk, across failed requests and restarts; the compositor
   never holds a mirror without an independent source. *)
RollbackDurable == tampered => doc.trial # NoTrial
MirrorsHaveSource == \A n \in Names : outs[n] = "mirror" => usable(outs[Other(n)])
DisplaySafe == RollbackDurable /\ MirrorsHaveSource

(* A command to the compositor never darkens the last usable output unless a
   hotplug fell between its own check and the command; a layout is kept only
   when it is on screen and nothing disturbed its preview. *)
KeepsFallback ==
    (job.at \in {"configure", "switch"} /\ outs' # outs /\ job' # NoJob /\ ~job.raced /\ xid' = xid
        /\ (outs'["external"] = "gone" <=> outs["external"] = "gone") /\ Lit) => Lit'
ConfirmedUndisturbed ==
    (job.at = "confirm" /\ job'.at = "save") => ~disturbed /\ Shown(doc.trial.proposed)
DisplaySteps == [][KeepsFallback /\ ConfirmedUndisturbed]_displayVars

(* The inductive invariant behind these.  WriterInv: what holds of the command the
   compositor is about to get, by its check, and what of that survives a hotplug;
   a preview at work has its trial.  TrialInv: the trial RUNTIME knows is younger
   than its resume, and what disturbed it shows in the clock, the sleep state or
   the topology. *)
Numbers == 0..(MaxEnv + 1)
Jobs == [who : {"none", "set", "preview", "confirm", "revert", "monitor", "rollback", "saved"},
         at : {"none", "release", "list", "check", "configure", "applied", "failed", "confirm", "save",
               "reconcile", "target", "observe", "switch"},
         layout : LayoutSet, todo : Seq(Names \X Settings), gen : Nat, ok : BOOLEAN, paused : BOOLEAN,
         disable : BOOLEAN, sig : Numbers, status : {"none", "all-displays", "internal", "external", "settling"},
         raced : BOOLEAN]
ShapeInv ==
    /\ outs \in [laptop : Settings, external : Settings \union {"gone"}]
    /\ env \in 0..MaxEnv /\ xid \in 1..(env + 1) /\ asks \in 0..MaxAsks /\ prefer \in BOOLEAN
    /\ sleep \in [preparing : BOOLEAN, gen : Nat]
    /\ doc \in [manual : BOOLEAN, saved : LayoutSet,
                trial : [id : 0..MaxAsks, proposed : LayoutSet, previous : LayoutSet]]
    /\ rt \in [trial : 0..MaxAsks, topology : Int, due : BOOLEAN, applied : BOOLEAN, error : BOOLEAN, resume : Nat]
    /\ planner \in [candidate : Numbers, ripe : BOOLEAN, resume : Nat]
    /\ docking \in [state : {"settled", "applying", "failed"}, started : {"no", "running", "over"}]
    /\ job \in Jobs /\ {expired, disturbed, tampered} \subseteq BOOLEAN
Checked(n, s) ==
    /\ s \in {"off", "mirror"} => ~HasMirror(n)
    /\ s = "mirror" => usable(outs[Other(n)]) \/ Other(n) \notin Present
    /\ s = "off" /\ ~job.raced => usable(outs[Other(n)])
WriterInv ==
    /\ job.who = "preview" => doc.trial # NoTrial
    /\ job.at = "configure" => job.todo # <<>> /\ Checked(job.todo[1][1], job.todo[1][2])
    /\ job.at = "target" /\ job.disable => job.sig # 0
    /\ job.at = "switch" /\ job.disable => ~HasMirror("laptop") /\ (~job.raced => usable(outs["external"]))
TrialInv ==
    /\ doc.trial # NoTrial => doc.trial.id \in 1..asks
    /\ doc.trial # NoTrial /\ rt.trial = doc.trial.id =>
        /\ rt.resume <= sleep.gen /\ rt.topology \in 0..xid
        /\ "external" \in DOMAIN doc.trial.previous <=> rt.topology # 0
        /\ disturbed => \/ expired \/ sleep.preparing \/ sleep.gen > rt.resume
                        \/ rt.topology # 0 /\ ("external" \notin Present \/ xid > rt.topology)
DisplayIInv == ShapeInv /\ WriterInv /\ TrialInv /\ RollbackDurable /\ MirrorsHaveSource

(* A dark desktop is lit again; a docking change ends; a trial ends unless
   every output its rollback would leave on is unplugged. *)
Stranded ==
    doc.trial # NoTrial /\ \A n \in DOMAIN connected(doc.trial.previous) :
                                connected(doc.trial.previous)[n] = "off"
OnTrial == doc.trial # NoTrial
Applying == docking.state = "applying"
DisplaySettles ==
    /\ (~Lit) ~> Lit
    /\ Applying ~> ~Applying
    /\ OnTrial ~> (~OnTrial \/ Stranded)
=============================================================================
