---------------------------- MODULE ServiceTrial ----------------------------
(***************************************************************************)
(* One trial of the service campaign: run_trial of                         *)
(* network/r5_service_campaign.py, from the wait for the controller's port *)
(* to the record, and what three programs make of the record afterwards:   *)
(* the frozen analysis, the audit and the outage interpretation.           *)
(* ServiceCampaign takes a whole trial as one step.                        *)
(*                                                                         *)
(* The controller service, the switch and the moved host are external:     *)
(* world says what a probe would meet.  The service boots, dies and is     *)
(* found again by the switch while the trial goes on.                      *)
(***************************************************************************)
EXTENDS Integers, Sequences, FiniteSets, SequencesExt

CONSTANTS
    Natives,      \* FALSE: DAIM, Os-Ken; TRUE: rules for unknown hosts exist
    MaxProbes,    \* bound: probes of one recovery window
    MaxTroubles   \* bound: probes and commands that fail to execute

ASSUME TrialAssumption ==
    /\ Natives \subseteq BOOLEAN
    /\ MaxProbes \in Nat
    /\ MaxTroubles \in Nat

VARIABLES
    world,     \* what the probes meet
    rec,       \* the record r of the trial
    pc,        \* where run_trial is
    probe,     \* the probe under way: its destination, or "none"
    troubles   \* executions that may still fail

trialvars == <<world, rec, pc, probe, troubles>>

ControllerFaults == {"controller_restart", "controller_crash"}
Faults == ControllerFaults \cup {"link_restore", "switch_restart", "host_move"}

\* service: systemd's unit (Restart=no); path: link and bridge are there; at:
\* the port of the destination; late: the recovery window is over.  A rule: what
\* it matches, where it leads, and the instance of the service that made it.
World(service, native) ==
    [service |-> service, life |-> 1, conn |-> FALSE, path |-> TRUE, at |-> 1,
     rules |-> {}, native |-> native, late |-> FALSE]

\* found and alive: the control group had processes before the stop and after
\* it; old and asked: where the probes before and during the fault went, during
\* and new: how the latter ended; port: where the destination is in the end;
\* unread: a dump of the rules failed.
NoRecord(scenario) ==
    [scenario |-> scenario, status |-> "started", warm |-> FALSE, cold |-> FALSE,
     baseline |-> FALSE, found |-> FALSE, verified |-> TRUE, alive |-> FALSE,
     old |-> "none", asked |-> "none", new |-> "none", during |-> "none",
     history |-> <<>>, performed |-> FALSE, recovered |-> FALSE, port |-> 1,
     unread |-> FALSE]

NoTrial ==
    /\ world = World("down", FALSE) /\ rec = NoRecord("scale")
    /\ pc = "none" /\ probe = "none" /\ troubles = 0

TrialInit ==
    /\ \E s \in {"up", "booting", "down"}, n \in Natives : world = World(s, n)
    /\ \E s \in Faults \cup {"scale"} : rec = NoRecord(s)
    /\ pc = "listen" /\ probe = "none" /\ troubles = MaxTroubles

-----------------------------------------------------------------------------
(* The service and the switch                                              *)

Fails == troubles > 0 /\ troubles' = troubles - 1

ServiceBoots ==
    /\ world.service = "booting"
    /\ \E s \in {"up", "down"} : world' = [world EXCEPT !.service = s]
    /\ UNCHANGED <<rec, pc, probe, troubles>>

\* A process that crashes or runs out of memory is not started again.
ServiceDies ==
    /\ world.service = "up" /\ pc # "recorded"
    /\ Fails
    /\ world' = [world EXCEPT !.service = "down", !.conn = FALSE]
    /\ UNCHANGED <<rec, pc, probe>>

SwitchConnects ==
    /\ world.service = "up" /\ world.path /\ ~world.conn
    /\ pc \notin {"listen", "recorded"}
    /\ world' = [world EXCEPT !.conn = TRUE]
    /\ UNCHANGED <<rec, pc, probe, troubles>>

\* A native application may withdraw a rule that leads to the old port.
NativeRepairs ==
    /\ world.native
    /\ \E r \in world.rules :
        r.port # world.at /\ world' = [world EXCEPT !.rules = @ \ {r}]
    /\ UNCHANGED <<rec, pc, probe, troubles>>

\* The recovery window counts from the beginning of the restoration.
WindowEnds ==
    /\ pc \in {"restored", "recover"} /\ ~world.late
    /\ world' = [world EXCEPT !.late = TRUE]
    /\ UNCHANGED <<rec, pc, probe, troubles>>

-----------------------------------------------------------------------------
(* Probes                                                                  *)

RulesFor(d) == {r \in world.rules : r.dst = d}
ByRule(d) == world.path /\ \E r \in RulesFor(d) : r.port = world.at
ByService(d) ==
    /\ world.path /\ RulesFor(d) = {}
    /\ world.native \/ (world.service = "up" /\ world.conn)

\* Who lets the probe through: the instance that made the rule or makes one
\* now, or 0 for the rules that were there before.
Carrier(d) ==
    IF ByRule(d) THEN (CHOOSE r \in RulesFor(d) : TRUE).life
    ELSE IF world.native THEN 0 ELSE world.life

Sent(d) == probe' = d /\ UNCHANGED <<world, rec, pc, troubles>>

\* The end of ping() with an answer or without.
Ends(ok) ==
    /\ probe # "none" /\ probe' = "none"
    /\ ok => ByRule(probe) \/ ByService(probe)
    /\ world' = IF ~ok \/ ByRule(probe) \/ (world.native /\ ~world.conn) THEN world
                ELSE [world EXCEPT !.rules = @ \cup
                        {[dst |-> probe, port |-> world.at, life |-> world.life]}]
    /\ UNCHANGED troubles

\* An execution that says nothing: the result is not valid.
Invalid ==
    /\ probe # "none" /\ probe' = "none"
    /\ Fails
    /\ UNCHANGED world

\* except Exception: the record keeps what it has.
Raised == rec' = [rec EXCEPT !.status = "execution_error"] /\ pc' = "cleanup"

Trouble ==
    /\ Fails
    /\ Raised
    /\ UNCHANGED <<world, probe>>

-----------------------------------------------------------------------------
(* Before the fault                                                        *)

\* create_connection, for up to 180 seconds.
Listen ==
    /\ pc = "listen"
    /\ \/ world.service = "up" /\ pc' = "connect" /\ UNCHANGED rec
       \/ /\ world.service # "up"
          /\ rec' = [rec EXCEPT !.status = "platform_not_listening"]
          /\ pc' = "cleanup"
    /\ UNCHANGED <<world, probe, troubles>>

\* The network is built, then wait_connections for up to 30 seconds.
Connect ==
    /\ pc = "connect"
    /\ \/ /\ world.conn /\ pc' = "warm"
          /\ UNCHANGED <<world, rec, probe, troubles>>
       \/ /\ ~world.conn
          /\ rec' = [rec EXCEPT !.status = "controller_connection_timeout"]
          /\ pc' = "cleanup"
          /\ UNCHANGED <<world, probe, troubles>>
       \/ Trouble

\* The health pairs, until all answer or 20 seconds are over: a failure is
\* noted and the workload goes on.  flows() notes the exit status of each dump
\* and does not look at it; here before and after the health pairs.
Warm ==
    /\ pc = "warm"
    /\ \/ /\ \E ok, failed \in BOOLEAN : rec' = [rec EXCEPT !.warm = ok, !.unread = failed]
          /\ pc' = "batch"
          /\ UNCHANGED <<world, probe, troubles>>
       \/ Trouble

\* The probes of the batch are concurrent and of pairs of their own: here one.
\* The rules are dumped after it.
AfterCold(ok) ==
    /\ \E failed \in BOOLEAN : rec' = [rec EXCEPT !.cold = ok, !.unread = @ \/ failed,
                  !.status = IF rec.scenario = "scale" THEN "completed" ELSE @]
    /\ pc' = IF rec.scenario = "scale" THEN "cleanup" ELSE "baseline"

Batch ==
    /\ pc = "batch"
    /\ \/ probe = "none" /\ Sent("old")
       \/ \E ok \in BOOLEAN : Ends(ok) /\ AfterCold(ok)
       \/ Invalid /\ Raised

AfterBaseline(ok) ==
    rec' = [rec EXCEPT !.baseline = ok, !.old = "old"] /\ pc' = "inject"

Baseline ==
    /\ pc = "baseline"
    /\ \/ probe = "none" /\ Sent("old")
       \/ probe = "none" /\ Trouble
       \/ \E ok \in BOOLEAN : Ends(ok) /\ AfterBaseline(ok)
       \/ Invalid /\ Raised

-----------------------------------------------------------------------------
(* The fault                                                               *)

\* configLinkStatus only logs that a link did not go down.
InjectLink ==
    /\ pc = "inject" /\ rec.scenario = "link_restore"
    /\ \/ world' = [world EXCEPT !.path = FALSE] /\ UNCHANGED troubles
       \/ Fails /\ UNCHANGED world
    /\ pc' = "during"
    /\ UNCHANGED <<rec, probe>>

\* ovs-vsctl del-br: the rules go with the bridge.
InjectSwitch ==
    /\ pc = "inject" /\ rec.scenario = "switch_restart"
    /\ \/ /\ world' = [world EXCEPT !.path = FALSE, !.conn = FALSE, !.rules = {}]
          /\ pc' = "during"
          /\ UNCHANGED <<rec, probe, troubles>>
       \/ Trouble

\* systemctl stop or kill; its exit status is not looked at, the control
\* group is: before it, and after it for 5 seconds; then the trial raises.  So
\* does a command that takes too long, and before that look; either may have
\* stopped the service all the same.
InjectController ==
    /\ pc = "inject" /\ rec.scenario \in ControllerFaults
    /\ LET found == world.service # "down"
           stopped == [world EXCEPT !.service = "down", !.conn = FALSE]
       IN
       \/ /\ world' = stopped
          /\ rec' = [rec EXCEPT !.found = found, !.verified = TRUE, !.alive = FALSE]
          /\ pc' = "during"
          /\ UNCHANGED troubles
       \/ /\ Fails
          /\ world' \in {world, stopped}
          /\ \E seen \in BOOLEAN :
                rec' = [rec EXCEPT !.found = found, !.verified = ~seen, !.alive = seen,
                                   !.status = "execution_error"]
          /\ pc' = "cleanup"
    /\ UNCHANGED probe

\* The destination moves to port 100 and announces itself once.
InjectMove ==
    /\ pc = "inject" /\ rec.scenario = "host_move"
    /\ world' = [world EXCEPT !.at = 100]
    /\ \/ pc' = "restored" /\ UNCHANGED <<rec, troubles>>
       \/ Fails /\ Raised
    /\ UNCHANGED probe

\* Fault: the recovery is asked of the destination that worked before.
KeepsDestination == "old"

\* d=restart_destination
RecoveryDestination == IF rec.scenario \in ControllerFaults THEN "new" ELSE "old"

\* The probes during the fault.  That they were valid is looked at only after
\* the restoration: until then the result may be "invalid".
During ==
    /\ pc = "during"
    /\ LET first == rec.scenario \in ControllerFaults /\ rec.during = "none"
           Noted(result) ==
             IF first THEN rec' = [rec EXCEPT !.during = result] /\ UNCHANGED pc
             ELSE rec' = [rec EXCEPT !.new = result, !.asked = probe] /\ pc' = "restore"
       IN
       \/ /\ probe = "none"
          /\ Sent(IF rec.scenario \in ControllerFaults /\ ~first THEN "new" ELSE "old")
       \/ \E ok \in BOOLEAN : Ends(ok) /\ Noted(IF ok THEN "ok" ELSE "lost")
       \/ Invalid /\ Noted("invalid")

\* The link comes up, the switch starts anew, or systemctl start.  A link that
\* does not come up is only logged and the exit status of systemctl is not
\* looked at; the start of the switch, its socket and a command that takes too
\* long raise, with or without effect.
Restore ==
    /\ pc = "restore"
    /\ LET restored == IF rec.scenario \in ControllerFaults
                         THEN [world EXCEPT !.service = "booting", !.life = 2]
                         ELSE [world EXCEPT !.path = TRUE]
       IN
       \/ world' = restored /\ pc' = "restored" /\ UNCHANGED <<rec, troubles>>
       \/ /\ rec.scenario # "switch_restart"
          /\ Fails /\ pc' = "restored" /\ UNCHANGED <<world, rec>>
       \/ /\ rec.scenario # "link_restore"
          /\ Fails /\ world' \in {world, restored} /\ Raised
    /\ UNCHANGED probe

\* Fault: the probes during the fault are not looked at.
ChecksNothing ==
    /\ pc = "restored" /\ pc' = "recover"
    /\ UNCHANGED <<world, rec, probe, troubles>>

CheckDuring ==
    /\ pc = "restored"
    /\ IF "invalid" \in {rec.during, rec.new} THEN Raised
       ELSE pc' = "recover" /\ UNCHANGED rec
    /\ UNCHANGED <<world, probe, troubles>>

-----------------------------------------------------------------------------
(* Recovery                                                                *)

History(ok) ==
    Append(rec.history, [dst |-> probe, ok |-> ok, late |-> world.late,
                         by |-> IF ok THEN Carrier(probe) ELSE 0])

\* Fault: the last probe counts whenever it ended.
JudgedLate(h) == h # <<>> /\ Last(h).ok

\* r['recovered']
Judged(h) == h # <<>> /\ Last(h).ok /\ ~Last(h).late

\* The rules are dumped once more, and the ports noted.
Completes(h) ==
    /\ \E failed \in BOOLEAN : rec' =
         [rec EXCEPT !.history = h, !.performed = h # <<>>, !.recovered = Judged(h),
                     !.port = world.at, !.unread = @ \/ failed, !.status = "completed"]
    /\ pc' = "cleanup"

\* One probe after the other, begun within the window, until one succeeds.
Recover ==
    /\ pc = "recover"
    /\ \/ /\ probe = "none" /\ ~world.late /\ Len(rec.history) < MaxProbes
          /\ Sent(RecoveryDestination)
       \/ Ends(TRUE) /\ Completes(History(TRUE))
       \/ /\ Ends(FALSE) /\ rec' = [rec EXCEPT !.history = History(FALSE)]
          /\ UNCHANGED pc
       \/ Invalid /\ Raised
       \/ /\ probe = "none" /\ world.late
          /\ Completes(rec.history)
          /\ UNCHANGED <<world, probe, troubles>>

\* finally: net.stop() may raise and spoils the record, as a dump that takes
\* too long does just before.
Cleanup ==
    /\ pc = "cleanup"
    /\ \/ UNCHANGED <<rec, troubles>>
       \/ /\ Fails
          /\ rec' = [rec EXCEPT !.status = "execution_error"]
    /\ pc' = "recorded"
    /\ UNCHANGED <<world, probe>>

TrialNext ==
    \/ ServiceBoots \/ ServiceDies \/ SwitchConnects \/ NativeRepairs \/ WindowEnds
    \/ Listen \/ Connect \/ Warm \/ Batch \/ Baseline
    \/ InjectLink \/ InjectSwitch \/ InjectController \/ InjectMove
    \/ During \/ Restore \/ CheckDuring \/ Recover \/ Cleanup

TrialSpec == TrialInit /\ [][TrialNext]_trialvars

-----------------------------------------------------------------------------
(* The programs that read the record                                       *)

\* r5_service_campaign_analysis, and the interpretation after it.
Eligible(r) ==
    r.status = "completed" /\ r.baseline /\ r.verified /\ r.performed

\* r5_service_outage_interpretation
OutageObserved(r) ==
    IF r.scenario = "host_move" THEN ~Head(r.history).ok ELSE r.new = "lost"

Classification(r) ==
    IF ~Eligible(r) THEN "not_eligible"
    ELSE IF OutageObserved(r)
    THEN IF r.recovered THEN "restored" ELSE "not_restored"
    ELSE IF r.recovered THEN "no_loss" ELSE "failed_without_loss"

\* r5_service_campaign_audit, of a completed run with a fault: what its
\* findings say of the record.  (Those about the batch's counts, about times and
\* about the text of dumps are left out with what they look at.)
Audit(r) ==
    LET controller == r.scenario \in ControllerFaults
        disrupted == r.scenario \in {"link_restore", "switch_restart"}
        Found(category, condition) == IF condition THEN {category} ELSE {}
    IN UNION {
        Found("probe_missing_return_code", "invalid" \in {r.during, r.new}),
        Found("flow_read_error", r.unread),
        Found("controller_not_alive_before_injection", controller /\ ~r.found),
        Found("controller_alive_after_stop", controller /\ r.alive),
        Found("reused_recovery_destination", controller /\ r.old = r.asked),
        Found("wrong_recovery_destination",
              controller /\ \E i \in DOMAIN r.history : r.history[i].dst # r.asked),
        Found("disruption_did_not_break_probe", disrupted /\ r.baseline /\ r.new = "ok"),
        Found("destination_move_port_missing", r.scenario = "host_move" /\ r.port # 100),
        Found("recovery_classification_mismatch",
              r.recovered # (r.history # <<>> /\ Last(r.history).ok /\ ~Last(r.history).late))}

\* What the audit may blame on the machine: a dump that failed, a controller
\* that had died by itself, a link that did not go down.
MachineFindings(r) ==
    {"flow_read_error"}
    \cup (IF r.scenario \in ControllerFaults THEN {"controller_not_alive_before_injection"} ELSE {})
    \cup (IF r.scenario = "link_restore" THEN {"disruption_did_not_break_probe"} ELSE {})

\* Fault records a reader of the campaign may use: what the trial leaves once
\* it is over.
Recorded == pc = "recorded" /\ rec.scenario # "scale" /\ rec.status = "completed"

-----------------------------------------------------------------------------
(* Properties                                                              *)

\* The shape of the state; a probe belongs to a phase that makes one, and a
\* completed record rests on a verified fault and on valid probes only.
TrialTypeOK ==
    /\ world.service \in {"up", "booting", "down"}
    /\ world.rules \subseteq [dst : {"old", "new"}, port : {1, 100}, life : {1, 2}]
    /\ world.conn => world.service = "up" /\ (world.path \/ rec.scenario = "link_restore")
    /\ probe \in {"none", "old", "new"}
    /\ probe # "none" => pc \in {"batch", "baseline", "during", "recover"}
    /\ Len(rec.history) <= MaxProbes
    /\ rec.status = "completed" => rec.verified /\ "invalid" \notin {rec.during, rec.new}
    /\ rec.recovered => rec.status \in {"completed", "execution_error"}
    /\ troubles \in 0 .. MaxTroubles

\* What the campaign reports as service restored after a controller was
\* stopped or killed is the work of the new instance: not of a rule that the
\* old one left in the switch, which outlives it.
RestoredByNewService ==
    Recorded /\ rec.scenario \in ControllerFaults /\ ~world.native
        /\ Classification(rec) = "restored"
    => Last(rec.history).by = 2

\* The audit, which judges the raw probes for itself, finds nothing in a
\* completed record that the collector could have got wrong: not the verdict on a
\* window that ends during a probe, not the destination that is asked after the
\* fault, not a controller or a switch that was still there.  What it may find
\* is a dump that failed, a controller that was dead before, a link that stayed up.
AuditAgrees == Recorded => Audit(rec) \subseteq MachineFindings(rec)
=============================================================================
