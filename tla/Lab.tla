--------------------------------- MODULE Lab ---------------------------------
(***************************************************************************)
(* A driver runs a trial of Scripts against the controllers of Controllers *)
(* and the network of Fabric.  The driver may be killed at any step: its   *)
(* controller process and its network then outlive it, and the driver is   *)
(* started again.  A watchdog thread kills a controller that does not      *)
(* report, and the recovery monitor pings in a thread of its own.          *)
(***************************************************************************)
EXTENDS Scripts

CONSTANTS Drivers,      \* the drivers whose trials are run
          Adversities,  \* what may go wrong in one behaviour
          MaxAttempts   \* pings of the recovery monitor

\* late: answers after ping gave up; faults: commands of the controller that
\* fail; tools: commands of the driver that fail; kills: of the driver.
ASSUME LabAssumption ==
    /\ Adversities \in
         [Drivers -> SUBSET [late : Nat, faults : Nat, tools : Nat, kills : Nat]]
    /\ MaxAttempts \in Nat

VARIABLE drv

labvars == <<net, ctl, drv>>

Keys == {k \in Trials : k[1] \in Drivers}
Code == [k \in Keys |-> TrialOf(k)]

\* own: the switch talks to this driver's controller, not to a stray one;
\* proc: the driver's own process, when it is not ctl.
NewDriver(key, tools, kills) ==
    [key |-> key, st |-> "run", pc |-> 1, own |-> TRUE, proc |-> "none",
     wd |-> "off", got |-> <<>>, read |-> 0, valid |-> TRUE, why |-> "",
     mon |-> "off", attempts |-> 0, row |-> FALSE, eligible |-> FALSE,
     tools |-> tools, kills |-> kills]

LabInit ==
    \E k \in Keys : \E a \in Adversities[k[1]] :
        /\ net = [NoNet EXCEPT !.late = a.late]
        /\ ctl = [NoController EXCEPT !.faults = a.faults]
        /\ drv = NewDriver(k, a.tools, a.kills)

-----------------------------------------------------------------------------
(* Control flow: the next step, and what a failing step does.              *)

Running == drv.st # "done"
Step == Code[drv.key][drv.st][drv.pc]
At(op) == Running /\ Step.op = op

Section(d, st) ==
    CASE st = "tail" -> [d EXCEPT !.st = "tail", !.pc = 1]
      [] st = "after" /\ d.why = "" /\ Code[d.key].after # <<>>
           -> [d EXCEPT !.st = "after", !.pc = 1]
      [] OTHER -> [d EXCEPT !.st = "done", !.pc = 1]

Forward(d) ==
    IF d.pc < Len(Code[d.key][d.st]) THEN [d EXCEPT !.pc = @ + 1]
    ELSE Section(d, CASE d.st = "run" -> "tail" [] d.st = "tail" -> "after"
                      [] OTHER -> "done")

\* A command of the driver fails.
Broken(d) == [d EXCEPT !.tools = @ - 1]

\* Fault: an invalidation is only noted.
FailsForgiving(d, else) ==
    IF else \in {"go_on", "invalid"} THEN Forward(d)
    ELSE LET e == [d EXCEPT !.valid = FALSE, !.why = else]
         IN IF d.st = "run" THEN Section(e, "tail") ELSE Section(e, "done")

\* raise and return leave the body for the finally; a raise there is final.
Fails(d, else) ==
    CASE else = "go_on" -> Forward(d)
      [] else = "invalid" -> Forward([d EXCEPT !.valid = FALSE])
      [] OTHER -> LET e == [d EXCEPT !.valid = FALSE, !.why = else]
                  IN IF d.st = "run" THEN Section(e, "tail") ELSE Section(e, "done")

-----------------------------------------------------------------------------
(* The driver's own controller process *)

ProcAlive == IF drv.own THEN ctl.alive ELSE drv.proc = "alive"

\* What it printed before it died can still be read.
Dead(c) == [NoController EXCEPT !.life = c.life, !.lines = c.lines,
                !.faults = c.faults, !.lostWhenReady = c.lostWhenReady]

\* The own process ends: the switch loses its controller if it was this one.
OwnEnds(d) ==
    /\ ctl' = IF drv.own THEN Dead(ctl) ELSE ctl
    /\ net' = IF drv.own THEN Disconnected(net) ELSE net
    /\ drv' = IF drv.own THEN d ELSE [d EXCEPT !.proc = "dead"]

LaunchStep ==
    /\ At("launch")
    /\ LET new == NewController(Step.prog, Step.mode, Step.env, ctl) IN
       \/ /\ ctl' = new
          /\ drv' = Forward([drv EXCEPT !.own = TRUE, !.read = 0])
       \* Another controller listens on the port, and the switch meets it.
       \/ /\ ctl.alive
          /\ drv' = Forward([drv EXCEPT !.own = FALSE, !.proc = "alive"])
          /\ UNCHANGED ctl
    /\ UNCHANGED net

\* Fault: the pattern of pkill matches nothing.
KillNothing ==
    /\ At("kill")
    /\ drv' = Forward(drv)
    /\ UNCHANGED <<net, ctl>>

KillStep ==
    /\ At("kill")
    /\ LET spared == ctl.alive /\ ctl.prog # Step.prog IN
       /\ ctl' = IF spared THEN ctl
                 ELSE [NoController EXCEPT !.faults = ctl.faults,
                                           !.lostWhenReady = ctl.lostWhenReady]
       /\ net' = IF spared THEN net ELSE Disconnected(net)
    /\ drv' = Forward(drv)

\* os.kill(pid, SIGTERM) and wait(timeout=5), which may raise.
StopStep ==
    /\ At("stop")
    /\ \/ OwnEnds(Forward(drv))
       \/ /\ ProcAlive /\ drv.tools > 0
          /\ drv' = Fails(Broken(drv), "raise")
          /\ UNCHANGED <<net, ctl>>

TerminateStep ==
    /\ At("terminate")
    /\ \/ OwnEnds(Forward(drv))
       \/ /\ ProcAlive /\ Step.after # "kill" /\ drv.tools > 0
          /\ drv' = IF Step.after = "raise" THEN Fails(Broken(drv), "raise")
                    ELSE Forward(Broken(drv))
          /\ UNCHANGED <<net, ctl>>

\* Fault: the watchdog signals and kills nothing.
WatchdogOnlySignals ==
    /\ Running /\ drv.wd = "armed"
    /\ drv' = [drv EXCEPT !.wd = "fired"]
    /\ UNCHANGED <<net, ctl>>

WatchdogFires ==
    /\ Running /\ drv.wd = "armed"
    /\ OwnEnds([drv EXCEPT !.wd = "fired"])

-----------------------------------------------------------------------------
(* Reading the controller's output *)

Unread == IF drv.own THEN SubSeq(ctl.lines, drv.read + 1, Len(ctl.lines)) ELSE <<>>
Wanted == {i \in DOMAIN Unread : Unread[i].event \in Step.events}

\* read_json_lines_until, read_until_ready, wait_event
Gets(name, value) ==
    [n \in DOMAIN drv.got \cup {name} |-> IF n = name THEN value ELSE drv.got[n]]

AwaitStep ==
    /\ At("await")
    /\ \/ \E i \in Wanted :
          /\ \A j \in Wanted : i <= j
          /\ drv' = Forward([drv EXCEPT
                      !.got = Gets(Step.as, Unread[i]), !.read = @ + i])
       \/ /\ Wanted = {}
          /\ Step.bounded \/ ~ProcAlive \/ Unread # <<>>
          /\ drv' = Fails(drv, Step.else)
    /\ UNCHANGED <<net, ctl>>

-----------------------------------------------------------------------------
(* Pings.  host.cmd blocks until ping has ended.                           *)

PingStep ==
    /\ At("ping")
    /\ \/ /\ net.ping.st = "idle"
          /\ net' = StartPing(net, Step.from, Step.to, Step.id, Step.count)
          /\ UNCHANGED drv
       \/ /\ PingOver
          /\ net' = [net EXCEPT !.ping = NoPing]
          /\ drv' = Forward([drv EXCEPT !.got =
                        Gets(Step.as, [ok |-> net.ping.ok, count |-> net.ping.count])])
    /\ UNCHANGED ctl

Answered(p) == p.ok = p.count

\* "0% packet loss" in output: true of 0, 10, 50 and 100 percent.
SaysNoLoss(p) == ((100 * (p.count - p.ok)) \div p.count) % 10 = 0

\* The monitor of the restart-recovery trial: ping until an answer, or until
\* the recovery window is over; a late answer does not count.
MonitorPings ==
    /\ Running /\ drv.mon = "running"
    /\ \/ /\ net.ping.st = "idle" /\ drv.attempts < MaxAttempts
          /\ net' = StartPing(net, 3, 4, 9, 1)
          /\ drv' = [drv EXCEPT !.attempts = @ + 1]
       \/ /\ net.ping.st = "idle"
          /\ drv' = [drv EXCEPT !.mon = "over"]
          /\ UNCHANGED net
       \/ /\ PingOver
          /\ net' = [net EXCEPT !.ping = NoPing]
          /\ \E within \in BOOLEAN :
               drv' = [drv EXCEPT !.mon = IF net.ping.ok = 1 /\ within
                                          THEN "recovered" ELSE @]
    /\ UNCHANGED ctl

-----------------------------------------------------------------------------
(* Checks *)

Table == {<<r.in, r.dst, r.out>> : r \in net.rules}
Pairs == {<<r.in, r.dst>> : r \in net.rules}
WarmRules == {<<2, 3, 3>>, <<3, 2, 2>>}

Says(what) ==
    CASE what = "ready" -> drv.got.ready.event = "ready"
      [] what = "setup" -> Answered(drv.got.setup)
      [] what = "unused_pairs" -> {<<1, 4>>, <<3, 4>>} \cap Pairs = {}
      [] what = "still_unused" -> <<3, 4>> \notin Pairs
      [] what = "rule_confirmed" -> drv.mon = "recovered" => <<3, 4, 4>> \in Table
      [] what = "warm_rules" -> WarmRules \subseteq Table
      [] what = "warm_ping" -> Answered(drv.got.warm)
      [] what = "preflight" -> Table = WarmRules /\ "s1" \in net.miss /\ ~net.extra
      [] what = "no_capture_yet" -> ProcAlive /\ ~ctl.captured /\ Emitted("timing") = {}
      [] what = "bridge" -> drv.got.rules /\ SaysNoLoss(drv.got.second)
      [] what = "learning" -> TRUE
      [] OTHER -> Answered(drv.got[what])       \* ", 0% packet loss"

\* Checks that read the flow table may meet a failing ovs-ofctl; the poll for
\* the warm rules waits for them.
Dumped == {"unused_pairs", "still_unused", "rule_confirmed", "warm_rules", "preflight"}

CheckStep ==
    /\ At("check")
    /\ \/ Says(Step.what) /\ drv' = Forward(drv)
       \/ ~Says(Step.what) /\ drv' = Fails(drv, Step.else)
       \/ /\ Step.what \in Dumped /\ drv.tools > 0
          /\ drv' = Fails(Broken(drv), Step.else)
    /\ UNCHANGED <<net, ctl>>

\* r["eligible_timing"] of s56: the target itself, its exact rule confirmed,
\* and no second record.
Eligible ==
    /\ "timing" \in DOMAIN drv.got
    /\ LET t == drv.got.timing IN
       /\ IdentityMatches(t.pkt, t.in, S56Env(drv.key[3]))
       /\ t.status = "confirmed"
       /\ Cardinality(Emitted("timing")) = 1

\* s56_corrected_analysis.valid, of a record whose protocol was met: whose rule
\* the observer confirmed, and whose last poll has the target rule with its
\* output port.  (How many records there are and the order of the stamps it
\* takes from the record itself; see Eligible and Timings.)
AnalysisCounts ==
    /\ "timing" \in DOMAIN drv.got
    /\ IdentityMatches(drv.got.timing.pkt, drv.got.timing.in, S56Env(drv.key[3]))
    /\ drv.got.timing.status = "confirmed" /\ drv.got.timing.seen

-----------------------------------------------------------------------------
(* The other steps *)

NetStep ==
    /\ \/ At("teardown") /\ net' = [NoNet EXCEPT !.late = net.late]
       \/ At("start") /\ net' = NewNet(Step.topo, Step.known, net.late)
       \/ At("point") /\ net' = Pointed(net)
       \/ At("cut") /\ net' = [net EXCEPT !.cut = TRUE]
       \/ At("extra") /\ net' = [net EXCEPT !.extra = TRUE]
       \/ At("delflows") /\ net' = [net EXCEPT !.rules = {}, !.miss = {}]
    /\ drv' = Forward(drv)
    /\ UNCHANGED ctl

\* A command that installs one rule, or ends with an error.
InstallStep ==
    /\ At("install")
    /\ \/ /\ net' = [net EXCEPT !.rules = AddRule(@, Step.rule)]
          /\ drv' = Forward(drv)
       \/ /\ drv.tools > 0
          /\ drv' = Fails(Broken(drv), "raise")
          /\ UNCHANGED net
    /\ UNCHANGED ctl

ArmStep ==
    /\ At("arm")
    /\ IF ProcAlive THEN /\ ctl' = [ctl EXCEPT !.armed = TRUE]
                         /\ drv' = Forward(drv)
       ELSE drv' = Fails(drv, "raise") /\ UNCHANGED ctl
    /\ UNCHANGED net

BookStep ==
    /\ \/ At("watch") /\ drv' = Forward([drv EXCEPT !.wd = "armed"])
       \/ At("unwatch") /\ drv' = Forward([drv EXCEPT !.wd = "off"])
       \/ At("monitor") /\ drv' = Forward([drv EXCEPT !.mon = "running"])
       \/ At("join") /\ drv.mon # "running" /\ drv' = Forward(drv)
       \/ At("note")
          /\ drv' = Forward([drv EXCEPT !.got =
                        Gets(Step.as, \E r \in net.rules : r.life > 0 /\ r.dst # IPOnly)])
       \/ At("row") /\ drv' = Forward([drv EXCEPT !.row = TRUE,
                                  !.eligible = drv.key[1] = "s56" /\ Eligible])
    /\ UNCHANGED <<net, ctl>>

DriverSteps ==
    \/ LaunchStep \/ KillStep \/ StopStep \/ TerminateStep
    \/ AwaitStep \/ PingStep \/ MonitorPings \/ CheckStep
    \/ NetStep \/ InstallStep \/ ArmStep \/ BookStep

\* SIGKILL: no finally.  The driver is then started again, and its first step
\* (s56: Start) drops the old network: what is in flight makes no difference.
DriverKilled ==
    /\ Running /\ drv.kills > 0 /\ Quiet
    /\ \E k \in Keys : /\ k[1] = drv.key[1] /\ k[3] = drv.key[3]
                       /\ drv' = NewDriver(k, drv.tools, drv.kills - 1)
    /\ UNCHANGED <<net, ctl>>

-----------------------------------------------------------------------------

FabricStep == FabricNext /\ UNCHANGED <<ctl, drv>>
ControllerStep == ControllerNext /\ UNCHANGED drv

LabNext == FabricStep \/ ControllerStep \/ DriverSteps \/ WatchdogFires \/ DriverKilled

\* Processes and switches go on; timers fire; the observer's deadline comes
\* even while its polls go on.
LabFairness ==
    /\ WF_labvars(FabricStep)
    /\ WF_labvars(ControllerStep)
    /\ WF_labvars(ObserverDeadline /\ UNCHANGED drv)
    /\ WF_labvars(DriverSteps)
    /\ WF_labvars(WatchdogFires)

LabSpec == LabInit /\ [][LabNext]_labvars /\ LabFairness

-----------------------------------------------------------------------------
(* Properties *)

Frames == [sw : {"s1", "s2"}, in : 1..4,
           pkt : [kind : {"arpreq", "arprep", "echo", "reply"},
                  src : 1..4, to : 1..4, id : 0..9, seq : 0..2]]

\* The shape of the state, and where the parts agree: a record of a trial
\* exists only when its body got that far, the watchdog is armed only by a
\* running trial, and no event waits for a controller that is gone.
TypeOK ==
    /\ net.air \subseteq Frames
    /\ net.ping.st \in {"idle", "ready", "arp", "echo", "answered"}
    /\ net.ping.ok <= net.ping.sent /\ net.ping.sent <= net.ping.count
    /\ ctl.pc \in {"idle", "confirm", "profile", "observe", "polled"}
    /\ ctl.pc # "idle" => ctl.alive
    /\ net.pin # <<>> => net.conn
    /\ net.conn => ctl.alive
    /\ drv.key \in Keys
    /\ drv.st \in {"run", "tail", "after", "done"}
    /\ drv.read <= Len(ctl.lines)
    /\ drv.wd = "armed" => drv.st \in {"run", "tail"}

\* Whatever is lost, late or reordered between the decision and the switch,
\* a rule that a controller installed for a host leads to that host.
RulesLeadHome ==
    \A r \in net.rules :
        r.life > 0 /\ r.dst # IPOnly => r.out = PortTowards(net.topo, r.sw, r.dst)

\* Once the driver has read "ready", no packet is lost for want of an adapter:
\* the handler of daim_bridge_controller.packet_in meets a bridge.
ReadyMeansServed == ~ctl.lostWhenReady

\* A trial counts for the corrected measurement only if the target packet
\* itself made the controller install the rule that the observer saw: not the
\* warm-up, a reply or another ping.  The analysis, which reads the polls again,
\* counts the same trials.
EligibleIsTarget ==
    /\ drv.eligible /\ net.up =>
        /\ \E r \in net.rules : r.in = 1 /\ r.dst = 2 /\ r.out = 2 /\ r.id = TargetId
        /\ drv.got.timing.pkt = Packet("echo", 1, 2, TargetId, 1)
    /\ drv.key[1] = "s56" /\ drv.key[3] = "normal" /\ drv.row /\ drv.valid =>
        (drv.eligible <=> AnalysisCounts)

\* A valid record of a recovery is one of the restarted controller: the pair
\* (3, 4) works by a rule of its second life, and without a controller the
\* new pair (1, 4) did not work.
RecoveryIsReal ==
    drv.row /\ drv.valid /\ drv.mon = "recovered" /\ net.up =>
        /\ \E r \in net.rules : r.in = 3 /\ r.dst = 4 /\ r.life = ctl.life
        /\ drv.got.q2.ok = 0

\* A driver that is started again after it was killed meets its own
\* controller, and one that kills what does not stop leaves none behind.
KillsStrays == {"latency", "load", "recovery"}
ControllerOfItsOwn ==
    drv.key[1] \in KillsStrays =>
        drv.own /\ (drv.st = "done" => ~ctl.alive)

\* The read loop of r5_diag_q2 has no bound; every other trial ends, with its
\* record or without, even if the controller hangs or says nothing.
EveryTrialEnds == drv.key[1] # "diag" ~> drv.st = "done"

\* packetin_latency_breakdown: the timing event is the timed ping's.
TimedPingIsCaptured ==
    drv.key[1] = "latency" /\ drv.row => drv.got.timing.pkt.src = 1

=============================================================================
