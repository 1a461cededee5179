---------------------------- MODULE LabInvariants ----------------------------
(***************************************************************************)
(* The inductive invariant behind the safety properties of Lab, in layers: *)
(* where a driver is in its script, what the network and a controller may  *)
(* hold given the pings that the driver has made so far, which controllers *)
(* are alive, what a record counts and what a recovery shows.  LabProofs   *)
(* proves each layer from those before it.                                 *)
(***************************************************************************)
EXTENDS Lab

-----------------------------------------------------------------------------
(* The scripts *)

Ops == {"teardown", "kill", "launch", "watch", "unwatch", "start", "point",
        "await", "ping", "check", "install", "delflows", "stop", "arm", "cut",
        "extra", "monitor", "join", "row", "note", "terminate"}

\* The topology of a driver, and the controllers it launches.
TopologyOf(d) ==
    CASE d \in {"load", "recovery"} -> SingleSwitchTopo(4)
      [] d \in {"latency", "diag", "s56"} -> SingleSwitchTopo(3)
      [] OTHER -> TwoSwitchTopo

ProgsOf(d) ==
    CASE d \in {"latency", "recovery"} -> {"bridge", "osken"}
      [] d \in {"load", "diag"} -> {"bridge"}
      [] d = "s56" -> {"s56"}
      [] d = "smoke" -> {"bridge", "learning"}
      [] d = "full" -> {"direct"}
      [] OTHER -> {}

\* Where the body of a trial starts its network and its (first) controller.
StartAt(k) ==
    CASE k[1] = "latency" -> 6
      [] k[1] \in {"load", "recovery"} -> 5
      [] k[1] \in {"diag", "smoke"} -> 3
      [] k[1] = "s56" -> 1
      [] k[2] = "direct_osken" -> 4
      [] OTHER -> 2
LaunchAt(k) ==
    CASE k[1] \in {"latency", "recovery"} -> 4
      [] k[1] = "load" \/ k[2] = "direct_osken" -> 3
      [] OTHER -> 2

\* The recovery: its ping without a controller, its second controller, and the
\* steps between which its monitor runs.
WithoutAt == 15
RestartAt == 17
MonitorAt == 18
JoinAt == 20

\* The direct baseline, whose watchdog guards two reads.
Direct(k) == k[1] = "full" /\ k[2] = "direct_osken"

\* All rules of these trials come from a controller that learns.
Learns(d) == d \in {"s56", "recovery"}

-----------------------------------------------------------------------------
(* What the network carries *)

Sws == {"s1", "s2"}
Hosts == 1..4
Pkts == [kind : {"arpreq", "arprep", "echo", "reply"},
         src : Hosts, to : Hosts, id : 0..9, seq : 0..2]
RuleSet == [sw : Sws, in : 0..4, dst : Hosts \cup {All, AnyDst, IPOnly}, out : 0..4,
            life : Nat, id : 0..9]

\* The pings <<from, to, id>> that a driver may have made when it has got to
\* step pc.  Before it has started its network, the one of a driver that was
\* killed may still be there.
AllPings(t) == (DOMAIN t.at) \X (DOMAIN t.at) \X (0..9)
AskedAt(k, st, pc) ==
    CASE k[1] = "s56" ->
           {<<3, 2, 1>>,
            <<1, 2, IF k[3] = "wrong_identity" THEN TargetId + 1 ELSE TargetId>>}
      [] k[1] = "recovery" ->
           {<<3, 2, 1>>, <<1, 2, 2>>, <<1, 2, 3>>}
           \cup (IF st = "run" /\ pc \in 6 .. (WithoutAt - 1) THEN {} ELSE {<<1, 4, 4>>})
           \cup (IF st = "run" /\ pc \in 6 .. MonitorAt THEN {} ELSE {<<3, 4, 9>>})
      [] OTHER -> AllPings(TopologyOf(k[1]))

\* What the layers below need to know of a step of a body: of its network,
Wired(k, i, s) ==
    /\ s.op = "start" <=> i = StartAt(k)
    /\ s.op = "start" => /\ s.topo = TopologyOf(k[1])
                         /\ s.known = IF k[1] = "s56" THEN {<<1, 2>>, <<2, 1>>} ELSE {}
    /\ s.op = "teardown" => i < StartAt(k)
    /\ s.op \in {"point", "ping", "install", "delflows", "cut", "extra"} => i > StartAt(k)
    /\ s.op = "install" => s.rule \in RuleSet /\ s.rule.life = 0
    /\ s.op \in {"install", "delflows"} => ~Learns(k[1])

\* of its pings,
Pinged(k, i, s) ==
    s.op = "ping" => <<s.from, s.to, s.id>> \in AskedAt(k, "run", i) /\ s.count \in 1..2

\* of its controllers,
Manned(k, i, s) ==
    /\ s.op = "launch" => /\ i = LaunchAt(k) \/ (k[1] = "recovery" /\ i = RestartAt)
                          /\ s.prog \in ProgsOf(k[1])
                          /\ k[1] = "s56" => s.env = S56Env(k[3])
    /\ i = LaunchAt(k) /\ (k[1] = "s56" \/ Direct(k)) => s.op = "launch"
    /\ s.op = "kill" => i < LaunchAt(k)
    /\ i <= LaunchAt(k) \/ i <= StartAt(k) =>
         s.op \in {"teardown", "kill", "launch", "watch", "start"}
    /\ k[1] \in KillsStrays =>
         /\ i = LaunchAt(k) - 1 =>
              s.op = "kill" /\ s.prog = IF k[1] = "load" THEN "bridge" ELSE "osken"
         /\ i = LaunchAt(k) - 2 /\ k[1] # "load" => s.op = "kill" /\ s.prog = "bridge"
         /\ k[1] = "recovery" /\ i = WithoutAt - 2 => s.op = "stop"

\* of its threads,
Threaded(k, i, s) ==
    /\ s.op \in Ops
    /\ s.op = "monitor" <=> k[1] = "recovery" /\ i = MonitorAt
    /\ k[1] = "recovery" /\ i \in MonitorAt + 1 .. JoinAt =>
         IF i = JoinAt THEN s.op = "join" ELSE s.op = "await" /\ s.else = "go_on"
    /\ s.op = "watch" => k[1] \in {"latency", "load"} \/ (Direct(k) /\ i = 6)
    /\ Direct(k) /\ i \in 4..9 =>
         /\ s.op \in {"start", "point", "watch", "await", "unwatch"}
         /\ s.op = "await" => i \in 7..8 /\ s.events = {"flow_confirmed"} /\ ~s.bounded
         /\ s.op = "unwatch" <=> i = 9

\* and of what it reads and records.
Told(k, i, s) ==
    /\ s.op = "await" => i > LaunchAt(k)
    /\ k[1] = "s56" =>
         /\ s.op \in {"ping", "note"} => s.as # "timing"
         /\ s.op = "await" /\ s.as = "timing" => s.events = {"timing"}
    /\ k[1] = "recovery" =>
         /\ i \in {WithoutAt - 1, WithoutAt} => s.op = "ping"
         /\ i = WithoutAt => s.from = 1 /\ s.to = 4 /\ s.as = "q2"
         /\ i # WithoutAt /\ s.op \in {"await", "ping", "note"} => s.as # "q2"
         /\ i = JoinAt + 1 => s.op = "check" /\ s.what = "rule_confirmed" /\ s.else = "invalid"
         /\ s.op = "row" <=> i = JoinAt + 2

Fits(k, i, s) ==
    Wired(k, i, s) /\ Pinged(k, i, s) /\ Manned(k, i, s) /\ Threaded(k, i, s) /\ Told(k, i, s)

\* Where the tail ends the controller.
TerminateAt(k) == IF k[1] = "recovery" THEN 2 ELSE 3

\* What comes after the body.
Ends(k, tail, after) ==
    /\ Len(tail) > 0 /\ (after = <<>> \/ Len(after) > 0)
    /\ \A i \in 1 .. Len(tail) : tail[i].op \in {"unwatch", "teardown", "terminate"}
    /\ \A i \in 1 .. Len(after) : after[i].op \in {"check", "row"}
    /\ k[1] \in KillsStrays \cup {"s56"} => after = <<>>
    /\ k[1] \in KillsStrays =>
         /\ Len(tail) = TerminateAt(k) + 1
         /\ tail[TerminateAt(k)] = Terminate("kill")
         /\ \A i \in 1 .. Len(tail) : tail[i].op = "terminate" => i = TerminateAt(k)
    /\ k[1] \in {"latency", "load"} => tail[1].op = "unwatch"

WellScripted(k) ==
    LET c == TrialOf(k) IN
    /\ \A st \in {"run", "tail", "after"} : Len(c[st]) \in Nat
    /\ StartAt(k) < Len(c.run) /\ LaunchAt(k) < Len(c.run)
    /\ k[1] = "recovery" => Len(c.run) = JoinAt + 2
    /\ Direct(k) => Len(c.run) > 9
    /\ \A i \in 1 .. Len(c.run) : Fits(k, i, c.run[i])
    /\ k[1] = "s56" => \A i, j \in 1 .. Len(c.run) :
                         c.run[i].op = "row" /\ i < j => c.run[j].op # "await"
    /\ Ends(k, c.tail, c.after)

-----------------------------------------------------------------------------
(* Layer 1: where the driver is *)

\* A driver's record; what it has read and printed may be anything.
IsDriver(d) ==
    d \in [key : Keys, st : {"run", "tail", "after", "done"}, pc : Nat, own : BOOLEAN,
           proc : {"none", "alive", "dead"}, wd : {"off", "armed", "fired"}, got : {d.got},
           read : {d.read}, valid : BOOLEAN, why : {d.why},
           mon : {"off", "running", "over", "recovered"}, attempts : Nat, row : BOOLEAN,
           eligible : BOOLEAN, tools : Int, kills : Int]

\* It is at a step of its script.
Placed(d) == d.st # "done" => d.pc \in 1 .. Len(Code[d.key][d.st])

PlaceInv ==
    /\ IsDriver(drv) /\ Placed(drv)
    /\ drv.mon # "off" => drv.key[1] = "recovery"
    /\ drv.mon = "running" => drv.st = "run" /\ drv.pc \in MonitorAt + 1 .. JoinAt

\* The network of this trial has been started; so has a controller.
HasNet == drv.st # "run" \/ drv.pc > StartAt(drv.key)
HasLaunched == drv.st # "run" \/ drv.pc > LaunchAt(drv.key)

-----------------------------------------------------------------------------
(* Layer 2: what the network and the controller hold *)

\* A packet is a ping's, or the answer to one.
Explained(p, A) ==
    \E a \in A :
        \/ /\ p.kind \in {"arpreq", "echo"} /\ p.src = a[1] /\ p.to = a[2]
           /\ p.kind = "echo" => p.id = a[3]
        \/ /\ p.kind \in {"arprep", "reply"} /\ p.src = a[2] /\ p.to = a[1]
           /\ p.kind = "reply" => p.id = a[3]

Traffic(A) == {p \in Pkts : Explained(p, A)}

\* A packet is where it comes by the port that leads back to its source.
Arrives(t, A, f) ==
    /\ f.pkt \in Traffic(A)
    /\ f.sw \in Switches(t) /\ f.in = PortTowards(t, f.sw, f.pkt.src)

Arrived(t, A) == {f \in Frames : Arrives(t, A, f)}

\* A rule that was learnt leads the packet it was made for to its destination.
Made(t, A, r) ==
    \E p \in Traffic(A) :
        /\ p.kind # "arpreq" /\ r.sw \in Switches(t) /\ r.dst = p.to /\ r.id = p.id
        /\ r.in = PortTowards(t, r.sw, p.src) /\ r.out = PortTowards(t, r.sw, p.to)

\* The rules of no host: those that a driver installs, and the Stage 2 rule.
Given(d) == IF Learns(d) THEN {} ELSE {r \in RuleSet : r.life = 0 \/ r.dst = IPOnly}
Rules(t, A, J) == {r \in RuleSet : r \in J \/ Made(t, A, r)}

PlainEvents == [type : {"features", "barrier"}, sw : Sws]
PacketEvents(t, A) ==
    {e \in [type : {"packet"}, sw : Sws, in : Hosts, pkt : Pkts] : Arrives(t, A, e)}
Events(t, A) == PlainEvents \cup PacketEvents(t, A)

PlainMessages == [type : {"miss", "barrier"}, sw : Sws]
FlowMods(R) == [type : {"flow"}, rule : R]
PacketOuts(t, A) ==
    {m \in [type : {"packet"}, sw : Sws, in : Hosts, port : 0..4, pkt : Pkts] : Arrives(t, A, m)}
Messages(t, A, R) == PlainMessages \cup FlowMods(R) \cup PacketOuts(t, A)

Pings(A) ==
    {p \in [st : {"idle", "ready", "arp", "echo", "answered"}, from : 0..4, to : 0..4,
            id : 0..9, count : 0..2, sent : 0..2, ok : 0..2] :
        /\ p.ok <= p.sent /\ p.sent <= p.count
        /\ p.st \in {"arp", "echo", "answered"} => p.ok < p.sent
        /\ p.st # "idle" => <<p.from, p.to, p.id>> \in A}

\* A network of topology t, with rules R.
Networks(t, A, R) ==
    [up : BOOLEAN, topo : {t}, rules : SUBSET R, extra : BOOLEAN,
     miss : SUBSET Sws, air : SUBSET Arrived(t, A), pin : Seq(Events(t, A)),
     out : Seq(Messages(t, A, R)), adp : Seq(R), conn : BOOLEAN,
     nb : SUBSET (Hosts \X Hosts), ping : Pings(A), cut : BOOLEAN, late : Int]

\* mn -c has run.
Bare(n) == n = [NoNet EXCEPT !.late = n.late] /\ n.late \in Int

Topology == TopologyOf(drv.key[1])
Asked == AskedAt(drv.key, drv.st, drv.pc)
MyRules == Rules(Topology, Asked, Given(drv.key[1]))

NetworkInv ==
    /\ net \in Networks(Topology, Asked, MyRules) \/ (~(drv.st = "run" /\ HasNet) /\ Bare(net))
    /\ net.pin # <<>> => net.conn
    /\ net.conn => ctl.alive

\* The switch that a bridge name or a datapath id stands for.
Names == Sws \cup {"0001", "0002"}
SwitchOf(name) == IF name \in {"s1", "0001"} THEN "s1" ELSE "s2"

\* A station was learnt at the port that leads to it.
Learnt(t) ==
    {s \in Names \X Hosts \X Hosts :
        s[2] \in DOMAIN t.at /\ s[3] = PortTowards(t, SwitchOf(s[1]), s[2])}

Timings ==
    [event : {"timing"}, pkt : Pkts, in : Hosts, installed : BOOLEAN, confirmed : BOOLEAN,
     status : {"none", "confirmed", "timed_out", "tool_error"}, seen : BOOLEAN]
Lines ==
    [event : {"ready", "adapter_error", "flow_confirmed"}]
    \cup [event : {"load_profile"}, flows : Int] \cup Timings

Captured == [pkt : Pkts, sw : Sws, in : Hosts, out : 0..4, name : Names, installed : BOOLEAN]

\* A controller of a network of topology t.
IsController(c, t) ==
    c \in [prog : {c.prog}, mode : {c.mode}, env : {c.env}, alive : BOOLEAN, life : Nat,
           core : {"none", "built", "failed"}, missed : SUBSET Sws, ofReady : BOOLEAN,
           announced : BOOLEAN, named : SUBSET Sws, stations : SUBSET Learnt(t), flows : Int,
           captured : BOOLEAN, reported : BOOLEAN, armed : BOOLEAN,
           pc : {"idle", "confirm", "profile", "observe", "polled"},
           cap : Captured \cup {NoCap}, late : BOOLEAN,
           snap : {"none", "nonzero_exit", "expired", "matched", "rules"},
           seen : BOOLEAN, faults : Int, lostWhenReady : BOOLEAN, lines : Seq(Lines)]

ControllerInv ==
    /\ IsController(ctl, Topology)
    /\ ctl.alive => ctl.prog \in ProgsOf(drv.key[1])
    /\ ctl.pc # "idle" => ctl.alive /\ ctl.cap \in Captured

-----------------------------------------------------------------------------
(* Layer 3: which controller is alive, and what the driver has read of it *)

\* Where a driver that kills what it meets has no controller.
Unmanned(k, st, pc) ==
    CASE st = "run" -> \/ pc = LaunchAt(k)
                       \/ k[1] = "recovery" /\ pc \in WithoutAt - 1 .. RestartAt
      [] st = "tail" -> pc > TerminateAt(k)
      [] OTHER -> TRUE

OwnInv ==
    drv.key[1] \in KillsStrays =>
        /\ drv.own
        /\ Unmanned(drv.key, drv.st, drv.pc) => ~ctl.alive
        /\ drv.key[1] # "load" /\ drv.st = "run" /\ drv.pc = LaunchAt(drv.key) - 1 /\ ctl.alive
             => ctl.prog = "osken"

ReadInv ==
    /\ drv.read \in Nat
    /\ IF drv.own THEN drv.read <= Len(ctl.lines) ELSE drv.read = 0
    /\ ~HasLaunched => drv.own /\ drv.read = 0

\* A bridge says that it is ready only when it has its adapter.
ReadyInv ==
    /\ ctl.alive /\ ctl.prog = "bridge" /\ Emitted("ready") # {} => ctl.core = "built"
    /\ ~ctl.lostWhenReady

-----------------------------------------------------------------------------
(* Layer 4: the watchdog.  That of the direct baseline guards two reads    *)
(* that nothing else can fail; the other drivers call it off first thing   *)
(* after the body.                                                         *)

OnlyConfirmations(lines) == \A i \in DOMAIN lines : lines[i].event = "flow_confirmed"

WatchInv ==
    /\ drv.wd = "armed" =>
         \/ drv.key[1] \in {"latency", "load"} /\ (drv.st = "run" \/ (drv.st = "tail" /\ drv.pc = 1))
         \/ Direct(drv.key) /\ drv.st = "run" /\ drv.pc \in 7..9
    /\ drv.key[1] = "full" => ctl.pc = "idle"
    /\ Direct(drv.key) /\ drv.st = "run" =>
         /\ drv.pc <= 6 => drv.wd = "off"
         /\ drv.pc \in 4..9 => /\ drv.wd # "fired" => ProcAlive
                               /\ drv.own => OnlyConfirmations(ctl.lines)

-----------------------------------------------------------------------------
(* Layer 5: the corrected measurement *)

TargetPort(k) == IF k[3] = "observer_timeout" THEN 3 ELSE 2
TargetSeen == Bare(net) \/ \E r \in net.rules : r.in = 1 /\ r.dst = 2 /\ r.out = TargetPort(drv.key)
IsTarget(e) == IdentityMatches(e.pkt, e.in, S56Env(drv.key[3]))

\* At most one record, of the target; it is confirmed only if its rule is there.
CaptureInv ==
    drv.key[1] = "s56" /\ HasLaunched /\ drv.own =>
        /\ ctl.alive => ctl.prog = "s56" /\ ctl.env = S56Env(drv.key[3])
        /\ ctl.captured => <<1, 2, TargetId>> \in Asked
        /\ \A i, j \in Emitted("timing") : i = j
        /\ ctl.alive => (Emitted("timing") # {} <=> ctl.captured /\ ctl.pc = "idle")
        /\ ctl.pc # "idle" => ctl.pc \in {"observe", "polled"} /\ ctl.captured /\ IsTarget(ctl.cap)
        /\ ctl.pc = "polled" /\ ctl.snap = "matched" => ctl.seen /\ TargetSeen
        /\ \A i \in Emitted("timing") :
             /\ IsTarget(ctl.lines[i]) /\ <<1, 2, TargetId>> \in Asked
             /\ ctl.lines[i].status = "confirmed" => ctl.lines[i].seen /\ TargetSeen

\* What the driver counts is the record it read.
EligibleInv ==
    /\ drv.eligible => drv.key[1] = "s56" /\ drv.row
    /\ drv.key[1] = "s56" =>
        /\ "timing" \in DOMAIN drv.got =>
             /\ drv.own /\ HasLaunched
             /\ \E i \in Emitted("timing") : drv.got.timing = ctl.lines[i]
        /\ drv.row => (drv.eligible <=> AnalysisCounts)
        /\ drv.row /\ drv.st = "run" => \E i \in 1 .. drv.pc - 1 : Code[drv.key].run[i].op = "row"

-----------------------------------------------------------------------------
(* Layer 6: the recovery *)

\* The pair that nobody uses before the restart, and the pair that is first
\* used without a controller.
OfRecovery(r) == r.in = 3 /\ r.dst = 4
NewPair(p) == <<p.src, p.to>> \in {<<1, 4>>, <<4, 1>>}

\* Nothing but ARP requests of h1 goes between h1 and h4.
NoAnswer ==
    /\ net.ping.st \in {"idle", "ready", "arp"} /\ net.ping.ok = 0
    /\ net.ping.st # "idle" => net.ping.from = 1 /\ net.ping.to = 4
    /\ \A f \in net.air : NewPair(f.pkt) => f.pkt.kind = "arpreq" /\ f.pkt.src = 1
    /\ \A i \in DOMAIN net.out : net.out[i].type = "packet" => ~NewPair(net.out[i].pkt)

\* The rules of a network, and those on their way to it.
Decided(n) ==
    n.rules \cup {n.adp[i] : i \in DOMAIN n.adp}
    \cup {n.out[i].rule : i \in {j \in DOMAIN n.out : n.out[j].type = "flow"}}

\* A rule of the unused pair is of the controller that runs.
LifeInv ==
    drv.key[1] = "recovery" /\ HasNet =>
        \A r \in Decided(net) : OfRecovery(r) => r.life = ctl.life

\* Until the ping without a controller is over, h1 does not know h4.
UnusedInv ==
    drv.key[1] = "recovery" /\ drv.st = "run" /\ HasNet =>
        /\ drv.pc <= WithoutAt => <<1, 4>> \notin net.nb
        /\ drv.pc = WithoutAt => NoAnswer

\* That ping had no answer.
UnansweredInv ==
    drv.key[1] = "recovery" =>
        /\ drv.row \/ (drv.st = "run" /\ drv.pc > WithoutAt) => "q2" \in DOMAIN drv.got
        /\ "q2" \in DOMAIN drv.got => drv.got.q2.ok = 0
        /\ drv.row => drv.st # "run"

\* What is recovered was seen in the table, and stays there.
ConfirmedInv ==
    drv.key[1] = "recovery" /\ (drv.row \/ (drv.st = "run" /\ drv.pc > JoinAt + 1))
    /\ drv.valid /\ drv.mon = "recovered" /\ ~Bare(net)
        => \E r \in net.rules : OfRecovery(r)

-----------------------------------------------------------------------------
(* The inductive invariant *)

LabInv ==
    /\ PlaceInv /\ NetworkInv /\ ControllerInv /\ OwnInv /\ ReadInv /\ ReadyInv
    /\ WatchInv /\ CaptureInv /\ EligibleInv
    /\ LifeInv /\ UnusedInv /\ UnansweredInv /\ ConfirmedInv

=============================================================================
