------------------------------- MODULE Scripts -------------------------------
(***************************************************************************)
(* The trials of the experiment drivers (network/*.py) as data.  A trial   *)
(* is the body of its try statement, the tail of its finally and, when     *)
(* nothing was raised, what comes after it: sequences of steps that the    *)
(* driver takes in the order of the source.  Lab says what a step does.    *)
(* A ping of several requests is one request, but for the priming ping of  *)
(* the latency breakdown; forty load senders are one; a topology of n      *)
(* switches has two.                                                       *)
(***************************************************************************)
EXTENDS Controllers

-----------------------------------------------------------------------------
(* The steps.  The field "else" says what follows when a step fails.       *)

TearDown == [op |-> "teardown"]             \* mn -c, or net.stop()
Kill(prog) == [op |-> "kill", prog |-> prog]                 \* pkill -9 -f
Launch(prog, mode, env) ==
    [op |-> "launch", prog |-> prog, mode |-> mode, env |-> env]
Watch == [op |-> "watch"]                   \* start the watchdog thread
Unwatch == [op |-> "unwatch"]               \* watchdog_fired.set()
Start(topo, known) == [op |-> "start", topo |-> topo, known |-> known]
Point == [op |-> "point"]                   \* ovs-vsctl set-controller

\* Read lines until one of these events; a bounded read has a deadline that
\* holds even when nothing is printed.
Await(as, events, bounded, else) ==
    [op |-> "await", as |-> as, events |-> events, bounded |-> bounded, else |-> else]
Ping(from, to, id, count, as) ==
    [op |-> "ping", from |-> from, to |-> to, id |-> id, count |-> count, as |-> as]
Check(what, else) == [op |-> "check", what |-> what, else |-> else]
Install(rule) == [op |-> "install", rule |-> rule]
DelFlows == [op |-> "delflows"]
Stop == [op |-> "stop"]                     \* SIGTERM, then wait(5)
Arm == [op |-> "arm"]                       \* the control socket of s56
Cut == [op |-> "cut"]                       \* h2's link goes down
ExtraRule == [op |-> "extra"]
Monitor == [op |-> "monitor"]               \* start the recovery monitor
Join == [op |-> "join"]
Row == [op |-> "row"]                       \* the trial's record is complete
Note(as) == [op |-> "note", as |-> as]      \* dump-flows, looked at later

\* Stop a process that is still there.  After: what the source does if it
\* does not end in time: kill it, raise, or go on without waiting.
Terminate(after) == [op |-> "terminate", after |-> after]

Trial(body, tail, after) == [run |-> body, tail |-> tail, after |-> after]

\* TARGET_IP and LOAD_PROFILE_SIGNAL_IP in the controller's environment.
Targets(h) == [NoEnv EXCEPT !.target = h]
Signals(h) == [NoEnv EXCEPT !.signal = h]

ProgFor(mode) == IF mode = "osken" THEN "osken" ELSE "bridge"
Controller(mode) == Launch(ProgFor(mode), mode, Targets(2))

-----------------------------------------------------------------------------
(* packetin_latency_breakdown.run_trial.  h3 teaches DAIM where h2 is;     *)
(* then h1's ping is timed.                                                *)

ReadReady == Await("ready", {"ready", "adapter_error"}, FALSE, "raise")

Latency(mode) ==
    Trial(
        <<TearDown, Kill("bridge"), Kill("osken"),
          Controller(mode), Watch,
          Start(SingleSwitchTopo(3), {}), Point,
          ReadReady, Check("ready", "raise"),
          Ping(3, 2, 1, 2, "prime"), Ping(1, 2, 2, 1, "timed"),
          Await("timing", {"timing"}, FALSE, "raise"), Unwatch, Row>>,
        <<Unwatch, TearDown, Terminate("kill"), TearDown>>, <<>>)

\* control_plane_load_profile.run_trial, with one sender for the forty: h2
\* primes h1, h3 sends, and h4 is the host that marks the end.
LoadProfile(mode) ==
    Trial(
        <<TearDown, Kill("bridge"),
          Launch("bridge", mode, Signals(4)), Watch,
          Start(SingleSwitchTopo(4), {}), Point,
          ReadReady, Check("ready", "raise"),
          Ping(2, 1, 1, 1, "prime"), Ping(3, 1, 2, 1, "sender"),
          Ping(4, 1, 3, 1, "signal"),
          Await("load_profile", {"load_profile"}, FALSE, "raise"), Unwatch, Row>>,
        <<Unwatch, TearDown, Terminate("kill"), TearDown>>, <<>>)

-----------------------------------------------------------------------------
(* r5_restart_recovery_feasibility.run_trial: the rules outlive the        *)
(* controller, nothing new is learnt without it, and a restarted one       *)
(* serves the pair (3, 4) that nobody has used.                            *)

BoundedReady(else) == Await("ready", {"ready", "adapter_error"}, TRUE, else)

Recovery(mode) ==
    Trial(
        <<TearDown, Kill("bridge"), Kill("osken"), Controller(mode),
          Start(SingleSwitchTopo(4), {}), Point,
          BoundedReady("setup"), Check("ready", "setup"),
          Ping(3, 2, 1, 1, "warm"), Ping(1, 2, 2, 1, "setup"),
          Check("setup", "setup"), Check("unused_pairs", "invalid"),
          Stop, Ping(1, 2, 3, 1, "q1"), Ping(1, 4, 4, 1, "q2"),
          Check("still_unused", "invalid"),
          Controller(mode), Monitor, BoundedReady("go_on"), Join,
          Check("rule_confirmed", "invalid"), Row>>,
        <<TearDown, Terminate("kill"), TearDown>>, <<>>)

\* r5_diag_q2.main: the same question once, with nothing judged.  Its read
\* loop has no watchdog and does not know adapter_error.
DiagQ2 ==
    Trial(
        <<TearDown, Launch("bridge", "persistent", Targets(2)),
          Start(SingleSwitchTopo(3), {}), Point, Await("ready", {"ready"}, FALSE, "go_on"),
          Ping(3, 2, 1, 1, "warm"), Ping(1, 2, 2, 1, "setup"), Stop,
          Ping(1, 3, 3, 1, "q2")>>,
        <<TearDown, Terminate("leave"), TearDown>>, <<>>)

-----------------------------------------------------------------------------
(* s56_corrected_runner.trial.  Nothing is cleaned up before it: bridges,  *)
(* sockets and logs of a trial have names of their own.                    *)

Scenarios == {"warmup_only", "wrong_identity", "normal", "unexpected_rule",
              "ping_failure", "observer_timeout", "observer_error"}
TargetId == 2      \* the ICMP id of the target packet

S56Env(scenario) ==
    [NoEnv EXCEPT !.id = TargetId, !.seq = 1,
        !.absent = scenario = "observer_error",
        !.wrongport = scenario = "observer_timeout"]

When(condition, steps) == IF condition THEN steps ELSE <<>>

S56(mode, scenario) ==
    Trial(
        <<Start(SingleSwitchTopo(3), {<<1, 2>>, <<2, 1>>}),
          Launch("s56", mode, S56Env(scenario)), Point,
          BoundedReady("return"), Check("ready", "raise"),
          Ping(3, 2, 1, 1, "warm"), Check("warm_rules", "return"),
          Check("warm_ping", "return")>>
        \o When(scenario = "unexpected_rule", <<ExtraRule>>)
        \o <<Check("preflight", "deviation"), Check("no_capture_yet", "deviation")>>
        \o When(scenario # "warmup_only",
             <<Arm>>
             \o When(scenario = "ping_failure", <<Cut>>)
             \o <<Ping(1, 2, TargetId + (IF scenario = "wrong_identity" THEN 1 ELSE 0),
                       1, "target"),
                  Await("timing", {"timing"}, TRUE, "go_on"), Row>>
             \o When(scenario = "normal", <<Ping(1, 2, TargetId, 1, "duplicate")>>)),
        <<Terminate("kill"), TearDown>>, <<>>)

-----------------------------------------------------------------------------
(* The smoke runs.  A process that does not end within five seconds makes  *)
(* wait() raise, in the body as in the finally.                            *)

Smoke(prog, pings) ==
    Trial(
        <<TearDown, Launch(prog, IF prog = "bridge" THEN "ppr" ELSE "osken", NoEnv),
          Start(TwoSwitchTopo, {}), Point>> \o pings \o
        <<Stop, Ping(1, 2, 3, 1, "after_stop")>>,
        <<TearDown, Terminate("raise"), TearDown>>, <<Check(prog, "raise"), Row>>)

BridgeSmoke ==
    Smoke("bridge", <<Ping(1, 2, 1, 1, "first"), Note("rules"),
                      Ping(1, 2, 2, 1, "second")>>)
LearningSmoke == Smoke("learning", <<Ping(1, 2, 1, 1, "first")>>)

-----------------------------------------------------------------------------
(* The Stage 2 benchmarks: one rule in every switch, then a ping.          *)

Rule(sw, in, dst, out) ==
    [sw |-> sw, in |-> in, dst |-> dst, out |-> out, life |-> 0, id |-> 0]
NormalFlow(sw) == Rule(sw, AnyPort, IPOnly, FLOOD)
PortOneToTwo(sw) == Rule(sw, 1, AnyDst, 2)
PortTwoToOne(sw) == Rule(sw, 2, AnyDst, 1)

AfterBenchmark == <<TearDown, TearDown>>

\* run_cli_mode of stage2_full_compare, run_size of benchmark_stage2 and
\* run_one of benchmark_stage2_compare: they differ in the command.
InstallNormal ==
    Trial(
        <<TearDown, Start(TwoSwitchTopo, {}),
          Install(NormalFlow("s1")), Install(NormalFlow("s2")),
          Ping(1, 2, 1, 1, "stage2"), Row>>, AfterBenchmark, <<>>)

FullCompareCli == InstallNormal
BenchmarkStage2 == InstallNormal
BenchmarkCompare == InstallNormal

\* stage2_full_compare.run_direct_osken: the watchdog starts after the net.
DirectOsken ==
    Trial(
        <<TearDown, Kill("direct"), Launch("direct", "osken", NoEnv),
          Start(TwoSwitchTopo, {}), Point, Watch,
          Await("flow_confirmed", {"flow_confirmed"}, FALSE, "raise"),
          Await("flow_confirmed", {"flow_confirmed"}, FALSE, "raise"), Unwatch,
          Ping(1, 2, 1, 1, "stage2"), Row>>,
        <<TearDown, Terminate("kill"), TearDown>>, <<>>)

\* stage2_benchmark.run_size: every repetition runs both methods, in turn the
\* one or the other first, each on empty tables.  A lost ping ends the run.
Method(name) ==
    <<DelFlows, Install(PortOneToTwo("s1")), Install(PortTwoToOne("s1")),
      Install(PortOneToTwo("s2")), Install(PortTwoToOne("s2")),
      Ping(1, 2, 1, 1, name), Row, Check(name, "raise")>>

Repetition(rep) ==
    IF rep % 2 = 0 THEN Method("adapter") \o Method("ofctl")
    ELSE Method("ofctl") \o Method("adapter")

Calibration ==
    Trial(
        <<TearDown, Start(TwoSwitchTopo, {})>> \o Repetition(0) \o Repetition(1),
        AfterBenchmark, <<>>)

\* two_switch_demo.main
Demo ==
    Trial(
        <<TearDown, Start(TwoSwitchTopo, {}),
          Install(PortOneToTwo("s1")), Install(PortTwoToOne("s1")),
          Install(PortOneToTwo("s2")), Install(PortTwoToOne("s2")),
          Ping(1, 2, 1, 1, "demo")>>,
        AfterBenchmark, <<Check("demo", "raise"), Row>>)

-----------------------------------------------------------------------------

\* A trial is known by its driver, its mode and its scenario.
Normally(driver, modes) == {<<driver, m, "normal">> : m \in modes}

Trials ==
    Normally("latency", {"ppr", "persistent", "osken"})
    \cup Normally("load", {"ppr", "persistent"})
    \cup Normally("recovery", {"persistent", "osken"})
    \cup {"s56"} \X {"ppr", "persistent", "osken"} \X Scenarios
    \cup Normally("full", {"ppr", "persistent", "ofctl", "direct_osken"})
    \cup Normally("compare", {"daim", "ofctl"})
    \cup Normally("diag", {"persistent"}) \cup Normally("smoke", {"bridge", "learning"})
    \cup Normally("stage2", {"daim"}) \cup Normally("calibration", {"both"})
    \cup Normally("demo", {"cli"})

TrialOf(k) ==
    CASE k[1] = "latency" -> Latency(k[2])
      [] k[1] = "load" -> LoadProfile(k[2])
      [] k[1] = "recovery" -> Recovery(k[2])
      [] k[1] = "s56" -> S56(k[2], k[3])
      [] k[1] = "diag" -> DiagQ2
      [] k[1] = "smoke" -> IF k[2] = "bridge" THEN BridgeSmoke ELSE LearningSmoke
      [] k[1] = "full" -> IF k[2] = "direct_osken" THEN DirectOsken ELSE FullCompareCli
      [] k[1] = "stage2" -> BenchmarkStage2
      [] k[1] = "compare" -> BenchmarkCompare
      [] k[1] = "calibration" -> Calibration
      [] k[1] = "demo" -> Demo

=============================================================================
