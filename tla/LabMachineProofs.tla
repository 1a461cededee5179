-------------------------- MODULE LabMachineProofs --------------------------
(***************************************************************************)
(* The first two layers of the inductive invariant of Lab, and the facts   *)
(* about the scripts, the network, the controllers and the steps of a      *)
(* driver that all layers use: a driver is at a step of its script, every  *)
(* packet is a ping's or an answer to one and comes by the port that leads *)
(* back to its source, and every rule that was learnt leads home.          *)
(***************************************************************************)
EXTENDS LabInvariants, SequenceTheorems, FiniteSetTheorems, TLAPS

-----------------------------------------------------------------------------
(* The scripts *)

\* The latency breakdown.
LEMMA LatencyWell ==
  ASSUME NEW m \in {"ppr", "persistent", "osken"}
  PROVE  WellScripted(<<"latency", m, "normal">>)
<1> DEFINE k == <<"latency", m, "normal">>
           c == Latency(m)
<1>1. TrialOf(k) = c
  BY DEF TrialOf, FullCompareCli, BenchmarkStage2, BenchmarkCompare
<1>2. Len(c.run) = 14 /\ Len(c.tail) = 4 /\ Len(c.after) = 0
  BY DEF Latency, Trial, TearDown, Kill, Launch, Controller, Watch, Unwatch, Start, Point,
       ReadReady, Await, Check, Ping, Row, Terminate, AfterBenchmark
<1>3. ASSUME NEW i \in 1..14 PROVE Fits(k, i, c.run[i])
  <2> USE DEF Latency, Trial, TearDown, Kill, Launch, Controller, Watch, Unwatch, Start, Point,
       ReadReady, Await, Check, Ping, Row
  <2>1. Wired(k, i, c.run[i])
    BY DEF Wired, StartAt, Direct, TopologyOf, Learns, RuleSet, Sws, Hosts, All, AnyDst, IPOnly,
         AnyPort, FLOOD
  <2>2. Pinged(k, i, c.run[i])
    BY DEF Pinged, AskedAt, AllPings, TopologyOf, SingleSwitchTopo, TwoSwitchTopo, WithoutAt,
         MonitorAt
  <2>3. Manned(k, i, c.run[i])
    BY DEF Manned, LaunchAt, StartAt, KillsStrays, WithoutAt, ProgsOf, ProgFor, RestartAt, Direct
  <2>4. Threaded(k, i, c.run[i])
    BY DEF Threaded, Direct, Ops, MonitorAt, JoinAt
  <2>5. Told(k, i, c.run[i])
    BY DEF Told, LaunchAt, WithoutAt, JoinAt
  <2> QED
    BY <2>1, <2>2, <2>3, <2>4, <2>5 DEF Fits
<1>4. Ends(k, c.tail, c.after)
  BY DEF Ends, TerminateAt, KillsStrays, Latency, Trial, TearDown, Kill, Launch, Controller,
       Watch, Unwatch, Start, Point, ReadReady, Await, Check, Ping, Row, Terminate, AfterBenchmark
<1>5. \A st \in {"run", "tail", "after"} : Len(c[st]) \in Nat
  BY <1>2 DEF Latency, Trial, TearDown, Kill, Launch, Controller, Watch, Unwatch, Start, Point,
       ReadReady, Await, Check, Ping, Row
<1>6. StartAt(k) < 14 /\ LaunchAt(k) < 14 /\ (k[1] = "recovery" => 14 = JoinAt + 2) /\ (Direct(k) => 14 > 9) /\ k[1] # "s56"
  BY DEF StartAt, LaunchAt, Direct, JoinAt
<1> HIDE DEF k, c
<1>7. WellScripted(k)
  BY <1>1, <1>2, <1>3, <1>4, <1>5, <1>6 DEF WellScripted
<1> QED
  BY <1>7 DEF k

\* The load profile.
LEMMA LoadWell ==
  ASSUME NEW m \in {"ppr", "persistent"}
  PROVE  WellScripted(<<"load", m, "normal">>)
<1> DEFINE k == <<"load", m, "normal">>
           c == LoadProfile(m)
<1>1. TrialOf(k) = c
  BY DEF TrialOf, FullCompareCli, BenchmarkStage2, BenchmarkCompare
<1>2. Len(c.run) = 14 /\ Len(c.tail) = 4 /\ Len(c.after) = 0
  BY DEF LoadProfile, Trial, TearDown, Kill, Launch, Watch, Unwatch, Start, Point, ReadReady,
       Await, Check, Ping, Row, Terminate, AfterBenchmark
<1>3. ASSUME NEW i \in 1..14 PROVE Fits(k, i, c.run[i])
  <2> USE DEF LoadProfile, Trial, TearDown, Kill, Launch, Watch, Unwatch, Start, Point, ReadReady,
       Await, Check, Ping, Row
  <2>1. Wired(k, i, c.run[i])
    BY DEF Wired, StartAt, Direct, TopologyOf, Learns, RuleSet, Sws, Hosts, All, AnyDst, IPOnly,
         AnyPort, FLOOD
  <2>2. Pinged(k, i, c.run[i])
    BY DEF Pinged, AskedAt, AllPings, TopologyOf, SingleSwitchTopo, TwoSwitchTopo, WithoutAt,
         MonitorAt
  <2>3. Manned(k, i, c.run[i])
    BY DEF Manned, LaunchAt, StartAt, KillsStrays, WithoutAt, ProgsOf, ProgFor, RestartAt, Direct
  <2>4. Threaded(k, i, c.run[i])
    BY DEF Threaded, Direct, Ops, MonitorAt, JoinAt
  <2>5. Told(k, i, c.run[i])
    BY DEF Told, LaunchAt, WithoutAt, JoinAt
  <2> QED
    BY <2>1, <2>2, <2>3, <2>4, <2>5 DEF Fits
<1>4. Ends(k, c.tail, c.after)
  BY DEF Ends, TerminateAt, KillsStrays, LoadProfile, Trial, TearDown, Kill, Launch, Watch,
       Unwatch, Start, Point, ReadReady, Await, Check, Ping, Row, Terminate, AfterBenchmark
<1>5. \A st \in {"run", "tail", "after"} : Len(c[st]) \in Nat
  BY <1>2 DEF LoadProfile, Trial, TearDown, Kill, Launch, Watch, Unwatch, Start, Point, ReadReady,
       Await, Check, Ping, Row
<1>6. StartAt(k) < 14 /\ LaunchAt(k) < 14 /\ (k[1] = "recovery" => 14 = JoinAt + 2) /\ (Direct(k) => 14 > 9) /\ k[1] # "s56"
  BY DEF StartAt, LaunchAt, Direct, JoinAt
<1> HIDE DEF k, c
<1>7. WellScripted(k)
  BY <1>1, <1>2, <1>3, <1>4, <1>5, <1>6 DEF WellScripted
<1> QED
  BY <1>7 DEF k

\* The restart recovery.
LEMMA RecoveryWell ==
  ASSUME NEW m \in {"persistent", "osken"}
  PROVE  WellScripted(<<"recovery", m, "normal">>)
<1> DEFINE k == <<"recovery", m, "normal">>
           c == Recovery(m)
<1>1. TrialOf(k) = c
  BY DEF TrialOf, FullCompareCli, BenchmarkStage2, BenchmarkCompare
<1>2. Len(c.run) = 22 /\ Len(c.tail) = 3 /\ Len(c.after) = 0
  BY DEF Recovery, Trial, TearDown, Kill, Launch, Controller, Start, Point, BoundedReady, Await,
       Check, Ping, Stop, Monitor, Join, Row, Terminate, Unwatch, AfterBenchmark
<1>3. ASSUME NEW i \in 1..22 PROVE Fits(k, i, c.run[i])
  <2> USE DEF Recovery, Trial, TearDown, Kill, Launch, Controller, Start, Point, BoundedReady,
       Await, Check, Ping, Stop, Monitor, Join, Row
  <2>1. Wired(k, i, c.run[i])
    BY DEF Wired, StartAt, Direct, TopologyOf, Learns, RuleSet, Sws, Hosts, All, AnyDst, IPOnly,
         AnyPort, FLOOD
  <2>2. Pinged(k, i, c.run[i])
    BY SMTT(20) DEF Pinged, AskedAt, AllPings, TopologyOf, SingleSwitchTopo, TwoSwitchTopo, WithoutAt,
         MonitorAt
  <2>3. Manned(k, i, c.run[i])
    BY DEF Manned, LaunchAt, StartAt, KillsStrays, WithoutAt, ProgsOf, ProgFor, RestartAt, Direct
  <2>4. Threaded(k, i, c.run[i])
    BY DEF Threaded, Direct, Ops, MonitorAt, JoinAt
  <2>5. Told(k, i, c.run[i])
    BY DEF Told, LaunchAt, WithoutAt, JoinAt
  <2> QED
    BY <2>1, <2>2, <2>3, <2>4, <2>5 DEF Fits
<1>4. Ends(k, c.tail, c.after)
  BY DEF Ends, TerminateAt, KillsStrays, Recovery, Trial, TearDown, Kill, Launch, Controller,
       Start, Point, BoundedReady, Await, Check, Ping, Stop, Monitor, Join, Row, Terminate,
       Unwatch, AfterBenchmark
<1>5. \A st \in {"run", "tail", "after"} : Len(c[st]) \in Nat
  BY <1>2 DEF Recovery, Trial, TearDown, Kill, Launch, Controller, Start, Point, BoundedReady,
       Await, Check, Ping, Stop, Monitor, Join, Row
<1>6. StartAt(k) < 22 /\ LaunchAt(k) < 22 /\ (k[1] = "recovery" => 22 = JoinAt + 2) /\ (Direct(k) => 22 > 9) /\ k[1] # "s56"
  BY DEF StartAt, LaunchAt, Direct, JoinAt
<1> HIDE DEF k, c
<1>7. WellScripted(k)
  BY <1>1, <1>2, <1>3, <1>4, <1>5, <1>6 DEF WellScripted
<1> QED
  BY <1>7 DEF k

\* Its diagnosis.
LEMMA DiagWell ==
  WellScripted(<<"diag", "persistent", "normal">>)
<1> DEFINE k == <<"diag", "persistent", "normal">>
           c == DiagQ2
<1>1. TrialOf(k) = c
  BY DEF TrialOf, FullCompareCli, BenchmarkStage2, BenchmarkCompare
<1>2. Len(c.run) = 9 /\ Len(c.tail) = 3 /\ Len(c.after) = 0
  BY DEF DiagQ2, Trial, TearDown, Launch, Start, Point, Await, Ping, Stop, Terminate, Unwatch,
       Check, Row, AfterBenchmark
<1>3. ASSUME NEW i \in 1..9 PROVE Fits(k, i, c.run[i])
  <2> USE DEF DiagQ2, Trial, TearDown, Launch, Start, Point, Await, Ping, Stop
  <2>1. Wired(k, i, c.run[i])
    BY DEF Wired, StartAt, Direct, TopologyOf, Learns, RuleSet, Sws, Hosts, All, AnyDst, IPOnly,
         AnyPort, FLOOD
  <2>2. Pinged(k, i, c.run[i])
    BY DEF Pinged, AskedAt, AllPings, TopologyOf, SingleSwitchTopo, TwoSwitchTopo, WithoutAt,
         MonitorAt
  <2>3. Manned(k, i, c.run[i])
    BY DEF Manned, LaunchAt, StartAt, KillsStrays, WithoutAt, ProgsOf, ProgFor, RestartAt, Direct
  <2>4. Threaded(k, i, c.run[i])
    BY DEF Threaded, Direct, Ops, MonitorAt, JoinAt
  <2>5. Told(k, i, c.run[i])
    BY DEF Told, LaunchAt, WithoutAt, JoinAt
  <2> QED
    BY <2>1, <2>2, <2>3, <2>4, <2>5 DEF Fits
<1>4. Ends(k, c.tail, c.after)
  BY DEF Ends, TerminateAt, KillsStrays, DiagQ2, Trial, TearDown, Launch, Start, Point, Await,
       Ping, Stop, Terminate, Unwatch, Check, Row, AfterBenchmark
<1>5. \A st \in {"run", "tail", "after"} : Len(c[st]) \in Nat
  BY <1>2 DEF DiagQ2, Trial, TearDown, Launch, Start, Point, Await, Ping, Stop
<1>6. StartAt(k) < 9 /\ LaunchAt(k) < 9 /\ (k[1] = "recovery" => 9 = JoinAt + 2) /\ (Direct(k) => 9 > 9) /\ k[1] # "s56"
  BY DEF StartAt, LaunchAt, Direct, JoinAt
<1> HIDE DEF k, c
<1>7. WellScripted(k)
  BY <1>1, <1>2, <1>3, <1>4, <1>5, <1>6 DEF WellScripted
<1> QED
  BY <1>7 DEF k

\* The smoke run of the bridge.
LEMMA BridgeSmokeWell ==
  WellScripted(<<"smoke", "bridge", "normal">>)
<1> DEFINE k == <<"smoke", "bridge", "normal">>
           c == BridgeSmoke
<1>1. TrialOf(k) = c
  BY DEF TrialOf, FullCompareCli, BenchmarkStage2, BenchmarkCompare
<1>2. Len(c.run) = 9 /\ Len(c.tail) = 3 /\ Len(c.after) = 2
  BY DEF BridgeSmoke, Smoke, Trial, TearDown, Launch, Start, Point, Ping, Note, Stop, Terminate,
       Unwatch, Check, Row, AfterBenchmark
<1>3. ASSUME NEW i \in 1..9 PROVE Fits(k, i, c.run[i])
  <2> USE DEF BridgeSmoke, Smoke, Trial, TearDown, Launch, Start, Point, Ping, Note, Stop
  <2>1. Wired(k, i, c.run[i])
    BY DEF Wired, StartAt, Direct, TopologyOf, Learns, RuleSet, Sws, Hosts, All, AnyDst, IPOnly,
         AnyPort, FLOOD
  <2>2. Pinged(k, i, c.run[i])
    BY DEF Pinged, AskedAt, AllPings, TopologyOf, SingleSwitchTopo, TwoSwitchTopo, WithoutAt,
         MonitorAt
  <2>3. Manned(k, i, c.run[i])
    BY DEF Manned, LaunchAt, StartAt, KillsStrays, WithoutAt, ProgsOf, ProgFor, RestartAt, Direct
  <2>4. Threaded(k, i, c.run[i])
    BY DEF Threaded, Direct, Ops, MonitorAt, JoinAt
  <2>5. Told(k, i, c.run[i])
    BY DEF Told, LaunchAt, WithoutAt, JoinAt
  <2> QED
    BY <2>1, <2>2, <2>3, <2>4, <2>5 DEF Fits
<1>4. Ends(k, c.tail, c.after)
  BY DEF Ends, TerminateAt, KillsStrays, BridgeSmoke, Smoke, Trial, TearDown, Launch, Start,
       Point, Ping, Note, Stop, Terminate, Unwatch, Check, Row, AfterBenchmark
<1>5. \A st \in {"run", "tail", "after"} : Len(c[st]) \in Nat
  BY <1>2 DEF BridgeSmoke, Smoke, Trial, TearDown, Launch, Start, Point, Ping, Note, Stop
<1>6. StartAt(k) < 9 /\ LaunchAt(k) < 9 /\ (k[1] = "recovery" => 9 = JoinAt + 2) /\ (Direct(k) => 9 > 9) /\ k[1] # "s56"
  BY DEF StartAt, LaunchAt, Direct, JoinAt
<1> HIDE DEF k, c
<1>7. WellScripted(k)
  BY <1>1, <1>2, <1>3, <1>4, <1>5, <1>6 DEF WellScripted
<1> QED
  BY <1>7 DEF k

\* The smoke run of the learning switch.
LEMMA LearningSmokeWell ==
  WellScripted(<<"smoke", "learning", "normal">>)
<1> DEFINE k == <<"smoke", "learning", "normal">>
           c == LearningSmoke
<1>1. TrialOf(k) = c
  BY DEF TrialOf, FullCompareCli, BenchmarkStage2, BenchmarkCompare
<1>2. Len(c.run) = 7 /\ Len(c.tail) = 3 /\ Len(c.after) = 2
  BY DEF LearningSmoke, Smoke, Trial, TearDown, Launch, Start, Point, Ping, Stop, Terminate,
       Unwatch, Check, Row, AfterBenchmark
<1>3. ASSUME NEW i \in 1..7 PROVE Fits(k, i, c.run[i])
  <2> USE DEF LearningSmoke, Smoke, Trial, TearDown, Launch, Start, Point, Ping, Stop
  <2>1. Wired(k, i, c.run[i])
    BY DEF Wired, StartAt, Direct, TopologyOf, Learns, RuleSet, Sws, Hosts, All, AnyDst, IPOnly,
         AnyPort, FLOOD
  <2>2. Pinged(k, i, c.run[i])
    BY DEF Pinged, AskedAt, AllPings, TopologyOf, SingleSwitchTopo, TwoSwitchTopo, WithoutAt,
         MonitorAt
  <2>3. Manned(k, i, c.run[i])
    BY DEF Manned, LaunchAt, StartAt, KillsStrays, WithoutAt, ProgsOf, ProgFor, RestartAt, Direct
  <2>4. Threaded(k, i, c.run[i])
    BY DEF Threaded, Direct, Ops, MonitorAt, JoinAt
  <2>5. Told(k, i, c.run[i])
    BY DEF Told, LaunchAt, WithoutAt, JoinAt
  <2> QED
    BY <2>1, <2>2, <2>3, <2>4, <2>5 DEF Fits
<1>4. Ends(k, c.tail, c.after)
  BY DEF Ends, TerminateAt, KillsStrays, LearningSmoke, Smoke, Trial, TearDown, Launch, Start,
       Point, Ping, Stop, Terminate, Unwatch, Check, Row, AfterBenchmark
<1>5. \A st \in {"run", "tail", "after"} : Len(c[st]) \in Nat
  BY <1>2 DEF LearningSmoke, Smoke, Trial, TearDown, Launch, Start, Point, Ping, Stop
<1>6. StartAt(k) < 7 /\ LaunchAt(k) < 7 /\ (k[1] = "recovery" => 7 = JoinAt + 2) /\ (Direct(k) => 7 > 9) /\ k[1] # "s56"
  BY DEF StartAt, LaunchAt, Direct, JoinAt
<1> HIDE DEF k, c
<1>7. WellScripted(k)
  BY <1>1, <1>2, <1>3, <1>4, <1>5, <1>6 DEF WellScripted
<1> QED
  BY <1>7 DEF k

\* The direct baseline.
LEMMA DirectWell ==
  WellScripted(<<"full", "direct_osken", "normal">>)
<1> DEFINE k == <<"full", "direct_osken", "normal">>
           c == DirectOsken
<1>1. TrialOf(k) = c
  BY DEF TrialOf, FullCompareCli, BenchmarkStage2, BenchmarkCompare
<1>2. Len(c.run) = 11 /\ Len(c.tail) = 3 /\ Len(c.after) = 0
  BY DEF DirectOsken, Trial, TearDown, Kill, Launch, Start, Point, Watch, Unwatch, Await, Ping,
       Row, Terminate, Check, AfterBenchmark
<1>3. ASSUME NEW i \in 1..11 PROVE Fits(k, i, c.run[i])
  <2> USE DEF DirectOsken, Trial, TearDown, Kill, Launch, Start, Point, Watch, Unwatch, Await,
       Ping, Row
  <2>1. Wired(k, i, c.run[i])
    BY DEF Wired, StartAt, Direct, TopologyOf, Learns, RuleSet, Sws, Hosts, All, AnyDst, IPOnly,
         AnyPort, FLOOD
  <2>2. Pinged(k, i, c.run[i])
    BY DEF Pinged, AskedAt, AllPings, TopologyOf, SingleSwitchTopo, TwoSwitchTopo, WithoutAt,
         MonitorAt
  <2>3. Manned(k, i, c.run[i])
    BY DEF Manned, LaunchAt, StartAt, KillsStrays, WithoutAt, ProgsOf, ProgFor, RestartAt, Direct
  <2>4. Threaded(k, i, c.run[i])
    BY DEF Threaded, Direct, Ops, MonitorAt, JoinAt
  <2>5. Told(k, i, c.run[i])
    BY DEF Told, LaunchAt, WithoutAt, JoinAt
  <2> QED
    BY <2>1, <2>2, <2>3, <2>4, <2>5 DEF Fits
<1>4. Ends(k, c.tail, c.after)
  BY DEF Ends, TerminateAt, KillsStrays, DirectOsken, Trial, TearDown, Kill, Launch, Start, Point,
       Watch, Unwatch, Await, Ping, Row, Terminate, Check, AfterBenchmark
<1>5. \A st \in {"run", "tail", "after"} : Len(c[st]) \in Nat
  BY <1>2 DEF DirectOsken, Trial, TearDown, Kill, Launch, Start, Point, Watch, Unwatch, Await,
       Ping, Row
<1>6. StartAt(k) < 11 /\ LaunchAt(k) < 11 /\ (k[1] = "recovery" => 11 = JoinAt + 2) /\ (Direct(k) => 11 > 9) /\ k[1] # "s56"
  BY DEF StartAt, LaunchAt, Direct, JoinAt
<1> HIDE DEF k, c
<1>7. WellScripted(k)
  BY <1>1, <1>2, <1>3, <1>4, <1>5, <1>6 DEF WellScripted
<1> QED
  BY <1>7 DEF k

\* The benchmarks that install one rule in every switch.
LEMMA InstallWell ==
  ASSUME NEW k, k[1] \in {"full", "compare", "stage2"}, k[2] # "direct_osken"
  PROVE  WellScripted(k)
<1> DEFINE c == InstallNormal
<1>0. StartAt(k) = 2 /\ ~Learns(k[1]) /\ k[1] # "s56" /\ TopologyOf(k[1]) = TwoSwitchTopo
  BY DEF StartAt, Learns, TopologyOf
<1>1. TrialOf(k) = c
  BY DEF TrialOf, FullCompareCli, BenchmarkStage2, BenchmarkCompare
<1>2. Len(c.run) = 6 /\ Len(c.tail) = 2 /\ Len(c.after) = 0
  BY DEF InstallNormal, Trial, TearDown, Start, Install, NormalFlow, Rule, Ping, Row, Terminate,
       Unwatch, Check, AfterBenchmark
<1>3. ASSUME NEW i \in 1..6 PROVE Fits(k, i, c.run[i])
  <2> USE DEF InstallNormal, Trial, TearDown, Start, Install, NormalFlow, Rule, Ping, Row
  <2>1. Wired(k, i, c.run[i])
    BY <1>0 DEF Wired, RuleSet, Sws, Hosts, All, AnyDst, IPOnly, AnyPort, FLOOD
  <2>2. Pinged(k, i, c.run[i])
    BY DEF Pinged, AskedAt, AllPings, TopologyOf, SingleSwitchTopo, TwoSwitchTopo, WithoutAt,
         MonitorAt
  <2>3. Manned(k, i, c.run[i])
    BY DEF Manned, LaunchAt, StartAt, KillsStrays, WithoutAt, ProgsOf, ProgFor, RestartAt, Direct
  <2>4. Threaded(k, i, c.run[i])
    BY DEF Threaded, Direct, Ops, MonitorAt, JoinAt
  <2>5. Told(k, i, c.run[i])
    BY DEF Told, LaunchAt, WithoutAt, JoinAt
  <2> QED
    BY <2>1, <2>2, <2>3, <2>4, <2>5 DEF Fits
<1>4. Ends(k, c.tail, c.after)
  BY DEF Ends, TerminateAt, KillsStrays, InstallNormal, Trial, TearDown, Start, Install,
       NormalFlow, Rule, Ping, Row, Terminate, Unwatch, Check, AfterBenchmark
<1>5. \A st \in {"run", "tail", "after"} : Len(c[st]) \in Nat
  BY <1>2 DEF InstallNormal, Trial, TearDown, Start, Install, NormalFlow, Rule, Ping, Row
<1>6. StartAt(k) < 6 /\ LaunchAt(k) < 6 /\ (k[1] = "recovery" => 6 = JoinAt + 2) /\ (Direct(k) => 6 > 9) /\ k[1] # "s56"
  BY DEF StartAt, LaunchAt, Direct, JoinAt
<1> HIDE DEF c
<1> QED
  BY <1>1, <1>2, <1>3, <1>4, <1>5, <1>6 DEF WellScripted

\* The calibration.
LEMMA CalibrationWell ==
  WellScripted(<<"calibration", "both", "normal">>)
<1> DEFINE k == <<"calibration", "both", "normal">>
           c == Calibration
<1>1. TrialOf(k) = c
  BY DEF TrialOf, FullCompareCli, BenchmarkStage2, BenchmarkCompare
<1>2. Len(c.run) = 34 /\ Len(c.tail) = 2 /\ Len(c.after) = 0
  BY DEF Calibration, Repetition, Method, Trial, TearDown, Start, DelFlows, Install, PortOneToTwo,
       PortTwoToOne, Rule, Ping, Row, Check, Terminate, Unwatch, AfterBenchmark
<1>3. ASSUME NEW i \in 1..34 PROVE Fits(k, i, c.run[i])
  <2> USE DEF Calibration, Repetition, Method, Trial, TearDown, Start, DelFlows, Install,
       PortOneToTwo, PortTwoToOne, Rule, Ping, Row, Check
  <2>1. Wired(k, i, c.run[i])
    BY DEF Wired, StartAt, Direct, TopologyOf, Learns, RuleSet, Sws, Hosts, All, AnyDst, IPOnly,
         AnyPort, FLOOD
  <2>2. Pinged(k, i, c.run[i])
    BY DEF Pinged, AskedAt, AllPings, TopologyOf, SingleSwitchTopo, TwoSwitchTopo, WithoutAt,
         MonitorAt
  <2>3. Manned(k, i, c.run[i])
    BY DEF Manned, LaunchAt, StartAt, KillsStrays, WithoutAt, ProgsOf, ProgFor, RestartAt, Direct
  <2>4. Threaded(k, i, c.run[i])
    BY DEF Threaded, Direct, Ops, MonitorAt, JoinAt
  <2>5. Told(k, i, c.run[i])
    BY DEF Told, LaunchAt, WithoutAt, JoinAt
  <2> QED
    BY <2>1, <2>2, <2>3, <2>4, <2>5 DEF Fits
<1>4. Ends(k, c.tail, c.after)
  BY DEF Ends, TerminateAt, KillsStrays, Calibration, Repetition, Method, Trial, TearDown, Start,
       DelFlows, Install, PortOneToTwo, PortTwoToOne, Rule, Ping, Row, Check, Terminate, Unwatch,
       AfterBenchmark
<1>5. \A st \in {"run", "tail", "after"} : Len(c[st]) \in Nat
  BY <1>2 DEF Calibration, Repetition, Method, Trial, TearDown, Start, DelFlows, Install,
       PortOneToTwo, PortTwoToOne, Rule, Ping, Row, Check
<1>6. StartAt(k) < 34 /\ LaunchAt(k) < 34 /\ (k[1] = "recovery" => 34 = JoinAt + 2) /\ (Direct(k) => 34 > 9) /\ k[1] # "s56"
  BY DEF StartAt, LaunchAt, Direct, JoinAt
<1> HIDE DEF k, c
<1>7. WellScripted(k)
  BY <1>1, <1>2, <1>3, <1>4, <1>5, <1>6 DEF WellScripted
<1> QED
  BY <1>7 DEF k

\* The demo.
LEMMA DemoWell ==
  WellScripted(<<"demo", "cli", "normal">>)
<1> DEFINE k == <<"demo", "cli", "normal">>
           c == Demo
<1>1. TrialOf(k) = c
  BY DEF TrialOf, FullCompareCli, BenchmarkStage2, BenchmarkCompare
<1>2. Len(c.run) = 7 /\ Len(c.tail) = 2 /\ Len(c.after) = 2
  BY DEF Demo, Trial, TearDown, Start, Install, PortOneToTwo, PortTwoToOne, Rule, Ping, Terminate,
       Unwatch, Check, Row, AfterBenchmark
<1>3. ASSUME NEW i \in 1..7 PROVE Fits(k, i, c.run[i])
  <2> USE DEF Demo, Trial, TearDown, Start, Install, PortOneToTwo, PortTwoToOne, Rule, Ping
  <2>1. Wired(k, i, c.run[i])
    BY DEF Wired, StartAt, Direct, TopologyOf, Learns, RuleSet, Sws, Hosts, All, AnyDst, IPOnly,
         AnyPort, FLOOD
  <2>2. Pinged(k, i, c.run[i])
    BY DEF Pinged, AskedAt, AllPings, TopologyOf, SingleSwitchTopo, TwoSwitchTopo, WithoutAt,
         MonitorAt
  <2>3. Manned(k, i, c.run[i])
    BY DEF Manned, LaunchAt, StartAt, KillsStrays, WithoutAt, ProgsOf, ProgFor, RestartAt, Direct
  <2>4. Threaded(k, i, c.run[i])
    BY DEF Threaded, Direct, Ops, MonitorAt, JoinAt
  <2>5. Told(k, i, c.run[i])
    BY DEF Told, LaunchAt, WithoutAt, JoinAt
  <2> QED
    BY <2>1, <2>2, <2>3, <2>4, <2>5 DEF Fits
<1>4. Ends(k, c.tail, c.after)
  BY DEF Ends, TerminateAt, KillsStrays, Demo, Trial, TearDown, Start, Install, PortOneToTwo,
       PortTwoToOne, Rule, Ping, Terminate, Unwatch, Check, Row, AfterBenchmark
<1>5. \A st \in {"run", "tail", "after"} : Len(c[st]) \in Nat
  BY <1>2 DEF Demo, Trial, TearDown, Start, Install, PortOneToTwo, PortTwoToOne, Rule, Ping
<1>6. StartAt(k) < 7 /\ LaunchAt(k) < 7 /\ (k[1] = "recovery" => 7 = JoinAt + 2) /\ (Direct(k) => 7 > 9) /\ k[1] # "s56"
  BY DEF StartAt, LaunchAt, Direct, JoinAt
<1> HIDE DEF k, c
<1>7. WellScripted(k)
  BY <1>1, <1>2, <1>3, <1>4, <1>5, <1>6 DEF WellScripted
<1> QED
  BY <1>7 DEF k

\* The corrected measurement, in each scenario.
LEMMA S56Well ==
  ASSUME NEW m \in {"ppr", "persistent", "osken"}, NEW s \in Scenarios
  PROVE  WellScripted(<<"s56", m, s>>)
<1> DEFINE k == <<"s56", m, s>>
           c == S56(m, s)
<1>1. TrialOf(k) = c
  BY DEF TrialOf
<1>2. Len(c.run) > 2 /\ Len(c.run) \in Nat /\ Len(c.tail) = 2 /\ Len(c.after) = 0 /\ c.after = <<>>
  BY DEF S56, Trial, When, Scenarios
<1>3. ASSUME NEW i \in 1..Len(c.run)
      PROVE  /\ Fits(k, i, c.run[i])
             /\ \A j \in 1 .. Len(c.run) : c.run[i].op = "row" /\ i < j => c.run[j].op # "await"
  <2> USE DEF S56, Trial, When, Start, Launch, Point, BoundedReady, Await, Check, Ping, ExtraRule,
       Arm, Cut, Row
  <2>1. CASE s = "warmup_only"
    <3> USE <2>1
    <3>1. Wired(k, i, c.run[i])
      BY DEF Wired, StartAt, TopologyOf, Learns
    <3>2. Pinged(k, i, c.run[i])
      BY DEF Pinged, AskedAt, TargetId
    <3>3. Manned(k, i, c.run[i])
      BY DEF Manned, LaunchAt, StartAt, KillsStrays, ProgsOf, Direct, Launch
    <3>4. Threaded(k, i, c.run[i])
      BY DEF Threaded, Direct, Ops
    <3>5. Told(k, i, c.run[i])
      BY DEF Told, LaunchAt
    <3>6. \A j \in 1 .. Len(c.run) : c.run[i].op = "row" /\ i < j => c.run[j].op # "await"
      OBVIOUS
    <3> QED
      BY <3>1, <3>2, <3>3, <3>4, <3>5, <3>6 DEF Fits
  <2>2. CASE s = "normal"
    <3> USE <2>2
    <3>1. Wired(k, i, c.run[i])
      BY SMTT(20) DEF Wired, StartAt, TopologyOf, Learns
    <3>2. Pinged(k, i, c.run[i])
      BY DEF Pinged, AskedAt, TargetId
    <3>3. Manned(k, i, c.run[i])
      BY DEF Manned, LaunchAt, StartAt, KillsStrays, ProgsOf, Direct, Launch
    <3>4. Threaded(k, i, c.run[i])
      BY DEF Threaded, Direct, Ops
    <3>5. Told(k, i, c.run[i])
      BY SMTT(20) DEF Told, LaunchAt
    <3>6. \A j \in 1 .. Len(c.run) : c.run[i].op = "row" /\ i < j => c.run[j].op # "await"
      OBVIOUS
    <3> QED
      BY <3>1, <3>2, <3>3, <3>4, <3>5, <3>6 DEF Fits
  <2>3. CASE s = "ping_failure"
    <3> USE <2>3
    <3>1. Wired(k, i, c.run[i])
      BY DEF Wired, StartAt, TopologyOf, Learns
    <3>2. Pinged(k, i, c.run[i])
      BY DEF Pinged, AskedAt, TargetId
    <3>3. Manned(k, i, c.run[i])
      BY DEF Manned, LaunchAt, StartAt, KillsStrays, ProgsOf, Direct, Launch
    <3>4. Threaded(k, i, c.run[i])
      BY DEF Threaded, Direct, Ops
    <3>5. Told(k, i, c.run[i])
      BY DEF Told, LaunchAt
    <3>6. \A j \in 1 .. Len(c.run) : c.run[i].op = "row" /\ i < j => c.run[j].op # "await"
      OBVIOUS
    <3> QED
      BY <3>1, <3>2, <3>3, <3>4, <3>5, <3>6 DEF Fits
  <2>4. CASE s = "unexpected_rule"
    <3> USE <2>4
    <3>1. Wired(k, i, c.run[i])
      BY SMTT(20) DEF Wired, StartAt, TopologyOf, Learns
    <3>2. Pinged(k, i, c.run[i])
      BY DEF Pinged, AskedAt, TargetId
    <3>3. Manned(k, i, c.run[i])
      BY DEF Manned, LaunchAt, StartAt, KillsStrays, ProgsOf, Direct, Launch
    <3>4. Threaded(k, i, c.run[i])
      BY DEF Threaded, Direct, Ops
    <3>5. Told(k, i, c.run[i])
      BY SMTT(20) DEF Told, LaunchAt
    <3>6. \A j \in 1 .. Len(c.run) : c.run[i].op = "row" /\ i < j => c.run[j].op # "await"
      OBVIOUS
    <3> QED
      BY <3>1, <3>2, <3>3, <3>4, <3>5, <3>6 DEF Fits
  <2>5. CASE s = "wrong_identity"
    <3> USE <2>5
    <3>1. Wired(k, i, c.run[i])
      BY DEF Wired, StartAt, TopologyOf, Learns
    <3>2. Pinged(k, i, c.run[i])
      BY DEF Pinged, AskedAt, TargetId
    <3>3. Manned(k, i, c.run[i])
      BY DEF Manned, LaunchAt, StartAt, KillsStrays, ProgsOf, Direct, Launch
    <3>4. Threaded(k, i, c.run[i])
      BY DEF Threaded, Direct, Ops
    <3>5. Told(k, i, c.run[i])
      BY DEF Told, LaunchAt
    <3>6. \A j \in 1 .. Len(c.run) : c.run[i].op = "row" /\ i < j => c.run[j].op # "await"
      OBVIOUS
    <3> QED
      BY <3>1, <3>2, <3>3, <3>4, <3>5, <3>6 DEF Fits
  <2>6. CASE s = "observer_timeout"
    <3> USE <2>6
    <3>1. Wired(k, i, c.run[i])
      BY DEF Wired, StartAt, TopologyOf, Learns
    <3>2. Pinged(k, i, c.run[i])
      BY DEF Pinged, AskedAt, TargetId
    <3>3. Manned(k, i, c.run[i])
      BY DEF Manned, LaunchAt, StartAt, KillsStrays, ProgsOf, Direct, Launch
    <3>4. Threaded(k, i, c.run[i])
      BY DEF Threaded, Direct, Ops
    <3>5. Told(k, i, c.run[i])
      BY SMTT(30) DEF Told, LaunchAt
    <3>6. \A j \in 1 .. Len(c.run) : c.run[i].op = "row" /\ i < j => c.run[j].op # "await"
      OBVIOUS
    <3> QED
      BY <3>1, <3>2, <3>3, <3>4, <3>5, <3>6 DEF Fits
  <2>7. CASE s = "observer_error"
    <3> USE <2>7
    <3>1. Wired(k, i, c.run[i])
      BY DEF Wired, StartAt, TopologyOf, Learns
    <3>2. Pinged(k, i, c.run[i])
      BY DEF Pinged, AskedAt, TargetId
    <3>3. Manned(k, i, c.run[i])
      BY DEF Manned, LaunchAt, StartAt, KillsStrays, ProgsOf, Direct, Launch
    <3>4. Threaded(k, i, c.run[i])
      BY DEF Threaded, Direct, Ops
    <3>5. Told(k, i, c.run[i])
      BY DEF Told, LaunchAt
    <3>6. \A j \in 1 .. Len(c.run) : c.run[i].op = "row" /\ i < j => c.run[j].op # "await"
      OBVIOUS
    <3> QED
      BY <3>1, <3>2, <3>3, <3>4, <3>5, <3>6 DEF Fits
  <2> QED
    BY <2>1, <2>2, <2>3, <2>4, <2>5, <2>6, <2>7 DEF Scenarios
<1>4. Ends(k, c.tail, c.after)
  BY <1>2 DEF Ends, KillsStrays, S56, Trial, TearDown, Terminate
<1>5. \A st \in {"run", "tail", "after"} : Len(c[st]) \in Nat
  BY <1>2 DEF S56, Trial
<1>6. StartAt(k) < Len(c.run) /\ LaunchAt(k) < Len(c.run) /\ k[1] # "recovery"
  <2>1. StartAt(k) = 1 /\ LaunchAt(k) = 2 /\ k[1] # "recovery"
    BY DEF StartAt, LaunchAt
  <2> HIDE DEF c, k
  <2> QED
    BY <1>2, <2>1
<1>8. k[1] = "s56" /\ ~Direct(k)
  BY DEF Direct
<1> HIDE DEF k, c
<1>7. WellScripted(k)
  BY <1>1, <1>3, <1>4, <1>5, <1>6, <1>8 DEF WellScripted
<1> QED
  BY <1>7 DEF k

-----------------------------------------------------------------------------
(* Topologies and pings *)

Connected(t) ==
    /\ DOMAIN t.at \subseteq Hosts /\ Switches(t) \subseteq Sws
    /\ \A h \in DOMAIN t.at : t.at[h] \in Switches(t) \X Hosts
    /\ \A w \in DOMAIN t.trunk : w \in Switches(t) \X Hosts /\ t.trunk[w] \in Switches(t) \X Hosts
    /\ \A sw \in Switches(t), h \in DOMAIN t.at : PortTowards(t, sw, h) \in Hosts
    /\ \A w \in DOMAIN t.trunk, h \in DOMAIN t.at :
         w[2] # PortTowards(t, w[1], h) => t.trunk[w][2] = PortTowards(t, t.trunk[w][1], h)

\* On one switch, the port towards a host is its own and no other host's.
LEMMA SingleConnected ==
  ASSUME NEW n \in {3, 4}
  PROVE  Connected(SingleSwitchTopo(n)) /\ Switches(SingleSwitchTopo(n)) = {"s1"}
<1> DEFINE t == SingleSwitchTopo(n)
<1>1. t.at = [h \in 1..n |-> <<"s1", h>>] /\ t.trunk = <<>>
  BY DEF SingleSwitchTopo
<1>2. DOMAIN t.trunk = {}
  BY <1>1
<1>3. Switches(t) = {"s1"}
  BY <1>1, <1>2 DEF Switches, Places
<1> HIDE DEF t
<1>4. \A h \in DOMAIN t.at : PortTowards(t, "s1", h) = h /\ t.at[h] = <<"s1", h>> /\ h \in Hosts
  BY <1>1 DEF PortTowards, Hosts
<1>5. Connected(t)
  BY <1>2, <1>3, <1>4 DEF Connected, Sws, Hosts
<1> QED
  BY <1>3, <1>5 DEF t

\* So it is on the two switches of the smoke runs and the benchmarks.
LEMMA TwoConnected ==
  Connected(TwoSwitchTopo) /\ Switches(TwoSwitchTopo) = Sws
<1> DEFINE t == TwoSwitchTopo
<1>1. /\ DOMAIN t.at = {1, 2} /\ t.at[1] = <<"s1", 1>> /\ t.at[2] = <<"s2", 1>>
      /\ DOMAIN t.trunk = {<<"s1", 2>>, <<"s2", 2>>}
      /\ t.trunk[<<"s1", 2>>] = <<"s2", 2>> /\ t.trunk[<<"s2", 2>>] = <<"s1", 2>>
  BY DEF TwoSwitchTopo
<1> HIDE DEF t
<1>2. Switches(t) = {"s1", "s2"}
  BY <1>1 DEF Switches, Places
<1>3. /\ (CHOOSE w \in DOMAIN t.trunk : w[1] = "s1") = <<"s1", 2>>
      /\ (CHOOSE w \in DOMAIN t.trunk : w[1] = "s2") = <<"s2", 2>>
  BY <1>1
<1>4. /\ PortTowards(t, "s1", 1) = 1 /\ PortTowards(t, "s2", 1) = 2
      /\ PortTowards(t, "s1", 2) = 2 /\ PortTowards(t, "s2", 2) = 1
  BY <1>1, <1>3 DEF PortTowards
<1>5. Connected(t)
  BY <1>1, <1>2, <1>4 DEF Connected, Sws, Hosts
<1> QED
  BY <1>2, <1>5 DEF t, Sws

\* Hence on the topology of every driver.
LEMMA TopologiesConnected == \A d : Connected(TopologyOf(d))
  BY SingleConnected, TwoConnected DEF TopologyOf

\* A driver pings only between hosts of its own network.
LEMMA AskedOnTopology ==
  \A k, st, pc : AskedAt(k, st, pc) \subseteq AllPings(TopologyOf(k[1]))
<1>1. /\ {1, 2, 3} = DOMAIN SingleSwitchTopo(3).at
      /\ {1, 2, 3, 4} = DOMAIN SingleSwitchTopo(4).at
  BY DEF SingleSwitchTopo
<1>2. ASSUME NEW k, NEW st, NEW pc, k[1] = "s56"
      PROVE  AskedAt(k, st, pc) \subseteq AllPings(TopologyOf(k[1]))
  BY <1>1, <1>2 DEF AskedAt, AllPings, TopologyOf, TargetId
<1>3. ASSUME NEW k, NEW st, NEW pc, k[1] = "recovery"
      PROVE  AskedAt(k, st, pc) \subseteq AllPings(TopologyOf(k[1]))
  BY <1>1, <1>3 DEF AskedAt, AllPings, TopologyOf
<1> QED
  BY <1>2, <1>3 DEF AskedAt

-----------------------------------------------------------------------------
(* What hosts and switches do with a packet *)

\* Packets.
LEMMA ExplainedMonotone ==
  ASSUME NEW A, NEW B, A \subseteq B
  PROVE  Traffic(A) \subseteq Traffic(B)
BY DEF Traffic, Explained

\* The hosts that a packet names are on the network.
LEMMA ExplainedHosts ==
  ASSUME NEW t, NEW A, Connected(t), A \subseteq AllPings(t), NEW p \in Traffic(A)
  PROVE  p.src \in DOMAIN t.at /\ p.to \in DOMAIN t.at /\ p.src \in Hosts /\ p.to \in Hosts
BY DEF Traffic, Explained, AllPings, Connected, Pkts

\* Who answers a packet, and how, is explained by the same ping.
LEMMA AnswersExplained ==
  ASSUME NEW A, NEW p \in Traffic(A)
  PROVE  /\ p.kind = "arpreq" => Packet("arprep", p.to, p.src, 0, 0) \in Traffic(A)
         /\ p.kind = "echo" => Packet("reply", p.to, p.src, p.id, p.seq) \in Traffic(A)
<1>1. p \in Pkts /\ Explained(p, A)
  BY DEF Traffic
<1>2. ASSUME p.kind = "arpreq" PROVE Packet("arprep", p.to, p.src, 0, 0) \in Traffic(A)
  BY <1>1, <1>2 DEF Traffic, Explained, Pkts, Packet
<1>3. ASSUME p.kind = "echo" PROVE Packet("reply", p.to, p.src, p.id, p.seq) \in Traffic(A)
  BY <1>1, <1>3 DEF Traffic, Explained, Pkts, Packet
<1> QED
  BY <1>2, <1>3

\* Whatever a ping sends, an ARP request or an echo request, is its own.
LEMMA RequestsExplained ==
  ASSUME NEW A, NEW a \in A, a \in Hosts \X Hosts \X (0..9), NEW n \in 0..2
  PROVE  /\ Packet("arpreq", a[1], a[2], 0, 0) \in Traffic(A)
         /\ Packet("echo", a[1], a[2], a[3], n) \in Traffic(A)
BY DEF Traffic, Explained, Pkts, Packet

\* What holds of a network after a frame or a ping has changed in it.
LEMMA NetworkFields ==
  ASSUME NEW t, NEW A, NEW R, NEW n \in Networks(t, A, R)
  PROVE  /\ \A x \in SUBSET Arrived(t, A) : [n EXCEPT !.air = x] \in Networks(t, A, R)
         /\ \A x \in Pings(A) : [n EXCEPT !.ping = x] \in Networks(t, A, R)
         /\ \A x \in SUBSET (Hosts \X Hosts) : [n EXCEPT !.nb = x] \in Networks(t, A, R)
         /\ \A x \in SUBSET R : [n EXCEPT !.rules = x] \in Networks(t, A, R)
         /\ \A x \in Seq(Events(t, A)) : [n EXCEPT !.pin = x] \in Networks(t, A, R)
         /\ \A x \in Seq(Messages(t, A, R)) : [n EXCEPT !.out = x] \in Networks(t, A, R)
         /\ \A x \in Seq(R) : [n EXCEPT !.adp = x] \in Networks(t, A, R)
BY DEF Networks

\* What a host sends enters the network by the port that leads to it.
LEMMA SendOnNetwork ==
  ASSUME NEW t, NEW A, NEW R, Connected(t), A \subseteq AllPings(t),
         NEW n \in Networks(t, A, R), NEW p \in Traffic(A), NEW h, h = p.src
  PROVE  Send(n, h, p) \in Networks(t, A, R)
<1>1. h \in DOMAIN t.at
  BY ExplainedHosts
<1>2. n.topo = t /\ n.air \subseteq Arrived(t, A)
  BY DEF Networks
<1> DEFINE f == [sw |-> t.at[h][1], in |-> t.at[h][2], pkt |-> p]
<1>3. t.at[h] \in Switches(t) \X Hosts /\ Switches(t) \subseteq Sws
  BY <1>1 DEF Connected
<1>4. PortTowards(t, t.at[h][1], h) = t.at[h][2]
  BY DEF PortTowards
<1>5. p \in Pkts
  BY DEF Traffic
<1>6. f \in Arrived(t, A)
  <2>1. t.at[h][1] \in Switches(t) /\ t.at[h][1] \in Sws /\ t.at[h][2] \in Hosts
    BY <1>3
  <2>2. f \in Frames
    BY <2>1, <1>5 DEF Frames, Sws, Hosts, Pkts
  <2> QED
    BY <2>1, <2>2, <1>4 DEF Arrived, Arrives
<1> HIDE DEF f
<1>7. n.air \cup {f} \in SUBSET Arrived(t, A)
  BY <1>2, <1>6
<1>8. Send(n, h, p) = [n EXCEPT !.air = n.air \cup {f}]
  BY <1>2 DEF Send, f
<1>9. [n EXCEPT !.air = n.air \cup {f}] \in Networks(t, A, R)
  BY <1>7, NetworkFields
<1> QED
  BY <1>8, <1>9

\* So does the answer of a host that receives a packet, and what it was waiting to send.
LEMMA HostReceivesOnNetwork ==
  ASSUME NEW t, NEW A, NEW R, Connected(t), A \subseteq AllPings(t),
         NEW n \in Networks(t, A, R), NEW p \in Traffic(A)
  PROVE  HostReceives(n, p.to, p) \in Networks(t, A, R)
<1> DEFINE h == p.to
           m == [n EXCEPT !.nb = n.nb \cup {<<h, p.src>>}]
<1>1. h \in Hosts /\ p.src \in Hosts /\ p \in Pkts /\ p.kind \in {"arpreq", "arprep", "echo", "reply"}
  BY ExplainedHosts DEF Traffic, Pkts
<1>2. n.nb \in SUBSET (Hosts \X Hosts) /\ n.ping \in Pings(A)
  BY DEF Networks
<1>3. m \in Networks(t, A, R) /\ m.ping = n.ping
  <2>1. n.nb \cup {<<h, p.src>>} \in SUBSET (Hosts \X Hosts)
    BY <1>1, <1>2
  <2> QED
    BY <2>1, NetworkFields DEF Networks
<1> HIDE DEF m
<1>4. CASE p.kind = "arpreq"
  <2>1. Packet("arprep", h, p.src, 0, 0) \in Traffic(A) /\ Packet("arprep", h, p.src, 0, 0).src = h
    BY <1>4, AnswersExplained DEF Packet
  <2>2. Send(m, h, Packet("arprep", h, p.src, 0, 0)) \in Networks(t, A, R)
    BY <1>3, <2>1, SendOnNetwork
  <2> QED
    BY <1>4, <2>2 DEF HostReceives, m
<1>5. CASE p.kind = "arprep"
  <2>1. CASE n.ping.st = "arp" /\ n.ping.from = h /\ n.ping.to = p.src
    <3> DEFINE x == [m EXCEPT !.ping.st = "echo"]
               q == Packet("echo", h, p.src, n.ping.id, n.ping.sent)
    <3>1. [n.ping EXCEPT !.st = "echo"] \in Pings(A)
      BY <1>2, <2>1 DEF Pings
    <3>2. x \in Networks(t, A, R)
      BY <3>1, <1>3, NetworkFields
    <3>3. <<h, p.src, n.ping.id>> \in A /\ n.ping.sent \in 0..2 /\ n.ping.id \in 0..9
      BY <1>2, <2>1 DEF Pings
    <3>4. q \in Traffic(A) /\ q.src = h
      BY <1>1, <3>3, RequestsExplained DEF Packet
    <3> HIDE DEF x, q
    <3>5. Send(x, h, q) \in Networks(t, A, R)
      BY <3>2, <3>4, SendOnNetwork
    <3> QED
      BY <1>5, <2>1, <3>5 DEF HostReceives, m, x, q
  <2>2. CASE ~(n.ping.st = "arp" /\ n.ping.from = h /\ n.ping.to = p.src)
    BY <1>3, <1>5, <2>2 DEF HostReceives, m
  <2> QED
    BY <2>1, <2>2
<1>6. CASE p.kind = "echo"
  <2>1. Packet("reply", h, p.src, p.id, p.seq) \in Traffic(A)
        /\ Packet("reply", h, p.src, p.id, p.seq).src = h
    BY <1>6, AnswersExplained DEF Packet
  <2>2. Send(n, h, Packet("reply", h, p.src, p.id, p.seq)) \in Networks(t, A, R)
    BY <2>1, SendOnNetwork
  <2> QED
    BY <1>6, <2>2 DEF HostReceives
<1>7. CASE p.kind = "reply"
  <2>1. n.ping.st = "echo" => [n.ping EXCEPT !.st = "answered"] \in Pings(A)
    BY <1>2 DEF Pings
  <2>2. n.ping.st = "echo" => [n EXCEPT !.ping.st = "answered"] \in Networks(t, A, R)
    BY <2>1, NetworkFields
  <2> QED
    BY <1>7, <2>2 DEF HostReceives
<1> QED
  BY <1>1, <1>4, <1>5, <1>6, <1>7

\* A packet that leaves by any port but the one to its source comes to its host, or to the
\* next switch by the right port.
LEMMA LeavesOnNetwork ==
  ASSUME NEW t, NEW A, NEW R, Connected(t), A \subseteq AllPings(t),
         NEW n \in Networks(t, A, R), NEW p \in Traffic(A), NEW sw \in Switches(t),
         NEW ps, PortTowards(t, sw, p.src) \notin ps
  PROVE  Leaves(n, sw, ps, p) \in Networks(t, A, R)
<1> DEFINE trunk == {w \in DOMAIN t.trunk : w[1] = sw /\ w[2] \in ps}
           Crossing(w) == [sw |-> t.trunk[w][1], in |-> t.trunk[w][2], pkt |-> p]
           m == [n EXCEPT !.air = n.air \cup {Crossing(w) : w \in trunk}]
<1>1. n.topo = t /\ n.air \subseteq Arrived(t, A)
  BY DEF Networks
<1>2. p \in Pkts /\ p.src \in DOMAIN t.at
  BY ExplainedHosts DEF Traffic
<1>3. ASSUME NEW w \in trunk PROVE Crossing(w) \in Arrived(t, A)
  <2>1. t.trunk[w] \in Switches(t) \X Hosts /\ w[2] # PortTowards(t, w[1], p.src)
    BY DEF Connected
  <2>2. t.trunk[w][2] = PortTowards(t, t.trunk[w][1], p.src)
    BY <1>2, <2>1 DEF Connected
  <2>3. t.trunk[w][1] \in Switches(t) /\ t.trunk[w][1] \in Sws /\ t.trunk[w][2] \in Hosts
    BY <2>1 DEF Connected
  <2>4. Crossing(w) \in Frames
    BY <1>2, <2>3 DEF Frames, Sws, Hosts, Pkts
  <2> QED
    BY <2>2, <2>3, <2>4 DEF Arrived, Arrives
<1>4. n.air \cup {Crossing(w) : w \in trunk} \in SUBSET Arrived(t, A)
  BY <1>1, <1>3
<1>5. m \in Networks(t, A, R)
  BY <1>4, NetworkFields
<1>6. HostReceives(m, p.to, p) \in Networks(t, A, R)
  BY <1>5, HostReceivesOnNetwork
<1>7. Leaves(n, sw, ps, p) \in {m, HostReceives(m, p.to, p)}
  BY <1>1 DEF Leaves
<1> QED
  BY <1>5, <1>6, <1>7

\* Hence what a rule, a Packet-Out or a flood does with a packet; none sends it back to
\* where it came from.
LEMMA OutputOnNetwork ==
  ASSUME NEW t, NEW A, NEW R, Connected(t), A \subseteq AllPings(t),
         NEW n \in Networks(t, A, R), NEW f, Arrives(t, A, f), NEW port
  PROVE  Output(n, f.sw, f.in, port, f.pkt) \in Networks(t, A, R)
<1>1. f.pkt \in Traffic(A) /\ f.sw \in Switches(t) /\ f.in = PortTowards(t, f.sw, f.pkt.src)
  BY DEF Arrives
<1> DEFINE ps == (IF port = FLOOD THEN {w[2] : w \in Places(n.topo)} ELSE {port}) \ {f.in}
<1>2. PortTowards(t, f.sw, f.pkt.src) \notin ps
  BY <1>1
<1> HIDE DEF ps
<1>3. Leaves(n, f.sw, ps, f.pkt) \in Networks(t, A, R)
  BY <1>1, <1>2, LeavesOnNetwork
<1> QED
  BY <1>3 DEF Output, ps

\* A table of rules stays one when a rule is added.
LEMMA AddRuleIn ==
  ASSUME NEW R, NEW rules \in SUBSET R, NEW r \in R
  PROVE  AddRule(rules, r) \in SUBSET R /\ r \in AddRule(rules, r)
BY DEF AddRule

\* The phases of a ping, each followed by the next, with as many answers as requests at
\* most.
LEMMA PingGoesOn ==
  ASSUME NEW A, NEW p \in Pings(A)
  PROVE  /\ [p EXCEPT !.st = "ready"] \in Pings(A) \/ p.st = "idle"
         /\ p.st = "answered" => [p EXCEPT !.st = "ready", !.ok = p.ok + 1] \in Pings(A)
         /\ p.st = "ready" /\ p.sent < p.count =>
              \A s \in {"echo", "arp"} : [p EXCEPT !.st = s, !.sent = p.sent + 1] \in Pings(A)
<1>1. /\ p \in [st : {"idle", "ready", "arp", "echo", "answered"}, from : 0..4, to : 0..4,
                id : 0..9, count : 0..2, sent : 0..2, ok : 0..2]
      /\ p.ok <= p.sent /\ p.sent <= p.count
      /\ p.st \in {"arp", "echo", "answered"} => p.ok < p.sent
      /\ p.st # "idle" => <<p.from, p.to, p.id>> \in A
  BY DEF Pings
<1>2. [p EXCEPT !.st = "ready"] \in Pings(A) \/ p.st = "idle"
  BY <1>1 DEF Pings
<1>3. ASSUME p.st = "answered"
      PROVE  [p EXCEPT !.st = "ready", !.ok = p.ok + 1] \in Pings(A)
  <2> DEFINE q == [p EXCEPT !.st = "ready", !.ok = p.ok + 1]
  <2>1. p.ok + 1 \in 0..2 /\ p.ok + 1 <= p.sent
    BY <1>1, <1>3
  <2>2. /\ q \in [st : {"idle", "ready", "arp", "echo", "answered"}, from : 0..4, to : 0..4,
                  id : 0..9, count : 0..2, sent : 0..2, ok : 0..2]
        /\ q.st = "ready" /\ q.from = p.from /\ q.to = p.to /\ q.id = p.id
        /\ q.ok = p.ok + 1 /\ q.sent = p.sent /\ q.count = p.count
    BY <1>1, <2>1
  <2> HIDE DEF q
  <2>3. q \in Pings(A)
    BY <1>1, <1>3, <2>1, <2>2 DEF Pings
  <2> QED
    BY <2>3 DEF q
<1>4. ASSUME p.st = "ready", p.sent < p.count, NEW s \in {"echo", "arp"}
      PROVE  [p EXCEPT !.st = s, !.sent = p.sent + 1] \in Pings(A)
  <2> DEFINE q == [p EXCEPT !.st = s, !.sent = p.sent + 1]
  <2>1. p.sent + 1 \in 0..2 /\ p.sent + 1 <= p.count /\ p.ok < p.sent + 1
    BY <1>1, <1>4
  <2>2. /\ q \in [st : {"idle", "ready", "arp", "echo", "answered"}, from : 0..4, to : 0..4,
                  id : 0..9, count : 0..2, sent : 0..2, ok : 0..2]
        /\ q.st = s /\ q.from = p.from /\ q.to = p.to /\ q.id = p.id
        /\ q.ok = p.ok /\ q.sent = p.sent + 1 /\ q.count = p.count
    BY <1>1, <2>1
  <2> HIDE DEF q
  <2>3. q \in Pings(A)
    BY <1>1, <1>4, <2>1, <2>2 DEF Pings
  <2> QED
    BY <2>3 DEF q
<1> QED
  BY <1>2, <1>3, <1>4

\* Whatever happens in the network leaves it a network of the same topology, the same
\* pings and the same rules.
LEMMA FabricOnNetwork ==
  ASSUME NEW t, NEW A, NEW R, Connected(t), A \subseteq AllPings(t),
         net \in Networks(t, A, R), FabricNext
  PROVE  net' \in Networks(t, A, R)
<1>0. /\ net.topo = t /\ net.air \subseteq Arrived(t, A) /\ net.pin \in Seq(Events(t, A))
      /\ net.out \in Seq(Messages(t, A, R)) /\ net.adp \in Seq(R) /\ net.ping \in Pings(A)
      /\ net.rules \in SUBSET R /\ net.miss \in SUBSET Sws
  BY DEF Networks
<1>1. CASE SwitchForwards
  <2>1. PICK f \in net.air :
          LET n == [net EXCEPT !.air = @ \ {f}] IN
          net' = IF Matching(net, f) # {}
                 THEN Output(n, f.sw, f.in, (CHOOSE r \in Matching(net, f) : TRUE).out, f.pkt)
                 ELSE IF f.sw \in net.miss /\ net.conn
                 THEN [n EXCEPT !.pin = Append(@, [type |-> "packet", sw |-> f.sw,
                                                   in |-> f.in, pkt |-> f.pkt])]
                 ELSE n
    BY <1>1 DEF SwitchForwards
  <2> DEFINE n == [net EXCEPT !.air = net.air \ {f}]
             e == [type |-> "packet", sw |-> f.sw, in |-> f.in, pkt |-> f.pkt]
  <2>2. f \in Frames /\ Arrives(t, A, f)
    BY <1>0 DEF Arrived
  <2>3. n \in Networks(t, A, R) /\ n.pin = net.pin
    <3>1. net.air \ {f} \in SUBSET Arrived(t, A)
      BY <1>0
    <3> QED
      BY ZenonT(60), <3>1, NetworkFields DEF Networks
  <2>4. e \in Events(t, A)
    BY <2>2 DEF Events, PacketEvents, Arrives, Frames, Sws, Hosts, Pkts
  <2>5. Append(net.pin, e) \in Seq(Events(t, A))
    BY <1>0, <2>4, AppendProperties
  <2> HIDE DEF n, e
  <2>6. \A port : Output(n, f.sw, f.in, port, f.pkt) \in Networks(t, A, R)
    BY <2>2, <2>3, OutputOnNetwork
  <2>7. [n EXCEPT !.pin = Append(net.pin, e)] \in Networks(t, A, R)
    BY <2>3, <2>5, NetworkFields
  <2>8. net' \in {n, [n EXCEPT !.pin = Append(net.pin, e)],
                  Output(n, f.sw, f.in, (CHOOSE r \in Matching(net, f) : TRUE).out, f.pkt)}
    BY <2>1, <2>3 DEF n, e
  <2> QED
    BY <2>3, <2>6, <2>7, <2>8
<1>2. CASE ChannelApplies
  <2> DEFINE m == Head(net.out)
             n == [net EXCEPT !.out = Tail(net.out)]
  <2>1. m \in Messages(t, A, R) /\ Tail(net.out) \in Seq(Messages(t, A, R))
    BY <1>0, <1>2, HeadTailProperties DEF ChannelApplies
  <2>2. n \in Networks(t, A, R) /\ n.pin = net.pin /\ n.rules = net.rules /\ n.miss = net.miss
    BY ZenonT(60), <2>1, NetworkFields DEF Networks
  <2> HIDE DEF m, n
  <2>3. net' = CASE m.type = "miss" -> [n EXCEPT !.miss = @ \cup {m.sw}]
                 [] m.type = "barrier" ->
                      IF n.conn THEN [n EXCEPT !.pin = Append(@, m)] ELSE n
                 [] m.type = "flow" -> [n EXCEPT !.rules = AddRule(@, m.rule)]
                 [] m.type = "packet" -> Output(n, m.sw, m.in, m.port, m.pkt)
    BY <1>2 DEF ChannelApplies, m, n
  <2>4. CASE m.type = "miss"
    BY <2>1, <2>2, <2>3, <2>4 DEF Messages, PlainMessages, FlowMods, PacketOuts, Networks
  <2>5. CASE m.type = "barrier"
    <3>1. m \in Events(t, A)
      BY <2>1, <2>5 DEF Messages, PlainMessages, FlowMods, PacketOuts, Events, PlainEvents
    <3>2. Append(net.pin, m) \in Seq(Events(t, A))
      BY <1>0, <3>1, AppendProperties
    <3>3. [n EXCEPT !.pin = Append(net.pin, m)] \in Networks(t, A, R)
      BY <2>2, <3>2, NetworkFields
    <3> QED
      BY <2>2, <2>3, <2>5, <3>3
  <2>6. CASE m.type = "flow"
    <3>1. m.rule \in R
      BY <2>1, <2>6 DEF Messages, PlainMessages, FlowMods, PacketOuts
    <3>2. [n EXCEPT !.rules = AddRule(net.rules, m.rule)] \in Networks(t, A, R)
      BY SMTT(20), <1>0, <2>2, <3>1, AddRuleIn, NetworkFields
    <3> QED
      BY <2>2, <2>3, <2>6, <3>2
  <2>7. CASE m.type = "packet"
    <3>1. Arrives(t, A, m)
      BY <2>1, <2>7 DEF Messages, PlainMessages, FlowMods, PacketOuts
    <3>2. Output(n, m.sw, m.in, m.port, m.pkt) \in Networks(t, A, R)
      BY <2>2, <3>1, OutputOnNetwork
    <3> QED
      BY <2>3, <2>7, <3>2
  <2> QED
    BY <2>1, <2>4, <2>5, <2>6, <2>7 DEF Messages, PlainMessages, FlowMods, PacketOuts
<1>3. CASE AdapterApplies
  <2>1. Head(net.adp) \in R /\ Tail(net.adp) \in Seq(R)
    BY <1>0, <1>3, HeadTailProperties DEF AdapterApplies
  <2>2. AddRule(net.rules, Head(net.adp)) \in SUBSET R
    BY <1>0, <2>1, AddRuleIn
  <2> QED
    BY <1>3, <2>1, <2>2 DEF AdapterApplies, Networks
<1>4. CASE PingSends
  <2> DEFINE p == net.ping
             known == <<p.from, p.to>> \in net.nb
             n == [net EXCEPT !.ping.st = IF known THEN "echo" ELSE "arp", !.ping.sent = p.sent + 1]
             q == IF known THEN Packet("echo", p.from, p.to, p.id, p.sent + 1)
                  ELSE Packet("arpreq", p.from, p.to, 0, 0)
  <2>1. p.st = "ready" /\ p.sent < p.count /\ net' = Send(n, p.from, q)
    BY <1>4, <1>0 DEF PingSends, Networks, Pings
  <2>2. [p EXCEPT !.st = IF known THEN "echo" ELSE "arp", !.sent = p.sent + 1] \in Pings(A)
    BY <1>0, <2>1, PingGoesOn
  <2>3. n \in Networks(t, A, R)
    <3>1. n = [net EXCEPT !.ping = [p EXCEPT !.st = IF known THEN "echo" ELSE "arp",
                                             !.sent = p.sent + 1]]
      BY DEF Networks, Pings
    <3> QED
      BY <2>2, <3>1, NetworkFields
  <2>4. <<p.from, p.to, p.id>> \in A /\ p.sent + 1 \in 0..2
    BY <1>0, <2>1 DEF Pings
  <2>5. <<p.from, p.to, p.id>> \in Hosts \X Hosts \X (0..9)
    BY <2>4 DEF AllPings, Connected
  <2>6. q \in Traffic(A) /\ q.src = p.from
    BY <2>4, <2>5, RequestsExplained DEF Packet
  <2> HIDE DEF n, q
  <2> QED
    BY <2>1, <2>3, <2>6, SendOnNetwork
<1>5. CASE PingAnswered
  <2>1. [net.ping EXCEPT !.st = "ready", !.ok = net.ping.ok + 1] \in Pings(A)
    BY <1>0, <1>5, PingGoesOn DEF PingAnswered
  <2>2. net' = [net EXCEPT !.ping = [net.ping EXCEPT !.st = "ready", !.ok = net.ping.ok + 1]]
    BY <1>5 DEF PingAnswered, Networks, Pings
  <2> QED
    BY <2>1, <2>2, NetworkFields
<1>6. CASE PingGivesUp
  <2>1. [net.ping EXCEPT !.st = "ready"] \in Pings(A)
    BY <1>0, <1>6, PingGoesOn DEF PingGivesUp
  <2>2. [net EXCEPT !.ping = [net.ping EXCEPT !.st = "ready"]] \in Networks(t, A, R)
    BY <2>1, NetworkFields
  <2>3. net.late \in Int
    BY DEF Networks
  <2>4. PICK l \in Int : net' = [[net EXCEPT !.ping = [net.ping EXCEPT !.st = "ready"]]
                                     EXCEPT !.late = l]
    <3>1. PICK l \in {net.late, net.late - 1} :
            net' = [net EXCEPT !.ping.st = "ready", !.late = l]
      BY <1>6 DEF PingGivesUp
    <3>2. l \in Int
      BY <2>3, <3>1
    <3> QED
      BY <3>1, <3>2
  <2> QED
    BY <2>2, <2>4 DEF Networks
<1> QED
  BY <1>1, <1>2, <1>3, <1>4, <1>5, <1>6 DEF FabricNext

-----------------------------------------------------------------------------
(* What a controller does with a packet *)

\* A source is learnt at the port that leads to it.
LEMMA LearnsPort ==
  ASSUME NEW t, NEW A, Connected(t), A \subseteq AllPings(t), NEW ev \in PacketEvents(t, A),
         NEW name \in Names, SwitchOf(name) = ev.sw, NEW S \in SUBSET Learnt(t)
  PROVE  {s \in S : s[1] # name \/ s[2] # ev.pkt.src} \cup {<<name, ev.pkt.src, ev.in>>}
           \in SUBSET Learnt(t)
<1>1. /\ ev.pkt \in Traffic(A) /\ ev.in \in Hosts
      /\ ev.in = PortTowards(t, ev.sw, ev.pkt.src)
  BY DEF PacketEvents, Arrives
<1>2. ev.pkt.src \in DOMAIN t.at /\ ev.pkt.src \in Hosts
  BY <1>1, ExplainedHosts
<1>3. <<name, ev.pkt.src, ev.in>> \in Learnt(t)
  BY <1>1, <1>2 DEF Learnt
<1> QED
  BY <1>3

\* What is looked up is the port that leads to the destination, or PORT_FLOOD.
LEMMA LookupLeadsHome ==
  ASSUME NEW t, NEW c, c.stations \subseteq Learnt(t), NEW name, NEW dst,
         Lookup(c, name, dst) # FLOOD
  PROVE  /\ dst \in DOMAIN t.at /\ dst \in Hosts /\ Lookup(c, name, dst) \in Hosts
         /\ Lookup(c, name, dst) = PortTowards(t, SwitchOf(name), dst)
<1> DEFINE known == {s \in c.stations : s[1] = name /\ s[2] = dst}
<1>1. known # {} /\ Lookup(c, name, dst) = (CHOOSE s \in known : TRUE)[3]
  BY DEF Lookup
<1>2. PICK s \in known : Lookup(c, name, dst) = s[3]
  BY <1>1
<1> QED
  BY <1>2 DEF Learnt

\* A looked-up port is a port.
LEMMA LookupRange ==
  ASSUME NEW t, NEW c, c.stations \subseteq Learnt(t), NEW name, NEW dst
  PROVE  Lookup(c, name, dst) \in 0..4
BY LookupLeadsHome DEF FLOOD, Hosts

\* So the rule of a packet leads to its destination, from where its source is.
LEMMA FlowForMade ==
  ASSUME NEW t, NEW A, NEW J, Connected(t), A \subseteq AllPings(t), NEW ev \in PacketEvents(t, A),
         NEW name, SwitchOf(name) = ev.sw, NEW c, c.stations \subseteq Learnt(t),
         c.life \in Nat, NEW out, out = Lookup(c, name, EthDst(ev.pkt)), out # FLOOD
  PROVE  FlowFor(c, ev, out) \in Rules(t, A, J)
<1>1. /\ ev.pkt \in Traffic(A) /\ ev.pkt \in Pkts /\ ev.sw \in Sws /\ ev.in \in Hosts
      /\ ev.sw \in Switches(t) /\ ev.in = PortTowards(t, ev.sw, ev.pkt.src)
  BY DEF PacketEvents, Arrives, Traffic
<1>2. /\ EthDst(ev.pkt) \in Hosts /\ out \in Hosts
      /\ out = PortTowards(t, ev.sw, EthDst(ev.pkt))
  BY LookupLeadsHome
<1>3. ev.pkt.kind # "arpreq" /\ EthDst(ev.pkt) = ev.pkt.to
  BY <1>2 DEF EthDst, All, Hosts
<1> DEFINE r == FlowFor(c, ev, out)
<1>4. /\ r.sw = ev.sw /\ r.in = ev.in /\ r.dst = ev.pkt.to /\ r.out = out /\ r.id = ev.pkt.id
      /\ r = [sw |-> ev.sw, in |-> ev.in, dst |-> ev.pkt.to, out |-> out, life |-> c.life,
              id |-> ev.pkt.id]
  BY <1>3 DEF FlowFor
<1>5. r \in RuleSet
  BY <1>1, <1>2, <1>3, <1>4 DEF RuleSet, Hosts, Pkts
<1> HIDE DEF r
<1>6. Made(t, A, r)
  BY <1>1, <1>2, <1>3, <1>4 DEF Made
<1> QED
  BY <1>5, <1>6 DEF Rules, r

\* Installing a rule, by the Flow-Mod of a baseline, the persistent adapter or ovs-ofctl,
\* sends one that the network may hold.
LEMMA InstallsOnNetwork ==
  ASSUME NEW t, NEW A, NEW R, NEW n \in Networks(t, A, R),
         NEW c, NEW ev, NEW name, NEW out, NEW f, out # FLOOD => FlowFor(c, ev, out) \in R
  PROVE  Installs(n, c, ev, name, out, f) \in Networks(t, A, R)
<1> DEFINE rule == FlowFor(c, ev, out)
<1>0. n.out \in Seq(Messages(t, A, R)) /\ n.adp \in Seq(R) /\ n.rules \in SUBSET R
  BY DEF Networks
<1>1. CASE out = FLOOD
  BY <1>1 DEF Installs
<1>2. CASE out # FLOOD
  <2>1. rule \in R
    BY <1>2
  <2> HIDE DEF rule
  <2>2. [type |-> "flow", rule |-> rule] \in Messages(t, A, R)
    BY <2>1 DEF Messages, FlowMods
  <2>3. Append(n.out, [type |-> "flow", rule |-> rule]) \in Seq(Messages(t, A, R))
    BY <1>0, <2>2, AppendProperties
  <2>4. [n EXCEPT !.out = Append(n.out, [type |-> "flow", rule |-> rule])] \in Networks(t, A, R)
    BY <2>3, NetworkFields
  <2>5. Append(n.adp, rule) \in Seq(R)
    BY <1>0, <2>1, AppendProperties
  <2>6. [n EXCEPT !.adp = Append(n.adp, rule)] \in Networks(t, A, R)
    BY <2>5, NetworkFields
  <2>7. [n EXCEPT !.rules = AddRule(n.rules, rule)] \in Networks(t, A, R)
    BY <1>0, <2>1, AddRuleIn, NetworkFields
  <2> QED
    BY <1>2, <2>4, <2>6, <2>7 DEF Installs, rule
<1> QED
  BY <1>1, <1>2

\* The handler of a Packet-In leaves network and controller well formed and touches
\* nothing of the controller but what it learnt and counts.
LEMMA HandlesOnNetwork ==
  ASSUME NEW t, NEW A, NEW J, Connected(t), A \subseteq AllPings(t),
         net \in Networks(t, A, Rules(t, A, J)), net.pin # <<>>,
         NEW c, IsController(c, t), NEW ev \in PacketEvents(t, A),
         NEW name \in Names, SwitchOf(name) = ev.sw, NEW f \in Int,
         Handles(c, ev, name, f)
  PROVE  /\ net' \in Networks(t, A, Rules(t, A, J)) /\ net'.conn = net.conn
         /\ IsController(ctl', t)
         /\ \A x \in {"prog", "mode", "env", "alive", "life", "core", "missed", "ofReady",
                      "announced", "named", "captured", "reported", "armed", "pc", "late", "snap",
                      "seen", "lostWhenReady", "lines"} : ctl'[x] = c[x]
         /\ c.pc # "idle" => /\ ctl'.cap \in Captured
                             /\ ctl'.cap.pkt = ev.pkt /\ ctl'.cap.in = ev.in
<1> DEFINE R == Rules(t, A, J)
           learned == Learn(c, name, ev.pkt, ev.in)
           out == Lookup(learned, name, EthDst(ev.pkt))
           n == Installs(Consumed, c, ev, name, out, f)
<1>1. c.stations \in SUBSET Learnt(t) /\ c.life \in Nat /\ c.flows \in Int /\ c.faults \in Int
  BY DEF IsController
<1>2. /\ learned = [c EXCEPT !.stations = {s \in c.stations : s[1] # name \/ s[2] # ev.pkt.src}
                                             \cup {<<name, ev.pkt.src, ev.in>>}]
      /\ learned.stations \in SUBSET Learnt(t)
      /\ learned.life = c.life
  BY <1>1, LearnsPort DEF Learn, IsController
<1>3. IsController(learned, t) /\ \A x \in (DOMAIN c) \ {"stations"} : learned[x] = c[x]
  BY <1>2 DEF IsController
<1>4. out # FLOOD => FlowFor(learned, ev, out) \in R
  BY <1>1, <1>2, FlowForMade
<1>5. FlowFor(c, ev, out) = FlowFor(learned, ev, out)
  BY <1>2 DEF FlowFor
<1>6. out \in 0..4
  BY <1>2, LookupRange
<1>7. Consumed \in Networks(t, A, R)
  <2>1. Tail(net.pin) \in Seq(Events(t, A))
    BY HeadTailProperties DEF Networks
  <2> QED
    BY <2>1, NetworkFields DEF Consumed
<1> HIDE DEF R, learned, out
<1>8. n \in Networks(t, A, R) /\ n.conn = net.conn
  <2>1. n \in Networks(t, A, R)
    BY <1>4, <1>5, <1>7, InstallsOnNetwork
  <2>2. Consumed.conn = net.conn
    BY DEF Consumed, Networks
  <2>3. n.conn = Consumed.conn
    BY <1>7 DEF Installs, Networks
  <2> QED
    BY <2>1, <2>2, <2>3
<1>9. PacketOut(ev, out) \in Seq(Messages(t, A, R))
  <2> DEFINE m == [type |-> "packet", sw |-> ev.sw, in |-> ev.in, port |-> out, pkt |-> ev.pkt]
  <2>1. /\ ev.sw \in Sws /\ ev.in \in Hosts /\ ev.pkt \in Pkts /\ Arrives(t, A, ev)
    BY DEF PacketEvents
  <2>2. Arrives(t, A, m)
    BY <2>1 DEF Arrives
  <2>3. m \in PacketOuts(t, A)
    BY <2>1, <2>2, <1>6 DEF PacketOuts
  <2> HIDE DEF m
  <2>4. m \in Messages(t, A, R)
    BY <2>3 DEF Messages
  <2> QED
    BY <2>4 DEF PacketOut, m
<1> HIDE DEF n
<1>10. net' = [n EXCEPT !.out = n.out \o PacketOut(ev, out)]
  BY DEF Handles, n, out, learned
<1>11. net' \in Networks(t, A, R) /\ net'.conn = net.conn
  <2>1. n.out \o PacketOut(ev, out) \in Seq(Messages(t, A, R))
    BY <1>8, <1>9, ConcatProperties DEF Networks
  <2>2. [n EXCEPT !.out = n.out \o PacketOut(ev, out)] \in Networks(t, A, R)
    BY <1>8, <2>1, NetworkFields
  <2> QED
    BY <1>8, <1>10, <2>2 DEF Networks
<1> DEFINE cap == [pkt |-> ev.pkt, sw |-> ev.sw, in |-> ev.in, out |-> out, name |-> name,
                   installed |-> out # FLOOD]
<1>12. PICK flows \in Int, faults \in Int :
         ctl' = [learned EXCEPT !.flows = flows, !.faults = faults,
                                !.cap = IF c.pc = "idle" THEN learned.cap ELSE cap]
  <2> DEFINE failed == c.mode = "ppr" /\ (name # ev.sw \/ f = 1)
             flows == IF out # FLOOD /\ ~failed THEN learned.flows + 1 ELSE learned.flows
             faults == IF out # FLOOD THEN learned.faults - f ELSE learned.faults
  <2>1. flows \in Int /\ faults \in Int
    BY <1>3 DEF IsController
  <2>2. ctl' = [learned EXCEPT !.flows = flows, !.faults = faults,
                               !.cap = IF c.pc = "idle" THEN learned.cap ELSE cap]
    BY DEF Handles, out, learned
  <2> QED
    BY <2>1, <2>2
<1>13. cap \in Captured
  BY <1>6 DEF PacketEvents, Captured
<1>14. cap.pkt = ev.pkt /\ cap.in = ev.in
  OBVIOUS
<1> HIDE DEF cap
<1>15. /\ IsController(ctl', t)
       /\ \A x \in (DOMAIN c) \ {"stations", "flows", "faults", "cap"} : ctl'[x] = c[x]
       /\ c.pc # "idle" => ctl'.cap = cap
  BY <1>3, <1>12, <1>13 DEF IsController
<1>16. \A x \in {"prog", "mode", "env", "alive", "life", "core", "missed", "ofReady",
                 "announced", "named", "captured", "reported", "armed", "pc", "late", "snap",
                 "seen", "lostWhenReady", "lines"} : x \in DOMAIN c
  BY DEF IsController
<1> QED
  BY <1>11, <1>13, <1>14, <1>15, <1>16 DEF R

\* The connections of the switches, one after another, are events of a network.
LEMMA FeatureEvents ==
  ASSUME NEW S \in SUBSET Sws, NEW t, NEW A
  PROVE  SetToSeq({[type |-> "features", sw |-> s] : s \in S}) \in Seq(Events(t, A))
<1> DEFINE E == {[type |-> "features", sw |-> s] : s \in S}
<1>1. E \subseteq {[type |-> "features", sw |-> "s1"], [type |-> "features", sw |-> "s2"]}
  BY DEF Sws
<1>2. IsFiniteSet(E)
  <2>1. IsFiniteSet({[type |-> "features", sw |-> "s1"], [type |-> "features", sw |-> "s2"]})
    <3>1. IsFiniteSet({[type |-> "features", sw |-> "s1"]})
      BY FS_Singleton
    <3>2. IsFiniteSet({[type |-> "features", sw |-> "s1"]} \cup {[type |-> "features", sw |-> "s2"]})
      BY <3>1, FS_AddElement
    <3> QED
      BY <3>2
  <2> HIDE DEF E
  <2> QED
    BY <1>1, <2>1, FS_Subset
<1>3. PICK f \in Bijection(1..Cardinality(E), E) : TRUE
  BY <1>2, FS_CardinalityType DEF ExistsBijection
<1>4. f \in [1..Cardinality(E) -> E] /\ IsInjective(f)
  BY <1>3 DEF Bijection, Injection, IsInjective
<1>5. SetToSeq(E) \in [1..Cardinality(E) -> E]
  BY <1>4 DEF SetToSeq
<1>6. E \subseteq Events(t, A)
  BY DEF Events, PlainEvents
<1>7. Cardinality(E) \in Nat
  BY <1>2, FS_CardinalityType
<1> SUFFICES SetToSeq(E) \in Seq(Events(t, A))
  OBVIOUS
<1> HIDE DEF E
<1>8. SetToSeq(E) \in [1..Cardinality(E) -> Events(t, A)]
  BY <1>5, <1>6
<1> QED
  BY <1>7, <1>8, SeqDef

\* The same process, that may have printed a line more.
SameProcess(c, d) ==
    /\ \A x \in {"prog", "mode", "env", "alive", "life"} : d[x] = c[x]
    /\ d.lines = c.lines \/ \E e \in Lines : d.lines = Append(c.lines, e)

Occupied(c) == c.pc # "idle" => c.alive /\ c.cap \in Captured

\* A line of output is appended, and nothing else changes.
LEMMA EmitTyped ==
  ASSUME NEW t, NEW c, IsController(c, t), NEW e \in Lines
  PROVE  IsController(Emit(c, e), t) /\ Emit(c, e).lines = Append(c.lines, e)
         /\ \A x \in (DOMAIN c) \ {"lines"} : Emit(c, e)[x] = c[x]
<1>1. Append(c.lines, e) \in Seq(Lines)
  BY AppendProperties DEF IsController
<1> QED
  BY <1>1 DEF Emit, IsController

\* A record of a timed packet is a line that a controller may print.
LEMMA TimingTyped ==
  ASSUME ctl.cap \in Captured, NEW b \in BOOLEAN,
         NEW status \in {"none", "confirmed", "timed_out", "tool_error"}, NEW seen \in BOOLEAN
  PROVE  Timing(b) \in Lines /\ [Timing(b) EXCEPT !.status = status, !.seen = seen] \in Lines
<1>1. Timing(b) \in Timings
  BY DEF Timing, Timings, Captured
<1>2. [Timing(b) EXCEPT !.status = status, !.seen = seen] \in Timings
  BY <1>1 DEF Timings
<1> QED
  BY <1>1, <1>2 DEF Lines

Alone ==
    \/ AdapterBuilt \/ Announces \/ Confirms \/ ReportsLoadProfile
    \/ ObserverDeadline \/ ObserverPolls \/ ObserverEnds

\* A fault is counted as 0 or 1.
LEMMA FaultIsNumber == Fault \subseteq Int
  BY DEF Fault

\* A process that prints remains the process it was.
LEMMA EmitSame ==
  ASSUME NEW t, IsController(ctl, t), NEW e \in Lines
  PROVE  SameProcess(ctl, Emit(ctl, e)) /\ IsController(Emit(ctl, e), t)
<1>1. IsController(Emit(ctl, e), t) /\ Emit(ctl, e).lines = Append(ctl.lines, e)
      /\ \A x \in (DOMAIN ctl) \ {"lines"} : Emit(ctl, e)[x] = ctl[x]
  BY EmitTyped
<1>2. \A x \in {"prog", "mode", "env", "alive", "life"} : x \in (DOMAIN ctl) \ {"lines"}
  BY DEF IsController
<1> HIDE DEF IsController
<1> QED
  BY <1>1, <1>2 DEF SameProcess

\* A change of other fields.
LEMMA OtherFieldsSame ==
  ASSUME NEW t, NEW c, IsController(c, t), SameProcess(ctl, c)
  PROVE  /\ \A b \in BOOLEAN : LET d == [c EXCEPT !.announced = b]
                              IN IsController(d, t) /\ SameProcess(ctl, d)
         /\ \A b \in BOOLEAN : LET d == [c EXCEPT !.late = b]
                              IN IsController(d, t) /\ SameProcess(ctl, d)
         /\ LET d == [c EXCEPT !.pc = "idle"]
            IN IsController(d, t) /\ SameProcess(ctl, d)
         /\ \A n \in Int : LET d == [c EXCEPT !.pc = "idle", !.faults = n]
                          IN IsController(d, t) /\ SameProcess(ctl, d)
         /\ LET d == [c EXCEPT !.pc = "idle", !.reported = TRUE]
            IN IsController(d, t) /\ SameProcess(ctl, d)
         /\ LET d == [c EXCEPT !.core = "built"]
            IN IsController(d, t) /\ SameProcess(ctl, d)
         /\ \A n \in Int : LET d == [c EXCEPT !.core = "failed", !.faults = n]
                          IN IsController(d, t) /\ SameProcess(ctl, d)
BY ZenonT(60) DEF IsController, SameProcess

\* What a controller does without a message of the network changes no message.
LEMMA ControllerAlone ==
  ASSUME NEW t, IsController(ctl, t), Occupied(ctl), Alone
  PROVE  /\ UNCHANGED net
         /\ IsController(ctl', t) /\ Occupied(ctl') /\ SameProcess(ctl, ctl')
<1>0. SameProcess(ctl, ctl) /\ ctl.faults \in Int /\ ctl.faults - 1 \in Int
  BY DEF SameProcess, IsController
<1>1. CASE AdapterBuilt
  <2>1. UNCHANGED net /\ ctl.faults - 1 \in Int
    BY <1>0, <1>1 DEF AdapterBuilt
  <2>2. \/ ctl' = [ctl EXCEPT !.core = "built"]
        \/ ctl' = [ctl EXCEPT !.core = "failed", !.faults = ctl.faults - 1]
    <3>1. [ctl EXCEPT !.core = "failed"].faults = ctl.faults
      BY DEF IsController
    <3> QED
      BY <1>1, <3>1 DEF AdapterBuilt
  <2>3. IsController(ctl', t) /\ SameProcess(ctl, ctl')
    <3> DEFINE built == [ctl EXCEPT !.core = "built"]
               failed == [ctl EXCEPT !.core = "failed", !.faults = ctl.faults - 1]
    <3>1. IsController(built, t) /\ SameProcess(ctl, built)
      BY <1>0, OtherFieldsSame
    <3>2. IsController(failed, t) /\ SameProcess(ctl, failed)
      BY <1>0, OtherFieldsSame
    <3> QED
      BY <2>2, <3>1, <3>2
  <2>4. Occupied(ctl')
    BY <2>2 DEF Occupied, IsController
  <2> QED
    BY <2>1, <2>3, <2>4
<1>2. CASE Announces
  <2>1. [event |-> "ready"] \in Lines /\ [event |-> "adapter_error"] \in Lines
    BY DEF Lines
  <2> DEFINE c == [ctl EXCEPT !.announced = TRUE]
  <2>2. UNCHANGED net /\ (ctl' = c \/ \E e \in Lines : ctl' = Emit(c, e))
    BY <1>2, <2>1 DEF Announces
  <2>3. IsController(c, t) /\ SameProcess(ctl, c)
    BY <1>0, OtherFieldsSame
  <2>4. Occupied(c) /\ c.lines = ctl.lines
    BY DEF Occupied, IsController
  <2> HIDE DEF c
  <2>5. ASSUME NEW e \in Lines, ctl' = Emit(c, e)
        PROVE  IsController(ctl', t) /\ Occupied(ctl') /\ SameProcess(ctl, ctl')
    <3>1. IsController(Emit(c, e), t) /\ Emit(c, e).lines = Append(c.lines, e)
          /\ \A x \in (DOMAIN c) \ {"lines"} : Emit(c, e)[x] = c[x]
      BY <2>3, EmitTyped
    <3>2. \A x \in {"prog", "mode", "env", "alive", "life", "pc", "cap"} :
             x \in (DOMAIN c) \ {"lines"}
      BY <2>3 DEF IsController
    <3> QED
      BY <2>3, <2>4, <2>5, <3>1, <3>2 DEF Occupied, SameProcess
  <2> QED
    BY <2>2, <2>3, <2>4, <2>5
<1>3. CASE Confirms
  <2>1. PICK b \in BOOLEAN, f \in Int :
          ctl' = [Emit(ctl, Timing(b)) EXCEPT !.pc = "idle", !.faults = @ - f]
    BY <1>3, FaultIsNumber DEF Confirms
  <2>2. UNCHANGED net /\ Timing(b) \in Lines
    BY <1>3, TimingTyped DEF Confirms, Occupied
  <2> DEFINE c == Emit(ctl, Timing(b))
  <2>3. IsController(c, t) /\ SameProcess(ctl, c)
    BY <2>2, EmitSame
  <2> HIDE DEF c
  <2>4. c.faults - f \in Int
    BY <2>3 DEF IsController
  <2>5. ctl' = [c EXCEPT !.pc = "idle", !.faults = c.faults - f]
    BY <2>1 DEF c
  <2>6. IsController(ctl', t) /\ SameProcess(ctl, ctl')
    BY <2>3, <2>4, <2>5, OtherFieldsSame
  <2>7. ctl'.pc = "idle"
    BY <2>3, <2>5 DEF IsController
  <2> QED
    BY <2>2, <2>6, <2>7 DEF Occupied
<1>4. CASE ReportsLoadProfile
  <2> DEFINE e == [event |-> "load_profile", flows |-> ctl.flows]
             c == Emit(ctl, e)
  <2>1. e \in Lines
    BY DEF Lines, IsController
  <2>2. ctl' = [c EXCEPT !.pc = "idle", !.reported = TRUE] /\ UNCHANGED net
    BY <1>4 DEF ReportsLoadProfile
  <2> HIDE DEF e
  <2>3. IsController(c, t) /\ SameProcess(ctl, c)
    BY <2>1, EmitSame
  <2> HIDE DEF c
  <2>4. IsController(ctl', t) /\ SameProcess(ctl, ctl')
    BY <2>2, <2>3, OtherFieldsSame
  <2>5. ctl'.pc = "idle"
    BY <2>2, <2>3 DEF IsController
  <2> QED
    BY <2>2, <2>4, <2>5 DEF Occupied
<1>5. CASE ObserverDeadline
  <2>1. ctl' = [ctl EXCEPT !.late = TRUE] /\ UNCHANGED net
    BY <1>5 DEF ObserverDeadline
  <2>2. IsController(ctl', t) /\ SameProcess(ctl, ctl')
    BY <1>0, <2>1, OtherFieldsSame
  <2>3. Occupied(ctl')
    BY <2>1 DEF Occupied, IsController
  <2> QED
    BY <2>1, <2>2, <2>3
<1>6. CASE ObserverPolls
  <2>1. ctl.pc = "observe" /\ UNCHANGED net
    BY <1>6 DEF ObserverPolls
  <2>2. PICK f \in Int, snap \in {"none", "nonzero_exit", "expired", "matched", "rules"},
             seen \in BOOLEAN :
          ctl' = [ctl EXCEPT !.pc = "polled", !.faults = ctl.faults - f, !.snap = snap, !.seen = seen]
    <3>1. PICK f \in Fault :
            ctl' = [ctl EXCEPT !.pc = "polled", !.faults = @ - f,
                   !.snap = IF ctl.env.absent THEN "nonzero_exit"
                            ELSE IF f = 1 THEN "expired"
                            ELSE IF HasRule(net.rules, Expected(ctl))
                            THEN "matched" ELSE "rules",
                   !.seen = HasRule(net.rules, Expected(ctl))]
      BY <1>6 DEF ObserverPolls
    <3>2. HasRule(net.rules, Expected(ctl)) \in BOOLEAN
      BY DEF HasRule
    <3> DEFINE snap == IF ctl.env.absent THEN "nonzero_exit"
                       ELSE IF f = 1 THEN "expired"
                       ELSE IF HasRule(net.rules, Expected(ctl))
                       THEN "matched" ELSE "rules"
    <3>3. snap \in {"none", "nonzero_exit", "expired", "matched", "rules"}
      OBVIOUS
    <3>4. f \in Int
      BY FaultIsNumber
    <3>5. ctl' = [ctl EXCEPT !.pc = "polled", !.faults = ctl.faults - f, !.snap = snap,
                             !.seen = HasRule(net.rules, Expected(ctl))]
      BY <3>1
    <3> HIDE DEF snap
    <3> QED
      BY <3>2, <3>3, <3>4, <3>5
  <2>3. ctl.faults - f \in Int
    BY <1>0
  <2>4. IsController(ctl', t)
    BY <2>2, <2>3 DEF IsController
  <2>5. SameProcess(ctl, ctl')
    BY <2>2 DEF IsController, SameProcess
  <2>6. Occupied(ctl')
    BY <2>1, <2>2 DEF IsController, Occupied
  <2> QED
    BY <2>1, <2>4, <2>5, <2>6
<1>7. CASE ObserverEnds
  <2> DEFINE status == IF ctl.pc = "polled" THEN Outcome(ctl) ELSE "timed_out"
             e == [Timing(status = "confirmed") EXCEPT
                                 !.status = status, !.seen = ctl.seen]
             c == Emit(ctl, e)
  <2>1. status \in {"confirmed", "timed_out", "tool_error", "again"}
    BY DEF Outcome
  <2>2. /\ ctl.alive /\ ctl.pc \in {"polled", "observe"} /\ UNCHANGED net
        /\ ctl' = IF status = "again" THEN [ctl EXCEPT !.pc = "observe"]
                  ELSE [c EXCEPT !.pc = "idle"]
    BY <1>7 DEF ObserverEnds
  <2>3. status # "again" => e \in Lines
    <3>1. ctl.cap \in Captured /\ ctl.seen \in BOOLEAN
      BY <2>2 DEF Occupied, IsController
    <3> HIDE DEF status
    <3> QED
      BY <2>1, <3>1, TimingTyped
  <2> HIDE DEF status, e
  <2>4. CASE status = "again"
    <3>1. ctl' = [ctl EXCEPT !.pc = "observe"]
      BY <2>2, <2>4
    <3>2. IsController(ctl', t)
      BY <3>1 DEF IsController
    <3>3. SameProcess(ctl, ctl') /\ Occupied(ctl')
      BY <2>2, <3>1 DEF IsController, SameProcess, Occupied
    <3> QED
      BY <2>2, <3>2, <3>3
  <2>5. CASE status # "again"
    <3>1. IsController(c, t) /\ SameProcess(ctl, c)
      BY <2>3, <2>5, EmitSame
    <3>2. ctl' = [c EXCEPT !.pc = "idle"]
      BY <2>2, <2>5
    <3> HIDE DEF c
    <3>3. IsController(ctl', t) /\ SameProcess(ctl, ctl')
      BY <3>1, <3>2, OtherFieldsSame
    <3>4. ctl'.pc = "idle"
      BY <3>1, <3>2 DEF IsController
    <3> QED
      BY <2>2, <3>3, <3>4 DEF Occupied
  <2> QED
    BY <2>4, <2>5
<1> QED
  BY <1>1, <1>2, <1>3, <1>4, <1>5, <1>6, <1>7 DEF Alone

Serving ==
    \/ SwitchesConnect \/ Features \/ BarrierReply
    \/ BridgePacketIn \/ BaselinePacketIn \/ S56PacketIn

\* A bridge's name and its datapath identifier both stand for the bridge.
LEMMA NamesOfSwitches ==
  \A sw \in Sws : /\ sw \in Names /\ SwitchOf(sw) = sw
                  /\ DatapathId(sw) \in Names /\ SwitchOf(DatapathId(sw)) = sw
BY DEF Sws, Names, SwitchOf, DatapathId

\* Whether ovs-vsctl answers or not, the name that is used stands for the switch.
LEMMA ResolveTyped ==
  ASSUME NEW t, NEW c, IsController(c, t), NEW sw \in Sws, NEW f \in Int
  PROVE  LET d == ResolveBridgeName(c, sw, f)
         IN /\ IsController(d, t) /\ d.faults \in Int
            /\ BridgeName(d, sw) \in Names /\ SwitchOf(BridgeName(d, sw)) = sw
            /\ \A x \in (DOMAIN c) \ {"named", "faults"} : d[x] = c[x]
<1> DEFINE d == ResolveBridgeName(c, sw, f)
<1>1. IsController(d, t) /\ d.faults \in Int
  BY SMTT(20) DEF ResolveBridgeName, IsController
<1>2. \A x \in (DOMAIN c) \ {"named", "faults"} : d[x] = c[x]
  BY DEF ResolveBridgeName, IsController
<1> HIDE DEF d
<1>3. BridgeName(d, sw) \in Names /\ SwitchOf(BridgeName(d, sw)) = sw
  BY NamesOfSwitches DEF BridgeName
<1> QED
  BY <1>1, <1>2, <1>3 DEF d

\* A handler runs in the process that received the packet.
LEMMA SameAfterHandling ==
  ASSUME NEW t, NEW A, NEW J, Connected(t), A \subseteq AllPings(t),
         net \in Networks(t, A, Rules(t, A, J)), net.pin # <<>>, ctl.alive,
         NEW c, IsController(c, t),
         \A x \in {"prog", "mode", "env", "alive", "life", "lines"} : c[x] = ctl[x],
         NEW ev \in PacketEvents(t, A),
         NEW name \in Names, SwitchOf(name) = ev.sw, NEW f \in Int,
         Handles(c, ev, name, f)
  PROVE  /\ net' \in Networks(t, A, Rules(t, A, J)) /\ net'.conn = net.conn
         /\ IsController(ctl', t) /\ Occupied(ctl') /\ SameProcess(ctl, ctl')
<1>1. /\ net' \in Networks(t, A, Rules(t, A, J)) /\ net'.conn = net.conn
      /\ IsController(ctl', t)
      /\ ctl'.prog = c.prog /\ ctl'.mode = c.mode /\ ctl'.env = c.env /\ ctl'.alive = c.alive
      /\ ctl'.life = c.life /\ ctl'.lines = c.lines /\ ctl'.pc = c.pc
      /\ c.pc # "idle" => ctl'.cap \in Captured
  BY HandlesOnNetwork
<1>2. Occupied(ctl')
  BY <1>1 DEF Occupied
<1>3. SameProcess(ctl, ctl')
  BY <1>1 DEF SameProcess
<1> QED
  BY <1>1, <1>2, <1>3

\* Every handler of every controller leaves network and controller well formed: rules and
\* stations only ever lead home.
LEMMA ControllerServes ==
  ASSUME NEW t, NEW A, NEW J, Connected(t), A \subseteq AllPings(t),
         net \in Networks(t, A, Rules(t, A, J)),
         net.pin # <<>> => net.conn,
         ctl.prog = "direct" => \A sw \in Sws : [sw |-> sw, in |-> AnyPort, dst |-> IPOnly,
                                   out |-> FLOOD, life |-> ctl.life, id |-> 0] \in J,
         IsController(ctl, t), Occupied(ctl), Serving
  PROVE  /\ net' \in Networks(t, A, Rules(t, A, J)) /\ net'.conn /\ ctl.alive
         /\ IsController(ctl', t) /\ Occupied(ctl') /\ SameProcess(ctl, ctl')
<1> DEFINE R == Rules(t, A, J)
<1>0. /\ net.topo = t /\ net.pin \in Seq(Events(t, A)) /\ net.out \in Seq(Messages(t, A, R))
      /\ DOMAIN net = DOMAIN NoNet
  BY DEF Networks, NoNet
<1>1. SameProcess(ctl, ctl)
  BY DEF SameProcess
<1>2. CASE SwitchesConnect
  <2>1. Switches(t) \in SUBSET Sws
    BY DEF Connected
  <2> DEFINE pin == net.pin \o SetToSeq({[type |-> "features", sw |-> s] : s \in Switches(net.topo)})
  <2>2. pin \in Seq(Events(t, A))
    BY <1>0, <2>1, FeatureEvents, ConcatProperties
  <2>3. net' = [net EXCEPT !.conn = TRUE, !.pin = pin] /\ ctl.alive /\ UNCHANGED ctl
    <3>1. [net EXCEPT !.conn = TRUE].pin = net.pin
      BY <1>0 DEF NoNet
    <3> QED
      BY <1>2, <3>1 DEF SwitchesConnect
  <2> HIDE DEF pin
  <2>4. net' \in Networks(t, A, R) /\ net'.conn
    BY <2>2, <2>3 DEF Networks
  <2> QED
    BY <1>1, <2>3, <2>4
<1>3. ASSUME NEW type, Served(type)
      PROVE  /\ ctl.alive /\ ctl.pc = "idle" /\ net.pin # <<>> /\ net.conn
             /\ Head(net.pin) \in Events(t, A) /\ Head(net.pin).type = type
             /\ Consumed \in Networks(t, A, R) /\ Consumed.conn /\ Consumed.out = net.out
  <2>1. ctl.alive /\ ctl.pc = "idle" /\ net.pin # <<>> /\ Head(net.pin).type = type
    BY <1>3 DEF Served, Busy
  <2>2. Head(net.pin) \in Events(t, A) /\ Tail(net.pin) \in Seq(Events(t, A))
    BY <1>0, <2>1, HeadTailProperties
  <2>3. Consumed \in Networks(t, A, R)
    BY <2>2, NetworkFields DEF Consumed
  <2>4. Consumed.conn = net.conn /\ Consumed.out = net.out
    BY <1>0 DEF Consumed, NoNet
  <2> QED
    BY <2>1, <2>2, <2>3, <2>4
<1>4. ASSUME Served("packet")
      PROVE  /\ Head(net.pin) \in PacketEvents(t, A)
             /\ Head(net.pin).sw \in Sws
  BY <1>4, <1>3 DEF Events, PlainEvents, PacketEvents
<1>5. CASE Features
  <2> DEFINE sw == Head(net.pin).sw
  <2>0. Served("features")
    BY <1>5 DEF Features
  <2>1. /\ ctl.alive /\ ctl.pc = "idle" /\ sw \in Sws
        /\ Consumed \in Networks(t, A, R) /\ Consumed.conn /\ Consumed.out = net.out
    BY <2>0, <1>3 DEF Events, PlainEvents, PacketEvents
  <2>2. FeatureMessages(sw) \in Seq(Messages(t, A, R))
    <3>1. TableMiss(sw) \in Messages(t, A, R) /\ Barrier(sw) \in Messages(t, A, R)
      BY <2>1 DEF TableMiss, Barrier, Messages, PlainMessages
    <3> DEFINE r == [sw |-> sw, in |-> AnyPort, dst |-> IPOnly, out |-> FLOOD,
                     life |-> ctl.life, id |-> 0]
    <3>2. r \in RuleSet
      BY <2>1 DEF RuleSet, AnyPort, IPOnly, FLOOD, IsController
    <3>3. ctl.prog = "direct" => r \in R
      BY <2>1, <3>2 DEF Rules
    <3>4. DirectRule(sw) = [type |-> "flow", rule |-> r]
      BY DEF DirectRule
    <3> HIDE DEF r, R
    <3>5. ctl.prog = "direct" => DirectRule(sw) \in Messages(t, A, R)
      BY <3>3, <3>4 DEF Messages, FlowMods
    <3> QED
      BY <3>1, <3>5 DEF FeatureMessages
  <2> HIDE DEF sw
  <2>3. net' = [Consumed EXCEPT !.out = Consumed.out \o FeatureMessages(sw)]
    BY <1>5 DEF Features, sw
  <2>4. net' \in Networks(t, A, R) /\ net'.conn
    <3>1. Consumed.out \o FeatureMessages(sw) \in Seq(Messages(t, A, R))
      BY <1>0, <2>1, <2>2, ConcatProperties
    <3>2. [Consumed EXCEPT !.out = Consumed.out \o FeatureMessages(sw)] \in Networks(t, A, R)
      BY <2>1, <3>1, NetworkFields
    <3> QED
      BY <2>1, <2>3, <3>2 DEF Networks
  <2>5. PICK f \in Fault :
            LET c == IF ctl.prog \in {"bridge", "osken"}
                     THEN ResolveBridgeName(ctl, sw, f) ELSE ctl
            IN ctl' = IF ctl.prog = "osken"
                      THEN Emit([c EXCEPT !.missed = @ \cup {sw}], [event |-> "ready"])
                      ELSE [c EXCEPT !.missed = @ \cup {sw}]
    BY <1>5 DEF Features, sw
  <2> DEFINE c == IF ctl.prog \in {"bridge", "osken"} THEN ResolveBridgeName(ctl, sw, f) ELSE ctl
             d == [c EXCEPT !.missed = c.missed \cup {sw}]
  <2>6. f \in Int
    BY FaultIsNumber
  <2>7. IsController(c, t) /\ \A x \in (DOMAIN ctl) \ {"named", "faults"} : c[x] = ctl[x]
    BY <2>1, <2>6, ResolveTyped
  <2>8. ctl' = IF ctl.prog = "osken" THEN Emit(d, [event |-> "ready"]) ELSE d
    BY <2>5
  <2> HIDE DEF c
  <2>9. IsController(d, t) /\ SameProcess(ctl, d) /\ d.pc = "idle" /\ d.lines = ctl.lines
    <3>1. IsController(d, t)
      BY SMTT(60), <2>1, <2>7 DEF IsController
    <3>2. \A x \in {"prog", "mode", "env", "alive", "life", "lines", "pc"} : d[x] = ctl[x]
      BY <2>7 DEF IsController
    <3> QED
      BY <2>1, <3>1, <3>2 DEF SameProcess
  <2> HIDE DEF d
  <2>10. [event |-> "ready"] \in Lines
    BY DEF Lines
  <2>11. IsController(Emit(d, [event |-> "ready"]), t)
         /\ Emit(d, [event |-> "ready"]).lines = Append(d.lines, [event |-> "ready"])
         /\ \A x \in (DOMAIN d) \ {"lines"} : Emit(d, [event |-> "ready"])[x] = d[x]
    BY <2>9, <2>10, EmitTyped
  <2>12. \A x \in {"prog", "mode", "env", "alive", "life", "pc"} : x \in (DOMAIN d) \ {"lines"}
    BY <2>9 DEF IsController
  <2>13. SameProcess(ctl, Emit(d, [event |-> "ready"])) /\ Emit(d, [event |-> "ready"]).pc = "idle"
    BY <2>9, <2>10, <2>11, <2>12 DEF SameProcess
  <2> QED
    BY <2>1, <2>4, <2>8, <2>9, <2>11, <2>13 DEF Occupied
<1>6. CASE BarrierReply
  <2>1. Served("barrier") /\ net' = Consumed
    BY <1>6 DEF BarrierReply
  <2>2. ctl.alive /\ ctl.pc = "idle" /\ Consumed \in Networks(t, A, R) /\ Consumed.conn
    BY <2>1, <1>3
  <2>3. [event |-> "flow_confirmed"] \in Lines
    BY DEF Lines
  <2>4. \/ ctl' = Emit(ctl, [event |-> "flow_confirmed"])
        \/ ctl' = [ctl EXCEPT !.ofReady = TRUE]
    BY <1>6 DEF BarrierReply
  <2>5. /\ SameProcess(ctl, Emit(ctl, [event |-> "flow_confirmed"]))
        /\ IsController(Emit(ctl, [event |-> "flow_confirmed"]), t)
        /\ Emit(ctl, [event |-> "flow_confirmed"]).pc = ctl.pc
    BY <2>3, EmitSame DEF Emit, IsController
  <2>6. IsController([ctl EXCEPT !.ofReady = TRUE], t)
    BY DEF IsController
  <2>7. SameProcess(ctl, [ctl EXCEPT !.ofReady = TRUE]) /\ [ctl EXCEPT !.ofReady = TRUE].pc = ctl.pc
    BY DEF IsController, SameProcess
  <2> QED
    BY <2>1, <2>2, <2>4, <2>5, <2>6, <2>7 DEF Occupied
<1>7. CASE BridgePacketIn
  <2> DEFINE ev == Head(net.pin)
             capture == ~ctl.captured /\ IsIP(ev.pkt) /\ ev.pkt.to = ctl.env.target
             signal == ~ctl.reported /\ IsIP(ev.pkt) /\ ev.pkt.src = ctl.env.signal
  <2>0. Served("packet")
    BY <1>7 DEF BridgePacketIn
  <2> DEFINE Named(x) == ResolveBridgeName(ctl, ev.sw, x)
             Marked(x) == [Named(x) EXCEPT !.captured = @ \/ capture]
             pc == CASE capture -> "confirm" [] signal -> "profile" [] OTHER -> "idle"
  <2>1. PICK f \in Fault :
          IF ctl.core # "built"
          THEN /\ net' = Consumed
               /\ ctl' = [Marked(f) EXCEPT !.lostWhenReady = @ \/ Emitted("ready") # {}]
          ELSE Handles([Marked(f) EXCEPT !.pc = pc], ev, BridgeName(Named(f), ev.sw),
                       f - (ctl.faults - Named(f).faults))
    BY <1>7 DEF BridgePacketIn
  <2>2. ev \in PacketEvents(t, A) /\ ev.sw \in Sws /\ ctl.alive /\ ctl.pc = "idle"
        /\ net.pin # <<>> /\ net.conn /\ Consumed \in Networks(t, A, R) /\ Consumed.conn
    BY <2>0, <1>3, <1>4
  <2> DEFINE named == Named(f)
             capt == named.captured \/ capture
             c == [named EXCEPT !.captured = capt]
             d == [c EXCEPT !.pc = pc]
  <2>3. f \in Int
    BY FaultIsNumber
  <2>4. /\ IsController(named, t) /\ named.faults \in Int
        /\ BridgeName(named, ev.sw) \in Names /\ SwitchOf(BridgeName(named, ev.sw)) = ev.sw
        /\ \A x \in (DOMAIN ctl) \ {"named", "faults"} : named[x] = ctl[x]
    BY <2>2, <2>3, ResolveTyped
  <2>5. capt \in BOOLEAN /\ pc \in {"idle", "confirm", "profile"}
    OBVIOUS
  <2>6. ctl.faults \in Int
    BY DEF IsController
  <2>7. /\ ctl.core # "built" =>
             net' = Consumed /\ ctl' = [c EXCEPT !.lostWhenReady = @ \/ Emitted("ready") # {}]
        /\ ctl.core = "built" =>
             Handles(d, ev, BridgeName(named, ev.sw), f - (ctl.faults - named.faults))
    BY <2>1
  <2>8. f - (ctl.faults - named.faults) \in Int
    BY <2>3, <2>4, <2>6
  <2> HIDE DEF ev, capt, pc, named, Named
  <2>9. IsController(c, t) /\ IsController(d, t)
        /\ (\A b \in BOOLEAN : IsController([c EXCEPT !.lostWhenReady = b], t))
    BY ZenonT(60), <2>4, <2>5 DEF IsController
  <2>10. \A x \in {"prog", "mode", "env", "alive", "life", "lines"} :
            /\ c[x] = ctl[x] /\ d[x] = ctl[x]
            /\ \A b \in BOOLEAN : [c EXCEPT !.lostWhenReady = b][x] = ctl[x]
    <3>1. {"prog", "mode", "env", "alive", "life", "lines"} \subseteq (DOMAIN ctl) \ {"named", "faults"}
      BY DEF IsController
    <3> QED
      BY <2>4, <3>1 DEF IsController
  <2>11. \A b \in BOOLEAN : [c EXCEPT !.lostWhenReady = b].pc = "idle"
    BY <2>2, <2>4 DEF IsController
  <2> HIDE DEF c, d
  <2>12. CASE ctl.core # "built"
    <3>0. PICK b \in BOOLEAN : ctl' = [c EXCEPT !.lostWhenReady = b]
      BY <2>7, <2>12
    <3>1. IsController(ctl', t) /\ ctl'.pc = "idle"
      BY <3>0, <2>9, <2>11, <2>12
    <3>2. SameProcess(ctl, ctl')
      BY <3>0, <2>10, <2>12 DEF SameProcess
    <3> QED
      BY <2>2, <2>7, <2>12, <3>1, <3>2 DEF Occupied
  <2>13. CASE ctl.core = "built"
    <3>1. Handles(d, ev, BridgeName(named, ev.sw), f - (ctl.faults - named.faults))
      BY <2>7, <2>13
    <3>2. net' \in Networks(t, A, Rules(t, A, J)) /\ net'.conn = net.conn
          /\ IsController(ctl', t) /\ Occupied(ctl') /\ SameProcess(ctl, ctl')
      BY <3>1, <2>2, <2>4, <2>8, <2>9, <2>10, SameAfterHandling
    <3> QED
      BY <2>2, <3>2
  <2>14. ctl.core = "built" \/ ctl.core # "built"
    OBVIOUS
  <2> QED
    BY <2>12, <2>13, <2>14
<1>8. CASE BaselinePacketIn
  <2> DEFINE ev == Head(net.pin)
  <2>0. Served("packet")
    BY <1>8 DEF BaselinePacketIn
  <2>1. ev \in PacketEvents(t, A) /\ ev.sw \in Sws /\ ctl.alive /\ net.pin # <<>> /\ net.conn
    BY <2>0, <1>3, <1>4
  <2>2. PICK capture \in BOOLEAN :
          Handles([ctl EXCEPT !.captured = @ \/ capture,
                              !.pc = IF capture THEN "confirm" ELSE "idle"], ev, ev.sw, 0)
    BY <1>8 DEF BaselinePacketIn
  <2> DEFINE c == [ctl EXCEPT !.captured = ctl.captured \/ capture,
                              !.pc = IF capture THEN "confirm" ELSE "idle"]
  <2>3. Handles(c, ev, ev.sw, 0)
    BY <2>2
  <2> HIDE DEF ev
  <2>4. IsController(c, t)
    BY ZenonT(60) DEF IsController
  <2>5. \A x \in {"prog", "mode", "env", "alive", "life", "lines"} : c[x] = ctl[x]
    BY DEF IsController
  <2> HIDE DEF c
  <2>6. ev.sw \in Names /\ SwitchOf(ev.sw) = ev.sw /\ 0 \in Int
    BY <2>1, NamesOfSwitches
  <2> QED
    BY <2>1, <2>3, <2>4, <2>5, <2>6, SameAfterHandling
<1>9. CASE S56PacketIn
  <2> DEFINE ev == Head(net.pin)
             captured == GateAccepts(ctl, ev)
  <2>0. Served("packet")
    BY <1>9 DEF S56PacketIn
  <2>1. /\ ev \in PacketEvents(t, A) /\ ev.sw \in Sws /\ ctl.alive /\ net.pin # <<>> /\ net.conn
        /\ Consumed \in Networks(t, A, R) /\ Consumed.conn
    BY <2>0, <1>3, <1>4
  <2> DEFINE c == [ctl EXCEPT !.captured = ctl.captured \/ captured,
                            !.pc = IF captured THEN "observe" ELSE "idle",
                            !.late = FALSE, !.seen = FALSE]
  <2>2. CASE ctl.core # "built"
    BY <1>1, <1>9, <2>1, <2>2 DEF S56PacketIn, Occupied
  <2>3. CASE ctl.core = "built"
    <3>1. PICK f \in Int : Handles(c, ev, ev.sw, f)
      BY <1>9, <2>3, FaultIsNumber DEF S56PacketIn
    <3>2. captured \in BOOLEAN
      BY DEF GateAccepts, IdentityMatches, IsController
    <3> HIDE DEF ev, captured
    <3>3. IsController(c, t)
      BY ZenonT(60), <3>2 DEF IsController
    <3>4. \A x \in {"prog", "mode", "env", "alive", "life", "lines"} : c[x] = ctl[x]
      BY DEF IsController
    <3> HIDE DEF c
    <3>5. ev.sw \in Names /\ SwitchOf(ev.sw) = ev.sw
      BY <2>1, NamesOfSwitches
    <3> QED
      BY <2>1, <3>1, <3>3, <3>4, <3>5, SameAfterHandling
  <2> QED
    BY <2>2, <2>3
<1> QED
  BY <1>2, <1>5, <1>6, <1>7, <1>8, <1>9 DEF Serving

-----------------------------------------------------------------------------
(* The steps of a driver *)

\* Every script is as the layers need it: the list of trials, driver by driver.
LEMMA TrialsWell == \A k \in Trials : WellScripted(k)
<1> SUFFICES ASSUME NEW k \in Trials PROVE WellScripted(k)
  OBVIOUS
<1>1. CASE k \in Normally("latency", {"ppr", "persistent", "osken"})
  BY <1>1, LatencyWell DEF Normally
<1>2. CASE k \in Normally("load", {"ppr", "persistent"})
  BY <1>2, LoadWell DEF Normally
<1>3. CASE k \in Normally("recovery", {"persistent", "osken"})
  BY <1>3, RecoveryWell DEF Normally
<1>4. CASE k \in {"s56"} \X {"ppr", "persistent", "osken"} \X Scenarios
  <2>1. PICK m \in {"ppr", "persistent", "osken"}, s \in Scenarios : k = <<"s56", m, s>>
    BY <1>4
  <2> QED
    BY <2>1, S56Well
<1>5. CASE k \in Normally("full", {"ppr", "persistent", "ofctl", "direct_osken"})
  BY <1>5, InstallWell, DirectWell DEF Normally
<1>6. CASE k \in Normally("compare", {"daim", "ofctl"})
  BY <1>6, InstallWell DEF Normally
<1>7. CASE k \in Normally("diag", {"persistent"})
  BY <1>7, DiagWell DEF Normally
<1>8. CASE k \in Normally("smoke", {"bridge", "learning"})
  BY <1>8, BridgeSmokeWell, LearningSmokeWell DEF Normally
<1>9. CASE k \in Normally("stage2", {"daim"})
  BY <1>9, InstallWell DEF Normally
<1>10. CASE k \in Normally("calibration", {"both"})
  BY <1>10, CalibrationWell DEF Normally
<1>11. CASE k \in Normally("demo", {"cli"})
  BY <1>11, DemoWell DEF Normally
<1> QED
  BY <1>1, <1>2, <1>3, <1>4, <1>5, <1>6, <1>7, <1>8, <1>9, <1>10, <1>11 DEF Trials

\* So is the one of every key, the killed drivers' ones included.
LEMMA KeysWell ==
  \A k \in Keys : /\ WellScripted(k) /\ Code[k] = TrialOf(k)
                  /\ StartAt(k) \in Nat /\ StartAt(k) > 0 /\ LaunchAt(k) \in Nat /\ LaunchAt(k) > 0
<1>1. \A k \in Keys : k \in Trials /\ Code[k] = TrialOf(k)
  BY DEF Keys, Code
<1>2. \A k : StartAt(k) \in Nat /\ StartAt(k) > 0 /\ LaunchAt(k) \in Nat /\ LaunchAt(k) > 0
  BY DEF StartAt, LaunchAt
<1> QED
  BY <1>1, <1>2, TrialsWell

\* The step that a driver is at.
LEMMA StepFits ==
  ASSUME NEW d, IsDriver(d), Placed(d), d.st # "done"
  PROVE  LET s == Code[d.key][d.st][d.pc]
             c == Code[d.key]
         IN /\ Len(c[d.st]) \in Nat /\ d.pc \in 1 .. Len(c[d.st])
            /\ d.st = "run" => Fits(d.key, d.pc, s)
            /\ d.st = "tail" => s.op \in {"unwatch", "teardown", "terminate"}
            /\ d.st = "after" => s.op \in {"check", "row"}
            /\ Ends(d.key, c.tail, c.after)
            /\ StartAt(d.key) < Len(c.run) /\ LaunchAt(d.key) < Len(c.run)
            /\ d.key[1] = "recovery" => Len(c.run) = JoinAt + 2
            /\ \A st \in {"run", "tail", "after"} : Len(c[st]) \in Nat
<1>1. d.key \in Keys /\ d.st \in {"run", "tail", "after"}
  BY DEF IsDriver
<1>2. WellScripted(d.key) /\ Code[d.key] = TrialOf(d.key)
  BY <1>1, KeysWell
<1>3. d.pc \in 1 .. Len(Code[d.key][d.st])
  BY DEF Placed
<1> QED
  BY <1>1, <1>2, <1>3 DEF WellScripted, Ends

\* What moving on leaves alone.
Kept(d, e) ==
    /\ e.key = d.key /\ e.own = d.own /\ e.proc = d.proc /\ e.wd = d.wd /\ e.got = d.got
    /\ e.read = d.read /\ e.mon = d.mon /\ e.attempts = d.attempts /\ e.row = d.row
    /\ e.eligible = d.eligible /\ e.kills = d.kills

Onward(d, e) ==
    \/ e.st = d.st /\ e.pc = d.pc + 1 /\ d.pc < Len(Code[d.key][d.st])
    \/ /\ e.pc = 1 /\ d.pc = Len(Code[d.key][d.st])
       /\ \/ d.st = "run" /\ e.st = "tail"
          \/ d.st = "tail" /\ e.st = "after" /\ Code[d.key].after # <<>>
          \/ d.st \in {"tail", "after"} /\ e.st = "done"

Offward(d, e) == e.pc = 1 /\ IF d.st = "run" THEN e.st = "tail" ELSE e.st = "done"

\* Where a section is empty, the driver is in the next one that is not.
LEMMA SectionPlaced ==
  ASSUME NEW d, IsDriver(d), NEW st \in {"tail", "after", "done"}
  PROVE  LET e == Section(d, st)
         IN /\ IsDriver(e) /\ Placed(e) /\ Kept(d, e) /\ e.valid = d.valid
            /\ e.pc = 1 /\ (e.st = st \/ e.st = "done")
            /\ st = "tail" => e.st = "tail"
            /\ e.st = "after" => Code[d.key].after # <<>>
<1>1. d.key \in Keys
  BY DEF IsDriver
<1>2. Len(Code[d.key].tail) > 0 /\ Len(Code[d.key].tail) \in Nat /\ Len(Code[d.key].after) \in Nat
      /\ (Code[d.key].after # <<>> => Len(Code[d.key].after) > 0)
  BY <1>1, KeysWell DEF WellScripted, Ends
<1> DEFINE e == Section(d, st)
<1> DEFINE At1(x) == [d EXCEPT !.st = x, !.pc = 1]
<1>3. e = At1("tail") \/ e = At1("after") \/ e = At1("done")
  BY DEF Section
<1>a. \A x \in {"tail", "after", "done"} :
        IsDriver(At1(x)) /\ Kept(d, At1(x)) /\ At1(x).valid = d.valid /\ At1(x).pc = 1
  BY DEF IsDriver, Kept
<1> HIDE DEF At1
<1>4. IsDriver(e) /\ Kept(d, e) /\ e.valid = d.valid /\ e.pc = 1
  <2> HIDE DEF e
  <2> QED BY <1>3, <1>a
<1>5. /\ e.st = st \/ e.st = "done"
      /\ st = "tail" => e.st = "tail"
      /\ e.st = "after" => Code[d.key].after # <<>>
  BY DEF IsDriver, Section
<1> HIDE DEF e
<1>6. Placed(e)
  BY <1>2, <1>4, <1>5 DEF Placed, Kept
<1> QED
  BY <1>4, <1>5, <1>6 DEF e

\* A step that succeeds leads to the next step or the next section.
LEMMA ForwardMoves ==
  ASSUME NEW d, IsDriver(d), Placed(d), d.st # "done"
  PROVE  /\ IsDriver(Forward(d)) /\ Placed(Forward(d)) /\ Kept(d, Forward(d))
         /\ Forward(d).valid = d.valid /\ Onward(d, Forward(d))
<1>1. /\ Len(Code[d.key][d.st]) \in Nat /\ d.pc \in 1 .. Len(Code[d.key][d.st])
      /\ d.st \in {"run", "tail", "after"}
  BY StepFits DEF IsDriver
<1>2. CASE d.pc < Len(Code[d.key][d.st])
  <2> DEFINE e == [d EXCEPT !.pc = d.pc + 1]
  <2>1. Forward(d) = e
    BY <1>2 DEF Forward
  <2>2. IsDriver(e) /\ Kept(d, e) /\ e.valid = d.valid /\ e.st = d.st /\ e.pc = d.pc + 1
    BY <1>1 DEF IsDriver, Kept
  <2> HIDE DEF e
  <2>3. Placed(e)
    BY <1>1, <1>2, <2>2 DEF Placed, Kept
  <2> QED
    BY <1>2, <2>1, <2>2, <2>3 DEF Onward
<1>3. CASE ~(d.pc < Len(Code[d.key][d.st]))
  <2> DEFINE st == CASE d.st = "run" -> "tail" [] d.st = "tail" -> "after" [] OTHER -> "done"
             e == Section(d, st)
  <2>1. Forward(d) = e
    BY <1>3 DEF Forward
  <2>2. st \in {"tail", "after", "done"} /\ (d.st = "run" => st = "tail")
        /\ (d.st = "tail" => st = "after") /\ (d.st = "after" => st = "done")
    BY <1>1
  <2> HIDE DEF st
  <2>3. IsDriver(e) /\ Placed(e) /\ Kept(d, e) /\ e.valid = d.valid /\ e.pc = 1
        /\ (e.st = st \/ e.st = "done") /\ (st = "tail" => e.st = "tail")
        /\ (e.st = "after" => Code[d.key].after # <<>>)
    BY <2>2, SectionPlaced
  <2> HIDE DEF e
  <2>4. d.pc = Len(Code[d.key][d.st])
    BY <1>1, <1>3
  <2>5. Onward(d, e)
    BY <1>1, <2>2, <2>3, <2>4 DEF Onward
  <2> QED
    BY <2>1, <2>3, <2>5
<1> QED
  BY <1>2, <1>3

\* A step that fails leads on, to the tail or past the rest, as its `else' says, and never
\* makes the trial valid.
LEMMA FailsMoves ==
  ASSUME NEW d, IsDriver(d), Placed(d), d.st # "done", NEW else
  PROVE  LET e == Fails(d, else)
         IN /\ IsDriver(e) /\ Placed(e) /\ Kept(d, e)
            /\ e.valid => d.valid /\ else = "go_on"
            /\ IF else \in {"go_on", "invalid"} THEN Onward(d, e) ELSE Offward(d, e)
<1>1. d.st \in {"run", "tail", "after"}
  BY DEF IsDriver
<1>2. CASE else = "go_on"
  BY <1>2, ForwardMoves DEF Fails
<1>3. CASE else = "invalid"
  <2> DEFINE f == [d EXCEPT !.valid = FALSE]
  <2>1. Fails(d, else) = Forward(f)
    BY <1>3 DEF Fails
  <2>2. IsDriver(f) /\ f.st = d.st /\ f.pc = d.pc /\ f.key = d.key /\ Kept(d, f) /\ ~f.valid
    BY DEF IsDriver, Kept
  <2> HIDE DEF f
  <2>3. Placed(f)
    BY <2>2 DEF Placed
  <2>4. IsDriver(Forward(f)) /\ Placed(Forward(f)) /\ Kept(f, Forward(f))
        /\ Forward(f).valid = f.valid /\ Onward(f, Forward(f))
    BY <2>2, <2>3, ForwardMoves
  <2>5. Kept(d, Forward(f)) /\ Onward(d, Forward(f))
    BY <2>2, <2>4 DEF Kept, Onward
  <2> QED
    BY <1>3, <2>1, <2>2, <2>4, <2>5
<1>4. CASE else \notin {"go_on", "invalid"}
  <2> DEFINE f == [d EXCEPT !.valid = FALSE, !.why = else]
             st == IF d.st = "run" THEN "tail" ELSE "done"
             e == Section(f, st)
  <2>1. Fails(d, else) = e
    BY <1>4 DEF Fails, IsDriver
  <2>2. IsDriver(f) /\ f.st = d.st /\ f.key = d.key /\ Kept(d, f) /\ ~f.valid
    BY DEF IsDriver, Kept
  <2>3. st \in {"tail", "after", "done"} /\ (d.st = "run" => st = "tail") /\ (d.st # "run" => st = "done")
    OBVIOUS
  <2> HIDE DEF f, st
  <2>4. IsDriver(e) /\ Placed(e) /\ Kept(f, e) /\ e.valid = f.valid /\ e.pc = 1
        /\ (e.st = st \/ e.st = "done") /\ (st = "tail" => e.st = "tail")
    BY <2>2, <2>3, SectionPlaced
  <2> HIDE DEF e
  <2>5. Kept(d, e) /\ Offward(d, e)
    BY <2>2, <2>3, <2>4 DEF Kept, Offward
  <2> QED
    BY <1>4, <2>1, <2>2, <2>4, <2>5
<1> QED
  BY <1>2, <1>3, <1>4

OwnSteps ==
    \/ LaunchStep \/ KillStep \/ StopStep \/ TerminateStep
    \/ AwaitStep \/ PingStep \/ CheckStep
    \/ NetStep \/ InstallStep \/ ArmStep \/ BookStep

\* What a step of the script may change, by its kind.
Framed ==
    /\ Running /\ IsDriver(drv') /\ Placed(drv') /\ drv'.key = drv.key
    /\ \/ At("ping") /\ drv' = drv
       \/ Onward(drv, drv')
       \/ /\ Offward(drv, drv')
          /\ Step.op \in {"stop", "terminate", "await", "check", "install", "arm"}
          /\ Step.op \in {"await", "check"} => Step.else \notin {"go_on", "invalid"}
          /\ Step.op = "terminate" => Step.after = "raise"
    /\ Step.op = "join" => drv.mon # "running"
    /\ drv'.valid => drv.valid
    /\ Step.op # "launch" => drv'.own = drv.own
    /\ Step.op \notin {"launch", "stop", "terminate"} => drv'.proc = drv.proc
    /\ Step.op \notin {"launch", "await"} => drv'.read = drv.read
    /\ Step.op \notin {"await", "ping", "note"} => drv'.got = drv.got
    /\ Step.op \notin {"watch", "unwatch"} => drv'.wd = drv.wd
    /\ Step.op # "monitor" => drv'.mon = drv.mon
    /\ Step.op # "row" => drv'.row = drv.row /\ drv'.eligible = drv.eligible
    /\ Step.op \notin {"kill", "stop", "terminate", "ping", "teardown", "start", "point", "cut",
                       "extra", "delflows", "install"} => net' = net
    /\ Step.op \notin {"launch", "kill", "stop", "terminate", "arm"} => ctl' = ctl

\* A step that only notes something first.
LEMMA MovesFrom ==
  ASSUME IsDriver(drv), Placed(drv), Running, NEW d, IsDriver(d),
         d.key = drv.key, d.st = drv.st, d.pc = drv.pc
  PROVE  LET f == Forward(d)
         IN /\ IsDriver(f) /\ Placed(f) /\ Kept(d, f) /\ f.valid = d.valid /\ Onward(drv, f)
            /\ \A else :
                 LET e == Fails(d, else)
                 IN /\ IsDriver(e) /\ Placed(e) /\ Kept(d, e)
                    /\ e.valid => d.valid /\ else = "go_on"
                    /\ Onward(drv, e) \/ Offward(drv, e)
                    /\ else \in {"go_on", "invalid"} => Onward(drv, e)
                    /\ else \notin {"go_on", "invalid"} => Offward(drv, e)
<1>1. Placed(d) /\ d.st # "done"
  BY DEF Placed, Running
<1>2. IsDriver(Forward(d)) /\ Placed(Forward(d)) /\ Kept(d, Forward(d))
      /\ Forward(d).valid = d.valid /\ Onward(drv, Forward(d))
  BY <1>1, ForwardMoves DEF Onward
<1>3. ASSUME NEW else
      PROVE  LET e == Fails(d, else)
             IN /\ IsDriver(e) /\ Placed(e) /\ Kept(d, e)
                /\ e.valid => d.valid /\ else = "go_on"
                /\ Onward(drv, e) \/ Offward(drv, e)
                /\ else \in {"go_on", "invalid"} => Onward(drv, e)
                /\ else \notin {"go_on", "invalid"} => Offward(drv, e)
  <2> DEFINE e == Fails(d, else)
  <2>1. IsDriver(e) /\ Placed(e) /\ Kept(d, e) /\ (e.valid => d.valid /\ else = "go_on")
        /\ IF else \in {"go_on", "invalid"} THEN Onward(d, e) ELSE Offward(d, e)
    BY <1>1, FailsMoves
  <2> HIDE DEF e
  <2>2. (Onward(d, e) => Onward(drv, e)) /\ (Offward(d, e) => Offward(drv, e))
    BY DEF Onward, Offward
  <2> QED
    BY <2>1, <2>2 DEF e
<1> QED
  BY <1>2, <1>3

\* Where a failing step leads.
Failing(e, else) ==
    /\ else \in {"go_on", "invalid"} => Onward(drv, e)
    /\ else \notin {"go_on", "invalid"} => Offward(drv, e)

\* Every step of a driver goes on from where it was, with the same script.
LEMMA OwnStepsFramed ==
  ASSUME IsDriver(drv), Placed(drv), OwnSteps
  PROVE  Framed
<1>0. Running
  BY DEF OwnSteps, LaunchStep, KillStep, StopStep, TerminateStep, AwaitStep, PingStep, CheckStep,
         NetStep, InstallStep, ArmStep, BookStep, At
<1>1. ASSUME NEW d, IsDriver(d), d.key = drv.key, d.st = drv.st, d.pc = drv.pc
      PROVE  LET f == Forward(d)
             IN /\ IsDriver(f) /\ Placed(f) /\ Onward(drv, f) /\ f.valid = d.valid /\ Kept(d, f)
                /\ \A else : LET e == Fails(d, else)
                             IN /\ IsDriver(e) /\ Placed(e) /\ Kept(d, e)
                                /\ (e.valid => d.valid) /\ Failing(e, else)
  BY <1>0, <1>1, MovesFrom DEF Failing
<1>2. /\ IsDriver(Forward(drv)) /\ Placed(Forward(drv)) /\ Onward(drv, Forward(drv))
      /\ Forward(drv).valid = drv.valid /\ Kept(drv, Forward(drv))
      /\ \A else : LET e == Fails(drv, else)
                   IN /\ IsDriver(e) /\ Placed(e) /\ Kept(drv, e)
                      /\ (e.valid => drv.valid) /\ Failing(e, else)
  BY <1>1
<1>3. LET d == Broken(drv)
      IN /\ IsDriver(Forward(d)) /\ Placed(Forward(d)) /\ Onward(drv, Forward(d))
         /\ Forward(d).valid = drv.valid /\ Kept(drv, Forward(d))
         /\ \A else : LET e == Fails(d, else)
                      IN /\ IsDriver(e) /\ Placed(e) /\ Kept(drv, e)
                         /\ (e.valid => drv.valid) /\ Failing(e, else)
  <2> DEFINE d == Broken(drv)
  <2>1. drv.tools - 1 \in Int
    BY DEF IsDriver
  <2>2. IsDriver(d) /\ d.key = drv.key /\ d.st = drv.st /\ d.pc = drv.pc /\ Kept(drv, d)
        /\ d.valid = drv.valid
    BY <2>1 DEF Broken, IsDriver, Kept
  <2> HIDE DEF d
  <2>3. /\ IsDriver(Forward(d)) /\ Placed(Forward(d)) /\ Onward(drv, Forward(d))
        /\ Forward(d).valid = d.valid /\ Kept(d, Forward(d))
        /\ \A else : LET e == Fails(d, else)
                     IN /\ IsDriver(e) /\ Placed(e) /\ Kept(d, e)
                        /\ (e.valid => d.valid) /\ Failing(e, else)
    BY <2>2, <1>1
  <2>4. \A e : Kept(d, e) => Kept(drv, e)
    BY <2>2 DEF Kept
  <2> QED
    BY <2>2, <2>3, <2>4 DEF d
<1> HIDE DEF Framed
<1>4. CASE LaunchStep
  <2> DEFINE mine == [drv EXCEPT !.own = TRUE, !.read = 0]
             other == [drv EXCEPT !.own = FALSE, !.proc = "alive"]
  <2>1. \A d \in {mine, other} : IsDriver(d) /\ d.key = drv.key /\ d.st = drv.st /\ d.pc = drv.pc
          /\ d.valid = drv.valid /\ d.got = drv.got /\ d.wd = drv.wd /\ d.mon = drv.mon
          /\ d.row = drv.row /\ d.eligible = drv.eligible
    BY DEF IsDriver
  <2>2. At("launch") /\ net' = net /\ \E d \in {mine, other} : drv' = Forward(d)
    BY <1>4 DEF LaunchStep
  <2> HIDE DEF mine, other
  <2>3. PICK d \in {mine, other} : drv' = Forward(d)
    BY <2>2
  <2> QED
    BY <1>0, <1>1, <2>1, <2>2, <2>3 DEF Framed, Kept, At
<1>5. CASE KillStep
  BY <1>0, <1>2, <1>5 DEF KillStep, Framed, Kept, At
<1>6. ASSUME NEW d, Kept(drv, d), IsDriver(d), Placed(d), OwnEnds(d)
      PROVE  /\ IsDriver(drv') /\ Placed(drv') /\ drv'.key = d.key /\ drv'.st = d.st /\ drv'.pc = d.pc
             /\ drv'.own = drv.own /\ drv'.read = drv.read /\ drv'.got = drv.got
             /\ drv'.wd = drv.wd /\ drv'.mon = drv.mon /\ drv'.row = drv.row
             /\ drv'.eligible = drv.eligible /\ drv'.valid = d.valid
  <2> DEFINE e == [d EXCEPT !.proc = "dead"]
  <2>1. drv' = d \/ drv' = e
    BY <1>6 DEF OwnEnds
  <2>2. IsDriver(e) /\ Kept([d EXCEPT !.proc = "dead"], e) /\ e.key = d.key /\ e.st = d.st /\ e.pc = d.pc
        /\ e.valid = d.valid /\ e.own = d.own /\ e.read = d.read /\ e.got = d.got /\ e.wd = d.wd
        /\ e.mon = d.mon /\ e.row = d.row /\ e.eligible = d.eligible
    BY <1>6 DEF IsDriver, Kept
  <2> HIDE DEF e
  <2>3. Placed(e)
    BY <1>6, <2>2 DEF Placed
  <2> QED
    BY <1>6, <2>1, <2>2, <2>3 DEF Kept
<1>7. CASE StopStep
  <2>1. CASE OwnEnds(Forward(drv))
    <3>1. Onward(drv, drv')
      BY <1>2, <1>6, <2>1 DEF Onward
    <3> QED
      BY <1>0, <1>2, <1>6, <1>7, <2>1, <3>1 DEF StopStep, Framed, Kept, At
  <2>2. CASE drv' = Fails(Broken(drv), "raise")
    BY <1>0, <1>3, <1>7, <2>2 DEF StopStep, Framed, Failing, Kept, At
  <2> QED
    BY <1>7, <2>1, <2>2 DEF StopStep
<1>8. CASE TerminateStep
  <2>1. CASE OwnEnds(Forward(drv))
    <3>1. Onward(drv, drv')
      BY <1>2, <1>6, <2>1 DEF Onward
    <3> QED
      BY <1>0, <1>2, <1>6, <1>8, <2>1, <3>1 DEF TerminateStep, Framed, Kept, At
  <2>2. CASE Step.after = "raise" /\ drv' = Fails(Broken(drv), "raise")
    BY <1>0, <1>3, <1>8, <2>2 DEF TerminateStep, Framed, Kept, At, Failing
  <2>3. CASE drv' = Forward(Broken(drv))
    BY <1>0, <1>3, <1>8, <2>3 DEF TerminateStep, Framed, Kept, At
  <2> QED
    BY <1>8, <2>1, <2>2, <2>3 DEF TerminateStep
<1>9. CASE AwaitStep
  <2>1. At("await") /\ net' = net /\ ctl' = ctl
    BY <1>9 DEF AwaitStep
  <2>2. CASE drv' = Fails(drv, Step.else)
    BY <1>0, <1>2, <2>1, <2>2 DEF Framed, Failing, Kept, At
  <2>3. ASSUME NEW g, NEW r, drv' = Forward([drv EXCEPT !.got = g, !.read = r])
        PROVE  Framed
    <3> DEFINE d == [drv EXCEPT !.got = g, !.read = r]
    <3>1. IsDriver(d) /\ d.key = drv.key /\ d.st = drv.st /\ d.pc = drv.pc /\ d.own = drv.own
          /\ d.proc = drv.proc /\ d.wd = drv.wd /\ d.mon = drv.mon /\ d.row = drv.row
          /\ d.eligible = drv.eligible /\ d.valid = drv.valid
      BY DEF IsDriver
    <3> HIDE DEF d
    <3> QED
      BY <1>0, <1>1, <2>1, <2>3, <3>1 DEF Framed, Kept, At, d
  <2>4. \/ drv' = Fails(drv, Step.else)
        \/ \E i \in Wanted : drv' = Forward([drv EXCEPT !.got = Gets(Step.as, Unread[i]),
                                                          !.read = drv.read + i])
    BY <1>9 DEF AwaitStep, IsDriver
  <2> QED
    BY <2>2, <2>3, <2>4
<1>10. ASSUME NEW g, drv' = Forward([drv EXCEPT !.got = g]), At("ping") \/ At("note"), ctl' = ctl,
              At("note") => net' = net
      PROVE  Framed
  <2> DEFINE d == [drv EXCEPT !.got = g]
  <2>1. IsDriver(d) /\ d.key = drv.key /\ d.st = drv.st /\ d.pc = drv.pc /\ d.own = drv.own
        /\ d.proc = drv.proc /\ d.wd = drv.wd /\ d.mon = drv.mon /\ d.row = drv.row
        /\ d.eligible = drv.eligible /\ d.valid = drv.valid /\ d.read = drv.read
    BY DEF IsDriver
  <2> HIDE DEF d
  <2> QED
    BY <1>0, <1>1, <1>10, <2>1 DEF Framed, Kept, At, d
<1>11. CASE PingStep
  <2>1. At("ping") /\ ctl' = ctl
    BY <1>11 DEF PingStep
  <2>2. \/ drv' = drv
        \/ drv' = Forward([drv EXCEPT !.got = Gets(Step.as, [ok |-> net.ping.ok, count |-> net.ping.count])])
    BY <1>11 DEF PingStep
  <2>3. CASE drv' = drv
    BY <1>0, <2>1, <2>3 DEF Framed, At
  <2> QED
    BY <1>10, <2>1, <2>2, <2>3 DEF At
<1>12. CASE CheckStep
  <2>1. At("check") /\ net' = net /\ ctl' = ctl
        /\ (drv' = Forward(drv) \/ drv' = Fails(drv, Step.else) \/ drv' = Fails(Broken(drv), Step.else))
    BY <1>12 DEF CheckStep
  <2> QED
    BY <1>0, <1>2, <1>3, <2>1 DEF Framed, Kept, At, Failing
<1>13. CASE NetStep
  BY <1>0, <1>2, <1>13 DEF NetStep, Framed, Kept, At
<1>14. CASE InstallStep
  <2>1. At("install") /\ ctl' = ctl
        /\ (drv' = Forward(drv) \/ drv' = Fails(Broken(drv), "raise"))
    BY <1>14 DEF InstallStep
  <2> QED
    BY <1>0, <1>2, <1>3, <2>1 DEF Framed, Kept, At, Failing
<1>15. CASE ArmStep
  <2>1. At("arm") /\ net' = net
        /\ (drv' = Forward(drv) \/ drv' = Fails(drv, "raise"))
    BY <1>15 DEF ArmStep
  <2> QED
    BY <1>0, <1>2, <2>1 DEF Framed, Kept, At, Failing
<1>16. CASE BookStep
  <2>0. net' = net /\ ctl' = ctl
    BY <1>16 DEF BookStep
  <2>1. ASSUME NEW w \in {"armed", "off"}, At("watch") \/ At("unwatch"),
               drv' = Forward([drv EXCEPT !.wd = w])
        PROVE  Framed
    <3> DEFINE d == [drv EXCEPT !.wd = w]
    <3>1. IsDriver(d) /\ d.key = drv.key /\ d.st = drv.st /\ d.pc = drv.pc /\ d.own = drv.own
          /\ d.proc = drv.proc /\ d.got = drv.got /\ d.mon = drv.mon /\ d.row = drv.row
          /\ d.eligible = drv.eligible /\ d.valid = drv.valid /\ d.read = drv.read
      BY DEF IsDriver
    <3> HIDE DEF d
    <3> QED
      BY <1>0, <1>1, <2>0, <2>1, <3>1 DEF Framed, Kept, At, d
  <2>2. CASE At("monitor") /\ drv' = Forward([drv EXCEPT !.mon = "running"])
    <3> DEFINE d == [drv EXCEPT !.mon = "running"]
    <3>1. IsDriver(d) /\ d.key = drv.key /\ d.st = drv.st /\ d.pc = drv.pc /\ d.own = drv.own
          /\ d.proc = drv.proc /\ d.got = drv.got /\ d.wd = drv.wd /\ d.row = drv.row
          /\ d.eligible = drv.eligible /\ d.valid = drv.valid /\ d.read = drv.read
      BY DEF IsDriver
    <3> HIDE DEF d
    <3> QED
      BY <1>0, <1>1, <2>0, <2>2, <3>1 DEF Framed, Kept, At, d
  <2>3. CASE At("join") /\ drv.mon # "running" /\ drv' = Forward(drv)
    BY <1>0, <1>2, <1>16, <2>0, <2>3 DEF Framed, Kept, At
  <2>4. CASE At("note") /\ drv' = Forward([drv EXCEPT !.got =
                        Gets(Step.as, \E r \in net.rules : r.life > 0 /\ r.dst # IPOnly)])
    BY <1>10, <2>0, <2>4
  <2>5. ASSUME NEW b \in BOOLEAN, At("row"), drv' = Forward([drv EXCEPT !.row = TRUE, !.eligible = b])
        PROVE  Framed
    <3> DEFINE d == [drv EXCEPT !.row = TRUE, !.eligible = b]
    <3>1. IsDriver(d) /\ d.key = drv.key /\ d.st = drv.st /\ d.pc = drv.pc /\ d.own = drv.own
          /\ d.proc = drv.proc /\ d.got = drv.got /\ d.wd = drv.wd /\ d.mon = drv.mon
          /\ d.valid = drv.valid /\ d.read = drv.read
      BY DEF IsDriver
    <3> HIDE DEF d
    <3> QED
      BY <1>0, <1>1, <2>0, <2>5, <3>1 DEF Framed, Kept, At, d
  <2>6. (drv.key[1] = "s56" /\ Eligible) \in BOOLEAN
    OBVIOUS
  <2> QED
    BY <1>16, <2>1, <2>2, <2>3, <2>4, <2>5, <2>6 DEF BookStep
<1> QED
  BY <1>4, <1>5, <1>7, <1>8, <1>9, <1>11, <1>12, <1>13, <1>14, <1>15, <1>16 DEF OwnSteps

-----------------------------------------------------------------------------
(* Layer 1: where the driver is *)

\* A step of a kind is of one action.
LEMMA StepOfKind ==
  ASSUME OwnSteps
  PROVE  /\ Running
         /\ Step.op = "launch" => LaunchStep
         /\ Step.op = "kill" => KillStep
         /\ Step.op = "stop" => StopStep
         /\ Step.op = "terminate" => TerminateStep
         /\ Step.op = "await" => AwaitStep
         /\ Step.op = "ping" => PingStep
         /\ Step.op = "check" => CheckStep
         /\ Step.op \in {"teardown", "start", "point", "cut", "extra", "delflows"} => NetStep
         /\ Step.op = "install" => InstallStep
         /\ Step.op = "arm" => ArmStep
         /\ Step.op \in {"watch", "unwatch", "monitor", "join", "note", "row"} => BookStep
BY DEF OwnSteps, LaunchStep, KillStep, StopStep, TerminateStep, AwaitStep, PingStep, CheckStep,
       NetStep, InstallStep, ArmStep, BookStep, At

\* A driver begins at the first step of its script.
LEMMA NewDriverPlaced ==
  ASSUME NEW k \in Keys, NEW m \in Int, NEW n \in Int
  PROVE  IsDriver(NewDriver(k, m, n)) /\ Placed(NewDriver(k, m, n))
<1>1. Len(Code[k].run) \in Nat /\ Len(Code[k].run) > 0
  <2>1. WellScripted(k) /\ Code[k] = TrialOf(k) /\ StartAt(k) \in Nat
    BY KeysWell
  <2> QED
    BY <2>1 DEF WellScripted
<1>2. IsDriver(NewDriver(k, m, n))
  BY DEF IsDriver, NewDriver
<1> DEFINE d == NewDriver(k, m, n)
<1>3. d.key = k /\ d.st = "run" /\ d.pc = 1
  BY DEF NewDriver
<1> HIDE DEF d
<1>4. Code[d.key][d.st] = Code[k].run
  BY <1>3
<1>5. Placed(d)
  BY <1>1, <1>3, <1>4 DEF Placed
<1> QED
  BY <1>2, <1>5 DEF d

\* Layer 1 holds at the start.
LEMMA PlaceInit == LabInit => PlaceInv
<1> SUFFICES ASSUME LabInit PROVE PlaceInv
  OBVIOUS
<1>1. PICK k \in Keys : \E a \in Adversities[k[1]] : drv = NewDriver(k, a.tools, a.kills)
  BY DEF LabInit
<1>2. k[1] \in Drivers
  BY DEF Keys
<1>3. PICK a \in Adversities[k[1]] : drv = NewDriver(k, a.tools, a.kills)
  BY <1>1
<1>4. a.tools \in Int /\ a.kills \in Int
  BY <1>2, LabAssumption
<1>5. IsDriver(drv) /\ Placed(drv)
  BY <1>3, <1>4, NewDriverPlaced
<1>6. drv.mon = "off"
  BY <1>3 DEF NewDriver
<1> QED
  BY <1>5, <1>6 DEF PlaceInv

\* What the monitor of the recovery may change: its own ping, its own outcome, and nothing
\* of the driver's.
LEMMA MonitorPlaced ==
  ASSUME PlaceInv, MonitorPings
  PROVE  /\ drv.key[1] = "recovery" /\ drv.st = "run" /\ drv.pc \in MonitorAt + 1 .. JoinAt
         /\ IsDriver(drv') /\ drv'.key = drv.key /\ drv'.st = drv.st /\ drv'.pc = drv.pc
         /\ drv'.own = drv.own /\ drv'.proc = drv.proc /\ drv'.wd = drv.wd /\ drv'.got = drv.got
         /\ drv'.read = drv.read /\ drv'.row = drv.row /\ drv'.eligible = drv.eligible
         /\ drv'.valid = drv.valid /\ ctl' = ctl
         /\ \/ /\ net.ping.st = "idle" /\ net' = StartPing(net, 3, 4, 9, 1)
            \/ net' = net
            \/ PingOver /\ net' = [net EXCEPT !.ping = NoPing]
<1>1. drv.key[1] = "recovery" /\ drv.st = "run" /\ drv.pc \in MonitorAt + 1 .. JoinAt
  BY DEF PlaceInv, MonitorPings
<1>2. \/ drv' = [drv EXCEPT !.attempts = drv.attempts + 1]
      \/ \E m \in {"over", "recovered", drv.mon} : drv' = [drv EXCEPT !.mon = m]
  BY DEF MonitorPings, PlaceInv, IsDriver
<1>3. IsDriver(drv)
  BY DEF PlaceInv
<1>4. LET d == [drv EXCEPT !.attempts = drv.attempts + 1] IN
      /\ IsDriver(d) /\ d.key = drv.key /\ d.st = drv.st /\ d.pc = drv.pc
      /\ d.own = drv.own /\ d.proc = drv.proc /\ d.wd = drv.wd /\ d.got = drv.got
      /\ d.read = drv.read /\ d.row = drv.row /\ d.eligible = drv.eligible
      /\ d.valid = drv.valid
  BY <1>3 DEF IsDriver
<1>5. \A m \in {"over", "recovered", drv.mon} : LET d == [drv EXCEPT !.mon = m] IN
      /\ IsDriver(d) /\ d.key = drv.key /\ d.st = drv.st /\ d.pc = drv.pc
      /\ d.own = drv.own /\ d.proc = drv.proc /\ d.wd = drv.wd /\ d.got = drv.got
      /\ d.read = drv.read /\ d.row = drv.row /\ d.eligible = drv.eligible
      /\ d.valid = drv.valid
  BY <1>3 DEF IsDriver
<1>6. ctl' = ctl
  BY DEF MonitorPings
<1>7. \/ /\ net.ping.st = "idle" /\ net' = StartPing(net, 3, 4, 9, 1)
      \/ net' = net
      \/ PingOver /\ net' = [net EXCEPT !.ping = NoPing]
  BY DEF MonitorPings
<1> QED
  BY ZenonT(60), <1>1, <1>2, <1>4, <1>5, <1>6, <1>7

\* The watchdog kills the controller of this trial, and the driver learns of it only by
\* what it reads.
LEMMA WatchdogPlaced ==
  ASSUME PlaceInv, WatchdogFires
  PROVE  /\ Running /\ drv.wd = "armed" /\ drv'.wd = "fired"
         /\ IsDriver(drv') /\ drv'.key = drv.key /\ drv'.st = drv.st /\ drv'.pc = drv.pc
         /\ drv'.own = drv.own /\ drv'.got = drv.got /\ drv'.mon = drv.mon
         /\ drv'.read = drv.read /\ drv'.row = drv.row /\ drv'.eligible = drv.eligible
         /\ drv'.valid = drv.valid
         /\ IF drv.own THEN ctl' = Dead(ctl) /\ net' = Disconnected(net)
            ELSE ctl' = ctl /\ net' = net
<1>1. IsDriver(drv)
  BY DEF PlaceInv
<1>2. /\ Running /\ drv.wd = "armed"
      /\ \/ drv' = [drv EXCEPT !.wd = "fired"]
         \/ drv' = [[drv EXCEPT !.wd = "fired"] EXCEPT !.proc = "dead"]
      /\ IF drv.own THEN ctl' = Dead(ctl) /\ net' = Disconnected(net)
         ELSE ctl' = ctl /\ net' = net
  BY DEF WatchdogFires, OwnEnds
<1>3. \A d \in {[drv EXCEPT !.wd = "fired"], [[drv EXCEPT !.wd = "fired"] EXCEPT !.proc = "dead"]} :
        /\ d.wd = "fired" /\ IsDriver(d) /\ d.key = drv.key /\ d.st = drv.st /\ d.pc = drv.pc
        /\ d.own = drv.own /\ d.got = drv.got /\ d.mon = drv.mon
        /\ d.read = drv.read /\ d.row = drv.row /\ d.eligible = drv.eligible
        /\ d.valid = drv.valid
  BY <1>1 DEF IsDriver
<1> QED
  BY <1>2, <1>3

\* A killed driver leaves network and controller as they are, and one of the same kind
\* begins anew.
LEMMA KilledPlaced ==
  ASSUME PlaceInv, DriverKilled
  PROVE  /\ Running /\ Quiet /\ net' = net /\ ctl' = ctl
         /\ IsDriver(drv') /\ Placed(drv')
         /\ drv'.key \in Keys /\ drv'.key[1] = drv.key[1] /\ drv'.key[3] = drv.key[3]
         /\ drv'.st = "run" /\ drv'.pc = 1 /\ drv'.own /\ drv'.wd = "off" /\ drv'.got = <<>>
         /\ drv'.read = 0 /\ drv'.mon = "off" /\ ~drv'.row /\ ~drv'.eligible
<1>1. /\ Running /\ Quiet /\ net' = net /\ ctl' = ctl
      /\ \E k \in Keys : k[1] = drv.key[1] /\ k[3] = drv.key[3]
                         /\ drv' = NewDriver(k, drv.tools, drv.kills - 1)
  BY DEF DriverKilled
<1>2. drv.tools \in Int /\ drv.kills - 1 \in Int
  BY DEF PlaceInv, IsDriver
<1>3. PICK k \in Keys : k[1] = drv.key[1] /\ k[3] = drv.key[3]
                        /\ drv' = NewDriver(k, drv.tools, drv.kills - 1)
  BY <1>1
<1>4. IsDriver(drv') /\ Placed(drv')
  BY <1>2, <1>3, NewDriverPlaced
<1> QED
  BY <1>1, <1>3, <1>4 DEF NewDriver

\* Every step of the system is one of these.
LEMMA StepsOfLab ==
  ASSUME [LabNext]_labvars
  PROVE  \/ FabricNext /\ ctl' = ctl /\ drv' = drv
         \/ ControllerNext /\ drv' = drv
         \/ OwnSteps
         \/ MonitorPings
         \/ WatchdogFires
         \/ DriverKilled
         \/ net' = net /\ ctl' = ctl /\ drv' = drv
BY DEF LabNext, labvars, FabricStep, ControllerStep, DriverSteps, OwnSteps

\* Layer 1 is kept by every step.
LEMMA PlaceStep ==
  ASSUME PlaceInv, [LabNext]_labvars
  PROVE  PlaceInv'
<1>0. IsDriver(drv) /\ Placed(drv)
  BY DEF PlaceInv
<1>1. CASE drv' = drv
  BY <1>1 DEF PlaceInv, IsDriver, Placed
<1>2. CASE OwnSteps
  <2>1. Framed
    BY <1>0, <1>2, OwnStepsFramed
  <2>2. IsDriver(drv') /\ Placed(drv') /\ drv'.key = drv.key
    BY <2>1 DEF Framed
  <2>3. /\ drv.st = "run" => Fits(drv.key, drv.pc, Step)
        /\ drv.st = "tail" => Step.op \in {"unwatch", "teardown", "terminate"}
        /\ drv.st = "after" => Step.op \in {"check", "row"}
        /\ drv.key[1] = "recovery" => Len(Code[drv.key].run) = JoinAt + 2
        /\ drv.st \in {"run", "tail", "after"} /\ drv.pc \in Nat
    BY <1>0, <2>1, StepFits DEF Framed, Running, Step, IsDriver
  <2>a. ASSUME drv.st = "run", drv.key[1] = "recovery", drv.pc <= JoinAt, Onward(drv, drv')
        PROVE  drv'.st = "run" /\ drv'.pc = drv.pc + 1
    <3>1. Len(Code[drv.key][drv.st]) = JoinAt + 2
      BY <2>3, <2>a
    <3> QED
      BY <2>3, <2>a, <3>1 DEF Onward, JoinAt
  <2>4. CASE Step.op = "monitor"
    <3>1. drv.st = "run" /\ drv.key[1] = "recovery" /\ drv.pc = MonitorAt
      BY <2>3, <2>4 DEF Fits, Threaded
    <3>2. drv'.st = "run" /\ drv'.pc = MonitorAt + 1
      <4>1. Onward(drv, drv')
        BY <2>1, <2>4 DEF Framed, At
      <4> QED
        BY <2>a, <3>1, <4>1 DEF MonitorAt, JoinAt
    <3> QED
      BY <2>2, <3>1, <3>2 DEF PlaceInv, MonitorAt, JoinAt
  <2>5. CASE Step.op # "monitor"
    <3>1. drv'.mon = drv.mon
      BY <2>1, <2>5 DEF Framed
    <3>2. CASE drv.mon = "running"
      <4>1. drv.key[1] = "recovery" /\ drv.st = "run" /\ drv.pc \in MonitorAt + 1 .. JoinAt
        BY <3>2 DEF PlaceInv
      <4>2. IF drv.pc = JoinAt THEN Step.op = "join" ELSE Step.op = "await" /\ Step.else = "go_on"
        BY <2>3, <4>1 DEF Fits, Threaded
      <4>3. drv.pc # JoinAt /\ Step.op = "await" /\ Step.else = "go_on"
        BY <2>1, <3>2, <4>2 DEF Framed
      <4>4. drv'.st = "run" /\ drv'.pc = drv.pc + 1
        <5>1. Onward(drv, drv')
          BY <2>1, <4>3 DEF Framed, At
        <5> QED
          BY <2>a, <4>1, <4>3, <5>1 DEF MonitorAt, JoinAt
      <4> QED
        BY <2>2, <4>1, <4>3, <4>4 DEF PlaceInv, MonitorAt, JoinAt
    <3>3. CASE drv.mon # "running"
      BY <2>2, <3>1, <3>3 DEF PlaceInv
    <3> QED
      BY <3>2, <3>3
  <2> QED
    BY <2>4, <2>5
<1>3. CASE MonitorPings
  <2>1. Placed(drv')
    BY <1>0, <1>3, MonitorPlaced DEF Placed
  <2> QED
    BY <1>3, <2>1, MonitorPlaced DEF PlaceInv
<1>4. CASE WatchdogFires
  <2>1. Placed(drv')
    BY <1>0, <1>4, WatchdogPlaced DEF Placed
  <2> QED
    BY <1>4, <2>1, WatchdogPlaced DEF PlaceInv
<1>5. CASE DriverKilled
  BY <1>5, KilledPlaced DEF PlaceInv
<1> QED
  BY <1>1, <1>2, <1>3, <1>4, <1>5, StepsOfLab

-----------------------------------------------------------------------------
(* Layer 2: what the network and the controller hold *)

\* What a host that reacts to a frame does not touch.
OffTheAir == {"up", "topo", "rules", "extra", "miss", "pin", "out", "adp", "conn", "cut", "late"}
Reacts(n, m) == DOMAIN m = DOMAIN NoNet /\ \A x \in OffTheAir : m[x] = n[x]

\* Sending only adds to what is in the air.
LEMMA SendReacts ==
  ASSUME NEW n, DOMAIN n = DOMAIN NoNet, NEW h, NEW p
  PROVE  Reacts(n, Send(n, h, p))
BY DEF Send, Reacts, OffTheAir, NoNet

\* Two reactions make one.
LEMMA ReactsOn ==
  ASSUME NEW n, NEW m, NEW q, Reacts(n, m), Reacts(m, q)
  PROVE  Reacts(n, q)
BY DEF Reacts

\* Hosts do not touch switches.
LEMMA HostReceivesReacts ==
  ASSUME NEW n, DOMAIN n = DOMAIN NoNet, NEW h, NEW p,
         p.kind \in {"arpreq", "arprep", "echo", "reply"}
  PROVE  Reacts(n, HostReceives(n, h, p))
<1> DEFINE m == [n EXCEPT !.nb = n.nb \cup {<<h, p.src>>}]
           e == [m EXCEPT !.ping.st = "echo"]
           a == [n EXCEPT !.ping.st = "answered"]
<1>1. Reacts(n, n) /\ Reacts(n, m) /\ Reacts(n, a) /\ Reacts(m, e)
  BY DEF Reacts, OffTheAir, NoNet
<1>2. HostReceives(n, h, p) \in
        {Send(m, h, Packet("arprep", h, p.src, 0, 0)),
         Send(e, h, Packet("echo", h, p.src, n.ping.id, n.ping.sent)), m,
         Send(n, h, Packet("reply", h, p.src, p.id, p.seq)), n, a}
  BY DEF HostReceives
<1> HIDE DEF m, e, a
<1>3. Reacts(n, e)
  BY <1>1, ReactsOn
<1>4. \A x : DOMAIN x = DOMAIN NoNet => \A q : Reacts(x, Send(x, h, q))
  BY SendReacts
<1>5. \A x : Reacts(n, x) => \A q : Reacts(n, Send(x, h, q))
  <2> SUFFICES ASSUME NEW x, Reacts(n, x), NEW q PROVE Reacts(n, Send(x, h, q))
    OBVIOUS
  <2>1. Reacts(x, Send(x, h, q))
    BY <1>4 DEF Reacts
  <2> QED
    BY <2>1, ReactsOn
<1> QED
  BY <1>1, <1>2, <1>3, <1>5

\* Nor does a packet that is put out.
LEMMA OutputReacts ==
  ASSUME NEW n, DOMAIN n = DOMAIN NoNet, NEW sw, NEW in, NEW port, NEW p,
         p.kind \in {"arpreq", "arprep", "echo", "reply"}
  PROVE  Reacts(n, Output(n, sw, in, port, p))
<1> DEFINE ps == (IF port = FLOOD THEN {w[2] : w \in Places(n.topo)} ELSE {port}) \ {in}
           trunk == {w \in DOMAIN n.topo.trunk : w[1] = sw /\ w[2] \in ps}
           m == [n EXCEPT !.air = n.air \cup
                {[sw |-> n.topo.trunk[w][1], in |-> n.topo.trunk[w][2], pkt |-> p] : w \in trunk}]
<1>1. Output(n, sw, in, port, p) \in {HostReceives(m, p.to, p), m}
  BY DEF Output, Leaves
<1> HIDE DEF ps, trunk
<1>2. Reacts(n, m) /\ DOMAIN m = DOMAIN NoNet
  BY DEF Reacts, OffTheAir, NoNet
<1> HIDE DEF m
<1>3. Reacts(m, HostReceives(m, p.to, p))
  BY <1>2, HostReceivesReacts
<1> QED
  BY <1>1, <1>2, <1>3, ReactsOn

\* A rule takes effect.
Applied(n, m) ==
    \/ m.rules = n.rules /\ m.adp = n.adp
       /\ (m.out = n.out \/ (n.out # <<>> /\ m.out = Tail(n.out)))
    \/ /\ n.out # <<>> /\ Head(n.out).type = "flow" /\ m.out = Tail(n.out) /\ m.adp = n.adp
       /\ m.rules = AddRule(n.rules, Head(n.out).rule)
    \/ /\ n.adp # <<>> /\ m.adp = Tail(n.adp) /\ m.out = n.out
       /\ m.rules = AddRule(n.rules, Head(n.adp))

\* Nothing in the network loses a rule or makes one that was not sent, nor connects a
\* switch.
LEMMA FabricKeeps ==
  ASSUME NEW t, NEW A, NEW R, net \in Networks(t, A, R), FabricNext
  PROVE  /\ net'.up = net.up /\ net'.topo = net.topo /\ net'.conn = net.conn
         /\ net'.pin = net.pin \/ net.conn
         /\ Applied(net, net')
         /\ DOMAIN net' = DOMAIN NoNet
<1>0. /\ DOMAIN net = DOMAIN NoNet /\ net.air \subseteq Arrived(t, A)
      /\ net.out \in Seq(Messages(t, A, R))
  BY DEF Networks, NoNet
<1>1. CASE SwitchForwards
  <2>1. PICK f \in net.air :
          LET n == [net EXCEPT !.air = @ \ {f}] IN
          net' = IF Matching(net, f) # {}
                 THEN Output(n, f.sw, f.in, (CHOOSE r \in Matching(net, f) : TRUE).out, f.pkt)
                 ELSE IF f.sw \in net.miss /\ net.conn
                 THEN [n EXCEPT !.pin = Append(@, [type |-> "packet", sw |-> f.sw,
                                                   in |-> f.in, pkt |-> f.pkt])]
                 ELSE n
    BY <1>1 DEF SwitchForwards
  <2> DEFINE n == [net EXCEPT !.air = net.air \ {f}]
             out == (CHOOSE r \in Matching(net, f) : TRUE).out
             o == Output(n, f.sw, f.in, out, f.pkt)
  <2>2. f.pkt.kind \in {"arpreq", "arprep", "echo", "reply"}
    BY <1>0 DEF Arrived, Frames
  <2>3. DOMAIN n = DOMAIN NoNet /\ \A x \in OffTheAir : n[x] = net[x]
    BY <1>0 DEF OffTheAir, NoNet
  <2>4. Reacts(n, o)
    BY <2>2, <2>3, OutputReacts
  <2>5. \/ net' = o
        \/ net' = n
        \/ /\ net.conn /\ \E x : net' = [n EXCEPT !.pin = x]
    BY <2>1
  <2> HIDE DEF n, o
  <2>6. /\ net'.up = net.up /\ net'.topo = net.topo /\ net'.conn = net.conn
        /\ net'.pin = net.pin \/ net.conn
        /\ net'.rules = net.rules /\ net'.adp = net.adp /\ net'.out = net.out
        /\ DOMAIN net' = DOMAIN NoNet
    BY <2>3, <2>4, <2>5 DEF Reacts, OffTheAir, NoNet
  <2> QED
    BY <2>6 DEF Applied
<1>2. CASE ChannelApplies
  <2> DEFINE m == Head(net.out)
             n == [net EXCEPT !.out = Tail(net.out)]
             o == Output(n, m.sw, m.in, m.port, m.pkt)
  <2>1. net.out # <<>> /\ m \in Messages(t, A, R)
    BY <1>0, <1>2, HeadTailProperties DEF ChannelApplies
  <2>2. /\ DOMAIN n = DOMAIN NoNet /\ \A x \in OffTheAir \ {"out"} : n[x] = net[x]
        /\ n.out = Tail(net.out)
    BY <1>0 DEF OffTheAir, NoNet
  <2>3. m.type = "packet" => m.pkt.kind \in {"arpreq", "arprep", "echo", "reply"}
    BY <2>1 DEF Messages, PlainMessages, FlowMods, PacketOuts, Pkts
  <2>4. m.type = "packet" => Reacts(n, o)
    BY <2>2, <2>3, OutputReacts
  <2>5. \/ m.type = "packet" /\ net' = o
        \/ net' = n
        \/ \E x : net' = [n EXCEPT !.miss = x]
        \/ n.conn /\ \E x : net' = [n EXCEPT !.pin = x]
        \/ m.type = "flow" /\ net' = [n EXCEPT !.rules = AddRule(n.rules, m.rule)]
    <3>1. m.type \in {"miss", "barrier", "flow", "packet"}
      BY <2>1 DEF Messages, PlainMessages, FlowMods, PacketOuts
    <3>2. net' = CASE m.type = "miss" -> [n EXCEPT !.miss = @ \cup {m.sw}]
                   [] m.type = "barrier" ->
                        IF n.conn THEN [n EXCEPT !.pin = Append(@, m)] ELSE n
                   [] m.type = "flow" -> [n EXCEPT !.rules = AddRule(@, m.rule)]
                   [] m.type = "packet" -> o
      BY <1>2 DEF ChannelApplies
    <3> HIDE DEF m, n, o
    <3> QED
      BY <3>1, <3>2
  <2> HIDE DEF n, o
  <2>6. /\ net'.up = net.up /\ net'.topo = net.topo /\ net'.conn = net.conn
        /\ net'.pin = net.pin \/ net.conn
        /\ net'.rules = net.rules \/ (m.type = "flow" /\ net'.rules = AddRule(net.rules, m.rule))
        /\ net'.adp = net.adp /\ net'.out = Tail(net.out)
        /\ DOMAIN net' = DOMAIN NoNet
    BY ZenonT(60), <2>2, <2>4, <2>5 DEF Reacts, OffTheAir, NoNet
  <2> QED
    BY <2>1, <2>6 DEF Applied
<1>3. CASE AdapterApplies
  BY <1>0, <1>3 DEF AdapterApplies, Applied, NoNet
<1>4. CASE PingSends
  <2> DEFINE n == [net EXCEPT !.ping.st = IF <<net.ping.from, net.ping.to>> \in net.nb
                                          THEN "echo" ELSE "arp", !.ping.sent = @ + 1]
  <2>1. DOMAIN n = DOMAIN NoNet /\ \A x \in OffTheAir : n[x] = net[x]
    BY <1>0 DEF OffTheAir, NoNet
  <2>2. \E q : net' = Send(n, net.ping.from, q)
    BY <1>4 DEF PingSends
  <2> HIDE DEF n
  <2>3. Reacts(n, net')
    BY <2>1, <2>2, SendReacts
  <2> QED
    BY <2>1, <2>3 DEF Reacts, OffTheAir, Applied
<1>5. CASE PingAnswered
  BY <1>0, <1>5 DEF PingAnswered, Applied, NoNet
<1>6. CASE PingGivesUp
  BY <1>0, <1>6 DEF PingGivesUp, Applied, NoNet
<1> QED
  BY <1>1, <1>2, <1>3, <1>4, <1>5, <1>6 DEF FabricNext

\* After mn -c there is nothing to happen.
LEMMA BareRests ==
  ASSUME Bare(net)
  PROVE  /\ ~FabricNext /\ ~Serving /\ ~net.up /\ ~net.conn /\ net.pin = <<>>
         /\ net.rules = {} /\ net.out = <<>> /\ net.adp = <<>> /\ net.air = {}
         /\ net.ping.st = "idle" /\ net.ping.ok = 0
         /\ Disconnected(net) = net /\ net.late \in Int
<1>1. /\ ~net.up /\ ~net.conn /\ net.pin = <<>> /\ net.out = <<>> /\ net.adp = <<>> /\ net.air = {}
      /\ net.ping.st = "idle" /\ net.rules = {} /\ net.late \in Int /\ net.ping.ok = 0
  BY DEF Bare, NoNet, NoPing
<1>2. Disconnected(net) = net
  BY <1>1 DEF Bare, Disconnected, NoNet
<1>3. ~FabricNext
  BY <1>1 DEF FabricNext, SwitchForwards, ChannelApplies, AdapterApplies, PingSends,
              PingAnswered, PingGivesUp
<1>4. ~Serving
  BY <1>1 DEF Serving, SwitchesConnect, Features, BarrierReply, BridgePacketIn, BaselinePacketIn,
              S56PacketIn, Served
<1> QED
  BY <1>1, <1>2, <1>3, <1>4

\* More pings allow more.
LEMMA NetworksGrow ==
  ASSUME NEW t, NEW A, NEW B, A \subseteq B, NEW J
  PROVE  Networks(t, A, Rules(t, A, J)) \subseteq Networks(t, B, Rules(t, B, J))
<1> DEFINE R == Rules(t, A, J)
           S == Rules(t, B, J)
<1>1. Traffic(A) \subseteq Traffic(B)
  BY ExplainedMonotone
<1>2. R \subseteq S
  BY <1>1 DEF Rules, Made
<1>3. Arrived(t, A) \subseteq Arrived(t, B)
  BY <1>1 DEF Arrived, Arrives
<1>4. Events(t, A) \subseteq Events(t, B)
  BY <1>1 DEF Events, PacketEvents, Arrives
<1> HIDE DEF R, S
<1>5. Messages(t, A, R) \subseteq Messages(t, B, S)
  BY <1>1, <1>2 DEF Messages, FlowMods, PacketOuts, Arrives
<1>6. Pings(A) \subseteq Pings(B)
  BY DEF Pings
<1>7. \A X, Y : X \subseteq Y => Seq(X) \subseteq Seq(Y)
  OBVIOUS
<1>8. /\ Seq(Events(t, A)) \subseteq Seq(Events(t, B)) /\ Seq(R) \subseteq Seq(S)
      /\ Seq(Messages(t, A, R)) \subseteq Seq(Messages(t, B, S))
  BY <1>2, <1>4, <1>5, <1>7
<1> SUFFICES ASSUME NEW n \in Networks(t, A, R) PROVE n \in Networks(t, B, S)
  BY DEF R, S
<1>9. /\ n.rules \in SUBSET S /\ n.air \in SUBSET Arrived(t, B) /\ n.pin \in Seq(Events(t, B))
      /\ n.out \in Seq(Messages(t, B, S)) /\ n.adp \in Seq(S) /\ n.ping \in Pings(B)
  BY <1>2, <1>3, <1>6, <1>8 DEF Networks
<1> QED
  BY <1>9 DEF Networks

\* Where a trial starts its network and its controller.
LEMMA PlacesOfTrial ==
  ASSUME NEW k \in Keys
  PROVE  /\ k[1] = "recovery" => StartAt(k) = 5 /\ LaunchAt(k) = 4
         /\ k[1] = "latency" => StartAt(k) = 6 /\ LaunchAt(k) = 4
         /\ k[1] = "load" => StartAt(k) = 5 /\ LaunchAt(k) = 3
         /\ k[1] = "s56" => StartAt(k) = 1 /\ LaunchAt(k) = 2
         /\ Direct(k) => StartAt(k) = 4 /\ LaunchAt(k) = 3
<1>1. k \in Trials
  BY DEF Keys
<1>2. k[2] = "direct_osken" => k[1] = "full"
  BY <1>1 DEF Trials, Normally
<1> QED
  BY <1>2 DEF StartAt, LaunchAt, Direct

\* As a driver goes on, the pings it may have made only become more, but for the start of
\* its network.
LEMMA AskedGrows ==
  ASSUME NEW d, NEW e, IsDriver(d), d.st # "done", e.key = d.key,
         \/ Onward(d, e) /\ ~(d.st = "run" /\ d.pc = StartAt(d.key))
         \/ Offward(d, e)
         \/ e.st = d.st /\ e.pc = d.pc
  PROVE  AskedAt(d.key, d.st, d.pc) \subseteq AskedAt(e.key, e.st, e.pc)
<1>1. CASE d.key[1] = "recovery"
  <2>0. StartAt(d.key) = 5
    BY <1>1, PlacesOfTrial DEF IsDriver
  <2>1. d.pc \in Nat
    BY DEF IsDriver
  <2>2. \/ e.st # "run"
        \/ d.st = "run" /\ e.st = "run" /\ e.pc = d.pc + 1 /\ d.pc # 5
        \/ d.st = "run" /\ e.st = "run" /\ e.pc = d.pc
    BY <2>0, <2>1 DEF Onward, Offward
  <2> QED
    BY <1>1, <2>1, <2>2 DEF AskedAt, WithoutAt, MonitorAt
<1>2. CASE d.key[1] # "recovery"
  BY <1>2 DEF AskedAt
<1> QED
  BY <1>1, <1>2

\* No ping is a ping that is over.
LEMMA NoPingIdle == \A A : NoPing \in Pings(A)
BY DEF NoPing, Pings

\* The network has changed, but its channel to the controller has not.
Usable(n, t, A, R) == n \in Networks(t, A, R) /\ n.conn = net.conn /\ n.pin = net.pin

\* What a driver does to the network, but for starting and tearing it down.
LEMMA DriverOnNetwork ==
  ASSUME NEW t, NEW A, NEW J, net \in Networks(t, A, Rules(t, A, J))
  PROVE  /\ LET n == Disconnected(net)
            IN n \in Networks(t, A, Rules(t, A, J)) /\ ~n.conn /\ n.pin = <<>>
         /\ Usable(Pointed(net), t, A, Rules(t, A, J))
         /\ \A from, to \in Hosts, id \in 0..9, c \in 1..2 :
              <<from, to, id>> \in A =>
                Usable(StartPing(net, from, to, id, c), t, A, Rules(t, A, J))
         /\ Usable([net EXCEPT !.ping = NoPing], t, A, Rules(t, A, J))
         /\ Usable([net EXCEPT !.cut = TRUE], t, A, Rules(t, A, J))
         /\ Usable([net EXCEPT !.extra = TRUE], t, A, Rules(t, A, J))
         /\ Usable([net EXCEPT !.rules = {}, !.miss = {}], t, A, Rules(t, A, J))
         /\ \A r \in RuleSet : r \in J =>
              Usable([net EXCEPT !.rules = AddRule(net.rules, r)], t, A, Rules(t, A, J))
<1> DEFINE R == Rules(t, A, J)
<1>1. <<>> \in Seq(Events(t, A))
  BY EmptySeq
<1>2. \A from, to \in Hosts, id \in 0..9, c \in 1..2 :
        <<from, to, id>> \in A =>
          [st |-> "ready", from |-> from, to |-> to, id |-> id,
           count |-> c, sent |-> 0, ok |-> 0] \in Pings(A)
  BY DEF Pings, Hosts
<1>3. ASSUME NEW r \in RuleSet, r \in J PROVE AddRule(net.rules, r) \in SUBSET R
  <2>1. r \in R
    BY <1>3 DEF Rules
  <2>2. net.rules \in SUBSET R
    BY DEF Networks
  <2> QED
    BY <2>1, <2>2, AddRuleIn
<1> HIDE DEF R
<1>0. net \in Networks(t, A, R)
  BY DEF R
<1>4. LET n == Disconnected(net) IN n \in Networks(t, A, R) /\ ~n.conn /\ n.pin = <<>>
  BY <1>0, <1>1 DEF Networks, Disconnected
<1>5. Usable(Pointed(net), t, A, R)
  BY <1>0 DEF Networks, Pointed, Usable
<1>7. \A x \in Pings(A) : Usable([net EXCEPT !.ping = x], t, A, R)
  BY <1>0 DEF Networks, Usable
<1>6. \A from, to \in Hosts, id \in 0..9, c \in 1..2 :
        <<from, to, id>> \in A => Usable(StartPing(net, from, to, id, c), t, A, R)
  BY <1>2, <1>7 DEF StartPing
<1>8. Usable([net EXCEPT !.cut = TRUE], t, A, R) /\ Usable([net EXCEPT !.extra = TRUE], t, A, R)
  BY <1>0 DEF Networks, Usable
<1>10. Usable([net EXCEPT !.rules = {}, !.miss = {}], t, A, R)
  BY <1>0 DEF Networks, Usable
<1>11. \A x \in SUBSET R : Usable([net EXCEPT !.rules = x], t, A, R)
  BY <1>0 DEF Networks, Usable
<1> QED
  BY <1>3, <1>4, <1>5, <1>6, <1>7, <1>8, <1>10, <1>11, NoPingIdle DEF R

\* A network that has just been started holds nothing that has to be explained.
LEMMA NewNetNetwork ==
  ASSUME NEW t, NEW A, NEW R, NEW known \in SUBSET (Hosts \X Hosts), NEW late \in Int
  PROVE  LET n == NewNet(t, known, late) IN n \in Networks(t, A, R) /\ ~n.conn /\ n.pin = <<>>
<1>1. /\ <<>> \in Seq(Events(t, A)) /\ <<>> \in Seq(Messages(t, A, R)) /\ <<>> \in Seq(R)
      /\ NoPing \in Pings(A)
  BY EmptySeq, NoPingIdle
<1> QED
  BY <1>1 DEF NewNet, NoNet, Networks

\* A step of the driver on the network.
LEMMA OwnStepOnNetwork ==
  ASSUME PlaceInv, NetworkInv, OwnSteps
  PROVE  /\ \/ Bare(net') /\ ~(drv'.st = "run" /\ HasNet')
            \/ /\ Step.op = "start" /\ drv.st = "run" /\ drv.pc = StartAt(drv.key)
               /\ net' = NewNet(Topology, Step.known, net.late) /\ net.late \in Int
               /\ Step.known \in SUBSET (Hosts \X Hosts)
            \/ /\ Step.op # "start" /\ Asked \subseteq Asked'
               /\ net \in Networks(Topology, Asked, MyRules)
               /\ net' \in Networks(Topology, Asked, MyRules)
         /\ net'.pin # <<>> => net'.conn
         /\ net'.conn => net.conn
<1>0. /\ IsDriver(drv) /\ Placed(drv) /\ Framed
      /\ drv.key \in Keys /\ drv.st # "done" /\ drv'.key = drv.key
  BY OwnStepsFramed DEF PlaceInv, Framed, Running, IsDriver
<1>1. /\ drv.st = "run" => Fits(drv.key, drv.pc, Step)
      /\ drv.st = "tail" => Step.op \in {"unwatch", "teardown", "terminate"}
      /\ drv.st = "after" => Step.op \in {"check", "row"}
      /\ drv.st \in {"run", "tail", "after"} /\ drv.pc \in Nat
  BY <1>0, StepFits DEF Step, IsDriver
<1>2. Step.op # "start" => Asked \subseteq Asked'
  <2> SUFFICES ASSUME Step.op # "start" PROVE Asked \subseteq Asked'
    OBVIOUS
  <2>1. ~(drv.st = "run" /\ drv.pc = StartAt(drv.key))
    BY <1>1 DEF Fits, Wired
  <2>2. Onward(drv, drv') \/ Offward(drv, drv') \/ (drv'.st = drv.st /\ drv'.pc = drv.pc)
    BY <1>0 DEF Framed
  <2> QED
    BY <1>0, <2>1, <2>2, AskedGrows DEF Asked
<1>3. Step.op # "start" /\ ~(drv.st = "run" /\ HasNet) => ~(drv'.st = "run" /\ HasNet')
  <2> SUFFICES ASSUME Step.op # "start", ~(drv.st = "run" /\ HasNet),
                      drv'.st = "run", drv'.pc > StartAt(drv.key)
               PROVE  FALSE
    BY <1>0 DEF HasNet
  <2>1. drv.st = "run" /\ (drv'.pc = drv.pc \/ drv'.pc = drv.pc + 1)
    BY <1>0, <1>1 DEF Framed, Onward, Offward
  <2>2. drv.pc # StartAt(drv.key) /\ StartAt(drv.key) \in Nat /\ ~(drv.pc > StartAt(drv.key))
    BY <1>0, <1>1, <2>1, KeysWell DEF Fits, Wired, HasNet
  <2> QED
    BY <1>1, <2>1, <2>2
<1>4. Step.op \in {"point", "ping", "install", "delflows", "cut", "extra"} =>
        drv.st = "run" /\ HasNet /\ net \in Networks(Topology, Asked, MyRules)
  <2>1. Step.op \in {"point", "ping", "install", "delflows", "cut", "extra"} =>
          drv.st = "run" /\ drv.pc > StartAt(drv.key)
    BY <1>1 DEF Fits, Wired
  <2> QED
    BY <2>1 DEF NetworkInv, HasNet
<1>5. net \in Networks(Topology, Asked, MyRules) =>
        net'.pin # <<>> \/ net'.pin = <<>>
  OBVIOUS
<1>6. net.pin # <<>> => net.conn
  BY DEF NetworkInv
<1>7. ASSUME Step.op # "start", net' = net \/ net' = Disconnected(net)
      PROVE  /\ \/ Bare(net') /\ ~(drv'.st = "run" /\ HasNet')
                \/ /\ net \in Networks(Topology, Asked, MyRules)
                   /\ net' \in Networks(Topology, Asked, MyRules)
             /\ net'.pin # <<>> => net'.conn
             /\ net'.conn => net.conn
  <2>1. CASE Bare(net) /\ ~(drv.st = "run" /\ HasNet)
    <3>1. net' = net /\ ~net.conn
      BY <1>7, <2>1, BareRests
    <3> QED
      BY <1>3, <1>6, <1>7, <2>1, <3>1
  <2>2. CASE net \in Networks(Topology, Asked, MyRules)
    <3>1. LET n == Disconnected(net)
          IN n \in Networks(Topology, Asked, MyRules) /\ ~n.conn /\ n.pin = <<>>
      BY <2>2, DriverOnNetwork DEF MyRules
    <3> QED
      BY <1>6, <1>7, <2>2, <3>1
  <2> QED
    BY <2>1, <2>2 DEF NetworkInv
<1>8. ASSUME Step.op # "start", net \in Networks(Topology, Asked, MyRules),
             net' \in Networks(Topology, Asked, MyRules), net'.conn = net.conn,
             net'.pin = net.pin
      PROVE  /\ \/ Bare(net') /\ ~(drv'.st = "run" /\ HasNet')
                \/ /\ net \in Networks(Topology, Asked, MyRules)
                   /\ net' \in Networks(Topology, Asked, MyRules)
             /\ net'.pin # <<>> => net'.conn
             /\ net'.conn => net.conn
  BY <1>6, <1>8
<1>9. CASE Step.op = "start"
  <2>1. NetStep
    BY <1>9, StepOfKind
  <2>2. net' = NewNet(Step.topo, Step.known, net.late)
    BY <1>9, <2>1 DEF NetStep, At
  <2>3. drv.st = "run" /\ Wired(drv.key, drv.pc, Step)
    BY <1>1, <1>9 DEF Fits
  <2>4. Step.topo = Topology /\ drv.pc = StartAt(drv.key) /\ Step.known \in SUBSET (Hosts \X Hosts)
    BY <1>9, <2>3 DEF Wired, Topology, Hosts
  <2>5. net.late \in Int
    BY BareRests DEF NetworkInv, Networks
  <2>6. LET n == NewNet(Topology, Step.known, net.late) IN ~n.conn /\ n.pin = <<>>
    BY DEF NewNet, NoNet
  <2> QED
    BY <1>9, <2>2, <2>3, <2>4, <2>5, <2>6
<1>10. CASE Step.op \in {"launch", "await", "check", "arm", "watch", "unwatch", "monitor", "join",
                         "note", "row"}
  <2>1. net' = net
    BY <1>0, <1>10 DEF Framed
  <2> QED
    BY <1>2, <1>7, <1>10, <2>1
<1>11. CASE Step.op \in {"kill", "stop", "terminate"}
  <2>1. net' = net \/ net' = Disconnected(net)
    <3>1. KillStep \/ StopStep \/ TerminateStep
      BY <1>11, StepOfKind
    <3> QED
      BY <3>1 DEF KillStep, StopStep, TerminateStep, OwnEnds
  <2> QED
    BY <1>2, <1>7, <1>11, <2>1
<1>12. CASE Step.op = "teardown"
  <2>1. net' = [NoNet EXCEPT !.late = net.late]
    <3>1. NetStep
      BY <1>12, StepOfKind
    <3> QED
      BY <1>12, <3>1 DEF NetStep, At
  <2>2. net.late \in Int
    BY BareRests DEF NetworkInv, Networks
  <2>3. Bare(net') /\ ~net'.conn /\ net'.pin = <<>>
    BY <2>1, <2>2 DEF Bare, NoNet
  <2>4. drv.st = "run" => drv.pc < StartAt(drv.key)
    BY <1>1, <1>12 DEF Fits, Wired
  <2>5. ~(drv.st = "run" /\ HasNet)
    BY <1>0, <1>1, <2>4, KeysWell DEF HasNet
  <2> QED
    BY <1>3, <1>12, <2>3, <2>5
<1>13. CASE Step.op = "ping"
  <2>1. PingStep /\ net \in Networks(Topology, Asked, MyRules) /\ drv.st = "run"
    BY <1>4, <1>13, StepOfKind
  <2>2. \/ net' = StartPing(net, Step.from, Step.to, Step.id, Step.count)
        \/ net' = [net EXCEPT !.ping = NoPing]
    BY <2>1 DEF PingStep
  <2>3. <<Step.from, Step.to, Step.id>> \in Asked /\ Step.count \in 1..2
    BY <1>1, <1>13, <2>1 DEF Fits, Pinged, Asked
  <2>4. Step.from \in Hosts /\ Step.to \in Hosts /\ Step.id \in 0..9
    <3>1. Asked \subseteq AllPings(Topology) /\ Connected(Topology)
      BY AskedOnTopology, TopologiesConnected DEF Asked, Topology
    <3> QED
      BY <2>3, <3>1 DEF AllPings, Connected
  <2>5. Usable(net', Topology, Asked, MyRules)
    <3>1. net \in Networks(Topology, Asked, Rules(Topology, Asked, Given(drv.key[1])))
      BY <2>1 DEF MyRules
    <3> DEFINE p == StartPing(net, Step.from, Step.to, Step.id, Step.count)
               q == [net EXCEPT !.ping = NoPing]
    <3>2. Usable(p, Topology, Asked, MyRules)
      BY <2>3, <2>4, <3>1, DriverOnNetwork DEF MyRules
    <3>3. Usable(q, Topology, Asked, MyRules)
      BY <3>1, DriverOnNetwork DEF MyRules
    <3>4. net' = p \/ net' = q
      BY <2>2
    <3> HIDE DEF p, q
    <3> QED
      BY <3>2, <3>3, <3>4
  <2> QED
    BY <1>2, <1>8, <1>13, <2>1, <2>5 DEF Usable
<1>14. CASE Step.op \in {"point", "cut", "extra", "delflows"}
  <2>1. NetStep /\ net \in Networks(Topology, Asked, MyRules)
    BY <1>4, <1>14, StepOfKind
  <2>2. net' \in {Pointed(net), [net EXCEPT !.cut = TRUE], [net EXCEPT !.extra = TRUE],
                  [net EXCEPT !.rules = {}, !.miss = {}]}
    BY <1>14, <2>1 DEF NetStep, At
  <2>3. Usable(net', Topology, Asked, MyRules)
    <3>1. net \in Networks(Topology, Asked, Rules(Topology, Asked, Given(drv.key[1])))
      BY <2>1 DEF MyRules
    <3> DEFINE p == [net EXCEPT !.cut = TRUE]
               q == [net EXCEPT !.extra = TRUE]
               r == [net EXCEPT !.rules = {}, !.miss = {}]
    <3>2. /\ Usable(Pointed(net), Topology, Asked, MyRules)
          /\ Usable(p, Topology, Asked, MyRules) /\ Usable(q, Topology, Asked, MyRules)
          /\ Usable(r, Topology, Asked, MyRules)
      BY <3>1, DriverOnNetwork DEF MyRules
    <3>3. net' = Pointed(net) \/ net' = p \/ net' = q \/ net' = r
      BY <2>2
    <3> HIDE DEF p, q, r
    <3> QED
      BY <3>2, <3>3
  <2> QED
    BY <1>2, <1>8, <1>14, <2>1, <2>3 DEF Usable
<1>15. CASE Step.op = "install"
  <2>1. InstallStep /\ net \in Networks(Topology, Asked, MyRules) /\ drv.st = "run"
    BY <1>4, <1>15, StepOfKind
  <2>2. Step.rule \in RuleSet /\ Step.rule \in Given(drv.key[1])
    BY <1>1, <1>15, <2>1 DEF Fits, Wired, Given
  <2>3. net' \in {net, [net EXCEPT !.rules = AddRule(net.rules, Step.rule)]}
    BY <2>1 DEF InstallStep
  <2>4. Usable(net', Topology, Asked, MyRules)
    <3>1. Usable(net, Topology, Asked, MyRules)
      BY <2>1 DEF Usable
    <3> QED
      BY <2>1, <2>2, <2>3, <3>1, DriverOnNetwork DEF MyRules
  <2> QED
    BY <1>2, <1>8, <1>15, <2>1, <2>4 DEF Usable
<1>16. Step.op \in Ops
  BY <1>1 DEF Fits, Threaded, Ops
<1> QED
  BY <1>9, <1>10, <1>11, <1>12, <1>13, <1>14, <1>15, <1>16 DEF Ops

-----------------------------------------------------------------------------

\* Before the first controller there is none.
LEMMA NoControllerTyped ==
  ASSUME NEW t
  PROVE  /\ IsController(NoController, t)
         /\ ~NoController.alive /\ ~NoController.captured /\ NoController.pc = "idle"
         /\ ~NoController.lostWhenReady /\ NoController.lines = <<>> /\ NoController.life = 0
<1>1. IsController(NoController, t)
  <2>1. NoController \in
          [prog : {"none"}, mode : {"none"}, env : {NoEnv}, alive : BOOLEAN, life : Nat,
           core : {"none", "built", "failed"}, missed : SUBSET Sws, ofReady : BOOLEAN,
           announced : BOOLEAN, named : SUBSET Sws, stations : SUBSET Learnt(t), flows : Int,
           captured : BOOLEAN, reported : BOOLEAN, armed : BOOLEAN,
           pc : {"idle", "confirm", "profile", "observe", "polled"},
           cap : {NoCap}, late : BOOLEAN,
           snap : {"none", "nonzero_exit", "expired", "matched", "rules"},
           seen : BOOLEAN, faults : Int, lostWhenReady : BOOLEAN, lines : Seq(Lines)]
    BY EmptySeq DEF NoController
  <2> QED
    BY <2>1 DEF IsController
<1>2. /\ ~NoController.alive /\ ~NoController.captured /\ NoController.pc = "idle"
      /\ ~NoController.lostWhenReady /\ NoController.lines = <<>> /\ NoController.life = 0
  BY DEF NoController
<1> QED
  BY <1>1, <1>2

\* A controller that has just been launched has said nothing and learnt nothing.
LEMMA NewControllerTyped ==
  ASSUME NEW t, IsController(ctl, t), NEW prog, NEW mode, NEW env
  PROVE  LET c == NewController(prog, mode, env, ctl)
         IN /\ IsController(c, t) /\ Occupied(c) /\ c.alive /\ c.prog = prog /\ c.env = env
            /\ c.lines = <<>> /\ c.pc = "idle" /\ ~c.captured /\ c.mode = mode
            /\ ~c.lostWhenReady /\ c.life = ctl.life + 1
<1>0. ctl.life + 1 \in Nat /\ ctl.faults \in Int
  BY DEF IsController
<1> DEFINE core == IF mode = "persistent" THEN "none" ELSE "built"
           c == [NoController EXCEPT !.prog = prog, !.mode = mode, !.env = env,
                    !.alive = TRUE, !.life = ctl.life + 1, !.faults = ctl.faults, !.core = core]
<1>1. NewController(prog, mode, env, ctl) = c
  BY DEF NewController
<1>2. core \in {"none", "built", "failed"}
  OBVIOUS
<1> HIDE DEF core
<1>3. IsController(c, t)
  BY <1>0, NoControllerTyped, <1>2 DEF IsController
<1>4. /\ c.alive /\ c.prog = prog /\ c.env = env
      /\ c.lines = <<>> /\ c.pc = "idle" /\ ~c.captured /\ c.mode = mode
      /\ ~c.lostWhenReady /\ c.life = ctl.life + 1
  BY NoControllerTyped DEF IsController
<1> HIDE DEF c
<1> QED
  BY <1>1, <1>3, <1>4 DEF Occupied

\* What is left of a process that ended, or that was killed by its name.
LEMMA OldControllerTyped ==
  ASSUME NEW t, IsController(ctl, t)
  PROVE  /\ LET c == Dead(ctl)
            IN /\ IsController(c, t) /\ Occupied(c) /\ ~c.alive /\ c.lines = ctl.lines
               /\ c.lostWhenReady = ctl.lostWhenReady /\ c.life = ctl.life /\ c.pc = "idle"
         /\ LET c == [NoController EXCEPT !.faults = ctl.faults, !.lostWhenReady = ctl.lostWhenReady]
            IN /\ IsController(c, t) /\ Occupied(c) /\ ~c.alive /\ c.lines = <<>> /\ c.life = 0
               /\ c.lostWhenReady = ctl.lostWhenReady /\ c.pc = "idle"
         /\ LET c == [ctl EXCEPT !.armed = TRUE]
            IN /\ IsController(c, t)
               /\ \A x \in (DOMAIN ctl) \ {"armed"} : c[x] = ctl[x]
<1>1. /\ ctl.life + 1 \in Nat /\ ctl.faults \in Int /\ ctl.lostWhenReady \in BOOLEAN
      /\ ctl.lines \in Seq(Lines) /\ ctl.life \in Nat
  BY DEF IsController
<1>2. <<>> \in Seq(Lines)
  BY EmptySeq
<1> DEFINE Over(life, lines) ==
             [NoController EXCEPT !.life = life, !.lines = lines,
                         !.faults = ctl.faults, !.lostWhenReady = ctl.lostWhenReady]
<1>a. ASSUME NEW lines \in Seq(Lines), NEW life \in Nat
      PROVE  LET c == Over(life, lines) IN
             /\ IsController(c, t) /\ Occupied(c) /\ ~c.alive /\ c.lines = lines
             /\ c.lostWhenReady = ctl.lostWhenReady /\ c.life = life /\ c.pc = "idle"
  <2> DEFINE c == Over(life, lines)
  <2>1. IsController(c, t)
    BY <1>1, <1>a, NoControllerTyped DEF IsController
  <2>2. /\ ~c.alive /\ c.lines = lines
        /\ c.lostWhenReady = ctl.lostWhenReady /\ c.life = life /\ c.pc = "idle"
    BY <1>a, NoControllerTyped DEF IsController
  <2> HIDE DEF c
  <2> QED
    BY <2>1, <2>2 DEF Occupied, c
<1>4. LET c == Dead(ctl)
      IN /\ IsController(c, t) /\ Occupied(c) /\ ~c.alive /\ c.lines = ctl.lines
         /\ c.lostWhenReady = ctl.lostWhenReady /\ c.life = ctl.life /\ c.pc = "idle"
  <2> DEFINE c == Dead(ctl)
  <2>1. c = Over(ctl.life, ctl.lines)
    BY DEF Dead
  <2> HIDE DEF c, Over
  <2>2. /\ IsController(c, t) /\ Occupied(c) /\ ~c.alive /\ c.lines = ctl.lines
        /\ c.lostWhenReady = ctl.lostWhenReady /\ c.life = ctl.life /\ c.pc = "idle"
    BY <1>1, <1>a, <2>1
  <2> QED
    BY <2>2 DEF c
<1>5. LET c == [NoController EXCEPT !.faults = ctl.faults, !.lostWhenReady = ctl.lostWhenReady]
      IN /\ IsController(c, t) /\ Occupied(c) /\ ~c.alive /\ c.lines = <<>> /\ c.life = 0
         /\ c.lostWhenReady = ctl.lostWhenReady /\ c.pc = "idle"
  <2> DEFINE c == [NoController EXCEPT !.faults = ctl.faults, !.lostWhenReady = ctl.lostWhenReady]
  <2>1. c = Over(0, <<>>)
    BY NoControllerTyped DEF IsController
  <2> HIDE DEF c, Over
  <2>2. /\ IsController(c, t) /\ Occupied(c) /\ ~c.alive /\ c.lines = <<>> /\ c.life = 0
        /\ c.lostWhenReady = ctl.lostWhenReady /\ c.pc = "idle"
    BY ZenonT(60), <1>2, <1>a, <2>1
  <2> QED
    BY <2>2 DEF c
<1>6. LET c == [ctl EXCEPT !.armed = TRUE]
      IN /\ IsController(c, t) /\ \A x \in (DOMAIN ctl) \ {"armed"} : c[x] = ctl[x]
  BY DEF IsController
<1> QED
  BY <1>4, <1>5, <1>6

\* The controller process after a step of the driver.
Processes == \/ ctl' = ctl
             \/ \E prog, mode, env : ctl' = NewController(prog, mode, env, ctl)
             \/ ctl' = Dead(ctl)
             \/ ctl' = [NoController EXCEPT !.faults = ctl.faults, !.lostWhenReady = ctl.lostWhenReady]
             \/ ctl' = [ctl EXCEPT !.armed = TRUE]

\* What a step of the driver may do to the controller: launch one it may launch, or kill
\* it and cut the switches off.
LEMMA OwnStepOnController ==
  ASSUME PlaceInv, OwnSteps, ControllerInv
  PROVE  /\ Processes
         /\ IsController(ctl', Topology) /\ Occupied(ctl')
         /\ ctl'.alive => ctl'.prog \in ProgsOf(drv.key[1])
         /\ ctl'.alive \/ net' = Disconnected(net) \/ ctl'.alive = ctl.alive
<1>0. /\ IsDriver(drv) /\ Placed(drv) /\ Framed
      /\ drv.key \in Keys /\ drv.st # "done" /\ drv'.key = drv.key
  BY OwnStepsFramed DEF PlaceInv, Framed, Running, IsDriver
<1>1. /\ drv.st = "run" => Fits(drv.key, drv.pc, Step)
      /\ drv.st = "tail" => Step.op \in {"unwatch", "teardown", "terminate"}
      /\ drv.st = "after" => Step.op \in {"check", "row"}
      /\ drv.st \in {"run", "tail", "after"} /\ drv.pc \in Nat
  BY <1>0, StepFits DEF Step, IsDriver
<1>2. IsController(ctl, Topology) /\ Occupied(ctl) /\ (ctl.alive => ctl.prog \in ProgsOf(drv.key[1]))
  BY DEF ControllerInv, Occupied
<1> DEFINE none == [NoController EXCEPT !.faults = ctl.faults, !.lostWhenReady = ctl.lostWhenReady]
           armed == [ctl EXCEPT !.armed = TRUE]
<1>3. CASE Step.op = "launch"
  <2>1. LaunchStep /\ Manned(drv.key, drv.pc, Step)
    BY <1>1, <1>3, StepOfKind DEF Fits
  <2>2. ctl' = NewController(Step.prog, Step.mode, Step.env, ctl) \/ ctl' = ctl
    BY <2>1 DEF LaunchStep
  <2>3. Step.prog \in ProgsOf(drv.key[1])
    BY <1>3, <2>1 DEF Manned
  <2>4. CASE ctl' = ctl
    BY <1>2, <2>4 DEF Processes
  <2>5. CASE ctl' = NewController(Step.prog, Step.mode, Step.env, ctl)
    <3>1. IsController(ctl', Topology) /\ Occupied(ctl') /\ ctl'.alive /\ ctl'.prog = Step.prog
      <4>1. PICK p, m, e : p = Step.prog /\ ctl' = NewController(p, m, e, ctl)
        BY <2>5
      <4> DEFINE n == NewController(p, m, e, ctl)
      <4>2. IsController(n, Topology) /\ Occupied(n) /\ n.alive /\ n.prog = p
        BY <1>2, NewControllerTyped
      <4>3. ctl' = n
        BY <4>1
      <4> HIDE DEF n
      <4> QED
        BY <4>1, <4>2, <4>3
    <3>2. Processes
      BY <2>5 DEF Processes
    <3> QED
      BY <2>3, <3>1, <3>2
  <2> QED
    BY <2>2, <2>4, <2>5
<1>4. CASE Step.op \in {"kill", "stop", "terminate"}
  <2>1. KillStep \/ StopStep \/ TerminateStep
    BY <1>4, StepOfKind
  <2>2. \/ ctl' = ctl
        \/ (ctl' = Dead(ctl) \/ ctl' = none) /\ net' = Disconnected(net)
    BY <2>1 DEF KillStep, StopStep, TerminateStep, OwnEnds
  <2>3. IsController(Dead(ctl), Topology) /\ Occupied(Dead(ctl)) /\ ~Dead(ctl).alive
        /\ IsController(none, Topology) /\ Occupied(none) /\ ~none.alive
    BY <1>2, OldControllerTyped
  <2>4. Processes
    BY <2>2 DEF Processes
  <2> HIDE DEF none
  <2> QED
    BY <1>2, <2>2, <2>3, <2>4
<1>5. CASE Step.op = "arm"
  <2>1. ArmStep
    BY <1>5, StepOfKind
  <2>2. ctl' = ctl \/ ctl' = armed
    BY <2>1 DEF ArmStep
  <2>3. IsController(armed, Topology) /\ \A x \in (DOMAIN ctl) \ {"armed"} : armed[x] = ctl[x]
    BY <1>2, OldControllerTyped
  <2>4. {"alive", "prog", "pc", "cap"} \subseteq (DOMAIN ctl) \ {"armed"}
    BY <1>2 DEF IsController
  <2>5. armed.alive = ctl.alive /\ armed.prog = ctl.prog /\ Occupied(armed)
    BY <1>2, <2>3, <2>4 DEF Occupied
  <2>6. Processes
    BY <2>2 DEF Processes
  <2>7. CASE ctl' = armed
    <3> HIDE DEF armed
    <3> QED
      BY <1>2, <2>3, <2>5, <2>6, <2>7
  <2> QED
    BY <1>2, <2>2, <2>6, <2>7
<1>6. CASE Step.op \notin {"launch", "kill", "stop", "terminate", "arm"}
  BY <1>0, <1>2, <1>6 DEF Framed, Processes
<1> QED
  BY <1>3, <1>4, <1>5, <1>6

\* Layer 2 holds at the start.
LEMMA MachineInit == LabInit => NetworkInv /\ ControllerInv
<1> SUFFICES ASSUME LabInit PROVE NetworkInv /\ ControllerInv
  OBVIOUS
<1>1. PICK k \in Keys : \E a \in Adversities[k[1]] :
        /\ net = [NoNet EXCEPT !.late = a.late]
        /\ ctl = [NoController EXCEPT !.faults = a.faults]
        /\ drv = NewDriver(k, a.tools, a.kills)
  BY DEF LabInit
<1>2. k[1] \in Drivers
  BY DEF Keys
<1>3. PICK a \in Adversities[k[1]] :
        /\ net = [NoNet EXCEPT !.late = a.late]
        /\ ctl = [NoController EXCEPT !.faults = a.faults]
        /\ drv = NewDriver(k, a.tools, a.kills)
  BY <1>1
<1>4. a.late \in Int /\ a.faults \in Int
  BY <1>2, LabAssumption
<1>5. drv.st = "run" /\ drv.pc = 1 /\ drv.key = k
  BY <1>3 DEF NewDriver
<1>6. Bare(net) /\ ~net.conn /\ net.pin = <<>>
  BY <1>3, <1>4 DEF Bare, NoNet
<1>7. ~(drv.st = "run" /\ HasNet)
  BY <1>5, KeysWell DEF HasNet
<1>8. IsController(ctl, Topology) /\ ~ctl.alive /\ ctl.pc = "idle"
  BY <1>3, <1>4, NoControllerTyped DEF IsController
<1> QED
  BY <1>6, <1>7, <1>8 DEF NetworkInv, ControllerInv

\* The topology and what may be asked on it.
LEMMA TopologyFacts ==
  Connected(Topology) /\ Asked \subseteq AllPings(Topology)
BY AskedOnTopology, TopologiesConnected DEF Asked, Topology

\* A step of a controller: alone, or with the next event of its channel.
LEMMA ControllerSteps ==
  ASSUME NetworkInv, ControllerInv, ControllerNext
  PROVE  /\ IsController(ctl', Topology) /\ Occupied(ctl') /\ SameProcess(ctl, ctl')
         /\ \/ Alone /\ net' = net
            \/ /\ Serving /\ net \in Networks(Topology, Asked, MyRules)
               /\ net' \in Networks(Topology, Asked, MyRules) /\ net'.conn /\ ctl.alive
<1>0. IsController(ctl, Topology) /\ Occupied(ctl)
  BY DEF ControllerInv, Occupied
<1>1. CASE Alone
  BY <1>0, <1>1, ControllerAlone
<1>2. CASE Serving
  <2>1. net \in Networks(Topology, Asked, Rules(Topology, Asked, Given(drv.key[1])))
    BY <1>2, BareRests DEF NetworkInv, MyRules
  <2>2. net.pin # <<>> => net.conn
    BY DEF NetworkInv
  <2>3. ctl.alive
    BY <1>2 DEF Serving, SwitchesConnect, Features, BarrierReply, BridgePacketIn,
                BaselinePacketIn, S56PacketIn, Served
  <2>4. ctl.prog = "direct" => drv.key[1] = "full"
    BY <2>3 DEF ControllerInv, ProgsOf
  <2>5. ctl.life \in Nat
    BY <1>0 DEF IsController
  <2>6. ctl.prog = "direct" => \A sw \in Sws : [sw |-> sw, in |-> AnyPort, dst |-> IPOnly,
                                out |-> FLOOD, life |-> ctl.life, id |-> 0] \in Given(drv.key[1])
    BY <2>4, <2>5 DEF Given, Learns, RuleSet, AnyPort, FLOOD
  <2>7. Connected(Topology) /\ Asked \subseteq AllPings(Topology)
    BY TopologyFacts
  <2> QED
    BY <1>0, <1>2, <2>1, <2>2, <2>3, <2>6, <2>7, ControllerServes DEF MyRules
<1> QED
  BY <1>1, <1>2 DEF ControllerNext, Alone, Serving

\* Layer 2 is kept by every step.
LEMMA MachineStep ==
  ASSUME PlaceInv, NetworkInv, ControllerInv, [LabNext]_labvars
  PROVE  NetworkInv' /\ ControllerInv'
<1>0. Connected(Topology) /\ Asked \subseteq AllPings(Topology)
      /\ IsController(ctl, Topology) /\ Occupied(ctl)
      /\ (ctl.alive => ctl.prog \in ProgsOf(drv.key[1]))
  BY TopologyFacts DEF ControllerInv, Occupied
<1>a. drv' = drv => /\ Topology' = Topology /\ Asked' = Asked /\ MyRules' = MyRules
                    /\ HasNet' = HasNet
  BY DEF Topology, Asked, MyRules, HasNet
<1>1. CASE net' = net /\ ctl' = ctl /\ drv' = drv
  BY <1>1, <1>a DEF NetworkInv, ControllerInv, Bare
<1>2. CASE FabricNext /\ ctl' = ctl /\ drv' = drv
  <2>1. net \in Networks(Topology, Asked, MyRules)
    BY <1>2, BareRests DEF NetworkInv
  <2>2. net' \in Networks(Topology, Asked, MyRules)
    BY <1>0, <1>2, <2>1, FabricOnNetwork
  <2>3. net'.conn = net.conn /\ (net'.pin = net.pin \/ net.conn)
    BY <1>2, <2>1, FabricKeeps
  <2> QED
    BY <1>2, <1>a, <2>2, <2>3 DEF NetworkInv, ControllerInv
<1>3. CASE ControllerNext /\ drv' = drv
  <2>1. /\ IsController(ctl', Topology) /\ Occupied(ctl') /\ SameProcess(ctl, ctl')
        /\ \/ net' = net
           \/ net' \in Networks(Topology, Asked, MyRules) /\ net'.conn /\ ctl.alive
    BY <1>3, ControllerSteps
  <2>2. ctl'.alive = ctl.alive /\ ctl'.prog = ctl.prog
    BY <2>1 DEF SameProcess
  <2>3. NetworkInv'
    BY <1>3, <1>a, <2>1, <2>2 DEF NetworkInv, Bare
  <2>4. ControllerInv'
    BY <1>0, <1>3, <1>a, <2>1, <2>2 DEF ControllerInv, Occupied
  <2> QED
    BY <2>3, <2>4
<1>4. CASE OwnSteps
  <2>1. drv'.key = drv.key
    BY <1>4, OwnStepsFramed DEF PlaceInv, Framed
  <2>2. Topology' = Topology
    BY <2>1 DEF Topology
  <2>3. /\ IsController(ctl', Topology) /\ Occupied(ctl')
        /\ ctl'.alive => ctl'.prog \in ProgsOf(drv.key[1])
        /\ ctl'.alive \/ net' = Disconnected(net) \/ ctl'.alive = ctl.alive
    BY <1>4, OwnStepOnController
  <2>4. ControllerInv'
    BY <2>1, <2>2, <2>3 DEF ControllerInv, Occupied
  <2>5. /\ \/ Bare(net') /\ ~(drv'.st = "run" /\ HasNet')
           \/ /\ net' = NewNet(Topology, Step.known, net.late) /\ net.late \in Int
              /\ Step.known \in SUBSET (Hosts \X Hosts)
           \/ Asked \subseteq Asked' /\ net' \in Networks(Topology, Asked, MyRules)
        /\ net'.pin # <<>> => net'.conn
        /\ net'.conn => net.conn
    BY <1>4, OwnStepOnNetwork
  <2>6. net' \in Networks(Topology, Asked', MyRules') \/ (Bare(net') /\ ~(drv'.st = "run" /\ HasNet'))
    <3>1. CASE net' = NewNet(Topology, Step.known, net.late) /\ net.late \in Int
               /\ Step.known \in SUBSET (Hosts \X Hosts)
      BY <3>1, NewNetNetwork
    <3>2. CASE Asked \subseteq Asked' /\ net' \in Networks(Topology, Asked, MyRules)
      <4>1. MyRules = Rules(Topology, Asked, Given(drv.key[1]))
            /\ MyRules' = Rules(Topology, Asked', Given(drv.key[1]))
        BY <2>1, <2>2 DEF MyRules
      <4> QED
        BY <3>2, <4>1, NetworksGrow
    <3> QED
      BY <2>5, <3>1, <3>2
  <2>7. net'.conn => ctl'.alive
    <3>1. net'.conn => net.conn /\ ctl.alive
      BY <2>5 DEF NetworkInv
    <3>2. ~Disconnected(net).conn
      BY DEF Disconnected, NetworkInv, Networks, Bare, NoNet
    <3> QED
      BY <2>3, <3>1, <3>2
  <2>8. NetworkInv'
    BY <2>2, <2>5, <2>6, <2>7 DEF NetworkInv, Bare
  <2> QED
    BY <2>4, <2>8
<1>5. CASE MonitorPings
  <2>1. /\ drv.key[1] = "recovery" /\ drv.st = "run" /\ drv.pc \in MonitorAt + 1 .. JoinAt
        /\ drv'.key = drv.key /\ drv'.st = drv.st /\ drv'.pc = drv.pc /\ ctl' = ctl
        /\ \/ net' = StartPing(net, 3, 4, 9, 1)
           \/ net' = net
           \/ net' = [net EXCEPT !.ping = NoPing]
    BY <1>5, MonitorPlaced
  <2>2. /\ Topology' = Topology /\ Asked' = Asked /\ MyRules' = MyRules /\ HasNet' = HasNet
    BY <2>1 DEF Topology, Asked, MyRules, HasNet
  <2>3. StartAt(drv.key) = 5
    BY <2>1, PlacesOfTrial DEF PlaceInv, IsDriver
  <2>4. net \in Networks(Topology, Asked, Rules(Topology, Asked, Given(drv.key[1])))
    BY <2>1, <2>3 DEF NetworkInv, MyRules, HasNet, MonitorAt, JoinAt
  <2>5. <<3, 4, 9>> \in Asked
    BY <2>1 DEF Asked, AskedAt, MonitorAt, JoinAt
  <2> DEFINE p == StartPing(net, 3, 4, 9, 1)
             q == [net EXCEPT !.ping = NoPing]
  <2>6. Usable(p, Topology, Asked, MyRules)
    <3>1. 3 \in Hosts /\ 4 \in Hosts /\ 9 \in 0..9 /\ 1 \in 1..2
      BY DEF Hosts
    <3> QED
      BY <2>4, <2>5, <3>1, DriverOnNetwork DEF MyRules
  <2>7. Usable(q, Topology, Asked, MyRules) /\ Usable(net, Topology, Asked, MyRules)
    BY <2>4, DriverOnNetwork DEF MyRules, Usable
  <2>8. net' = p \/ net' = q \/ net' = net
    BY <2>1
  <2> HIDE DEF p, q
  <2>9. Usable(net', Topology, Asked, MyRules)
    BY <2>6, <2>7, <2>8
  <2>10. NetworkInv'
    BY <2>1, <2>2, <2>9 DEF NetworkInv, Usable
  <2>11. ControllerInv'
    BY <2>1, <2>2 DEF ControllerInv
  <2> QED
    BY <2>10, <2>11
<1>6. CASE WatchdogFires
  <2>1. /\ drv'.key = drv.key /\ drv'.st = drv.st /\ drv'.pc = drv.pc
        /\ IF drv.own THEN ctl' = Dead(ctl) /\ net' = Disconnected(net)
           ELSE ctl' = ctl /\ net' = net
    BY <1>6, WatchdogPlaced
  <2>2. /\ Topology' = Topology /\ Asked' = Asked /\ MyRules' = MyRules /\ HasNet' = HasNet
    BY <2>1 DEF Topology, Asked, MyRules, HasNet
  <2>3. IsController(Dead(ctl), Topology) /\ Occupied(Dead(ctl)) /\ ~Dead(ctl).alive
    BY <1>0, OldControllerTyped
  <2>4. CASE net' = net /\ ctl' = ctl
    BY <2>1, <2>2, <2>4 DEF NetworkInv, ControllerInv, Bare
  <2>5. CASE ctl' = Dead(ctl) /\ net' = Disconnected(net)
    <3>1. ControllerInv'
      BY <2>2, <2>3, <2>5 DEF ControllerInv, Occupied
    <3>2. ~net'.conn /\ net'.pin = <<>>
      BY <2>5 DEF Disconnected, NetworkInv, Networks, Bare, NoNet
    <3>3. net \in Networks(Topology, Asked, MyRules) => net' \in Networks(Topology, Asked, MyRules)
      <4> DEFINE n == Disconnected(net)
      <4>1. net \in Networks(Topology, Asked, MyRules) => n \in Networks(Topology, Asked, MyRules)
        BY DriverOnNetwork DEF MyRules
      <4>2. net' = n
        BY <2>5
      <4> HIDE DEF n
      <4> QED
        BY <4>1, <4>2
    <3>4. Bare(net) => net' = net
      BY <2>5, BareRests
    <3>5. NetworkInv'
      BY <2>1, <2>2, <3>2, <3>3, <3>4 DEF NetworkInv, Bare
    <3> QED
      BY <3>1, <3>5
  <2> QED
    BY <2>1, <2>4, <2>5
<1>7. CASE DriverKilled
  <2>1. /\ net' = net /\ ctl' = ctl /\ drv'.key[1] = drv.key[1] /\ drv'.key[3] = drv.key[3]
        /\ drv'.st = "run" /\ drv'.pc = 1 /\ drv'.key \in Keys
    BY <1>7, KilledPlaced
  <2>2. Topology' = Topology
    BY <2>1 DEF Topology
  <2>3. Asked \subseteq Asked'
    BY <2>1 DEF Asked, AskedAt, WithoutAt, MonitorAt
  <2>4. ~HasNet'
    BY <2>1, KeysWell DEF HasNet
  <2>5. net \in Networks(Topology, Asked, MyRules) => net' \in Networks(Topology, Asked', MyRules')
    <3>1. MyRules = Rules(Topology, Asked, Given(drv.key[1]))
          /\ MyRules' = Rules(Topology, Asked', Given(drv.key[1]))
      BY <2>1, <2>2 DEF MyRules
    <3> QED
      BY <2>1, <2>3, <3>1, NetworksGrow
  <2>6. NetworkInv'
    BY <2>1, <2>2, <2>4, <2>5 DEF NetworkInv, Bare
  <2>7. ControllerInv'
    BY <2>1, <2>2 DEF ControllerInv
  <2> QED
    BY <2>6, <2>7
<1> QED
  BY <1>1, <1>2, <1>3, <1>4, <1>5, <1>6, <1>7, StepsOfLab

=============================================================================
