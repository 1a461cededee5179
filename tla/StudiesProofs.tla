---------------------------- MODULE StudiesProofs ----------------------------
(***************************************************************************)
(* The parts of the network studies.  What a trial of the service campaign *)
(* reports: that a restored service is the new instance's work, and that   *)
(* what the audit finds in a completed record is the machine's doing, for  *)
(* any number of probes and of commands and services that fail.  What a    *)
(* collector leaves in its file, for a                                     *)
(* schedule of any length, any number of kills, power losses and new runs, *)
(* and what the analyses conclude from it.  What the stamps of a Packet-In *)
(* say, however long each look takes.  And all of it under the one         *)
(* specification of Studies, where a part that is not looked at stays as   *)
(* it is.                                                                  *)
(***************************************************************************)
EXTENDS Studies, SequenceTheorems, FiniteSetTheorems, TLAPS

-----------------------------------------------------------------------------
(* A trial of the service campaign *)

Places == {"old", "new"}
TrialRule == [dst : Places, port : {1, 100}, life : {1, 2}]
Probes == [dst : Places, ok : BOOLEAN, late : BOOLEAN, by : 0 .. 2]
ProbeResults == {"none", "ok", "lost", "invalid"}

WorldSet ==
    [service : {"up", "booting", "down"}, life : {1, 2}, conn : BOOLEAN, path : BOOLEAN,
     at : {1, 100}, rules : SUBSET TrialRule, native : BOOLEAN, late : BOOLEAN]
Statuses ==
    {"started", "platform_not_listening", "controller_connection_timeout",
     "execution_error", "completed"}
RecordSet ==
    [scenario : Faults \cup {"scale"}, status : Statuses, warm : BOOLEAN, cold : BOOLEAN,
     baseline : BOOLEAN, found : BOOLEAN, verified : BOOLEAN, alive : BOOLEAN,
     old : {"none", "old"}, asked : Places \cup {"none"}, new : ProbeResults,
     during : ProbeResults, history : Seq(Probes), performed : BOOLEAN,
     recovered : BOOLEAN, port : {1, 100}, unread : BOOLEAN]

Before == {"listen", "connect", "warm", "batch", "baseline", "inject"}
After == {"during", "restore", "restored", "recover"}
Phases == Before \cup After \cup {"cleanup", "recorded"}

TrialTypes ==
    /\ world \in WorldSet /\ rec \in RecordSet
    /\ pc \in Phases /\ probe \in Places \cup {"none"} /\ troubles \in Nat

ControllerTrial == rec.scenario \in ControllerFaults

\* Which destination is asked, and when.
Asked ==
    /\ probe # "none" => pc \in {"batch", "baseline", "during", "recover"}
    /\ pc \in {"batch", "baseline"} => probe # "new"
    /\ pc = "recover" /\ ControllerTrial => probe # "old"
    /\ \A i \in 1 .. Len(rec.history) : ControllerTrial => rec.history[i].dst = "new"

\* A new instance is the only one that can let the new destination through.
ByNewInstance ==
    ControllerTrial /\ ~world.native =>
        /\ \A r \in world.rules : r.dst = "new" => r.life = 2
        /\ pc \in After /\ world.life = 1 => world.service = "down"
        /\ \A i \in 1 .. Len(rec.history) : rec.history[i].ok => rec.history[i].by = 2

\* Nothing passes while the bridge is away.
Disrupted ==
    rec.scenario = "switch_restart" =>
        /\ pc \in {"during", "restore"} => ~world.path
        /\ rec.new # "ok"

\* What a record says of its last probe, and of the controller.
Judgement ==
    /\ pc \in Before => rec.history = <<>> /\ rec.new = "none"
    /\ pc \in Before \cup After => ~rec.recovered /\ ~rec.alive /\ rec.status # "completed"
    /\ rec.status = "completed" =>
         /\ ~rec.alive
         /\ rec.scenario # "scale" => (rec.recovered <=> Judged(rec.history))
    /\ rec.recovered => Judged(rec.history)

TrialInv == TrialTypes /\ Asked /\ ByNewInstance /\ Disrupted /\ Judgement

-----------------------------------------------------------------------------
(* Facts about probes                                                      *)

\* A probe changes nothing but the rules, and those only where the service
\* answered it.
LEMMA EndsFacts ==
    ASSUME TrialTypes, NEW ok \in BOOLEAN, Ends(ok)
    PROVE  /\ world' \in WorldSet /\ probe' = "none" /\ probe \in Places /\ troubles' = troubles
           /\ world'.service = world.service /\ world'.life = world.life
           /\ world'.path = world.path /\ world'.native = world.native
           /\ \A r \in world'.rules : \/ r \in world.rules
                                      \/ /\ ByService(probe) /\ r.life = world.life
                                         /\ r.dst = probe
           /\ ok => world.path
<1> DEFINE made == [dst |-> probe, port |-> world.at, life |-> world.life]
<1>1. /\ probe' = "none" /\ probe \in Places /\ troubles' = troubles
      /\ ok => ByRule(probe) \/ ByService(probe)
  BY DEF Ends, TrialTypes
<1>2. made \in TrialRule /\ made.dst = probe /\ made.life = world.life
  BY <1>1 DEF TrialTypes, WorldSet, TrialRule
<1>3. \/ world' = world
      \/ ByService(probe) /\ world' = [world EXCEPT !.rules = @ \cup {made}]
  BY <1>1 DEF Ends
<1>4. ok => world.path
  BY <1>1 DEF ByRule, ByService
<1>5. CASE world' = world
  BY <1>1, <1>4, <1>5 DEF TrialTypes
<1>6. CASE ByService(probe) /\ world' = [world EXCEPT !.rules = @ \cup {made}]
  <2> HIDE DEF made
  <2>1. world'.rules = world.rules \cup {made}
    BY <1>6 DEF TrialTypes, WorldSet
  <2>2. world' \in WorldSet
    BY <1>2, <1>6 DEF TrialTypes, WorldSet
  <2>3. /\ world'.service = world.service /\ world'.life = world.life
        /\ world'.path = world.path /\ world'.native = world.native
    BY <1>6 DEF TrialTypes, WorldSet
  <2> QED
    BY <1>1, <1>2, <1>4, <1>6, <2>1, <2>2, <2>3
<1> QED
  BY <1>3, <1>5, <1>6

\* In the recovery of a controller trial, who answers is the new instance.
LEMMA NewInstanceCarries ==
    ASSUME TrialInv, NEW d \in Places, ByRule(d) \/ ByService(d)
    PROVE  /\ Carrier(d) \in 0 .. 2
           /\ ControllerTrial /\ ~world.native /\ pc = "recover" /\ d = "new" => Carrier(d) = 2
<1>1. world \in WorldSet
  BY DEF TrialInv, TrialTypes
<1>2. CASE ByRule(d)
  <2> DEFINE r == CHOOSE q \in RulesFor(d) : TRUE
  <2>1. r \in RulesFor(d)
    BY <1>2 DEF ByRule
  <2>2. r \in world.rules /\ r.dst = d /\ r \in TrialRule
    BY <1>1, <2>1 DEF RulesFor, WorldSet
  <2>3. Carrier(d) = r.life
    BY <1>2 DEF Carrier
  <2> HIDE DEF r
  <2> QED
    BY <2>2, <2>3 DEF TrialRule, TrialInv, ByNewInstance
<1>3. CASE ~ByRule(d)
  <2>1. Carrier(d) = IF world.native THEN 0 ELSE world.life
    BY <1>3 DEF Carrier
  <2>2. world.native \/ world.service = "up"
    BY <1>3 DEF ByService
  <2> QED
    BY <1>1, <2>1, <2>2 DEF WorldSet, TrialInv, ByNewInstance, After
<1> QED
  BY <1>2, <1>3

\* One more probe in the history.
LEMMA HistoryFacts ==
    ASSUME TrialInv, NEW ok \in BOOLEAN, Ends(ok)
    PROVE  /\ History(ok) \in Seq(Probes) /\ Len(History(ok)) = Len(rec.history) + 1
           /\ \A i \in 1 .. Len(rec.history) : History(ok)[i] = rec.history[i]
           /\ History(ok)[Len(rec.history) + 1].dst = probe
           /\ History(ok)[Len(rec.history) + 1].ok = ok
           /\ ok => History(ok)[Len(rec.history) + 1].by = Carrier(probe)
<1> DEFINE e == [dst |-> probe, ok |-> ok, late |-> world.late,
                 by |-> IF ok THEN Carrier(probe) ELSE 0]
<1>1. probe \in Places /\ (ok => Carrier(probe) \in 0 .. 2)
  BY NewInstanceCarries DEF Ends, TrialInv, TrialTypes
<1>2. rec.history \in Seq(Probes) /\ world.late \in BOOLEAN
  BY DEF TrialInv, TrialTypes, RecordSet, WorldSet
<1>3. e \in Probes
  BY <1>1, <1>2 DEF Probes
<1>4. History(ok) = Append(rec.history, e)
  BY DEF History
<1> HIDE DEF e
<1>5. /\ History(ok) \in Seq(Probes) /\ Len(History(ok)) = Len(rec.history) + 1
      /\ \A i \in 1 .. Len(rec.history) : History(ok)[i] = rec.history[i]
      /\ History(ok)[Len(rec.history) + 1] = e
  BY <1>2, <1>3, <1>4, AppendProperties
<1> QED
  BY <1>5 DEF e

-----------------------------------------------------------------------------
(* The invariant                                                           *)

\* A trial begins with an empty record and no rules.
LEMMA TrialInitHolds ==
    ASSUME TrialInit, TrialAssumption
    PROVE  TrialInv
<1>1. PICK s \in {"up", "booting", "down"}, n \in Natives : world = World(s, n)
  BY DEF TrialInit
<1>2. world \in WorldSet /\ world.rules = {}
  BY <1>1 DEF World, WorldSet, TrialAssumption
<1>3. PICK sc \in Faults \cup {"scale"} : rec = NoRecord(sc)
  BY DEF TrialInit
<1>4. <<>> \in Seq(Probes) /\ Len(<<>>) = 0
  BY EmptySeq
<1>5. /\ rec \in RecordSet /\ rec.history = <<>> /\ rec.new = "none" /\ ~rec.recovered
      /\ ~rec.alive /\ rec.status = "started"
  BY <1>3, <1>4 DEF NoRecord, RecordSet, ProbeResults, Statuses
<1>6. pc = "listen" /\ probe = "none" /\ troubles \in Nat
  BY DEF TrialInit, TrialAssumption
<1> QED
  BY <1>2, <1>4, <1>5, <1>6 DEF TrialInv, TrialTypes, Asked, ByNewInstance, Disrupted, Judgement, Phases,
                                Before, After

\* What the service, the switch and the clock do by themselves.
LEMMA WorldHolds ==
    ASSUME TrialInv, ServiceBoots \/ ServiceDies \/ SwitchConnects \/ NativeRepairs \/ WindowEnds
    PROVE  TrialInv'
<1> USE DEF TrialInv
<1>1. UNCHANGED <<rec, pc, probe>> /\ troubles' \in Nat
  BY DEF ServiceBoots, ServiceDies, SwitchConnects, NativeRepairs, WindowEnds, Fails, TrialTypes
<1>2. world \in WorldSet
  BY DEF TrialTypes
<1>3. /\ world' \in WorldSet /\ world'.native = world.native /\ world'.path = world.path
      /\ world'.life = world.life /\ world'.rules \subseteq world.rules
      /\ world.service = "down" => world'.service = "down"
  <2>1. CASE ServiceBoots \/ ServiceDies
    BY <1>2, <2>1 DEF ServiceBoots, ServiceDies, WorldSet
  <2>2. CASE SwitchConnects \/ WindowEnds
    BY ZenonT(60), <1>2, <2>2 DEF SwitchConnects, WindowEnds, WorldSet
  <2>3. CASE NativeRepairs
    <3>1. PICK r \in world.rules : world' = [world EXCEPT !.rules = world.rules \ {r}]
      BY <2>3 DEF NativeRepairs
    <3>2. world.rules \ {r} \in SUBSET TrialRule
      BY <1>2 DEF WorldSet
    <3> QED
      BY <1>2, <3>1, <3>2 DEF WorldSet
  <2> QED
    BY <2>1, <2>2, <2>3
<1> QED
  BY <1>1, <1>3 DEF TrialTypes, Asked, ByNewInstance, Disrupted, Judgement, Judged, ControllerTrial,
                    Last

\* What the trial notes before and of the fault leaves the record one, and before
\* the fault its outcome alone.
Outcome(r) == <<r.scenario, r.history, r.new, r.during, r.recovered, r.alive, r.verified>>

LEMMA StatusNoted ==
    ASSUME NEW r \in RecordSet, NEW q, NEW status \in Statuses, q = [r EXCEPT !.status = status]
    PROVE  q \in RecordSet /\ Outcome(q) = Outcome(r) /\ q.status = status
<1>1. q \in RecordSet
  BY DEF RecordSet
<1> QED
  BY <1>1 DEF RecordSet, Outcome

LEMMA WarmNoted ==
    ASSUME NEW r \in RecordSet, NEW q, NEW warm \in BOOLEAN, NEW unread \in BOOLEAN,
           q = [r EXCEPT !.warm = warm, !.unread = unread]
    PROVE  q \in RecordSet /\ Outcome(q) = Outcome(r) /\ q.status = r.status
<1>1. q \in RecordSet
  BY DEF RecordSet
<1> QED
  BY <1>1 DEF RecordSet, Outcome

LEMMA BatchNoted ==
    ASSUME NEW r \in RecordSet, NEW cold \in BOOLEAN, NEW unread \in BOOLEAN, NEW status \in Statuses
    PROVE  [r EXCEPT !.cold = cold, !.unread = unread, !.status = status] \in RecordSet
BY DEF RecordSet

LEMMA FaultNoted ==
    ASSUME NEW r \in RecordSet, NEW found \in BOOLEAN, NEW verified \in BOOLEAN,
           NEW alive \in BOOLEAN, NEW status \in Statuses
    PROVE  [r EXCEPT !.found = found, !.verified = verified, !.alive = alive,
                     !.status = status] \in RecordSet
BY DEF RecordSet

LEMMA BaselineNoted ==
    ASSUME NEW r \in RecordSet, NEW q, NEW baseline \in BOOLEAN,
           q = [r EXCEPT !.baseline = baseline, !.old = "old"]
    PROVE  q \in RecordSet /\ Outcome(q) = Outcome(r) /\ q.status = r.status
<1>1. q \in RecordSet
  BY DEF RecordSet
<1> QED
  BY <1>1 DEF RecordSet, Outcome

\* The steps before the fault that look at nothing but the record.
LEMMA SetupHolds ==
    ASSUME TrialInv, Listen \/ Connect \/ Warm
    PROVE  TrialInv'
<1> USE DEF TrialInv
<1>1. /\ pc \in {"listen", "connect", "warm"} /\ probe' = probe /\ world' = world
      /\ pc' \in {"connect", "warm", "batch", "cleanup"} /\ troubles' \in Nat
  <2>1. troubles' = troubles \/ Fails
    BY Zenon DEF Listen, Connect, Warm, Trouble
  <2>2. troubles' \in Nat
    BY <2>1 DEF Fails, TrialTypes
  <2> QED
    BY <2>2, Zenon DEF Listen, Connect, Warm, Trouble, Raised
<1>2. \/ rec' = rec
      \/ \E st \in Statuses \ {"completed"} : rec' = [rec EXCEPT !.status = st] /\ pc' = "cleanup"
      \/ \E ok, failed \in BOOLEAN : rec' = [rec EXCEPT !.warm = ok, !.unread = failed]
  BY DEF Listen, Connect, Warm, Trouble, Raised, Statuses
<1>3. rec \in RecordSet
  BY DEF TrialTypes
<1>4. /\ rec' \in RecordSet /\ rec'.scenario = rec.scenario /\ rec'.history = rec.history
      /\ rec'.new = rec.new /\ rec'.recovered = rec.recovered /\ rec'.alive = rec.alive
      /\ rec'.status # "completed"
  <2>1. rec.status # "completed" /\ rec.status \in Statuses
    BY <1>1, <1>3 DEF Judgement, Before, RecordSet
  <2>2. rec' \in RecordSet /\ Outcome(rec') = Outcome(rec) /\ rec'.status # "completed"
    <3>1. CASE \E st \in Statuses \ {"completed"} : rec' = [rec EXCEPT !.status = st]
      BY <1>3, <3>1, StatusNoted
    <3>2. CASE \E ok, failed \in BOOLEAN : rec' = [rec EXCEPT !.warm = ok, !.unread = failed]
      BY <1>3, <2>1, <3>2, WarmNoted
    <3> QED
      BY <1>2, <1>3, <2>1, <3>1, <3>2
  <2> QED
    BY <2>2 DEF Outcome
<1>5. probe = "none"
  BY <1>1 DEF Asked
<1> QED
  BY <1>1, <1>4, <1>5 DEF TrialTypes, Asked, ByNewInstance, Disrupted, Judgement, ControllerTrial,
                          Phases, Before, After, Judged

\* An exception before the record is complete: what the trial noted stays.
LEMMA RaisedHolds ==
    ASSUME TrialInv, Raised, pc \in Before \cup After, world' \in WorldSet, probe' = "none",
           troubles' \in Nat, world'.native = world.native, world'.rules = world.rules
    PROVE  TrialInv'
<1> USE DEF TrialInv
<1>1. rec \in RecordSet /\ ~rec.recovered /\ ~rec.alive
  BY DEF TrialTypes, Judgement
<1>2. rec' = [rec EXCEPT !.status = "execution_error"] /\ pc' = "cleanup"
  BY DEF Raised
<1>3. /\ rec' \in RecordSet /\ rec'.scenario = rec.scenario /\ rec'.history = rec.history
      /\ rec'.new = rec.new /\ ~rec'.recovered /\ rec'.status = "execution_error"
  BY <1>1, <1>2 DEF RecordSet, Statuses
<1>4. TrialTypes'
  BY <1>2, <1>3 DEF TrialTypes, Phases
<1>5. Asked'
  BY <1>2, <1>3 DEF Asked, ControllerTrial
<1>6. ByNewInstance'
  BY <1>2, <1>3 DEF ByNewInstance, ControllerTrial, After
<1>7. Disrupted' /\ Judgement'
  BY <1>2, <1>3 DEF Disrupted, Judgement, Before, After
<1> QED
  BY <1>4, <1>5, <1>6, <1>7

\* The probes before the fault.
LEMMA BatchHolds ==
    ASSUME TrialInv, Batch \/ Baseline
    PROVE  TrialInv'
<1> USE DEF TrialInv
<1>1. /\ pc \in {"batch", "baseline"} /\ rec \in RecordSet
      /\ ~rec.recovered /\ ~rec.alive /\ rec.status # "completed"
      /\ rec.history = <<>> /\ rec.new = "none"
  BY DEF Batch, Baseline, TrialTypes, Judgement, Before
<1>2. CASE probe = "none" /\ Sent("old")
  <2>1. probe' = "old" /\ UNCHANGED <<world, rec, pc, troubles>>
    BY <1>2 DEF Sent
  <2> QED
    BY <1>1, <2>1 DEF TrialTypes, Places, Asked, ByNewInstance, Disrupted, Judgement, Judged,
                      ControllerTrial, Last
<1>3. CASE Invalid /\ Raised
  <2>1. world' = world /\ probe' = "none" /\ troubles' \in Nat
    BY <1>3 DEF Invalid, Fails, TrialTypes
  <2> QED
    BY <1>1, <1>3, <2>1, RaisedHolds DEF TrialTypes, Before
<1>5. CASE probe = "none" /\ Trouble
  <2>1. world' = world /\ probe' = "none" /\ troubles' \in Nat /\ Raised
    BY <1>5 DEF Trouble, Fails, TrialTypes
  <2> QED
    BY <1>1, <2>1, RaisedHolds DEF TrialTypes, Before
<1>4. ASSUME NEW ok \in BOOLEAN, Ends(ok), AfterCold(ok) \/ AfterBaseline(ok)
      PROVE  TrialInv'
  <2>2. /\ rec' \in RecordSet /\ rec'.scenario = rec.scenario /\ rec'.history = <<>>
        /\ rec'.new = "none" /\ ~rec'.recovered /\ ~rec'.alive
        /\ \/ pc' \in {"baseline", "inject"} /\ rec'.status # "completed"
           \/ pc' = "cleanup" /\ rec'.scenario = "scale"
    <3>1. rec.unread \in BOOLEAN /\ {"completed", rec.status} \subseteq Statuses
      BY <1>1 DEF RecordSet, Statuses
    <3>2. CASE AfterBaseline(ok)
      <4>1. /\ rec' \in RecordSet /\ Outcome(rec') = Outcome(rec) /\ rec'.status = rec.status
            /\ pc' = "inject"
        BY <1>1, <3>2, BaselineNoted DEF AfterBaseline
      <4> QED
        BY <1>1, <4>1 DEF Outcome
    <3>3. CASE AfterCold(ok)
      <4>1. PICK failed \in BOOLEAN :
              /\ rec' = [rec EXCEPT !.cold = ok, !.unread = @ \/ failed,
                           !.status = IF rec.scenario = "scale" THEN "completed" ELSE rec.status]
              /\ pc' = IF rec.scenario = "scale" THEN "cleanup" ELSE "baseline"
        BY <3>3 DEF AfterCold
      <4>2. PICK st \in Statuses : st = IF rec.scenario = "scale" THEN "completed" ELSE rec.status
        BY <3>1
      <4>3. PICK unread \in BOOLEAN : unread = (rec.unread \/ failed)
        BY <3>1
      <4>4. rec' = [rec EXCEPT !.cold = ok, !.unread = unread, !.status = st]
        BY <4>1, <4>2, <4>3
      <4>5. rec' \in RecordSet /\ Outcome(rec') = Outcome(rec) /\ rec'.status = st
        <5>1. rec \in RecordSet /\ ok \in BOOLEAN /\ unread \in BOOLEAN /\ st \in Statuses
          BY <1>1, <1>4, <4>2, <4>3
        <5>2. rec' \in RecordSet
          BY <4>4, <5>1, BatchNoted, Zenon
        <5>3. Outcome(rec') = Outcome(rec) /\ rec'.status = st
          BY <4>4, <5>1 DEF RecordSet, Outcome
        <5> QED
          BY <5>2, <5>3
      <4> QED
        BY <1>1, <4>1, <4>2, <4>5 DEF Outcome
    <3> QED
      BY <1>4, <3>2, <3>3
  <2>3. probe = "old" /\ probe' = "none" /\ troubles' \in Nat /\ world' \in WorldSet
    BY <1>1, <1>4, EndsFacts DEF Asked, TrialTypes, Places
  <2>4. world'.native = world.native /\ \A r \in world'.rules : r.dst = "new" => r \in world.rules
    BY <1>4, <2>3, EndsFacts
  <2>5. Len(<<>>) = 0
    OBVIOUS
  <2> QED
    BY <2>2, <2>3, <2>4, <2>5 DEF TrialTypes, Asked, ByNewInstance, Disrupted, Judgement,
            ControllerTrial, ControllerFaults, Phases, Before, After
<1> QED
  BY <1>2, <1>3, <1>4, <1>5 DEF Batch, Baseline

\* The fault: what worked before does no more, and no rule is made.
LEMMA InjectHolds ==
    ASSUME TrialInv, InjectLink \/ InjectSwitch \/ InjectController \/ InjectMove
    PROVE  TrialInv'
<1> USE DEF TrialInv
<1>1. /\ pc = "inject" /\ probe = "none" /\ probe' = "none" /\ troubles \in Nat
      /\ rec \in RecordSet /\ world \in WorldSet
      /\ ~rec.recovered /\ ~rec.alive /\ rec.status # "completed"
      /\ rec.history = <<>> /\ rec.new = "none"
  BY DEF InjectLink, InjectSwitch, InjectController, InjectMove, Trouble, TrialTypes, Asked,
         Judgement, Before, Fails
<1>2. Len(<<>>) = 0
  OBVIOUS
<1>3. CASE InjectLink
  <2>1. /\ world' \in WorldSet /\ pc' = "during" /\ rec' = rec
        /\ rec.scenario = "link_restore" /\ troubles' \in Nat
    <3>1. /\ pc' = "during" /\ rec' = rec /\ rec.scenario = "link_restore"
          /\ world' \in {world, [world EXCEPT !.path = FALSE]}
          /\ troubles' = troubles \/ Fails
      BY <1>3, Zenon DEF InjectLink
    <3>2. [world EXCEPT !.path = FALSE] \in WorldSet
      BY <1>1 DEF WorldSet
    <3>3. troubles' \in Nat
      BY <1>1, <3>1 DEF Fails
    <3> QED
      BY <1>1, <3>1, <3>2, <3>3, Zenon
  <2> QED
    BY <1>1, <1>2, <2>1 DEF TrialTypes, Asked, ByNewInstance, Disrupted, Judgement, ControllerTrial,
            ControllerFaults, Phases, Before, After
<1>4. CASE InjectSwitch
  <2>1. CASE Trouble
    <3>1. world' = world /\ troubles' \in Nat /\ Raised
      BY <1>1, <2>1 DEF Trouble, Fails
    <3> QED
      BY <1>1, <3>1, RaisedHolds DEF Before
  <2>2. CASE ~Trouble
    <3>1. /\ world' \in WorldSet /\ ~world'.path /\ pc' = "during" /\ rec' = rec
          /\ rec.scenario = "switch_restart" /\ troubles' = troubles
      BY <1>1, <1>4, <2>2 DEF InjectSwitch, WorldSet
    <3> QED
      BY <1>1, <1>2, <3>1 DEF TrialTypes, Asked, ByNewInstance, Disrupted, Judgement, ControllerTrial,
              ControllerFaults, Phases, Before, After
  <2> QED
    BY <2>1, <2>2
<1>5. CASE InjectController
  <2>1. /\ rec' \in RecordSet /\ rec'.scenario = rec.scenario /\ rec'.history = <<>>
        /\ rec'.new = "none" /\ ~rec'.recovered /\ rec'.status # "completed"
        /\ troubles' \in Nat /\ rec.scenario \in ControllerFaults
        /\ world' \in WorldSet /\ world'.native = world.native /\ world'.rules = world.rules
        /\ \/ pc' = "during" /\ world'.service = "down" /\ ~rec'.alive
           \/ pc' = "cleanup"
    <3> DEFINE found == world.service # "down"
               stopped == [world EXCEPT !.service = "down", !.conn = FALSE]
    <3>1. /\ stopped \in WorldSet /\ stopped.native = world.native
          /\ stopped.rules = world.rules /\ stopped.service = "down" /\ found \in BOOLEAN
      BY <1>1 DEF WorldSet
    <3>2. rec.scenario \in ControllerFaults
      BY <1>5 DEF InjectController
    <3>3. CASE /\ world' = stopped
               /\ rec' = [rec EXCEPT !.found = found, !.verified = TRUE, !.alive = FALSE]
               /\ pc' = "during" /\ troubles' = troubles
      <4> HIDE DEF found, stopped
      <4>1. rec' = [rec EXCEPT !.found = found, !.verified = TRUE, !.alive = FALSE,
                               !.status = rec.status] /\ rec.status \in Statuses
        BY <1>1, <3>3 DEF RecordSet
      <4>2. /\ rec' \in RecordSet /\ rec'.scenario = rec.scenario /\ rec'.history = rec.history
            /\ rec'.new = rec.new /\ rec'.recovered = rec.recovered
            /\ ~rec'.alive /\ rec'.status = rec.status
        <5>1. rec \in RecordSet /\ found \in BOOLEAN
          BY <1>1, <3>1
        <5>2. rec' \in RecordSet
          BY <4>1, <5>1 DEF RecordSet
        <5>3. /\ rec'.scenario = rec.scenario /\ rec'.history = rec.history
              /\ rec'.new = rec.new /\ rec'.recovered = rec.recovered
              /\ ~rec'.alive /\ rec'.status = rec.status
          BY <4>1, <5>1 DEF RecordSet
        <5> QED
          BY <5>2, <5>3
      <4> QED
        BY <1>1, <3>1, <3>2, <3>3, <4>2
    <3>4. CASE /\ Fails /\ world' \in {world, stopped} /\ pc' = "cleanup"
               /\ \E seen \in BOOLEAN :
                    rec' = [rec EXCEPT !.found = found, !.verified = ~seen, !.alive = seen,
                                       !.status = "execution_error"]
      <4> HIDE DEF found, stopped
      <4>1. /\ rec' \in RecordSet /\ rec'.scenario = rec.scenario /\ rec'.history = <<>>
            /\ rec'.new = "none" /\ ~rec'.recovered /\ rec'.status = "execution_error"
        <5>1. PICK seen \in BOOLEAN :
                rec' = [rec EXCEPT !.found = found, !.verified = ~seen, !.alive = seen,
                                   !.status = "execution_error"]
          BY <3>4
        <5>2. PICK unseen \in BOOLEAN : unseen = ~seen
          OBVIOUS
        <5>3. rec' = [rec EXCEPT !.found = found, !.verified = unseen, !.alive = seen,
                                 !.status = "execution_error"]
          BY <5>1, <5>2
        <5>4. "execution_error" \in Statuses
          BY DEF Statuses
        <5> QED
          <6>1. /\ rec \in RecordSet /\ found \in BOOLEAN /\ unseen \in BOOLEAN
                /\ seen \in BOOLEAN /\ rec.history = <<>> /\ rec.new = "none"
                /\ ~rec.recovered
            BY <1>1, <3>1
          <6>2. rec' \in RecordSet
            BY <5>3, <5>4, <6>1, FaultNoted, Zenon
          <6>3. /\ rec'.scenario = rec.scenario /\ rec'.history = rec.history
                /\ rec'.new = rec.new /\ rec'.recovered = rec.recovered
                /\ rec'.status = "execution_error"
            BY <5>3, <6>1 DEF RecordSet
          <6> QED
            BY <6>1, <6>2, <6>3
      <4>2. troubles' \in Nat
        BY <1>1, <3>4 DEF Fails
      <4> QED
        BY <1>1, <3>1, <3>2, <3>4, <4>1, <4>2
    <3> QED
      BY <1>5, <3>3, <3>4, Zenon DEF InjectController
  <2> QED
    BY <1>1, <1>2, <2>1 DEF TrialTypes, Asked, ByNewInstance, Disrupted, Judgement, ControllerTrial,
            ControllerFaults, Phases, Before, After
<1>6. CASE InjectMove
  <2>1. /\ world' \in WorldSet /\ world'.native = world.native /\ world'.rules = world.rules
        /\ rec.scenario = "host_move"
    BY <1>1, <1>6 DEF InjectMove, WorldSet
  <2>2. CASE Raised /\ troubles' \in Nat
    BY <1>1, <2>1, <2>2, RaisedHolds DEF Before
  <2>3. CASE pc' = "restored" /\ rec' = rec /\ troubles' = troubles
    BY <1>1, <1>2, <2>1, <2>3 DEF TrialTypes, Asked, ByNewInstance, Disrupted, Judgement,
            ControllerTrial, ControllerFaults, Phases, Before, After
  <2> QED
    BY <1>1, <1>6, <2>2, <2>3 DEF InjectMove, Fails
<1> QED
  BY <1>3, <1>4, <1>5, <1>6

\* The probes during the fault: nothing passes while the bridge is away, and no
\* rule is made while the service is down.
LEMMA DuringHolds ==
    ASSUME TrialInv, During
    PROVE  TrialInv'
<1> USE DEF TrialInv
<1>1. /\ pc = "during" /\ rec \in RecordSet /\ world \in WorldSet
      /\ ~rec.recovered /\ ~rec.alive /\ rec.status # "completed"
  BY DEF During, TrialTypes, Judgement, After
<1> DEFINE first == ControllerTrial /\ rec.during = "none"
           Noted(result) ==
             IF first THEN rec' = [rec EXCEPT !.during = result] /\ UNCHANGED pc
             ELSE rec' = [rec EXCEPT !.new = result, !.asked = probe] /\ pc' = "restore"
<1>2. ASSUME NEW result \in ProbeResults, Noted(result)
      PROVE  /\ rec' \in RecordSet /\ rec'.scenario = rec.scenario
             /\ rec'.history = rec.history /\ ~rec'.recovered /\ ~rec'.alive
             /\ rec'.status # "completed" /\ rec'.new \in {rec.new, result}
             /\ pc' \in {"during", "restore"}
  <2>1. CASE first
    BY <1>1, <1>2, <2>1 DEF RecordSet
  <2>2. CASE ~first
    <3>1. /\ rec' = [rec EXCEPT !.new = result, !.asked = probe] /\ pc' = "restore"
          /\ probe \in Places \cup {"none"}
      BY <1>2, <2>2 DEF TrialTypes
    <3>2. rec' \in RecordSet /\ rec'.new = result
      BY <1>1, <1>2, <3>1 DEF RecordSet
    <3>3. /\ rec'.scenario = rec.scenario /\ rec'.history = rec.history
          /\ rec'.recovered = rec.recovered /\ rec'.alive = rec.alive
          /\ rec'.status = rec.status
      BY <1>1, <3>1 DEF RecordSet
    <3> QED
      BY <1>1, <3>1, <3>2, <3>3
  <2> QED
    BY <2>1, <2>2
<1>3. ASSUME NEW result \in ProbeResults, Noted(result), world' \in WorldSet, probe' = "none",
             troubles' \in Nat, world'.native = world.native, world'.path = world.path,
             world'.life = world.life, world'.service = world.service,
             \A r \in world'.rules :
               r \in world.rules \/ (ByService(r.dst) /\ r.life = world.life),
             result = "ok" => world.path
      PROVE  TrialInv'
  <2> HIDE DEF Noted
  <2>1. /\ rec' \in RecordSet /\ rec'.scenario = rec.scenario
        /\ rec'.history = rec.history /\ ~rec'.recovered /\ ~rec'.alive
        /\ rec'.status # "completed" /\ rec'.new \in {rec.new, result}
        /\ pc' \in {"during", "restore"}
    BY <1>2, <1>3
  <2>2. TrialTypes' /\ Asked' /\ Judgement'
    BY <1>3, <2>1 DEF TrialTypes, Asked, Judgement, ControllerTrial, Phases, Before, After
  <2>3. ByNewInstance'
    <3>1. SUFFICES ASSUME ControllerTrial, ~world.native
                   PROVE  ByNewInstance'
      BY <1>3, <2>1 DEF ByNewInstance, ControllerTrial
    <3>2. world.life = 1 => world.service = "down"
      BY <1>1, <3>1 DEF ByNewInstance, After
    <3>3. ASSUME NEW r \in world'.rules, r.dst = "new"
          PROVE  r.life = 2
      <4>1. CASE r \in world.rules
        BY <3>1, <3>3, <4>1 DEF ByNewInstance
      <4>2. CASE r \notin world.rules
        <5>1. world.life = 2
          BY <1>1, <1>3, <3>1, <3>2, <3>3, <4>2 DEF ByService, WorldSet
        <5> QED
          BY <1>3, <5>1, <4>2
      <4> QED
        BY <4>1, <4>2
    <3> QED
      BY <1>1, <1>3, <2>1, <3>1, <3>2, <3>3 DEF ByNewInstance, ControllerTrial, After
  <2>4. Disrupted'
    BY <1>1, <1>3, <2>1 DEF Disrupted
  <2> QED
    BY <2>2, <2>3, <2>4
<1>4. ASSUME NEW d \in Places, Sent(d)
      PROVE  TrialInv'
  <2>1. probe' = d /\ UNCHANGED <<world, rec, pc, troubles>>
    BY <1>4 DEF Sent
  <2> QED
    BY <1>1, <2>1 DEF TrialTypes, Asked, ByNewInstance, Disrupted, Judgement, Judged,
                      ControllerTrial, Last
<1>5. ASSUME NEW ok \in BOOLEAN, Ends(ok), Noted(IF ok THEN "ok" ELSE "lost")
      PROVE  TrialInv'
  <2> HIDE DEF Noted
  <2>1. (IF ok THEN "ok" ELSE "lost") \in ProbeResults
    BY DEF ProbeResults
  <2> QED
    BY <1>3, <1>5, <2>1, EndsFacts DEF TrialTypes
<1>6. ASSUME Invalid, Noted("invalid")
      PROVE  TrialInv'
  <2> HIDE DEF Noted
  <2>1. world' = world /\ probe' = "none" /\ troubles' \in Nat /\ "invalid" \in ProbeResults
    BY <1>6 DEF Invalid, Fails, TrialTypes, ProbeResults
  <2> QED
    BY <1>1, <1>3, <1>6, <2>1
<1> QED
  <2>1. \/ \E d \in Places : Sent(d)
        \/ \E ok \in BOOLEAN : Ends(ok) /\ Noted(IF ok THEN "ok" ELSE "lost")
        \/ Invalid /\ Noted("invalid")
    BY DEF During, Places, ControllerTrial
  <2> QED
    BY <1>4, <1>5, <1>6, <2>1

\* The restoration starts the new instance, if it starts one at all.
LEMMA RestoreHolds ==
    ASSUME TrialInv, Restore
    PROVE  TrialInv'
<1> USE DEF TrialInv
<1>1. /\ pc = "restore" /\ probe' = "none" /\ probe = "none"
      /\ rec \in RecordSet /\ world \in WorldSet /\ troubles \in Nat
  BY DEF Restore, TrialTypes, Asked
<1> DEFINE restored == IF ControllerTrial THEN [world EXCEPT !.service = "booting", !.life = 2]
                       ELSE [world EXCEPT !.path = TRUE]
<1>2. /\ restored \in WorldSet /\ restored.native = world.native
      /\ restored.rules = world.rules /\ (ControllerTrial => restored.life = 2)
  <2>1. CASE ControllerTrial
    BY <1>1, <2>1 DEF WorldSet
  <2>2. CASE ~ControllerTrial
    BY <1>1, <2>2 DEF WorldSet
  <2> QED
    BY <2>1, <2>2
<1>3. /\ world' \in {world, restored} /\ troubles' \in Nat
      /\ Raised \/ (pc' = "restored" /\ rec' = rec)
  BY <1>1 DEF Restore, Fails, ControllerTrial
<1> HIDE DEF restored
<1>4. CASE Raised
  BY <1>1, <1>2, <1>3, <1>4, RaisedHolds DEF After
<1>5. CASE pc' = "restored" /\ rec' = rec
  <2>1. TrialTypes' /\ Asked' /\ Judgement'
    BY <1>1, <1>2, <1>3, <1>5 DEF TrialTypes, Asked, Judgement, Judged, ControllerTrial, Phases,
                                  Before, After, Last
  <2>2. ByNewInstance' /\ Disrupted'
    BY <1>1, <1>2, <1>3, <1>5 DEF ByNewInstance, Disrupted, ControllerTrial, After
  <2> QED
    BY <2>1, <2>2
<1> QED
  BY <1>3, <1>4, <1>5

\* Only valid probes lead into the recovery.
LEMMA CheckHolds ==
    ASSUME TrialInv, CheckDuring
    PROVE  TrialInv'
<1> USE DEF TrialInv
<1>1. /\ pc = "restored" /\ UNCHANGED <<world, probe, troubles>> /\ probe = "none"
      /\ world \in WorldSet /\ troubles \in Nat
  BY DEF CheckDuring, TrialTypes, Asked
<1>2. CASE Raised
  BY <1>1, <1>2, RaisedHolds DEF After
<1>3. CASE pc' = "recover" /\ rec' = rec
  <2>1. TrialTypes' /\ Asked' /\ Judgement'
    BY <1>1, <1>3 DEF TrialTypes, Asked, Judgement, Judged, ControllerTrial, Phases, Before, After, Last
  <2>2. ByNewInstance' /\ Disrupted'
    BY <1>1, <1>3 DEF ByNewInstance, Disrupted, ControllerTrial, After
  <2> QED
    BY <2>1, <2>2
<1> QED
  BY <1>2, <1>3 DEF CheckDuring

\* The end of a recovery probe, and of the recovery.
LEMMA RecoverHolds ==
    ASSUME TrialInv, Recover
    PROVE  TrialInv'
<1> USE DEF TrialInv
<1>1. /\ pc = "recover" /\ rec \in RecordSet /\ world \in WorldSet
      /\ ~rec.recovered /\ ~rec.alive /\ rec.status # "completed"
      /\ rec.history \in Seq(Probes)
  BY DEF Recover, TrialTypes, Judgement, After, RecordSet
<1>2. ASSUME NEW h \in Seq(Probes)
      PROVE  Judged(h) \in BOOLEAN /\ (Judged(h) => h # <<>>)
  BY DEF Judged
<1>3. CASE probe = "none" /\ Sent(RecoveryDestination)
  <2>1. /\ probe' \in Places /\ UNCHANGED <<world, rec, pc, troubles>>
        /\ ControllerTrial => probe' = "new"
    BY <1>3 DEF Sent, RecoveryDestination, Places, ControllerTrial
  <2> QED
    BY <1>1, <2>1 DEF TrialTypes, Asked, ByNewInstance, Disrupted, Judgement, Judged,
                      ControllerTrial, Last
\* the same for a probe that ended, whatever the record becomes
<1>4. ASSUME NEW ok \in BOOLEAN, Ends(ok), rec' \in RecordSet, pc' \in {"recover", "cleanup"},
             rec'.scenario = rec.scenario, rec'.history = History(ok), rec'.new = rec.new
      PROVE  TrialTypes' /\ Asked' /\ ByNewInstance' /\ Disrupted'
  <2>1. /\ world' \in WorldSet /\ probe' = "none" /\ probe \in Places /\ troubles' \in Nat
        /\ world'.service = world.service /\ world'.life = world.life
        /\ world'.native = world.native
    BY <1>4, EndsFacts DEF TrialTypes
  <2>2. /\ Len(rec'.history) = Len(rec.history) + 1 /\ Len(rec.history) \in Nat
        /\ \A i \in 1 .. Len(rec.history) : rec'.history[i] = rec.history[i]
        /\ rec'.history[Len(rec.history) + 1].dst = probe
        /\ rec'.history[Len(rec.history) + 1].ok = ok
        /\ ok => rec'.history[Len(rec.history) + 1].by = Carrier(probe)
    BY <1>1, <1>4, HistoryFacts
  <2>3. \A i \in 1 .. Len(rec'.history) :
           i \in 1 .. Len(rec.history) \/ i = Len(rec.history) + 1
    BY <2>2
  <2>4. TrialTypes'
    BY <1>4, <2>1 DEF TrialTypes, Phases, After
  <2>5. Asked'
    <3>1. ControllerTrial => probe = "new"
      BY <1>1, <2>1 DEF Asked, Places
    <3>2. ControllerTrial => \A i \in 1 .. Len(rec'.history) : rec'.history[i].dst = "new"
      BY <2>2, <2>3, <3>1 DEF Asked
    <3> QED
      BY <1>4, <2>1, <3>2 DEF Asked, ControllerTrial
  <2>6. ByNewInstance'
    <3>1. SUFFICES ASSUME ControllerTrial, ~world.native
                   PROVE  ByNewInstance'
      BY <1>4, <2>1 DEF ByNewInstance, ControllerTrial
    <3>2. world.life = 1 => world.service = "down"
      BY <1>1, <3>1 DEF ByNewInstance, After
    <3>3. \A r \in world'.rules : r.dst = "new" => r.life = 2
      BY <1>1, <1>4, <3>1, <3>2, EndsFacts DEF ByNewInstance, ByService, WorldSet
    <3>4. probe = "new"
      BY <1>1, <2>1, <3>1 DEF Asked, Places
    <3>5. ok => Carrier(probe) = 2
      <4>1. ok => ByRule(probe) \/ ByService(probe)
        BY <1>4 DEF Ends
      <4> QED
        BY <1>1, <2>1, <3>1, <3>4, <4>1, NewInstanceCarries
    <3>6. \A i \in 1 .. Len(rec'.history) : rec'.history[i].ok => rec'.history[i].by = 2
      BY <2>2, <2>3, <3>1, <3>5 DEF ByNewInstance
    <3> QED
      BY <1>1, <1>4, <2>1, <3>2, <3>3, <3>6 DEF ByNewInstance, After
  <2>7. Disrupted'
    BY <1>1, <1>4 DEF Disrupted
  <2> QED
    BY <2>4, <2>5, <2>6, <2>7
<1>9. ASSUME NEW h \in Seq(Probes), Completes(h)
      PROVE  /\ rec' \in RecordSet /\ rec'.scenario = rec.scenario /\ rec'.new = rec.new
             /\ rec'.history = h /\ rec'.recovered = Judged(h) /\ pc' = "cleanup"
             /\ ~rec'.alive /\ rec'.status = "completed"
  <2>1. PICK failed \in BOOLEAN : rec' =
           [rec EXCEPT !.history = h, !.performed = h # <<>>, !.recovered = Judged(h),
                       !.port = world.at, !.unread = @ \/ failed, !.status = "completed"]
    BY <1>9 DEF Completes
  <2>2. world.at \in {1, 100} /\ (h # <<>>) \in BOOLEAN /\ pc' = "cleanup"
    BY <1>1, <1>9 DEF WorldSet, Completes
  <2>3. Judged(h) \in BOOLEAN
    <3>1. h # <<>> => Last(h) \in Probes
      BY <1>9 DEF Last
    <3> QED
      BY <3>1 DEF Judged, Probes
  <2>4. rec' \in RecordSet
    <3>1. rec.unread \in BOOLEAN
      BY <1>1 DEF RecordSet
    <3>2. "completed" \in Statuses
      BY DEF Statuses
    <3> DEFINE u == rec.unread \/ failed
               f == (h # <<>>)
               j == Judged(h)
    <3>3. /\ u \in BOOLEAN /\ f \in BOOLEAN /\ j \in BOOLEAN
          /\ rec' = [rec EXCEPT !.history = h, !.performed = f, !.recovered = j,
                                !.port = world.at, !.unread = u, !.status = "completed"]
      BY <2>1, <2>2, <2>3, <3>1
    <3> HIDE DEF u, f, j
    <3> QED
      <4>1. [rec EXCEPT !.history = h, !.performed = f, !.recovered = j,
                        !.port = world.at, !.unread = u, !.status = "completed"] \in RecordSet
        <5>1. /\ rec \in RecordSet /\ h \in Seq(Probes) /\ f \in BOOLEAN /\ j \in BOOLEAN
              /\ world.at \in {1, 100} /\ u \in BOOLEAN /\ "completed" \in Statuses
          BY <1>1, <1>9, <2>2, <3>2, <3>3
        <5> QED
          BY <5>1 DEF RecordSet
      <4> QED
        BY <3>3, <4>1, Zenon
  <2>5. /\ rec'.scenario = rec.scenario /\ rec'.new = rec.new /\ rec'.alive = rec.alive
        /\ rec'.history = h /\ rec'.recovered = Judged(h) /\ rec'.status = "completed"
    BY <1>1, <2>1 DEF RecordSet
  <2> QED
    BY <1>1, <1>2, <2>2, <2>4, <2>5
<1>5. CASE Ends(TRUE) /\ Completes(History(TRUE))
  <2>1. History(TRUE) \in Seq(Probes)
    BY <1>5, HistoryFacts
  <2>2. /\ rec' \in RecordSet /\ rec'.scenario = rec.scenario /\ rec'.new = rec.new
        /\ rec'.history = History(TRUE) /\ rec'.recovered = Judged(History(TRUE))
        /\ ~rec'.alive /\ rec'.status = "completed" /\ pc' = "cleanup"
    BY <1>5, <1>9, <2>1
  <2>3. Judgement'
    BY <2>2 DEF Judgement, Before, After, Judged, Last
  <2> QED
    BY <1>4, <1>5, <2>2, <2>3
<1>6. CASE Ends(FALSE) /\ rec' = [rec EXCEPT !.history = History(FALSE)] /\ pc' = pc
  <2>1. History(FALSE) \in Seq(Probes)
    BY <1>6, HistoryFacts
  <2>2. /\ rec' \in RecordSet /\ rec'.scenario = rec.scenario /\ rec'.new = rec.new
        /\ rec'.history = History(FALSE) /\ ~rec'.recovered
        /\ ~rec'.alive /\ rec'.status # "completed"
    BY <1>1, <1>6, <2>1 DEF RecordSet
  <2>3. Judgement'
    BY <1>1, <1>6, <2>2 DEF Judgement, Before, After
  <2> QED
    BY <1>1, <1>4, <1>6, <2>2, <2>3
<1>7. CASE Invalid /\ Raised
  <2>1. world' = world /\ probe' = "none" /\ troubles' \in Nat
    BY <1>7 DEF Invalid, Fails, TrialTypes
  <2> QED
    BY <1>1, <1>7, <2>1, RaisedHolds DEF After
<1>8. CASE /\ probe = "none" /\ Completes(rec.history)
           /\ UNCHANGED <<world, probe, troubles>>
  <2>1. /\ rec' \in RecordSet /\ rec'.scenario = rec.scenario /\ rec'.new = rec.new
        /\ rec'.history = rec.history /\ rec'.recovered = Judged(rec.history)
        /\ ~rec'.alive /\ rec'.status = "completed" /\ pc' = "cleanup"
    BY <1>1, <1>8, <1>9
  <2>2. Judgement'
    BY <2>1 DEF Judgement, Before, After, Judged, Last
  <2>3. TrialTypes' /\ Asked' /\ ByNewInstance' /\ Disrupted'
    BY <1>1, <1>8, <2>1 DEF TrialTypes, Asked, ByNewInstance, Disrupted, ControllerTrial, Phases, After
  <2> QED
    BY <2>2, <2>3
<1> QED
  BY <1>3, <1>5, <1>6, <1>7, <1>8 DEF Recover

\* The end of the trial may spoil the record, never improve it.
LEMMA CleanupHolds ==
    ASSUME TrialInv, Cleanup
    PROVE  TrialInv'
<1> USE DEF TrialInv
<1>1. /\ pc = "cleanup" /\ pc' = "recorded" /\ UNCHANGED <<world, probe>> /\ troubles' \in Nat
      /\ rec' = rec \/ rec' = [rec EXCEPT !.status = "execution_error"]
      /\ rec \in RecordSet
  BY DEF Cleanup, Fails, TrialTypes
<1>2. /\ rec' \in RecordSet /\ rec'.scenario = rec.scenario /\ rec'.history = rec.history
      /\ rec'.new = rec.new /\ rec'.recovered = rec.recovered /\ rec'.alive = rec.alive
      /\ rec'.status \in {rec.status, "execution_error"}
  BY <1>1 DEF RecordSet, Statuses
<1>3. TrialTypes' /\ Asked' /\ ByNewInstance' /\ Disrupted'
  BY <1>1, <1>2 DEF TrialTypes, Asked, ByNewInstance, Disrupted, ControllerTrial, Phases, After
<1>4. Judgement'
  BY <1>1, <1>2 DEF Judgement, Before, After, Judged, Last
<1> QED
  BY <1>3, <1>4

\* Every step keeps the invariant.
LEMMA TrialStepHolds ==
    ASSUME TrialInv, [TrialNext]_trialvars
    PROVE  TrialInv'
<1>1. CASE UNCHANGED trialvars
  BY <1>1 DEF trialvars, TrialInv, TrialTypes, Asked, ByNewInstance, Disrupted, Judgement, Judged,
              ControllerTrial, Last
<1> QED
  BY <1>1, WorldHolds, SetupHolds, BatchHolds, InjectHolds, DuringHolds, RestoreHolds, CheckHolds,
     RecoverHolds, CleanupHolds DEF TrialNext

\* The invariant holds in every state.
LEMMA TrialInvariance == TrialSpec => []TrialInv
<1>1. TrialInit => TrialInv
  BY TrialAssumption, TrialInitHolds
<1>2. TrialInv /\ [TrialNext]_trialvars => TrialInv'
  BY TrialStepHolds
<1> QED
  BY <1>1, <1>2, PTL DEF TrialSpec

-----------------------------------------------------------------------------
(* The shape of the state                                                  *)

\* A connection needs the service and, but for a link, the bridge.
Connected ==
    /\ world.conn => world.service = "up" /\ (world.path \/ rec.scenario = "link_restore")
    /\ ControllerTrial /\ pc \in {"during", "restore"} => world.service = "down"

\* What is checked on the way to a complete record.
Checked ==
    /\ pc \in Before => rec.during = "none"
    /\ pc \in Before \cup After => rec.verified
    /\ pc = "recover" \/ rec.status = "completed" => "invalid" \notin {rec.during, rec.new}
    /\ rec.status = "completed" => rec.verified
    /\ rec.recovered => rec.status \in {"completed", "execution_error"}

Bounded ==
    /\ Len(rec.history) <= MaxProbes
    /\ pc = "recover" /\ probe # "none" => Len(rec.history) < MaxProbes
    /\ troubles <= MaxTroubles

\* What TrialTypeOK says beyond the sets of TrialTypes, made inductive.
Shape == Connected /\ Checked /\ Bounded

\* What the service, the switch and the clock do by themselves keeps the shape.
LEMMA ShapeOfWorld ==
    ASSUME TrialInv, Shape, TrialAssumption,
           ServiceBoots \/ ServiceDies \/ SwitchConnects \/ NativeRepairs \/ WindowEnds
    PROVE  Shape'
<1>1. /\ UNCHANGED <<rec, pc, probe>> /\ world \in WorldSet
      /\ troubles \in Nat /\ troubles' <= troubles /\ troubles' \in Nat
  BY DEF ServiceBoots, ServiceDies, SwitchConnects, NativeRepairs, WindowEnds, Fails, TrialInv, TrialTypes
<1>2. Checked' /\ Bounded'
  BY <1>1 DEF Shape, Checked, Bounded, TrialAssumption
<1>3. Connected'
  <2>4. CASE ServiceDies
    <3>1. world.service = "up" /\ ~world'.conn /\ world'.service = "down"
      BY <1>1, <2>4 DEF ServiceDies, WorldSet
    <3> QED
      BY <3>1 DEF Connected
  <2>1. CASE ServiceBoots
    <3>1. world.service = "booting" /\ ~world.conn
      BY <2>1 DEF ServiceBoots, Shape, Connected
    <3>2. world'.conn = world.conn
      BY <1>1, <2>1 DEF ServiceBoots, WorldSet
    <3> QED
      BY <1>1, <3>1, <3>2 DEF Shape, Connected, ControllerTrial
  <2>2. CASE SwitchConnects
    <3>1. world.service = "up" /\ world.path
      BY <2>2 DEF SwitchConnects
    <3>2. world'.service = world.service /\ world'.path = world.path
      BY <1>1, <2>2 DEF SwitchConnects, WorldSet
    <3> QED
      BY <1>1, <3>1, <3>2 DEF Shape, Connected, ControllerTrial
  <2>3. CASE NativeRepairs \/ WindowEnds
    <3>1. world'.service = world.service /\ world'.path = world.path /\ world'.conn = world.conn
      BY <1>1, <2>3 DEF NativeRepairs, WindowEnds, WorldSet
    <3> QED
      BY <1>1, <3>1 DEF Shape, Connected, ControllerTrial
  <2> QED
    BY <2>1, <2>2, <2>3, <2>4
<1> QED
  BY <1>2, <1>3 DEF Shape

\* A probe that ends leaves the connection, the service and the path alone.
LEMMA EndsKeepsPath ==
    ASSUME TrialTypes, NEW ok \in BOOLEAN, Ends(ok)
    PROVE  /\ world'.conn = world.conn /\ world'.service = world.service
           /\ world'.path = world.path /\ troubles' = troubles /\ probe' = "none"
BY DEF Ends, TrialTypes, WorldSet

\* An exception spends what the command cost and leaves the rest alone.
LEMMA ShapeOfRaised ==
    ASSUME TrialInv, Shape, Raised, TrialAssumption, troubles' \in Nat, troubles' <= troubles,
           \/ world'.conn = world.conn /\ world'.service = world.service /\ world'.path = world.path
           \/ world'.conn => world'.service = "up" /\ (world'.path \/ rec.scenario = "link_restore")
    PROVE  Shape'
<1>1. rec \in RecordSet /\ troubles \in Nat
  BY DEF TrialInv, TrialTypes
<1>2. /\ pc' = "cleanup" /\ rec'.scenario = rec.scenario /\ rec'.history = rec.history
      /\ rec'.status = "execution_error"
  BY <1>1 DEF Raised, RecordSet
<1>3. Connected'
  BY <1>2 DEF Shape, Connected, ControllerTrial
<1>4. Checked'
  BY <1>2 DEF Checked, Before, After
<1>5. Bounded'
  BY <1>1, <1>2 DEF Shape, Bounded, TrialAssumption
<1> QED
  BY <1>3, <1>4, <1>5 DEF Shape

\* The steps up to the fault look at the record's outcome only.
LEMMA ShapeOfBeginning ==
    ASSUME TrialInv, Shape, TrialAssumption, Connected', troubles' \in Nat, troubles' <= troubles,
           pc \in Before, pc' \in Before \cup {"cleanup", "during", "restored"},
           rec'.scenario = rec.scenario, rec'.history = rec.history, rec'.new = rec.new,
           rec'.during = rec.during, rec'.recovered = rec.recovered,
           rec'.verified \/ (pc' = "cleanup" /\ rec'.status # "completed")
    PROVE  Shape'
<1>1. rec.during = "none" /\ rec.new = "none" /\ ~rec.recovered /\ rec.history = <<>>
  BY DEF TrialInv, Judgement, Shape, Checked
<1>2. Checked'
  BY <1>1 DEF Checked, Before, After
<1>3. Bounded'
  <2>1. Len(<<>>) = 0 /\ pc' # "recover" /\ troubles \in Nat
    BY DEF Before, TrialInv, TrialTypes
  <2> QED
    BY <1>1, <2>1 DEF Shape, Bounded, TrialAssumption
<1> QED
  BY <1>2, <1>3 DEF Shape

\* Where the connection, the service and the path stay, and no fault begins.
LEMMA StaysConnected ==
    ASSUME Shape, world'.conn = world.conn, world'.service = world.service,
           world'.path = world.path, rec'.scenario = rec.scenario,
           pc' \notin {"during", "restore"} \/ pc \in {"during", "restore"}
    PROVE  Connected'
BY DEF Shape, Connected, ControllerTrial

\* The wait for the controller, the network, the health pairs and the probes
\* before the fault.
LEMMA ShapeOfSetup ==
    ASSUME TrialInv, Shape, TrialAssumption, Listen \/ Connect \/ Warm \/ Batch \/ Baseline
    PROVE  Shape'
<1>1. /\ pc \in Before /\ rec \in RecordSet /\ world \in WorldSet /\ troubles \in Nat
      /\ rec.verified
  BY DEF Listen, Connect, Warm, Batch, Baseline, Before, TrialInv, TrialTypes, Shape, Checked
<1>2. CASE Listen \/ Connect \/ Warm
  <2>1. world' = world /\ troubles' \in Nat /\ troubles' <= troubles
    <3>1. world' = world /\ (troubles' = troubles \/ Fails)
      BY <1>2, Zenon DEF Listen, Connect, Warm, Trouble
    <3> QED
      BY <1>1, <3>1 DEF Fails
  <2>2. pc' \in {"connect", "warm", "batch", "cleanup"}
    BY <1>2 DEF Listen, Connect, Warm, Trouble, Raised
  <2>3. \/ rec' = rec
        \/ \E st \in Statuses : rec' = [rec EXCEPT !.status = st]
        \/ \E ok, failed \in BOOLEAN : rec' = [rec EXCEPT !.warm = ok, !.unread = failed]
    BY <1>2 DEF Listen, Connect, Warm, Trouble, Raised, Statuses
  <2>4. /\ rec'.scenario = rec.scenario /\ rec'.history = rec.history /\ rec'.new = rec.new
        /\ rec'.during = rec.during /\ rec'.recovered = rec.recovered
        /\ rec'.verified = rec.verified
    BY <1>1, <2>3 DEF RecordSet
  <2>5. Connected'
    BY <2>1, <2>2, <2>4, StaysConnected
  <2> QED
    BY <1>1, <2>1, <2>2, <2>4, <2>5, ShapeOfBeginning DEF Before
<1>3. CASE probe = "none" /\ Sent("old")
  <2>1. UNCHANGED <<world, rec, pc, troubles>>
    BY <1>3 DEF Sent
  <2>2. Connected'
    BY <2>1, StaysConnected
  <2> QED
    BY <1>1, <2>1, <2>2, ShapeOfBeginning
<1>4. CASE (Invalid /\ Raised) \/ Trouble
  <2>1. world' = world /\ troubles' \in Nat /\ troubles' <= troubles /\ Raised
    BY <1>1, <1>4 DEF Invalid, Trouble, Fails
  <2> QED
    BY <2>1, ShapeOfRaised
<1>5. ASSUME NEW ok \in BOOLEAN, Ends(ok), AfterCold(ok) \/ AfterBaseline(ok)
      PROVE  Shape'
  <2>1. /\ world'.conn = world.conn /\ world'.service = world.service
        /\ world'.path = world.path /\ troubles' = troubles
    BY <1>5, EndsKeepsPath DEF TrialInv
  <2>2. /\ rec'.scenario = rec.scenario /\ rec'.history = rec.history /\ rec'.new = rec.new
        /\ rec'.during = rec.during /\ rec'.recovered = rec.recovered
        /\ rec'.verified = rec.verified /\ pc' \in {"cleanup", "baseline", "inject"}
    <3>1. CASE AfterBaseline(ok)
      BY <1>1, <3>1 DEF AfterBaseline, RecordSet
    <3>2. CASE AfterCold(ok)
      <4>1. PICK unread, status :
              rec' = [rec EXCEPT !.cold = ok, !.unread = unread, !.status = status]
        BY <3>2 DEF AfterCold
      <4>2. pc' \in {"cleanup", "baseline"}
        BY <3>2 DEF AfterCold
      <4> QED
        BY <1>1, <4>1, <4>2 DEF RecordSet
    <3> QED
      BY <1>5, <3>1, <3>2
  <2>3. Connected'
    BY <2>1, <2>2, StaysConnected
  <2> QED
    BY <1>1, <2>1, <2>2, <2>3, ShapeOfBeginning DEF Before
<1> QED
  BY <1>2, <1>3, <1>4, <1>5 DEF Batch, Baseline

\* The fault takes the link, the bridge or the service away.
LEMMA ShapeOfInjection ==
    ASSUME TrialInv, Shape, TrialAssumption,
           InjectLink \/ InjectSwitch \/ InjectController \/ InjectMove
    PROVE  Shape'
<1>1. /\ pc = "inject" /\ rec \in RecordSet /\ world \in WorldSet /\ troubles \in Nat
      /\ rec.verified
  BY DEF InjectLink, InjectSwitch, InjectController, InjectMove, Before, TrialInv, TrialTypes,
         Shape, Checked
<1>2. CASE InjectLink
  <2>1. /\ world'.conn = world.conn /\ world'.service = world.service /\ rec' = rec
        /\ rec.scenario = "link_restore" /\ pc' = "during"
        /\ troubles' \in Nat /\ troubles' <= troubles
    BY <1>1, <1>2 DEF InjectLink, Fails, WorldSet
  <2>2. Connected'
    BY <2>1 DEF Shape, Connected, ControllerTrial, ControllerFaults
  <2> QED
    BY <1>1, <2>1, <2>2, ShapeOfBeginning DEF Before
<1>3. CASE InjectSwitch
  <2>1. CASE Trouble
    <3>1. world' = world /\ troubles' \in Nat /\ troubles' <= troubles /\ Raised
      BY <1>1, <2>1 DEF Trouble, Fails
    <3> QED
      BY <3>1, ShapeOfRaised
  <2>2. CASE ~Trouble
    <3>1. /\ ~world'.conn /\ rec' = rec /\ rec.scenario = "switch_restart" /\ pc' = "during"
          /\ troubles' = troubles
      BY <1>1, <1>3, <2>2 DEF InjectSwitch, WorldSet
    <3>2. Connected'
      BY <3>1 DEF Connected, ControllerTrial, ControllerFaults
    <3> QED
      BY <1>1, <3>1, <3>2, ShapeOfBeginning DEF Before
  <2> QED
    BY <2>1, <2>2
<1>4. CASE InjectController
  <2> DEFINE found == world.service # "down"
             stopped == [world EXCEPT !.service = "down", !.conn = FALSE]
  <2>1. ~stopped.conn /\ stopped.service = "down" /\ found \in BOOLEAN
    BY <1>1 DEF WorldSet
  <2>2. CASE /\ world' = stopped
             /\ rec' = [rec EXCEPT !.found = found, !.verified = TRUE, !.alive = FALSE]
             /\ pc' = "during" /\ troubles' = troubles
    <3> HIDE DEF found, stopped
    <3>1. /\ rec'.scenario = rec.scenario /\ rec'.history = rec.history /\ rec'.new = rec.new
          /\ rec'.during = rec.during /\ rec'.recovered = rec.recovered /\ rec'.verified
      BY <1>1, <2>1, <2>2 DEF RecordSet
    <3>2. Connected'
      BY <2>1, <2>2 DEF Connected
    <3> QED
      BY <1>1, <2>2, <3>1, <3>2, ShapeOfBeginning DEF Before
  <2>3. CASE /\ Fails /\ world' \in {world, stopped} /\ pc' = "cleanup"
             /\ \E seen \in BOOLEAN :
                  rec' = [rec EXCEPT !.found = found, !.verified = ~seen, !.alive = seen,
                                     !.status = "execution_error"]
    <3> HIDE DEF found, stopped
    <3>1. /\ rec'.scenario = rec.scenario /\ rec'.history = rec.history /\ rec'.new = rec.new
          /\ rec'.during = rec.during /\ rec'.recovered = rec.recovered
          /\ rec'.status # "completed"
      BY <1>1, <2>1, <2>3 DEF RecordSet
    <3>2. Connected'
      BY <2>1, <2>3, <3>1 DEF Shape, Connected, ControllerTrial
    <3>3. troubles' \in Nat /\ troubles' <= troubles
      BY <1>1, <2>3 DEF Fails
    <3> QED
      BY <1>1, <2>3, <3>1, <3>2, <3>3, ShapeOfBeginning DEF Before
  <2> QED
    BY <1>4, <2>2, <2>3, Zenon DEF InjectController
<1>5. CASE InjectMove
  <2>1. /\ world'.conn = world.conn /\ world'.service = world.service
        /\ world'.path = world.path
    BY <1>1, <1>5 DEF InjectMove, WorldSet
  <2>2. CASE Raised /\ troubles > 0 /\ troubles' = troubles - 1
    BY <1>1, <2>1, <2>2, ShapeOfRaised
  <2>3. CASE pc' = "restored" /\ rec' = rec /\ troubles' = troubles
    <3>1. Connected'
      BY <2>1, <2>3, StaysConnected
    <3> QED
      BY <1>1, <2>3, <3>1, ShapeOfBeginning DEF Before
  <2> QED
    BY <1>5, <2>2, <2>3 DEF InjectMove, Fails
<1> QED
  BY <1>2, <1>3, <1>4, <1>5

\* The probes during the fault, the restoration, and the look at those probes.
LEMMA ShapeOfFault ==
    ASSUME TrialInv, Shape, TrialAssumption, During \/ Restore \/ CheckDuring
    PROVE  Shape'
<1>1. /\ pc \in {"during", "restore", "restored"} /\ rec \in RecordSet /\ world \in WorldSet
      /\ troubles \in Nat /\ rec.verified /\ rec.status # "completed" /\ ~rec.recovered
      /\ Len(rec.history) <= MaxProbes /\ troubles <= MaxTroubles /\ MaxTroubles \in Nat
  BY DEF During, Restore, CheckDuring, After, TrialInv, TrialTypes, Shape, Checked, Bounded,
         Judgement, TrialAssumption
<1>2. ASSUME rec'.scenario = rec.scenario, rec'.history = rec.history, rec'.verified,
             rec'.status # "completed", ~rec'.recovered, Connected', pc' \in After,
             pc' = "recover" => "invalid" \notin {rec'.during, rec'.new} /\ probe' = "none",
             troubles' \in Nat, troubles' <= troubles
      PROVE  Shape'
  <2>1. Checked'
    BY <1>2 DEF Checked, Before, After
  <2>2. Bounded'
    BY <1>1, <1>2 DEF Bounded
  <2> QED
    BY <1>2, <2>1, <2>2 DEF Shape
<1>3. CASE During
  <2>1. /\ world'.conn = world.conn /\ world'.service = world.service
        /\ world'.path = world.path /\ troubles' \in Nat /\ troubles' <= troubles
    <3>1. CASE \E ok \in BOOLEAN : Ends(ok)
      BY <1>1, <3>1, EndsKeepsPath DEF TrialInv
    <3>2. CASE \/ world' = world /\ troubles' = troubles
               \/ world' = world /\ troubles > 0 /\ troubles' = troubles - 1
      BY <1>1, <3>2
    <3>3. \/ \E ok \in BOOLEAN : Ends(ok)
          \/ world' = world /\ troubles' = troubles
          \/ world' = world /\ troubles > 0 /\ troubles' = troubles - 1
      BY <1>3, Zenon DEF During, Sent, Invalid, Fails
    <3> QED
      BY <3>1, <3>2, <3>3, Zenon
  <2>2. /\ pc' \in {"during", "restore"}
        /\ \/ rec' = rec
           \/ \E res \in ProbeResults : rec' = [rec EXCEPT !.during = res]
           \/ \E res \in ProbeResults : rec' = [rec EXCEPT !.new = res, !.asked = probe]
    <3>1. pc = "during"
      BY <1>3 DEF During
    <3>2. \A ok \in BOOLEAN : (IF ok THEN "ok" ELSE "lost") \in ProbeResults
      BY DEF ProbeResults
    <3>3. "invalid" \in ProbeResults
      BY DEF ProbeResults
    <3>4. ASSUME NEW res \in ProbeResults,
                 \/ rec' = [rec EXCEPT !.during = res] /\ pc' = pc
                 \/ rec' = [rec EXCEPT !.new = res, !.asked = probe] /\ pc' = "restore"
          PROVE  /\ pc' \in {"during", "restore"}
                 /\ \/ \E r \in ProbeResults : rec' = [rec EXCEPT !.during = r]
                    \/ \E r \in ProbeResults : rec' = [rec EXCEPT !.new = r, !.asked = probe]
      BY <3>1, <3>4
    <3>5. \/ pc' = pc /\ rec' = rec
          \/ \E res \in ProbeResults :
                \/ rec' = [rec EXCEPT !.during = res] /\ pc' = pc
                \/ rec' = [rec EXCEPT !.new = res, !.asked = probe] /\ pc' = "restore"
      <4>1. CASE rec.scenario \in ControllerFaults /\ rec.during = "none"
        BY <1>3, <3>2, <3>3, <4>1, Zenon DEF During, Sent
      <4>2. CASE ~(rec.scenario \in ControllerFaults /\ rec.during = "none")
        BY <1>3, <3>2, <3>3, <4>2, Zenon DEF During, Sent
      <4> QED
        BY <4>1, <4>2
    <3> QED
      BY <3>1, <3>4, <3>5, Zenon
  <2>3. /\ rec'.scenario = rec.scenario /\ rec'.history = rec.history
        /\ rec'.verified = rec.verified /\ rec'.status = rec.status
        /\ rec'.recovered = rec.recovered
    BY <1>1, <2>2 DEF RecordSet
  <2>4. pc = "during"
    BY <1>3 DEF During
  <2>5. Connected'
    BY <2>1, <2>2, <2>3, <2>4, StaysConnected
  <2> QED
    BY <1>1, <1>2, <2>1, <2>2, <2>3, <2>5 DEF After
<1>4. CASE Restore
  <2> DEFINE restored == IF ControllerTrial THEN [world EXCEPT !.service = "booting", !.life = 2]
                         ELSE [world EXCEPT !.path = TRUE]
  <2>1. /\ pc = "restore" /\ troubles' \in Nat /\ troubles' <= troubles
        /\ world' \in {world, restored}
        /\ (Raised \/ (pc' = "restored" /\ rec' = rec))
    BY <1>1, <1>4 DEF Restore, Fails, ControllerTrial
  <2>2. world'.conn => world'.service = "up" /\ (world'.path \/ rec.scenario = "link_restore")
    <3>1. CASE ControllerTrial
      <4>1. ~world.conn /\ world.service = "down"
        BY <2>1, <3>1 DEF Shape, Connected
      <4>2. ~restored.conn
        BY <1>1, <3>1, <4>1 DEF WorldSet
      <4> QED
        BY <2>1, <4>1, <4>2
    <3>2. CASE ~ControllerTrial
      <4>1. restored.conn = world.conn /\ restored.service = world.service /\ restored.path
        BY <1>1, <3>2 DEF WorldSet
      <4> HIDE DEF restored
      <4> QED
        BY <2>1, <4>1 DEF Shape, Connected
    <3> QED
      BY <3>1, <3>2
  <2> HIDE DEF restored
  <2>3. CASE Raised
    BY <1>1, <2>1, <2>2, <2>3, ShapeOfRaised
  <2>4. CASE pc' = "restored" /\ rec' = rec
    <3>1. Connected'
      BY <2>2, <2>4 DEF Connected
    <3> QED
      BY <1>1, <1>2, <2>1, <2>4, <3>1 DEF After
  <2> QED
    BY <2>1, <2>3, <2>4
<1>5. CASE CheckDuring
  <2>1. UNCHANGED <<world, probe, troubles>> /\ pc = "restored" /\ probe = "none"
    BY <1>5 DEF CheckDuring, TrialInv, Asked
  <2>2. CASE Raised
    BY <1>1, <2>1, <2>2, ShapeOfRaised
  <2>3. CASE pc' = "recover" /\ rec' = rec /\ "invalid" \notin {rec.during, rec.new}
    <3>1. Connected'
      BY <2>1, <2>3, StaysConnected
    <3> QED
      BY <1>1, <1>2, <2>1, <2>3, <3>1 DEF After
  <2> QED
    BY <1>5, <2>2, <2>3 DEF CheckDuring
<1> QED
  BY <1>3, <1>4, <1>5

\* The recovery window and the end of the trial.
LEMMA ShapeOfEnd ==
    ASSUME TrialInv, Shape, TrialAssumption, Recover \/ Cleanup
    PROVE  Shape'
<1>1. /\ pc \in {"recover", "cleanup"} /\ rec \in RecordSet /\ world \in WorldSet
      /\ rec.history \in Seq(Probes) /\ troubles \in Nat /\ troubles <= MaxTroubles
      /\ Len(rec.history) <= MaxProbes /\ MaxTroubles \in Nat /\ MaxProbes \in Nat
      /\ Len(rec.history) \in Nat
  BY LenProperties DEF Recover, Cleanup, TrialInv, TrialTypes, RecordSet, Shape, Bounded,
                       TrialAssumption
<1>2. ASSUME pc = "recover", NEW h \in Seq(Probes), Len(h) <= MaxProbes, troubles' = troubles,
             world'.conn = world.conn, world'.service = world.service, world'.path = world.path,
             \/ Completes(h)
             \/ rec' = [rec EXCEPT !.history = h] /\ pc' = pc /\ probe' = "none"
      PROVE  Shape'
  <2>1. "invalid" \notin {rec.during, rec.new} /\ rec.verified /\ ~rec.recovered
    BY <1>2 DEF Shape, Checked, After, TrialInv, Judgement
  <2>2. /\ rec'.scenario = rec.scenario /\ rec'.history = h /\ rec'.during = rec.during
        /\ rec'.new = rec.new /\ rec'.verified = rec.verified
        /\ rec'.status = "completed" \/ rec'.recovered = rec.recovered
        /\ pc' \in {"recover", "cleanup"}
    BY <1>1, <1>2 DEF Completes, RecordSet
  <2>3. Connected'
    BY <1>2, <2>2, StaysConnected
  <2>4. Checked'
    BY <1>2, <2>1, <2>2 DEF Checked, Before, After
  <2>5. Bounded'
    <3>1. troubles' <= MaxTroubles /\ Len(rec'.history) <= MaxProbes
      BY <1>1, <1>2, <2>2
    <3>2. ~(pc' = "recover" /\ probe' # "none")
      BY <1>2 DEF Completes
    <3> QED
      BY <3>1, <3>2 DEF Bounded
  <2> QED
    BY <2>3, <2>4, <2>5 DEF Shape
<1>3. ASSUME pc = "recover", NEW ok \in BOOLEAN, Ends(ok)
      PROVE  /\ History(ok) \in Seq(Probes) /\ Len(History(ok)) <= MaxProbes
             /\ troubles' = troubles /\ probe' = "none" /\ world'.conn = world.conn
             /\ world'.service = world.service /\ world'.path = world.path
  <2>1. Len(rec.history) < MaxProbes
    BY <1>3 DEF Shape, Bounded, Ends
  <2>2. History(ok) \in Seq(Probes) /\ Len(History(ok)) = Len(rec.history) + 1
    BY <1>3, HistoryFacts
  <2> QED
    BY <1>1, <1>3, <2>1, <2>2, EndsKeepsPath DEF TrialInv
<1>4. CASE Recover
  <2>1. pc = "recover"
    BY <1>4 DEF Recover
  <2>2. CASE probe = "none" /\ Len(rec.history) < MaxProbes /\ Sent(RecoveryDestination)
    <3>1. UNCHANGED <<world, rec, pc, troubles>>
      BY <2>2 DEF Sent
    <3> QED
      BY <1>1, <2>2, <3>1 DEF Shape, Connected, Checked, Bounded, ControllerTrial
  <2>3. CASE Ends(TRUE) /\ Completes(History(TRUE))
    BY <1>2, <1>3, <2>1, <2>3
  <2>4. CASE Ends(FALSE) /\ rec' = [rec EXCEPT !.history = History(FALSE)] /\ pc' = pc
    BY <1>2, <1>3, <2>1, <2>4
  <2>5. CASE Invalid /\ Raised
    <3>1. world' = world /\ troubles' \in Nat /\ troubles' <= troubles
      BY <1>1, <2>5 DEF Invalid, Fails
    <3> QED
      BY <2>5, <3>1, ShapeOfRaised
  <2>6. CASE Completes(rec.history) /\ UNCHANGED <<world, probe, troubles>>
    BY <1>1, <1>2, <2>1, <2>6
  <2> QED
    BY <1>4, <2>2, <2>3, <2>4, <2>5, <2>6 DEF Recover
<1>5. CASE Cleanup
  <2>1. /\ pc = "cleanup" /\ pc' = "recorded" /\ UNCHANGED <<world, probe>>
        /\ troubles' \in Nat /\ troubles' <= troubles
        /\ rec' = rec \/ rec' = [rec EXCEPT !.status = "execution_error"]
    BY <1>1, <1>5 DEF Cleanup, Fails
  <2>2. /\ rec'.scenario = rec.scenario /\ rec'.history = rec.history /\ rec'.new = rec.new
        /\ rec'.during = rec.during /\ rec'.recovered = rec.recovered
        /\ rec'.verified = rec.verified /\ rec'.status \in {rec.status, "execution_error"}
    BY <1>1, <2>1 DEF RecordSet
  <2>3. Connected'
    BY <2>1, <2>2, StaysConnected
  <2>4. Checked'
    BY <2>1, <2>2 DEF Shape, Checked, Before, After
  <2>5. Bounded'
    BY <1>1, <2>1, <2>2 DEF Bounded
  <2> QED
    BY <2>3, <2>4, <2>5 DEF Shape
<1> QED
  BY <1>4, <1>5

\* Every step keeps the shape.
LEMMA ShapeStepHolds ==
    ASSUME TrialInv, Shape, TrialAssumption, [TrialNext]_trialvars
    PROVE  Shape'
<1>1. CASE UNCHANGED trialvars
  BY <1>1 DEF trialvars, Shape, Connected, Checked, Bounded, ControllerTrial
<1> QED
  BY <1>1, ShapeOfWorld, ShapeOfSetup, ShapeOfInjection, ShapeOfFault, ShapeOfEnd DEF TrialNext

\* A trial begins without a connection and with an empty record.
LEMMA ShapeInitHolds ==
    ASSUME TrialInit, TrialAssumption
    PROVE  Shape
<1>1. PICK s \in {"up", "booting", "down"}, n \in Natives : world = World(s, n)
  BY DEF TrialInit
<1>2. PICK sc \in Faults \cup {"scale"} : rec = NoRecord(sc)
  BY DEF TrialInit
<1>3. Len(<<>>) = 0
  OBVIOUS
<1>4. /\ ~world.conn /\ rec.history = <<>> /\ rec.during = "none" /\ rec.verified
      /\ rec.status = "started" /\ ~rec.recovered
  BY <1>1, <1>2 DEF World, NoRecord
<1> QED
  BY <1>3, <1>4 DEF TrialInit, Shape, Connected, Checked, Bounded, TrialAssumption

\* Where the destination is and which one was asked, until the record says so.
Placed ==
    /\ rec.scenario = "host_move" =>
         /\ pc \in After => world.at = 100
         /\ rec.status = "completed" => rec.port = 100
    /\ ControllerTrial =>
         /\ pc = "during" /\ rec.during # "none" => probe # "old"
         /\ pc \in {"restore", "restored", "recover"} \/ rec.status = "completed"
            => rec.asked = "new"

\* A phase before the fault that does not end in a complete record with a fault.
LEMMA PlacedBefore ==
    ASSUME TrialInv, Shape, pc \in Before, pc' \in Before \cup {"cleanup"},
           rec'.scenario = rec.scenario, rec'.status # "completed" \/ rec.scenario = "scale"
    PROVE  Placed'
BY DEF Placed, Before, After, ControllerTrial, Faults, ControllerFaults

\* Before the fault, and what the world does by itself.
LEMMA PlacedAtFirst ==
    ASSUME TrialInv, Shape, Placed,
           \/ ServiceBoots \/ ServiceDies \/ SwitchConnects \/ NativeRepairs \/ WindowEnds
           \/ Listen \/ Connect \/ Warm \/ Batch \/ Baseline
    PROVE  Placed'
<1>1. rec \in RecordSet /\ world \in WorldSet
  BY DEF TrialInv, TrialTypes
<1>2. CASE ServiceBoots \/ ServiceDies \/ SwitchConnects \/ NativeRepairs \/ WindowEnds
  <2>1. UNCHANGED <<rec, pc, probe>> /\ world'.at = world.at
    BY <1>1, <1>2 DEF ServiceBoots, ServiceDies, SwitchConnects, NativeRepairs, WindowEnds, WorldSet
  <2> QED
    BY <2>1 DEF Placed, ControllerTrial
<1>3. CASE Listen \/ Connect \/ Warm
  <2>1. pc \in Before /\ pc' \in Before \cup {"cleanup"} /\ rec.status # "completed"
    BY <1>3 DEF Listen, Connect, Warm, Trouble, Raised, Before, TrialInv, Judgement
  <2>2. rec'.scenario = rec.scenario /\ rec'.status # "completed"
    BY <1>1, <1>3, <2>1 DEF Listen, Connect, Warm, Trouble, Raised, RecordSet
  <2> QED
    BY <2>1, <2>2, PlacedBefore
<1>4. CASE Batch \/ Baseline
  <2>1. pc \in Before /\ rec.status # "completed"
    BY <1>4 DEF Batch, Baseline, Before, TrialInv, Judgement
  <2>2. CASE \E ok \in BOOLEAN : AfterCold(ok)
    <3>1. PICK ok \in BOOLEAN : AfterCold(ok)
      BY <2>2
    <3>2. /\ pc' \in Before \cup {"cleanup"} /\ rec'.scenario = rec.scenario
          /\ rec'.status # "completed" \/ rec.scenario = "scale"
      BY <1>1, <2>1, <3>1 DEF AfterCold, Before, RecordSet
    <3> QED
      BY <2>1, <3>2, PlacedBefore
  <2>3. CASE \/ \E d \in Places : Sent(d)
             \/ Raised
             \/ \E ok \in BOOLEAN : AfterBaseline(ok)
    <3>1. /\ pc' \in Before \cup {"cleanup"} /\ rec'.scenario = rec.scenario
          /\ rec'.status # "completed"
      BY <1>1, <2>1, <2>3 DEF Sent, Raised, AfterBaseline, Before, RecordSet
    <3> QED
      BY <2>1, <3>1, PlacedBefore
  <2> QED
    BY <1>4, <2>2, <2>3, Zenon DEF Batch, Baseline, Trouble, Places
<1> QED
  BY <1>2, <1>3, <1>4

\* The fault.
LEMMA PlacedAtFault ==
    ASSUME TrialInv, Shape, Placed,
           InjectLink \/ InjectSwitch \/ InjectController \/ InjectMove
    PROVE  Placed'
<1>1. /\ pc = "inject" /\ rec \in RecordSet /\ world \in WorldSet /\ rec.status # "completed"
      /\ rec.during = "none" /\ probe = "none"
  BY DEF InjectLink, InjectSwitch, InjectController, InjectMove, Before, TrialInv, TrialTypes,
         Judgement, Asked, Shape, Checked
<1>2. CASE InjectMove
  <2>1. rec'.scenario = "host_move" /\ rec'.status # "completed" /\ world'.at = 100
    BY <1>1, <1>2 DEF InjectMove, Raised, RecordSet, WorldSet
  <2> QED
    BY <2>1 DEF Placed, ControllerTrial, ControllerFaults
<1>3. CASE InjectLink \/ InjectSwitch \/ InjectController
  <2>1. rec'.scenario = rec.scenario /\ rec'.status # "completed" /\ rec.scenario # "host_move"
    BY <1>1, <1>3
       DEF InjectLink, InjectSwitch, InjectController, Trouble, Raised, RecordSet, ControllerFaults
  <2>2. pc' \in {"during", "cleanup"} /\ probe' = "none"
    BY <1>1, <1>3, Zenon
       DEF InjectLink, InjectSwitch, InjectController, Trouble, Raised
  <2> QED
    BY <2>1, <2>2 DEF Placed, ControllerTrial
<1> QED
  BY <1>2, <1>3

\* The probes during the fault ask for the new destination last.
LEMMA PlacedDuring ==
    ASSUME TrialInv, Shape, Placed, During
    PROVE  Placed'
<1> DEFINE first == rec.scenario \in ControllerFaults /\ rec.during = "none"
<1>1. /\ pc = "during" /\ rec \in RecordSet /\ world \in WorldSet /\ rec.status # "completed"
      /\ probe \in Places \cup {"none"}
  BY DEF During, After, TrialInv, TrialTypes, Judgement
<1>2. world'.at = world.at
  <2>1. ASSUME NEW ok \in BOOLEAN, Ends(ok)
        PROVE  world'.at = world.at
    BY <1>1, <2>1 DEF Ends, WorldSet
  <2>2. (\E ok \in BOOLEAN : Ends(ok)) \/ world' = world
    BY Zenon DEF During, Sent, Invalid
  <2> QED
    BY <2>1, <2>2
<1>3. CASE Sent(IF rec.scenario \in ControllerFaults /\ ~first THEN "new" ELSE "old")
  <2>1. UNCHANGED <<rec, pc>> /\ (ControllerTrial /\ rec.during # "none" => probe' = "new")
    BY <1>3 DEF Sent, ControllerTrial
  <2> QED
    BY <1>1, <1>2, <2>1 DEF Placed, ControllerTrial, After
<1>4. ASSUME NEW res \in ProbeResults, res # "none", probe # "none", probe' = "none",
             IF first THEN rec' = [rec EXCEPT !.during = res] /\ pc' = pc
             ELSE rec' = [rec EXCEPT !.new = res, !.asked = probe] /\ pc' = "restore"
      PROVE  Placed'
  <2>1. rec'.scenario = rec.scenario /\ rec'.status = rec.status
    BY <1>1, <1>4 DEF RecordSet
  <2>2. pc' \in After
    BY <1>1, <1>4 DEF After
  <2>3. rec.scenario = "host_move" => world.at = 100
    BY <1>1 DEF Placed, After
  <2>4. CASE first
    BY <1>1, <1>2, <1>4, <2>1, <2>3, <2>4 DEF Placed, ControllerTrial
  <2>5. CASE ~first
    <3>1. rec'.asked = probe /\ pc' = "restore"
      BY <1>1, <1>4, <2>5 DEF RecordSet
    <3>2. ControllerTrial => probe = "new"
      BY <1>1, <1>4, <2>5 DEF Placed, ControllerTrial, Places
    <3> QED
      BY <1>1, <1>2, <2>1, <2>3, <3>1, <3>2 DEF Placed, ControllerTrial
  <2> QED
    BY <2>4, <2>5
<1>5. \A ok \in BOOLEAN : /\ (IF ok THEN "ok" ELSE "lost") \in ProbeResults
                          /\ (IF ok THEN "ok" ELSE "lost") # "none"
  BY DEF ProbeResults
<1>6. "invalid" \in ProbeResults /\ "invalid" # "none"
  BY DEF ProbeResults
<1>7. \/ Sent(IF rec.scenario \in ControllerFaults /\ ~first THEN "new" ELSE "old")
      \/ \E res \in ProbeResults :
           /\ res # "none" /\ probe # "none" /\ probe' = "none"
           /\ IF first THEN rec' = [rec EXCEPT !.during = res] /\ pc' = pc
              ELSE rec' = [rec EXCEPT !.new = res, !.asked = probe] /\ pc' = "restore"
  BY <1>5, <1>6, Zenon DEF During, Ends, Invalid
<1> QED
  BY <1>3, <1>4, <1>7

\* The restoration, the recovery window and the end.
LEMMA PlacedAfter ==
    ASSUME TrialInv, Shape, Placed, Restore \/ CheckDuring \/ Recover \/ Cleanup
    PROVE  Placed'
<1>1. rec \in RecordSet /\ world \in WorldSet /\ rec.history \in Seq(Probes)
  BY DEF TrialInv, TrialTypes, RecordSet
<1>2. CASE Restore \/ CheckDuring
  <2>1. /\ pc \in {"restore", "restored"} /\ world'.at = world.at /\ rec.status # "completed"
    BY <1>1, <1>2, Zenon DEF Restore, CheckDuring, WorldSet, After, TrialInv, Judgement
  <2>2. \/ pc' \in {"restored", "recover"} /\ rec' = rec
        \/ Raised
    BY <1>2, Zenon DEF Restore, CheckDuring
  <2>3. CASE Raised
    <3>1. rec'.status # "completed" /\ rec'.scenario = rec.scenario /\ pc' = "cleanup"
      BY <1>1, <2>3 DEF Raised, RecordSet
    <3> QED
      BY <3>1 DEF Placed, After, ControllerTrial
  <2> QED
    BY <2>1, <2>2, <2>3 DEF Placed, After, ControllerTrial
<1>3. CASE Recover
  <2>1. pc = "recover" /\ rec.status # "completed"
    BY <1>3 DEF Recover, After, TrialInv, Judgement
  <2>2. world'.at = world.at
    <3>1. ASSUME NEW ok \in BOOLEAN, Ends(ok)
          PROVE  world'.at = world.at
      BY <1>1, <3>1 DEF Ends, WorldSet
    <3>2. Ends(TRUE) \/ Ends(FALSE) \/ world' = world
      BY <1>3, Zenon DEF Recover, Sent, Invalid
    <3> QED
      BY <3>1, <3>2
  <2>3. \/ UNCHANGED <<rec, pc>>
        \/ rec' = [rec EXCEPT !.history = History(FALSE)] /\ pc' = pc
        \/ Raised
        \/ \E h : Completes(h)
    BY <1>3, Zenon DEF Recover, Sent
  <2>4. CASE \/ UNCHANGED <<rec, pc>>
             \/ rec' = [rec EXCEPT !.history = History(FALSE)] /\ pc' = pc
    <3>1. /\ rec'.status = rec.status /\ rec'.scenario = rec.scenario
          /\ rec'.asked = rec.asked /\ pc' = pc
      BY <1>1, <2>4 DEF RecordSet
    <3> QED
      BY <2>1, <2>2, <3>1 DEF Placed, ControllerTrial
  <2>5. CASE Raised
    <3>1. rec'.status # "completed" /\ rec'.scenario = rec.scenario /\ pc' = "cleanup"
      BY <1>1, <2>5 DEF Raised, RecordSet
    <3> QED
      BY <3>1 DEF Placed, After, ControllerTrial
  <2>6. ASSUME NEW h, Completes(h)
        PROVE  Placed'
    <3>1. /\ rec'.scenario = rec.scenario /\ rec'.asked = rec.asked
          /\ rec'.port = world.at /\ pc' = "cleanup"
      BY <1>1, <2>6 DEF Completes, RecordSet
    <3> QED
      BY <2>1, <3>1 DEF Placed, After, ControllerTrial
  <2> QED
    BY <2>3, <2>4, <2>5, <2>6
<1>4. CASE Cleanup
  <2>1. /\ pc' = "recorded"
        /\ rec' = rec \/ rec' = [rec EXCEPT !.status = "execution_error"]
    BY <1>4 DEF Cleanup
  <2>2. /\ rec'.scenario = rec.scenario /\ rec'.asked = rec.asked /\ rec'.port = rec.port
        /\ rec'.status = "completed" => rec.status = "completed"
    BY <1>1, <2>1 DEF RecordSet
  <2> QED
    BY <2>1, <2>2 DEF Placed, After, ControllerTrial
<1> QED
  BY <1>2, <1>3, <1>4

\* Every step keeps it.
LEMMA PlacedHolds ==
    ASSUME TrialInv, Shape, Placed, [TrialNext]_trialvars
    PROVE  Placed'
<1>1. CASE UNCHANGED trialvars
  BY <1>1 DEF trialvars, Placed, ControllerTrial
<1> QED
  BY <1>1, PlacedAtFirst, PlacedAtFault, PlacedDuring, PlacedAfter DEF TrialNext

\* A trial begins long before.
LEMMA PlacedInit ==
    ASSUME TrialInit
    PROVE  Placed
<1>1. PICK sc \in Faults \cup {"scale"} : rec = NoRecord(sc)
  BY DEF TrialInit
<1>2. rec.status = "started" /\ pc = "listen"
  BY <1>1 DEF NoRecord, TrialInit
<1> QED
  BY <1>2 DEF Placed, After

\* Both invariants give the type invariant of a trial.
LEMMA InvTrialTypes ==
    ASSUME TrialInv, Shape
    PROVE  TrialTypeOK
<1>1. /\ world \in WorldSet /\ rec \in RecordSet /\ probe \in Places \cup {"none"}
      /\ troubles \in Nat
  BY DEF TrialInv, TrialTypes
<1>2. world.service \in {"up", "booting", "down"} /\ world.rules \subseteq TrialRule
  BY <1>1 DEF WorldSet
<1>3. "invalid" \notin {rec.during, rec.new} \/ rec.status # "completed"
  BY DEF Shape, Checked
<1>4. troubles \in 0 .. MaxTroubles
  BY <1>1, TrialAssumption DEF Shape, Bounded, TrialAssumption
<1> QED
  BY <1>1, <1>2, <1>3, <1>4
     DEF TrialTypeOK, Shape, Connected, Checked, Bounded, TrialInv, Asked, Places, TrialRule

-----------------------------------------------------------------------------
(* What follows                                                            *)

\* A record that says restored ends with a probe of the new instance.
LEMMA InvRestored ==
    ASSUME TrialInv
    PROVE  RestoredByNewService
<1>1. SUFFICES ASSUME Recorded, ControllerTrial, ~world.native,
                      Classification(rec) = "restored"
               PROVE  Last(rec.history).by = 2
  BY DEF RestoredByNewService, ControllerTrial
<1>2. rec.recovered
  BY <1>1 DEF Classification
<1>3. rec.history # <<>> /\ Last(rec.history).ok /\ rec.history \in Seq(Probes)
  BY <1>1, <1>2 DEF TrialInv, Judgement, Judged, TrialTypes, RecordSet
<1>4. Len(rec.history) \in 1 .. Len(rec.history)
  BY <1>3, EmptySeq
<1> QED
  BY <1>1, <1>3, <1>4 DEF TrialInv, ByNewInstance, Last

\* What the audit of the raw probes finds is the machine's doing: each of its
\* other findings contradicts the invariants.
LEMMA InvAudited ==
    ASSUME TrialInv, Shape, Placed
    PROVE  AuditAgrees
<1>1. SUFFICES ASSUME Recorded
               PROVE  Audit(rec) \subseteq MachineFindings(rec)
  BY DEF AuditAgrees
<1>2. /\ rec.status = "completed" /\ rec.scenario \in Faults /\ rec.history \in Seq(Probes)
      /\ rec.old \in {"none", "old"} /\ rec.recovered \in BOOLEAN
  BY <1>1 DEF Recorded, TrialInv, TrialTypes, RecordSet
<1> DEFINE verdict == rec.history # <<>> /\ Last(rec.history).ok /\ ~Last(rec.history).late
           strays == \E i \in DOMAIN rec.history : rec.history[i].dst # rec.asked
           disrupted == rec.scenario \in {"link_restore", "switch_restart"}
<1>3. "invalid" \notin {rec.during, rec.new}
  BY <1>2 DEF Shape, Checked
<1>4. ~rec.alive /\ rec.recovered = verdict
  BY <1>2 DEF TrialInv, Judgement, Judged, Faults, ControllerFaults
<1>5. ControllerTrial => rec.old # rec.asked /\ ~strays
  BY <1>2 DEF Placed, TrialInv, Asked
<1>6. disrupted /\ rec.new = "ok" => rec.scenario = "link_restore"
  BY DEF TrialInv, Disrupted
<1>7. rec.scenario = "host_move" => rec.port = 100
  BY <1>2 DEF Placed
<1> HIDE DEF verdict, strays, disrupted
<1>8. ASSUME NEW f \in Audit(rec)
      PROVE  \/ f = "flow_read_error"
             \/ ControllerTrial /\ f = "controller_not_alive_before_injection"
             \/ rec.scenario = "link_restore" /\ f = "disruption_did_not_break_probe"
  <2>1. \/ "invalid" \in {rec.during, rec.new}
        \/ f = "flow_read_error"
        \/ ControllerTrial /\ f = "controller_not_alive_before_injection"
        \/ ControllerTrial /\ rec.alive
        \/ ControllerTrial /\ rec.old = rec.asked
        \/ ControllerTrial /\ strays
        \/ f = "disruption_did_not_break_probe" /\ disrupted /\ rec.new = "ok"
        \/ rec.scenario = "host_move" /\ rec.port # 100
        \/ rec.recovered # verdict
    BY <1>8, ZenonT(40) DEF Audit, ControllerTrial, verdict, strays, disrupted
  <2> QED
    BY <1>3, <1>4, <1>5, <1>6, <1>7, <2>1
<1> QED
  BY <1>8, Zenon DEF MachineFindings, ControllerTrial

\* The state of a trial has the shape the code gives it: a connection needs
\* the service, a completed record rests on a verified fault and valid probes,
\* and the recovery window makes no more probes than it may.
THEOREM TrialTypeCorrect == TrialSpec => []TrialTypeOK
<1>1. TrialInit => TrialInv /\ Shape
  BY TrialAssumption, TrialInitHolds, ShapeInitHolds
<1>2. TrialInv /\ Shape /\ [TrialNext]_trialvars => (TrialInv /\ Shape)'
  BY TrialAssumption, TrialStepHolds, ShapeStepHolds
<1>3. TrialInv /\ Shape => TrialTypeOK
  BY InvTrialTypes
<1> QED
  BY <1>1, <1>2, <1>3, PTL DEF TrialSpec

\* Service restored after a controller fault is the new instance's work,
\* however long the recovery window and whatever fails in it.
THEOREM NewServiceRestores == TrialSpec => []RestoredByNewService
<1>1. TrialInv => RestoredByNewService
  BY InvRestored
<1> QED
  BY <1>1, TrialInvariance, PTL

\* What the audit finds in a completed record is a dump that failed, a controller
\* that was dead before or a link that stayed up, and nothing the collector did.
THEOREM AuditBlamesTheMachine == TrialSpec => []AuditAgrees
<1>1. TrialInit => TrialInv /\ Shape /\ Placed
  BY TrialAssumption, TrialInitHolds, ShapeInitHolds, PlacedInit
<1>2. TrialInv /\ Shape /\ Placed /\ [TrialNext]_trialvars => (TrialInv /\ Shape /\ Placed)'
  BY TrialAssumption, TrialStepHolds, ShapeStepHolds, PlacedHolds
<1>3. TrialInv /\ Shape /\ Placed => AuditAgrees
  BY InvAudited
<1> QED
  BY <1>1, <1>2, <1>3, PTL DEF TrialSpec

-----------------------------------------------------------------------------
(* A collector and its file *)

GateSet == [phase : {"verify", "official"}, code : Nat, frozen : Nat, verified : Nat,
            prior : Seq(Records)]

CollectionTypes ==
    /\ kind \in {"official", "rewrite", "table", "s56", "monitor"} /\ kind \in Kinds
    /\ at \in {"off", "refused", "loop", "record", "write", "done", "broken"}
    /\ pos \in 0 .. Trials /\ skip \subseteq 1 .. Trials
    /\ rows \in Seq(Records) /\ file \in Seq(Records)
    /\ torn \in {"none", "part", "unended"}
    /\ synced \in 0 .. Len(file) /\ (~Synchronises => synced = 0)
    /\ run \in Nat /\ stops \in Nat
    /\ gate \in GateSet
    /\ at \in {"off", "refused"} => rows = <<>>
    /\ at = "off" => skip = {}

\* The records are the first of the schedule, and of one run.
Ordered(s) == Len(s) <= Trials /\ \A i \in 1 .. Len(s) : s[i].key = i
OfRun(s, r) == \A i \in 1 .. Len(s) : s[i].run = r
OfOneRun(s) == \A i, j \in 1 .. Len(s) : s[i].run = s[j].run

Contents == Ordered(file) /\ (kind # "official" => OfOneRun(file))

\* A collector that appends has skipped the first m, those that were there,
\* and the file is as far as it is.
Appending ==
    Appends /\ at \in {"loop", "record", "write"} =>
        \E m \in 0 .. Trials :
            /\ skip = 1 .. m
            /\ at = "loop" => Len(file) = IF pos < m THEN m ELSE pos
            /\ at # "loop" =>
                 /\ at = "record" /\ pos > m /\ Len(file) = pos - 1
                 /\ rows # <<>>
                 /\ rows[Len(rows)].key = pos /\ rows[Len(rows)].run = run
            /\ kind # "official" => m = 0 /\ OfRun(file, run)

\* A collector that writes its table has it in its memory, whole.
Tabulating ==
    ~Appends /\ at \in {"loop", "record", "write"} =>
        /\ skip = {} /\ Len(rows) = pos /\ Ordered(rows) /\ OfRun(rows, run)
        /\ kind = "rewrite" /\ at = "loop" /\ pos > 0 => file = rows
        /\ at \in {"record", "write"} => pos > 0
        /\ at = "record" => kind = "rewrite"
        /\ at = "write" => file = <<>> /\ (kind = "table" => pos = Trials)

OverIsWhole == at = "done" /\ kind # "monitor" => Len(file) = Trials

Gated ==
    gate.phase = "official" =>
        /\ Len(gate.prior) = Trials
        /\ \A i \in 1 .. Len(gate.prior) : gate.prior[i].key = i /\ gate.prior[i].res = "good"
        /\ gate.frozen = gate.verified

CollectInv == CollectionTypes /\ Contents /\ Appending /\ Tabulating /\ OverIsWhole /\ Gated

-----------------------------------------------------------------------------
(* Sequences of records *)

\* The next record of the schedule at the end of the file keeps its order.
LEMMA AppendInOrder ==
    ASSUME NEW s \in Seq(Records), NEW e \in Records, Ordered(s),
           e.key = Len(s) + 1, e.key <= Trials
    PROVE  /\ Append(s, e) \in Seq(Records) /\ Len(Append(s, e)) = Len(s) + 1
           /\ Ordered(Append(s, e))
           /\ \A r : OfRun(s, r) /\ e.run = r => OfRun(Append(s, e), r)
<1>1. /\ Append(s, e) \in Seq(Records) /\ Len(Append(s, e)) = Len(s) + 1
      /\ \A i \in 1 .. Len(s) : Append(s, e)[i] = s[i]
      /\ Append(s, e)[Len(s) + 1] = e
  BY AppendProperties
<1>2. Len(s) \in Nat /\ \A i \in 1 .. Len(s) + 1 : i \in 1 .. Len(s) \/ i = Len(s) + 1
  BY LenProperties
<1>3. Ordered(Append(s, e))
  BY <1>1, <1>2 DEF Ordered
<1> QED
  BY <1>1, <1>2, <1>3 DEF OfRun

\* What is left when the end of a file is cut off.
LEMMA CutInOrder ==
    ASSUME NEW s \in Seq(Records), NEW n \in 0 .. Len(s), Ordered(s), Trials \in Nat
    PROVE  /\ SubSeq(s, 1, n) \in Seq(Records) /\ Len(SubSeq(s, 1, n)) = n
           /\ Ordered(SubSeq(s, 1, n))
           /\ OfOneRun(s) => OfOneRun(SubSeq(s, 1, n))
<1>1. Len(s) \in Nat /\ n \in Int /\ \A i \in 1 .. n : i \in 1 .. Len(s) /\ s[i] \in Records
  BY LenProperties, ElementOfSeq
<1>2. /\ SubSeq(s, 1, n) \in Seq(Records)
      /\ Len(SubSeq(s, 1, n)) = IF 1 <= n THEN n - 1 + 1 ELSE 0
      /\ \A i \in 1 .. n - 1 + 1 : SubSeq(s, 1, n)[i] = s[1 + i - 1]
  BY <1>1, SubSeqProperties
<1>3. Len(SubSeq(s, 1, n)) = n /\ \A i \in 1 .. n : SubSeq(s, 1, n)[i] = s[i]
  BY <1>1, <1>2
<1> QED
  BY <1>1, <1>2, <1>3 DEF Ordered, OfOneRun

\* What the file is about to hold is in order too.
LEMMA IntendedInOrder ==
    ASSUME CollectInv, CollectAssumption
    PROVE  /\ Intended \in Seq(Records) /\ Ordered(Intended)
           /\ kind # "official" => OfOneRun(Intended)
<1> USE DEF CollectInv
<1>1. Len(file) \in Nat /\ Len(rows) \in Nat /\ Trials \in Nat
  BY LenProperties DEF CollectionTypes, CollectAssumption
<1>2. CASE at = "write"
  <2>1. ~Appends
    BY <1>2, <1>1 DEF Appending
  <2>2. Ordered(rows) /\ OfRun(rows, run)
    BY <1>2, <2>1 DEF Tabulating
  <2> QED
    BY <1>2, <2>2 DEF Intended, CollectionTypes, OfRun, OfOneRun
<1>3. CASE at = "record" /\ Appends
  <2>1. PICK m \in 0 .. Trials :
          /\ pos > m /\ Len(file) = pos - 1 /\ rows # <<>>
          /\ rows[Len(rows)].key = pos /\ rows[Len(rows)].run = run
          /\ kind # "official" => OfRun(file, run)
    BY <1>3 DEF Appending
  <2>2. Len(rows) \in 1 .. Len(rows)
    BY <1>1, <2>1, EmptySeq DEF CollectionTypes
  <2>3. rows[Len(rows)] \in Records
    BY <2>2, ElementOfSeq DEF CollectionTypes
  <2>4. /\ Append(file, rows[Len(rows)]) \in Seq(Records)
        /\ Ordered(Append(file, rows[Len(rows)]))
        /\ kind # "official" => OfRun(Append(file, rows[Len(rows)]), run)
    BY <1>1, <2>1, <2>3, AppendInOrder DEF CollectionTypes, Contents
  <2> QED
    BY <1>3, <2>4 DEF Intended, OfRun, OfOneRun
<1>4. CASE at # "write" /\ ~(at = "record" /\ Appends)
  BY <1>4 DEF Intended, CollectionTypes, Contents
<1> QED
  BY <1>2, <1>3, <1>4

-----------------------------------------------------------------------------
(* The invariant                                                           *)

\* An empty file is the head of any schedule.
LEMMA CollectInitHolds ==
    ASSUME CollectInit, CollectAssumption
    PROVE  CollectInv
<1> USE DEF CollectInit, Kept, NoGate
<1>1. <<>> \in Seq(Records) /\ Len(<<>>) = 0
  BY EmptySeq
<1>2. gate \in GateSet
  BY <1>1 DEF GateSet
<1>3. CollectionTypes
  BY <1>1, <1>2 DEF CollectionTypes, CollectAssumption, Synchronises
<1> QED
  BY <1>1, <1>3 DEF CollectInv, Contents, Ordered, OfOneRun, Appending, Tabulating, OverIsWhole, Gated,
                    CollectAssumption

\* Beginning: the file is the last run's, or a new one.
LEMMA BeginHolds ==
    ASSUME CollectInv, CollectAssumption,
           Resume \/ StartAnew \/ StartMonitor \/ StartVerification \/ StartOfficial
    PROVE  CollectInv'
<1> USE DEF CollectInv, Begin
<1>1. Len(file) \in Nat /\ Trials \in Nat \ {0} /\ <<>> \in Seq(Records) /\ Len(<<>>) = 0
  BY LenProperties, EmptySeq DEF CollectionTypes, CollectAssumption
<1>2. DOMAIN file = 1 .. Len(file)
  BY LenProperties DEF CollectionTypes
<1>3. CASE Resume
  <2>1. skip' = 1 .. Len(file)
    <3>1. \A i \in DOMAIN file : file[i].key = i
      BY <1>2 DEF Contents, Ordered
    <3> QED
      BY <1>3, <1>2, <3>1 DEF Resume
  <2>2. skip' \subseteq 1 .. Trials
    BY <1>1, <2>1 DEF Contents, Ordered
  <2>3. CollectionTypes'
    BY <1>1, <1>3, <2>2 DEF CollectionTypes, Resume, Synchronises
  <2>4. Appending'
    <3>1. Len(file) \in 0 .. Trials
      BY <1>1 DEF Contents, Ordered
    <3> QED
      BY <1>1, <1>3, <2>1, <3>1 DEF Appending, Resume, Appends
  <2> QED
    BY <1>3, <2>3, <2>4 DEF Resume, Contents, Ordered, OfOneRun, Tabulating, OverIsWhole, Gated,
                            Appends, Synchronises
<1>4. CASE StartAnew
  <2>1. CollectionTypes'
    BY <1>1, <1>4 DEF CollectionTypes, StartAnew, Synchronises
  <2>2. Tabulating'
    BY <1>1, <1>4 DEF Tabulating, StartAnew, Ordered, OfRun
  <2> QED
    BY <1>4, <2>1, <2>2 DEF StartAnew, Contents, Ordered, OfOneRun, Appending, OverIsWhole, Gated,
                            Appends, Synchronises
<1>5. ASSUME OwnFile, kind' = kind, Begin, kind \in {"s56", "monitor"}, at' = "loop",
             gate' \in GateSet
      PROVE  CollectionTypes' /\ Contents' /\ Appending' /\ Tabulating' /\ OverIsWhole'
  <2>1. CollectionTypes'
    BY <1>1, <1>5 DEF CollectionTypes, OwnFile, Synchronises
  <2>2. Appending'
    <3>1. 0 \in 0 .. Trials /\ 1 .. 0 = {}
      BY <1>1
    <3> QED
      BY <1>1, <1>5, <3>1 DEF Appending, OwnFile, OfRun
  <2> QED
    BY <1>1, <1>5, <2>1, <2>2 DEF OwnFile, Contents, Ordered, OfOneRun, Tabulating, OverIsWhole,
                                  Appends, Synchronises
<1>6. CASE StartMonitor
  BY <1>5, <1>6 DEF StartMonitor, CollectionTypes, Gated
<1>7. CASE StartVerification
  <2>1. gate' \in GateSet /\ gate'.phase = "verify"
    BY <1>1, <1>7 DEF StartVerification, CollectionTypes, GateSet
  <2> QED
    BY <1>5, <1>7, <2>1 DEF StartVerification, Gated
<1>8. CASE StartOfficial
  <2>1. CASE at' = "refused"
    <3>1. UNCHANGED <<skip, file, torn, synced, gate>>
      BY <1>8, <2>1 DEF StartOfficial
    <3>2. CollectionTypes'
      BY <1>1, <1>8, <2>1, <3>1 DEF CollectionTypes, StartOfficial, Synchronises
    <3> QED
      BY <1>8, <2>1, <3>1, <3>2 DEF StartOfficial, Contents, Ordered, OfOneRun, Appending,
                                    Tabulating, OverIsWhole, Gated, Appends, Synchronises
  <2>2. CASE at' # "refused"
    <3>1. /\ Passed(Verification) /\ gate.verified = gate.code
          /\ OwnFile /\ at' = "loop"
          /\ gate' = [gate EXCEPT !.phase = "official", !.frozen = gate.code,
                                  !.prior = Verification]
      BY <1>8, <2>2 DEF StartOfficial
    <3>2. Verification \in Seq(Records)
      BY DEF Verification, CollectionTypes, GateSet
    <3>3. DOMAIN Verification = 1 .. Len(Verification)
      BY <3>2, LenProperties
    <3>4. /\ Len(Verification) = Trials
          /\ \A i \in 1 .. Len(Verification) :
               Verification[i].res = "good" /\ Verification[i].key = i
      BY <3>1, <3>3 DEF Passed, Verification, Contents, Ordered, Gated, CollectionTypes, GateSet
    <3>5. /\ gate' \in GateSet
          /\ gate'.prior = Verification /\ gate'.frozen = gate'.verified
      BY <3>1, <3>2 DEF CollectionTypes, GateSet
    <3> QED
      BY <1>5, <1>8, <3>1, <3>4, <3>5 DEF StartOfficial, Gated
  <2> QED
    BY <2>1, <2>2
<1> QED
  BY <1>3, <1>4, <1>6, <1>7, <1>8

\* A trial: its record is in memory.
LEMMA RunTrialHolds ==
    ASSUME CollectInv, CollectAssumption, RunTrial
    PROVE  CollectInv'
<1> USE DEF CollectInv, RunTrial
<1>1. /\ Trials \in Nat \ {0} /\ Len(rows) \in Nat /\ Len(file) \in Nat
      /\ pos \in Nat /\ pos + 1 \in 1 .. Trials /\ kind' = kind
  BY LenProperties DEF CollectionTypes, CollectAssumption
<1>2. PICK e \in Records : rows' = Append(rows, e) /\ e.key = pos + 1 /\ e.run = run
  <2>1. PICK res \in Results :
          rows' = Append(rows, [key |-> pos + 1, run |-> run, res |-> res,
                                glued |-> Appends /\ torn # "none"])
    OBVIOUS
  <2>2. res \in {"good", "weak", "bad"}
    BY <2>1 DEF Results
  <2>3. (Appends /\ torn # "none") \in BOOLEAN
    OBVIOUS
  <2> DEFINE b == Appends /\ torn # "none"
  <2> HIDE DEF b
  <2>4. [key |-> pos + 1, run |-> run, res |-> res, glued |-> b] \in Records
    BY <1>1, <2>2, <2>3 DEF Records, CollectionTypes, b
  <2> QED
    BY <2>1, <2>4 DEF b
<1>3. /\ rows' \in Seq(Records) /\ Len(rows') = Len(rows) + 1 /\ rows' # <<>>
      /\ rows'[Len(rows')] = e
  BY <1>1, <1>2, AppendProperties DEF CollectionTypes
<1>4. CollectionTypes'
  BY <1>1, <1>3 DEF CollectionTypes, Synchronises
<1>5. Appending'
  <2>1. CASE Appends
    <3>1. PICK m \in 0 .. Trials :
            /\ skip = 1 .. m /\ Len(file) = IF pos < m THEN m ELSE pos
            /\ kind # "official" => m = 0 /\ OfRun(file, run)
      BY <2>1 DEF Appending
    <3>2. pos + 1 > m /\ Len(file) = pos
      BY <1>1, <3>1
    <3>3. at' = "record"
      BY <2>1 DEF Appends, Synchronises
    <3>4. pos' = pos + 1 /\ run' = run /\ skip' = skip /\ file' = file
      OBVIOUS
    <3>5. kind # "official" => m = 0 /\ OfRun(file, run)'
      BY <3>1, <3>4 DEF OfRun
    <3>6. rows'[Len(rows')].key = pos' /\ rows'[Len(rows')].run = run'
      BY <1>2, <1>3, <3>4
    <3> QED
      <4> HIDE DEF RunTrial, CollectInv
      <4> QED
        BY SMTT(20), <1>1, <1>3, <3>1, <3>2, <3>3, <3>4, <3>5, <3>6 DEF Appending
  <2>2. CASE ~Appends
    BY <2>2 DEF Appending, Appends, Synchronises
  <2> QED
    BY <2>1, <2>2
<1>6. Tabulating'
  <2>1. CASE Appends
    BY <2>1 DEF Tabulating, Appends, Synchronises
  <2>2. CASE ~Appends
    <3>1. Len(rows) = pos /\ Ordered(rows) /\ OfRun(rows, run) /\ skip = {}
      BY <2>2 DEF Tabulating
    <3>2. Ordered(rows') /\ OfRun(rows', run)
      BY <1>1, <1>2, <3>1, AppendInOrder DEF CollectionTypes
    <3>3. at' \in {"loop", "record"} /\ (at' = "loop" <=> kind = "table")
      OBVIOUS
    <3>4. Ordered(rows)' /\ OfRun(rows, run)'
      BY <3>2 DEF Ordered, OfRun
    <3>5. kind \in {"rewrite", "table"}
      BY <2>2 DEF Appends, Synchronises, CollectionTypes
    <3> QED
      BY <1>1, <1>3, <3>1, <3>3, <3>4, <3>5 DEF Tabulating
  <2> QED
    BY <2>1, <2>2
<1> QED
  BY <1>4, <1>5, <1>6 DEF Contents, Ordered, OfOneRun, OverIsWhole, Gated

\* The record is appended to the file.
LEMMA AppendRecordHolds ==
    ASSUME CollectInv, CollectAssumption, AppendRecord
    PROVE  CollectInv'
<1> USE DEF CollectInv, AppendRecord
<1>1. Trials \in Nat \ {0} /\ Len(rows) \in Nat /\ Len(file) \in Nat /\ pos \in 0 .. Trials
  BY LenProperties DEF CollectionTypes, CollectAssumption
<1>2. PICK m \in 0 .. Trials :
        /\ skip = 1 .. m /\ pos > m /\ Len(file) = pos - 1 /\ rows # <<>>
        /\ rows[Len(rows)].key = pos /\ rows[Len(rows)].run = run
        /\ kind # "official" => m = 0 /\ OfRun(file, run)
  BY DEF Appending
<1>3. rows[Len(rows)] \in Records
  BY <1>1, <1>2, EmptySeq, ElementOfSeq DEF CollectionTypes
<1>4. /\ file' \in Seq(Records) /\ Len(file') = pos /\ Ordered(file')
      /\ kind # "official" => OfRun(file', run)
  BY <1>1, <1>2, <1>3, AppendInOrder DEF CollectionTypes, Contents
<1>5. Ordered(file)' /\ (kind # "official" => OfRun(file, run)')
  BY <1>4 DEF Ordered, OfRun
<1>6. CollectionTypes'
  BY <1>1, <1>2, <1>4 DEF CollectionTypes, Synchronises
<1>7. Contents'
  BY <1>5 DEF Contents, OfRun, OfOneRun
<1>8. Appending'
  BY <1>1, <1>2, <1>4, <1>5 DEF Appending
<1>9. at' \in {"loop", "broken"}
  OBVIOUS
<1> QED
  BY <1>6, <1>7, <1>8, <1>9 DEF Tabulating, OverIsWhole, Gated, Appends, Synchronises

\* The steps that write a whole table, pass a trial by, or come to the end.
LEMMA TableHolds ==
    ASSUME CollectInv, CollectAssumption, Skip \/ Truncate \/ WriteRows \/ Finish
    PROVE  CollectInv'
<1> USE DEF CollectInv
<1>1. /\ Trials \in Nat \ {0} /\ Len(rows) \in Nat /\ Len(file) \in Nat /\ pos \in 0 .. Trials
      /\ <<>> \in Seq(Records) /\ Len(<<>>) = 0
  BY LenProperties, EmptySeq DEF CollectionTypes, CollectAssumption
<1>2. CASE Skip
  <2>1. CollectionTypes'
    BY <1>1, <1>2 DEF CollectionTypes, Skip, Synchronises
  <2>2. Appends
    BY <1>2 DEF Skip, Tabulating
  <2>3. PICK m \in 0 .. Trials :
          /\ skip = 1 .. m /\ Len(file) = IF pos < m THEN m ELSE pos
          /\ kind # "official" => m = 0 /\ OfRun(file, run)
    BY <1>2, <2>2 DEF Appending, Skip
  <2>4. pos + 1 \in 1 .. m /\ Len(file) = IF pos + 1 < m THEN m ELSE pos + 1
    BY <1>1, <1>2, <2>3 DEF Skip
  <2>5. Appending'
    BY <1>1, <1>2, <2>3, <2>4 DEF Appending, Skip, OfRun
  <2> QED
    BY <1>2, <2>1, <2>2, <2>5 DEF Skip, Contents, Ordered, OfOneRun, Tabulating, OverIsWhole, Gated,
                                  Appends, Synchronises
<1>3. CASE Truncate
  <2>1. ~Appends /\ kind \in {"rewrite", "table"}
    BY <1>3 DEF Truncate, Appends, Synchronises
  <2>2. CollectionTypes'
    BY <1>1, <1>3, <2>1 DEF CollectionTypes, Truncate, Synchronises, Appends
  <2>3. Contents'
    BY <1>1, <1>3 DEF Truncate, Contents, Ordered, OfOneRun
  <2>4. Tabulating'
    BY <1>1, <1>3, <2>1 DEF Truncate, Tabulating, Ordered, OfRun
  <2> QED
    BY <1>3, <2>1, <2>2, <2>3, <2>4 DEF Truncate, Appending, OverIsWhole, Gated, Appends, Synchronises
<1>4. CASE WriteRows
  <2>1. ~Appends
    BY <1>1, <1>4 DEF WriteRows, Appending
  <2>2. /\ Len(rows) = pos /\ pos > 0 /\ Ordered(rows) /\ OfRun(rows, run) /\ skip = {}
        /\ kind = "table" => pos = Trials
    BY <1>4, <2>1 DEF WriteRows, Tabulating
  <2>3. CollectionTypes'
    BY <1>1, <1>4, <2>1, <2>2 DEF CollectionTypes, WriteRows, Synchronises, Appends
  <2>4. Contents'
    BY <1>4, <2>2 DEF WriteRows, Contents, Ordered, OfRun, OfOneRun
  <2>5. Tabulating'
    BY <1>1, <1>4, <2>2 DEF WriteRows, Tabulating, Ordered, OfRun
  <2>6. OverIsWhole'
    BY <1>4, <2>2 DEF WriteRows, OverIsWhole
  <2> QED
    BY <1>4, <2>1, <2>3, <2>4, <2>5, <2>6 DEF WriteRows, Appending, Gated, Appends, Synchronises
<1>5. CASE Finish
  <2>1. kind # "monitor" => Len(file) = Trials
    <3>1. CASE Appends
      BY <1>1, <1>5, <3>1 DEF Finish, Appending
    <3>2. CASE ~Appends
      BY <1>1, <1>5, <3>2 DEF Finish, Tabulating, CollectionTypes, Appends, Synchronises
    <3> QED
      BY <3>1, <3>2
  <2>2. CollectionTypes'
    BY <1>1, <1>5 DEF CollectionTypes, Finish, Synchronises
  <2> QED
    BY <1>5, <2>1, <2>2 DEF Finish, Contents, Ordered, OfOneRun, Appending, Tabulating, OverIsWhole,
                            Gated
<1> QED
  BY <1>2, <1>3, <1>4, <1>5

\* An edit of the code, or an attempt after a refusal.
LEMMA OperatorHolds ==
    ASSUME CollectInv, CollectAssumption, EditCode \/ TryAgain
    PROVE  CollectInv'
<1> USE DEF CollectInv
<1>1. CASE EditCode
  <2>1. gate' \in GateSet /\ stops' \in Nat
    <3>1. gate \in GateSet /\ stops \in Nat
      BY DEF CollectionTypes
    <3>2. gate' = [gate EXCEPT !.code = gate.code + 1] /\ stops > 0 /\ stops' = stops - 1
      BY <1>1 DEF EditCode
    <3> QED
      BY <3>1, <3>2 DEF GateSet
  <2>2. UNCHANGED <<kind, at, pos, skip, rows, file, torn, synced, run>>
    BY <1>1 DEF EditCode
  <2>3. CollectionTypes'
    BY <2>1, <2>2 DEF CollectionTypes, Synchronises
  <2>4. Gated'
    BY <1>1 DEF EditCode, Gated, CollectionTypes, GateSet
  <2> QED
    BY <2>2, <2>3, <2>4 DEF Contents, Ordered, OfOneRun, Appending, Tabulating,
                            OfRun, OverIsWhole, Appends, Synchronises
<1>2. CASE TryAgain
  <2>1. CollectionTypes'
    BY <1>2 DEF TryAgain, CollectionTypes, Synchronises
  <2> QED
    BY <1>2, <2>1 DEF TryAgain, Contents, Ordered, OfOneRun, Appending, Tabulating, OverIsWhole, Gated
<1> QED
  BY <1>1, <1>2

\* A stop leaves the first of what was written or under way.
LEMMA StopHolds ==
    ASSUME CollectInv, CollectAssumption, Kill \/ PowerLoss
    PROVE  CollectInv'
<1> USE DEF CollectInv
<1>1. Trials \in Nat \ {0} /\ Len(file) \in Nat /\ <<>> \in Seq(Records)
  BY LenProperties, EmptySeq DEF CollectionTypes, CollectAssumption
<1>2. PICK low \in {Len(file), synced} : Cut(low)
  BY DEF Kill, PowerLoss
<1>3. /\ Intended \in Seq(Records) /\ Ordered(Intended)
      /\ kind # "official" => OfOneRun(Intended)
  BY IntendedInOrder
<1>4. PICK n \in low .. Len(Intended) : file' = SubSeq(Intended, 1, n)
  BY <1>2 DEF Cut
<1>5. low \in Nat /\ synced \in Nat /\ synced <= low /\ Len(Intended) \in Nat
  BY <1>1, <1>3, LenProperties DEF CollectionTypes
<1>6. n \in 0 .. Len(Intended) /\ synced <= n
  BY <1>4, <1>5
<1>7. /\ file' \in Seq(Records) /\ Len(file') = n
      /\ Ordered(SubSeq(Intended, 1, n))
      /\ kind # "official" => OfOneRun(SubSeq(Intended, 1, n))
  BY <1>1, <1>3, <1>4, <1>6, CutInOrder
<1>8. CollectionTypes'
  <2>1. torn' \in {"none", "part", "unended"}
    BY <1>2 DEF Cut, CollectionTypes
  <2> QED
    BY <1>1, <1>2, <1>5, <1>6, <1>7, <2>1 DEF Cut, CollectionTypes, Synchronises
<1>9. Contents'
  BY <1>2, <1>4, <1>7 DEF Cut, Contents, Ordered, OfOneRun
<1> QED
  BY <1>2, <1>8, <1>9 DEF Cut, Appending, Tabulating, OverIsWhole, Gated

\* Every step of a collector, an operator or a disturbance keeps the invariant.
LEMMA CollectStepHolds ==
    ASSUME CollectInv, CollectAssumption, [CollectNext]_colvars
    PROVE  CollectInv'
<1>1. CASE CollectNext
  BY <1>1, BeginHolds, RunTrialHolds, AppendRecordHolds, TableHolds, OperatorHolds, StopHolds
     DEF CollectNext
<1>2. CASE UNCHANGED colvars
  BY <1>2 DEF colvars, CollectInv, CollectionTypes, Contents, Ordered, OfRun, OfOneRun, Appending, Tabulating,
              OverIsWhole, Gated, Appends, Synchronises
<1> QED
  BY <1>1, <1>2

-----------------------------------------------------------------------------
(* The theorems                                                            *)

\* A collector's state has the shape the code gives it.
THEOREM CollectTypes == CollectSpec => []CollectTypeOK
<1>1. CollectInit => CollectInv
  BY CollectAssumption, CollectInitHolds
<1>2. CollectInv /\ [CollectNext]_colvars => CollectInv'
  BY CollectAssumption, CollectStepHolds
<1>3. CollectInv => CollectTypeOK
  BY DEF CollectInv, CollectionTypes, CollectTypeOK, GateSet
<1> QED
  BY <1>1, <1>2, <1>3, PTL DEF CollectSpec

\* Order, completeness and the verification are parts of the invariant.
LEMMA InvScheduled ==
    ASSUME CollectInv
    PROVE  CollectedIsScheduled
<1>1. DOMAIN file = 1 .. Len(file) /\ DOMAIN gate.prior = 1 .. Len(gate.prior)
  BY LenProperties DEF CollectInv, CollectionTypes, GateSet
<1> QED
  BY <1>1 DEF CollectInv, Contents, Ordered, OfOneRun, OverIsWhole, Gated, CollectedIsScheduled

\* The file holds the first records of the schedule, each once, of one run
\* where nothing is resumed, all when the collector is over, and corrected
\* measurements only after a verification: for every schedule, every number
\* of stops and of runs.
THEOREM CollectedInOrder == CollectSpec => []CollectedIsScheduled
<1>1. CollectInit => CollectInv
  BY CollectAssumption, CollectInitHolds
<1>2. CollectInv /\ [CollectNext]_colvars => CollectInv'
  BY CollectAssumption, CollectStepHolds
<1>3. CollectInv => CollectedIsScheduled
  BY InvScheduled
<1> QED
  BY <1>1, <1>2, <1>3, PTL DEF CollectSpec

-----------------------------------------------------------------------------
(* What is computed from a file *)

\* Only the restart experiment knows a trial that is valid and not good.
Unweakened(s) == \A i \in 1 .. Len(s) : s[i].res # "weak"
Graded == kind # "official" => Unweakened(file) /\ Unweakened(rows)

\* A row is the trial of its place in the schedule.
LEMMA RowFacts ==
    ASSUME CollectInv, CollectAssumption, AnalysisAssumption
    PROVE  /\ DOMAIN file = 1 .. Len(file) /\ Len(file) \in Nat
           /\ \A i \in DOMAIN file :
                /\ file[i] \in Records /\ file[i].key = i
                /\ i \in 1 .. Trials
                /\ BlockOf(file, i) = Schedule[i].block /\ ArmOf(file, i) = Schedule[i].arm
                /\ Schedule[i].block \in Blocks /\ Schedule[i].arm \in Arms
<1>1. file \in Seq(Records) /\ DOMAIN file = 1 .. Len(file) /\ Len(file) \in Nat
  BY LenProperties DEF CollectInv, CollectionTypes
<1>2. \A i \in DOMAIN file : file[i] \in Records /\ file[i].key = i /\ i \in 1 .. Trials
  BY <1>1, ElementOfSeq, CollectAssumption DEF CollectInv, Contents, Ordered, CollectAssumption
<1> QED
  BY <1>1, <1>2 DEF BlockOf, ArmOf, Blocks, Arms

\* One block has one trial of an arm.
LEMMA OneEntry ==
    ASSUME CollectInv, CollectAssumption, AnalysisAssumption,
           NEW i \in DOMAIN file, NEW j \in DOMAIN file,
           BlockOf(file, i) = BlockOf(file, j), ArmOf(file, i) = ArmOf(file, j)
    PROVE  i = j
<1>1. i \in 1 .. Trials /\ j \in 1 .. Trials
      /\ Schedule[i].block = Schedule[j].block /\ Schedule[i].arm = Schedule[j].arm
  BY RowFacts
<1>2. /\ Schedule[i] \in [block : Nat \ {0}, arm : STRING]
      /\ Schedule[j] \in [block : Nat \ {0}, arm : STRING]
  BY <1>1, ElementOfSeq DEF AnalysisAssumption
<1>3. Schedule[i] = Schedule[j]
  BY <1>1, <1>2
<1> QED
  BY <1>1, <1>3 DEF AnalysisAssumption

\* So it does not matter that a dictionary keeps the last: there is one.
LEMMA LastIsIt ==
    ASSUME CollectInv, CollectAssumption, AnalysisAssumption,
           NEW a, NEW b, NEW S, S \subseteq Entry(file, b, a), S # {}
    PROVE  Max(S) \in S
<1>1. PICK i \in S : TRUE
  OBVIOUS
<1>2. \A j \in S : j \in DOMAIN file /\ ArmOf(file, j) = a /\ BlockOf(file, j) = b
  BY DEF Entry, RowsOf
<1>3. \A j \in S : j = i
  BY <1>1, <1>2, OneEntry
<1>4. i \in Int
  BY <1>2, RowFacts
<1>5. \E x \in S : \A y \in S : x >= y
  BY <1>1, <1>3, <1>4
<1> QED
  BY <1>5, Zenon DEF Max

\* A row of an arm in its block, and what stands for the two in a dictionary.
LEMMA EntryOfRow ==
    ASSUME CollectInv, CollectAssumption, AnalysisAssumption,
           NEW a, NEW i \in RowsOf(file, a)
    PROVE  /\ i \in Entry(file, BlockOf(file, i), a)
           /\ LastEntry(file, BlockOf(file, i), a) = i
<1>1. i \in Entry(file, BlockOf(file, i), a)
  BY DEF Entry, RowsOf
<1>2. LastEntry(file, BlockOf(file, i), a) \in Entry(file, BlockOf(file, i), a)
  BY <1>1, LastIsIt DEF LastEntry
<1>3. \A j \in Entry(file, BlockOf(file, i), a) : j = i
  BY OneEntry DEF Entry, RowsOf
<1> QED
  BY <1>1, <1>2, <1>3

\* Two trials of a block.
Belongs(p, a, b) ==
    /\ p[1] \in RowsOf(file, a) /\ p[2] \in RowsOf(file, b)
    /\ BlockOf(file, p[1]) = BlockOf(file, p[2])

\* A difference is of two trials of a block, and they are valid.
LEMMA PairsBelong ==
    ASSUME CollectInv, CollectAssumption, AnalysisAssumption,
           NEW a, NEW b, NEW p \in Differences(file, a, b)
    PROVE  /\ Belongs(p, a, b)
           /\ kind # "rewrite" => file[p[1]].res # "bad" /\ file[p[2]].res # "bad"
<1>1. CASE kind = "official" /\ Readable
  <2>1. p \in RecoveryPairs(file, a, b)
    BY <1>1 DEF Differences
  <2>2. PICK k \in Blocks : /\ Entry(file, k, a) # {} /\ Entry(file, k, b) # {}
                            /\ p = <<LastEntry(file, k, a), LastEntry(file, k, b)>>
    BY <2>1 DEF RecoveryPairs
  <2>3. RecoveredIn(file, {p[1], p[2]}) = {p[1], p[2]}
    BY <2>1 DEF RecoveryPairs
  <2>4. p[1] \in Entry(file, k, a) /\ p[2] \in Entry(file, k, b)
    BY <2>2, LastIsIt DEF LastEntry
  <2>5. file[p[1]].res = "good" /\ file[p[2]].res = "good"
    BY <2>3 DEF RecoveredIn
  <2> QED
    BY <2>4, <2>5 DEF Entry, Belongs
<1>2. CASE kind = "rewrite" /\ torn # "part" /\ PairedRuns(file)
  <2>1. p \in PairedDifferences(file, a, b)
    BY <1>2 DEF Differences
  <2>2. PICK k \in Blocks : /\ Entry(file, k, a) # {} /\ Entry(file, k, b) # {}
                            /\ p = <<LastEntry(file, k, a), LastEntry(file, k, b)>>
    BY <2>1 DEF PairedDifferences
  <2>3. p[1] \in Entry(file, k, a) /\ p[2] \in Entry(file, k, b)
    BY <2>2, LastIsIt DEF LastEntry
  <2> QED
    BY <1>2, <2>3 DEF Entry, Belongs
<1>3. CASE kind = "s56" /\ Readable /\ S56Accepts(file)
  <2>1. p \in S56Pairs(file, a, b)
    BY <1>3 DEF Differences
  <2>2. PICK k \in S56Groups(file, a) \cap S56Groups(file, b) :
          p = <<S56Row(file, k, a), S56Row(file, k, b)>>
    BY <2>1 DEF S56Pairs
  <2> DEFINE A == ValidIn(file, Entry(file, k, a))
             B == ValidIn(file, Entry(file, k, b))
  <2>3. A # {} /\ B # {}
    BY <2>2 DEF S56Groups, ValidIn, Entry
  <2>4. A \subseteq Entry(file, k, a) /\ B \subseteq Entry(file, k, b)
    BY DEF ValidIn
  <2>5. p[1] \in A /\ p[2] \in B
    <3>1. p[1] = Max(A) /\ p[2] = Max(B)
      BY <2>2 DEF S56Row
    <3> HIDE DEF A, B
    <3> QED
      BY <2>3, <2>4, <3>1, LastIsIt
  <2> QED
    BY <2>5 DEF Entry, ValidIn, Belongs
<1>4. CASE /\ ~(kind = "official" /\ Readable)
           /\ ~(kind = "rewrite" /\ torn # "part" /\ PairedRuns(file))
           /\ ~(kind = "s56" /\ Readable /\ S56Accepts(file))
  BY <1>4 DEF Differences
<1> QED
  BY <1>1, <1>2, <1>3, <1>4

\* Trials that belong together are compared.
LEMMA InvPairs ==
    ASSUME CollectInv, CollectAssumption, AnalysisAssumption
    PROVE  PairsAreFair
<1> SUFFICES ASSUME NEW a \in Arms, NEW b \in Arms, NEW p \in Differences(file, a, b)
             PROVE  /\ ArmOf(file, p[1]) = a /\ ArmOf(file, p[2]) = b
                    /\ BlockOf(file, p[1]) = BlockOf(file, p[2])
                    /\ kind # "rewrite" => "bad" \notin {file[p[1]].res, file[p[2]].res}
                    /\ kind # "official" => file[p[1]].run = file[p[2]].run
                    /\ \A q \in Differences(file, a, b) : p[1] = q[1] <=> p[2] = q[2]
  BY DEF PairsAreFair
<1>1. /\ Belongs(p, a, b)
      /\ kind # "rewrite" => file[p[1]].res # "bad" /\ file[p[2]].res # "bad"
  BY PairsBelong
<1>2. ASSUME NEW q \in Differences(file, a, b) PROVE p[1] = q[1] <=> p[2] = q[2]
  <2>1. Belongs(q, a, b)
    BY PairsBelong
  <2>2. ASSUME p[1] = q[1] PROVE p[2] = q[2]
    BY <1>1, <2>1, <2>2, OneEntry DEF Belongs, RowsOf
  <2>3. ASSUME p[2] = q[2] PROVE p[1] = q[1]
    BY <1>1, <2>1, <2>3, OneEntry DEF Belongs, RowsOf
  <2> QED
    BY <2>2, <2>3
<1>3. p[1] \in 1 .. Len(file) /\ p[2] \in 1 .. Len(file)
  BY <1>1, RowFacts DEF Belongs, RowsOf
<1>4. kind # "official" => file[p[1]].run = file[p[2]].run
  BY <1>3 DEF CollectInv, Contents, OfOneRun
<1> QED
  BY <1>1, <1>2, <1>4 DEF Belongs, RowsOf

\* An accepted file is a whole collection after a verification.
LEMMA InvAccepted ==
    ASSUME CollectInv, Graded, CollectAssumption, AnalysisAssumption
    PROVE  AcceptedIsOfficial
<1> SUFFICES ASSUME kind = "s56", S56Accepts(file)
             PROVE  /\ gate.frozen = gate.verified
                    /\ gate.prior # <<>> /\ \A i \in DOMAIN gate.prior : gate.prior[i].res = "good"
                    /\ \A i \in DOMAIN file : file[i].run = file[1].run
                    /\ \A arm \in Arms : LET s == S56Summary(file)[arm] IN
                         /\ {file[i].key : i \in s.scheduled}
                              = {k \in 1 .. Trials : Schedule[k].arm = arm}
                         /\ s.latency.of = {i \in s.scheduled : file[i].res = "good"}
  BY DEF AcceptedIsOfficial
<1>1. Trials \in Nat \ {0} /\ Len(file) = Trials /\ DOMAIN file = 1 .. Trials
  BY RowFacts DEF S56Accepts, CollectAssumption
<1>2. gate.phase = "official"
  <2>1. file # <<>>
    BY <1>1, EmptySeq
  <2> QED
    BY <2>1 DEF S56Accepts
<1>3. /\ gate.frozen = gate.verified
      /\ gate.prior # <<>> /\ \A i \in DOMAIN gate.prior : gate.prior[i].res = "good"
  <2>1. DOMAIN gate.prior = 1 .. Len(gate.prior)
    BY LenProperties DEF CollectInv, CollectionTypes, GateSet
  <2>2. Len(gate.prior) = Trials /\ gate.frozen = gate.verified
        /\ \A i \in 1 .. Len(gate.prior) : gate.prior[i].res = "good"
    BY <1>2 DEF CollectInv, Gated
  <2>3. gate.prior # <<>>
    BY <1>1, <2>2, EmptySeq
  <2> QED
    BY <2>1, <2>2, <2>3
<1>4. \A i \in DOMAIN file : file[i].run = file[1].run
  BY <1>1 DEF CollectInv, Contents, OfOneRun
<1>5. ASSUME NEW arm \in Arms
      PROVE  /\ {file[i].key : i \in RowsOf(file, arm)} = {k \in 1 .. Trials : Schedule[k].arm = arm}
             /\ ValidIn(file, RowsOf(file, arm)) = {i \in RowsOf(file, arm) : file[i].res = "good"}
  <2>1. RowsOf(file, arm) = {k \in 1 .. Trials : Schedule[k].arm = arm}
    BY <1>1, RowFacts DEF RowsOf
  <2>2. \A i \in RowsOf(file, arm) : file[i].key = i
    BY RowFacts DEF RowsOf
  <2>3. \A i \in RowsOf(file, arm) : file[i].res # "bad" <=> file[i].res = "good"
    <3>1. \A i \in DOMAIN file : file[i].res \in {"good", "weak", "bad"} /\ file[i].res # "weak"
      BY <1>1, RowFacts DEF Graded, Unweakened, Records
    <3> QED
      BY <3>1 DEF RowsOf
  <2> QED
    BY <2>1, <2>2, <2>3 DEF ValidIn
<1>6. ASSUME NEW arm \in Arms
      PROVE  /\ S56Summary(file)[arm].scheduled = RowsOf(file, arm)
             /\ S56Summary(file)[arm].latency.of = ValidIn(file, RowsOf(file, arm))
  BY DEF S56Summary, Statistic
<1> QED
  BY <1>3, <1>4, <1>5, <1>6

\* No rate of recoveries leaves a trial out.
LEMMA InvRates ==
    ASSUME CollectInv, CollectAssumption, AnalysisAssumption, NEW arm \in Arms
    PROVE  LET s == RecoverySummary(file)[arm] IN
             /\ s.time.of \cup s.lost \cup s.invalid = s.n
             /\ s.interval = "all" => s.lost = {}
             /\ s.interval = "nothing" => s.time.is = "none"
<1> DEFINE all == RowsOf(file, arm)
           valid == ValidIn(file, all)
           recovered == RecoveredIn(file, valid)
           x == Cardinality(recovered)
           n == Cardinality(valid)
<1>1. RecoverySummary(file)[arm] =
        [n |-> all, valid |-> valid, invalid |-> all \ valid,
         recovered |-> recovered, lost |-> valid \ recovered,
         time |-> Statistic(recovered, "none"), interval |-> ExactInterval(x, n)]
  BY DEF RecoverySummary
<1>2. recovered \subseteq valid /\ valid \subseteq all
  BY DEF RecoveredIn, ValidIn
<1>3. IsFiniteSet(valid) /\ IsFiniteSet(recovered)
  <2>1. all \subseteq 1 .. Len(file) /\ Len(file) \in Int /\ 1 \in Int
    BY RowFacts DEF RowsOf
  <2>2. IsFiniteSet(1 .. Len(file))
    BY <2>1, FS_Interval
  <2>3. valid \subseteq 1 .. Len(file) /\ recovered \subseteq 1 .. Len(file)
    BY <1>2, <2>1
  <2> HIDE DEF valid, recovered
  <2> QED
    BY <2>2, <2>3, FS_Subset
<1>4. ExactInterval(x, n) = "all" => valid \ recovered = {}
  <2>1. ExactInterval(x, n) = "all" => x = n
    BY DEF ExactInterval
  <2>2. x = n => valid = recovered
    <3> HIDE DEF valid, recovered
    <3> QED
      BY <1>2, <1>3, FS_Subset
  <2> QED
    BY <2>1, <2>2
<1>5. ExactInterval(x, n) = "nothing" => Statistic(recovered, "none").is = "none"
  <2>1. ExactInterval(x, n) = "nothing" => x = 0
    BY DEF ExactInterval
  <2>2. x = 0 => recovered = {}
    <3> HIDE DEF recovered
    <3> QED
      BY <1>3, FS_EmptySet
  <2>3. recovered = {} => Statistic(recovered, "none").is = "none"
    BY DEF Statistic
  <2> QED
    BY <2>1, <2>2, <2>3
<1>6. Statistic(recovered, "none").of = recovered
  BY DEF Statistic
<1> HIDE DEF all, valid, recovered, x, n
<1> QED
  BY <1>1, <1>2, <1>4, <1>5, <1>6

\* The trials of an arm that has two.
LEMMA ArmIsCounted ==
    ASSUME CollectInv, CollectAssumption, AnalysisAssumption, NEW arm,
           Cardinality(RowsOf(file, arm)) > 1
    PROVE  /\ RowsOf(file, arm) # {}
           /\ Cardinality(RowsOf(file, arm)) # 1 /\ ~(Cardinality(RowsOf(file, arm)) < 2)
<1>1. IsFiniteSet(RowsOf(file, arm))
  <2>1. RowsOf(file, arm) \subseteq 1 .. Len(file) /\ Len(file) \in Int /\ 1 \in Int
    BY RowFacts DEF RowsOf
  <2> QED
    BY <2>1, FS_Interval, FS_Subset
<1>2. Cardinality(RowsOf(file, arm)) \in Nat
  BY <1>1, FS_CardinalityType
<1>3. RowsOf(file, arm) # {}
  <2> SUFFICES ASSUME RowsOf(file, arm) = {} PROVE FALSE
    OBVIOUS
  <2>1. Cardinality(RowsOf(file, arm)) = 0
    BY FS_EmptySet
  <2> QED
    BY <2>1
<1> QED
  BY <1>2, <1>3

\* A statistic of the pairs is of all of an arm's trials.
LEMMA PairedIsWhole ==
    ASSUME CollectInv, CollectAssumption, AnalysisAssumption, NEW arm
    PROVE  {LastEntry(file, k, arm) : k \in {b \in Blocks : Entry(file, b, arm) # {}}}
             = RowsOf(file, arm)
<1>1. ASSUME NEW k \in Blocks, Entry(file, k, arm) # {}
      PROVE  LastEntry(file, k, arm) \in RowsOf(file, arm)
  <2>1. LastEntry(file, k, arm) \in Entry(file, k, arm)
    BY <1>1, LastIsIt DEF LastEntry
  <2> QED
    BY <2>1 DEF Entry
<1>2. ASSUME NEW i \in RowsOf(file, arm)
      PROVE  \E k \in Blocks : Entry(file, k, arm) # {} /\ i = LastEntry(file, k, arm)
  <2>1. BlockOf(file, i) \in Blocks
    BY RowFacts DEF RowsOf
  <2> QED
    BY <2>1, EntryOfRow
<1> QED
  BY <1>1, <1>2

\* The figure of a whole table has every arm and every pair of arms.
LEMMA WholeDraws ==
    ASSUME CollectInv, CollectAssumption, AnalysisAssumption, Len(file) = Trials
    PROVE  PairedDraws(file)
<1>1. DOMAIN file = 1 .. Trials
  BY RowFacts
<1>2. ASSUME NEW b \in Blocks, NEW a \in Arms
      PROVE  Entry(file, b, a) # {}
  <2>1. PICK k \in 1 .. Trials : Schedule[k].block = b /\ Schedule[k].arm = a
    BY DEF AnalysisAssumption
  <2>2. k \in Entry(file, b, a)
    BY <1>1, <2>1, RowFacts DEF Entry, RowsOf
  <2> QED
    BY <2>2
<1>3. PICK b \in Blocks : TRUE
  BY CollectAssumption DEF CollectAssumption, Blocks
<1>4. \A a \in Arms : RowsOf(file, a) # {}
  BY <1>2, <1>3 DEF Entry
<1>5. DOMAIN PairedSummary(file) = Arms
  BY <1>4 DEF PairedSummary
<1>6. \A a, c \in Arms : <<LastEntry(file, b, a), LastEntry(file, b, c)>> \in PairedDifferences(file, a, c)
  BY <1>2, <1>3 DEF PairedDifferences
<1> QED
  BY <1>5, <1>6 DEF PairedDraws

\* A table that is whole makes a number of all trials of an arm.
LEMMA StatisticsAreWhole ==
    ASSUME CollectInv, CollectAssumption, AnalysisAssumption, NEW arm \in Arms,
           kind \in {"table", "rewrite"}, Cardinality(RowsOf(file, arm)) > 1,
           NEW s \in TableStatistics(file, arm)
    PROVE  s.is = "number" /\ s.of = RowsOf(file, arm)
<1> DEFINE S == RowsOf(file, arm)
<1>1. S # {} /\ Cardinality(S) # 1 /\ ~(Cardinality(S) < 2)
  BY ArmIsCounted
<1>2. \A e : Statistic(S, e).is = "number" /\ Statistic(S, e).of = S
  BY <1>1 DEF Statistic
<1>3. CASE kind = "table"
  <2>1. /\ FullCompareSummary(file)[arm] = Statistic(S, "raises")
        /\ RerunMeans(file)[arm] = Statistic(S, "none")
        /\ X86Summary(file)[arm] = Statistic(S, "nan")
        /\ LoadProfileSummary(file)[arm] = Statistic(S, "raises")
        /\ SummarizeCompare(file)[arm] = Statistic(S, "raises")
    BY DEF FullCompareSummary, RerunMeans, X86Summary, LoadProfileSummary, SummarizeCompare
  <2>2. BreakdownSummary(file)[arm].stages = Statistic(S, "none")
    BY DEF BreakdownSummary
  <2>3. Paper1Summary(file)[arm].is = "number" /\ Paper1Summary(file)[arm].of = S
    BY <1>1, <1>2 DEF Paper1Summary, Statistic
  <2>4. SummarizeStage2(file)[arm] = Statistic(S, "raises")
    <3>1. arm \in {ArmOf(file, i) : i \in DOMAIN file}
      BY <1>1 DEF RowsOf
    <3> QED
      BY <3>1 DEF SummarizeStage2
  <2>5. s \in {FullCompareSummary(file)[arm], RerunMeans(file)[arm], X86Summary(file)[arm],
               Paper1Summary(file)[arm], LoadProfileSummary(file)[arm],
               BreakdownSummary(file)[arm].stages, SummarizeStage2(file)[arm],
               SummarizeCompare(file)[arm]}
    BY <1>3 DEF TableStatistics
  <2> QED
    BY <1>2, <2>1, <2>2, <2>3, <2>4, <2>5
<1>4. CASE kind = "rewrite"
  <2>1. PairedSummary(file)[arm] = Statistic(S, "none")
    BY <1>1, PairedIsWhole DEF PairedSummary
  <2>2. HostLoadSummary(file)[arm] = [is |-> "number", of |-> S]
    BY <1>1 DEF HostLoadSummary, AnalysisAssumption
  <2>3. s \in {PairedSummary(file)[arm], HostLoadSummary(file)[arm]}
    BY <1>4 DEF TableStatistics
  <2> QED
    BY <1>2, <2>1, <2>2, <2>3
<1> QED
  BY <1>3, <1>4

\* Rates and tables.
LEMMA InvWhole ==
    ASSUME CollectInv, CollectAssumption, AnalysisAssumption
    PROVE  RatesHaveTheirTrials
<1>1. ASSUME at = "done", kind \in {"table", "rewrite"}, NEW arm \in Arms,
             Cardinality(RowsOf(file, arm)) > 1
      PROVE  /\ \A s \in TableStatistics(file, arm) : s.is = "number" /\ s.of = RowsOf(file, arm)
             /\ kind = "table" => X86Ratio(file, arm, arm).is = "number"
             /\ kind = "rewrite" => PairedDraws(file)
  <2>1. \A s \in TableStatistics(file, arm) : s.is = "number" /\ s.of = RowsOf(file, arm)
    BY <1>1, StatisticsAreWhole
  <2>2. ASSUME kind = "table" PROVE X86Ratio(file, arm, arm).is = "number"
    <3>1. X86Summary(file)[arm] \in TableStatistics(file, arm)
      BY <2>2 DEF TableStatistics
    <3>2. X86Summary(file)[arm].is = "number"
      BY <2>1, <3>1
    <3> QED
      BY <3>2 DEF X86Ratio
  <2>3. Len(file) = Trials
    BY <1>1 DEF CollectInv, OverIsWhole
  <2> QED
    BY <2>1, <2>2, <2>3, WholeDraws
<1>2. \A arm \in Arms : LET s == RecoverySummary(file)[arm] IN
        /\ s.time.of \cup s.lost \cup s.invalid = s.n
        /\ s.interval = "all" => s.lost = {}
        /\ s.interval = "nothing" => s.time.is = "none"
  BY InvRates
<1> QED
  BY <1>1, <1>2 DEF RatesHaveTheirTrials

\* One more record that is not weak.
LEMMA AppendUnweakened ==
    ASSUME NEW s \in Seq(Records), NEW e, Unweakened(s), e.res # "weak"
    PROVE  Unweakened(Append(s, e))
<1>1. /\ Len(Append(s, e)) = Len(s) + 1 /\ Append(s, e)[Len(s) + 1] = e
      /\ \A i \in 1 .. Len(s) : Append(s, e)[i] = s[i]
  BY AppendProperties
<1>2. Len(s) \in Nat /\ \A i \in 1 .. Len(s) + 1 : i \in 1 .. Len(s) \/ i = Len(s) + 1
  BY LenProperties
<1> QED
  BY <1>1, <1>2 DEF Unweakened

\* The head of a sequence.
LEMMA HeadOfSeq ==
    ASSUME NEW s \in Seq(Records), NEW n \in 0 .. Len(s)
    PROVE  Len(SubSeq(s, 1, n)) = n /\ \A i \in 1 .. n : SubSeq(s, 1, n)[i] = s[i]
<1>1. Len(s) \in Nat /\ n \in Int /\ \A i \in 1 .. n : i \in 1 .. Len(s) /\ s[i] \in Records
  BY LenProperties, ElementOfSeq
<1>2. /\ Len(SubSeq(s, 1, n)) = IF 1 <= n THEN n - 1 + 1 ELSE 0
      /\ \A i \in 1 .. n - 1 + 1 : SubSeq(s, 1, n)[i] = s[1 + i - 1]
  BY <1>1, SubSeqProperties
<1> QED
  BY <1>1, <1>2

\* There are no records yet.
LEMMA GradedInit ==
    ASSUME CollectInit
    PROVE  Graded
<1>1. Len(<<>>) = 0 /\ file = <<>> /\ rows = <<>>
  BY EmptySeq DEF CollectInit, Kept
<1>2. Unweakened(<<>>)
  BY <1>1 DEF Unweakened
<1> QED
  BY <1>1, <1>2 DEF Graded

\* Nothing weak comes into a file of the others.
LEMMA GradedHolds ==
    ASSUME CollectInv, Graded, CollectAssumption, [CollectNext]_colvars
    PROVE  Graded'
<1> USE DEF CollectInv
<1>1. /\ file \in Seq(Records) /\ rows \in Seq(Records)
      /\ Len(file) \in Nat /\ Len(rows) \in Nat /\ Len(<<>>) = 0
  BY LenProperties, EmptySeq DEF CollectionTypes
<1>2. Unweakened(<<>>)
  BY <1>1 DEF Unweakened
<1> SUFFICES ASSUME kind' # "official", CollectNext PROVE Unweakened(file') /\ Unweakened(rows')
  BY DEF Graded, colvars, Unweakened
<1>3. kind' = kind
  BY DEF CollectNext, Resume, StartAnew, StartMonitor, StartVerification, StartOfficial, TryAgain,
         Skip, RunTrial, AppendRecord, Truncate, WriteRows, Finish, Kill, PowerLoss, EditCode, Begin, Cut
<1>4. Unweakened(file) /\ Unweakened(rows)
  BY <1>3 DEF Graded
<1>5. CASE Resume
  BY <1>3, <1>5 DEF Resume
<1>6. CASE StartAnew \/ StartMonitor \/ StartVerification \/ StartOfficial
  <2>1. rows' = <<>> /\ file' \in {file, <<>>}
    BY <1>6 DEF StartAnew, StartMonitor, StartVerification, StartOfficial, Begin, OwnFile
  <2> QED
    BY <1>2, <1>4, <2>1
<1>7. CASE TryAgain \/ Skip \/ Finish \/ EditCode
  BY <1>4, <1>7 DEF TryAgain, Skip, Finish, EditCode
<1>8. CASE RunTrial
  <2>1. PICK res \in Results :
          rows' = Append(rows, [key |-> pos + 1, run |-> run, res |-> res,
                                glued |-> Appends /\ torn # "none"])
    BY <1>8 DEF RunTrial
  <2>2. res # "weak"
    BY <1>3 DEF Results
  <2> QED
    BY <1>1, <1>4, <1>8, <2>1, <2>2, AppendUnweakened DEF RunTrial
<1>9. CASE AppendRecord
  <2>1. rows # <<>>
    BY <1>9 DEF AppendRecord, Appending
  <2>2. Len(rows) \in 1 .. Len(rows)
    BY <1>1, <2>1, EmptySeq
  <2>3. rows[Len(rows)].res # "weak"
    BY <1>4, <2>2 DEF Unweakened
  <2> QED
    BY <1>1, <1>4, <1>9, <2>3, AppendUnweakened DEF AppendRecord
<1>10. CASE Truncate \/ WriteRows
  BY <1>2, <1>4, <1>10 DEF Truncate, WriteRows
<1>11. CASE Kill \/ PowerLoss
  <2>1. PICK low \in {Len(file), synced} : Cut(low)
    BY <1>11 DEF Kill, PowerLoss
  <2>2. PICK n \in low .. Len(Intended) : file' = SubSeq(Intended, 1, n) /\ rows' = <<>>
    BY <2>1 DEF Cut
  <2>3. Unweakened(Intended) /\ Intended \in Seq(Records) /\ Len(Intended) \in Nat
    <3>1. CASE at = "record" /\ Appends /\ at # "write"
      <4>1. rows # <<>>
        BY <3>1 DEF Appending
      <4>2. Len(rows) \in 1 .. Len(rows)
        BY <1>1, <4>1, EmptySeq
      <4>3. rows[Len(rows)].res # "weak" /\ rows[Len(rows)] \in Records
        BY <1>1, <1>4, <4>2, ElementOfSeq DEF Unweakened
      <4>4. Unweakened(Append(file, rows[Len(rows)]))
        BY <1>1, <1>4, <4>3, AppendUnweakened
      <4> QED
        BY <1>1, <3>1, <4>3, <4>4, IntendedInOrder, LenProperties DEF Intended
    <3>2. CASE at = "write" \/ ~(at = "record" /\ Appends)
      BY <1>1, <1>4, <3>2 DEF Intended
    <3> QED
      BY <3>1, <3>2
  <2>4. low \in Nat /\ n \in 0 .. Len(Intended)
    BY <1>1, <2>2, <2>3 DEF CollectionTypes
  <2>5. Len(SubSeq(Intended, 1, n)) = n /\ \A i \in 1 .. n : SubSeq(Intended, 1, n)[i] = Intended[i]
    BY <2>3, <2>4, HeadOfSeq
  <2>6. Unweakened(SubSeq(Intended, 1, n))
    BY <2>3, <2>4, <2>5 DEF Unweakened
  <2> QED
    BY <1>2, <2>2, <2>6
<1> QED
  BY <1>5, <1>6, <1>7, <1>8, <1>9, <1>10, <1>11 DEF CollectNext

\* Whatever was interrupted and whenever an analysis is run, for any schedule
\* made of shuffled blocks and any number of stops: differences are of two
\* trials of a block, rates of all that count, and what the corrected
\* measurement's analysis accepts is a whole collection of verified code.
THEOREM ConclusionsAreSound == CollectSpec => []ConclusionsRestOnRecords
<1>1. CollectInit => CollectInv /\ Graded
  BY GradedInit, CollectAssumption, CollectInitHolds
<1>2. CollectInv /\ Graded /\ [CollectNext]_colvars => (CollectInv /\ Graded)'
  BY CollectAssumption, CollectStepHolds, GradedHolds
<1>3. CollectInv /\ Graded => ConclusionsRestOnRecords
  BY CollectAssumption, AnalysisAssumption, InvPairs, InvAccepted, InvWhole DEF ConclusionsRestOnRecords
<1> QED
  BY <1>1, <1>2, <1>3, PTL DEF CollectSpec

-----------------------------------------------------------------------------
(* Order statistics *)

\* The smaller of two numbers.
LEMMA MinOfTwo ==
    ASSUME NEW a \in Int, NEW b \in Int
    PROVE  Min({a, b}) \in {a, b} /\ Min({a, b}) <= a /\ Min({a, b}) <= b
<1>1. \E x \in {a, b} : \A y \in {a, b} : x <= y
  <2>1. CASE a <= b
    BY <2>1
  <2>2. CASE b <= a
    BY <2>2
  <2> QED
    BY <2>1, <2>2
<1>2. Min({a, b}) \in {a, b} /\ \A y \in {a, b} : Min({a, b}) <= y
  BY <1>1, Zenon DEF Min
<1> QED
  BY <1>2

\* The two summaries' own percentile is the textbook's: at the k-th of equal
\* distances it is the k-th value, and between two of them on a straight line;
\* for values of any number, ordered or not, and every per cent.
THEOREM PercentilesInterpolate ==
    ASSUME NEW v \in Seq(Int), NEW p \in 0 .. 100, NEW k \in 1 .. Len(v) - 1,
           (k - 1) * 100 <= p * (Len(v) - 1), p * (Len(v) - 1) <= k * 100
    PROVE  Percentile(v, p) - 100 * v[k] = (v[k + 1] - v[k]) * (p * (Len(v) - 1) - (k - 1) * 100)
<1> DEFINE n == Len(v)
           rank == (n - 1) * p
           lo == rank \div 100
           hi == Min({n - 1, lo + 1})
           x == v[k]
           y == v[k + 1]
<1>1. n \in Nat /\ k \in Int /\ 1 <= k /\ k <= n - 1 /\ p \in Int
  BY LenProperties
<1>2. rank \in Int /\ rank = p * (n - 1) /\ (k - 1) * 100 <= rank /\ rank <= k * 100
  BY <1>1
<1>3. x \in Int /\ y \in Int
  BY <1>1, ElementOfSeq
<1>4. Percentile(v, p) = 100 * v[lo + 1] + (v[hi + 1] - v[lo + 1]) * (rank - 100 * lo)
  BY DEF Percentile
<1>5. CASE rank < k * 100
  <2>1. lo = k - 1
    <3> HIDE DEF rank, n
    <3> QED
      BY <1>1, <1>2, <1>5
  <2>2. hi = k
    <3> HIDE DEF lo, n
    <3>1. n - 1 \in Int /\ lo + 1 \in Int /\ lo + 1 = k /\ k <= n - 1
      BY <1>1, <2>1
    <3>2. hi \in {n - 1, lo + 1} /\ hi <= lo + 1
      BY <3>1, MinOfTwo
    <3> HIDE DEF hi
    <3> QED
      BY <3>1, <3>2
  <2>3. v[lo + 1] = x /\ v[hi + 1] = y
    BY <1>1, <2>1, <2>2
  <2>4. Percentile(v, p) = 100 * x + (y - x) * (rank - 100 * (k - 1))
    BY <1>4, <2>1, <2>3
  <2>5. rank - 100 * (k - 1) = rank - (k - 1) * 100
    BY <1>1, <1>2
  <2> DEFINE d == rank - (k - 1) * 100
  <2>6. Percentile(v, p) - 100 * x = (y - x) * d
    <3>1. (y - x) * d \in Int /\ Percentile(v, p) = 100 * x + (y - x) * d
      BY <1>1, <1>2, <1>3, <2>4, <2>5
    <3> DEFINE m == (y - x) * d
    <3> HIDE DEF m, x
    <3>2. m \in Int /\ Percentile(v, p) = 100 * x + m
      BY <3>1 DEF m
    <3> QED
      BY <1>3, <3>2 DEF m
  <2> QED
    BY <1>2, <2>6
<1>6. CASE rank = k * 100
  <2>1. lo = k
    <3> HIDE DEF rank, n
    <3> QED
      BY <1>1, <1>2, <1>6
  <2>2. rank - 100 * lo = 0 /\ v[lo + 1] = y
    BY <1>1, <1>2, <1>6, <2>1
  <2>3. hi \in 1 .. n - 1
    <3>1. n - 1 \in Int /\ lo + 1 \in Int /\ 1 <= n - 1 /\ 1 <= lo + 1
      BY <1>1, <2>1
    <3>2. hi \in {n - 1, lo + 1} /\ hi <= n - 1
      BY <3>1, MinOfTwo
    <3> HIDE DEF n, lo, hi
    <3> QED
      BY <3>1, <3>2
  <2>4. v[hi + 1] \in Int
    BY <1>1, <2>3, ElementOfSeq
  <2>5. Percentile(v, p) = 100 * y
    <3> DEFINE z == v[hi + 1]
    <3>1. Percentile(v, p) = 100 * y + (z - y) * 0 /\ z \in Int
      BY <1>4, <2>2, <2>4
    <3> HIDE DEF z, y
    <3> QED
      BY <1>3, <3>1
  <2>6. p * (n - 1) - (k - 1) * 100 = 100
    BY <1>1, <1>2, <1>6
  <2> HIDE DEF x, y, n
  <2>7. 100 * y - 100 * x = (y - x) * 100
    BY <1>3
  <2>8. Percentile(v, p) - 100 * x = (y - x) * (p * (n - 1) - (k - 1) * 100)
    BY <2>5, <2>6, <2>7
  <2> QED
    BY <2>8 DEF x, y, n
<1>7. rank < k * 100 \/ rank = k * 100
  <2> HIDE DEF rank
  <2> QED
    BY <1>1, <1>2
<1> QED
  BY <1>5, <1>6, <1>7, Zenon

-----------------------------------------------------------------------------
(* The stamps of one Packet-In *)

ShotSet ==
    [design : {"v1", "s56"}, mode : {"persistent", "reactive_osken"}, todo : Seq(AllMarks),
     clock : Nat, last : [CMarks -> Nat], ts : [AllMarks -> Nat], deadline : Nat,
     polls : Seq({"matched", "unmatched", "expired", "failed"}),
     status : {"stamping", "observing", "confirmed", "timed_out", "tool_error"}, end : Nat]

\* Stamps that are taken, of those this handler takes; C keeps its own apart.
Count(s) == Len(Marks(s.mode)) - Len(s.todo)
Value(s, m) == IF m \in CMarks THEN s.last[m] ELSE s.ts[m]
ValueAt(s, i) == Value(s, Marks(s.mode)[i])

\* What is still to do is the rest of the marks.
InTurn(s) ==
    /\ Len(s.todo) <= Len(Marks(s.mode))
    /\ \A i \in 1 .. Len(s.todo) : s.todo[i] = Marks(s.mode)[Count(s) + i]

\* The stamps taken so far are in order, and none is later than the clock.
Ascending(s) ==
    /\ \A i \in 1 .. Count(s) : ValueAt(s, i) <= s.clock
    /\ \A i, j \in 1 .. Count(s) : i < j => ValueAt(s, i) <= ValueAt(s, j)

\* Where the record of C is read: once it is, it is this packet's.
ReadAt(s) == IF s.design = "s56" THEN 8 ELSE 9
Fetched(s) ==
    s.mode # "reactive_osken" /\ Count(s) >= ReadAt(s) => \A m \in CMarks : s.ts[m] = s.last[m]

\* What the observation has come to.
Watched(s) ==
    /\ s.status # "stamping" => s.todo = <<>>
    /\ s.status # "confirmed" => s.end = 0
    /\ s.status \in {"stamping", "observing", "confirmed"} =>
         \A i \in 1 .. Len(s.polls) : s.polls[i] \in {"matched", "unmatched"}
    /\ s.status = "confirmed" =>
         /\ \A i \in 1 .. Count(s) : ValueAt(s, i) <= s.end
         /\ s.design = "s56" =>
              /\ s.end <= s.deadline
              /\ Len(s.polls) > 0 /\ s.polls[Len(s.polls)] = "matched"

ShotInv ==
    shot \in ShotSet /\ InTurn(shot) /\ Ascending(shot) /\ Fetched(shot) /\ Watched(shot)

\* The marks, one by one.
LEMMA MarksFacts ==
    /\ Len(DaimMarks) = 9 /\ Len(OskenMarks) = 6
    /\ DOMAIN DaimMarks = 1 .. 9 /\ DOMAIN OskenMarks = 1 .. 6
    /\ \A i \in 1 .. 9 : DaimMarks[i] \in AllMarks
    /\ \A i \in 1 .. 6 : OskenMarks[i] \in AllMarks /\ OskenMarks[i] \notin CMarks
    /\ \A i, j \in 1 .. 9 : DaimMarks[i] = DaimMarks[j] => i = j
    /\ \A i, j \in 1 .. 6 : OskenMarks[i] = OskenMarks[j] => i = j
    /\ \A i \in 1 .. 9 : DaimMarks[i] \in CMarks <=> i \in 3 .. 7
    /\ CMarks \subseteq AllMarks
<1>1. Len(DaimMarks) = 9 /\ Len(OskenMarks) = 6
  BY DEF DaimMarks, OskenMarks
<1>2. DOMAIN DaimMarks = 1 .. 9 /\ DOMAIN OskenMarks = 1 .. 6
  BY DEF DaimMarks, OskenMarks
<1>3. /\ DaimMarks[1] = "dispatch" /\ DaimMarks[2] = "pre_ctypes" /\ DaimMarks[3] = "c_entry"
      /\ DaimMarks[4] = "c_decision" /\ DaimMarks[5] = "c_table" /\ DaimMarks[6] = "c_install"
      /\ DaimMarks[7] = "c_exit" /\ DaimMarks[8] = "post_ctypes" /\ DaimMarks[9] = "packetout"
  BY DEF DaimMarks
<1>4. /\ OskenMarks[1] = "dispatch" /\ OskenMarks[2] = "parse" /\ OskenMarks[3] = "state"
      /\ OskenMarks[4] = "decision" /\ OskenMarks[5] = "flowmod" /\ OskenMarks[6] = "packetout"
  BY DEF OskenMarks
<1>5. /\ \A i \in 1 .. 9 : DaimMarks[i] \in AllMarks
      /\ \A i \in 1 .. 6 : OskenMarks[i] \in AllMarks
  BY <1>2 DEF AllMarks, ToSet
<1>6. 1 .. 9 = {1, 2, 3, 4, 5, 6, 7, 8, 9} /\ 1 .. 6 = {1, 2, 3, 4, 5, 6}
  OBVIOUS
<1>7. \A i \in 1 .. 6 : OskenMarks[i] \notin CMarks
  BY <1>4, <1>6 DEF CMarks
<1>8. \A i, j \in 1 .. 9 : DaimMarks[i] = DaimMarks[j] => i = j
  BY <1>3, <1>6
<1>9. \A i, j \in 1 .. 6 : OskenMarks[i] = OskenMarks[j] => i = j
  BY <1>4, <1>6
<1>10. \A i \in 1 .. 9 : DaimMarks[i] \in CMarks <=> i \in 3 .. 7
  BY <1>3, <1>6 DEF CMarks
<1>11. CMarks \subseteq AllMarks
  <2>1. CMarks = {DaimMarks[3], DaimMarks[4], DaimMarks[5], DaimMarks[6], DaimMarks[7]}
    BY <1>3 DEF CMarks
  <2> QED
    BY <1>5, <2>1
<1> QED
  BY <1>1, <1>2, <1>5, <1>7, <1>8, <1>9, <1>10, <1>11

\* The marks of either handler.
LEMMA HandlerMarks ==
    ASSUME NEW mode
    PROVE  /\ Len(Marks(mode)) \in {6, 9}
           /\ \A i \in 1 .. Len(Marks(mode)) : Marks(mode)[i] \in AllMarks
           /\ \A i, j \in 1 .. Len(Marks(mode)) : Marks(mode)[i] = Marks(mode)[j] => i = j
           /\ Marks(mode) \in Seq(AllMarks)
<1>1. CASE mode = "reactive_osken"
  <2>1. Marks(mode) = OskenMarks
    BY <1>1 DEF Marks
  <2>2. OskenMarks \in [1 .. 6 -> AllMarks]
    <3>1. OskenMarks = [i \in 1 .. 6 |-> OskenMarks[i]]
      BY DEF OskenMarks
    <3> QED
      BY <3>1, MarksFacts
  <2>3. OskenMarks \in Seq(AllMarks)
    BY <2>2, SeqDef
  <2> QED
    BY <2>1, <2>3, MarksFacts
<1>2. CASE mode # "reactive_osken"
  <2>1. Marks(mode) = DaimMarks
    BY <1>2 DEF Marks
  <2>2. DaimMarks \in [1 .. 9 -> AllMarks]
    <3>1. DaimMarks = [i \in 1 .. 9 |-> DaimMarks[i]]
      BY DEF DaimMarks
    <3> QED
      BY <3>1, MarksFacts
  <2>3. DaimMarks \in Seq(AllMarks)
    BY <2>2, SeqDef
  <2> QED
    BY <2>1, <2>3, MarksFacts
<1> QED
  BY <1>1, <1>2

\* Before the first stamp.
LEMMA ShotInitHolds ==
    ASSUME ShotInit
    PROVE  ShotInv
<1>1. PICK d \in {"v1", "s56"}, m \in {"persistent", "reactive_osken"} : shot = Shot(d, m)
  BY DEF ShotInit
<1>2. /\ shot.design = d /\ shot.mode = m /\ shot.todo = Marks(m) /\ shot.clock = 1
      /\ shot.last = [x \in CMarks |-> 0] /\ shot.ts = NoStamps /\ shot.deadline = 0
      /\ shot.polls = <<>> /\ shot.status = "stamping" /\ shot.end = 0
  BY <1>1 DEF Shot
<1>3. <<>> \in Seq({"matched", "unmatched", "expired", "failed"}) /\ Len(<<>>) = 0
  BY EmptySeq
<1>4. shot \in ShotSet
  <2>1. Marks(m) \in Seq(AllMarks)
    BY HandlerMarks
  <2>2. NoStamps \in [AllMarks -> Nat]
    BY DEF NoStamps
  <2>3. [x \in CMarks |-> 0] \in [CMarks -> Nat]
    OBVIOUS
  <2> QED
    BY <1>1, <1>3, <2>1, <2>2, <2>3 DEF Shot, ShotSet
<1>5. Len(Marks(m)) \in {6, 9}
  BY HandlerMarks
<1>6. Count(shot) = 0
  BY <1>2, <1>5 DEF Count
<1> QED
  BY <1>2, <1>3, <1>4, <1>5, <1>6 DEF ShotInv, InTurn, Ascending, Fetched, ReadAt, Watched

\* One more stamp, at the clock's new reading.
LEMMA StampHolds ==
    ASSUME ShotInv, Stamp
    PROVE  ShotInv'
<1> DEFINE M == Marks(shot.mode)
           n == Count(shot)
           m == Head(shot.todo)
           own(now) == IF m \in CMarks THEN shot.ts ELSE [shot.ts EXCEPT ![m] = now]
           last(now) == IF m \in CMarks THEN [shot.last EXCEPT ![m] = now] ELSE shot.last
           ts(now) == IF m = ReadsAfter(shot.design) /\ shot.mode # "reactive_osken"
                      THEN [k \in AllMarks |-> IF k \in CMarks THEN shot.last[k] ELSE own(now)[k]]
                      ELSE own(now)
<1>1. PICK now \in Nat :
        /\ shot.clock <= now /\ shot.status = "stamping" /\ shot.todo # <<>>
        /\ shot' = [shot EXCEPT !.clock = now, !.todo = Tail(shot.todo), !.last = last(now),
                                !.ts = ts(now)]
  <2>1. shot.clock \in Nat
    BY DEF ShotInv, ShotSet
  <2>2. PICK now \in Readings(0, 1) :
          shot' = [shot EXCEPT !.clock = now, !.todo = Tail(shot.todo), !.last = last(now),
                               !.ts = ts(now)]
    BY Zenon DEF Stamp
  <2>3. now \in Nat /\ shot.clock <= now
    BY <2>1 DEF Readings
  <2>4. shot.status = "stamping" /\ shot.todo # <<>>
    BY DEF Stamp
  <2> HIDE DEF last, ts
  <2> QED
    BY <2>2, <2>3, <2>4
<1>2. /\ shot.todo \in Seq(AllMarks) /\ shot.last \in [CMarks -> Nat]
      /\ shot.ts \in [AllMarks -> Nat] /\ shot.clock \in Nat
      /\ shot.mode \in {"persistent", "reactive_osken"} /\ shot.design \in {"v1", "s56"}
  BY DEF ShotInv, ShotSet
<1>3. /\ Len(M) \in {6, 9} /\ \A i \in 1 .. Len(M) : M[i] \in AllMarks
      /\ \A i, j \in 1 .. Len(M) : M[i] = M[j] => i = j
  BY HandlerMarks
<1>4. /\ Len(shot.todo) \in Nat /\ Len(shot.todo) > 0 /\ Len(shot.todo) <= Len(M)
      /\ n \in Nat /\ n + 1 \in 1 .. Len(M) /\ n = Len(M) - Len(shot.todo)
      /\ m = M[n + 1] /\ m \in AllMarks
  <2>1. Len(shot.todo) \in Nat /\ Len(shot.todo) > 0
    BY <1>1, <1>2, EmptySeq, LenProperties
  <2>2. Len(shot.todo) <= Len(M) /\ n = Len(M) - Len(shot.todo)
    BY DEF ShotInv, InTurn, Count
  <2>3. n \in Nat /\ n + 1 \in 1 .. Len(M)
    BY <1>3, <2>1, <2>2
  <2>4. m = shot.todo[1]
    BY <1>2, <2>1
  <2>5. shot.todo[1] = M[n + 1]
    BY <2>1 DEF ShotInv, InTurn
  <2> QED
    BY <1>3, <2>1, <2>2, <2>3, <2>4, <2>5
<1> HIDE DEF last, ts
<1>5. /\ shot'.mode = shot.mode /\ shot'.design = shot.design /\ shot'.status = shot.status
      /\ shot'.deadline = shot.deadline /\ shot'.polls = shot.polls /\ shot'.end = shot.end
      /\ shot'.clock = now /\ shot'.todo = Tail(shot.todo)
      /\ shot'.last = last(now) /\ shot'.ts = ts(now)
  BY <1>1 DEF ShotInv, ShotSet
<1>6. last(now) \in [CMarks -> Nat] /\ own(now) \in [AllMarks -> Nat]
  BY <1>1, <1>2 DEF last
<1>7. ts(now) \in [AllMarks -> Nat]
  <2>1. \A k \in AllMarks : (IF k \in CMarks THEN shot.last[k] ELSE own(now)[k]) \in Nat
    BY <1>2, <1>6
  <2> HIDE DEF own
  <2> QED
    BY <1>6, <2>1 DEF ts
<1>8. Tail(shot.todo) \in Seq(AllMarks) /\ Len(Tail(shot.todo)) = Len(shot.todo) - 1
      /\ \A i \in 1 .. Len(shot.todo) - 1 : Tail(shot.todo)[i] = shot.todo[i + 1]
  BY <1>1, <1>2, HeadTailProperties
<1>9. shot' \in ShotSet
  <2> HIDE DEF m
  <2>1. shot' = [shot EXCEPT !.clock = now, !.todo = Tail(shot.todo), !.last = last(now),
                             !.ts = ts(now)]
    BY <1>1
  <2> QED
    BY <1>6, <1>7, <1>8, <2>1 DEF ShotInv, ShotSet
<1>10. Count(shot') = n + 1 /\ Marks(shot'.mode) = M
  <2>1. Marks(shot'.mode) = M /\ Len(shot'.todo) = Len(shot.todo) - 1
    BY <1>5, <1>8
  <2>2. Count(shot') = Len(M) - (Len(shot.todo) - 1)
    BY <2>1 DEF Count
  <2>3. Len(M) \in Nat /\ Len(shot.todo) \in Nat /\ n = Len(M) - Len(shot.todo)
    BY <1>3, <1>4
  <2> HIDE DEF M, n
  <2> QED
    BY <2>1, <2>2, <2>3
<1>11. InTurn(shot')
  <2>1. Len(shot'.todo) <= Len(M)
    BY <1>3, <1>4, <1>5, <1>8
  <2>2. ASSUME NEW i \in 1 .. Len(shot'.todo) PROVE shot'.todo[i] = M[n + 1 + i]
    <3>1. shot'.todo[i] = shot.todo[i + 1] /\ i + 1 \in 1 .. Len(shot.todo) /\ i \in Nat
      BY <1>4, <1>5, <1>8
    <3>2. shot.todo[i + 1] = M[n + (i + 1)]
      BY <3>1 DEF ShotInv, InTurn
    <3>3. n + (i + 1) = n + 1 + i
      <4>1. n \in Nat /\ i \in Nat
        BY <1>4, <3>1
      <4> HIDE DEF n, M
      <4> QED
        BY <4>1
    <3> QED
      BY <3>1, <3>2, <3>3
  <2> QED
    BY <1>10, <2>1, <2>2 DEF InTurn
<1>12. Value(shot', m) = now
  <2>1. CASE m \in CMarks
    BY <1>2, <1>5, <2>1 DEF Value, last
  <2>2. CASE m \notin CMarks
    BY <1>2, <1>4, <1>5, <2>2 DEF Value, ts
  <2> QED
    BY <2>1, <2>2
<1>13. ASSUME NEW i \in 1 .. n PROVE ValueAt(shot', i) = ValueAt(shot, i) /\ ValueAt(shot, i) \in Nat
  <2>1. i \in 1 .. Len(M) /\ i # n + 1
    BY <1>3, <1>4
  <2>2. M[i] # m /\ M[i] \in AllMarks
    BY <1>3, <1>4, <2>1
  <2>3. Value(shot', M[i]) = Value(shot, M[i])
    <3>1. CASE M[i] \in CMarks
      BY <1>2, <1>5, <2>2, <3>1 DEF Value, last
    <3>2. CASE M[i] \notin CMarks
      BY <1>2, <1>5, <2>2, <3>2 DEF Value, ts
    <3> QED
      BY <3>1, <3>2
  <2>4. Value(shot, M[i]) \in Nat
    BY <1>2, <2>2 DEF Value
  <2> QED
    BY <1>10, <2>3, <2>4 DEF ValueAt
<1>14. ValueAt(shot', n + 1) = now
  BY <1>4, <1>10, <1>12 DEF ValueAt
<1>15. Ascending(shot')
  <2>1. \A i \in 1 .. n : ValueAt(shot, i) <= shot.clock
    BY DEF ShotInv, Ascending
  <2>2. \A i \in 1 .. n + 1 : i \in 1 .. n \/ i = n + 1
    BY <1>4
  <2>3. \A i \in 1 .. n + 1 : ValueAt(shot', i) <= now
    BY <1>1, <1>2, <1>13, <1>14, <2>1, <2>2
  <2>4. ASSUME NEW i \in 1 .. n + 1, NEW j \in 1 .. n + 1, i < j
        PROVE  ValueAt(shot', i) <= ValueAt(shot', j)
    <3>1. CASE j = n + 1
      BY <1>14, <2>3, <3>1
    <3>2. CASE j \in 1 .. n
      <4>1. i \in 1 .. n
        BY <1>4, <2>2, <2>4, <3>2
      <4>2. ValueAt(shot, i) <= ValueAt(shot, j)
        BY <2>4, <3>2, <4>1 DEF ShotInv, Ascending
      <4> QED
        BY <1>13, <3>2, <4>1, <4>2
    <3> QED
      BY <2>2, <3>1, <3>2
  <2> QED
    BY <1>5, <1>10, <2>3, <2>4 DEF Ascending
<1>16. Fetched(shot')
  <2> SUFFICES ASSUME shot.mode # "reactive_osken", n + 1 >= ReadAt(shot), NEW k \in CMarks
               PROVE  shot'.ts[k] = shot'.last[k]
    BY <1>5, <1>10 DEF Fetched, ReadAt
  <2>1. M = DaimMarks /\ n + 1 \in 8 .. 9 /\ n \in 7 .. 8
    <3>1. M = DaimMarks /\ Len(M) = 9 /\ n \in Nat /\ n + 1 <= Len(M)
      BY <1>3, <1>4, MarksFacts DEF Marks
    <3>2. ReadAt(shot) \in {8, 9}
      BY DEF ReadAt
    <3> HIDE DEF M, n
    <3> QED
      BY <3>1, <3>2
  <2>2. m \notin CMarks
    BY <1>4, <2>1, MarksFacts
  <2>3. shot'.last = shot.last /\ k \in AllMarks /\ k # m
    BY <1>5, <2>2, MarksFacts DEF last
  <2>4. CASE n + 1 = ReadAt(shot)
    <3>1. m = ReadsAfter(shot.design)
      <4>1. DaimMarks[8] = "post_ctypes" /\ DaimMarks[9] = "packetout"
        BY DEF DaimMarks
      <4> QED
        BY <1>4, <2>1, <2>4, <4>1 DEF ReadAt, ReadsAfter
    <3> QED
      BY <1>5, <2>3, <3>1 DEF ts
  <2>5. CASE n + 1 # ReadAt(shot)
    <3>1. n >= ReadAt(shot)
      <4>1. n \in Nat /\ ReadAt(shot) \in {8, 9}
        BY <1>4 DEF ReadAt
      <4> HIDE DEF n
      <4> QED
        BY <2>5, <4>1
    <3>2. shot.ts[k] = shot.last[k]
      BY <3>1 DEF ShotInv, Fetched
    <3>3. own(now)[k] = shot.ts[k]
      BY <1>2, <2>3
    <3> HIDE DEF own
    <3> QED
      BY <1>5, <2>3, <3>2, <3>3 DEF ts
  <2> QED
    BY <2>4, <2>5
<1>17. Watched(shot')
  BY <1>1, <1>5 DEF ShotInv, Watched
<1> QED
  BY <1>9, <1>11, <1>15, <1>16, <1>17 DEF ShotInv

\* A stamp that is taken is a reading of the clock.
LEMMA ValuesTyped ==
    ASSUME NEW s \in ShotSet
    PROVE  \A i \in 1 .. Count(s) : ValueAt(s, i) \in Nat
<1> SUFFICES ASSUME NEW i \in 1 .. Count(s) PROVE ValueAt(s, i) \in Nat
  OBVIOUS
<1>1. i \in 1 .. Len(Marks(s.mode))
  <2>1. Len(s.todo) \in Nat /\ Len(Marks(s.mode)) \in Nat
    BY HandlerMarks, LenProperties DEF ShotSet
  <2>2. Count(s) = Len(Marks(s.mode)) - Len(s.todo)
    BY DEF Count
  <2> QED
    BY <2>1, <2>2
<1>2. Marks(s.mode)[i] \in AllMarks
  BY <1>1, HandlerMarks
<1>3. s.last \in [CMarks -> Nat] /\ s.ts \in [AllMarks -> Nat]
  BY DEF ShotSet
<1> QED
  BY <1>2, <1>3 DEF ValueAt, Value

\* The observation takes no stamp and reads no record.
LEMMA StampsStay ==
    ASSUME NEW s, NEW t, InTurn(s), Ascending(s), Fetched(s), s \in ShotSet, t.clock \in Nat,
           t.mode = s.mode, t.design = s.design, t.todo = s.todo, t.last = s.last, t.ts = s.ts,
           s.clock <= t.clock
    PROVE  /\ InTurn(t) /\ Ascending(t) /\ Fetched(t) /\ Count(t) = Count(s)
           /\ \A i \in 1 .. Count(s) : ValueAt(t, i) = ValueAt(s, i)
<1>1. Count(t) = Count(s) /\ ReadAt(t) = ReadAt(s)
  BY DEF Count, ReadAt
<1>2. \A i \in 1 .. Count(s) : ValueAt(t, i) = ValueAt(s, i)
  BY DEF ValueAt, Value
<1>3. \A i \in 1 .. Count(s) : ValueAt(s, i) \in Nat
  BY ValuesTyped
<1>4. s.clock \in Nat
  BY DEF ShotSet
<1>5. Ascending(t)
  BY <1>1, <1>2, <1>3, <1>4 DEF Ascending
<1> QED
  BY <1>1, <1>2, <1>5 DEF InTurn, Fetched

\* The clock goes on.
LEMMA ClockGoesOn ==
    ASSUME ShotInv, NEW least \in Nat, NEW most \in Nat, NEW now \in Readings(least, most)
    PROVE  now \in Nat /\ shot.clock \in Nat /\ shot.clock + least <= now /\ shot.clock <= now
<1>1. shot.clock \in Nat
  BY DEF ShotInv, ShotSet
<1> QED
  BY <1>1 DEF Readings

\* The observation begins.
LEMMA ObserveHolds ==
    ASSUME ShotInv, TimingAssumption, Observe
    PROVE  ShotInv'
<1>1. PICK now \in Readings(0, 1) :
        shot' = [shot EXCEPT !.clock = now, !.deadline = now + Budget, !.status = "observing"]
  BY DEF Observe
<1>2. now \in Nat /\ shot.clock <= now /\ shot.status = "stamping" /\ shot.todo = <<>>
  BY ClockGoesOn DEF Observe
<1>3. shot' \in ShotSet
  <2>1. now + Budget \in Nat
    BY <1>2 DEF TimingAssumption
  <2> QED
    BY <1>1, <1>2, <2>1 DEF ShotInv, ShotSet
<1>4. /\ shot'.mode = shot.mode /\ shot'.design = shot.design /\ shot'.todo = shot.todo
      /\ shot'.last = shot.last /\ shot'.ts = shot.ts /\ shot'.clock = now
      /\ shot'.status = "observing" /\ shot'.polls = shot.polls /\ shot'.end = shot.end
  BY <1>1 DEF ShotInv, ShotSet
<1>5. InTurn(shot') /\ Ascending(shot') /\ Fetched(shot')
  BY <1>2, <1>4, StampsStay DEF ShotInv
<1>6. Watched(shot')
  BY <1>2, <1>4 DEF ShotInv, Watched
<1> QED
  BY <1>3, <1>5, <1>6 DEF ShotInv

\* A look of the first measurement.
LEMMA PollV1Holds ==
    ASSUME ShotInv, PollV1
    PROVE  ShotInv'
<1>1. PICK now \in Readings(1, 2), seen \in BOOLEAN :
        shot' = IF seen THEN [shot EXCEPT !.clock = now, !.end = now, !.status = "confirmed"]
                ELSE [shot EXCEPT !.clock = now]
  BY DEF PollV1
<1>2. now \in Nat /\ shot.clock <= now /\ shot.status = "observing" /\ shot.design = "v1"
  BY ClockGoesOn DEF PollV1, Looking
<1>3. shot' \in ShotSet
  BY <1>1, <1>2 DEF ShotInv, ShotSet
<1>4. /\ shot'.mode = shot.mode /\ shot'.design = "v1" /\ shot'.todo = shot.todo
      /\ shot'.last = shot.last /\ shot'.ts = shot.ts /\ shot'.clock = now
      /\ shot'.polls = shot.polls
      /\ \/ shot'.status = "confirmed" /\ shot'.end = now
         \/ shot'.status = "observing" /\ shot'.end = shot.end
  BY <1>1, <1>2 DEF ShotInv, ShotSet
<1>5. InTurn(shot') /\ Ascending(shot') /\ Fetched(shot')
  BY <1>2, <1>4, StampsStay DEF ShotInv
<1>6. Watched(shot')
  BY <1>2, <1>4, <1>5 DEF ShotInv, Watched, Ascending
<1> QED
  BY <1>3, <1>5, <1>6 DEF ShotInv

\* A look of the corrected measurement.
LEMMA PollS56Holds ==
    ASSUME ShotInv, TimingAssumption, PollS56
    PROVE  ShotInv'
<1>1. PICK now \in Readings(1, 2), after \in 0 .. 1,
           res \in {"matched", "unmatched", "expired", "failed"},
           status \in {"observing", "confirmed", "timed_out", "tool_error"} :
        /\ status \in {"observing", "confirmed"} => res \in {"matched", "unmatched"}
        /\ status = "confirmed" => res = "matched" /\ now <= shot.deadline
        /\ shot' = [shot EXCEPT !.clock = now + after, !.polls = Append(shot.polls, res),
                                !.status = status,
                                !.end = IF status = "confirmed" THEN now ELSE 0]
  <2>1. PICK now \in Readings(1, 2), after \in 0 .. 1,
             res \in {"matched", "unmatched", "expired", "failed"} :
          LET status == CASE res = "expired" /\ now + after >= shot.deadline -> "timed_out"
                          [] res \in {"expired", "failed"} -> "tool_error"
                          [] res = "matched" /\ now <= shot.deadline -> "confirmed"
                          [] OTHER -> "observing"
          IN  shot' = [shot EXCEPT !.clock = now + after, !.polls = Append(@, res),
                                   !.status = status,
                                   !.end = IF status = "confirmed" THEN now ELSE 0]
    BY DEF PollS56
  <2> DEFINE status == CASE res = "expired" /\ now + after >= shot.deadline -> "timed_out"
                         [] res \in {"expired", "failed"} -> "tool_error"
                         [] res = "matched" /\ now <= shot.deadline -> "confirmed"
                         [] OTHER -> "observing"
  <2>2. /\ status \in {"observing", "confirmed", "timed_out", "tool_error"}
        /\ status \in {"observing", "confirmed"} => res \in {"matched", "unmatched"}
        /\ status = "confirmed" => res = "matched" /\ now <= shot.deadline
    OBVIOUS
  <2>3. shot' = [shot EXCEPT !.clock = now + after, !.polls = Append(shot.polls, res),
                             !.status = status, !.end = IF status = "confirmed" THEN now ELSE 0]
    BY <2>1
  <2> HIDE DEF status
  <2> QED
    BY <2>2, <2>3
<1>2. /\ now \in Nat /\ shot.clock <= now /\ shot.clock \in Nat /\ now + after \in Nat
      /\ shot.clock <= now + after /\ shot.status = "observing" /\ shot.design = "s56"
  <2>1. now \in Nat /\ shot.clock <= now /\ shot.clock \in Nat
    BY ClockGoesOn
  <2>2. shot.status = "observing" /\ shot.design = "s56"
    BY DEF PollS56, Looking
  <2> QED
    BY <2>1, <2>2
<1>3. /\ shot.polls \in Seq({"matched", "unmatched", "expired", "failed"})
      /\ Append(shot.polls, res) \in Seq({"matched", "unmatched", "expired", "failed"})
      /\ Len(Append(shot.polls, res)) = Len(shot.polls) + 1 /\ Len(shot.polls) \in Nat
      /\ Append(shot.polls, res)[Len(shot.polls) + 1] = res
      /\ \A i \in 1 .. Len(shot.polls) : Append(shot.polls, res)[i] = shot.polls[i]
  <2>1. shot.polls \in Seq({"matched", "unmatched", "expired", "failed"})
    BY DEF ShotInv, ShotSet
  <2> QED
    BY <2>1, AppendProperties, LenProperties
<1>4. /\ shot'.mode = shot.mode /\ shot'.design = "s56" /\ shot'.todo = shot.todo
      /\ shot'.last = shot.last /\ shot'.ts = shot.ts /\ shot'.clock = now + after
      /\ shot'.polls = Append(shot.polls, res) /\ shot'.deadline = shot.deadline
      /\ shot'.status = status /\ shot'.end = IF status = "confirmed" THEN now ELSE 0
  BY <1>1, <1>2 DEF ShotInv, ShotSet
<1>5. shot' \in ShotSet
  BY <1>1, <1>2, <1>3 DEF ShotInv, ShotSet
<1>6. InTurn(shot') /\ Ascending(shot') /\ Fetched(shot')
  BY <1>2, <1>4, StampsStay DEF ShotInv
<1>7. \A i \in 1 .. Count(shot') : ValueAt(shot', i) <= now
  <2>1. /\ Count(shot') = Count(shot)
        /\ \A i \in 1 .. Count(shot) : ValueAt(shot', i) = ValueAt(shot, i)
    BY <1>2, <1>4, StampsStay DEF ShotInv
  <2>2. \A i \in 1 .. Count(shot) : ValueAt(shot, i) <= shot.clock
    BY DEF ShotInv, Ascending
  <2>4. \A i \in 1 .. Count(shot) : ValueAt(shot, i) \in Nat
    BY ValuesTyped DEF ShotInv
  <2> QED
    BY <1>2, <2>1, <2>2, <2>4
<1>8. Watched(shot')
  <2>1. shot'.todo = <<>>
    BY <1>2, <1>4 DEF ShotInv, Watched
  <2>2. status \in {"observing", "confirmed"} =>
          \A i \in 1 .. Len(shot'.polls) : shot'.polls[i] \in {"matched", "unmatched"}
    <3>1. \A i \in 1 .. Len(shot.polls) : shot.polls[i] \in {"matched", "unmatched"}
      BY <1>2 DEF ShotInv, Watched
    <3>2. \A i \in 1 .. Len(shot.polls) + 1 : i \in 1 .. Len(shot.polls) \/ i = Len(shot.polls) + 1
      BY <1>3
    <3> QED
      BY <1>1, <1>3, <1>4, <3>1, <3>2
  <2>3. status = "confirmed" => /\ shot'.end = now /\ shot'.end <= shot'.deadline
                                /\ Len(shot'.polls) > 0
                                /\ shot'.polls[Len(shot'.polls)] = "matched"
    BY <1>1, <1>3, <1>4
  <2> QED
    BY <1>1, <1>4, <1>7, <2>1, <2>2, <2>3 DEF Watched
<1> QED
  BY <1>5, <1>6, <1>8 DEF ShotInv

\* Nobody looks any more.
LEMMA GiveUpHolds ==
    ASSUME ShotInv, GiveUp
    PROVE  ShotInv'
<1>1. shot' = [shot EXCEPT !.status = "timed_out"] /\ shot.status = "observing"
  BY DEF GiveUp
<1>2. shot' \in ShotSet
  BY <1>1 DEF ShotInv, ShotSet
<1>3. /\ shot'.mode = shot.mode /\ shot'.design = shot.design /\ shot'.todo = shot.todo
      /\ shot'.last = shot.last /\ shot'.ts = shot.ts /\ shot'.clock = shot.clock
      /\ shot'.status = "timed_out" /\ shot'.end = shot.end /\ shot.clock \in Nat
  BY <1>1 DEF ShotInv, ShotSet
<1>4. InTurn(shot') /\ Ascending(shot') /\ Fetched(shot')
  BY <1>3, StampsStay DEF ShotInv
<1>5. Watched(shot')
  BY <1>1, <1>3 DEF ShotInv, Watched
<1> QED
  BY <1>2, <1>4, <1>5 DEF ShotInv

\* Every step keeps the stamps in order.
LEMMA ShotStepHolds ==
    ASSUME ShotInv, TimingAssumption, [ShotNext]_shot
    PROVE  ShotInv'
<1>1. CASE shot' = shot
  BY <1>1 DEF ShotInv
<1>2. CASE ShotNext
  BY <1>2, StampHolds, ObserveHolds, PollV1Holds, PollS56Holds, GiveUpHolds DEF ShotNext
<1> QED
  BY <1>1, <1>2

\* A function on 1 .. n is a sequence of that length.
LEMMA SequenceOfLength ==
    ASSUME NEW n \in Nat, NEW f \in [1 .. n -> Nat]
    PROVE  f \in Seq(Nat) /\ Len(f) = n
<1>1. f \in Seq(Nat)
  BY SeqDef
<1>2. Len(f) \in Nat /\ DOMAIN f = 1 .. Len(f) /\ DOMAIN f = 1 .. n
  BY <1>1, LenProperties
<1> QED
  BY <1>1, <1>2

\* A sequence in order, and with something later at its end, is sorted.
LEMMA SortedWithEnd ==
    ASSUME NEW f \in Seq(Nat), NEW e \in Nat,
           \A i, j \in 1 .. Len(f) : i < j => f[i] <= f[j],
           \A i \in 1 .. Len(f) : f[i] <= e
    PROVE  IsSorted(f, <=) /\ IsSorted(Append(f, e), <=)
<1>1. IsSorted(f, <=)
  BY DEF IsSorted
<1> DEFINE g == Append(f, e)
<1>2. /\ Len(g) = Len(f) + 1 /\ Len(f) \in Nat /\ g[Len(f) + 1] = e
      /\ \A i \in 1 .. Len(f) : g[i] = f[i]
  BY AppendProperties, LenProperties
<1> HIDE DEF g
<1>3. ASSUME NEW i \in 1 .. Len(g), NEW j \in 1 .. Len(g), i < j
      PROVE  g[i] <= g[j]
  <2>1. i \in 1 .. Len(f) /\ (j \in 1 .. Len(f) \/ j = Len(f) + 1)
    BY <1>2, <1>3
  <2> QED
    BY <1>2, <1>3, <2>1
<1>4. IsSorted(g, <=)
  BY <1>3 DEF IsSorted
<1> QED
  BY <1>1, <1>4 DEF g

\* What a confirmed packet of DAIM's controller has in its row.
LEMMA DaimRow ==
    ASSUME ShotInv, shot.status = "confirmed", shot.mode # "reactive_osken"
    PROVE  /\ \A i \in 1 .. 9 : shot.ts[DaimMarks[i]] \in Nat /\ shot.ts[DaimMarks[i]] <= shot.end
           /\ \A i, j \in 1 .. 9 : i < j => shot.ts[DaimMarks[i]] <= shot.ts[DaimMarks[j]]
           /\ shot.end \in Nat
<1>1. Marks(shot.mode) = DaimMarks /\ shot \in ShotSet /\ shot.todo = <<>> /\ shot.end \in Nat
  BY DEF Marks, ShotInv, Watched, ShotSet
<1>2. Count(shot) = 9
  <2>1. Len(<<>>) = 0
    BY EmptySeq
  <2> QED
    BY <1>1, <2>1, MarksFacts DEF Count
<1>3. \A m \in CMarks : shot.ts[m] = shot.last[m]
  BY <1>2 DEF ShotInv, Fetched, ReadAt
<1>4. \A i \in 1 .. 9 : ValueAt(shot, i) = shot.ts[DaimMarks[i]]
  BY <1>1, <1>3 DEF ValueAt, Value
<1>5. \A i \in 1 .. 9 : ValueAt(shot, i) \in Nat
  BY <1>1, <1>2, ValuesTyped
<1>6. \A i \in 1 .. 9 : ValueAt(shot, i) <= shot.end
  BY <1>2 DEF ShotInv, Watched
<1>7. \A i, j \in 1 .. 9 : i < j => ValueAt(shot, i) <= ValueAt(shot, j)
  BY <1>2 DEF ShotInv, Ascending
<1> QED
  BY <1>1, <1>4, <1>5, <1>6, <1>7

\* And one of the baseline's.
LEMMA OskenRow ==
    ASSUME ShotInv, shot.status = "confirmed", shot.mode = "reactive_osken"
    PROVE  /\ \A i \in 1 .. 6 : shot.ts[OskenMarks[i]] \in Nat /\ shot.ts[OskenMarks[i]] <= shot.end
           /\ \A i, j \in 1 .. 6 : i < j => shot.ts[OskenMarks[i]] <= shot.ts[OskenMarks[j]]
           /\ shot.end \in Nat
<1>1. Marks(shot.mode) = OskenMarks /\ shot \in ShotSet /\ shot.todo = <<>> /\ shot.end \in Nat
  BY DEF Marks, ShotInv, Watched, ShotSet
<1>2. Count(shot) = 6
  <2>1. Len(<<>>) = 0
    BY EmptySeq
  <2> QED
    BY <1>1, <2>1, MarksFacts DEF Count
<1>3. \A i \in 1 .. 6 : ValueAt(shot, i) = shot.ts[OskenMarks[i]]
  BY <1>1, MarksFacts DEF ValueAt, Value
<1>4. \A i \in 1 .. 6 : ValueAt(shot, i) \in Nat
  BY <1>1, <1>2, ValuesTyped
<1>5. \A i \in 1 .. 6 : ValueAt(shot, i) <= shot.end
  BY <1>2 DEF ShotInv, Watched
<1>6. \A i, j \in 1 .. 6 : i < j => ValueAt(shot, i) <= ValueAt(shot, j)
  BY <1>2 DEF ShotInv, Ascending
<1> QED
  BY <1>1, <1>3, <1>4, <1>5, <1>6

\* The runner finds the stamps of a confirmed packet in order.
LEMMA ConfirmedIsOrdered ==
    ASSUME ShotInv, shot.status = "confirmed"
    PROVE  OrderValid(shot)
<1> DEFINE marks == IF shot.mode = "reactive_osken" THEN <<"dispatch", "packetout">> ELSE DaimMarks
           stamps == [i \in DOMAIN marks |-> shot.ts[marks[i]]]
<1>1. CASE shot.mode = "reactive_osken"
  <2>1. OskenMarks[1] = "dispatch" /\ OskenMarks[6] = "packetout"
    BY DEF OskenMarks
  <2>2. /\ shot.ts["dispatch"] \in Nat /\ shot.ts["packetout"] \in Nat /\ shot.end \in Nat
        /\ shot.ts["dispatch"] <= shot.ts["packetout"] /\ shot.ts["packetout"] <= shot.end
        /\ shot.ts["dispatch"] <= shot.end
    BY <1>1, <2>1, OskenRow
  <2>3. DOMAIN marks = 1 .. 2 /\ marks[1] = "dispatch" /\ marks[2] = "packetout"
    BY <1>1
  <2>4. stamps = [i \in 1 .. 2 |-> IF i = 1 THEN shot.ts["dispatch"] ELSE shot.ts["packetout"]]
    BY <2>3
  <2> HIDE DEF stamps, marks
  <2>5. stamps \in [1 .. 2 -> Nat]
    BY <2>2, <2>4
  <2>6. stamps \in Seq(Nat) /\ Len(stamps) = 2
    BY <2>5, SequenceOfLength
  <2>7. /\ \A i, j \in 1 .. Len(stamps) : i < j => stamps[i] <= stamps[j]
        /\ \A i \in 1 .. Len(stamps) : stamps[i] <= shot.end
    BY <2>2, <2>4, <2>6
  <2>8. IsSorted(stamps, <=) /\ IsSorted(Append(stamps, shot.end), <=)
    BY <2>2, <2>6, <2>7, SortedWithEnd
  <2> QED
    BY <2>8 DEF OrderValid, stamps, marks
<1>2. CASE shot.mode # "reactive_osken"
  <2>1. marks = DaimMarks /\ DOMAIN marks = 1 .. 9
    BY <1>2, MarksFacts
  <2>2. stamps = [i \in 1 .. 9 |-> shot.ts[DaimMarks[i]]]
    BY <2>1
  <2> HIDE DEF stamps, marks
  <2>3. stamps \in [1 .. 9 -> Nat] /\ shot.end \in Nat
    BY <1>2, <2>2, DaimRow
  <2>4. stamps \in Seq(Nat) /\ Len(stamps) = 9
    BY <2>3, SequenceOfLength
  <2>5. /\ \A i \in 1 .. 9 : stamps[i] <= shot.end
        /\ \A i, j \in 1 .. 9 : i < j => stamps[i] <= stamps[j]
    BY <1>2, <2>2, DaimRow
  <2>6. IsSorted(stamps, <=) /\ IsSorted(Append(stamps, shot.end), <=)
    BY <2>3, <2>4, <2>5, SortedWithEnd
  <2> QED
    BY <2>6 DEF OrderValid, stamps, marks
<1> QED
  BY <1>1, <1>2

\* The stamps of DAIM's row by name.
LEMMA DaimStamps ==
    ASSUME ShotInv, shot.status = "confirmed", shot.mode # "reactive_osken"
    PROVE  /\ shot.ts["dispatch"] \in Nat /\ shot.ts["pre_ctypes"] \in Nat
           /\ shot.ts["c_entry"] \in Nat /\ shot.ts["c_decision"] \in Nat
           /\ shot.ts["c_table"] \in Nat /\ shot.ts["c_install"] \in Nat
           /\ shot.ts["c_exit"] \in Nat /\ shot.ts["post_ctypes"] \in Nat
           /\ shot.ts["packetout"] \in Nat /\ shot.end \in Nat
           /\ shot.ts["dispatch"] <= shot.ts["pre_ctypes"]
           /\ shot.ts["pre_ctypes"] <= shot.ts["c_entry"]
           /\ shot.ts["c_entry"] <= shot.ts["c_decision"]
           /\ shot.ts["c_decision"] <= shot.ts["c_table"]
           /\ shot.ts["c_table"] <= shot.ts["c_install"]
           /\ shot.ts["c_install"] <= shot.ts["c_exit"]
           /\ shot.ts["c_exit"] <= shot.ts["post_ctypes"]
           /\ shot.ts["post_ctypes"] <= shot.ts["packetout"]
           /\ shot.ts["packetout"] <= shot.end
<1>1. /\ DaimMarks[1] = "dispatch" /\ DaimMarks[2] = "pre_ctypes" /\ DaimMarks[3] = "c_entry"
      /\ DaimMarks[4] = "c_decision" /\ DaimMarks[5] = "c_table" /\ DaimMarks[6] = "c_install"
      /\ DaimMarks[7] = "c_exit" /\ DaimMarks[8] = "post_ctypes" /\ DaimMarks[9] = "packetout"
  BY DEF DaimMarks
<1>2. \A i \in 1 .. 9 : shot.ts[DaimMarks[i]] \in Nat /\ shot.ts[DaimMarks[i]] <= shot.end
  BY DaimRow
<1>3. \A i \in 1 .. 8 : shot.ts[DaimMarks[i]] <= shot.ts[DaimMarks[i + 1]]
  BY DaimRow
<1>4. shot.end \in Nat
  BY DaimRow
<1> QED
  BY <1>1, <1>2, <1>3, <1>4

\* The stages of the corrected measurement.
LEMMA S56StagesMakeUp ==
    ASSUME ShotInv, shot.status = "confirmed", shot.mode # "reactive_osken"
    PROVE  MakesUp(S56Stages(shot), S56Sum(S56Stages(shot)), shot.end - shot.ts["dispatch"])
<1> DEFINE st == S56Stages(shot)
<1>1. /\ st.dispatch >= 0 /\ st.interop >= 0 /\ st.core_decision >= 0 /\ st.table_write >= 0
      /\ st.adapter_call >= 0 /\ st.c_exit_tail >= 0 /\ st.post_call_and_packetout >= 0
      /\ st.confirmation_wait >= 0
  BY DaimStamps DEF S56Stages
<1>2. S56Sum(st) = shot.end - shot.ts["dispatch"]
  BY DaimStamps DEF S56Stages, S56Sum
<1>3. DOMAIN st = {"dispatch", "interop", "core_decision", "table_write", "adapter_call",
                   "c_exit_tail", "post_call_and_packetout", "confirmation_wait"}
  BY DEF S56Stages
<1> HIDE DEF st
<1>4. \A k \in DOMAIN st : st[k] >= 0
  BY <1>1, <1>3
<1> QED
  BY <1>2, <1>4 DEF st, MakesUp

\* Those of the first one, with DAIM and with the baseline.
LEMMA DeltasMakeUp ==
    ASSUME ShotInv, shot.status = "confirmed"
    PROVE  MakesUp(StageDeltas(shot), DeltaSum(StageDeltas(shot)), shot.end - shot.ts["dispatch"])
<1> DEFINE st == StageDeltas(shot)
<1>1. /\ st.controller >= 0 /\ st.interop >= 0 /\ st.decision >= 0 /\ st.table_write >= 0
      /\ st.install_call >= 0 /\ st.c_exit_tail >= 0 /\ st.packetout >= 0 /\ st.confirm >= 0
      /\ DeltaSum(st) = shot.end - shot.ts["dispatch"]
  <2>1. CASE shot.mode # "reactive_osken"
    BY <2>1, DaimStamps DEF StageDeltas, DeltaSum
  <2>2. CASE shot.mode = "reactive_osken"
    <3>1. /\ OskenMarks[1] = "dispatch" /\ OskenMarks[2] = "parse" /\ OskenMarks[3] = "state"
          /\ OskenMarks[4] = "decision" /\ OskenMarks[5] = "flowmod" /\ OskenMarks[6] = "packetout"
      BY DEF OskenMarks
    <3>2. /\ shot.ts["dispatch"] \in Nat /\ shot.ts["parse"] \in Nat /\ shot.ts["decision"] \in Nat
          /\ shot.ts["flowmod"] \in Nat /\ shot.ts["packetout"] \in Nat /\ shot.end \in Nat
          /\ shot.ts["packetout"] <= shot.end
      BY <2>2, <3>1, OskenRow
    <3>3. /\ shot.ts["dispatch"] <= shot.ts["parse"] /\ shot.ts["parse"] <= shot.ts["decision"]
          /\ shot.ts["decision"] <= shot.ts["flowmod"]
          /\ shot.ts["flowmod"] <= shot.ts["packetout"]
      BY <2>2, <3>1, OskenRow
    <3> QED
      BY <2>2, <3>2, <3>3 DEF StageDeltas, DeltaSum
  <2> QED
    BY <2>1, <2>2
<1>2. DOMAIN st = {"controller", "interop", "decision", "table_write", "install_call",
                   "c_exit_tail", "packetout", "confirm"}
  BY DEF StageDeltas
<1> HIDE DEF st
<1>3. \A k \in DOMAIN st : st[k] >= 0
  BY <1>1, <1>2
<1> QED
  BY <1>1, <1>3 DEF st, MakesUp

\* The two programs agree, and the stages make up the latency.
LEMMA InvTimed ==
    ASSUME ShotInv
    PROVE  TimingsAgree
<1>1. CASE shot.status = "confirmed"
  <2>1. OrderValid(shot) /\ EligibleTiming(shot) /\ LatencyNs(shot) = shot.end - shot.ts["dispatch"]
    BY <1>1, ConfirmedIsOrdered DEF EligibleTiming, LatencyNs
  <2>2. shot.ts["dispatch"] <= shot.end
    <3>1. OskenMarks[1] = "dispatch" /\ DaimMarks[1] = "dispatch"
      BY DEF OskenMarks, DaimMarks
    <3> QED
      BY <1>1, <3>1, OskenRow, DaimRow
  <2>3. shot.end \in Nat /\ shot.ts["dispatch"] \in Nat
    <3>1. "dispatch" \in AllMarks
      <4>1. DaimMarks[1] = "dispatch"
        BY DEF DaimMarks
      <4> QED
        BY <4>1, MarksFacts
    <3> QED
      BY <3>1 DEF ShotInv, ShotSet
  <2>4. shot.design = "s56" => shot.end <= shot.deadline /\ ValidTiming(shot)
    <3> SUFFICES ASSUME shot.design = "s56" PROVE shot.end <= shot.deadline /\ ValidTiming(shot)
      OBVIOUS
    <3>1. /\ shot.end <= shot.deadline /\ Len(shot.polls) > 0
          /\ shot.polls[Len(shot.polls)] = "matched"
          /\ \A i \in 1 .. Len(shot.polls) : shot.polls[i] \in {"matched", "unmatched"}
      BY <1>1 DEF ShotInv, Watched
    <3>2. /\ shot.polls \in Seq({"matched", "unmatched", "expired", "failed"})
          /\ DOMAIN shot.polls = 1 .. Len(shot.polls)
      BY LenProperties DEF ShotInv, ShotSet
    <3>3. shot.polls # <<>>
      BY <3>1, EmptySeq
    <3> QED
      BY <1>1, <2>1, <2>2, <2>3, <3>1, <3>2, <3>3 DEF ValidTiming, Last
  <2>5. shot.mode # "reactive_osken" =>
          MakesUp(S56Stages(shot), S56Sum(S56Stages(shot)), LatencyNs(shot))
    BY <1>1, <2>1, S56StagesMakeUp
  <2>6. MakesUp(StageDeltas(shot), DeltaSum(StageDeltas(shot)), shot.end - shot.ts["dispatch"])
    BY <1>1, DeltasMakeUp
  <2> QED
    BY <1>1, <2>1, <2>4, <2>5, <2>6 DEF TimingsAgree
<1>2. CASE shot.status # "confirmed"
  BY <1>2 DEF TimingsAgree, EligibleTiming, ValidTiming
<1> QED
  BY <1>1, <1>2

\* In both measurements the stages of a confirmed packet are its own and make
\* up its latency, and the two programs of the corrected one judge alike:
\* however long a look takes and whatever the budget.
THEOREM TimingsAlwaysAgree == ShotSpec => []TimingsAgree
<1>1. ShotInit => ShotInv
  BY ShotInitHolds
<1>2. ShotInv /\ [ShotNext]_shot => ShotInv'
  BY TimingAssumption, ShotStepHolds
<1>3. ShotInv => TimingsAgree
  BY InvTimed
<1> QED
  BY <1>1, <1>2, <1>3, PTL DEF ShotSpec

-----------------------------------------------------------------------------
(* Trial and collection as parts of one system *)

TrialSide == NoTrial \/ (TrialInv /\ Shape /\ Placed)
CollectSide == NoCollection \/ (CollectInv /\ Graded)
ShotSide == NoShot \/ ShotInv

\* A trial that does not take place stays out of the way.
LEMMA NoTrialStays ==
    ASSUME NoTrial, [TrialNext]_trialvars
    PROVE  NoTrial'
<1>1. pc = "none" /\ world = World("down", FALSE)
  BY DEF NoTrial
<1>2. world.service = "down" /\ ~world.native
  BY <1>1 DEF World
<1>3. ~TrialNext
  BY <1>1, <1>2 DEF TrialNext, ServiceBoots, ServiceDies, SwitchConnects, NativeRepairs, WindowEnds, Listen,
       Connect, Warm, Batch, Baseline, InjectLink, InjectSwitch, InjectController, InjectMove,
       During, Restore, CheckDuring, Recover, Cleanup
<1>4. UNCHANGED trialvars
  BY <1>3
<1> QED
  BY <1>4 DEF NoTrial, trialvars

\* Nor does a collection that does not.
LEMMA NoCollectionStays ==
    ASSUME NoCollection, [CollectNext]_colvars
    PROVE  NoCollection'
<1>1. kind = "none" /\ at = "off" /\ run = 0 /\ stops = 0
  BY DEF NoCollection, Kept
<1>2. ~CollectNext
  BY <1>1 DEF CollectNext, Resume, StartAnew, StartMonitor, StartVerification, StartOfficial,
       TryAgain, Skip, RunTrial, AppendRecord, Truncate, WriteRows, Finish, Kill, PowerLoss,
       EditCode, Begin
<1>3. UNCHANGED colvars
  BY <1>2
<1> QED
  BY <1>3 DEF NoCollection, Kept, NoGate, colvars

\* Nor a Packet-In that is not timed.
LEMMA NoShotStays ==
    ASSUME NoShot, [ShotNext]_shot
    PROVE  NoShot'
<1>1. shot.status = "none"
  BY DEF NoShot
<1>2. ~ShotNext
  BY <1>1 DEF ShotNext, Stamp, Observe, PollV1, PollS56, GiveUp, Looking
<1> QED
  BY <1>2 DEF NoShot

\* Each part is where its own specification leads.
LEMMA SidesHold == StudySpec => [](TrialSide /\ CollectSide /\ ShotSide)
<1>1. StudyInit => TrialSide /\ CollectSide /\ ShotSide
  BY TrialInitHolds, ShapeInitHolds, PlacedInit, CollectInitHolds, GradedInit, ShotInitHolds,
     TrialAssumption, CollectAssumption
     DEF StudyInit, TrialSide, CollectSide, ShotSide
<1>2. TrialSide /\ CollectSide /\ ShotSide /\ [StudyNext]_studyvars
        => (TrialSide /\ CollectSide /\ ShotSide)'
  <2>1. SUFFICES ASSUME TrialSide, CollectSide, ShotSide, [StudyNext]_studyvars
                 PROVE  TrialSide' /\ CollectSide' /\ ShotSide'
    OBVIOUS
  <2>2. [TrialNext]_trialvars /\ [CollectNext]_colvars /\ [ShotNext]_shot
    BY <2>1 DEF StudyNext, studyvars, trialvars, colvars
  <2>3. TrialSide'
    BY <2>1, <2>2, NoTrialStays, TrialStepHolds, ShapeStepHolds, PlacedHolds, TrialAssumption
       DEF TrialSide
  <2>4. CollectSide'
    BY <2>1, <2>2, NoCollectionStays, CollectStepHolds, GradedHolds, CollectAssumption
       DEF CollectSide
  <2>5. ShotSide'
    BY <2>1, <2>2, NoShotStays, ShotStepHolds, TimingAssumption DEF ShotSide
  <2> QED
    BY <2>3, <2>4, <2>5
<1> QED
  BY <1>1, <1>2, PTL DEF StudySpec

\* Under the specification that the runs check: restored means the new
\* instance's work, the audit finds in no record what the collector could have
\* got wrong, and the files are the schedule, whatever the number of probes, trials, failures and stops.
THEOREM StudiesAreSound ==
    StudySpec => [](RestoredByNewService /\ AuditAgrees /\ CollectedIsScheduled)
<1>1. TrialSide => RestoredByNewService /\ AuditAgrees
  <2>1. NoTrial => ~Recorded
    BY DEF NoTrial, Recorded
  <2> QED
    BY <2>1, InvRestored, InvAudited DEF TrialSide, RestoredByNewService, AuditAgrees
<1>2. CollectSide => CollectedIsScheduled
  <2>1. NoCollection => CollectedIsScheduled
    <3>1. DOMAIN <<>> = {}
      BY EmptySeq
    <3> QED
      BY <3>1 DEF NoCollection, Kept, NoGate, CollectedIsScheduled
  <2> QED
    BY <2>1, InvScheduled DEF CollectSide
<1> QED
  BY <1>1, <1>2, SidesHold, PTL

\* Under that specification as well, what an analysis computes rests on
\* trials that belong together and on all that count.
THEOREM StudiesConclude == StudySpec => []ConclusionsRestOnRecords
<1>1. CollectSide => ConclusionsRestOnRecords
  <2>1. NoCollection => ConclusionsRestOnRecords
    <3>1. ASSUME NoCollection PROVE \A f, a, b : Differences(f, a, b) = {}
      BY <3>1 DEF NoCollection, Differences
    <3> QED
      BY <3>1 DEF NoCollection, ConclusionsRestOnRecords, PairsAreFair, AcceptedIsOfficial,
                  RatesHaveTheirTrials
  <2> QED
    BY <2>1, CollectAssumption, AnalysisAssumption, InvPairs, InvAccepted, InvWhole
       DEF CollectSide, ConclusionsRestOnRecords
<1> QED
  BY <1>1, SidesHold, PTL

\* And no confirmed Packet-In has a time before its cause, a stage below
\* nothing, or stages that do not make up its total.
THEOREM StudiesAreTimed == StudySpec => []TimingsAgree
<1>1. ShotSide => TimingsAgree
  <2>1. NoShot => TimingsAgree
    BY DEF NoShot, TimingsAgree
  <2> QED
    BY <2>1, InvTimed, TimingAssumption DEF ShotSide
<1> QED
  BY <1>1, SidesHold, PTL

\* The shape of the state under that specification, for every bound.
THEOREM StudyTypes == StudySpec => []TypeOK
<1>1. TrialSide => TrialTypeOK
  <2>1. NoTrial => TrialTypeOK
    <3>1. Len(<<>>) = 0 /\ 0 \in 0 .. MaxTroubles
      BY TrialAssumption DEF TrialAssumption
    <3> QED
      BY <3>1, TrialAssumption DEF NoTrial, World, NoRecord, TrialTypeOK, TrialAssumption
  <2> QED
    BY <2>1, InvTrialTypes DEF TrialSide
<1>2. CollectSide => CollectTypeOK
  <2>1. NoCollection => CollectTypeOK
    <3>1. <<>> \in Seq(Records) /\ 0 \in 0 .. Len(<<>>) /\ 0 \in 0 .. Trials
      <4>1. <<>> \in Seq(Records) /\ Len(<<>>) = 0
        BY EmptySeq
      <4> QED
        BY <4>1, CollectAssumption DEF CollectAssumption
    <3> QED
      BY <3>1 DEF NoCollection, Kept, NoGate, CollectTypeOK
  <2>2. CollectInv => CollectTypeOK
    BY DEF CollectInv, CollectionTypes, CollectTypeOK, GateSet
  <2> QED
    BY <2>1, <2>2 DEF CollectSide
<1> QED
  BY <1>1, <1>2, SidesHold, PTL DEF TypeOK
=============================================================================
