---------------------------- MODULE Controllers -----------------------------
(***************************************************************************)
(* The Os-Ken applications that control the emulated switches: the one     *)
(* around DAIM Core (daim_bridge_controller.py, through                    *)
(* daim_core_bridge.py), the reactive baseline and the learning switch     *)
(* without DAIM, and the corrected measurement controller of section 5.6   *)
(* (s56_corrected_controller.py with s56_measurement.py).                  *)
(*                                                                         *)
(* Os-Ken serves the events of an application one after the other, in the  *)
(* order of the channel.  The adapter is built, readiness is announced and *)
(* the control socket is served by threads of their own.  ctl is the       *)
(* running controller process; ctl.lines is what it has printed, and       *)
(* ctl.faults bounds the external commands that may still fail.            *)
(***************************************************************************)
EXTENDS Fabric, SequencesExt

VARIABLE ctl

\* env: TARGET_IP, LOAD_PROFILE_SIGNAL_IP and the S56 configuration (0: unset).
NoEnv == [target |-> 0, signal |-> 0, id |-> 0, seq |-> 0,
          absent |-> FALSE, wrongport |-> FALSE]

NoCap == [pkt |-> Packet("none", 0, 0, 0, 0), sw |-> "", in |-> 0, out |-> 0,
          name |-> "", installed |-> FALSE]

NoController ==
    [prog |-> "none", mode |-> "none", env |-> NoEnv, alive |-> FALSE, life |-> 0,
     core |-> "none", missed |-> {}, ofReady |-> FALSE, announced |-> FALSE,
     named |-> {}, stations |-> {}, flows |-> 0, captured |-> FALSE,
     reported |-> FALSE, armed |-> FALSE, pc |-> "idle", cap |-> NoCap,
     late |-> FALSE, snap |-> "none", seen |-> FALSE, faults |-> 0,
     lostWhenReady |-> FALSE, lines |-> <<>>]

\* The process starts.  Process-per-rule builds the bridge in the
\* constructor, persistent in a thread; the baselines have none.
NewController(prog, mode, env, old) ==
    [NoController EXCEPT !.prog = prog, !.mode = mode, !.env = env,
        !.alive = TRUE, !.life = old.life + 1, !.faults = old.faults,
        !.core = IF mode = "persistent" THEN "none" ELSE "built"]

Emit(c, e) == [c EXCEPT !.lines = Append(@, e)]
Emitted(name) == {i \in DOMAIN ctl.lines : ctl.lines[i].event = name}

Busy == ctl.pc # "idle"

\* The next event of the controller's queue, when its handler is free.
Served(type) ==
    /\ ctl.alive /\ ~Busy
    /\ net.pin # <<>> /\ Head(net.pin).type = type

Consumed == [net EXCEPT !.pin = Tail(@)]

-----------------------------------------------------------------------------
(* Connections *)

\* The switches find their controller: Hello, then Switch Features.
SwitchesConnect ==
    /\ net.up /\ ~net.conn /\ ctl.alive
    /\ net' = [net EXCEPT !.conn = TRUE,
                          !.pin = @ \o SetToSeq({[type |-> "features", sw |-> s] :
                                            s \in Switches(net.topo)})]
    /\ UNCHANGED ctl

\* _build_persistent_adapter: the adapter waits for the switch's second
\* connection and gives up after persistent_timeout seconds.
AdapterBuilt ==
    /\ ctl.alive /\ ctl.mode = "persistent" /\ ctl.core = "none"
    /\ \/ net.up /\ ctl' = [ctl EXCEPT !.core = "built"]
       \/ ctl.faults > 0 /\ ctl' = [ctl EXCEPT !.core = "failed", !.faults = @ - 1]
    /\ UNCHANGED net

-----------------------------------------------------------------------------
(* Bridge names.  ovs-vsctl may find none: then the datapath id is used,   *)
(* which no ovs-ofctl command accepts, and nothing is cached.              *)

DatapathId(sw) == IF sw = "s1" THEN "0001" ELSE "0002"

\* The faults a step may see: none, or one while there is one left.
Fault == IF ctl.faults > 0 THEN {0, 1} ELSE {0}

ResolveBridgeName(c, sw, f) ==
    IF sw \in c.named \/ f = 0
    THEN [c EXCEPT !.named = @ \cup {sw}] ELSE [c EXCEPT !.faults = @ - 1]

BridgeName(c, sw) == IF sw \in c.named THEN sw ELSE DatapathId(sw)

-----------------------------------------------------------------------------
(* Switch Features: the table-miss rule, and what each program does more   *)

TableMiss(sw) == [type |-> "miss", sw |-> sw]
Barrier(sw) == [type |-> "barrier", sw |-> sw]

\* osken_direct_baseline_controller.features: the rule under test.
DirectRule(sw) ==
    [type |-> "flow", rule |-> [sw |-> sw, in |-> AnyPort, dst |-> IPOnly,
                                out |-> FLOOD, life |-> ctl.life, id |-> 0]]

FeatureMessages(sw) ==
    CASE ctl.prog = "s56" -> <<TableMiss(sw), Barrier(sw)>>
      [] ctl.prog = "direct" -> <<DirectRule(sw), Barrier(sw)>>
      [] OTHER -> <<TableMiss(sw)>>

Features ==
    /\ Served("features")
    /\ LET sw == Head(net.pin).sw IN
       /\ net' = [Consumed EXCEPT !.out = @ \o FeatureMessages(sw)]
       /\ \E f \in Fault :
            LET c == IF ctl.prog \in {"bridge", "osken"}
                     THEN ResolveBridgeName(ctl, sw, f) ELSE ctl
            IN ctl' = IF ctl.prog = "osken"
                      THEN Emit([c EXCEPT !.missed = @ \cup {sw}], [event |-> "ready"])
                      ELSE [c EXCEPT !.missed = @ \cup {sw}]

\* The Barrier Reply says that the rule before it is in place: s56 is ready
\* for the switch, the direct baseline reports its measurement.
BarrierReply ==
    /\ Served("barrier")
    /\ net' = Consumed
    /\ ctl' = IF ctl.prog = "direct" THEN Emit(ctl, [event |-> "flow_confirmed"])
              ELSE [ctl EXCEPT !.ofReady = TRUE]

\* Fault: the table-miss rule is enough.
AnnouncesEarly ==
    /\ ctl.alive /\ ctl.prog \in {"bridge", "s56"} /\ ~ctl.announced
    /\ ctl.missed # {}
    /\ ctl' = Emit([ctl EXCEPT !.announced = TRUE], [event |-> "ready"])
    /\ UNCHANGED net

\* _announce_when_ready, and the ready thread of s56, which may give up.
Announces ==
    /\ ctl.alive /\ ctl.prog \in {"bridge", "s56"} /\ ~ctl.announced
    /\ LET c == [ctl EXCEPT !.announced = TRUE] IN
       \/ /\ ctl.core = "failed"
          /\ ctl' = Emit(c, [event |-> "adapter_error"])
       \/ /\ ctl.core = "built"
          /\ IF ctl.prog = "bridge" THEN ctl.missed # {} ELSE ctl.ofReady
          /\ ctl' = Emit(c, [event |-> "ready"])
       \/ /\ ctl.prog = "s56" /\ (ctl.core = "none" \/ ~ctl.ofReady)
          /\ ctl' = c
    /\ UNCHANGED net

-----------------------------------------------------------------------------
(* The decision: learn the source, look up the destination, install a rule *)
(* for a known one.  This is LearningApp's event in one step (its lock is  *)
(* held throughout), and the same in the Python of the baselines.          *)

Learn(c, name, pkt, in) ==
    [c EXCEPT !.stations =
        {s \in @ : s[1] # name \/ s[2] # pkt.src} \cup {<<name, pkt.src, in>>}]

Lookup(c, name, dst) ==
    LET known == {s \in c.stations : s[1] = name /\ s[2] = dst}
    IN IF known = {} THEN FLOOD ELSE (CHOOSE s \in known : TRUE)[3]

\* Fault: the rule is made for the source.
FlowForSource(c, ev, out) ==
    [sw |-> ev.sw, in |-> ev.in, dst |-> ev.pkt.src, out |-> out,
     life |-> c.life, id |-> ev.pkt.id]

FlowFor(c, ev, out) ==
    [sw |-> ev.sw, in |-> ev.in, dst |-> EthDst(ev.pkt), out |-> out,
     life |-> c.life, id |-> ev.pkt.id]

PacketOut(ev, out) ==
    <<[type |-> "packet", sw |-> ev.sw, in |-> ev.in, port |-> out, pkt |-> ev.pkt]>>

\* The adapter's flow_add: ovs-ofctl ends with the rule in place or with an
\* error; the persistent adapter has only sent it.  The baselines use the
\* controller's own channel, ahead of the Packet-Out.
Installs(n, c, ev, name, out, f) ==
    LET rule == FlowFor(c, ev, out) IN
    IF out = FLOOD THEN n
    ELSE CASE c.mode = "osken" ->
                [n EXCEPT !.out = Append(@, [type |-> "flow", rule |-> rule])]
           [] c.mode = "persistent" -> [n EXCEPT !.adp = Append(@, rule)]
           [] OTHER -> IF name = ev.sw /\ f = 0
                       THEN [n EXCEPT !.rules = AddRule(@, rule)] ELSE n

\* One Packet-In through the learning code, from the name to the Packet-Out.
Handles(c, ev, name, f) ==
    LET learned == Learn(c, name, ev.pkt, ev.in)
        out == Lookup(learned, name, EthDst(ev.pkt))
        failed == c.mode = "ppr" /\ (name # ev.sw \/ f = 1)
    IN /\ net' = [Installs(Consumed, c, ev, name, out, f) EXCEPT
                    !.out = @ \o PacketOut(ev, out)]
       /\ ctl' = [learned EXCEPT
                    !.flows = IF out # FLOOD /\ ~failed THEN @ + 1 ELSE @,
                    !.faults = IF out # FLOOD THEN @ - f ELSE @,
                    !.cap = IF c.pc = "idle" THEN @
                            ELSE [pkt |-> ev.pkt, sw |-> ev.sw, in |-> ev.in,
                                  out |-> out, name |-> name,
                                  installed |-> out # FLOOD]]

-----------------------------------------------------------------------------
(* Packet-In handlers *)

\* daim_bridge_controller.packet_in: the first IP packet to TARGET_IP is the
\* captured one, whatever becomes of it.  Without a bridge the call raises
\* and the packet is lost.
BridgePacketIn ==
    /\ ctl.prog = "bridge" /\ Served("packet")
    /\ LET ev == Head(net.pin)
           capture == ~ctl.captured /\ IsIP(ev.pkt) /\ ev.pkt.to = ctl.env.target
           signal == /\ ~ctl.reported /\ IsIP(ev.pkt)
                     /\ ev.pkt.src = ctl.env.signal
       IN \E f \in Fault :
            LET named == ResolveBridgeName(ctl, ev.sw, f)
                c == [named EXCEPT !.captured = @ \/ capture]
                used == ctl.faults - named.faults
            IN IF ctl.core # "built"
               THEN /\ net' = Consumed
                    /\ ctl' = [c EXCEPT !.lostWhenReady = @ \/
                                  Emitted("ready") # {}]
               ELSE Handles([c EXCEPT !.pc = CASE capture -> "confirm"
                                              [] signal -> "profile"
                                              [] OTHER -> "idle"],
                            ev, BridgeName(named, ev.sw), f - used)

\* osken_reactive_baseline_controller.packet_in, and the learning switch
\* (osken_learning_controller.py), which captures nothing.  A captured packet
\* has its bridge's name looked up once more: where that fails the dumps list no
\* rules, as where they fail themselves (Confirms).
BaselinePacketIn ==
    /\ ctl.prog \in {"osken", "learning"} /\ Served("packet")
    /\ LET ev == Head(net.pin)
           capture == /\ ctl.prog = "osken" /\ ~ctl.captured
                      /\ IsIP(ev.pkt) /\ ev.pkt.to = ctl.env.target
                      /\ Lookup(Learn(ctl, ev.sw, ev.pkt, ev.in), ev.sw,
                                EthDst(ev.pkt)) # FLOOD
       IN Handles([ctl EXCEPT !.captured = @ \/ capture,
                              !.pc = IF capture THEN "confirm" ELSE "idle"],
                  ev, ev.sw, 0)

\* _report_timing and the loop of the baseline: dump-flows until some rule
\* has the captured destination, whatever its port, for at most 3 seconds.
\* A bridge name that does not exist lists no rules.
Timing(confirmed) ==
    [event |-> "timing", pkt |-> ctl.cap.pkt, in |-> ctl.cap.in,
     installed |-> ctl.cap.installed, confirmed |-> confirmed,
     status |-> "none", seen |-> confirmed]

Confirms ==
    /\ ctl.alive /\ ctl.pc = "confirm"
    /\ LET there == \E r \in net.rules :
                       r.dst = ctl.cap.pkt.to /\ r.sw = ctl.cap.name
       IN \E f \in Fault :
            ctl' = [Emit(ctl, Timing(there /\ f = 0)) EXCEPT !.pc = "idle",
                                                            !.faults = @ - f]
    /\ UNCHANGED net

\* _report_load_profile: once, with the number of rules installed so far.
ReportsLoadProfile ==
    /\ ctl.alive /\ ctl.pc = "profile"
    /\ ctl' = [Emit(ctl, [event |-> "load_profile", flows |-> ctl.flows])
                 EXCEPT !.pc = "idle", !.reported = TRUE]
    /\ UNCHANGED net

-----------------------------------------------------------------------------
(* s56: the gate, the handler and the observer *)

\* Fault: the gate compares addresses, not the numbers of the one echo.
IdentityByAddress(pkt, in, env) ==
    /\ pkt.kind = "echo" /\ pkt.src = 1 /\ pkt.to = 2 /\ in = 1

\* identity_matches: every field of the identity, here those that differ
\* between the packets of a trial.
IdentityMatches(pkt, in, env) ==
    /\ pkt.kind = "echo" /\ pkt.src = 1 /\ pkt.to = 2 /\ in = 1
    /\ pkt.id = env.id /\ pkt.seq = env.seq

\* CaptureGate.accept
GateAccepts(c, ev) ==
    c.armed /\ ~c.captured /\ IdentityMatches(ev.pkt, ev.in, c.env)

\* s56_corrected_controller.packet_in: nothing happens before the adapter is
\* ready, and the gate decides before the packet is handled.
S56PacketIn ==
    /\ ctl.prog = "s56" /\ Served("packet")
    /\ LET ev == Head(net.pin)
           captured == GateAccepts(ctl, ev)
       IN IF ctl.core # "built"
          THEN net' = Consumed /\ UNCHANGED ctl
          ELSE \E f \in (IF ctl.mode = "ppr" THEN Fault ELSE {0}) :
                 Handles([ctl EXCEPT !.captured = @ \/ captured,
                            !.pc = IF captured THEN "observe" ELSE "idle",
                            !.late = FALSE, !.seen = FALSE],
                         ev, ev.sw, f)

\* expected_rule and has_rule: the exact rule, its output port included.
Expected(c) == [in |-> c.cap.in, dst |-> EthDst(c.cap.pkt),
                out |-> IF c.env.wrongport THEN 3 ELSE 2]
HasRule(rules, w) ==
    \E r \in rules : r.in = w.in /\ r.dst = w.dst /\ r.out = w.out

\* The deadline of the observation passes.
ObserverDeadline ==
    /\ ctl.alive /\ ctl.pc \in {"observe", "polled"} /\ ~ctl.late
    /\ ctl' = [ctl EXCEPT !.late = TRUE]
    /\ UNCHANGED net

\* dump_once: the table as it is now, a failing command, or one cut off.
ObserverPolls ==
    /\ ctl.alive /\ ctl.pc = "observe" /\ ~ctl.late
    /\ \E f \in Fault :
         ctl' = [ctl EXCEPT !.pc = "polled", !.faults = @ - f,
                   !.snap = IF ctl.env.absent THEN "nonzero_exit"
                            ELSE IF f = 1 THEN "expired"
                            ELSE IF HasRule(net.rules, Expected(ctl))
                            THEN "matched" ELSE "rules",
                   !.seen = HasRule(net.rules, Expected(ctl))]
    /\ UNCHANGED net

\* observe: what the poll is worth once it has ended.
Outcome(c) ==
    CASE c.snap = "expired" /\ c.late -> "timed_out"
      [] c.snap \in {"expired", "nonzero_exit"} -> "tool_error"
      [] c.snap = "matched" /\ ~c.late -> "confirmed"
      [] c.late -> "timed_out"
      [] OTHER -> "again"

\* The record has the last poll's rules, whatever it was worth.
ObserverEnds ==
    /\ ctl.alive
    /\ ctl.pc = "polled" \/ (ctl.pc = "observe" /\ ctl.late)
    /\ LET status == IF ctl.pc = "polled" THEN Outcome(ctl) ELSE "timed_out" IN
       ctl' = IF status = "again" THEN [ctl EXCEPT !.pc = "observe"]
              ELSE [Emit(ctl, [Timing(status = "confirmed") EXCEPT
                                 !.status = status, !.seen = ctl.seen])
                    EXCEPT !.pc = "idle"]
    /\ UNCHANGED net

ControllerNext ==
    \/ SwitchesConnect \/ AdapterBuilt
    \/ Features \/ BarrierReply \/ Announces
    \/ BridgePacketIn \/ BaselinePacketIn \/ S56PacketIn
    \/ Confirms \/ ReportsLoadProfile
    \/ ObserverDeadline \/ ObserverPolls \/ ObserverEnds

=============================================================================
