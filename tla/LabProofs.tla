----------------------------- MODULE LabProofs ------------------------------
(***************************************************************************)
(* The other layers of the inductive invariant of Lab, each proved from    *)
(* those before it: which controller is alive (3), what the watchdog       *)
(* guards (4), what a corrected measurement records and counts (5) and     *)
(* what a recovery shows (6); the invariant as a theorem, and the safety   *)
(* properties of Lab that follow from it.                                  *)
(***************************************************************************)
EXTENDS LabMachineProofs

-----------------------------------------------------------------------------
(* Layer 3: which controller is alive, and what the driver has read of it *)

\* What a controller may print, given what it is.
Sayable(e) ==
    /\ e.event = "ready" => ctl.prog = "osken" \/ ctl.core = "built"
    /\ e.event = "timing" => ctl.pc \in {"confirm", "observe", "polled"}
    /\ ctl.prog = "direct" /\ ctl.pc = "idle" => e.event = "flow_confirmed"

Said ==
    /\ ctl'.lines = ctl.lines \/ \E e \in Lines : ctl'.lines = Append(ctl.lines, e) /\ Sayable(e)
    /\ ctl'.core = ctl.core \/ ctl.core = "none"
    /\ ctl'.lostWhenReady => \/ ctl.lostWhenReady
                             \/ /\ ctl.prog = "bridge" /\ ctl.core # "built"
                                /\ Emitted("ready") # {}
    /\ ctl.prog = "direct" /\ ctl.pc = "idle" => ctl'.pc = "idle"
    /\ ctl.alive

\* A controller that does not serve a message announces itself at most once, with its
\* adapter or without needing one, or prints its record.
LEMMA SaysAlone ==
  ASSUME NEW t, IsController(ctl, t), Occupied(ctl), Alone
  PROVE  Said
<1>0. /\ ctl.lostWhenReady \in BOOLEAN /\ ctl.faults \in Int
      /\ ctl.pc \in {"idle", "confirm", "profile", "observe", "polled"}
      /\ {"lines", "core", "lostWhenReady", "pc", "announced", "faults", "reported", "late",
          "snap", "seen"} \subseteq DOMAIN ctl
  BY DEF IsController
<1>1. CASE AdapterBuilt
  BY <1>0, <1>1 DEF AdapterBuilt, Said, IsController
<1>2. CASE Announces
  <2> DEFINE c == [ctl EXCEPT !.announced = TRUE]
  <2>1. c.lines = ctl.lines /\ c.core = ctl.core /\ c.lostWhenReady = ctl.lostWhenReady
        /\ c.pc = ctl.pc /\ {"lines", "core", "lostWhenReady", "pc"} \subseteq DOMAIN c
    BY DEF IsController
  <2>2. /\ ctl.alive /\ ctl.prog \in {"bridge", "s56"}
        /\ \/ ctl' = Emit(c, [event |-> "adapter_error"])
           \/ ctl.core = "built" /\ ctl' = Emit(c, [event |-> "ready"])
           \/ ctl' = c
    BY <1>2 DEF Announces
  <2>3. [event |-> "adapter_error"] \in Lines /\ [event |-> "ready"] \in Lines
    BY DEF Lines
  <2> HIDE DEF c
  <2>4. \A e : LET d == Emit(c, e) IN /\ d.lines = Append(ctl.lines, e) /\ d.core = ctl.core
                                      /\ d.lostWhenReady = ctl.lostWhenReady /\ d.pc = ctl.pc
    BY <2>1 DEF Emit
  <2>5. CASE ctl' = c
    BY <2>1, <2>2, <2>5 DEF Said
  <2>6. CASE ctl' = Emit(c, [event |-> "adapter_error"])
    <3>1. Sayable([event |-> "adapter_error"])
      BY <2>2 DEF Sayable
    <3> QED
      BY <2>2, <2>3, <2>4, <2>6, <3>1 DEF Said
  <2>7. CASE ctl.core = "built" /\ ctl' = Emit(c, [event |-> "ready"])
    <3>1. Sayable([event |-> "ready"])
      BY <2>2, <2>7 DEF Sayable
    <3> QED
      BY <2>2, <2>3, <2>4, <2>7, <3>1 DEF Said
  <2> QED
    BY <2>2, <2>5, <2>6, <2>7
<1>3. ASSUME NEW e \in Lines, Sayable(e), NEW pc, NEW faults, NEW reported, ctl.alive, ctl.pc # "idle",
             \/ ctl' = [Emit(ctl, e) EXCEPT !.pc = "idle", !.faults = faults]
             \/ ctl' = [Emit(ctl, e) EXCEPT !.pc = "idle", !.reported = TRUE]
             \/ ctl' = [Emit(ctl, e) EXCEPT !.pc = "idle"]
      PROVE  Said
  <2> DEFINE d == Emit(ctl, e)
  <2>1. /\ d.lines = Append(ctl.lines, e) /\ d.core = ctl.core /\ d.lostWhenReady = ctl.lostWhenReady
        /\ {"lines", "core", "lostWhenReady", "pc"} \subseteq DOMAIN d
    BY <1>0 DEF Emit
  <2> HIDE DEF d
  <2>2. /\ ctl'.lines = d.lines /\ ctl'.core = d.core /\ ctl'.lostWhenReady = d.lostWhenReady
    BY <1>3, <2>1 DEF d
  <2> QED
    BY <1>3, <2>1, <2>2 DEF Said
<1>4. \A b \in BOOLEAN : Timing(b).event = "timing"
  BY DEF Timing
<1>5. CASE Confirms
  <2>0. ctl.alive /\ ctl.pc = "confirm"
    BY <1>5 DEF Confirms
  <2> DEFINE Sees(f) == (\E r \in net.rules : r.dst = ctl.cap.pkt.to /\ r.sw = ctl.cap.name) /\ f = 0
             Saying(b, n) == [Emit(ctl, Timing(b)) EXCEPT !.pc = "idle", !.faults = @ - n]
  <2>a. PICK f \in Fault : ctl' = Saying(Sees(f), f)
    BY <1>5 DEF Confirms
  <2> DEFINE b == Sees(f)
  <2>b. b \in BOOLEAN
    OBVIOUS
  <2> HIDE DEF Sees
  <2>1. ctl' = [Emit(ctl, Timing(b)) EXCEPT !.pc = "idle", !.faults = ctl.faults - f]
    BY <1>0, <2>a DEF Emit
  <2> HIDE DEF b
  <2>2. Timing(b) \in Lines
    BY <2>0, <2>b, TimingTyped DEF Occupied
  <2>3. Sayable(Timing(b))
    BY <1>4, <2>0, <2>b DEF Sayable
  <2> QED
    BY <1>3, <2>0, <2>1, <2>2, <2>3
<1>6. CASE ReportsLoadProfile
  <2> DEFINE e == [event |-> "load_profile", flows |-> ctl.flows]
  <2>1. e \in Lines
    BY DEF Lines, IsController
  <2>2. ctl.alive /\ ctl.pc = "profile"
        /\ ctl' = [Emit(ctl, e) EXCEPT !.pc = "idle", !.reported = TRUE]
    BY <1>6 DEF ReportsLoadProfile
  <2>3. Sayable(e)
    BY <2>2 DEF Sayable
  <2> HIDE DEF e
  <2> QED
    BY <1>3, <2>1, <2>2, <2>3
<1>7. CASE ObserverDeadline
  BY <1>0, <1>7 DEF ObserverDeadline, Said
<1>8. CASE ObserverPolls
  <2> DEFINE has == HasRule(net.rules, Expected(ctl))
             Snap(f) == IF ctl.env.absent THEN "nonzero_exit" ELSE IF f = 1 THEN "expired"
                        ELSE IF has THEN "matched" ELSE "rules"
             Polled(f, snap) == [ctl EXCEPT !.pc = "polled", !.faults = ctl.faults - f,
                                   !.snap = snap, !.seen = has]
  <2>1. PICK f \in Fault : ctl' = Polled(f, Snap(f))
    BY <1>8 DEF ObserverPolls
  <2>2. ctl.alive /\ ctl.pc = "observe"
    BY <1>8 DEF ObserverPolls
  <2> HIDE DEF has, Snap
  <2> QED
    BY <1>0, <2>1, <2>2 DEF Said
<1>9. CASE ObserverEnds
  <2>1. /\ ctl.alive /\ ctl.pc \in {"polled", "observe"}
        /\ \/ ctl' = [ctl EXCEPT !.pc = "observe"]
           \/ \E status \in {"confirmed", "timed_out", "tool_error"}, seen \in BOOLEAN :
                ctl' = [Emit(ctl, [Timing(status = "confirmed") EXCEPT !.status = status, !.seen = seen])
                          EXCEPT !.pc = "idle"]
    <3> DEFINE status == IF ctl.pc = "polled" THEN Outcome(ctl) ELSE "timed_out"
               seen == ctl.seen
    <3>1. status \in {"confirmed", "timed_out", "tool_error", "again"} /\ seen \in BOOLEAN
      BY DEF Outcome, IsController
    <3>2. /\ ctl.alive /\ ctl.pc \in {"polled", "observe"}
          /\ ctl' = IF status = "again" THEN [ctl EXCEPT !.pc = "observe"]
                    ELSE [Emit(ctl, [Timing(status = "confirmed") EXCEPT !.status = status,
                                       !.seen = seen]) EXCEPT !.pc = "idle"]
      BY <1>9 DEF ObserverEnds
    <3> HIDE DEF status, seen
    <3> QED
      BY <3>1, <3>2
  <2>2. CASE ctl' = [ctl EXCEPT !.pc = "observe"]
    BY <1>0, <2>1, <2>2 DEF Said
  <2>3. ASSUME NEW status \in {"confirmed", "timed_out", "tool_error"}, NEW seen \in BOOLEAN,
               ctl' = [Emit(ctl, [Timing(status = "confirmed") EXCEPT !.status = status, !.seen = seen])
                          EXCEPT !.pc = "idle"]
        PROVE  Said
    <3> DEFINE b == status = "confirmed"
               e == [Timing(b) EXCEPT !.status = status, !.seen = seen]
    <3>1. b \in BOOLEAN
      OBVIOUS
    <3> HIDE DEF b
    <3>2. e \in Lines
      BY <2>1, <3>1, TimingTyped DEF Occupied
    <3>3. e.event = "timing"
      BY <3>1 DEF Timing
    <3>4. Sayable(e)
      BY <2>1, <3>3 DEF Sayable
    <3>5. ctl' = [Emit(ctl, e) EXCEPT !.pc = "idle"]
      BY <2>3 DEF b
    <3> HIDE DEF e
    <3> QED
      BY <1>3, <2>1, <3>2, <3>4, <3>5
  <2> QED
    BY <2>1, <2>2, <2>3
<1> QED
  BY <1>1, <1>2, <1>5, <1>6, <1>7, <1>8, <1>9 DEF Alone

\* A handler that has served a packet, or passed it over, has said nothing.
LEMMA SilentSays ==
  ASSUME NEW c, ctl.alive, ctl.prog # "direct",
         \A x \in {"core", "lostWhenReady", "lines"} : c[x] = ctl[x], ctl' = c
  PROVE  Said
BY DEF Said

\* So does one that serves a message.
LEMMA SaysServing ==
  ASSUME NEW t, NEW A, NEW J, Connected(t), A \subseteq AllPings(t),
         net \in Networks(t, A, Rules(t, A, J)),
         IsController(ctl, t), Serving
  PROVE  Said
<1>0. /\ net.pin \in Seq(Events(t, A))
      /\ {"lines", "core", "lostWhenReady", "pc", "missed"} \subseteq (DOMAIN ctl) \ {"named", "faults"}
      /\ ctl.faults \in Int
  BY DEF Networks, IsController
<1>1. ASSUME NEW type, Served(type)
      PROVE  /\ ctl.alive /\ ctl.pc = "idle" /\ net.pin # <<>>
             /\ Head(net.pin) \in Events(t, A) /\ Head(net.pin).type = type
  BY <1>0, <1>1, HeadTailProperties DEF Served, Busy
<1>2. ASSUME Served("packet")
      PROVE  /\ ctl.alive /\ ctl.pc = "idle" /\ net.pin # <<>>
             /\ Head(net.pin) \in PacketEvents(t, A)
             /\ Head(net.pin).sw \in Sws
  BY <1>2, <1>1 DEF Events, PlainEvents, PacketEvents
<1>3. CASE SwitchesConnect
  BY <1>3 DEF SwitchesConnect, Said
<1>4. CASE Features
  <2> DEFINE sw == Head(net.pin).sw
             Named(f) == IF ctl.prog \in {"bridge", "osken"}
                         THEN ResolveBridgeName(ctl, sw, f) ELSE ctl
             Missed(f) == [Named(f) EXCEPT !.missed = @ \cup {sw}]
             e == [event |-> "ready"]
  <2>1. ctl.alive /\ ctl.pc = "idle" /\ sw \in Sws
    <3>1. Served("features")
      BY <1>4 DEF Features
    <3> QED
      BY <3>1, <1>1 DEF Events, PlainEvents, PacketEvents
  <2>2. PICK f \in Fault : ctl' = IF ctl.prog = "osken" THEN Emit(Missed(f), e) ELSE Missed(f)
    BY <1>4 DEF Features
  <2>3. \A x \in (DOMAIN ctl) \ {"named", "faults"} : Named(f)[x] = ctl[x]
        /\ {"lines", "core", "lostWhenReady", "pc", "missed"} \subseteq DOMAIN Named(f)
    <3>1. f \in Int
      BY FaultIsNumber
    <3>2. IsController(Named(f), t) /\ \A x \in (DOMAIN ctl) \ {"named", "faults"} : Named(f)[x] = ctl[x]
      BY <2>1, <3>1, ResolveTyped
    <3> HIDE DEF Named
    <3>3. {"lines", "core", "lostWhenReady", "pc", "missed"} \subseteq DOMAIN Named(f)
      BY <3>2 DEF IsController
    <3> QED
      BY <3>2, <3>3
  <2> HIDE DEF sw, Named
  <2> DEFINE c == Missed(f)
  <2>4. c.lines = ctl.lines /\ c.core = ctl.core /\ c.lostWhenReady = ctl.lostWhenReady
        /\ c.pc = ctl.pc /\ {"lines", "core", "lostWhenReady", "pc"} \subseteq DOMAIN c
    BY <1>0, <2>3
  <2> HIDE DEF c
  <2>5. Emit(c, e).lines = Append(ctl.lines, e) /\ Emit(c, e).core = ctl.core
        /\ Emit(c, e).lostWhenReady = ctl.lostWhenReady /\ Emit(c, e).pc = ctl.pc
    BY <2>4 DEF Emit
  <2>6. e \in Lines /\ (ctl.prog = "osken" => Sayable(e))
    BY DEF Lines, Sayable
  <2>7. ctl' = IF ctl.prog = "osken" THEN Emit(c, e) ELSE c
    BY <2>2 DEF c
  <2> HIDE DEF e
  <2>8. CASE ctl.prog = "osken"
    BY <2>1, <2>5, <2>6, <2>7, <2>8 DEF Said
  <2>9. CASE ctl.prog # "osken"
    BY <2>1, <2>4, <2>7, <2>9 DEF Said
  <2> QED
    BY <2>8, <2>9
<1>5. CASE BarrierReply
  <2> DEFINE e == [event |-> "flow_confirmed"]
  <2>1. ctl.alive
    BY <1>5, <1>1 DEF BarrierReply
  <2>2. IF ctl.prog = "direct" THEN ctl' = Emit(ctl, e) ELSE ctl' = [ctl EXCEPT !.ofReady = TRUE]
    BY <1>5 DEF BarrierReply
  <2>3. e \in Lines /\ (ctl.prog = "direct" => Sayable(e))
    BY DEF Lines, Sayable
  <2>4. Emit(ctl, e).lines = Append(ctl.lines, e) /\ Emit(ctl, e).core = ctl.core
        /\ Emit(ctl, e).lostWhenReady = ctl.lostWhenReady /\ Emit(ctl, e).pc = ctl.pc
    BY <1>0 DEF Emit
  <2> HIDE DEF e
  <2>5. CASE ctl.prog = "direct"
    BY <2>1, <2>2, <2>3, <2>4, <2>5 DEF Said
  <2>6. CASE ctl.prog # "direct"
    BY <1>0, <2>1, <2>2, <2>6 DEF Said
  <2> QED
    BY <2>5, <2>6
<1>6. CASE BridgePacketIn
  <2> DEFINE ev == Head(net.pin)
             capture == ~ctl.captured /\ IsIP(ev.pkt) /\ ev.pkt.to = ctl.env.target
             signal == ~ctl.reported /\ IsIP(ev.pkt) /\ ev.pkt.src = ctl.env.signal
             ready == Emitted("ready") # {}
             Named(x) == ResolveBridgeName(ctl, ev.sw, x)
             Marked(x) == [Named(x) EXCEPT !.captured = @ \/ capture]
             pc == CASE capture -> "confirm" [] signal -> "profile" [] OTHER -> "idle"
  <2>0. Served("packet") /\ ctl.prog = "bridge"
    BY <1>6 DEF BridgePacketIn
  <2>1. PICK f \in Fault :
          IF ctl.core # "built"
          THEN ctl' = [Marked(f) EXCEPT !.lostWhenReady = @ \/ ready]
          ELSE Handles([Marked(f) EXCEPT !.pc = pc], ev, BridgeName(Named(f), ev.sw),
                       f - (ctl.faults - Named(f).faults))
    BY <1>6 DEF BridgePacketIn
  <2>2. ev \in PacketEvents(t, A) /\ ev.sw \in Sws /\ ctl.alive /\ net.pin # <<>>
    BY <2>0, <1>2
  <2> DEFINE named == Named(f)
             capt == named.captured \/ capture
             c == [named EXCEPT !.captured = capt]
             d == [c EXCEPT !.pc = pc]
             g == f - (ctl.faults - named.faults)
  <2>3. f \in Int
    BY FaultIsNumber
  <2>4. /\ IsController(named, t) /\ named.faults \in Int
        /\ BridgeName(named, ev.sw) \in Names /\ SwitchOf(BridgeName(named, ev.sw)) = ev.sw
        /\ \A x \in (DOMAIN ctl) \ {"named", "faults"} : named[x] = ctl[x]
    BY <2>2, <2>3, ResolveTyped
  <2>5. capt \in BOOLEAN /\ pc \in {"idle", "confirm", "profile"} /\ g \in Int
    BY <1>0, <2>3, <2>4
  <2>7. /\ ctl.core # "built" => ctl' = [c EXCEPT !.lostWhenReady = c.lostWhenReady \/ ready]
        /\ ctl.core = "built" => Handles(d, ev, BridgeName(named, ev.sw), g)
    BY <2>1
  <2>a. ready \in BOOLEAN /\ (ready <=> Emitted("ready") # {})
    OBVIOUS
  <2> HIDE DEF ev, capt, pc, named, Named, ready, g
  <2>9. IsController(d, t)
    BY <2>4, <2>5 DEF IsController
  <2>10. \A x \in {"core", "lostWhenReady", "lines"} : c[x] = ctl[x] /\ d[x] = ctl[x] /\ x \in DOMAIN c
    <3>1. {"core", "lostWhenReady", "lines"} \subseteq (DOMAIN ctl) \ {"named", "faults"}
      BY <1>0
    <3> QED
      BY <2>4, <3>1 DEF IsController
  <2> HIDE DEF c, d
  <2>12. CASE ctl.core # "built"
    <3>1. ctl'.lines = ctl.lines /\ ctl'.core = ctl.core
          /\ ctl'.lostWhenReady = (ctl.lostWhenReady \/ ready)
      BY <2>7, <2>10, <2>12
    <3> QED
      BY <2>0, <2>2, <2>12, <2>a, <3>1 DEF Said
  <2>13. CASE ctl.core = "built"
    <3>1. Handles(d, ev, BridgeName(named, ev.sw), g)
      BY <2>7, <2>13
    <3>2. \A x \in {"core", "lostWhenReady", "lines"} : ctl'[x] = d[x]
      BY <3>1, <2>2, <2>4, <2>5, <2>9, HandlesOnNetwork
    <3> QED
      BY <2>0, <2>2, <2>10, <3>2 DEF Said
  <2> QED
    BY <2>12, <2>13
<1>7. CASE BaselinePacketIn
  <2> DEFINE ev == Head(net.pin)
  <2>0. Served("packet") /\ ctl.prog \in {"osken", "learning"}
    BY <1>7 DEF BaselinePacketIn
  <2>1. ev \in PacketEvents(t, A) /\ ev.sw \in Sws /\ ctl.alive /\ net.pin # <<>>
    BY <2>0, <1>2
  <2>2. PICK capture \in BOOLEAN :
          Handles([ctl EXCEPT !.captured = @ \/ capture,
                              !.pc = IF capture THEN "confirm" ELSE "idle"], ev, ev.sw, 0)
    BY <1>7 DEF BaselinePacketIn
  <2> DEFINE c == [ctl EXCEPT !.captured = ctl.captured \/ capture,
                              !.pc = IF capture THEN "confirm" ELSE "idle"]
  <2>3. Handles(c, ev, ev.sw, 0)
    BY <2>2
  <2> HIDE DEF ev
  <2>4. IsController(c, t)
    BY ZenonT(60) DEF IsController
  <2>5. \A x \in {"core", "lostWhenReady", "lines"} : c[x] = ctl[x]
    BY DEF IsController
  <2> HIDE DEF c
  <2>6. ev.sw \in Names /\ SwitchOf(ev.sw) = ev.sw /\ 0 \in Int
    BY <2>1, NamesOfSwitches
  <2>7. \A x \in {"core", "lostWhenReady", "lines"} : ctl'[x] = c[x]
    BY <2>1, <2>3, <2>4, <2>6, HandlesOnNetwork
  <2> QED
    BY <2>0, <2>1, <2>5, <2>7 DEF Said
<1>8. CASE S56PacketIn
  <2> DEFINE ev == Head(net.pin)
             captured == GateAccepts(ctl, ev)
  <2>0. Served("packet") /\ ctl.prog = "s56"
    BY <1>8 DEF S56PacketIn
  <2>1. ev \in PacketEvents(t, A) /\ ev.sw \in Sws /\ ctl.alive /\ net.pin # <<>>
    BY <2>0, <1>2
  <2> DEFINE c == [ctl EXCEPT !.captured = ctl.captured \/ captured,
                            !.pc = IF captured THEN "observe" ELSE "idle",
                            !.late = FALSE, !.seen = FALSE]
  <2>2. CASE ctl.core # "built"
    BY <1>8, <2>0, <2>1, <2>2 DEF S56PacketIn, Said
  <2>3. CASE ctl.core = "built"
    <3>1. PICK f \in Int : Handles(c, ev, ev.sw, f)
      BY <1>8, <2>3, FaultIsNumber DEF S56PacketIn
    <3>2. captured \in BOOLEAN
      BY DEF GateAccepts, IdentityMatches, IsController
    <3> HIDE DEF ev, captured
    <3>3. IsController(c, t)
      BY ZenonT(60), <3>2 DEF IsController
    <3>4. \A x \in {"core", "lostWhenReady", "lines"} : c[x] = ctl[x]
      BY DEF IsController
    <3> HIDE DEF c
    <3>5. ev.sw \in Names /\ SwitchOf(ev.sw) = ev.sw
      BY <2>1, NamesOfSwitches
    <3>6. \A x \in {"core", "lostWhenReady", "lines"} : ctl'[x] = c[x]
      BY <2>1, <3>1, <3>3, <3>5, HandlesOnNetwork
    <3> QED
      BY <2>0, <2>1, <3>4, <3>6 DEF Said
  <2> QED
    BY <2>2, <2>3
<1> QED
  BY <1>3, <1>4, <1>5, <1>6, <1>7, <1>8 DEF Serving

\* Lines are printed one at a time, and only by the process that runs.
LEMMA ControllerSays ==
  ASSUME NetworkInv, ControllerInv, ControllerNext
  PROVE  Said /\ SameProcess(ctl, ctl')
<1>0. IsController(ctl, Topology) /\ Occupied(ctl)
  BY DEF ControllerInv, Occupied
<1>1. SameProcess(ctl, ctl')
  BY ControllerSteps
<1>2. \/ Alone
      \/ Serving /\ net \in Networks(Topology, Asked, Rules(Topology, Asked, Given(drv.key[1])))
  BY ControllerSteps DEF MyRules
<1> QED
  BY <1>0, <1>1, <1>2, SaysAlone, SaysServing, TopologyFacts

\* What a driver's step does to the processes.
LEMMA OwnStepOnProcess ==
  ASSUME PlaceInv, OwnSteps, ControllerInv
  PROVE  /\ Step.op = "launch" =>
              \/ /\ drv'.own /\ drv'.read = 0
                 /\ ctl' = NewController(Step.prog, Step.mode, Step.env, ctl)
              \/ ~drv'.own /\ drv'.read = drv.read /\ ctl.alive /\ ctl' = ctl
         /\ Step.op # "launch" => /\ ctl'.alive => ctl.alive /\ ctl'.prog = ctl.prog
                                  /\ ctl'.lines = ctl.lines \/ Step.op = "kill"
         /\ Step.op = "kill" => /\ ctl'.alive => ctl.prog # Step.prog
                                /\ Len(ctl'.lines) \in Nat
         /\ Step.op = "stop" /\ drv.own /\ ctl'.alive => Offward(drv, drv')
         /\ Step.op = "terminate" /\ Step.after = "kill" /\ drv.own => ~ctl'.alive
         /\ Step.op = "await" => \/ drv'.read = drv.read
                                 \/ \E i \in DOMAIN Unread : drv.own /\ drv'.read = drv.read + i
<1>0. IsDriver(drv) /\ Placed(drv) /\ Running /\ IsController(ctl, Topology) /\ Framed
  BY OwnStepsFramed DEF PlaceInv, ControllerInv, Framed
<1>a. /\ ~Dead(ctl).alive /\ Dead(ctl).lines = ctl.lines
      /\ LET c == [NoController EXCEPT !.faults = ctl.faults, !.lostWhenReady = ctl.lostWhenReady]
         IN ~c.alive /\ c.lines = <<>>
      /\ LET c == [ctl EXCEPT !.armed = TRUE]
         IN c.alive = ctl.alive /\ c.prog = ctl.prog /\ c.lines = ctl.lines
  <2>1. {"alive", "prog", "lines"} \subseteq (DOMAIN ctl) \ {"armed"}
    BY <1>0 DEF IsController
  <2> QED
    BY <1>0, <2>1, OldControllerTyped
<1>1. CASE Step.op = "launch"
  <2> DEFINE new == NewController(Step.prog, Step.mode, Step.env, ctl)
             mine == [drv EXCEPT !.own = TRUE, !.read = 0]
             other == [drv EXCEPT !.own = FALSE, !.proc = "alive"]
  <2>1. \/ ctl' = new /\ drv' = Forward(mine)
        \/ ctl.alive /\ ctl' = ctl /\ drv' = Forward(other)
    BY <1>1, StepOfKind DEF LaunchStep
  <2>2. /\ IsDriver(mine) /\ mine.key = drv.key /\ mine.st = drv.st /\ mine.pc = drv.pc
        /\ mine.own /\ mine.read = 0
        /\ IsDriver(other) /\ other.key = drv.key /\ other.st = drv.st /\ other.pc = drv.pc
        /\ ~other.own /\ other.read = drv.read
    BY <1>0 DEF IsDriver
  <2> HIDE DEF mine, other, new
  <2>3. Kept(mine, Forward(mine)) /\ Kept(other, Forward(other))
    BY <1>0, <2>2, MovesFrom
  <2>4. \/ ctl' = new /\ drv'.own /\ drv'.read = 0
        \/ ctl.alive /\ ctl' = ctl /\ ~drv'.own /\ drv'.read = drv.read
    BY <2>1, <2>2, <2>3 DEF Kept
  <2> QED
    BY <1>1, <2>4 DEF new
<1>2. CASE Step.op = "kill"
  <2> DEFINE none == [NoController EXCEPT !.faults = ctl.faults, !.lostWhenReady = ctl.lostWhenReady]
  <2>1. IF ctl.alive /\ ctl.prog # Step.prog THEN ctl' = ctl ELSE ctl' = none
    BY <1>2, StepOfKind DEF KillStep
  <2>2. ~none.alive /\ none.lines = <<>>
    BY <1>a
  <2> HIDE DEF none
  <2>3. Len(ctl.lines) \in Nat /\ Len(<<>>) \in Nat
    BY <1>0 DEF IsController
  <2> QED
    BY <1>2, <2>1, <2>2, <2>3
<1>3. CASE Step.op = "stop"
  <2>1. \/ ctl' = Dead(ctl)
        \/ (~drv.own /\ ctl' = ctl)
        \/ ctl' = ctl /\ drv' = Fails(Broken(drv), "raise")
    BY <1>3, StepOfKind DEF StopStep, OwnEnds
  <2>2. Offward(drv, Fails(Broken(drv), "raise"))
    <3> DEFINE d == Broken(drv)
    <3>1. IsDriver(d) /\ d.key = drv.key /\ d.st = drv.st /\ d.pc = drv.pc
      BY <1>0 DEF Broken, IsDriver
    <3> HIDE DEF d
    <3>2. Offward(drv, Fails(d, "raise"))
      BY <1>0, <3>1, MovesFrom
    <3> QED
      BY <3>2 DEF d
  <2> QED
    BY <1>3, <1>a, <2>1, <2>2
<1>4. CASE Step.op = "terminate"
  <2>1. \/ ctl' = Dead(ctl)
        \/ (~drv.own /\ ctl' = ctl)
        \/ ctl' = ctl /\ Step.after # "kill"
    BY <1>4, StepOfKind DEF TerminateStep, OwnEnds
  <2> QED
    BY <1>4, <1>a, <2>1
<1>5. CASE Step.op = "arm"
  <2>1. ctl' = ctl \/ ctl' = [ctl EXCEPT !.armed = TRUE]
    BY <1>5, StepOfKind DEF ArmStep
  <2> QED
    BY <1>5, <1>a, <2>1
<1>6. CASE Step.op = "await"
  <2>1. ctl' = ctl
    BY <1>0, <1>6 DEF Framed
  <2>2. drv'.read = drv.read \/ \E i \in DOMAIN Unread : drv.own /\ drv'.read = drv.read + i
    <3>1. CASE drv' = Fails(drv, Step.else)
      BY <1>0, <3>1, MovesFrom DEF Kept
    <3>2. CASE drv' # Fails(drv, Step.else)
      <4> DEFINE Has(i) == [drv EXCEPT !.got = Gets(Step.as, Unread[i]), !.read = @ + i]
      <4>1. PICK i \in Wanted : drv' = Forward(Has(i))
        BY <1>6, <3>2, StepOfKind DEF AwaitStep
      <4>2. i \in DOMAIN Unread
        BY DEF Wanted
      <4>3. drv.own
        BY <4>2 DEF Unread
      <4> DEFINE got == Gets(Step.as, Unread[i])
                 d == [drv EXCEPT !.got = got, !.read = drv.read + i]
      <4>4. drv' = Forward(d)
        BY <4>1
      <4> HIDE DEF got
      <4>5. IsDriver(d) /\ d.key = drv.key /\ d.st = drv.st /\ d.pc = drv.pc /\ d.read = drv.read + i
        BY <1>0 DEF IsDriver
      <4> HIDE DEF d
      <4>6. Kept(d, Forward(d))
        BY <1>0, <4>5, MovesFrom
      <4> QED
        BY <4>2, <4>3, <4>4, <4>5, <4>6 DEF Kept
    <3> QED
      BY <3>1, <3>2
  <2> QED
    BY <1>6, <2>1, <2>2
<1>7. CASE Step.op \notin {"launch", "kill", "stop", "terminate", "arm", "await"}
  BY <1>0, <1>7 DEF Framed
<1> QED
  BY <1>1, <1>2, <1>3, <1>4, <1>5, <1>6, <1>7

\* Where the drivers that kill what they meet launch their controller and end it.
LEMMA KeyFixed == ASSUME NEW k \in Keys, k[1] \in KillsStrays
  PROVE /\ LaunchAt(k) \in {3, 4} /\ TerminateAt(k) \in {2, 3}
        /\ k[1] = "load" => LaunchAt(k) = 3
        /\ k[1] # "load" => LaunchAt(k) = 4
        /\ StartAt(k) > LaunchAt(k)
BY PlacesOfTrial DEF KillsStrays, TerminateAt

\* Layer 3 at the start: no controller runs.
LEMMA OwnInit == LabInit => OwnInv
<1> SUFFICES ASSUME LabInit, drv.key[1] \in KillsStrays PROVE OwnInv
  BY DEF OwnInv
<1>1. PICK k \in Keys : \E m, n : drv = NewDriver(k, m, n)
  BY DEF LabInit
<1>a. PICK m, n : drv = NewDriver(k, m, n)
  BY <1>1
<1>2. drv.own = TRUE /\ drv.st = "run" /\ drv.pc = 1 /\ drv.key = k
  BY <1>a DEF NewDriver
<1> QED
  BY <1>2, KeyFixed DEF OwnInv, Unmanned, WithoutAt, RestartAt

\* Where a driver of this kind has no controller, nothing runs, whatever an earlier one
\* that was killed left behind.
LEMMA OwnStep ==
  ASSUME PlaceInv, NetworkInv, ControllerInv, OwnInv, [LabNext]_labvars
  PROVE  OwnInv'
<1>0. IsDriver(drv) /\ Placed(drv) /\ drv.key \in Keys /\ IsController(ctl, Topology)
  BY DEF PlaceInv, IsDriver, ControllerInv
<1> SUFFICES ASSUME drv'.key[1] \in KillsStrays PROVE OwnInv'
  BY DEF OwnInv
<1>1. CASE ctl' = ctl /\ drv' = drv
  BY <1>1 DEF OwnInv
<1>2. CASE ControllerNext /\ drv' = drv
  BY <1>2, ControllerSays DEF OwnInv, SameProcess
<1>3. CASE MonitorPings
  BY <1>3, MonitorPlaced DEF OwnInv
<1>4. CASE WatchdogFires
  <2>1. ctl' = ctl \/ ~ctl'.alive
    BY <1>0, <1>4, WatchdogPlaced, OldControllerTyped
  <2> QED
    BY <1>4, <2>1, WatchdogPlaced DEF OwnInv
<1>5. CASE DriverKilled
  <2>1. drv'.own /\ drv'.st = "run" /\ drv'.pc = 1 /\ drv'.key \in Keys
    BY <1>5, KilledPlaced
  <2>2. LaunchAt(drv'.key) \in {3, 4}
    BY <2>1, KeyFixed
  <2> QED
    BY <2>1, <2>2 DEF OwnInv, Unmanned, WithoutAt, RestartAt
<1>6. CASE OwnSteps
  <2> DEFINE k == drv.key
  <2>0. Framed /\ drv'.key = drv.key /\ drv.st # "done" /\ k[1] \in KillsStrays /\ drv.own
    BY <1>0, <1>6, OwnStepsFramed DEF Framed, Running, OwnInv
  <2>1. /\ drv.st = "run" => Fits(k, drv.pc, Step)
        /\ drv.st = "tail" => Step.op \in {"unwatch", "teardown", "terminate"}
        /\ drv.st = "after" => Step.op \in {"check", "row"}
        /\ drv.st \in {"run", "tail", "after"} /\ drv.pc \in Nat
        /\ drv.pc \in 1 .. Len(Code[k][drv.st])
        /\ Ends(k, Code[k].tail, Code[k].after)
    BY <1>0, <2>0, StepFits DEF Step, IsDriver
  <2>2. LaunchAt(k) \in {3, 4} /\ TerminateAt(k) \in {2, 3}
        /\ (k[1] = "load" => LaunchAt(k) = 3) /\ (k[1] # "load" => LaunchAt(k) = 4)
    BY <1>0, <2>0, KeyFixed
  <2>3. /\ Step.op = "launch" => drv'.own \/ ctl.alive
        /\ Step.op # "launch" => drv'.own /\ (ctl'.alive => ctl.alive /\ ctl'.prog = ctl.prog)
        /\ Step.op = "kill" => (ctl'.alive => ctl.prog # Step.prog)
        /\ Step.op = "stop" /\ ctl'.alive => Offward(drv, drv')
        /\ Step.op = "terminate" /\ Step.after = "kill" => ~ctl'.alive
    BY <1>6, <2>0, OwnStepOnProcess DEF Framed
  <2>4. /\ Unmanned(k, drv.st, drv.pc) => ~ctl.alive
        /\ k[1] # "load" /\ drv.st = "run" /\ drv.pc = LaunchAt(k) - 1 /\ ctl.alive => ctl.prog = "osken"
        /\ ctl.alive => ctl.prog \in ProgsOf(k[1])
    BY <2>0 DEF OwnInv, ControllerInv
  <2>5. Step.op = "launch" => drv.st = "run" /\ (drv.pc = LaunchAt(k) \/ (k[1] = "recovery" /\ drv.pc = RestartAt))
    BY <2>1 DEF Fits, Manned
  <2>6. drv'.own
    BY <2>3, <2>4, <2>5 DEF Unmanned, WithoutAt, RestartAt
  <2>7. /\ Code[k].after = <<>> /\ Len(Code[k].tail) = TerminateAt(k) + 1
        /\ drv.st = "tail" /\ drv.pc = TerminateAt(k) => Step = Terminate("kill")
        /\ drv.st = "tail" /\ Step.op = "terminate" => drv.pc = TerminateAt(k)
    BY <2>0, <2>1 DEF Ends, Step
  <2>8. \/ Step.op = "ping" /\ drv' = drv
        \/ Onward(drv, drv')
        \/ /\ Offward(drv, drv')
           /\ Step.op = "terminate" => Step.after = "raise"
    BY <2>0 DEF Framed, At
  <2>9. drv.st = "tail" /\ drv.pc = TerminateAt(k) => ~ctl'.alive
    BY <2>3, <2>7 DEF Terminate
  <2>10. ASSUME drv.st = "run", drv'.st = "run", drv'.pc = drv.pc + 1
         PROVE  /\ drv'.pc = LaunchAt(k) => ~ctl'.alive
                /\ k[1] # "load" /\ drv'.pc = LaunchAt(k) - 1 /\ ctl'.alive => ctl'.prog = "osken"
                /\ k[1] = "recovery" /\ drv'.pc \in WithoutAt - 1 .. RestartAt => ~ctl'.alive
    <3>1. Manned(k, drv.pc, Step)
      BY <2>1, <2>10 DEF Fits
    <3>2. ASSUME drv'.pc = LaunchAt(k) PROVE ~ctl'.alive
      <4>1. drv.pc = LaunchAt(k) - 1
        BY <2>1, <2>2, <2>10, <3>2
      <4>2. Step.op = "kill" /\ Step.prog = IF k[1] = "load" THEN "bridge" ELSE "osken"
        BY <2>0, <3>1, <4>1 DEF Manned
      <4>3. k[1] = "load" => ProgsOf(k[1]) = {"bridge"}
        BY DEF ProgsOf
      <4> QED
        BY <2>3, <2>4, <2>10, <4>1, <4>2, <4>3
    <3>3. ASSUME k[1] # "load", drv'.pc = LaunchAt(k) - 1, ctl'.alive PROVE ctl'.prog = "osken"
      <4>1. drv.pc = LaunchAt(k) - 2
        BY <2>1, <2>2, <2>10, <3>3
      <4>2. Step.op = "kill" /\ Step.prog = "bridge"
        BY <2>0, <3>1, <3>3, <4>1 DEF Manned
      <4>3. ProgsOf(k[1]) = {"bridge", "osken"}
        BY <2>0, <3>3 DEF ProgsOf, KillsStrays
      <4> QED
        BY <2>3, <2>4, <3>3, <4>2, <4>3
    <3>4. ASSUME k[1] = "recovery", drv'.pc \in WithoutAt - 1 .. RestartAt PROVE ~ctl'.alive
      <4>1. CASE drv.pc = WithoutAt - 2
        <5>1. Step.op = "stop"
          BY <2>0, <3>1, <3>4, <4>1 DEF Manned
        <5> QED
          BY <2>3, <2>10, <5>1 DEF Offward
      <4>2. CASE drv.pc \in WithoutAt - 1 .. RestartAt - 1
        <5>1. ~ctl.alive
          BY <2>4, <2>10, <3>4, <4>2 DEF Unmanned, WithoutAt, RestartAt
        <5>2. Step.op # "launch"
          BY <2>2, <2>5, <3>4, <4>2 DEF WithoutAt, RestartAt
        <5> QED
          BY <2>3, <5>1, <5>2
      <4> QED
        BY <2>1, <2>10, <3>4, <4>1, <4>2 DEF WithoutAt, RestartAt
    <3> QED
      BY <3>2, <3>3, <3>4
  <2>11. ASSUME drv'.st = drv.st, drv'.pc = drv.pc, Step.op # "launch"
         PROVE  /\ Unmanned(k, drv'.st, drv'.pc) => ~ctl'.alive
                /\ k[1] # "load" /\ drv'.st = "run" /\ drv'.pc = LaunchAt(k) - 1 /\ ctl'.alive
                     => ctl'.prog = "osken"
    BY <2>3, <2>4, <2>11
  <2>12. Unmanned(k, drv'.st, drv'.pc) => ~ctl'.alive
    <3> SUFFICES ASSUME Unmanned(k, drv'.st, drv'.pc) PROVE ~ctl'.alive
      OBVIOUS
    <3>1. CASE Step.op = "ping" /\ drv' = drv
      BY <2>11, <3>1
    <3>2. CASE drv.st = "run" /\ drv'.st = "run" /\ drv'.pc = drv.pc + 1
      BY <2>10, <3>2 DEF Unmanned
    <3>3. CASE drv.st = "run" /\ drv'.st = "tail" /\ drv'.pc = 1
      BY <2>2, <3>3 DEF Unmanned
    <3>4. CASE drv.st = "tail" /\ drv'.st = "tail" /\ drv'.pc = drv.pc + 1
      <4>1. drv.pc = TerminateAt(k) \/ drv.pc > TerminateAt(k)
        BY <2>1, <2>2, <3>4 DEF Unmanned
      <4>2. drv.pc > TerminateAt(k) => ~ctl.alive /\ Step.op # "launch"
        BY <2>4, <2>5, <3>4 DEF Unmanned
      <4> QED
        BY <2>3, <2>9, <3>4, <4>1, <4>2
    <3>5. CASE drv.st = "tail" /\ drv'.st = "done" /\ Onward(drv, drv')
      <4>1. drv.pc = TerminateAt(k) + 1
        BY <2>7, <3>5 DEF Onward
      <4>2. drv.pc > TerminateAt(k)
        BY <2>2, <4>1
      <4> QED
        BY <2>3, <2>4, <2>5, <3>5, <4>2 DEF Unmanned
    <3>6. CASE drv.st = "tail" /\ Offward(drv, drv') /\ ~Onward(drv, drv')
      <4>1. Step.op = "terminate" /\ Step.after = "raise"
        BY <2>0, <2>1, <3>6 DEF Framed, At
      <4>2. Step = Terminate("kill")
        BY <2>7, <3>6, <4>1
      <4> QED
        BY <4>1, <4>2 DEF Terminate
    <3>7. CASE drv.st = "after"
      BY <2>3, <2>4, <2>5, <3>7 DEF Unmanned
    <3> QED
      BY <2>1, <2>7, <2>8, <3>1, <3>2, <3>3, <3>4, <3>5, <3>6, <3>7 DEF Onward, Offward
  <2>13. k[1] # "load" /\ drv'.st = "run" /\ drv'.pc = LaunchAt(k) - 1 /\ ctl'.alive
                     => ctl'.prog = "osken"
    BY <2>1, <2>8, <2>10, <2>11 DEF Onward, Offward
  <2> QED
    BY <2>0, <2>6, <2>12, <2>13 DEF OwnInv
<1> QED
  BY <1>1, <1>2, <1>3, <1>4, <1>5, <1>6, StepsOfLab

\* A driver has done nothing yet when it begins.
LEMMA DriverAtInit ==
  LabInit => /\ drv.key \in Keys /\ drv.st = "run" /\ drv.pc = 1 /\ drv.own /\ drv.read = 0
             /\ drv.wd = "off" /\ drv.got = <<>> /\ drv.mon = "off"
             /\ ~drv.row /\ ~drv.eligible /\ ~HasNet /\ ~HasLaunched
<1> SUFFICES ASSUME LabInit
             PROVE  /\ drv.key \in Keys /\ drv.st = "run" /\ drv.pc = 1 /\ drv.own /\ drv.read = 0
                    /\ drv.wd = "off" /\ drv.got = <<>> /\ drv.mon = "off"
                    /\ ~drv.row /\ ~drv.eligible /\ ~HasNet /\ ~HasLaunched
  OBVIOUS
<1>1. PICK k \in Keys : \E m, n : drv = NewDriver(k, m, n)
  BY DEF LabInit
<1>2. PICK m, n : drv = NewDriver(k, m, n)
  BY <1>1
<1>3. /\ drv.own = TRUE /\ drv.st = "run" /\ drv.pc = 1 /\ drv.key = k /\ drv.read = 0
      /\ drv.wd = "off" /\ drv.got = <<>> /\ drv.mon = "off"
      /\ drv.row = FALSE /\ drv.eligible = FALSE
  BY <1>2 DEF NewDriver
<1> QED
  BY <1>3, KeysWell DEF HasNet, HasLaunched

\* Nothing has been read or announced at the start.
LEMMA ReadInit == LabInit => ReadInv /\ ReadyInv
<1> SUFFICES ASSUME LabInit PROVE ReadInv /\ ReadyInv
  OBVIOUS
<1>1. PICK n : ctl = [NoController EXCEPT !.faults = n]
  BY DEF LabInit
<1>2. ~ctl.alive /\ ~ctl.lostWhenReady /\ ctl.lines = <<>>
  BY <1>1 DEF NoController
<1> QED
  BY <1>2, DriverAtInit DEF ReadInv, ReadyInv

\* A controller goes on printing, or is gone with its lines left to read.
LEMMA LinesGrow ==
  ASSUME NEW c, NEW d, NEW t, IsController(c, t), SameProcess(c, d)
  PROVE  Len(c.lines) \in Nat /\ Len(d.lines) \in Nat /\ Len(c.lines) <= Len(d.lines)
<1>1. c.lines \in Seq(Lines)
  BY DEF IsController
<1>2. \A e \in Lines : Len(Append(c.lines, e)) = Len(c.lines) + 1
  BY <1>1
<1>3. Len(c.lines) \in Nat
  BY <1>1
<1> QED
  BY <1>2, <1>3 DEF SameProcess

\* A driver that has a controller, or a network, keeps having had it.
LEMMA LaunchedGrows ==
  ASSUME IsDriver(drv), Placed(drv), Framed
  PROVE  /\ HasLaunched => HasLaunched'
         /\ HasNet => HasNet'
         /\ drv.st = "run" /\ drv.pc = LaunchAt(drv.key) /\ Step.op # "ping" => HasLaunched'
<1>1. /\ LaunchAt(drv.key) \in Nat /\ StartAt(drv.key) \in Nat /\ drv.pc \in Nat
      /\ drv.st \in {"run", "tail", "after", "done"} /\ drv.key \in Keys
      /\ drv'.key = drv.key
  BY KeysWell DEF IsDriver, Framed
<1>2. (drv'.st = drv.st /\ drv'.pc = drv.pc /\ Step.op = "ping") \/ Onward(drv, drv') \/ Offward(drv, drv')
  BY DEF Framed, At
<1> QED
  BY <1>1, <1>2 DEF HasLaunched, HasNet, Onward, Offward

\* A driver has read at most what its own controller has printed.
LEMMA ReadStep ==
  ASSUME PlaceInv, NetworkInv, ControllerInv, OwnInv, ReadInv, [LabNext]_labvars
  PROVE  ReadInv'
<1>0. IsDriver(drv) /\ Placed(drv) /\ drv.key \in Keys /\ IsController(ctl, Topology)
      /\ Len(ctl.lines) \in Nat
  BY DEF PlaceInv, IsDriver, ControllerInv, IsController
<1>1. CASE ctl' = ctl /\ drv' = drv
  BY <1>1 DEF ReadInv, HasLaunched
<1>2. CASE ControllerNext /\ drv' = drv
  <2>1. Len(ctl'.lines) \in Nat /\ Len(ctl.lines) <= Len(ctl'.lines)
    BY <1>0, <1>2, ControllerSays, LinesGrow
  <2> QED
    BY <1>0, <1>2, <2>1 DEF ReadInv, HasLaunched
<1>3. CASE MonitorPings
  BY <1>3, MonitorPlaced DEF ReadInv, HasLaunched
<1>4. CASE WatchdogFires
  <2>1. ctl'.lines = ctl.lines
    BY <1>0, <1>4, WatchdogPlaced, OldControllerTyped
  <2> QED
    BY <1>4, <2>1, WatchdogPlaced DEF ReadInv, HasLaunched
<1>5. CASE DriverKilled
  BY <1>0, <1>5, KilledPlaced DEF ReadInv
<1>6. CASE OwnSteps
  <2>0. Framed /\ drv'.key = drv.key /\ drv.st # "done"
    BY <1>0, <1>6, OwnStepsFramed DEF Framed, Running
  <2>1. /\ drv.st = "run" => Fits(drv.key, drv.pc, Step)
        /\ drv.st = "tail" => Step.op \in {"unwatch", "teardown", "terminate"}
        /\ drv.st = "after" => Step.op \in {"check", "row"}
        /\ drv.st \in {"run", "tail", "after"} /\ drv.pc \in Nat
    BY <1>0, <2>0, StepFits DEF Step, IsDriver
  <2>2. HasLaunched => HasLaunched'
    BY <1>0, <2>0, LaunchedGrows
  <2>3. CASE Step.op = "launch"
    <3>1. /\ drv.st = "run"
          /\ drv.pc = LaunchAt(drv.key) \/ (drv.key[1] = "recovery" /\ drv.pc = RestartAt)
      BY <2>1, <2>3 DEF Fits, Manned
    <3>2. drv.pc = LaunchAt(drv.key) => HasLaunched' /\ ~HasLaunched
      BY <1>0, <2>0, <2>3, <3>1, LaunchedGrows, KeysWell DEF HasLaunched
    <3>3. drv.pc # LaunchAt(drv.key) => HasLaunched' /\ ~ctl.alive
      <4> SUFFICES ASSUME drv.pc # LaunchAt(drv.key) PROVE HasLaunched' /\ ~ctl.alive
        OBVIOUS
      <4>1. drv.key[1] = "recovery" /\ drv.pc = 17 /\ LaunchAt(drv.key) = 4
        BY <1>0, <3>1, PlacesOfTrial DEF RestartAt
      <4>2. HasLaunched
        BY <4>1 DEF HasLaunched
      <4>3. ~ctl.alive
        BY <3>1, <4>1 DEF OwnInv, KillsStrays, Unmanned, WithoutAt, RestartAt
      <4> QED
        BY <2>2, <4>2, <4>3
    <3>4. CASE drv'.own /\ drv'.read = 0 /\ ctl' = NewController(Step.prog, Step.mode, Step.env, ctl)
      <4>1. Len(ctl'.lines) \in Nat /\ 0 <= Len(ctl'.lines)
        <5> DEFINE n == NewController(Step.prog, Step.mode, Step.env, ctl)
        <5>1. n.lines = <<>>
          BY <1>0, NewControllerTyped
        <5> HIDE DEF n
        <5>2. ctl' = n
          BY <3>4 DEF n
        <5> QED
          BY <5>1, <5>2
      <4> QED
        BY <3>2, <3>3, <3>4, <4>1 DEF ReadInv
    <3>5. CASE ~drv'.own /\ drv'.read = drv.read /\ ctl.alive /\ ctl' = ctl
      BY <3>2, <3>3, <3>5 DEF ReadInv
    <3> QED
      BY <1>6, <2>3, <3>4, <3>5, OwnStepOnProcess
  <2>4. CASE Step.op = "await"
    <3>1. drv'.own = drv.own /\ ctl' = ctl
      BY <2>0, <2>4 DEF Framed
    <3>2. HasLaunched
      BY <2>1, <2>4 DEF Fits, Told, HasLaunched
    <3>3. CASE drv'.read = drv.read
      BY <2>2, <3>1, <3>2, <3>3 DEF ReadInv
    <3>4. CASE \E i \in DOMAIN Unread : drv.own /\ drv'.read = drv.read + i
      <4>1. PICK i \in DOMAIN Unread : drv.own /\ drv'.read = drv.read + i
        BY <3>4
      <4>2. /\ ctl.lines \in Seq(Lines) /\ drv.read \in Nat /\ drv.read <= Len(ctl.lines)
            /\ Unread = SubSeq(ctl.lines, drv.read + 1, Len(ctl.lines))
        BY <1>0, <4>1 DEF ReadInv, IsController, Unread
      <4>3. i \in Nat /\ drv.read + i <= Len(ctl.lines)
        BY <4>2
      <4> QED
        BY <2>2, <3>1, <3>2, <4>1, <4>2, <4>3 DEF ReadInv
    <3> QED
      BY <1>6, <2>4, <3>3, <3>4, OwnStepOnProcess
  <2>5. CASE Step.op = "kill"
    <3>1. ~HasLaunched
      BY <1>0, <2>1, <2>5, KeysWell DEF Fits, Manned, HasLaunched
    <3>2. drv'.own = drv.own /\ drv'.read = drv.read /\ Len(ctl'.lines) \in Nat
      BY <1>6, <2>0, <2>5, OwnStepOnProcess DEF Framed
    <3> QED
      BY <3>1, <3>2 DEF ReadInv
  <2>6. CASE Step.op \notin {"launch", "await", "kill"}
    <3>1. drv'.own = drv.own /\ drv'.read = drv.read
      BY <2>0, <2>6 DEF Framed
    <3>2. ctl'.lines = ctl.lines
      BY <1>6, <2>6, OwnStepOnProcess
    <3> QED
      BY <2>2, <3>1, <3>2 DEF ReadInv
  <2> QED
    BY <2>3, <2>4, <2>5, <2>6
<1> QED
  BY <1>1, <1>2, <1>3, <1>4, <1>5, <1>6, StepsOfLab

\* The events of a name after one more line.
LEMMA AppendEmitted ==
  ASSUME NEW t, IsController(ctl, t), NEW e \in Lines, ctl'.lines = Append(ctl.lines, e), NEW name
  PROVE  /\ Emitted(name)' = IF e.event = name THEN Emitted(name) \cup {Len(ctl.lines) + 1}
                             ELSE Emitted(name)
         /\ \A i \in Emitted(name) : ctl'.lines[i] = ctl.lines[i]
         /\ ctl'.lines[Len(ctl.lines) + 1] = e
         /\ Len(ctl.lines) + 1 \notin Emitted(name)
<1>1. ctl.lines \in Seq(Lines)
  BY DEF IsController
<1>2. /\ DOMAIN ctl.lines = 1 .. Len(ctl.lines) /\ Len(ctl.lines) \in Nat
      /\ DOMAIN ctl'.lines = 1 .. Len(ctl.lines) + 1
      /\ \A i \in 1 .. Len(ctl.lines) : ctl'.lines[i] = ctl.lines[i]
      /\ ctl'.lines[Len(ctl.lines) + 1] = e
  BY <1>1
<1> DEFINE E == {i \in DOMAIN ctl.lines : ctl.lines[i].event = name}
           F == {i \in DOMAIN ctl'.lines : ctl'.lines[i].event = name}
           n == Len(ctl.lines) + 1
<1>3. DOMAIN ctl'.lines = DOMAIN ctl.lines \cup {n} /\ n \notin DOMAIN ctl.lines
  BY <1>2
<1>4. \A i \in DOMAIN ctl.lines : ctl'.lines[i] = ctl.lines[i]
  BY <1>2
<1>5. ctl'.lines[n] = e
  BY <1>2
<1> HIDE DEF n
<1>6. F = (IF e.event = name THEN E \cup {n} ELSE E) /\ n \notin E
  BY <1>3, <1>4, <1>5
<1> QED
  BY <1>4, <1>5, <1>6 DEF Emitted, n

\* A bridge that has announced itself has its adapter, and keeps it.
LEMMA ReadyStep ==
  ASSUME PlaceInv, NetworkInv, ControllerInv, ReadyInv, [LabNext]_labvars
  PROVE  ReadyInv'
<1>0. IsController(ctl, Topology)
  BY DEF ControllerInv
<1>1. CASE ctl' = ctl
  BY <1>1 DEF ReadyInv, Emitted
<1>2. CASE ControllerNext
  <2>1. Said /\ SameProcess(ctl, ctl')
    BY <1>2, ControllerSays
  <2>2. ~ctl'.lostWhenReady
    BY <2>1 DEF Said, ReadyInv
  <2>3. ASSUME ctl'.alive, ctl'.prog = "bridge", Emitted("ready")' # {}
        PROVE  ctl'.core = "built"
    <3>1. ctl.alive /\ ctl.prog = "bridge"
      BY <2>1, <2>3 DEF SameProcess
    <3>2. CASE ctl'.lines = ctl.lines
      <4>1. Emitted("ready") # {}
        BY <2>3, <3>2 DEF Emitted
      <4> QED
        BY <2>1, <3>1, <4>1 DEF ReadyInv, Said
    <3>3. CASE \E e \in Lines : ctl'.lines = Append(ctl.lines, e) /\ Sayable(e)
      <4>1. PICK e \in Lines : ctl'.lines = Append(ctl.lines, e) /\ Sayable(e)
        BY <3>3
      <4>2. Emitted("ready") # {} \/ e.event = "ready"
        BY <1>0, <2>3, <4>1, AppendEmitted
      <4>3. ctl.core = "built"
        BY <3>1, <4>1, <4>2 DEF ReadyInv, Sayable
      <4> QED
        BY <2>1, <4>3 DEF Said
    <3> QED
      BY <2>1, <3>2, <3>3 DEF Said
  <2> QED
    BY <2>2, <2>3 DEF ReadyInv
<1>3. CASE Processes
  <2>1. CASE ctl' = [ctl EXCEPT !.armed = TRUE]
    <3>1. \A x \in {"alive", "prog", "core", "lines", "lostWhenReady"} : ctl'[x] = ctl[x]
      BY <1>0, <2>1 DEF IsController
    <3> QED
      BY <3>1 DEF ReadyInv, Emitted
  <2>2. CASE \E prog, mode, env : ctl' = NewController(prog, mode, env, ctl)
    <3>1. PICK prog, mode, env : ctl' = NewController(prog, mode, env, ctl)
      BY <2>2
    <3> DEFINE n == NewController(prog, mode, env, ctl)
    <3>2. n.lines = <<>> /\ ~n.lostWhenReady
      BY <1>0, NewControllerTyped
    <3> HIDE DEF n
    <3>3. ctl' = n
      BY <3>1 DEF n
    <3>4. ctl'.lines = <<>> /\ ~ctl'.lostWhenReady
      BY <3>2, <3>3
    <3> QED
      BY <3>4 DEF ReadyInv, Emitted
  <2>3. CASE ctl' = Dead(ctl)
    BY <1>0, <2>3, OldControllerTyped DEF ReadyInv
  <2>4. CASE ctl' = [NoController EXCEPT !.faults = ctl.faults, !.lostWhenReady = ctl.lostWhenReady]
    <3> DEFINE n == [NoController EXCEPT !.faults = ctl.faults, !.lostWhenReady = ctl.lostWhenReady]
    <3>1. ~n.alive /\ n.lostWhenReady = ctl.lostWhenReady
      BY <1>0, OldControllerTyped
    <3> HIDE DEF n
    <3>2. ctl' = n
      BY <2>4 DEF n
    <3> QED
      BY <3>1, <3>2 DEF ReadyInv
  <2> QED
    BY <1>1, <1>3, <2>1, <2>2, <2>3, <2>4 DEF Processes
<1>4. ctl' = ctl \/ ControllerNext \/ Processes
  <2>1. OwnSteps => Processes
    BY OwnStepOnController
  <2>2. WatchdogFires => Processes
    BY WatchdogPlaced DEF Processes
  <2>3. MonitorPings \/ DriverKilled => ctl' = ctl
    BY MonitorPlaced, KilledPlaced
  <2> QED
    BY <2>1, <2>2, <2>3, StepsOfLab
<1> QED
  BY <1>1, <1>2, <1>3, <1>4

-----------------------------------------------------------------------------
(* Layer 4: the watchdog *)

\* Nobody gets past the launch but by it.
LEMMA EntersLaunched ==
  ASSUME PlaceInv, OwnSteps, ~HasLaunched, HasLaunched'
  PROVE  drv.st = "run" /\ drv.pc = LaunchAt(drv.key)
<1>0. IsDriver(drv) /\ Placed(drv) /\ drv.key \in Keys
  BY DEF PlaceInv, IsDriver
<1>1. Framed /\ drv'.key = drv.key /\ drv.st # "done"
  BY <1>0, OwnStepsFramed DEF Framed, Running
<1>2. /\ drv.st = "run" /\ drv.pc \in Nat /\ LaunchAt(drv.key) \in Nat /\ drv.pc <= LaunchAt(drv.key)
      /\ LaunchAt(drv.key) < Len(Code[drv.key].run) /\ Len(Code[drv.key].run) \in Nat
      /\ Fits(drv.key, drv.pc, Step)
  BY <1>0, <1>1, KeysWell, StepFits DEF HasLaunched, IsDriver, Step
<1>3. Step.op \in {"teardown", "kill", "launch", "watch", "start"}
  BY <1>2 DEF Fits, Manned
<1>4. Onward(drv, drv')
  BY <1>1, <1>3 DEF Framed, At
<1>5. drv'.st = "run" /\ drv'.pc = drv.pc + 1
  BY <1>2, <1>4 DEF Onward
<1> QED
  BY <1>1, <1>2, <1>5 DEF HasLaunched

\* A controller that is launched or killed is not in the middle of a packet.
LEMMA ProcessesIdle ==
  ASSUME IsController(ctl, Topology), Processes
  PROVE  ctl'.pc = "idle" \/ ctl'.pc = ctl.pc
<1>1. CASE ctl' = [ctl EXCEPT !.armed = TRUE]
  BY <1>1 DEF IsController
<1>2. CASE \E prog, mode, env : ctl' = NewController(prog, mode, env, ctl)
  BY <1>2, NewControllerTyped
<1>3. CASE ctl' = Dead(ctl)
  BY <1>3, OldControllerTyped
<1>4. CASE ctl' = [NoController EXCEPT !.faults = ctl.faults, !.lostWhenReady = ctl.lostWhenReady]
  BY <1>4 DEF NoController
<1> QED
  BY <1>1, <1>2, <1>3, <1>4 DEF Processes

\* The controller of the direct baseline only confirms.
LEMMA DirectSays ==
  ASSUME NetworkInv, ControllerInv, drv.key[1] = "full", ctl.pc = "idle", ControllerNext
  PROVE  /\ ctl'.pc = "idle" /\ ctl'.alive = ctl.alive
         /\ OnlyConfirmations(ctl.lines) => OnlyConfirmations(ctl'.lines)
<1>1. Said /\ SameProcess(ctl, ctl')
  BY ControllerSays
<1>2. ctl.prog = "direct" /\ IsController(ctl, Topology)
  BY <1>1 DEF Said, ControllerInv, ProgsOf
<1>3. ctl'.pc = "idle" /\ ctl'.alive = ctl.alive
  BY <1>1, <1>2 DEF Said, SameProcess
<1>4. CASE ctl'.lines = ctl.lines
  BY <1>3, <1>4
<1>5. CASE \E e \in Lines : ctl'.lines = Append(ctl.lines, e) /\ Sayable(e)
  <2>1. PICK e \in Lines : ctl'.lines = Append(ctl.lines, e) /\ Sayable(e)
    BY <1>5
  <2>2. e.event = "flow_confirmed"
    BY <1>2, <2>1 DEF Sayable
  <2>3. ctl.lines \in Seq(Lines)
    BY <1>2 DEF IsController
  <2>4. ASSUME OnlyConfirmations(ctl.lines) PROVE OnlyConfirmations(ctl'.lines)
    <3> SUFFICES ASSUME NEW i \in DOMAIN ctl'.lines PROVE ctl'.lines[i].event = "flow_confirmed"
      BY DEF OnlyConfirmations
    <3>1. (i \in DOMAIN ctl.lines /\ ctl'.lines[i] = ctl.lines[i]) \/ ctl'.lines[i] = e
      BY <2>1, <2>3
    <3> QED
      BY <2>2, <2>4, <3>1 DEF OnlyConfirmations
  <2> QED
    BY <1>3, <2>4
<1> QED
  BY <1>1, <1>4, <1>5 DEF Said

\* Where a watchdog may be armed.
Guarded(k, st, pc) ==
    \/ k[1] \in {"latency", "load"} /\ (st = "run" \/ (st = "tail" /\ pc = 1))
    \/ Direct(k) /\ st = "run" /\ pc \in 7..9

\* The steps of the direct baseline between its launch and its ping.
LEMMA DirectStep ==
  ASSUME PlaceInv, ControllerInv, ReadInv, WatchInv, OwnSteps, Direct(drv.key), drv.st = "run"
  PROVE  /\ drv.pc \in 4..9 => /\ \/ (drv'.st = "run" /\ drv'.pc = drv.pc + 1)
                                  \/ (drv.wd # "armed" /\ drv.pc \in 7..8 /\ drv'.st = "tail")
                               /\ ctl' = ctl /\ drv'.own = drv.own /\ drv'.proc = drv.proc
                               /\ Step.op = "watch" => drv.pc = 6
                               /\ Step.op = "unwatch" <=> drv.pc = 9
         /\ drv.pc < 4 => /\ drv'.st = "run" /\ drv'.pc = drv.pc + 1
                          /\ Step.op # "watch" /\ (drv.pc = 3 => Step.op = "launch")
<1>0. IsDriver(drv) /\ Placed(drv) /\ drv.key \in Keys /\ drv.pc \in Nat /\ drv.pc > 0
  BY DEF PlaceInv, IsDriver, Placed
<1>1. Framed /\ drv'.key = drv.key /\ drv.st # "done"
  BY <1>0, OwnStepsFramed DEF Framed, Running
<1>2. Fits(drv.key, drv.pc, Step) /\ LaunchAt(drv.key) = 3 /\ drv.key[1] = "full"
  BY <1>0, <1>1, StepFits, PlacesOfTrial DEF Step, Direct
<1>3. Len(Code[drv.key].run) > 9 /\ Len(Code[drv.key].run) \in Nat
  BY <1>0, KeysWell DEF WellScripted
<1>4. drv.pc <= 9 /\ Onward(drv, drv') => drv'.st = "run" /\ drv'.pc = drv.pc + 1
  BY <1>0, <1>3 DEF Onward
<1>5. CASE drv.pc < 4
  <2>1. Step.op \in {"teardown", "kill", "launch", "watch", "start"}
    BY <1>0, <1>2, <1>5 DEF Fits, Manned
  <2>2. Step.op # "watch" /\ (drv.pc = 3 => Step.op = "launch")
    BY <1>0, <1>2, <1>5 DEF Fits, Threaded, Manned, Direct
  <2>3. Onward(drv, drv')
    BY <1>1, <2>1 DEF Framed, At
  <2> QED
    BY <1>0, <1>4, <1>5, <2>2, <2>3
<1>6. CASE drv.pc \in 4..9
  <2>1. /\ Step.op \in {"start", "point", "watch", "await", "unwatch"}
        /\ Step.op = "watch" => drv.pc = 6
        /\ Step.op = "unwatch" <=> drv.pc = 9
        /\ Step.op = "await" => drv.pc \in 7..8 /\ Step.events = {"flow_confirmed"} /\ ~Step.bounded
    BY <1>2, <1>6 DEF Fits, Threaded
  <2>2. ctl' = ctl /\ drv'.own = drv.own /\ drv'.proc = drv.proc
    BY <1>1, <2>1 DEF Framed
  <2>3. CASE Onward(drv, drv')
    BY <1>4, <1>6, <2>1, <2>2, <2>3
  <2>4. CASE ~Onward(drv, drv')
    <3>1. Offward(drv, drv') /\ Step.op = "await"
      BY <1>1, <2>1, <2>4 DEF Framed, At
    <3>2. drv' = Fails(drv, Step.else) /\ Wanted = {} /\ (Step.bounded \/ ~ProcAlive \/ Unread # <<>>)
      <4>1. ASSUME NEW d, IsDriver(d), d.key = drv.key, d.st = drv.st, d.pc = drv.pc
            PROVE  Onward(drv, Forward(d))
        BY <1>0, <1>1, <4>1, MovesFrom DEF Running
      <4> DEFINE Has(i) == [drv EXCEPT !.got = Gets(Step.as, Unread[i]), !.read = @ + i]
      <4>2. \A i \in Wanted : drv' # Forward(Has(i))
        <5> SUFFICES ASSUME NEW i \in Wanted PROVE Onward(drv, Forward(Has(i)))
          BY <2>4
        <5> DEFINE got == Gets(Step.as, Unread[i])
        <5>1. IsDriver([drv EXCEPT !.got = got, !.read = @ + i])
          <6> HIDE DEF got
          <6> QED
            BY <1>0 DEF IsDriver
        <5>2. Has(i).key = drv.key /\ Has(i).st = drv.st /\ Has(i).pc = drv.pc
          BY <1>0 DEF IsDriver
        <5>3. IsDriver(Has(i))
          BY <5>1
        <5> HIDE DEF Has
        <5> QED
          BY <4>1, <5>2, <5>3
      <4> QED
        BY <3>1, <4>2, StepOfKind DEF AwaitStep
    <3>3. drv.pc \in 7..8 /\ Step.events = {"flow_confirmed"} /\ ~Step.bounded
      BY <2>1, <3>1
    <3>4. ASSUME drv.wd = "armed" PROVE FALSE
      <4>1. ProcAlive /\ (drv.own => OnlyConfirmations(ctl.lines))
        BY <1>6, <3>4 DEF WatchInv
      <4>2. Unread # <<>>
        BY <3>2, <3>3, <4>1
      <4>3. drv.own /\ Unread = SubSeq(ctl.lines, drv.read + 1, Len(ctl.lines))
        BY <4>2 DEF Unread
      <4>4. ctl.lines \in Seq(Lines) /\ drv.read \in Nat /\ drv.read <= Len(ctl.lines)
        BY <4>3 DEF ControllerInv, IsController, ReadInv
      <4>5. drv.read < Len(ctl.lines)
        BY <4>2, <4>3, <4>4
      <4>6. 1 \in DOMAIN Unread /\ Unread[1] = ctl.lines[drv.read + 1] /\ drv.read + 1 \in DOMAIN ctl.lines
        <5> HIDE DEF Unread
        <5> QED
          BY <4>3, <4>4, <4>5
      <4>7. Unread[1].event = "flow_confirmed"
        BY <4>1, <4>3, <4>6 DEF OnlyConfirmations
      <4> QED
        BY <3>2, <3>3, <4>6, <4>7 DEF Wanted
    <3> QED
      BY <1>6, <2>1, <2>2, <3>1, <3>3, <3>4 DEF Offward
  <2> QED
    BY <2>3, <2>4
<1> QED
  BY <1>0, <1>5, <1>6

\* The watchdog is set and called off, and a controller launched, by the
\* steps that say so.
LEMMA OwnStepOnWatch ==
  ASSUME IsDriver(drv), Placed(drv), OwnSteps
  PROVE  /\ Step.op = "unwatch" => drv'.wd = "off"
         /\ Step.op = "watch" => Onward(drv, drv')
         /\ Step.op = "launch" /\ ~drv'.own => drv'.proc = "alive"
<1>1. CASE Step.op = "unwatch"
  <2> DEFINE d == [drv EXCEPT !.wd = "off"]
  <2>1. drv' = Forward(d) /\ Running
    BY <1>1, StepOfKind DEF BookStep, At
  <2>2. IsDriver(d) /\ d.key = drv.key /\ d.st = drv.st /\ d.pc = drv.pc /\ d.wd = "off"
    BY DEF IsDriver
  <2> HIDE DEF d
  <2> QED
    BY <1>1, <2>1, <2>2, MovesFrom DEF Kept
<1>2. CASE Step.op = "watch"
  <2>1. Framed
    BY OwnStepsFramed
  <2> QED
    BY <1>2, <2>1 DEF Framed, At
<1>3. CASE Step.op = "launch" /\ ~drv'.own
  <2> DEFINE d == [drv EXCEPT !.own = FALSE, !.proc = "alive"]
             b == [drv EXCEPT !.own = TRUE, !.read = 0]
  <2>1. Running /\ (drv' = Forward(d) \/ drv' = Forward(b))
    BY <1>3, StepOfKind DEF LaunchStep, At
  <2>2. IsDriver(d) /\ d.key = drv.key /\ d.st = drv.st /\ d.pc = drv.pc /\ d.proc = "alive"
    BY DEF IsDriver
  <2>3. IsDriver(b) /\ b.key = drv.key /\ b.st = drv.st /\ b.pc = drv.pc /\ b.own = TRUE
    BY DEF IsDriver
  <2> HIDE DEF d, b
  <2>4. drv' = Forward(d)
    BY <1>3, <2>1, <2>3, MovesFrom DEF Kept
  <2> QED
    BY <1>3, <2>1, <2>2, <2>4, MovesFrom DEF Kept
<1> QED
  BY <1>1, <1>2, <1>3

\* Layer 4 holds at the start.
LEMMA WatchInit == LabInit => WatchInv
<1> SUFFICES ASSUME LabInit PROVE WatchInv
  OBVIOUS
<1>1. drv.st = "run" /\ drv.pc = 1 /\ drv.wd = "off"
  BY DriverAtInit
<1>2. ctl.pc = "idle"
  BY DEF LabInit, NoController
<1> QED
  BY <1>1, <1>2 DEF WatchInv

\* An own step arms the watchdog only where it may be.
LEMMA OwnStepGuarded ==
  ASSUME PlaceInv, ControllerInv, ReadInv, WatchInv, OwnSteps, drv'.wd = "armed"
  PROVE  Guarded(drv'.key, drv'.st, drv'.pc)
<1>0. IsDriver(drv) /\ Placed(drv) /\ drv.key \in Keys /\ drv.pc \in Nat
  BY DEF PlaceInv, IsDriver
<1>1. Framed /\ drv'.key = drv.key /\ drv.st # "done" /\ Step.op # "unwatch"
  BY <1>0, OwnStepsFramed, OwnStepOnWatch DEF Framed, Running
<1>2. Step.op = "watch" \/ (drv.wd = "armed" /\ Guarded(drv.key, drv.st, drv.pc))
  BY <1>1 DEF Framed, WatchInv, Guarded
<1>3. /\ drv.st = "run" => Fits(drv.key, drv.pc, Step)
      /\ drv.st \in {"tail", "after"} => Step.op # "watch"
      /\ Ends(drv.key, Code[drv.key].tail, Code[drv.key].after)
  BY <1>0, <1>1, StepFits DEF Step
<1>4. CASE Direct(drv.key)
  <2>1. drv.key[1] = "full" /\ drv.st = "run"
    BY <1>0, <1>1, <1>2, <1>3, <1>4 DEF Direct, Guarded, IsDriver
  <2>2. drv.pc \in 6..9 /\ (drv.pc = 6 => Step.op = "watch")
    BY <1>0, <1>2, <1>3, <1>4, <2>1 DEF Guarded, Fits, Threaded, Direct
  <2>3. drv'.st = "run" /\ drv'.pc = drv.pc + 1 /\ drv.pc # 9
    BY <1>1, <1>2, <1>4, <2>1, <2>2, DirectStep, OwnStepOnWatch DEF Onward
  <2> QED
    BY <1>0, <1>1, <1>4, <2>2, <2>3 DEF Guarded
<1>5. CASE ~Direct(drv.key)
  <2>1. drv.key[1] \in {"latency", "load"} /\ (drv.st = "run" \/ (drv.st = "tail" /\ drv.pc = 1))
    BY <1>0, <1>1, <1>2, <1>3, <1>5 DEF Guarded, Fits, Threaded, IsDriver
  <2>2. drv.st = "run"
    BY <1>1, <1>3, <2>1 DEF Ends, Step
  <2> QED
    BY <1>1, <2>1, <2>2 DEF Framed, Guarded, Onward, Offward
<1> QED
  BY <1>4, <1>5

\* An own step keeps what holds of the direct baseline.
LEMMA OwnStepDirect ==
  ASSUME PlaceInv, ControllerInv, ReadInv, WatchInv, OwnSteps, Direct(drv'.key), drv'.st = "run"
  PROVE  /\ drv'.pc <= 6 => drv'.wd = "off"
         /\ drv'.pc \in 4..9 => /\ drv'.wd # "fired" => ProcAlive'
                                /\ drv'.own => OnlyConfirmations(ctl'.lines)
<1>0. IsDriver(drv) /\ Placed(drv) /\ drv.key \in Keys /\ drv.pc \in Nat
  BY DEF PlaceInv, IsDriver
<1>1. Framed /\ drv'.key = drv.key /\ drv.st # "done" /\ Direct(drv.key)
  BY <1>0, OwnStepsFramed DEF Framed, Running, Direct
<1>2. drv.st = "run" /\ (drv' = drv \/ drv'.pc = drv.pc + 1)
  BY <1>1 DEF Framed, Onward, Offward
<1>9. drv.pc > 0
  BY <1>0, <1>2 DEF Placed
<1>3. /\ drv.pc <= 6 => drv.wd = "off"
      /\ drv.pc \in 4..9 => /\ drv.wd # "fired" => ProcAlive
                            /\ drv.own => OnlyConfirmations(ctl.lines)
  BY <1>1, <1>2 DEF WatchInv
<1>4. CASE drv' = drv
  <2>1. ctl' = ctl
    <3>1. ~Onward(drv, drv') /\ ~Offward(drv, drv')
      BY <1>0, <1>2, <1>4 DEF Onward, Offward
    <3>2. Step.op = "ping"
      BY <1>1, <3>1 DEF Framed, At
    <3> QED
      BY <1>1, <3>2 DEF Framed
  <2> QED
    BY <1>3, <1>4, <2>1 DEF ProcAlive
<1>5. CASE drv'.pc = drv.pc + 1
  <2>1. CASE drv.pc < 3
    <3>1. drv'.wd = "off"
      BY <1>1, <1>2, <1>3, <2>1, DirectStep, OwnStepOnWatch, <1>0 DEF Framed
    <3> QED
      BY <1>0, <1>9, <1>5, <2>1, <3>1
  <2>2. CASE drv.pc = 3
    <3>1. Step.op = "launch" /\ drv'.wd = "off"
      BY <1>1, <1>2, <1>3, <2>2, DirectStep DEF Framed
    <3>2. IsController(ctl, Topology)
      BY DEF ControllerInv
    <3>3. CASE drv'.own /\ ctl' = NewController(Step.prog, Step.mode, Step.env, ctl)
      <4>1. ctl'.alive /\ ctl'.lines = <<>>
        BY <3>2, <3>3, NewControllerTyped
      <4> QED
        BY <3>1, <3>3, <4>1 DEF ProcAlive, OnlyConfirmations
    <3>4. CASE ~drv'.own
      BY <1>0, <3>1, <3>4, OwnStepOnWatch DEF ProcAlive
    <3> QED
      BY <3>1, <3>3, <3>4, OwnStepOnProcess
  <2>3. CASE drv.pc \in 4..8
    <3>1. /\ ctl' = ctl /\ drv'.own = drv.own /\ drv'.proc = drv.proc
          /\ Step.op = "watch" => drv.pc = 6
          /\ Step.op # "unwatch"
      BY <1>0, <1>1, <1>2, <2>3, DirectStep
    <3>2. drv'.wd = drv.wd \/ drv.pc = 6
      BY <1>1, <3>1 DEF Framed
    <3>3. drv'.pc <= 6 => drv'.wd = "off"
      BY <1>0, <1>3, <1>5, <3>2
    <3>4. drv'.wd # "fired" => drv.wd # "fired"
      BY <1>3, <3>2
    <3>5. ProcAlive' <=> ProcAlive
      BY <3>1 DEF ProcAlive
    <3> QED
      BY <1>3, <2>3, <3>1, <3>3, <3>4, <3>5
  <2>4. CASE drv.pc > 8
    BY <1>0, <1>5, <2>4
  <2> QED
    BY <1>0, <1>9, <2>1, <2>2, <2>3, <2>4
<1> QED
  BY <1>2, <1>4, <1>5

\* A watchdog is armed only where something will call it off, and the baseline it guards
\* lives until it fires.
LEMMA WatchStep ==
  ASSUME PlaceInv, NetworkInv, ControllerInv, ReadInv, WatchInv, [LabNext]_labvars
  PROVE  WatchInv'
<1>0. IsDriver(drv) /\ Placed(drv) /\ IsController(ctl, Topology)
  BY DEF PlaceInv, ControllerInv
<1>1. CASE FabricNext /\ ctl' = ctl /\ drv' = drv
  BY <1>1 DEF WatchInv, ProcAlive
<1>2. CASE ControllerNext /\ drv' = drv
  <2>1. ASSUME drv.key[1] = "full"
        PROVE  /\ ctl'.pc = "idle" /\ ctl'.alive = ctl.alive
               /\ OnlyConfirmations(ctl.lines) => OnlyConfirmations(ctl'.lines)
    BY <1>2, <2>1, DirectSays DEF WatchInv
  <2>2. CASE drv.key[1] = "full"
    BY <1>2, <2>1, <2>2 DEF WatchInv, ProcAlive
  <2>3. CASE drv.key[1] # "full"
    BY <1>2, <2>3 DEF WatchInv, Direct
  <2> QED
    BY <2>2, <2>3
<1>3. CASE OwnSteps
  <2>1. drv'.key = drv.key /\ Processes
    BY <1>0, <1>3, OwnStepsFramed, OwnStepOnController DEF Framed
  <2>2. drv.key[1] = "full" => ctl'.pc = "idle"
    BY <1>0, <2>1, ProcessesIdle DEF WatchInv
  <2> QED
    BY <1>3, <2>1, <2>2, OwnStepGuarded, OwnStepDirect DEF WatchInv, Guarded
<1>4. CASE MonitorPings
  <2>1. /\ drv.key[1] = "recovery" /\ drv'.key = drv.key /\ drv'.st = drv.st /\ drv'.pc = drv.pc
        /\ drv'.wd = drv.wd
    BY <1>4, MonitorPlaced
  <2> QED
    BY <2>1 DEF WatchInv, Direct
<1>5. CASE WatchdogFires
  <2>1. /\ drv.wd = "armed" /\ drv'.wd = "fired" /\ drv'.key = drv.key /\ drv'.st = drv.st
        /\ drv'.pc = drv.pc /\ drv'.own = drv.own
        /\ ctl' = ctl \/ ctl' = Dead(ctl)
    BY <1>5, WatchdogPlaced
  <2>2. ctl'.lines = ctl.lines /\ (ctl'.pc = "idle" \/ ctl'.pc = ctl.pc)
    BY <1>0, <2>1, OldControllerTyped
  <2> QED
    BY <2>1, <2>2 DEF WatchInv
<1>6. CASE DriverKilled
  <2>1. /\ ctl' = ctl /\ drv'.key[1] = drv.key[1] /\ drv'.wd = "off" /\ drv'.pc = 1
    BY <1>6, KilledPlaced
  <2> QED
    BY <2>1 DEF WatchInv
<1>7. CASE net' = net /\ ctl' = ctl /\ drv' = drv
  BY <1>7 DEF WatchInv, ProcAlive
<1> QED
  BY <1>1, <1>2, <1>3, <1>4, <1>5, <1>6, <1>7, StepsOfLab

-----------------------------------------------------------------------------
(* Layer 5: the corrected measurement *)

\* What a controller leaves alone in the network.
Ground == {"up", "topo", "extra", "miss", "air", "nb", "ping", "cut", "late"}
Grounded(n, m) == \A x \in Ground : m[x] = n[x]

\* It connects, or asks the switch for its table-miss rule.
Asks(n, m) ==
    /\ Grounded(n, m) /\ m.rules = n.rules /\ m.adp = n.adp
    /\ m.out = n.out \/ \E sw \in Sws : m.out = n.out \o FeatureMessages(sw)

\* It sends one Packet-Out for the packet of ev, and before it at most one rule.
Decides(n, m, ev, life, R) ==
    /\ Grounded(n, m)
    /\ \E port \in 0..4 :
         \/ m.rules = n.rules /\ m.adp = n.adp /\ m.out = n.out \o PacketOut(ev, port)
         \/ \E r \in R :
              /\ r.life = life
              /\ \/ /\ m.rules = AddRule(n.rules, r) /\ m.adp = n.adp
                    /\ m.out = n.out \o PacketOut(ev, port)
                 \/ /\ m.rules = n.rules /\ m.adp = Append(n.adp, r)
                    /\ m.out = n.out \o PacketOut(ev, port)
                 \/ /\ m.rules = n.rules /\ m.adp = n.adp
                    /\ m.out = Append(n.out, [type |-> "flow", rule |-> r]) \o PacketOut(ev, port)

\* A handler decides upon at most one rule, for the packet it handles and with the life of
\* its own process.
LEMMA HandlesDecides ==
  ASSUME NEW t, NEW A, NEW J, Connected(t), A \subseteq AllPings(t),
         net \in Networks(t, A, Rules(t, A, J)), net.pin # <<>>,
         NEW c, IsController(c, t), NEW ev \in PacketEvents(t, A),
         NEW name \in Names, SwitchOf(name) = ev.sw, NEW f \in Int,
         Handles(c, ev, name, f)
  PROVE  Decides(net, net', ev, c.life, Rules(t, A, J))
<1> DEFINE R == Rules(t, A, J)
           learned == Learn(c, name, ev.pkt, ev.in)
           out == Lookup(learned, name, EthDst(ev.pkt))
           r == FlowFor(c, ev, out)
           n == Installs(Consumed, c, ev, name, out, f)
<1>1. c.stations \in SUBSET Learnt(t) /\ c.life \in Nat
  BY DEF IsController
<1>2. learned.stations \in SUBSET Learnt(t) /\ learned.life = c.life
  <2>1. learned = [c EXCEPT !.stations = {s \in c.stations : s[1] # name \/ s[2] # ev.pkt.src}
                                             \cup {<<name, ev.pkt.src, ev.in>>}]
    BY DEF Learn
  <2>2. {s \in c.stations : s[1] # name \/ s[2] # ev.pkt.src} \cup {<<name, ev.pkt.src, ev.in>>}
          \in SUBSET Learnt(t)
    BY <1>1, LearnsPort
  <2> HIDE DEF learned
  <2> QED
    BY <2>1, <2>2 DEF IsController
<1>3. out # FLOOD => FlowFor(learned, ev, out) \in R
  BY <1>1, <1>2, FlowForMade
<1>4. r = FlowFor(learned, ev, out) /\ r.life = c.life
  BY <1>2 DEF FlowFor
<1>5. out \in 0..4
  BY <1>2, LookupRange
<1>6. net' = [n EXCEPT !.out = n.out \o PacketOut(ev, out)]
  BY DEF Handles
<1>7. /\ Consumed.rules = net.rules /\ Consumed.adp = net.adp /\ Consumed.out = net.out
      /\ DOMAIN Consumed = DOMAIN NoNet /\ \A x \in Ground : Consumed[x] = net[x]
  BY DEF Consumed, Networks, NoNet, Ground
<1>8. /\ DOMAIN n = DOMAIN NoNet /\ \A x \in Ground : n[x] = net[x]
      /\ \/ n.rules = net.rules /\ n.adp = net.adp /\ n.out = net.out
         \/ /\ out # FLOOD
            /\ \/ n.rules = AddRule(net.rules, r) /\ n.adp = net.adp /\ n.out = net.out
               \/ n.rules = net.rules /\ n.adp = Append(net.adp, r) /\ n.out = net.out
               \/ /\ n.rules = net.rules /\ n.adp = net.adp
                  /\ n.out = Append(net.out, [type |-> "flow", rule |-> r])
  <2> DEFINE q == Consumed
  <2>1. n \in {q, [q EXCEPT !.rules = AddRule(q.rules, r)], [q EXCEPT !.adp = Append(q.adp, r)],
               [q EXCEPT !.out = Append(q.out, [type |-> "flow", rule |-> r])]}
        /\ (out = FLOOD => n = q)
    BY DEF Installs
  <2> HIDE DEF n, r, out, q
  <2>2. /\ q.rules = net.rules /\ q.adp = net.adp /\ q.out = net.out
        /\ DOMAIN q = DOMAIN NoNet /\ \A x \in Ground : q[x] = net[x]
    BY <1>7 DEF q
  <2> QED
    BY <2>1, <2>2 DEF NoNet, Ground
<1> HIDE DEF n, r, out, learned, R
<1>9. /\ net'.out = n.out \o PacketOut(ev, out) /\ net'.rules = n.rules /\ net'.adp = n.adp
      /\ Grounded(net, net')
  BY <1>6, <1>8 DEF NoNet, Ground, Grounded
<1>10. out # FLOOD => r \in R /\ r.life = c.life
  BY <1>3, <1>4
<1>11. Decides(net, net', ev, c.life, R)
  <2>1. CASE n.rules = net.rules /\ n.adp = net.adp /\ n.out = net.out
    BY <1>5, <1>9, <2>1 DEF Decides
  <2>2. CASE out # FLOOD /\ n.rules = AddRule(net.rules, r) /\ n.adp = net.adp /\ n.out = net.out
    BY <1>5, <1>9, <1>10, <2>2 DEF Decides
  <2>3. CASE out # FLOOD /\ n.rules = net.rules /\ n.adp = Append(net.adp, r) /\ n.out = net.out
    BY <1>5, <1>9, <1>10, <2>3 DEF Decides
  <2>4. CASE out # FLOOD /\ n.rules = net.rules /\ n.adp = net.adp
             /\ n.out = Append(net.out, [type |-> "flow", rule |-> r])
    BY <1>5, <1>9, <1>10, <2>4 DEF Decides
  <2> QED
    BY <1>8, <2>1, <2>2, <2>3, <2>4
<1> QED
  BY <1>11 DEF R

\* A message is served as it comes, the first one first.
LEMMA ServedHead ==
  ASSUME NEW t, NEW A, NEW R, net \in Networks(t, A, R), NEW type, Served(type)
  PROVE  /\ ctl.alive /\ ctl.pc = "idle" /\ net.pin # <<>> /\ Head(net.pin).type = type
         /\ Head(net.pin).sw \in Sws
         /\ type = "packet" => Head(net.pin) \in PacketEvents(t, A)
         /\ Asks(net, Consumed)
<1>1. ctl.alive /\ ctl.pc = "idle" /\ net.pin # <<>> /\ Head(net.pin).type = type
  BY DEF Served, Busy
<1>2. net.pin \in Seq(Events(t, A)) /\ DOMAIN net = DOMAIN NoNet
  BY DEF Networks, NoNet
<1>3. Head(net.pin) \in Events(t, A)
  BY <1>1, <1>2, HeadTailProperties
<1>4. Asks(net, Consumed)
  BY <1>2 DEF Asks, Grounded, Ground, Consumed, NoNet
<1> QED
  BY <1>1, <1>3, <1>4 DEF Events, PlainEvents, PacketEvents

\* Hence all three kinds of Packet-In handlers.
LEMMA PacketInDecides ==
  ASSUME NEW t, NEW A, NEW J, Connected(t), A \subseteq AllPings(t),
         net \in Networks(t, A, Rules(t, A, J)), IsController(ctl, t),
         BridgePacketIn \/ BaselinePacketIn \/ S56PacketIn
  PROVE  /\ net.pin # <<>> /\ Head(net.pin) \in PacketEvents(t, A)
         /\ Asks(net, net') \/ Decides(net, net', Head(net.pin), ctl.life, Rules(t, A, J))
<1> DEFINE ev == Head(net.pin)
           R == Rules(t, A, J)
<1>1. Served("packet")
  BY DEF BridgePacketIn, BaselinePacketIn, S56PacketIn
<1>2. ev \in PacketEvents(t, A) /\ ev.sw \in Sws /\ net.pin # <<>> /\ Asks(net, Consumed)
  BY <1>1, ServedHead
<1>3. ev.sw \in Names /\ SwitchOf(ev.sw) = ev.sw
  BY <1>2, NamesOfSwitches
<1>4. ASSUME NEW c, IsController(c, t), c.life = ctl.life, NEW name \in Names, SwitchOf(name) = ev.sw,
             NEW f \in Int, Handles(c, ev, name, f)
      PROVE  Decides(net, net', ev, ctl.life, R)
  BY <1>2, <1>4, HandlesDecides
<1>5. CASE BridgePacketIn
  <2> DEFINE capture == ~ctl.captured /\ IsIP(ev.pkt) /\ ev.pkt.to = ctl.env.target
             signal == ~ctl.reported /\ IsIP(ev.pkt) /\ ev.pkt.src = ctl.env.signal
             Named(x) == ResolveBridgeName(ctl, ev.sw, x)
             Marked(x) == [Named(x) EXCEPT !.captured = @ \/ capture]
             pc == CASE capture -> "confirm" [] signal -> "profile" [] OTHER -> "idle"
  <2>1. PICK f \in Fault :
          \/ net' = Consumed
          \/ Handles([Marked(f) EXCEPT !.pc = pc], ev, BridgeName(Named(f), ev.sw),
                     f - (ctl.faults - Named(f).faults))
    BY <1>5 DEF BridgePacketIn
  <2> DEFINE named == Named(f)
             capt == named.captured \/ capture
             d == [named EXCEPT !.captured = capt, !.pc = pc]
             g == f - (ctl.faults - named.faults)
  <2>2. f \in Int /\ ctl.faults \in Int
    BY FaultIsNumber DEF IsController
  <2>3. /\ IsController(named, t) /\ named.faults \in Int
        /\ BridgeName(named, ev.sw) \in Names /\ SwitchOf(BridgeName(named, ev.sw)) = ev.sw
        /\ \A x \in (DOMAIN ctl) \ {"named", "faults"} : named[x] = ctl[x]
    BY <1>2, <2>2, ResolveTyped
  <2>4. capt \in BOOLEAN /\ pc \in {"idle", "confirm", "profile"} /\ g \in Int
    BY <2>2, <2>3
  <2>5. net' = Consumed \/ Handles(d, ev, BridgeName(named, ev.sw), g)
    BY <2>1
  <2> HIDE DEF ev, capt, pc, named, Named, g
  <2>6. IsController(d, t)
    BY <2>3, <2>4 DEF IsController
  <2>7. d.life = ctl.life
    <3>1. "life" \in (DOMAIN ctl) \ {"named", "faults"}
      BY DEF IsController
    <3> QED
      BY <2>3, <3>1 DEF IsController
  <2> HIDE DEF d
  <2> QED
    BY <1>2, <1>4, <2>3, <2>4, <2>5, <2>6, <2>7 DEF ev
<1>6. CASE BaselinePacketIn
  <2>1. PICK capture \in BOOLEAN :
          Handles([ctl EXCEPT !.captured = @ \/ capture,
                              !.pc = IF capture THEN "confirm" ELSE "idle"], ev, ev.sw, 0)
    BY <1>6 DEF BaselinePacketIn
  <2> DEFINE c == [ctl EXCEPT !.captured = ctl.captured \/ capture,
                              !.pc = IF capture THEN "confirm" ELSE "idle"]
  <2>2. Handles(c, ev, ev.sw, 0)
    BY <2>1
  <2> HIDE DEF ev
  <2>3. IsController(c, t) /\ c.life = ctl.life
    BY DEF IsController
  <2> HIDE DEF c
  <2> QED
    BY <1>2, <1>3, <1>4, <2>2, <2>3 DEF ev
<1>7. CASE S56PacketIn
  <2> DEFINE captured == GateAccepts(ctl, ev)
             c == [ctl EXCEPT !.captured = ctl.captured \/ captured,
                            !.pc = IF captured THEN "observe" ELSE "idle",
                            !.late = FALSE, !.seen = FALSE]
  <2>1. net' = Consumed \/ \E f \in Int : Handles(c, ev, ev.sw, f)
    BY <1>7, FaultIsNumber DEF S56PacketIn
  <2>2. captured \in BOOLEAN
    BY DEF GateAccepts, IdentityMatches, IsController
  <2> HIDE DEF ev, captured
  <2>3. IsController(c, t) /\ c.life = ctl.life
    BY ZenonT(60), <2>2 DEF IsController
  <2> HIDE DEF c
  <2> QED
    BY <1>2, <1>3, <1>4, <2>1, <2>3 DEF ev
<1> QED
  BY <1>2, <1>5, <1>6, <1>7

\* What a step of a controller does to the network.
LEMMA ControllerDecides ==
  ASSUME NetworkInv, ControllerInv, ControllerNext
  PROVE  \/ net' = net
         \/ Asks(net, net') /\ net \in Networks(Topology, Asked, MyRules)
         \/ /\ net \in Networks(Topology, Asked, MyRules)
            /\ \E ev \in PacketEvents(Topology, Asked) : Decides(net, net', ev, ctl.life, MyRules)
<1>1. \/ net' = net
      \/ /\ Serving
         /\ net \in Networks(Topology, Asked, MyRules)
  BY ControllerSteps
<1>2. CASE Serving /\ net \in Networks(Topology, Asked, MyRules)
  <2>0. DOMAIN net = DOMAIN NoNet
    BY <1>2 DEF Networks, NoNet
  <2>1. CASE SwitchesConnect
    <3>1. Asks(net, net')
      BY <2>0, <2>1 DEF SwitchesConnect, Asks, Grounded, Ground, NoNet
    <3> QED
      BY <1>2, <3>1
  <2>2. CASE Features
    <3>1. Served("features") /\ net' = [Consumed EXCEPT !.out = @ \o FeatureMessages(Head(net.pin).sw)]
      BY <2>2 DEF Features
    <3>2. Head(net.pin).sw \in Sws /\ Asks(net, Consumed)
      BY <1>2, <3>1, ServedHead
    <3>3. DOMAIN Consumed = DOMAIN NoNet /\ Consumed.out = net.out
      BY <2>0 DEF Consumed, NoNet
    <3>4. Asks(net, net')
      <4> HIDE DEF Consumed
      <4> DEFINE q == Consumed
      <4>1. /\ DOMAIN q = DOMAIN NoNet /\ q.rules = net.rules /\ q.adp = net.adp
            /\ q.out = net.out /\ \A x \in Ground : q[x] = net[x]
        BY <3>2, <3>3 DEF Asks, Grounded
      <4>2. net' = [q EXCEPT !.out = q.out \o FeatureMessages(Head(net.pin).sw)]
        BY <3>1
      <4> HIDE DEF q
      <4>3. /\ net'.rules = net.rules /\ net'.adp = net.adp /\ Grounded(net, net')
            /\ net'.out = net.out \o FeatureMessages(Head(net.pin).sw)
        BY <4>1, <4>2 DEF Grounded, Ground, NoNet
      <4> QED
        BY <3>2, <4>3 DEF Asks
    <3> QED
      BY <1>2, <3>4
  <2>3. CASE BarrierReply
    <3>1. Served("barrier") /\ net' = Consumed
      BY <2>3 DEF BarrierReply
    <3> QED
      BY <1>2, <3>1, ServedHead
  <2>4. CASE BridgePacketIn \/ BaselinePacketIn \/ S56PacketIn
    <3>1. /\ Head(net.pin) \in PacketEvents(Topology, Asked)
          /\ Asks(net, net') \/ Decides(net, net', Head(net.pin), ctl.life, MyRules)
      BY <1>2, <2>4, TopologyFacts, PacketInDecides DEF MyRules, ControllerInv
    <3> QED
      BY <1>2, <3>1
  <2> QED
    BY <1>2, <2>1, <2>2, <2>3, <2>4 DEF Serving
<1> QED
  BY <1>1, <1>2

\* A step of the controller of the corrected measurement: the capture stays
\* as it is, a packet is captured, the observer polls, polls again or ends.
Silent ==
    \/ ctl'.lines = ctl.lines
    \/ \E e \in Lines : e.event # "timing" /\ ctl'.lines = Append(ctl.lines, e)
Waits ==
    /\ ctl'.pc = ctl.pc /\ ctl'.captured = ctl.captured /\ Silent
    /\ ctl.pc # "idle" => ctl'.cap = ctl.cap /\ ctl'.snap = ctl.snap /\ ctl'.seen = ctl.seen
Captures ==
    /\ ctl.pc = "idle" /\ ~ctl.captured /\ ctl'.pc = "observe" /\ ctl'.captured
    /\ ctl'.lines = ctl.lines
    /\ IdentityMatches(ctl'.cap.pkt, ctl'.cap.in, ctl.env) /\ ctl'.cap.pkt \in Traffic(Asked)
Polls ==
    /\ ctl.pc = "observe" /\ ctl'.pc = "polled" /\ ctl'.captured = ctl.captured
    /\ ctl'.cap = ctl.cap /\ ctl'.lines = ctl.lines
    /\ ctl'.snap = "matched" => ctl'.seen /\ HasRule(net.rules, Expected(ctl))
PollsAgain ==
    /\ ctl.pc = "polled" /\ ctl'.pc = "observe" /\ ctl'.captured = ctl.captured
    /\ ctl'.cap = ctl.cap /\ ctl'.lines = ctl.lines
EndsPoll ==
    /\ ctl.pc \in {"observe", "polled"} /\ ctl'.pc = "idle" /\ ctl'.captured = ctl.captured
    /\ \E e \in Timings :
         /\ ctl'.lines = Append(ctl.lines, e) /\ e.pkt = ctl.cap.pkt /\ e.in = ctl.cap.in
         /\ e.status = "confirmed" => /\ ctl.pc = "polled" /\ ctl.snap = "matched"
                                      /\ ctl.seen => e.seen

\* What the measurement of S5/S6 does by itself: it waits, begins a poll, begins another,
\* or ends the last one with its record.
LEMMA AloneMoves ==
  ASSUME NEW t, IsController(ctl, t), Occupied(ctl),
         ctl.pc \in {"idle", "observe", "polled"}, Alone
  PROVE  Waits \/ Polls \/ PollsAgain \/ EndsPoll
<1>0. {"lines", "pc", "captured", "cap", "snap", "seen", "late", "core", "announced", "faults"}
        \subseteq DOMAIN ctl
  BY DEF IsController
<1>1. CASE AdapterBuilt
  BY <1>0, <1>1 DEF AdapterBuilt, Waits, Silent
<1>2. CASE Announces
  <2> DEFINE c == [ctl EXCEPT !.announced = TRUE]
  <2>1. \/ \E e \in {[event |-> "adapter_error"], [event |-> "ready"]} : ctl' = Emit(c, e)
        \/ ctl' = c
    BY <1>2 DEF Announces
  <2>2. /\ {"lines", "pc", "captured", "cap", "snap", "seen"} \subseteq DOMAIN c
        /\ \A x \in {"lines", "pc", "captured", "cap", "snap", "seen"} : c[x] = ctl[x]
    BY <1>0
  <2> HIDE DEF c
  <2>3. CASE ctl' = c
    BY <2>2, <2>3 DEF Waits, Silent
  <2>4. ASSUME NEW e \in {[event |-> "adapter_error"], [event |-> "ready"]}, ctl' = Emit(c, e)
        PROVE  Waits
    <3>1. e \in Lines /\ e.event # "timing"
      BY DEF Lines
    <3>2. /\ ctl'.lines = Append(ctl.lines, e)
          /\ \A x \in {"pc", "captured", "cap", "snap", "seen"} : ctl'[x] = ctl[x]
      BY <2>2, <2>4 DEF Emit
    <3> QED
      BY <3>1, <3>2 DEF Waits, Silent
  <2> QED
    BY <2>1, <2>3, <2>4
<1>3. CASE ObserverDeadline
  BY <1>0, <1>3 DEF ObserverDeadline, Waits, Silent
<1>4. CASE ObserverPolls
  <2> DEFINE has == HasRule(net.rules, Expected(ctl))
  <2>1. PICK f \in Fault :
          ctl' = [ctl EXCEPT !.pc = "polled", !.faults = @ - f,
                   !.snap = IF ctl.env.absent THEN "nonzero_exit"
                            ELSE IF f = 1 THEN "expired"
                            ELSE IF has THEN "matched" ELSE "rules",
                   !.seen = has]
    BY <1>4 DEF ObserverPolls
  <2>2. has <=> HasRule(net.rules, Expected(ctl))
    OBVIOUS
  <2>3. has \in BOOLEAN
    BY DEF HasRule
  <2> HIDE DEF has
  <2> QED
    BY <1>0, <1>4, <2>1, <2>2, <2>3 DEF Polls, ObserverPolls
<1>5. CASE ObserverEnds
  <2> DEFINE status == IF ctl.pc = "polled" THEN Outcome(ctl) ELSE "timed_out"
             b == status = "confirmed"
             z == ctl.seen
             e == [Timing(b) EXCEPT !.status = status, !.seen = z]
  <2>1. /\ ctl.pc \in {"observe", "polled"}
        /\ ctl' = IF status = "again" THEN [ctl EXCEPT !.pc = "observe"]
                  ELSE [Emit(ctl, e) EXCEPT !.pc = "idle"]
    BY <1>5 DEF ObserverEnds
  <2>2. status \in {"again", "confirmed", "timed_out", "tool_error"}
        /\ (status = "confirmed" => ctl.pc = "polled" /\ ctl.snap = "matched" /\ ~ctl.late)
        /\ (status = "again" => ctl.pc = "polled")
    BY DEF Outcome
  <2>3. CASE status = "again"
    BY <1>0, <2>1, <2>2, <2>3 DEF PollsAgain
  <2>4. CASE status # "again"
    <3>1. ctl.cap \in Captured /\ b \in BOOLEAN /\ z \in BOOLEAN
      BY <2>1 DEF Occupied, IsController
    <3>2. (status = "confirmed" => b) /\ (z <=> ctl.seen)
      OBVIOUS
    <3> HIDE DEF status, b, z
    <3>3. e \in Timings /\ e.pkt = ctl.cap.pkt /\ e.in = ctl.cap.in /\ e.status = status
          /\ (z => e.seen)
      BY <2>2, <2>4, <3>1 DEF Timing, Timings, Captured
    <3> HIDE DEF e
    <3>4. ctl'.pc = "idle" /\ ctl'.captured = ctl.captured /\ ctl'.lines = Append(ctl.lines, e)
      BY <1>0, <2>1, <2>4 DEF Emit
    <3> QED
      BY <2>1, <2>2, <3>2, <3>3, <3>4 DEF EndsPoll
  <2> QED
    BY <2>3, <2>4
<1> QED
  BY <1>1, <1>2, <1>3, <1>4, <1>5 DEF Alone, Confirms, ReportsLoadProfile

\* And with a message: it also captures the target, once.
LEMMA S56Moves ==
  ASSUME NetworkInv, ControllerInv, ctl.prog = "s56", ctl.pc \in {"idle", "observe", "polled"},
         ControllerNext
  PROVE  Waits \/ Captures \/ Polls \/ PollsAgain \/ EndsPoll
<1>0. IsController(ctl, Topology) /\ Occupied(ctl)
  BY DEF ControllerInv, Occupied
<1>1. Alone \/ (Serving /\ net \in Networks(Topology, Asked, MyRules))
  BY ControllerSteps
<1>2. CASE Alone
  BY <1>0, <1>2, AloneMoves
<1>3. CASE Serving /\ net \in Networks(Topology, Asked, MyRules)
  <2>0. {"lines", "pc", "captured", "cap", "snap", "seen", "missed", "ofReady"} \subseteq DOMAIN ctl
    BY <1>0 DEF IsController
  <2>1. CASE SwitchesConnect
    BY <2>1 DEF SwitchesConnect, Waits, Silent
  <2>2. CASE Features
    <3>1. ctl' = [ctl EXCEPT !.missed = @ \cup {Head(net.pin).sw}]
      BY <2>2 DEF Features
    <3> QED
      BY <2>0, <3>1 DEF Waits, Silent
  <2>3. CASE BarrierReply
    BY <2>0, <2>3 DEF BarrierReply, Waits, Silent
  <2>4. CASE S56PacketIn
    <3> DEFINE ev == Head(net.pin)
               captured == GateAccepts(ctl, ev)
               c == [ctl EXCEPT !.captured = ctl.captured \/ captured,
                                !.pc = IF captured THEN "observe" ELSE "idle",
                                !.late = FALSE, !.seen = FALSE]
    <3>1. ctl.pc = "idle" /\ ev \in PacketEvents(Topology, Asked) /\ net.pin # <<>> /\ ev.sw \in Sws
      BY <1>3, <2>4, ServedHead DEF S56PacketIn
    <3>2. ctl' = ctl \/ \E f \in Int : Handles(c, ev, ev.sw, f)
      BY <2>4, FaultIsNumber DEF S56PacketIn
    <3>3. CASE ctl' = ctl
      BY <3>3 DEF Waits, Silent
    <3>4. CASE \E f \in Int : Handles(c, ev, ev.sw, f)
      <4>1. PICK f \in Int : Handles(c, ev, ev.sw, f)
        BY <3>4
      <4>2. captured \in BOOLEAN
            /\ (captured => ~ctl.captured /\ IdentityMatches(ev.pkt, ev.in, ctl.env))
        BY <1>0 DEF GateAccepts, IdentityMatches, IsController
      <4>3. ev.pkt \in Traffic(Asked)
        BY <3>1 DEF PacketEvents, Arrives
      <4> HIDE DEF ev, captured
      <4>4. IsController(c, Topology)
        BY ZenonT(60), <1>0, <4>2 DEF IsController
      <4>5. /\ c.lines = ctl.lines /\ c.captured = (ctl.captured \/ captured)
            /\ c.pc = IF captured THEN "observe" ELSE "idle"
        BY <2>0
      <4> HIDE DEF c
      <4>6. ev.sw \in Names /\ SwitchOf(ev.sw) = ev.sw
        BY <3>1, NamesOfSwitches
      <4>7. /\ ctl'.lines = c.lines /\ ctl'.captured = c.captured /\ ctl'.pc = c.pc
            /\ c.pc # "idle" => ctl'.cap.pkt = ev.pkt /\ ctl'.cap.in = ev.in
        BY <1>3, <3>1, <4>1, <4>4, <4>6, TopologyFacts, HandlesOnNetwork DEF MyRules
      <4>8. CASE captured
        BY <3>1, <4>2, <4>3, <4>5, <4>7, <4>8 DEF Captures
      <4>9. CASE ~captured
        <5>1. ctl.captured \in BOOLEAN
          BY <1>0 DEF IsController
        <5>2. c.captured = ctl.captured
          BY <4>5, <4>9, <5>1
        <5> QED
          BY <3>1, <4>5, <4>7, <4>9, <5>2 DEF Waits, Silent
      <4> QED
        BY <4>8, <4>9
    <3> QED
      BY <3>2, <3>3, <3>4
  <2> QED
    BY <1>3, <2>1, <2>2, <2>3, <2>4 DEF Serving, BridgePacketIn, BaselinePacketIn
<1> QED
  BY <1>1, <1>2, <1>3

\* The switches of a trial's network are not those of no network.
LEMMA NotBare ==
  ASSUME NEW A, NEW R, net \in Networks(Topology, A, R)
  PROVE  ~Bare(net)
<1>1. 1 \in DOMAIN Topology.at
  BY DEF Topology, TopologyOf, SingleSwitchTopo, TwoSwitchTopo
<1>2. net.topo = Topology
  BY DEF Networks
<1>3. SUFFICES ASSUME Bare(net) PROVE FALSE
  OBVIOUS
<1>4. net.topo = NoTopo
  BY <1>3 DEF Bare, NoNet
<1>5. DOMAIN NoTopo.at = {}
  BY DEF NoTopo
<1> QED
  BY <1>1, <1>2, <1>4, <1>5

\* What an own step leaves alone.
Stored == {"rules", "adp", "out", "air", "nb", "topo"}

\* A driver that installs nothing itself leaves the rules alone, unless it takes the
\* network down.
LEMMA OwnStepOnRules ==
  ASSUME IsDriver(drv), Placed(drv), OwnSteps, Learns(drv.key[1]), NEW t, NEW A, NEW R,
         net \in Networks(t, A, R), Step.op # "start", net.late \in Int
  PROVE  Bare(net') \/ \A x \in Stored : net'[x] = net[x]
<1>0. DOMAIN net = DOMAIN NoNet
  BY DEF Networks, NoNet
<1>1. Framed /\ drv.st # "done"
  BY OwnStepsFramed DEF Framed, Running
<1>2. Step.op \notin {"install", "delflows"}
  <2>1. drv.st = "run" => Fits(drv.key, drv.pc, Step)
    BY <1>1, StepFits DEF Step
  <2>2. drv.st = "tail" => Step.op \in {"unwatch", "teardown", "terminate"}
    BY <1>1, StepFits DEF Step
  <2>3. drv.st = "after" => Step.op \in {"check", "row"}
    BY <1>1, StepFits DEF Step
  <2> QED
    BY <1>1, <2>1, <2>2, <2>3 DEF IsDriver, Fits, Wired
<1>3. \A x \in Stored : Disconnected(net)[x] = net[x]
  BY <1>0 DEF Stored, Disconnected, NoNet
<1>4. CASE Step.op \in {"kill", "stop", "terminate"}
  <2>1. net' = net \/ net' = Disconnected(net)
    BY <1>4, StepOfKind DEF KillStep, StopStep, TerminateStep, OwnEnds
  <2> QED
    BY <1>3, <2>1
<1>5. CASE Step.op = "ping"
  <2>1. \/ net' = StartPing(net, Step.from, Step.to, Step.id, Step.count)
        \/ net' = [net EXCEPT !.ping = NoPing]
    BY <1>5, StepOfKind DEF PingStep
  <2> QED
    BY <1>0, <2>1 DEF Stored, StartPing, NoNet
<1>6. CASE Step.op \in {"teardown", "point", "cut", "extra"}
  <2>1. \/ net' = [NoNet EXCEPT !.late = net.late]
        \/ net' = Pointed(net)
        \/ net' = [net EXCEPT !.cut = TRUE]
        \/ net' = [net EXCEPT !.extra = TRUE]
    BY <1>6, StepOfKind DEF NetStep, At
  <2>2. CASE net' = [NoNet EXCEPT !.late = net.late]
    BY <2>2 DEF Bare, NoNet
  <2> QED
    BY <1>0, <2>1, <2>2 DEF Stored, Pointed, NoNet
<1>7. CASE Step.op \notin {"kill", "stop", "terminate", "ping", "teardown", "point", "cut", "extra"}
  BY <1>1, <1>2, <1>7 DEF Framed
<1> QED
  BY <1>4, <1>5, <1>6, <1>7

\* The rules of a controller that learns: they stay until the network is gone.
RulesKept ==
    \/ net' = net \/ Bare(net')
    \/ /\ net \in Networks(Topology, Asked, MyRules)
       /\ \/ net'.rules = net.rules
          \/ \E r \in MyRules : net'.rules = AddRule(net.rules, r)

\* Where all rules are learnt, one that is there stays while the network does.
LEMMA RulesStep ==
  ASSUME PlaceInv, NetworkInv, ControllerInv, Learns(drv.key[1]), HasNet, [LabNext]_labvars
  PROVE  RulesKept
<1>0. IsDriver(drv) /\ Placed(drv)
  BY DEF PlaceInv
<1>1. CASE FabricNext
  <2>1. net \in Networks(Topology, Asked, MyRules)
    BY <1>1, BareRests DEF NetworkInv
  <2>2. Applied(net, net')
    BY <1>1, <2>1, FabricKeeps
  <2>3. /\ net.out # <<>> => Head(net.out) \in Messages(Topology, Asked, MyRules)
        /\ net.adp # <<>> => Head(net.adp) \in MyRules
    BY <2>1, HeadTailProperties DEF Networks
  <2>4. net.out # <<>> /\ Head(net.out).type = "flow" => Head(net.out).rule \in MyRules
    BY <2>3 DEF Messages, PlainMessages, FlowMods, PacketOuts
  <2> QED
    BY <2>1, <2>2, <2>3, <2>4 DEF Applied, RulesKept
<1>2. CASE ControllerNext
  BY <1>2, ControllerDecides DEF RulesKept, Asks, Decides
<1>3. CASE OwnSteps
  <2>1. Step.op # "start"
    <3>1. Running
      BY <1>0, <1>3, OwnStepsFramed DEF Framed
    <3>2. drv.st = "run" => Fits(drv.key, drv.pc, Step) /\ drv.pc # StartAt(drv.key)
      BY <1>0, <3>1, StepFits, KeysWell DEF Step, Running, HasNet, IsDriver
    <3>3. drv.st # "run" => Step.op \in {"unwatch", "teardown", "terminate", "check", "row"}
      BY <1>0, <3>1, StepFits DEF Step, Running, IsDriver
    <3> QED
      BY <3>2, <3>3 DEF Fits, Wired
  <2>2. Bare(net') \/ net \in Networks(Topology, Asked, MyRules)
    BY <1>3, <2>1, OwnStepOnNetwork
  <2>3. net \in Networks(Topology, Asked, MyRules) => net.late \in Int
    BY DEF Networks
  <2> QED
    BY <1>0, <1>3, <2>1, <2>2, <2>3, OwnStepOnRules DEF RulesKept, Stored
<1>4. CASE MonitorPings
  <2>1. \/ net' = StartPing(net, 3, 4, 9, 1)
        \/ net' = net
        \/ PingOver /\ net' = [net EXCEPT !.ping = NoPing]
    BY <1>4, MonitorPlaced
  <2>2. drv.st = "run"
    BY <1>4, MonitorPlaced
  <2>3. net \in Networks(Topology, Asked, MyRules)
    BY <2>2 DEF NetworkInv
  <2>4. DOMAIN net = DOMAIN NoNet
    BY <2>3 DEF Networks, NoNet
  <2> QED
    BY <2>1, <2>3, <2>4 DEF RulesKept, StartPing, NoNet
<1>5. CASE WatchdogFires
  <2>1. net' = net \/ net' = Disconnected(net)
    BY <1>5, WatchdogPlaced
  <2>2. CASE Bare(net)
    BY <2>1, <2>2, BareRests DEF RulesKept
  <2>3. CASE net \in Networks(Topology, Asked, MyRules)
    <3>1. DOMAIN net = DOMAIN NoNet
      BY <2>3 DEF Networks, NoNet
    <3>2. Disconnected(net).rules = net.rules
      BY <3>1 DEF Disconnected, NoNet
    <3> QED
      BY <2>1, <2>3, <3>2 DEF RulesKept
  <2> QED
    BY <2>2, <2>3 DEF NetworkInv
<1>6. CASE DriverKilled
  BY <1>6, KilledPlaced DEF RulesKept
<1> QED
  BY <1>1, <1>2, <1>3, <1>4, <1>5, <1>6, StepsOfLab DEF RulesKept

-----------------------------------------------------------------------------

\* The rule of the target leads to host 2.
LEMMA TargetRules ==
  ASSUME drv.key[1] = "s56", NEW r \in MyRules, r.in = 1, r.dst = 2
  PROVE  /\ r.sw = "s1" /\ r.out = 2
         /\ \E p \in Traffic(Asked) : p.kind # "arpreq" /\ p.src = 1 /\ p.to = 2 /\ r.id = p.id
<1>1. Topology = SingleSwitchTopo(3) /\ Given(drv.key[1]) = {}
  BY DEF Topology, TopologyOf, Given, Learns
<1>2. Made(Topology, Asked, r)
  BY <1>1 DEF MyRules, Rules
<1>3. PICK p \in Traffic(Asked) :
        /\ p.kind # "arpreq" /\ r.sw \in Switches(Topology) /\ r.dst = p.to /\ r.id = p.id
        /\ r.in = PortTowards(Topology, r.sw, p.src) /\ r.out = PortTowards(Topology, r.sw, p.to)
  BY <1>2 DEF Made
<1>4. r.sw = "s1"
  BY <1>1, <1>3, SingleConnected
<1>5. p.src \in DOMAIN Topology.at /\ p.to \in DOMAIN Topology.at
  BY <1>3, TopologyFacts, ExplainedHosts
<1>6. \A h \in DOMAIN Topology.at : PortTowards(Topology, "s1", h) = h
  BY <1>1 DEF PortTowards, SingleSwitchTopo
<1> QED
  BY <1>3, <1>4, <1>5, <1>6

\* In particular the rule that the measurement waits for.
LEMMA TargetStays ==
  ASSUME drv.key[1] = "s56", TargetSeen, RulesKept, drv'.key = drv.key
  PROVE  TargetSeen'
<1>1. CASE net' = net
  BY <1>1 DEF TargetSeen, Bare
<1>2. CASE Bare(net')
  BY <1>2 DEF TargetSeen, Bare
<1>3. CASE net \in Networks(Topology, Asked, MyRules)
  <2>1. net.rules \subseteq MyRules /\ ~Bare(net)
    BY <1>3, NotBare DEF Networks
  <2>2. PICK r \in net.rules : r.in = 1 /\ r.dst = 2 /\ r.out = TargetPort(drv.key)
    BY <2>1 DEF TargetSeen
  <2>3. CASE net'.rules = net.rules
    BY <2>2, <2>3 DEF TargetSeen
  <2>4. ASSUME NEW q \in MyRules, net'.rules = AddRule(net.rules, q)
        PROVE  TargetSeen'
    <3>1. CASE q.in = 1 /\ q.dst = 2
      <4>1. q.out = r.out
        BY <2>1, <2>2, <3>1, TargetRules
      <4> QED
        BY <2>2, <2>4, <3>1, <4>1 DEF TargetSeen, AddRule
    <3>2. CASE ~(q.in = 1 /\ q.dst = 2)
      BY <2>2, <2>4, <3>2 DEF TargetSeen, AddRule
    <3> QED
      BY <3>1, <3>2
  <2> QED
    BY <1>1, <1>2, <2>3, <2>4 DEF RulesKept
<1> QED
  BY <1>1, <1>2, <1>3 DEF RulesKept

\* Layer 5 holds at the start.
LEMMA CaptureInit == LabInit => CaptureInv
BY DriverAtInit DEF CaptureInv

\* What the driver of the corrected measurement asks does not change.
LEMMA AskedOfTarget ==
  ASSUME drv.key[1] = "s56", drv'.key = drv.key
  PROVE  Asked' = Asked
BY DEF Asked, AskedAt

\* A packet with the identity of the target comes of the ping of the target.
LEMMA TargetAsked ==
  ASSUME NEW p \in Traffic(Asked), NEW in, NEW s, IdentityMatches(p, in, S56Env(s))
  PROVE  <<1, 2, TargetId>> \in Asked
<1>1. p.kind = "echo" /\ p.src = 1 /\ p.to = 2 /\ p.id = TargetId
  BY DEF IdentityMatches, S56Env, NoEnv
<1>2. PICK a \in Asked : p.src = a[1] /\ p.to = a[2] /\ p.id = a[3]
  BY <1>1 DEF Traffic, Explained
<1>3. a \in AllPings(Topology)
  BY <1>2, TopologyFacts
<1>4. a = <<a[1], a[2], a[3]>>
  BY <1>3 DEF AllPings
<1> QED
  BY <1>1, <1>2, <1>4

\* A poll that matches has seen the rule of the target.
LEMMA MatchedIsSeen ==
  ASSUME drv.key[1] = "s56", ctl.env = S56Env(drv.key[3]), IsTarget(ctl.cap),
         HasRule(net.rules, Expected(ctl))
  PROVE  TargetSeen
<1>1. ctl.cap.pkt.kind = "echo" /\ ctl.cap.pkt.to = 2 /\ ctl.cap.in = 1
  BY DEF IsTarget, IdentityMatches
<1>2. ctl.env.wrongport <=> drv.key[3] = "observer_timeout"
  BY DEF S56Env, NoEnv
<1> QED
  BY <1>1, <1>2 DEF HasRule, Expected, EthDst, TargetSeen, TargetPort

\* The measurement as it should be, of a controller that is alive.
LEMMA CaptureAlive ==
  ASSUME PlaceInv, NetworkInv, ControllerInv, CaptureInv, ControllerNext, drv' = drv,
         drv.key[1] = "s56", HasLaunched, drv.own
  PROVE  CaptureInv'
<1>0. ctl.alive /\ IsController(ctl, Topology) /\ SameProcess(ctl, ctl')
  BY ControllerSays DEF Said, ControllerInv
<1>1. /\ ctl.prog = "s56" /\ ctl.env = S56Env(drv.key[3])
      /\ ctl.captured => <<1, 2, TargetId>> \in Asked
      /\ \A i, j \in Emitted("timing") : i = j
      /\ Emitted("timing") # {} <=> ctl.captured /\ ctl.pc = "idle"
      /\ ctl.pc # "idle" => ctl.pc \in {"observe", "polled"} /\ ctl.captured /\ IsTarget(ctl.cap)
      /\ ctl.pc = "polled" /\ ctl.snap = "matched" => ctl.seen /\ TargetSeen
      /\ \A i \in Emitted("timing") :
             /\ IsTarget(ctl.lines[i]) /\ <<1, 2, TargetId>> \in Asked
             /\ ctl.lines[i].status = "confirmed" => ctl.lines[i].seen /\ TargetSeen
  BY <1>0 DEF CaptureInv
<1>2. Waits \/ Captures \/ Polls \/ PollsAgain \/ EndsPoll
  <2>1. ctl.pc \in {"idle", "observe", "polled"}
    BY <1>1
  <2> QED
    BY <1>1, <2>1, S56Moves
<1>3. TargetSeen => TargetSeen'
  <2>1. StartAt(drv.key) < LaunchAt(drv.key) /\ drv.pc \in Nat
    BY PlacesOfTrial DEF PlaceInv, IsDriver
  <2>2. StartAt(drv.key) \in Nat /\ LaunchAt(drv.key) \in Nat
    BY KeysWell DEF PlaceInv, IsDriver
  <2>3. HasNet
    BY <2>1, <2>2 DEF HasNet, HasLaunched
  <2>4. RulesKept
    BY <2>3, RulesStep DEF Learns, LabNext, ControllerStep
  <2> QED
    BY <2>4, TargetStays
<1>4. Asked' = Asked
  BY AskedOfTarget
<1>5. ctl'.prog = "s56" /\ ctl'.env = S56Env(drv.key[3])
  BY <1>0, <1>1 DEF SameProcess
<1>6. ASSUME ctl'.lines = ctl.lines
      PROVE  Emitted("timing")' = Emitted("timing")
  BY <1>6 DEF Emitted
<1>7. CASE Captures
  <2>1. IsTarget(ctl'.cap) /\ <<1, 2, TargetId>> \in Asked
    BY <1>1, <1>7, TargetAsked DEF Captures, IsTarget
  <2>2. Emitted("timing")' = {}
    BY <1>1, <1>6, <1>7 DEF Captures
  <2> QED
    BY <1>4, <1>5, <1>7, <2>1, <2>2 DEF Captures, CaptureInv, IsTarget
<1>8. CASE Polls \/ PollsAgain
  <2>1. Emitted("timing")' = {}
    BY <1>1, <1>6, <1>8 DEF Polls, PollsAgain
  <2>2. ctl'.pc = "polled" /\ ctl'.snap = "matched" => ctl'.seen /\ TargetSeen'
    BY <1>1, <1>3, <1>8, MatchedIsSeen DEF Polls, PollsAgain
  <2>3. /\ ctl'.pc \in {"observe", "polled"} /\ ctl'.captured /\ ctl'.cap = ctl.cap
        /\ IsTarget(ctl.cap)
    BY <1>1, <1>8 DEF Polls, PollsAgain
  <2>4. IsTarget(ctl'.cap)
    BY <2>3
  <2>5. <<1, 2, TargetId>> \in Asked'
    BY <1>1, <1>4, <1>8 DEF Polls, PollsAgain
  <2> QED
    BY <1>5, <2>1, <2>2, <2>3, <2>4, <2>5 DEF CaptureInv, IsTarget
<1>9. CASE Waits
  <2>1. /\ Emitted("timing")' = Emitted("timing")
        /\ \A i \in Emitted("timing") : ctl'.lines[i] = ctl.lines[i]
    <3>1. CASE ctl'.lines = ctl.lines
      BY <1>6, <3>1
    <3>2. CASE \E e \in Lines : e.event # "timing" /\ ctl'.lines = Append(ctl.lines, e)
      BY <1>0, <3>2, AppendEmitted
    <3> QED
      BY <1>9, <3>1, <3>2 DEF Waits, Silent
  <2>2. ctl'.pc = ctl.pc /\ ctl'.captured = ctl.captured
        /\ (ctl.pc # "idle" => ctl'.cap = ctl.cap /\ ctl'.snap = ctl.snap /\ ctl'.seen = ctl.seen)
    BY <1>9 DEF Waits
  <2>3. /\ ctl'.pc = "polled" /\ ctl'.snap = "matched" => ctl'.seen /\ TargetSeen'
        /\ ctl'.pc # "idle" => ctl'.pc \in {"observe", "polled"} /\ ctl'.captured /\ IsTarget(ctl'.cap)
    BY <1>1, <1>3, <2>2
  <2>4. \A i \in Emitted("timing") :
             /\ IsTarget(ctl'.lines[i]) /\ <<1, 2, TargetId>> \in Asked
             /\ ctl'.lines[i].status = "confirmed" => ctl'.lines[i].seen /\ TargetSeen'
    BY <1>1, <1>3, <2>1
  <2> QED
    BY <1>1, <1>4, <1>5, <2>1, <2>2, <2>3, <2>4 DEF CaptureInv, IsTarget
<1>10. CASE EndsPoll
  <2>1. PICK e \in Timings :
         /\ ctl'.lines = Append(ctl.lines, e) /\ e.pkt = ctl.cap.pkt /\ e.in = ctl.cap.in
         /\ e.status = "confirmed" => /\ ctl.pc = "polled" /\ ctl.snap = "matched"
                                      /\ ctl.seen => e.seen
    BY <1>10 DEF EndsPoll
  <2>2. e \in Lines /\ e.event = "timing"
    BY <2>1 DEF Lines, Timings
  <2>3. /\ Emitted("timing")' = {Len(ctl.lines) + 1} /\ ctl'.lines[Len(ctl.lines) + 1] = e
    BY <1>0, <1>1, <1>10, <2>1, <2>2, AppendEmitted DEF EndsPoll
  <2>4. ctl.captured /\ IsTarget(ctl.cap) /\ ctl'.captured = ctl.captured /\ ctl'.pc = "idle"
    BY <1>1, <1>10 DEF EndsPoll
  <2>5. IsTarget(e)
    BY <2>1, <2>4 DEF IsTarget
  <2>6. e.status = "confirmed" => e.seen /\ TargetSeen'
    BY <1>1, <1>3, <2>1
  <2> QED
    BY <1>1, <1>4, <1>5, <2>3, <2>4, <2>5, <2>6 DEF CaptureInv, IsTarget
<1> QED
  BY <1>2, <1>7, <1>8, <1>9, <1>10

\* A driver does not touch what its controller is measuring, but by arming, launching or
\* killing.
LEMMA OwnStepSpares ==
  ASSUME IsDriver(drv), Placed(drv), OwnSteps, Step.op \notin {"launch", "kill"}
  PROVE  ctl' = ctl \/ ctl' = Dead(ctl) \/ ctl' = [ctl EXCEPT !.armed = TRUE]
<1>1. CASE Step.op \in {"stop", "terminate"}
  BY <1>1, StepOfKind DEF StopStep, TerminateStep, OwnEnds
<1>2. CASE Step.op = "arm"
  BY <1>2, StepOfKind DEF ArmStep
<1>3. CASE Step.op \notin {"stop", "terminate", "arm"}
  BY <1>3, OwnStepsFramed DEF Framed
<1> QED
  BY <1>1, <1>2, <1>3

\* HasLaunched of the corrected measurement implies HasNet.
LEMMA NetOfTarget ==
  ASSUME PlaceInv, drv.key[1] = "s56", HasLaunched
  PROVE  HasNet
<1>1. StartAt(drv.key) < LaunchAt(drv.key) /\ drv.pc \in Nat
  BY PlacesOfTrial DEF PlaceInv, IsDriver
<1>2. StartAt(drv.key) \in Nat /\ LaunchAt(drv.key) \in Nat
  BY KeysWell DEF PlaceInv, IsDriver
<1> QED
  BY <1>1, <1>2 DEF HasNet, HasLaunched

\* The driver's own steps keep what is said of the capture.
LEMMA CaptureOwn ==
  ASSUME PlaceInv, NetworkInv, ControllerInv, CaptureInv, OwnSteps
  PROVE  CaptureInv'
<1> SUFFICES ASSUME drv'.key[1] = "s56", HasLaunched', drv'.own PROVE CaptureInv'
  BY DEF CaptureInv
<1>0. IsDriver(drv) /\ Placed(drv) /\ IsController(ctl, Topology)
  BY DEF PlaceInv, ControllerInv
<1>1. Framed /\ drv'.key = drv.key /\ drv.key[1] = "s56" /\ drv.st # "done"
  BY <1>0, OwnStepsFramed DEF Framed, Running
<1>2. /\ drv.st = "run" => Fits(drv.key, drv.pc, Step)
      /\ drv.st # "run" => Step.op \in {"unwatch", "teardown", "terminate", "check", "row"}
  BY <1>0, <1>1, StepFits DEF Step, IsDriver
<1>3. CASE ~HasLaunched
  <2>1. drv.st = "run" /\ drv.pc = LaunchAt(drv.key)
    BY <1>3, EntersLaunched
  <2>2. /\ Step.op = "launch" /\ Step.prog \in ProgsOf("s56") /\ Step.env = S56Env(drv.key[3])
    BY <1>1, <1>2, <2>1 DEF Fits, Manned
  <2>3. ctl' = NewController(Step.prog, Step.mode, Step.env, ctl)
    BY <2>2, OwnStepOnProcess
  <2>4. /\ ctl'.lines = <<>> /\ ctl'.pc = "idle" /\ ~ctl'.captured
        /\ ctl'.prog = Step.prog /\ ctl'.env = Step.env
    BY <1>0, <2>3, NewControllerTyped
  <2>5. Emitted("timing")' = {}
    BY <2>4 DEF Emitted
  <2>6. Step.prog = "s56"
    BY <2>2 DEF ProgsOf
  <2> QED
    BY <1>1, <2>2, <2>4, <2>5, <2>6 DEF CaptureInv
<1>4. CASE HasLaunched
  <2>1. Step.op \notin {"launch", "kill"}
    <3>1. drv.st = "run" => drv.pc > LaunchAt(drv.key) /\ drv.pc \in Nat /\ LaunchAt(drv.key) \in Nat
      BY <1>0, <1>4, KeysWell DEF HasLaunched, IsDriver
    <3> QED
      BY <1>1, <1>2, <3>1 DEF Fits, Manned
  <2>2. drv'.own = drv.own
    BY <1>1, <2>1 DEF Framed
  <2>3. ctl' = ctl \/ ctl' = Dead(ctl) \/ ctl' = [ctl EXCEPT !.armed = TRUE]
    BY <1>0, <2>1, OwnStepSpares
  <2>4. Asked' = Asked
    BY <1>1, AskedOfTarget
  <2>5. TargetSeen => TargetSeen'
    <3>1. HasNet
      BY <1>1, <1>4, NetOfTarget
    <3>2. [LabNext]_labvars
      BY DEF OwnSteps, DriverSteps, LabNext
    <3>3. RulesKept
      BY <1>1, <3>1, <3>2, RulesStep DEF Learns
    <3> QED
      BY <1>1, <3>3, TargetStays
  <2>6. ctl'.lines = ctl.lines
    BY ZenonT(60), <1>0, <2>3, OldControllerTyped DEF IsController
  <2>7. Emitted("timing")' = Emitted("timing")
    BY <2>6 DEF Emitted
  <2>8. /\ \A i, j \in Emitted("timing") : i = j
        /\ \A i \in Emitted("timing") :
             /\ IsTarget(ctl'.lines[i]) /\ <<1, 2, TargetId>> \in Asked
             /\ ctl'.lines[i].status = "confirmed" => ctl'.lines[i].seen /\ TargetSeen'
    BY <1>1, <1>4, <2>2, <2>5, <2>6 DEF CaptureInv
  <2>9. CASE ctl' = Dead(ctl)
    <3>1. ~ctl'.alive /\ ctl'.pc = "idle" /\ ~ctl'.captured
      BY <1>0, <2>9, OldControllerTyped DEF Dead, NoController
    <3> QED
      BY <1>1, <2>4, <2>7, <2>8, <3>1 DEF CaptureInv, IsTarget
  <2>10. CASE ctl' = ctl \/ ctl' = [ctl EXCEPT !.armed = TRUE]
    <3>1. \A x \in {"alive", "prog", "env", "captured", "pc", "cap", "snap", "seen"} : ctl'[x] = ctl[x]
      BY <1>0, <2>10 DEF IsController
    <3>2. /\ ctl.alive => ctl.prog = "s56" /\ ctl.env = S56Env(drv.key[3])
          /\ ctl.captured => <<1, 2, TargetId>> \in Asked
          /\ ctl.alive => (Emitted("timing") # {} <=> ctl.captured /\ ctl.pc = "idle")
          /\ ctl.pc # "idle" => ctl.pc \in {"observe", "polled"} /\ ctl.captured /\ IsTarget(ctl.cap)
          /\ ctl.pc = "polled" /\ ctl.snap = "matched" => ctl.seen /\ TargetSeen
      BY <1>1, <1>4, <2>2 DEF CaptureInv
    <3> QED
      BY <1>1, <2>4, <2>5, <2>7, <2>8, <3>1, <3>2 DEF CaptureInv, IsTarget
  <2> QED
    BY <2>3, <2>9, <2>10
<1> QED
  BY <1>3, <1>4

\* So do all steps: at most one record, of the target, confirmed only if its rule is
\* there.
LEMMA CaptureStep ==
  ASSUME PlaceInv, NetworkInv, ControllerInv, WatchInv, CaptureInv, [LabNext]_labvars
  PROVE  CaptureInv'
<1>1. CASE FabricNext /\ ctl' = ctl /\ drv' = drv
  <2> SUFFICES ASSUME drv.key[1] = "s56", HasLaunched, drv.own PROVE CaptureInv'
    BY <1>1 DEF CaptureInv, HasLaunched
  <2>1. TargetSeen => TargetSeen'
    BY <1>1, NetOfTarget, RulesStep, TargetStays DEF Learns
  <2>2. Emitted("timing")' = Emitted("timing") /\ Asked' = Asked
    BY <1>1 DEF Emitted, Asked
  <2> QED
    BY <1>1, <2>1, <2>2 DEF CaptureInv, IsTarget
<1>2. CASE ControllerNext /\ drv' = drv
  <2>1. CASE drv.key[1] = "s56" /\ HasLaunched /\ drv.own
    BY <1>2, <2>1, CaptureAlive
  <2>2. CASE ~(drv.key[1] = "s56" /\ HasLaunched /\ drv.own)
    BY <1>2, <2>2 DEF CaptureInv, HasLaunched
  <2> QED
    BY <2>1, <2>2
<1>3. CASE OwnSteps
  BY <1>3, CaptureOwn
<1>4. CASE MonitorPings
  BY <1>4, MonitorPlaced DEF CaptureInv
<1>5. CASE WatchdogFires
  BY <1>5, WatchdogPlaced DEF CaptureInv, WatchInv, Direct
<1>6. CASE DriverKilled
  <2>1. drv'.key \in Keys /\ drv'.st = "run" /\ drv'.pc = 1
    BY <1>6, KilledPlaced
  <2>2. drv'.key[1] = "s56" => ~HasLaunched'
    BY <2>1, PlacesOfTrial DEF HasLaunched
  <2> QED
    BY <2>2 DEF CaptureInv
<1>7. CASE net' = net /\ ctl' = ctl /\ drv' = drv
  BY <1>7 DEF CaptureInv, HasLaunched, TargetSeen, Bare, Emitted, Asked, IsTarget
<1> QED
  BY <1>1, <1>2, <1>3, <1>4, <1>5, <1>6, <1>7, StepsOfLab

\* What the driver reads and records.
LEMMA OwnStepOnRecord ==
  ASSUME IsDriver(drv), Placed(drv), OwnSteps
  PROVE  /\ Step.op = "await" => \/ drv'.got = drv.got
                                 \/ \E i \in Wanted : drv'.got = Gets(Step.as, Unread[i])
         /\ Step.op = "ping" => \/ drv' = drv
                                \/ /\ PingOver /\ Onward(drv, drv')
                                   /\ drv'.got = Gets(Step.as, [ok |-> net.ping.ok, count |-> net.ping.count])
         /\ Step.op = "note" => \E v : drv'.got = Gets(Step.as, v)
         /\ Step.op = "row" => /\ drv'.row
                               /\ drv'.eligible <=> drv.key[1] = "s56" /\ Eligible
<1>0. Running
  BY StepOfKind
<1>1. ASSUME NEW got
      PROVE  Forward([drv EXCEPT !.got = got]).got = got /\ Onward(drv, Forward([drv EXCEPT !.got = got]))
  <2> DEFINE d == [drv EXCEPT !.got = got]
  <2>1. IsDriver(d) /\ d.key = drv.key /\ d.st = drv.st /\ d.pc = drv.pc /\ d.got = got
    BY DEF IsDriver
  <2> HIDE DEF d
  <2>2. Forward(d).got = got /\ Onward(drv, Forward(d))
    BY <1>0, <2>1, MovesFrom DEF Kept
  <2> QED
    BY <2>2 DEF d
<1>2. CASE Step.op = "await"
  <2>1. \/ \E i \in Wanted : drv' = Forward([drv EXCEPT !.got = Gets(Step.as, Unread[i]), !.read = @ + i])
        \/ drv' = Fails(drv, Step.else)
    BY <1>2, StepOfKind DEF AwaitStep
  <2>2. CASE drv' = Fails(drv, Step.else)
    BY <1>0, <1>2, <2>2, FailsMoves DEF Kept, Running
  <2>3. ASSUME NEW i \in Wanted,
               drv' = Forward([drv EXCEPT !.got = Gets(Step.as, Unread[i]), !.read = @ + i])
        PROVE  drv'.got = Gets(Step.as, Unread[i])
    <3> DEFINE got == Gets(Step.as, Unread[i])
               read == drv.read + i
               d == [drv EXCEPT !.got = got, !.read = read]
    <3>1. drv' = Forward(d)
      BY <2>3
    <3> HIDE DEF got, read
    <3>2. IsDriver(d) /\ d.key = drv.key /\ d.st = drv.st /\ d.pc = drv.pc /\ d.got = got
      BY DEF IsDriver
    <3> HIDE DEF d
    <3>3. drv'.got = got
      BY <1>0, <3>1, <3>2, MovesFrom DEF Kept
    <3> QED
      BY <3>3 DEF got
  <2> QED
    BY <1>2, <2>1, <2>2, <2>3
<1>3. CASE Step.op = "ping"
  <2> DEFINE got == Gets(Step.as, [ok |-> net.ping.ok, count |-> net.ping.count])
  <2>1. drv' = drv \/ (PingOver /\ drv' = Forward([drv EXCEPT !.got = got]))
    BY <1>3, StepOfKind DEF PingStep
  <2> HIDE DEF got
  <2>2. drv' = drv \/ (PingOver /\ Onward(drv, drv') /\ drv'.got = got)
    BY <1>1, <2>1
  <2> QED
    BY <1>3, <2>2 DEF got
<1>4. CASE Step.op = "note"
  <2> DEFINE v == \E r \in net.rules : r.life > 0 /\ r.dst # IPOnly
             got == Gets(Step.as, v)
  <2>1. drv' = Forward([drv EXCEPT !.got = got])
    BY <1>4, StepOfKind DEF BookStep, At
  <2> HIDE DEF got
  <2>2. drv'.got = got
    BY <1>1, <2>1
  <2> QED
    BY <1>4, <2>2 DEF got
<1>5. CASE Step.op = "row"
  <2> DEFINE b == drv.key[1] = "s56" /\ Eligible
             d == [drv EXCEPT !.row = TRUE, !.eligible = b]
  <2>1. drv' = Forward(d)
    BY <1>5, StepOfKind DEF BookStep, At
  <2>2. b \in BOOLEAN
    BY DEF Eligible, IdentityMatches
  <2> HIDE DEF b
  <2>3. IsDriver(d) /\ d.key = drv.key /\ d.st = drv.st /\ d.pc = drv.pc /\ d.row = TRUE /\ d.eligible = b
    BY <2>2 DEF IsDriver
  <2> HIDE DEF d
  <2>4. drv'.row = TRUE /\ drv'.eligible = b
    BY <1>0, <2>1, <2>3, MovesFrom DEF Kept
  <2> QED
    BY <1>5, <2>4 DEF b
<1> QED
  BY <1>2, <1>3, <1>4, <1>5

\* The records that a controller has printed stay.
LEMMA EmittedStays ==
  ASSUME NEW t, IsController(ctl, t),
         ctl'.lines = ctl.lines \/ \E e \in Lines : ctl'.lines = Append(ctl.lines, e), NEW name
  PROVE  \A i \in Emitted(name) : i \in Emitted(name)' /\ ctl'.lines[i] = ctl.lines[i]
<1>1. CASE ctl'.lines = ctl.lines
  BY <1>1 DEF Emitted
<1>2. CASE \E e \in Lines : ctl'.lines = Append(ctl.lines, e)
  BY <1>2, AppendEmitted
<1> QED
  BY <1>1, <1>2

\* The driver and the analysis count the same record.
LEMMA SameCount ==
  ASSUME CaptureInv, EligibleInv, drv.key[1] = "s56"
  PROVE  Eligible <=> AnalysisCounts
<1> SUFFICES ASSUME "timing" \in DOMAIN drv.got PROVE Eligible <=> AnalysisCounts
  BY DEF Eligible, AnalysisCounts
<1>1. PICK i \in Emitted("timing") : drv.got.timing = ctl.lines[i]
  BY DEF EligibleInv
<1>2. drv.own /\ HasLaunched
  BY DEF EligibleInv
<1>3. Emitted("timing") = {i}
  BY <1>2 DEF CaptureInv
<1>4. Cardinality(Emitted("timing")) = 1
  BY <1>3, FS_Singleton
<1>5. ctl.lines[i].status = "confirmed" => ctl.lines[i].seen
  BY <1>2 DEF CaptureInv
<1> QED
  BY <1>1, <1>4, <1>5 DEF Eligible, AnalysisCounts

\* Nothing is counted at the start.
LEMMA EligibleInit == LabInit => EligibleInv
<1> SUFFICES ASSUME LabInit PROVE EligibleInv
  OBVIOUS
<1>1. DOMAIN drv.got = {} /\ ~drv.row /\ ~drv.eligible
  BY DriverAtInit
<1> QED
  BY <1>1 DEF EligibleInv

\* The timing record that a driver of the corrected measurement has read.
LEMMA TimingRead ==
  ASSUME PlaceInv, ControllerInv, ReadInv, OwnSteps, drv.key[1] = "s56"
  PROVE  \/ /\ "timing" \in DOMAIN drv'.got <=> "timing" \in DOMAIN drv.got
            /\ "timing" \in DOMAIN drv.got => drv'.got.timing = drv.got.timing
         \/ /\ Step.op = "await" /\ drv.own /\ HasLaunched
            /\ \E i \in Emitted("timing") : drv'.got.timing = ctl.lines[i]
<1>0. IsDriver(drv) /\ Placed(drv) /\ IsController(ctl, Topology)
  BY DEF PlaceInv, ControllerInv
<1>1. Framed /\ drv.st # "done"
  BY <1>0, OwnStepsFramed DEF Framed, Running
<1>2. /\ drv.st = "run" => Fits(drv.key, drv.pc, Step)
      /\ drv.st # "run" => Step.op \in {"unwatch", "teardown", "terminate", "check", "row"}
  BY <1>0, <1>1, StepFits DEF Step, IsDriver
<1>3. CASE Step.op \notin {"await", "ping", "note"}
  BY <1>1, <1>3 DEF Framed
<1>4. ASSUME NEW as, NEW v, as # "timing", drv'.got = Gets(as, v)
      PROVE  /\ "timing" \in DOMAIN drv'.got <=> "timing" \in DOMAIN drv.got
             /\ "timing" \in DOMAIN drv.got => drv'.got.timing = drv.got.timing
  BY <1>4 DEF Gets
<1>5. CASE Step.op \in {"ping", "note"}
  <2>1. Step.as # "timing"
    BY <1>2, <1>5 DEF Fits, Told
  <2>2. drv'.got = drv.got \/ \E v : drv'.got = Gets(Step.as, v)
    BY <1>0, <1>5, OwnStepOnRecord
  <2> QED
    BY <1>4, <2>1, <2>2
<1>6. CASE Step.op = "await"
  <2>1. drv'.got = drv.got \/ \E i \in Wanted : drv'.got = Gets(Step.as, Unread[i])
    BY <1>0, <1>6, OwnStepOnRecord
  <2>2. CASE drv'.got = drv.got
    BY <2>2
  <2>3. CASE Step.as # "timing"
    BY <1>4, <2>1, <2>3
  <2>4. ASSUME Step.as = "timing", NEW i \in Wanted, drv'.got = Gets(Step.as, Unread[i])
        PROVE  /\ drv.own /\ HasLaunched
               /\ \E j \in Emitted("timing") : drv'.got.timing = ctl.lines[j]
    <3>1. Step.events = {"timing"} /\ drv.pc > LaunchAt(drv.key)
      BY <1>2, <1>6, <2>4 DEF Fits, Told
    <3>2. i \in DOMAIN Unread /\ Unread[i].event = "timing"
      BY <2>4, <3>1 DEF Wanted
    <3>3. drv.own /\ Unread = SubSeq(ctl.lines, drv.read + 1, Len(ctl.lines))
      <4>1. i \in DOMAIN Unread
        BY <3>2
      <4>2. CASE ~drv.own
        <5>1. Unread = <<>>
          BY <4>2 DEF Unread
        <5> QED
          BY <4>1, <5>1
      <4> QED
        BY <4>2 DEF Unread
    <3>4. ctl.lines \in Seq(Lines) /\ drv.read \in Nat
      BY <1>0 DEF IsController, ReadInv
    <3>5. /\ drv.read + i \in DOMAIN ctl.lines /\ Unread[i] = ctl.lines[drv.read + i]
      <4> HIDE DEF Unread
      <4> QED
        BY <3>2, <3>3, <3>4
    <3>6. drv.read + i \in Emitted("timing")
      BY <3>2, <3>5 DEF Emitted
    <3>7. drv'.got.timing = Unread[i]
      BY <2>4 DEF Gets
    <3> QED
      BY <3>1, <3>3, <3>5, <3>6, <3>7 DEF HasLaunched
  <2> QED
    BY <1>6, <2>1, <2>2, <2>3, <2>4
<1> QED
  BY <1>3, <1>5, <1>6

\* After the record is complete the driver reads nothing more.
LEMMA NoReadAfterRow ==
  ASSUME PlaceInv, EligibleInv, OwnSteps, drv.key[1] = "s56", drv.row
  PROVE  Step.op # "await"
<1>0. IsDriver(drv) /\ Placed(drv) /\ drv.key \in Keys /\ drv.pc \in Nat
  BY DEF PlaceInv, IsDriver
<1>1. drv.st # "done"
  BY StepOfKind DEF Running
<1>2. CASE drv.st = "run"
  <2>1. PICK i \in 1 .. drv.pc - 1 : Code[drv.key].run[i].op = "row"
    BY <1>2 DEF EligibleInv
  <2>2. /\ drv.pc \in 1 .. Len(Code[drv.key].run) /\ Len(Code[drv.key].run) \in Nat
    BY <1>0, <1>1, <1>2, StepFits
  <2>3. \A m, n \in 1 .. Len(Code[drv.key].run) :
          Code[drv.key].run[m].op = "row" /\ m < n => Code[drv.key].run[n].op # "await"
    BY <1>0, KeysWell DEF WellScripted
  <2>4. i \in 1 .. Len(Code[drv.key].run) /\ i < drv.pc
    BY <1>0, <2>2
  <2> QED
    BY <1>2, <2>1, <2>2, <2>3, <2>4 DEF Step
<1>3. CASE drv.st # "run"
  BY <1>0, <1>1, <1>3, StepFits DEF Step, IsDriver
<1> QED
  BY <1>2, <1>3

\* The driver counts the record that it has read, by the rule of the analysis.
LEMMA EligibleOwn ==
  ASSUME PlaceInv, NetworkInv, ControllerInv, ReadInv, CaptureInv, EligibleInv, OwnSteps
  PROVE  EligibleInv'
<1>0. IsDriver(drv) /\ Placed(drv) /\ IsController(ctl, Topology)
  BY DEF PlaceInv, ControllerInv
<1>1. Framed /\ drv'.key = drv.key /\ drv.st # "done" /\ drv.pc \in Nat
  BY <1>0, OwnStepsFramed DEF Framed, Running, IsDriver
<1>2. drv'.eligible => drv'.key[1] = "s56" /\ drv'.row
  <2>1. CASE Step.op = "row"
    BY <1>0, <1>1, <2>1, OwnStepOnRecord
  <2>2. CASE Step.op # "row"
    BY <1>1, <2>2 DEF Framed, EligibleInv
  <2> QED
    BY <2>1, <2>2
<1>3. CASE drv.key[1] # "s56"
  BY <1>1, <1>2, <1>3 DEF EligibleInv
<1>4. CASE drv.key[1] = "s56"
  <2>1. drv.st = "run" => Fits(drv.key, drv.pc, Step)
    BY <1>0, <1>1, StepFits DEF Step
  <2>2. drv.st # "run" => Step.op \in {"unwatch", "teardown", "terminate", "check", "row"}
    BY <1>0, <1>1, StepFits DEF Step, IsDriver
  <2>3. HasLaunched => /\ Step.op \notin {"launch", "kill"} /\ drv'.own = drv.own
                       /\ HasLaunched' /\ ctl'.lines = ctl.lines
    <3> SUFFICES ASSUME HasLaunched
                 PROVE  /\ Step.op \notin {"launch", "kill"} /\ drv'.own = drv.own
                        /\ HasLaunched' /\ ctl'.lines = ctl.lines
      OBVIOUS
    <3>1. drv.st = "run" => drv.pc > LaunchAt(drv.key) /\ LaunchAt(drv.key) \in Nat
      BY <1>0, KeysWell DEF HasLaunched, IsDriver
    <3>2. Step.op \notin {"launch", "kill"}
      BY <1>1, <1>4, <2>1, <2>2, <3>1 DEF Fits, Manned
    <3>3. ctl'.lines = ctl.lines
      BY <1>0, <3>2, OwnStepSpares, OldControllerTyped DEF IsController
    <3> QED
      BY <1>0, <1>1, <3>2, <3>3, LaunchedGrows DEF Framed
  <2>4. "timing" \in DOMAIN drv'.got =>
             /\ drv'.own /\ HasLaunched'
             /\ \E i \in Emitted("timing")' : drv'.got.timing = ctl'.lines[i]
    <3> SUFFICES ASSUME "timing" \in DOMAIN drv'.got
                 PROVE  /\ drv'.own /\ HasLaunched'
                        /\ \E i \in Emitted("timing")' : drv'.got.timing = ctl'.lines[i]
      OBVIOUS
    <3>1. drv.own /\ HasLaunched /\ \E i \in Emitted("timing") : drv'.got.timing = ctl.lines[i]
      BY <1>4, TimingRead DEF EligibleInv
    <3>2. Emitted("timing")' = Emitted("timing")
      BY <2>3, <3>1 DEF Emitted
    <3> QED
      BY <2>3, <3>1, <3>2
  <2>5. Step.op # "await" => (AnalysisCounts' <=> AnalysisCounts)
    BY <1>1, <1>4, TimingRead DEF AnalysisCounts
  <2>6. drv'.row => (drv'.eligible <=> AnalysisCounts')
    <3>1. CASE Step.op = "row"
      BY <1>0, <1>4, <2>5, <3>1, OwnStepOnRecord, SameCount
    <3>2. CASE Step.op # "row"
      BY <1>1, <1>4, <2>5, <3>2, NoReadAfterRow DEF Framed, EligibleInv
    <3> QED
      BY <3>1, <3>2
  <2>7. drv'.row /\ drv'.st = "run" => \E i \in 1 .. drv'.pc - 1 : Code[drv'.key].run[i].op = "row"
    <3> SUFFICES ASSUME drv'.row, drv'.st = "run"
                 PROVE  \E i \in 1 .. drv'.pc - 1 : Code[drv'.key].run[i].op = "row"
      OBVIOUS
    <3>1. drv.st = "run" /\ drv'.pc \in Nat /\ (drv' = drv \/ drv'.pc = drv.pc + 1)
      BY <1>1 DEF Framed, Onward, Offward, IsDriver
    <3>2. CASE Step.op = "row"
      <4>1. drv' # drv
        BY <1>1, <3>1, <3>2 DEF Framed, Onward, Offward, At
      <4>2. drv.pc \in 1 .. drv'.pc - 1
        BY <1>0, <1>1, <3>1, <4>1 DEF Placed
      <4> QED
        BY <1>1, <3>1, <3>2, <4>2 DEF Step
    <3>3. CASE Step.op # "row"
      <4>1. drv.row
        BY <1>1, <3>3 DEF Framed
      <4>2. PICK i \in 1 .. drv.pc - 1 : Code[drv.key].run[i].op = "row"
        BY <1>4, <3>1, <4>1 DEF EligibleInv
      <4>3. i \in 1 .. drv'.pc - 1
        BY <1>1, <3>1
      <4> QED
        BY <1>1, <4>2, <4>3
    <3> QED
      BY <3>2, <3>3
  <2> QED
    BY <1>2, <2>4, <2>6, <2>7 DEF EligibleInv
<1> QED
  BY <1>3, <1>4

\* And nothing else makes it count another.
LEMMA EligibleStep ==
  ASSUME PlaceInv, NetworkInv, ControllerInv, ReadInv, WatchInv, CaptureInv, EligibleInv,
         [LabNext]_labvars
  PROVE  EligibleInv'
<1>1. CASE FabricNext /\ ctl' = ctl /\ drv' = drv
  BY <1>1 DEF EligibleInv, HasLaunched, Emitted, AnalysisCounts
<1>2. CASE ControllerNext /\ drv' = drv
  <2>1. IsController(ctl, Topology) /\ SameProcess(ctl, ctl')
    BY <1>2, ControllerSays DEF ControllerInv
  <2>2. \A i \in Emitted("timing") : i \in Emitted("timing")' /\ ctl'.lines[i] = ctl.lines[i]
    BY <2>1, EmittedStays DEF SameProcess
  <2> QED
    BY <1>2, <2>2 DEF EligibleInv, HasLaunched, AnalysisCounts
<1>3. CASE OwnSteps
  BY <1>3, EligibleOwn
<1>4. CASE MonitorPings
  BY <1>4, MonitorPlaced DEF EligibleInv
<1>5. CASE WatchdogFires
  BY <1>5, WatchdogPlaced DEF EligibleInv, WatchInv, Direct
<1>6. CASE DriverKilled
  <2>1. DOMAIN drv'.got = {} /\ ~drv'.row /\ ~drv'.eligible
    BY <1>6, KilledPlaced
  <2> QED
    BY <2>1 DEF EligibleInv
<1>7. CASE net' = net /\ ctl' = ctl /\ drv' = drv
  BY <1>7 DEF EligibleInv, HasLaunched, Emitted, AnalysisCounts
<1> QED
  BY <1>1, <1>2, <1>3, <1>4, <1>5, <1>6, <1>7, StepsOfLab

\* What counts for the corrected measurement.
LEMMA TargetCounts ==
  ASSUME PlaceInv, NetworkInv, ControllerInv, CaptureInv, EligibleInv
  PROVE  EligibleIsTarget
<1>1. drv.key[1] = "s56" /\ drv.row => (drv.eligible <=> AnalysisCounts)
  BY DEF EligibleInv
<1>2. ASSUME drv.eligible, net.up
      PROVE  /\ \E r \in net.rules : r.in = 1 /\ r.dst = 2 /\ r.out = 2 /\ r.id = TargetId
             /\ drv.got.timing.pkt = Packet("echo", 1, 2, TargetId, 1)
  <2>1. drv.key[1] = "s56" /\ AnalysisCounts
    BY <1>1, <1>2 DEF EligibleInv
  <2>2. drv.own /\ HasLaunched
    BY <2>1 DEF EligibleInv, AnalysisCounts
  <2>3. PICK i \in Emitted("timing") : drv.got.timing = ctl.lines[i]
    BY <2>1 DEF EligibleInv, AnalysisCounts
  <2>4. /\ IsTarget(ctl.lines[i]) /\ <<1, 2, TargetId>> \in Asked /\ TargetSeen
    BY <2>1, <2>2, <2>3 DEF CaptureInv, AnalysisCounts
  <2>5. ~Bare(net)
    BY <1>2, BareRests
  <2>6. net.rules \subseteq MyRules
    BY <2>5 DEF NetworkInv, Networks
  <2>7. PICK r \in net.rules : r.in = 1 /\ r.dst = 2
    BY <2>4, <2>5 DEF TargetSeen
  <2>8. /\ r.out = 2
        /\ \E p \in Traffic(Asked) : p.kind # "arpreq" /\ p.src = 1 /\ p.to = 2 /\ r.id = p.id
    BY <2>1, <2>6, <2>7, TargetRules
  <2>9. r.id = TargetId
    <3>1. PICK p \in Traffic(Asked) : p.kind # "arpreq" /\ p.src = 1 /\ p.to = 2 /\ r.id = p.id
      BY <2>8
    <3> DEFINE X == IF drv.key[3] = "wrong_identity" THEN TargetId + 1 ELSE TargetId
    <3>2. Asked = {<<3, 2, 1>>, <<1, 2, X>>}
      BY <2>1 DEF Asked, AskedAt
    <3> HIDE DEF X
    <3>3. X = TargetId
      BY <2>4, <3>2
    <3>4. PICK a \in Asked :
            \/ p.kind \in {"arpreq", "echo"} /\ p.src = a[1] /\ p.to = a[2] /\ (p.kind = "echo" => p.id = a[3])
            \/ p.kind \in {"arprep", "reply"} /\ p.src = a[2] /\ p.to = a[1]
      BY DEF Traffic, Explained
    <3>5. a = <<1, 2, TargetId>> /\ p.kind = "echo"
      BY <3>1, <3>2, <3>3, <3>4
    <3> QED
      BY <3>1, <3>4, <3>5
  <2>10. ctl.lines[i].pkt = Packet("echo", 1, 2, TargetId, 1)
    <3> DEFINE e == ctl.lines[i]
    <3>1. e \in Lines /\ e.event = "timing"
      BY DEF ControllerInv, IsController, Emitted
    <3>2. e.pkt.kind = "echo" /\ e.pkt.src = 1 /\ e.pkt.to = 2 /\ e.pkt.id = TargetId /\ e.pkt.seq = 1
      BY <2>4 DEF IsTarget, IdentityMatches, S56Env, NoEnv
    <3> HIDE DEF e
    <3>3. e.pkt \in Pkts
      BY <3>1 DEF Lines, Timings
    <3> DEFINE p == e.pkt
    <3>4. p = Packet("echo", 1, 2, TargetId, 1)
      <4> HIDE DEF p
      <4> QED
        BY <3>2, <3>3 DEF Pkts, Packet, p
    <3> QED
      BY <3>4 DEF e
  <2> QED
    BY <2>3, <2>7, <2>8, <2>9, <2>10
<1> QED
  BY <1>1, <1>2 DEF EligibleIsTarget

-----------------------------------------------------------------------------
(* Layer 6: the recovery *)

\* Before the ping without a controller nothing is asked of h4, and before the
\* monitor's pings nothing is asked of it by h3.
LEMMA EarlyTraffic ==
  ASSUME NEW k, k[1] = "recovery", NEW pc \in Int, NEW p \in Traffic(AskedAt(k, "run", pc))
  PROVE  /\ pc \in 6 .. WithoutAt - 1 => p.src # 4 /\ p.to # 4
         /\ pc \in 6 .. MonitorAt => ~(p.src = 3 /\ p.to = 4)
<1> DEFINE A == AskedAt(k, "run", pc)
<1>1. pc \in 6 .. WithoutAt - 1 => A = {<<3, 2, 1>>, <<1, 2, 2>>, <<1, 2, 3>>}
  BY DEF AskedAt, WithoutAt, MonitorAt
<1>2. pc \in 6 .. MonitorAt => A \subseteq {<<3, 2, 1>>, <<1, 2, 2>>, <<1, 2, 3>>, <<1, 4, 4>>}
  BY DEF AskedAt, WithoutAt, MonitorAt
<1>3. PICK a \in A : \/ p.src = a[1] /\ p.to = a[2]
                     \/ p.src = a[2] /\ p.to = a[1]
  BY DEF Traffic, Explained
<1> HIDE DEF A
<1> QED
  BY <1>1, <1>2, <1>3

\* No rule of the new pair before it is used.
LEMMA EarlyRules ==
  ASSUME NEW k, k[1] = "recovery", NEW pc \in 6 .. MonitorAt,
         NEW r \in Rules(TopologyOf("recovery"), AskedAt(k, "run", pc), {})
  PROVE  ~OfRecovery(r)
<1> DEFINE t == TopologyOf("recovery")
           A == AskedAt(k, "run", pc)
<1>1. t = SingleSwitchTopo(4)
  BY DEF TopologyOf
<1>2. PICK p \in Traffic(A) : /\ p.kind # "arpreq" /\ r.dst = p.to /\ r.sw \in Switches(t)
                              /\ r.in = PortTowards(t, r.sw, p.src)
  BY DEF Rules, Made
<1>3. r.sw = "s1" /\ p.src \in Hosts
  BY <1>1, <1>2, SingleConnected DEF Traffic, Pkts
<1>4. r.in = p.src
  BY <1>1, <1>2, <1>3 DEF PortTowards, SingleSwitchTopo, Hosts
<1>5. ~(p.src = 3 /\ p.to = 4)
  BY <1>2, EarlyTraffic DEF MonitorAt
<1> QED
  BY <1>2, <1>4, <1>5 DEF OfRecovery

\* What a controller learnt on the one switch of the recovery.
LEMMA LearntRules ==
  ASSUME NEW A, NEW r \in Rules(TopologyOf("recovery"), A, {})
  PROVE  r.sw = "s1" /\ r.dst \in Hosts
<1>1. Made(TopologyOf("recovery"), A, r)
  BY DEF Rules
<1> QED
  BY <1>1, SingleConnected DEF Made, Traffic, Pkts, TopologyOf

\* The recovery has one topology, and all its rules are learnt.
LEMMA RecoveryFacts ==
  ASSUME PlaceInv, drv.key[1] = "recovery"
  PROVE  /\ Learns(drv.key[1]) /\ Topology = TopologyOf("recovery")
         /\ MyRules = Rules(TopologyOf("recovery"), Asked, {})
         /\ StartAt(drv.key) = 5 /\ LaunchAt(drv.key) = 4
         /\ drv.pc \in Nat
BY PlacesOfTrial DEF Learns, Topology, MyRules, Given, PlaceInv, IsDriver

\* The steps of the recovery that start a process, or the network.
LEMMA RecoverySteps ==
  ASSUME PlaceInv, drv.key[1] = "recovery", OwnSteps
  PROVE  /\ Step.op \in {"launch", "kill", "start"} =>
              /\ drv.st = "run" /\ drv.pc \in {1, 2, 3, 4, 5, RestartAt}
              /\ drv'.st = "run" /\ drv'.pc = drv.pc + 1
         /\ drv.st = "run" => Fits(drv.key, drv.pc, Step) /\ drv.pc \in 1 .. 22
         /\ drv.st = "tail" => Step.op \in {"unwatch", "teardown", "terminate"}
         /\ drv.st # "after" /\ drv.st # "done"
<1>0. IsDriver(drv) /\ Placed(drv)
  BY DEF PlaceInv
<1>1. Framed /\ drv.st # "done"
  BY <1>0, OwnStepsFramed DEF Framed, Running
<1>2. /\ drv.st = "run" => Fits(drv.key, drv.pc, Step)
      /\ drv.st = "tail" => Step.op \in {"unwatch", "teardown", "terminate"}
      /\ Ends(drv.key, Code[drv.key].tail, Code[drv.key].after)
      /\ drv.pc \in 1 .. Len(Code[drv.key][drv.st])
      /\ Len(Code[drv.key].run) = 22
  BY <1>0, <1>1, StepFits DEF Step, JoinAt
<1>3. drv.st # "after"
  <2>1. Code[drv.key].after = <<>>
    BY <1>2 DEF Ends, KillsStrays
  <2> QED
    BY <1>2, <2>1
<1>4. drv.st \in {"run", "tail"}
  BY <1>0, <1>1, <1>3 DEF IsDriver
<1>5. ASSUME Step.op \in {"launch", "kill", "start"}
      PROVE  /\ drv.st = "run" /\ drv.pc \in {1, 2, 3, 4, 5, RestartAt}
             /\ drv'.st = "run" /\ drv'.pc = drv.pc + 1
  <2>1. drv.st = "run"
    BY <1>2, <1>4, <1>5
  <2>2. drv.pc \in {1, 2, 3, 4, 5, RestartAt}
    BY <1>2, <1>5, <2>1, RecoveryFacts DEF Fits, Wired, Manned
  <2>3. Onward(drv, drv')
    BY <1>1, <1>5 DEF Framed, At
  <2>4. drv.pc # 22
    BY <2>2 DEF RestartAt
  <2>5. drv'.st = "run" /\ drv'.pc = drv.pc + 1
    BY <1>2, <2>1, <2>3, <2>4 DEF Onward
  <2> QED
    BY <2>1, <2>2, <2>5
<1> QED
  BY <1>2, <1>3, <1>4, <1>5

\* What the channels of a network carry.
LEMMA DecidedRules ==
  ASSUME NEW t, NEW A, NEW R, NEW n \in Networks(t, A, R)
  PROVE  Decided(n) \subseteq R
<1>1. n.rules \subseteq R /\ n.adp \in Seq(R) /\ n.out \in Seq(Messages(t, A, R))
  BY DEF Networks
<1>2. \A i \in DOMAIN n.adp : n.adp[i] \in R
  BY <1>1
<1>3. \A i \in DOMAIN n.out : n.out[i].type = "flow" => n.out[i].rule \in R
  <2>1. \A i \in DOMAIN n.out : n.out[i] \in Messages(t, A, R)
    BY <1>1
  <2> QED
    BY <2>1 DEF Messages, PlainMessages, FlowMods, PacketOuts
<1> QED
  BY <1>1, <1>2, <1>3 DEF Decided

\* The network decides nothing itself.
LEMMA AppliedDecided ==
  ASSUME NEW t, NEW A, NEW R, NEW n \in Networks(t, A, R), NEW m, Applied(n, m)
  PROVE  Decided(m) \subseteq Decided(n)
<1>1. n.adp \in Seq(R) /\ n.out \in Seq(Messages(t, A, R))
  BY DEF Networks
<1>2. ASSUME n.out # <<>>
      PROVE  /\ Head(n.out) = n.out[1] /\ 1 \in DOMAIN n.out
             /\ \A i \in DOMAIN Tail(n.out) : i + 1 \in DOMAIN n.out /\ Tail(n.out)[i] = n.out[i + 1]
  BY <1>1, <1>2
<1>3. ASSUME n.adp # <<>>
      PROVE  /\ Head(n.adp) = n.adp[1] /\ 1 \in DOMAIN n.adp
             /\ \A i \in DOMAIN Tail(n.adp) : i + 1 \in DOMAIN n.adp /\ Tail(n.adp)[i] = n.adp[i + 1]
  BY <1>1, <1>3
<1>4. \A rules, r : AddRule(rules, r) \subseteq rules \cup {r}
  BY DEF AddRule
<1>5. m.rules \subseteq Decided(n)
  BY <1>2, <1>3, <1>4 DEF Applied, Decided
<1>6. \A i \in DOMAIN m.adp : m.adp[i] \in Decided(n)
  BY <1>3 DEF Applied, Decided
<1>7. \A i \in DOMAIN m.out : m.out[i].type = "flow" => m.out[i].rule \in Decided(n)
  <2>1. m.out = n.out \/ (n.out # <<>> /\ m.out = Tail(n.out))
    BY DEF Applied
  <2> QED
    BY <1>2, <2>1 DEF Decided
<1> QED
  BY <1>5, <1>6, <1>7 DEF Decided

\* What is appended to a channel.
LEMMA AppendedFlows ==
  ASSUME NEW S, NEW out \in Seq(S), NEW s \in Seq(S), NEW L,
         \A i \in DOMAIN s : s[i].type = "flow" => s[i].rule \in L,
         NEW i \in DOMAIN (out \o s), (out \o s)[i].type = "flow"
  PROVE  \/ (out \o s)[i].rule \in L
         \/ \E j \in DOMAIN out : out[j] = (out \o s)[i]
<1>1. CASE i \in DOMAIN out
  BY <1>1
<1>2. CASE i \notin DOMAIN out
  <2>1. i - Len(out) \in DOMAIN s /\ (out \o s)[i] = s[i - Len(out)]
    BY <1>2
  <2> QED
    BY <2>1
<1> QED
  BY <1>1, <1>2

\* A controller decides on rules of its own life.
LEMMA AsksDecided ==
  ASSUME NEW t, NEW A, NEW R, NEW n \in Networks(t, A, R), NEW m, Asks(n, m)
  PROVE  \A r \in Decided(m) : r \in Decided(n) \/ r.life = ctl.life
<1> DEFINE L == {DirectRule(sw).rule : sw \in Sws}
<1>1. m.rules = n.rules /\ m.adp = n.adp
  BY DEF Asks
<1>2. \A i \in DOMAIN m.out : m.out[i].type = "flow" =>
         m.out[i].rule \in L \/ \E j \in DOMAIN n.out : n.out[j] = m.out[i]
  <2>1. CASE m.out = n.out
    BY <2>1
  <2>2. ASSUME NEW sw \in Sws, m.out = n.out \o FeatureMessages(sw)
        PROVE  \A i \in DOMAIN m.out : m.out[i].type = "flow" =>
                 m.out[i].rule \in L \/ \E j \in DOMAIN n.out : n.out[j] = m.out[i]
    <3> DEFINE s == FeatureMessages(sw)
               S == Messages(t, A, R) \cup {TableMiss(sw), Barrier(sw), DirectRule(sw)}
    <3>1. n.out \in Seq(S)
      <4>1. n.out \in Seq(Messages(t, A, R))
        BY DEF Networks
      <4> QED
        BY <4>1
    <3>2. s \in Seq(S)
      <4>1. s \in {<<TableMiss(sw), Barrier(sw)>>, <<DirectRule(sw), Barrier(sw)>>, <<TableMiss(sw)>>}
        BY DEF FeatureMessages
      <4>2. \A a, b \in S : <<a>> \in Seq(S) /\ <<a, b>> \in Seq(S)
        OBVIOUS
      <4>3. TableMiss(sw) \in S /\ Barrier(sw) \in S /\ DirectRule(sw) \in S
        OBVIOUS
      <4> HIDE DEF S
      <4> QED
        BY <4>1, <4>2, <4>3
    <3>3. \A i \in DOMAIN s : s[i] \in {TableMiss(sw), Barrier(sw), DirectRule(sw)}
      BY DEF FeatureMessages
    <3>4. TableMiss(sw).type # "flow" /\ Barrier(sw).type # "flow" /\ DirectRule(sw).rule \in L
      BY DEF TableMiss, Barrier
    <3>5. \A i \in DOMAIN s : s[i].type = "flow" => s[i].rule \in L
      BY <3>3, <3>4
    <3> HIDE DEF s, S, L
    <3> QED
      BY <2>2, <3>1, <3>2, <3>5, AppendedFlows DEF s
  <2> QED
    BY <2>1, <2>2 DEF Asks
<1>3. \A r \in L : r.life = ctl.life
  BY DEF DirectRule
<1> QED
  BY <1>1, <1>2, <1>3 DEF Decided

\* A rule that was decided upon is of the controller that runs.
LEMMA DecidesDecided ==
  ASSUME NEW t, NEW A, NEW R, NEW n \in Networks(t, A, R), NEW m,
         NEW ev \in PacketEvents(t, A), NEW life, Decides(n, m, ev, life, R)
  PROVE  \A r \in Decided(m) : r \in Decided(n) \/ r.life = life
<1> DEFINE L == {r \in R : r.life = life}
           Sent(port) == PacketOut(ev, port)
           Flow(r) == [type |-> "flow", rule |-> r]
           S == Messages(t, A, R) \cup {Sent(port)[1] : port \in 0..4} \cup {Flow(r) : r \in R}
<1>0. n.out \in Seq(S) /\ n.adp \in Seq(R)
  <2>1. n.out \in Seq(Messages(t, A, R)) /\ n.adp \in Seq(R)
    BY DEF Networks
  <2> QED
    BY <2>1
<1>1. \A rules, r : AddRule(rules, r) \subseteq rules \cup {r}
  BY DEF AddRule
<1>2. PICK port \in 0..4 :
         \/ m.rules = n.rules /\ m.adp = n.adp /\ m.out = n.out \o Sent(port)
         \/ \E r \in R :
              /\ r.life = life
              /\ \/ m.rules = AddRule(n.rules, r) /\ m.adp = n.adp /\ m.out = n.out \o Sent(port)
                 \/ m.rules = n.rules /\ m.adp = Append(n.adp, r) /\ m.out = n.out \o Sent(port)
                 \/ /\ m.rules = n.rules /\ m.adp = n.adp
                    /\ m.out = Append(n.out, Flow(r)) \o Sent(port)
  BY DEF Decides
<1>3. /\ Sent(port) \in Seq(S) /\ \A i \in DOMAIN Sent(port) : Sent(port)[i].type # "flow"
  <2>1. Sent(port)[1] \in S
    OBVIOUS
  <2> QED
    BY <2>1 DEF PacketOut
<1>4. \A r \in R : Flow(r) \in S /\ Flow(r).rule = r
  OBVIOUS
<1>5. \A r \in R : /\ Append(n.out, Flow(r)) \in Seq(S)
                   /\ \A i \in DOMAIN Append(n.out, Flow(r)) :
                        Append(n.out, Flow(r))[i] = Flow(r)
                        \/ \E j \in DOMAIN n.out : n.out[j] = Append(n.out, Flow(r))[i]
  <2> HIDE DEF Flow, S
  <2> QED
    BY <1>0, <1>4
<1>6. \A r \in m.rules : r \in n.rules \cup L
  <2>1. CASE m.rules = n.rules
    BY <2>1
  <2>2. ASSUME NEW r \in R, r.life = life, m.rules = AddRule(n.rules, r)
        PROVE  \A q \in m.rules : q \in n.rules \cup L
    BY <1>1, <2>2
  <2> HIDE DEF L, Sent, Flow
  <2> QED
    BY <1>2, <2>1, <2>2
<1>7. \A i \in DOMAIN m.adp : m.adp[i] \in L \/ \E j \in DOMAIN n.adp : n.adp[j] = m.adp[i]
  <2>1. CASE m.adp = n.adp
    BY <2>1
  <2>2. ASSUME NEW r \in R, r.life = life, m.adp = Append(n.adp, r)
        PROVE  \A i \in DOMAIN m.adp : m.adp[i] \in L \/ \E j \in DOMAIN n.adp : n.adp[j] = m.adp[i]
    BY <1>0, <2>2
  <2> HIDE DEF L, Sent, Flow
  <2> QED
    BY <1>2, <2>1, <2>2
<1>8. \A i \in DOMAIN m.out : m.out[i].type = "flow" =>
         m.out[i].rule \in L \/ \E j \in DOMAIN n.out : n.out[j] = m.out[i]
  <2>1. CASE m.out = n.out \o Sent(port)
    <3> HIDE DEF L, Sent, S
    <3> QED
      BY <1>0, <1>3, <2>1, AppendedFlows
  <2>2. ASSUME NEW r \in R, r.life = life, m.out = Append(n.out, Flow(r)) \o Sent(port)
        PROVE  \A i \in DOMAIN m.out : m.out[i].type = "flow" =>
                 m.out[i].rule \in L \/ \E j \in DOMAIN n.out : n.out[j] = m.out[i]
    <3> DEFINE o == Append(n.out, Flow(r))
    <3>1. r \in L /\ Flow(r).rule = r
      BY <2>2, <1>4
    <3>2. o \in Seq(S) /\ \A i \in DOMAIN o : o[i] = Flow(r) \/ \E j \in DOMAIN n.out : n.out[j] = o[i]
      BY <1>5
    <3> HIDE DEF o, L, Sent, S, Flow
    <3>3. \A i \in DOMAIN m.out : m.out[i].type = "flow" =>
            m.out[i].rule \in L \/ \E j \in DOMAIN o : o[j] = m.out[i]
      BY <1>3, <2>2, <3>2, AppendedFlows DEF o
    <3> QED
      BY <3>1, <3>2, <3>3
  <2> HIDE DEF L, Sent, Flow
  <2> QED
    BY <1>2, <2>1, <2>2
<1> QED
  BY <1>6, <1>7, <1>8 DEF Decided

\* The part of the recovery that can have a rule of the unused pair.
Late(d) == d.st # "run" \/ d.pc > MonitorAt

\* An own step of it comes from a trial with a network, and neither starts nor
\* kills a process.
LEMMA LateSteps ==
  ASSUME PlaceInv, drv.key[1] = "recovery", OwnSteps, Late(drv')
  PROVE  HasNet /\ Step.op \notin {"launch", "kill", "start"}
<1>0. IsDriver(drv) /\ Placed(drv)
  BY DEF PlaceInv
<1>1. Step.op \notin {"launch", "kill", "start"}
  BY RecoverySteps DEF Late, MonitorAt, RestartAt
<1>2. Framed /\ drv.pc \in Nat
  BY <1>0, OwnStepsFramed DEF IsDriver
<1>3. drv.st = "run" => Fits(drv.key, drv.pc, Step) /\ drv.pc \in 1 .. 22
  BY RecoverySteps
<1>4. ASSUME drv.st = "run" PROVE drv.pc > 5
  <2>0. Len(Code[drv.key].run) = 22
    BY <1>0, <1>4, StepFits DEF JoinAt
  <2>1. ASSUME Offward(drv, drv'), Step.op \in {"stop", "terminate", "await", "check", "install", "arm"}
        PROVE  drv.pc > 5
    <3>1. drv.pc \in 1 .. 22 /\ (drv.pc <= LaunchAt(drv.key) \/ drv.pc <= StartAt(drv.key) =>
             Step.op \in {"teardown", "kill", "launch", "watch", "start"})
      BY <1>3, <1>4 DEF Fits, Manned
    <3> QED
      BY <2>1, <3>1, RecoveryFacts
  <2>2. CASE Onward(drv, drv')
    <3>1. Len(Code[drv.key][drv.st]) = 22
      BY <1>4, <2>0
    <3> QED
      BY <1>2, <1>4, <2>2, <3>1 DEF Onward, Late, MonitorAt
  <2>3. CASE drv' = drv
    BY <1>2, <1>4, <2>3 DEF Late, MonitorAt
  <2> QED
    BY <1>2, <2>1, <2>2, <2>3 DEF Framed
<1> QED
  BY <1>1, <1>2, <1>4, RecoveryFacts DEF HasNet

\* Late rules of the unused pair are of the controller that runs.
LEMMA LifeStep ==
  ASSUME PlaceInv, NetworkInv, ControllerInv, WatchInv, LifeInv, [LabNext]_labvars
  PROVE  LifeInv'
<1> SUFFICES ASSUME drv'.key[1] = "recovery", HasNet'
             PROVE  \A r \in Decided(net') : OfRecovery(r) => r.life = ctl'.life
  BY DEF LifeInv
<1> DEFINE t == TopologyOf("recovery")
           Fresh(A) == Rules(t, A, {})
<1>0. PlaceInv' /\ NetworkInv'
  BY PlaceStep, MachineStep
<1>1. CASE Bare(net')
  BY <1>1 DEF Bare, NoNet, Decided
<1>2. CASE ~Bare(net') /\ ~Late(drv')
  <2>1. drv'.st = "run" /\ drv'.pc \in 6 .. MonitorAt
    BY <1>0, <1>2, PlacesOfTrial DEF Late, HasNet, PlaceInv, IsDriver, MonitorAt
  <2>2. net' \in Networks(t, AskedAt(drv'.key, "run", drv'.pc), Fresh(AskedAt(drv'.key, "run", drv'.pc)))
    BY <1>0, <1>2, <2>1 DEF NetworkInv, Topology, Asked, MyRules, Given, Learns
  <2>3. Decided(net') \subseteq Fresh(AskedAt(drv'.key, "run", drv'.pc))
    BY <2>2, DecidedRules
  <2> HIDE DEF t
  <2>4. \A r \in Fresh(AskedAt(drv'.key, "run", drv'.pc)) : ~OfRecovery(r)
    BY <2>1, EarlyRules DEF t
  <2> QED
    BY <2>3, <2>4
<1>3. CASE ~Bare(net') /\ Late(drv')
  <2> SUFFICES /\ \A r \in Decided(net) : OfRecovery(r) => r.life = ctl.life
               /\ ctl'.life = ctl.life
               /\ \A r \in Decided(net') : r \in Decided(net) \/ r.life = ctl.life
    OBVIOUS
  <2>0. IsDriver(drv) /\ Placed(drv)
    BY DEF PlaceInv
  <2>1. CASE FabricNext /\ ctl' = ctl /\ drv' = drv
    <3>1. net \in Networks(Topology, Asked, MyRules)
      BY <2>1, BareRests DEF NetworkInv
    <3>2. Decided(net') \subseteq Decided(net)
      BY <2>1, <3>1, FabricKeeps, AppliedDecided
    <3>3. HasNet
      BY <2>1 DEF HasNet
    <3> QED
      BY <2>1, <3>2, <3>3 DEF LifeInv
  <2>2. CASE ControllerNext /\ drv' = drv
    <3>1. ctl'.life = ctl.life
      BY <2>2, ControllerSteps DEF SameProcess
    <3>2. \A r \in Decided(net') : r \in Decided(net) \/ r.life = ctl.life
      BY <2>2, ControllerDecides, AsksDecided, DecidesDecided
    <3>3. HasNet
      BY <2>2 DEF HasNet
    <3> QED
      BY <2>2, <3>1, <3>2, <3>3 DEF LifeInv
  <2>3. CASE OwnSteps
    <3>1. drv'.key = drv.key
      BY <2>0, <2>3, OwnStepsFramed DEF Framed
    <3>2. HasNet /\ Step.op \notin {"launch", "kill", "start"}
      BY <1>3, <2>3, <3>1, LateSteps
    <3>3. ctl'.life = ctl.life
      <4>1. Dead(ctl).life = ctl.life
        BY OldControllerTyped DEF ControllerInv
      <4>2. [ctl EXCEPT !.armed = TRUE].life = ctl.life
        BY OldControllerTyped DEF ControllerInv, IsController
      <4> QED
        BY <2>0, <2>3, <3>2, <4>1, <4>2, OwnStepSpares
    <3>4. net \in Networks(Topology, Asked, MyRules)
      BY <1>3, <2>3, <3>2, OwnStepOnNetwork
    <3>5. net.late \in Int
      BY <3>4 DEF Networks
    <3>6. \A x \in Stored : net'[x] = net[x]
      BY <1>3, <2>0, <2>3, <3>1, <3>2, <3>4, <3>5, OwnStepOnRules DEF Learns
    <3>7. Decided(net') = Decided(net)
      BY <3>6 DEF Decided, Stored
    <3> QED
      BY <3>1, <3>2, <3>3, <3>7 DEF LifeInv
  <2>4. CASE MonitorPings
    <3>1. /\ drv.key[1] = "recovery" /\ HasNet /\ ctl' = ctl
          /\ net' = StartPing(net, 3, 4, 9, 1) \/ net' = net \/ net' = [net EXCEPT !.ping = NoPing]
      BY <2>4, MonitorPlaced, RecoveryFacts DEF HasNet, MonitorAt, JoinAt
    <3>2. net \in Networks(Topology, Asked, MyRules)
      BY <2>4, <3>1, MonitorPlaced DEF NetworkInv
    <3>3. Decided(net') = Decided(net)
      BY <3>1, <3>2 DEF Networks, Decided, StartPing
    <3> QED
      BY <3>1, <3>3 DEF LifeInv
  <2>5. CASE WatchdogFires
    BY <2>5, WatchdogPlaced DEF WatchInv, Direct
  <2>6. CASE DriverKilled
    BY <2>6, <1>3, KilledPlaced DEF Late, MonitorAt
  <2>7. CASE net' = net /\ ctl' = ctl /\ drv' = drv
    BY <2>7 DEF LifeInv, HasNet
  <2> QED
    BY <2>1, <2>2, <2>3, <2>4, <2>5, <2>6, <2>7, StepsOfLab
<1> QED
  BY <1>1, <1>2, <1>3

\* What the hosts make of a packet: only its two ends learn or answer.
Echoed(n, m, p) ==
    /\ m.nb \subseteq n.nb \cup {<<p.to, p.src>>}
    /\ \A f \in m.air : f \in n.air \/ f.pkt = p \/ (f.pkt.src = p.to /\ f.pkt.to = p.src)
    /\ \/ m.ping = n.ping
       \/ p.kind = "arprep" /\ n.ping.st = "arp" /\ n.ping.from = p.to /\ n.ping.to = p.src
       \/ p.kind = "reply" /\ n.ping.st = "echo"

\* What a host sends is the only thing that is new in the air.
LEMMA SendEchoes ==
  ASSUME NEW n, DOMAIN n = DOMAIN NoNet, NEW h, NEW p
  PROVE  LET m == Send(n, h, p)
         IN /\ DOMAIN m = DOMAIN NoNet /\ m.nb = n.nb /\ m.ping = n.ping
            /\ \A f \in m.air : f \in n.air \/ f.pkt = p
BY DEF Send, NoNet

\* A host answers what it has received, and learns only from it.
LEMMA HostReceivesEchoes ==
  ASSUME NEW n, DOMAIN n = DOMAIN NoNet, NEW p,
         p.kind \in {"arpreq", "arprep", "echo", "reply"}
  PROVE  Echoed(n, HostReceives(n, p.to, p), p)
<1> DEFINE h == p.to
           m == [n EXCEPT !.nb = n.nb \cup {<<h, p.src>>}]
           e == [m EXCEPT !.ping.st = "echo"]
           a == [n EXCEPT !.ping.st = "answered"]
           Answer(kind, id, seq) == Packet(kind, h, p.src, id, seq)
<1>1. /\ DOMAIN m = DOMAIN NoNet /\ m.nb = n.nb \cup {<<h, p.src>>}
      /\ m.air = n.air /\ m.ping = n.ping
  BY DEF NoNet
<1>2. DOMAIN e = DOMAIN NoNet /\ e.nb = m.nb /\ e.air = n.air
  BY DEF NoNet
<1>3. a.nb = n.nb /\ a.air = n.air
  BY DEF NoNet
<1>4. \A kind, id, seq : Answer(kind, id, seq).src = p.to /\ Answer(kind, id, seq).to = p.src
  BY DEF Packet
<1>5. CASE p.kind = "arpreq"
  <2>1. HostReceives(n, p.to, p) = Send(m, h, Answer("arprep", 0, 0))
    BY <1>5 DEF HostReceives
  <2> HIDE DEF m, Answer
  <2> QED
    BY <1>1, <1>4, <2>1, SendEchoes DEF Echoed
<1>6. CASE p.kind = "arprep"
  <2>1. HostReceives(n, p.to, p) =
          IF n.ping.st = "arp" /\ n.ping.from = h /\ n.ping.to = p.src
          THEN Send(e, h, Answer("echo", n.ping.id, n.ping.sent)) ELSE m
    BY <1>6 DEF HostReceives
  <2> HIDE DEF m, e, Answer
  <2> QED
    BY <1>1, <1>2, <1>4, <1>6, <2>1, SendEchoes DEF Echoed
<1>7. CASE p.kind = "echo"
  <2>1. HostReceives(n, p.to, p) =
          IF <<h, p.src>> \in n.nb THEN Send(n, h, Answer("reply", p.id, p.seq)) ELSE n
    BY <1>7 DEF HostReceives
  <2> HIDE DEF Answer
  <2> QED
    BY <1>4, <2>1, SendEchoes DEF Echoed
<1>8. CASE p.kind = "reply"
  <2>1. HostReceives(n, p.to, p) =
          IF n.ping.st = "echo" /\ n.ping.from = h /\ n.ping.id = p.id /\ n.ping.sent = p.seq
          THEN a ELSE n
    BY <1>8 DEF HostReceives
  <2> HIDE DEF a
  <2> QED
    BY <1>3, <1>8, <2>1 DEF Echoed
<1> QED
  BY <1>5, <1>6, <1>7, <1>8

\* So does every host that a packet is put out to.
LEMMA OutputEchoes ==
  ASSUME NEW n, DOMAIN n = DOMAIN NoNet, NEW sw, NEW in, NEW port, NEW p,
         p.kind \in {"arpreq", "arprep", "echo", "reply"}
  PROVE  Echoed(n, Output(n, sw, in, port, p), p)
<1> DEFINE ps == (IF port = FLOOD THEN {w[2] : w \in Places(n.topo)} ELSE {port}) \ {in}
           trunk == {w \in DOMAIN n.topo.trunk : w[1] = sw /\ w[2] \in ps}
           m == [n EXCEPT !.air = n.air \cup
                {[sw |-> n.topo.trunk[w][1], in |-> n.topo.trunk[w][2], pkt |-> p] : w \in trunk}]
<1>1. Output(n, sw, in, port, p) \in {HostReceives(m, p.to, p), m}
  BY DEF Output, Leaves
<1> HIDE DEF ps, trunk
<1>2. /\ DOMAIN m = DOMAIN NoNet /\ m.nb = n.nb /\ m.ping = n.ping
      /\ \A f \in m.air : f \in n.air \/ f.pkt = p
  BY DEF NoNet
<1> HIDE DEF m
<1>3. Echoed(m, HostReceives(m, p.to, p), p)
  BY <1>2, HostReceivesEchoes
<1> QED
  BY <1>1, <1>2, <1>3 DEF Echoed

\* The steps of the network, by what they do to the hosts.
LEMMA FabricEchoes ==
  ASSUME NEW t, NEW A, NEW R, net \in Networks(t, A, R), FabricNext
  PROVE  \/ \E f \in net.air : /\ Matching(net, f) # {} /\ Echoed(net, net', f.pkt)
                               /\ net'.out = net.out
         \/ /\ net.out # <<>> /\ Head(net.out).type = "packet"
            /\ Echoed(net, net', Head(net.out).pkt) /\ net'.out = Tail(net.out)
         \/ /\ net'.nb = net.nb /\ net'.ping = net.ping /\ net'.air \subseteq net.air
            /\ net'.out = net.out \/ (net.out # <<>> /\ net'.out = Tail(net.out))
         \/ PingSends \/ PingAnswered \/ PingGivesUp
<1>0. /\ DOMAIN net = DOMAIN NoNet
      /\ \A f \in net.air : f.pkt.kind \in {"arpreq", "arprep", "echo", "reply"}
      /\ net.out \in Seq(Messages(t, A, R))
  BY DEF Networks, NoNet, Arrived, Frames
<1>1. CASE SwitchForwards
  <2>1. PICK f \in net.air :
          LET n == [net EXCEPT !.air = @ \ {f}] IN
          net' = IF Matching(net, f) # {}
                 THEN Output(n, f.sw, f.in, (CHOOSE r \in Matching(net, f) : TRUE).out, f.pkt)
                 ELSE IF f.sw \in net.miss /\ net.conn
                 THEN [n EXCEPT !.pin = Append(@, [type |-> "packet", sw |-> f.sw,
                                                   in |-> f.in, pkt |-> f.pkt])]
                 ELSE n
    BY <1>1 DEF SwitchForwards
  <2> DEFINE n == [net EXCEPT !.air = net.air \ {f}]
             port == (CHOOSE r \in Matching(net, f) : TRUE).out
             q == [n EXCEPT !.pin = Append(n.pin, [type |-> "packet", sw |-> f.sw,
                                                   in |-> f.in, pkt |-> f.pkt])]
  <2>2. /\ DOMAIN n = DOMAIN NoNet /\ n.nb = net.nb /\ n.ping = net.ping /\ n.out = net.out
        /\ n.air \subseteq net.air
    BY <1>0 DEF NoNet
  <2>3. q.nb = n.nb /\ q.ping = n.ping /\ q.out = n.out /\ q.air = n.air
    BY <2>2 DEF NoNet
  <2>4. /\ Matching(net, f) # {} => net' = Output(n, f.sw, f.in, port, f.pkt)
        /\ Matching(net, f) = {} => net' = q \/ net' = n
    BY <2>1
  <2> HIDE DEF n, q, port
  <2>5. CASE Matching(net, f) = {}
    BY <2>2, <2>3, <2>4, <2>5
  <2>6. CASE Matching(net, f) # {}
    <3>1. Echoed(n, net', f.pkt)
      BY <1>0, <2>2, <2>4, <2>6, OutputEchoes
    <3>2. net'.out = net.out
      <4>1. Reacts(n, net')
        BY <1>0, <2>2, <2>4, <2>6, OutputReacts
      <4> QED
        BY <2>2, <4>1 DEF Reacts, OffTheAir
    <3> QED
      BY <2>2, <2>6, <3>1, <3>2 DEF Echoed
  <2> QED
    BY <2>5, <2>6
<1>2. CASE ChannelApplies
  <2> DEFINE m == Head(net.out)
             n == [net EXCEPT !.out = Tail(net.out)]
  <2>1. net.out # <<>> /\ m \in Messages(t, A, R)
    BY <1>0, <1>2, HeadTailProperties DEF ChannelApplies
  <2>2. /\ DOMAIN n = DOMAIN NoNet /\ n.nb = net.nb /\ n.ping = net.ping
        /\ n.air = net.air /\ n.out = Tail(net.out)
    BY <1>0 DEF NoNet
  <2> HIDE DEF m, n
  <2>3. net' = CASE m.type = "miss" -> [n EXCEPT !.miss = @ \cup {m.sw}]
                 [] m.type = "barrier" ->
                      IF n.conn THEN [n EXCEPT !.pin = Append(@, m)] ELSE n
                 [] m.type = "flow" -> [n EXCEPT !.rules = AddRule(@, m.rule)]
                 [] m.type = "packet" -> Output(n, m.sw, m.in, m.port, m.pkt)
    BY <1>2 DEF ChannelApplies, m, n
  <2>4. CASE m.type = "packet"
    <3>1. m.pkt.kind \in {"arpreq", "arprep", "echo", "reply"}
      BY <2>1, <2>4 DEF Messages, PlainMessages, FlowMods, PacketOuts, Pkts
    <3>2. net' = Output(n, m.sw, m.in, m.port, m.pkt)
      BY <2>3, <2>4
    <3>3. Echoed(n, net', m.pkt) /\ Reacts(n, net')
      BY <2>2, <3>1, <3>2, OutputEchoes, OutputReacts
    <3>4. net'.out = n.out
      BY <3>3 DEF Reacts, OffTheAir
    <3> QED
      BY <2>1, <2>2, <2>4, <3>3, <3>4 DEF Echoed, m
  <2>5. CASE m.type # "packet"
    <3>1. m.type \in {"miss", "barrier", "flow"}
      BY <2>1, <2>5 DEF Messages, PlainMessages, FlowMods, PacketOuts
    <3>2. \/ net' = [n EXCEPT !.miss = n.miss \cup {m.sw}]
          \/ net' = [n EXCEPT !.pin = Append(n.pin, m)]
          \/ net' = n
          \/ net' = [n EXCEPT !.rules = AddRule(n.rules, m.rule)]
      BY <2>3, <3>1
    <3>3. net'.nb = n.nb /\ net'.ping = n.ping /\ net'.air = n.air /\ net'.out = n.out
      BY <2>2, <3>2 DEF NoNet
    <3> QED
      BY <2>1, <2>2, <3>3
  <2> QED
    BY <2>4, <2>5
<1>3. CASE AdapterApplies
  <2>1. /\ net'.nb = net.nb /\ net'.ping = net.ping /\ net'.air = net.air /\ net'.out = net.out
    BY <1>0, <1>3 DEF AdapterApplies, NoNet
  <2> QED
    BY <2>1
<1> QED
  BY <1>1, <1>2, <1>3 DEF FabricNext

\* The ARP requests for an address nobody has asked for match no rule.
LEMMA NoRuleForRequests ==
  ASSUME NEW A, net.rules \subseteq Rules(TopologyOf("recovery"), A, {}), NEW f,
         f.pkt.kind = "arpreq"
  PROVE  Matching(net, f) = {}
<1> SUFFICES ASSUME NEW r \in Matching(net, f) PROVE FALSE
  OBVIOUS
<1>1. r.dst \in Hosts
  BY LearntRules DEF Matching
<1> QED
  BY <1>1 DEF Matching, EthDst, IsIP, All, AnyDst, IPOnly, Hosts

\* Without a controller the network brings no answer to h1.
LEMMA NoAnswerStays ==
  ASSUME NEW A, net \in Networks(TopologyOf("recovery"), A, Rules(TopologyOf("recovery"), A, {})),
         FabricNext, NoAnswer, <<1, 4>> \notin net.nb
  PROVE  NoAnswer' /\ <<1, 4>> \notin net'.nb
<1> DEFINE t == TopologyOf("recovery")
           R == Rules(t, A, {})
<1>0. /\ DOMAIN net = DOMAIN NoNet /\ net.rules \subseteq R /\ net.ping \in Pings(A)
      /\ net.out \in Seq(Messages(t, A, R))
  BY DEF Networks, NoNet
<1> HIDE DEF t, R
<1>t. ASSUME net'.out = net.out \/ (net.out # <<>> /\ net'.out = Tail(net.out))
      PROVE  \A i \in DOMAIN net'.out : \E j \in DOMAIN net.out : net.out[j] = net'.out[i]
  <2>1. ASSUME net.out # <<>>, NEW i \in DOMAIN Tail(net.out)
        PROVE  i + 1 \in DOMAIN net.out /\ Tail(net.out)[i] = net.out[i + 1]
    BY <1>0, <2>1
  <2> QED
    BY <1>t, <2>1
<1>1. ASSUME NEW p, ~NewPair(p), Echoed(net, net', p),
             net'.out = net.out \/ (net.out # <<>> /\ net'.out = Tail(net.out))
      PROVE  NoAnswer' /\ <<1, 4>> \notin net'.nb
  <2>1. net'.ping = net.ping
    BY <1>1 DEF Echoed, NewPair, NoAnswer
  <2>2. \A f \in net'.air : NewPair(f.pkt) => f \in net.air
    BY <1>1 DEF Echoed, NewPair
  <2>3. <<1, 4>> \notin net'.nb
    BY <1>1 DEF Echoed, NewPair
  <2>4. \A i \in DOMAIN net'.out : \E j \in DOMAIN net.out : net.out[j] = net'.out[i]
    BY <1>1, <1>t
  <2> QED
    BY <2>1, <2>2, <2>3, <2>4 DEF NoAnswer
<1>2. CASE \E f \in net.air : /\ Matching(net, f) # {} /\ Echoed(net, net', f.pkt)
                              /\ net'.out = net.out
  <2>1. PICK f \in net.air : /\ Matching(net, f) # {} /\ Echoed(net, net', f.pkt)
                             /\ net'.out = net.out
    BY <1>2
  <2>2. ~NewPair(f.pkt)
    BY <1>0, <2>1, NoRuleForRequests DEF NoAnswer, t, R
  <2> QED
    BY <1>1, <2>1, <2>2
<1>3. CASE /\ net.out # <<>> /\ Head(net.out).type = "packet"
           /\ Echoed(net, net', Head(net.out).pkt) /\ net'.out = Tail(net.out)
  <2>1. Head(net.out) = net.out[1] /\ 1 \in DOMAIN net.out
    BY <1>0, <1>3
  <2>2. ~NewPair(Head(net.out).pkt)
    BY <1>3, <2>1 DEF NoAnswer
  <2> QED
    BY <1>1, <1>3, <2>2
<1>4. CASE /\ net'.nb = net.nb /\ net'.ping = net.ping /\ net'.air \subseteq net.air
           /\ net'.out = net.out \/ (net.out # <<>> /\ net'.out = Tail(net.out))
  <2>1. \A i \in DOMAIN net'.out : \E j \in DOMAIN net.out : net.out[j] = net'.out[i]
    BY <1>4, <1>t
  <2> QED
    BY <1>4, <2>1 DEF NoAnswer
<1>5. CASE PingSends
  <2> DEFINE p == net.ping
             known == <<p.from, p.to>> \in net.nb
             n == [net EXCEPT !.ping.st = "arp", !.ping.sent = p.sent + 1]
             q == Packet("arpreq", p.from, p.to, 0, 0)
  <2>1. p.st = "ready" /\ p.from = 1 /\ p.to = 4 /\ p.ok = 0
    BY <1>5 DEF PingSends, NoAnswer
  <2>2. net' = Send(n, p.from, q)
    <3>1. ~known
      BY <2>1
    <3>2. net' = Send([net EXCEPT !.ping.st = IF known THEN "echo" ELSE "arp", !.ping.sent = p.sent + 1],
                      p.from, IF known THEN Packet("echo", p.from, p.to, p.id, p.sent + 1) ELSE q)
      BY <1>5, <1>0 DEF PingSends, Networks, Pings
    <3> HIDE DEF q, known
    <3> QED
      BY <3>1, <3>2
  <2>3. /\ DOMAIN n = DOMAIN NoNet /\ n.nb = net.nb /\ n.air = net.air /\ n.out = net.out
        /\ n.ping = [p EXCEPT !.st = "arp", !.sent = p.sent + 1]
    BY <1>0 DEF NoNet, Pings
  <2> HIDE DEF n
  <2>4. n.ping.st = "arp" /\ n.ping.ok = 0 /\ n.ping.from = 1 /\ n.ping.to = 4
    BY <1>0, <2>1, <2>3 DEF Pings
  <2>5. q.kind = "arpreq" /\ q.src = 1
    BY <2>1 DEF Packet
  <2> HIDE DEF p, q
  <2>6. /\ net'.nb = n.nb /\ net'.ping = n.ping /\ net'.out = n.out
        /\ \A f \in net'.air : f \in n.air \/ f.pkt = q
    BY <2>2, <2>3, SendEchoes, SendReacts DEF Reacts, OffTheAir
  <2> QED
    BY <2>3, <2>4, <2>5, <2>6 DEF NoAnswer
<1>6. CASE PingAnswered
  BY <1>6 DEF PingAnswered, NoAnswer
<1>7. CASE PingGivesUp
  <2>1. /\ net.ping.st = "arp"
        /\ \E late : net' = [net EXCEPT !.ping = [net.ping EXCEPT !.st = "ready"], !.late = late]
    BY <1>7 DEF PingGivesUp, NoAnswer
  <2>2. /\ net'.nb = net.nb /\ net'.air = net.air /\ net'.out = net.out
        /\ net'.ping = [net.ping EXCEPT !.st = "ready"]
    BY <1>0, <2>1 DEF NoNet
  <2>3. /\ net'.ping.st = "ready" /\ net'.ping.ok = net.ping.ok
        /\ net'.ping.from = net.ping.from /\ net'.ping.to = net.ping.to
    BY <1>0, <2>2 DEF Pings
  <2> QED
    BY <2>1, <2>2, <2>3 DEF NoAnswer
<1> QED
  BY <1>2, <1>3, <1>4, <1>5, <1>6, <1>7, FabricEchoes

\* A ping step of a driver starts the ping, or goes on when it is over.
LEMMA PingMoves ==
  ASSUME IsDriver(drv), Placed(drv), OwnSteps, Step.op = "ping"
  PROVE  \/ /\ drv' = drv /\ net.ping.st = "idle"
            /\ net' = StartPing(net, Step.from, Step.to, Step.id, Step.count)
         \/ /\ PingOver /\ Onward(drv, drv') /\ net' = [net EXCEPT !.ping = NoPing]
            /\ drv'.got = Gets(Step.as, [ok |-> net.ping.ok, count |-> net.ping.count])
<1>1. PingStep
  BY StepOfKind
<1>2. CASE drv' = drv
  <2>1. ~Onward(drv, drv')
    BY <1>2 DEF Onward, IsDriver
  <2>2. \/ /\ net.ping.st = "idle"
           /\ net' = StartPing(net, Step.from, Step.to, Step.id, Step.count)
        \/ PingOver /\ drv' = Forward([drv EXCEPT !.got =
                        Gets(Step.as, [ok |-> net.ping.ok, count |-> net.ping.count])])
    BY <1>1 DEF PingStep
  <2>3. ASSUME NEW g, drv' = Forward([drv EXCEPT !.got = g]) PROVE FALSE
    <3> DEFINE d == [drv EXCEPT !.got = g]
    <3>1. IsDriver(d) /\ d.key = drv.key /\ d.st = drv.st /\ d.pc = drv.pc
      BY DEF IsDriver
    <3> HIDE DEF d
    <3>2. Running
      BY <1>1 DEF PingStep, At
    <3> QED
      BY <2>1, <2>3, <3>1, <3>2, MovesFrom DEF d
  <2> QED
    BY <1>2, <2>2, <2>3
<1>3. CASE drv' # drv
  <2>1. net' = [net EXCEPT !.ping = NoPing]
    BY <1>1, <1>3 DEF PingStep
  <2> QED
    BY <1>3, <2>1, OwnStepOnRecord
<1> QED
  BY <1>2, <1>3

\* What goes between h1 and h4 when nothing was asked of h4.
LEMMA NothingAsked ==
  ASSUME NEW k, k[1] = "recovery", NEW pc \in 6 .. WithoutAt - 1, NEW t, NEW R,
         net \in Networks(t, AskedAt(k, "run", pc), R)
  PROVE  /\ \A f \in net.air : ~NewPair(f.pkt)
         /\ \A i \in DOMAIN net.out : net.out[i].type = "packet" => ~NewPair(net.out[i].pkt)
<1> DEFINE A == AskedAt(k, "run", pc)
<1>1. \A p \in Traffic(A) : ~NewPair(p)
  BY EarlyTraffic DEF NewPair
<1>2. \A f \in net.air : f.pkt \in Traffic(A)
  BY DEF Networks, Arrived, Arrives
<1>3. \A i \in DOMAIN net.out : net.out[i] \in Messages(t, A, R)
  <2>1. net.out \in Seq(Messages(t, A, R))
    BY DEF Networks
  <2> HIDE DEF A
  <2> QED
    BY <2>1
<1>4. \A i \in DOMAIN net.out : net.out[i].type = "packet" => net.out[i].pkt \in Traffic(A)
  <2> HIDE DEF A
  <2> QED
    BY <1>3 DEF Messages, PlainMessages, FlowMods, PacketOuts, Arrives
<1> QED
  BY <1>1, <1>2, <1>4

\* h1 does not get to know h4 before they have asked for each other.
LEMMA EarlyNeighbours ==
  ASSUME NEW k, k[1] = "recovery", NEW pc \in 6 .. WithoutAt - 1, NEW t, NEW R,
         net \in Networks(t, AskedAt(k, "run", pc), R), FabricNext, <<1, 4>> \notin net.nb
  PROVE  <<1, 4>> \notin net'.nb
<1> DEFINE A == AskedAt(k, "run", pc)
<1>0. DOMAIN net = DOMAIN NoNet /\ net.ping \in Pings(A) /\ net.out \in Seq(Messages(t, A, R))
  BY DEF Networks, NoNet
<1>1. ASSUME NEW p, Echoed(net, net', p), ~NewPair(p) PROVE <<1, 4>> \notin net'.nb
  BY <1>1 DEF Echoed, NewPair
<1>2. CASE PingSends
  <2>1. PICK n, h, q : net' = Send(n, h, q) /\ DOMAIN n = DOMAIN NoNet /\ n.nb = net.nb
    <3> DEFINE p == net.ping
               known == <<p.from, p.to>> \in net.nb
               n == [net EXCEPT !.ping.st = IF known THEN "echo" ELSE "arp", !.ping.sent = p.sent + 1]
               q == IF known THEN Packet("echo", p.from, p.to, p.id, p.sent + 1)
                    ELSE Packet("arpreq", p.from, p.to, 0, 0)
    <3>1. net' = Send(n, p.from, q)
      BY <1>2, <1>0 DEF PingSends, Networks, Pings
    <3>2. DOMAIN n = DOMAIN NoNet /\ n.nb = net.nb
      BY <1>0 DEF NoNet
    <3> HIDE DEF n, q, p
    <3> QED
      BY <3>1, <3>2
  <2> QED
    BY <2>1, SendEchoes
<1>3. CASE PingAnswered \/ PingGivesUp
  BY <1>0, <1>3 DEF PingAnswered, PingGivesUp, NoNet
<1>4. CASE \E f \in net.air : Echoed(net, net', f.pkt)
  BY <1>1, <1>4, NothingAsked
<1>5. CASE /\ net.out # <<>> /\ Head(net.out).type = "packet" /\ Echoed(net, net', Head(net.out).pkt)
  <2>1. Head(net.out) = net.out[1] /\ 1 \in DOMAIN net.out
    <3> HIDE DEF A
    <3> QED
      BY <1>0, <1>5
  <2> QED
    BY <1>1, <1>5, <2>1, NothingAsked
<1> QED
  BY <1>2, <1>3, <1>4, <1>5, FabricEchoes

\* The topology of a trial is not that of no network.
LEMMA TopologyAt == Topology # NoTopo
<1>1. 1 \in DOMAIN Topology.at
  BY DEF Topology, TopologyOf, SingleSwitchTopo, TwoSwitchTopo
<1>2. DOMAIN NoTopo.at = {}
  BY DEF NoTopo
<1> QED
  BY <1>1, <1>2

\* The own steps of the recovery up to the ping without a controller.
LEMMA UnusedOwn ==
  ASSUME PlaceInv, NetworkInv, ControllerInv, UnusedInv, OwnSteps,
         drv.key[1] = "recovery", drv'.st = "run", HasNet', drv'.pc <= WithoutAt
  PROVE  <<1, 4>> \notin net'.nb /\ (drv'.pc = WithoutAt => NoAnswer')
<1>0. IsDriver(drv) /\ Placed(drv)
  BY DEF PlaceInv
<1>1. Framed /\ drv.st # "done" /\ drv'.key = drv.key
  BY <1>0, OwnStepsFramed DEF Framed, Running
<1>2. /\ drv.pc \in Nat /\ StartAt(drv.key) = 5 /\ LaunchAt(drv.key) = 4
      /\ drv.st = "run" => Fits(drv.key, drv.pc, Step) /\ drv.pc \in 1 .. 22
  BY RecoveryFacts, RecoverySteps
<1>3. drv'.pc \in 6 .. WithoutAt
  BY <1>1, <1>2 DEF Framed, HasNet, IsDriver, WithoutAt
<1>4. drv.st = "run" /\ (drv'.pc = drv.pc + 1 \/ (drv' = drv /\ Step.op = "ping"))
  BY <1>1, <1>3 DEF Framed, Onward, Offward, WithoutAt, At
<1>5. Fits(drv.key, drv.pc, Step)
  BY <1>2, <1>4
<1>6. CASE Step.op = "start"
  <2>1. drv.pc = 5 /\ Step.known = {}
    BY <1>2, <1>4, <1>5, <1>6 DEF Fits, Wired
  <2>2. net' = NewNet(Topology, Step.known, net.late)
    BY <1>6, OwnStepOnNetwork
  <2>3. net'.nb = {}
    BY <2>1, <2>2 DEF NewNet, NoNet
  <2>4. drv'.pc = 6
    BY <1>1, <1>4, <1>6, <2>1 DEF Framed
  <2> QED
    BY <2>3, <2>4 DEF WithoutAt
<1>7. CASE Step.op # "start"
  <2>1. net \in Networks(Topology, Asked, MyRules) /\ HasNet /\ drv.pc \in 6 .. WithoutAt
    <3>1. drv.pc # 5
      BY <1>2, <1>4, <1>5, <1>7 DEF Fits, Wired
    <3>2. drv.pc \in 6 .. WithoutAt
      BY <1>2, <1>3, <1>4, <3>1 DEF WithoutAt
    <3>3. net \in Networks(Topology, Asked, MyRules)
      BY <1>7, OwnStepOnNetwork
    <3> QED
      BY <1>2, <3>2, <3>3 DEF HasNet
  <2>2. ~Bare(net')
    <3>1. net' \in Networks(Topology, Asked, MyRules)
      BY <1>7, OwnStepOnNetwork
    <3>2. net'.topo # NoTopo
      BY <3>1, TopologyAt DEF Networks
    <3> QED
      BY <3>2 DEF Bare, NoNet
  <2>3. \A x \in Stored : net'[x] = net[x]
    <3>1. net.late \in Int /\ Learns(drv.key[1])
      BY <2>1 DEF Networks, Learns
    <3> QED
      BY <1>0, <1>7, <2>1, <2>2, <3>1, OwnStepOnRules
  <2>4. <<1, 4>> \notin net'.nb
    BY <1>4, <2>1, <2>3 DEF UnusedInv, Stored
  <2>5. ASSUME drv'.pc = WithoutAt PROVE NoAnswer'
    <3>1. drv.pc \in {WithoutAt - 1, WithoutAt} /\ Step.op = "ping"
      BY <1>2, <1>4, <1>5, <2>5 DEF Fits, Told, WithoutAt
    <3>2. net'.air = net.air /\ net'.out = net.out
      BY <2>3 DEF Stored
    <3>3. DOMAIN net = DOMAIN NoNet
      BY <2>1 DEF Networks, NoNet
    <3>4. CASE drv.pc = WithoutAt
      <4>1. drv' = drv
        BY <1>4, <2>5, <3>4 DEF WithoutAt
      <4>2. NoAnswer
        BY <1>4, <2>1, <3>4 DEF UnusedInv
      <4>3. net' = StartPing(net, 1, 4, Step.id, Step.count)
        <5>1. Step.from = 1 /\ Step.to = 4
          BY <1>5, <3>4 DEF Fits, Told
        <5>2. ~Onward(drv, drv')
          BY <1>0, <4>1 DEF Onward, IsDriver
        <5> QED
          BY <1>0, <3>1, <5>1, <5>2, PingMoves
      <4>4. /\ net'.ping.st = "ready" /\ net'.ping.ok = 0
            /\ net'.ping.from = 1 /\ net'.ping.to = 4
        BY <3>3, <4>3 DEF StartPing, NoNet
      <4> QED
        BY <3>2, <4>2, <4>4 DEF NoAnswer
    <3>5. CASE drv.pc = WithoutAt - 1
      <4>1. drv' # drv
        BY <1>2, <2>5, <3>5 DEF WithoutAt
      <4>2. net'.ping = NoPing
        BY <1>0, <3>1, <3>3, <4>1, PingMoves DEF NoNet
      <4>3. /\ \A f \in net.air : ~NewPair(f.pkt)
            /\ \A i \in DOMAIN net.out : net.out[i].type = "packet" => ~NewPair(net.out[i].pkt)
        BY <1>4, <2>1, <3>5, NothingAsked DEF Asked, WithoutAt
      <4> QED
        BY <3>2, <4>2, <4>3 DEF NoAnswer, NoPing
    <3> QED
      BY <3>1, <3>4, <3>5
  <2> QED
    BY <2>4, <2>5
<1> QED
  BY <1>6, <1>7

\* Layer 6 holds at the start.
LEMMA RecoveryInit == LabInit => LifeInv /\ UnusedInv /\ UnansweredInv /\ ConfirmedInv
<1> SUFFICES ASSUME LabInit PROVE LifeInv /\ UnusedInv /\ UnansweredInv /\ ConfirmedInv
  OBVIOUS
<1>1. /\ drv.st = "run" /\ drv.pc = 1 /\ drv.got = <<>> /\ ~drv.row /\ ~HasNet
  BY DriverAtInit
<1>2. "q2" \notin DOMAIN drv.got
  BY <1>1
<1> QED
  BY <1>1, <1>2 DEF LifeInv, UnusedInv, UnansweredInv, ConfirmedInv, WithoutAt, JoinAt

\* Until the ping without a controller is over, h1 does not know h4.
LEMMA UnusedStep ==
  ASSUME PlaceInv, NetworkInv, ControllerInv, OwnInv, WatchInv, UnusedInv, [LabNext]_labvars
  PROVE  UnusedInv'
<1> SUFFICES ASSUME drv'.key[1] = "recovery", drv'.st = "run", HasNet', drv'.pc <= WithoutAt
             PROVE  <<1, 4>> \notin net'.nb /\ (drv'.pc = WithoutAt => NoAnswer')
  <2>1. drv'.pc = WithoutAt => drv'.pc <= WithoutAt
    BY DEF WithoutAt
  <2> QED
    BY <2>1 DEF UnusedInv
<1>0. IsDriver(drv) /\ Placed(drv)
  BY DEF PlaceInv
<1>1. ASSUME drv' = drv
      PROVE  /\ drv.key[1] = "recovery" /\ drv.st = "run" /\ HasNet /\ drv.pc \in 6 .. WithoutAt
             /\ net \in Networks(Topology, Asked, MyRules)
             /\ <<1, 4>> \notin net.nb /\ (drv.pc = WithoutAt => NoAnswer)
             /\ Asked = AskedAt(drv.key, "run", drv.pc)
  <2>1. drv.key[1] = "recovery" /\ drv.st = "run" /\ HasNet /\ drv.pc <= WithoutAt
    BY <1>1 DEF HasNet
  <2>2. drv.pc \in 6 .. WithoutAt
    BY <2>1, RecoveryFacts DEF HasNet, WithoutAt
  <2> QED
    BY <2>1, <2>2 DEF NetworkInv, UnusedInv, Asked
<1>2. CASE FabricNext /\ drv' = drv
  <2>1. CASE drv.pc = WithoutAt
    <3>1. Topology = TopologyOf("recovery") /\ MyRules = Rules(TopologyOf("recovery"), Asked, {})
      BY <1>1, <1>2, RecoveryFacts
    <3> QED
      BY <1>1, <1>2, <2>1, <3>1, NoAnswerStays
  <2>2. CASE drv.pc # WithoutAt
    <3>1. drv.pc \in 6 .. WithoutAt - 1
      BY <1>1, <1>2, <2>2 DEF WithoutAt
    <3>2. <<1, 4>> \notin net'.nb
      BY <1>1, <1>2, <3>1, EarlyNeighbours
    <3> QED
      BY <1>2, <2>2, <3>2
  <2> QED
    BY <2>1, <2>2
<1>3. CASE ControllerNext /\ drv' = drv
  <2>1. net'.nb = net.nb
    BY <1>3, ControllerDecides DEF Asks, Decides, Grounded, Ground
  <2>2. ASSUME drv.pc = WithoutAt PROVE net' = net
    <3>1. ~ctl.alive
      BY <1>1, <1>3, <2>2 DEF OwnInv, KillsStrays, Unmanned, WithoutAt, RestartAt
    <3> QED
      BY <1>3, <3>1, ControllerSteps
  <2> QED
    BY <1>1, <1>3, <2>1, <2>2 DEF NoAnswer
<1>4. CASE OwnSteps
  <2>1. drv.key[1] = "recovery"
    BY <1>0, <1>4, OwnStepsFramed DEF Framed
  <2> QED
    BY <1>4, <2>1, UnusedOwn
<1>5. CASE MonitorPings
  BY <1>5, MonitorPlaced DEF MonitorAt, JoinAt, WithoutAt
<1>6. CASE WatchdogFires
  BY <1>6, WatchdogPlaced DEF WatchInv, Direct
<1>7. CASE DriverKilled
  <2>1. drv'.pc = 1 /\ drv'.key \in Keys
    BY <1>7, KilledPlaced
  <2> QED
    BY <2>1, PlacesOfTrial DEF HasNet
<1>8. CASE net' = net /\ drv' = drv
  BY <1>1, <1>8 DEF NoAnswer
<1> QED
  BY <1>2, <1>3, <1>4, <1>5, <1>6, <1>7, <1>8, StepsOfLab

\* The ping without a controller had no answer.
LEMMA UnansweredStep ==
  ASSUME PlaceInv, NetworkInv, ControllerInv, WatchInv, UnusedInv, UnansweredInv, [LabNext]_labvars
  PROVE  UnansweredInv'
<1> SUFFICES ASSUME drv'.key[1] = "recovery" PROVE UnansweredInv'
  BY DEF UnansweredInv
<1>0. IsDriver(drv) /\ Placed(drv)
  BY DEF PlaceInv
<1>1. CASE OwnSteps
  <2>0. Framed /\ drv.key[1] = "recovery" /\ drv.st # "done"
    BY <1>0, <1>1, OwnStepsFramed DEF Framed, Running
  <2>1. /\ drv.pc \in Nat
        /\ drv.st = "run" => Fits(drv.key, drv.pc, Step) /\ drv.pc \in 1 .. 22
        /\ drv.st = "tail" => Step.op \in {"unwatch", "teardown", "terminate"}
        /\ drv.st \in {"run", "tail"}
    BY <1>0, <1>1, <2>0, RecoveryFacts, RecoverySteps DEF IsDriver
  <2>2. Step.op \in {"await", "ping", "note"} => drv.st = "run" /\ Fits(drv.key, drv.pc, Step)
    BY <2>1
  <2>3. CASE drv.st = "run" /\ drv.pc = WithoutAt
    <3>1. Step.op = "ping" /\ Step.as = "q2"
      BY <2>0, <2>1, <2>3 DEF Fits, Told
    <3>2. HasNet
      BY <2>0, <2>3, RecoveryFacts DEF HasNet, WithoutAt
    <3>3. NoAnswer
      BY <2>0, <2>3, <3>2 DEF UnusedInv
    <3>4. CASE drv' = drv
      BY <2>0, <3>4 DEF UnansweredInv
    <3>5. CASE Onward(drv, drv') /\ drv'.got = Gets("q2", [ok |-> net.ping.ok, count |-> net.ping.count])
      <4>1. "q2" \in DOMAIN drv'.got /\ drv'.got.q2.ok = 0
        BY <3>3, <3>5 DEF Gets, NoAnswer
      <4>2. drv'.row = drv.row /\ ~drv.row
        BY <2>0, <2>3, <3>1 DEF Framed, UnansweredInv
      <4> QED
        BY <4>1, <4>2 DEF UnansweredInv
    <3> QED
      BY <1>0, <1>1, <3>1, <3>4, <3>5, PingMoves
  <2>4. CASE ~(drv.st = "run" /\ drv.pc = WithoutAt)
    <3>1. /\ "q2" \in DOMAIN drv.got <=> "q2" \in DOMAIN drv'.got
          /\ "q2" \in DOMAIN drv.got => drv'.got.q2 = drv.got.q2
      <4>1. ASSUME Step.op \in {"await", "ping", "note"} PROVE Step.as # "q2"
        BY <2>0, <2>2, <2>4, <4>1 DEF Fits, Told
      <4>2. ASSUME NEW name, NEW v, drv'.got = Gets(name, v), name # "q2"
            PROVE  /\ "q2" \in DOMAIN drv.got <=> "q2" \in DOMAIN drv'.got
                   /\ "q2" \in DOMAIN drv.got => drv'.got.q2 = drv.got.q2
        BY <4>2 DEF Gets
      <4>3. \/ drv'.got = drv.got
            \/ Step.op \in {"await", "ping", "note"} /\ \E v : drv'.got = Gets(Step.as, v)
        BY <1>0, <1>1, <2>0, OwnStepOnRecord DEF Framed
      <4> QED
        BY <4>1, <4>2, <4>3
    <3>2. ASSUME drv'.st = "run", drv'.pc > WithoutAt
          PROVE  drv.st = "run" /\ drv.pc > WithoutAt
      <4>1. drv'.pc = drv.pc + 1 \/ drv' = drv
        BY <2>0, <3>2 DEF Framed, Onward, Offward, WithoutAt
      <4>2. drv.st = "run"
        BY <2>0, <2>1, <3>2, <4>1 DEF Framed, Onward, Offward, WithoutAt
      <4> QED
        BY <2>1, <2>4, <3>2, <4>1, <4>2 DEF WithoutAt
    <3>3. CASE Step.op = "row"
      <4>1. drv.st = "run" /\ drv.pc = JoinAt + 2
        BY <2>0, <2>1, <3>3 DEF Fits, Told
      <4>2. "q2" \in DOMAIN drv.got
        BY <2>0, <4>1 DEF UnansweredInv, WithoutAt, JoinAt
      <4>3. drv'.st # "run"
        <5>1. Len(Code[drv.key][drv.st]) = JoinAt + 2
          BY <1>0, <2>0, <4>1, StepFits
        <5>2. Onward(drv, drv')
          BY <2>0, <3>3 DEF Framed, At
        <5> QED
          BY <4>1, <5>1, <5>2 DEF Onward, JoinAt
      <4> QED
        BY <2>0, <3>1, <4>2, <4>3 DEF UnansweredInv
    <3>4. CASE Step.op # "row"
      <4>1. drv'.row = drv.row
        BY <2>0, <3>4 DEF Framed
      <4>2. drv.st # "run" => drv'.st # "run"
        BY <2>0, <2>1 DEF Framed, Onward, Offward
      <4> QED
        BY <2>0, <3>1, <3>2, <4>1, <4>2 DEF UnansweredInv
    <3> QED
      BY <3>3, <3>4
  <2> QED
    BY <2>3, <2>4
<1>2. CASE MonitorPings
  BY <1>2, MonitorPlaced DEF UnansweredInv
<1>3. CASE WatchdogFires
  BY <1>3, WatchdogPlaced DEF WatchInv, Direct
<1>4. CASE DriverKilled
  <2>1. drv'.st = "run" /\ drv'.pc = 1 /\ ~drv'.row /\ drv'.got = <<>>
    BY <1>4, KilledPlaced
  <2>2. "q2" \notin DOMAIN drv'.got
    BY <2>1
  <2> QED
    BY <2>1, <2>2 DEF UnansweredInv, WithoutAt
<1>5. CASE drv' = drv
  BY <1>5 DEF UnansweredInv
<1> QED
  BY <1>1, <1>2, <1>3, <1>4, <1>5, StepsOfLab

\* A rule for the new pair stays in the table, or is replaced by another.
LEMMA RecoveryRuleStays ==
  ASSUME PlaceInv, NetworkInv, ControllerInv, drv.key[1] = "recovery", HasNet,
         ~Bare(net) => \E r \in net.rules : OfRecovery(r), ~Bare(net'), [LabNext]_labvars
  PROVE  \E r \in net'.rules : OfRecovery(r)
<1>0. Learns(drv.key[1]) /\ MyRules = Rules(TopologyOf("recovery"), Asked, {})
  BY RecoveryFacts
<1>1. RulesKept
  BY <1>0, RulesStep
<1>2. CASE net' = net
  BY <1>2
<1>3. CASE net \in Networks(Topology, Asked, MyRules)
  <2>1. net.rules \subseteq MyRules /\ ~Bare(net)
    BY <1>3, NotBare DEF Networks
  <2>2. PICK r \in net.rules : OfRecovery(r)
    BY <2>1
  <2>3. CASE net'.rules = net.rules
    BY <2>2, <2>3
  <2>4. ASSUME NEW q \in MyRules, net'.rules = AddRule(net.rules, q)
        PROVE  \E x \in net'.rules : OfRecovery(x)
    <3>1. CASE OfRecovery(q)
      BY <2>4, <3>1 DEF AddRule
    <3>2. CASE ~OfRecovery(q)
      <4>1. <<r.sw, r.in, r.dst>> # <<q.sw, q.in, q.dst>>
        BY <2>2, <3>2 DEF OfRecovery
      <4> QED
        BY <2>2, <2>4, <4>1 DEF AddRule
    <3> QED
      BY <3>1, <3>2
  <2> QED
    BY <1>1, <1>2, <2>3, <2>4 DEF RulesKept
<1> QED
  BY <1>1, <1>2, <1>3 DEF RulesKept

\* The check that the rule is in the table, or the record is invalid.
LEMMA CheckConfirms ==
  ASSUME PlaceInv, drv.key[1] = "recovery", OwnSteps, drv.st = "run", drv.pc = JoinAt + 1,
         drv'.valid, drv'.mon = "recovered"
  PROVE  net' = net /\ \E r \in net.rules : OfRecovery(r)
<1>0. IsDriver(drv) /\ Placed(drv)
  BY DEF PlaceInv
<1>1. Framed
  BY <1>0, OwnStepsFramed
<1>2. Step.op = "check" /\ Step.what = "rule_confirmed" /\ Step.else = "invalid"
  BY RecoverySteps DEF Fits, Told
<1>3. CheckStep
  BY <1>2, StepOfKind
<1>4. drv.mon = "recovered" /\ net' = net
  BY <1>1, <1>2, <1>3 DEF Framed, CheckStep
<1>5. ~Fails(drv, "invalid").valid /\ ~Fails(Broken(drv), "invalid").valid
  <2>1. IsDriver(Broken(drv)) /\ Placed(Broken(drv)) /\ Broken(drv).st # "done"
    BY <1>0, <1>1 DEF Broken, IsDriver, Placed, Framed, Running
  <2> QED
    BY <1>0, <1>1, <2>1, FailsMoves DEF Framed, Running
<1>6. Says("rule_confirmed")
  BY <1>2, <1>3, <1>5 DEF CheckStep
<1>7. <<3, 4, 4>> \in Table
  BY <1>4, <1>6 DEF Says
<1> QED
  BY <1>4, <1>7 DEF Table, OfRecovery

\* What is recovered was seen in the table, and stays there.
LEMMA ConfirmedStep ==
  ASSUME PlaceInv, NetworkInv, ControllerInv, WatchInv, UnansweredInv, ConfirmedInv,
         [LabNext]_labvars
  PROVE  ConfirmedInv'
<1> SUFFICES ASSUME drv'.key[1] = "recovery", ~Bare(net'), drv'.valid, drv'.mon = "recovered",
                    drv'.row \/ (drv'.st = "run" /\ drv'.pc > JoinAt + 1)
             PROVE  \E r \in net'.rules : OfRecovery(r)
  BY DEF ConfirmedInv, Bare
<1>0. IsDriver(drv) /\ Placed(drv)
  BY DEF PlaceInv
<1>1. ASSUME drv.key[1] = "recovery", drv.valid, drv.mon = "recovered",
             drv.row \/ (drv.st = "run" /\ drv.pc > JoinAt + 1)
      PROVE  \E r \in net'.rules : OfRecovery(r)
  <2>1. HasNet
    BY <1>1, RecoveryFacts DEF HasNet, UnansweredInv, JoinAt
  <2>2. ~Bare(net) => \E r \in net.rules : OfRecovery(r)
    BY <1>1 DEF ConfirmedInv
  <2> QED
    BY <1>1, <2>1, <2>2, RecoveryRuleStays
<1>2. CASE drv' = drv
  BY <1>1, <1>2
<1>3. CASE OwnSteps
  <2>0. Framed /\ drv.key[1] = "recovery" /\ drv.st # "done" /\ drv.valid
    BY <1>0, <1>3, OwnStepsFramed DEF Framed, Running
  <2>1. /\ drv.pc \in Nat
        /\ drv.st = "run" => Fits(drv.key, drv.pc, Step) /\ drv.pc \in 1 .. 22
        /\ drv.st = "tail" => Step.op \in {"unwatch", "teardown", "terminate"}
        /\ drv.st \in {"run", "tail"}
    BY <1>0, <1>3, <2>0, RecoveryFacts, RecoverySteps DEF IsDriver
  <2>2. \/ drv.row
        \/ drv.st = "run" /\ drv.pc > JoinAt
    <3>1. CASE Step.op = "row"
      BY <2>0, <2>1, <3>1 DEF Fits, Told, JoinAt
    <3>2. CASE Step.op # "row" /\ drv'.row
      BY <2>0, <3>2 DEF Framed
    <3>3. CASE drv'.st = "run" /\ drv'.pc > JoinAt + 1
      BY <2>0, <2>1, <3>3 DEF Framed, Onward, Offward, JoinAt
    <3> QED
      BY <3>1, <3>2, <3>3
  <2>3. Step.op # "monitor"
    BY <2>0, <2>1, <2>2 DEF UnansweredInv, Fits, Threaded, MonitorAt, JoinAt
  <2>4. drv.mon = "recovered"
    BY <2>0, <2>3 DEF Framed
  <2>5. CASE drv.st = "run" /\ drv.pc = JoinAt + 1
    BY <1>3, <2>0, <2>5, CheckConfirms
  <2>6. CASE ~(drv.st = "run" /\ drv.pc = JoinAt + 1)
    <3>1. drv.row \/ (drv.st = "run" /\ drv.pc > JoinAt + 1)
      BY <2>1, <2>2, <2>6 DEF JoinAt
    <3> QED
      BY <1>1, <2>0, <2>4, <3>1
  <2> QED
    BY <2>5, <2>6
<1>4. CASE MonitorPings
  BY <1>4, MonitorPlaced DEF UnansweredInv, MonitorAt, JoinAt
<1>5. CASE WatchdogFires
  BY <1>5, WatchdogPlaced DEF WatchInv, Direct
<1>6. CASE DriverKilled
  BY <1>6, KilledPlaced
<1> QED
  BY <1>2, <1>3, <1>4, <1>5, <1>6, StepsOfLab

-----------------------------------------------------------------------------
(* The invariant and the properties *)

\* The layers together are inductive: they hold at the start,
LEMMA LabInvInit == LabInit => LabInv
BY PlaceInit, MachineInit, OwnInit, ReadInit, WatchInit, CaptureInit, EligibleInit, RecoveryInit
DEF LabInv

\* and every step of the laboratory keeps them.
LEMMA LabInvStep == LabInv /\ [LabNext]_labvars => LabInv'
<1> SUFFICES ASSUME LabInv, [LabNext]_labvars PROVE LabInv'
  OBVIOUS
<1> USE DEF LabInv
<1>1. PlaceInv'
  BY PlaceStep
<1>2. NetworkInv' /\ ControllerInv'
  BY MachineStep
<1>3. OwnInv'
  BY OwnStep
<1>4. ReadInv'
  BY ReadStep
<1>5. ReadyInv'
  BY ReadyStep
<1>6. WatchInv'
  BY WatchStep
<1>7. CaptureInv'
  BY CaptureStep
<1>8. EligibleInv'
  BY EligibleStep
<1>9. LifeInv' /\ UnusedInv'
  BY LifeStep, UnusedStep
<1>10. UnansweredInv' /\ ConfirmedInv'
  BY UnansweredStep, ConfirmedStep
<1> QED
  BY <1>1, <1>2, <1>3, <1>4, <1>5, <1>6, <1>7, <1>8, <1>9, <1>10

\* In every behaviour of the laboratory, whatever the drivers, the adversities
\* and the bound on the monitor's pings.
THEOREM LabInvariant == LabSpec => []LabInv
<1>1. LabInit => LabInv
  BY LabInvInit
<1>2. LabInv /\ [LabNext]_labvars => LabInv'
  BY LabInvStep
<1> QED
  BY <1>1, <1>2, PTL DEF LabSpec

\* What the network of a trial holds is of its topology.
LEMMA NetworkShape ==
  ASSUME PlaceInv, NetworkInv
  PROVE  /\ net.air \subseteq Frames /\ net.ping \in Pings(Asked)
         /\ Bare(net) \/ (net.topo = Topology /\ net.rules \subseteq MyRules)
<1>1. CASE Bare(net)
  <2>1. net.air = {} /\ net.ping = NoPing
    BY <1>1 DEF Bare, NoNet
  <2> QED
    BY <1>1, <2>1, NoPingIdle
<1>2. CASE ~Bare(net)
  <2>1. net \in Networks(Topology, Asked, MyRules)
    BY <1>2 DEF NetworkInv
  <2>2. net.air \subseteq Arrived(Topology, Asked) /\ net.ping \in Pings(Asked)
        /\ net.topo = Topology /\ net.rules \subseteq MyRules
    BY <2>1 DEF Networks
  <2>3. Arrived(Topology, Asked) \subseteq Frames
    BY DEF Arrived
  <2> QED
    BY <2>2, <2>3
<1> QED
  BY <1>1, <1>2

\* The shape of the state, and where the driver, the controller and the
\* network agree about each other.
THEOREM LabTyped == LabSpec => []TypeOK
<1>1. ASSUME LabInv PROVE TypeOK
  <2>1. net.air \subseteq Frames /\ net.ping \in Pings(Asked)
    BY <1>1, NetworkShape DEF LabInv
  <2>2. /\ net.ping.st \in {"idle", "ready", "arp", "echo", "answered"}
        /\ net.ping.ok <= net.ping.sent /\ net.ping.sent <= net.ping.count
    BY <2>1 DEF Pings
  <2>3. /\ ctl.pc \in {"idle", "confirm", "profile", "observe", "polled"}
        /\ ctl.pc # "idle" => ctl.alive
        /\ Len(ctl.lines) \in Nat
    BY <1>1 DEF LabInv, ControllerInv, IsController
  <2>4. (net.pin # <<>> => net.conn) /\ (net.conn => ctl.alive)
    BY <1>1 DEF LabInv, NetworkInv
  <2>5. drv.key \in Keys /\ drv.st \in {"run", "tail", "after", "done"}
    BY <1>1 DEF LabInv, PlaceInv, IsDriver
  <2>6. drv.read <= Len(ctl.lines)
    BY <1>1, <2>3 DEF LabInv, ReadInv
  <2>7. drv.wd = "armed" => drv.st \in {"run", "tail"}
    BY <1>1 DEF LabInv, WatchInv
  <2> QED
    BY <2>1, <2>2, <2>3, <2>4, <2>5, <2>6, <2>7 DEF TypeOK
<1> QED
  BY <1>1, LabInvariant, PTL

\* Whatever is lost, late or reordered between the decision of a controller and
\* the switch: a rule that it installed for a host leads to that host.
THEOREM LabRulesLeadHome == LabSpec => []RulesLeadHome
<1>1. ASSUME LabInv PROVE RulesLeadHome
  <2> SUFFICES ASSUME NEW r \in net.rules, r.life > 0, r.dst # IPOnly
               PROVE  r.out = PortTowards(net.topo, r.sw, r.dst)
    BY DEF RulesLeadHome
  <2>1. net.topo = Topology /\ r \in MyRules
    <3>1. ~Bare(net)
      BY DEF Bare, NoNet
    <3> QED
      BY <1>1, <3>1, NetworkShape DEF LabInv
  <2>2. r \notin Given(drv.key[1])
    BY DEF Given
  <2>3. Made(Topology, Asked, r)
    BY <2>1, <2>2 DEF MyRules, Rules
  <2> QED
    BY <2>1, <2>3 DEF Made
<1> QED
  BY <1>1, LabInvariant, PTL

\* No packet is lost for want of an adapter once the driver has read "ready".
THEOREM LabReadyMeansServed == LabSpec => []ReadyMeansServed
<1>1. LabInv => ReadyMeansServed
  BY DEF LabInv, ReadyInv, ReadyMeansServed
<1> QED
  BY <1>1, LabInvariant, PTL

\* A driver that kills the controllers it meets talks to its own, also after it
\* was killed and started again, and leaves none behind.
THEOREM LabControllerOfItsOwn == LabSpec => []ControllerOfItsOwn
<1>1. LabInv => ControllerOfItsOwn
  BY DEF LabInv, OwnInv, Unmanned, ControllerOfItsOwn
<1> QED
  BY <1>1, LabInvariant, PTL

\* What counts for the corrected measurement is the target itself, for the
\* driver as for the analysis.
THEOREM LabEligibleIsTarget == LabSpec => []EligibleIsTarget
<1>1. LabInv => EligibleIsTarget
  BY TargetCounts DEF LabInv
<1> QED
  BY <1>1, LabInvariant, PTL

\* A valid record of a recovery is one of the restarted controller, and without
\* a controller the new pair did not work.
LEMMA RecoveryCounts ==
  ASSUME PlaceInv, NetworkInv, OwnInv, LifeInv, UnansweredInv, ConfirmedInv
  PROVE  RecoveryIsReal
<1> SUFFICES ASSUME drv.row, drv.valid, drv.mon = "recovered", net.up
             PROVE  /\ \E r \in net.rules : r.in = 3 /\ r.dst = 4 /\ r.life = ctl.life
                    /\ drv.got.q2.ok = 0
  BY DEF RecoveryIsReal
<1>1. drv.key[1] = "recovery"
  BY DEF PlaceInv
<1>2. drv.got.q2.ok = 0 /\ HasNet
  BY <1>1 DEF UnansweredInv, HasNet
<1>3. ~Bare(net)
  BY BareRests
<1>4. PICK r \in net.rules : OfRecovery(r)
  BY <1>1, <1>3 DEF ConfirmedInv
<1>5. r.life = ctl.life
  BY <1>1, <1>2, <1>4 DEF LifeInv, Decided
<1> QED
  BY <1>2, <1>4, <1>5 DEF OfRecovery

\* In every behaviour of the laboratory.
THEOREM LabRecoveryIsReal == LabSpec => []RecoveryIsReal
<1>1. LabInv => RecoveryIsReal
  BY RecoveryCounts DEF LabInv
<1> QED
  BY <1>1, LabInvariant, PTL

=============================================================================
