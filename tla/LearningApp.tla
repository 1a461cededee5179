---------------------------- MODULE LearningApp -----------------------------
(***************************************************************************)
(* The DAIM learning application, implementation/src/daim_learning_app.c,  *)
(* on top of DAIM Core.  Callers deliver Packet-In events from several     *)
(* threads; g_app.lock is held for a whole event; other threads meanwhile  *)
(* start, stop or re-register DAIM Core, which has a lock of its own.      *)
(*                                                                         *)
(* DAIM Core is the atomic store of module TableStore (DaimCore implements *)
(* it), with the one table and the one signal the application uses.        *)
(*                                                                         *)
(* The results of daim_core_emit and of daim_table_write are ignored in    *)
(* the code, and so they are here.                                         *)
(***************************************************************************)
EXTENDS Naturals, Sequences, FiniteSets, Functions, TLC

CONSTANTS
    Bridges,    \* names of the switches
    Macs,       \* station addresses
    Ports,      \* physical port numbers
    Events,     \* the Packet-In events that may arrive
    Callers,    \* threads that call daim_learning_app_packet_in
    MaxEntries, \* MAX_ENTRIES of the station table
    MaxPackets, \* bound: Packet-In events in a behaviour
    MaxAdmin    \* bound: life-cycle calls in a behaviour

\* PORT_FLOOD of enum daim_virtual_port, and the 0 that static memory holds;
\* neither is a physical port.
Flood == "PORT_FLOOD"
Zero == "0"

Nobody == "nobody"   \* the holder of a free lock

Requests == [bridge : Bridges, src : Macs, dst : Macs, inPort : Ports]

ASSUME AppAssumption ==
    /\ Events # {} /\ Events \subseteq Requests
    /\ {Flood, Zero} \cap Ports = {}
    /\ Nobody \notin Callers
    /\ MaxEntries \in Nat \ {0}
    /\ MaxPackets \in Nat
    /\ MaxAdmin \in Nat

Stations == Bridges \X Macs
Rows == [src : Macs, dst : Macs, inPort : Ports, out : Ports \cup {Flood}]
Rules == [bridge : Bridges, inPort : Ports, dst : Macs, out : Ports]

FwdTable == "DAIM_PACKET_FORWARDING_TABLE"
NoRule == "NO_RULE"

VARIABLES
    \* DAIM Core
    up, generation, items, cursor, handler,
    \* g_app
    ready,          \* g_app.ready: the lock exists
    holder,         \* who holds g_app.lock, or Nobody
    stations,       \* g_app.table: the port of each learned station
    currentBridge,  \* g_app.current_bridge
    decided,        \* g_app.decided_port
    noRuleEvents,   \* g_app.no_rule_events
    flowsInstalled, \* g_app.flows_installed
    \* the callers
    pc, req, out,   \* phase, event and local out_port of each caller
    \* the switches, and histories
    rules,          \* flow rules the adapter has put on the switches
    seen,           \* every <<bridge, mac, port>> an event reported
    admin,          \* "idle", or "signal" inside daim_learning_app_init
    packets, adminCalls

coreVars == <<up, generation, items, cursor, handler>>
appVars == <<ready, holder, stations, currentBridge, decided, noRuleEvents, flowsInstalled>>
callerVars == <<pc, req, out>>
netVars == <<rules, seen>>
adminVars == <<admin, adminCalls>>
vars == <<coreVars, appVars, callerVars, netVars, adminVars, packets>>

OnNoRule == "on_no_rule"
OtherApp == "other_application"

Core == INSTANCE TableStore WITH
    Tables <- {FwdTable}, Writable <- {FwdTable}, Entries <- Rows,
    Signals <- {NoRule}, Handlers <- {OnNoRule, OtherApp}, NoHandler <- "NULL"

\* "leave" follows a handled event, "skip" one that on_no_rule never saw.
Phases == {"idle", "enter", "emit", "learn", "record", "install", "leave", "skip"}

TypeOK ==
    /\ up \in BOOLEAN
    /\ generation \in Nat
    /\ items \in [{FwdTable} -> Seq(Rows)]
    /\ handler \in [{NoRule} -> {OnNoRule, OtherApp, "NULL"}]
    /\ ready \in BOOLEAN
    /\ holder \in Callers \cup {Nobody}
    /\ DOMAIN stations \subseteq Stations
    /\ Range(stations) \subseteq Ports
    /\ Cardinality(DOMAIN stations) <= MaxEntries
    /\ currentBridge \in Bridges \cup {""}
    /\ decided \in Ports \cup {Flood, Zero}
    /\ noRuleEvents \in 0 .. MaxPackets
    /\ flowsInstalled \in 0 .. noRuleEvents
    /\ pc \in [Callers -> Phases]
    /\ req \in [Callers -> Requests]
    /\ out \in [Callers -> Ports \cup {Flood}]
    /\ rules \subseteq Rules
    /\ seen \subseteq Bridges \X Macs \X Ports
    /\ admin \in {"idle", "signal"}

\* What the locals of a caller hold between two events.
AnyEvent == CHOOSE e \in Events : TRUE

Init ==
    /\ Core!Init
    /\ ready = FALSE
    /\ holder = Nobody
    /\ stations = <<>>
    /\ currentBridge = ""
    /\ decided = Zero
    /\ noRuleEvents = 0
    /\ flowsInstalled = 0
    /\ pc = [c \in Callers |-> "idle"]
    /\ req = [c \in Callers |-> AnyEvent]
    /\ out = [c \in Callers |-> Flood]
    /\ rules = {}
    /\ seen = {}
    /\ admin = "idle"
    /\ packets = 0
    /\ adminCalls = 0

-----------------------------------------------------------------------------
\* The station table.

\* Fault: learn() without its test of MAX_ENTRIES.
LearnedAlways(table, station, port) == table @@ (station :> port)

\* Fault: a full table that overwrites an old entry.
LearnedEvicting(table, station, port) ==
    IF station \in DOMAIN table \/ Cardinality(DOMAIN table) < MaxEntries
    THEN (station :> port) @@ table
    ELSE LET old == CHOOSE s \in DOMAIN table : TRUE
         IN  (station :> port) @@ Restrict(table, DOMAIN table \ {old})

Learned(table, station, port) ==
    IF station \in DOMAIN table \/ Cardinality(DOMAIN table) < MaxEntries
    THEN [s \in DOMAIN table \cup {station} |-> IF s = station THEN port ELSE table[s]]
    ELSE table

\* Fault: lookup_port() without its comparison of the bridge.
PortOnAnyBridge(table, station) ==
    IF \E s \in DOMAIN table : s[2] = station[2]
    THEN table[CHOOSE s \in DOMAIN table : s[2] = station[2]]
    ELSE Flood

PortOf(table, station) ==
    IF station \in DOMAIN table THEN table[station] ELSE Flood

-----------------------------------------------------------------------------
\* daim_learning_app_packet_in

Goto(c, phase) == pc' = [pc EXCEPT ![c] = phase]

Deliver(c) ==
    /\ pc[c] = "idle"
    /\ packets < MaxPackets
    /\ packets' = packets + 1
    /\ \/ /\ ready
          /\ \E e \in Events : req' = [req EXCEPT ![c] = e]
          /\ Goto(c, "enter")
       \/ ~ready /\ UNCHANGED <<pc, req>>   \* returns PORT_NONE at once
    /\ UNCHANGED <<coreVars, appVars, out, netVars, adminVars>>

\* Fault: packet_in without the lock.
EnterUnlocked(c) ==
    /\ pc[c] = "enter"
    /\ currentBridge' = req[c].bridge
    /\ Goto(c, "emit")
    /\ UNCHANGED <<ready, holder, stations, decided, noRuleEvents, flowsInstalled>>
    /\ UNCHANGED <<coreVars, req, out, netVars, adminVars, packets>>

Enter(c) ==
    /\ pc[c] = "enter"
    /\ holder = Nobody
    /\ holder' = c
    /\ currentBridge' = req[c].bridge
    /\ Goto(c, "emit")
    /\ UNCHANGED <<ready, stations, decided, noRuleEvents, flowsInstalled>>
    /\ UNCHANGED <<coreVars, req, out, netVars, adminVars, packets>>

\* daim_core_emit: the handler runs if the core is up and has it; otherwise
\* its error, or another application's handler, goes unnoticed.
Emit(c) ==
    /\ pc[c] = "emit"
    /\ Goto(c, IF up /\ handler[NoRule] = OnNoRule THEN "learn" ELSE "skip")
    /\ UNCHANGED <<coreVars, appVars, req, out, netVars, adminVars, packets>>

\* Fault: an on_no_rule that takes g_app.lock itself.
LearnLocking(c) ==
    /\ pc[c] = "learn"
    /\ holder = Nobody
    /\ holder' = c
    /\ noRuleEvents' = noRuleEvents + 1
    /\ stations' = Learned(stations, <<currentBridge, req[c].src>>, req[c].inPort)
    /\ out' = [out EXCEPT ![c] = PortOf(stations', <<currentBridge, req[c].dst>>)]
    /\ seen' = seen \cup {<<currentBridge, req[c].src, req[c].inPort>>}
    /\ Goto(c, "record")
    /\ UNCHANGED <<ready, currentBridge, decided, flowsInstalled>>
    /\ UNCHANGED <<coreVars, req, rules, adminVars, packets>>

\* on_no_rule, up to its daim_table_write: learn() and lookup_port().
Learn(c) ==
    /\ pc[c] = "learn"
    /\ noRuleEvents' = noRuleEvents + 1
    /\ stations' = Learned(stations, <<currentBridge, req[c].src>>, req[c].inPort)
    /\ out' = [out EXCEPT ![c] = PortOf(stations', <<currentBridge, req[c].dst>>)]
    /\ seen' = seen \cup {<<currentBridge, req[c].src, req[c].inPort>>}
    /\ Goto(c, "record")
    /\ UNCHANGED <<ready, holder, currentBridge, decided, flowsInstalled>>
    /\ UNCHANGED <<coreVars, req, rules, adminVars, packets>>

RowFor(c) == [src |-> req[c].src, dst |-> req[c].dst,
              inPort |-> req[c].inPort, out |-> out[c]]

\* daim_table_write: the row lands, or the core is down or out of memory.
Record(c) ==
    /\ pc[c] = "record"
    /\ (up /\ Core!Add(FwdTable, RowFor(c))) \/ UNCHANGED coreVars
    /\ Goto(c, "install")
    /\ UNCHANGED <<appVars, req, out, rules, seen, adminVars, packets>>

\* The rule put on the switch of the current bridge.
RuleFor(c) == [bridge |-> currentBridge, inPort |-> req[c].inPort,
               dst |-> req[c].dst, out |-> out[c]]

\* install_flow, unless the port is PORT_FLOOD; flow_add may fail.  A new rule
\* replaces the one with the same match.
Install(c) ==
    /\ pc[c] = "install"
    /\ \/ UNCHANGED <<rules, flowsInstalled>>
       \/ /\ out[c] # Flood
          /\ rules' = {r \in rules : \/ r.bridge # currentBridge
                                     \/ r.inPort # req[c].inPort
                                     \/ r.dst # req[c].dst} \cup {RuleFor(c)}
          /\ flowsInstalled' = flowsInstalled + 1
    /\ decided' = out[c]
    /\ Goto(c, "leave")
    /\ UNCHANGED <<ready, holder, stations, currentBridge, noRuleEvents>>
    /\ UNCHANGED <<coreVars, req, out, seen, adminVars, packets>>

\* It returns `decided' and forgets its locals.
Leave(c) ==
    /\ pc[c] \in {"leave", "skip"}
    /\ req' = [req EXCEPT ![c] = AnyEvent]
    /\ out' = [out EXCEPT ![c] = Flood]
    /\ holder' = Nobody
    /\ Goto(c, "idle")
    /\ UNCHANGED <<ready, stations, currentBridge, decided, noRuleEvents, flowsInstalled>>
    /\ UNCHANGED <<coreVars, netVars, adminVars, packets>>

-----------------------------------------------------------------------------
\* Life-cycle calls, from other threads.

Administer ==
    /\ adminCalls < MaxAdmin
    /\ adminCalls' = adminCalls + 1

\* daim_init; a core that is up stays as it is.
CoreInit ==
    /\ Administer
    /\ Core!Start
    /\ UNCHANGED <<appVars, callerVars, netVars, admin, packets>>

CoreQuit ==
    /\ Administer
    /\ Core!Quit
    /\ UNCHANGED <<appVars, callerVars, rules, seen, admin, packets>>

\* Another application takes the one handler of NO_RULE.
OtherRegisters ==
    /\ Administer
    /\ up
    /\ Core!Register(NoRule, OtherApp)
    /\ UNCHANGED <<appVars, callerVars, netVars, admin, packets>>

ClearApp ==
    /\ stations' = <<>>
    /\ noRuleEvents' = 0
    /\ flowsInstalled' = 0
    /\ currentBridge' = ""

\* daim_learning_app_init up to its unlock ...
AppInit ==
    /\ Administer
    /\ admin = "idle"
    /\ holder = Nobody
    /\ ready' = TRUE
    /\ ClearApp
    /\ admin' = "signal"
    /\ UNCHANGED <<holder, decided, coreVars, callerVars, netVars, packets>>

\* ... and its daim_signal, which a core that is down ignores.
AppSignal ==
    /\ admin = "signal"
    /\ IF up THEN Core!Register(NoRule, OnNoRule) ELSE UNCHANGED coreVars
    /\ admin' = "idle"
    /\ UNCHANGED <<appVars, callerVars, netVars, adminCalls, packets>>

AppReset ==
    /\ Administer
    /\ ready
    /\ holder = Nobody
    /\ ClearApp
    /\ UNCHANGED <<ready, holder, decided, coreVars, callerVars, netVars, admin, packets>>

-----------------------------------------------------------------------------
Step(c) == Enter(c) \/ Emit(c) \/ Learn(c) \/ Record(c) \/ Install(c) \/ Leave(c)

Next ==
    \/ \E c \in Callers : Deliver(c) \/ Step(c)
    \/ CoreInit \/ CoreQuit \/ OtherRegisters
    \/ AppInit \/ AppSignal \/ AppReset

Spec == Init /\ [][Next]_vars

\* A thread inside packet_in is scheduled again; no event and no life-cycle
\* call has to come.
FairSpec == Spec /\ \A c \in Callers : WF_vars(Step(c))

-----------------------------------------------------------------------------
(* Properties                                                              *)

\* The port packet_in is about to return is the one learned for the event's
\* own destination on the event's own bridge, however many events of other
\* bridges are under way: g_app.current_bridge and decided_port are shared.
DecisionIsOwn ==
    \A c \in Callers :
        pc[c] = "leave" => decided = PortOf(stations, <<req[c].bridge, req[c].dst>>)

\* A rule sends a station's packets to a port at which that station has been
\* seen on that very bridge: what is learned on one bridge stays there.
RulesFromSightings ==
    \A r \in rules : <<r.bridge, r.dst, r.out>> \in seen

\* A learned station is not forgotten, even when the table is full, until the
\* application is initialised again or reset.
StationsAreKept ==
    [][DOMAIN stations \subseteq DOMAIN stations' \/ stations' = <<>>]_vars

\* packet_in returns: on_no_rule does not take the lock its caller holds.
EveryPacketInReturns ==
    \A c \in Callers : pc[c] # "idle" ~> pc[c] = "idle"

\* daim_learning_app.h: the port returned is "PORT_FLOOD if the destination
\* has not been learned yet on this bridge".
FloodIfNotLearned ==
    \A c \in Callers :
        /\ pc[c] \in {"leave", "skip"}
        /\ <<req[c].bridge, req[c].dst>> \notin DOMAIN stations
        => decided = Flood
=============================================================================
