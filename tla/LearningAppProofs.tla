-------------------------- MODULE LearningAppProofs --------------------------
(***************************************************************************)
(* Events of several bridges and callers pass through the globals of the   *)
(* learning application one after the other: what is decided, learned and  *)
(* installed for one of them is its own, for any number of callers,        *)
(* bridges, stations and life-cycle calls.                                 *)
(***************************************************************************)
EXTENDS LearningApp, SequenceTheorems, FiniteSetTheorems, TLAPS

Inside == {"emit", "learn", "record", "install", "leave", "skip"}

Destination(c) == <<req[c].bridge, req[c].dst>>

Types ==
    /\ pc \in [Callers -> Phases]
    /\ req \in [Callers -> Requests]
    /\ DOMAIN out = Callers
    /\ stations \in [DOMAIN stations -> Ports]

\* A caller inside packet_in holds the lock, and g_app speaks of its event.
Locking == \A c \in Callers : pc[c] \in Inside => holder = c
Current == \A c \in Callers : pc[c] \in Inside => currentBridge = req[c].bridge

\* The port that on_no_rule looked up is still the one in the table.
LookedUp ==
    \A c \in Callers :
        pc[c] \in {"record", "install"} => out[c] = PortOf(stations, Destination(c))

\* What is in the table has been seen.
StationsSeen == \A s \in DOMAIN stations : <<s[1], s[2], stations[s]>> \in seen

IInv == /\ Types /\ Locking /\ Current /\ LookedUp /\ StationsSeen
        /\ DecisionIsOwn /\ RulesFromSightings

-----------------------------------------------------------------------------
(* The station table                                                       *)

\* learn() keeps what is in the table or notes what it is given.
LEMMA LearnedTable ==
    ASSUME NEW T, T \in [DOMAIN T -> Ports], NEW station, NEW port \in Ports
    PROVE  LET U == Learned(T, station, port) IN
           /\ U \in [DOMAIN U -> Ports]
           /\ DOMAIN T \subseteq DOMAIN U
           /\ \A s \in DOMAIN U : \/ s = station /\ U[s] = port
                                  \/ s \in DOMAIN T /\ U[s] = T[s]
BY DEF Learned

\* The empty table is one.
LEMMA EmptyTable == DOMAIN <<>> = {} /\ <<>> \in [DOMAIN <<>> -> Ports]
<1>1. <<>> \in Seq(Ports) /\ Len(<<>>) = 0
  BY EmptySeq
<1>2. <<>> \in [1 .. Len(<<>>) -> Ports] /\ DOMAIN <<>> = 1 .. Len(<<>>)
  BY <1>1, LenProperties
<1>3. 1 .. 0 = {}
  OBVIOUS
<1> QED
  BY <1>1, <1>2, <1>3, Zenon

-----------------------------------------------------------------------------
(* The invariant                                                           *)

\* Every lemma below: this step, or the beginning, keeps the invariant.
LEMMA InitHolds ==
    ASSUME Init, AppAssumption
    PROVE  IInv
<1> USE DEF Init
<1>1. AnyEvent \in Requests
  BY DEF AnyEvent, AppAssumption
<1>2. DOMAIN stations = {} /\ stations \in [DOMAIN stations -> Ports]
  <2> HIDE DEF Init
  <2>1. stations = <<>>
    BY DEF Init
  <2> QED
    BY <2>1, EmptyTable, Zenon
<1>3. Types
  BY <1>1, <1>2 DEF Types, Phases
<1> QED
  BY <1>2, <1>3 DEF IInv, Locking, Current, LookedUp, StationsSeen, Inside, DecisionIsOwn,
                    RulesFromSightings

\* An event that is delivered changes nothing but its caller and what was seen.
LEMMA DeliverHolds ==
    ASSUME IInv, AppAssumption, NEW c \in Callers, Deliver(c)
    PROVE  IInv'
<1> USE DEF IInv, Deliver, Goto, appVars, netVars
<1>1. CASE UNCHANGED <<pc, req>>
  BY <1>1 DEF Types, Locking, Current, LookedUp, StationsSeen, Inside, DecisionIsOwn,
              RulesFromSightings, Destination, PortOf
<1>2. CASE \E e \in Events : req' = [req EXCEPT ![c] = e] /\ pc' = [pc EXCEPT ![c] = "enter"]
  <2>1. PICK e \in Requests : req' = [req EXCEPT ![c] = e] /\ pc' = [pc EXCEPT ![c] = "enter"]
    BY <1>2 DEF AppAssumption
  <2>2. Types'
    BY <2>1 DEF Types, Phases
  <2>3. \A d \in Callers : pc'[d] # "enter" => pc'[d] = pc[d] /\ req'[d] = req[d]
    BY <2>1 DEF Types
  <2> QED
    BY <2>2, <2>3 DEF Locking, Current, LookedUp, StationsSeen, Inside, DecisionIsOwn,
                      RulesFromSightings, Destination, PortOf
<1> QED
  BY <1>1, <1>2

\* The steps that leave the table, the rules and the decision alone.
LEMMA PassingHolds ==
    ASSUME IInv, AppAssumption, NEW c \in Callers, Enter(c) \/ Emit(c) \/ Record(c) \/ Leave(c)
    PROVE  IInv'
<1> USE DEF IInv, Goto, appVars, netVars
<1>1. UNCHANGED <<stations, decided, rules, seen>>
  BY DEF Enter, Emit, Record, Leave
<1>2. CASE Enter(c)
  <2>1. \A d \in Callers : pc[d] \notin Inside
    BY <1>2 DEF Enter, Locking, AppAssumption
  <2>2. /\ pc' = [pc EXCEPT ![c] = "emit"] /\ UNCHANGED <<req, out>>
        /\ holder' = c /\ currentBridge' = req[c].bridge
    BY <1>2 DEF Enter
  <2>3. \A d \in Callers : pc'[d] \in Inside => d = c /\ pc'[d] = "emit"
    BY <2>1, <2>2 DEF Types
  <2>4. Types'
    BY <1>1, <2>2 DEF Types, Phases
  <2> QED
    BY <1>1, <2>2, <2>3, <2>4 DEF Locking, Current, LookedUp, StationsSeen, Inside,
                                  DecisionIsOwn, RulesFromSightings
<1>3. CASE Emit(c) \/ Record(c)
  <2>1. /\ pc[c] \in {"emit", "record"}
        /\ pc' = [pc EXCEPT ![c] = IF pc[c] = "record" THEN "install" ELSE pc'[c]]
        /\ pc[c] = "emit" => pc'[c] \in {"learn", "skip"}
        /\ UNCHANGED <<req, out, holder, currentBridge>>
    BY <1>3 DEF Emit, Record, Types
  <2>2. /\ \A d \in Callers : d # c => pc'[d] = pc[d]
        /\ pc'[c] \in {"learn", "skip", "install"}
        /\ pc'[c] = "install" => pc[c] = "record"
    BY <2>1 DEF Types
  <2>3. pc[c] \in Inside
    BY <2>1 DEF Inside
  <2>4. Types'
    BY <1>1, <2>1, <2>2 DEF Types, Phases
  <2> QED
    BY <1>1, <2>1, <2>2, <2>3, <2>4 DEF Locking, Current, LookedUp, StationsSeen, Inside,
            DecisionIsOwn, RulesFromSightings, Destination, PortOf
<1>4. CASE Leave(c)
  <2>1. pc[c] \in Inside /\ \A d \in Callers \ {c} : pc[d] \notin Inside
    BY <1>4 DEF Leave, Locking, Inside
  <2>2. \A d \in Callers : pc'[d] \notin Inside
    BY <1>4, <2>1 DEF Leave, Types, Inside
  <2>3. AnyEvent \in Requests
    BY DEF AnyEvent, AppAssumption
  <2>4. Types'
    BY <1>1, <1>4, <2>3 DEF Leave, Types, Phases
  <2> QED
    BY <1>1, <2>2, <2>4 DEF Locking, Current, LookedUp, StationsSeen, Inside, DecisionIsOwn,
                            RulesFromSightings
<1> QED
  BY <1>2, <1>3, <1>4

\* on_no_rule learns the event's source and looks up its destination.
LEMMA LearnHolds ==
    ASSUME IInv, AppAssumption, NEW c \in Callers, Learn(c)
    PROVE  IInv'
<1> USE DEF IInv, Learn, Goto
<1> DEFINE station == <<req[c].bridge, req[c].src>>
<1>1. /\ pc[c] \in Inside /\ currentBridge = req[c].bridge
      /\ \A d \in Callers \ {c} : pc[d] \notin Inside
  BY DEF Inside, Current, Locking
<1>2. /\ stations' = Learned(stations, station, req[c].inPort)
      /\ seen' = seen \cup {<<req[c].bridge, req[c].src, req[c].inPort>>}
  BY <1>1
<1>3. req[c].inPort \in Ports
  BY DEF Types, Requests
<1>4. /\ stations' \in [DOMAIN stations' -> Ports]
      /\ \A s \in DOMAIN stations' :
           \/ s = station /\ stations'[s] = req[c].inPort
           \/ s \in DOMAIN stations /\ stations'[s] = stations[s]
  BY <1>2, <1>3, LearnedTable DEF Types
<1>5. Types'
  BY <1>4 DEF Types, Phases
<1>6. StationsSeen'
  BY <1>2, <1>4 DEF StationsSeen
<1>7. /\ \A d \in Callers : d # c => pc'[d] \notin Inside
      /\ pc'[c] = "record" /\ holder' = c /\ UNCHANGED <<req, currentBridge, decided, rules>>
      /\ out'[c] = PortOf(stations', Destination(c))
  BY <1>1 DEF Types, Inside, Destination, Locking
<1>8. LookedUp'
  BY <1>7 DEF LookedUp, Destination, Inside
<1> QED
  BY <1>1, <1>2, <1>5, <1>6, <1>7, <1>8 DEF Locking, Current, Inside, DecisionIsOwn,
                                            RulesFromSightings

\* The rule, and the decision, are the ones that were looked up.
LEMMA InstallHolds ==
    ASSUME IInv, AppAssumption, NEW c \in Callers, Install(c)
    PROVE  IInv'
<1> USE DEF IInv, Install, Goto
<1>1. /\ pc[c] \in Inside /\ currentBridge = req[c].bridge
      /\ \A d \in Callers \ {c} : pc[d] \notin Inside
      /\ out[c] = PortOf(stations, Destination(c))
  BY DEF Inside, Current, Locking, LookedUp
<1>2. /\ \A d \in Callers : d # c => pc'[d] \notin Inside
      /\ pc'[c] = "leave" /\ decided' = out[c]
      /\ UNCHANGED <<req, out, holder, currentBridge, stations, seen>>
  BY <1>1 DEF Types
<1>3. Types'
  BY DEF Types, Phases
<1>4. out[c] # Flood => <<req[c].bridge, req[c].dst, out[c]>> \in seen
  BY <1>1 DEF PortOf, Destination, StationsSeen
<1>5. RulesFromSightings'
  <2>1. rules' = rules \/ (out[c] # Flood /\ rules' \subseteq rules \cup {RuleFor(c)})
    OBVIOUS
  <2>2. /\ RuleFor(c).bridge = req[c].bridge /\ RuleFor(c).dst = req[c].dst
        /\ RuleFor(c).out = out[c]
    BY <1>1 DEF RuleFor
  <2> QED
    BY <1>2, <1>4, <2>1, <2>2 DEF RulesFromSightings
<1>6. DecisionIsOwn'
  BY <1>1, <1>2 DEF DecisionIsOwn, Destination, Inside
<1> QED
  BY <1>1, <1>2, <1>3, <1>5, <1>6 DEF Locking, Current, Inside, LookedUp, StationsSeen

\* The life-cycle calls: of the core, and of the application, whose table is
\* cleared under the lock.
LEMMA LifeCycleHolds ==
    ASSUME IInv, AppAssumption,
           CoreInit \/ CoreQuit \/ OtherRegisters \/ AppInit \/ AppSignal \/ AppReset
    PROVE  IInv'
<1> USE DEF IInv, appVars, callerVars, netVars
<1>1. UNCHANGED <<pc, req, out, holder, decided, rules, seen>>
  BY DEF CoreInit, CoreQuit, OtherRegisters, AppInit, AppSignal, AppReset
<1>2. CASE CoreInit \/ CoreQuit \/ OtherRegisters \/ AppSignal
  <2>1. UNCHANGED <<stations, currentBridge>>
    BY <1>2 DEF CoreInit, CoreQuit, OtherRegisters, AppSignal
  <2> QED
    BY <1>1, <2>1 DEF Types, Locking, Current, LookedUp, StationsSeen, DecisionIsOwn,
                      RulesFromSightings, Destination, PortOf
<1>3. CASE AppInit \/ AppReset
  <2>1. holder = Nobody /\ stations' = <<>>
    BY <1>3 DEF AppInit, AppReset, ClearApp
  <2>2. \A c \in Callers : pc[c] \notin Inside
    BY <2>1 DEF Locking, AppAssumption
  <2>3. DOMAIN stations' = {} /\ stations' \in [DOMAIN stations' -> Ports]
    BY <2>1, EmptyTable, Zenon
  <2> QED
    BY <1>1, <2>2, <2>3 DEF Types, Locking, Current, LookedUp, StationsSeen, DecisionIsOwn,
                            RulesFromSightings, Inside
<1> QED
  BY <1>2, <1>3

\* Every step keeps the invariant.
LEMMA StepHolds ==
    ASSUME IInv, AppAssumption, [Next]_vars
    PROVE  IInv'
<1>1. CASE UNCHANGED vars
  BY <1>1 DEF vars, appVars, callerVars, netVars, IInv, Types, Locking, Current, LookedUp,
              StationsSeen, DecisionIsOwn, RulesFromSightings, Destination, PortOf
<1>2. CASE Next
  BY <1>2, DeliverHolds, PassingHolds, LearnHolds, InstallHolds, LifeCycleHolds DEF Next, Step
<1> QED
  BY <1>1, <1>2

\* The invariant holds in every state.
LEMMA Invariance == Spec => []IInv
<1>1. Init => IInv
  BY AppAssumption, InitHolds
<1>2. IInv /\ [Next]_vars => IInv'
  BY AppAssumption, StepHolds
<1> QED
  BY <1>1, <1>2, PTL DEF Spec

-----------------------------------------------------------------------------
(* The theorems                                                            *)

\* What packet_in returns for an event is the port its own destination has on
\* its own bridge, although bridge and decision are globals of all callers.
THEOREM DecisionsAreOwn == Spec => []DecisionIsOwn
<1>1. IInv => DecisionIsOwn
  BY DEF IInv
<1> QED
  BY <1>1, Invariance, PTL

\* Every rule leads to a port at which its destination was seen on the bridge
\* of the rule.
THEOREM RulesComeFromSightings == Spec => []RulesFromSightings
<1>1. IInv => RulesFromSightings
  BY DEF IInv
<1> QED
  BY <1>1, Invariance, PTL

\* A station is forgotten only by an initialisation or a reset.
THEOREM StationsStay == Spec => StationsAreKept
<1>1. IInv /\ [Next]_vars => [DOMAIN stations \subseteq DOMAIN stations' \/ stations' = <<>>]_vars
  <2> SUFFICES ASSUME IInv, Next PROVE DOMAIN stations \subseteq DOMAIN stations' \/ stations' = <<>>
    OBVIOUS
  <2> USE DEF appVars
  <2>1. CASE \E c \in Callers : Learn(c)
    <3>1. PICK c \in Callers : Learn(c)
      BY <2>1
    <3>2. req[c].inPort \in Ports /\ stations \in [DOMAIN stations -> Ports]
      BY DEF IInv, Types, Requests
    <3> QED
      BY <3>1, <3>2, LearnedTable DEF Learn
  <2>2. CASE \E c \in Callers : Deliver(c) \/ Enter(c) \/ Emit(c) \/ Record(c) \/ Install(c)
                                \/ Leave(c)
    BY <2>2 DEF Deliver, Enter, Emit, Record, Install, Leave
  <2>3. CASE CoreInit \/ CoreQuit \/ OtherRegisters \/ AppInit \/ AppSignal \/ AppReset
    BY <2>3 DEF CoreInit, CoreQuit, OtherRegisters, AppInit, AppSignal, AppReset, ClearApp
  <2> QED
    BY <2>1, <2>2, <2>3 DEF Next, Step
<1> QED
  BY <1>1, Invariance, PTL DEF Spec, StationsAreKept

-----------------------------------------------------------------------------
(* The types and the counters                                              *)

\* The events that on_no_rule has yet to count, and those whose rule may come.
Coming == {c \in Callers : pc[c] \in {"enter", "emit", "learn"}}
Learning == \E c \in Callers : pc[c] \in {"record", "install"}

CoreTypes ==
    /\ up \in BOOLEAN
    /\ generation \in Nat
    /\ items \in [{FwdTable} -> Seq(Rows)]
    /\ handler \in [{NoRule} -> {OnNoRule, OtherApp, "NULL"}]
AppTypes ==
    /\ ready \in BOOLEAN
    /\ holder \in Callers \cup {Nobody}
    /\ currentBridge \in Bridges \cup {""}
    /\ decided \in Ports \cup {Flood, Zero}
    /\ out \in [Callers -> Ports \cup {Flood}]
    /\ rules \subseteq Rules
    /\ seen \subseteq Bridges \X Macs \X Ports
    /\ admin \in {"idle", "signal"}
TableTypes ==
    /\ DOMAIN stations \subseteq Stations
    /\ IsFiniteSet(DOMAIN stations)
    /\ Cardinality(DOMAIN stations) <= MaxEntries

\* Every event that came is counted at most once, and has one rule at most.
Counting ==
    /\ packets \in 0 .. MaxPackets
    /\ noRuleEvents \in Nat /\ flowsInstalled \in Nat
    /\ IsFiniteSet(Coming)
    /\ noRuleEvents + Cardinality(Coming) <= packets
    /\ flowsInstalled <= noRuleEvents
    /\ Learning => flowsInstalled < noRuleEvents

TInv == IInv /\ CoreTypes /\ AppTypes /\ TableTypes /\ Counting

\* The parts make the type invariant.
LEMMA TypesAreAll ==
    ASSUME TInv, AppAssumption
    PROVE  TypeOK
<1> USE DEF TInv
<1>1. noRuleEvents \in 0 .. MaxPackets /\ flowsInstalled \in 0 .. noRuleEvents
  <2>1. Cardinality(Coming) \in Nat
    BY FS_CardinalityType DEF Counting
  <2> QED
    BY <2>1 DEF Counting, AppAssumption
<1>2. Range(stations) \subseteq Ports
  BY DEF IInv, Types, Range
<1> QED
  BY <1>1, <1>2 DEF TypeOK, CoreTypes, AppTypes, TableTypes, IInv, Types

\* A caller that enters, counts or leaves makes a difference of one.
LEMMA ComingMoves ==
    ASSUME Counting, NEW c \in Callers,
           \A d \in Callers \ {c} : pc'[d] \in {"enter", "emit", "learn"}
                                      <=> pc[d] \in {"enter", "emit", "learn"}
    PROVE  /\ IsFiniteSet(Coming') /\ Cardinality(Coming') \in Nat /\ Cardinality(Coming) \in Nat
           /\ (c \in Coming <=> c \in Coming') => Cardinality(Coming') = Cardinality(Coming)
           /\ c \notin Coming /\ c \in Coming' => Cardinality(Coming') = Cardinality(Coming) + 1
           /\ c \in Coming /\ c \notin Coming' => Cardinality(Coming') = Cardinality(Coming) - 1
<1>1. IsFiniteSet(Coming) /\ Cardinality(Coming) \in Nat
  BY FS_CardinalityType DEF Counting
<1>2. CASE c \in Coming <=> c \in Coming'
  <2>1. Coming' = Coming
    BY <1>2 DEF Coming
  <2> QED
    BY <1>1, <1>2, <2>1
<1>3. CASE c \notin Coming /\ c \in Coming'
  <2>1. Coming' = Coming \cup {c}
    BY <1>3 DEF Coming
  <2>2. IsFiniteSet(Coming \cup {c}) /\ Cardinality(Coming \cup {c}) = Cardinality(Coming) + 1
    BY <1>1, <1>3, FS_AddElement
  <2> QED
    BY <1>1, <1>3, <2>1, <2>2
<1>4. CASE c \in Coming /\ c \notin Coming'
  <2>1. Coming' = Coming \ {c}
    BY <1>4 DEF Coming
  <2>2. /\ IsFiniteSet(Coming \ {c}) /\ Cardinality(Coming \ {c}) = Cardinality(Coming) - 1
        /\ Cardinality(Coming \ {c}) \in Nat
    BY <1>1, <1>4, FS_RemoveElement, FS_CardinalityType
  <2> QED
    BY <1>1, <1>4, <2>1, <2>2
<1> QED
  BY <1>2, <1>3, <1>4

\* Before the first call.
LEMMA InitTyped ==
    ASSUME Init, AppAssumption
    PROVE  TInv
<1>1. IInv
  BY InitHolds
<1>2. CoreTypes
  <2>1. <<>> \in Seq(Rows)
    BY EmptySeq
  <2>2. /\ up = FALSE /\ generation = 0 /\ items = [tab \in {FwdTable} |-> <<>>]
        /\ handler = [s \in {NoRule} |-> "NULL"]
    BY DEF Init, Core!Init, Core!Empty
  <2>3. items \in [{FwdTable} -> Seq(Rows)]
    BY <2>1, <2>2
  <2> QED
    BY <2>2, <2>3 DEF CoreTypes
<1>3. AppTypes
  <2>1. /\ ready = FALSE /\ holder = Nobody /\ currentBridge = "" /\ decided = Zero
        /\ out = [c \in Callers |-> Flood] /\ rules = {} /\ seen = {} /\ admin = "idle"
    BY DEF Init
  <2> QED
    BY <2>1 DEF AppTypes
<1>4. TableTypes
  <2>1. stations = <<>>
    BY DEF Init
  <2>2. DOMAIN stations = {}
    BY <2>1, EmptyTable, Zenon
  <2> QED
    BY <2>2, FS_EmptySet DEF TableTypes, AppAssumption
<1>5. Counting
  <2>1. /\ packets = 0 /\ noRuleEvents = 0 /\ flowsInstalled = 0
        /\ \A c \in Callers : pc[c] = "idle"
    BY DEF Init
  <2>2. Coming = {} /\ ~Learning
    BY <2>1 DEF Coming, Learning
  <2> QED
    BY <2>1, <2>2, FS_EmptySet DEF Counting, AppAssumption
<1> QED
  BY <1>1, <1>2, <1>3, <1>4, <1>5 DEF TInv

\* The core's part: its operations keep its types.
LEMMA CoreTyped ==
    ASSUME TInv, AppAssumption, Next
    PROVE  CoreTypes'
<1> USE DEF TInv, CoreTypes, coreVars
<1>1. CASE UNCHANGED coreVars
  BY <1>1
<1>2. CASE Core!Start \/ Core!Quit
  <2>1. <<>> \in Seq(Rows)
    BY EmptySeq
  <2>2. /\ up' \in BOOLEAN /\ generation' = 0 /\ items' = [tab \in {FwdTable} |-> <<>>]
        /\ handler' = [s \in {NoRule} |-> "NULL"]
    BY <1>2 DEF Core!Start, Core!Quit, Core!Clear
  <2>3. items' \in [{FwdTable} -> Seq(Rows)]
    BY <2>1, <2>2
  <2> QED
    BY <2>2, <2>3
<1>3. CASE Core!Register(NoRule, OnNoRule) \/ Core!Register(NoRule, OtherApp)
  BY <1>3 DEF Core!Register
<1>4. ASSUME NEW c \in Callers, pc[c] = "record", Core!Add(FwdTable, RowFor(c))
      PROVE  CoreTypes'
  <2>1. RowFor(c) \in Rows
    <3>1. req[c] \in Requests /\ out[c] \in Ports \cup {Flood}
      BY DEF IInv, Types, AppTypes
    <3> QED
      BY <3>1 DEF RowFor, Rows, Requests
  <2>2. Append(items[FwdTable], RowFor(c)) \in Seq(Rows)
    BY <2>1, AppendProperties
  <2> QED
    BY <1>4, <2>2 DEF Core!Add
<1>5. CASE \E c \in Callers : Deliver(c) \/ Step(c)
  <2>1. CASE \E c \in Callers : Record(c)
    BY <1>1, <1>4, <2>1 DEF Record
  <2>2. CASE \E c \in Callers : Deliver(c) \/ Enter(c) \/ Emit(c) \/ Learn(c) \/ Install(c) \/ Leave(c)
    <3>1. UNCHANGED coreVars
      BY <2>2 DEF Deliver, Enter, Emit, Learn, Install, Leave
    <3> QED
      BY <1>1, <3>1
  <2> QED
    BY <1>5, <2>1, <2>2 DEF Step
<1>6. CASE CoreInit \/ CoreQuit \/ OtherRegisters \/ AppInit \/ AppSignal \/ AppReset
  BY <1>1, <1>2, <1>3, <1>6 DEF CoreInit, CoreQuit, OtherRegisters, AppInit, AppSignal, AppReset
<1> QED
  BY <1>5, <1>6 DEF Next

\* The application's globals, the locals of the callers, and the rules.
LEMMA AppTyped ==
    ASSUME TInv, AppAssumption, Next
    PROVE  AppTypes'
<1> USE DEF TInv, appVars, callerVars, netVars, adminVars, Administer
<1>1. ASSUME NEW c \in Callers
      PROVE  /\ req[c] \in Requests /\ req[c].bridge \in Bridges /\ req[c].src \in Macs
             /\ req[c].dst \in Macs /\ req[c].inPort \in Ports /\ out[c] \in Ports \cup {Flood}
             /\ pc[c] \in Inside => currentBridge \in Bridges
  <2>1. req[c] \in Requests /\ out[c] \in Ports \cup {Flood}
    BY DEF IInv, Types, AppTypes
  <2> QED
    BY <2>1 DEF Requests, IInv, Current
<1>2. ASSUME NEW c \in Callers, Deliver(c) \/ Emit(c) \/ Record(c)
      PROVE  AppTypes'
  BY <1>2 DEF Deliver, Emit, Record, AppTypes
<1>3. ASSUME NEW c \in Callers, Enter(c) \/ Leave(c)
      PROVE  AppTypes'
  <2>1. /\ UNCHANGED <<ready, decided, rules, seen, admin>>
        /\ holder' \in Callers \cup {Nobody} /\ currentBridge' \in Bridges \cup {""}
        /\ out' = out \/ out' = [out EXCEPT ![c] = Flood]
    BY <1>1, <1>3 DEF Enter, Leave, AppTypes
  <2> QED
    BY <2>1 DEF AppTypes
<1>4. ASSUME NEW c \in Callers, Learn(c)
      PROVE  AppTypes'
  <2>1. currentBridge \in Bridges
    BY <1>1, <1>4 DEF Learn, Inside
  <2>2. seen' \subseteq Bridges \X Macs \X Ports
    <3>1. <<currentBridge, req[c].src, req[c].inPort>> \in Bridges \X Macs \X Ports
      BY <1>1, <2>1
    <3>2. seen' = seen \cup {<<currentBridge, req[c].src, req[c].inPort>>}
      BY <1>4 DEF Learn
    <3> QED
      BY <3>1, <3>2 DEF AppTypes
  <2>3. PortOf(stations', <<currentBridge, req[c].dst>>) \in Ports \cup {Flood}
    <3>1. stations' \in [DOMAIN stations' -> Ports]
      BY <1>1, <1>4, LearnedTable DEF Learn, IInv, Types
    <3> QED
      BY <3>1 DEF PortOf
  <2>4. out' \in [Callers -> Ports \cup {Flood}]
    BY <1>4, <2>3 DEF Learn, AppTypes
  <2> QED
    BY <1>4, <2>2, <2>4 DEF Learn, AppTypes
<1>5. ASSUME NEW c \in Callers, Install(c)
      PROVE  AppTypes'
  <2>1. currentBridge \in Bridges
    BY <1>1, <1>5 DEF Install, Inside
  <2>2. out[c] # Flood => RuleFor(c) \in Rules
    BY <1>1, <2>1 DEF RuleFor, Rules
  <2>3. rules' \subseteq Rules
    <3>1. rules' = rules \/ (out[c] # Flood /\ rules' \subseteq rules \cup {RuleFor(c)})
      BY <1>5 DEF Install
    <3> QED
      BY <2>2, <3>1 DEF AppTypes
  <2> QED
    BY <1>1, <1>5, <2>3 DEF Install, AppTypes
<1>6. CASE CoreInit \/ CoreQuit \/ OtherRegisters \/ AppSignal
  BY <1>6 DEF CoreInit, CoreQuit, OtherRegisters, AppSignal, AppTypes
<1>7. CASE AppInit \/ AppReset
  BY <1>7 DEF AppInit, AppReset, ClearApp, AppTypes
<1> QED
  BY <1>2, <1>3, <1>4, <1>5, <1>6, <1>7 DEF Next, Step

\* The table takes only stations, and no more than it has room for.
LEMMA TableTyped ==
    ASSUME TInv, AppAssumption, Next
    PROVE  TableTypes'
<1> USE DEF TInv, appVars
<1>1. ASSUME NEW c \in Callers, Learn(c)
      PROVE  TableTypes'
  <2> DEFINE station == <<currentBridge, req[c].src>>
  <2>1. station \in Stations
    <3>1. currentBridge = req[c].bridge /\ req[c] \in Requests
      BY <1>1 DEF Learn, IInv, Types, Current, Inside
    <3> QED
      BY <3>1 DEF Stations, Requests
  <2>2. stations' = Learned(stations, station, req[c].inPort)
    BY <1>1 DEF Learn
  <2>3. CASE station \in DOMAIN stations \/ ~(Cardinality(DOMAIN stations) < MaxEntries)
    <3>1. DOMAIN stations' = DOMAIN stations
      BY <2>2, <2>3 DEF Learned
    <3> QED
      BY <3>1 DEF TableTypes
  <2>4. CASE station \notin DOMAIN stations /\ Cardinality(DOMAIN stations) < MaxEntries
    <3>1. DOMAIN stations' = DOMAIN stations \cup {station}
      BY <2>2, <2>4 DEF Learned
    <3>2. /\ IsFiniteSet(DOMAIN stations \cup {station})
          /\ Cardinality(DOMAIN stations \cup {station}) = Cardinality(DOMAIN stations) + 1
      BY <2>4, FS_AddElement DEF TableTypes
    <3>3. Cardinality(DOMAIN stations) \in Nat /\ MaxEntries \in Nat
      BY FS_CardinalityType DEF TableTypes, AppAssumption
    <3> HIDE DEF station
    <3> QED
      BY <2>1, <2>4, <3>1, <3>2, <3>3 DEF TableTypes
  <2> QED
    BY <2>3, <2>4
<1>2. CASE AppInit \/ AppReset
  <2>1. stations' = <<>>
    BY <1>2 DEF AppInit, AppReset, ClearApp
  <2>2. DOMAIN stations' = {}
    BY <2>1, EmptyTable, Zenon
  <2> QED
    BY <2>2, FS_EmptySet DEF TableTypes, AppAssumption
<1>3. CASE \/ \E c \in Callers : \/ Deliver(c) \/ Enter(c) \/ Emit(c) \/ Record(c)
                                 \/ Install(c) \/ Leave(c)
           \/ CoreInit \/ CoreQuit \/ OtherRegisters \/ AppSignal
  <2>1. stations' = stations
    BY <1>3 DEF Deliver, Enter, Emit, Record, Install, Leave, CoreInit, CoreQuit, OtherRegisters,
                AppSignal
  <2> QED
    BY <2>1 DEF TableTypes
<1> QED
  BY <1>1, <1>2, <1>3 DEF Next, Step

\* An event is counted once, after it came and before its rule.
LEMMA CountingKept ==
    ASSUME TInv, AppAssumption, Next
    PROVE  Counting'
<1> USE DEF TInv, appVars, callerVars, netVars
<1>1. /\ Cardinality(Coming) \in Nat /\ noRuleEvents \in Nat /\ flowsInstalled \in Nat
      /\ packets \in Nat /\ MaxPackets \in Nat
  BY FS_CardinalityType DEF Counting, AppAssumption
<1>2. ASSUME NEW c \in Callers, Goto(c, pc'[c])
      PROVE  /\ \A d \in Callers \ {c} : pc'[d] = pc[d]
             /\ c \in Coming <=> pc[c] \in {"enter", "emit", "learn"}
             /\ c \in Coming' <=> pc'[c] \in {"enter", "emit", "learn"}
             /\ Learning' => \/ pc'[c] \in {"record", "install"}
                             \/ Learning /\ \E d \in Callers \ {c} : pc[d] \in {"record", "install"}
  BY <1>2 DEF Goto, IInv, Types, Coming, Learning
<1>3. ASSUME NEW c \in Callers, pc[c] \in Inside
      PROVE  \A d \in Callers \ {c} : pc[d] \notin {"record", "install"}
  BY <1>3 DEF IInv, Locking, Inside
<1>4. ASSUME NEW c \in Callers, Deliver(c)
      PROVE  Counting'
  <2>1. /\ packets < MaxPackets /\ packets' = packets + 1
        /\ UNCHANGED <<noRuleEvents, flowsInstalled>>
    BY <1>4 DEF Deliver
  <2>2. CASE pc' = pc
    <3>1. Coming' = Coming /\ (Learning' => Learning)
      BY <2>2 DEF Coming, Learning
    <3> QED
      BY <1>1, <2>1, <3>1 DEF Counting
  <2>3. CASE Goto(c, "enter")
    <3>1. pc[c] = "idle" /\ pc'[c] = "enter"
      BY <1>4, <2>3 DEF Deliver, Goto, IInv, Types
    <3>2. Goto(c, pc'[c])
      BY <2>3, <3>1
    <3>3. IsFiniteSet(Coming') /\ Cardinality(Coming') = Cardinality(Coming) + 1
      BY <1>2, <3>1, <3>2, ComingMoves
    <3>4. Learning' => Learning
      BY <1>2, <3>1, <3>2
    <3> QED
      BY <1>1, <2>1, <3>3, <3>4 DEF Counting
  <2> QED
    BY <1>4, <2>2, <2>3 DEF Deliver
<1>5. ASSUME NEW c \in Callers, Enter(c)
      PROVE  Counting'
  <2>1. /\ UNCHANGED <<packets, noRuleEvents, flowsInstalled>>
        /\ pc[c] = "enter" /\ pc'[c] = "emit" /\ Goto(c, pc'[c])
    BY <1>5 DEF Enter, Goto, IInv, Types
  <2>2. IsFiniteSet(Coming') /\ Cardinality(Coming') = Cardinality(Coming)
    BY <1>2, <2>1, ComingMoves
  <2>3. Learning' => Learning
    BY <1>2, <2>1
  <2> QED
    BY <1>1, <2>1, <2>2, <2>3 DEF Counting
<1>6. ASSUME NEW c \in Callers, Emit(c)
      PROVE  Counting'
  <2>1. /\ UNCHANGED <<packets, noRuleEvents, flowsInstalled>>
        /\ pc[c] = "emit" /\ pc'[c] \in {"learn", "skip"} /\ Goto(c, pc'[c])
    BY <1>6 DEF Emit, Goto, IInv, Types
  <2>2. /\ IsFiniteSet(Coming') /\ Cardinality(Coming') \in Nat
        /\ Cardinality(Coming') <= Cardinality(Coming)
    <3>1. CASE pc'[c] = "learn"
      BY <1>1, <1>2, <2>1, <3>1, ComingMoves
    <3>2. CASE pc'[c] = "skip"
      BY <1>1, <1>2, <2>1, <3>2, ComingMoves
    <3> QED
      BY <2>1, <3>1, <3>2
  <2>3. Learning' => Learning
    BY <1>2, <2>1
  <2> QED
    BY <1>1, <2>1, <2>2, <2>3 DEF Counting
<1>7. ASSUME NEW c \in Callers, Learn(c)
      PROVE  Counting'
  <2>1. /\ UNCHANGED <<packets, flowsInstalled>> /\ noRuleEvents' = noRuleEvents + 1
        /\ pc[c] = "learn" /\ pc'[c] = "record" /\ Goto(c, pc'[c])
    BY <1>7 DEF Learn, Goto, IInv, Types
  <2>2. /\ IsFiniteSet(Coming') /\ Cardinality(Coming') \in Nat
        /\ Cardinality(Coming') = Cardinality(Coming) - 1
    BY <1>2, <2>1, ComingMoves
  <2> QED
    BY <1>1, <2>1, <2>2 DEF Counting
<1>8. ASSUME NEW c \in Callers, Record(c)
      PROVE  Counting'
  <2>1. /\ UNCHANGED <<packets, flowsInstalled, noRuleEvents>>
        /\ pc[c] = "record" /\ pc'[c] = "install" /\ Goto(c, pc'[c])
    BY <1>8 DEF Record, Goto, IInv, Types
  <2>2. /\ IsFiniteSet(Coming') /\ Cardinality(Coming') = Cardinality(Coming)
    BY <1>2, <2>1, ComingMoves
  <2>3. Learning
    BY <2>1 DEF Learning
  <2> QED
    BY <1>1, <2>1, <2>2, <2>3 DEF Counting
<1>9. ASSUME NEW c \in Callers, Install(c)
      PROVE  Counting'
  <2>1. /\ UNCHANGED <<packets, noRuleEvents>>
        /\ flowsInstalled' \in {flowsInstalled, flowsInstalled + 1}
        /\ pc[c] = "install" /\ pc'[c] = "leave" /\ Goto(c, pc'[c])
    BY <1>9 DEF Install, Goto, IInv, Types
  <2>2. /\ IsFiniteSet(Coming') /\ Cardinality(Coming') = Cardinality(Coming)
    BY <1>2, <2>1, ComingMoves
  <2>3. Learning /\ ~Learning'
    <3>1. Learning
      BY <2>1 DEF Learning
    <3>2. \A d \in Callers \ {c} : pc[d] \notin {"record", "install"}
      BY <1>3, <2>1 DEF Inside
    <3> QED
      BY <1>2, <2>1, <3>1, <3>2
  <2> QED
    BY <1>1, <2>1, <2>2, <2>3 DEF Counting
<1>10. ASSUME NEW c \in Callers, Leave(c)
       PROVE  Counting'
  <2>1. /\ UNCHANGED <<packets, noRuleEvents, flowsInstalled>>
        /\ pc[c] \in {"leave", "skip"} /\ pc'[c] = "idle" /\ Goto(c, pc'[c])
    BY <1>10 DEF Leave, Goto, IInv, Types
  <2>2. /\ IsFiniteSet(Coming') /\ Cardinality(Coming') = Cardinality(Coming)
    BY <1>2, <2>1, ComingMoves
  <2>3. Learning' => Learning
    BY <1>2, <2>1
  <2> QED
    BY <1>1, <2>1, <2>2, <2>3 DEF Counting
<1>11. CASE CoreInit \/ CoreQuit \/ OtherRegisters \/ AppSignal
  <2>1. UNCHANGED <<packets, noRuleEvents, flowsInstalled, pc>>
    BY <1>11 DEF CoreInit, CoreQuit, OtherRegisters, AppSignal
  <2> QED
    BY <2>1 DEF Counting, Coming, Learning
<1>12. CASE AppInit \/ AppReset
  <2>1. /\ UNCHANGED <<packets, pc>> /\ noRuleEvents' = 0 /\ flowsInstalled' = 0
        /\ holder = Nobody
    BY <1>12 DEF AppInit, AppReset, ClearApp
  <2>2. ~Learning /\ Coming' = Coming /\ ~Learning'
    BY <2>1 DEF Learning, Coming, IInv, Locking, Inside, AppAssumption
  <2> QED
    BY <1>1, <2>1, <2>2 DEF Counting
<1> QED
  BY <1>4, <1>5, <1>6, <1>7, <1>8, <1>9, <1>10, <1>11, <1>12 DEF Next, Step

\* Every step keeps the types and the counts.
LEMMA StepTyped ==
    ASSUME TInv, AppAssumption, [Next]_vars
    PROVE  TInv'
<1>1. IInv'
  BY StepHolds DEF TInv
<1>2. CASE UNCHANGED vars
  BY <1>1, <1>2 DEF vars, coreVars, appVars, callerVars, netVars, adminVars, TInv, CoreTypes,
                    AppTypes, TableTypes, Counting, Coming, Learning
<1>3. CASE Next
  BY <1>1, <1>3, CoreTyped, AppTyped, TableTyped, CountingKept DEF TInv
<1> QED
  BY <1>2, <1>3

\* Every state is well typed: among other things, the station table never
\* outgrows MAX_ENTRIES, no event is counted twice, and no more flows are
\* counted than events, also across resets.
THEOREM ApplicationTypes == Spec => []TypeOK
<1>1. Init => TInv
  BY AppAssumption, InitTyped
<1>2. TInv /\ [Next]_vars => TInv'
  BY AppAssumption, StepTyped
<1>3. TInv => TypeOK
  BY AppAssumption, TypesAreAll
<1> QED
  BY <1>1, <1>2, <1>3, PTL DEF Spec
=============================================================================
