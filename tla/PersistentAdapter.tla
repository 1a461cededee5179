-------------------------- MODULE PersistentAdapter --------------------------
(***************************************************************************)
(* implementation/src/ovs_persistent_adapter.c: one TCP connection to one  *)
(* switch, on which application threads send Flow-Mods while a reader       *)
(* thread drains what the switch sends and answers its echo requests.      *)
(*                                                                         *)
(* The stream from the switch is a sequence of cells of eight bytes: the   *)
(* header of a message, then its body.  Where one message ends is told by  *)
(* its header alone; a reader that is out of step takes a cell of some     *)
(* body for a header, whatever that body says.                             *)
(*                                                                         *)
(* A send on the blocking socket takes a whole message or fails: messages  *)
(* are far smaller than the socket's buffer.  Once it has failed it fails  *)
(* for good, as nothing reconnects.                                        *)
(***************************************************************************)
EXTENDS WireFormat

CONSTANTS
    Threads,    \* threads that call flow_add and flow_delete
    Nobody,     \* no thread
    Reader,     \* the reader thread
    Strings,    \* flow strings they pass
    BodyMax,    \* cells of the reader's body buffer (256 in the code)
    HelloMax,   \* cells of the handshake's discard buffer (32)
    Lengths,    \* lengths of the switch's messages, in cells
    MaxOps,     \* bound: flow operations in a behaviour
    MaxInbound  \* bound: messages of the switch

ASSUME AdapterAssumption ==
    /\ Reader \notin Threads
    /\ Nobody \notin Threads \cup {Reader}
    /\ Lengths # {} /\ Lengths \subseteq Nat \ {0}
    /\ \A s \in Strings : s \in Seq([key : STRING, val : Int \cup {Unreadable}])
    /\ BodyMax \in Nat /\ HelloMax \in Nat
    /\ MaxOps \in 0 .. 2^30    \* next_xid, a uint32_t that starts at 100, does not wrap
    /\ MaxInbound \in Nat

VARIABLES
    phase,    \* of the adapter, from its creation to its destruction
    link,     \* the connection as sends see it
    inbox,    \* cells on their way from the switch
    sentIn,   \* messages the switch has sent
    asked,    \* history: the echo requests among them
    long,     \* history: one did not fit the buffer it was drained into
    late,     \* history: the handshake gave up on the rest of the switch's Hello
    wire,     \* history: messages the kernel took for the switch, Hello excepted
    holder,   \* who holds the context's lock
    nextXid,
    flowMods, bytes, echoReplies,   \* stats
    reader,   \* the step of the reader thread
    header,   \* the header it read last
    pc, msg,  \* the step of each caller, and the message it is building
    accepted, \* history: flow operations that returned 0
    ops       \* flow operations so far

inbound == <<inbox, sentIn, asked, long, late>>
connection == <<link, inbound>>
stats == <<flowMods, bytes, echoReplies>>
readerVars == <<reader, header>>
callers == <<pc, msg, accepted, ops>>
vars == <<phase, link, inbox, sentIn, asked, long, late, wire, holder, nextXid,
          flowMods, bytes, echoReplies, reader, header, pc, msg, accepted, ops>>

\* The transaction identifier tells the switch's messages apart.
Header(kind, len, xid) == [kind |-> kind, len |-> len, xid |-> xid]
Kinds == {"HELLO", "ECHO_REQUEST", "OTHER"}
Headers == [kind : Kinds, len : Lengths, xid : 0 .. MaxInbound]
Body == [kind |-> "body"]

\* What the bytes of a body may look like; 0 is the identifier of no message.
StrayHeaders == [kind : {"ECHO_REQUEST", "OTHER"}, len : Lengths, xid : {0}]

FlowMod(xid, command, flow) ==
    [type |-> "FLOW_MOD", xid |-> xid, command |-> command, flow |-> flow]
EchoReply(xid) == [type |-> "ECHO_REPLY", xid |-> xid]

Commands == {"ADD", "DELETE"}
NoMessage == EchoReply(0)

IsFlowMod(m) == m.type = "FLOW_MOD"
IsEchoReply(m) == m.type = "ECHO_REPLY"

TypeOK ==
    /\ phase \in {"none", "hello", "discard", "ready", "join", "destroyed", "failed"}
    /\ link \in {"none", "open", "closing", "broken"}
    /\ \A i \in DOMAIN inbox : inbox[i] = Body \/ inbox[i] \in Headers
    /\ sentIn \in 0 .. MaxInbound
    /\ holder \in Threads \cup {Reader, Nobody}
    /\ nextXid \in 100 .. 100 + MaxOps
    /\ flowMods \in 0 .. MaxOps /\ bytes \in Nat /\ echoReplies \in Nat
    /\ reader \in {"none", "header", "body", "lock", "reply", "count", "done"}
    /\ header \in Headers
    /\ pc \in [Threads -> {"idle", "lock", "send", "count"}]
    /\ \A t \in Threads :
        \/ msg[t] = NoMessage
        \/ /\ msg[t].xid \in 0 .. nextXid
           /\ msg[t].command \in Commands
           /\ msg[t].flow.priority = Absent \/ msg[t].flow.priority \in UInt16
    /\ accepted \in 0 .. MaxOps /\ ops \in 0 .. MaxOps

\* What the buffer holds is of no use before a header or after a message.
AnyHeader == Header("OTHER", CHOOSE n \in Lengths : TRUE, 0)

Init ==
    /\ phase = "none" /\ link = "none"
    /\ inbox = <<>> /\ sentIn = 0 /\ asked = <<>> /\ long = FALSE /\ late = FALSE
    /\ wire = <<>> /\ holder = Nobody /\ nextXid = 100
    /\ flowMods = 0 /\ bytes = 0 /\ echoReplies = 0
    /\ reader = "none" /\ header = AnyHeader
    /\ pc = [t \in Threads |-> "idle"]
    /\ msg = [t \in Threads |-> NoMessage]
    /\ accepted = 0 /\ ops = 0

-----------------------------------------------------------------------------
(* The switch and the network                                              *)

\* It sends its Hello first, then requests and notices of any length.
SwitchSends ==
    /\ link = "open"
    /\ sentIn < MaxInbound
    /\ sentIn' = sentIn + 1
    /\ \E kind \in Kinds, len \in Lengths :
        /\ (kind = "HELLO") = (sentIn = 0)
        /\ inbox' = inbox \o <<Header(kind, len, sentIn')>> \o [i \in 1 .. len - 1 |-> Body]
        /\ asked' = IF kind = "ECHO_REQUEST" THEN Append(asked, sentIn') ELSE asked
    /\ UNCHANGED <<phase, link, long, late, wire, holder, nextXid>>
    /\ UNCHANGED <<stats, readerVars, callers>>

\* It closes the connection, or the connection is lost with what is on it.
SwitchLeaves ==
    /\ link = "open"
    /\ link' = "closing"
    /\ \E k \in 0 .. Len(inbox) : inbox' = SubSeq(inbox, 1, k)
    /\ UNCHANGED <<phase, sentIn, asked, long, late, wire, holder, nextXid>>
    /\ UNCHANGED <<stats, readerVars, callers>>

\* A message sent to a switch that has left may still be taken; sooner or later
\* it is answered by a reset.
Sent(m) == link \in {"open", "closing"} /\ wire' = Append(wire, m) /\ UNCHANGED link
NotSent == link \in {"closing", "broken"} /\ link' = "broken" /\ UNCHANGED wire

\* recv with MSG_WAITALL: n cells, or what there is when no more will come.
Receivable(n) == n <= Len(inbox) \/ link # "open"

-----------------------------------------------------------------------------
(* daim_ovs_persistent_adapter_create                                      *)

\* No socket, no switch within the timeout, or a connection.
Listen ==
    /\ phase = "none"
    /\ \/ phase' = "failed" /\ UNCHANGED link
       \/ phase' = "hello" /\ link' = "open"
    /\ UNCHANGED <<inbox, sentIn, asked, long, late, wire, holder, nextXid>>
    /\ UNCHANGED <<stats, readerVars, callers>>

\* do_handshake sends its Hello and takes the header of the switch's, or gives
\* up: nothing came in time.
TakeHello ==
    /\ phase = "hello"
    /\ \/ /\ inbox # <<>>
          /\ header' = Head(inbox)
          /\ inbox' = Tail(inbox)
          /\ phase' = "discard"
          /\ UNCHANGED link
       \/ /\ phase' = "failed"
          /\ link' = "broken"
          /\ UNCHANGED <<inbox, header>>
    /\ UNCHANGED <<sentIn, asked, long, late, wire, holder, nextXid>>
    /\ UNCHANGED <<stats, reader, callers>>

\* The rest of that Hello is discarded, as far as it fits the buffer and comes
\* in time; then the reader thread starts, or does not.
DiscardHello ==
    /\ phase = "discard"
    /\ LET body == header.len - 1
           wanted == IF body > HelloMax THEN HelloMax ELSE body
       IN  \E got \in 0 .. wanted :
            /\ got <= Len(inbox)
            /\ inbox' = SubSeq(inbox, got + 1, Len(inbox))
            /\ long' = (body > HelloMax)
            /\ late' = (got < wanted)
    /\ phase' = "ready"
    /\ reader' \in {"header", "none"}
    /\ header' = AnyHeader
    /\ UNCHANGED <<link, sentIn, asked, wire, holder, nextXid>>
    /\ UNCHANGED <<stats, callers>>

-----------------------------------------------------------------------------
(* reader_loop                                                             *)

\* The header of the next message; at the end of the stream the thread ends.
ReadHeader ==
    /\ reader = "header"
    /\ Receivable(1)
    /\ IF inbox = <<>>
         THEN reader' = "done" /\ UNCHANGED <<inbox, header>>
         ELSE /\ header' \in IF Head(inbox) = Body THEN StrayHeaders ELSE {Head(inbox)}
              /\ inbox' = Tail(inbox)
              /\ reader' = "body"
    /\ UNCHANGED <<phase, link, sentIn, asked, long, late, wire, holder, nextXid>>
    /\ UNCHANGED <<stats, callers>>

\* Fault: a reader that takes one cell less than the buffer holds.
DrainShort(len) == IF len > BodyMax THEN BodyMax - 1 ELSE len - 1

\* How much of the body is read: what fits the buffer.
Drained(len) == IF len - 1 > BodyMax THEN BodyMax ELSE len - 1

ReadBody ==
    /\ reader = "body"
    /\ Receivable(Drained(header.len))
    /\ LET n == Drained(header.len) IN
        /\ inbox' = SubSeq(inbox, n + 1, Len(inbox))
        /\ long' = (long \/ header.len - 1 > BodyMax)
        /\ \/ n > 0 /\ inbox = <<>> /\ reader' = "done" /\ header' = AnyHeader
           \/ /\ n = 0 \/ inbox # <<>>
              /\ IF header.kind = "ECHO_REQUEST"
                   THEN reader' = "lock" /\ UNCHANGED header
                   ELSE reader' = "header" /\ header' = AnyHeader
    /\ UNCHANGED <<phase, link, sentIn, asked, late, wire, holder, nextXid>>
    /\ UNCHANGED <<stats, callers>>

ReaderLocks ==
    /\ reader = "lock"
    /\ holder = Nobody
    /\ holder' = Reader
    /\ reader' = "reply"
    /\ UNCHANGED <<phase, connection, wire, nextXid, stats, header, callers>>

\* Whether or not the reply could be sent, the reader goes on.
SendReply ==
    /\ reader = "reply"
    /\ header' = AnyHeader
    /\ \/ Sent(EchoReply(header.xid)) /\ reader' = "count" /\ UNCHANGED holder
       \/ NotSent /\ reader' = "header" /\ holder' = Nobody
    /\ UNCHANGED <<phase, inbound, nextXid, stats, callers>>

CountReply ==
    /\ reader = "count"
    /\ echoReplies' = echoReplies + 1
    /\ holder' = Nobody
    /\ reader' = "header"
    /\ UNCHANGED <<phase, connection, wire, nextXid, flowMods, bytes, header, callers>>

-----------------------------------------------------------------------------
(* persistent_flow_add, persistent_flow_delete                             *)

Goto(t, step) == pc' = [pc EXCEPT ![t] = step]

\* A string that does not parse is refused before anything else.
BeginFlow(t) ==
    /\ phase = "ready" /\ pc[t] = "idle"
    /\ ops < MaxOps
    /\ ops' = ops + 1
    /\ \E command \in Commands, string \in Strings :
        IF Malformed(string)
          THEN UNCHANGED <<pc, msg>>
          ELSE /\ msg' = [msg EXCEPT ![t] = FlowMod(0, command, Parsed(string))]
               /\ Goto(t, "lock")
    /\ UNCHANGED <<phase, connection, wire, holder, nextXid, stats, readerVars, accepted>>

\* Fault: a flow operation without the lock.
BuildUnlocked(t) ==
    /\ pc[t] = "lock"
    /\ msg' = [msg EXCEPT ![t].xid = nextXid]
    /\ nextXid' = nextXid + 1
    /\ Goto(t, "send")
    /\ UNCHANGED <<phase, connection, wire, holder, stats, readerVars, accepted, ops>>

\* The lock, and build_flow_mod with the next transaction identifier.
Build(t) ==
    /\ pc[t] = "lock"
    /\ holder = Nobody
    /\ holder' = t
    /\ msg' = [msg EXCEPT ![t].xid = nextXid]
    /\ nextXid' = nextXid + 1
    /\ Goto(t, "send")
    /\ UNCHANGED <<phase, connection, wire, stats, readerVars, accepted, ops>>

\* Fault: a failed send counted like the others.
SendUnchecked(t) ==
    /\ pc[t] = "send"
    /\ Sent(msg[t]) \/ NotSent
    /\ Goto(t, "count")
    /\ UNCHANGED <<phase, inbound, holder, nextXid, stats, readerVars, msg, accepted, ops>>

\* When it fails the operation unlocks and returns -1.
Send(t) ==
    /\ pc[t] = "send"
    /\ \/ /\ Sent(msg[t])
          /\ Goto(t, "count")
          /\ UNCHANGED <<holder, msg>>
       \/ /\ NotSent
          /\ holder' = Nobody
          /\ msg' = [msg EXCEPT ![t] = NoMessage]
          /\ Goto(t, "idle")
    /\ UNCHANGED <<phase, inbound, nextXid, stats, readerVars, accepted, ops>>

\* The statistics, the unlock and the return of 0.
CountFlow(t) ==
    /\ pc[t] = "count"
    /\ flowMods' = flowMods + 1
    /\ bytes' = bytes + FlowModLength(msg[t].command, msg[t].flow)
    /\ accepted' = accepted + 1
    /\ holder' = Nobody
    /\ msg' = [msg EXCEPT ![t] = NoMessage]
    /\ Goto(t, "idle")
    /\ UNCHANGED <<phase, connection, wire, nextXid, echoReplies, readerVars, ops>>

-----------------------------------------------------------------------------
(* persistent_destroy                                                      *)

\* Its callers call it when they are done with flow operations.
Quiet == \A t \in Threads : pc[t] = "idle"

\* Fault: no shutdown before the join.
ShutdownNothing ==
    /\ phase = "ready" /\ Quiet
    /\ phase' = "join"
    /\ UNCHANGED <<connection, wire, holder, nextXid, stats, readerVars, callers>>

\* shutdown wakes the reader when it has read what had arrived.
Shutdown ==
    /\ phase = "ready" /\ Quiet
    /\ phase' = "join"
    /\ link' = "broken"
    /\ UNCHANGED <<inbox, sentIn, asked, long, late, wire, holder, nextXid>>
    /\ UNCHANGED <<stats, readerVars, callers>>

\* pthread_join, unless there is no reader; the context is freed.
Join ==
    /\ phase = "join"
    /\ reader \in {"none", "done"}
    /\ phase' = "destroyed"
    /\ UNCHANGED <<connection, wire, holder, nextXid, stats, readerVars, callers>>

-----------------------------------------------------------------------------
ReaderStep == ReadHeader \/ ReadBody \/ ReaderLocks \/ SendReply \/ CountReply

FlowStep(t) == Build(t) \/ Send(t) \/ CountFlow(t)

Next ==
    \/ SwitchSends \/ SwitchLeaves
    \/ Listen \/ TakeHello \/ DiscardHello
    \/ ReaderStep
    \/ \E t \in Threads : BeginFlow(t) \/ FlowStep(t)
    \/ Shutdown \/ Join

Spec == Init /\ [][Next]_vars

\* Threads inside the adapter are scheduled again; neither the switch nor any
\* caller has to do anything.
FairSpec ==
    /\ Spec
    /\ WF_vars(ReaderStep)
    /\ \A t \in Threads : WF_vars(FlowStep(t))
    /\ WF_vars(Join)

-----------------------------------------------------------------------------
(* Properties                                                              *)

\* The places on the wire that hold messages of a kind.
Replies == {i \in DOMAIN wire : IsEchoReply(wire[i])}
Mods == {i \in DOMAIN wire : IsFlowMod(wire[i])}

\* The n-th reply on the wire answers the n-th echo request of the switch:
\* none is answered twice, passed over or out of turn, and nothing else is
\* answered, while application threads use the same connection.  The reader is
\* in step with the stream as long as every message fitted its buffer and the
\* switch's Hello came in time.
EchoesAnswered ==
    ~long /\ ~late =>
        \A i \in Replies :
            LET n == Cardinality({j \in Replies : j <= i})
            IN  n <= Len(asked) /\ wire[i].xid = asked[n]

\* The bytes of all Flow-Mods among the messages.
SizeOf(m) == IF IsFlowMod(m) THEN FlowModLength(m.command, m.flow) ELSE 0
TotalLength(messages) ==
    LET upTo[n \in 0 .. Len(messages)] ==
          IF n = 0 THEN 0 ELSE upTo[n - 1] + SizeOf(messages[n])
    IN  upTo[Len(messages)]

\* Who reads the statistics, under the lock, finds what was put on the wire:
\* the Flow-Mods, their bytes, the echo replies; and a flow operation returned
\* 0 for each of those Flow-Mods and for no other.
StatsMatchWire ==
    holder = Nobody =>
        /\ flowMods = Cardinality(Mods)
        /\ accepted = Cardinality(Mods)
        /\ bytes = TotalLength(wire)
        /\ echoReplies = Cardinality(Replies)

\* Flow-Mods reach the wire in the order of their transaction identifiers, no
\* two with the same.
XidsIncrease ==
    \A i, j \in DOMAIN wire :
        i < j /\ IsFlowMod(wire[i]) /\ IsFlowMod(wire[j]) => wire[i].xid < wire[j].xid

\* Each message is one the buffers hold and the switch can take apart.
MessagesFit ==
    \A i \in DOMAIN wire : IsFlowMod(wire[i]) => Fits(wire[i].command, wire[i].flow)

\* Flow operations return and destroy returns: the join waits for a reader
\* that the shutdown has woken, and the lock is always given back.
OperationsEnd ==
    /\ \A t \in Threads : pc[t] # "idle" ~> pc[t] = "idle"
    /\ phase = "join" ~> phase = "destroyed"
=============================================================================
