----------------------------- MODULE WireFormat ------------------------------
(***************************************************************************)
(* Flow strings and the Flow-Mod messages made of them, as                 *)
(* implementation/src/ovs_persistent_adapter.c parses and encodes them.    *)
(* A flow string is a sequence of tokens; of a message the length is kept, *)
(* in bytes, because the switch finds the next message by it.              *)
(***************************************************************************)
EXTENDS Naturals, Sequences, SequencesExt

CONSTANTS
    Absent,     \* a field the flow string does not give
    Unreadable  \* a token value that does not parse

Fields == {"priority", "in_port", "dl_dst", "ip", "output"}

-----------------------------------------------------------------------------
\* parse_flow_string gives up on an unreadable MAC address (and on a string of
\* 512 characters or more, which is one more unreadable token here).
Malformed(string) == \E tok \in ToSet(string) : tok.val = Unreadable

\* The tokens that give field k; the last of them decides.
Giving(string, k) == {i \in DOMAIN string : string[i].key = k}
LastGiven(string, k) == string[Max(Giving(string, k))].val

\* Fault: a priority as wide as what atoi returns.
ParsedWide(string) ==
    [k \in Fields |-> IF Giving(string, k) = {} THEN Absent ELSE LastGiven(string, k)]

\* uint16_t, and the cast to it.
UInt16 == 0 .. 65535
AsUInt16(n) == n % 65536

\* Each field has the value of its last token; tokens of other keys are ignored.
Parsed(string) ==
    [k \in Fields |->
        IF Giving(string, k) = {} THEN Absent
        ELSE IF k = "priority" THEN AsUInt16(LastGiven(string, k))
        ELSE LastGiven(string, k)]

-----------------------------------------------------------------------------
\* Fault: pad8 that rounds down.
PadDown(n) == n - (n % 8)
Pad8(n) == (n + 7) - ((n + 7) % 8)

Given(flow, k, size) == IF flow[k] = Absent THEN 0 ELSE size

\* Type and length of the match, then a header of 4 bytes and the value of
\* each match field.
MatchLength(flow) ==
    4 + Given(flow, "in_port", 4 + 4) + Given(flow, "dl_dst", 4 + 6) + Given(flow, "ip", 4 + 2)

\* An apply-actions instruction with one output action.
ActionsLength(flow) == Given(flow, "output", 8 + 16)

\* The fixed part, the padded match and, when a flow is added, the actions.
FlowModLength(command, flow) ==
    48 + Pad8(MatchLength(flow)) + (IF command = "ADD" THEN ActionsLength(flow) ELSE 0)

EchoReplyLength == 8

\* What OpenFlow 1.3 and the buffers of the adapter ask of a message: 256 bytes
\* for all of it, 128 for its match, and everything in multiples of eight.
Fits(command, flow) ==
    /\ Pad8(MatchLength(flow)) \in MatchLength(flow) .. 128
    /\ Pad8(MatchLength(flow)) % 8 = 0
    /\ FlowModLength(command, flow) \in 56 .. 256
    /\ FlowModLength(command, flow) % 8 = 0
=============================================================================
