------------------------------- MODULE Fabric -------------------------------
(***************************************************************************)
(* The emulated network the experiments run on: Mininet hosts that ping    *)
(* each other, the Open vSwitch switches between them, and the two         *)
(* OpenFlow channels of a switch (the controller's and the persistent      *)
(* adapter's).  Hosts, kernel and Open vSwitch are not part of the         *)
(* repository: they are modelled from how network/*.py uses them.          *)
(*                                                                         *)
(* Everything is kept in one record, net.  Frames in the air are a set:    *)
(* no two frames of one ping are alike, and frames on different links      *)
(* have no order.  Channels are sequences, as TCP is.  net.late bounds the *)
(* answers that may still come after ping has given up.                    *)
(***************************************************************************)
EXTENDS Integers, Sequences, FiniteSets

VARIABLE net

\* Hosts are numbered from 1; so are ports.
All == 99          \* the broadcast address
AnyDst == 98       \* a rule without dl_dst
IPOnly == 97       \* the match "ip" of the Stage 2 rule: ARP does not match it
AnyPort == 0       \* a rule without in_port
FLOOD == 0         \* OFPP_FLOOD, and PORT_FLOOD of the DAIM learning app

-----------------------------------------------------------------------------
(* Topologies: where each host is attached, and the trunk between switches *)

\* One switch, host i at port i.
SingleSwitchTopo(n) ==
    [at |-> [h \in 1..n |-> <<"s1", h>>], trunk |-> <<>>]

\* Two switches, one host each at port 1, joined at their ports 2.
TwoSwitchTopo ==
    [at |-> <<<<"s1", 1>>, <<"s2", 1>>>>,
     trunk |-> [w \in {"s1", "s2"} \X {2} |-> IF w[1] = "s1" THEN <<"s2", 2>> ELSE <<"s1", 2>>]]

NoTopo == [at |-> <<>>, trunk |-> <<>>]

Places(t) == {t.at[h] : h \in DOMAIN t.at} \cup DOMAIN t.trunk
Switches(t) == {w[1] : w \in Places(t)}

\* The port of switch sw that leads to host h: on a tree there is one.
PortTowards(t, sw, h) ==
    IF t.at[h][1] = sw THEN t.at[h][2]
    ELSE (CHOOSE w \in DOMAIN t.trunk : w[1] = sw)[2]

-----------------------------------------------------------------------------
(* Packets.  id and seq are those of ICMP; ARP packets carry 0.            *)

Packet(kind, src, to, id, seq) ==
    [kind |-> kind, src |-> src, to |-> to, id |-> id, seq |-> seq]
EthDst(pkt) == IF pkt.kind = "arpreq" THEN All ELSE pkt.to
IsIP(pkt) == pkt.kind \in {"echo", "reply"}

NoPing == [st |-> "idle", from |-> 0, to |-> 0, id |-> 0,
           count |-> 0, sent |-> 0, ok |-> 0]

NoNet ==
    [up |-> FALSE, topo |-> NoTopo, rules |-> {}, extra |-> FALSE, miss |-> {},
     air |-> {}, pin |-> <<>>, out |-> <<>>, adp |-> <<>>, conn |-> FALSE,
     nb |-> {}, ping |-> NoPing, cut |-> FALSE, late |-> 0]

\* A network is up (its bridges have a controller target) after Pointed.
NewNet(t, known, late) == [NoNet EXCEPT !.topo = t, !.nb = known, !.late = late]
Pointed(n) == [n EXCEPT !.up = TRUE]

\* Fault: what waits for the controller is kept.
DisconnectedKeeping(n) == [n EXCEPT !.conn = FALSE]

\* The controller's end of the channel is gone: the switch keeps its rules.
Disconnected(n) == [n EXCEPT !.conn = FALSE, !.pin = <<>>]

-----------------------------------------------------------------------------
(* A host receives a frame that is for it.                                 *)

Send(n, h, pkt) ==
    [n EXCEPT !.air = @ \cup {[sw |-> n.topo.at[h][1], in |-> n.topo.at[h][2],
                               pkt |-> pkt]}]

HostReceives(n, h, pkt) ==
    LET m == [n EXCEPT !.nb = @ \cup {<<h, pkt.src>>}] IN
    CASE pkt.kind = "arpreq" -> Send(m, h, Packet("arprep", h, pkt.src, 0, 0))
      [] pkt.kind = "arprep" ->
           IF n.ping.st = "arp" /\ n.ping.from = h /\ n.ping.to = pkt.src
           THEN Send([m EXCEPT !.ping.st = "echo"],
                     h, Packet("echo", h, pkt.src, n.ping.id, n.ping.sent))
           ELSE m
      [] pkt.kind = "echo" ->
           IF <<h, pkt.src>> \in n.nb
           THEN Send(n, h, Packet("reply", h, pkt.src, pkt.id, pkt.seq)) ELSE n
      [] pkt.kind = "reply" ->
           IF n.ping.st = "echo" /\ n.ping.from = h
              /\ n.ping.id = pkt.id /\ n.ping.sent = pkt.seq
           THEN [n EXCEPT !.ping.st = "answered"] ELSE n

\* A frame leaves switch sw by the ports ps: it crosses the trunk, and of the
\* hosts there only the one it is for reacts.  Host 2's link may be down.
Leaves(n, sw, ps, pkt) ==
    LET trunk == {w \in DOMAIN n.topo.trunk : w[1] = sw /\ w[2] \in ps}
        m == [n EXCEPT !.air = @ \cup
                {[sw |-> n.topo.trunk[w][1], in |-> n.topo.trunk[w][2], pkt |-> pkt] :
                    w \in trunk}]
        h == pkt.to
    IN IF h \in DOMAIN n.topo.at /\ n.topo.at[h][1] = sw /\ n.topo.at[h][2] \in ps
          /\ ~(n.cut /\ h = 2)
       THEN HostReceives(m, h, pkt) ELSE m

Output(n, sw, in, port, pkt) ==
    Leaves(n, sw, (IF port = FLOOD THEN {w[2] : w \in Places(n.topo)} ELSE {port}) \ {in}, pkt)

-----------------------------------------------------------------------------
(* The switch *)

\* The rule of the Stage 2 benchmarks says "normal": the switch forwards by
\* what it has learnt, which on a tree reaches the same host as flooding.
Matching(n, f) ==
    {r \in n.rules :
        /\ r.sw = f.sw /\ r.in \in {f.in, AnyPort}
        /\ \/ r.dst \in {EthDst(f.pkt), AnyDst}
           \/ r.dst = IPOnly /\ IsIP(f.pkt)}

AddRule(rules, r) ==
    {q \in rules : <<q.sw, q.in, q.dst>> # <<r.sw, r.in, r.dst>>} \cup {r}

\* A frame meets a rule, or the table-miss rule, or is dropped: the bridges
\* are in fail mode secure.
SwitchForwards ==
    \E f \in net.air :
      LET n == [net EXCEPT !.air = @ \ {f}] IN
      net' = IF Matching(net, f) # {}
             THEN Output(n, f.sw, f.in, (CHOOSE r \in Matching(net, f) : TRUE).out, f.pkt)
             ELSE IF f.sw \in net.miss /\ net.conn
             THEN [n EXCEPT !.pin = Append(@, [type |-> "packet", sw |-> f.sw,
                                               in |-> f.in, pkt |-> f.pkt])]
             ELSE n

\* The next message of the controller's channel takes effect.
ChannelApplies ==
    /\ net.out # <<>>
    /\ LET m == Head(net.out)
           n == [net EXCEPT !.out = Tail(@)]
       IN net' = CASE m.type = "miss" -> [n EXCEPT !.miss = @ \cup {m.sw}]
                   [] m.type = "barrier" ->
                        IF n.conn THEN [n EXCEPT !.pin = Append(@, m)] ELSE n
                   [] m.type = "flow" -> [n EXCEPT !.rules = AddRule(@, m.rule)]
                   [] m.type = "packet" -> Output(n, m.sw, m.in, m.port, m.pkt)

\* The next Flow-Mod of the persistent adapter's channel takes effect.
AdapterApplies ==
    /\ net.adp # <<>>
    /\ net' = [net EXCEPT !.adp = Tail(@), !.rules = AddRule(@, Head(net.adp))]

-----------------------------------------------------------------------------
(* ping -c n -W 1: n requests, each answered or given up after a second    *)

StartPing(n, from, to, id, count) ==
    [n EXCEPT !.ping = [st |-> "ready", from |-> from, to |-> to, id |-> id,
                        count |-> count, sent |-> 0, ok |-> 0]]

\* The next request, or an ARP request if the address is not known yet.
PingSends ==
    /\ net.ping.st = "ready" /\ net.ping.sent < net.ping.count
    /\ LET p == net.ping
           known == <<p.from, p.to>> \in net.nb
           n == [net EXCEPT !.ping.st = IF known THEN "echo" ELSE "arp",
                            !.ping.sent = @ + 1]
       IN net' = Send(n, p.from,
                      IF known THEN Packet("echo", p.from, p.to, p.id, n.ping.sent)
                      ELSE Packet("arpreq", p.from, p.to, 0, 0))

PingAnswered ==
    /\ net.ping.st = "answered"
    /\ net' = [net EXCEPT !.ping.st = "ready", !.ping.ok = @ + 1]

\* Nothing is on its way any more.
Quiet == net.air = {} /\ net.pin = <<>> /\ net.out = <<>> /\ net.adp = <<>>

\* The second is over: nothing will come, or it will come too late.
PingGivesUp ==
    /\ net.ping.st \in {"arp", "echo"}
    /\ Quiet \/ net.late > 0
    /\ net' = [net EXCEPT !.ping.st = "ready", !.late = IF Quiet THEN @ ELSE @ - 1]

PingOver == net.ping.st = "ready" /\ net.ping.sent = net.ping.count

FabricNext ==
    \/ SwitchForwards
    \/ ChannelApplies
    \/ AdapterApplies
    \/ PingSends
    \/ PingAnswered
    \/ PingGivesUp

=============================================================================
