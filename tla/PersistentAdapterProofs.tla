----------------------- MODULE PersistentAdapterProofs -----------------------
(***************************************************************************)
(* For any number of threads, operations and messages of the switch: the   *)
(* adapter's lock keeps the Flow-Mods in the order of their transaction    *)
(* identifiers, every encoded Flow-Mod has a legal length, the statistics  *)
(* match the wire whenever the lock is free, and the reader, in step with  *)
(* the stream of the switch, answers its echo requests in turn.            *)
(*                                                                         *)
(* The first invariant is about the lock, the second about the stream; the *)
(* counts and the answers rest on both.                                    *)
(***************************************************************************)
EXTENDS PersistentAdapter, SequenceTheorems, FiniteSetTheorems, WellFoundedInduction, TLAPS

\* Messages that flow operations build.
FlowModSet ==
    [type : {"FLOW_MOD"}, xid : Nat, command : Commands,
     flow : {Parsed(s) : s \in {t \in Strings : ~Malformed(t)}}]

InSection(t) == pc[t] \in {"send", "count"}

\* Types that the order needs.
Shape ==
    /\ nextXid \in Nat
    /\ holder \in Threads \cup {Reader, Nobody}
    /\ reader \in {"none", "header", "body", "lock", "reply", "count", "done"}
    /\ pc \in [Threads -> {"idle", "lock", "send", "count"}]
    /\ msg \in [Threads -> FlowModSet \cup {NoMessage}]
    /\ \A t \in Threads : pc[t] # "idle" => msg[t] \in FlowModSet
    /\ wire \in Seq(ToSet(wire))

\* Who sends or counts holds the lock, a thread as well as the reader.
Locking ==
    /\ \A t \in Threads : InSection(t) => holder = t
    /\ reader \in {"reply", "count"} => holder = Reader

\* What is on the wire is older than what the lock's holder is about to send,
\* and both are older than the next identifier.
Older ==
    /\ \A i \in DOMAIN wire : IsFlowMod(wire[i]) => wire[i] \in FlowModSet /\ wire[i].xid < nextXid
    /\ \A t \in Threads : pc[t] = "send" =>
        /\ msg[t].xid < nextXid
        /\ \A i \in DOMAIN wire : IsFlowMod(wire[i]) => wire[i].xid < msg[t].xid

\* The invariant of the lock.
IInv == Shape /\ Locking /\ Older /\ XidsIncrease

-----------------------------------------------------------------------------
\* Every Flow-Mod that build_flow_mod makes fits its buffers and ends where a
\* message may end, whatever fields the flow string gives.
LEMMA EveryFlowModFits ==
    ASSUME NEW command \in Commands, NEW flow
    PROVE  Fits(command, flow)
<1>1. PICK a \in {0, 8}, b \in {0, 10}, c \in {0, 6} : MatchLength(flow) = 4 + a + b + c
  BY DEF MatchLength, Given
<1>2. /\ MatchLength(flow) \in Nat
      /\ Pad8(MatchLength(flow)) \in {8, 16, 24, 32}
      /\ Pad8(MatchLength(flow)) >= MatchLength(flow)
  BY <1>1 DEF Pad8
<1>3. ActionsLength(flow) \in {0, 24}
  BY DEF ActionsLength, Given
<1> QED
  BY <1>1, <1>2, <1>3 DEF Fits, FlowModLength

\* A message at the end of the wire leaves what was there in its place.
LEMMA WireGrows ==
    ASSUME NEW w, w \in Seq(ToSet(w)), NEW m
    PROVE  /\ Append(w, m) \in Seq(ToSet(Append(w, m)))
           /\ DOMAIN Append(w, m) = 1 .. Len(w) + 1
           /\ DOMAIN w = 1 .. Len(w) /\ Len(w) \in Nat
           /\ \A i \in 1 .. Len(w) : Append(w, m)[i] = w[i]
           /\ Append(w, m)[Len(w) + 1] = m
<1> DEFINE S == ToSet(w) \cup {m}
           v == Append(w, m)
<1>1. w \in Seq(S) /\ m \in S
  OBVIOUS
<1> HIDE DEF S
<1>2. /\ v \in Seq(S) /\ Len(v) = Len(w) + 1
      /\ \A i \in 1 .. Len(w) : v[i] = w[i]
      /\ v[Len(w) + 1] = m
  BY <1>1, AppendProperties
<1> HIDE DEF v
<1>3. /\ DOMAIN v = 1 .. Len(v) /\ v \in [1 .. Len(v) -> S]
      /\ DOMAIN w = 1 .. Len(w) /\ Len(w) \in Nat
  BY <1>1, <1>2, LenProperties
<1>4. v \in [1 .. Len(v) -> ToSet(v)] /\ Len(v) \in Nat
  BY <1>2, <1>3 DEF ToSet
<1>5. v \in Seq(ToSet(v))
  BY <1>4, SeqDef, Zenon
<1> QED
  BY <1>2, <1>3, <1>5 DEF v

-----------------------------------------------------------------------------
(* The lock and the order of the identifiers.                              *)

\* Before the connection the counters and the wire are empty.
LEMMA InitEstablishes == ASSUME AdapterAssumption, Init PROVE IInv
<1>1. wire = <<>> /\ DOMAIN wire = {} /\ wire \in Seq(ToSet(wire))
  BY DEF Init
<1> QED
  BY <1>1 DEF Init, IInv, Shape, Locking, Older, XidsIncrease, InSection, AdapterAssumption

\* A step of the switch, of the creation or of the reader outside its section.
LEMMA OtherStepsPreserve ==
    ASSUME IInv, UNCHANGED <<wire, holder, nextXid, pc, msg>>,
           reader' = reader \/ reader' \in {"none", "header", "body", "lock", "done"}
    PROVE  IInv'
  BY DEF IInv, Shape, Locking, Older, XidsIncrease, InSection, IsFlowMod

\* The reader's section: its replies are no Flow-Mods.
LEMMA ReplyPreserves ==
    ASSUME AdapterAssumption, IInv, ReaderLocks \/ SendReply \/ CountReply
    PROVE  IInv'
<1> USE DEF InSection
<1>1. CASE ReaderLocks
  <2>1. /\ UNCHANGED <<wire, nextXid, pc, msg>>
        /\ reader' = "reply" /\ holder' = Reader /\ holder = Nobody
    BY <1>1 DEF ReaderLocks, callers
  <2>2. Shape' /\ Older' /\ XidsIncrease'
    BY <2>1 DEF IInv, Shape, Older, XidsIncrease, IsFlowMod
  <2>3. Locking'
    BY <2>1 DEF IInv, Shape, Locking, AdapterAssumption
  <2> QED
    BY <2>2, <2>3 DEF IInv
<1>2. CASE SendReply
  <2>1. /\ UNCHANGED <<nextXid, pc, msg>>
        /\ \/ reader' = "count" /\ holder' = holder
           \/ reader' = "header" /\ holder' = Nobody
        /\ reader = "reply"
    BY <1>2 DEF SendReply, callers
  <2>2. Locking'
    BY <2>1 DEF IInv, Shape, Locking, AdapterAssumption
  <2>3. CASE wire' = wire
    BY <2>1, <2>2, <2>3 DEF IInv, Shape, Older, XidsIncrease, IsFlowMod
  <2>4. CASE wire' = Append(wire, EchoReply(header.xid))
    <3>1. /\ wire' \in Seq(ToSet(wire'))
          /\ Len(wire) \in Nat /\ DOMAIN wire = 1 .. Len(wire)
          /\ DOMAIN wire' = 1 .. Len(wire) + 1
          /\ \A i \in 1 .. Len(wire) : wire'[i] = wire[i]
          /\ wire'[Len(wire) + 1] = EchoReply(header.xid)
      BY <2>4, WireGrows DEF IInv, Shape
    <3>2. \A i \in DOMAIN wire' :
            IsFlowMod(wire'[i]) => i \in DOMAIN wire /\ wire'[i] = wire[i]
      BY <3>1 DEF IsFlowMod, EchoReply
    <3>3. Shape'
      BY <2>1, <3>1 DEF IInv, Shape
    <3>4. Older'
      BY <2>1, <3>1, <3>2 DEF IInv, Older
    <3>5. XidsIncrease'
      BY <3>2 DEF IInv, XidsIncrease
    <3> QED
      BY <2>2, <3>3, <3>4, <3>5 DEF IInv
  <2> QED
    BY <1>2, <2>3, <2>4 DEF SendReply, Sent, NotSent
<1>3. CASE CountReply
  <2>1. /\ UNCHANGED <<wire, nextXid, pc, msg>>
        /\ reader' = "header" /\ reader = "count"
        /\ holder' = Nobody
    BY <1>3 DEF CountReply, callers
  <2>2. Locking'
    BY <2>1 DEF IInv, Shape, Locking, AdapterAssumption
  <2> QED
    BY <2>1, <2>2 DEF IInv, Shape, Older, XidsIncrease, IsFlowMod
<1> QED
  BY <1>1, <1>2, <1>3

\* A flow operation that begins only prepares a message of its own.
LEMMA BeginPreserves ==
    ASSUME IInv, NEW t \in Threads, BeginFlow(t)
    PROVE  IInv'
<1>1. PICK command \in Commands, string \in Strings :
        \/ UNCHANGED <<pc, msg>>
        \/ /\ ~Malformed(string)
           /\ msg' = [msg EXCEPT ![t] = FlowMod(0, command, Parsed(string))]
           /\ pc' = [pc EXCEPT ![t] = "lock"]
  BY DEF BeginFlow, Goto
<1>2. UNCHANGED <<wire, holder, nextXid, reader>> /\ pc[t] = "idle"
  BY DEF BeginFlow, readerVars
<1>3. ~Malformed(string) => FlowMod(0, command, Parsed(string)) \in FlowModSet
  BY DEF FlowMod, FlowModSet
<1> QED
  BY <1>1, <1>2, <1>3 DEF IInv, Shape, Locking, Older, XidsIncrease, InSection, IsFlowMod

\* A thread that takes the lock takes the next identifier: nothing older is
\* still to be sent.
LEMMA BuildPreserves ==
    ASSUME AdapterAssumption, IInv, NEW t \in Threads, Build(t)
    PROVE  IInv'
<1>1. /\ UNCHANGED <<wire, reader>>
      /\ pc[t] = "lock" /\ holder = Nobody
      /\ holder' = t /\ nextXid' = nextXid + 1
      /\ pc' = [pc EXCEPT ![t] = "send"]
      /\ msg' = [msg EXCEPT ![t].xid = nextXid]
  BY DEF Build, Goto, readerVars
<1>2. /\ msg'[t] \in FlowModSet /\ msg'[t].xid = nextXid
      /\ \A u \in Threads \ {t} : msg'[u] = msg[u]
  BY <1>1 DEF IInv, Shape, FlowModSet
<1>3. msg' \in [Threads -> FlowModSet \cup {NoMessage}]
  BY <1>1, <1>2 DEF IInv, Shape
<1>4. Shape'
  BY <1>1, <1>2, <1>3 DEF IInv, Shape
<1>5. Locking' /\ \A u \in Threads \ {t} : pc'[u] # "send"
  BY <1>1 DEF IInv, Shape, Locking, InSection, AdapterAssumption
<1>6. Older'
  <2>1. \A i \in DOMAIN wire : IsFlowMod(wire[i]) => wire[i].xid \in Nat
    BY DEF IInv, Older, FlowModSet
  <2> QED
    BY <1>1, <1>2, <1>5, <2>1 DEF IInv, Shape, Older, IsFlowMod
<1>7. XidsIncrease'
  BY <1>1 DEF IInv, XidsIncrease, IsFlowMod
<1> QED
  BY <1>4, <1>5, <1>6, <1>7 DEF IInv

\* The message sent is younger than all that are on the wire, and the lock
\* keeps every other thread from sending one that is older.
LEMMA SendPreserves ==
    ASSUME AdapterAssumption, IInv, NEW t \in Threads, Send(t)
    PROVE  IInv'
<1>1. UNCHANGED <<nextXid, reader>> /\ pc[t] = "send"
  BY DEF Send, readerVars
<1>2. /\ msg[t] \in FlowModSet /\ holder = t
      /\ \A u \in Threads \ {t} : ~ InSection(u)
  BY <1>1 DEF IInv, Shape, Locking, InSection
<1>3. CASE Sent(msg[t]) /\ Goto(t, "count") /\ UNCHANGED <<holder, msg>>
  <2>1. /\ wire' = Append(wire, msg[t]) /\ UNCHANGED <<holder, msg>>
        /\ pc' = [pc EXCEPT ![t] = "count"]
    BY <1>3 DEF Sent, Goto
  <2>2. /\ wire' \in Seq(ToSet(wire'))
        /\ Len(wire) \in Nat /\ DOMAIN wire = 1 .. Len(wire)
        /\ DOMAIN wire' = 1 .. Len(wire) + 1
        /\ \A i \in 1 .. Len(wire) : wire'[i] = wire[i]
        /\ wire'[Len(wire) + 1] = msg[t]
    BY <2>1, WireGrows DEF IInv, Shape
  <2>3. Shape'
    BY <1>1, <1>2, <2>1, <2>2 DEF IInv, Shape
  <2>4. Locking' /\ \A u \in Threads : pc'[u] # "send"
    BY <1>1, <1>2, <2>1 DEF IInv, Shape, Locking, InSection
  <2>5. Older'
    BY <1>1, <1>2, <2>1, <2>2, <2>4 DEF IInv, Shape, Older
  <2>6. XidsIncrease'
    <3> SUFFICES ASSUME NEW i \in DOMAIN wire', NEW j \in DOMAIN wire', i < j,
                        IsFlowMod(wire'[i]), IsFlowMod(wire'[j])
                 PROVE  wire'[i].xid < wire'[j].xid
      BY DEF XidsIncrease
    <3>1. i \in DOMAIN wire /\ wire'[i] = wire[i]
      BY <2>2
    <3>2. CASE j \in DOMAIN wire
      BY <2>2, <3>1, <3>2 DEF IInv, XidsIncrease
    <3>3. CASE j = Len(wire) + 1
      BY <1>1, <2>2, <3>1, <3>3 DEF IInv, Older
    <3> QED
      BY <2>2, <3>2, <3>3
  <2> QED
    BY <2>3, <2>4, <2>5, <2>6 DEF IInv
<1>4. CASE /\ NotSent
           /\ holder' = Nobody
           /\ msg' = [msg EXCEPT ![t] = NoMessage]
           /\ Goto(t, "idle")
  <2>1. /\ wire' = wire /\ holder' = Nobody
        /\ pc' = [pc EXCEPT ![t] = "idle"]
        /\ msg' = [msg EXCEPT ![t] = NoMessage]
    BY <1>4 DEF NotSent, Goto
  <2>2. Locking'
    BY <1>1, <1>2, <2>1 DEF IInv, Shape, Locking, InSection, AdapterAssumption
  <2> QED
    BY <1>1, <1>2, <2>1, <2>2 DEF IInv, Shape, Older, XidsIncrease, IsFlowMod
<1> QED
  BY <1>3, <1>4 DEF Send

\* The statistics of a message that left change nothing the order depends on.
LEMMA CountPreserves ==
    ASSUME AdapterAssumption, IInv, NEW t \in Threads, CountFlow(t)
    PROVE  IInv'
<1>1. /\ UNCHANGED <<wire, nextXid, reader>>
      /\ pc[t] = "count" /\ holder' = Nobody
      /\ pc' = [pc EXCEPT ![t] = "idle"]
      /\ msg' = [msg EXCEPT ![t] = NoMessage]
  BY DEF CountFlow, Goto, readerVars
<1>2. holder = t /\ \A u \in Threads \ {t} : ~ InSection(u)
  BY <1>1 DEF IInv, Shape, Locking, InSection
<1>3. Locking'
  BY <1>1, <1>2 DEF IInv, Shape, Locking, InSection, AdapterAssumption
<1> QED
  BY <1>1, <1>2, <1>3 DEF IInv, Shape, Older, XidsIncrease, IsFlowMod

\* Every step keeps the invariant.
LEMMA StepPreserves == ASSUME AdapterAssumption, IInv, [Next]_vars PROVE IInv'
<1>1. CASE SwitchSends \/ SwitchLeaves
  BY <1>1, OtherStepsPreserve DEF SwitchSends, SwitchLeaves, readerVars, callers
<1>2. CASE Listen \/ TakeHello \/ DiscardHello
  BY <1>2, OtherStepsPreserve DEF Listen, TakeHello, DiscardHello, readerVars, callers
<1>3. CASE ReadHeader \/ ReadBody
  BY <1>3, OtherStepsPreserve DEF ReadHeader, ReadBody, callers
<1>4. CASE ReaderLocks \/ SendReply \/ CountReply
  BY <1>4, ReplyPreserves
<1>5. CASE \E t \in Threads : BeginFlow(t) \/ FlowStep(t)
  BY <1>5, BeginPreserves, BuildPreserves, SendPreserves, CountPreserves DEF FlowStep
<1>6. CASE Shutdown \/ Join
  BY <1>6, OtherStepsPreserve DEF Shutdown, Join, connection, readerVars, callers
<1>7. CASE UNCHANGED vars
  BY <1>7, OtherStepsPreserve DEF vars
<1> QED
  BY <1>1, <1>2, <1>3, <1>4, <1>5, <1>6, <1>7 DEF Next, ReaderStep

\* The invariant, and with it what is said of the lock, the identifiers and the
\* messages on the wire, holds in every state.
THEOREM Invariance == Spec => []IInv
<1>1. Init => IInv
  BY AdapterAssumption, InitEstablishes
<1>2. IInv /\ [Next]_vars => IInv'
  BY AdapterAssumption, StepPreserves
<1> QED
  BY <1>1, <1>2, PTL DEF Spec

-----------------------------------------------------------------------------
(* Sums over the messages, and numbers of 16 bits.                         *)

\* What holds of 0 and, with a number, of the next one, holds of all.
LEMMA EveryNumber ==
    ASSUME NEW S, 0 \in S, \A n \in Nat : n \in S => n + 1 \in S
    PROVE  Nat \subseteq S
<1> DEFINE T == Nat \ S
           R == OpToRel(<, Nat)
<1>1. SUFFICES ASSUME T # {} PROVE FALSE
  OBVIOUS
<1>2. IsWellFoundedOn(R, Nat)
  BY NatLessThanWellFounded
<1>3. \A x, y \in Nat : y < x => <<y, x>> \in R
  BY DEF OpToRel
<1> HIDE DEF R
<1>4. PICK n \in T : \A y \in T : ~(<<y, n>> \in R)
  BY <1>1, <1>2, WFMin
<1>5. n \in Nat /\ n # 0 /\ n \notin S
  OBVIOUS
<1>6. n - 1 \in Nat /\ n - 1 < n /\ n = (n - 1) + 1
  BY <1>5
<1>7. <<n - 1, n>> \in R
  BY <1>3, <1>5, <1>6
<1>8. n - 1 \in S
  BY <1>4, <1>6, <1>7
<1> QED
  BY <1>5, <1>6, <1>8

\* f[k] is the size of the first k messages.
Sums(f, s, n) == f = [k \in 0 .. n |-> IF k = 0 THEN 0 ELSE f[k - 1] + SizeOf(s[k])]

\* Two running sums over the same messages agree as far as both go.
LEMMA SumsAgree ==
    ASSUME NEW s, NEW t, NEW n \in Nat, NEW f, NEW g,
           Sums(f, s, n), Sums(g, t, n + 1), \A k \in 1 .. n : t[k] = s[k]
    PROVE  \A k \in 0 .. n : g[k] = f[k]
<1> DEFINE S == {k \in Nat : k <= n => g[k] = f[k]}
<1>1. \A k \in 0 .. n : f[k] = IF k = 0 THEN 0 ELSE f[k - 1] + SizeOf(s[k])
  BY DEF Sums
<1>2. \A k \in 0 .. n + 1 : g[k] = IF k = 0 THEN 0 ELSE g[k - 1] + SizeOf(t[k])
  BY DEF Sums
<1>3. 0 \in S
  BY <1>1, <1>2
<1>4. ASSUME NEW k \in Nat, k \in S PROVE k + 1 \in S
  BY <1>1, <1>2, <1>4
<1> HIDE DEF S
<1>5. Nat \subseteq S
  BY <1>3, <1>4, EveryNumber
<1> QED
  BY <1>5 DEF S

\* There is a running sum over any sequence of messages.
LEMMA SumsExist ==
    ASSUME NEW s, NEW n \in Nat
    PROVE  \E f : Sums(f, s, n)
<1> DEFINE S == {k \in Nat : \E f : Sums(f, s, k)}
<1>1. 0 \in S
  <2>1. Sums([k \in 0 .. 0 |-> 0], s, 0)
    BY DEF Sums
  <2> QED
    BY <2>1
<1>2. ASSUME NEW k \in Nat, k \in S PROVE k + 1 \in S
  <2>1. PICK f : Sums(f, s, k)
    BY <1>2
  <2> DEFINE g == [i \in 0 .. k + 1 |-> IF i = k + 1 THEN f[k] + SizeOf(s[k + 1]) ELSE f[i]]
  <2>2. \A i \in 0 .. k : f[i] = IF i = 0 THEN 0 ELSE f[i - 1] + SizeOf(s[i])
    BY <2>1 DEF Sums
  <2>3. \A i \in 0 .. k + 1 : g[i] = IF i = 0 THEN 0 ELSE g[i - 1] + SizeOf(s[i])
    BY <2>2
  <2>4. g = [i \in 0 .. k + 1 |-> g[i]]
    OBVIOUS
  <2> HIDE DEF g
  <2>5. Sums(g, s, k + 1)
    BY <2>3, <2>4 DEF Sums
  <2> QED
    BY <2>5
<1> HIDE DEF S
<1>3. n \in S
  BY <1>1, <1>2, EveryNumber
<1> QED
  BY <1>3 DEF S

\* The total is the last of the running sums.
LEMMA TotalIsSum ==
    ASSUME NEW s, Len(s) \in Nat
    PROVE  \E f : Sums(f, s, Len(s)) /\ TotalLength(s) = f[Len(s)]
<1> DEFINE F == CHOOSE f : Sums(f, s, Len(s))
<1>1. Sums(F, s, Len(s))
  BY SumsExist
<1>2. TotalLength(s) = F[Len(s)]
  BY DEF TotalLength, Sums
<1> QED
  BY <1>1, <1>2

\* A message at the end adds its size.
LEMMA TotalGrows ==
    ASSUME NEW w, w \in Seq(ToSet(w)), NEW m, SizeOf(m) \in Nat
    PROVE  TotalLength(Append(w, m)) = TotalLength(w) + SizeOf(m)
<1> DEFINE S == ToSet(w) \cup {m}
           v == Append(w, m)
           n == Len(w)
<1>1. w \in Seq(S) /\ m \in S
  OBVIOUS
<1> HIDE DEF S
<1>2. n \in Nat /\ Len(v) = n + 1 /\ v[n + 1] = m /\ \A i \in 1 .. n : v[i] = w[i]
  BY <1>1, AppendProperties, LenProperties
<1> HIDE DEF v
<1>3. PICK f : Sums(f, w, n) /\ TotalLength(w) = f[n]
  BY <1>2, TotalIsSum
<1>4. PICK g : Sums(g, v, n + 1) /\ TotalLength(v) = g[n + 1]
  BY <1>2, TotalIsSum
<1>5. g[n] = f[n]
  <2> HIDE DEF n
  <2>1. n \in 0 .. n
    BY <1>2
  <2>2. n \in Nat /\ \A k \in 1 .. n : v[k] = w[k]
    BY <1>2
  <2>3. Sums(f, w, n) /\ Sums(g, v, n + 1)
    BY <1>3, <1>4
  <2>4. \A k \in 0 .. n : g[k] = f[k]
    BY <2>1, <2>2, <2>3, SumsAgree
  <2> QED
    BY <2>1, <2>4
<1>6. g[n + 1] = g[n] + SizeOf(v[n + 1])
  BY <1>2, <1>4 DEF Sums
<1> QED
  BY <1>2, <1>3, <1>4, <1>5, <1>6 DEF v

\* Nothing on the wire has no bytes.
LEMMA NothingIsEmpty == TotalLength(<<>>) = 0
<1>1. Len(<<>>) = 0
  BY EmptySeq
<1>2. PICK f : Sums(f, <<>>, 0) /\ TotalLength(<<>>) = f[0]
  BY <1>1, TotalIsSum
<1> QED
  BY <1>2 DEF Sums

\* A set of numbers that none exceeds has a greatest.
LEMMA Greatest ==
    ASSUME NEW n \in Nat, NEW Q \in SUBSET (0 .. n), Q # {}
    PROVE  Max(Q) \in Q /\ \A x \in Q : x <= Max(Q)
<1> DEFINE Has(P) == \E x \in P : \A y \in P : x >= y
           S == {m \in Nat : \A P \in SUBSET (0 .. m) : P # {} => Has(P)}
<1>1. 0 \in S
  <2> SUFFICES ASSUME NEW P \in SUBSET (0 .. 0), P # {} PROVE Has(P)
    OBVIOUS
  <2>1. 0 .. 0 = {0}
    OBVIOUS
  <2>2. 0 \in P /\ \A y \in P : y = 0
    BY <2>1
  <2> QED
    BY <2>2
<1>2. ASSUME NEW m \in Nat, m \in S PROVE m + 1 \in S
  <2> SUFFICES ASSUME NEW P \in SUBSET (0 .. m + 1), P # {} PROVE Has(P)
    OBVIOUS
  <2>1. CASE m + 1 \in P
    BY <2>1
  <2>2. CASE m + 1 \notin P
    <3>1. P \in SUBSET (0 .. m)
      BY <2>2
    <3> QED
      BY <1>2, <3>1
  <2> QED
    BY <2>1, <2>2
<1> HIDE DEF S
<1>3. n \in S
  BY <1>1, <1>2, EveryNumber
<1>4. Has(Q)
  BY <1>3 DEF S
<1> QED
  BY <1>4 DEF Max

\* The cast to uint16_t.
LEMMA SixteenBits == \A x \in Int : AsUInt16(x) \in UInt16
  BY SMTT(20) DEF AsUInt16, UInt16

\* The priority of a flow string that is accepted has 16 bits.
LEMMA ParsedPriority ==
    ASSUME AdapterAssumption, NEW s \in Strings, ~Malformed(s)
    PROVE  Parsed(s).priority = Absent \/ Parsed(s).priority \in UInt16
<1>1. /\ s \in Seq([key : STRING, val : Int \cup {Unreadable}])
      /\ DOMAIN s = 1 .. Len(s) /\ Len(s) \in Nat
      /\ s \in [1 .. Len(s) -> [key : STRING, val : Int \cup {Unreadable}]]
  BY LenProperties DEF AdapterAssumption
<1>2. \A i \in DOMAIN s : s[i].val \in Int
  <2> SUFFICES ASSUME NEW i \in DOMAIN s PROVE s[i].val \in Int
    OBVIOUS
  <2>1. s[i] \in ToSet(s)
    BY DEF ToSet
  <2>2. s[i] \in [key : STRING, val : Int \cup {Unreadable}]
    BY <1>1
  <2>3. s[i].val \in Int \cup {Unreadable}
    BY <2>2
  <2> QED
    BY <2>1, <2>3 DEF Malformed
<1> DEFINE G == Giving(s, "priority")
<1>3. /\ "priority" \in Fields
      /\ Parsed(s)["priority"] = IF G = {} THEN Absent ELSE AsUInt16(LastGiven(s, "priority"))
  BY DEF Parsed, Fields
<1>5. Parsed(s).priority = Parsed(s)["priority"]
  OBVIOUS
<1>4. CASE G # {}
  <2>1. G \in SUBSET (0 .. Len(s))
    BY <1>1 DEF Giving
  <2>2. Max(G) \in G
    BY <1>1, <1>4, <2>1, Greatest
  <2>3. LastGiven(s, "priority") \in Int
    BY <1>2, <2>2 DEF LastGiven, Giving
  <2>4. AsUInt16(LastGiven(s, "priority")) \in UInt16
    BY <2>3, SixteenBits
  <2> HIDE DEF G
  <2> QED
    BY <1>3, <1>4, <1>5, <2>4
<1> HIDE DEF G
<1> QED
  BY <1>3, <1>4, <1>5

-----------------------------------------------------------------------------
(* The stream as the reader finds it: q is the stream, a the identifiers   *)
(* of the switch's echo requests, n how many of them the reader has taken. *)

Cells == Headers \cup {Body}
Asks(c) == c.kind = "ECHO_REQUEST"
HeadsOf(q) == {i \in DOMAIN q : q[i] # Body}

\* First gap cells of a body, and then messages: each header is followed by the
\* cells of its body and those by the next header.
Framed(q, gap) ==
    \A i \in DOMAIN q :
        /\ i <= gap => q[i] = Body
        /\ i = gap + 1 => q[i] # Body
        /\ q[i] # Body =>
            /\ \A j \in DOMAIN q : i < j /\ j < i + q[i].len => q[j] = Body
            /\ i + q[i].len \in DOMAIN q => q[i + q[i].len] # Body

\* No body is cut short.
Whole(q, gap) ==
    /\ gap <= Len(q)
    /\ \A i \in HeadsOf(q) : i + q[i].len - 1 <= Len(q)

\* Identifiers grow along the stream and among the requests, and are those of
\* the first n messages.
Numbered(q, a, n) ==
    /\ \A i \in HeadsOf(q) : q[i].xid \in 1 .. n
    /\ \A i, j \in HeadsOf(q) : i < j => q[i].xid < q[j].xid
    /\ \A k \in DOMAIN a : a[k] \in 1 .. n
    /\ \A k, l \in DOMAIN a : k < l => a[k] < a[l]

\* A request on the stream is one of those the reader has not taken; one of
\* those is on the stream, all of them or those before another message.
Waits(q, x) == \E j \in HeadsOf(q) : Asks(q[j]) /\ q[j].xid = x
InTurn(q, a, n, all) ==
    /\ n <= Len(a)
    /\ \A i \in HeadsOf(q) : Asks(q[i]) => \E k \in n + 1 .. Len(a) : a[k] = q[i].xid
    /\ \A k \in n + 1 .. Len(a) :
        all \/ (\E i \in HeadsOf(q) : q[i].xid >= a[k]) => Waits(q, a[k])

\* r is what q leaves when its first n cells are taken.
Rest(q, n, r) ==
    /\ n \in 0 .. Len(q) /\ Len(r) = Len(q) - n
    /\ DOMAIN q = 1 .. Len(q) /\ DOMAIN r = 1 .. Len(r)
    /\ \A i \in 1 .. Len(r) : r[i] = q[i + n]

-----------------------------------------------------------------------------
(* What taking, cutting and adding cells does to it.                       *)

\* A cell is a header or part of a body, and not both.
LEMMA HeaderFields ==
    ASSUME AdapterAssumption, NEW h \in Cells
    PROVE  /\ h # Body => h \in Headers
           /\ h \in Headers =>
                /\ h # Body /\ h.len \in Nat \ {0} /\ h.len \in Lengths
                /\ h.xid \in 0 .. MaxInbound /\ h.kind \in Kinds
<1>1. ASSUME h \in Headers PROVE h # Body
  <2>1. h.xid \in 0 .. MaxInbound /\ "len" \in DOMAIN h
    BY <1>1 DEF Headers
  <2>2. "len" \notin DOMAIN Body
    BY DEF Body
  <2> QED
    BY <2>1, <2>2
<1> QED
  BY <1>1 DEF Cells, Headers, AdapterAssumption

\* The same of a cell on the stream.
LEMMA HeadFields ==
    ASSUME AdapterAssumption, NEW q \in Seq(Cells), NEW i \in HeadsOf(q)
    PROVE  /\ i \in Nat /\ i \in 1 .. Len(q) /\ i \in DOMAIN q
           /\ q[i] # Body /\ q[i] \in Headers /\ q[i].len \in Nat \ {0}
<1> DEFINE h == q[i]
<1>1. /\ i \in Nat /\ i \in 1 .. Len(q) /\ i \in DOMAIN q
      /\ h # Body /\ h \in Cells
  BY LenProperties DEF HeadsOf
<1> HIDE DEF h
<1>2. h \in Headers /\ h.len \in Nat \ {0}
  BY <1>1, HeaderFields
<1> QED
  BY <1>1, <1>2 DEF h

\* One cell is taken.
LEMMA TailRest ==
    ASSUME NEW S, NEW q \in Seq(S), q # <<>>
    PROVE  /\ Rest(q, 1, Tail(q)) /\ Tail(q) \in Seq(S)
           /\ Head(q) = q[1] /\ q[1] \in S /\ Len(q) \in Nat \ {0}
<1>1. /\ Tail(q) \in Seq(S) /\ Len(Tail(q)) = Len(q) - 1
      /\ \A i \in 1 .. Len(Tail(q)) : Tail(q)[i] = q[i + 1]
      /\ Head(q) = q[1] /\ Len(q) \in Nat \ {0}
  BY HeadTailProperties, EmptySeq, LenProperties
<1>2. DOMAIN q = 1 .. Len(q) /\ DOMAIN Tail(q) = 1 .. Len(Tail(q)) /\ q[1] \in S
  BY <1>1, LenProperties
<1> QED
  BY <1>1, <1>2 DEF Rest

\* Some cells are taken.
LEMMA CutRest ==
    ASSUME NEW S, NEW q \in Seq(S), NEW n \in 0 .. Len(q)
    PROVE  /\ Rest(q, n, SubSeq(q, n + 1, Len(q)))
           /\ SubSeq(q, n + 1, Len(q)) \in Seq(S)
<1> DEFINE r == SubSeq(q, n + 1, Len(q))
<1>0. Len(q) \in Nat
  BY LenProperties
<1>1. /\ r \in Seq(S) /\ Len(r) = Len(q) - n
      /\ \A i \in 1 .. Len(r) : r[i] = q[i + n]
  BY <1>0 
<1>2. DOMAIN q = 1 .. Len(q) /\ DOMAIN r = 1 .. Len(r)
  BY <1>1, LenProperties
<1> QED
  BY <1>0, <1>1, <1>2 DEF Rest

\* More cells are wanted than there are.
LEMMA CutAll ==
    ASSUME NEW S, NEW q \in Seq(S), NEW n \in Nat, n > Len(q)
    PROVE  SubSeq(q, n + 1, Len(q)) = <<>>
  BY LenProperties

\* Either way cells are left.
LEMMA CutTyped ==
    ASSUME NEW S, NEW q \in Seq(S), NEW n \in Nat
    PROVE  SubSeq(q, n + 1, Len(q)) \in Seq(S)
<1>1. CASE n > Len(q)
  BY <1>1, CutAll
<1>2. CASE ~(n > Len(q))
  <2>1. n \in 0 .. Len(q)
    BY <1>2, LenProperties
  <2> QED
    BY <2>1, CutRest
<1> QED
  BY <1>1, <1>2

\* Taking cells leaves the others in order.
LEMMA RestNumbered ==
    ASSUME NEW q, NEW a, NEW n, NEW r, NEW m \in Nat,
           Len(q) \in Nat, Numbered(q, a, n), Rest(q, m, r)
    PROVE  Numbered(r, a, n)
<1>1. \A i \in HeadsOf(r) : i + m \in HeadsOf(q) /\ r[i] = q[i + m] /\ i \in Nat
  BY DEF HeadsOf, Rest
<1> QED
  BY <1>1 DEF Numbered

\* Who takes the rest of a message finds the next header.
LEMMA SkipBody ==
    ASSUME AdapterAssumption, NEW q \in Seq(Cells), NEW r, NEW m \in Nat,
           Framed(q, m), Rest(q, m, r)
    PROVE  /\ Framed(r, 0) /\ (Whole(q, m) => Whole(r, 0))
           /\ \A a \in Seq(Nat), n \in Nat, all \in BOOLEAN :
                InTurn(q, a, n, all) => InTurn(r, a, n, all)
<1>0. Len(q) \in Nat /\ DOMAIN q = 1 .. Len(q) /\ \A i \in DOMAIN q : q[i] \in Cells
  BY LenProperties
<1>1. /\ \A i \in HeadsOf(r) : i + m \in HeadsOf(q) /\ r[i] = q[i + m] /\ i \in Nat
      /\ \A i \in HeadsOf(q) : i - m \in HeadsOf(r) /\ q[i] = r[i - m] /\ i \in Nat
  BY <1>0 DEF HeadsOf, Rest, Framed
<1>2. Framed(r, 0)
  <2> SUFFICES ASSUME NEW i \in DOMAIN r
               PROVE  /\ i <= 0 => r[i] = Body
                      /\ i = 0 + 1 => r[i] # Body
                      /\ r[i] # Body =>
                          /\ \A j \in DOMAIN r : i < j /\ j < i + r[i].len => r[j] = Body
                          /\ i + r[i].len \in DOMAIN r => r[i + r[i].len] # Body
    BY DEF Framed
  <2>1. i \in 1 .. Len(r) /\ r[i] = q[i + m] /\ i + m \in DOMAIN q
    BY <1>0 DEF Rest
  <2>2. i = 1 => r[i] # Body
    BY <1>0, <2>1 DEF Framed
  <2>3. ASSUME r[i] # Body
        PROVE  /\ \A j \in DOMAIN r : i < j /\ j < i + r[i].len => r[j] = Body
               /\ i + r[i].len \in DOMAIN r => r[i + r[i].len] # Body
    <3>1. r[i].len \in Nat \ {0}
      BY <1>0, <2>1, <2>3, HeaderFields
    <3>2. /\ \A j \in DOMAIN q : i + m < j /\ j < (i + m) + r[i].len => q[j] = Body
          /\ (i + m) + r[i].len \in DOMAIN q => q[(i + m) + r[i].len] # Body
      BY <2>1, <2>3 DEF Framed
    <3>3. ASSUME NEW j \in DOMAIN r, i < j, j < i + r[i].len PROVE r[j] = Body
      <4>1. j + m \in DOMAIN q /\ r[j] = q[j + m] /\ i + m < j + m /\ j + m < (i + m) + r[i].len
        BY <1>0, <2>1, <3>1, <3>3 DEF Rest
      <4> QED
        BY <3>2, <4>1
    <3>4. ASSUME i + r[i].len \in DOMAIN r PROVE r[i + r[i].len] # Body
      <4>1. /\ (i + m) + r[i].len \in DOMAIN q
            /\ r[i + r[i].len] = q[(i + m) + r[i].len]
        BY <1>0, <2>1, <3>1, <3>4 DEF Rest
      <4> QED
        BY <3>2, <4>1
    <3> QED
      BY <3>3, <3>4
  <2> QED
    BY <1>0, <2>1, <2>2, <2>3
<1>3. Whole(q, m) => Whole(r, 0)
  <2> SUFFICES ASSUME Whole(q, m) PROVE Whole(r, 0)
    OBVIOUS
  <2>1. Len(r) = Len(q) - m /\ m <= Len(q)
    BY DEF Rest, Whole
  <2>2. ASSUME NEW i \in HeadsOf(r) PROVE i + r[i].len - 1 <= Len(r)
    <3>1. i + m \in HeadsOf(q) /\ r[i] = q[i + m] /\ i \in Nat
      BY <1>1
    <3>2. r[i].len \in Nat
      BY <1>0, <3>1, HeaderFields DEF HeadsOf
    <3>3. (i + m) + q[i + m].len - 1 <= Len(q)
      BY <3>1 DEF Whole
    <3> QED
      BY <1>0, <2>1, <3>1, <3>2, <3>3
  <2> QED
    BY <1>0, <2>1, <2>2 DEF Whole
<1>4. ASSUME NEW a \in Seq(Nat), NEW n \in Nat, NEW all \in BOOLEAN, InTurn(q, a, n, all)
      PROVE  InTurn(r, a, n, all)
  <2>1. ASSUME NEW x, Waits(q, x) PROVE Waits(r, x)
    BY <1>1, <2>1 DEF Waits
  <2>2. \A i \in HeadsOf(r) : Asks(r[i]) => \E k \in n + 1 .. Len(a) : a[k] = r[i].xid
    BY ZenonT(60), <1>1, <1>4 DEF InTurn
  <2>3. ASSUME NEW k \in n + 1 .. Len(a), all \/ (\E i \in HeadsOf(r) : r[i].xid >= a[k])
        PROVE  Waits(r, a[k])
    <3>1. all \/ (\E i \in HeadsOf(q) : q[i].xid >= a[k])
      BY <1>1, <2>3
    <3> QED
      BY <1>4, <2>1, <3>1 DEF InTurn
  <2> QED
    BY <1>4, <2>2, <2>3 DEF InTurn
<1> QED
  BY <1>2, <1>3, <1>4

\* Who takes a header finds its body; a request taken is the next one.
LEMMA TakeHeader ==
    ASSUME AdapterAssumption, NEW q \in Seq(Cells), NEW r, Framed(q, 0), Rest(q, 1, r)
    PROVE  /\ q[1] \in Headers
           /\ Framed(r, q[1].len - 1) /\ (Whole(q, 0) => Whole(r, q[1].len - 1))
           /\ \A a \in Seq(Nat), n \in Nat, all \in BOOLEAN :
                InTurn(q, a, n, all) /\ ~Asks(q[1]) => InTurn(r, a, n, all)
           /\ \A a \in Seq(Nat), n \in Nat, x \in Nat, all \in BOOLEAN :
                InTurn(q, a, n, all) /\ Asks(q[1]) /\ Numbered(q, a, x) =>
                    InTurn(r, a, n + 1, all) /\ a[n + 1] = q[1].xid
<1>0. /\ Len(q) \in Nat \ {0} /\ DOMAIN q = 1 .. Len(q) /\ \A i \in DOMAIN q : q[i] \in Cells
      /\ Len(r) = Len(q) - 1 /\ DOMAIN r = 1 .. Len(r) /\ \A i \in 1 .. Len(r) : r[i] = q[i + 1]
  BY LenProperties DEF Rest
<1>1. q[1] # Body /\ q[1] \in Headers /\ q[1].len \in Nat \ {0} /\ 1 \in HeadsOf(q)
  <2>1. 1 \in DOMAIN q /\ q[1] \in Cells
    BY <1>0
  <2>2. q[1] # Body
    BY <2>1 DEF Framed
  <2> QED
    BY <2>1, <2>2, HeaderFields DEF HeadsOf
<1>2. /\ \A i \in HeadsOf(r) : i + 1 \in HeadsOf(q) /\ r[i] = q[i + 1] /\ i \in Nat \ {0}
      /\ \A i \in HeadsOf(q) \ {1} : i - 1 \in HeadsOf(r) /\ q[i] = r[i - 1] /\ i \in Nat
  BY <1>0 DEF HeadsOf
<1> DEFINE g == q[1].len - 1
<1>3. Framed(r, g)
  <2> SUFFICES ASSUME NEW i \in DOMAIN r
               PROVE  /\ i <= g => r[i] = Body
                      /\ i = g + 1 => r[i] # Body
                      /\ r[i] # Body =>
                          /\ \A j \in DOMAIN r : i < j /\ j < i + r[i].len => r[j] = Body
                          /\ i + r[i].len \in DOMAIN r => r[i + r[i].len] # Body
    BY DEF Framed
  <2>1. i \in 1 .. Len(r) /\ r[i] = q[i + 1] /\ i + 1 \in DOMAIN q
    BY <1>0
  <2>2. (i <= g => r[i] = Body) /\ (i = g + 1 => r[i] # Body)
    <3>1. /\ \A j \in DOMAIN q : 1 < j /\ j < 1 + q[1].len => q[j] = Body
          /\ 1 + q[1].len \in DOMAIN q => q[1 + q[1].len] # Body
      BY <1>0, <1>1 DEF Framed
    <3> QED
      BY <1>0, <1>1, <2>1, <3>1
  <2>3. ASSUME r[i] # Body
        PROVE  /\ \A j \in DOMAIN r : i < j /\ j < i + r[i].len => r[j] = Body
               /\ i + r[i].len \in DOMAIN r => r[i + r[i].len] # Body
    <3>1. r[i].len \in Nat \ {0}
      BY <1>0, <2>1, <2>3, HeaderFields
    <3>2. /\ \A j \in DOMAIN q : i + 1 < j /\ j < (i + 1) + r[i].len => q[j] = Body
          /\ (i + 1) + r[i].len \in DOMAIN q => q[(i + 1) + r[i].len] # Body
      BY <2>1, <2>3 DEF Framed
    <3>3. ASSUME NEW j \in DOMAIN r, i < j, j < i + r[i].len PROVE r[j] = Body
      <4>1. j + 1 \in DOMAIN q /\ r[j] = q[j + 1] /\ i + 1 < j + 1 /\ j + 1 < (i + 1) + r[i].len
        BY <1>0, <2>1, <3>1, <3>3
      <4> QED
        BY <3>2, <4>1
    <3>4. ASSUME i + r[i].len \in DOMAIN r PROVE r[i + r[i].len] # Body
      <4>1. /\ (i + 1) + r[i].len \in DOMAIN q
            /\ r[i + r[i].len] = q[(i + 1) + r[i].len]
        BY <1>0, <2>1, <3>1, <3>4
      <4> QED
        BY <3>2, <4>1
    <3> QED
      BY <3>3, <3>4
  <2> QED
    BY <2>2, <2>3
<1>4. Whole(q, 0) => Whole(r, g)
  <2> SUFFICES ASSUME Whole(q, 0) PROVE Whole(r, g)
    OBVIOUS
  <2>1. 1 + q[1].len - 1 <= Len(q)
    BY <1>1 DEF Whole
  <2>2. ASSUME NEW i \in HeadsOf(r) PROVE i + r[i].len - 1 <= Len(r)
    <3>1. i + 1 \in HeadsOf(q) /\ r[i] = q[i + 1] /\ i \in Nat \ {0}
      BY <1>2
    <3>2. r[i].len \in Nat
      BY <1>0, <3>1, HeaderFields DEF HeadsOf
    <3>3. (i + 1) + q[i + 1].len - 1 <= Len(q)
      BY <3>1 DEF Whole
    <3> QED
      BY <1>0, <3>1, <3>2, <3>3
  <2> QED
    BY <1>0, <1>1, <2>1, <2>2 DEF Whole
<1>5. ASSUME NEW a \in Seq(Nat), NEW n \in Nat, NEW all \in BOOLEAN,
             InTurn(q, a, n, all), ~Asks(q[1])
      PROVE  InTurn(r, a, n, all)
  <2>1. ASSUME NEW x, Waits(q, x) PROVE Waits(r, x)
    BY <1>2, <1>5, <2>1 DEF Waits
  <2>2. ASSUME NEW i \in HeadsOf(r), Asks(r[i])
        PROVE  \E k \in n + 1 .. Len(a) : a[k] = r[i].xid
    <3>1. i + 1 \in HeadsOf(q) /\ r[i] = q[i + 1]
      BY <1>2
    <3>2. \E k \in n + 1 .. Len(a) : a[k] = q[i + 1].xid
      BY <1>5, <2>2, <3>1 DEF InTurn
    <3> QED
      BY <3>1, <3>2
  <2>3. ASSUME NEW k \in n + 1 .. Len(a), all \/ (\E i \in HeadsOf(r) : r[i].xid >= a[k])
        PROVE  Waits(r, a[k])
    <3>1. all \/ (\E i \in HeadsOf(q) : q[i].xid >= a[k])
      BY <1>2, <2>3
    <3> QED
      BY <1>5, <2>1, <3>1 DEF InTurn
  <2> QED
    BY <1>5, <2>2, <2>3 DEF InTurn
<1>6. ASSUME NEW a \in Seq(Nat), NEW n \in Nat, NEW x \in Nat, NEW all \in BOOLEAN,
             InTurn(q, a, n, all), Asks(q[1]), Numbered(q, a, x)
      PROVE  InTurn(r, a, n + 1, all) /\ a[n + 1] = q[1].xid
  <2>0. Len(a) \in Nat /\ DOMAIN a = 1 .. Len(a) /\ \A k \in DOMAIN a : a[k] \in Nat
    BY LenProperties
  <2>1. \A i \in HeadsOf(q) : q[i].xid \in Nat /\ i \in Nat
    BY <1>0, <1>6 DEF Numbered, HeadsOf
  <2>2. \A i \in HeadsOf(q) \ {1} : q[1].xid < q[i].xid /\ 1 < i
    BY SMTT(20), <1>0, <1>1, <1>6 DEF Numbered, HeadsOf
  <2>3. PICK k \in n + 1 .. Len(a) : a[k] = q[1].xid
    BY <1>1, <1>6 DEF InTurn
  <2>4. k = n + 1
    <3> SUFFICES ASSUME k # n + 1 PROVE FALSE
      OBVIOUS
    <3>1. n + 1 \in DOMAIN a /\ n + 1 \in n + 1 .. Len(a) /\ n + 1 < k /\ k \in DOMAIN a
      BY <2>0
    <3>2. a[n + 1] < q[1].xid
      BY <1>6, <2>3, <3>1 DEF Numbered
    <3>3. Waits(q, a[n + 1])
      BY SMTT(20), <1>1, <1>6, <2>0, <2>1, <3>1, <3>2 DEF InTurn
    <3>4. PICK j \in HeadsOf(q) : q[j].xid = a[n + 1]
      BY <3>3 DEF Waits
    <3>5. a[n + 1] \in Nat /\ q[1].xid \in Nat /\ q[j].xid \in Nat
      BY <1>1, <2>0, <2>1, <3>1
    <3>6. j # 1
      BY <3>2, <3>4, <3>5
    <3>7. q[1].xid < q[j].xid
      BY <2>2, <3>6
    <3> QED
      BY <3>2, <3>4, <3>5, <3>7
  <2>5. \A l \in (n + 1) + 1 .. Len(a) : a[l] # q[1].xid /\ l \in n + 1 .. Len(a)
    BY SMTT(20), <1>6, <2>0, <2>3, <2>4 DEF Numbered
  <2>6. ASSUME NEW i \in HeadsOf(r), Asks(r[i])
        PROVE  \E l \in (n + 1) + 1 .. Len(a) : a[l] = r[i].xid
    <3>1. i + 1 \in HeadsOf(q) /\ r[i] = q[i + 1] /\ i \in Nat \ {0}
      BY <1>2
    <3>2. PICK l \in n + 1 .. Len(a) : a[l] = r[i].xid
      BY <1>6, <2>6, <3>1 DEF InTurn
    <3>3. l # n + 1
      BY <2>1, <2>2, <2>3, <2>4, <3>1, <3>2
    <3> QED
      BY <2>0, <3>2, <3>3
  <2>7. ASSUME NEW l \in (n + 1) + 1 .. Len(a),
               all \/ (\E i \in HeadsOf(r) : r[i].xid >= a[l])
        PROVE  Waits(r, a[l])
    <3>1. Waits(q, a[l])
      BY <1>2, <1>6, <2>5, <2>7 DEF InTurn
    <3> QED
      BY <1>2, <2>5, <3>1 DEF Waits
  <2>8. n + 1 <= Len(a)
    BY <2>0, <2>3, <2>4
  <2> QED
    BY <2>3, <2>4, <2>6, <2>7, <2>8 DEF InTurn
<1> QED
  BY <1>1, <1>3, <1>4, <1>5, <1>6

\* The switch leaves: what came is a part from the beginning.
LEMMA KeepPart ==
    ASSUME AdapterAssumption, NEW q \in Seq(Cells), NEW k \in 0 .. Len(q)
    PROVE  LET r == SubSeq(q, 1, k)
           IN /\ r \in Seq(Cells) /\ Len(r) = k /\ \A i \in 1 .. k : r[i] = q[i]
              /\ \A g \in Nat : Framed(q, g) => Framed(r, g)
              /\ \A a \in Seq(Nat), x \in Nat : Numbered(q, a, x) => Numbered(r, a, x)
              /\ \A a \in Seq(Nat), n \in Nat, x \in Nat, all \in BOOLEAN :
                    InTurn(q, a, n, all) /\ Numbered(q, a, x) => InTurn(r, a, n, FALSE)
<1> DEFINE r == SubSeq(q, 1, k)
<1>1. r \in Seq(Cells) /\ Len(r) = k /\ \A i \in 1 .. k : r[i] = q[i]
  BY LenProperties
<1>2. /\ Len(q) \in Nat /\ k \in Nat /\ DOMAIN q = 1 .. Len(q) /\ DOMAIN r = 1 .. k
      /\ \A i \in DOMAIN r : i \in DOMAIN q /\ r[i] = q[i]
      /\ \A i \in DOMAIN q : q[i] \in Cells
  BY <1>1, LenProperties
<1> HIDE DEF r
<1>3. \A i \in HeadsOf(r) : i \in HeadsOf(q) /\ r[i] = q[i] /\ i \in 1 .. k
  BY <1>2 DEF HeadsOf
<1>4. ASSUME NEW g \in Nat, Framed(q, g) PROVE Framed(r, g)
  BY <1>2, <1>4 DEF Framed
<1>5. ASSUME NEW a \in Seq(Nat), NEW x \in Nat, Numbered(q, a, x) PROVE Numbered(r, a, x)
  BY <1>3, <1>5 DEF Numbered
<1>6. ASSUME NEW a \in Seq(Nat), NEW n \in Nat, NEW x \in Nat, NEW all \in BOOLEAN,
             InTurn(q, a, n, all), Numbered(q, a, x)
      PROVE  InTurn(r, a, n, FALSE)
  <2>1. ASSUME NEW i \in HeadsOf(r), Asks(r[i])
        PROVE  \E l \in n + 1 .. Len(a) : a[l] = r[i].xid
    BY <1>3, <1>6, <2>1 DEF InTurn
  <2>2. ASSUME NEW l \in n + 1 .. Len(a), NEW i \in HeadsOf(r), r[i].xid >= a[l]
        PROVE  Waits(r, a[l])
    <3>1. i \in HeadsOf(q) /\ r[i] = q[i] /\ i \in 1 .. k
      BY <1>3
    <3>2. Waits(q, a[l])
      BY <1>6, <2>2, <3>1 DEF InTurn
    <3>3. PICK j \in HeadsOf(q) : Asks(q[j]) /\ q[j].xid = a[l]
      BY <3>2 DEF Waits
    <3>4. j \in Nat /\ i \in Nat /\ q[j].xid \in Nat /\ q[i].xid \in Nat /\ j \in DOMAIN q
      <4>1. j \in DOMAIN q /\ j \in Nat /\ i \in Nat
        BY <1>2, <3>1, <3>3 DEF HeadsOf
      <4>2. q[j].xid \in 1 .. x /\ q[i].xid \in 1 .. x
        BY <1>6, <3>1, <3>3 DEF Numbered
      <4> QED
        BY <4>1, <4>2
    <3>5. j <= i
      <4> SUFFICES ASSUME i < j PROVE FALSE
        BY <3>4
      <4>1. q[i].xid < q[j].xid
        BY <1>6, <3>1, <3>3 DEF Numbered
      <4> QED
        BY <2>2, <3>1, <3>3, <3>4, <4>1
    <3>6. j \in DOMAIN r
      BY <1>2, <3>1, <3>4, <3>5
    <3> QED
      BY <1>2, <3>3, <3>6 DEF Waits, HeadsOf
  <2> QED
    BY <1>6, <2>1, <2>2 DEF InTurn
<1> QED
  BY <1>1, <1>4, <1>5, <1>6 DEF r

\* The switch sends: a header and its body at the end.
LEMMA SentCells ==
    ASSUME AdapterAssumption, NEW q \in Seq(Cells), NEW h \in Headers
    PROVE  LET r == q \o <<h>> \o [i \in 1 .. h.len - 1 |-> Body]
           IN /\ r \in Seq(Cells) /\ Len(r) = Len(q) + h.len
              /\ \A i \in 1 .. Len(q) : r[i] = q[i]
              /\ r[Len(q) + 1] = h
              /\ \A i \in Len(q) + 2 .. Len(q) + h.len : r[i] = Body
<1> DEFINE L == Len(q)
           p == [i \in 1 .. h.len - 1 |-> Body]
           r == q \o <<h>> \o p
<1>0. h \in Cells /\ h.len \in Nat \ {0} /\ L \in Nat
  <2>1. h \in Cells
    BY DEF Cells
  <2> QED
    BY <2>1, HeaderFields, LenProperties
<1>8. p \in Seq(Cells) /\ Len(p) = h.len - 1 /\ \A i \in 1 .. Len(p) : p[i] = Body
  BY <1>0 DEF Cells
<1> HIDE DEF p
<1> DEFINE u == q \o <<h>>
<1>1. u = Append(q, h)
  BY <1>0
<1>2. u \in Seq(Cells) /\ Len(u) = L + 1 /\ (\A i \in 1 .. L : u[i] = q[i]) /\ u[L + 1] = h
  BY <1>0, <1>1, AppendProperties
<1>4. r = u \o p
  OBVIOUS
<1> HIDE DEF u, r
<1>3. /\ u \o p \in Seq(Cells) /\ Len(u \o p) = Len(u) + Len(p)
      /\ \A i \in 1 .. Len(u) + Len(p) : (u \o p)[i] = IF i <= Len(u) THEN u[i] ELSE p[i - Len(u)]
  BY ZenonT(60), <1>2, <1>8, ConcatProperties
<1>5. Len(r) = L + h.len /\ Len(p) \in Nat /\ Len(u) = L + 1
  BY <1>0, <1>2, <1>3, <1>4, <1>8
<1>6. \A i \in 1 .. L + 1 : r[i] = u[i]
  BY <1>0, <1>3, <1>4, <1>5
<1>7. \A i \in L + 2 .. Len(r) : r[i] = p[i - (L + 1)] /\ i - (L + 1) \in 1 .. Len(p)
  BY <1>0, <1>3, <1>4, <1>5
<1> QED
  <2>1. /\ r \in Seq(Cells) /\ Len(r) = L + h.len
        /\ \A i \in 1 .. L : r[i] = q[i]
        /\ r[L + 1] = h
        /\ \A i \in L + 2 .. L + h.len : r[i] = Body
    BY <1>0, <1>2, <1>3, <1>4, <1>5, <1>6, <1>7, <1>8
  <2> QED
    BY <2>1 DEF r, p

\* A message at the end leaves the stream framed and the requests in turn.
LEMMA SendMore ==
    ASSUME AdapterAssumption, NEW q \in Seq(Cells), NEW h \in Headers, NEW r \in Seq(Cells),
           Len(r) = Len(q) + h.len, \A i \in 1 .. Len(q) : r[i] = q[i], r[Len(q) + 1] = h,
           \A i \in Len(q) + 2 .. Len(r) : r[i] = Body,
           NEW a \in Seq(Nat), NEW b \in Seq(Nat),
           Len(b) = IF Asks(h) THEN Len(a) + 1 ELSE Len(a),
           \A k \in 1 .. Len(a) : b[k] = a[k], Asks(h) => b[Len(a) + 1] = h.xid,
           NEW x \in Nat, h.xid = x + 1, Numbered(q, a, x)
    PROVE  /\ r # <<>> /\ r[1] = IF q = <<>> THEN h ELSE q[1]
           /\ Numbered(r, b, x + 1)
           /\ \A g \in Nat : Framed(q, g) /\ Whole(q, g) => Framed(r, g) /\ Whole(r, g)
           /\ \A n \in Nat : InTurn(q, a, n, TRUE) => InTurn(r, b, n, TRUE)
<1> DEFINE L == Len(q)
<1>0. /\ h \in Cells /\ h # Body /\ h.len \in Nat \ {0} /\ Body \in Cells /\ h.xid \in Nat
      /\ L \in Nat /\ DOMAIN q = 1 .. L /\ \A i \in DOMAIN q : q[i] \in Cells
  <2>1. h \in Cells /\ Body \in Cells
    BY DEF Cells
  <2>2. h # Body /\ h.len \in Nat \ {0} /\ h.xid \in 0 .. MaxInbound
    BY <2>1, HeaderFields
  <2> QED
    BY <2>1, <2>2, LenProperties
<1>2. /\ Len(r) = L + h.len /\ r[L + 1] = h
      /\ \A i \in 1 .. L : r[i] = q[i]
      /\ \A i \in L + 2 .. Len(r) : r[i] = Body
  OBVIOUS
<1>3. DOMAIN r = 1 .. Len(r) /\ r # <<>> /\ Len(r) \in Nat \ {0}
  BY <1>0, <1>2, LenProperties
<1>4. r[1] = IF q = <<>> THEN h ELSE q[1]
  BY <1>0, <1>2, EmptySeq
<1> HIDE DEF L
<1>5. /\ \A i \in HeadsOf(r) : (i = L + 1 /\ r[i] = h) \/ (i \in HeadsOf(q) /\ r[i] = q[i])
      /\ \A i \in HeadsOf(q) : i \in HeadsOf(r) /\ r[i] = q[i] /\ i \in 1 .. L
      /\ L + 1 \in HeadsOf(r)
  <2>1. \A i \in HeadsOf(r) : (i = L + 1 /\ r[i] = h) \/ (i \in HeadsOf(q) /\ r[i] = q[i])
    <3> SUFFICES ASSUME NEW i \in HeadsOf(r)
                 PROVE  (i = L + 1 /\ r[i] = h) \/ (i \in HeadsOf(q) /\ r[i] = q[i])
      OBVIOUS
    <3>1. i \in 1 .. Len(r) /\ r[i] # Body
      BY <1>3 DEF HeadsOf
    <3>2. ~(i \in L + 2 .. Len(r))
      BY <1>2, <3>1
    <3>3. i = L + 1 \/ i \in 1 .. L
      BY <1>0, <1>3, <3>1, <3>2
    <3> QED
      BY <1>0, <1>2, <3>1, <3>3 DEF HeadsOf
  <2>2. \A i \in HeadsOf(q) : i \in HeadsOf(r) /\ r[i] = q[i] /\ i \in 1 .. L
    BY <1>0, <1>2, <1>3 DEF HeadsOf
  <2>3. L + 1 \in HeadsOf(r)
    BY <1>0, <1>2, <1>3 DEF HeadsOf
  <2> QED
    BY <2>1, <2>2, <2>3
<1>6. /\ Len(a) \in Nat /\ DOMAIN a = 1 .. Len(a) /\ DOMAIN b = 1 .. Len(b)
      /\ Len(b) = IF Asks(h) THEN Len(a) + 1 ELSE Len(a)
      /\ \A k \in 1 .. Len(a) : b[k] = a[k]
      /\ Asks(h) => b[Len(a) + 1] = x + 1
  BY LenProperties
<1>7. Numbered(r, b, x + 1)
  <2>1. \A i \in HeadsOf(r) : r[i].xid \in 1 .. x + 1
    BY SMTT(20), <1>5 DEF Numbered
  <2>2. \A i, j \in HeadsOf(r) : i < j => r[i].xid < r[j].xid
    <3> SUFFICES ASSUME NEW i \in HeadsOf(r), NEW j \in HeadsOf(r), i < j
                 PROVE  r[i].xid < r[j].xid
      OBVIOUS
    <3>1. i \in HeadsOf(q) /\ r[i] = q[i] /\ q[i].xid \in 1 .. x
      <4>1. j \in 1 .. L + 1
        BY <1>0, <1>5
      <4>2. i # L + 1
        BY <1>0, <4>1
      <4> QED
        BY <1>5, <4>2 DEF Numbered
    <3>2. CASE j = L + 1 /\ r[j] = h
      BY <1>0, <3>1, <3>2
    <3>3. CASE j \in HeadsOf(q) /\ r[j] = q[j]
      BY <3>1, <3>3 DEF Numbered
    <3> QED
      BY <1>5, <3>2, <3>3
  <2>3. \A k \in DOMAIN b : b[k] \in 1 .. x + 1
    BY SMTT(20), <1>6 DEF Numbered
  <2>4. \A k, l \in DOMAIN b : k < l => b[k] < b[l]
    <3> SUFFICES ASSUME NEW k \in DOMAIN b, NEW l \in DOMAIN b, k < l PROVE b[k] < b[l]
      OBVIOUS
    <3>1. k \in 1 .. Len(a) /\ b[k] = a[k] /\ a[k] \in 1 .. x
      BY <1>6 DEF Numbered
    <3>2. CASE l \in 1 .. Len(a)
      BY <1>6, <3>1, <3>2 DEF Numbered
    <3>3. CASE Asks(h) /\ l = Len(a) + 1
      BY <1>6, <3>1, <3>3
    <3> QED
      BY <1>6, <3>2, <3>3
  <2> QED
    BY <2>1, <2>2, <2>3, <2>4 DEF Numbered
<1>8. ASSUME NEW g \in Nat, Framed(q, g), Whole(q, g) PROVE Framed(r, g) /\ Whole(r, g)
  <2>1. Len(q) = L /\ g <= L
    BY <1>8 DEF L, Whole
  <2>2. ASSUME NEW i \in HeadsOf(q) PROVE i \in Nat /\ q[i].len \in Nat \ {0} /\ i + q[i].len <= L + 1
    <3>1. i \in Nat /\ q[i].len \in Nat \ {0}
      BY HeadFields
    <3>2. i + q[i].len - 1 <= L
      BY <1>8, <2>1 DEF Whole
    <3> QED
      BY <1>0, <3>1, <3>2
  <2>3. ASSUME NEW i \in HeadsOf(r) PROVE i + r[i].len - 1 <= Len(r)
    <3>1. CASE i = L + 1 /\ r[i] = h
      BY <1>0, <1>2, <3>1
    <3>2. CASE i \in HeadsOf(q) /\ r[i] = q[i]
      <4>1. i \in Nat /\ q[i].len \in Nat \ {0} /\ i + q[i].len <= L + 1
        BY <2>2, <3>2
      <4>2. r[i].len = q[i].len /\ Len(r) = L + h.len /\ h.len \in Nat \ {0} /\ L \in Nat
        BY <1>0, <1>2, <3>2
      <4>3. r[i].len \in Nat /\ i + r[i].len <= L + 1
        BY <4>1, <4>2
      <4>4. \A c, d, e \in Nat : c + d <= L + 1 /\ e = L + h.len => c + d - 1 <= e
        BY <4>2
      <4>5. Len(r) \in Nat
        BY <4>2
      <4> QED
        BY <4>1, <4>2, <4>3, <4>4, <4>5
    <3> QED
      BY <1>5, <3>1, <3>2
  <2>4. ASSUME NEW i \in DOMAIN r PROVE (i <= g => r[i] = Body) /\ (i = g + 1 => r[i] # Body)
    <3>1. CASE i \in 1 .. L
      BY <1>0, <1>2, <1>8, <3>1 DEF Framed
    <3>2. CASE i > L
      <4>0. i \in Nat /\ L \in Nat /\ g \in Nat /\ g <= L /\ i > L
        BY <1>0, <1>3, <2>1, <3>2
      <4>1. ~(i <= g) /\ (i = g + 1 => i = L + 1)
        BY <4>0
      <4> QED
        BY <1>0, <1>2, <4>1
    <3> QED
      BY <1>0, <1>3, <3>1, <3>2
  <2>5. ASSUME NEW i \in DOMAIN r, r[i] # Body, NEW j \in DOMAIN r, i < j, j < i + r[i].len
        PROVE  r[j] = Body
    <3>1. CASE i = L + 1
      BY <1>0, <1>2, <1>3, <2>5, <3>1
    <3>2. CASE i \in HeadsOf(q)
      <4>1. r[i] = q[i] /\ j \in 1 .. L /\ i \in DOMAIN q /\ q[i] # Body
        BY <1>0, <1>3, <1>5, <2>2, <2>5, <3>2 DEF HeadsOf
      <4>2. q[j] = Body
        BY <1>0, <1>8, <2>5, <4>1 DEF Framed
      <4> QED
        BY <1>2, <4>1, <4>2
    <3> QED
      BY <1>5, <2>5, <3>1, <3>2 DEF HeadsOf
  <2>6. ASSUME NEW i \in DOMAIN r, r[i] # Body, i + r[i].len \in DOMAIN r
        PROVE  r[i + r[i].len] # Body
    <3>1. CASE i = L + 1
      BY <1>0, <1>2, <1>3, <2>6, <3>1
    <3>2. CASE i \in HeadsOf(q)
      <4>1. r[i] = q[i] /\ i + q[i].len \in 1 .. L + 1 /\ i \in DOMAIN q /\ q[i] # Body
        BY <1>0, <1>3, <1>5, <2>2, <2>6, <3>2 DEF HeadsOf
      <4>2. CASE i + q[i].len = L + 1
        BY <1>0, <1>2, <4>1, <4>2
      <4>3. CASE i + q[i].len \in 1 .. L
        BY <1>0, <1>2, <1>8, <4>1, <4>3 DEF Framed
      <4> QED
        BY <1>0, <4>1, <4>2, <4>3
    <3> QED
      BY <1>5, <2>6, <3>1, <3>2 DEF HeadsOf
  <2>7. Framed(r, g)
    BY <2>4, <2>5, <2>6 DEF Framed
  <2> QED
    BY <1>0, <1>2, <2>1, <2>3, <2>7 DEF Whole
<1>9. ASSUME NEW n \in Nat, InTurn(q, a, n, TRUE) PROVE InTurn(r, b, n, TRUE)
  <2>1. n <= Len(b) /\ n + 1 .. Len(a) \subseteq n + 1 .. Len(b)
    BY <1>6, <1>9 DEF InTurn
  <2>2. ASSUME NEW i \in HeadsOf(r), Asks(r[i])
        PROVE  \E k \in n + 1 .. Len(b) : b[k] = r[i].xid
    <3>1. CASE r[i] = h
      <4>1. Asks(h) /\ Len(a) + 1 \in n + 1 .. Len(b) /\ b[Len(a) + 1] = h.xid
        BY <1>6, <1>9, <2>2, <3>1 DEF InTurn
      <4> QED
        BY <3>1, <4>1
    <3>2. CASE i \in HeadsOf(q) /\ r[i] = q[i]
      <4>1. PICK k \in n + 1 .. Len(a) : a[k] = q[i].xid
        BY <1>9, <2>2, <3>2 DEF InTurn
      <4> QED
        BY <1>6, <2>1, <3>2, <4>1
    <3> QED
      BY <1>5, <3>1, <3>2
  <2>3. ASSUME NEW k \in n + 1 .. Len(b) PROVE Waits(r, b[k])
    <3>1. CASE k \in n + 1 .. Len(a)
      <4>1. Waits(q, a[k]) /\ b[k] = a[k]
        BY <1>6, <1>9, <3>1 DEF InTurn
      <4> QED
        BY <1>5, <4>1 DEF Waits
    <3>2. CASE k = Len(a) + 1 /\ Asks(h)
      BY <1>2, <1>5, <1>6, <3>2 DEF Waits
    <3> QED
      BY <1>6, <3>1, <3>2
  <2> QED
    BY <2>1, <2>2, <2>3 DEF InTurn
<1> QED
  BY <1>2, <1>3, <1>4, <1>6, <1>7, <1>8, <1>9

-----------------------------------------------------------------------------
(* The reader in step with the stream.                                     *)

\* What has come over the connection, typed.
Arriving ==
    /\ phase \in {"none", "hello", "discard", "ready", "join", "destroyed", "failed"}
    /\ link \in {"none", "open", "closing", "broken"}
    /\ inbox \in Seq(Cells)
    /\ asked \in Seq(Nat)
    /\ sentIn \in 0 .. MaxInbound
    /\ long \in BOOLEAN /\ late \in BOOLEAN
    /\ header \in Headers

\* The reader is within a message; cells of it that are still to come;
\* replies sent, counted or not; requests taken.
Reading == reader \in {"body", "lock", "reply"}
Gap == IF reader = "body" \/ phase = "discard" THEN header.len - 1 ELSE 0
Answered == echoReplies + (IF reader = "count" THEN 1 ELSE 0)
Taken == Answered + (IF Reading /\ Asks(header) THEN 1 ELSE 0)
\* Nothing has put the reader out of step.
Live == ~long /\ ~late

\* Until the switch's Hello is read nothing else can be.
Greeted ==
    /\ phase \in {"none", "hello"} =>
        /\ inbox # <<>> => inbox[1] \in Headers /\ inbox[1].kind = "HELLO"
        /\ inbox = <<>> /\ link = "open" => sentIn = 0
    /\ phase \in {"none", "hello", "discard"} => reader = "none" /\ Live
    /\ phase = "none" => link = "none" /\ inbox = <<>> /\ sentIn = 0
    /\ phase = "discard" => header.kind = "HELLO"
    /\ reader \in {"lock", "reply"} => Asks(header)

\* What the buffer holds between messages asks for nothing.
LEMMA AnyHeaderTyped == ASSUME AdapterAssumption PROVE AnyHeader \in Headers /\ ~Asks(AnyHeader)
  BY DEF AnyHeader, Header, Headers, Kinds, AdapterAssumption, Asks

\* A cell of a body that is taken for a header may be one.
LEMMA StrayTyped == ASSUME AdapterAssumption, NEW h \in StrayHeaders PROVE h \in Headers
  BY DEF StrayHeaders, Headers, Kinds, AdapterAssumption

\* Before the connection the stream is empty.
LEMMA InitArriving == ASSUME AdapterAssumption, Init PROVE Arriving
<1>1. <<>> \in Seq(Cells) /\ <<>> \in Seq(Nat)
  OBVIOUS
<1>2. 0 \in 0 .. MaxInbound
  BY DEF AdapterAssumption
<1> QED
  BY <1>1, <1>2, AnyHeaderTyped DEF Init, Arriving

\* What the switch sends, taken apart.
LEMMA SentTyped ==
    ASSUME AdapterAssumption, Arriving, SwitchSends
    PROVE  /\ sentIn < MaxInbound /\ sentIn' = sentIn + 1
           /\ \E h \in Headers :
                /\ h.xid = sentIn + 1 /\ (h.kind = "HELLO") = (sentIn = 0)
                /\ inbox' \in Seq(Cells) /\ Len(inbox') = Len(inbox) + h.len
                /\ \A i \in 1 .. Len(inbox) : inbox'[i] = inbox[i]
                /\ inbox'[Len(inbox) + 1] = h
                /\ \A i \in Len(inbox) + 2 .. Len(inbox') : inbox'[i] = Body
                /\ asked' \in Seq(Nat)
                /\ Len(asked') = IF Asks(h) THEN Len(asked) + 1 ELSE Len(asked)
                /\ \A k \in 1 .. Len(asked) : asked'[k] = asked[k]
                /\ Asks(h) => asked'[Len(asked) + 1] = h.xid
<1>1. PICK kind \in Kinds, len \in Lengths :
        /\ (kind = "HELLO") = (sentIn = 0)
        /\ inbox' = inbox \o <<Header(kind, len, sentIn')>> \o [i \in 1 .. len - 1 |-> Body]
        /\ asked' = IF kind = "ECHO_REQUEST" THEN Append(asked, sentIn') ELSE asked
  BY DEF SwitchSends
<1>2. /\ sentIn' = sentIn + 1 /\ sentIn < MaxInbound /\ sentIn \in 0 .. MaxInbound
      /\ MaxInbound \in Nat /\ len \in Nat \ {0} /\ asked \in Seq(Nat) /\ inbox \in Seq(Cells)
  BY DEF SwitchSends, Arriving, AdapterAssumption
<1> DEFINE h == Header(kind, len, sentIn')
<1>3. h \in Headers /\ h.len = len /\ h.xid = sentIn + 1 /\ h.kind = kind
  BY <1>2 DEF Header, Headers
<1>5. inbox' = inbox \o <<h>> \o [i \in 1 .. h.len - 1 |-> Body]
  BY <1>1, <1>3
<1>6. Asks(h) <=> kind = "ECHO_REQUEST"
  BY <1>3 DEF Asks
<1> HIDE DEF h
<1>7. /\ inbox' \in Seq(Cells) /\ Len(inbox') = Len(inbox) + h.len
      /\ \A i \in 1 .. Len(inbox) : inbox'[i] = inbox[i]
      /\ inbox'[Len(inbox) + 1] = h
      /\ \A i \in Len(inbox) + 2 .. Len(inbox') : inbox'[i] = Body
  <2>1. LET r == inbox \o <<h>> \o [i \in 1 .. h.len - 1 |-> Body]
        IN /\ r \in Seq(Cells) /\ Len(r) = Len(inbox) + h.len
           /\ \A i \in 1 .. Len(inbox) : r[i] = inbox[i]
           /\ r[Len(inbox) + 1] = h
           /\ \A i \in Len(inbox) + 2 .. Len(inbox) + h.len : r[i] = Body
    BY <1>2, <1>3, SentCells
  <2> QED
    BY <1>5, <2>1
<1>8. /\ Append(asked, h.xid) \in Seq(Nat) /\ Len(Append(asked, h.xid)) = Len(asked) + 1
      /\ \A k \in 1 .. Len(asked) : Append(asked, h.xid)[k] = asked[k]
      /\ Append(asked, h.xid)[Len(asked) + 1] = h.xid
  BY <1>2, <1>3, AppendProperties
<1>9. /\ asked' \in Seq(Nat)
      /\ Len(asked') = IF Asks(h) THEN Len(asked) + 1 ELSE Len(asked)
      /\ \A k \in 1 .. Len(asked) : asked'[k] = asked[k]
      /\ Asks(h) => asked'[Len(asked) + 1] = h.xid
  BY <1>1, <1>2, <1>3, <1>6, <1>8
<1> QED
  BY <1>1, <1>2, <1>3, <1>7, <1>9

\* Every step leaves the stream one of cells.
LEMMA ArrivingStep == ASSUME AdapterAssumption, Arriving, Greeted, [Next]_vars PROVE Arriving'
<1>0. Len(inbox) \in Nat /\ header.len \in Nat \ {0} /\ Body \in Cells /\ HelloMax \in Nat /\ BodyMax \in Nat
  BY HeaderFields, LenProperties DEF Arriving, Cells, AdapterAssumption
<1>1. CASE SwitchSends
  <2>1. UNCHANGED <<phase, link, long, late, header>>
    BY <1>1 DEF SwitchSends, readerVars
  <2>2. sentIn' = sentIn + 1 /\ sentIn < MaxInbound /\ inbox' \in Seq(Cells) /\ asked' \in Seq(Nat)
    BY <1>1, SentTyped
  <2>3. sentIn' \in 0 .. MaxInbound
    BY <2>2 DEF Arriving, AdapterAssumption
  <2> QED
    BY <2>1, <2>2, <2>3 DEF Arriving
<1>2. CASE SwitchLeaves
  <2>1. PICK k \in 0 .. Len(inbox) : inbox' = SubSeq(inbox, 1, k)
    BY <1>2 DEF SwitchLeaves
  <2>2. inbox' \in Seq(Cells)
    BY <2>1, KeepPart DEF Arriving
  <2> QED
    BY <1>2, <2>2 DEF SwitchLeaves, Arriving, readerVars
<1>3. CASE Listen
  BY <1>3 DEF Listen, Arriving, readerVars
<1>4. CASE TakeHello
  <2>1. CASE inbox # <<>> /\ header' = Head(inbox) /\ inbox' = Tail(inbox) /\ phase' = "discard" /\ UNCHANGED link
    <3>1. inbox' \in Seq(Cells)
      BY <2>1, TailRest DEF Arriving
    <3>2. header' \in Headers
      <4>1. Head(inbox) = inbox[1]
        BY <2>1, TailRest DEF Arriving
      <4>2. inbox[1] \in Headers
        BY <1>4, <2>1 DEF TakeHello, Greeted
      <4> QED
        BY <2>1, <4>1, <4>2
    <3> QED
      BY <1>4, <2>1, <3>1, <3>2 DEF TakeHello, Arriving
  <2>2. CASE phase' = "failed" /\ link' = "broken" /\ UNCHANGED <<inbox, header>>
    BY <1>4, <2>2 DEF TakeHello, Arriving
  <2> QED
    BY <1>4, <2>1, <2>2 DEF TakeHello
<1>5. CASE DiscardHello
  <2>1. PICK got \in Nat : inbox' = SubSeq(inbox, got + 1, Len(inbox))
    BY <1>0, <1>5 DEF DiscardHello
  <2>2. inbox' \in Seq(Cells)
    BY <2>1, CutTyped DEF Arriving
  <2>3. phase' = "ready" /\ long' \in BOOLEAN /\ late' \in BOOLEAN /\ header' = AnyHeader /\ UNCHANGED <<link, sentIn, asked>>
    BY <1>5 DEF DiscardHello
  <2> QED
    BY <2>2, <2>3, AnyHeaderTyped DEF Arriving
<1>6. CASE ReadHeader
  <2>1. CASE inbox = <<>>
    BY <1>6, <2>1 DEF ReadHeader, Arriving
  <2>2. CASE inbox # <<>>
    <3>1. /\ header' \in IF Head(inbox) = Body THEN StrayHeaders ELSE {Head(inbox)}
          /\ inbox' = Tail(inbox) /\ UNCHANGED <<phase, link, sentIn, asked, long, late>>
      BY <1>6, <2>2 DEF ReadHeader
    <3>2. inbox' \in Seq(Cells) /\ Head(inbox) \in Cells
      BY <2>2, <3>1, TailRest DEF Arriving
    <3>3. header' \in Headers
      BY <3>1, <3>2, StrayTyped DEF Cells
    <3> QED
      BY <3>1, <3>2, <3>3 DEF Arriving
  <2> QED
    BY <2>1, <2>2
<1>7. CASE ReadBody
  <2>1. Drained(header.len) \in Nat
    BY <1>0 DEF Drained
  <2>2. inbox' \in Seq(Cells)
    BY <1>7, <2>1, CutTyped DEF ReadBody, Arriving
  <2>3. header' \in {header, AnyHeader} /\ long' \in BOOLEAN /\ UNCHANGED <<phase, link, sentIn, asked, late>>
    BY <1>7 DEF ReadBody
  <2> QED
    BY <2>2, <2>3, AnyHeaderTyped DEF Arriving
<1>8. CASE SendReply
  BY <1>8, AnyHeaderTyped DEF SendReply, inbound, Sent, NotSent, Arriving
<1>9. CASE ReaderLocks \/ CountReply
  BY <1>9 DEF ReaderLocks, CountReply, connection, inbound, Arriving
<1>10. CASE \E t \in Threads : BeginFlow(t) \/ FlowStep(t)
  BY <1>10 DEF BeginFlow, FlowStep, Build, Send, CountFlow, Sent, NotSent, connection, inbound, readerVars, Arriving
<1>11. CASE Shutdown \/ Join
  BY <1>11 DEF Shutdown, Join, connection, inbound, readerVars, Arriving
<1>12. CASE UNCHANGED vars
  BY <1>12 DEF vars, Arriving
<1> QED
  BY <1>1, <1>2, <1>3, <1>4, <1>5, <1>6, <1>7, <1>8, <1>9, <1>10, <1>11, <1>12 DEF Next, ReaderStep

\* While it is, what is left of its message comes first, and requests come in turn.
InStep ==
    Live =>
        /\ Framed(inbox, Gap)
        /\ link = "open" => Whole(inbox, Gap)
        /\ link # "broken" => InTurn(inbox, asked, Taken, link = "open")
        /\ link # "broken" /\ Reading /\ Asks(header) => asked[Taken] = header.xid

\* The invariant of the stream.
Stream ==
    /\ Arriving
    /\ echoReplies \in Nat
    /\ reader \in {"none", "header", "body", "lock", "reply", "count", "done"}
    /\ Greeted
    /\ Numbered(inbox, asked, sentIn)
    /\ InStep

\* Before the connection the reader is in step.
LEMMA InitStream == ASSUME AdapterAssumption, Init PROVE Stream
<1>1. inbox = <<>> /\ asked = <<>> /\ DOMAIN inbox = {} /\ DOMAIN asked = {} /\ Len(asked) = 0 /\ Len(inbox) = 0
  BY EmptySeq DEF Init
<1>2. Gap = 0 /\ Taken = 0 /\ link # "open"
  BY DEF Init, Gap, Taken, Answered, Reading
<1>3. Framed(inbox, Gap) /\ InTurn(inbox, asked, Taken, link = "open") /\ Numbered(inbox, asked, sentIn)
  BY <1>1, <1>2 DEF Framed, InTurn, Numbered, HeadsOf
<1> QED
  BY <1>1, <1>2, <1>3, InitArriving DEF Stream, InStep, Greeted, Init, Live, Reading

\* How far the reader is.
LEMMA TakenTyped == ASSUME AdapterAssumption, Stream PROVE Taken \in Nat /\ Gap \in Nat /\ Answered \in Nat
<1>1. header.len \in Nat \ {0}
  BY HeaderFields DEF Stream, Arriving, Cells
<1> QED
  BY <1>1 DEF Stream, Taken, Gap, Answered

\* Nothing moves on the connection.
LEMMA StillStream ==
    ASSUME AdapterAssumption, Stream, Arriving', Greeted',
           UNCHANGED <<inbox, sentIn, asked, long, late>>,
           Gap' = Gap, echoReplies' \in Nat,
           reader' \in {"none", "header", "body", "lock", "reply", "count", "done"},
           \/ link' = "broken"
           \/ /\ link' = link /\ Taken' = Taken
              /\ Reading' /\ Asks(header') => Reading /\ Asks(header) /\ header'.xid = header.xid
    PROVE  Stream'
<1>1. Numbered(inbox, asked, sentIn)'
  BY DEF Stream, Numbered, HeadsOf
<1>2. Live' => Live /\ Framed(inbox', Gap')
  BY DEF Stream, InStep, Live
<1>3. Live' /\ link' = "open" => Whole(inbox', Gap')
  BY DEF Stream, InStep, Live
<1> QED
  BY <1>1, <1>2, <1>3 DEF Stream, InStep, Live

-----------------------------------------------------------------------------
\* What the switch sends comes after all the rest.
LEMMA SwitchSendsStream == ASSUME AdapterAssumption, Stream, SwitchSends, Arriving' PROVE Stream'
<1>1. /\ UNCHANGED <<phase, link, long, late, reader, header, echoReplies>> /\ link = "open"
      /\ sentIn' = sentIn + 1
  BY DEF SwitchSends, readerVars, stats
<1>2. Arriving
  BY DEF Stream
<1>3. PICK h \in Headers :
        /\ h.xid = sentIn + 1 /\ (h.kind = "HELLO") = (sentIn = 0)
        /\ inbox' \in Seq(Cells) /\ Len(inbox') = Len(inbox) + h.len
        /\ \A i \in 1 .. Len(inbox) : inbox'[i] = inbox[i]
        /\ inbox'[Len(inbox) + 1] = h
        /\ \A i \in Len(inbox) + 2 .. Len(inbox') : inbox'[i] = Body
        /\ asked' \in Seq(Nat)
        /\ Len(asked') = IF Asks(h) THEN Len(asked) + 1 ELSE Len(asked)
        /\ \A k \in 1 .. Len(asked) : asked'[k] = asked[k]
        /\ Asks(h) => asked'[Len(asked) + 1] = h.xid
  BY <1>2, SentTyped
<1>4. inbox \in Seq(Cells) /\ asked \in Seq(Nat) /\ sentIn \in Nat /\ Numbered(inbox, asked, sentIn)
  BY <1>2 DEF Arriving, Stream
<1>5. /\ inbox' # <<>> /\ inbox'[1] = IF inbox = <<>> THEN h ELSE inbox[1]
      /\ Numbered(inbox', asked', sentIn + 1)
      /\ \A g \in Nat : Framed(inbox, g) /\ Whole(inbox, g) => Framed(inbox', g) /\ Whole(inbox', g)
      /\ \A n \in Nat : InTurn(inbox, asked, n, TRUE) => InTurn(inbox', asked', n, TRUE)
  BY ZenonT(60), <1>3, <1>4, SendMore
<1>6. Taken \in Nat /\ Gap \in Nat /\ Taken' = Taken /\ Gap' = Gap /\ (Reading' = Reading) /\ (Live' = Live)
  BY <1>1, TakenTyped DEF Taken, Gap, Answered, Reading, Live
<1>7. Greeted'
  BY <1>1, <1>3, <1>5, <1>6 DEF Stream, Greeted
<1>8. ASSUME Live
      PROVE  /\ Framed(inbox', Gap') /\ Whole(inbox', Gap')
             /\ InTurn(inbox', asked', Taken', TRUE)
             /\ Reading /\ Asks(header) => asked'[Taken'] = header.xid
  <2>1. /\ Framed(inbox, Gap) /\ Whole(inbox, Gap) /\ InTurn(inbox, asked, Taken, TRUE)
        /\ Reading /\ Asks(header) => asked[Taken] = header.xid
    BY <1>1, <1>8 DEF Stream, InStep
  <2>2. Reading /\ Asks(header) => Taken \in 1 .. Len(asked)
    <3>1. Len(asked) \in Nat /\ Taken <= Len(asked)
      BY <1>4, <2>1, LenProperties DEF InTurn
    <3>2. Reading /\ Asks(header) => Taken = Answered + 1
      BY DEF Taken
    <3>3. Answered \in Nat
      BY TakenTyped
    <3> QED
      BY <1>6, <3>1, <3>2, <3>3
  <2> QED
    BY <1>3, <1>5, <1>6, <2>1, <2>2
<1> QED
  BY <1>1, <1>5, <1>6, <1>7, <1>8 DEF Stream, InStep

\* What is lost when it leaves is at the end.
LEMMA SwitchLeavesStream == ASSUME AdapterAssumption, Stream, SwitchLeaves, Arriving' PROVE Stream'
<1>1. /\ UNCHANGED <<phase, sentIn, asked, long, late, reader, header, echoReplies>>
      /\ link = "open" /\ link' = "closing"
  BY DEF SwitchLeaves, readerVars, stats
<1>2. PICK k \in 0 .. Len(inbox) : inbox' = SubSeq(inbox, 1, k)
  BY DEF SwitchLeaves
<1>3. inbox \in Seq(Cells) /\ asked \in Seq(Nat) /\ sentIn \in Nat /\ Numbered(inbox, asked, sentIn)
  BY DEF Arriving, Stream
<1>4. LET r == SubSeq(inbox, 1, k)
      IN /\ r \in Seq(Cells) /\ Len(r) = k /\ \A i \in 1 .. k : r[i] = inbox[i]
         /\ \A g \in Nat : Framed(inbox, g) => Framed(r, g)
         /\ \A a \in Seq(Nat), x \in Nat : Numbered(inbox, a, x) => Numbered(r, a, x)
         /\ \A a \in Seq(Nat), n \in Nat, x \in Nat, all \in BOOLEAN :
                InTurn(inbox, a, n, all) /\ Numbered(inbox, a, x) => InTurn(r, a, n, FALSE)
  BY <1>3, KeepPart
<1>5. Taken \in Nat /\ Gap \in Nat /\ Taken' = Taken /\ Gap' = Gap /\ (Reading' = Reading) /\ (Live' = Live)
  BY <1>1, TakenTyped DEF Taken, Gap, Answered, Reading, Live
<1>6. Numbered(inbox', asked', sentIn')
  BY <1>1, <1>2, <1>3, <1>4
<1>7. Greeted'
  <2>1. inbox' # <<>> => inbox # <<>> /\ inbox'[1] = inbox[1]
    <3>1. Len(inbox) \in Nat /\ (inbox' # <<>> => k > 0)
      BY <1>2, <1>3, <1>4, EmptySeq, LenProperties
    <3> QED
      BY <1>2, <1>4, <3>1, EmptySeq
  <2> QED
    BY <1>1, <1>5, <2>1 DEF Stream, Greeted
<1>8. ASSUME Live
      PROVE  /\ Framed(inbox', Gap')
             /\ InTurn(inbox', asked', Taken', FALSE)
             /\ Reading /\ Asks(header) => asked'[Taken'] = header.xid
  <2>1. /\ Framed(inbox, Gap) /\ InTurn(inbox, asked, Taken, TRUE)
        /\ Reading /\ Asks(header) => asked[Taken] = header.xid
    BY <1>1, <1>8 DEF Stream, InStep
  <2> QED
    BY <1>1, <1>2, <1>3, <1>4, <1>5, <2>1
<1> QED
  BY <1>1, <1>5, <1>6, <1>7, <1>8 DEF Stream, InStep

\* Before the connection nothing has come.
LEMMA ListenStream == ASSUME AdapterAssumption, Stream, Listen, Arriving' PROVE Stream'
<1>1. /\ UNCHANGED <<inbox, sentIn, asked, long, late, reader, header, echoReplies>>
      /\ phase = "none"
      /\ (phase' = "failed" /\ link' = link) \/ (phase' = "hello" /\ link' = "open")
  BY DEF Listen, readerVars, stats
<1>2. inbox = <<>> /\ sentIn = 0 /\ Live /\ reader = "none" /\ link = "none" /\ Numbered(inbox, asked, sentIn)
  BY <1>1 DEF Stream, Greeted
<1>3. DOMAIN inbox = {} /\ Len(inbox) = 0 /\ Len(asked) \in Nat /\ DOMAIN asked = 1 .. Len(asked)
  BY <1>2, EmptySeq, LenProperties DEF Stream, Arriving
<1>4. Len(asked) = 0
  BY SMTT(20), <1>2, <1>3 DEF Numbered
<1>5. Gap = 0 /\ Gap' = 0 /\ ~Reading /\ ~Reading' /\ Taken' = Taken /\ (Live' = Live) /\ Taken \in Nat
  BY <1>1, <1>2, TakenTyped DEF Gap, Reading, Taken, Answered, Live
<1>6. Framed(inbox', 0) /\ Whole(inbox', 0) /\ Numbered(inbox', asked', sentIn')
  BY <1>1, <1>2, <1>3, <1>4 DEF Framed, Whole, Numbered, HeadsOf
<1>7. InTurn(inbox, asked, Taken, FALSE)
  BY <1>2, <1>5 DEF Stream, InStep
<1>8. Taken + 1 .. Len(asked) = {}
  BY <1>4, <1>5
<1>9. \A all \in BOOLEAN : InTurn(inbox', asked', Taken', all)
  BY <1>1, <1>5, <1>7, <1>8 DEF InTurn
<1>10. Greeted'
  BY <1>1, <1>2, <1>5 DEF Greeted
<1> QED
  BY <1>1, <1>2, <1>5, <1>6, <1>9, <1>10 DEF Stream, InStep

\* The handshake takes the header of the switch's Hello.
LEMMA TakeHelloStream == ASSUME AdapterAssumption, Stream, TakeHello, Arriving' PROVE Stream'
<1>1. UNCHANGED <<sentIn, asked, long, late, reader, echoReplies>> /\ phase = "hello"
  BY DEF TakeHello, stats
<1>2. /\ inbox \in Seq(Cells) /\ asked \in Seq(Nat) /\ sentIn \in Nat /\ Numbered(inbox, asked, sentIn)
      /\ reader = "none" /\ Live /\ Taken \in Nat
  <2>1. Taken \in Nat
    BY TakenTyped
  <2>2. inbox \in Seq(Cells) /\ asked \in Seq(Nat) /\ sentIn \in Nat /\ Numbered(inbox, asked, sentIn)
    BY DEF Arriving, Stream
  <2>3. reader = "none" /\ Live
    BY <1>1 DEF Stream, Greeted
  <2> QED
    BY <2>1, <2>2, <2>3
<1>3. Gap = 0 /\ ~Reading /\ ~Reading' /\ Taken' = Taken /\ (Live' = Live) /\ reader' = "none"
  BY <1>1, <1>2 DEF Gap, Reading, Taken, Answered, Live
<1>4. CASE /\ inbox # <<>> /\ header' = Head(inbox) /\ inbox' = Tail(inbox)
           /\ phase' = "discard" /\ UNCHANGED link
  <2>1. Rest(inbox, 1, inbox') /\ Head(inbox) = inbox[1] /\ Len(inbox) \in Nat
    BY <1>2, <1>4, TailRest
  <2>2. inbox[1].kind = "HELLO" /\ header' = inbox[1]
    BY <1>1, <1>4, <2>1 DEF Stream, Greeted
  <2>3. Framed(inbox, 0) /\ (link = "open" => Whole(inbox, 0)) /\ ~Asks(inbox[1])
    BY <1>2, <1>3, <2>2 DEF Stream, InStep, Asks
  <2>4. /\ Framed(inbox', inbox[1].len - 1) /\ (Whole(inbox, 0) => Whole(inbox', inbox[1].len - 1))
        /\ \A a \in Seq(Nat), n \in Nat, all \in BOOLEAN :
                InTurn(inbox, a, n, all) /\ ~Asks(inbox[1]) => InTurn(inbox', a, n, all)
    BY <1>2, <2>1, <2>3, TakeHeader
  <2>5. Gap' = inbox[1].len - 1
    BY <1>4, <2>2 DEF Gap
  <2>6. Numbered(inbox', asked', sentIn')
    BY <1>1, <1>2, <2>1, RestNumbered
  <2>7. link # "broken" => InTurn(inbox', asked', Taken', link' = "open")
    BY <1>1, <1>2, <1>3, <1>4, <2>3, <2>4 DEF Stream, InStep
  <2>8. Greeted'
    BY <1>1, <1>2, <1>3, <1>4, <2>2 DEF Greeted
  <2> QED
    BY <1>1, <1>2, <1>3, <1>4, <2>3, <2>4, <2>5, <2>6, <2>7, <2>8 DEF Stream, InStep
<1>5. CASE phase' = "failed" /\ link' = "broken" /\ UNCHANGED <<inbox, header>>
  <2>1. Gap' = 0
    BY <1>2, <1>3, <1>5 DEF Gap
  <2>2. Greeted'
    BY <1>1, <1>2, <1>3, <1>5 DEF Stream, Greeted
  <2>3. Numbered(inbox', asked', sentIn') /\ (Live => Framed(inbox', Gap'))
    BY <1>1, <1>2, <1>3, <1>5, <2>1 DEF Stream, InStep
  <2> QED
    BY <1>1, <1>2, <1>3, <1>5, <2>1, <2>2, <2>3 DEF Stream, InStep
<1> QED
  BY <1>4, <1>5 DEF TakeHello

\* A body cut off the stream leaves the reader in step.
LEMMA BodySkipped ==
    ASSUME AdapterAssumption, NEW q \in Seq(Cells), NEW r, NEW n \in Nat,
           Framed(q, n), Rest(q, n, r)
    PROVE  Framed(r, 0) /\ (Whole(q, n) => Whole(r, 0))
  BY SkipBody

\* Nor does it change whose turn it is.
LEMMA TurnsKept ==
    ASSUME AdapterAssumption, NEW q \in Seq(Cells), NEW r, NEW n \in Nat,
           NEW a \in Seq(Nat), NEW m \in Nat, NEW all \in BOOLEAN,
           Framed(q, n), Rest(q, n, r), InTurn(q, a, m, all)
    PROVE  InTurn(r, a, m, all)
<1>1. \A b \in Seq(Nat), k \in Nat, every \in BOOLEAN :
            InTurn(q, b, k, every) => InTurn(r, b, k, every)
  BY SkipBody
<1> QED
  BY <1>1

\* A step that takes n cells, the rest of a message if it is in step.
Skipping(n) ==
    /\ Arriving' /\ Greeted'
    /\ inbox' = SubSeq(inbox, n + 1, Len(inbox))
    /\ UNCHANGED <<link, sentIn, asked>>
    /\ echoReplies' \in Nat
    /\ reader' \in {"none", "header", "body", "lock", "reply", "count", "done"}
    /\ Live' => Live /\ Gap = n /\ Gap' = 0 /\ Taken' = Taken
    /\ link = "open" => n <= Len(inbox)
    /\ Reading' /\ Asks(header') => Reading /\ Asks(header) /\ header' = header

\* Such a step keeps the reader in step.
LEMMA SkipStream == ASSUME AdapterAssumption, Stream, NEW n \in Nat, Skipping(n) PROVE Stream'
<1>0. inbox \in Seq(Cells) /\ asked \in Seq(Nat) /\ sentIn \in Nat /\ Numbered(inbox, asked, sentIn)
  BY DEF Arriving, Stream
<1>1. /\ inbox \in Seq(Cells) /\ asked \in Seq(Nat) /\ sentIn \in Nat /\ Numbered(inbox, asked, sentIn)
      /\ Taken \in Nat /\ Len(inbox) \in Nat
  BY <1>0, TakenTyped, LenProperties
<1>2. /\ IF n <= Len(inbox) THEN Rest(inbox, n, inbox') ELSE inbox' = <<>>
      /\ link' = link /\ sentIn' = sentIn /\ asked' = asked
      /\ Live' => Live /\ Gap = n /\ Gap' = 0 /\ Taken' = Taken
      /\ link = "open" => n <= Len(inbox)
      /\ Reading' /\ Asks(header') => Reading /\ Asks(header) /\ header' = header
  <2>1. inbox' = SubSeq(inbox, n + 1, Len(inbox))
    BY DEF Skipping
  <2>2. ASSUME n <= Len(inbox) PROVE Rest(inbox, n, inbox')
    <3>1. n \in 0 .. Len(inbox)
      BY <1>1, <2>2
    <3> QED
      BY <1>1, <2>1, <3>1, CutRest
  <2>3. ASSUME ~(n <= Len(inbox)) PROVE inbox' = <<>>
    BY <1>1, <2>1, <2>3, CutAll
  <2> QED
    BY <2>2, <2>3 DEF Skipping
<1>3. Numbered(inbox', asked, sentIn)
  <2>1. CASE n <= Len(inbox)
    <3>1. Rest(inbox, n, inbox')
      BY <1>2, <2>1
    <3> HIDE <2>1
    <3> QED
      BY <1>1, <3>1, RestNumbered
  <2>2. CASE n > Len(inbox)
    <3>1. DOMAIN inbox' = {} /\ DOMAIN asked = 1 .. Len(asked)
      BY <1>1, <1>2, <2>2, EmptySeq, LenProperties
    <3> QED
      BY <1>1, <3>1 DEF Numbered, HeadsOf
  <2> QED
    BY <1>1, <2>1, <2>2
<1>4. ASSUME Live'
      PROVE  /\ Framed(inbox, n) /\ (link = "open" => Whole(inbox, n))
             /\ link # "broken" => InTurn(inbox, asked, Taken, link = "open")
             /\ link # "broken" /\ Reading /\ Asks(header) => asked[Taken] = header.xid
  BY <1>2, <1>4 DEF Stream, InStep
<1>5. ASSUME Live'
      PROVE  /\ Framed(inbox', 0) /\ (link = "open" => Whole(inbox', 0))
             /\ link # "broken" => InTurn(inbox', asked, Taken, link = "open")
  <2>1. CASE n <= Len(inbox)
    <3>1. Rest(inbox, n, inbox')
      BY <1>2, <2>1
    <3>2. Framed(inbox', 0) /\ (link = "open" => Whole(inbox', 0))
      BY <1>1, <1>4, <1>5, <3>1, BodySkipped
    <3>3. CASE link = "open"
      BY <1>1, <1>4, <1>5, <3>1, <3>2, <3>3, TurnsKept
    <3>4. CASE link # "open"
      BY <1>1, <1>4, <1>5, <3>1, <3>2, <3>4, TurnsKept
    <3> QED
      BY <3>2, <3>3, <3>4
  <2>2. CASE n > Len(inbox)
    <3>1. inbox' = <<>> /\ DOMAIN inbox' = {} /\ link # "open"
      BY <1>1, <1>2, <2>2, EmptySeq
    <3>2. link # "broken" => InTurn(inbox, asked, Taken, FALSE)
      BY <1>4, <1>5, <3>1
    <3>3. link # "broken" => InTurn(inbox', asked, Taken, FALSE)
      BY <3>1, <3>2 DEF InTurn, HeadsOf
    <3> QED
      BY <3>1, <3>3 DEF Framed
  <2> QED
    BY <1>1, <2>1, <2>2
<1>6. InStep'
  BY <1>2, <1>4, <1>5 DEF InStep
<1>7. Numbered(inbox, asked, sentIn)'
  BY <1>2, <1>3
<1> QED
  BY <1>6, <1>7 DEF Stream, Skipping

\* The rest of the Hello, as far as it fits the buffer and has come in time.
LEMMA DiscardHelloStream == ASSUME AdapterAssumption, Stream, DiscardHello, Arriving' PROVE Stream'
<1>1. /\ phase = "discard" /\ phase' = "ready" /\ reader' \in {"header", "none"}
      /\ UNCHANGED <<link, sentIn, asked, echoReplies>> /\ header' = AnyHeader
  BY DEF DiscardHello, stats
<1>2. reader = "none" /\ Live /\ header.len \in Nat \ {0} /\ HelloMax \in Nat /\ echoReplies \in Nat
  <2>1. header.len \in Nat \ {0}
    BY HeaderFields DEF Stream, Arriving, Cells
  <2> QED
    BY <1>1, <2>1 DEF Stream, Greeted, AdapterAssumption
<1>3. PICK got \in Nat :
        /\ got <= Len(inbox)
        /\ inbox' = SubSeq(inbox, got + 1, Len(inbox))
        /\ Live' => got = header.len - 1
  <2> DEFINE body == header.len - 1
             wanted == IF body > HelloMax THEN HelloMax ELSE body
  <2>1. PICK got \in 0 .. wanted :
          /\ got <= Len(inbox)
          /\ inbox' = SubSeq(inbox, got + 1, Len(inbox))
          /\ long' = (body > HelloMax)
          /\ late' = (got < wanted)
    BY DEF DiscardHello
  <2>2. ~long' /\ ~late' => ~(body > HelloMax) /\ ~(got < wanted)
    BY <2>1
  <2>3. body \in Nat /\ wanted \in Nat /\ (~(body > HelloMax) => wanted = body)
    BY <1>2
  <2> HIDE DEF body, wanted
  <2>4. got \in Nat /\ (Live' => got = body)
    BY <2>1, <2>2, <2>3 DEF Live
  <2> QED
    BY <2>1, <2>4 DEF body
<1>4. Gap = header.len - 1 /\ Gap' = 0 /\ ~Reading /\ ~Reading' /\ Taken' = Taken
  BY <1>1, <1>2 DEF Gap, Reading, Taken, Answered
<1>5. Greeted'
  BY <1>1 DEF Greeted
<1>6. Skipping(got)
  BY <1>1, <1>2, <1>3, <1>4, <1>5 DEF Skipping
<1> QED
  BY <1>6, SkipStream

-----------------------------------------------------------------------------
(* The reader's steps.                                                     *)

\* Whose turn it is once a header is taken.
LEMMA HeaderTakenOver ==
    ASSUME AdapterAssumption, NEW q \in Seq(Cells), NEW r, NEW a \in Seq(Nat),
           NEW n \in Nat, NEW x \in Nat, NEW all \in BOOLEAN,
           Framed(q, 0), Rest(q, 1, r), InTurn(q, a, n, all), Numbered(q, a, x)
    PROVE  /\ ~Asks(q[1]) => InTurn(r, a, n, all)
           /\ Asks(q[1]) => InTurn(r, a, n + 1, all) /\ a[n + 1] = q[1].xid
<1>1. /\ \A b \in Seq(Nat), k \in Nat, every \in BOOLEAN :
                InTurn(q, b, k, every) /\ ~Asks(q[1]) => InTurn(r, b, k, every)
      /\ \A b \in Seq(Nat), k \in Nat, y \in Nat, every \in BOOLEAN :
                InTurn(q, b, k, every) /\ Asks(q[1]) /\ Numbered(q, b, y) =>
                    InTurn(r, b, k + 1, every) /\ b[k + 1] = q[1].xid
  BY TakeHeader
<1> QED
  BY <1>1

\* When it is in step, the cell it takes is a header.
LEMMA ReadHeaderStream == ASSUME AdapterAssumption, Stream, ReadHeader, Arriving' PROVE Stream'
<1>1. UNCHANGED <<phase, link, sentIn, asked, long, late, echoReplies>> /\ reader = "header"
  BY DEF ReadHeader, stats
<1>2. phase \notin {"none", "hello", "discard"} /\ Gap = 0 /\ ~Reading /\ (Live' = Live) /\ echoReplies \in Nat
  BY <1>1 DEF Stream, Greeted, Gap, Reading, Live
<1>3. /\ inbox \in Seq(Cells) /\ asked \in Seq(Nat) /\ sentIn \in Nat /\ Numbered(inbox, asked, sentIn)
  BY DEF Arriving, Stream
<1>4. CASE inbox = <<>>
  <2>1. reader' = "done" /\ UNCHANGED <<inbox, header>>
    BY <1>4 DEF ReadHeader
  <2>2. Gap' = Gap /\ Taken' = Taken /\ ~Reading'
    BY <1>1, <1>2, <2>1 DEF Gap, Taken, Answered, Reading
  <2>3. Greeted'
    BY <1>1, <1>2, <2>1 DEF Greeted
  <2> QED
    BY <1>1, <1>2, <2>1, <2>2, <2>3, StillStream
<1>5. CASE inbox # <<>>
  <2>1. /\ header' \in IF Head(inbox) = Body THEN StrayHeaders ELSE {Head(inbox)}
        /\ inbox' = Tail(inbox) /\ reader' = "body"
    BY <1>5 DEF ReadHeader
  <2>2. Rest(inbox, 1, inbox') /\ Head(inbox) = inbox[1] /\ inbox[1] \in Cells
    BY <1>3, <1>5, <2>1, TailRest
  <2>3. Numbered(inbox', asked', sentIn')
    BY <1>1, <1>3, <2>2, RestNumbered
  <2>4. Gap' = header'.len - 1 /\ Reading' /\ Taken = echoReplies
    BY <1>1, <1>2, <2>1 DEF Gap, Reading, Taken, Answered
  <2>5. Taken' = IF Asks(header') THEN echoReplies + 1 ELSE echoReplies
    BY <1>1, <1>2, <2>1, <2>4 DEF Taken, Answered
  <2>6. Greeted'
    BY <1>1, <1>2, <2>1 DEF Greeted
  <2>7. ASSUME Live
        PROVE  /\ Framed(inbox', Gap') /\ (link = "open" => Whole(inbox', Gap'))
               /\ link # "broken" => /\ InTurn(inbox', asked, Taken', link = "open")
                                     /\ Asks(header') => asked[Taken'] = header'.xid
    <3>1. /\ Framed(inbox, 0) /\ (link = "open" => Whole(inbox, 0))
          /\ link # "broken" => InTurn(inbox, asked, Taken, link = "open")
      BY <1>2, <2>7 DEF Stream, InStep
    <3>2. header' = inbox[1]
      <4>1. 1 \in DOMAIN inbox
        BY <2>2 DEF Rest
      <4>2. inbox[1] # Body
        BY <3>1, <4>1 DEF Framed
      <4> QED
        BY <2>1, <2>2, <4>2
    <3>3. Framed(inbox', Gap') /\ (link = "open" => Whole(inbox', Gap'))
      BY <1>3, <2>2, <2>4, <3>1, <3>2, TakeHeader
    <3>4. ASSUME NEW all \in BOOLEAN, InTurn(inbox, asked, echoReplies, all)
          PROVE  /\ InTurn(inbox', asked, Taken', all)
                 /\ Asks(header') => asked[Taken'] = header'.xid
      <4>1. /\ ~Asks(inbox[1]) => InTurn(inbox', asked, echoReplies, all)
            /\ Asks(inbox[1]) => InTurn(inbox', asked, echoReplies + 1, all) /\ asked[echoReplies + 1] = inbox[1].xid
        BY ZenonT(60), <1>2, <1>3, <2>2, <3>1, <3>4, HeaderTakenOver
      <4> QED
        BY <2>5, <3>2, <4>1
    <3>5. CASE link = "open"
      BY <2>4, <3>1, <3>3, <3>4, <3>5
    <3>6. CASE link # "open"
      BY <2>4, <3>1, <3>3, <3>4, <3>6
    <3> QED
      BY <3>5, <3>6
  <2>8. InStep'
    BY <1>1, <1>2, <2>7 DEF InStep
  <2>9. Numbered(inbox, asked, sentIn)'
    BY <2>3
  <2> QED
    BY <1>1, <1>2, <2>1, <2>6, <2>8, <2>9 DEF Stream
<1> QED
  BY <1>4, <1>5

\* The stream ends within a message: the reader asks no more.
LEMMA StreamEnds ==
    ASSUME AdapterAssumption, Stream, Arriving', Greeted', inbox = <<>>, inbox' = <<>>, link # "open",
           UNCHANGED <<link, sentIn, asked, late, echoReplies>>, long' = long \/ ~Live',
           reader = "body", reader' = "done"
    PROVE  Stream'
<1>1. Taken' \in Nat /\ Taken' <= Taken /\ Taken \in Nat /\ ~Reading' /\ echoReplies \in Nat
  <2>1. Taken \in Nat /\ echoReplies \in Nat
    BY TakenTyped DEF Stream
  <2> QED
    BY <2>1 DEF Taken, Answered, Reading
<1>2. DOMAIN inbox = {} /\ DOMAIN inbox' = {} /\ Len(asked) \in Nat
  BY EmptySeq, LenProperties DEF Stream, Arriving
<1>3. Numbered(inbox, asked, sentIn)'
  BY <1>2 DEF Stream, Numbered, HeadsOf
<1>4. Framed(inbox', Gap')
  BY <1>2 DEF Framed
<1>5. ASSUME Live', link # "broken" PROVE InTurn(inbox', asked, Taken', FALSE)
  <2>1. Taken <= Len(asked)
    BY <1>5 DEF Stream, InStep, InTurn, Live
  <2> QED
    BY <1>1, <1>2, <2>1 DEF InTurn, HeadsOf
<1>6. InStep'
  BY <1>1, <1>4, <1>5 DEF InStep
<1> QED
  BY <1>1, <1>3, <1>6 DEF Stream

\* The body is drained, all of it when it fits the buffer.
LEMMA ReadBodyStream == ASSUME AdapterAssumption, Stream, ReadBody, Arriving' PROVE Stream'
<1> DEFINE n == Drained(header.len)
<1>1. /\ UNCHANGED <<phase, link, sentIn, asked, late, echoReplies>> /\ reader = "body"
      /\ n <= Len(inbox) \/ link # "open"
      /\ inbox' = SubSeq(inbox, n + 1, Len(inbox))
      /\ long' = (long \/ header.len - 1 > BodyMax)
      /\ \/ n > 0 /\ inbox = <<>> /\ reader' = "done" /\ header' = AnyHeader
         \/ /\ n = 0 \/ inbox # <<>>
            /\ IF header.kind = "ECHO_REQUEST"
                 THEN reader' = "lock" /\ UNCHANGED header
                 ELSE reader' = "header" /\ header' = AnyHeader
  BY DEF ReadBody, Receivable, stats
<1>2. /\ header.len \in Nat \ {0} /\ BodyMax \in Nat /\ inbox \in Seq(Cells) /\ echoReplies \in Nat
      /\ long \in BOOLEAN /\ Len(inbox) \in Nat
  <2>1. header.len \in Nat \ {0}
    BY HeaderFields DEF Stream, Arriving, Cells
  <2>2. inbox \in Seq(Cells) /\ Len(inbox) \in Nat
    BY LenProperties DEF Stream, Arriving
  <2> QED
    BY <2>1, <2>2 DEF Stream, Arriving, AdapterAssumption
<1>3. n \in Nat /\ (Live' => Live /\ n = header.len - 1)
  <2>1. ~long' /\ ~late' => ~long /\ ~late /\ ~(header.len - 1 > BodyMax)
    BY <1>1
  <2>2. n \in Nat /\ (~(header.len - 1 > BodyMax) => n = header.len - 1)
    BY <1>2 DEF Drained
  <2> QED
    BY <2>1, <2>2 DEF Live
<1> HIDE DEF n
<1>4. phase \notin {"none", "hello", "discard"} /\ Gap = header.len - 1 /\ Gap' = 0 /\ Reading
  BY <1>1 DEF Stream, Greeted, Gap, Reading
<1>5. Greeted'
  BY <1>1, <1>4 DEF Greeted, Asks
<1>6. CASE n > 0 /\ inbox = <<>> /\ reader' = "done"
  <2>1. link # "open" /\ inbox' = <<>>
    <3>1. n > Len(inbox)
      BY <1>2, <1>3, <1>6, EmptySeq
    <3> QED
      BY <1>1, <1>2, <1>3, <3>1, CutAll
  <2>2. long' = long \/ ~Live'
    BY <1>1, <1>2 DEF Live
  <2> QED
    BY <1>1, <1>5, <1>6, <2>1, <2>2, StreamEnds
<1>7. CASE IF header.kind = "ECHO_REQUEST"
             THEN reader' = "lock" /\ UNCHANGED header
             ELSE reader' = "header" /\ header' = AnyHeader
  <2>1. Taken' = Taken /\ (Reading' /\ Asks(header') => Reading /\ Asks(header) /\ header' = header)
    BY <1>1, <1>4, <1>7, AnyHeaderTyped DEF Taken, Answered, Reading, Asks
  <2>2. reader' \in {"none", "header", "body", "lock", "reply", "count", "done"}
    BY <1>7
  <2>3. Skipping(n)
    BY <1>1, <1>2, <1>3, <1>4, <1>5, <2>1, <2>2 DEF Skipping
  <2> QED
    BY <1>3, <2>3, SkipStream
<1> QED
  BY <1>1, <1>6, <1>7

\* The lock, the reply and its count leave the stream alone.
LEMMA ReplyStream ==
    ASSUME AdapterAssumption, Stream, ReaderLocks \/ SendReply \/ CountReply, Arriving'
    PROVE  Stream'
<1>0. /\ UNCHANGED <<inbox, sentIn, asked, long, late, phase>> /\ reader \in {"lock", "reply", "count"}
      /\ echoReplies \in Nat
  BY DEF ReaderLocks, SendReply, CountReply, connection, inbound, Stream
<1>1. phase \notin {"none", "hello", "discard"} /\ Gap = 0 /\ (reader \in {"lock", "reply"} => Asks(header))
  BY <1>0 DEF Stream, Greeted, Gap
<1>2. CASE ReaderLocks
  <2>1. reader = "lock" /\ reader' = "reply" /\ UNCHANGED <<header, link, echoReplies>>
    BY <1>2 DEF ReaderLocks, connection, stats
  <2>2. Greeted' /\ Gap' = 0 /\ Taken' = Taken /\ Reading
    BY <1>0, <1>1, <2>1 DEF Greeted, Gap, Taken, Answered, Reading
  <2> QED
    BY <1>0, <1>1, <2>1, <2>2, StillStream
<1>3. CASE SendReply
  <2>1. /\ reader = "reply" /\ UNCHANGED echoReplies
        /\ \/ link' = link /\ reader' = "count"
           \/ link' = "broken" /\ reader' = "header"
    BY <1>3 DEF SendReply, Sent, NotSent, stats
  <2>2. Greeted' /\ Gap' = 0 /\ ~Reading' /\ (reader' = "count" => Taken' = Taken)
    BY <1>0, <1>1, <2>1 DEF Greeted, Gap, Taken, Answered, Reading
  <2> QED
    BY <1>0, <1>1, <2>1, <2>2, StillStream
<1>4. CASE CountReply
  <2>1. reader = "count" /\ reader' = "header" /\ UNCHANGED <<header, link>> /\ echoReplies' = echoReplies + 1
    BY <1>4 DEF CountReply, connection
  <2>2. Greeted' /\ Gap' = 0 /\ ~Reading' /\ Taken' = Taken /\ echoReplies' \in Nat
    BY <1>0, <1>1, <2>1 DEF Greeted, Gap, Taken, Answered, Reading
  <2> QED
    BY <1>0, <1>1, <2>1, <2>2, StillStream
<1> QED
  BY <1>2, <1>3, <1>4

-----------------------------------------------------------------------------
\* The application threads and the destruction take nothing from the stream.
LEMMA OthersStream ==
    ASSUME AdapterAssumption, Stream, Arriving',
           UNCHANGED <<inbox, sentIn, asked, long, late, reader, header, echoReplies>>,
           phase' \in {phase, "join", "destroyed"}, phase' # phase => phase \in {"ready", "join"},
           link' \in {link, "broken"}, phase = "none" => link' = link
    PROVE  Stream'
<1>1. Gap' = Gap /\ Taken' = Taken /\ (Reading' = Reading) /\ (Live' = Live)
  BY DEF Gap, Taken, Answered, Reading, Live
<1>2. Greeted'
  BY <1>1 DEF Stream, Greeted
<1>3. echoReplies' \in Nat /\ reader' \in {"none", "header", "body", "lock", "reply", "count", "done"}
  BY DEF Stream
<1> QED
  BY <1>1, <1>2, <1>3, StillStream

\* Every step keeps the reader in step.
LEMMA StreamStep == ASSUME AdapterAssumption, Stream, [Next]_vars PROVE Stream'
<1>0. Arriving'
  BY ArrivingStep DEF Stream
<1>1. CASE SwitchSends
  BY <1>0, <1>1, SwitchSendsStream
<1>2. CASE SwitchLeaves
  BY <1>0, <1>2, SwitchLeavesStream
<1>3. CASE Listen
  BY <1>0, <1>3, ListenStream
<1>4. CASE TakeHello
  BY <1>0, <1>4, TakeHelloStream
<1>5. CASE DiscardHello
  BY <1>0, <1>5, DiscardHelloStream
<1>6. CASE ReadHeader
  BY <1>0, <1>6, ReadHeaderStream
<1>7. CASE ReadBody
  BY <1>0, <1>7, ReadBodyStream
<1>8. CASE ReaderLocks \/ SendReply \/ CountReply
  BY <1>0, <1>8, ReplyStream
<1>9. CASE \E t \in Threads : BeginFlow(t) \/ FlowStep(t)
  <2>1. PICK t \in Threads : BeginFlow(t) \/ Build(t) \/ Send(t) \/ CountFlow(t)
    BY <1>9 DEF FlowStep
  <2>2. CASE BeginFlow(t) \/ Build(t) \/ CountFlow(t)
    <3>1. UNCHANGED <<inbox, sentIn, asked, long, late, reader, header, echoReplies, phase, link>>
      BY <2>2 DEF BeginFlow, Build, CountFlow, connection, inbound, readerVars, stats
    <3> QED
      BY <1>0, <3>1, OthersStream
  <2>3. CASE Send(t)
    <3>1. /\ UNCHANGED <<inbox, sentIn, asked, long, late, reader, header, echoReplies, phase>>
          /\ link' \in {link, "broken"} /\ link # "none"
      BY <2>3 DEF Send, Sent, NotSent, inbound, readerVars, stats
    <3>2. phase # "none"
      BY <3>1 DEF Stream, Greeted
    <3> QED
      BY <1>0, <3>1, <3>2, OthersStream
  <2> QED
    BY <2>1, <2>2, <2>3
<1>10. CASE Shutdown \/ Join
  <2>1. /\ UNCHANGED <<inbox, sentIn, asked, long, late, reader, header, echoReplies>>
        /\ phase' \in {"join", "destroyed"} /\ phase \in {"ready", "join"}
        /\ link' \in {link, "broken"}
    BY <1>10 DEF Shutdown, Join, connection, inbound, readerVars, stats
  <2> QED
    BY <1>0, <2>1, OthersStream
<1>11. CASE UNCHANGED vars
  <2>1. /\ UNCHANGED <<inbox, sentIn, asked, long, late, reader, header, echoReplies, phase, link>>
    BY <1>11 DEF vars
  <2> QED
    BY <1>0, <2>1, OthersStream
<1> QED
  BY <1>1, <1>2, <1>3, <1>4, <1>5, <1>6, <1>7, <1>8, <1>9, <1>10, <1>11 DEF Next, ReaderStep

-----------------------------------------------------------------------------
(* What is on the wire.                                                    *)

\* Places of the two kinds of message.
RepliesOn(w) == {i \in DOMAIN w : IsEchoReply(w[i])}
ModsOn(w) == {i \in DOMAIN w : IsFlowMod(w[i])}

\* Sets of places on a wire are finite.
LEMMA PlacesFinite ==
    ASSUME NEW w, Len(w) \in Nat, DOMAIN w = 1 .. Len(w), NEW P \in SUBSET DOMAIN w
    PROVE  IsFiniteSet(P) /\ Cardinality(P) \in Nat
<1>1. IsFiniteSet(1 .. Len(w))
  BY FS_Interval
<1> QED
  BY <1>1, FS_Subset, FS_CardinalityType

\* A reply at the end of the wire is one place more of its kind.
LEMMA ReplyAppended ==
    ASSUME NEW w, w \in Seq(ToSet(w)), NEW m, IsEchoReply(m), ~IsFlowMod(m)
    PROVE  LET v == Append(w, m)
           IN /\ RepliesOn(v) = RepliesOn(w) \cup {Len(w) + 1}
              /\ Cardinality(RepliesOn(v)) = Cardinality(RepliesOn(w)) + 1
              /\ ModsOn(v) = ModsOn(w)
<1> DEFINE v == Append(w, m)
<1>1. /\ DOMAIN v = 1 .. Len(w) + 1 /\ DOMAIN w = 1 .. Len(w) /\ Len(w) \in Nat
      /\ \A i \in 1 .. Len(w) : v[i] = w[i]
      /\ v[Len(w) + 1] = m
  BY WireGrows
<1> HIDE DEF v
<1>2. RepliesOn(v) = RepliesOn(w) \cup {Len(w) + 1} /\ ModsOn(v) = ModsOn(w)
  BY <1>1 DEF RepliesOn, ModsOn
<1>3. IsFiniteSet(RepliesOn(w)) /\ Len(w) + 1 \notin RepliesOn(w)
  BY <1>1, PlacesFinite DEF RepliesOn
<1>4. Cardinality(RepliesOn(v)) = Cardinality(RepliesOn(w)) + 1
  BY <1>2, <1>3, FS_AddElement
<1> QED
  BY <1>2, <1>4 DEF v

\* So is a Flow-Mod of its own kind.
LEMMA ModAppended ==
    ASSUME NEW w, w \in Seq(ToSet(w)), NEW m, IsFlowMod(m), ~IsEchoReply(m)
    PROVE  LET v == Append(w, m)
           IN /\ RepliesOn(v) = RepliesOn(w)
              /\ Cardinality(ModsOn(v)) = Cardinality(ModsOn(w)) + 1
<1> DEFINE v == Append(w, m)
<1>1. /\ DOMAIN v = 1 .. Len(w) + 1 /\ DOMAIN w = 1 .. Len(w) /\ Len(w) \in Nat
      /\ \A i \in 1 .. Len(w) : v[i] = w[i]
      /\ v[Len(w) + 1] = m
  BY WireGrows
<1> HIDE DEF v
<1>2. ModsOn(v) = ModsOn(w) \cup {Len(w) + 1} /\ RepliesOn(v) = RepliesOn(w)
  BY <1>1 DEF RepliesOn, ModsOn
<1>3. IsFiniteSet(ModsOn(w)) /\ Len(w) + 1 \notin ModsOn(w)
  BY <1>1, PlacesFinite DEF ModsOn
<1>4. Cardinality(ModsOn(v)) = Cardinality(ModsOn(w)) + 1
  BY <1>2, <1>3, FS_AddElement
<1> QED
  BY <1>2, <1>4 DEF v

\* The two kinds, and the size of each.
LEMMA KindsOfMessages ==
    /\ \A x : IsEchoReply(EchoReply(x)) /\ ~IsFlowMod(EchoReply(x)) /\ SizeOf(EchoReply(x)) = 0
    /\ \A m \in FlowModSet :
        /\ IsFlowMod(m) /\ ~IsEchoReply(m)
        /\ SizeOf(m) = FlowModLength(m.command, m.flow) /\ SizeOf(m) \in Nat
<1>1. \A x : IsEchoReply(EchoReply(x)) /\ ~IsFlowMod(EchoReply(x)) /\ SizeOf(EchoReply(x)) = 0
  BY DEF IsEchoReply, IsFlowMod, EchoReply, SizeOf
<1>2. ASSUME NEW m \in FlowModSet
      PROVE  /\ IsFlowMod(m) /\ ~IsEchoReply(m)
             /\ SizeOf(m) = FlowModLength(m.command, m.flow) /\ SizeOf(m) \in Nat
  <2>1. IsFlowMod(m) /\ ~IsEchoReply(m) /\ m.command \in Commands
    BY DEF IsEchoReply, IsFlowMod, FlowModSet
  <2>2. SizeOf(m) = FlowModLength(m.command, m.flow)
    BY <2>1 DEF SizeOf
  <2>3. FlowModLength(m.command, m.flow) \in Nat
    BY <2>1, EveryFlowModFits DEF Fits
  <2> QED
    BY <2>1, <2>2, <2>3
<1> QED
  BY <1>1, <1>2

-----------------------------------------------------------------------------
(* What is counted is on the wire.                                         *)

\* Only the thread that holds the lock has sent what is not counted yet.
Counted ==
    /\ accepted = flowMods /\ flowMods \in Nat /\ bytes \in Nat
    /\ Cardinality(RepliesOn(wire)) = Answered
    /\ \A t \in Threads : pc[t] = "count" =>
        /\ flowMods + 1 = Cardinality(ModsOn(wire))
        /\ bytes + SizeOf(msg[t]) = TotalLength(wire)
    /\ (\A t \in Threads : pc[t] # "count") =>
        flowMods = Cardinality(ModsOn(wire)) /\ bytes = TotalLength(wire)

\* Before the connection nothing is sent or counted.
LEMMA InitCounted == ASSUME Init PROVE Counted
<1>1. wire = <<>> /\ DOMAIN wire = {} /\ flowMods = 0 /\ bytes = 0 /\ accepted = 0 /\ Answered = 0
      /\ \A t \in Threads : pc[t] # "count"
  BY DEF Init, Answered
<1>2. RepliesOn(wire) = {} /\ ModsOn(wire) = {}
  BY <1>1 DEF RepliesOn, ModsOn
<1> QED
  BY <1>1, <1>2, FS_EmptySet, NothingIsEmpty DEF Counted

\* Steps that neither put anything on the wire nor count.
LEMMA QuietCounted ==
    ASSUME Counted, UNCHANGED <<wire, flowMods, bytes, accepted>>, Answered' = Answered,
           \A t \in Threads : (pc'[t] = "count" <=> pc[t] = "count") /\ (pc[t] = "count" => msg'[t] = msg[t])
    PROVE  Counted'
  BY DEF Counted, RepliesOn, ModsOn

\* A reply on the wire is counted with the reader in its section.
LEMMA SendReplyCounted ==
    ASSUME IInv, Stream, Counted, SendReply
    PROVE  Counted'
<1>1. UNCHANGED <<flowMods, bytes, accepted, pc, msg, echoReplies>> /\ reader = "reply"
  BY DEF SendReply, stats, callers
<1>2. Answered = echoReplies /\ echoReplies \in Nat
  BY <1>1 DEF Answered, Stream
<1>3. CASE wire' = Append(wire, EchoReply(header.xid)) /\ reader' = "count"
  <2>1. Answered' = Answered + 1
    BY <1>1, <1>2, <1>3 DEF Answered
  <2>2. wire \in Seq(ToSet(wire))
    BY DEF IInv, Shape
  <2> DEFINE m == EchoReply(header.xid)
  <2>3. IsEchoReply(m) /\ ~IsFlowMod(m) /\ SizeOf(m) = 0
    BY KindsOfMessages
  <2>4. wire' = Append(wire, m)
    BY <1>3
  <2> HIDE DEF m
  <2>5. /\ Cardinality(RepliesOn(wire')) = Cardinality(RepliesOn(wire)) + 1
        /\ ModsOn(wire') = ModsOn(wire)
    BY <2>2, <2>3, <2>4, ReplyAppended
  <2>6. TotalLength(wire') = TotalLength(wire) + 0
    BY <2>2, <2>3, <2>4, TotalGrows
  <2>7. TotalLength(wire) \in Nat
    <3>1. CASE \E t \in Threads : pc[t] = "count"
      <4>1. PICK t \in Threads : pc[t] = "count"
        BY <3>1
      <4>2. SizeOf(msg[t]) \in Nat
        BY <4>1, KindsOfMessages DEF IInv, Shape
      <4> QED
        BY <4>1, <4>2 DEF Counted
    <3>2. CASE ~ \E t \in Threads : pc[t] = "count"
      BY <3>2 DEF Counted
    <3> QED
      BY <3>1, <3>2
  <2>8. TotalLength(wire') = TotalLength(wire)
    BY <2>6, <2>7
  <2> QED
    BY <1>1, <2>1, <2>5, <2>8 DEF Counted
<1>4. CASE wire' = wire /\ reader' = "header"
  <2>1. Answered' = Answered
    BY <1>1, <1>2, <1>4 DEF Answered
  <2> QED
    BY <1>1, <1>4, <2>1, QuietCounted
<1> QED
  BY <1>3, <1>4 DEF SendReply, Sent, NotSent

\* A Flow-Mod on the wire is still to be counted by the thread that sent it.
LEMMA SendCounted ==
    ASSUME IInv, Counted, NEW t \in Threads, Send(t)
    PROVE  Counted'
<1>1. UNCHANGED <<flowMods, bytes, accepted, echoReplies, reader>> /\ pc[t] = "send"
  BY DEF Send, stats, readerVars
<1>2. Answered' = Answered /\ \A u \in Threads : pc[u] # "count"
  BY <1>1 DEF Answered, IInv, Locking, InSection
<1>3. pc \in [Threads -> {"idle", "lock", "send", "count"}] /\ msg[t] \in FlowModSet /\ wire \in Seq(ToSet(wire))
  BY <1>1 DEF IInv, Shape
<1>4. CASE Sent(msg[t]) /\ Goto(t, "count") /\ UNCHANGED <<holder, msg>>
  <2>1. wire' = Append(wire, msg[t]) /\ msg' = msg /\ pc' = [pc EXCEPT ![t] = "count"]
    BY <1>4 DEF Sent, Goto
  <2>2. IsFlowMod(msg[t]) /\ ~IsEchoReply(msg[t]) /\ SizeOf(msg[t]) \in Nat
    BY <1>3, KindsOfMessages
  <2>3. /\ RepliesOn(wire') = RepliesOn(wire)
        /\ Cardinality(ModsOn(wire')) = Cardinality(ModsOn(wire)) + 1
    BY <1>3, <2>1, <2>2, ModAppended
  <2>4. TotalLength(wire') = TotalLength(wire) + SizeOf(msg[t])
    BY <1>3, <2>1, <2>2, TotalGrows
  <2>5. \A u \in Threads : pc'[u] = "count" <=> u = t
    BY <1>2, <1>3, <2>1
  <2> QED
    BY <1>1, <1>2, <2>1, <2>3, <2>4, <2>5 DEF Counted
<1>5. CASE NotSent /\ holder' = Nobody /\ msg' = [msg EXCEPT ![t] = NoMessage] /\ Goto(t, "idle")
  <2>1. wire' = wire /\ \A u \in Threads : pc'[u] # "count"
    BY <1>2, <1>3, <1>5 DEF NotSent, Goto
  <2> QED
    BY <1>1, <1>2, <2>1, QuietCounted
<1> QED
  BY <1>4, <1>5 DEF Send

\* That thread counts it, and its bytes, before it gives the lock back.
LEMMA CountFlowCounted ==
    ASSUME IInv, Counted, NEW t \in Threads, CountFlow(t)
    PROVE  Counted'
<1>1. /\ UNCHANGED <<wire, echoReplies, reader>> /\ pc[t] = "count"
      /\ flowMods' = flowMods + 1 /\ accepted' = accepted + 1
      /\ bytes' = bytes + FlowModLength(msg[t].command, msg[t].flow)
      /\ pc' = [pc EXCEPT ![t] = "idle"]
  BY DEF CountFlow, readerVars, Goto
<1>2. /\ pc \in [Threads -> {"idle", "lock", "send", "count"}] /\ msg[t] \in FlowModSet
      /\ \A u \in Threads : pc[u] = "count" => u = t
  BY <1>1 DEF IInv, Shape, Locking, InSection
<1>3. SizeOf(msg[t]) = FlowModLength(msg[t].command, msg[t].flow) /\ SizeOf(msg[t]) \in Nat
  BY <1>2, KindsOfMessages
<1>4. \A u \in Threads : pc'[u] # "count"
  BY <1>1, <1>2
<1>5. Answered' = Answered /\ RepliesOn(wire') = RepliesOn(wire) /\ ModsOn(wire') = ModsOn(wire)
  BY <1>1 DEF Answered, RepliesOn, ModsOn
<1>6. TotalLength(wire') = TotalLength(wire)
  BY <1>1
<1>7. bytes' = TotalLength(wire) /\ flowMods' = Cardinality(ModsOn(wire)) /\ bytes' \in Nat /\ flowMods' \in Nat /\ accepted' = flowMods'
  BY <1>1, <1>3 DEF Counted
<1> QED
  BY <1>4, <1>5, <1>6, <1>7 DEF Counted

\* Every step keeps the counts.
LEMMA CountedStep == ASSUME AdapterAssumption, IInv, Stream, Counted, [Next]_vars PROVE Counted'
<1>0. pc \in [Threads -> {"idle", "lock", "send", "count"}] /\ msg \in [Threads -> FlowModSet \cup {NoMessage}]
  BY DEF IInv, Shape
<1>1. CASE SwitchSends \/ SwitchLeaves \/ Listen
  BY <1>1, QuietCounted DEF SwitchSends, SwitchLeaves, Listen, stats, readerVars, callers, Answered
<1>2. CASE TakeHello \/ Shutdown \/ Join \/ ReaderLocks
  BY <1>2, QuietCounted DEF TakeHello, Shutdown, Join, ReaderLocks, connection, stats, readerVars, callers, Answered
<1>3. CASE DiscardHello
  <2>1. reader = "none"
    BY <1>3 DEF DiscardHello, Stream, Greeted
  <2> QED
    BY <1>3, <2>1, QuietCounted DEF DiscardHello, stats, callers, Answered
<1>4. CASE ReadHeader \/ ReadBody
  <2>1. /\ UNCHANGED <<wire, flowMods, bytes, accepted, pc, msg, echoReplies>>
        /\ reader # "count" /\ reader' # "count"
    BY <1>4 DEF ReadHeader, ReadBody, stats, callers
  <2> QED
    BY <2>1, QuietCounted DEF Answered
<1>5. CASE SendReply
  BY <1>5, SendReplyCounted
<1>6. CASE CountReply
  <2>1. /\ UNCHANGED <<wire, flowMods, bytes, accepted, pc, msg>> /\ echoReplies' = echoReplies + 1
        /\ reader = "count" /\ reader' = "header" /\ echoReplies \in Nat
    BY <1>6 DEF CountReply, callers, Stream
  <2>2. Answered' = Answered
    BY <2>1 DEF Answered
  <2> QED
    BY <2>1, <2>2, QuietCounted
<1>7. CASE \E t \in Threads : BeginFlow(t)
  <2>1. PICK t \in Threads : BeginFlow(t)
    BY <1>7
  <2>2. /\ UNCHANGED <<wire, flowMods, bytes, accepted, echoReplies, reader>> /\ pc[t] = "idle"
        /\ \/ UNCHANGED <<pc, msg>>
           \/ pc' = [pc EXCEPT ![t] = "lock"] /\ \E m : msg' = [msg EXCEPT ![t] = m]
    BY <2>1 DEF BeginFlow, Goto, stats, readerVars
  <2>3. Answered' = Answered
    BY <2>2 DEF Answered
  <2>4. \A u \in Threads : (pc'[u] = "count" <=> pc[u] = "count") /\ (pc[u] = "count" => msg'[u] = msg[u])
    BY <1>0, <2>2
  <2> QED
    BY <2>2, <2>3, <2>4, QuietCounted
<1>8. CASE \E t \in Threads : Build(t)
  <2>1. PICK t \in Threads : Build(t)
    BY <1>8
  <2>2. /\ UNCHANGED <<wire, flowMods, bytes, accepted, echoReplies, reader>> /\ pc[t] = "lock"
        /\ pc' = [pc EXCEPT ![t] = "send"] /\ msg' = [msg EXCEPT ![t].xid = nextXid]
    BY <2>1 DEF Build, Goto, stats, readerVars
  <2>3. Answered' = Answered
    BY <2>2 DEF Answered
  <2>4. \A u \in Threads : (pc'[u] = "count" <=> pc[u] = "count") /\ (pc[u] = "count" => msg'[u] = msg[u])
    BY <1>0, <2>2
  <2> QED
    BY <2>2, <2>3, <2>4, QuietCounted
<1>9. CASE \E t \in Threads : Send(t) \/ CountFlow(t)
  BY <1>9, SendCounted, CountFlowCounted
<1>10. CASE UNCHANGED vars
  BY <1>10, QuietCounted DEF vars, Answered
<1> QED
  BY <1>1, <1>2, <1>3, <1>4, <1>5, <1>6, <1>7, <1>8, <1>9, <1>10 DEF Next, ReaderStep, FlowStep

\* Whoever takes the lock finds the statistics of what is on the wire.
LEMMA CountedMatches == ASSUME AdapterAssumption, IInv, Stream, Counted PROVE StatsMatchWire
<1> SUFFICES ASSUME holder = Nobody
             PROVE  /\ flowMods = Cardinality(Mods) /\ accepted = Cardinality(Mods)
                    /\ bytes = TotalLength(wire) /\ echoReplies = Cardinality(Replies)
  BY DEF StatsMatchWire
<1>1. /\ \A t \in Threads : pc[t] # "count"
      /\ reader # "count"
  BY DEF IInv, Locking, InSection, AdapterAssumption
<1>2. Mods = ModsOn(wire) /\ Replies = RepliesOn(wire)
  BY DEF Mods, Replies, ModsOn, RepliesOn
<1>3. Answered = echoReplies
  BY <1>1 DEF Answered, Stream
<1> QED
  BY <1>1, <1>2, <1>3 DEF Counted

-----------------------------------------------------------------------------
(* The echo requests are answered in turn.                                 *)

\* Places up to the i-th one.
Upto(P, i) == {j \in P : j <= i}
\* Each reply has the identifier of the request of its rank.
InOrder(w, a) ==
    \A i \in RepliesOn(w) :
        LET n == Cardinality(Upto(RepliesOn(w), i))
        IN  n \in 1 .. Len(a) /\ w[i].xid = a[n]

\* The answers, while the reader is in step.
Answering == Live => InOrder(wire, asked)

\* The ranks are those of EchoesAnswered.
LEMMA AnsweringIsAnswered == Answering => EchoesAnswered
  BY DEF Answering, InOrder, EchoesAnswered, Live, Upto, Replies, RepliesOn

\* A message that is no reply changes no reply's rank.
LEMMA ModsKeepOrder ==
    ASSUME NEW w, w \in Seq(ToSet(w)), NEW a, InOrder(w, a), NEW m, IsFlowMod(m), ~IsEchoReply(m)
    PROVE  InOrder(Append(w, m), a)
<1> DEFINE v == Append(w, m)
<1>1. RepliesOn(v) = RepliesOn(w)
  BY ModAppended
<1>2. \A i \in RepliesOn(w) : v[i] = w[i]
  BY WireGrows DEF RepliesOn
<1> HIDE DEF v
<1>3. InOrder(v, a)
  BY <1>1, <1>2 DEF InOrder
<1> QED
  BY <1>3 DEF v

\* A reply at the end has the next rank.
LEMMA ReplyKeepsOrder ==
    ASSUME NEW w, w \in Seq(ToSet(w)), NEW a, InOrder(w, a), NEW m, IsEchoReply(m), ~IsFlowMod(m),
           NEW n, n = Cardinality(RepliesOn(w)) + 1, n \in 1 .. Len(a), m.xid = a[n]
    PROVE  InOrder(Append(w, m), a)
<1> DEFINE v == Append(w, m)
           last == Len(w) + 1
<1>1. /\ RepliesOn(v) = RepliesOn(w) \cup {last}
      /\ Cardinality(RepliesOn(v)) = n
  BY ReplyAppended
<1>2. /\ last \in Nat /\ v[last] = m
      /\ \A i \in RepliesOn(w) : v[i] = w[i] /\ i \in Nat /\ i < last
  BY WireGrows DEF RepliesOn
<1> HIDE DEF v, last
<1>3. ASSUME NEW i \in RepliesOn(v)
      PROVE  LET k == Cardinality(Upto(RepliesOn(v), i))
             IN  k \in 1 .. Len(a) /\ v[i].xid = a[k]
  <2>1. CASE i \in RepliesOn(w)
    <3>1. Upto(RepliesOn(v), i) = Upto(RepliesOn(w), i)
      BY <1>1, <1>2, <2>1 DEF Upto
    <3> QED
      BY <1>2, <2>1, <3>1 DEF InOrder
  <2>2. CASE i = last
    <3>1. Upto(RepliesOn(v), i) = RepliesOn(v)
      <4>1. \A j \in RepliesOn(v) : j <= i
        BY <1>1, <1>2, <2>2
      <4> QED
        BY <4>1, Zenon DEF Upto
    <3> QED
      BY <1>1, <1>2, <2>2, <3>1
  <2> QED
    BY <1>1, <2>1, <2>2
<1>4. InOrder(v, a)
  BY <1>3 DEF InOrder
<1> QED
  BY <1>4 DEF v

\* More requests change no answer.
LEMMA MoreAsked ==
    ASSUME NEW w, NEW a, NEW b, InOrder(w, a), Len(a) \in Nat, Len(b) \in Nat, Len(a) <= Len(b),
           \A k \in 1 .. Len(a) : b[k] = a[k]
    PROVE  InOrder(w, b)
<1> SUFFICES ASSUME NEW i \in RepliesOn(w)
             PROVE  LET n == Cardinality(Upto(RepliesOn(w), i))
                    IN  n \in 1 .. Len(b) /\ w[i].xid = b[n]
  BY DEF InOrder
<1> DEFINE n == Cardinality(Upto(RepliesOn(w), i))
<1>1. n \in 1 .. Len(a) /\ w[i].xid = a[n]
  BY DEF InOrder
<1> HIDE DEF n
<1>2. n \in 1 .. Len(b) /\ w[i].xid = b[n]
  BY <1>1
<1> QED
  BY <1>2 DEF n

\* Every step keeps the answers in turn.
LEMMA AnsweringStep ==
    ASSUME AdapterAssumption, IInv, Stream, Counted, Answering, [Next]_vars
    PROVE  Answering'
<1> SUFFICES ASSUME Live' PROVE InOrder(wire', asked')
  BY DEF Answering
<1>1. CASE SwitchSends
  <2>1. UNCHANGED <<wire, long, late>>
    BY <1>1 DEF SwitchSends
  <2>2. InOrder(wire, asked)
    BY <2>1 DEF Answering, Live
  <2>3. asked' = asked \/ \E x \in Nat : asked' = Append(asked, x)
    <3>1. sentIn' \in Nat
      BY <1>1 DEF SwitchSends, Stream, Arriving
    <3> QED
      BY <1>1, <3>1 DEF SwitchSends
  <2>4. asked \in Seq(Nat)
    BY DEF Stream, Arriving
  <2>5. /\ Len(asked) \in Nat /\ Len(asked') \in Nat /\ Len(asked) <= Len(asked')
        /\ \A k \in 1 .. Len(asked) : asked'[k] = asked[k]
    BY <2>3, <2>4, AppendProperties, LenProperties
  <2> QED
    BY <2>1, <2>2, <2>5, MoreAsked
<1>2. CASE SendReply
  <2>1. UNCHANGED <<asked, long, late>> /\ reader = "reply"
    BY <1>2 DEF SendReply, inbound
  <2>2. InOrder(wire, asked) /\ Live
    BY <2>1 DEF Answering, Live
  <2>3. CASE wire' = wire
    BY <2>1, <2>2, <2>3
  <2>4. CASE Sent(EchoReply(header.xid))
    <3>1. link # "broken" /\ wire' = Append(wire, EchoReply(header.xid))
      BY <2>4 DEF Sent
    <3>2. Reading /\ Asks(header) /\ Answered \in Nat
      <4>1. Answered \in Nat
        BY TakenTyped
      <4> QED
        BY <2>1, <4>1 DEF Stream, Greeted, Reading
    <3>3. Taken = Cardinality(RepliesOn(wire)) + 1
      BY <3>2 DEF Taken, Counted
    <3>4. InTurn(inbox, asked, Taken, link = "open") /\ asked[Taken] = header.xid
      BY <2>2, <3>1, <3>2 DEF Stream, InStep
    <3>5. Taken <= Len(asked) /\ Len(asked) \in Nat
      BY <3>4, LenProperties DEF InTurn, Stream, Arriving
    <3>6. Taken \in 1 .. Len(asked)
      BY <3>2, <3>5 DEF Taken
    <3> DEFINE m == EchoReply(header.xid)
    <3>7. IsEchoReply(m) /\ ~IsFlowMod(m) /\ m.xid = header.xid
      BY KindsOfMessages DEF EchoReply
    <3>8. wire' = Append(wire, m) /\ wire \in Seq(ToSet(wire))
      BY <3>1 DEF IInv, Shape
    <3> HIDE DEF m
    <3>9. InOrder(wire', asked)
      BY <2>2, <3>3, <3>4, <3>6, <3>7, <3>8, ReplyKeepsOrder
    <3> QED
      BY <2>1, <3>9
  <2> QED
    BY <1>2, <2>3, <2>4 DEF SendReply, NotSent
<1>3. CASE \E t \in Threads : Send(t)
  <2>1. PICK t \in Threads : Send(t)
    BY <1>3
  <2>2. UNCHANGED <<asked, long, late>> /\ pc[t] = "send" /\ (wire' = wire \/ wire' = Append(wire, msg[t]))
    BY <2>1 DEF Send, Sent, NotSent, inbound
  <2>3. InOrder(wire, asked)
    BY <2>2 DEF Answering, Live
  <2>4. IsFlowMod(msg[t]) /\ ~IsEchoReply(msg[t]) /\ wire \in Seq(ToSet(wire))
    BY <2>2, KindsOfMessages DEF IInv, Shape
  <2> QED
    BY <2>2, <2>3, <2>4, ModsKeepOrder
<1>4. CASE DiscardHello
  <2>1. UNCHANGED <<wire, asked>> /\ phase = "discard"
    BY <1>4 DEF DiscardHello
  <2>2. Live
    BY <2>1 DEF Stream, Greeted
  <2> QED
    BY <2>1, <2>2 DEF Answering
<1>5. CASE ReadBody
  <2>1. UNCHANGED <<wire, asked, late>> /\ long' = (long \/ header.len - 1 > BodyMax)
    BY <1>5 DEF ReadBody
  <2>2. Live
    BY <2>1 DEF Live
  <2> QED
    BY <2>1, <2>2 DEF Answering
<1>6. CASE UNCHANGED <<wire, asked, long, late>>
  BY <1>6 DEF Answering, Live
<1>7. CASE SwitchLeaves \/ Listen \/ TakeHello \/ ReadHeader \/ ReaderLocks \/ CountReply \/ Shutdown \/ Join
  BY <1>6, <1>7 DEF SwitchLeaves, Listen, TakeHello, ReadHeader, ReaderLocks, CountReply, Shutdown, Join, connection, inbound
<1>8. CASE \E t \in Threads : BeginFlow(t) \/ Build(t) \/ CountFlow(t)
  BY <1>6, <1>8 DEF BeginFlow, Build, CountFlow, connection, inbound
<1>9. CASE UNCHANGED vars
  BY <1>6, <1>9 DEF vars
<1> QED
  BY <1>1, <1>2, <1>3, <1>4, <1>5, <1>7, <1>8, <1>9 DEF Next, ReaderStep, FlowStep

\* Nothing is answered at first.
LEMMA InitAnswering == ASSUME Init PROVE Answering
<1>1. DOMAIN wire = {}
  BY DEF Init
<1> QED
  BY <1>1 DEF Answering, InOrder, RepliesOn

-----------------------------------------------------------------------------
(* How far the counters get.                                               *)

\* Threads that have not taken their identifier; threads in an operation.
AtLock == {t \in Threads : pc[t] = "lock"}
Busy == {t \in Threads : pc[t] # "idle"}

\* Every operation that is not over still has its identifier and its count to
\* come, within the operations that have begun.
Bounded ==
    /\ ops \in 0 .. MaxOps
    /\ IsFiniteSet(Busy) /\ IsFiniteSet(AtLock)
    /\ nextXid >= 100 /\ nextXid - 100 + Cardinality(AtLock) <= ops
    /\ flowMods + Cardinality(Busy) <= ops
    /\ \A t \in Threads : msg[t].xid <= nextXid

\* Nothing has begun at first.
LEMMA InitBounded == ASSUME AdapterAssumption, Init PROVE Bounded
<1>1. AtLock = {} /\ Busy = {} /\ nextXid = 100 /\ flowMods = 0 /\ ops = 0 /\ MaxOps \in Nat
  BY DEF Init, AtLock, Busy, AdapterAssumption
<1>2. \A t \in Threads : msg[t].xid <= nextXid
  BY DEF Init, NoMessage, EchoReply
<1> QED
  BY <1>1, <1>2, FS_EmptySet DEF Bounded

\* Steps that are of no operation.
LEMMA QuietBounded ==
    ASSUME Bounded, UNCHANGED <<ops, nextXid, flowMods, pc, msg>>
    PROVE  Bounded'
  BY DEF Bounded, Busy, AtLock

\* One operation begins.
LEMMA BeginBounded ==
    ASSUME AdapterAssumption, IInv, Counted, Bounded, NEW t \in Threads, BeginFlow(t)
    PROVE  Bounded'
<1>1. /\ pc[t] = "idle" /\ ops < MaxOps /\ ops' = ops + 1 /\ UNCHANGED <<nextXid, flowMods>>
      /\ \/ UNCHANGED <<pc, msg>>
         \/ /\ pc' = [pc EXCEPT ![t] = "lock"]
            /\ \E command, flow : msg' = [msg EXCEPT ![t] = FlowMod(0, command, flow)]
  BY DEF BeginFlow, Goto, stats
<1>2. /\ pc \in [Threads -> {"idle", "lock", "send", "count"}]
      /\ msg \in [Threads -> FlowModSet \cup {NoMessage}]
      /\ nextXid \in Nat /\ flowMods \in Nat /\ MaxOps \in Nat
  BY DEF IInv, Shape, Counted, AdapterAssumption
<1>3. /\ ops \in 0 .. MaxOps /\ IsFiniteSet(Busy) /\ IsFiniteSet(AtLock)
      /\ nextXid >= 100 /\ nextXid - 100 + Cardinality(AtLock) <= ops
      /\ flowMods + Cardinality(Busy) <= ops
      /\ Cardinality(AtLock) \in Nat /\ Cardinality(Busy) \in Nat
      /\ \A u \in Threads : msg[u].xid <= nextXid
  BY FS_CardinalityType DEF Bounded
<1>4. ops' \in 0 .. MaxOps
  BY <1>1, <1>2, <1>3
<1>5. CASE UNCHANGED <<pc, msg>>
  BY <1>1, <1>2, <1>3, <1>4, <1>5 DEF Bounded, Busy, AtLock
<1>6. CASE /\ pc' = [pc EXCEPT ![t] = "lock"]
           /\ \E command, flow : msg' = [msg EXCEPT ![t] = FlowMod(0, command, flow)]
  <2>1. Busy' = Busy \cup {t} /\ AtLock' = AtLock \cup {t} /\ t \notin Busy /\ t \notin AtLock
    BY <1>1, <1>2, <1>6 DEF Busy, AtLock
  <2>2. /\ IsFiniteSet(Busy') /\ IsFiniteSet(AtLock')
        /\ Cardinality(Busy') = Cardinality(Busy) + 1 /\ Cardinality(AtLock') = Cardinality(AtLock) + 1
    BY <1>3, <2>1, FS_AddElement
  <2>3. \A u \in Threads : msg'[u].xid <= nextXid
    BY <1>2, <1>3, <1>6 DEF FlowMod
  <2> QED
    BY <1>1, <1>2, <1>3, <1>4, <2>2, <2>3 DEF Bounded
<1> QED
  BY <1>1, <1>5, <1>6

\* An identifier is taken for an operation that waited for the lock.
LEMMA BuildBounded ==
    ASSUME AdapterAssumption, IInv, Counted, Bounded, NEW t \in Threads, Build(t)
    PROVE  Bounded'
<1>1. /\ pc[t] = "lock" /\ UNCHANGED <<ops, flowMods>> /\ nextXid' = nextXid + 1
      /\ pc' = [pc EXCEPT ![t] = "send"] /\ msg' = [msg EXCEPT ![t].xid = nextXid]
  BY DEF Build, Goto, stats
<1>2. /\ pc \in [Threads -> {"idle", "lock", "send", "count"}]
      /\ msg \in [Threads -> FlowModSet \cup {NoMessage}] /\ msg[t] \in FlowModSet
      /\ nextXid \in Nat
  BY <1>1 DEF IInv, Shape
<1>3. /\ ops \in 0 .. MaxOps /\ IsFiniteSet(Busy) /\ IsFiniteSet(AtLock)
      /\ nextXid >= 100 /\ nextXid - 100 + Cardinality(AtLock) <= ops
      /\ Cardinality(AtLock) \in Nat
      /\ \A u \in Threads : msg[u].xid <= nextXid
  BY FS_CardinalityType DEF Bounded
<1>4. Busy' = Busy /\ AtLock' = AtLock \ {t} /\ t \in AtLock
  BY <1>1, <1>2 DEF Busy, AtLock
<1>5. IsFiniteSet(AtLock') /\ Cardinality(AtLock') = Cardinality(AtLock) - 1
  BY <1>3, <1>4, FS_RemoveElement
<1>6. msg'[t].xid = nextXid /\ \A u \in Threads \ {t} : msg'[u] = msg[u]
  BY <1>1, <1>2 DEF FlowModSet
<1>7. \A u \in Threads : msg[u].xid \in Int
  BY <1>2 DEF FlowModSet, NoMessage, EchoReply
<1>8. \A u \in Threads : msg'[u].xid <= nextXid'
  BY <1>1, <1>2, <1>3, <1>6, <1>7
<1>9. flowMods' + Cardinality(Busy') <= ops'
  BY <1>1, <1>4 DEF Bounded
<1> QED
  BY <1>1, <1>2, <1>3, <1>4, <1>5, <1>8, <1>9 DEF Bounded

\* An operation is over, counted or not.
LEMMA EndBounded ==
    ASSUME AdapterAssumption, IInv, Counted, Bounded, NEW t \in Threads,
           pc[t] \in {"send", "count"}, UNCHANGED <<ops, nextXid>>,
           flowMods' \in {flowMods, flowMods + 1},
           pc' = [pc EXCEPT ![t] = "idle"], msg' = [msg EXCEPT ![t] = NoMessage]
    PROVE  Bounded'
<1>2. /\ pc \in [Threads -> {"idle", "lock", "send", "count"}]
      /\ msg \in [Threads -> FlowModSet \cup {NoMessage}]
      /\ nextXid \in Nat /\ flowMods \in Nat
  BY DEF IInv, Shape, Counted
<1>3. /\ ops \in Nat /\ IsFiniteSet(Busy) /\ flowMods + Cardinality(Busy) <= ops
      /\ Cardinality(Busy) \in Nat
      /\ \A u \in Threads : msg[u].xid <= nextXid
  BY FS_CardinalityType DEF Bounded
<1>4. Busy' = Busy \ {t} /\ t \in Busy /\ AtLock' = AtLock
  BY <1>2 DEF Busy, AtLock
<1>5. IsFiniteSet(Busy') /\ Cardinality(Busy') = Cardinality(Busy) - 1
  BY <1>3, <1>4, FS_RemoveElement
<1>6. flowMods' + Cardinality(Busy') <= ops
  BY <1>2, <1>3, <1>5
<1>7. \A u \in Threads : msg'[u].xid <= nextXid
  BY <1>2, <1>3 DEF NoMessage, EchoReply
<1> QED
  BY <1>4, <1>5, <1>6, <1>7 DEF Bounded

\* Every step keeps the counters within the operations.
LEMMA BoundedStep == ASSUME AdapterAssumption, IInv, Counted, Bounded, [Next]_vars PROVE Bounded'
<1>1. CASE \E t \in Threads : BeginFlow(t) \/ Build(t)
  BY <1>1, BeginBounded, BuildBounded
<1>2. CASE \E t \in Threads : Send(t)
  <2>1. PICK t \in Threads : Send(t)
    BY <1>2
  <2>2. pc[t] = "send" /\ UNCHANGED <<ops, nextXid, flowMods>>
    BY <2>1 DEF Send, stats
  <2>3. CASE pc' = [pc EXCEPT ![t] = "count"] /\ msg' = msg
    <3>1. Busy' = Busy /\ AtLock' = AtLock
      BY <2>2, <2>3 DEF Busy, AtLock, IInv, Shape
    <3> QED
      BY <2>2, <2>3, <3>1 DEF Bounded
  <2>4. CASE pc' = [pc EXCEPT ![t] = "idle"] /\ msg' = [msg EXCEPT ![t] = NoMessage]
    BY <2>2, <2>4, EndBounded
  <2> QED
    BY <2>1, <2>3, <2>4 DEF Send, Goto
<1>3. CASE \E t \in Threads : CountFlow(t)
  <2>1. PICK t \in Threads : CountFlow(t)
    BY <1>3
  <2>2. /\ pc[t] = "count" /\ UNCHANGED <<ops, nextXid>> /\ flowMods' = flowMods + 1
        /\ pc' = [pc EXCEPT ![t] = "idle"] /\ msg' = [msg EXCEPT ![t] = NoMessage]
    BY <2>1 DEF CountFlow, Goto
  <2> QED
    BY <2>2, EndBounded
<1>4. CASE \/ SwitchSends \/ SwitchLeaves \/ Listen \/ TakeHello \/ DiscardHello
           \/ ReaderStep \/ Shutdown \/ Join \/ UNCHANGED vars
  <2>1. UNCHANGED <<ops, nextXid, flowMods, pc, msg>>
    BY <1>4 DEF SwitchSends, SwitchLeaves, Listen, TakeHello, DiscardHello, ReaderStep, ReadHeader,
                ReadBody, ReaderLocks, SendReply, CountReply, Shutdown, Join, vars, stats, callers
  <2> QED
    BY <2>1, QuietBounded
<1> QED
  BY <1>1, <1>2, <1>3, <1>4 DEF Next, FlowStep

\* The invariants give every variable its type.
LEMMA TypesHold == ASSUME AdapterAssumption, IInv, Stream, Counted, Bounded PROVE TypeOK
<1>1. /\ phase \in {"none", "hello", "discard", "ready", "join", "destroyed", "failed"}
      /\ link \in {"none", "open", "closing", "broken"}
      /\ sentIn \in 0 .. MaxInbound /\ echoReplies \in Nat /\ header \in Headers
  BY DEF Stream, Arriving
<1>2. \A i \in DOMAIN inbox : inbox[i] = Body \/ inbox[i] \in Headers
  <2>1. inbox \in Seq(Cells)
    BY DEF Stream, Arriving
  <2> QED
    BY <2>1, LenProperties DEF Cells
<1>3. /\ holder \in Threads \cup {Reader, Nobody}
      /\ reader \in {"none", "header", "body", "lock", "reply", "count", "done"}
      /\ pc \in [Threads -> {"idle", "lock", "send", "count"}] /\ bytes \in Nat
  BY DEF IInv, Shape, Counted
<1>4. /\ nextXid \in 100 .. 100 + MaxOps /\ ops \in 0 .. MaxOps
      /\ flowMods \in 0 .. MaxOps /\ accepted \in 0 .. MaxOps
  <2>1. Cardinality(AtLock) \in Nat /\ Cardinality(Busy) \in Nat
    BY FS_CardinalityType DEF Bounded
  <2>2. nextXid \in Nat /\ flowMods \in Nat /\ accepted = flowMods /\ MaxOps \in Nat
    BY DEF IInv, Shape, Counted, AdapterAssumption
  <2> QED
    BY <2>1, <2>2 DEF Bounded
<1>5. ASSUME NEW t \in Threads
      PROVE  \/ msg[t] = NoMessage
             \/ /\ msg[t].xid \in 0 .. nextXid
                /\ msg[t].command \in Commands
                /\ msg[t].flow.priority = Absent \/ msg[t].flow.priority \in UInt16
  <2>1. msg[t] \in FlowModSet \/ msg[t] = NoMessage
    BY DEF IInv, Shape
  <2>2. ASSUME msg[t] \in FlowModSet
        PROVE  /\ msg[t].xid \in Nat /\ msg[t].command \in Commands
               /\ \E s \in Strings : ~Malformed(s) /\ msg[t].flow = Parsed(s)
    BY <2>2 DEF FlowModSet
  <2>3. msg[t].xid <= nextXid /\ nextXid \in Nat
    BY DEF Bounded, IInv, Shape
  <2>4. ASSUME msg[t] \in FlowModSet
        PROVE  msg[t].flow.priority = Absent \/ msg[t].flow.priority \in UInt16
    <3>1. PICK s \in Strings : ~Malformed(s) /\ msg[t].flow = Parsed(s)
      BY <2>2, <2>4
    <3>2. Parsed(s).priority = Absent \/ Parsed(s).priority \in UInt16
      BY <3>1, ParsedPriority
    <3> QED
      BY <3>1, <3>2
  <2>5. ASSUME msg[t] \in FlowModSet PROVE msg[t].xid \in 0 .. nextXid
    BY <2>2, <2>3, <2>5
  <2> QED
    BY <2>1, <2>2, <2>4, <2>5
<1> QED
  BY <1>1, <1>2, <1>3, <1>4, <1>5 DEF TypeOK

-----------------------------------------------------------------------------
(* All of it together is inductive: the counts need the lock, which keeps  *)
(* one thread between its message and its count; the answers need          *)
(* the stream and the counts, which give a reply its rank.                 *)

AdapterInv == IInv /\ Stream /\ Counted /\ Answering /\ Bounded

\* It holds in every state.
THEOREM AdapterInvariance == Spec => []AdapterInv
<1>1. Init => AdapterInv
  BY AdapterAssumption, InitEstablishes, InitStream, InitCounted, InitAnswering, InitBounded
     DEF AdapterInv
<1>2. AdapterInv /\ [Next]_vars => AdapterInv'
  BY AdapterAssumption, StepPreserves, StreamStep, CountedStep, AnsweringStep, BoundedStep
     DEF AdapterInv
<1> QED
  BY <1>1, <1>2, PTL DEF Spec

-----------------------------------------------------------------------------
(* Results.                                                                *)

\* Flow-Mods leave in the order of their identifiers, whichever threads send
\* them and whatever the reader sends in between.
THEOREM XidsAlwaysIncrease == Spec => []XidsIncrease
<1>1. IInv => XidsIncrease
  BY DEF IInv
<1> QED
  BY <1>1, Invariance, PTL

\* Each Flow-Mod on the wire has a length its buffers hold and the switch can
\* take apart.
THEOREM MessagesAlwaysFit == Spec => []MessagesFit
<1>1. IInv => MessagesFit
  BY EveryFlowModFits DEF IInv, Older, FlowModSet, MessagesFit
<1> QED
  BY <1>1, Invariance, PTL

\* The n-th reply on the wire answers the n-th echo request of the switch, as
\* long as each message fitted the buffer it was drained into and the Hello came
\* in time.
THEOREM EchoesAlwaysAnswered == Spec => []EchoesAnswered
<1>1. AdapterInv => EchoesAnswered
  BY AnsweringIsAnswered DEF AdapterInv
<1> QED
  BY <1>1, AdapterInvariance, PTL

\* Whenever the lock is free the statistics are those of what is on the wire.
THEOREM StatsAlwaysMatchWire == Spec => []StatsMatchWire
<1>1. AdapterInv => StatsMatchWire
  BY AdapterAssumption, CountedMatches DEF AdapterInv
<1> QED
  BY <1>1, AdapterInvariance, PTL

\* The type invariant: no counter or identifier runs past the operations, and
\* the priority of a prepared message has the 16 bits of its field.
THEOREM AdapterTypes == Spec => []TypeOK
<1>1. AdapterInv => TypeOK
  BY AdapterAssumption, TypesHold DEF AdapterInv
<1> QED
  BY <1>1, AdapterInvariance, PTL
=============================================================================
