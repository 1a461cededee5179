--------------------------- MODULE IdentityLedger ---------------------------
(***************************************************************************)
(* allocate_identity of network/r5_service_campaign.py: the numbers that   *)
(* make the switches, addresses and names of every trial fresh.            *)
(*                                                                         *)
(* The last number given out is the content of a file.  Each trial, of the *)
(* campaign or of a diagnostic, is its own process: it opens the file,     *)
(* takes an flock, reads the number, truncates the file, writes the next   *)
(* number, fsyncs and closes.  A process may be killed, the write may fail *)
(* and the machine may lose power between any two of these steps; the      *)
(* kernel then drops the lock.                                             *)
(***************************************************************************)
EXTENDS Integers, Sequences

CONSTANTS
    Processes,   \* the processes that run trials
    Limit,       \* 0xffffff in the code: the first number refused
    Switches,    \* the most switches of a trial (16 in CONDITIONS)
    MaxCalls,    \* bound: calls of allocate_identity in a behaviour
    MaxStops     \* bound: kills, failed writes and power losses

ASSUME LedgerAssumption ==
    /\ Limit \in Nat
    /\ Switches \in 1 .. 16
    /\ MaxCalls \in Nat
    /\ MaxStops \in Nat

VARIABLES
    file,        \* the number in the file as processes see it, 0 when empty
    disk,        \* the contents a power loss may leave
    locked,      \* some open file holds the flock
    pc,          \* the step each process takes next
    n,           \* the number each process computed
    issued,      \* history: the numbers returned, in order
    calls,       \* calls made so far
    stops,       \* stops so far
    interrupted  \* history: a stop came between a truncate and its fsync

vars == <<file, disk, locked, pc, n, issued, calls, stops, interrupted>>

Locked == {"read", "truncate", "write", "sync", "close"}
Phases == {"idle", "lock"} \cup Locked

TypeOK ==
    /\ file \in 0 .. Limit
    /\ disk \in SUBSET (0 .. Limit)
    /\ locked \in BOOLEAN
    /\ pc \in [Processes -> Phases]
    /\ n \in [Processes -> 0 .. Limit]
    /\ issued \in Seq(1 .. Limit - 1)
    /\ calls \in 0 .. MaxCalls
    /\ stops \in 0 .. MaxStops
    /\ interrupted \in BOOLEAN

Init ==
    /\ file = 0
    /\ disk = {0}
    /\ locked = FALSE
    /\ pc = [p \in Processes |-> "idle"]
    /\ n = [p \in Processes |-> 0]
    /\ issued = <<>>
    /\ calls = 0
    /\ stops = 0
    /\ interrupted = FALSE

-----------------------------------------------------------------------------
Goto(p, phase) == pc' = [pc EXCEPT ![p] = phase]

Open(p) ==
    /\ pc[p] = "idle"
    /\ calls < MaxCalls
    /\ calls' = calls + 1
    /\ Goto(p, "lock")
    /\ UNCHANGED <<file, disk, locked, n, issued, stops, interrupted>>

Lock(p) ==
    /\ pc[p] = "lock"
    /\ ~locked
    /\ locked' = TRUE
    /\ Goto(p, "read")
    /\ UNCHANGED <<file, disk, n, issued, calls, stops, interrupted>>

\* Fault: the limit itself is given out.
ReadPastLimit(p) ==
    /\ pc[p] = "read"
    /\ IF file + 1 > Limit
         THEN /\ locked' = FALSE
              /\ Goto(p, "idle")
              /\ UNCHANGED n
         ELSE /\ n' = [n EXCEPT ![p] = file + 1]
              /\ Goto(p, "truncate")
              /\ UNCHANGED locked
    /\ UNCHANGED <<file, disk, issued, calls, stops, interrupted>>

\* An empty file counts as 0.  At the limit the call raises, and the with
\* statement closes the file.
Read(p) ==
    /\ pc[p] = "read"
    /\ IF file + 1 >= Limit
         THEN /\ locked' = FALSE
              /\ Goto(p, "idle")
              /\ UNCHANGED n
         ELSE /\ n' = [n EXCEPT ![p] = file + 1]
              /\ Goto(p, "truncate")
              /\ UNCHANGED locked
    /\ UNCHANGED <<file, disk, issued, calls, stops, interrupted>>

Truncate(p) ==
    /\ pc[p] = "truncate"
    /\ file' = 0
    /\ disk' = disk \cup {0}
    /\ Goto(p, "write")
    /\ UNCHANGED <<locked, n, issued, calls, stops, interrupted>>

\* f.write only fills Python's buffer; f.flush writes the file.
Write(p) ==
    /\ pc[p] = "write"
    /\ file' = n[p]
    /\ disk' = disk \cup {n[p]}
    /\ Goto(p, "sync")
    /\ UNCHANGED <<locked, n, issued, calls, stops, interrupted>>

\* Fault: no os.fsync.
SyncNothing(p) ==
    /\ pc[p] = "sync"
    /\ Goto(p, "close")
    /\ UNCHANGED <<file, disk, locked, n, issued, calls, stops, interrupted>>

Sync(p) ==
    /\ pc[p] = "sync"
    /\ disk' = {file}
    /\ Goto(p, "close")
    /\ UNCHANGED <<file, locked, n, issued, calls, stops, interrupted>>

\* Fault: a path that keeps the file, and so its lock, open.
ReturnLocked(p) ==
    /\ pc[p] = "close"
    /\ issued' = Append(issued, n[p])
    /\ Goto(p, "idle")
    /\ UNCHANGED <<file, disk, locked, n, calls, stops, interrupted>>

\* Closing the file drops the lock, and the call returns its number.
Return(p) ==
    /\ pc[p] = "close"
    /\ locked' = FALSE
    /\ issued' = Append(issued, n[p])
    /\ Goto(p, "idle")
    /\ UNCHANGED <<file, disk, n, calls, stops, interrupted>>

-----------------------------------------------------------------------------
\* The number that was in the file is gone and the next is not yet durable.
Between(p) == pc[p] \in {"write", "sync"}

\* p stops where it is: it is killed, or its write raises an OSError (no
\* space left), and its file is closed.
Stop(p) ==
    /\ pc[p] # "idle"
    /\ stops < MaxStops
    /\ stops' = stops + 1
    /\ locked' = IF pc[p] \in Locked THEN FALSE ELSE locked
    /\ interrupted' = (interrupted \/ Between(p))
    /\ Goto(p, "idle")
    /\ UNCHANGED <<file, disk, n, issued, calls>>

PowerLoss ==
    /\ stops < MaxStops
    /\ stops' = stops + 1
    /\ \E content \in disk :
        /\ file' = content
        /\ disk' = {content}
    /\ locked' = FALSE
    /\ interrupted' = (interrupted \/ \E p \in Processes : Between(p))
    /\ pc' = [p \in Processes |-> "idle"]
    /\ UNCHANGED <<n, issued, calls>>

Step(p) ==
    \/ Lock(p)
    \/ Read(p)
    \/ Truncate(p)
    \/ Write(p)
    \/ Sync(p)
    \/ Return(p)

Next ==
    \/ \E p \in Processes : Open(p) \/ Step(p) \/ Stop(p)
    \/ PowerLoss

Spec == Init /\ [][Next]_vars

\* A process that is running goes on, unless something stops it.
FairSpec == Spec /\ \A p \in Processes : WF_vars(Step(p))

-----------------------------------------------------------------------------
\* What a trial names after its number, in run_trial: its IPv4 networks, one
\* per switch, and the datapath identifiers of its switches (less the common
\* base).  Names and MAC addresses spell out the number itself.

\* Fault: networks numbered without room for the last switch.
NetworksNarrow(serial) == {serial * (Switches - 1) + subnet - 1 : subnet \in 1 .. Switches}
Networks(serial) == {serial * 16 + subnet - 1 : subnet \in 1 .. Switches}
Datapaths(serial) == {serial * 256 + i : i \in 0 .. Switches - 1}

(* Properties                                                              *)

\* "Durable monotonically unique IDs across diagnostics and all platforms"
\* (allocate_identity's own description): whatever stops, a number returned
\* is greater than all those returned before.
DurablyUnique ==
    \A i, j \in DOMAIN issued : i < j => issued[i] < issued[j]

\* What the code does guarantee: the same, over concurrent processes, kills
\* and power losses, as long as no stop came between a truncate and its fsync.
UniqueUnlessInterrupted == ~interrupted => DurablyUnique

\* Two trials of such a history share no network and no datapath identifier,
\* so no rule or address that one leaves behind can serve the other.
TrialsAreDisjoint ==
    ~interrupted =>
        \A i, j \in DOMAIN issued :
            i # j => /\ Networks(issued[i]) \cap Networks(issued[j]) = {}
                     /\ Datapaths(issued[i]) \cap Datapaths(issued[j]) = {}

\* A call that has begun ends: the lock never outlives the process that took
\* it, not even one that raised or was killed while it held it.
EveryCallEnds ==
    \A p \in Processes : pc[p] # "idle" ~> pc[p] = "idle"
=============================================================================
