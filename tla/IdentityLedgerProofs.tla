------------------------ MODULE IdentityLedgerProofs ------------------------
(***************************************************************************)
(* What the ledger guarantees for any number of processes, any limit and   *)
(* any number of stops.                                                    *)
(*                                                                         *)
(* That a returned number is the greatest so far is not inductive: it      *)
(* depends on what the file holds at each step of the call under way.      *)
(* Fresh says so: the file and the disk agree and bound every number       *)
(* returned, except while the one process that holds the lock is between   *)
(* its truncate and its fsync, and then that process remembers the number. *)
(***************************************************************************)
EXTENDS IdentityLedger, TLAPS

\* A process past the read holds a number that may be given out.
Counted == {"truncate", "write", "sync", "close"}

InRange == \A p \in Processes : pc[p] \in Counted => n[p] \in 1 .. Limit - 1

\* One process at a time is past the flock.
Exclusion ==
    /\ \A p \in Processes : pc[p] \in Locked => locked
    /\ \A p, q \in Processes : pc[p] \in Locked /\ pc[q] \in Locked => p = q

Above(k) == \A i \in DOMAIN issued : issued[i] < k

Settled == disk = {file} /\ Above(file + 1)

Fresh ==
    /\ (\A p \in Processes : ~Between(p)) => Settled
    /\ \A p \in Processes : pc[p] = "truncate" => n[p] = file + 1
    /\ \A p \in Processes : pc[p] \in {"sync", "close"} => n[p] = file
    /\ \A p \in Processes : pc[p] \in Counted => Above(n[p])
    /\ DurablyUnique

IInv ==
    /\ TypeOK
    /\ InRange
    /\ Exclusion
    /\ ~interrupted => Fresh

-----------------------------------------------------------------------------
\* The empty ledger that nobody has open satisfies the invariant.
LEMMA InitIInv == Init => IInv
<1> USE LedgerAssumption DEF LedgerAssumption
<1>1. Init => TypeOK
  <2> SUFFICES ASSUME Init PROVE TypeOK
    OBVIOUS
  <2>1. issued \in Seq(1 .. Limit - 1)
    BY DEF Init
  <2>2. locked \in BOOLEAN /\ interrupted \in BOOLEAN
    BY Zenon DEF Init
  <2>3. file \in 0 .. Limit /\ disk \in SUBSET (0 .. Limit)
    BY DEF Init
  <2>4. pc \in [Processes -> Phases] /\ n \in [Processes -> 0 .. Limit]
    BY DEF Init, Phases
  <2>5. calls \in 0 .. MaxCalls /\ stops \in 0 .. MaxStops
    BY DEF Init
  <2>6. QED
    BY <2>1, <2>2, <2>3, <2>4, <2>5 DEF TypeOK
<1>2. Init => InRange /\ Exclusion
  BY DEF Init, InRange, Exclusion, Counted, Locked
<1>3. Init => Fresh
  BY DEF Init, Fresh, Settled, Above, Counted, DurablyUnique
<1>4. QED
  BY <1>1, <1>2, <1>3 DEF IInv

\* Every step leaves the two flags Boolean.
LEMMA StepFlags ==
  TypeOK /\ [Next]_vars => locked' \in BOOLEAN /\ interrupted' \in BOOLEAN
<1> SUFFICES ASSUME TypeOK, [Next]_vars
             PROVE  locked' \in BOOLEAN /\ interrupted' \in BOOLEAN
  OBVIOUS
<1>1. locked \in BOOLEAN /\ interrupted \in BOOLEAN
  BY DEF TypeOK
<1>2. ASSUME NEW p \in Processes, Stop(p)
      PROVE  locked' \in BOOLEAN /\ interrupted' \in BOOLEAN
  BY <1>1, <1>2, Zenon DEF Stop
<1>3. CASE PowerLoss
  BY <1>1, <1>3, Zenon DEF PowerLoss
<1>4. ASSUME NEW p \in Processes, Open(p) \/ Step(p)
      PROVE  locked' \in BOOLEAN /\ interrupted' \in BOOLEAN
  BY <1>1, <1>4, Zenon
  DEF Open, Step, Lock, Read, Truncate, Write, Sync, Return
<1>5. CASE UNCHANGED vars
  BY <1>1, <1>5 DEF vars
<1>6. QED
  BY <1>2, <1>3, <1>4, <1>5 DEF Next

\* The variables that are not flags have their types.
Ranges ==
    /\ file \in 0 .. Limit
    /\ disk \in SUBSET (0 .. Limit)
    /\ pc \in [Processes -> Phases]
    /\ n \in [Processes -> 0 .. Limit]
    /\ issued \in Seq(1 .. Limit - 1)
    /\ calls \in 0 .. MaxCalls
    /\ stops \in 0 .. MaxStops

\* Every step of a call, and every stop, keeps the ranges.
LEMMA StepRanges == Ranges /\ InRange /\ [Next]_vars => Ranges' /\ InRange'
<1> SUFFICES ASSUME Ranges, InRange, [Next]_vars PROVE Ranges' /\ InRange'
  OBVIOUS
<1> USE LedgerAssumption
    DEF LedgerAssumption, Ranges, InRange, Counted, Phases, Locked
<1>1. CASE \E p \in Processes : Open(p)
  BY <1>1 DEF Open, Goto
<1>2. CASE \E p \in Processes : Lock(p)
  BY <1>2 DEF Lock, Goto
<1>3. CASE \E p \in Processes : Read(p)
  <2>1. PICK p \in Processes : Read(p)
    BY <1>3
  <2>2. CASE file + 1 >= Limit
    BY <2>1, <2>2 DEF Read, Goto
  <2>3. CASE ~(file + 1 >= Limit)
    <3>1. file + 1 \in 1 .. Limit - 1 /\ file + 1 \in 0 .. Limit
      BY <2>3
    <3>2. n' = [n EXCEPT ![p] = file + 1] /\ pc' = [pc EXCEPT ![p] = "truncate"]
      BY <2>1, <2>3 DEF Read, Goto
    <3>3. UNCHANGED <<file, disk, issued, calls, stops>>
      BY <2>1 DEF Read
    <3>4. InRange'
      BY <3>1, <3>2
    <3>5. QED
      BY <3>1, <3>2, <3>3, <3>4
  <2>4. QED
    BY <2>2, <2>3
<1>4. CASE \E p \in Processes : Truncate(p)
  BY <1>4 DEF Truncate, Goto
<1>5. CASE \E p \in Processes : Write(p)
  <2>1. PICK p \in Processes : Write(p)
    BY <1>5
  <2>2. file' \in 0 .. Limit /\ disk' \in SUBSET (0 .. Limit)
    BY <2>1 DEF Write
  <2>3. pc' = [pc EXCEPT ![p] = "sync"]
    BY <2>1 DEF Write, Goto
  <2>4. UNCHANGED <<n, issued, calls, stops>>
    BY <2>1 DEF Write
  <2>5. InRange'
    BY <2>1, <2>3, <2>4 DEF Write
  <2>6. QED
    BY <2>2, <2>3, <2>4, <2>5
<1>6. CASE \E p \in Processes : Sync(p)
  BY <1>6 DEF Sync, Goto
<1>7. CASE \E p \in Processes : Return(p)
  <2>1. PICK p \in Processes : Return(p)
    BY <1>7
  <2>2. issued' \in Seq(1 .. Limit - 1)
    BY <2>1 DEF Return
  <2>3. QED
    BY <2>1, <2>2 DEF Return, Goto
<1>8. CASE \E p \in Processes : Stop(p)
  <2>1. PICK p \in Processes : Stop(p)
    BY <1>8
  <2>2. pc' = [pc EXCEPT ![p] = "idle"] /\ stops' \in 0 .. MaxStops
    BY <2>1 DEF Stop, Goto
  <2>3. UNCHANGED <<file, disk, n, issued, calls>>
    BY <2>1 DEF Stop
  <2>4. QED
    BY <2>2, <2>3
<1>9. CASE PowerLoss
  <2>1. pc' = [p \in Processes |-> "idle"] /\ stops' \in 0 .. MaxStops
    BY <1>9 DEF PowerLoss
  <2>2. file' \in 0 .. Limit /\ disk' \in SUBSET (0 .. Limit)
    BY <1>9 DEF PowerLoss
  <2>3. UNCHANGED <<n, issued, calls>>
    BY <1>9 DEF PowerLoss
  <2>4. QED
    BY <2>1, <2>2, <2>3
<1>10. CASE UNCHANGED vars
  BY <1>10 DEF vars
<1>11. QED
  BY <1>1, <1>2, <1>3, <1>4, <1>5, <1>6, <1>7, <1>8, <1>9, <1>10
  DEF Next, Step

\* Types and ranges together.
LEMMA StepTypes == IInv /\ [Next]_vars => TypeOK' /\ InRange'
<1>1. TypeOK => Ranges
  BY DEF TypeOK, Ranges
<1>2. Ranges' /\ locked' \in BOOLEAN /\ interrupted' \in BOOLEAN => TypeOK'
  BY DEF TypeOK, Ranges
<1>3. QED
  BY <1>1, <1>2, StepFlags, StepRanges DEF IInv

\* The flock admits one process, and goes with the process that held it.
LEMMA StepExclusion == IInv /\ [Next]_vars => Exclusion'
<1> SUFFICES ASSUME IInv, [Next]_vars PROVE Exclusion'
  OBVIOUS
<1> USE DEF IInv, TypeOK, Exclusion, Locked, Phases
<1>1. CASE \E p \in Processes : Open(p)
  BY <1>1 DEF Open, Goto
<1>2. CASE \E p \in Processes : Lock(p)
  BY <1>2 DEF Lock, Goto
<1>3. CASE \E p \in Processes : Read(p)
  BY <1>3 DEF Read, Goto
<1>4. CASE \E p \in Processes : Truncate(p)
  BY <1>4 DEF Truncate, Goto
<1>5. CASE \E p \in Processes : Write(p)
  BY <1>5 DEF Write, Goto
<1>6. CASE \E p \in Processes : Sync(p)
  BY <1>6 DEF Sync, Goto
<1>7. CASE \E p \in Processes : Return(p)
  BY <1>7 DEF Return, Goto
<1>8. CASE \E p \in Processes : Stop(p)
  BY <1>8 DEF Stop, Goto
<1>9. CASE PowerLoss
  BY <1>9 DEF PowerLoss
<1>10. CASE UNCHANGED vars
  BY <1>10 DEF vars
<1>11. QED
  BY <1>1, <1>2, <1>3, <1>4, <1>5, <1>6, <1>7, <1>8, <1>9, <1>10
  DEF Next, Step

-----------------------------------------------------------------------------
\* No process that is not at p's step is between truncate and fsync while p
\* holds the lock elsewhere.
LEMMA AloneInside ==
  ASSUME Exclusion, NEW p \in Processes, pc[p] \in Locked, ~Between(p)
  PROVE  \A q \in Processes : ~Between(q)
  BY DEF Exclusion, Between, Locked

\* The ledger stays consistent over every step that interrupts nothing.
LEMMA StepFresh == IInv /\ [Next]_vars => (~interrupted' => Fresh')
<1> SUFFICES ASSUME IInv, [Next]_vars, ~interrupted' PROVE Fresh'
  OBVIOUS
<1> DEFINE Bounded == \A i \in DOMAIN issued : issued[i] \in Int
<1>1. ~interrupted
  BY Zenon DEF Next, Step, Open, Lock, Read, Truncate, Write, Sync, Return,
               Stop, PowerLoss, vars
<1>2. Fresh /\ Exclusion /\ TypeOK /\ InRange /\ Bounded /\ file \in Int
  BY <1>1, LedgerAssumption DEF LedgerAssumption, IInv, TypeOK
<1>3. pc \in [Processes -> Phases] /\ n \in [Processes -> 0 .. Limit]
  BY <1>2 DEF TypeOK
<1> USE <1>2, <1>3
<1>4. CASE \E p \in Processes : Open(p) \/ Lock(p)
  BY <1>4 DEF Open, Lock, Goto, Fresh, Settled, Above, Between, Counted, DurablyUnique
<1>5. CASE \E p \in Processes : Read(p)
  <2>1. PICK p \in Processes : Read(p)
    BY <1>5
  <2>2. \A q \in Processes : ~Between(q)
    BY <2>1, AloneInside DEF Read, Locked, Between
  <2>3. QED
    BY <2>1, <2>2, LedgerAssumption
    DEF LedgerAssumption, Read, Goto, Fresh, Settled, Above, Between, Counted, DurablyUnique
<1>6. CASE \E p \in Processes : Truncate(p)
  <2>1. PICK p \in Processes : Truncate(p)
    BY <1>6
  <2>2. \A q \in Processes : pc[q] \in Locked => q = p
    BY <2>1 DEF Truncate, Exclusion, Locked
  <2>3. QED
    BY <2>1, <2>2
    DEF Truncate, Goto, Fresh, Settled, Above, Between, Counted, DurablyUnique, Locked
<1>7. CASE \E p \in Processes : Write(p)
  <2>1. PICK p \in Processes : Write(p)
    BY <1>7
  <2>2. \A q \in Processes : pc[q] \in Locked => q = p
    BY <2>1 DEF Write, Exclusion, Locked
  <2>3. QED
    BY <2>1, <2>2
    DEF Write, Goto, Fresh, Settled, Above, Between, Counted, DurablyUnique, Locked
<1>8. CASE \E p \in Processes : Sync(p)
  <2>1. PICK p \in Processes : Sync(p)
    BY <1>8
  <2>2. \A q \in Processes : pc[q] \in Locked => q = p
    BY <2>1 DEF Sync, Exclusion, Locked
  <2>3. Above(file)
    BY <2>1 DEF Sync, Fresh, Counted
  <2>4. QED
    BY <2>1, <2>2, <2>3
    DEF Sync, Goto, Fresh, Settled, Above, Between, Counted, DurablyUnique, Locked
<1>9. CASE \E p \in Processes : Return(p)
  <2>1. PICK p \in Processes : Return(p)
    BY <1>9
  <2>2. \A q \in Processes : pc[q] \in Locked => q = p
    BY <2>1 DEF Return, Exclusion, Locked
  <2>3. Settled /\ Above(n[p]) /\ n[p] = file
    BY <2>1, AloneInside DEF Return, Fresh, Counted, Between, Locked
  <2>4. issued' = Append(issued, n[p]) /\ issued \in Seq(Int) /\ n[p] \in Int
    BY <2>1, LedgerAssumption DEF Return, TypeOK, LedgerAssumption
  <2>5. DurablyUnique'
    BY <2>3, <2>4 DEF Fresh, DurablyUnique, Above
  <2>6. \A i \in DOMAIN issued' : issued'[i] < file + 1
    BY <2>3, <2>4 DEF Above
  <2>7. UNCHANGED <<file, disk, n>> /\ pc' = [pc EXCEPT ![p] = "idle"]
    BY <2>1 DEF Return, Goto
  <2>8. QED
    BY <2>2, <2>3, <2>5, <2>6, <2>7
    DEF Fresh, Settled, Above, Between, Counted, Locked
<1>10. CASE \E p \in Processes : Stop(p)
  <2>1. PICK p \in Processes : Stop(p)
    BY <1>10
  <2>2. ~Between(p)
    BY <2>1 DEF Stop
  <2>3. (\A q \in Processes : ~Between(q)') => (\A q \in Processes : ~Between(q))
    BY <2>1, <2>2 DEF Stop, Goto, Between
  <2>4. QED
    BY <2>1, <2>3 DEF Stop, Goto, Fresh, Settled, Above, Between, Counted, DurablyUnique
<1>11. CASE PowerLoss
  <2>1. \A q \in Processes : ~Between(q)
    BY <1>11 DEF PowerLoss
  <2>2. Settled
    BY <2>1 DEF Fresh
  <2>3. QED
    BY <1>11, <2>2
    DEF PowerLoss, Fresh, Settled, Above, Between, Counted, DurablyUnique
<1>12. CASE UNCHANGED vars
  BY <1>12 DEF vars, Fresh, Settled, Above, Between, Counted, DurablyUnique
<1>13. QED
  BY <1>4, <1>5, <1>6, <1>7, <1>8, <1>9, <1>10, <1>11, <1>12 DEF Next, Step

\* The invariant holds in every behaviour.
LEMMA AlwaysIInv == Spec => []IInv
<1>1. IInv /\ [Next]_vars => IInv'
  BY StepTypes, StepExclusion, StepFresh DEF IInv
<1>2. QED
  BY <1>1, InitIInv, PTL DEF Spec

-----------------------------------------------------------------------------
\* The file, the lock and the numbers have their types: no number at or above
\* the limit is ever held or returned.
THEOREM LedgerTypes == Spec => []TypeOK
<1>1. IInv => TypeOK
  BY DEF IInv
<1>2. QED
  BY <1>1, AlwaysIInv, PTL

\* allocate_identity returns strictly increasing numbers over any number of
\* processes, kills, failed writes and power losses, as long as none of them
\* came between a truncate and its fsync.
THEOREM NumbersIncrease == Spec => []UniqueUnlessInterrupted
<1>1. IInv => UniqueUnlessInterrupted
  BY DEF IInv, Fresh, UniqueUnlessInterrupted
<1>2. QED
  BY <1>1, AlwaysIInv, PTL

\* Different numbers give different networks and datapath identifiers: sixteen
\* networks and 256 identifiers are set aside for each.
LEMMA NumbersSeparate ==
  ASSUME NEW a \in Int, NEW b \in Int, a < b
  PROVE  /\ Networks(a) \cap Networks(b) = {}
         /\ Datapaths(a) \cap Datapaths(b) = {}
<1>1. Switches \in 1 .. 16
  BY LedgerAssumption DEF LedgerAssumption
<1>2. ASSUME NEW x \in Networks(a), x \in Networks(b) PROVE FALSE
  BY <1>1, <1>2 DEF Networks
<1>3. ASSUME NEW x \in Datapaths(a), x \in Datapaths(b) PROVE FALSE
  BY <1>1, <1>3 DEF Datapaths
<1>4. QED
  BY <1>2, <1>3

\* Hence the trials of such a history share no network and no datapath.
THEOREM TrialsSeparate == Spec => []TrialsAreDisjoint
<1>1. IInv => TrialsAreDisjoint
  <2> SUFFICES ASSUME IInv, ~interrupted,
                      NEW i \in DOMAIN issued, NEW j \in DOMAIN issued, i # j
               PROVE  /\ Networks(issued[i]) \cap Networks(issued[j]) = {}
                      /\ Datapaths(issued[i]) \cap Datapaths(issued[j]) = {}
    BY DEF TrialsAreDisjoint
  <2>1. issued[i] \in Int /\ issued[j] \in Int /\ i \in Int /\ j \in Int
    BY LedgerAssumption DEF LedgerAssumption, IInv, TypeOK
  <2>2. issued[i] < issued[j] \/ issued[j] < issued[i]
    BY <2>1 DEF IInv, Fresh, DurablyUnique
  <2>3. QED
    BY <2>1, <2>2, NumbersSeparate
<1>2. QED
  BY <1>1, AlwaysIInv, PTL
=============================================================================
