------------------------ MODULE ServiceCampaignProofs ------------------------
(***************************************************************************)
(* Records of the service campaign follow the schedule, come from one      *)
(* unbroken sequence of controller instances, and are all there once the   *)
(* collection is completed: for any plan, any number of runners, stops,    *)
(* errors and resumes, as long as no runner was left behind.               *)
(***************************************************************************)
EXTENDS ServiceCampaign, SequenceTheorems, FiniteSetTheorems, TLAPS

AnyRecord == [slot : Nat, outcome : Outcomes, id : Nat, before : Nat, after : Nat]
Resting == {"none", "ok", "failed"}
Phases == Resting \cup {"fresh", "resume"} \cup Working

Types ==
    /\ ending \in [Plan -> Endings] /\ ledger \in Nat
    /\ attempts \in [Plan -> Seq(AnyRecord)]
    /\ newest \in Nat /\ invocation \in Nat
    /\ sup \in {"down", "next", "launch", "wait"}
    /\ at \in 1 .. Sessions + 1 /\ (sup \in {"launch", "wait"} => at \in Plan)
    /\ phase \in [Runners -> Phases]
    /\ session \in [Runners -> Plan]
    /\ slot \in [Runners -> 1 .. Slots]
    /\ result \in [Runners -> AnyRecord]

\* The only runner at work is the one the supervisor waits for.
OneAtWork ==
    /\ \A r \in Runners : Alive(r) => sup = "wait" /\ child = r
    /\ sup = "wait" => child \in Runners /\ phase[child] # "none" /\ session[child] = at

\* What the records of session s are up to: the head of the schedule, joined
\* from one instance of the controller to the next.
Headed(s) ==
    /\ Prior(s) <= Slots
    /\ \A i \in 1 .. Prior(s) : attempts[s][i].slot = i
    /\ \A i \in 1 .. Prior(s) - 1 : attempts[s][i].after = attempts[s][i + 1].before
Whole(s) == ending[s] # "half" /\ Prior(s) = Slots

\* The service is the one the last record ended with.
Joined(s, instance) == Prior(s) > 0 => instance = attempts[s][Prior(s)].after

\* What a supervisor about to launch, and each runner, has made sure of.
Launching ==
    sup = "launch" =>
        /\ at \in Plan /\ ending[at] # "half" /\ Prior(at) < Slots
        /\ Joined(at, invocation)

AtWork(r) ==
    LET s == session[r] IN
    /\ phase[r] \in {"fresh", "resume"} \cup Working =>
           ending[s] # "half" /\ Prior(s) < Slots
    /\ phase[r] = "fresh" => Prior(s) = 0
    /\ phase[r] \in Working => slot[r] = Prior(s) + 1
    /\ phase[r] \in {"fresh", "resume", "begin"} => Joined(s, invocation)
    /\ phase[r] \in {"trial", "record"} => Joined(s, result[r].before)
    /\ phase[r] = "record" => result[r].slot = slot[r] /\ result[r].after = invocation
    /\ phase[r] = "ok" /\ sup = "wait" /\ child = r => Whole(s)

\* The sessions before the supervisor's, or all of them.
Behind == sup # "down" => \A s \in 1 .. at - 1 : Whole(s)
AtTheEnd ==
    /\ sup # "down" \/ completed => started
    /\ completed => sup = "down" /\ \A s \in Plan : Whole(s)

Ordered ==
    /\ OneAtWork /\ Launching /\ Behind /\ AtTheEnd
    /\ \A s \in Plan : Headed(s)
    /\ \A r \in Runners : AtWork(r)

IInv == Types /\ (~orphaned => Ordered)

-----------------------------------------------------------------------------
(* Facts about records and runners                                         *)

\* A runner that is not at work and not waited for has nothing to keep.
LEMMA RestingIsAtWork ==
    ASSUME NEW r, phase[r] \in Resting, ~(sup = "wait" /\ child = r)
    PROVE  AtWork(r)
BY DEF AtWork, Working, Resting

\* Only a supervisor that waits has a runner at work.
LEMMA NobodyAtWork ==
    ASSUME Types, OneAtWork, sup # "wait"
    PROVE  \A r \in Runners : phase[r] \in Resting
BY DEF Types, OneAtWork, Alive, Phases, Resting

\* A runner at work is the one the supervisor waits for, and alone.
LEMMA AloneAtWork ==
    ASSUME Types, OneAtWork, NEW r \in Runners, Alive(r)
    PROVE  /\ sup = "wait" /\ child = r /\ session[r] = at /\ at \in Plan
           /\ \A q \in Runners \ {r} : phase[q] \in Resting
<1>1. sup = "wait" /\ child = r /\ session[r] = at
  BY DEF OneAtWork
<1>2. \A q \in Runners \ {r} : ~Alive(q)
  BY <1>1 DEF OneAtWork
<1> QED
  BY <1>1, <1>2 DEF Types, Alive, Phases, Resting

\* The next record of the schedule, appended, keeps every session headed.
LEMMA AppendedKeepsHead ==
    ASSUME Types, CampaignAssumption, NEW r \in Runners, Appended(r),
           \A s \in Plan : Headed(s), Prior(session[r]) < Slots,
           result[r].slot = Prior(session[r]) + 1, Joined(session[r], result[r].before)
    PROVE  /\ attempts' \in [Plan -> Seq(AnyRecord)]
           /\ \A s \in Plan \ {session[r]} : attempts'[s] = attempts[s]
           /\ Len(attempts'[session[r]]) = Prior(session[r]) + 1
           /\ attempts'[session[r]][Prior(session[r]) + 1] = result[r]
           /\ \A s \in Plan : Headed(s)'
<1> DEFINE s == session[r]
           old == attempts[s]
           new == attempts'[s]
<1>1. /\ s \in Plan /\ old \in Seq(AnyRecord) /\ result[r] \in AnyRecord
      /\ attempts' = [attempts EXCEPT ![s] = Append(old, result[r])]
  BY DEF Types, Appended
<1>2. new = Append(old, result[r]) /\ \A t \in Plan \ {s} : attempts'[t] = attempts[t]
  BY <1>1 DEF Types
<1>3. /\ new \in Seq(AnyRecord) /\ Len(new) = Len(old) + 1 /\ Len(old) \in Nat
      /\ \A i \in 1 .. Len(old) : new[i] = old[i]
      /\ new[Len(old) + 1] = result[r]
  BY <1>1, <1>2, AppendProperties, LenProperties
<1>4. attempts' \in [Plan -> Seq(AnyRecord)]
  BY <1>1, <1>2, <1>3 DEF Types
<1>5. Len(old) < Slots /\ Slots \in Nat
  BY DEF Prior, CampaignAssumption
<1>6. \A i \in 1 .. Len(new) : new[i].slot = i
  <2>1. \A i \in 1 .. Len(old) : old[i].slot = i
    BY <1>1 DEF Headed, Prior
  <2>2. result[r].slot = Len(old) + 1
    BY DEF Prior
  <2>3. \A i \in 1 .. Len(new) : i \in 1 .. Len(old) \/ i = Len(old) + 1
    BY <1>3
  <2> QED
    BY <1>3, <2>1, <2>2, <2>3
<1>7. \A i \in 1 .. Len(new) - 1 : new[i].after = new[i + 1].before
  <2>1. \A i \in 1 .. Len(old) - 1 : old[i].after = old[i + 1].before
    BY <1>1 DEF Headed, Prior
  <2>2. Len(old) > 0 => old[Len(old)].after = result[r].before
    BY DEF Joined, Prior
  <2>3. \A i \in 1 .. Len(new) - 1 :
          \/ i \in 1 .. Len(old) - 1 /\ i \in 1 .. Len(old) /\ i + 1 \in 1 .. Len(old)
          \/ i = Len(old) /\ Len(old) > 0 /\ i \in 1 .. Len(old)
    BY <1>3
  <2> QED
    BY <1>3, <2>1, <2>2, <2>3
<1>8. \A t \in Plan : Headed(t)'
  <2> SUFFICES ASSUME NEW t \in Plan PROVE Headed(t)'
    OBVIOUS
  <2>1. CASE t = s
    <3>1. Len(new) <= Slots
      BY <1>3, <1>5
    <3>2. attempts'[t] = new
      BY <2>1
    <3> HIDE DEF new
    <3> QED
      BY <1>6, <1>7, <3>1, <3>2 DEF Headed, Prior
  <2>2. CASE t # s
    BY <1>2, <2>2 DEF Headed, Prior
  <2> QED
    BY <2>1, <2>2
<1> QED
  BY <1>2, <1>3, <1>4, <1>8 DEF Prior

\* Unless a record or a half of one is written, sessions stay as they are.
LEMMA SessionsStay ==
    ASSUME UNCHANGED <<attempts, ending>>
    PROVE  \A s \in Plan : /\ Prior(s)' = Prior(s)
                           /\ Headed(s) => Headed(s)'
                           /\ Whole(s) => Whole(s)'
BY DEF Prior, Headed, Whole

-----------------------------------------------------------------------------
(* The types                                                               *)

\* A campaign that has not begun has no records.
LEMMA InitHolds ==
    ASSUME Init, CampaignAssumption
    PROVE  IInv
<1> USE DEF Init
<1>1. <<>> \in Seq(AnyRecord) /\ Len(<<>>) = 0
  BY EmptySeq
<1>2. NoRecord \in AnyRecord
  BY DEF NoRecord, Record, AnyRecord, Outcomes
<1>3. 1 \in Plan /\ 1 \in 1 .. Slots
  BY DEF CampaignAssumption, Plan
<1>4. Types
  BY <1>1, <1>2, <1>3, CampaignAssumption DEF Types, Phases, Resting, Endings, CampaignAssumption
<1>5. \A s \in Plan : Headed(s)
  BY <1>1, CampaignAssumption DEF Headed, Prior, CampaignAssumption
<1>6. \A r \in Runners : AtWork(r)
  BY RestingIsAtWork DEF Resting
<1> QED
  BY <1>4, <1>5, <1>6 DEF IInv, Ordered, OneAtWork, Launching, Behind, AtTheEnd, Alive

\* What processes that are gone, or records that are cut off, leave behind.
LEMMA GoneTypes ==
    ASSUME Types, CampaignAssumption, NEW rs, Gone(rs)
    PROVE  /\ phase' \in [Runners -> Phases] /\ session' \in [Runners -> Plan]
           /\ slot' \in [Runners -> 1 .. Slots] /\ result' \in [Runners -> AnyRecord]
<1>1. NoRecord \in AnyRecord
  BY DEF NoRecord, Record, AnyRecord, Outcomes
<1>2. 1 \in Plan /\ 1 \in 1 .. Slots /\ "none" \in Phases
  BY DEF CampaignAssumption, Plan, Phases, Resting
<1> QED
  BY <1>1, <1>2 DEF Types, Gone

\* A record that is appended keeps the types.
LEMMA AppendedTypes ==
    ASSUME Types, NEW r \in Runners, Appended(r)
    PROVE  attempts' \in [Plan -> Seq(AnyRecord)]
<1>1. session[r] \in Plan /\ attempts[session[r]] \in Seq(AnyRecord) /\ result[r] \in AnyRecord
  BY DEF Types
<1>2. Append(attempts[session[r]], result[r]) \in Seq(AnyRecord)
  BY <1>1, AppendProperties
<1> QED
  BY <1>1, <1>2 DEF Types, Appended

\* So does the end it leaves.
LEMMA EndsTypes ==
    ASSUME Types, NEW r \in Runners, NEW left \in Endings, Ends(r, left)
    PROVE  ending' \in [Plan -> Endings]
BY DEF Types, Ends, Endings

\* What runners that stop leave of their records and of the ledger keeps the types.
LEMMA LeaveTypes ==
    ASSUME Types, NEW rs \in SUBSET Runners, LeaveRecords(rs), LeaveLedger(rs)
    PROVE  /\ attempts' \in [Plan -> Seq(AnyRecord)]
           /\ ending' \in [Plan -> Endings] /\ ledger' \in Nat
<1>1. ledger' \in Nat
  BY DEF LeaveLedger, Types
<1>2. CASE UNCHANGED <<attempts, ending>>
  BY <1>1, <1>2 DEF Types
<1>3. CASE \E r \in rs : Appended(r) /\ \E left \in {"line", "unended"} : Ends(r, left)
  BY <1>1, <1>3, AppendedTypes, EndsTypes DEF Endings
<1>4. CASE \E r \in rs : UNCHANGED attempts /\ Ends(r, "half")
  BY <1>1, <1>4, EndsTypes DEF Types, Endings
<1> QED
  BY <1>2, <1>3, <1>4 DEF LeaveRecords

\* The supervisor's steps keep the types.
LEMMA SupervisorTypes ==
    ASSUME Types, CampaignAssumption, Execute \/ Resume \/ SupervisorStep \/ KillSupervisor
    PROVE  Types'
<1> USE DEF disk, service, supervisor, runner, history
<1>1. 1 \in 1 .. Sessions + 1 /\ (at \in Plan => at + 1 \in 1 .. Sessions + 1) /\ Sessions \in Nat
  BY DEF CampaignAssumption, Types, Plan
<1>2. CASE Execute \/ Resume
  BY <1>1, <1>2 DEF Execute, Resume, Types
<1>3. CASE Finish \/ RefuseSession \/ SystemctlFails \/ KillSupervisor
  <2>1. /\ UNCHANGED <<attempts, ending, ledger, phase, session, slot, result>>
        /\ UNCHANGED service \/ Stopped \/ Started
        /\ sup' = "down" /\ at' = 1
    BY <1>3 DEF Finish, RefuseSession, SystemctlFails, KillSupervisor, Raise
  <2>2. newest' \in Nat /\ invocation' \in Nat
    BY <2>1 DEF Types, Started, Stopped
  <2> QED
    BY <1>1, <2>1, <2>2 DEF Types
<1>4. CASE SkipSession
  BY <1>1, <1>4 DEF SkipSession, Types
<1>5. CASE PrepareSession
  BY <1>5 DEF PrepareSession, Started, Stopped, Types
<1>6. CASE Launch
  <2>1. CASE Raise /\ UNCHANGED <<disk, runner, service, history>>
    BY <1>1, <2>1 DEF Types, Raise
  <2>2. CASE ~(Raise /\ UNCHANGED <<disk, runner, service, history>>)
    <3>1. PICK r \in Runners :
            /\ phase' = [phase EXCEPT ![r] = IF Partial(at) THEN "resume" ELSE "fresh"]
            /\ session' = [session EXCEPT ![r] = at]
            /\ sup = "launch" /\ sup' = "wait"
            /\ UNCHANGED <<attempts, ending, ledger, at, slot, result, invocation, newest>>
      BY <1>6, <2>2 DEF Launch
    <3> QED
      BY <3>1 DEF Types, Phases
  <2> QED
    BY <2>1, <2>2
<1>7. CASE Collect
  <2>1. /\ UNCHANGED <<attempts, ending, ledger, newest, invocation>> /\ Gone({child})
        /\ (sup' = "next" /\ at' = at + 1) \/ (sup' = "down" /\ at' = 1)
        /\ at \in Plan
    BY <1>7 DEF Collect, Raise, Types
  <2> QED
    BY <1>1, <2>1, GoneTypes DEF Types
<1> QED
  BY <1>2, <1>3, <1>4, <1>5, <1>6, <1>7 DEF SupervisorStep

\* A runner's steps keep the types.
LEMMA RunnerTypes ==
    ASSUME Types, CampaignAssumption, NEW r \in Runners, RunnerStep(r)
    PROVE  Types'
<1> USE DEF disk, service, supervisor, history, Become
<1>1. /\ 1 \in 1 .. Slots /\ Slots \in Nat
      /\ {"begin", "trial", "record", "ok", "failed"} \subseteq Phases
      /\ session[r] \in Plan /\ slot[r] \in 1 .. Slots /\ slot[r] \in Nat
      /\ result[r] \in AnyRecord
  BY DEF CampaignAssumption, Phases, Resting, Working, Types
<1>2. CASE BeginSession(r)
  <2>1. /\ \/ phase' = [phase EXCEPT ![r] = "failed"]
           \/ phase' = [phase EXCEPT ![r] = "begin"]
        /\ slot' = slot \/ slot' = [slot EXCEPT ![r] = 1]
        /\ UNCHANGED <<attempts, ending, ledger, session, result>>
        /\ UNCHANGED <<newest, invocation, sup, at>>
    BY <1>2 DEF BeginSession
  <2>2. phase' \in [Runners -> Phases]
    BY <1>1, <2>1 DEF Types
  <2>3. slot' \in [Runners -> 1 .. Slots]
    BY <1>1, <2>1 DEF Types
  <2> QED
    BY <2>1, <2>2, <2>3 DEF Types
<1>3. CASE ResumeSession(r)
  <2>1. Prior(session[r]) \in Nat
    BY <1>1, LenProperties DEF Prior, Types
  <2>2. Prior(session[r]) < Slots => Prior(session[r]) + 1 \in 1 .. Slots
    BY <1>1, <2>1
  <2>3. /\ \/ phase' = [phase EXCEPT ![r] = "failed"] /\ slot' = slot
           \/ /\ phase' = [phase EXCEPT ![r] = "begin"]
              /\ Prior(session[r]) < Slots
              /\ slot' = [slot EXCEPT ![r] = Prior(session[r]) + 1]
        /\ UNCHANGED <<attempts, ending, ledger, session, result>>
        /\ UNCHANGED <<newest, invocation, sup, at>>
    BY <1>3 DEF ResumeSession, Resumable
  <2>4. slot' \in [Runners -> 1 .. Slots]
    BY <2>2, <2>3 DEF Types
  <2>5. phase' \in [Runners -> Phases]
    BY <1>1, <2>3 DEF Types
  <2> QED
    BY <2>3, <2>4, <2>5 DEF Types
<1>4. CASE BeginTrial(r)
  <2>1. ledger' \in Nat /\ Record(slot[r], "served", ledger', invocation, invocation) \in AnyRecord
    BY <1>1, <1>4 DEF BeginTrial, Record, AnyRecord, Outcomes, Types
  <2> QED
    BY <1>1, <1>4, <2>1 DEF BeginTrial, Types
<1>5. CASE EndTrial(r)
  <2>1. PICK outcome \in Outcomes :
          /\ Started \/ Stopped \/ UNCHANGED service
          /\ result' = [result EXCEPT
               ![r] = Record(slot[r], outcome, result[r].id, result[r].before, invocation')]
          /\ phase' = [phase EXCEPT ![r] = "record"]
          /\ UNCHANGED <<attempts, ending, ledger, session, slot, sup, at>>
    BY <1>5 DEF EndTrial
  <2>2. newest' \in Nat /\ invocation' \in Nat
    BY <2>1 DEF Types, Started, Stopped
  <2>3. Record(slot[r], outcome, result[r].id, result[r].before, invocation') \in AnyRecord
    BY <1>1, <2>2 DEF Record, AnyRecord
  <2> QED
    BY <1>1, <2>1, <2>2, <2>3 DEF Types
<1>6. CASE AbortTrial(r)
  BY <1>1, <1>6 DEF AbortTrial, Types
<1>7. CASE RecordTrial(r)
  <2>1. attempts' \in [Plan -> Seq(AnyRecord)] /\ ending' \in [Plan -> Endings]
    BY <1>7, AppendedTypes, EndsTypes DEF RecordTrial, Endings
  <2>2. /\ \E p \in {"begin", "ok", "failed"} : phase' = [phase EXCEPT ![r] = p]
        /\ \/ slot' = slot
           \/ slot[r] # Slots /\ slot' = [slot EXCEPT ![r] = slot[r] + 1]
        /\ UNCHANGED <<ledger, session, result, newest, invocation, sup, at>>
    BY <1>7 DEF RecordTrial
  <2>3. slot[r] # Slots => slot[r] + 1 \in 1 .. Slots
    BY <1>1
  <2>4. slot' \in [Runners -> 1 .. Slots]
    BY <2>2, <2>3 DEF Types
  <2>5. phase' \in [Runners -> Phases]
    BY <1>1, <2>2 DEF Types
  <2> QED
    BY <2>1, <2>2, <2>4, <2>5 DEF Types
<1>8. CASE Reaped(r)
  BY <1>8, GoneTypes DEF Reaped, Types
<1> QED
  BY <1>2, <1>3, <1>4, <1>5, <1>6, <1>7, <1>8 DEF RunnerStep

\* Kills and power losses keep the types.
LEMMA StopTypes ==
    ASSUME Types, CampaignAssumption, (\E r \in Runners : KillRunner(r)) \/ StopAll
    PROVE  Types'
<1> USE DEF service, supervisor
<1>1. 1 \in 1 .. Sessions + 1
  BY DEF CampaignAssumption
<1>2. CASE \E r \in Runners : KillRunner(r)
  <2>1. PICK r \in Runners : KillRunner(r)
    BY <1>2
  <2>2. /\ attempts' \in [Plan -> Seq(AnyRecord)]
        /\ ending' \in [Plan -> Endings] /\ ledger' \in Nat
    BY <2>1, LeaveTypes DEF KillRunner
  <2> QED
    BY <2>1, <2>2 DEF KillRunner, Become, Types, Phases, Resting
<1>3. CASE StopAll
  <2>1. /\ attempts' \in [Plan -> Seq(AnyRecord)]
        /\ ending' \in [Plan -> Endings] /\ ledger' \in Nat
    BY <1>3, LeaveTypes DEF StopAll
  <2>2. Gone(Runners) /\ newest' = newest /\ invocation' \in {invocation, 0}
    BY <1>3 DEF StopAll, Stopped
  <2>3. sup' = "down" /\ at' = 1
    BY <1>3 DEF StopAll, Raise
  <2> QED
    BY <1>1, <2>1, <2>2, <2>3, GoneTypes DEF Types
<1> QED
  BY <1>2, <1>3

-----------------------------------------------------------------------------
(* The order                                                               *)

\* The supervisor between two runners.
LEMMA BetweenRunners ==
    ASSUME Types, Types', Ordered, CampaignAssumption,
           \/ Execute \/ Resume \/ Finish \/ SkipSession \/ RefuseSession
           \/ PrepareSession \/ SystemctlFails
    PROVE  Ordered'
<1> USE DEF Ordered, disk, service, runner, history
<1>1. /\ sup \in {"down", "next"} /\ sup' \in {"down", "next", "launch"}
      /\ UNCHANGED <<attempts, ending, phase, session, slot, result>>
      /\ sup = "down" => sup' = "next"
  BY DEF Execute, Resume, Finish, SkipSession, RefuseSession, PrepareSession, SystemctlFails,
         Unread, Raise
<1>2. \A r \in Runners : phase[r] \in Resting
  BY <1>1, NobodyAtWork
<1>3. \A s \in Plan : Headed(s)' /\ (Whole(s) => Whole(s)')
  BY <1>1, SessionsStay
<1>4. OneAtWork'
  BY <1>1, <1>2 DEF OneAtWork, Alive, Resting
<1>5. \A r \in Runners : AtWork(r)'
  BY <1>1, <1>2 DEF AtWork, Working, Resting
<1>6. Launching'
  <2>1. CASE PrepareSession
    <3>1. /\ at \in Plan /\ at' = at /\ ending[at] # "half"
          /\ \/ Partial(at) /\ SameService(at) /\ UNCHANGED invocation
             \/ Prior(at) = 0
      BY <2>1 DEF PrepareSession, Readable
    <3>2. Prior(at) <= Slots /\ Prior(at) \in Nat /\ Slots \in Nat \ {0}
      BY <3>1, LenProperties DEF Headed, Prior, Types, CampaignAssumption
    <3>3. Prior(at) < Slots
      BY <3>1, <3>2 DEF Partial
    <3>4. Joined(at, invocation)'
      BY <1>1, <3>1, <3>2 DEF SameService, Joined, Prior
    <3> QED
      BY <1>1, <3>1, <3>3, <3>4 DEF Launching, Prior
  <2>2. CASE ~PrepareSession
    BY <1>1, <2>2 DEF Launching, Execute, Resume, Finish, SkipSession, RefuseSession,
                      SystemctlFails, Raise
  <2> QED
    BY <2>1, <2>2
<1>7. Behind'
  <2>1. CASE SkipSession
    <3>1. at \in Plan /\ at' = at + 1 /\ Whole(at) /\ sup = "next"
      BY <2>1 DEF SkipSession, Whole, Prior, Readable
    <3>2. \A s \in 1 .. at' - 1 : s \in Plan /\ (s \in 1 .. at - 1 \/ s = at)
      BY <3>1 DEF Plan, CampaignAssumption
    <3> QED
      BY <1>3, <3>1, <3>2 DEF Behind
  <2>2. CASE Execute \/ Resume \/ Finish \/ RefuseSession \/ SystemctlFails
    BY <2>2 DEF Execute, Resume, Finish, RefuseSession, SystemctlFails, Raise, Behind
  <2>3. CASE PrepareSession
    <3>1. \A s \in 1 .. at - 1 : s \in Plan
      BY <2>3 DEF PrepareSession, Plan, CampaignAssumption
    <3> QED
      BY <1>3, <2>3, <3>1 DEF PrepareSession, Behind
  <2> QED
    BY <2>1, <2>2, <2>3
<1>8. AtTheEnd'
  <2>1. CASE Finish
    <3>1. \A s \in Plan : s \in 1 .. at - 1
      BY <2>1 DEF Finish, Plan, Types, CampaignAssumption
    <3> QED
      BY <1>3, <2>1, <3>1 DEF Finish, Raise, Behind, AtTheEnd
  <2>2. CASE \/ Execute \/ Resume \/ SkipSession \/ RefuseSession
             \/ PrepareSession \/ SystemctlFails
    BY <2>2 DEF Execute, Resume, SkipSession, RefuseSession, PrepareSession, SystemctlFails,
                Unread, Raise, AtTheEnd
  <2> QED
    BY <2>1, <2>2
<1> QED
  BY <1>3, <1>4, <1>5, <1>6, <1>7, <1>8

\* The supervisor launches a runner, or finds the console log of an earlier one.
LEMMA LaunchOrdered ==
    ASSUME Types, Types', Ordered, CampaignAssumption, Launch
    PROVE  Ordered'
<1> USE DEF Ordered, disk, service, runner, history
<1>1. /\ sup = "launch" /\ at \in Plan /\ UNCHANGED <<attempts, ending, invocation, completed, started>>
  BY DEF Launch, Types
<1>2. \A r \in Runners : phase[r] \in Resting
  BY <1>1, NobodyAtWork
<1>3. \A s \in Plan : Headed(s)' /\ (Whole(s) => Whole(s)')
  BY <1>1, SessionsStay
<1>4. CASE Raise /\ UNCHANGED <<disk, runner>>
  <2>1. OneAtWork' /\ Launching' /\ Behind' /\ AtTheEnd'
    BY <1>1, <1>2, <1>4 DEF Raise, OneAtWork, Launching, Behind, AtTheEnd, Alive, Resting
  <2>2. \A r \in Runners : AtWork(r)'
    BY <1>2, <1>4 DEF AtWork, Working, Resting, Raise
  <2> QED
    BY <1>3, <2>1, <2>2
<1>5. ASSUME NEW r \in Runners,
             phase' = [phase EXCEPT ![r] = IF Partial(at) THEN "resume" ELSE "fresh"],
             session' = [session EXCEPT ![r] = at],
             child' = r, sup' = "wait", UNCHANGED <<at, slot, result>>
      PROVE  Ordered'
  <2>1. /\ phase'[r] \in {"resume", "fresh"} /\ session'[r] = at
        /\ (phase'[r] = "fresh" <=> ~Partial(at))
        /\ \A q \in Runners \ {r} : phase'[q] \in Resting
    BY <1>2, <1>5 DEF Types
  <2>2. OneAtWork'
    BY <1>5, <2>1 DEF OneAtWork, Alive, Resting
  <2>3. ending[at] # "half" /\ Prior(at) < Slots /\ Joined(at, invocation)
    BY <1>1 DEF Launching
  <2>4. phase'[r] = "fresh" => Prior(at) = 0
    BY <2>1, <2>3, LenProperties DEF Partial, CampaignAssumption
  <2>5. AtWork(r)'
    BY <1>1, <1>5, <2>1, <2>3, <2>4 DEF AtWork, Working, Joined, Prior
  <2>6. \A q \in Runners \ {r} : AtWork(q)'
    BY <1>5, <2>1 DEF AtWork, Working, Resting
  <2>7. \A s \in 1 .. at - 1 : s \in Plan
    BY <1>1 DEF Plan, CampaignAssumption
  <2>8. Launching' /\ Behind' /\ AtTheEnd'
    BY <1>1, <1>3, <1>5, <2>7 DEF Launching, Behind, AtTheEnd
  <2> QED
    BY <1>3, <2>2, <2>5, <2>6, <2>8
<1> QED
  BY <1>4, <1>5 DEF Launch

\* The supervisor's runner has ended.
LEMMA CollectOrdered ==
    ASSUME Types, Types', Ordered, CampaignAssumption, Collect
    PROVE  Ordered'
<1> USE DEF Ordered, disk, service, history
<1>1. /\ sup = "wait" /\ at \in Plan /\ phase[child] \in {"ok", "failed"} /\ Gone({child})
      /\ UNCHANGED <<attempts, ending, invocation, completed, started>>
  BY DEF Collect, Types
<1>2. child \in Runners /\ session[child] = at
  BY <1>1 DEF OneAtWork
<1>3. \A r \in Runners : phase'[r] \in Resting
  <2>1. \A r \in Runners : phase[r] \in Resting
    BY <1>1 DEF OneAtWork, Alive, Types, Phases, Resting
  <2> QED
    BY <1>1, <2>1 DEF Gone, Resting
<1>4. \A s \in Plan : Headed(s)' /\ (Whole(s) => Whole(s)')
  BY <1>1, SessionsStay
<1>5. sup' \in {"next", "down"}
  BY DEF Collect, Raise
<1>6. \A r \in Runners : AtWork(r)'
  BY <1>3, <1>5 DEF AtWork, Working, Resting
<1>7. OneAtWork' /\ Launching' /\ AtTheEnd'
  BY <1>1, <1>3, <1>5 DEF OneAtWork, Launching, AtTheEnd, Alive, Resting
<1>8. Behind'
  <2>1. CASE sup' = "next"
    <3>1. at' = at + 1 /\ Whole(at)
      BY <1>1, <1>2, <2>1 DEF Collect, Raise, AtWork
    <3>2. \A s \in 1 .. at' - 1 : s \in Plan /\ (s \in 1 .. at - 1 \/ s = at)
      BY <1>1, <3>1 DEF Plan, CampaignAssumption
    <3> QED
      BY <1>1, <1>4, <3>1, <3>2 DEF Behind
  <2>2. CASE sup' = "down"
    BY <2>2 DEF Behind
  <2> QED
    BY <1>5, <2>1, <2>2
<1> QED
  BY <1>4, <1>6, <1>7, <1>8

\* A runner's steps that write no record.
LEMMA RunnerOrdered ==
    ASSUME Types, Types', Ordered, CampaignAssumption, NEW r \in Runners,
           BeginSession(r) \/ ResumeSession(r) \/ BeginTrial(r) \/ EndTrial(r) \/ AbortTrial(r)
    PROVE  Ordered'
<1> USE DEF Ordered, disk, service, supervisor, history
<1>1. /\ Alive(r) /\ UNCHANGED <<attempts, ending, completed, started, session, supervisor>>
      /\ r \in DOMAIN phase
  BY DEF BeginSession, ResumeSession, BeginTrial, EndTrial, AbortTrial, Alive, Types
<1>2. /\ sup = "wait" /\ child = r /\ session[r] = at /\ at \in Plan
      /\ \A q \in Runners \ {r} : phase[q] \in Resting
  BY <1>1, AloneAtWork
<1>3. \A s \in Plan : Headed(s)' /\ (Whole(s) => Whole(s)')
  BY <1>1, SessionsStay
<1>4. \A q \in Runners \ {r} : phase'[q] = phase[q]
  BY DEF BeginSession, ResumeSession, BeginTrial, EndTrial, AbortTrial, Become, Types
<1>5. phase'[r] \in {"begin", "trial", "record", "failed"}
  BY <1>1 DEF BeginSession, ResumeSession, BeginTrial, EndTrial, AbortTrial, Become
<1>6. OneAtWork' /\ Launching' /\ AtTheEnd'
  BY <1>1, <1>2, <1>4, <1>5 DEF OneAtWork, Launching, AtTheEnd, Alive, Resting
<1>7. Behind'
  <2>1. \A s \in 1 .. at - 1 : s \in Plan
    BY <1>2 DEF Plan, CampaignAssumption
  <2> QED
    BY <1>1, <1>2, <1>3, <2>1 DEF Behind
<1>8. \A q \in Runners \ {r} : AtWork(q)'
  BY <1>1, <1>2, <1>4 DEF AtWork, Working, Resting
<1>9. AtWork(r)'
  <2>1. CASE phase'[r] = "failed"
    BY <2>1 DEF AtWork, Working
  <2>2. CASE BeginSession(r) /\ phase'[r] # "failed"
    <3>1. phase[r] = "fresh" /\ phase'[r] = "begin" /\ slot'[r] = 1 /\ UNCHANGED invocation
      BY <1>1, <2>2 DEF BeginSession, Become, Types
    <3> QED
      BY <1>1, <3>1 DEF AtWork, Working, Joined, Prior
  <2>3. CASE ResumeSession(r) /\ phase'[r] # "failed"
    <3>1. /\ phase[r] = "resume" /\ phase'[r] = "begin" /\ UNCHANGED invocation
          /\ slot'[r] = Prior(session[r]) + 1
      BY <1>1, <2>3 DEF ResumeSession, Become, Types
    <3> QED
      BY <1>1, <3>1 DEF AtWork, Working, Joined, Prior
  <2>4. CASE BeginTrial(r)
    <3>1. /\ phase[r] = "begin" /\ phase'[r] = "trial" /\ UNCHANGED <<invocation, slot>>
          /\ result'[r] = Record(slot[r], "served", ledger', invocation, invocation)
      BY <1>1, <2>4 DEF BeginTrial, Become, Types
    <3> QED
      BY <1>1, <3>1 DEF AtWork, Working, Joined, Prior, Record
  <2>5. CASE EndTrial(r)
    <3>1. /\ phase[r] = "trial" /\ phase'[r] = "record" /\ UNCHANGED slot
          /\ result'[r].slot = slot[r] /\ result'[r].before = result[r].before
          /\ result'[r].after = invocation'
      BY <1>1, <2>5 DEF EndTrial, Become, Types, Record
    <3> QED
      BY <1>1, <3>1 DEF AtWork, Working, Joined, Prior
  <2>6. CASE AbortTrial(r)
    BY <1>1, <2>1, <2>6 DEF AbortTrial, Become
  <2> QED
    BY <2>1, <2>2, <2>3, <2>4, <2>5, <2>6
<1> QED
  BY <1>3, <1>6, <1>7, <1>8, <1>9

\* The record a runner holds is the next one of its session.
LEMMA NextRecord ==
    ASSUME Types, Ordered, CampaignAssumption, NEW r \in Runners, phase[r] = "record"
    PROVE  /\ Alive(r) /\ session[r] \in Plan /\ ending[session[r]] # "half"
           /\ Prior(session[r]) < Slots /\ Prior(session[r]) \in Nat
           /\ result[r].slot = Prior(session[r]) + 1 /\ slot[r] = Prior(session[r]) + 1
           /\ Joined(session[r], result[r].before) /\ result[r].after = invocation
<1>1. session[r] \in Plan /\ Prior(session[r]) \in Nat
  BY LenProperties DEF Types, Prior
<1> QED
  BY <1>1 DEF Ordered, AtWork, Working, Alive

\* A record that is written is the next of its session.
LEMMA RecordOrdered ==
    ASSUME Types, Types', Ordered, CampaignAssumption, NEW r \in Runners, RecordTrial(r)
    PROVE  Ordered'
<1> USE DEF Ordered, service, supervisor, history
<1> DEFINE s == session[r]
<1>1. /\ phase[r] = "record" /\ Appended(r) /\ Ends(r, "line")
      /\ UNCHANGED <<completed, started, session, result, invocation, supervisor>>
  BY DEF RecordTrial
<1>2. /\ Alive(r) /\ s \in Plan /\ ending[s] # "half" /\ Prior(s) < Slots /\ Prior(s) \in Nat
      /\ slot[r] = Prior(s) + 1 /\ result[r].slot = Prior(s) + 1
      /\ Joined(s, result[r].before) /\ result[r].after = invocation
  BY <1>1, NextRecord
<1>3. /\ sup = "wait" /\ child = r /\ s = at /\ at \in Plan
      /\ \A q \in Runners \ {r} : phase[q] \in Resting
  BY <1>2, AloneAtWork
<1>4. /\ \A t \in Plan \ {s} : attempts'[t] = attempts[t]
      /\ Len(attempts'[s]) = Prior(s) + 1 /\ attempts'[s][Prior(s) + 1] = result[r]
      /\ \A t \in Plan : Headed(t)'
  BY <1>1, <1>2, AppendedKeepsHead
<1>10. /\ \A t \in Plan \ {s} : ending'[t] = ending[t]
       /\ ending'[s] # "half"
  BY <1>1, <1>2 DEF Ends, Types
<1>5. /\ \A q \in Runners \ {r} : phase'[q] = phase[q]
      /\ \/ phase'[r] = "failed"
         \/ phase'[r] = "ok" /\ slot[r] = Slots
         \/ phase'[r] = "begin" /\ slot[r] # Slots /\ slot'[r] = slot[r] + 1
  BY DEF RecordTrial, Become, Types
<1>6. OneAtWork' /\ Launching' /\ AtTheEnd'
  BY <1>1, <1>3, <1>5 DEF OneAtWork, Launching, AtTheEnd, Alive, Resting
<1>7. Behind'
  <2>1. \A t \in 1 .. at - 1 : t \in Plan /\ t # at
    BY <1>3 DEF Plan, CampaignAssumption
  <2> QED
    BY <1>1, <1>3, <1>4, <1>10, <2>1 DEF Behind, Whole, Prior
<1>8. \A q \in Runners \ {r} : AtWork(q)'
  BY <1>1, <1>3, <1>5 DEF AtWork, Working, Resting
<1>9. AtWork(r)'
  <2>1. Prior(s)' = Prior(s) + 1 /\ session' = session
    BY <1>1, <1>4 DEF Prior
  <2>2. Joined(s, invocation)'
    BY <1>1, <1>2, <1>4, <2>1 DEF Joined, Prior
  <2>3. Slots \in Nat
    BY DEF CampaignAssumption
  <2>4. CASE phase'[r] = "failed"
    BY <2>4 DEF AtWork, Working
  <2>5. CASE phase'[r] = "ok"
    BY <1>1, <1>2, <1>5, <1>10, <2>1, <2>5 DEF AtWork, Working, Whole
  <2>6. CASE phase'[r] = "begin"
    BY <1>1, <1>2, <1>5, <1>10, <2>1, <2>2, <2>3, <2>6 DEF AtWork, Working
  <2> QED
    BY <1>5, <2>4, <2>5, <2>6
<1> QED
  BY <1>4, <1>6, <1>7, <1>8, <1>9

\* A runner that is gone, or a supervisor that had none at work.
LEMMA LeavingOrdered ==
    ASSUME Types, Types', Ordered, CampaignAssumption,
           \/ \E r \in Runners : Reaped(r)
           \/ KillSupervisor /\ ~orphaned'
    PROVE  Ordered'
<1> USE DEF Ordered, disk, service, runner, supervisor, history
<1>1. UNCHANGED <<attempts, ending, completed, started, invocation>>
  BY DEF Reaped, KillSupervisor
<1>2. \A s \in Plan : Headed(s)' /\ (Whole(s) => Whole(s)')
  BY <1>1, SessionsStay
<1>3. CASE \E r \in Runners : Reaped(r)
  <2>1. PICK r \in Runners : Reaped(r)
    BY <1>3
  <2>2. /\ phase[r] \in Resting /\ phase'[r] = "none" /\ ~(sup = "wait" /\ child = r)
        /\ UNCHANGED supervisor
        /\ \A q \in Runners \ {r} : /\ phase'[q] = phase[q] /\ session'[q] = session[q]
                                    /\ slot'[q] = slot[q] /\ result'[q] = result[q]
    BY <2>1 DEF Reaped, Gone, Resting
  <2>3. OneAtWork'
    BY <2>2 DEF OneAtWork, Alive
  <2>4. \A q \in Runners : AtWork(q)'
    <3> SUFFICES ASSUME NEW q \in Runners PROVE AtWork(q)'
      OBVIOUS
    <3>1. CASE q = r
      BY <2>2, <3>1 DEF AtWork, Working
    <3>2. CASE q # r
      <4>1. AtWork(q)
        OBVIOUS
      <4> QED
        BY <1>1, <2>2, <3>2, <4>1 DEF AtWork, Whole, Joined, Prior
    <3> QED
      BY <3>1, <3>2
  <2>5. Behind'
    <3>1. sup # "down" => \A s \in 1 .. at - 1 : s \in Plan
      BY DEF Types, Plan, CampaignAssumption
    <3> QED
      BY <1>1, <1>2, <2>2, <3>1 DEF Behind
  <2> QED
    BY <1>1, <1>2, <2>2, <2>3, <2>4, <2>5 DEF Launching, AtTheEnd, Joined, Prior
<1>4. CASE KillSupervisor /\ ~orphaned'
  <2>1. /\ sup # "down" /\ sup' = "down" /\ UNCHANGED runner
        /\ ~(sup = "wait" /\ Alive(child))
    BY <1>4 DEF KillSupervisor, Raise
  <2>2. \A r \in Runners : phase[r] \in Resting
    BY <2>1 DEF OneAtWork, Alive, Types, Phases, Resting
  <2> QED
    BY <1>1, <1>2, <2>1, <2>2 DEF OneAtWork, Launching, Behind, AtTheEnd, AtWork, Alive,
                                  Working, Resting
<1> QED
  BY <1>3, <1>4

\* What a stop leaves of a record that was being written.
LEMMA LeavingKeepsHead ==
    ASSUME Types, Ordered, CampaignAssumption, NEW rs \in SUBSET Runners, LeaveRecords(rs)
    PROVE  /\ \A s \in Plan : Headed(s)'
           /\ \A s \in Plan :
                (\A r \in rs : phase[r] = "record" => session[r] # s) =>
                    attempts'[s] = attempts[s] /\ ending'[s] = ending[s]
<1>1. CASE UNCHANGED <<attempts, ending>>
  BY <1>1, SessionsStay DEF Ordered
<1>2. CASE \E r \in rs : /\ phase[r] = "record" /\ Appended(r)
                         /\ \E left \in {"line", "unended"} : Ends(r, left)
  <2>1. PICK r \in rs : /\ phase[r] = "record" /\ Appended(r)
                        /\ \E left \in {"line", "unended"} : Ends(r, left)
    BY <1>2
  <2>2. /\ Prior(session[r]) < Slots /\ session[r] \in Plan
        /\ result[r].slot = Prior(session[r]) + 1 /\ Joined(session[r], result[r].before)
    BY <2>1, NextRecord
  <2>3. /\ \A s \in Plan \ {session[r]} : attempts'[s] = attempts[s]
        /\ \A s \in Plan : Headed(s)'
    BY <2>1, <2>2, AppendedKeepsHead DEF Ordered
  <2>4. \A s \in Plan \ {session[r]} : ending'[s] = ending[s]
    BY <2>1 DEF Ends, Types
  <2> QED
    BY <2>1, <2>3, <2>4
<1>3. CASE \E r \in rs : phase[r] = "record" /\ UNCHANGED attempts /\ Ends(r, "half")
  <2>1. \A s \in Plan : Headed(s)'
    BY <1>3 DEF Headed, Prior, Ordered
  <2> QED
    BY <1>3, <2>1 DEF Ends, Types
<1> QED
  BY <1>1, <1>2, <1>3 DEF LeaveRecords

\* Kills and power losses keep the order of the records.
LEMMA StopOrdered ==
    ASSUME Types, Types', Ordered, CampaignAssumption,
           (\E r \in Runners : KillRunner(r)) \/ StopAll
    PROVE  Ordered'
<1> USE DEF Ordered, service, supervisor
<1>1. CASE \E r \in Runners : KillRunner(r)
  <2>1. PICK r \in Runners : KillRunner(r)
    BY <1>1
  <2>2. /\ Alive(r) /\ LeaveRecords({r}) /\ phase' = [phase EXCEPT ![r] = "failed"]
        /\ UNCHANGED <<started, completed, session, slot, result, invocation, supervisor>>
    BY <2>1 DEF KillRunner, Become
  <2>3. /\ sup = "wait" /\ child = r /\ session[r] = at /\ at \in Plan
        /\ \A q \in Runners \ {r} : phase[q] \in Resting
    BY <2>2, AloneAtWork
  <2>4. /\ \A s \in Plan : Headed(s)'
        /\ \A s \in Plan : s # at => attempts'[s] = attempts[s] /\ ending'[s] = ending[s]
    BY <2>2, <2>3, LeavingKeepsHead
  <2>5. phase'[r] = "failed" /\ \A q \in Runners \ {r} : phase'[q] = phase[q]
    BY <2>2 DEF Types
  <2>6. OneAtWork' /\ Launching' /\ AtTheEnd'
    BY <2>2, <2>3, <2>5 DEF OneAtWork, Launching, AtTheEnd, Alive, Resting
  <2>7. Behind'
    <3>1. \A s \in 1 .. at - 1 : s \in Plan /\ s # at
      BY <2>3 DEF Plan, CampaignAssumption
    <3> QED
      BY <2>2, <2>3, <2>4, <3>1 DEF Behind, Whole, Prior
  <2>8. \A q \in Runners : AtWork(q)'
    BY <2>2, <2>3, <2>5 DEF AtWork, Working, Resting
  <2> QED
    BY <2>4, <2>6, <2>7, <2>8
<1>2. CASE StopAll
  <2>1. /\ LeaveRecords(Runners) /\ Gone(Runners) /\ sup' = "down"
        /\ sup # "down" \/ \E r \in Runners : Alive(r)
        /\ UNCHANGED <<started, completed>>
    BY <1>2 DEF StopAll, Raise
  <2>2. \A s \in Plan : Headed(s)'
    BY <2>1, LeavingKeepsHead
  <2>3. \A r \in Runners : phase'[r] = "none"
    BY <2>1 DEF Gone
  <2>4. ~completed
    BY <2>1 DEF AtTheEnd, OneAtWork
  <2>5. \A r \in Runners : AtWork(r)'
    BY <2>3 DEF AtWork, Working
  <2> QED
    BY <2>1, <2>2, <2>3, <2>4, <2>5 DEF OneAtWork, Launching, Behind, AtTheEnd, Alive
<1> QED
  BY <1>1, <1>2

\* Every step keeps the invariant.
LEMMA StepHolds ==
    ASSUME IInv, CampaignAssumption, [Next]_vars
    PROVE  IInv'
<1> USE DEF IInv
<1>1. CASE UNCHANGED vars
  <2>1. Types'
    BY <1>1 DEF vars, Types
  <2>2. (\A s \in Plan : Headed(s)) => \A s \in Plan : Headed(s)'
    BY <1>1 DEF vars, Headed, Prior
  <2>3. (\A r \in Runners : AtWork(r)) => \A r \in Runners : AtWork(r)'
    BY <1>1 DEF vars, AtWork, Joined, Whole, Prior
  <2>4. ~orphaned => OneAtWork' /\ Launching' /\ Behind' /\ AtTheEnd'
    BY <1>1 DEF vars, Ordered, OneAtWork, Launching, Behind, AtTheEnd, Joined, Whole, Prior, Alive
  <2> QED
    BY <1>1, <2>1, <2>2, <2>3, <2>4 DEF vars, Ordered
<1>2. CASE Next
  <2>1. Types'
    BY <1>2, SupervisorTypes, RunnerTypes, StopTypes DEF Next
  <2>2. orphaned \/ orphaned' \/ Ordered
    OBVIOUS
  <2>3. CASE orphaned
    <3> USE DEF history
    <3>1. Execute \/ Resume \/ SupervisorStep => orphaned'
      BY <2>3 DEF SupervisorStep, Execute, Resume, Finish, SkipSession, RefuseSession,
                        PrepareSession, SystemctlFails, Launch, Collect
    <3>2. (\E r \in Runners : RunnerStep(r) \/ KillRunner(r)) => orphaned'
      BY <2>3 DEF RunnerStep, BeginSession, ResumeSession, BeginTrial, EndTrial,
                        AbortTrial, RecordTrial, Reaped, KillRunner
    <3>3. KillSupervisor \/ StopAll => orphaned'
      BY <2>3 DEF KillSupervisor, StopAll
    <3> QED
      BY <1>2, <2>1, <3>1, <3>2, <3>3 DEF Next
  <2>4. CASE Ordered /\ ~orphaned'
    <3>1. Ordered'
      BY <1>2, <2>1, <2>4, BetweenRunners, LaunchOrdered, CollectOrdered, RunnerOrdered,
         RecordOrdered, LeavingOrdered, StopOrdered DEF Next, SupervisorStep, RunnerStep
    <3> QED
      BY <2>1, <3>1
  <2> QED
    BY <2>1, <2>2, <2>3, <2>4
<1> QED
  BY <1>1, <1>2

\* The invariant holds in every state.
LEMMA Invariance == Spec => []IInv
<1>1. Init => IInv
  BY CampaignAssumption, InitHolds
<1>2. IInv /\ [Next]_vars => IInv'
  BY CampaignAssumption, StepHolds
<1> QED
  BY <1>1, <1>2, PTL DEF Spec

-----------------------------------------------------------------------------
(* The numbers of the trials                                               *)

\* Runner r holds the number of a trial that is not yet recorded.
Holds(r) == phase[r] \in {"trial", "record"}

\* Numbers come from the ledger, and no two trials have the same.
Numbers ==
    /\ \A s \in Plan : \A i \in 1 .. Prior(s) : attempts[s][i].id <= ledger
    /\ NumbersDiffer
    /\ \A r \in Runners : Holds(r) =>
          /\ result[r].id <= ledger
          /\ \A s \in Plan : \A i \in 1 .. Prior(s) : attempts[s][i].id # result[r].id
    /\ \A r, q \in Runners : Holds(r) /\ Holds(q) /\ result[r].id = result[q].id => r = q

\* What the numbers of records are.
LEMMA NumbersAreNat ==
    ASSUME Types
    PROVE  /\ ledger \in Nat /\ \A r \in Runners : result[r].id \in Nat
           /\ \A s \in Plan : \A i \in 1 .. Prior(s) : attempts[s][i].id \in Nat
<1>1. \A s \in Plan : \A i \in 1 .. Prior(s) : attempts[s][i] \in AnyRecord
  BY LenProperties, ElementOfSeq DEF Types, Prior
<1> QED
  BY <1>1 DEF Types, AnyRecord

\* A step that writes no record and takes no number.
LEMMA NumbersKept ==
    ASSUME Types, Numbers, UNCHANGED <<attempts, ledger>>,
           \A r \in Runners : Holds(r)' => Holds(r) /\ result'[r].id = result[r].id
    PROVE  Numbers'
<1>1. \A s \in Plan : Prior(s)' = Prior(s)
  BY DEF Prior
<1> QED
  BY <1>1 DEF Numbers, NumbersDiffer

\* A trial that takes the ledger's next number.
LEMMA NumberTaken ==
    ASSUME Types, Numbers, NEW r \in Runners, BeginTrial(r)
    PROVE  Numbers'
<1>1. /\ attempts' = attempts /\ ledger' = ledger + 1 /\ result'[r].id = ledger'
      /\ \A q \in Runners \ {r} : Holds(q)' = Holds(q) /\ result'[q] = result[q]
  BY DEF BeginTrial, Become, disk, Record, Types, Holds
<1>2. /\ ledger \in Nat /\ \A q \in Runners : result[q].id \in Nat
      /\ \A s \in Plan : \A i \in 1 .. Prior(s) : attempts[s][i].id \in Nat
  BY NumbersAreNat
<1>3. \A s \in Plan : Prior(s)' = Prior(s)
  BY <1>1 DEF Prior
<1>4. \A s \in Plan : \A i \in 1 .. Prior(s) :
         attempts[s][i].id <= ledger' /\ attempts[s][i].id # ledger'
  BY <1>1, <1>2 DEF Numbers
<1>5. \A q \in Runners : Holds(q) => result[q].id <= ledger' /\ result[q].id # ledger'
  BY <1>1, <1>2 DEF Numbers
<1>6. NumbersDiffer'
  BY <1>1, <1>3 DEF Numbers, NumbersDiffer
<1>7. ASSUME NEW q \in Runners, Holds(q)'
      PROVE  /\ result'[q].id <= ledger'
             /\ \A s \in Plan : \A i \in 1 .. Prior(s) : attempts[s][i].id # result'[q].id
  <2>1. CASE q = r
    BY <1>1, <1>2, <1>4, <2>1
  <2>2. CASE q # r
    BY <1>1, <1>5, <1>7, <2>2 DEF Numbers
  <2> QED
    BY <2>1, <2>2
<1>8. ASSUME NEW p \in Runners, NEW q \in Runners, Holds(p)', Holds(q)',
             result'[p].id = result'[q].id
      PROVE  p = q
  <2>1. CASE p # r /\ q # r
    BY <1>1, <1>8, <2>1 DEF Numbers
  <2>2. CASE p = r \/ q = r
    BY <1>1, <1>5, <1>8, <2>2
  <2> QED
    BY <2>1, <2>2
<1> QED
  BY <1>1, <1>3, <1>4, <1>6, <1>7, <1>8 DEF Numbers

\* A runner whose record is written no longer holds its number.
LEMMA NumberWritten ==
    ASSUME Types, Numbers, NEW r \in Runners, Holds(r), Appended(r), ledger' = ledger,
           \A q \in Runners : Holds(q)' => q # r /\ Holds(q) /\ result'[q].id = result[q].id
    PROVE  Numbers'
<1>0. PICK s \in Plan : s = session[r]
  BY DEF Types
<1>1. attempts[s] \in Seq(AnyRecord) /\ result[r] \in AnyRecord
  BY DEF Types
<1>2. /\ attempts'[s] = Append(attempts[s], result[r])
      /\ \A u \in Plan \ {s} : attempts'[u] = attempts[u]
  BY <1>0, <1>1 DEF Types, Appended
<1>3. /\ Prior(s) \in Nat /\ Prior(s)' = Prior(s) + 1
      /\ attempts'[s][Prior(s) + 1] = result[r]
      /\ \A i \in 1 .. Prior(s) : attempts'[s][i] = attempts[s][i]
  BY <1>1, <1>2, AppendProperties, LenProperties DEF Prior
<1>4. ASSUME NEW u \in Plan, NEW i \in 1 .. Prior(u)'
      PROVE  \/ i \in 1 .. Prior(u) /\ attempts'[u][i] = attempts[u][i]
             \/ u = s /\ i = Prior(s) + 1 /\ attempts'[u][i] = result[r]
  <2>1. CASE u # s
    BY <1>2, <2>1 DEF Prior
  <2>2. CASE u = s
    BY <1>3, <2>2
  <2> QED
    BY <2>1, <2>2
<1>5. \A u \in Plan : \A i \in 1 .. Prior(u)' : attempts'[u][i].id <= ledger'
  BY <1>4 DEF Numbers
<1>6. ASSUME NEW u \in Plan, NEW w \in Plan, NEW i \in 1 .. Prior(u)', NEW j \in 1 .. Prior(w)',
             attempts'[u][i].id = attempts'[w][j].id
      PROVE  u = w /\ i = j
  <2>1. CASE i \in 1 .. Prior(u) /\ attempts'[u][i] = attempts[u][i]
    <3>1. attempts[u][i].id # result[r].id
      BY <2>1 DEF Numbers
    <3>2. j \in 1 .. Prior(w) /\ attempts'[w][j] = attempts[w][j]
      BY <1>4, <1>6, <2>1, <3>1
    <3> QED
      BY <1>6, <2>1, <3>2 DEF Numbers, NumbersDiffer
  <2>2. CASE u = s /\ i = Prior(s) + 1 /\ attempts'[u][i] = result[r]
    <3>1. ~(j \in 1 .. Prior(w) /\ attempts'[w][j] = attempts[w][j])
      BY <1>6, <2>2 DEF Numbers
    <3> QED
      BY <1>4, <2>2, <3>1
  <2> QED
    BY <1>4, <2>1, <2>2
<1>7. ASSUME NEW q \in Runners, Holds(q)'
      PROVE  /\ result'[q].id <= ledger'
             /\ \A u \in Plan : \A i \in 1 .. Prior(u)' : attempts'[u][i].id # result'[q].id
  <2>1. q # r /\ Holds(q) /\ result'[q].id = result[q].id
    BY <1>7
  <2>2. result[q].id <= ledger /\ result[q].id # result[r].id
    BY <2>1 DEF Numbers
  <2>3. \A u \in Plan : \A i \in 1 .. Prior(u) : attempts[u][i].id # result[q].id
    BY <2>1 DEF Numbers
  <2> QED
    BY <1>4, <2>1, <2>2, <2>3
<1>8. \A p, q \in Runners : Holds(p)' /\ Holds(q)' /\ result'[p].id = result'[q].id => p = q
  BY DEF Numbers
<1> QED
  BY <1>5, <1>6, <1>7, <1>8 DEF Numbers, NumbersDiffer

\* Numbers stay different as long as no stop empties the ledger.
LEMMA StepNumbers ==
    ASSUME Types, Numbers, [Next]_vars, ~emptied'
    PROVE  Numbers'
<1> USE DEF disk, runner, Become
<1>1. CASE UNCHANGED vars
  BY <1>1, NumbersKept DEF vars, Holds
<1>2. CASE Execute \/ Resume \/ SupervisorStep \/ KillSupervisor
  <2>1. CASE Launch
    <3>1. /\ UNCHANGED <<attempts, ledger, result>>
          /\ \/ phase' = phase
             \/ \E r \in Runners : phase' = [phase EXCEPT ![r] = IF Partial(at) THEN "resume"
                                                                               ELSE "fresh"]
      BY <2>1 DEF Launch
    <3> QED
      BY <3>1, NumbersKept DEF Holds, Types
  <2>2. CASE Collect
    <3>1. UNCHANGED <<attempts, ledger>> /\ Gone({child})
      BY <2>2 DEF Collect
    <3> QED
      BY <3>1, NumbersKept DEF Holds, Gone
  <2>3. CASE ~Launch /\ ~Collect
    <3>1. UNCHANGED <<attempts, ledger, result, phase>>
      BY <1>2, <2>3 DEF Execute, Resume, SupervisorStep, KillSupervisor, Finish, SkipSession,
                        RefuseSession, PrepareSession, SystemctlFails
    <3> QED
      BY <3>1, NumbersKept DEF Holds
  <2> QED
    BY <2>1, <2>2, <2>3
<1>3. ASSUME NEW r \in Runners, RunnerStep(r)
      PROVE  Numbers'
  <2>1. CASE BeginTrial(r)
    BY <2>1, NumberTaken
  <2>2. CASE RecordTrial(r)
    <3>1. /\ Holds(r) /\ Appended(r) /\ UNCHANGED <<ledger, result>>
          /\ \A q \in Runners : Holds(q)' => q # r /\ Holds(q)
      BY <2>2 DEF RecordTrial, Holds, Types
    <3> QED
      BY <3>1, NumberWritten
  <2>3. CASE EndTrial(r)
    <3>1. /\ UNCHANGED <<attempts, ledger>> /\ phase[r] = "trial"
          /\ \E rec : rec.id = result[r].id /\ result' = [result EXCEPT ![r] = rec]
          /\ phase' = [phase EXCEPT ![r] = "record"]
      BY <2>3 DEF EndTrial, Record
    <3> QED
      BY <3>1, NumbersKept DEF Holds, Types
  <2>4. CASE BeginSession(r) \/ ResumeSession(r) \/ AbortTrial(r)
    <3>1. /\ UNCHANGED <<attempts, ledger, result>>
          /\ \E p \in {"failed", "begin"} : phase' = [phase EXCEPT ![r] = p]
      BY <2>4 DEF BeginSession, ResumeSession, AbortTrial
    <3> QED
      BY <3>1, NumbersKept DEF Holds, Types
  <2>5. CASE Reaped(r)
    <3>1. UNCHANGED <<attempts, ledger>> /\ Gone({r})
      BY <2>5 DEF Reaped
    <3> QED
      BY <3>1, NumbersKept DEF Holds, Gone
  <2> QED
    BY <1>3, <2>1, <2>2, <2>3, <2>4, <2>5 DEF RunnerStep
<1>4. ASSUME NEW rs \in SUBSET Runners, LeaveRecords(rs), LeaveLedger(rs),
             \A q \in Runners : Holds(q)' => q \notin rs /\ Holds(q) /\ result'[q].id = result[q].id
      PROVE  Numbers'
  <2>1. ledger' = ledger
    BY <1>4 DEF LeaveLedger
  <2>2. CASE attempts' = attempts
    BY <1>4, <2>1, <2>2, NumbersKept
  <2>3. CASE \E r \in rs : phase[r] = "record" /\ Appended(r)
    <3>1. PICK r \in rs : Holds(r) /\ Appended(r)
      BY <2>3 DEF Holds
    <3> QED
      BY <1>4, <2>1, <3>1, NumberWritten
  <2> QED
    BY <1>4, <2>2, <2>3 DEF LeaveRecords
<1>5. ASSUME NEW r \in Runners, KillRunner(r)
      PROVE  Numbers'
  <2>1. /\ LeaveRecords({r}) /\ LeaveLedger({r})
        /\ result' = result /\ phase' = [phase EXCEPT ![r] = "failed"]
    BY <1>5 DEF KillRunner
  <2> QED
    BY <1>4, <2>1 DEF Holds, Types
<1>6. CASE StopAll
  <2>1. LeaveRecords(Runners) /\ LeaveLedger(Runners) /\ Gone(Runners)
    BY <1>6 DEF StopAll
  <2>2. \A q \in Runners : ~Holds(q)'
    BY <2>1 DEF Gone, Holds
  <2> QED
    BY <1>4, <2>1, <2>2
<1> QED
  BY <1>1, <1>2, <1>3, <1>5, <1>6 DEF Next

\* The ledger that was emptied once is remembered.
LEMMA EmptiedStays ==
    ASSUME emptied, [Next]_vars
    PROVE  emptied'
<1> USE DEF history
<1>1. Execute \/ Resume \/ SupervisorStep \/ KillSupervisor \/ StopAll => emptied'
  BY DEF Execute, Resume, SupervisorStep, Finish, SkipSession, RefuseSession, PrepareSession,
         SystemctlFails, Launch, Collect, KillSupervisor, StopAll, LeaveLedger
<1>2. \A r \in Runners : RunnerStep(r) \/ KillRunner(r) => emptied'
  BY DEF RunnerStep, BeginSession, ResumeSession, BeginTrial, EndTrial, AbortTrial,
         RecordTrial, Reaped, KillRunner, LeaveLedger
<1> QED
  BY <1>1, <1>2 DEF Next, vars

\* Every record has a number of its own, unless a stop emptied the ledger.
LEMMA NumbersInvariant == Spec => [](emptied \/ Numbers)
<1>1. Init => emptied \/ Numbers
  <2>1. Init => \A s \in Plan : Prior(s) = 0
    BY EmptySeq DEF Init, Prior
  <2> QED
    BY <2>1 DEF Init, Numbers, NumbersDiffer, Holds
<1>2. IInv /\ (emptied \/ Numbers) /\ [Next]_vars => (emptied \/ Numbers)'
  BY StepNumbers, EmptiedStays DEF IInv
<1> QED
  BY <1>1, <1>2, Invariance, PTL DEF Spec

-----------------------------------------------------------------------------
(* The theorems                                                            *)

\* Nothing that was recorded is repeated, passed over or reordered by stops
\* and resumes, unless a runner was left behind.
THEOREM RecordsInOrder == Spec => []RecordsFollowSchedule
<1>1. IInv => RecordsFollowSchedule
  BY DEF IInv, Ordered, Headed, RecordsFollowSchedule
<1> QED
  BY <1>1, Invariance, PTL

\* A session's records are joined by the instances of the controller service,
\* also where the session was resumed.
THEOREM OneServiceThroughout == Spec => []OneServicePerSession
<1>1. IInv => OneServicePerSession
  BY DEF IInv, Ordered, Headed, OneServicePerSession
<1> QED
  BY <1>1, Invariance, PTL

\* completed.json means that every slot of every session has its record, once;
\* and that the analysis accepts the records, unless a record was written behind
\* one that had lost its newline or a stop emptied the ledger of numbers.
THEOREM CompletedIsAll == Spec => []CompletedMeansAll
<1>1. IInv /\ (emptied \/ Numbers) => CompletedMeansAll
  <2> SUFFICES ASSUME IInv, emptied \/ Numbers, completed, ~orphaned
               PROVE  /\ \A s \in Plan : Once(s) /\ Recorded(s) = 1 .. Slots
                      /\ AnalysisAccepts \/ emptied \/ \E s \in Plan : ending[s] = "glued"
    BY DEF CompletedMeansAll
  <2>1. \A s \in Plan : Whole(s) /\ Headed(s)
    BY DEF IInv, Ordered, AtTheEnd
  <2>2. Slots \in Nat
    BY CampaignAssumption DEF CampaignAssumption
  <2>3. ASSUME NEW s \in Plan
        PROVE  Prior(s) = Slots /\ Recorded(s) = 1 .. Slots
    BY <2>1, <2>2, <2>3 DEF Whole, Headed, Recorded
  <2>4. Cardinality(1 .. Slots) = Slots
    <3>1. Cardinality(1 .. Slots) = IF 1 > Slots THEN 0 ELSE Slots - 1 + 1
      BY <2>2, FS_Interval
    <3> QED
      BY <2>2, <3>1
  <2>5. \A s \in Plan : Once(s)
    BY <2>3, <2>4 DEF Once
  <2>6. ASSUME NEW s \in Plan, ending[s] # "glued" PROVE Readable(s)
    BY <2>1, <2>6 DEF Whole, Readable, Endings, IInv, Types
  <2>7. ~emptied => NumbersDiffer
    BY DEF Numbers
  <2> QED
    BY <2>3, <2>5, <2>6, <2>7 DEF AnalysisAccepts
<1> QED
  BY <1>1, Invariance, NumbersInvariant, PTL

-----------------------------------------------------------------------------
(* What the type invariant says beyond Types                               *)

\* A record names a slot of the schedule and instances that were given out.
Dated(rec) == rec.slot \in 1 .. Slots /\ rec.before <= newest /\ rec.after <= newest

Flags ==
    /\ {started, completed, resuming, orphaned, emptied, refused} \subseteq BOOLEAN
    /\ console \in [Plan -> BOOLEAN] /\ folder \in [Plan -> BOOLEAN]
    /\ resumed \in [Plan -> BOOLEAN]
Bounds ==
    /\ resumes \in 0 .. MaxResumes /\ errors \in 0 .. MaxErrors /\ stops \in 0 .. MaxStops
    /\ child \in Runners \cup {NoRunner}
AllDated ==
    /\ invocation <= newest
    /\ \A s \in Plan : \A i \in 1 .. Prior(s) : Dated(attempts[s][i])
    /\ \A r \in Runners : Dated(result[r])

TInv == Types /\ Flags /\ Bounds /\ AllDated

\* The four parts make the type invariant.
LEMMA TypesAreAll ==
    ASSUME TInv
    PROVE  TypeOK
<1> USE DEF TInv
<1>1. newest \in Nat /\ invocation \in 0 .. newest
  BY DEF Types, AllDated
<1>2. \A rec \in AnyRecord : Dated(rec) => rec \in Records
  <2> SUFFICES ASSUME NEW rec \in AnyRecord, Dated(rec) PROVE rec \in Records
    OBVIOUS
  <2>1. /\ rec = [slot |-> rec.slot, outcome |-> rec.outcome, id |-> rec.id,
                  before |-> rec.before, after |-> rec.after]
        /\ rec.outcome \in Outcomes /\ rec.id \in Nat
        /\ rec.before \in Nat /\ rec.after \in Nat
    BY DEF AnyRecord
  <2>2. rec.slot \in 1 .. Slots /\ rec.before \in 0 .. newest /\ rec.after \in 0 .. newest
    BY <1>1, <2>1 DEF Dated
  <2> QED
    BY <2>1, <2>2 DEF Records
<1>3. attempts \in [Plan -> Seq(Records)]
  <2>1. ASSUME NEW s \in Plan PROVE attempts[s] \in Seq(Records)
    <3>1. attempts[s] \in Seq(AnyRecord)
      BY DEF Types
    <3>2. /\ Len(attempts[s]) \in Nat
          /\ attempts[s] \in [1 .. Len(attempts[s]) -> AnyRecord]
      BY <3>1, LenProperties
    <3>3. \A i \in 1 .. Len(attempts[s]) : attempts[s][i] \in Records
      BY <1>2, <3>2 DEF AllDated, Prior
    <3>4. attempts[s] \in [1 .. Len(attempts[s]) -> Records]
      BY <3>2, <3>3
    <3> QED
      BY <3>2, <3>4, SeqDef
  <2> QED
    BY <2>1 DEF Types
<1>4. result \in [Runners -> Records]
  BY <1>2 DEF Types, AllDated
<1>5. /\ {started, completed, resuming, orphaned, emptied, refused} \subseteq BOOLEAN
      /\ {console, folder, resumed} \subseteq [Plan -> BOOLEAN]
  BY DEF Flags
<1>6. phase \in [Runners -> {"none", "fresh", "resume", "ok", "failed"} \cup Working]
  <2>1. Phases = {"none", "fresh", "resume", "ok", "failed"} \cup Working
    BY DEF Phases, Resting
  <2> QED
    BY <2>1 DEF Types
<1>7. /\ sup \in {"down", "next", "launch", "wait"} /\ at \in 1 .. Sessions + 1
      /\ session \in [Runners -> Plan] /\ slot \in [Runners -> 1 .. Slots]
      /\ ending \in [Plan -> Endings] /\ ledger \in Nat
  BY DEF Types
<1> QED
  BY <1>1, <1>3, <1>4, <1>5, <1>6, <1>7 DEF TypeOK, Bounds

\* A campaign that has not begun.
LEMMA InitTyped ==
    ASSUME Init, CampaignAssumption
    PROVE  TInv
<1> USE DEF Init
<1>1. Types
  BY InitHolds DEF IInv
<1>2. Flags
  <2>1. \A f : f = [s \in Plan |-> FALSE] => f \in [Plan -> BOOLEAN]
    OBVIOUS
  <2>2. /\ console = [s \in Plan |-> FALSE] /\ folder = [s \in Plan |-> FALSE]
        /\ resumed = [s \in Plan |-> FALSE]
    OBVIOUS
  <2>3. {started, completed, resuming, orphaned, emptied, refused} \subseteq BOOLEAN
    OBVIOUS
  <2> HIDE DEF Init
  <2> QED
    BY <2>1, <2>2, <2>3 DEF Flags
<1>6. Bounds
  <2>1. resumes = 0 /\ errors = 0 /\ stops = 0 /\ child = NoRunner
    OBVIOUS
  <2> HIDE DEF Init
  <2> QED
    BY <2>1 DEF Bounds, CampaignAssumption
<1>3. Dated(NoRecord)
  BY DEF Dated, NoRecord, Record, CampaignAssumption
<1>4. \A s \in Plan : Prior(s) = 0
  BY EmptySeq DEF Prior
<1>5. AllDated
  BY <1>3, <1>4 DEF AllDated, Dated
<1> QED
  BY <1>1, <1>2, <1>5, <1>6 DEF TInv

\* Every mark is set or not.
LEMMA StepFlags ==
    ASSUME TInv, CampaignAssumption, Next
    PROVE  Flags'
<1> USE DEF TInv, disk, service, supervisor, runner, history, Raise
<1>1. CASE Execute \/ Resume \/ Finish
  BY <1>1 DEF Execute, Resume, Finish, Flags
<1>2. CASE SkipSession \/ RefuseSession \/ PrepareSession \/ SystemctlFails
  BY <1>2 DEF SkipSession, RefuseSession, PrepareSession, SystemctlFails, Flags
<1>3. CASE Launch
  <2>1. /\ UNCHANGED <<started, completed, orphaned, emptied, refused, folder, resumed>>
        /\ resuming' \in {resuming, FALSE}
        /\ console' = console \/ console' = [console EXCEPT ![at] = TRUE]
    BY <1>3 DEF Launch
  <2> QED
    BY <2>1 DEF Flags
<1>4. CASE Collect
  BY <1>4 DEF Collect, Flags
<1>5. CASE \E r \in Runners : RunnerStep(r)
  <2>1. PICK r \in Runners : RunnerStep(r)
    BY <1>5
  <2>2. CASE BeginSession(r)
    BY <2>2 DEF BeginSession, Flags
  <2>3. CASE ResumeSession(r)
    <3>1. /\ UNCHANGED <<started, completed, resuming, orphaned, emptied, console, folder>>
          /\ resumed' = resumed \/ resumed' = [resumed EXCEPT ![session[r]] = TRUE]
          /\ refused' = refused \/ refused' \in BOOLEAN
      BY <2>3 DEF ResumeSession
    <3> QED
      BY <3>1 DEF Flags
  <2>4. CASE BeginTrial(r) \/ EndTrial(r) \/ AbortTrial(r) \/ RecordTrial(r) \/ Reaped(r)
    BY <2>4 DEF BeginTrial, EndTrial, AbortTrial, RecordTrial, Reaped, Flags
  <2> QED
    BY <2>1, <2>2, <2>3, <2>4 DEF RunnerStep
<1>6. CASE \E r \in Runners : KillRunner(r)
  <2>1. PICK r \in Runners : KillRunner(r)
    BY <1>6
  <2>2. emptied' \in BOOLEAN
    BY <2>1 DEF KillRunner, LeaveLedger, Flags
  <2> QED
    BY <2>1, <2>2 DEF KillRunner, Flags
<1>7. CASE KillSupervisor
  <2>1. orphaned' \in BOOLEAN
    BY <1>7 DEF KillSupervisor
  <2> QED
    BY <1>7, <2>1 DEF KillSupervisor, Flags
<1>8. CASE StopAll
  <2>1. emptied' \in BOOLEAN
    BY <1>8 DEF StopAll, LeaveLedger, Flags
  <2> QED
    BY <1>8, <2>1 DEF StopAll, Flags
<1> QED
  BY <1>1, <1>2, <1>3, <1>4, <1>5, <1>6, <1>7, <1>8 DEF Next, SupervisorStep

\* The bounds are kept, and the supervisor waits for a runner or for none.
LEMMA StepBounds ==
    ASSUME TInv, CampaignAssumption, Next
    PROVE  Bounds'
<1> USE DEF TInv, disk, service, supervisor, runner, history, Raise, Stop, CampaignAssumption
<1>1. CASE Execute \/ Resume \/ Finish
  BY <1>1 DEF Execute, Resume, Finish, Bounds
<1>2. CASE SkipSession \/ RefuseSession \/ PrepareSession \/ SystemctlFails
  BY <1>2 DEF SkipSession, RefuseSession, PrepareSession, SystemctlFails, Bounds
<1>3. CASE Launch
  <2>1. /\ UNCHANGED <<resumes, errors, stops>>
        /\ child' \in Runners \cup {NoRunner}
    BY <1>3 DEF Launch
  <2> QED
    BY <2>1 DEF Bounds
<1>4. CASE Collect
  BY <1>4 DEF Collect, Bounds
<1>5. CASE \E r \in Runners : RunnerStep(r)
  <2>1. PICK r \in Runners : RunnerStep(r)
    BY <1>5
  <2>2. CASE BeginSession(r) \/ ResumeSession(r) \/ BeginTrial(r) \/ RecordTrial(r) \/ Reaped(r)
    BY <2>2 DEF BeginSession, ResumeSession, BeginTrial, RecordTrial, Reaped, Bounds
  <2>3. CASE EndTrial(r) \/ AbortTrial(r)
    <3>1. /\ UNCHANGED <<resumes, stops, child>>
          /\ errors' \in {errors, errors + 1} /\ errors' <= MaxErrors
      BY <2>3 DEF EndTrial, AbortTrial, Bounds
    <3> QED
      BY <3>1 DEF Bounds
  <2> QED
    BY <2>1, <2>2, <2>3 DEF RunnerStep
<1>6. CASE (\E r \in Runners : KillRunner(r)) \/ KillSupervisor \/ StopAll
  <2>1. /\ stops < MaxStops /\ stops' = stops + 1
        /\ UNCHANGED <<resumes, errors>> /\ child' \in {child, NoRunner}
    BY <1>6 DEF KillRunner, KillSupervisor, StopAll
  <2> QED
    BY <2>1 DEF Bounds
<1> QED
  BY <1>1, <1>2, <1>3, <1>4, <1>5, <1>6 DEF Next, SupervisorStep

\* A step that writes no record and makes none.
LEMMA NothingWritten ==
    ASSUME Types, AllDated, CampaignAssumption, newest' \in Nat, newest <= newest', invocation' <= newest',
           attempts' = attempts, \A r \in Runners : result'[r] \in {result[r], NoRecord}
    PROVE  AllDated'
<1>1. ASSUME NEW s \in Plan, NEW i \in 1 .. Prior(s)
      PROVE  Dated(attempts[s][i])'
  <2>1. attempts[s][i] \in AnyRecord
    BY LenProperties, ElementOfSeq DEF Types, Prior
  <2>2. Dated(attempts[s][i])
    BY DEF AllDated
  <2>3. attempts'[s][i] = attempts[s][i]
    OBVIOUS
  <2> QED
    BY <2>1, <2>2, <2>3 DEF Types, Dated, AnyRecord
<1>2. ASSUME NEW r \in Runners PROVE Dated(result[r])'
  <2>1. CASE result'[r] = result[r]
    <3>1. result[r] \in AnyRecord /\ Dated(result[r])
      BY DEF Types, AllDated
    <3> QED
      BY <2>1, <3>1 DEF Types, Dated, AnyRecord
  <2>2. CASE result'[r] = NoRecord
    BY <2>2 DEF Dated, NoRecord, Record, CampaignAssumption
  <2> QED
    BY <2>1, <2>2
<1> QED
  BY <1>1, <1>2 DEF AllDated, Prior

\* The record a runner holds, appended or cut off by a stop.
LEMMA RecordWritten ==
    ASSUME Types, AllDated, NEW r \in Runners, Appended(r) \/ attempts' = attempts,
           newest' = newest
    PROVE  \A s \in Plan : \A i \in 1 .. Prior(s)' : Dated(attempts[s][i])'
<1> SUFFICES ASSUME NEW s \in Plan, NEW i \in 1 .. Prior(s)' PROVE Dated(attempts[s][i])'
  OBVIOUS
<1>1. CASE attempts'[s] = attempts[s]
  BY <1>1 DEF AllDated, Prior, Dated
<1>2. CASE attempts'[s] = Append(attempts[s], result[r])
  <2>1. attempts[s] \in Seq(AnyRecord) /\ result[r] \in AnyRecord
    BY DEF Types
  <2>2. /\ Len(attempts'[s]) = Prior(s) + 1 /\ Prior(s) \in Nat
        /\ attempts'[s][Prior(s) + 1] = result[r]
        /\ \A j \in 1 .. Prior(s) : attempts'[s][j] = attempts[s][j]
    BY <1>2, <2>1, AppendProperties, LenProperties DEF Prior
  <2>3. i \in 1 .. Prior(s) \/ i = Prior(s) + 1
    BY <2>2 DEF Prior
  <2> QED
    BY <2>2, <2>3 DEF AllDated, Dated
<1> QED
  BY <1>1, <1>2 DEF Types, Appended

\* Every record is of a slot of the schedule and of instances given out.
LEMMA StepDated ==
    ASSUME TInv, Types', CampaignAssumption, Next
    PROVE  AllDated'
<1> USE DEF TInv, disk, service, supervisor, runner, history, Raise
<1>1. /\ newest \in Nat /\ invocation \in Nat /\ newest' \in Nat /\ invocation' \in Nat
      /\ invocation <= newest
  BY DEF Types, AllDated
<1>2. CASE \/ Execute \/ Resume \/ SkipSession \/ RefuseSession \/ Finish
           \/ PrepareSession \/ SystemctlFails
  <2>1. /\ UNCHANGED <<attempts, result>>
        /\ \/ newest' = newest /\ invocation' \in {invocation, 0}
           \/ newest' = newest + 1 /\ invocation' = newest'
    BY <1>2 DEF Execute, Resume, SkipSession, RefuseSession, Finish, PrepareSession,
                SystemctlFails, Started, Stopped
  <2>2. newest <= newest' /\ invocation' <= newest'
    BY <1>1, <2>1
  <2> QED
    BY <1>1, <2>1, <2>2, NothingWritten
<1>3. CASE Launch \/ Collect \/ KillSupervisor
  <2>1. /\ UNCHANGED <<attempts, newest, invocation>>
        /\ \A r \in Runners : result'[r] \in {result[r], NoRecord}
    BY <1>3 DEF Launch, Collect, KillSupervisor, Gone
  <2>2. newest <= newest' /\ invocation' <= newest'
    BY <1>1, <2>1
  <2> QED
    BY <1>1, <2>1, <2>2, NothingWritten
<1>4. ASSUME NEW r \in Runners, BeginSession(r) \/ ResumeSession(r) \/ AbortTrial(r) \/ Reaped(r)
      PROVE  AllDated'
  <2>1. /\ UNCHANGED <<attempts, newest, invocation>>
        /\ \A q \in Runners : result'[q] \in {result[q], NoRecord}
    BY <1>4 DEF BeginSession, ResumeSession, AbortTrial, Reaped, Gone
  <2>2. newest <= newest' /\ invocation' <= newest'
    BY <1>1, <2>1
  <2> QED
    BY <1>1, <2>1, <2>2, NothingWritten
<1>5. ASSUME NEW r \in Runners, BeginTrial(r) \/ EndTrial(r)
      PROVE  AllDated'
  <2>1. /\ UNCHANGED attempts
        /\ \/ newest' = newest /\ invocation' \in {invocation, 0}
           \/ newest' = newest + 1 /\ invocation' = newest'
        /\ \E outcome \in Outcomes, id \in {ledger', result[r].id},
              before \in {invocation, result[r].before} :
              result' = [result EXCEPT
                ![r] = Record(slot[r], outcome, id, before, invocation')]
    BY <1>5 DEF BeginTrial, EndTrial, Outcomes, Started, Stopped
  <2>2. newest <= newest' /\ invocation' <= newest'
    BY <1>1, <2>1
  <2>3. /\ result[r] \in AnyRecord /\ result[r].before \in Nat /\ result[r].before <= newest
        /\ slot[r] \in 1 .. Slots
    BY DEF Types, AnyRecord, AllDated, Dated
  <2>4. Dated(result[r])'
    BY <1>1, <2>1, <2>2, <2>3 DEF Dated, Record, Types
  <2>5. \A q \in Runners \ {r} : Dated(result[q])'
    <3> SUFFICES ASSUME NEW q \in Runners \ {r} PROVE Dated(result[q])'
      OBVIOUS
    <3>1. result'[q] = result[q] /\ result[q] \in AnyRecord /\ Dated(result[q])
      BY <2>1 DEF Types, AllDated
    <3> QED
      BY <1>1, <2>2, <3>1 DEF Dated, AnyRecord
  <2>6. ASSUME NEW s \in Plan, NEW i \in 1 .. Prior(s) PROVE Dated(attempts[s][i])'
    <3>1. attempts[s][i] \in AnyRecord
      BY LenProperties, ElementOfSeq DEF Types, Prior
    <3>2. Dated(attempts[s][i]) /\ attempts'[s][i] = attempts[s][i]
      BY <2>1 DEF AllDated
    <3> QED
      BY <1>1, <2>2, <3>1, <3>2 DEF Dated, AnyRecord
  <2>7. \A s \in Plan : Prior(s)' = Prior(s)
    BY <2>1 DEF Prior
  <2> QED
    BY <2>2, <2>4, <2>5, <2>6, <2>7 DEF AllDated
<1>6. ASSUME NEW r \in Runners, RecordTrial(r)
      PROVE  AllDated'
  <2>1. Appended(r) /\ UNCHANGED <<result, newest, invocation>>
    BY <1>6 DEF RecordTrial
  <2> QED
    BY <2>1, RecordWritten DEF AllDated, Dated
<1>7. ASSUME NEW rs \in SUBSET Runners, LeaveRecords(rs), newest' = newest, invocation' <= newest',
             \A r \in Runners : result'[r] \in {result[r], NoRecord}
      PROVE  AllDated'
  <2>1. \A s \in Plan : \A i \in 1 .. Prior(s)' : Dated(attempts[s][i])'
    <3>1. CASE attempts' = attempts
      BY <1>7, <3>1 DEF AllDated, Dated, Prior
    <3>2. CASE \E r \in rs : Appended(r)
      BY <1>7, <3>2, RecordWritten
    <3> QED
      BY <1>7, <3>1, <3>2 DEF LeaveRecords
  <2>2. \A r \in Runners : Dated(result[r])'
    <3>1. Dated(NoRecord)'
      BY <1>1 DEF Dated, NoRecord, Record, CampaignAssumption
    <3> QED
      BY <1>7, <3>1 DEF AllDated, Dated
  <2> QED
    BY <1>7, <2>1, <2>2 DEF AllDated
<1>8. CASE \E r \in Runners : KillRunner(r)
  <2>1. PICK r \in Runners : KillRunner(r)
    BY <1>8
  <2>2. /\ LeaveRecords({r}) /\ newest' = newest /\ invocation' = invocation
        /\ result' = result
    BY <2>1 DEF KillRunner
  <2> QED
    BY <1>1, <1>7, <2>2
<1>9. CASE StopAll
  <2>1. /\ LeaveRecords(Runners) /\ newest' = newest /\ invocation' \in {invocation, 0}
        /\ \A r \in Runners : result'[r] \in {result[r], NoRecord}
    BY <1>9 DEF StopAll, Stopped, Gone
  <2> QED
    BY <1>1, <1>7, <2>1
<1> QED
  BY <1>2, <1>3, <1>4, <1>5, <1>6, <1>8, <1>9 DEF Next, SupervisorStep, RunnerStep

\* Every step keeps the types.
LEMMA StepTyped ==
    ASSUME TInv, CampaignAssumption, [Next]_vars
    PROVE  TInv'
<1>1. CASE UNCHANGED vars
  <2>1. Types' /\ Flags' /\ Bounds'
    BY <1>1 DEF vars, TInv, Types, Flags, Bounds
  <2>2. AllDated'
    BY <1>1 DEF vars, TInv, AllDated, Dated, Prior
  <2> QED
    BY <2>1, <2>2 DEF TInv
<1>2. CASE Next
  <2>1. Types'
    BY <1>2, SupervisorTypes, RunnerTypes, StopTypes DEF Next, TInv
  <2> QED
    BY <1>2, <2>1, StepFlags, StepBounds, StepDated DEF TInv
<1> QED
  BY <1>1, <1>2

\* Every state is well typed: among other things, no record names an instance
\* of the controller that was never given out, and no slot that is not in the
\* schedule, in whatever order processes were stopped.
THEOREM CampaignTypes == Spec => []TypeOK
<1>1. Init => TInv
  BY CampaignAssumption, InitTyped
<1>2. TInv /\ [Next]_vars => TInv'
  BY CampaignAssumption, StepTyped
<1>3. TInv => TypeOK
  BY TypesAreAll
<1> QED
  BY <1>1, <1>2, <1>3, PTL DEF Spec
=============================================================================
