--------------------------- MODULE ServiceCampaign ---------------------------
(***************************************************************************)
(* The service campaign: network/r5_service_campaign_supervisor.py, which  *)
(* works through the frozen plan, and network/r5_service_campaign.py, the  *)
(* runner it starts for each session of the plan.                          *)
(*                                                                         *)
(* A session runs a fixed schedule of slots against one controller         *)
(* service, one trial after another, and appends one line per trial to     *)
(* attempts.jsonl.  Everything the two programs remember is in files, so   *)
(* that a collection that stopped - an instrument error pauses it, a       *)
(* process is killed, the machine goes down - can be resumed under an      *)
(* amendment without repeating or losing trials.  The supervisor is killed *)
(* alone (and leaves its runner behind) or with it.                        *)
(***************************************************************************)
EXTENDS Integers, Sequences, FiniteSets

CONSTANTS
    Sessions,      \* length of the frozen plan (20)
    Slots,         \* length of a session's schedule (17)
    Disruptive,    \* the slots that restart the controller service
    Runners,       \* runner processes that may exist at a time
    NoRunner,      \* the supervisor waits for none
    MaxResumes,    \* bound: amendments that permit a resume
    MaxErrors,     \* bound: instrument errors in trials
    MaxStops       \* bound: kills and power losses

ASSUME CampaignAssumption ==
    /\ Sessions \in Nat \ {0}
    /\ Slots \in Nat \ {0}
    /\ Disruptive \subseteq 1 .. Slots
    /\ NoRunner \notin Runners
    /\ MaxResumes \in Nat
    /\ MaxErrors \in Nat
    /\ MaxStops \in Nat

Plan == 1 .. Sessions

VARIABLES
    \* what is on disk
    started,    \* execution_started.json
    resumes,    \* number of execution_resume_<amendment>.json
    completed,  \* completed.json
    console,    \* console[s]: the session's console log
    folder,     \* folder[s]: the session's directory, with its parameters.json
    resumed,    \* resumed[s]: resume_parameters.json
    attempts,   \* attempts[s]: the records of attempts.jsonl
    ending,     \* ending[s]: how the lines of the file end
    ledger,     \* identity_sequence.txt: the number given out last
    \* the controller service
    invocation, \* InvocationID of the active service, 0 when none is
    newest,     \* the InvocationID given out last
    \* the supervisor process
    sup,        \* "down", "next", "launch", "wait"
    at,         \* the session it is at
    resuming,   \* it was started with --resume
    child,      \* the runner it waits for
    \* the runner processes
    phase,      \* "none", "fresh", "resume", "begin", "trial", "record", "ok", "failed"
    session,    \* the session each runner works on
    slot,       \* the slot it is at
    result,     \* the record it holds
    \* counters and history
    errors,     \* instrument errors so far
    stops,      \* kills and power losses so far
    orphaned,   \* a supervisor was killed and its runner went on
    emptied,    \* a stop fell between the truncation of the ledger and its write
    refused     \* a resuming runner found another resume's parameters

disk == <<started, resumes, completed, console, folder, resumed, attempts, ending,
          ledger>>
service == <<invocation, newest>>
supervisor == <<sup, at, resuming, child>>
runner == <<phase, session, slot, result>>
history == <<errors, stops, orphaned, emptied, refused>>
vars == <<started, resumes, completed, console, folder, resumed, attempts, ending,
          ledger, invocation, newest, sup, at, resuming, child, phase, session,
          slot, result, errors, stops, orphaned, emptied, refused>>

Outcomes == {"served", "error"}   \* "served": any status but execution_error

\* The slot of the trial, its number in the ledger, and the controller instance
\* before and after it.
Record(k, outcome, id, before, after) ==
    [slot |-> k, outcome |-> outcome, id |-> id, before |-> before, after |-> after]
Records ==
    [slot : 1 .. Slots, outcome : Outcomes, id : Nat,
     before : 0 .. newest, after : 0 .. newest]
NoRecord == Record(1, "served", 0, 0, 0)

\* The last line of attempts.jsonl is ended, or a record without its newline
\* (which parses), or part of a record; "glued": something was written behind
\* such a line, and no later line makes the file parse again.
Endings == {"line", "unended", "half", "glued"}
Readable(s) == ending[s] \in {"line", "unended"}

Working == {"begin", "trial", "record"}

TypeOK ==
    /\ {started, completed, resuming, orphaned, emptied, refused} \subseteq BOOLEAN
    /\ resumes \in 0 .. MaxResumes
    /\ {console, folder, resumed} \subseteq [Plan -> BOOLEAN]
    /\ ending \in [Plan -> Endings]
    /\ ledger \in Nat
    /\ attempts \in [Plan -> Seq(Records)]
    /\ newest \in Nat /\ invocation \in 0 .. newest
    /\ sup \in {"down", "next", "launch", "wait"}
    /\ at \in 1 .. Sessions + 1
    /\ child \in Runners \cup {NoRunner}
    /\ phase \in [Runners -> {"none", "fresh", "resume", "ok", "failed"} \cup Working]
    /\ session \in [Runners -> Plan]
    /\ slot \in [Runners -> 1 .. Slots]
    /\ result \in [Runners -> Records]
    /\ errors \in 0 .. MaxErrors
    /\ stops \in 0 .. MaxStops

Init ==
    /\ started = FALSE /\ resumes = 0 /\ completed = FALSE
    /\ console = [s \in Plan |-> FALSE]
    /\ folder = [s \in Plan |-> FALSE]
    /\ resumed = [s \in Plan |-> FALSE]
    /\ attempts = [s \in Plan |-> <<>>]
    /\ ending = [s \in Plan |-> "line"]
    /\ ledger = 0
    /\ invocation = 0 /\ newest = 0
    /\ sup = "down" /\ at = 1 /\ resuming = FALSE /\ child = NoRunner
    /\ phase = [r \in Runners |-> "none"]
    /\ session = [r \in Runners |-> 1]
    /\ slot = [r \in Runners |-> 1]
    /\ result = [r \in Runners |-> NoRecord]
    /\ errors = 0 /\ stops = 0 /\ orphaned = FALSE /\ emptied = FALSE
    /\ refused = FALSE

-----------------------------------------------------------------------------
(* The supervisor                                                          *)

\* --execute, and --execute --resume --amendment: the marker is created before
\* anything else, so the same command is refused the next time.
Execute ==
    /\ sup = "down" /\ ~started
    /\ started' = TRUE
    /\ sup' = "next" /\ at' = 1 /\ resuming' = FALSE
    /\ UNCHANGED <<resumes, completed, console, folder, resumed, attempts, ending, ledger>>
    /\ UNCHANGED child
    /\ UNCHANGED <<service, runner, history>>

Resume ==
    /\ sup = "down" /\ started /\ ~completed
    /\ resumes < MaxResumes
    /\ resumes' = resumes + 1
    /\ sup' = "next" /\ at' = 1 /\ resuming' = TRUE
    /\ UNCHANGED <<started, completed, console, folder, resumed, attempts, ending, ledger>>
    /\ UNCHANGED child
    /\ UNCHANGED <<service, runner, history>>

\* The supervisor ends, by an exception or a kill.
Raise == sup' = "down" /\ at' = 1 /\ resuming' = FALSE /\ child' = NoRunner

\* Processes that are gone remember nothing.
Gone(rs) ==
    /\ phase' = [r \in Runners |-> IF r \in rs THEN "none" ELSE phase[r]]
    /\ session' = [r \in Runners |-> IF r \in rs THEN 1 ELSE session[r]]
    /\ slot' = [r \in Runners |-> IF r \in rs THEN 1 ELSE slot[r]]
    /\ result' = [r \in Runners |-> IF r \in rs THEN NoRecord ELSE result[r]]

\* What systemctl does to the service; a start may also fail.
Started == newest' = newest + 1 /\ invocation' = newest'
Stopped == invocation' = 0 /\ UNCHANGED newest

\* No session is left: stop the services, whether or not systemctl reports an
\* error, and write completed.json.
Finish ==
    /\ sup = "next" /\ at > Sessions
    /\ completed' = TRUE
    /\ Stopped \/ UNCHANGED service
    /\ Raise
    /\ UNCHANGED <<started, resumes, console, folder, resumed, attempts, ending, ledger>>
    /\ UNCHANGED <<runner, history>>

\* Fault: a session with any records is taken for finished.
SkipBegun ==
    /\ sup = "next" /\ at \in Plan /\ Readable(at)
    /\ Len(attempts[at]) > 0
    /\ at' = at + 1
    /\ UNCHANGED <<sup, resuming, child>>
    /\ UNCHANGED <<disk, service, runner, history>>

\* A session with as many records as the plan has conditions is left alone.
SkipSession ==
    /\ sup = "next" /\ at \in Plan /\ Readable(at)
    /\ Len(attempts[at]) = Slots
    /\ at' = at + 1
    /\ UNCHANGED <<sup, resuming, child>>
    /\ UNCHANGED <<disk, service, runner, history>>

Unread == sup = "next" /\ at \in Plan /\ ~Readable(at)   \* json.loads raises
Prior(s) == Len(attempts[s])
Partial(s) == Prior(s) \notin {0, Slots}

\* Fault: the check of the controller's InvocationID left out.
SameServiceAssumed(s) == TRUE

\* The controller service is the one the session's last record ended with.
SameService(s) ==
    /\ invocation # 0
    /\ invocation = attempts[s][Prior(s)].after

RefuseSession ==
    /\ \/ Unread
       \/ /\ sup = "next" /\ at \in Plan /\ Readable(at) /\ Partial(at)
          /\ ~(resuming /\ SameService(at))
    /\ Raise
    /\ UNCHANGED <<disk, service, runner, history>>

\* A partial session goes on with the service as it is; any other one stops
\* all services and starts its own.
PrepareSession ==
    /\ sup = "next" /\ at \in Plan /\ Readable(at)
    /\ \/ /\ Partial(at) /\ resuming /\ SameService(at)
          /\ UNCHANGED service
       \/ Prior(at) = 0 /\ (Started \/ Stopped)
    /\ sup' = "launch"
    /\ UNCHANGED <<at, resuming, child>>
    /\ UNCHANGED <<disk, runner, history>>

\* systemctl stop reports an error before a session, or any call of systemctl
\* exceeds its timeout: the supervisor raises with the service as it was,
\* stopped, or started.
SystemctlFails ==
    /\ sup = "next"
    /\ at \in Plan => Readable(at) /\ Prior(at) # Slots
    /\ \/ UNCHANGED service
       \/ (at \in Plan => Prior(at) = 0) /\ Stopped
       \/ at \in Plan /\ Prior(at) = 0 /\ Started
    /\ Raise
    /\ UNCHANGED <<disk, runner, history>>

\* The console log of a session that is not partial is opened for exclusive
\* creation; then the runner starts.
Launch ==
    /\ sup = "launch"
    /\ IF ~Partial(at) /\ console[at]
         THEN Raise /\ UNCHANGED disk /\ UNCHANGED runner
         ELSE \E r \in Runners :
            /\ phase[r] = "none"
            /\ phase' = [phase EXCEPT ![r] = IF Partial(at) THEN "resume" ELSE "fresh"]
            /\ session' = [session EXCEPT ![r] = at]
            /\ console' = [console EXCEPT ![at] = TRUE]
            /\ child' = r
            /\ sup' = "wait"
            /\ UNCHANGED <<started, resumes, completed, folder, resumed, attempts, ending, ledger>>
            /\ UNCHANGED <<at, resuming, slot, result>>
    /\ UNCHANGED <<service, history>>

\* Fault: only a runner that went through its schedule is waited for.
CollectFinished ==
    /\ sup = "wait" /\ phase[child] = "ok"
    /\ sup' = "next" /\ at' = at + 1 /\ child' = NoRunner /\ UNCHANGED resuming
    /\ Gone({child})
    /\ UNCHANGED <<disk, service, history>>

\* The runner has ended: go to the next session, or pause the collection, as
\* the supervisor also does when the journal cannot be read in time.
Collect ==
    /\ sup = "wait" /\ phase[child] \in {"ok", "failed"}
    /\ \/ /\ phase[child] = "ok"
          /\ sup' = "next" /\ at' = at + 1 /\ child' = NoRunner /\ UNCHANGED resuming
       \/ Raise
    /\ Gone({child})
    /\ UNCHANGED <<disk, service, history>>

-----------------------------------------------------------------------------
(* The runner                                                              *)

Become(r, p) == phase' = [phase EXCEPT ![r] = p]

\* A new session: mkdir with exist_ok=False, schedule, parameters and an empty
\* attempts.jsonl.  (A stop between these leaves no record either way.)
BeginSession(r) ==
    /\ phase[r] = "fresh"
    /\ IF folder[session[r]]
         THEN Become(r, "failed") /\ UNCHANGED <<folder, slot>>
         ELSE /\ folder' = [folder EXCEPT ![session[r]] = TRUE]
              /\ slot' = [slot EXCEPT ![r] = 1]
              /\ Become(r, "begin")
    /\ UNCHANGED <<started, resumes, completed, console, resumed, attempts, ending, ledger>>
    /\ UNCHANGED <<session, result>>
    /\ UNCHANGED <<service, supervisor, history>>

\* The records must be the head of the schedule and not all of it.
Resumable(s) ==
    /\ Readable(s)
    /\ Prior(s) < Slots
    /\ \A i \in 1 .. Prior(s) : attempts[s][i].slot = i

\* Fault: the resume starts over at the first slot.
ResumeFromStart(r) ==
    /\ phase[r] = "resume"
    /\ Resumable(session[r])
    /\ resumed' = [resumed EXCEPT ![session[r]] = TRUE]
    /\ slot' = [slot EXCEPT ![r] = 1]
    /\ Become(r, "begin")
    /\ UNCHANGED <<started, resumes, completed, console, folder, attempts, ending, ledger>>
    /\ UNCHANGED <<session, result>>
    /\ UNCHANGED <<service, supervisor, history>>

\* A resumed session; resume_parameters.json is opened for exclusive creation.
ResumeSession(r) ==
    /\ phase[r] = "resume"
    /\ LET s == session[r] IN
         IF Resumable(s) /\ ~resumed[s]
           THEN /\ resumed' = [resumed EXCEPT ![s] = TRUE]
                /\ slot' = [slot EXCEPT ![r] = Prior(s) + 1]
                /\ Become(r, "begin")
                /\ UNCHANGED refused
           ELSE /\ Become(r, "failed")
                /\ refused' = (refused \/ (Resumable(s) /\ resumed[s]))
                /\ UNCHANGED <<resumed, slot>>
    /\ UNCHANGED <<started, resumes, completed, console, folder, attempts, ending, ledger>>
    /\ UNCHANGED <<session, result, errors, stops, orphaned, emptied>>
    /\ UNCHANGED <<service, supervisor>>

\* run_trial up to its workload: the trial takes the ledger's next number.
BeginTrial(r) ==
    /\ phase[r] = "begin"
    /\ ledger' = ledger + 1
    /\ result' = [result EXCEPT
         ![r] = Record(slot[r], "served", ledger', invocation, invocation)]
    /\ Become(r, "trial")
    /\ UNCHANGED <<started, resumes, completed, console, folder, resumed, attempts, ending>>
    /\ UNCHANGED <<session, slot>>
    /\ UNCHANGED <<service, supervisor, history>>

\* The trial ends with a result.  The slots that restart the controller leave a
\* new instance of it behind, or none when the start fails or the trial breaks
\* off before it; the trial may also end before it touches the service.
EndTrial(r) ==
    /\ phase[r] = "trial"
    /\ \E outcome \in Outcomes :
        /\ errors' = errors + (IF outcome = "error" THEN 1 ELSE 0)
        /\ errors' <= MaxErrors
        /\ \/ slot[r] \in Disruptive /\ (Started \/ Stopped)
           \/ UNCHANGED service
        /\ result' = [result EXCEPT
             ![r] = Record(slot[r], outcome, result[r].id, result[r].before, invocation')]
    /\ Become(r, "record")
    /\ UNCHANGED <<session, slot, stops, orphaned, emptied, refused>>
    /\ UNCHANGED <<disk, supervisor>>

\* Outside its try block run_trial may raise: the identities are exhausted, a
\* systemctl call times out.  The runner ends without a record.
AbortTrial(r) ==
    /\ phase[r] = "trial"
    /\ errors < MaxErrors
    /\ errors' = errors + 1
    /\ Become(r, "failed")
    /\ UNCHANGED <<session, slot, result, stops, orphaned, emptied, refused>>
    /\ UNCHANGED <<disk, service, supervisor>>

Appended(r) ==
    attempts' = [attempts EXCEPT ![session[r]] = Append(@, result[r])]

\* Runner r writes behind the last line of its file, and leaves an end like left.
Ends(r, left) ==
    ending' = [ending EXCEPT ![session[r]] = IF @ = "line" THEN left ELSE "glued"]

\* Fault: the loop runs one slot past the end of the schedule.
RecordPastEnd(r) ==
    /\ phase[r] = "record"
    /\ Appended(r) /\ Ends(r, "line")
    /\ IF result[r].outcome = "error"
         THEN Become(r, "failed") /\ UNCHANGED slot
         ELSE IF slot[r] > Slots
           THEN Become(r, "ok") /\ UNCHANGED slot
           ELSE Become(r, "begin") /\ slot' = [slot EXCEPT ![r] = @ + 1]
    /\ UNCHANGED <<started, resumes, completed, console, folder, resumed, ledger>>
    /\ UNCHANGED <<session, result>>
    /\ UNCHANGED <<service, supervisor, history>>

\* Write, flush and fsync the record; an instrument error ends the runner.
RecordTrial(r) ==
    /\ phase[r] = "record"
    /\ Appended(r) /\ Ends(r, "line")
    /\ IF result[r].outcome = "error"
         THEN Become(r, "failed") /\ UNCHANGED slot
         ELSE IF slot[r] = Slots
           THEN Become(r, "ok") /\ UNCHANGED slot
           ELSE Become(r, "begin") /\ slot' = [slot EXCEPT ![r] = @ + 1]
    /\ UNCHANGED <<started, resumes, completed, console, folder, resumed, ledger>>
    /\ UNCHANGED <<session, result>>
    /\ UNCHANGED <<service, supervisor, history>>

\* A runner that nobody waits for is reaped by init.
Reaped(r) ==
    /\ phase[r] \in {"ok", "failed"}
    /\ ~(sup = "wait" /\ child = r)
    /\ Gone({r})
    /\ UNCHANGED <<disk, service, supervisor, history>>

-----------------------------------------------------------------------------
(* Kills and power losses                                                  *)

Alive(r) == phase[r] \notin {"none", "ok", "failed"}

\* What a stop leaves of the record that one of the runners was writing:
\* nothing, all of it, all but its newline, or its first part.
LeaveRecords(stopped) ==
    \/ UNCHANGED <<attempts, ending>>
    \/ \E r \in stopped :
          /\ phase[r] = "record"
          /\ \/ Appended(r) /\ \E left \in {"line", "unended"} : Ends(r, left)
             \/ UNCHANGED attempts /\ Ends(r, "half")

\* What it leaves of the ledger: a runner that was taking a number may have
\* truncated the file and not yet written it, and an empty file counts as 0.
LeaveLedger(stopped) ==
    \/ UNCHANGED <<ledger, emptied>>
    \/ /\ \E r \in stopped : phase[r] = "begin"
       /\ ledger' = 0
       /\ emptied' = TRUE

Stop ==
    /\ stops < MaxStops
    /\ stops' = stops + 1

\* The runner alone: its exit status pauses the collection.
KillRunner(r) ==
    /\ Alive(r)
    /\ Stop
    /\ LeaveRecords({r}) /\ LeaveLedger({r})
    /\ Become(r, "failed")
    /\ UNCHANGED <<started, resumes, completed, console, folder, resumed>>
    /\ UNCHANGED <<session, slot, result, errors, orphaned, refused>>
    /\ UNCHANGED <<service, supervisor>>

\* The supervisor alone: its runner goes on.
KillSupervisor ==
    /\ sup # "down"
    /\ Stop
    /\ Raise
    /\ orphaned' = (orphaned \/ (sup = "wait" /\ Alive(child)))
    /\ UNCHANGED <<errors, emptied, refused>>
    /\ UNCHANGED <<disk, service, runner>>

\* The terminal's interrupt reaches the supervisor and all runners; a power
\* loss stops the service too.
StopAll ==
    /\ sup # "down" \/ \E r \in Runners : Alive(r)
    /\ Stop
    /\ LeaveRecords(Runners) /\ LeaveLedger(Runners)
    /\ Raise
    /\ Gone(Runners)
    /\ UNCHANGED service \/ Stopped
    /\ UNCHANGED <<started, resumes, completed, console, folder, resumed>>
    /\ UNCHANGED <<errors, orphaned, refused>>

-----------------------------------------------------------------------------
SupervisorStep ==
    \/ Finish
    \/ SkipSession
    \/ RefuseSession
    \/ PrepareSession
    \/ SystemctlFails
    \/ Launch
    \/ Collect

RunnerStep(r) ==
    \/ BeginSession(r)
    \/ ResumeSession(r)
    \/ BeginTrial(r)
    \/ EndTrial(r)
    \/ AbortTrial(r)
    \/ RecordTrial(r)
    \/ Reaped(r)

Next ==
    \/ Execute
    \/ Resume
    \/ SupervisorStep
    \/ \E r \in Runners : RunnerStep(r) \/ KillRunner(r)
    \/ KillSupervisor
    \/ StopAll

Spec == Init /\ [][Next]_vars

\* Programs that run go on: the calls of a trial have timeouts.
FairSpec ==
    /\ Spec
    /\ WF_vars(SupervisorStep)
    /\ \A r \in Runners : WF_vars(RunnerStep(r))

-----------------------------------------------------------------------------
(* The programs that read the records                                      *)

\* r5_service_campaign_analysis: it raises on a line it cannot parse, on a
\* condition that is there twice or was not scheduled, once the campaign is
\* complete on one that is missing, and on two records with the same number
\* (the addresses and datapath identifiers it also compares are made from the
\* number, see IdentityLedger).
Recorded(s) == {attempts[s][i].slot : i \in 1 .. Prior(s)}
Once(s) == Cardinality(Recorded(s)) = Prior(s) /\ Recorded(s) \subseteq 1 .. Slots

NumbersDiffer ==
    \A s, t \in Plan : \A i \in 1 .. Prior(s), j \in 1 .. Prior(t) :
        attempts[s][i].id = attempts[t][j].id => s = t /\ i = j

AnalysisAccepts ==
    /\ \A s \in Plan :
        /\ Readable(s)
        /\ Once(s)
        /\ completed => Recorded(s) = 1 .. Slots
    /\ NumbersDiffer

-----------------------------------------------------------------------------
(* Properties                                                              *)

\* attempts.jsonl is the head of the schedule, one record per slot in order,
\* after any stops and resumes of which none left a runner behind: nothing
\* recorded is repeated, nothing is passed over, nothing is reordered.
RecordsFollowSchedule ==
    ~orphaned =>
        \A s \in Plan : \A i \in 1 .. Prior(s) : attempts[s][i].slot = i

\* The records of a session come from one unbroken sequence of controller
\* instances: each trial began with the instance the trial before it ended
\* with, also across a resume and a reboot.
OneServicePerSession ==
    ~orphaned =>
        \A s \in Plan : \A i \in 1 .. Prior(s) - 1 :
            attempts[s][i].after = attempts[s][i + 1].before

\* completed.json is written only when every slot of every session has its
\* record, once, and then the analysis accepts the records, but for two things a
\* stop and the resume after it can do and neither program looks for: a record
\* written behind one that had lost its newline, and numbers given out again
\* from an emptied ledger.
CompletedMeansAll ==
    completed /\ ~orphaned =>
        /\ \A s \in Plan : Once(s) /\ Recorded(s) = 1 .. Slots
        /\ AnalysisAccepts \/ emptied \/ \E s \in Plan : ending[s] = "glued"

\* A collection under way comes to rest, completed or paused: no supervisor
\* waits for a runner that is gone.
CollectionRests == sup # "down" ~> sup = "down"

\* "software execution errors pause collection" (the frozen plan): without
\* kills or power losses a paused session can be resumed.
PausedIsResumable == stops = 0 => ~refused
=============================================================================
