# A verification project for DAIM OS and its Packet-In measurement artifact

TLA+ specifications of the program in `src/`, TLC configurations that check
them on small instances, and TLAPS proofs of what holds for every instance.
Paths below are relative to the repository (`src/`); `core.c`, `app.c`,
`adapter.c`, `svc.py` and `sup.py` stand for `implementation/src/daim_core.c`,
`implementation/src/daim_learning_app.c`,
`implementation/src/ovs_persistent_adapter.c`, `network/r5_service_campaign.py`
and `network/r5_service_campaign_supervisor.py`.

`PROJECT.json` lists components, runs, properties, the faults each property
catches, hazards, findings and theorems, and maps every definition to the
lines it models.

## 1. The system

The artifact is a small SDN runtime and the experiments around it.

    Open vSwitch --OpenFlow--> Os-Ken controller (Python)
                                   |  ctypes bridge
                                   v
                            learning application (C) --emit--> on_no_rule
                              |            |
              daim_table_write|            | flow_add
                              v            v
                         DAIM Core     switch adapter --Flow-Mod--> Open vSwitch

    campaign supervisor --starts--> session runner --runs--> trial (Mininet)
           \___________ files: markers, records, ledger ___________/

| Component | State | Operations | What is hard | What makes it correct |
|---|---|---|---|---|
| **DAIM Core** (`core.c`) | tables with a readers' cursor, one handler per signal, generation, `initialised`, `lock_ready`, a mutex | init, quit, write (add, delete), read, rewind, signal, emit | every function tests the life cycle before it takes the lock; the mutex is created without one; `emit` calls out | atomic operations; found positions stay valid; cursor within table; generation counts changes; quit cleans up; calls return |
| **Learning application** (`app.c`) | station table, current bridge, decided port, counters, a mutex | packet_in (emit, learn, look up, record, install), init, reset | globals carry one event's data through a callback; two locks; ignored results; the core's own life cycle | a decision is the event's own; rules point where a station was seen; rules are recorded; counters agree |
| **Identity ledger** (`svc.py`, `allocate_identity`) | one file under an flock | allocate | concurrent processes; truncate in place; kills, full disks, power losses | numbers increase; trials share no address |
| **Service campaign** (`sup.py`, `svc.py`) | markers, console logs, one `attempts.jsonl` per session, the service's InvocationID | execute, resume, session loop, trial loop | pause and resume; kills that leave a runner or half a record; service restarts | no trial lost, repeated or reordered; errors pause; one controller instance per session; completed means complete |
| **Persistent adapter** (`adapter.c`) | one socket, a transaction counter, statistics, a reader thread | connect, flow_add, echo reply, close | two writers on one stream; framing of long messages; a lost connection | whole messages on the wire; counters agree with it; the reader stays in step |
| **Process adapter** (`ovs_switch_adapter.c`) | none between calls | flow_add by fork and exec of `ovs-ofctl` | exit statuses | an installed rule is the one asked for |
| **Controllers** (`daim_bridge_controller.py` with `daim_core_bridge.py`, the reactive, direct and learning baselines) | stations, datapaths, the adapter under construction, the capture flag, what was printed | switch features, barrier, readiness, Packet-In, confirmation, reports | a Packet-In before the bridge exists; two channels to one switch; rules that outlive what they were learned from | rules lead home; ready means served |
| **Corrected measurement** (`s56_*.py`) | a gate, a control socket, an observer with a deadline, a verification gate | arm, accept, poll, judge, record | late and repeated packets; polls that end after the deadline; edits of the code between verification and official run | exactly the target packet is measured; stages add up; official rows follow a verification, by the hashes taken at the start |
| **Experiment drivers** (`packetin_latency_breakdown.py`, `control_plane_load_profile.py`, `r5_restart_recovery_*.py`, `r5_diag_q2.py`, `stage2_*.py`, `benchmark_stage2*.py`, `run_*_smoke.py`, `two_switch_demo.py`) | a controller process, a Mininet network, a watchdog, a monitor thread, the rows so far | launch, wait for events, ping, check, kill, record | blocking reads; kills of the driver that leave a controller behind; timeouts of `wait` | every bounded trial ends; no trial meets the controller of another; a recovery is one |
| **One service trial** (`run_trial` of `svc.py`) | a record that grows, probes under way | wait, connect, warm up, probe, inject a fault, restore, recover, clean up | the service dies, boots and is found again meanwhile; each command may fail | restored means restored by the new instance; the audit agrees |
| **Collection** (the loops that write the results files) | rows in memory, a file, what the disk has of it | append, rewrite, write at the end, resume | kills, power losses, torn lines, new runs | the file is the head of the schedule |
| **Analyses** (`analysis/*.py`, `summarize_stage2*.py`) | none | admit, group, pair, refuse | partial files; empty groups | conclusions rest on the records they name |
| Monitor, command-line tools, mock adapter | none that outlives a call | run commands, read and print | - | unit tests |

Interactions modelled: the learning application calls DAIM Core (through its
abstract specification, see below) and is called back by it; controllers,
switches and hosts exchange OpenFlow messages and frames; the drivers launch,
read, signal and kill controllers, and build and drop networks; supervisor and
runners communicate through files and through the controller service only; the
analyses read what the collectors left.

## 2. The modules

| Module | Models | Composition |
|---|---|---|
| `TableOps` | table, entry and handler constants; first match, next match, deletion | - |
| `TableStore` | what DAIM Core promises: each operation is one atomic step | extends `TableOps` |
| `DaimCore` | `core.c` with threads and mutex | extends `TableOps`; `Store == INSTANCE TableStore`, `ImplementsStore == Store!Spec` |
| `LearningApp` | `app.c` over DAIM Core | `Core == INSTANCE TableStore` with one table and one signal |
| `IdentityLedger` | `allocate_identity`; networks and datapaths of a trial | - |
| `ServiceCampaign` | `sup.py` and the runner of `svc.py` | a trial's allocation failure is one of its instrument errors |
| `WireFormat` | flow strings, the length of the Flow-Mod made of one | - |
| `PersistentAdapter` | `adapter.c`: reader thread, senders, switch | extends `WireFormat` |
| `Fabric` | Mininet hosts, links and Open vSwitch switches as the drivers use them (external) | - |
| `Controllers` | the Os-Ken applications, with the bridge, the baselines and the corrected measurement | extends `Fabric` |
| `Scripts` | the trials of the drivers, as sequences of steps | extends `Controllers` |
| `Lab` | a driver that runs one of the trials | extends `Scripts`: driver, controller and network together |
| `ServiceTrial` | one trial of `svc.py`, and the three programs that read its record | a whole trial is one step of `ServiceCampaign` |
| `Collectors` | how results are kept, killed and resumed | a whole trial is one step |
| `Analyses` | what the analysis programs make of a file | extends `Collectors` |
| `Timings` | the stamps of one captured Packet-In and what is computed from them | - |
| `Studies` | the three network studies, side by side | extends `ServiceTrial`, `Analyses`, `Timings` |
| `LabInvariants` | the inductive invariant of `Lab`, in six layers | extends `Lab` |
| `DaimCoreProofs`, `IdentityLedgerProofs`, `PersistentAdapterProofs`, `LearningAppProofs`, `ServiceCampaignProofs` | theorems | extend the module they are about, and `TLAPS` |
| `LabMachineProofs`, `LabProofs` | the first two layers and the facts they share; the other layers and the theorems | extend `LabInvariants`; `LabProofs` extends `LabMachineProofs` |
| `StudiesProofs` | the theorems on trials, collections, analyses and stamps, alone and under the specification of `Studies` | extends `Studies` |
| `MC...` | instances for TLC | extend the module they check |

Definitions commented `Fault:` are not part of a specification: each is a
plausible mistake in one operation, and `PROJECT.json` ("mutants") names the
property that finds it.

### DaimCore

A thread's `pc` is its place in an API function. `Begin` and `BeginInit` are
the unlocked tests at a function's head, `CreateMutex` and `SetReady` the two
halves of the first `daim_init`, `Acquire` is `pthread_mutex_lock`, `Locate`
what the function reads under the lock (search, handler, life cycle, result of
an allocation), `Commit` what it then writes, and the unlock. `HandlerWrites`
and `HandlerReturns` are the callback of `daim_core_emit`, which runs without
the lock and may call `daim_table_write`. `overlapped` is a history variable:
the last `daim_quit` took effect while another call was past its test.

* The unlocked reads of `lock_ready` and `initialised` are data races in C. A
  load that sees an old value is the same as a test made earlier, which the
  model allows because a test and its `Acquire` may lie any number of steps
  apart.
* `CoreAssumption` lets one thread make the first `daim_init`. The callers do
  (the constructor of the ctypes bridge, the C tests). Without it two mutexes
  are initialised over each other: that is the mutant of `MutualExclusion`.
* Entries are told apart by their bytes; sizes, copies and capacity are left
  out. An allocation that fails makes the call change nothing.
* A handler is one that writes a table or just returns. One that calls
  `daim_quit` or `emit` does not occur in the repository.

### LearningApp

`packet_in` is `Deliver` (the test of `ready`), `Enter` (lock and current
bridge), `Emit`, `Learn` (`learn` and `lookup_port` in `on_no_rule`), `Record`
(`daim_table_write`), `Install` (`install_flow`, decision), `Leave`. Other
threads may run `AppInit`/`AppSignal`, `AppReset`, `CoreInit`, `CoreQuit` and
`OtherRegisters` between any two steps. DAIM Core is the atomic store, as
`CoreImplementsStore` justifies. A write looks at `up` and takes effect in one
step; the late write that `core_quit` shows is a matter of DaimCore. Installing
a rule succeeds or fails; a rule with the same match is replaced, as OpenFlow's
add does. An event's bridge is a name; names longer than 63 characters, which
the code truncates and so may confuse, are not modelled. Times are left out.
A failing `pthread_mutex_init` makes `daim_learning_app_init` return without an
effect, which is no step at all.

### IdentityLedger

One action per call on the file. `file` is what processes read, `disk` the set
of contents that a power loss may leave: a write adds to it, an fsync settles
it. `Stop` ends one process (a kill, or a write that raises), `PowerLoss` all
of them; the kernel drops the flock either way. The creation of the file is not
made durable by the code either (no fsync of the directory); the file exists
after the first trial, and its loss before that is not modelled.

### ServiceCampaign

`Execute` and `Resume` are the two ways to start `sup.py`; `SkipSession`,
`RefuseSession`, `PrepareSession`, `Launch`, `Collect`, `Finish` its loop.
`BeginSession`, `ResumeSession`, `BeginTrial`, `EndTrial`, `AbortTrial`,
`RecordTrial` are `svc.py`. A record keeps the slot, whether it is an
`execution_error`, its number in the ledger, and the InvocationID of the
controller before and after. `KillRunner`, `KillSupervisor`, `StopAll` stop a
process, the supervisor alone, or everything. A stop during the write of a
record leaves nothing, all of it, all but its newline, or half of it; `ending`
says how the lines of a file end: a record without its newline parses, but the
next one is glued to it, and no later line makes that file readable again. A
stop while a number is taken may leave the ledger empty. Where a supervisor is
killed alone its runner goes on, and nothing in the code keeps a resume from
starting a second one (`orphaned`): the safety properties are stated for
histories without such a runner, since with one they fail.

* The trial is one step with an outcome. `served` stands for every status but
  `execution_error`: failures of the service are results, not errors. A slot
  that restarts the controller leaves a new instance, none, or the old one, when
  the trial breaks off before it.
* The service units do not restart by themselves, so only the supervisor, the
  two slots that restart the controller, and a power loss change the instance.
  A service that dies by itself is in `ServiceTrial`.
* `SystemctlFails` is a call of systemctl that reports an error or takes too
  long, before a session; `Finish` does not look at such errors, so that
  completed.json may stand beside a controller that runs. The check of the
  machine made after a collection (`analysis/r5_postcollection_state.py`) is a
  program of its own, run by hand, and no claim is made of it.
* A stop leaves a record of at most one of two runners, should there be two.
* `AnalysisAccepts` is what `analysis/r5_service_campaign_analysis.py` raises
  on: a line it cannot parse, a condition recorded twice, not scheduled or, in a
  complete campaign, missing, and two records with the same number (from which
  the addresses and datapaths it also compares are made).
* `mkdir`, `schedule.json`, `parameters.json` and the empty `attempts.jsonl` of
  a new session are one step: a stop between them leaves a session without a
  record in each case.
* A session stopped before its first record is not partial, its console log
  exists, and so every later resume raises at its start: such a collection can
  never be completed.
* The hashes of the sources, the journals, the application logs and the waits
  are left out. A resume needs an amendment with a new name; the number of
  amendments is the bound `MaxResumes`.

### PersistentAdapter and WireFormat

`Listen`, `TakeHello`, `DiscardHello` are
`daim_ovs_persistent_adapter_create`; `ReadHeader` to `CountReply` are
`reader_loop`; `BeginFlow`, `Build`, `Send`, `CountFlow` are
`persistent_flow_add` and `_delete`, which differ in the command only;
`Shutdown` and `Join` are `persistent_destroy`. The stream from the switch is a
sequence of cells of eight bytes, so that a reader that loses its place reads a
cell of some body as a header, with whatever that body says. `inbox` is what is
on its way: a connection that ends loses any part of it.

* A send takes the whole message or fails. Messages of some 100 bytes do not
  fill a socket's buffer; a switch that stops reading for so long that it does
  would block a sender with the lock held, and is left out.
* A send to a switch that has gone may succeed (`closing`) until one fails, and
  then all fail. SIGPIPE, which Python ignores and the command-line tools do
  not, is left out.
* The bridge is not looked at by `flow_add`; an adapter has one connection.
* `next_xid` has 32 bits and starts at 100. `AdapterAssumption` keeps the
  number of operations below 2^30, so that it does not wrap; a process that
  lived through 4 billion operations would use identifiers again.
* `EchoesAnswered` compares the n-th reply on the wire with the n-th request;
  `TotalLength` is the running sum over the messages on the wire.
* `bytes` counts Flow-Mods only. `daim_bridge_controller.py:238` adds echo
  replies to the number of control messages and not to the bytes reported
  beside it; `StatsMatchWire` states what each counter really is.
* `WireFormat` keeps the length of what `build_flow_mod` writes, since the
  switch finds the next message by it, and of the fields whether they are given
  and the 16 bits of a priority. A message of the reader that ends within a
  cell is taken to end before it.

### Fabric

`net` is one record: topology, rules, frames in the air, the controller's
channel in both directions (`pin`, `out`), the adapter's channel (`adp`),
neighbours, and the ping under way. A frame meets a rule, or the table-miss
rule if the controller is connected, or is dropped: the bridges are in fail
mode `secure`. Frames in the air have no order, messages of one channel have
one, and the two channels have none between them: a Packet-Out may pass the
rule that the persistent adapter has sent before it. `late` bounds the answers
that may still come after ping has given up. All of it is external, modelled
from how `network/*.py` uses it.

### Controllers

`ctl` is the running controller process. `SwitchesConnect`, `Features`,
`BarrierReply` are the handshake; `AdapterBuilt` is the thread that builds the
persistent adapter, `Announces` the one that prints "ready" or
"adapter_error". `BridgePacketIn`, `BaselinePacketIn`, `S56PacketIn` are the
three handlers: name of the bridge, capture, decision, rule, Packet-Out.
`Confirms` and `ReportsLoadProfile` end the handler of a captured packet in the
first two; `ObserverPolls`, `ObserverDeadline`, `ObserverEnds` are the loop of
`s56_measurement.observe`, where a poll that began in time may end late.

* Os-Ken serves the events of one application one after the other, so a
  handler is one step up to the wait for a confirmation. The threads are steps
  of their own. `Handles` is `LearningApp`'s event in one step: its lock is
  held throughout.
* `cap.installed` is set where a rule was asked for; `flow_add` may still fail,
  and the code sets `last_timing.installed` all the same. `Confirms` looks for
  a rule of the captured destination with any port, on the bridge it believes
  to be the switch: an unresolved name lists none.
* That `last_timing` and the decision keep the values of an earlier event when
  `on_no_rule` is not called is finding 2; no deployment reaches it, since the
  constructor of the bridge signals before the first event.

### Scripts and Lab

`Scripts` has the body, the `finally` and the rest of each trial as data;
`Lab` says what a step does: `LaunchStep`, `KillStep`, `StopStep`,
`TerminateStep` for processes, `AwaitStep` for the blocking or bounded reads,
`PingStep`, `MonitorPings`, `CheckStep`, and the bookkeeping. A step that fails
raises, returns, invalidates the record or is passed over, as its `else`
field says. `WatchdogFires` is the timer thread. `DriverKilled` is SIGKILL and
a new start: the old controller and network stay, and a new controller may
find the port taken (`own` is FALSE).

Abstractions of a trial: pings of several requests are one request, but for the
priming ping of the latency breakdown; forty load senders are one; topologies
of n switches have two; a controller that holds the port takes all switches of
a new network, not some of them. `SaysNoLoss` is the test of the bridge smoke
run, `"0% packet loss" in output`, which 10, 50 and 100 percent satisfy as
well (`docs/HISTORICAL_DATA_VALIDITY_20261001.md:17` says so). The latency
breakdown, the load profile, `stage2_full_compare.py` and `benchmark_stage2*.py`
note the same flag in their rows, where it decides nothing and is left out;
`stage2_benchmark.py` and the demo look for `", 0% packet loss"`.

What the reading of these drivers showed beyond the findings, and the model
keeps: the read loop of `r5_diag_q2` has no bound and does not know
`adapter_error` (so `EveryTrialEnds` leaves it out); the `wait` of the smoke
runs may raise in the `finally` and leaves the controller; a confirmation of
the latency breakdown has no deadline after a match; in fail mode `secure` the
Stage 2 rule `ip,actions=normal` drops ARP, so between hosts that do not know
each other yet the ping is lost, whatever the flag in the row says
(`results/network/STAGE2_REPORT.md:18` reports that all passed).

### ServiceTrial

`pc` is where `run_trial` is: `Listen`, `Connect`, `Warm`, `Batch`, `Baseline`,
the four `Inject...`, `During`, `Restore`, `CheckDuring`, `Recover`, `Cleanup`.
`world` is what a probe meets: the service (`up`, `booting`, `down`) and which
instance it is, the path, the port of the destination, and the rules with the
instance that made them. `ServiceBoots`, `SwitchConnects`, `NativeRepairs`,
`WindowEnds` go on by themselves, and `ServiceDies` ends a service that nothing
starts again. A probe begins and ends in separate steps, so that the window may
end, and the service change, in between. `troubles` bounds the probes and
commands that fail to execute and the deaths of the service. A command that
takes too long raises, with its effect or without; one whose exit status nobody
looks at (a link that does not go down or come up, which Mininet only logs, the
start of a service, a dump of the rules) fails without a trace in the status.

`Eligible`, `OutageObserved`, `Classification` are
`r5_service_campaign_analysis.py` and `r5_service_outage_interpretation.py`,
`Audit` is what `r5_service_campaign_audit.py` finds in the record of a
completed fault. `AuditAgrees` says which of its nine findings a record can have
at all: a dump that failed (`flow_read_error`), a controller that had died
before it was to be stopped, a link that did not go down; the other six, on the
verdict, the destinations and what was stopped, never. Left out of the audit
are the counts and times of the batch (lines 66-72), the duration that it
computes again and the texts it parses again. The native platforms (rules for
unknown hosts exist, the controller repairs them) are instances with
`Natives = TRUE`; `RestoredByNewService` is stated for the others, since a
native rule lets a probe through without any instance.

### Collectors, Analyses, Timings

`Collectors` takes a trial as one step and follows its record: memory, file,
disk. Five ways to keep results, one per `kind`: `official` appends, flushes
and resumes; `rewrite` writes its table after each trial; `table` at the end;
`s56` appends with fsync in a directory of its own, its official phase after a
verification of the same code; `monitor` appends until told to stop. `Kill`
leaves any part of what was being written; `PowerLoss` any part beyond the last
fsync. The code is hashed when an official run starts; an edit while it runs is
not seen by the program, and nothing is claimed of it. `torn` says how the file
ends: in part of a record, or without its line feed, in which case the next
record is glued to it. A `torn` last line makes `load_completed` of the official
script raise at every start (lines 12-16 of `r5_restart_recovery_official.py`
say a restart goes on): `Resume` ends in `refused`. An official run that is
resumed inside a block pairs arms measured in different sessions.

`Analyses` has the programs as operators on a file, run at any time. Kept: which
rows are admitted, grouped, paired, what is refused, and what an empty group
becomes ("null", NaN, or an exception: the programs differ). Recorded on the
way: the x86 and paper analyses write NaN for an empty arm where others raise;
`r5_restart_recovery_analysis.py` does not check that the sample is complete
and computes an interval for unanimous outcomes only; the latency breakdown
averages its stages over all rows and the totals over the confirmed ones; the
paired analysis draws its figure as soon as every arm and pair of arms has one
repetition; a table that a kill cut between two rows is analysed as complete,
and a torn row may be read with a shortened number.

`AnalysisAssumption` says of a schedule what its generators give it: a block is
a shuffle of all arms, so that it has each arm once (`r5_generate_schedule.py:22`,
`stage2_full_compare_paired.py:65`, `stage2_host_load_diagnostic.py:53`,
`s56_corrected_runner.py:272`); and no arm is called "overall", which is the
name of a row of its own in the host-load analysis.

`Timings` has the clock of one Packet-In: `Stamp` for each time stamp (the C
stamps go through the record `last_timing`, which every packet overwrites),
`Observe`, `PollV1`, `PollS56`, `GiveUp`. Then the programs that judge the row
and cut the latency into stages. `S56Sum` and `DeltaSum` are their sums over the
stages, written out, since both programs have eight named ones.

## 3. What the runs check

Every bound below is a constant of the module; the models are checked
completely within them.

| Run | Instance | Distinct states | Shows |
|---|---|---|---|
| `core` | 2 threads, 1 writable and 1 read-only table, 2 entries, 1 signal, 6 calls | 481,408 | types, exclusion, search validity, tables against cursor and generation, clean quit, return of calls, refinement of `TableStore` |
| `core_quit` | the same, 4 calls | | finding 1 |
| `learning_app` | 2 callers, 2 bridges, 2 stations, 2 ports, room for 2 stations, 3 events, 4 life-cycle calls | 537,666 | own decisions, sightings, kept stations, answered events |
| `learning_app_flood` | the same, 2 events | | finding 2 |
| `identity` | 3 processes, 5 calls, limit 4, 2 stops | | increase, disjoint trials, ended calls |
| `identity_crash` | the same | | finding 3 |
| `campaign` | 2 sessions, 2 slots, the first restarts the service, 2 runners, 2 resumes, 1 error, 1 stop | 1,762,181 | schedule, one instance, completeness, rest |
| `campaign_pause` | 2 sessions, 3 slots, 2 resumes, 2 errors, no stops | | finding 4 |
| `adapter` | 2 threads, 2 flow operations, 3 messages of the switch of 2 or 3 cells, buffers of one cell beside the header | 1,277,965 | the reader in step, replies in the order of requests, statistics against the wire, order of identifiers, lengths, ended operations |
| `lab` | every trial of the 11 drivers; one late answer, one failing command of the controller, one of the driver, or one kill of the driver per behaviour; 2 pings of the recovery monitor | 382,834 | rules lead home, ready means served, the target is measured, recoveries are real, no foreign controller, trials end |
| `lab_capture` | the latency breakdown, nothing goes wrong | | finding 5 |
| `studies` | a service trial on both platforms with 4 recovery probes and 3 troubles; or one of 5 collectors over 2 blocks of 2 arms with 4 stops; or a Packet-In with 6 ticks and a timeout of 3 | 717,766 | restored by the new service, audit, files follow the schedule, conclusions rest on records, stages and verdicts agree |

Why the bounds are enough to meet the interesting cases:

* `core`: six calls fill a table with two entries, pass one with a read, delete
  before or behind the cursor, and still leave a quit and an init; two threads
  because a conflict on the mutex is between two; the read-only table tells
  whether a write's test is respected. `DaimCoreProofs` lifts the bound.
* `learning_app`: two bridges so that one event can be mistaken for another's,
  a station table of two so that it fills up, and moves of a station between
  ports. Three events are enough for one to learn a station, one to be sent to
  it and one to move it; four life-cycle calls are an init of both parts, a
  quit and a reset in any order.
* `identity`: with three processes one can hold the lock, one wait and one be
  stopped; the limit is reached with four calls.
* `campaign`: one session is skipped, finished or followed while the other is
  resumed; one slot restarts the service and one does not; two runners, one of
  them left behind. A session pauses twice only if it has three slots: each
  error is recorded and takes a slot, and a session whose records are all there
  counts as finished. One stop tears a record or empties the ledger, and the
  resume after it writes on: both exceptions of `CompletedMeansAll` occur, and
  without either of them TLC finds it violated. More stops, one in each session
  or one after a resume, are left to `ServiceCampaignProofs`, for the safety
  properties.
* `adapter`: messages of two and three cells are one that fills the buffer and one
  that does not fit, and the reader can be left waiting for either body; the
  first is the Hello, the others are requests, notices, or what a lost reader
  takes for one. A message without a body (one cell) only skips the wait and is
  left to the proofs, for the safety properties. With two
  requests there is an order of replies to get wrong. Two threads
  with one operation each are enough to change the order of two identifiers.
* `lab`: one adversity per behaviour tells whether each alone is survived; any
  number of them at once is what `LabProofs` adds, for the safety properties.
  The recovery trial runs without a late answer, whose effect on its monitor the
  step `MonitorPings` has in itself (an answer may fall outside the window); the
  proofs allow it. The driver is killed only when nothing is in flight (`Quiet`,
  a guard of the model): its first step drops the old network, so what was in
  flight makes no difference.
* `studies`: a trial asks the same destination at most four times; after the
  second probe nothing new can happen but one more loss. Two blocks of two arms,
  shuffled, tell pairing by block from pairing by order; four stops allow a
  kill, a power loss, an edit and a retry. Six ticks let every pair of
  neighbouring stamps coincide or differ somewhere.
* `MCStudies` also compares the hand-written percentiles of
  `summarize_stage2*.py` with their definition (`PercentileAssumption`) for all
  ordered sequences of up to four of four values.

`RecordsFollowSchedule`, `OneServicePerSession` and `CompletedMeansAll` are
stated for histories without a runner left behind, `EchoesAnswered` for a Hello
that came in time and messages that fit the buffer, `RatesHaveTheirTrials`
(a part of `ConclusionsRestOnRecords`) for tables that were written to their
end. What happens outside is described at the hazard.

CHECK_DEADLOCK is FALSE where a system really stops: all calls made, the trial
recorded, the collection over, the driver done.

### Fairness

Weak fairness, on the steps of calls that are under way and of programs that
run, and on nothing else: `Step(t)` of a thread inside the library, `Step(c)`
of a caller inside `packet_in`, `Step(p)` of a process in `allocate_identity`,
`SupervisorStep` and `RunnerStep(r)`, and of the adapter `ReaderStep`,
`FlowStep(t)` and `Join`. In `Lab` it is on the network, the controller and the
driver as they go on (`FabricStep`, `ControllerStep`, `DriverSteps`), on the
watchdog's timer and on the observer's deadline, which comes however often the
observer polls. The operating system schedules runnable threads, timers fire,
and the commands of a trial have timeouts. No call, event, message of the
switch, resume, kill or life-cycle change is ever forced to come. Weak fairness
is enough for the lock because the number of calls is bounded: a mutex that is
released again and again finds its waiter in the end. `Studies` has safety
properties only and states no fairness.

## 4. Findings

1. **A write may land in a core that is down** (`core_quit`). The test of
   `initialised` (`core.c:117`) comes before the lock and is not repeated
   under it, while `daim_os_api.h:453` says that `daim_quit` "cleans up all the
   resources associated with a DAIM application". The next `daim_init` zeroes
   the table's pointer and leaks the entry. `QuietQuitCleansUp` is what does
   hold: no overlap, nothing left.
2. **`packet_in` may return a port nobody decided** (`learning_app_flood`). The
   results of `daim_signal` and `daim_core_emit` are not looked at, so an
   application that was initialised before the core, or has lost its handler,
   answers with the last decision or 0, where `daim_learning_app.h:20` says
   PORT_FLOOD.
3. **The ledger can start again** (`identity_crash`). A stop between
   `f.truncate()` and the fsync leaves an empty file, read as 0, where the
   docstring (`svc.py:28`) says "Durable monotonically unique IDs".
4. **A second pause is final** (`campaign_pause`). Every resume of a session
   creates the same `resume_parameters.json` with mode `x` (`svc.py:333`), so a
   session can be resumed once; `sup.py:61` says errors "pause" collection.
5. **The timed ping is not the one that is captured** (`lab_capture`). The
   capture flag of `daim_bridge_controller.py:199` looks at the destination
   only, and the priming ping of h3 goes there first: its Packet-In, which is
   flooded, is the one timed, where `packetin_latency_breakdown.py:16` says the
   timed ping "deterministically triggers exactly one NO_RULE decision and flow
   install". `S56_PACKETIN_LATENCY_CORRECTED_PROTOCOL.md:12` gives it as the
   reason for the corrected measurement, for which `EligibleIsTarget` holds.

## 5. What is proved

All theorems are proved by `tlapm` without unproved steps. They hold for every
value of the constants that satisfies the named assumptions.

**DaimCoreProofs**, from `StoreAssumption` and `CoreAssumption`: type
correctness, mutual exclusion, validity of what a call found, the tables
against cursor and generation, the quiet quit, and `ImplementsStore`. The
inductive invariant `IInv` is the conjunction of the types and of

* `Locking`: exclusion is not inductive alone. Who is past `Acquire` finds the
  mutex held; as long as `lock_ready` is unset only the one starter is inside
  the library, so `CreateMutex` never frees a mutex that somebody holds.
* `FoundStillThere`: needs `Locking`, since only the holder changes tables.
* `PastCheck`: a write that waits for the lock has passed its test, so
  read-only tables stay empty.
* `CursorInTable`, `RowsWithinGeneration`, the parts of `TablesConsistent`:
  preserved by each kind of commit, from what it found.
* `QuietDown`: in a core that is down and whose quit overlapped nothing, no
  call is past its test: this is what keeps `QuietQuitCleansUp` true.

Refinement uses `IInv`: a `Commit` is the store's operation because what was
found is still there (`CommitIsStoreStep`); every other step leaves the store.

**LearningAppProofs**, from `AppAssumption`: `DecisionIsOwn`,
`RulesFromSightings`, `StationsAreKept`, and the types. The globals of `g_app`
speak of one event at a time: `Locking` and `Current` say that a caller between
`Enter` and `Leave` holds the lock and that `currentBridge` is its own;
`LookedUp` that the port it decided on is still the one in the table when it
installs; and `StationsSeen` that what is in the table was seen. Resets and
inits take the lock as well, so none of it moves under a caller's hands. The
type invariant bounds the two counters by the events, which is not inductive:
`Counting` adds the events that are still on their way to being counted, and
says that a caller about to install has been counted and its flow has not.

**IdentityLedgerProofs**, from `LedgerAssumption`: types (no number at or above
the limit is held or returned), increasing numbers, disjoint trials. That the
number returned is the greatest so far depends on what the file holds at each
step, which `Fresh` states: outside the two steps between truncate and fsync
the file and the disk agree and bound all numbers returned; inside them, the
one process that holds the lock (`Exclusion`) remembers a number above them.

**ServiceCampaignProofs**, from `CampaignAssumption`: records in the order of
the schedule, one unbroken sequence of controller instances in a session,
and completed.json means a complete collection that the analysis accepts, but
for a glued line and an emptied ledger (`CompletedIsAll`), for any plan and
number of runners. As long as no runner
was left behind, the only runner at work is the one the supervisor waits for
(`OneAtWork`); records are a head of the schedule and join (`Headed`); what a
supervisor about to launch and a runner at each phase have checked still holds
(`Launching`, `AtWork`, `Joined`); and the sessions passed are whole (`Behind`,
`AtTheEnd`). A kill of the supervisor alone sets `orphaned`, and this part of
the invariant asks nothing from then on but the types. That no two records share
a number rests on the ledger (`Numbers`): as long as no stop emptied it, no
number recorded or held by a runner is above it, and all of these differ, also
where two runners work side by side. `CampaignTypes` adds what the types of
the proof leave open: a record names a slot of the schedule and an instance that
was given out (`AllDated`), also a record that was about to be written when its
process was stopped.

**PersistentAdapterProofs**, from `AdapterAssumption`, in four layers, each
proved from those before it. Together they are `AdapterInv`, and give the safety
properties of the run `adapter` for any number of threads and operations and for
messages of any length.

* The lock. `XidsIncrease` needs `Locking` (who sends or counts holds the lock)
  and `Older`: what is on the wire is older than what the lock's holder is
  about to send, and both are older than the next identifier.
* The stream (`Stream`). The reader tells where a message begins only by having
  counted right so far. `Framed` and `Whole` say of the cells on their way that,
  after those that belong to the message being read (`Gap`), each header is
  followed by as many cells as it says; `InTurn` and `Numbered`, that the
  requests among them are the ones still to be answered, in order (`Taken` of
  them have been). All of it holds while nothing has put the reader out of step
  (`Live`), and that is shown to depend on nothing but a message that did not
  fit its buffer or a Hello that came late.
* The counts (`Counted`). Only the thread that holds the lock has sent
  what is not counted yet; so the statistics agree with the wire when it is free.
* The answers (`Answering`): the replies on the wire are the requests taken, in
  order. And the bounds (`Bounded`): every operation under way has its
  identifier and its count to come within the operations begun.

`EveryFlowModFits` goes through the eight combinations of match fields and holds
for every flow string. The sum of lengths is a recursive function; what it
does to a longer sequence follows from `EveryNumber`, the induction principle
for a set of naturals, which the library's `WFMin` gives without an operator as
a parameter.

**LabMachineProofs** and **LabProofs**, from `LabAssumption`: the types and the
five safety properties of the run `lab`, for every set of drivers, any number of
late answers, failing commands and kills, in any combination, and any number of
the recovery monitor's pings. `LabInvariants` states the inductive
invariant `LabInv`, in six layers:

1. `PlaceInv`: the driver is at a step of its script, and its monitor runs only
   between the two steps of the recovery that start and join it. Each script is
   looked through once (`WellScripted`); the layers above know a step by what
   `Fits` says of it.
2. `NetworkInv`, `ControllerInv`: every packet anywhere (in the air, in either
   channel, in a hand-over) belongs to a ping that the driver has made by
   then, or to its answer, and has come by the port that leads back to its
   source (`Arrives`). So what a controller learns leads home (`Learnt`), and so
   does each rule made from it (`Made`), whatever is lost, late or reordered
   between the decision and the switch. `RulesLeadHome` alone says nothing of
   the rules that are still on their way, nor of the packets that will make some.
3. `OwnInv`, `ReadInv`, `ReadyInv`: where no controller can be alive, since the
   driver has killed or waited for it; what has been read is of the driver's
   own; and "ready" was printed only with an adapter in place.
4. `WatchInv`: a watchdog is armed only where the driver will call it off. That
   of the direct baseline guards two reads which nothing else can fail, since
   its process lives until the watchdog fires and prints nothing but
   confirmations.
5. `CaptureInv`, `EligibleInv`: a corrected measurement has at most one record,
   its packet is the target's, and where it says confirmed the rule is still in
   the table; what the driver read is that record, and what its row says is what
   the analysis will count.
6. `LifeInv`, `UnusedInv`, `UnansweredInv`, `ConfirmedInv`: the rules of the
   pair that is measured after a restart are of the controller that runs, also
   those on their way; until the ping without a controller is over, nothing but
   one host's ARP requests has passed between the two; and a rule that the
   monitor's success rests on is there when the row is written.

**StudiesProofs**, from `TrialAssumption`, `CollectAssumption`,
`AnalysisAssumption` and `TimingAssumption`, first each part alone, then under
the specification that the run `studies` checks, where a part that a behaviour
does not look at stays as it is.

* A trial: `RestoredByNewService`, `AuditAgrees` and the type invariant, for any
  number of probes and troubles. After a controller fault the recovery asks a
  destination that nobody asked before (`Asked`), rules that lead there are the
  new instance's, and as long as there is none the service is down
  (`ByNewInstance`); a bridge that was deleted lets nothing through
  (`Disrupted`); a moved host is at its new port (`Placed`); and a record says of
  its last probe what the audit would (`Judgement`). The type invariant needs
  more (`Shape`): that the switch has lost a service that was stopped
  (`Connected`), that what a complete record rests on was looked at on the way
  (`Checked`), and the bounds (`Bounded`).
* A collection: the types, and that the file of every collector is the head of
  the schedule. A collector that appends has skipped exactly the first records
  and is as far as its file (`Appending`); one that writes tables has its table
  in memory, whole and of its run (`Tabulating`); a power loss cuts a head to a
  head.
* The analyses: `ConclusionsRestOnRecords`, for every schedule of shuffled
  blocks. In a head of a schedule a block has at most one row of an arm
  (`OneEntry`), so that a dictionary that keeps the last of a key keeps the only
  one (`LastIsIt`) and no trial is in two differences; a whole table has every
  arm in every block, so the figures have all they draw (`WholeDraws`). That a
  file without "weak" rows stays so (`Graded`) is the one thing to add to the
  collection's invariant.
* The percentiles of the two summary programs (`PercentilesInterpolate`), for
  values of any number.
* The stamps: `TimingsAgree`, for any number of clock ticks, any budget and any
  duration of a look. `ShotInv` says that the stamps taken so far are in the
  order of the handler's marks (`InTurn`, `Ascending`), that the C stamps are
  this packet's own once they have been fetched (`Fetched`), and what the
  observer has seen (`Watched`).

Every invariant and every action property that a passing run checks is also a
theorem. Only model-checked are

* the liveness properties `EveryCallReturns`, `EveryPacketInReturns`,
  `EveryCallEnds`, `CollectionRests`, `OperationsEnd` and `EveryTrialEnds`:
  fairness and ENABLED are beyond the prover;
* the five findings, which are counterexamples.

The specifications keep to what the provers can expand. A selection from a
sequence and a fold are recursive operators of the library's, which they cannot;
where a statement needs one it is made with ranks and cardinalities
(`EchoesAnswered`), a recursive function (`TotalLength`) or a sum written out
(`S56Sum`).

## 6. What is not modelled, and the plan

Not modelled:

* **mock adapter, monitor, command-line tools**: no state that outlives a call,
  or pure output;
* **figures, reports, host summaries, bootstrap intervals and other
  statistics**: numerical or rendering code. Which rows they are computed from
  is in `Analyses`. The report does not compare the host summary with the raw
  files, so nothing relates the two;
* **the density check and the ping parser's self-test**: a printout and a table
  of texts;
* **frozen and amended sources under `results/`**: copies of programs at the
  time of collection. The frozen `r5_service_campaign.py` has no `--resume`;
  the first amendment's resume fails on the text of `recovery_window`; the
  second is the program modelled here;
* **declarations of the ctypes bridge and of the DAIM OS headers**: no
  behaviour;
* **the operating system, Open vSwitch, Mininet, systemd**: they appear as what
  the code sees of them.

Left out of what is modelled, beyond the notes in section 2:

* a send to a switch that does not read (the one hazard without a property: a
  message is some 100 bytes, and a model that blocks it would have to decide
  how full a kernel's buffer is);
* topologies beyond two switches;
* in the verification phase of the corrected measurement, an exception of the
  duplicate ping leaves `eligible_timing` TRUE in a record whose protocol is
  "execution_error"; such a record fails the phase (`AppendRecord`, "broken"),
  and the field itself is not kept.

What a next version would add, in order: the refinement of `LearningApp`'s
event by the decision of `Controllers`, which is now only argued (the lock is
held throughout); a theorem that what a collector has synchronised is never lost;
that a trial of `Lab` is what `Collectors` and `ServiceCampaign` take as one
step; more than two switches, for which `PortTowards` has to become a function
of the topology.
