----------------------------- MODULE Collectors -----------------------------
(***************************************************************************)
(* How the drivers keep the results of a schedule of trials, and what a    *)
(* reader finds when a driver was killed, the machine lost power, and the  *)
(* driver was started again.  The trial itself is one step here (Lab).     *)
(*                                                                         *)
(*   official  r5_restart_recovery_official: appends and flushes; a new    *)
(*             run loads the keys that are there and skips them            *)
(*   rewrite   stage2_full_compare_paired, stage2_host_load_diagnostic:    *)
(*             the whole table is written anew after every trial           *)
(*   table     packetin_latency_breakdown, control_plane_load_profile,     *)
(*             stage2_benchmark, stage2_full_compare: written at the end   *)
(*   s56       s56_corrected_runner: appends and synchronises, in a new    *)
(*             directory; the official phase asks for a verification       *)
(*   monitor   r5_host_resource_monitor: appends and synchronises samples  *)
(*             in a new file until it is told to stop                      *)
(***************************************************************************)
EXTENDS Integers, Sequences

CONSTANTS
    Kinds,     \* the collectors looked at
    Trials,    \* length of the schedule
    MaxStops   \* bound: kills, power losses, edits of the code, refusals gone round

ASSUME CollectAssumption ==
    /\ Kinds \subseteq {"official", "rewrite", "table", "s56", "monitor"}
    /\ Trials \in Nat \ {0}
    /\ MaxStops \in Nat

VARIABLES
    kind,    \* the collector
    at,      \* where its main() is; "off" when no process runs
    pos,     \* trials passed in this run
    skip,    \* the keys found at the start
    rows,    \* the records in the memory of the process
    file,    \* the records in the file, in order
    torn,    \* the end of the file: "none", "part" of a record, or "unended"
    synced,  \* records that survive a loss of power
    run,     \* runs begun
    gate,    \* s56: phase, versions of the code, the verification's records
    stops    \* disturbances that may still come

colvars == <<kind, at, pos, skip, rows, file, torn, synced, run, gate, stops>>

Synchronises == kind \in {"s56", "monitor"}
Appends == Synchronises \/ kind = "official"

\* code: on the disk now; frozen: of this run; prior: of the verification.
NoGate == [phase |-> "verify", code |-> 1, frozen |-> 1, verified |-> 1, prior |-> <<>>]

Kept == /\ pos = 0 /\ skip = {} /\ rows = <<>> /\ file = <<>> /\ torn = "none"
        /\ synced = 0 /\ run = 0 /\ gate = NoGate

NoCollection == kind = "none" /\ at = "off" /\ Kept /\ stops = 0
CollectInit == kind \in Kinds /\ at = "off" /\ Kept /\ stops = MaxStops

-----------------------------------------------------------------------------
(* Starting *)

Readable == torn # "part" /\ \A i \in DOMAIN file : ~file[i].glued

Begin ==
    /\ kind # "none" /\ at = "off"
    /\ run' = run + 1 /\ pos' = 0 /\ rows' = <<>>
    /\ UNCHANGED <<kind, stops>>

\* Fault: the records that are there are not loaded.
StartsOver ==
    /\ kind = "official" /\ Begin
    /\ at' = IF Readable THEN "loop" ELSE "refused"
    /\ skip' = {}
    /\ UNCHANGED <<file, torn, synced, gate>>

\* load_completed; json.loads raises on a line it cannot parse.
Resume ==
    /\ kind = "official" /\ Begin
    /\ at' = IF Readable THEN "loop" ELSE "refused"
    /\ skip' = {file[i].key : i \in DOMAIN file}
    /\ UNCHANGED <<file, torn, synced, gate>>

\* Nothing of an earlier run is read; its file stays until the first write.
StartAnew ==
    /\ kind \in {"rewrite", "table"} /\ Begin
    /\ at' = "loop" /\ skip' = {}
    /\ UNCHANGED <<file, torn, synced, gate>>

\* A file or directory of its own, which must not exist.
OwnFile == file' = <<>> /\ torn' = "none" /\ synced' = 0 /\ skip' = {}

StartMonitor ==
    /\ kind = "monitor" /\ Begin /\ OwnFile
    /\ at' = "loop"
    /\ UNCHANGED gate

StartVerification ==
    /\ kind = "s56" /\ Begin /\ OwnFile
    /\ at' = "loop"
    /\ gate' = [gate EXCEPT !.phase = "verify", !.frozen = @, !.prior = <<>>,
                            !.verified = gate.code]

\* The verification that --verification-dir names: the last one.
Verification == IF gate.phase = "verify" THEN file ELSE gate.prior
Passed(checks) ==
    /\ gate.phase = "verify" => Readable
    /\ Len(checks) = Trials /\ \A i \in DOMAIN checks : checks[i].res = "good"

StartOfficial ==
    /\ kind = "s56" /\ run > 0 /\ Begin
    /\ IF Passed(Verification) /\ gate.verified = gate.code
         THEN /\ OwnFile /\ at' = "loop"
              /\ gate' = [gate EXCEPT !.phase = "official", !.frozen = gate.code,
                                      !.prior = Verification]
         ELSE at' = "refused" /\ UNCHANGED <<skip, file, torn, synced, gate>>

\* The operator tries something else.
TryAgain ==
    /\ at = "refused" /\ kind = "s56" /\ at' = "off"
    /\ stops > 0 /\ stops' = stops - 1
    /\ skip' = {}
    /\ UNCHANGED <<kind, pos, rows, file, torn, synced, run, gate>>

-----------------------------------------------------------------------------
(* Collecting *)

Skip ==
    /\ at = "loop" /\ pos < Trials /\ pos + 1 \in skip
    /\ pos' = pos + 1
    /\ UNCHANGED <<kind, at, skip, rows, file, torn, synced, run, gate, stops>>

\* What a trial may come to: good; weak: valid, with no recovery seen; bad:
\* invalid, unconfirmed or a failed check.
Results == CASE kind = "official" -> {"good", "weak", "bad"}
             [] kind = "monitor" -> {"good"}
             [] OTHER -> {"good", "bad"}

RunTrial ==
    /\ at = "loop" /\ pos < Trials /\ pos + 1 \notin skip
    /\ \E res \in Results :
        rows' = Append(rows, [key |-> pos + 1, run |-> run, res |-> res,
                              glued |-> Appends /\ torn # "none"])
    /\ at' = IF kind = "table" THEN "loop" ELSE "record"
    /\ pos' = pos + 1
    /\ UNCHANGED <<kind, skip, file, torn, synced, run, gate, stops>>

\* f.write, f.flush and, for some, os.fsync.  An execution error ends the
\* verification.
AppendRecord ==
    /\ at = "record" /\ Appends
    /\ file' = Append(file, rows[Len(rows)])
    /\ torn' = "none"
    /\ synced' = IF Synchronises THEN Len(file) + 1 ELSE synced
    /\ \/ at' = "loop"
       \/ /\ kind = "s56" /\ gate.phase = "verify" /\ rows[Len(rows)].res = "bad"
          /\ at' = "broken"
    /\ UNCHANGED <<kind, pos, skip, rows, run, gate, stops>>

\* open(..., "w") empties the file, then the rows are written.
Truncate ==
    /\ \/ kind = "rewrite" /\ at = "record"
       \/ kind = "table" /\ at = "loop" /\ pos = Trials
    /\ file' = <<>> /\ torn' = "none"
    /\ at' = "write"
    /\ UNCHANGED <<kind, pos, skip, rows, synced, run, gate, stops>>

WriteRows ==
    /\ at = "write"
    /\ file' = rows
    /\ at' = IF kind = "table" THEN "done" ELSE "loop"
    /\ UNCHANGED <<kind, pos, skip, rows, torn, synced, run, gate, stops>>

Finish ==
    /\ at = "loop" /\ kind # "table" /\ (pos = Trials \/ kind = "monitor")
    /\ at' = "done"
    /\ UNCHANGED <<kind, pos, skip, rows, file, torn, synced, run, gate, stops>>

-----------------------------------------------------------------------------
(* Disturbances *)

\* What the file is about to hold.
Intended == CASE at = "write" -> rows
              [] at = "record" /\ Appends -> Append(file, rows[Len(rows)])
              [] OTHER -> file

\* The process ends; n whole records stay, of those written and the one or
\* more under way.  The cut is between two lines, in a record, or just before
\* the end of its line.
Cut(low) ==
    /\ stops > 0 /\ stops' = stops - 1
    /\ \E n \in low .. Len(Intended) :
        /\ file' = SubSeq(Intended, 1, n)
        /\ torn' \in {IF n = Len(file) THEN torn ELSE "none"}
                     \cup (IF n < Len(Intended) THEN {"part"} ELSE {})
                     \cup (IF n > low THEN {"unended"} ELSE {})
    /\ at' = "off" /\ pos' = 0 /\ skip' = {} /\ rows' = <<>>
    /\ UNCHANGED <<kind, synced, run, gate>>

Kill ==
    /\ at \in {"loop", "record", "write"}
    /\ Cut(Len(file))

\* Also of a machine on which the collector is over; a run that was cut short
\* begins again from what is left.
PowerLoss ==
    /\ kind # "none" /\ run > 0
    /\ Cut(synced)

EditCode ==
    /\ kind = "s56" /\ stops > 0 /\ stops' = stops - 1
    /\ gate' = [gate EXCEPT !.code = @ + 1]
    /\ UNCHANGED <<kind, at, pos, skip, rows, file, torn, synced, run>>

CollectNext ==
    \/ Resume \/ StartAnew \/ StartMonitor \/ StartVerification \/ StartOfficial
    \/ TryAgain \/ Skip \/ RunTrial \/ AppendRecord \/ Truncate \/ WriteRows
    \/ Finish \/ Kill \/ PowerLoss \/ EditCode

CollectSpec == CollectInit /\ [][CollectNext]_colvars

-----------------------------------------------------------------------------
(* Properties *)

Records == [key : 1 .. Trials, run : Nat, res : {"good", "weak", "bad"},
            glued : BOOLEAN]

\* The shape of the state; nothing is held between two runs, and a file is
\* only synchronised as far as it goes.
CollectTypeOK ==
    /\ kind \in Kinds \cup {"none"}
    /\ at \in {"off", "refused", "loop", "record", "write", "done", "broken"}
    /\ pos \in 0 .. Trials /\ skip \subseteq 1 .. Trials
    /\ rows \in Seq(Records) /\ file \in Seq(Records)
    /\ torn \in {"none", "part", "unended"}
    /\ synced \in 0 .. Len(file)
    /\ run \in Nat /\ stops \in Nat
    /\ gate.phase \in {"verify", "official"} /\ gate.prior \in Seq(Records)
    /\ at = "off" => rows = <<>> /\ skip = {}

\* Whatever was killed, lost or run again, the records in the file are those
\* of the beginning of the schedule, each once and in order; a collector that
\* does not resume has them all of one run; one that is over has all of them;
\* and the official run of the corrected measurement starts only after a
\* verification that was complete, passed, and had the same code at its start.
CollectedIsScheduled ==
    /\ \A i \in DOMAIN file : file[i].key = i
    /\ kind # "official" => \A i, j \in DOMAIN file : file[i].run = file[j].run
    /\ at = "done" /\ kind # "monitor" => Len(file) = Trials
    /\ gate.phase = "official" =>
         /\ Len(gate.prior) = Trials
         /\ \A i \in DOMAIN gate.prior : gate.prior[i].key = i /\ gate.prior[i].res = "good"
         /\ gate.frozen = gate.verified
=============================================================================
