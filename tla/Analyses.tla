------------------------------ MODULE Analyses ------------------------------
(***************************************************************************)
(* What the analysis programs compute from the files of the collectors.    *)
(* Anybody may run them at any time, also while a collector runs or after  *)
(* it was killed: they are operators on a file f, and what they refuse is  *)
(* what they do not check.                                                 *)
(*                                                                         *)
(* The values measured are left out.  A statistic stands for the trials it *)
(* is computed from, a difference for its two trials; what an empty arm    *)
(* makes of a statistic is kept, since the programs differ in it.          *)
(***************************************************************************)
EXTENDS Collectors, FiniteSets, FiniteSetsExt

CONSTANT
    Schedule   \* the block (or repetition) and the arm of each trial

Arms == {Schedule[k].arm : k \in 1 .. Trials}
Blocks == {Schedule[k].block : k \in 1 .. Trials}

\* A block is a shuffle of all the arms; "overall" is the name of a row beside
\* those of the arms.
ASSUME AnalysisAssumption ==
    /\ Schedule \in Seq([block : Nat \ {0}, arm : STRING])
    /\ Len(Schedule) = Trials
    /\ \A i, j \in 1 .. Trials : Schedule[i] = Schedule[j] => i = j
    /\ \A b \in Blocks, a \in Arms :
         \E k \in 1 .. Trials : Schedule[k].block = b /\ Schedule[k].arm = a
    /\ "overall" \notin Arms

-----------------------------------------------------------------------------
(* Records                                                                 *)

BlockOf(f, i) == Schedule[f[i].key].block
ArmOf(f, i) == Schedule[f[i].key].arm

\* [r for r in rows if r["mode"] == mode]
RowsOf(f, arm) == {i \in DOMAIN f : ArmOf(f, i) = arm}
ValidIn(f, S) == {i \in S : f[i].res # "bad"}
RecoveredIn(f, S) == {i \in S : f[i].res = "good"}

\* A dictionary filled row by row keeps the last of a key.
Entry(f, block, arm) == {i \in RowsOf(f, arm) : BlockOf(f, i) = block}
LastEntry(f, block, arm) == Max(Entry(f, block, arm))

\* "none": written as null; "nan": written as such; "raises": the program ends.
Statistic(S, empty) == [is |-> IF S = {} THEN empty ELSE "number", of |-> S]

-----------------------------------------------------------------------------
(* Recovery after a restart: r5_restart_recovery_analysis                  *)

\* The exact interval is computed for unanimous outcomes only.
ExactInterval(x, n) ==
    IF n = 0 THEN "none" ELSE IF x = n THEN "all" ELSE IF x = 0 THEN "nothing" ELSE "none"

\* Fault: the n-th recovery of one arm against the n-th of the other.
PairsByRank(f, a, b) ==
    LET Rank(S, i) == Cardinality({j \in S : j <= i})
        A == RecoveredIn(f, RowsOf(f, a))
        B == RecoveredIn(f, RowsOf(f, b))
    IN  {p \in A \X B : Rank(A, p[1]) = Rank(B, p[2])}

RecoveryPairs(f, a, b) ==
    LET Both == {k \in Blocks : Entry(f, k, a) # {} /\ Entry(f, k, b) # {}}
        Pair(k) == <<LastEntry(f, k, a), LastEntry(f, k, b)>>
    IN  {p \in {Pair(k) : k \in Both} : RecoveredIn(f, {p[1], p[2]}) = {p[1], p[2]}}

RecoverySummary(f) ==
    [arm \in Arms |->
        LET all == RowsOf(f, arm)
            valid == ValidIn(f, all)
            recovered == RecoveredIn(f, valid)
        IN  [n |-> all, valid |-> valid, invalid |-> all \ valid,
             recovered |-> recovered, lost |-> valid \ recovered,
             time |-> Statistic(recovered, "none"),
             interval |-> ExactInterval(Cardinality(recovered), Cardinality(valid))]]

-----------------------------------------------------------------------------
(* Tables of installation times                                            *)

\* stage2_full_compare_paired_analysis: an arm without trials is left out.
PairedSummary(f) ==
    [arm \in {a \in Arms : RowsOf(f, a) # {}} |->
        Statistic({LastEntry(f, k, arm) : k \in {b \in Blocks : Entry(f, b, arm) # {}}}, "none")]

PairedDifferences(f, a, b) ==
    {<<LastEntry(f, k, a), LastEntry(f, k, b)>> :
        k \in {c \in Blocks : Entry(f, c, a) # {} /\ Entry(f, c, b) # {}}}

\* n_reps = max(...) raises on an empty table; the figure is drawn as soon as
\* every arm and every pair of arms has a trial, complete or not.
PairedRuns(f) == f # <<>>
PairedDraws(f) ==
    /\ DOMAIN PairedSummary(f) = Arms
    /\ \A a, b \in Arms : a # b => PairedDifferences(f, a, b) # {}

\* stage2_full_compare_analysis: np.max of an empty arm raises.
FullCompareSummary(f) == [arm \in Arms |-> Statistic(RowsOf(f, arm), "raises")]

\* stage2_full_compare_independent_rerun_analysis, means only.
RerunMeans(f) == [arm \in Arms |-> Statistic(RowsOf(f, arm), "none")]

\* stage2_full_compare_x86_64_analysis: two tables, and the ratio of two arms.
X86Summary(f) == [arm \in Arms |-> Statistic(RowsOf(f, arm), "nan")]
X86Ratio(f, a, b) ==
    LET s == X86Summary(f)
    IN  [is |-> IF "nan" \in {s[a].is, s[b].is} THEN "nan" ELSE "number",
         of |-> s[a].of \cup s[b].of]

\* paper1_analysis: means, difference, ratio and effect size of two arms.
Paper1Summary(f) ==
    [arm \in Arms |-> [Statistic(RowsOf(f, arm), "nan")
        EXCEPT !.is = IF Cardinality(RowsOf(f, arm)) = 1 THEN "nan" ELSE @]]

\* stage2_host_load_diagnostic_analysis: one correlation over all trials and
\* one of each arm; a correlation of fewer than two trials is not a number.
HostLoadSummary(f) ==
    [arm \in Arms \cup {"overall"} |->
        LET S == IF arm = "overall" THEN DOMAIN f ELSE RowsOf(f, arm)
        IN  [is |-> IF Cardinality(S) < 2 THEN "nan" ELSE "number", of |-> S]]

\* control_plane_load_profile_analysis: values[0] of an empty arm raises.
LoadProfileSummary(f) == [arm \in Arms |-> Statistic(RowsOf(f, arm), "raises")]

\* packetin_latency_breakdown_analysis: the means of the stages are over all
\* trials, those of the total over the confirmed ones.
BreakdownSummary(f) ==
    [arm \in Arms |-> [stages |-> Statistic(RowsOf(f, arm), "none"),
                       total |-> Statistic(ValidIn(f, RowsOf(f, arm)), "raises")]]

\* summarize_stage2: the groups that are there; out[0] raises without any.
SummarizeStage2(f) ==
    [arm \in {ArmOf(f, i) : i \in DOMAIN f} |-> Statistic(RowsOf(f, arm), "raises")]

\* summarize_stage2_compare: every mode with every size.
SummarizeCompare(f) == [arm \in Arms |-> Statistic(RowsOf(f, arm), "raises")]

-----------------------------------------------------------------------------
(* The corrected measurement: s56_corrected_analysis                       *)

\* Rows of block 0 are of a verification.
S56Accepts(f) ==
    /\ gate.phase = "official" \/ f = <<>>
    /\ Len(f) = Trials
    /\ \A i \in DOMAIN f : f[i].key = i

S56Groups(f, arm) == {BlockOf(f, i) : i \in ValidIn(f, RowsOf(f, arm))}

S56Row(f, block, arm) == Max(ValidIn(f, Entry(f, block, arm)))

S56Pairs(f, a, b) ==
    {<<S56Row(f, k, a), S56Row(f, k, b)>> : k \in S56Groups(f, a) \cap S56Groups(f, b)}

S56Summary(f) ==
    [arm \in Arms |-> [scheduled |-> RowsOf(f, arm),
                       valid |-> ValidIn(f, RowsOf(f, arm)),
                       latency |-> Statistic(ValidIn(f, RowsOf(f, arm)), "none")]]

-----------------------------------------------------------------------------
(* Order statistics written by hand                                        *)

\* percentile() of summarize_stage2 and pct() of summarize_stage2_compare for
\* the p-th per cent of a sorted sequence, in hundredths.
Percentile(v, p) ==
    LET rank == (Len(v) - 1) * p
        lo == rank \div 100
        hi == Min({Len(v) - 1, lo + 1})
    IN  100 * v[lo + 1] + (v[hi + 1] - v[lo + 1]) * (rank - 100 * lo)

-----------------------------------------------------------------------------
(* Properties                                                              *)

\* What the analysis of this collector's file computes differences from; a
\* file that ends in part of a record is a line json cannot parse, or a row
\* of a table with a number cut short, which is looked at nowhere.
Differences(f, a, b) ==
    CASE kind = "official" /\ Readable -> RecoveryPairs(f, a, b)
      [] kind = "rewrite" /\ torn # "part" /\ PairedRuns(f) -> PairedDifferences(f, a, b)
      [] kind = "s56" /\ Readable /\ S56Accepts(f) -> S56Pairs(f, a, b)
      [] OTHER -> {}

\* A difference has two trials of one block, of the arms it names, neither of
\* them invalid where the collector judges its trials, and no trial is in two.
PairsAreFair ==
    \A a, b \in Arms : a # b =>
        \A p \in Differences(file, a, b) :
            /\ ArmOf(file, p[1]) = a /\ ArmOf(file, p[2]) = b
            /\ BlockOf(file, p[1]) = BlockOf(file, p[2])
            /\ kind # "rewrite" => "bad" \notin {file[p[1]].res, file[p[2]].res}
            /\ kind # "official" => file[p[1]].run = file[p[2]].run
            /\ \A q \in Differences(file, a, b) : p[1] = q[1] <=> p[2] = q[2]

\* The analysis of the corrected measurement accepts nothing but the whole
\* collection of one run of a code that passed its verification.
AcceptedIsOfficial ==
    kind = "s56" /\ Readable /\ S56Accepts(file) =>
        /\ gate.frozen = gate.verified
        /\ gate.prior # <<>> /\ \A i \in DOMAIN gate.prior : gate.prior[i].res = "good"
        /\ \A i \in DOMAIN file : file[i].run = file[1].run
        /\ \A arm \in Arms : LET s == S56Summary(file)[arm] IN
             /\ {file[i].key : i \in s.scheduled} = {k \in 1 .. Trials : Schedule[k].arm = arm}
             /\ s.latency.of = {i \in s.scheduled : file[i].res = "good"}

\* What the programs that read a table report of an arm, of all its trials.
TableStatistics(f, arm) ==
    CASE kind = "table" ->
           {FullCompareSummary(f)[arm], RerunMeans(f)[arm], X86Summary(f)[arm],
            Paper1Summary(f)[arm], LoadProfileSummary(f)[arm],
            BreakdownSummary(f)[arm].stages, SummarizeStage2(f)[arm],
            SummarizeCompare(f)[arm]}
      [] kind = "rewrite" -> {PairedSummary(f)[arm], HostLoadSummary(f)[arm]}
      [] OTHER -> {}

\* A rate of recoveries has every valid trial in it, and an exact interval
\* stands for trials that all ended alike; every program that reads a table
\* makes numbers of the whole of it, if the table is complete and each arm
\* has two trials.
RatesHaveTheirTrials ==
    /\ kind = "official" /\ Readable =>
         \A arm \in Arms : LET s == RecoverySummary(file)[arm] IN
           /\ s.time.of \cup s.lost \cup s.invalid = s.n
           /\ s.interval = "all" => s.lost = {}
           /\ s.interval = "nothing" => s.time.is = "none"
    /\ at = "done" /\ kind \in {"table", "rewrite"} =>
         \A arm \in Arms : Cardinality(RowsOf(file, arm)) > 1 =>
           /\ \A s \in TableStatistics(file, arm) : s.is = "number" /\ s.of = RowsOf(file, arm)
           /\ kind = "table" => X86Ratio(file, arm, arm).is = "number"
           /\ kind = "rewrite" => PairedDraws(file)

\* Whatever a collector was interrupted by and whenever an analysis is run on
\* what it left: differences are of two trials that belong together, rates of
\* all trials that count, and an official result of an official collection.
ConclusionsRestOnRecords == PairsAreFair /\ AcceptedIsOfficial /\ RatesHaveTheirTrials
=============================================================================
