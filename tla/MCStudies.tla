----------------------------- MODULE MCStudies -----------------------------
(* Trials of the service campaign with and without native rules, every     *)
(* collector over two blocks of two arms, shuffled in each block, and one  *)
(* Packet-In under each measurement.                                       *)
EXTENDS Studies

BothPlatforms == BOOLEAN
AllKinds == {"official", "rewrite", "table", "s56", "monitor"}

ShuffledBlocks == <<[block |-> 1, arm |-> "persistent"], [block |-> 1, arm |-> "reactive"],
                    [block |-> 2, arm |-> "reactive"], [block |-> 2, arm |-> "persistent"]>>

\* Percentiles as they are defined: the order statistics at equal distances,
\* joined by straight lines.
OrderedValues == {v \in UNION {[1 .. n -> 0 .. 3] : n \in 1 .. 4} : IsSorted(v, <=)}

ASSUME PercentileAssumption ==
    \A v \in OrderedValues :
        /\ Percentile(v, 0) = 100 * v[1] /\ Percentile(v, 100) = 100 * v[Len(v)]
        /\ \A p \in 0 .. 100, k \in 1 .. Len(v) - 1 :
            (k - 1) * 100 <= p * (Len(v) - 1) /\ p * (Len(v) - 1) <= k * 100 =>
                Percentile(v, p) - 100 * v[k] = (v[k + 1] - v[k]) * (p * (Len(v) - 1) - (k - 1) * 100)
=============================================================================
