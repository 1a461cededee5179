--------------------------- MODULE MCLearningApp ----------------------------
(***************************************************************************)
(* LearningApp for TLC: two callers, two stations that may each appear on  *)
(* two bridges and two ports, and room for two stations in the table.      *)
(***************************************************************************)
EXTENDS LearningApp

CONSTANTS b1, b2, m1, m2, p1, p2

\* Events between distinct stations; the second bridge has one port.
MCEvents == {e \in Requests : e.src # e.dst /\ (e.bridge = b2 => e.inPort = p1)}
=============================================================================
