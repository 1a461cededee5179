-------------------------------- MODULE MCLab --------------------------------
(***************************************************************************)
(* TLC instance of Lab: every trial of every driver, and in each behaviour *)
(* at most one thing that goes wrong.                                      *)
(***************************************************************************)
EXTENDS Lab

MCDrivers == {"latency", "load", "recovery", "diag", "s56", "smoke", "full",
              "stage2", "compare", "calibration", "demo"}

Well == [late |-> 0, faults |-> 0, tools |-> 0, kills |-> 0]
Trouble ==
    {[Well EXCEPT !.late = 1], [Well EXCEPT !.faults = 1],
     [Well EXCEPT !.tools = 1], [Well EXCEPT !.kills = 1]}
MCAdversities ==
    [d \in MCDrivers |-> IF d = "recovery" THEN {a \in Trouble : a.late = 0}
                         ELSE Trouble]

\* The latency breakdown when nothing goes wrong.
OnlyLatency == {"latency"}
AllWell == [d \in OnlyLatency |-> {Well}]
=============================================================================
