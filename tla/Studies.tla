------------------------------ MODULE Studies ------------------------------
(***************************************************************************)
(* The parts of the network studies that share no state: one trial of the  *)
(* service campaign (ServiceTrial), a driver that collects a schedule of   *)
(* trials and the analyses of its file (Collectors, Analyses), and one     *)
(* timed Packet-In (Timings).  A behaviour is one of the three.            *)
(***************************************************************************)
EXTENDS ServiceTrial, Analyses, Timings

studyvars == <<trialvars, colvars, shot>>

StudyInit ==
    \/ TrialInit /\ NoCollection /\ NoShot
    \/ CollectInit /\ NoTrial /\ NoShot
    \/ ShotInit /\ NoTrial /\ NoCollection

StudyNext ==
    \/ TrialNext /\ UNCHANGED <<colvars, shot>>
    \/ CollectNext /\ UNCHANGED <<trialvars, shot>>
    \/ ShotNext /\ UNCHANGED <<trialvars, colvars>>

StudySpec == StudyInit /\ [][StudyNext]_studyvars

\* The shape of the state of a trial and of a collection.
TypeOK == TrialTypeOK /\ CollectTypeOK
=============================================================================
