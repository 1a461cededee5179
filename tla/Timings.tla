------------------------------ MODULE Timings -------------------------------
(***************************************************************************)
(* The time stamps of one captured Packet-In, from the handler of the      *)
(* controller through DAIM's C code and back to the first look at the      *)
(* switch that shows the rule, in its two measurements: v1 (latency        *)
(* breakdown) and s56 (corrected).  Then the programs that cut the latency *)
(* into stages: the runner and the analysis of s56, and the analysis of v1.*)
(*                                                                         *)
(* Controllers has the handlers with all they do; here only the clock, and *)
(* the record last_timing that every Packet-In overwrites.                 *)
(***************************************************************************)
EXTENDS Integers, Sequences, SequencesExt

CONSTANTS
    MaxTicks,   \* bound: what the clock reads when the observation begins
    Budget      \* the confirmation timeout

ASSUME TimingAssumption == MaxTicks \in Nat \ {0} /\ Budget \in Nat \ {0}

VARIABLE shot   \* the measurement under way, a record

\* Of daim_learning_app_timing, and of the handler in Python.
CMarks == {"c_entry", "c_decision", "c_table", "c_install", "c_exit"}
DaimMarks == <<"dispatch", "pre_ctypes", "c_entry", "c_decision", "c_table", "c_install",
               "c_exit", "post_ctypes", "packetout">>
OskenMarks == <<"dispatch", "parse", "state", "decision", "flowmod", "packetout">>

Marks(mode) == IF mode = "reactive_osken" THEN OskenMarks ELSE DaimMarks
AllMarks == ToSet(DaimMarks) \cup ToSet(OskenMarks)
NoStamps == [m \in AllMarks |-> 0]

\* last holds the stamps of an earlier Packet-In, from before the clock of
\* this one began, until C writes its own.
Shot(design, mode) ==
    [design |-> design, mode |-> mode, todo |-> Marks(mode), clock |-> 1,
     last |-> [m \in CMarks |-> 0], ts |-> NoStamps,
     deadline |-> 0, polls |-> <<>>, status |-> "stamping", end |-> 0]

NoShot == shot = [status |-> "none"]
ShotInit ==
    \E d \in {"v1", "s56"}, m \in {"persistent", "reactive_osken"} : shot = Shot(d, m)

Readings(least, most) == shot.clock + least .. shot.clock + most

-----------------------------------------------------------------------------
(* The handler *)

\* Fault: last_timing() is called before packet_in().
ReadsBefore(design) == "pre_ctypes"

\* last_timing() is called after the stamp of this name.
ReadsAfter(design) == IF design = "s56" THEN "post_ctypes" ELSE "packetout"

Stamp ==
    /\ shot.status = "stamping" /\ shot.todo # <<>>
    /\ \E now \in Readings(0, 1) :
        LET m == Head(shot.todo)
            inC == m \in CMarks
            own == IF inC THEN shot.ts ELSE [shot.ts EXCEPT ![m] = now]
        IN  /\ now <= MaxTicks
            /\ shot' = [shot EXCEPT
                  !.clock = now, !.todo = Tail(@),
                  !.last = IF inC THEN [@ EXCEPT ![m] = now] ELSE @,
                  !.ts = IF m = ReadsAfter(shot.design) /\ shot.mode # "reactive_osken"
                         THEN [k \in AllMarks |-> IF k \in CMarks THEN shot.last[k] ELSE own[k]]
                         ELSE own]

Observe ==
    /\ shot.status = "stamping" /\ shot.todo = <<>>
    /\ \E now \in Readings(0, 1) :
        shot' = [shot EXCEPT !.clock = now, !.deadline = now + Budget,
                             !.status = "observing"]

-----------------------------------------------------------------------------
(* The observation *)

Looking == shot.status = "observing" /\ shot.clock < shot.deadline

\* v1: dump-flows as long as it takes; a match counts whenever it came.
PollV1 ==
    /\ Looking /\ shot.design = "v1"
    /\ \E now \in Readings(1, 2), seen \in BOOLEAN :
        shot' = IF seen THEN [shot EXCEPT !.clock = now, !.end = now, !.status = "confirmed"]
                ELSE [shot EXCEPT !.clock = now]

\* s56: what a look showed and when it ended decide; whether a look that ran
\* out of time was the last is read from the clock again.
PollS56 ==
    /\ Looking /\ shot.design = "s56"
    /\ \E now \in Readings(1, 2), after \in 0 .. 1,
          res \in {"matched", "unmatched", "expired", "failed"} :
        LET status == CASE res = "expired" /\ now + after >= shot.deadline -> "timed_out"
                        [] res \in {"expired", "failed"} -> "tool_error"
                        [] res = "matched" /\ now <= shot.deadline -> "confirmed"
                        [] OTHER -> "observing"
        IN  shot' = [shot EXCEPT !.clock = now + after, !.polls = Append(@, res),
                                 !.status = status,
                                 !.end = IF status = "confirmed" THEN now ELSE 0]

GiveUp ==
    /\ shot.status = "observing" /\ ~Looking
    /\ shot' = [shot EXCEPT !.status = "timed_out"]

ShotNext == Stamp \/ Observe \/ PollV1 \/ PollS56 \/ GiveUp

ShotSpec == ShotInit /\ [][ShotNext]_shot

-----------------------------------------------------------------------------
(* The programs that read the stamps *)

Over == shot.status \in {"confirmed", "timed_out", "tool_error"}

\* s56_corrected_runner; the stamps of the baseline's own stages are not
\* looked at.
OrderValid(s) ==
    LET marks == IF s.mode = "reactive_osken" THEN <<"dispatch", "packetout">> ELSE DaimMarks
        stamps == [i \in DOMAIN marks |-> s.ts[marks[i]]]
    IN  IsSorted(IF s.end = 0 THEN stamps ELSE Append(stamps, s.end), <=)

EligibleTiming(s) == s.status = "confirmed" /\ OrderValid(s)
LatencyNs(s) == IF EligibleTiming(s) THEN s.end - s.ts["dispatch"] ELSE -1

\* s56_corrected_analysis
ValidTiming(s) ==
    /\ s.status = "confirmed" /\ s.polls # <<>>
    /\ \A i \in DOMAIN s.polls : s.polls[i] \notin {"expired", "failed"}
    /\ Last(s.polls) = "matched"
    /\ s.end >= s.ts["dispatch"] /\ OrderValid(s)
    /\ s.end - s.ts["dispatch"] = LatencyNs(s)

S56Stages(s) ==
    LET t == s.ts IN
    [dispatch |-> t["pre_ctypes"] - t["dispatch"],
     interop |-> t["c_entry"] - t["pre_ctypes"] + t["post_ctypes"] - t["c_exit"],
     core_decision |-> t["c_decision"] - t["c_entry"],
     table_write |-> t["c_table"] - t["c_decision"],
     adapter_call |-> t["c_install"] - t["c_table"],
     c_exit_tail |-> t["c_exit"] - t["c_install"],
     post_call_and_packetout |-> t["packetout"] - t["post_ctypes"],
     confirmation_wait |-> s.end - t["packetout"]]

\* sum(stages.values()), which the program compares with the latency.
S56Sum(st) ==
    st.dispatch + st.interop + st.core_decision + st.table_write + st.adapter_call
    + st.c_exit_tail + st.post_call_and_packetout + st.confirmation_wait

\* packetin_latency_breakdown_analysis, of a confirmed row.
StageDeltas(s) ==
    LET t == s.ts IN
    IF s.mode = "reactive_osken"
    THEN [controller |-> t["parse"] - t["dispatch"], interop |-> 0,
          decision |-> t["decision"] - t["parse"], table_write |-> 0,
          install_call |-> t["flowmod"] - t["decision"], c_exit_tail |-> 0,
          packetout |-> t["packetout"] - t["flowmod"],
          confirm |-> s.end - t["packetout"]]
    ELSE [controller |-> t["pre_ctypes"] - t["dispatch"],
          interop |-> (t["c_entry"] - t["pre_ctypes"]) + (t["post_ctypes"] - t["c_exit"]),
          decision |-> t["c_decision"] - t["c_entry"],
          table_write |-> t["c_table"] - t["c_decision"],
          install_call |-> t["c_install"] - t["c_table"],
          c_exit_tail |-> t["c_exit"] - t["c_install"],
          packetout |-> t["packetout"] - t["post_ctypes"],
          confirm |-> s.end - t["packetout"]]

\* The stages of a trial together; the program reports their total beside them.
DeltaSum(st) ==
    st.controller + st.interop + st.decision + st.table_write + st.install_call
    + st.c_exit_tail + st.packetout + st.confirm

-----------------------------------------------------------------------------
(* Properties *)

\* Every part is of this packet, and the parts make up the whole.
MakesUp(stages, sum, total) ==
    /\ \A k \in DOMAIN stages : stages[k] >= 0
    /\ sum = total

\* The two programs of the corrected measurement, which judge a row for
\* themselves, agree on it, the assertion in the second never fails, and a
\* confirmation came in time; in both measurements the stages are those of
\* the captured packet, although the C stamps are one record for all packets.
TimingsAgree ==
    /\ shot.status # "none" /\ Over /\ shot.design = "s56" =>
         /\ EligibleTiming(shot) <=> ValidTiming(shot)
         /\ shot.status = "confirmed" => EligibleTiming(shot) /\ shot.end <= shot.deadline
         /\ ValidTiming(shot) /\ shot.mode # "reactive_osken" =>
              MakesUp(S56Stages(shot), S56Sum(S56Stages(shot)), LatencyNs(shot))
    /\ shot.status = "confirmed" /\ shot.design = "v1" =>
         MakesUp(StageDeltas(shot), DeltaSum(StageDeltas(shot)),
                 shot.end - shot.ts["dispatch"])
=============================================================================
