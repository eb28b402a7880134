----------------------------- MODULE ScoredAgent -----------------------------
(***************************************************************************)
(* The scores one agent gets for its successive reports.  Each step is a   *)
(* new report that differs from the one before in a single group of        *)
(* metrics, so that a step shows what that group does to the score.        *)
(***************************************************************************)
EXTENDS CalcScore

CONSTANTS
  CpuPercents,   \* values of CpuStat.cpu_percent
  Loads,         \* values of CpuLoad.load_avg_1
  MemPercents,   \* values of MemInfo.used_percent
  NetRates,      \* values of NetInfo.send_rate and NetInfo.rcv_rate
  MaxCores       \* bound on the cpu_stat entries of a report

ASSUME MetricsAssumption ==
  /\ CpuPercents \cup Loads \cup MemPercents \cup NetRates \subseteq Number
  /\ MaxCores \in Nat

VARIABLES
  info,    \* the report in hand
  score    \* what CalcScore returned for it

vars == <<info, score>>

\* MonitorInfo of a poll that failed, or of a node_mid that has no report yet.
EmptyInfo == [cpu |-> <<>>, load |-> Absent, mem |-> Absent, net |-> <<>>]

CpuStats == UNION {[1..n -> CpuPercents] : n \in 0..MaxCores}

NetInfos == {<<>>} \cup {<<[send_rate |-> s, rcv_rate |-> r]>> : s, r \in NetRates}

Init == info = EmptyInfo /\ score = CalcScore(EmptyInfo)

Report(next) == info' = next /\ score' = CalcScore(next)

\* The kernel module's device is there or not, and shows some online CPUs.
ReportCpu == \E cpu \in CpuStats : Report([info EXCEPT !.cpu = cpu])

ReportLoad == \E load \in Loads \cup {Absent} : Report([info EXCEPT !.load = load])

ReportMem == \E mem \in MemPercents \cup {Absent} : Report([info EXCEPT !.mem = mem])

ReportNet == \E net \in NetInfos : Report([info EXCEPT !.net = net])

Next == ReportCpu \/ ReportLoad \/ ReportMem \/ ReportNet

Spec == Init /\ [][Next]_vars

-----------------------------------------------------------------------------
\* The metrics CalcScore looks at.
Used(i) == {cpu_percent(i), load_avg_1(i), mem_percent(i), net_recv_rate(i), net_send_rate(i)}

Comparable(i, j) == NaN \notin Used(i) \cup Used(j) /\ cpu_cores(i) = cpu_cores(j)

\* i is at most as busy as j in every metric, on the same number of cores.
AtMostAsBusy(i, j) ==
  /\ Comparable(i, j)
  /\ cpu_percent(i) <= cpu_percent(j)
  /\ load_avg_1(i) <= load_avg_1(j)
  /\ mem_percent(i) <= mem_percent(j)
  /\ net_recv_rate(i) <= net_recv_rate(j)
  /\ net_send_rate(i) <= net_send_rate(j)

NonNegative(i) == NaN \notin Used(i) /\ \A x \in Used(i) : x >= 0

Distance(x, y) == IF x < y THEN y - x ELSE x - y

TypeOK == info \in MonitorInfo /\ score \in (0..Full) \cup {NaN}

\* A report with a bad float is never given a plausible score, and a bad score
\* is never invented: the five `if (x < 0)` clamps and the two final ones let
\* NaN through, whichever metric it comes from.
NaNIsNotMasked == score = NaN <=> NaN \in Used(info)

\* CalcScore stores send_rate as net_recv_rate and rcv_rate as net_send_rate.
\* The two are given the same weight, so the exchange changes no score.
DirectionIsImmaterial ==
  info.net # <<>> =>
    LET iface == Head(info.net)
    IN  score = CalcScore([info EXCEPT !.net =
                  <<[send_rate |-> iface.rcv_rate, rcv_rate |-> iface.send_rate]>>])

\* "越小越好，分数越高": an agent whose metrics all stay or rise never gets a
\* higher score, whatever clamps apply on the way.
BusierScoresNoHigher == [][AtMostAsBusy(info, info') => score' <= score]_vars

\* A group of metrics moves the score by at most its weight: 40 points for the
\* CPU, 30 for the load, 20 for memory and 5 for each direction of the network.
\* A saturated metric cannot cost more, because its sub-score stops at 0.
WeightBoundsEffect ==
  [][NonNegative(info) /\ NonNegative(info') /\ cpu_cores(info) = cpu_cores(info')
     => Distance(score, score') <=
          (IF info.cpu = info'.cpu THEN 0 ELSE 800)
          + (IF info.load = info'.load THEN 0 ELSE 600)
          + (IF info.mem = info'.mem THEN 0 ELSE 400)
          + (IF info.net = info'.net THEN 0 ELSE 200)]_vars

\* With the load of the same machine spread over more cores the score never
\* drops: the default of one core (a report without cpu_stat) is the worst case.
MoreCoresScoreNoLower ==
  [][NonNegative(info) /\ NonNegative(info')
     /\ cpu_cores(info) <= cpu_cores(info') /\ cpu_percent(info) = cpu_percent(info')
     /\ info.load = info'.load
     /\ info.mem = info'.mem
     /\ info.net = info'.net => score <= score']_vars
=============================================================================
