------------------------- MODULE ScoredAgent_proofs -------------------------
(***************************************************************************)
(* CalcScore for every report, not only those of the checked instance: the *)
(* range of the score, where NaN comes from, that a busier agent never     *)
(* scores higher and one with more cores never lower, and what a group of  *)
(* metrics can cost.                                                       *)
(***************************************************************************)
EXTENDS ScoredAgent, SequenceTheorems, TLAPS

USE NaNAssumption, AbsentAssumption DEF Number

(***************************************************************************)
(* The float operations on numbers.                                        *)
(***************************************************************************)
LEMMA QuotientIsNumber ==
  ASSUME NEW x \in Number, NEW k \in Nat \ {0}
  PROVE  /\ Quotient(x, k) \in Number
         /\ Quotient(x, k) = NaN <=> x = NaN
  BY DEF Quotient

\* Integer division by a positive number is monotone.
LEMMA QuotientMonotone ==
  ASSUME NEW x \in Int, NEW y \in Int, NEW k \in Nat \ {0}, x <= y
  PROVE  Quotient(x, k) <= Quotient(y, k)
  BY DEF Quotient

\* The same load on more cores is no more load per core.
LEMMA QuotientAntitone ==
  ASSUME NEW x \in Nat, NEW k \in Nat \ {0}, NEW m \in Nat \ {0}, k <= m
  PROVE  Quotient(x, m) <= Quotient(x, k)
  <1> DEFINE p == x \div k
             q == x \div m
  <1>1. /\ p \in Nat /\ q \in Nat
        /\ x = p * k + (x % k) /\ x % k < k
        /\ x = q * m + (x % m) /\ x % m >= 0
        /\ x % k \in Nat /\ x % m \in Nat
    OBVIOUS
  <1> HIDE DEF p, q
  <1>2. x < (p + 1) * k /\ q * m <= x
    BY <1>1
  <1>3. q * k <= q * m
    BY <1>1
  <1>4. q <= p
    <2> SUFFICES ASSUME p + 1 <= q PROVE FALSE
      BY <1>1
    <2>1. (p + 1) * k <= q * k
      BY <1>1
    <2>. QED BY <1>1, <1>2, <1>3, <2>1
  <1>5. Quotient(x, m) = q /\ Quotient(x, k) = p
    BY DEF Quotient, p, q
  <1>. QED BY <1>4, <1>5

(***************************************************************************)
(* The metrics of a report are numbers, whichever fields it carries.       *)
(***************************************************************************)
LEMMA MetricsAreNumbers ==
  ASSUME NEW i \in MonitorInfo
  PROVE  /\ Used(i) \subseteq Number
         /\ cpu_cores(i) \in Nat \ {0}
  <1>1. /\ i.cpu \in Seq(Number)
        /\ i.load \in Number \cup {Absent}
        /\ i.mem \in Number \cup {Absent}
        /\ i.net \in Seq([send_rate : Number, rcv_rate : Number])
    BY DEF MonitorInfo
  <1>2. cpu_percent(i) \in Number /\ cpu_cores(i) \in Nat \ {0}
    BY <1>1 DEF cpu_percent, cpu_cores
  <1>3. load_avg_1(i) \in Number /\ mem_percent(i) \in Number
    BY <1>1 DEF load_avg_1, mem_percent
  <1>4. net_recv_rate(i) \in Number /\ net_send_rate(i) \in Number
    <2>1. i.net # <<>> => Head(i.net) \in [send_rate : Number, rcv_rate : Number]
      BY <1>1, HeadTailProperties
    <2>. QED BY <2>1 DEF net_recv_rate, net_send_rate
  <1>. QED BY <1>2, <1>3, <1>4 DEF Used

(***************************************************************************)
(* The sub-scores, as functions of one number.  Headroom is what is left   *)
(* of 1.0 by a metric that takes x hundredths of it.                       *)
(***************************************************************************)
Headroom(x) == ClampLow(Minus(One, x))

LEMMA HeadroomIsNumber ==
  ASSUME NEW x \in Number
  PROVE  /\ x = NaN <=> Headroom(x) = NaN
         /\ x # NaN => Headroom(x) \in Nat
  BY DEF Headroom, ClampLow, Minus, Below, One

LEMMA HeadroomAntitone ==
  ASSUME NEW x \in Int, NEW y \in Int, x <= y
  PROVE  Headroom(y) <= Headroom(x)
  <1>1. ASSUME NEW z \in Int
        PROVE  Headroom(z) = IF 100 - z < 0 THEN 0 ELSE 100 - z
    <2>1. Minus(One, z) = 100 - z /\ 100 - z \in Int
      BY DEF Minus, One
    <2>. QED BY <2>1 DEF Headroom, ClampLow, Below
  <1>. QED BY <1>1

SubScores(i) == {cpu_score(i), load_score(i), mem_score(i),
                 net_score(net_recv_rate(i)), net_score(net_send_rate(i))}

LEMMA SubScoresAreNumbers ==
  ASSUME NEW i \in MonitorInfo
  PROVE  /\ NaN \in Used(i) <=> NaN \in SubScores(i)
         /\ NaN \notin Used(i) => SubScores(i) \subseteq Nat
  <1> USE MetricsAreNumbers DEF Used
  <1>1. /\ cpu_percent(i) = NaN <=> cpu_score(i) = NaN
        /\ cpu_percent(i) # NaN => cpu_score(i) \in Nat
    BY HeadroomIsNumber DEF cpu_score, Headroom
  <1>2. /\ mem_percent(i) = NaN <=> mem_score(i) = NaN
        /\ mem_percent(i) # NaN => mem_score(i) \in Nat
    BY HeadroomIsNumber DEF mem_score, Headroom
  <1>3. /\ load_avg_1(i) = NaN <=> load_score(i) = NaN
        /\ load_avg_1(i) # NaN => load_score(i) \in Nat
    BY QuotientIsNumber, HeadroomIsNumber DEF load_score, Headroom
  <1>4. ASSUME NEW rate \in Number
        PROVE  /\ rate = NaN <=> net_score(rate) = NaN
               /\ rate # NaN => net_score(rate) \in Nat
    <2>1. max_bandwidth \div One \in Nat \ {0}
      BY DEF max_bandwidth, One
    <2>. QED BY <2>1, QuotientIsNumber, HeadroomIsNumber DEF net_score, Headroom
  <1>. QED BY <1>1, <1>2, <1>3, <1>4 DEF SubScores

\* The weighted sum of numbers.
LEMMA WeightedSum ==
  ASSUME NEW i \in MonitorInfo
  PROVE  /\ NaN \in Used(i) => weighted_sum(i) = NaN
         /\ NaN \notin Used(i) =>
              /\ weighted_sum(i) \in Nat
              /\ weighted_sum(i) = 8 * cpu_score(i) + 6 * load_score(i) + 4 * mem_score(i)
                                    + net_score(net_recv_rate(i)) + net_score(net_send_rate(i))
  <1>1. CASE NaN \in Used(i)
    BY <1>1, SubScoresAreNumbers DEF SubScores, weighted_sum, Plus, Times
  <1>2. CASE NaN \notin Used(i)
    BY <1>2, SubScoresAreNumbers DEF SubScores, weighted_sum, Plus, Times
  <1>. QED BY <1>1, <1>2

(***************************************************************************)
(* The score.                                                              *)
(***************************************************************************)
LEMMA ScoreOfReport ==
  ASSUME NEW i \in MonitorInfo
  PROVE  /\ NaN \in Used(i) => CalcScore(i) = NaN
         /\ NaN \notin Used(i) => CalcScore(i) \in 0..Full
  BY WeightedSum DEF CalcScore, ClampHigh, ClampLow, Below, Full

LEMMA BusierScoresNoHigherLemma ==
  ASSUME NEW i \in MonitorInfo, NEW j \in MonitorInfo, AtMostAsBusy(i, j)
  PROVE  CalcScore(j) <= CalcScore(i)
  <1> USE MetricsAreNumbers DEF Used
  <1>1. /\ NaN \notin Used(i) /\ NaN \notin Used(j)
        /\ cpu_cores(i) = cpu_cores(j)
    BY DEF AtMostAsBusy, Comparable
  <1>2. cpu_score(j) <= cpu_score(i)
    BY <1>1, HeadroomAntitone DEF AtMostAsBusy, cpu_score, Headroom
  <1>3. mem_score(j) <= mem_score(i)
    BY <1>1, HeadroomAntitone DEF AtMostAsBusy, mem_score, Headroom
  <1>4. load_score(j) <= load_score(i)
    BY <1>1, QuotientMonotone, QuotientIsNumber, HeadroomAntitone
    DEF AtMostAsBusy, load_score, Headroom
  <1>5. ASSUME NEW x \in Int, NEW y \in Int, x <= y
        PROVE  net_score(y) <= net_score(x)
    <2>1. max_bandwidth \div One \in Nat \ {0}
      BY DEF max_bandwidth, One
    <2>. QED BY <1>5, <2>1, QuotientMonotone, QuotientIsNumber, HeadroomAntitone
         DEF net_score, Headroom
  <1>6. /\ net_score(net_recv_rate(j)) <= net_score(net_recv_rate(i))
        /\ net_score(net_send_rate(j)) <= net_score(net_send_rate(i))
    BY <1>1, <1>5 DEF AtMostAsBusy
  <1>7. weighted_sum(j) <= weighted_sum(i)
    BY <1>1, <1>2, <1>3, <1>4, <1>6, SubScoresAreNumbers, WeightedSum DEF SubScores
  <1>. QED
    BY <1>1, <1>7, WeightedSum DEF CalcScore, ClampHigh, ClampLow, Below, Full

LEMMA MoreCoresLemma ==
  ASSUME NEW i \in MonitorInfo, NEW j \in MonitorInfo, NonNegative(i), NonNegative(j),
         cpu_cores(i) <= cpu_cores(j), cpu_percent(i) = cpu_percent(j),
         i.load = j.load, i.mem = j.mem, i.net = j.net
  PROVE  CalcScore(i) <= CalcScore(j)
  <1>1. NaN \notin Used(i) /\ NaN \notin Used(j)
    BY DEF NonNegative
  <1>2. /\ cpu_score(i) = cpu_score(j) /\ mem_score(i) = mem_score(j)
        /\ net_score(net_recv_rate(i)) = net_score(net_recv_rate(j))
        /\ net_score(net_send_rate(i)) = net_score(net_send_rate(j))
        /\ load_avg_1(i) = load_avg_1(j)
    BY DEF cpu_score, mem_score, mem_percent, net_recv_rate, net_send_rate, load_avg_1
  <1>3. load_score(i) <= load_score(j)
    <2> DEFINE x == load_avg_1(i)
               here == Quotient(x, cpu_cores(i))
               there == Quotient(x, cpu_cores(j))
    <2>1. cpu_cores(i) \in Nat \ {0} /\ cpu_cores(j) \in Nat \ {0} /\ x \in Nat
      BY MetricsAreNumbers DEF NonNegative, Used
    <2>2. there <= here
      BY <2>1, QuotientAntitone
    <2>3. there \in Int /\ here \in Int
      BY <2>1, QuotientIsNumber
    <2>4. load_score(i) = Headroom(here) /\ load_score(j) = Headroom(there)
      BY <1>2 DEF load_score, Headroom
    <2> HIDE DEF here, there
    <2>. QED BY <2>2, <2>3, <2>4, HeadroomAntitone
  <1>4. weighted_sum(i) <= weighted_sum(j)
    BY <1>1, <1>2, <1>3, SubScoresAreNumbers, WeightedSum DEF SubScores
  <1>. QED
    BY <1>1, <1>4, WeightedSum DEF CalcScore, ClampHigh, ClampLow, Below, Full

\* A metric that is not negative leaves a sub-score between 0 and 1.0.
LEMMA SubScoresBounded ==
  ASSUME NEW i \in MonitorInfo, NonNegative(i)
  PROVE  SubScores(i) \subseteq 0 .. One
  <1>1. Used(i) \subseteq Nat /\ cpu_cores(i) \in Nat \ {0}
    BY MetricsAreNumbers DEF NonNegative
  <1>2. ASSUME NEW x \in Nat PROVE Headroom(x) \in 0 .. One
    BY DEF Headroom, ClampLow, Minus, Below, One
  <1>3. ASSUME NEW x \in Nat, NEW k \in Nat \ {0} PROVE Quotient(x, k) \in Nat
    BY DEF Quotient
  <1>4. cpu_score(i) \in 0 .. One /\ mem_score(i) \in 0 .. One
    BY <1>1, <1>2 DEF Used, cpu_score, mem_score, Headroom
  <1>5. load_score(i) \in 0 .. One
    BY <1>1, <1>2, <1>3 DEF Used, load_score, Headroom
  <1>6. ASSUME NEW rate \in Nat PROVE net_score(rate) \in 0 .. One
    <2>1. max_bandwidth \div One \in Nat \ {0}
      BY DEF max_bandwidth, One
    <2>. QED BY <1>2, <1>3, <2>1 DEF net_score, Headroom
  <1>. QED BY <1>1, <1>4, <1>5, <1>6 DEF Used, SubScores

LEMMA SubScoreBounds ==
  ASSUME NEW i \in MonitorInfo, NonNegative(i)
  PROVE  /\ cpu_score(i) \in 0 .. 100 /\ load_score(i) \in 0 .. 100 /\ mem_score(i) \in 0 .. 100
         /\ net_score(net_recv_rate(i)) \in 0 .. 100 /\ net_score(net_send_rate(i)) \in 0 .. 100
  BY SubScoresBounded DEF SubScores, One

\* Without negative metrics no clamp of the sum applies: the score is the sum.
LEMMA ScoreIsTheSum ==
  ASSUME NEW i \in MonitorInfo, NonNegative(i)
  PROVE  CalcScore(i) = 8 * cpu_score(i) + 6 * load_score(i) + 4 * mem_score(i)
                        + net_score(net_recv_rate(i)) + net_score(net_send_rate(i))
  <1>1. NaN \notin Used(i)
    BY DEF NonNegative
  <1>2. weighted_sum(i) = 8 * cpu_score(i) + 6 * load_score(i) + 4 * mem_score(i)
                          + net_score(net_recv_rate(i)) + net_score(net_send_rate(i))
    BY <1>1, WeightedSum
  <1>3. weighted_sum(i) \in 0 .. 2000
    <2> DEFINE c == cpu_score(i)
               l == load_score(i)
               m == mem_score(i)
               r == net_score(net_recv_rate(i))
               t == net_score(net_send_rate(i))
    <2>1. c \in 0 .. 100 /\ l \in 0 .. 100 /\ m \in 0 .. 100 /\ r \in 0 .. 100 /\ t \in 0 .. 100
      BY SubScoreBounds
    <2>2. weighted_sum(i) = 8 * c + 6 * l + 4 * m + r + t
      BY <1>2
    <2> HIDE DEF c, l, m, r, t
    <2>. QED BY <2>1, <2>2
  <1>4. CalcScore(i) = weighted_sum(i)
    BY <1>3, SMTT(30) DEF CalcScore, ClampHigh, ClampLow, Below, Full
  <1>. QED BY <1>2, <1>4

LEMMA WeightLemma ==
  ASSUME NEW i \in MonitorInfo, NEW j \in MonitorInfo, NonNegative(i), NonNegative(j),
         cpu_cores(i) = cpu_cores(j)
  PROVE  Distance(CalcScore(i), CalcScore(j)) <=
           (IF i.cpu = j.cpu THEN 0 ELSE 800) + (IF i.load = j.load THEN 0 ELSE 600)
           + (IF i.mem = j.mem THEN 0 ELSE 400) + (IF i.net = j.net THEN 0 ELSE 200)
  <1>2. /\ i.cpu = j.cpu => cpu_score(i) = cpu_score(j)
        /\ i.load = j.load => load_score(i) = load_score(j)
        /\ i.mem = j.mem => mem_score(i) = mem_score(j)
        /\ i.net = j.net => /\ net_score(net_recv_rate(i)) = net_score(net_recv_rate(j))
                           /\ net_score(net_send_rate(i)) = net_score(net_send_rate(j))
    BY DEF cpu_score, cpu_percent, load_score, load_avg_1, mem_score, mem_percent,
           net_recv_rate, net_send_rate
  <1> DEFINE cpuCost  == 8 * cpu_score(i) - 8 * cpu_score(j)
             loadCost == 6 * load_score(i) - 6 * load_score(j)
             memCost  == 4 * mem_score(i) - 4 * mem_score(j)
             recvCost == net_score(net_recv_rate(i)) - net_score(net_recv_rate(j))
             sendCost == net_score(net_send_rate(i)) - net_score(net_send_rate(j))
             Within(cost, most) == cost \in Int /\ -most <= cost /\ cost <= most
  <1>3. /\ Within(cpuCost, IF i.cpu = j.cpu THEN 0 ELSE 800)
        /\ Within(loadCost, IF i.load = j.load THEN 0 ELSE 600)
        /\ Within(memCost, IF i.mem = j.mem THEN 0 ELSE 400)
        /\ Within(recvCost, IF i.net = j.net THEN 0 ELSE 100)
        /\ Within(sendCost, IF i.net = j.net THEN 0 ELSE 100)
    <2>1. Within(cpuCost, IF i.cpu = j.cpu THEN 0 ELSE 800)
      BY <1>2, SubScoreBounds
    <2>2. Within(loadCost, IF i.load = j.load THEN 0 ELSE 600)
      BY <1>2, SubScoreBounds
    <2>3. Within(memCost, IF i.mem = j.mem THEN 0 ELSE 400)
      BY <1>2, SubScoreBounds
    <2>4. /\ Within(recvCost, IF i.net = j.net THEN 0 ELSE 100)
          /\ Within(sendCost, IF i.net = j.net THEN 0 ELSE 100)
      BY <1>2, SubScoreBounds, SMTT(30)
    <2>. QED BY <2>1, <2>2, <2>3, <2>4
  <1>4. CalcScore(i) \in Int /\ CalcScore(j) \in Int
    <2>1. CalcScore(i) \in 0 .. Full /\ CalcScore(j) \in 0 .. Full
      BY ScoreOfReport DEF NonNegative
    <2>2. 0 .. Full \subseteq Int
      BY DEF Full
    <2>. QED BY <2>1, <2>2, Zenon
  <1>5. CalcScore(i) - CalcScore(j) = cpuCost + loadCost + memCost + recvCost + sendCost
    <2>1. ASSUME NEW k \in MonitorInfo, NonNegative(k)
          PROVE  /\ cpu_score(k) \in Int /\ load_score(k) \in Int /\ mem_score(k) \in Int
                 /\ net_score(net_recv_rate(k)) \in Int /\ net_score(net_send_rate(k)) \in Int
      BY <2>1, SubScoreBounds
    <2>2. /\ CalcScore(i) = 8 * cpu_score(i) + 6 * load_score(i) + 4 * mem_score(i)
                            + net_score(net_recv_rate(i)) + net_score(net_send_rate(i))
          /\ CalcScore(j) = 8 * cpu_score(j) + 6 * load_score(j) + 4 * mem_score(j)
                            + net_score(net_recv_rate(j)) + net_score(net_send_rate(j))
      BY ScoreIsTheSum
    <2>. QED BY <2>1, <2>2
  <1> HIDE DEF cpuCost, loadCost, memCost, recvCost, sendCost
  <1>. QED BY <1>3, <1>4, <1>5 DEF Distance


(***************************************************************************)
(* The scores of an agent, report after report.  The inductive invariant   *)
(* says that the score in hand is that of the report in hand.              *)
(***************************************************************************)
ScoreOfInfo == score = CalcScore(info)

IInv == info \in MonitorInfo /\ ScoreOfInfo

LEMMA EmptyInfoType == EmptyInfo \in MonitorInfo
  BY DEF EmptyInfo, MonitorInfo

LEMMA InitIInv == Init => IInv
  BY EmptyInfoType DEF Init, IInv, ScoreOfInfo

LEMMA IInvPreserved == IInv /\ [Next]_vars => IInv'
  <1> SUFFICES ASSUME IInv, [Next]_vars PROVE IInv'
    OBVIOUS
  <1> USE MetricsAssumption DEF IInv, ScoreOfInfo, Report
  <1>1. /\ info.cpu \in Seq(Number)
        /\ info.load \in Number \cup {Absent}
        /\ info.mem \in Number \cup {Absent}
        /\ info.net \in Seq([send_rate : Number, rcv_rate : Number])
        /\ info = [cpu |-> info.cpu, load |-> info.load, mem |-> info.mem, net |-> info.net]
    BY DEF MonitorInfo
  <1>2. CASE UNCHANGED vars
    BY <1>2 DEF vars
  <1>3. CASE ReportCpu
    <2>1. PICK cpu \in CpuStats : Report([info EXCEPT !.cpu = cpu])
      BY <1>3 DEF ReportCpu
    <2>2. PICK n \in 0..MaxCores : cpu \in [1..n -> CpuPercents]
      BY <2>1 DEF CpuStats
    <2>3. cpu \in Seq(Number)
      BY <2>2, SMT
    <2>. QED BY <1>1, <2>1, <2>3 DEF MonitorInfo
  <1>4. CASE ReportLoad
    BY <1>1, <1>4 DEF ReportLoad, MonitorInfo
  <1>5. CASE ReportMem
    BY <1>1, <1>5 DEF ReportMem, MonitorInfo
  <1>6. CASE ReportNet
    <2>1. PICK net \in NetInfos : Report([info EXCEPT !.net = net])
      BY <1>6 DEF ReportNet
    <2>2. net \in Seq([send_rate : Number, rcv_rate : Number])
      <3>1. CASE net = <<>>
        BY <3>1
      <3>2. CASE net # <<>>
        <4>1. PICK s \in NetRates, r \in NetRates :
                net = <<[send_rate |-> s, rcv_rate |-> r]>>
          BY <2>1, <3>2 DEF NetInfos
        <4>2. [send_rate |-> s, rcv_rate |-> r] \in [send_rate : Number, rcv_rate : Number]
          OBVIOUS
        <4>. QED BY <4>1, <4>2
      <3>. QED BY <3>1, <3>2
    <2>. QED BY <1>1, <2>1, <2>2 DEF MonitorInfo
  <1>. QED BY <1>2, <1>3, <1>4, <1>5, <1>6 DEF Next

LEMMA InductiveInvariant == Spec => []IInv
  BY InitIInv, IInvPreserved, PTL DEF Spec

\* Every score is NaN or a number of points between 0 and 100.
THEOREM TypeCorrect == Spec => []TypeOK
  <1>1. IInv => TypeOK
    BY ScoreOfReport DEF IInv, ScoreOfInfo, TypeOK
  <1>. QED BY <1>1, InductiveInvariant, PTL

\* The score is NaN exactly when a metric that is looked at is NaN.
THEOREM NaNIsPropagated == Spec => []NaNIsNotMasked
  <1>1. IInv => NaNIsNotMasked
    BY ScoreOfReport DEF IInv, ScoreOfInfo, NaNIsNotMasked
  <1>. QED BY <1>1, InductiveInvariant, PTL

\* Exchanging the two directions of the first interface changes no score.
THEOREM DirectionsAreSymmetric == Spec => []DirectionIsImmaterial
  <1>1. ASSUME IInv PROVE DirectionIsImmaterial
    <2> SUFFICES ASSUME info.net # <<>>
                 PROVE  score = CalcScore([info EXCEPT !.net =
                          <<[send_rate |-> Head(info.net).rcv_rate,
                             rcv_rate  |-> Head(info.net).send_rate]>>])
      BY DEF DirectionIsImmaterial
    <2> DEFINE iface == Head(info.net)
               swapped == [info EXCEPT !.net =
                            <<[send_rate |-> iface.rcv_rate, rcv_rate |-> iface.send_rate]>>]
    <2>1. /\ info \in MonitorInfo
          /\ info.cpu = swapped.cpu /\ info.load = swapped.load /\ info.mem = swapped.mem
          /\ swapped.net = <<[send_rate |-> iface.rcv_rate, rcv_rate |-> iface.send_rate]>>
      BY <1>1 DEF IInv, MonitorInfo
    <2>2. /\ net_recv_rate(swapped) = net_send_rate(info)
          /\ net_send_rate(swapped) = net_recv_rate(info)
      BY <2>1 DEF net_recv_rate, net_send_rate
    <2>3. swapped \in MonitorInfo
      <3>1. iface \in [send_rate : Number, rcv_rate : Number]
        BY <2>1, HeadTailProperties DEF MonitorInfo
      <3>2. [send_rate |-> iface.rcv_rate, rcv_rate |-> iface.send_rate]
              \in [send_rate : Number, rcv_rate : Number]
        BY <3>1
      <3>3. swapped.net \in Seq([send_rate : Number, rcv_rate : Number])
        BY <2>1, <3>2
      <3>. QED BY <2>1, <3>3 DEF MonitorInfo
    <2>4. Used(swapped) = Used(info)
      BY <2>1, <2>2 DEF Used, cpu_percent, load_avg_1, mem_percent
    <2>5. /\ cpu_score(swapped) = cpu_score(info)
          /\ load_score(swapped) = load_score(info)
          /\ mem_score(swapped) = mem_score(info)
      BY <2>1 DEF cpu_score, load_score, mem_score, cpu_percent, load_avg_1, mem_percent, cpu_cores
    <2>6. weighted_sum(swapped) = weighted_sum(info)
      BY <2>1, <2>2, <2>3, <2>4, <2>5, WeightedSum, SubScoresAreNumbers DEF SubScores
    <2>. QED BY <1>1, <2>6 DEF IInv, ScoreOfInfo, CalcScore
  <1>. QED BY <1>1, InductiveInvariant, PTL

\* Between two reports of an agent that got no less busy, the score does not rise.
THEOREM MonotoneInUse == Spec => BusierScoresNoHigher
  <1>1. IInv /\ IInv' /\ [Next]_vars => [AtMostAsBusy(info, info') => score' <= score]_vars
    BY BusierScoresNoHigherLemma DEF IInv, ScoreOfInfo
  <1>. QED BY <1>1, IInvPreserved, InductiveInvariant, PTL DEF Spec, BusierScoresNoHigher

\* The same use on more cores does not lower the score.
THEOREM MonotoneInCores == Spec => MoreCoresScoreNoLower
  <1>1. IInv /\ IInv' /\ [Next]_vars =>
          [NonNegative(info) /\ NonNegative(info')
           /\ cpu_cores(info) <= cpu_cores(info') /\ cpu_percent(info) = cpu_percent(info')
           /\ info.load = info'.load
           /\ info.mem = info'.mem
           /\ info.net = info'.net => score <= score']_vars
    BY MoreCoresLemma DEF IInv, ScoreOfInfo
  <1>. QED BY <1>1, IInvPreserved, InductiveInvariant, PTL DEF Spec, MoreCoresScoreNoLower

\* A group of metrics moves the score by its weight at most.
THEOREM EffectIsBounded == Spec => WeightBoundsEffect
  <1>1. IInv /\ IInv' /\ [Next]_vars =>
          [NonNegative(info) /\ NonNegative(info') /\ cpu_cores(info) = cpu_cores(info')
           => Distance(score, score') <=
                (IF info.cpu = info'.cpu THEN 0 ELSE 800)
                + (IF info.load = info'.load THEN 0 ELSE 600)
                + (IF info.mem = info'.mem THEN 0 ELSE 400)
                + (IF info.net = info'.net THEN 0 ELSE 200)]_vars
    BY WeightLemma DEF IInv, ScoreOfInfo
  <1>. QED BY <1>1, IInvPreserved, InductiveInvariant, PTL DEF Spec, WeightBoundsEffect
=============================================================================
