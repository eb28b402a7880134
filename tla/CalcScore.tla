------------------------------ MODULE CalcScore ------------------------------
(***************************************************************************)
(* AgentManager::CalcScore: the health score of one MonitorInfo.           *)
(*                                                                         *)
(* Doubles become integers: a sub-score 0.0 .. 1.0 is counted in           *)
(* hundredths and the weights 0.4, 0.3, 0.2, 0.05, 0.05 in twentieths, so  *)
(* a score of 100.0 points is 2000.  The one value of IEEE arithmetic that *)
(* integers lack matters here and is kept: NaN is absorbed by every        *)
(* operation, and every comparison with it is false.                       *)
(*                                                                         *)
(* A MonitorInfo is reduced to what is scored:                             *)
(*   cpu   cpu_percent of each cpu_stat entry, in percent                  *)
(*   load  load_avg_1 in hundredths, or Absent (has_cpu_load() is false)   *)
(*   mem   used_percent, in percent, or Absent                             *)
(*   net   send_rate and rcv_rate of each net_info entry, in the unit the  *)
(*         report carries                                                  *)
(***************************************************************************)
EXTENDS Integers, Sequences

CONSTANTS
  NaN,      \* the float that is not a number
  Absent    \* a message field that is not set

ASSUME NaNAssumption == NaN \notin Int
ASSUME AbsentAssumption == Absent \notin Int \cup {NaN}

Number == Int \cup {NaN}

MonitorInfo ==
  [cpu : Seq(Number), load : Number \cup {Absent}, mem : Number \cup {Absent},
   net : Seq([send_rate : Number, rcv_rate : Number])]

-----------------------------------------------------------------------------
(* The float operations the function uses. *)

Minus(x, y)    == IF NaN \in {x, y} THEN NaN ELSE x - y
Plus(x, y)     == IF NaN \in {x, y} THEN NaN ELSE x + y
Times(k, x)    == IF x = NaN THEN NaN ELSE k * x
Quotient(x, k) == IF x = NaN THEN NaN ELSE x \div k
Below(x, y)    == NaN \notin {x, y} /\ x < y

-----------------------------------------------------------------------------
One           == 100         \* a sub-score of 1.0
Full          == 2000        \* a score of 100.0
max_bandwidth == 125000000

(* The metrics, with the default of those the report does not carry. *)

cpu_percent(info) == IF info.cpu = <<>> THEN 0 ELSE Head(info.cpu)
cpu_cores(info)   == IF info.cpu = <<>> THEN 1 ELSE Len(info.cpu)
load_avg_1(info)  == IF info.load = Absent THEN 0 ELSE info.load
mem_percent(info) == IF info.mem = Absent THEN 0 ELSE info.mem

\* The code reads send_rate into net_recv_rate and rcv_rate into net_send_rate.
net_recv_rate(info) == IF info.net = <<>> THEN 0 ELSE Head(info.net).send_rate
net_send_rate(info) == IF info.net = <<>> THEN 0 ELSE Head(info.net).rcv_rate

(* The sub-scores, with `if (x < 0) x = 0`. *)

\* Variant: `x > 0 ? x : 0`, which turns NaN into 0.
ClampLow_masks_NaN(x) == IF Below(0, x) THEN x ELSE 0

ClampLow(x) == IF Below(x, 0) THEN 0 ELSE x

\* Variant: the usage counts for the score, not against it.
cpu_score_not_reversed(info) == ClampLow(cpu_percent(info))

cpu_score(info)  == ClampLow(Minus(One, cpu_percent(info)))
\* Variant: the load is that of one core.
load_score_times_cores(info) ==
  ClampLow(Minus(One, Times(cpu_cores(info), load_avg_1(info))))

load_score(info) == ClampLow(Minus(One, Quotient(load_avg_1(info), cpu_cores(info))))
\* Variant: `if (mem_score < 0)` is missing.
mem_score_not_clamped(info) == Minus(One, mem_percent(info))

mem_score(info)  == ClampLow(Minus(One, mem_percent(info)))

net_score(rate)  == ClampLow(Minus(One, Quotient(rate, max_bandwidth \div One)))

\* Variant: the receiving direction has the weight of both.
weighted_sum_receive_only(info) ==
  Plus(Plus(Plus(Times(8, cpu_score(info)),
                 Times(6, load_score(info))),
            Times(4, mem_score(info))),
       Times(2, net_score(net_recv_rate(info))))

weighted_sum(info) ==
  Plus(Plus(Plus(Plus(Times(8, cpu_score(info)),
                      Times(6, load_score(info))),
                 Times(4, mem_score(info))),
            Times(1, net_score(net_recv_rate(info)))),
       Times(1, net_score(net_send_rate(info))))

\* Variant: `if (score > 100)` is missing.
ClampHigh_missing(x) == x

ClampHigh(x) == IF Below(Full, x) THEN Full ELSE x

CalcScore(info) == ClampHigh(ClampLow(weighted_sum(info)))
=============================================================================
