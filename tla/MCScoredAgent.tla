---------------------------- MODULE MCScoredAgent ----------------------------
(***************************************************************************)
(* Values on both sides of every clamp of CalcScore: a percentage below 0  *)
(* (CpuStat: a sample of the empty name), idle, half, full, above 100, a   *)
(* NaN; a load below, at and above the number of cores; a rate of zero, of *)
(* a 1 Gbps link in KB/s, of half and of the whole max_bandwidth, and the  *)
(* one that a wrapped counter gives.                                       *)
(***************************************************************************)
EXTENDS ScoredAgent

MCCpuPercents == {-20, 0, 50, 100, 150, NaN}
MCLoads       == {0, 60, 100, 250}
MCMemPercents == {0, 37, 100, 400, NaN}
MCNetRates    == {0, 122070, 62500000, 125000000, 2000000000}
=============================================================================
