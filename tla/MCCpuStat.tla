------------------------------ MODULE MCCpuStat -----------------------------
(***************************************************************************)
(* Two CPUs, so that one can be offline.  Only the first accounts time: a  *)
(* sample of it that were kept for the second would be seen there.  It was *)
(* idle before the module was inserted.  Floats that are exact up to 2 or  *)
(* 4 round from 3 or 5 on.                                                 *)
(***************************************************************************)
EXTENDS CpuStat

TimeOfFirst(n) == [c \in Cpus |-> IF c = 0 THEN n ELSE 0]

UpTo4 == TimeOfFirst(4)

IdleForTwo == [c \in Cpus |-> [user |-> 0, idle |-> IF c = 0 THEN 2 ELSE 0]]
=============================================================================
