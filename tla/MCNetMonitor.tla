---------------------------- MODULE MCNetMonitor -----------------------------
(***************************************************************************)
(* Two CPUs can race for the creation of an entry; a third element of the  *)
(* table makes a recycled one available while a CPU still points to it.    *)
(***************************************************************************)
EXTENDS NetMonitor, TLC

Symmetry == Permutations(Cpus) \cup Permutations(Ifaces) \cup Permutations(Elems)
=============================================================================
