------------------------- MODULE KernelModule_proofs ------------------------
(***************************************************************************)
(* The life of a kernel module: which part of it is there at which         *)
(* statement of insmod and rmmod, and so the page under everyone who       *)
(* touches it.                                                             *)
(***************************************************************************)
EXTENDS KernelModule, TLAPS

LEMMA InitIInv == Init => IInv
  BY DEF Init, IInv, TypeOK, Phases

LEMMA InsmodIInv == IInv /\ Insmod => IInv'
  <1> SUFFICES ASSUME IInv, Insmod PROVE IInv'
    OBVIOUS
  <1> USE DEF IInv, TypeOK, Phases
  <1>1. CASE Alloc
    BY <1>1 DEF Alloc
  <1>2. CASE StartTimer
    BY <1>2 DEF StartTimer
  <1>3. CASE Register
    <2>1. PICK registered \in BOOLEAN :
            drv' = [drv EXCEPT !.at = "live", !.device = registered]
      BY <1>3 DEF Register
    <2>. QED BY <1>3, <2>1 DEF Register
  <1>. QED BY <1>1, <1>2, <1>3 DEF Insmod

\* That no file is open when rmmod begins is what keeps the page under a
\* mapping: while it is on its way out, nobody opens one.
LEMMA ExitIInv == IInv /\ Exit => IInv'
  <1> SUFFICES ASSUME IInv, Exit PROVE IInv'
    OBVIOUS
  <1> USE DEF IInv, TypeOK, Phases
  <1>1. CASE Rmmod
    BY <1>1 DEF Rmmod
  <1>2. CASE CancelTimer
    BY <1>2 DEF CancelTimer
  <1>3. CASE Deregister
    BY <1>3 DEF Deregister
  <1>4. CASE Free
    BY <1>4 DEF Free
  <1>. QED BY <1>1, <1>2, <1>3, <1>4 DEF Exit

LEMMA UserIInv == IInv /\ (Fire \/ Rearm \/ Open \/ Map \/ Close) => IInv'
  <1> SUFFICES ASSUME IInv, Fire \/ Rearm \/ Open \/ Map \/ Close PROVE IInv'
    OBVIOUS
  <1> USE DEF IInv, TypeOK, Phases
  <1>1. CASE Fire
    BY <1>1 DEF Fire
  <1>2. CASE Rearm
    BY <1>2 DEF Rearm
  <1>3. CASE Open
    BY <1>3 DEF Open
  <1>4. CASE Map
    BY <1>4 DEF Map
  <1>5. CASE Close
    BY <1>5 DEF Close
  <1>. QED BY <1>1, <1>2, <1>3, <1>4, <1>5

\* At every statement of cpu_load_monitor_init and cpu_load_monitor_exit the
\* page, the timer, the device and the agent's file are as IInv says.
THEOREM InductiveInvariant == Spec => []IInv
  <1>1. IInv /\ [Next]_drv => IInv'
    <2>1. IInv /\ UNCHANGED drv => IInv'
      BY DEF IInv, TypeOK
    <2>. QED BY <2>1, InsmodIInv, ExitIInv, UserIInv DEF Next
  <1>. QED BY InitIInv, <1>1, PTL DEF Spec

\* vfree never takes the page away under cpu_load_timer_callback, the mmap
\* handler or a mapping, in any order of insmod, ticks, the agent's calls and
\* rmmod.
THEOREM PageIsThere == Spec => []PageOutlivesUsers
  <1>1. IInv => PageOutlivesUsers
    BY DEF IInv, TypeOK, PageOutlivesUsers
  <1>. QED BY <1>1, InductiveInvariant, PTL
=============================================================================
