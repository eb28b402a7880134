--------------------------- MODULE CpuLoadMonitor ----------------------------
(***************************************************************************)
(* The load averages: cpu_load_monitor_kmod copies the kernel's avenrun    *)
(* into a page every second, number by number, and                         *)
(* CpuLoadMonitor::UpdateOnce copies the page with memcpy, which may take  *)
(* its parts in any order.                                                 *)
(*                                                                         *)
(* The kernel computes the three averages together, every five seconds.    *)
(* A load is known by the number of the computation that it is from; 0 is  *)
(* the content of a new page.                                              *)
(***************************************************************************)
EXTENDS Naturals

CONSTANT MaxLoads   \* bound on the kernel's computations

ASSUME MaxLoadsAssumption == MaxLoads \in Nat \ {0}

VARIABLES
  avenrun,       \* the kernel's latest computation
  load_drv,      \* the life of the module
  g_cpu_load,    \* the page
  load_tick,     \* the assignment update_cpu_load comes to next
  info,          \* what UpdateOnce has copied
  load_begun,    \* history: avenrun when the running callback began
  load_known,    \* history: avenrun when the last finished callback began
  load_due       \* history: load_known when this UpdateOnce began

loadHistory == <<load_begun, load_known, load_due>>
loadVars == <<avenrun, load_drv, g_cpu_load, load_tick, info, loadHistory>>

LoadModule == INSTANCE KernelModule WITH drv <- load_drv

\* The fields of struct cpu_load in their order.
Averages == <<"load_avg_1", "load_avg_3", "load_avg_15">>
AverageNames == {Averages[n] : n \in 1..3}

NewLoads == [f \in AverageNames |-> 0]
NoCopy  == [f \in {} |-> 0]

LoadInit ==
  /\ avenrun = 1
  /\ LoadModule!Init
  /\ g_cpu_load = NewLoads
  /\ load_tick = 1
  /\ info = NoCopy
  /\ load_begun = 0 /\ load_known = 0 /\ load_due = 0

-----------------------------------------------------------------------------
CalcGlobalLoad ==
  /\ avenrun < MaxLoads
  /\ avenrun' = avenrun + 1
  /\ UNCHANGED <<load_drv, g_cpu_load, load_tick, info, loadHistory>>

\* vzalloc returns a page of zeros.
LoadInsmod ==
  \/ LoadModule!Alloc /\ g_cpu_load' = NewLoads
     /\ UNCHANGED <<avenrun, load_tick, info, loadHistory>>
  \/ (LoadModule!StartTimer \/ LoadModule!Register)
     /\ UNCHANGED <<avenrun, g_cpu_load, load_tick, info, loadHistory>>

\* With the page goes what was known.
LoadRmmod ==
  /\ \/ (LoadModule!Rmmod \/ LoadModule!CancelTimer \/ LoadModule!Deregister) /\ UNCHANGED load_known
     \/ LoadModule!Free /\ load_known' = 0
  /\ UNCHANGED <<avenrun, g_cpu_load, load_tick, info, load_begun, load_due>>

-----------------------------------------------------------------------------
(* cpu_load_timer_callback and update_cpu_load. *)

LoadFire ==
  /\ LoadModule!Fire
  /\ load_begun' = avenrun
  /\ UNCHANGED <<avenrun, g_cpu_load, load_tick, info, load_known, load_due>>

\* Variant: the last assignment is to load_avg_3 again.
LoadTarget_twice == Averages[IF load_tick = 1 THEN 1 ELSE 2]

LoadTarget == Averages[load_tick]

LoadWrite ==
  /\ load_drv.timer = "running" /\ load_tick <= 3
  /\ g_cpu_load' = [g_cpu_load EXCEPT ![LoadTarget] = avenrun]
  /\ load_tick' = load_tick + 1
  /\ UNCHANGED <<avenrun, load_drv, info, loadHistory>>

LoadRearm ==
  /\ load_tick = 4 /\ LoadModule!Rearm
  /\ load_tick' = 1
  /\ load_known' = load_begun
  /\ UNCHANGED <<avenrun, g_cpu_load, info, load_begun, load_due>>

-----------------------------------------------------------------------------
(* CpuLoadMonitor::UpdateOnce. *)

\* Without the device, or if mmap fails, the report has no load.
LoadOpen ==
  /\ LoadModule!Open
  /\ UNCHANGED <<avenrun, g_cpu_load, load_tick, info, loadHistory>>

LoadMap ==
  /\ LoadModule!Map
  /\ load_due' = load_known
  /\ UNCHANGED <<avenrun, g_cpu_load, load_tick, info, load_begun, load_known>>

\* A part of memcpy.
LoadCopy(f) ==
  /\ load_drv.file = "mapped" /\ f \notin DOMAIN info
  /\ info' = [g \in DOMAIN info \cup {f} |-> IF g = f THEN g_cpu_load[f] ELSE info[g]]
  /\ UNCHANGED <<avenrun, load_drv, g_cpu_load, load_tick, loadHistory>>

\* The copy goes into the report, and the mapping and the file are closed.
LoadClose ==
  /\ load_drv.file = "open" \/ DOMAIN info = AverageNames
  /\ LoadModule!Close
  /\ info' = NoCopy /\ load_due' = 0
  /\ UNCHANGED <<avenrun, g_cpu_load, load_tick, load_begun, load_known>>

LoadUpdateOnce == LoadOpen \/ LoadMap \/ (\E f \in AverageNames : LoadCopy(f)) \/ LoadClose

LoadNext ==
  \/ CalcGlobalLoad \/ LoadInsmod \/ LoadRmmod
  \/ LoadFire \/ LoadWrite \/ LoadRearm
  \/ LoadUpdateOnce

LoadSpec == LoadInit /\ [][LoadNext]_loadVars

-----------------------------------------------------------------------------
LoadTypeOK ==
  /\ avenrun \in 1..MaxLoads
  /\ LoadModule!TypeOK
  /\ g_cpu_load \in [AverageNames -> 0..MaxLoads]
  /\ load_tick \in 1..4
  /\ DOMAIN info \subseteq AverageNames
  /\ \A f \in DOMAIN info : info[f] \in 0..MaxLoads
  /\ load_begun \in 0..MaxLoads /\ load_known \in 0..MaxLoads /\ load_due \in 0..MaxLoads

\* Each of the three loads of a report is at least as recent as the last tick
\* that had ended when UpdateOnce began: however a tick and the copy overlap,
\* the copy is torn between recent values only, and the zeros of a new page are
\* shown only before the first tick has ended.
LoadsAreFresh == \A f \in DOMAIN info : info[f] >= load_due
=============================================================================
