--------------------------- MODULE SoftIrqMonitor ----------------------------
(***************************************************************************)
(* The soft interrupt counters: cpu_softirq_monitor_kmod copies those of   *)
(* every online CPU into a page each second and empties the name of a CPU  *)
(* that is offline; CpuSoftIrqMonitor::UpdateOnce reads the records up to  *)
(* the first without a name.  Nothing keeps the two apart, CPUs come and   *)
(* go, and the module can be removed and inserted again.                   *)
(*                                                                         *)
(* One counter stands for the ten of a CPU; that it is an unsigned int in  *)
(* the kernel, and wraps after 2^32 interrupts, is left out.  The page is  *)
(* taken to be the memory the module writes, and memory is accessed in the *)
(* order of the source.  A name is written and read whole: snprintf goes   *)
(* byte by byte, which a reader can tell only in the tick that gives a     *)
(* record its first name.                                                  *)
(***************************************************************************)
EXTENDS Integers, Sequences

CONSTANTS
  MAX_CPU,    \* records of the page
  MaxIrqs     \* bound on the interrupts of a CPU

ASSUME MAX_CPUAssumption == MAX_CPU \in Nat \ {0}
ASSUME MaxIrqsAssumption == MaxIrqs \in Nat

VARIABLES
  kstat_softirqs,  \* the kernel's counter of each CPU
  cpu_online,      \* the CPUs that are online
  softirq_drv,     \* the life of the module
  g_softirq_stats, \* the page
  softirq_tick,    \* the CPU and the field update_softirq_stats comes to next
  softirq_pc,      \* where UpdateOnce is
  softirq_i,       \* the record it is at
  soft_irq,        \* the entries it has added to the report
  steady,          \* history: CPUs online ever since the running callback began, ...
                   \*   the last finished one began, UpdateOnce found that one finished
  shown,           \* history: the counter last reported of each CPU
  unshown          \* history: CPUs not reported since the module was inserted

pageVars == <<softirq_drv, g_softirq_stats, softirq_tick>>
softirqReader == <<softirq_pc, softirq_i, soft_irq>>
softirqVars == <<kstat_softirqs, cpu_online, pageVars, softirqReader, steady, shown, unshown>>

SoftIrqModule == INSTANCE KernelModule WITH drv <- softirq_drv

CpuIds == 0 .. MAX_CPU - 1
Unnamed == -1      \* an empty cpu_name; CPU n is named n

NewStats == [c \in CpuIds |-> [cpu_name |-> Unnamed, irqs |-> 0]]
SoftIrqTickStart == [cpu |-> 0, field |-> "cpu_name"]

SoftIrqInit ==
  /\ kstat_softirqs = [c \in CpuIds |-> 0]
  /\ cpu_online = CpuIds
  /\ SoftIrqModule!Init
  /\ g_softirq_stats = NewStats
  /\ softirq_tick = SoftIrqTickStart
  /\ softirq_pc = "closed" /\ softirq_i = 0 /\ soft_irq = <<>>
  /\ steady = [tick |-> {}, page |-> {}, read |-> {}]
  /\ shown = [c \in CpuIds |-> 0]
  /\ unshown = CpuIds

-----------------------------------------------------------------------------
(* The kernel and the life of the module. *)

SoftIrq(c) ==
  /\ c \in cpu_online /\ kstat_softirqs[c] < MaxIrqs
  /\ kstat_softirqs' = [kstat_softirqs EXCEPT ![c] = @ + 1]
  /\ UNCHANGED <<cpu_online, pageVars, softirqReader, steady, shown, unshown>>

\* A CPU is taken offline or brought back; one CPU always runs.
SoftIrqHotplug(c) ==
  /\ cpu_online' = IF c \in cpu_online THEN cpu_online \ {c} ELSE cpu_online \cup {c}
  /\ cpu_online' # {}
  /\ steady' = [s \in DOMAIN steady |-> steady[s] \ {c}]
  /\ UNCHANGED <<kstat_softirqs, pageVars, softirqReader, shown, unshown>>

SoftIrqInsmod ==
  /\ \/ SoftIrqModule!Alloc /\ g_softirq_stats' = NewStats /\ unshown' = CpuIds
     \/ (SoftIrqModule!StartTimer \/ SoftIrqModule!Register) /\ UNCHANGED <<g_softirq_stats, unshown>>
  /\ UNCHANGED <<kstat_softirqs, cpu_online, softirq_tick, softirqReader, steady, shown>>

SoftIrqRmmod ==
  /\ \/ (SoftIrqModule!Rmmod \/ SoftIrqModule!CancelTimer \/ SoftIrqModule!Deregister) /\ UNCHANGED steady
     \/ SoftIrqModule!Free /\ steady' = [steady EXCEPT !.page = {}]
  /\ UNCHANGED <<kstat_softirqs, cpu_online, g_softirq_stats, softirq_tick, softirqReader,
                 shown, unshown>>

-----------------------------------------------------------------------------
(* softirq_timer_callback and update_softirq_stats. *)

SoftIrqFire ==
  /\ SoftIrqModule!Fire
  /\ steady' = [steady EXCEPT !.tick = cpu_online]
  /\ UNCHANGED <<kstat_softirqs, cpu_online, g_softirq_stats, softirq_tick, softirqReader,
                 shown, unshown>>

\* Variant: `cpu < MAX_CPU - 1`.
UpdateDone_one_short == softirq_tick.cpu = MAX_CPU - 1

UpdateDone == softirq_tick.cpu = MAX_CPU

InUpdate == softirq_drv.timer = "running" /\ ~UpdateDone

NextRecord == [cpu |-> softirq_tick.cpu + 1, field |-> "cpu_name"]

\* Variant: the whole record of a CPU that is offline is cleared.
SetOffline_clears == [g_softirq_stats EXCEPT ![softirq_tick.cpu] =
                        [cpu_name |-> Unnamed, irqs |-> 0]]

SetOffline == [g_softirq_stats EXCEPT ![softirq_tick.cpu].cpu_name = Unnamed]

\* An offline CPU keeps its old counters, without a name.
SoftIrqName ==
  /\ InUpdate /\ softirq_tick.field = "cpu_name"
  /\ IF softirq_tick.cpu \in cpu_online
       THEN /\ g_softirq_stats' = [g_softirq_stats EXCEPT ![softirq_tick.cpu].cpu_name = softirq_tick.cpu]
            /\ softirq_tick' = [softirq_tick EXCEPT !.field = "irqs"]
       ELSE g_softirq_stats' = SetOffline /\ softirq_tick' = NextRecord
  /\ UNCHANGED <<kstat_softirqs, cpu_online, softirq_drv, softirqReader, steady, shown, unshown>>

SoftIrqCounter ==
  /\ InUpdate /\ softirq_tick.field = "irqs"
  /\ g_softirq_stats' = [g_softirq_stats EXCEPT ![softirq_tick.cpu].irqs = kstat_softirqs[softirq_tick.cpu]]
  /\ softirq_tick' = NextRecord
  /\ UNCHANGED <<kstat_softirqs, cpu_online, softirq_drv, softirqReader, steady, shown, unshown>>

SoftIrqRearm ==
  /\ UpdateDone
  /\ SoftIrqModule!Rearm
  /\ softirq_tick' = SoftIrqTickStart
  /\ steady' = [steady EXCEPT !.page = steady.tick, !.tick = {}]
  /\ UNCHANGED <<kstat_softirqs, cpu_online, g_softirq_stats, softirqReader, shown, unshown>>

SoftIrqTimer == SoftIrqFire \/ SoftIrqName \/ SoftIrqCounter \/ SoftIrqRearm

-----------------------------------------------------------------------------
(* CpuSoftIrqMonitor::UpdateOnce. *)

environment == <<kstat_softirqs, cpu_online, g_softirq_stats, softirq_tick>>

SoftIrqOpen ==
  /\ SoftIrqModule!Open
  /\ UNCHANGED <<environment, softirqReader, steady, shown, unshown>>

SoftIrqMap ==
  /\ SoftIrqModule!Map
  /\ softirq_pc' = "test"
  /\ steady' = [steady EXCEPT !.read = steady.page]
  /\ UNCHANGED <<environment, softirq_i, soft_irq, shown, unshown>>

InUse == g_softirq_stats[softirq_i].cpu_name # Unnamed

SoftIrqTest ==
  /\ softirq_pc = "test"
  /\ softirq_pc' = IF softirq_i < MAX_CPU /\ InUse THEN "cpu" ELSE "unmap"
  /\ UNCHANGED <<environment, softirq_drv, softirq_i, soft_irq, steady, shown, unshown>>

\* add_soft_irq and set_cpu, which reads the name again.
SetCpu ==
  /\ softirq_pc = "cpu" /\ softirq_pc' = "irqs"
  /\ soft_irq' = Append(soft_irq, [cpu |-> g_softirq_stats[softirq_i].cpu_name, irqs |-> 0])
  /\ UNCHANGED <<environment, softirq_drv, softirq_i, steady, shown, unshown>>

SetIrqs ==
  LET name == soft_irq[Len(soft_irq)].cpu
      irqs == g_softirq_stats[softirq_i].irqs
  IN  /\ softirq_pc = "irqs" /\ softirq_pc' = "test"
      /\ soft_irq' = [soft_irq EXCEPT ![Len(soft_irq)].irqs = irqs]
      /\ softirq_i' = softirq_i + 1
      /\ shown' = IF name = Unnamed THEN shown ELSE [shown EXCEPT ![name] = irqs]
      /\ unshown' = unshown \ {name}
      /\ UNCHANGED <<environment, softirq_drv, steady>>

\* The report is complete, or mmap has failed.
SoftIrqClose ==
  /\ softirq_drv.file = "open" \/ softirq_pc = "unmap"
  /\ SoftIrqModule!Close
  /\ softirq_pc' = "closed" /\ softirq_i' = 0 /\ soft_irq' = <<>>
  /\ steady' = [steady EXCEPT !.read = {}]
  /\ UNCHANGED <<environment, shown, unshown>>

SoftIrqUpdateOnce ==
  SoftIrqOpen \/ SoftIrqMap \/ SoftIrqTest \/ SetCpu \/ SetIrqs \/ SoftIrqClose

SoftIrqNext ==
  \/ \E c \in CpuIds : SoftIrq(c) \/ SoftIrqHotplug(c)
  \/ SoftIrqInsmod \/ SoftIrqRmmod
  \/ SoftIrqTimer
  \/ SoftIrqUpdateOnce

SoftIrqSpec == SoftIrqInit /\ [][SoftIrqNext]_softirqVars

-----------------------------------------------------------------------------
SoftIrqTypeOK ==
  /\ kstat_softirqs \in [CpuIds -> 0..MaxIrqs]
  /\ cpu_online \in (SUBSET CpuIds) \ {{}}
  /\ SoftIrqModule!TypeOK
  /\ g_softirq_stats \in [CpuIds -> [cpu_name : CpuIds \cup {Unnamed}, irqs : 0..MaxIrqs]]
  /\ softirq_tick \in [cpu : 0..MAX_CPU, field : {"cpu_name", "irqs"}]
  /\ softirq_pc \in {"closed", "test", "cpu", "irqs", "unmap"}
  /\ softirq_i \in 0..MAX_CPU
  /\ soft_irq \in Seq([cpu : CpuIds \cup {Unnamed}, irqs : 0..MaxIrqs])
  /\ steady \in [{"tick", "page", "read"} -> SUBSET CpuIds]
  /\ shown \in [CpuIds -> 0..MaxIrqs]
  /\ unshown \subseteq CpuIds

\* The page is there while a tick writes it or the agent has its file open.
SoftIrqPageOutlivesUsers == SoftIrqModule!PageOutlivesUsers

\* A report ends at the first CPU that is offline, but it does not end before:
\* a CPU that has been online since before the last tick, like all CPUs before
\* it, is reported, in its place and under its name.
CpusBeforeAGapAreReported ==
  softirq_pc = "unmap" =>
    \A c \in CpuIds : 0..c \subseteq steady.read =>
      c < Len(soft_irq) /\ soft_irq[c + 1].cpu = c

\* From one report to the next the counter of a CPU never goes back, whatever
\* ticks and hotplug do in between, except in the first report of that CPU
\* after the module was inserted again: the name is written before the counters
\* of a page that was all zeros.
CountersGoBackOnlyByReload ==
  [][\A c \in CpuIds : shown'[c] < shown[c] => c \in unshown]_softirqVars
=============================================================================
