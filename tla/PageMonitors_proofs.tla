------------------------- MODULE PageMonitors_proofs ------------------------
(***************************************************************************)
(* The load and the soft interrupt monitor, whose kernel modules live as   *)
(* KernelModule says: what a report may contain, for any number of CPUs    *)
(* and any length of the behaviour.                                        *)
(***************************************************************************)
EXTENDS CpuLoadMonitor, SoftIrqMonitor, TLAPS

LoadLife == INSTANCE KernelModule_proofs WITH drv <- load_drv
SoftIrqLife == INSTANCE KernelModule_proofs WITH drv <- softirq_drv

USE MaxLoadsAssumption, MAX_CPUAssumption, MaxIrqsAssumption

-----------------------------------------------------------------------------
(* The modules' lives. *)

LEMMA LoadSameLife ==
  /\ LoadModule!Init => LoadLife!Init
  /\ [LoadModule!Next]_load_drv => [LoadLife!Next]_load_drv
  BY DEF LoadModule!Init, LoadModule!Next, LoadModule!Insmod, LoadModule!Exit,
         LoadModule!Alloc, LoadModule!StartTimer, LoadModule!Register,
         LoadModule!Rmmod, LoadModule!CancelTimer, LoadModule!Deregister,
         LoadModule!Free, LoadModule!Fire, LoadModule!Rearm, LoadModule!Open,
         LoadModule!Map, LoadModule!Close, LoadLife!Init, LoadLife!Next,
         LoadLife!Insmod, LoadLife!Exit, LoadLife!Alloc, LoadLife!StartTimer,
         LoadLife!Register, LoadLife!Rmmod, LoadLife!CancelTimer, LoadLife!Deregister,
         LoadLife!Free, LoadLife!Fire, LoadLife!Rearm, LoadLife!Open, LoadLife!Map,
         LoadLife!Close

LEMMA LoadSteps == [LoadNext]_loadVars => [LoadModule!Next]_load_drv
  <1> SUFFICES ASSUME [LoadNext]_loadVars PROVE [LoadModule!Next]_load_drv
    OBVIOUS
  <1> USE DEF LoadModule!Next, LoadModule!Insmod, LoadModule!Exit
  <1>1. CASE UNCHANGED loadVars
    BY <1>1 DEF loadVars
  <1>2. CASE CalcGlobalLoad
    BY <1>2 DEF CalcGlobalLoad
  <1>3. CASE LoadInsmod
    BY <1>3 DEF LoadInsmod
  <1>4. CASE LoadRmmod
    BY <1>4 DEF LoadRmmod
  <1>5. CASE LoadFire \/ LoadWrite \/ LoadRearm
    BY <1>5 DEF LoadFire, LoadWrite, LoadRearm
  <1>6. CASE LoadUpdateOnce
    BY <1>6 DEF LoadUpdateOnce, LoadOpen, LoadMap, LoadCopy, LoadClose
  <1>. QED BY <1>1, <1>2, <1>3, <1>4, <1>5, <1>6 DEF LoadNext

\* Whatever is copied, the module's page, timer, device and file go through the
\* life of KernelModule.
THEOREM LoadModuleLives == LoadSpec => LoadModule!Spec
  <1>1. LoadInit => LoadModule!Init
    BY DEF LoadInit
  <1>. QED BY <1>1, LoadSteps, PTL DEF LoadSpec, LoadModule!Spec

LEMMA LoadLifeIInv == LoadSpec => []LoadLife!IInv
  BY LoadModuleLives, LoadSameLife, LoadLife!InductiveInvariant, PTL
     DEF LoadModule!Spec, LoadLife!Spec

LEMMA SoftIrqSameLife ==
  /\ SoftIrqModule!Init => SoftIrqLife!Init
  /\ [SoftIrqModule!Next]_softirq_drv => [SoftIrqLife!Next]_softirq_drv
  BY DEF SoftIrqModule!Init, SoftIrqModule!Next, SoftIrqModule!Insmod,
         SoftIrqModule!Exit, SoftIrqModule!Alloc, SoftIrqModule!StartTimer,
         SoftIrqModule!Register, SoftIrqModule!Rmmod, SoftIrqModule!CancelTimer,
         SoftIrqModule!Deregister, SoftIrqModule!Free, SoftIrqModule!Fire,
         SoftIrqModule!Rearm, SoftIrqModule!Open, SoftIrqModule!Map,
         SoftIrqModule!Close, SoftIrqLife!Init, SoftIrqLife!Next, SoftIrqLife!Insmod,
         SoftIrqLife!Exit, SoftIrqLife!Alloc, SoftIrqLife!StartTimer,
         SoftIrqLife!Register, SoftIrqLife!Rmmod, SoftIrqLife!CancelTimer,
         SoftIrqLife!Deregister, SoftIrqLife!Free, SoftIrqLife!Fire, SoftIrqLife!Rearm,
         SoftIrqLife!Open, SoftIrqLife!Map, SoftIrqLife!Close

LEMMA SoftIrqSteps == [SoftIrqNext]_softirqVars => [SoftIrqModule!Next]_softirq_drv
  <1> SUFFICES ASSUME [SoftIrqNext]_softirqVars PROVE [SoftIrqModule!Next]_softirq_drv
    OBVIOUS
  <1> USE DEF SoftIrqModule!Next, SoftIrqModule!Insmod, SoftIrqModule!Exit
  <1>1. CASE UNCHANGED softirqVars
    BY <1>1 DEF softirqVars, pageVars
  <1>2. CASE \E c \in CpuIds : SoftIrq(c) \/ SoftIrqHotplug(c)
    BY <1>2 DEF SoftIrq, SoftIrqHotplug, pageVars
  <1>3. CASE SoftIrqInsmod
    BY <1>3 DEF SoftIrqInsmod
  <1>4. CASE SoftIrqRmmod
    BY <1>4 DEF SoftIrqRmmod
  <1>5. CASE SoftIrqTimer
    BY <1>5 DEF SoftIrqTimer, SoftIrqFire, SoftIrqName, SoftIrqCounter, SoftIrqRearm
  <1>6. CASE SoftIrqUpdateOnce
    BY <1>6 DEF SoftIrqUpdateOnce, SoftIrqOpen, SoftIrqMap, SoftIrqTest, SetCpu, SetIrqs,
              SoftIrqClose
  <1>. QED BY <1>1, <1>2, <1>3, <1>4, <1>5, <1>6 DEF SoftIrqNext

\* Whatever the records hold, the module's page, timer, device and file go
\* through the life of KernelModule.
THEOREM SoftIrqModuleLives == SoftIrqSpec => SoftIrqModule!Spec
  <1>1. SoftIrqInit => SoftIrqModule!Init
    BY DEF SoftIrqInit
  <1>. QED BY <1>1, SoftIrqSteps, PTL DEF SoftIrqSpec, SoftIrqModule!Spec

LEMMA SoftIrqLifeIInv == SoftIrqSpec => []SoftIrqLife!IInv
  BY SoftIrqModuleLives, SoftIrqSameLife, SoftIrqLife!InductiveInvariant, PTL
     DEF SoftIrqModule!Spec, SoftIrqLife!Spec

\* No tick and no file of the agent ever meets a page that vfree has taken.
THEOREM SoftIrqPageIsThere == SoftIrqSpec => []SoftIrqPageOutlivesUsers
  <1>1. SoftIrqLife!IInv => SoftIrqPageOutlivesUsers
    BY DEF SoftIrqLife!IInv, SoftIrqLife!TypeOK, SoftIrqPageOutlivesUsers,
           SoftIrqModule!PageOutlivesUsers
  <1>. QED BY <1>1, SoftIrqLifeIInv, PTL

-----------------------------------------------------------------------------
(* The loads. *)

(***************************************************************************)
(* What was known when the last tick ended, and what this tick has         *)
(* written: no number of the page is older than either.                    *)
(***************************************************************************)
LoadInv ==
  /\ avenrun \in Nat /\ load_begun \in Nat /\ load_known \in Nat /\ load_due \in Nat
  /\ g_cpu_load \in [AverageNames -> Nat]
  /\ load_tick \in 1..4
  /\ load_known <= load_begun /\ load_begun <= avenrun
  /\ \A f \in AverageNames : g_cpu_load[f] >= load_known
  /\ load_drv.at = "absent" => load_known = 0
  /\ load_drv.timer # "running" => load_tick = 1
  /\ load_drv.timer = "running" =>
       \A n \in 1..3 : n < load_tick => g_cpu_load[Averages[n]] >= load_begun
  /\ load_drv.file = "mapped" => load_due <= load_known
  /\ load_drv.file # "mapped" => DOMAIN info = {}
  /\ DOMAIN info \subseteq AverageNames
  /\ LoadsAreFresh
  /\ \A f \in DOMAIN info : info[f] \in Nat

LEMMA AveragesApart ==
  /\ \A n \in 1..3 : Averages[n] \in AverageNames
  /\ \A m, n \in 1..3 : Averages[m] = Averages[n] => m = n
  /\ \A f \in AverageNames : \E n \in 1..3 : f = Averages[n]
  <1>1. Averages[1] = "load_avg_1" /\ Averages[2] = "load_avg_3" /\ Averages[3] = "load_avg_15"
    BY DEF Averages
  <1>. QED BY <1>1 DEF AverageNames

LEMMA LoadInvPreserved == LoadLife!IInv /\ LoadInv /\ [LoadNext]_loadVars => LoadInv'
  <1> SUFFICES ASSUME LoadLife!IInv, LoadInv, [LoadNext]_loadVars PROVE LoadInv'
    OBVIOUS
  <1> USE DEF LoadInv, LoadsAreFresh, LoadLife!IInv, LoadLife!TypeOK, LoadLife!Phases
  <1>1. CASE UNCHANGED loadVars
    BY <1>1 DEF loadVars, loadHistory
  <1>2. CASE CalcGlobalLoad
    BY <1>2 DEF CalcGlobalLoad, loadHistory
  <1>3. CASE LoadInsmod
    <2>1. CASE LoadModule!Alloc /\ g_cpu_load' = NewLoads
      <3>1. \A f \in AverageNames : g_cpu_load'[f] = 0
        BY <2>1 DEF NewLoads
      <3>2. g_cpu_load' \in [AverageNames -> Nat]
        BY <2>1 DEF NewLoads
      <3>. QED BY <1>3, <2>1, <3>1, <3>2 DEF LoadInsmod, LoadModule!Alloc, loadHistory
    <2>2. CASE LoadModule!StartTimer /\ UNCHANGED g_cpu_load
      BY <1>3, <2>2 DEF LoadInsmod, LoadModule!StartTimer, LoadModule!Alloc, loadHistory
    <2>3. CASE LoadModule!Register /\ UNCHANGED g_cpu_load
      BY <1>3, <2>3, ZenonT(30) DEF LoadInsmod, LoadModule!Register, LoadModule!Alloc, loadHistory
    <2>. QED BY <1>3, <2>1, <2>2, <2>3 DEF LoadInsmod
  <1>4. CASE LoadRmmod
    <2>1. CASE LoadModule!Rmmod /\ UNCHANGED load_known
      BY <1>4, <2>1 DEF LoadRmmod, LoadModule!Rmmod
    <2>2. CASE LoadModule!CancelTimer /\ UNCHANGED load_known
      BY <1>4, <2>2 DEF LoadRmmod, LoadModule!CancelTimer
    <2>3. CASE LoadModule!Deregister /\ UNCHANGED load_known
      BY <1>4, <2>3 DEF LoadRmmod, LoadModule!Deregister
    <2>4. CASE LoadModule!Free /\ load_known' = 0
      BY <1>4, <2>4 DEF LoadRmmod, LoadModule!Free
    <2>. QED BY <1>4, <2>1, <2>2, <2>3, <2>4 DEF LoadRmmod
  <1>5. CASE LoadFire
    BY <1>5 DEF LoadFire, LoadModule!Fire
  <1>6. CASE LoadWrite
    BY <1>6, AveragesApart DEF LoadWrite, LoadTarget, loadHistory
  <1>7. CASE LoadRearm
    <2>1. \A n \in 1..3 : g_cpu_load[Averages[n]] >= load_begun
      BY <1>7 DEF LoadRearm, LoadModule!Rearm
    <2>2. \A f \in AverageNames : g_cpu_load[f] >= load_begun
      BY <2>1, AveragesApart
    <2>. QED BY <1>7, <2>2 DEF LoadRearm, LoadModule!Rearm
  <1>8. CASE LoadOpen
    BY <1>8 DEF LoadOpen, LoadModule!Open, loadHistory
  <1>9. CASE LoadMap
    BY <1>9 DEF LoadMap, LoadModule!Map
  <1>10. ASSUME NEW f \in AverageNames, LoadCopy(f) PROVE LoadInv'
    BY <1>10 DEF LoadCopy, loadHistory
  <1>11. CASE LoadClose
    BY <1>11 DEF LoadClose, LoadModule!Close, NoCopy
  <1>. QED BY <1>1, <1>2, <1>3, <1>4, <1>5, <1>6, <1>7, <1>8, <1>9, <1>10, <1>11
           DEF LoadNext, LoadUpdateOnce

\* However memcpy and the ticks overlap, and whenever the module is inserted and
\* removed: no load in a report is older than the last tick that had ended when
\* UpdateOnce began.
THEOREM LoadsStayFresh == LoadSpec => []LoadsAreFresh
  <1>1. LoadInit => LoadInv
    BY DEF LoadInit, LoadInv, NewLoads, NoCopy, LoadsAreFresh, LoadModule!Init
  <1>2. LoadInv => LoadsAreFresh
    BY DEF LoadInv
  <1>. QED BY <1>1, <1>2, LoadInvPreserved, LoadLifeIInv, PTL DEF LoadSpec

\* Nothing of the monitor is from a computation that the kernel has not made.
THEOREM LoadTypes == LoadSpec => []LoadTypeOK
  <1>1. LoadInit => LoadInv /\ LoadTypeOK
    BY DEF LoadInit, LoadInv, LoadTypeOK, NewLoads, NoCopy, LoadsAreFresh, LoadModule!Init,
           LoadModule!TypeOK, LoadModule!Phases
  <1>2. LoadLife!IInv /\ LoadLife!IInv' /\ LoadInv /\ LoadInv' /\ LoadTypeOK /\ [LoadNext]_loadVars
          => LoadTypeOK'
    <2> SUFFICES ASSUME LoadLife!IInv', LoadInv', LoadTypeOK, [LoadNext]_loadVars
                 PROVE  LoadTypeOK'
      OBVIOUS
    <2>0. LoadModule!TypeOK'
      BY DEF LoadLife!IInv, LoadLife!TypeOK, LoadModule!TypeOK, LoadLife!Phases, LoadModule!Phases
    <2>1. load_tick' \in 1..4 /\ DOMAIN info' \subseteq AverageNames
      BY DEF LoadInv
    <2> USE DEF LoadTypeOK
    <2>2. CASE UNCHANGED loadVars
      BY <2>0, <2>1, <2>2 DEF loadVars, loadHistory
    <2>3. CASE CalcGlobalLoad
      BY <2>0, <2>1, <2>3 DEF CalcGlobalLoad, loadHistory
    <2>4. CASE LoadInsmod
      <3>1. NewLoads \in [AverageNames -> 0..MaxLoads]
        BY DEF NewLoads
      <3>. QED BY <2>0, <2>1, <2>4, <3>1 DEF LoadInsmod, loadHistory
    <2>5. CASE LoadRmmod
      BY <2>0, <2>1, <2>5 DEF LoadRmmod
    <2>6. CASE LoadFire \/ LoadRearm
      BY <2>0, <2>1, <2>6 DEF LoadFire, LoadRearm
    <2>7. CASE LoadWrite
      <3>1. g_cpu_load' \in [AverageNames -> 0..MaxLoads]
        <4>1. avenrun \in 0..MaxLoads /\ g_cpu_load \in [AverageNames -> 0..MaxLoads]
          OBVIOUS
        <4>2. g_cpu_load' = [g_cpu_load EXCEPT ![LoadTarget] = avenrun]
          BY <2>7 DEF LoadWrite
        <4>. QED BY <4>1, <4>2
      <3>. QED BY <2>0, <2>1, <2>7, <3>1 DEF LoadWrite, loadHistory
    <2>8. CASE LoadOpen \/ LoadMap
      BY <2>0, <2>1, <2>8 DEF LoadOpen, LoadMap, loadHistory
    <2>9. ASSUME NEW f \in AverageNames, LoadCopy(f) PROVE LoadTypeOK'
      BY <2>0, <2>1, <2>9 DEF LoadCopy, loadHistory
    <2>10. CASE LoadClose
      BY <2>0, <2>1, <2>10 DEF LoadClose, NoCopy
    <2>. QED BY <2>2, <2>3, <2>4, <2>5, <2>6, <2>7, <2>8, <2>9, <2>10 DEF LoadNext, LoadUpdateOnce
  <1>. QED BY <1>1, <1>2, LoadInvPreserved, LoadLifeIInv, PTL DEF LoadSpec

-----------------------------------------------------------------------------
(* The soft interrupts. *)

SoftIrqRecords == [cpu_name : CpuIds \cup {Unnamed}, irqs : Nat]
SoftIrqEntries == [cpu : CpuIds \cup {Unnamed}, irqs : Nat]

SoftIrqTypes ==
  /\ kstat_softirqs \in [CpuIds -> Nat]
  /\ cpu_online \subseteq CpuIds
  /\ g_softirq_stats \in [CpuIds -> SoftIrqRecords]
  /\ softirq_tick \in [cpu : 0..MAX_CPU, field : {"cpu_name", "irqs"}]
  /\ softirq_pc \in {"closed", "test", "cpu", "irqs", "unmap"}
  /\ softirq_i \in 0..MAX_CPU
  /\ soft_irq \in Seq(SoftIrqEntries)
  /\ steady \in [tick : SUBSET cpu_online, page : SUBSET cpu_online, read : SUBSET cpu_online]
  /\ shown \in [CpuIds -> Nat]
  /\ unshown \subseteq CpuIds

\* The tick that is running has written the name of CPU c.
Passed(c) ==
  \/ c < softirq_tick.cpu
  \/ c = softirq_tick.cpu /\ softirq_tick.field = "irqs"

\* A record has the name of its own CPU or none, and has one as long as the CPU
\* has been online since a tick came by; its counter is behind the kernel's.
PageInv ==
  /\ \A c \in CpuIds : g_softirq_stats[c].cpu_name \in {c, Unnamed}
  /\ \A c \in CpuIds : g_softirq_stats[c].irqs <= kstat_softirqs[c]
  /\ \A c \in steady.tick : Passed(c) => g_softirq_stats[c].cpu_name = c
  /\ \A c \in steady.page \cup steady.read : g_softirq_stats[c].cpu_name = c
  /\ softirq_drv.timer # "running" => softirq_tick = SoftIrqTickStart
  /\ softirq_drv.at = "absent" => steady.page = {}
  /\ \A c \in CpuIds \ unshown : shown[c] <= g_softirq_stats[c].irqs

\* The entries are those of the records that UpdateOnce has passed.
ReportInv ==
  /\ softirq_drv.file # "mapped" => softirq_pc = "closed" /\ steady.read = {}
  /\ softirq_pc = "closed" => soft_irq = <<>> /\ softirq_i = 0
  /\ softirq_pc \in {"test", "cpu", "unmap"} => Len(soft_irq) = softirq_i
  /\ softirq_pc = "irqs" => Len(soft_irq) = softirq_i + 1
  /\ softirq_pc \in {"cpu", "irqs"} => softirq_i < MAX_CPU
  /\ \A n \in 1..Len(soft_irq) :
       /\ soft_irq[n].cpu \in {n - 1, Unnamed}
       /\ n - 1 \in steady.read => soft_irq[n].cpu = n - 1
  /\ softirq_pc = "unmap" => softirq_i = MAX_CPU \/ softirq_i \notin steady.read

SoftIrqInv == SoftIrqTypes /\ PageInv /\ ReportInv

LEMMA SoftIrqInvInit == SoftIrqInit => SoftIrqInv
  <1> SUFFICES ASSUME SoftIrqInit PROVE SoftIrqInv
    OBVIOUS
  <1> USE DEF SoftIrqInit
  <1>1. SoftIrqTypes
    BY DEF SoftIrqTypes, SoftIrqRecords, NewStats, SoftIrqTickStart, CpuIds
  <1>2. PageInv
    BY DEF PageInv, NewStats, SoftIrqModule!Init
  <1>3. ReportInv
    BY DEF ReportInv, SoftIrqModule!Init
  <1>. QED BY <1>1, <1>2, <1>3 DEF SoftIrqInv

\* Steps of the kernel and of the module.
LEMMA SoftIrqInvKernel ==
  ASSUME SoftIrqLife!IInv, SoftIrqInv,
         \/ \E c \in CpuIds : SoftIrq(c) \/ SoftIrqHotplug(c)
         \/ SoftIrqInsmod \/ SoftIrqRmmod
  PROVE  SoftIrqInv'
  <1> USE DEF SoftIrqInv, SoftIrqLife!IInv, SoftIrqLife!TypeOK, SoftIrqLife!Phases
  <1>1. ASSUME NEW c \in CpuIds, SoftIrq(c) PROVE SoftIrqInv'
    <2> USE <1>1 DEF SoftIrq, pageVars, softirqReader
    <2>1. SoftIrqTypes'
      BY DEF SoftIrqTypes
    <2>2. \A d \in CpuIds : kstat_softirqs'[d] \in Nat /\ kstat_softirqs'[d] >= kstat_softirqs[d]
      BY DEF SoftIrqTypes
    <2>3. PageInv'
      BY <2>2 DEF PageInv, Passed, SoftIrqTypes, SoftIrqRecords
    <2>4. ReportInv'
      BY DEF ReportInv
    <2>. QED BY <2>1, <2>3, <2>4
  <1>2. ASSUME NEW c \in CpuIds, SoftIrqHotplug(c) PROVE SoftIrqInv'
    <2> USE <1>2 DEF SoftIrqHotplug, pageVars, softirqReader
    <2>1. /\ steady'.tick = steady.tick \ {c}
          /\ steady'.page = steady.page \ {c}
          /\ steady'.read = steady.read \ {c}
          /\ steady' \in [tick : SUBSET cpu_online', page : SUBSET cpu_online', read : SUBSET cpu_online']
      BY DEF SoftIrqTypes
    <2>2. SoftIrqTypes'
      BY <2>1 DEF SoftIrqTypes
    <2>3. PageInv'
      BY <2>1 DEF PageInv, Passed
    <2>4. ReportInv'
      BY <2>1 DEF ReportInv
    <2>. QED BY <2>2, <2>3, <2>4
  <1>3. CASE SoftIrqInsmod
    <2>1. CASE SoftIrqModule!Alloc /\ g_softirq_stats' = NewStats /\ unshown' = CpuIds
      <3> USE <1>3, <2>1 DEF SoftIrqInsmod, SoftIrqModule!Alloc, softirqReader
      <3>1. steady.page = {} /\ steady.read = {} /\ \A c \in CpuIds : ~Passed(c)
        BY DEF PageInv, ReportInv, Passed, SoftIrqTickStart, CpuIds
      <3>2. SoftIrqTypes'
        BY DEF SoftIrqTypes, SoftIrqRecords, NewStats
      <3>3. PageInv'
        BY <3>1 DEF PageInv, SoftIrqTypes, NewStats, Passed
      <3>4. ReportInv'
        BY DEF ReportInv
      <3>. QED BY <3>2, <3>3, <3>4
    <2>2. CASE (SoftIrqModule!StartTimer \/ SoftIrqModule!Register) /\ UNCHANGED <<g_softirq_stats, unshown>>
      <3> USE <1>3, <2>2 DEF SoftIrqInsmod, SoftIrqModule!StartTimer, SoftIrqModule!Register, softirqReader
      <3>0. softirq_drv'.at # "absent" /\ softirq_drv'.file = softirq_drv.file
            /\ (softirq_drv'.timer # "running" => softirq_drv.timer # "running")
        OBVIOUS
      <3>1. SoftIrqTypes' /\ ReportInv'
        BY <3>0 DEF SoftIrqTypes, ReportInv
      <3>2. PageInv'
        BY <3>0 DEF PageInv, Passed
      <3>. QED BY <3>1, <3>2
    <2>. QED BY <1>3, <2>1, <2>2 DEF SoftIrqInsmod
  <1>4. CASE SoftIrqRmmod
    <2>1. CASE (SoftIrqModule!Rmmod \/ SoftIrqModule!CancelTimer \/ SoftIrqModule!Deregister) /\ UNCHANGED steady
      <3> USE <1>4, <2>1 DEF SoftIrqRmmod, SoftIrqModule!Rmmod, SoftIrqModule!CancelTimer,
                             SoftIrqModule!Deregister, softirqReader
      <3>0. softirq_drv'.at # "absent" /\ softirq_drv'.file = softirq_drv.file
            /\ (softirq_drv'.timer # "running" => softirq_drv.timer # "running")
        OBVIOUS
      <3>1. SoftIrqTypes' /\ ReportInv'
        BY <3>0 DEF SoftIrqTypes, ReportInv
      <3>2. PageInv'
        BY <3>0 DEF PageInv, Passed
      <3>. QED BY <3>1, <3>2
    <2>2. CASE SoftIrqModule!Free /\ steady' = [steady EXCEPT !.page = {}]
      <3> USE <1>4, <2>2 DEF SoftIrqRmmod, SoftIrqModule!Free, softirqReader
      <3>1. steady'.tick = steady.tick /\ steady'.page = {} /\ steady'.read = steady.read
        BY DEF SoftIrqTypes
      <3>2. SoftIrqTypes'
        BY DEF SoftIrqTypes
      <3>3. PageInv' /\ ReportInv'
        BY <3>1 DEF PageInv, ReportInv, Passed
      <3>. QED BY <3>2, <3>3
    <2>. QED BY <1>4, <2>1, <2>2 DEF SoftIrqRmmod
  <1>. QED BY <1>1, <1>2, <1>3, <1>4

\* A tick that has named its CPU has passed one CPU more; one that goes on to
\* the next CPU after its counters, or after one that is offline, has too.
LEMMA PassedNext ==
  ASSUME SoftIrqTypes, softirq_tick.cpu \in CpuIds, NEW c \in CpuIds
  PROVE  /\ softirq_tick' = [softirq_tick EXCEPT !.field = "irqs"] /\ softirq_tick.field = "cpu_name"
              => (Passed(c)' <=> Passed(c) \/ c = softirq_tick.cpu)
         /\ softirq_tick' = NextRecord => (Passed(c)' <=> Passed(c) \/ c = softirq_tick.cpu)
         /\ softirq_tick.field = "irqs" => (Passed(c) <=> c <= softirq_tick.cpu)
  <1>1. /\ softirq_tick \in [cpu : 0..MAX_CPU, field : {"cpu_name", "irqs"}]
        /\ softirq_tick.cpu \in Int /\ c \in Int
    BY DEF SoftIrqTypes, CpuIds
  <1>2. softirq_tick' = [softirq_tick EXCEPT !.field = "irqs"] =>
          softirq_tick'.cpu = softirq_tick.cpu /\ softirq_tick'.field = "irqs"
    BY <1>1
  <1>3. softirq_tick' = NextRecord =>
          softirq_tick'.cpu = softirq_tick.cpu + 1 /\ softirq_tick'.field = "cpu_name"
    BY DEF NextRecord
  <1>4. softirq_tick.field \in {"cpu_name", "irqs"}
    BY <1>1
  <1>. QED BY <1>1, <1>2, <1>3, <1>4 DEF Passed

LEMMA TickTypes ==
  ASSUME SoftIrqTypes, softirq_tick.cpu \in CpuIds
  PROVE  \A t \in {[softirq_tick EXCEPT !.field = "irqs"], NextRecord} :
           t \in [cpu : 0..MAX_CPU, field : {"cpu_name", "irqs"}]
  <1>1. softirq_tick \in [cpu : 0..MAX_CPU, field : {"cpu_name", "irqs"}]
    BY DEF SoftIrqTypes
  <1>. QED BY <1>1 DEF NextRecord, CpuIds

\* Naming a record, or taking its name away, keeps the types.
LEMMA RecordTypes ==
  ASSUME SoftIrqTypes, NEW c \in CpuIds, NEW name \in CpuIds \cup {Unnamed}
  PROVE  [g_softirq_stats EXCEPT ![c].cpu_name = name] \in [CpuIds -> SoftIrqRecords]
  <1>1. g_softirq_stats \in [CpuIds -> SoftIrqRecords]
    BY DEF SoftIrqTypes
  <1>2. [g_softirq_stats[c] EXCEPT !.cpu_name = name] \in SoftIrqRecords
    BY <1>1 DEF SoftIrqRecords
  <1>. QED BY <1>1, <1>2

\* Steps of a tick.
LEMMA SoftIrqInvTimer ==
  ASSUME SoftIrqLife!IInv, SoftIrqInv, SoftIrqTimer
  PROVE  SoftIrqInv'
  <1> USE DEF SoftIrqInv, SoftIrqLife!IInv, SoftIrqLife!TypeOK, softirqReader
  <1>1. CASE SoftIrqFire
    <2> USE <1>1 DEF SoftIrqFire, SoftIrqModule!Fire
    <2>1. steady'.tick = cpu_online /\ steady'.page = steady.page /\ steady'.read = steady.read
      BY DEF SoftIrqTypes
    <2>2. \A c \in CpuIds : ~Passed(c)
      BY DEF PageInv, Passed, SoftIrqTickStart, CpuIds
    <2>3. SoftIrqTypes'
      BY DEF SoftIrqTypes
    <2>4. PageInv' /\ ReportInv'
      BY <2>1, <2>2 DEF PageInv, ReportInv, Passed, SoftIrqTypes
    <2>. QED BY <2>3, <2>4
  <1>2. CASE SoftIrqName
    <2> USE <1>2 DEF SoftIrqName, InUpdate, UpdateDone
    <2>1. softirq_tick.cpu \in CpuIds /\ softirq_tick.field = "cpu_name"
          /\ softirq_drv.timer = "running"
      BY DEF SoftIrqTypes, CpuIds
    <2>2. CASE softirq_tick.cpu \in cpu_online
      <3>1. /\ g_softirq_stats' = [g_softirq_stats EXCEPT ![softirq_tick.cpu].cpu_name = softirq_tick.cpu]
            /\ softirq_tick' = [softirq_tick EXCEPT !.field = "irqs"]
        BY <2>2
      <3>2. SoftIrqTypes'
        <4>1. g_softirq_stats' \in [CpuIds -> SoftIrqRecords]
          BY <2>1, <3>1, RecordTypes
        <4>. QED BY <2>1, <3>1, <4>1, TickTypes DEF SoftIrqTypes
      <3>3. \A c \in CpuIds :
              /\ g_softirq_stats'[c].cpu_name =
                   IF c = softirq_tick.cpu THEN c ELSE g_softirq_stats[c].cpu_name
              /\ g_softirq_stats'[c].irqs = g_softirq_stats[c].irqs
        BY <2>1, <3>1 DEF SoftIrqTypes, SoftIrqRecords
      <3>4. \A c \in CpuIds : Passed(c)' <=> Passed(c) \/ c = softirq_tick.cpu
        BY <2>1, <3>1, PassedNext
      <3>5. PageInv'
        BY <2>1, <3>3, <3>4 DEF PageInv, SoftIrqTypes
      <3>6. ReportInv'
        BY DEF ReportInv
      <3>. QED BY <3>2, <3>5, <3>6
    <2>3. CASE softirq_tick.cpu \notin cpu_online
      <3>1. /\ g_softirq_stats' = [g_softirq_stats EXCEPT ![softirq_tick.cpu].cpu_name = Unnamed]
            /\ softirq_tick' = NextRecord
        BY <2>3 DEF SetOffline
      <3>2. SoftIrqTypes'
        <4>1. g_softirq_stats' \in [CpuIds -> SoftIrqRecords]
          BY <2>1, <3>1, RecordTypes
        <4>. QED BY <2>1, <3>1, <4>1, TickTypes DEF SoftIrqTypes
      <3>3. \A c \in CpuIds :
              /\ g_softirq_stats'[c].cpu_name =
                   IF c = softirq_tick.cpu THEN Unnamed ELSE g_softirq_stats[c].cpu_name
              /\ g_softirq_stats'[c].irqs = g_softirq_stats[c].irqs
        BY <2>1, <3>1 DEF SoftIrqTypes, SoftIrqRecords
      <3>4. \A c \in CpuIds : Passed(c)' <=> Passed(c) \/ c = softirq_tick.cpu
        BY <2>1, <3>1, PassedNext
      <3>5. PageInv'
        BY <2>1, <2>3, <3>3, <3>4, ZenonT(30) DEF PageInv, SoftIrqTypes
      <3>6. ReportInv'
        BY DEF ReportInv
      <3>. QED BY <3>2, <3>5, <3>6
    <2>. QED BY <2>2, <2>3
  <1>3. CASE SoftIrqCounter
    <2> USE <1>3 DEF SoftIrqCounter, InUpdate, UpdateDone
    <2>1. softirq_tick.cpu \in CpuIds /\ softirq_tick.field = "irqs"
          /\ softirq_drv.timer = "running"
      BY DEF SoftIrqTypes, CpuIds
    <2>2. SoftIrqTypes'
      <3>1. g_softirq_stats' \in [CpuIds -> SoftIrqRecords]
        BY <2>1, ZenonT(30) DEF SoftIrqTypes, SoftIrqRecords
      <3>. QED BY <2>1, <3>1, TickTypes DEF SoftIrqTypes
    <2>4. \A c \in CpuIds :
            /\ g_softirq_stats'[c].cpu_name = g_softirq_stats[c].cpu_name
            /\ g_softirq_stats'[c].irqs =
                 IF c = softirq_tick.cpu THEN kstat_softirqs[c] ELSE g_softirq_stats[c].irqs
      BY <2>1 DEF SoftIrqTypes, SoftIrqRecords
    <2>5. \A c \in CpuIds : Passed(c)' <=> Passed(c)
      <3>1. \A c \in CpuIds : Passed(c) <=> c <= softirq_tick.cpu
        BY <2>1, PassedNext
      <3>2. \A c \in CpuIds : Passed(c)' <=> Passed(c) \/ c = softirq_tick.cpu
        BY <2>1, PassedNext
      <3>. QED BY <2>1, <3>1, <3>2 DEF CpuIds
    <2>6. \A c \in CpuIds : /\ kstat_softirqs[c] \in Nat /\ shown[c] \in Nat
                            /\ g_softirq_stats[c].irqs \in Nat
      BY DEF SoftIrqTypes, SoftIrqRecords
    <2>7. PageInv'
      BY <2>1, <2>4, <2>5, <2>6 DEF PageInv, SoftIrqTypes
    <2>8. ReportInv'
      BY DEF ReportInv
    <2>. QED BY <2>2, <2>7, <2>8
  <1>4. CASE SoftIrqRearm
    <2> USE <1>4 DEF SoftIrqRearm, SoftIrqModule!Rearm, UpdateDone
    <2>1. steady'.tick = {} /\ steady'.page = steady.tick /\ steady'.read = steady.read
      BY DEF SoftIrqTypes
    <2>2. \A c \in CpuIds : Passed(c)
      BY DEF Passed, CpuIds
    <2>3. SoftIrqTypes'
      <3>1. steady \in [tick : SUBSET cpu_online, page : SUBSET cpu_online, read : SUBSET cpu_online]
        BY DEF SoftIrqTypes
      <3>2. steady' \in [tick : SUBSET cpu_online, page : SUBSET cpu_online, read : SUBSET cpu_online]
        BY <3>1
      <3>3. softirq_tick' \in [cpu : 0..MAX_CPU, field : {"cpu_name", "irqs"}]
        BY DEF SoftIrqTickStart
      <3>. QED BY <3>2, <3>3 DEF SoftIrqTypes
    <2>4. PageInv' /\ ReportInv'
      BY <2>1, <2>2 DEF PageInv, ReportInv, Passed, SoftIrqTypes
    <2>. QED BY <2>3, <2>4
  <1>. QED BY <1>1, <1>2, <1>3, <1>4 DEF SoftIrqTimer

\* Steps of UpdateOnce.
LEMMA SoftIrqInvReader ==
  ASSUME SoftIrqLife!IInv, SoftIrqInv, SoftIrqUpdateOnce
  PROVE  SoftIrqInv'
  <1> USE DEF SoftIrqInv, environment
  <1>1. CASE SoftIrqOpen
    <2> USE <1>1 DEF SoftIrqOpen, SoftIrqModule!Open, softirqReader
    <2>1. /\ softirq_drv'.at = softirq_drv.at /\ softirq_drv'.timer = softirq_drv.timer
          /\ softirq_drv.file = "closed"
      BY DEF SoftIrqLife!IInv, SoftIrqLife!TypeOK
    <2>2. SoftIrqTypes'
      BY DEF SoftIrqTypes
    <2>3. PageInv' /\ ReportInv'
      BY <2>1 DEF PageInv, ReportInv, Passed
    <2>. QED BY <2>2, <2>3
  <1>2. CASE SoftIrqMap
    <2> USE <1>2 DEF SoftIrqMap, SoftIrqModule!Map
    <2>1. /\ softirq_drv'.at = softirq_drv.at /\ softirq_drv'.timer = softirq_drv.timer
          /\ softirq_drv'.file = "mapped" /\ softirq_drv.file = "open"
      BY DEF SoftIrqLife!IInv, SoftIrqLife!TypeOK
    <2>2. steady'.tick = steady.tick /\ steady'.page = steady.page /\ steady'.read = steady.page
      BY DEF SoftIrqTypes
    <2>3. soft_irq = <<>> /\ softirq_i = 0
      BY <2>1 DEF ReportInv
    <2>4. SoftIrqTypes'
      BY DEF SoftIrqTypes
    <2>5. PageInv'
      BY <2>1, <2>2 DEF PageInv, Passed
    <2>6. ReportInv'
      BY <2>1, <2>3 DEF ReportInv
    <2>. QED BY <2>4, <2>5, <2>6
  <1>3. CASE SoftIrqTest
    <2> USE <1>3 DEF SoftIrqTest
    <2>1. SoftIrqTypes'
      BY DEF SoftIrqTypes
    <2>2. PageInv'
      BY DEF PageInv, Passed
    <2>3. softirq_pc' = "unmap" => softirq_i = MAX_CPU \/ softirq_i \notin steady.read
      <3>1. CASE softirq_i < MAX_CPU /\ ~InUse
        <4>1. softirq_i \in CpuIds /\ softirq_i # Unnamed
          BY <3>1 DEF SoftIrqTypes, CpuIds, Unnamed
        <4>. QED BY <3>1, <4>1 DEF InUse, PageInv
      <3>2. CASE ~(softirq_i < MAX_CPU)
        BY <3>2 DEF SoftIrqTypes
      <3>. QED BY <3>1, <3>2
    <2>4. ReportInv'
      BY <2>3 DEF ReportInv, SoftIrqTypes
    <2>. QED BY <2>1, <2>2, <2>4
  <1>4. CASE SetCpu
    <2> DEFINE name == g_softirq_stats[softirq_i].cpu_name
    <2>1. /\ soft_irq' = Append(soft_irq, [cpu |-> name, irqs |-> 0])
          /\ softirq_pc = "cpu" /\ softirq_pc' = "irqs"
          /\ UNCHANGED <<environment, softirq_drv, softirq_i, steady, shown, unshown>>
      BY <1>4 DEF SetCpu
    <2>2. softirq_i \in CpuIds /\ softirq_i < MAX_CPU /\ Len(soft_irq) = softirq_i
      BY <2>1 DEF ReportInv, SoftIrqTypes, CpuIds
    <2>3. /\ name \in {softirq_i, Unnamed} /\ name \in CpuIds \cup {Unnamed}
          /\ softirq_i \in steady.read => name = softirq_i
      BY <2>2 DEF PageInv
    <2>4. /\ soft_irq' \in Seq(SoftIrqEntries) /\ Len(soft_irq') = softirq_i + 1
          /\ \A n \in 1..Len(soft_irq') :
               soft_irq'[n].cpu = IF n <= Len(soft_irq) THEN soft_irq[n].cpu ELSE name
      <3>1. [cpu |-> name, irqs |-> 0] \in SoftIrqEntries
        BY <2>3 DEF SoftIrqEntries
      <3>2. soft_irq \in Seq(SoftIrqEntries)
        BY DEF SoftIrqTypes
      <3>. HIDE DEF name
      <3>. QED BY <2>1, <2>2, <3>1, <3>2
    <2>5. SoftIrqTypes'
      BY <2>1, <2>4 DEF SoftIrqTypes
    <2>6. PageInv'
      BY <2>1 DEF PageInv, Passed
    <2>7. ReportInv'
      <3>1. \A n \in 1..Len(soft_irq') : n \in 1..Len(soft_irq) \/ n = softirq_i + 1
        BY <2>2, <2>4 DEF SoftIrqTypes
      <3>2. \A n \in 1..Len(soft_irq') :
              /\ soft_irq'[n].cpu \in {n - 1, Unnamed}
              /\ n - 1 \in steady.read => soft_irq'[n].cpu = n - 1
        BY <2>2, <2>3, <2>4, <3>1 DEF ReportInv, CpuIds
      <3>. QED BY <2>1, <2>2, <2>4, <3>2 DEF ReportInv
    <2>. QED BY <2>5, <2>6, <2>7
  <1>5. CASE SetIrqs
    <2> DEFINE irqs == g_softirq_stats[softirq_i].irqs
               last == Len(soft_irq)
               name == soft_irq[last].cpu
    <2>1. /\ softirq_pc = "irqs" /\ softirq_pc' = "test"
          /\ soft_irq' = [soft_irq EXCEPT ![last].irqs = irqs]
          /\ softirq_i' = softirq_i + 1
          /\ shown' = IF name = Unnamed THEN shown ELSE [shown EXCEPT ![name] = irqs]
          /\ unshown' = unshown \ {name}
          /\ UNCHANGED <<environment, softirq_drv, steady>>
      BY <1>5 DEF SetIrqs
    <2>2. softirq_i \in CpuIds /\ softirq_i < MAX_CPU /\ last = softirq_i + 1 /\ last \in 1..Len(soft_irq)
      BY <2>1 DEF ReportInv, SoftIrqTypes, CpuIds
    <2>3. name \in {softirq_i, Unnamed}
      BY <2>2 DEF ReportInv, CpuIds
    <2>4. irqs \in Nat
      BY <2>2 DEF SoftIrqTypes, SoftIrqRecords
    <2>5. /\ soft_irq' \in Seq(SoftIrqEntries) /\ Len(soft_irq') = Len(soft_irq)
          /\ \A n \in 1..Len(soft_irq) : soft_irq'[n].cpu = soft_irq[n].cpu
      <3>1. soft_irq \in Seq(SoftIrqEntries) /\ soft_irq[last] \in SoftIrqEntries
        BY <2>2 DEF SoftIrqTypes
      <3>2. [soft_irq[last] EXCEPT !.irqs = irqs] \in SoftIrqEntries
        BY <2>4, <3>1 DEF SoftIrqEntries
      <3>3. \A n \in 1..Len(soft_irq) : soft_irq[n] \in SoftIrqEntries
        BY <3>1
      <3>4. \A n \in 1..Len(soft_irq) :
              soft_irq'[n] = IF n = last THEN [soft_irq[last] EXCEPT !.irqs = irqs] ELSE soft_irq[n]
        BY <2>1, <2>2, <3>1
      <3>. HIDE DEF irqs
      <3>5. [soft_irq[last] EXCEPT !.irqs = irqs].cpu = soft_irq[last].cpu
        BY <3>1 DEF SoftIrqEntries
      <3>6. soft_irq' \in Seq(SoftIrqEntries) /\ Len(soft_irq') = Len(soft_irq)
        BY <2>1, <2>2, <3>1, <3>2
      <3>. QED BY <3>4, <3>5, <3>6
    <2>6. /\ shown' \in [CpuIds -> Nat] /\ unshown' \subseteq CpuIds
          /\ \A c \in CpuIds \ unshown' : shown'[c] <= g_softirq_stats[c].irqs
      <3>1. shown \in [CpuIds -> Nat] /\ unshown \subseteq CpuIds
        BY DEF SoftIrqTypes
      <3>2. \A c \in CpuIds \ unshown : shown[c] <= g_softirq_stats[c].irqs
        BY DEF PageInv
      <3>3. CASE name = Unnamed
        <4>1. Unnamed \notin CpuIds
          BY DEF Unnamed, CpuIds
        <4>. QED BY <2>1, <3>1, <3>2, <3>3, <4>1
      <3>4. CASE name = softirq_i
        <4>1. softirq_i # Unnamed
          BY <2>2 DEF Unnamed, CpuIds
        <4>2. shown' = [shown EXCEPT ![softirq_i] = irqs] /\ unshown' = unshown \ {softirq_i}
          BY <2>1, <3>4, <4>1
        <4>. QED BY <2>2, <2>4, <3>1, <3>2, <4>2
      <3>. QED BY <2>3, <3>3, <3>4
    <2>7. SoftIrqTypes'
      BY <2>1, <2>2, <2>5, <2>6, SMTT(30) DEF SoftIrqTypes, CpuIds
    <2>8. PageInv'
      BY <2>1, <2>6 DEF PageInv, Passed
    <2>9. ReportInv'
      BY <2>1, <2>2, <2>5 DEF ReportInv, SoftIrqTypes
    <2>. QED BY <2>7, <2>8, <2>9
  <1>6. CASE SoftIrqClose
    <2> USE <1>6 DEF SoftIrqClose, SoftIrqModule!Close
    <2>1. /\ softirq_drv'.at = softirq_drv.at /\ softirq_drv'.timer = softirq_drv.timer
      BY DEF SoftIrqLife!IInv, SoftIrqLife!TypeOK
    <2>2. steady'.tick = steady.tick /\ steady'.page = steady.page /\ steady'.read = {}
      BY DEF SoftIrqTypes
    <2>3. SoftIrqTypes'
      <3>1. steady' \in [tick : SUBSET cpu_online, page : SUBSET cpu_online, read : SUBSET cpu_online]
        BY DEF SoftIrqTypes
      <3>2. soft_irq' \in Seq(SoftIrqEntries) /\ softirq_i' \in 0..MAX_CPU
        OBVIOUS
      <3>. QED BY <3>1, <3>2 DEF SoftIrqTypes
    <2>4. PageInv' /\ ReportInv'
      BY <2>1, <2>2 DEF PageInv, ReportInv, Passed
    <2>. QED BY <2>3, <2>4
  <1>. QED BY <1>1, <1>2, <1>3, <1>4, <1>5, <1>6 DEF SoftIrqUpdateOnce

LEMMA SoftIrqInvPreserved == SoftIrqLife!IInv /\ SoftIrqInv /\ [SoftIrqNext]_softirqVars => SoftIrqInv'
  <1> SUFFICES ASSUME SoftIrqLife!IInv, SoftIrqInv, [SoftIrqNext]_softirqVars PROVE SoftIrqInv'
    OBVIOUS
  <1>1. CASE UNCHANGED softirqVars
    BY <1>1 DEF softirqVars, pageVars, softirqReader, SoftIrqInv, SoftIrqTypes, PageInv, ReportInv, Passed
  <1>2. CASE SoftIrqNext
    BY <1>2, SoftIrqInvKernel, SoftIrqInvTimer, SoftIrqInvReader DEF SoftIrqNext
  <1>. QED BY <1>1, <1>2

LEMMA SoftIrqInvHolds == SoftIrqSpec => [](SoftIrqInv /\ SoftIrqLife!IInv)
  BY SoftIrqInvInit, SoftIrqInvPreserved, SoftIrqLifeIInv, PTL DEF SoftIrqSpec

\* For any number of CPUs that go offline and come back at any step of a tick
\* and of UpdateOnce: a CPU that, like all before it, has been online since
\* before the last tick is reported, in its place and under its name.
THEOREM ReportsEndAtAGap == SoftIrqSpec => []CpusBeforeAGapAreReported
  <1>1. SoftIrqInv => CpusBeforeAGapAreReported
    <2> SUFFICES ASSUME SoftIrqInv, softirq_pc = "unmap", NEW c \in CpuIds,
                        0..c \subseteq steady.read
                 PROVE  c < Len(soft_irq) /\ soft_irq[c + 1].cpu = c
      BY DEF CpusBeforeAGapAreReported
    <2>1. c \in steady.read /\ c \in Nat /\ c < MAX_CPU /\ softirq_i \in Nat
      BY DEF CpuIds, SoftIrqInv, SoftIrqTypes
    <2>2. Len(soft_irq) = softirq_i /\ (softirq_i = MAX_CPU \/ softirq_i \notin 0..c)
      BY DEF SoftIrqInv, ReportInv
    <2>3. c < softirq_i
      BY <2>1, <2>2
    <2>. QED BY <2>1, <2>2, <2>3 DEF SoftIrqInv, ReportInv
  <1>. QED BY <1>1, SoftIrqInvHolds, PTL

\* For any number of CPUs and reloads: the counter of a CPU goes back between
\* two reports only in its first report after the module was inserted again.
THEOREM CountersGrowInReports == SoftIrqSpec => CountersGoBackOnlyByReload
  <1>1. SoftIrqInv /\ [SoftIrqNext]_softirqVars
          => [\A c \in CpuIds : shown'[c] < shown[c] => c \in unshown]_softirqVars
    <2> SUFFICES ASSUME SoftIrqInv, SoftIrqNext, NEW c \in CpuIds, c \notin unshown
                 PROVE  ~(shown'[c] < shown[c])
      OBVIOUS
    <2>1. shown \in [CpuIds -> Nat] /\ shown[c] <= g_softirq_stats[c].irqs /\ g_softirq_stats[c].irqs \in Nat
      BY DEF SoftIrqInv, SoftIrqTypes, SoftIrqRecords, PageInv
    <2>2. CASE SetIrqs
      <3>1. soft_irq[Len(soft_irq)].cpu \in {softirq_i, Unnamed}
        <4>1. Len(soft_irq) = softirq_i + 1 /\ softirq_i \in Nat
          BY <2>2 DEF SetIrqs, SoftIrqInv, ReportInv, SoftIrqTypes
        <4>2. Len(soft_irq) \in 1..Len(soft_irq) /\ Len(soft_irq) - 1 = softirq_i
          BY <4>1
        <4>. QED BY <4>2 DEF SoftIrqInv, ReportInv
      <3>2. shown'[c] = shown[c] \/ shown'[c] = g_softirq_stats[c].irqs
        BY <2>1, <2>2, <3>1 DEF SetIrqs
      <3>. QED BY <2>1, <3>2
    <2>3. CASE ~SetIrqs
      <3>1. UNCHANGED shown
        BY <2>3 DEF SoftIrqNext, SoftIrq, SoftIrqHotplug, SoftIrqInsmod, SoftIrqRmmod, SoftIrqTimer,
                    SoftIrqFire, SoftIrqName, SoftIrqCounter, SoftIrqRearm, SoftIrqUpdateOnce,
                    SoftIrqOpen, SoftIrqMap, SoftIrqTest, SetCpu, SoftIrqClose
      <3>. QED BY <2>1, <3>1
    <2>. QED BY <2>2, <2>3
  <1>. QED BY <1>1, SoftIrqInvHolds, PTL DEF SoftIrqSpec, CountersGoBackOnlyByReload

\* No counter of the page, the report or the history is ahead of what the kernel
\* can have counted.
SoftIrqBounds ==
  /\ \A c \in CpuIds : /\ kstat_softirqs[c] <= MaxIrqs
                       /\ g_softirq_stats[c].irqs <= MaxIrqs
                       /\ shown[c] <= MaxIrqs
  /\ \A n \in 1..Len(soft_irq) : soft_irq[n].irqs <= MaxIrqs
  /\ cpu_online # {}

LEMMA SoftIrqBoundsPreserved ==
  SoftIrqInv /\ SoftIrqInv' /\ SoftIrqBounds /\ [SoftIrqNext]_softirqVars => SoftIrqBounds'
  <1> SUFFICES ASSUME SoftIrqInv, SoftIrqInv', SoftIrqBounds, [SoftIrqNext]_softirqVars
               PROVE  SoftIrqBounds'
    OBVIOUS
  <1>0. /\ kstat_softirqs \in [CpuIds -> Nat] /\ shown \in [CpuIds -> Nat]
        /\ g_softirq_stats \in [CpuIds -> SoftIrqRecords]
        /\ soft_irq \in Seq(SoftIrqEntries) /\ MaxIrqs \in Nat
    BY DEF SoftIrqInv, SoftIrqTypes
  <1>1. CASE UNCHANGED softirqVars
    BY <1>1 DEF softirqVars, pageVars, softirqReader, SoftIrqBounds
  <1>2. ASSUME NEW c \in CpuIds, SoftIrq(c) PROVE SoftIrqBounds'
    BY <1>0, <1>2 DEF SoftIrq, pageVars, softirqReader, SoftIrqBounds
  <1>3. ASSUME NEW c \in CpuIds, SoftIrqHotplug(c) PROVE SoftIrqBounds'
    BY <1>3 DEF SoftIrqHotplug, pageVars, softirqReader, SoftIrqBounds
  <1>4. CASE SoftIrqInsmod
    BY <1>4 DEF SoftIrqInsmod, softirqReader, SoftIrqBounds, NewStats
  <1>5. CASE SoftIrqRmmod \/ SoftIrqFire \/ SoftIrqRearm
    BY <1>5 DEF SoftIrqRmmod, SoftIrqFire, SoftIrqRearm, softirqReader, SoftIrqBounds
  <1>6. CASE SoftIrqName
    <2>1. \E name : g_softirq_stats' = [g_softirq_stats EXCEPT ![softirq_tick.cpu].cpu_name = name]
      BY <1>6 DEF SoftIrqName, SetOffline
    <2>2. \A c \in CpuIds : g_softirq_stats'[c].irqs = g_softirq_stats[c].irqs
      BY <1>0, <2>1 DEF SoftIrqRecords
    <2>. QED BY <1>6, <2>2 DEF SoftIrqName, softirqReader, SoftIrqBounds
  <1>7. CASE SoftIrqCounter
    BY <1>0, <1>7 DEF SoftIrqCounter, softirqReader, SoftIrqBounds, SoftIrqRecords
  <1>8. CASE SoftIrqOpen \/ SoftIrqMap \/ SoftIrqTest \/ SoftIrqClose
    BY <1>8 DEF SoftIrqOpen, SoftIrqMap, SoftIrqTest, SoftIrqClose, environment, softirqReader, SoftIrqBounds
  <1>9. CASE SetCpu
    <2>1. soft_irq' = Append(soft_irq, [cpu |-> g_softirq_stats[softirq_i].cpu_name, irqs |-> 0])
      BY <1>9 DEF SetCpu
    <2>2. \A n \in 1..Len(soft_irq') : soft_irq'[n].irqs <= MaxIrqs
      BY <1>0, <2>1 DEF SoftIrqBounds
    <2>. QED BY <1>9, <2>2 DEF SetCpu, environment, SoftIrqBounds
  <1>10. CASE SetIrqs
    <2>1. /\ soft_irq' = [soft_irq EXCEPT ![Len(soft_irq)].irqs = g_softirq_stats[softirq_i].irqs]
          /\ softirq_i \in CpuIds
      <3>1. softirq_pc = "irqs"
        BY <1>10 DEF SetIrqs
      <3>2. softirq_i < MAX_CPU /\ softirq_i \in Nat
        BY <3>1 DEF SoftIrqInv, SoftIrqTypes, ReportInv
      <3>. QED BY <1>10, <3>2 DEF SetIrqs, CpuIds
    <2>2. \A n \in 1..Len(soft_irq') : soft_irq'[n].irqs <= MaxIrqs
      BY <1>0, <2>1 DEF SoftIrqBounds, SoftIrqEntries
    <2>3. \A c \in CpuIds : shown'[c] = shown[c] \/ shown'[c] = g_softirq_stats[softirq_i].irqs
      BY <1>0, <1>10 DEF SetIrqs
    <2>. QED BY <1>10, <2>1, <2>2, <2>3 DEF SetIrqs, environment, SoftIrqBounds
  <1>. QED BY <1>1, <1>2, <1>3, <1>4, <1>5, <1>6, <1>7, <1>8, <1>9, <1>10
           DEF SoftIrqNext, SoftIrqTimer, SoftIrqUpdateOnce

LEMMA NarrowSeq ==
  ASSUME NEW S, NEW T, NEW s \in Seq(T), \A n \in 1..Len(s) : s[n] \in S
  PROVE  s \in Seq(S)
  OBVIOUS

LEMMA BoundedEntry ==
  ASSUME NEW C, NEW M \in Nat, NEW e \in [cpu : C, irqs : Nat], e.irqs <= M
  PROVE  e \in [cpu : C, irqs : 0..M]
  OBVIOUS

\* All variables of the soft interrupt monitor keep their types.
THEOREM SoftIrqTypesHold == SoftIrqSpec => []SoftIrqTypeOK
  <1>1. SoftIrqInit => SoftIrqBounds
    BY DEF SoftIrqInit, SoftIrqBounds, NewStats, CpuIds
  <1>2. SoftIrqInv /\ SoftIrqLife!IInv /\ SoftIrqBounds => SoftIrqTypeOK
    <2> SUFFICES ASSUME SoftIrqInv, SoftIrqLife!IInv, SoftIrqBounds PROVE SoftIrqTypeOK
      OBVIOUS
    <2> USE DEF SoftIrqInv, SoftIrqTypes, SoftIrqBounds
    <2>1. SoftIrqModule!TypeOK
      BY DEF SoftIrqLife!IInv, SoftIrqLife!TypeOK, SoftIrqModule!TypeOK, SoftIrqLife!Phases, SoftIrqModule!Phases
    <2>2. /\ kstat_softirqs \in [CpuIds -> 0..MaxIrqs] /\ shown \in [CpuIds -> 0..MaxIrqs]
          /\ g_softirq_stats \in [CpuIds -> [cpu_name : CpuIds \cup {Unnamed}, irqs : 0..MaxIrqs]]
      BY DEF SoftIrqRecords
    <2>3. soft_irq \in Seq([cpu : CpuIds \cup {Unnamed}, irqs : 0..MaxIrqs])
      <3>1. soft_irq \in Seq(SoftIrqEntries) /\ MaxIrqs \in Nat
        OBVIOUS
      <3>2. \A n \in 1..Len(soft_irq) :
              soft_irq[n] \in [cpu : CpuIds \cup {Unnamed}, irqs : 0..MaxIrqs]
        <4> SUFFICES ASSUME NEW n \in 1..Len(soft_irq)
                     PROVE  soft_irq[n] \in [cpu : CpuIds \cup {Unnamed}, irqs : 0..MaxIrqs]
          OBVIOUS
        <4>1. soft_irq[n] \in [cpu : CpuIds \cup {Unnamed}, irqs : Nat] /\ soft_irq[n].irqs <= MaxIrqs
          <5>1. soft_irq[n] \in SoftIrqEntries
            BY <3>1
          <5>. QED BY <5>1 DEF SoftIrqEntries
        <4>. QED BY <3>1, <4>1, BoundedEntry
      <3>. QED BY <3>1, <3>2, NarrowSeq
    <2>4. steady \in [{"tick", "page", "read"} -> SUBSET CpuIds]
      OBVIOUS
    <2>. QED BY <2>1, <2>2, <2>3, <2>4 DEF SoftIrqTypeOK
  <1>. QED BY <1>1, <1>2, SoftIrqBoundsPreserved, SoftIrqInvHolds, PTL DEF SoftIrqSpec
=============================================================================
