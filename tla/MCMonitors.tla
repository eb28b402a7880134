----------------------------- MODULE MCMonitors ------------------------------
(***************************************************************************)
(* The monitors that node_client runs one after the other in one thread.   *)
(* They share no state, so each is checked against its own environment: a  *)
(* behaviour runs one of them, and the others stay as they begin.          *)
(* NetMonitor, the sixth, has a run of its own.                            *)
(*                                                                         *)
(* Two CPUs, so that one can be offline.  Only the first accounts time: a  *)
(* sample of it that were kept for the second would be seen there.  Floats *)
(* exact up to 2 round from 3 on.  One disk that works and one that is     *)
(* skipped.  A kernel that shows MemAvailable, one that does not, and one  *)
(* that shows it in another place.                                         *)
(***************************************************************************)
EXTENDS MCCpuStat, CpuLoadMonitor, SoftIrqMonitor, DiskMonitor, MemMonitor

CONSTANTS Sda, Loop0

OneDisk == [d \in Disks |-> IF d = Sda THEN 2 ELSE 0]

Kernels == {<<"MemTotal:", "MemFree:", "MemAvailable:", "Slab:">>,
            <<"MemTotal:", "MemFree:", "Slab:">>,
            <<"Slab:", "MemAvailable:", "MemTotal:", "MemFree:">>}

Leftovers == {-1, 0, 3}

VARIABLE monitor   \* the monitor this behaviour runs

monitorsVars == <<vars, loadVars, softirqVars, diskVars, memVars, monitor>>

MonitorsInit ==
  /\ monitor \in {"cpu_stat", "cpu_load", "soft_irq", "disk", "mem"}
  /\ Init /\ LoadInit /\ SoftIrqInit /\ DiskInit /\ MemInit
  /\ monitor # "mem" => layout = CHOOSE l \in Layouts : TRUE

MonitorsNext ==
  /\ UNCHANGED monitor
  /\ \/ monitor = "cpu_stat" /\ Next /\ UNCHANGED <<loadVars, softirqVars, diskVars, memVars>>
     \/ monitor = "cpu_load" /\ LoadNext /\ UNCHANGED <<vars, softirqVars, diskVars, memVars>>
     \/ monitor = "soft_irq" /\ SoftIrqNext /\ UNCHANGED <<vars, loadVars, diskVars, memVars>>
     \/ monitor = "disk" /\ DiskNext /\ UNCHANGED <<vars, loadVars, softirqVars, memVars>>
     \/ monitor = "mem" /\ MemNext /\ UNCHANGED <<vars, loadVars, softirqVars, diskVars>>

MonitorsSpec == MonitorsInit /\ [][MonitorsNext]_monitorsVars

\* All variables of all five monitors keep their types.
MonitorsTypeOK == TypeOK /\ LoadTypeOK /\ SoftIrqTypeOK /\ DiskTypeOK /\ MemTypeOK
=============================================================================
