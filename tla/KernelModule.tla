---------------------------- MODULE KernelModule -----------------------------
(***************************************************************************)
(* The life of one of the three kernel modules that show a page to         *)
(* node_client: insmod, the timer that fills the page, the device, the     *)
(* agent's file and mapping, and rmmod.  The three are written alike, and  *)
(* each monitor has its own instance.                                      *)
(*                                                                         *)
(* A file that is open, or mapped, holds a reference to the module, since  *)
(* cpu_load_monitor_fops names its owner.  An insmod that fails because    *)
(* there is no memory changes nothing and is not a step.                   *)
(***************************************************************************)

\* at      the statement that insmod or rmmod comes to next
\* page    g_cpu_load is allocated
\* timer   "off", "armed", or "running" its callback
\* device  the device is registered
\* file    the agent's file: "closed", "open", "mapped"
VARIABLE drv

Phases == {"absent", "start", "register", "live", "cancel", "deregister", "free"}

Init == drv = [at |-> "absent", page |-> FALSE, timer |-> "off", device |-> FALSE,
               file |-> "closed"]

-----------------------------------------------------------------------------
(* cpu_load_monitor_init. *)

Alloc ==
  /\ drv.at = "absent"
  /\ drv' = [drv EXCEPT !.at = "start", !.page = TRUE]

StartTimer ==
  /\ drv.at = "start"
  /\ drv' = [drv EXCEPT !.at = "register", !.timer = "armed"]

\* misc_register may fail; its result is not looked at.
Register ==
  /\ drv.at = "register"
  /\ \E registered \in BOOLEAN :
       drv' = [drv EXCEPT !.at = "live", !.device = registered]

-----------------------------------------------------------------------------
(* cpu_load_monitor_exit. *)

\* Variant: cpu_load_monitor_fops without .owner.
Rmmod_no_owner ==
  /\ drv.at = "live"
  /\ drv' = [drv EXCEPT !.at = "cancel"]

\* rmmod refuses while a file refers to the module.
Rmmod ==
  /\ drv.at = "live" /\ drv.file = "closed"
  /\ drv' = [drv EXCEPT !.at = "cancel"]

\* hrtimer_cancel waits for a callback that is running.
CancelTimer ==
  /\ drv.at = "cancel" /\ drv.timer # "running"
  /\ drv' = [drv EXCEPT !.at = "deregister", !.timer = "off"]

Deregister ==
  /\ drv.at = "deregister"
  /\ drv' = [drv EXCEPT !.at = "free", !.device = FALSE]

Free ==
  /\ drv.at = "free"
  /\ drv' = [drv EXCEPT !.at = "absent", !.page = FALSE]

-----------------------------------------------------------------------------
(* cpu_load_timer_callback begins, and ends by starting the timer again. *)

Fire ==
  /\ drv.timer = "armed"
  /\ drv' = [drv EXCEPT !.timer = "running"]

Rearm ==
  /\ drv.timer = "running"
  /\ drv' = [drv EXCEPT !.timer = "armed"]

-----------------------------------------------------------------------------
(* The agent. *)

\* open succeeds if the device is there and its module is not on its way out.
Open ==
  /\ drv.file = "closed"
  /\ drv.device /\ drv.at \notin {"cancel", "deregister", "free"}
  /\ drv' = [drv EXCEPT !.file = "open"]

Map ==
  /\ drv.file = "open"
  /\ drv' = [drv EXCEPT !.file = "mapped"]

\* munmap and close, or close alone where mmap failed.
Close ==
  /\ drv.file # "closed"
  /\ drv' = [drv EXCEPT !.file = "closed"]

Insmod == Alloc \/ StartTimer \/ Register
Exit == Rmmod \/ CancelTimer \/ Deregister \/ Free
Next == Insmod \/ Exit \/ Fire \/ Rearm \/ Open \/ Map \/ Close

Spec == Init /\ [][Next]_drv

-----------------------------------------------------------------------------
TypeOK ==
  drv \in [at : Phases, page : BOOLEAN, timer : {"off", "armed", "running"},
           device : BOOLEAN, file : {"closed", "open", "mapped"}]

\* Whatever order insmod, ticks, the agent's calls and rmmod come in, the page
\* is there as long as anything can touch it: a callback that is running, a
\* file whose mmap handler reads g_cpu_load, a mapping.
PageOutlivesUsers ==
  drv.timer = "running" \/ drv.file # "closed" => drv.page

\* What makes it so: where in its life the module has which part.
IInv ==
  /\ TypeOK
  /\ drv.page <=> drv.at # "absent"
  /\ drv.timer # "off" <=> drv.at \in {"register", "live", "cancel"}
  /\ drv.device => drv.at \in {"live", "cancel", "deregister"}
  /\ drv.file # "closed" => drv.at = "live"
=============================================================================
