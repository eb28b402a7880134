------------------------------ MODULE CpuStat -------------------------------
(***************************************************************************)
(* CPU usage in node_client.  cpu_stat_monitor_kmod owns a page of one     *)
(* record per CPU, which a timer overwrites every second, field by field;  *)
(* CpuStatMonitor::UpdateOnce maps the page and reads it, every field more *)
(* than once, with nothing to keep the two apart.  The page is taken to be *)
(* the memory the module writes.                                           *)
(*                                                                         *)
(* Two counters stand for the ten: `user` for the six that count as busy   *)
(* and `idle` for the two that only count in the total.  A counter is a    *)
(* u64 of nanoseconds in the kernel and a float in the page, and the sums  *)
(* are floats: exact up to MaxExact, and rounded to nearest beyond it, to  *)
(* MaxExact / 2 values between two powers of two.  Both sides access       *)
(* memory in the order of the source.  A name is written and read whole:   *)
(* snprintf and the reader go byte by byte, which can be told apart only   *)
(* in the tick that gives a record its first name.                         *)
(***************************************************************************)
EXTENDS Integers

CONSTANTS
  NumCpu,      \* records of the page: MAX_CPU and stat_count
  MaxExact,    \* every count up to it is a float: 2^24
  Booted,      \* what the kernel accounted before the module was inserted
  MaxTime,     \* bound on the time the kernel accounts to each CPU
  ReloadTimes  \* bound on when the module is inserted again: times of the first CPU

ASSUME NumCpuAssumption == NumCpu \in Nat \ {0}
ASSUME MaxExactAssumption == MaxExact \in Nat \ {0} /\ MaxExact % 2 = 0
Cpus == 0 .. NumCpu - 1

Sample == [user : Nat, idle : Nat]

ASSUME BootedAssumption == Booted \in [Cpus -> Sample]
ASSUME MaxTimeAssumption == MaxTime \in [Cpus -> Nat] /\ ReloadTimes \subseteq Nat

Fields == {"user", "idle"}

NoName  == -1    \* an empty cpu_name; CPU n is named n
NotRead == -1    \* total of a CPU that has no previous sample

VARIABLES
  kcpustat,      \* the kernel's counters of each CPU
  online,        \* the CPUs that are online
  page,          \* g_cpu_stats: what the module shows of each CPU
  tick,          \* where update_cpu_stats is: a CPU and the field it writes next
  pc,            \* where UpdateOnce is
  i,             \* the record it is at
  key,           \* the cpu_name it looked up or stores under
  old,           \* the previous sample
  total, busy,   \* new_cpu_total_time and new_cpu_busy_time
  copy,          \* the part of the record that has been copied into the map
  cpu_stat_map_, \* the previous sample by cpu_name
  rewritten,     \* history: the timer wrote to record i since `total` was read
  stale          \* history: CPUs that were not sampled since the module was inserted again

kernelVars == <<kcpustat, online>>
readerVars == <<pc, i, key, old, total, busy, copy, cpu_stat_map_>>
vars == <<kernelVars, page, tick, readerVars, rewritten, stale>>

-----------------------------------------------------------------------------
(* Floats. *)

\* The distance between neighbouring floats at n.
ulp[n \in Nat] == IF n < MaxExact THEN 1 ELSE 2 * ulp[n \div 2]

\* x rounded to the nearest float, ties to the even one.
Float(x) ==
  LET u == ulp[x]
      q == x \div u
      r == x % u
  IN  IF 2 * r > u \/ (2 * r = u /\ q % 2 = 1) THEN (q + 1) * u ELSE q * u

Sum(sample) == Float(sample.user + sample.idle)

\* The sums as the code has them, over all counters of a record, each addition
\* rounded: Sum stands for AllTime, and a single counter for UsedTime.
Plus(x, y) == Float(x + y)

AllTime(r) ==
  Plus(Plus(Plus(Plus(Plus(Plus(Plus(
    r.user, r.system), r.idle), r.nice), r.io_wait), r.irq), r.soft_irq), r.steal)

UsedTime(r) ==
  Plus(Plus(Plus(Plus(Plus(r.user, r.system), r.nice), r.irq), r.soft_irq), r.steal)

Zero == [user |-> 0, idle |-> 0]

\* vzalloc: no names and no counts.
NewPage == [c \in Cpus |-> [cpu_name |-> NoName, user |-> 0, idle |-> 0]]

TickStart == [cpu |-> 0, field |-> "cpu_name"]

Init ==
  /\ kcpustat = Booted
  /\ online = Cpus
  /\ page = NewPage
  /\ tick = TickStart
  /\ pc = "closed"
  /\ i = 0 /\ key = NoName /\ old = Zero /\ total = NotRead /\ busy = 0 /\ copy = Zero
  /\ cpu_stat_map_ = [n \in {} |-> Zero]
  /\ rewritten = FALSE /\ stale = {}

-----------------------------------------------------------------------------
(* The kernel. *)

Elapsed(c) == kcpustat[c].user + kcpustat[c].idle

Account(c) ==
  /\ c \in online /\ Elapsed(c) < MaxTime[c]
  /\ \E f \in Fields : kcpustat' = [kcpustat EXCEPT ![c][f] = @ + 1]
  /\ UNCHANGED <<online, page, tick, readerVars, rewritten, stale>>

\* A CPU is taken offline or brought back; one CPU always runs.
Hotplug(c) ==
  /\ online' = IF c \in online THEN online \ {c} ELSE online \cup {c}
  /\ online' # {}
  /\ UNCHANGED <<kcpustat, page, tick, readerVars, rewritten, stale>>

\* The module is removed and inserted again, between two ticks and while the
\* agent has no file open: the steps in between are those of KernelModule.
Reload ==
  /\ pc = "closed" /\ tick = TickStart
  /\ Elapsed(0) \in ReloadTimes
  /\ page' = NewPage
  /\ stale' = Cpus
  /\ UNCHANGED <<kernelVars, tick, readerVars, rewritten>>

-----------------------------------------------------------------------------
(* cpu_stat_timer_callback: update_cpu_stats, from the first CPU to the last. *)

\* Variant: `cpu <= MAX_CPU`.
NextCpu_one_far == [cpu |-> (tick.cpu + 1) % (NumCpu + 1), field |-> "cpu_name"]

NextCpu == [cpu |-> (tick.cpu + 1) % NumCpu, field |-> "cpu_name"]

Write(field, value) ==
  /\ page' = [page EXCEPT ![tick.cpu][field] = value]
  /\ rewritten' = (rewritten \/ (total # NotRead /\ tick.cpu = i))

\* Variant: the record is cleared before its fields are filled in.
TimerName_clears ==
  /\ tick.field = "cpu_name"
  /\ IF tick.cpu \in online
       THEN /\ page' = [page EXCEPT ![tick.cpu] =
                          [cpu_name |-> tick.cpu, user |-> 0, idle |-> 0]]
            /\ rewritten' = (rewritten \/ (total # NotRead /\ tick.cpu = i))
            /\ tick' = [tick EXCEPT !.field = "user"]
       ELSE Write("cpu_name", NoName) /\ tick' = NextCpu
  /\ UNCHANGED <<kernelVars, readerVars, stale>>

TimerName ==
  /\ tick.field = "cpu_name"
  /\ IF tick.cpu \in online
       THEN Write("cpu_name", tick.cpu) /\ tick' = [tick EXCEPT !.field = "user"]
       ELSE Write("cpu_name", NoName) /\ tick' = NextCpu
  /\ UNCHANGED <<kernelVars, readerVars, stale>>

TimerCounter ==
  /\ tick.field \in Fields
  /\ Write(tick.field, Float(kcpustat[tick.cpu][tick.field]))
  /\ tick' = IF tick.field = "user" THEN [tick EXCEPT !.field = "idle"] ELSE NextCpu
  /\ UNCHANGED <<kernelVars, readerVars, stale>>

Timer == TimerName \/ TimerCounter

-----------------------------------------------------------------------------
(* CpuStatMonitor::UpdateOnce. *)

unread == <<kernelVars, page, tick, stale>>

\* open and mmap succeed; if they fail the message gets no entry.
Open ==
  /\ pc = "closed"
  /\ pc' = "test"
  /\ UNCHANGED <<unread, i, key, old, total, busy, copy, cpu_stat_map_, rewritten>>

\* The first record without a name ends the loop, as does the last record.
Test ==
  /\ pc = "test"
  /\ IF i = NumCpu \/ page[i].cpu_name = NoName
       THEN pc' = "closed" /\ i' = 0
       ELSE pc' = "find" /\ UNCHANGED i
  /\ UNCHANGED <<unread, key, old, total, busy, copy, cpu_stat_map_, rewritten>>

\* cpu_stat_map_.find(stats[i].cpu_name)
Find ==
  LET name == page[i].cpu_name IN
  /\ pc = "find"
  /\ key' = name
  /\ IF name \in DOMAIN cpu_stat_map_
       THEN old' = cpu_stat_map_[name] /\ pc' = "total_user"
       ELSE UNCHANGED old /\ pc' = "key"
  /\ UNCHANGED <<unread, i, total, busy, copy, cpu_stat_map_, rewritten>>

\* The counters are read once for new_cpu_total_time ...
ReadTotalUser ==
  /\ pc = "total_user" /\ pc' = "total_idle"
  /\ total' = page[i].user
  /\ UNCHANGED <<unread, i, key, old, busy, copy, cpu_stat_map_, rewritten>>

ReadTotalIdle ==
  /\ pc = "total_idle" /\ pc' = "busy"
  /\ total' = Float(total + page[i].idle)
  /\ UNCHANGED <<unread, i, key, old, busy, copy, cpu_stat_map_, rewritten>>

\* Variant: io_wait counts as busy, which old_cpu_busy_time leaves out.
ReadBusy_counts_waiting ==
  /\ pc = "busy" /\ pc' = "key"
  /\ busy' = Float(page[i].user + page[i].idle)
  /\ UNCHANGED <<unread, i, key, old, total, copy, cpu_stat_map_, rewritten>>

\* ... and again for new_cpu_busy_time.
ReadBusy ==
  /\ pc = "busy" /\ pc' = "key"
  /\ busy' = page[i].user
  /\ UNCHANGED <<unread, i, key, old, total, copy, cpu_stat_map_, rewritten>>

\* The cpu_percent of the entry added: these two differences, divided.  The
\* entries do not depend on each other, and the model does not collect them.
BusyTime  == busy - old.user
TotalTime == total - Sum(old)

\* For the share of a single counter it is read a third time, at some point
\* after ReadBusy and before ReadKey: at any time while UpdateOnce is at "key".
TimeOf(f) == page[i][f] - old[f]

Reporting == pc = "key" /\ total # NotRead

(* cpu_stat_map_[stats[i].cpu_name] = stats[i]: the name is read again for
   the key, and the counters for the copy. *)

\* The previous sample and the busy time are locals of the `if` that ends here;
\* the total is kept, for IntervalsAdjoin.
ReadKey ==
  /\ pc = "key" /\ pc' = "copy_user"
  /\ key' = page[i].cpu_name
  /\ old' = Zero /\ busy' = 0
  /\ UNCHANGED <<unread, i, total, copy, cpu_stat_map_, rewritten>>

CopyUser ==
  /\ pc = "copy_user" /\ pc' = "copy_idle"
  /\ copy' = [copy EXCEPT !.user = page[i].user]
  /\ UNCHANGED <<unread, i, key, old, total, busy, cpu_stat_map_, rewritten>>

\* Variant: emplace, which keeps the first sample of a name.
Kept_first(sample) == [n \in DOMAIN cpu_stat_map_ \cup {key} |->
                         IF n \in DOMAIN cpu_stat_map_ THEN cpu_stat_map_[n] ELSE sample]

Kept(sample) == [n \in DOMAIN cpu_stat_map_ \cup {key} |->
                   IF n = key THEN sample ELSE cpu_stat_map_[n]]

CopyIdle ==
  /\ pc = "copy_idle" /\ pc' = "test"
  /\ cpu_stat_map_' = Kept([copy EXCEPT !.idle = page[i].idle])
  /\ i' = i + 1
  /\ key' = NoName /\ total' = NotRead /\ copy' = Zero
  /\ rewritten' = FALSE
  /\ stale' = stale \ {key}
  /\ UNCHANGED <<kernelVars, page, tick, old, busy>>

UpdateOnce ==
  \/ Open \/ Test \/ Find \/ ReadTotalUser \/ ReadTotalIdle \/ ReadBusy
  \/ ReadKey \/ CopyUser \/ CopyIdle

Next == UpdateOnce \/ Timer \/ Reload \/ \E c \in Cpus : Account(c) \/ Hotplug(c)

Spec == Init /\ [][Next]_vars

-----------------------------------------------------------------------------
TypeOK ==
  /\ kcpustat \in [Cpus -> Sample]
  /\ online \in (SUBSET Cpus) \ {{}}
  /\ page \in [Cpus -> [cpu_name : Cpus \cup {NoName}, user : Nat, idle : Nat]]
  /\ tick \in [cpu : Cpus, field : Fields \cup {"cpu_name"}]
  /\ pc \in {"closed", "test", "find", "total_user", "total_idle", "busy", "key", "copy_user", "copy_idle"}
  /\ i \in 0 .. NumCpu
  /\ pc \notin {"closed", "test"} => i \in Cpus
  /\ key \in Cpus \cup {NoName}
  /\ old \in Sample /\ total \in Nat \cup {NotRead} /\ busy \in Nat /\ copy \in Sample
  /\ DOMAIN cpu_stat_map_ \subseteq Cpus \cup {NoName}
  /\ \A n \in DOMAIN cpu_stat_map_ : cpu_stat_map_[n] \in Sample
  /\ rewritten \in BOOLEAN /\ stale \subseteq Cpus

\* Whatever the timer overwrites while UpdateOnce reads, and however the sums
\* are rounded, no time of a report runs backwards against the previous sample
\* of the same CPU: neither side of a percentage is negative, be it that of the
\* whole usage or that of one counter, but in the first sample of the CPU after
\* the module was inserted again.
TimesDoNotRunBackwards ==
  Reporting /\ key \notin stale \cup {NoName} =>
    /\ BusyTime >= 0 /\ TotalTime >= 0
    /\ \A f \in Fields : TimeOf(f) >= 0

\* How far the difference of two rounded sums, the later of which is that of x,
\* may fall short: half the distance between floats for each of the two.
Rounding(x) == IF x <= MaxExact THEN 0 ELSE ulp[x]

\* A sample read between two ticks of the timer gives a share of the time, up
\* to what the sums lose to rounding: the previous sample may have been torn by
\* the timer, and the CPU may have been offline in between.  The first sample
\* of a CPU after the module was inserted again is left out.
ShareUnlessRewritten ==
  Reporting /\ key \notin stale \cup {NoName} /\ ~rewritten =>
    LET most == TotalTime + Rounding(page[i].user + page[i].idle) IN
    /\ BusyTime <= most
    /\ \A f \in Fields : TimeOf(f) <= most

\* The interval of the next percentage starts where this one's ended, unless
\* the timer came in between: the stored sample is the one that was reported,
\* although it is read a second time.
IntervalsAdjoin ==
  [][pc = "copy_idle" /\ pc' = "test" /\ total # NotRead /\ ~rewritten
     => key \in DOMAIN cpu_stat_map_' /\ Sum(cpu_stat_map_'[key]) = total]_vars

\* A name other than the empty one is only ever that of its own record, so a
\* CPU that goes offline or comes back is never compared with another one: a
\* sample that was taken of the page there is now is not ahead of it.
SamplesOfTheirCpu ==
  \A n \in DOMAIN cpu_stat_map_ \ (stale \cup {NoName}) :
    /\ cpu_stat_map_[n].user <= page[n].user
    /\ cpu_stat_map_[n].idle <= page[n].idle

-----------------------------------------------------------------------------
\* "CPU使用率 = (当前忙碌时间 - 上次忙碌时间) / (当前总时间 - 上次总时间) × 100%"
\* (cpu_stat_monitor.hpp:47): the busy time of a CPU is part of its total time.
PercentIsShare == Reporting /\ key \notin stale \cup {NoName} => BusyTime <= TotalTime
=============================================================================
