# NodeMonitor in TLA+

Models of NodeMonitor (`src/`), TLC runs that check them on small instances, and
theorems about them that TLAPS checks for every value of the constants.

NodeMonitor has three programs. `node_client` runs on a monitored host, samples it
every 3 s and sends a `MonitorInfo` to the host's `node_mid`, which keeps the latest
one per user name. `node_server` polls a list of `node_mid`s every 10 s, scores each
answer and (one day: `WriteToMysql` is a `todo`) stores it.

## 1. Inventory

| Component | State | Operations | Interacts with | Hard behaviour | What makes it correct |
|---|---|---|---|---|---|
| `GrpcManagerImpl` (rpc/server) | `monitor_infos_map_`, `mtx_` | `SetMonitorInfo`, `GetMonitorInfo` | called by clients and poller on gRPC's thread pool | overlapping calls, half-inserted entries, `begin()` of an unordered map, leaving the lock on every path | an atomic table of whole reports |
| `AgentManager` loop (node_server) | `net_samples`, `last_perf_samples` (static), `agent_scores_` | poll, net rates, change rates, store, next agent | calls `GetMonitorInfo`; its thread is never joined | failed and empty polls, RPC without deadline, tables updated one after the other | tables agree; a rate compares successive samples of one server; nobody is starved |
| `CalcScore` | none | pure | used by the loop | clamps, defaults, NaN, units | monotone, bounded by the weights, 0..100 |
| node_server process | static objects, threads | `handle_signal` | kills the loop | `exit(1)` beside a running thread | the loop never touches destroyed objects |
| eBPF programs + `NetMonitor` | `net_stats_map`, `last_net_info_` | `count_ingress/egress`, load, `UpdateOnce` | kernel CPUs write, agent reads | lookup/update race, recycled elements, unsigned differences, interfaces that come and go | counters count everything and only grow |
| CPU usage module + `CpuStatMonitor` | shared page, `cpu_stat_map_` | timer, `UpdateOnce` | shared memory, no lock | torn and double reads, hotplug, float rounding, reload | differences not negative, a usage is a share but for rounding |
| life of the three kernel modules | page, timer, device, the agent's file | insmod, rmmod, tick, open, mmap, close | agent | init and exit against ticks and open files, a failing registration | the page outlives its users |
| load module + `CpuLoadMonitor` | shared page | timer, `UpdateOnce` | shared memory, memcpy | torn copies, an empty new page | loads are as recent as the last tick |
| soft interrupt module + `CpuSoftIrqMonitor` | shared page | timer, `UpdateOnce` | shared memory | double reads of the name, hotplug, reload | the report ends at the first gap only, counters grow |
| `DiskMonitor` | static `last_samples`, `last_time` | `UpdateOnce` | /proc/diskstats | disks that restart, a wall clock that steps, columns by position | rates count their interval |
| `MemMonitor` | uninitialised local struct | `UpdateOnce` | /proc/meminfo | missing lines, a shared vector of words | shown fields are reported |
| `node_client` loop, `RpcClient` | sequence of reports, calls in progress | sample, `SetMonitorInfo`, sleep | node_mid | broken calls the server still executes, clients that die | acknowledged reports stay, reports do not go back |
| `node_mid` process | the table, in memory | start, stop | clients, poller | restart loses the table | the table fills again |
| proto, SQL schema, CMake, scripts | – | – | – | – | no behaviour of their own |

The hazards, each at its line with the properties that would notice it, are in
`PROJECT.json`.

## 2. Modules

| Module | Models |
|---|---|
| `MonitorStore` | what the service promises: an atomic table with calls that take effect between start and return |
| `GrpcManager` | the two handlers statement by statement; `GrpcManager_proofs` |
| `CalcScore` | the scoring function, operators only |
| `ScoredAgent` | successive reports of an agent and their scores; `MCScoredAgent`, `ScoredAgent_proofs` |
| `PollTurns` | what the polling loop promises: the `node_mid`s take turns, a turn records one report under its name |
| `AgentManager` | the polling loop and the exit of its process; extends `CalcScore`; `MCAgentManager`, `AgentManager_proofs` |
| `NetMonitor` | eBPF programs on every CPU, and their reader; `MCNetMonitor`, `NetMonitor_proofs` |
| `CpuStat` | timer, page and reader of the CPU usage; `MCCpuStat`, `Monitors_proofs` |
| `KernelModule` | the life of a kernel module with a page, abstractly; `KernelModule_proofs` |
| `CpuLoadMonitor` | load module and its reader, an instance of `KernelModule`; `PageMonitors_proofs` |
| `SoftIrqMonitor` | soft interrupt module and its reader, likewise; `PageMonitors_proofs` |
| `DiskMonitor` | disks, clock and `UpdateOnce`; `Monitors_proofs` |
| `MemMonitor` | /proc/meminfo and `UpdateOnce`; `Monitors_proofs` |
| `MCMonitors` | the five monitors above side by side; `Monitors_proofs` |
| `ReportPath` | composition: clients, calls, node_mid with restarts, poller; `MCReportPath`, `ReportPath_proofs` |

How they fit: `GrpcManager` implements `MonitorStore` (refinement, section 4), so
`ReportPath` uses the table as atomic. `AgentManager` implements `PollTurns`: its five
statements per agent record one report, at one point, and a failed turn changes nothing
under a name, so `ReportPath` makes a turn one step. `KernelModule` is the specification that the load
and the soft interrupt monitor implement: their steps are its steps, with what is in the
page added, and the refinement is proved. The monitors produce the metrics; `CalcScore`
takes every value they can produce (negative, above 100%, NaN, wrapped).

Definitions whose comment begins with "Variant:" are plausible bugs next to the
definition they vary. No specification uses them; `PROJECT.json` says which property
each of them breaks.

### Correspondence

* **GrpcManager.** `pc[t]` names the statement thread `t` is about to execute.
  `SetInsert`/`SetAssign` are the two effects of `monitor_infos_map_[username] =
  *request`; `GetTest`/`GetCopy` are the `if` and `CopyFrom(begin()->second)`;
  `Lock`/`Unlock` are the `lock_guard`. `first` is the name `begin()` yields: it is
  arbitrary, and may change when a new name is inserted (a new node, a rehash). The
  map starts empty and is never erased from.
* **CalcScore.** A sub-score is in hundredths and a score in twentieths of a
  hundredth (`Full` = 2000 is 100 points), so the weights are integers. Division
  truncates; the code's does not, and the properties compare with `<=` only. NaN is a
  model value that arithmetic absorbs and comparisons reject.
* **AgentManager.** `Fetch`, `NetRates`, `ChangeRates`, `Store`, `NextAgent` are the
  parts of the loop body between which a signal can matter. `row` is the call of
  `WriteToMysql`. `host` in a report is not sent; it lets a property say where a
  sample came from. `UseDestroyed` ends the behaviour: after it the C++ has none.
  In `PollTurns`, `latest` is `agent_scores_` without the score, `Turn` is `Store`, and
  the turn passes on when the entry is recorded, before `++i`; all else is a stutter.
* **NetMonitor.** One step per access of the shared table. An `update` takes an
  unlinked element and leaves the old one, to which another CPU may still point.
  `bytes` and `packets` stand for the four counters of a direction; errors and
  drops are added the same way. `MaxPackets` bounds the traffic of a behaviour, nothing
  bounds the reads, `Wrap` is 2^64 and `MaxLen` is above every `skb->len`; that `MaxPackets` of them stay below `Wrap`
  is the assumption that no u64 counter overflows. `packets`, `seen`, `created` and
  `fresh` are history. `IfaceUp` and `IfaceDown` are the host's; `LoadEbpfProgram` is the `call_once`. The
  interfaces of the model are those whose names the load does not skip. `net_info` is the
  report under way, which `StartRead` begins anew.
* **CpuStat.** One step per read or write of a field in the page. `user` stands for
  the six counters of busy time, `idle` for the other two. `Float` rounds as
  the code's `float` does, to a format in which every count up to `MaxExact` (2^24) is a
  number, then every second one, and so on, ties to even. `cpu_percent` is the pair
  `BusyTime`, `TotalTime`. For the eight percentages of single counters (lines 51-77) each
  counter is read a third time, at some point while `pc` is "key": `TimeOf` is that
  difference, and what is said of it holds at every such point. `Booted` is what a CPU had
  accounted when the module was inserted. `Reload` takes rmmod and insmod as one step,
  which `KernelModule` allows while no file is open.
* **KernelModule.** `drv` is one record: the statement of insmod or rmmod that comes
  next, and which of page, timer, device and file are there. `Alloc`, `StartTimer`,
  `Register` are the init function, `Rmmod`, `CancelTimer`, `Deregister`, `Free` the exit
  function; `Rmmod` waits for the file because `fops.owner` counts references.
* **CpuLoadMonitor.** A load is the number of the kernel's computation it is from.
  `LoadWrite` is one of the three assignments of a tick, `LoadCopy` a part of the memcpy,
  in any order. `load_begun`, `load_known`, `load_due` are history.
* **SoftIrqMonitor.** `SoftIrqName` and `SoftIrqCounter` are the writes of a tick per CPU;
  `SoftIrqTest`, `SetCpu`, `SetIrqs` are the loop of `UpdateOnce`, which reads the name
  twice. One counter stands for ten. `steady`, `shown`, `unshown` are history.
* **DiskMonitor.** `Line` is what the kernel prints, all eleven columns; `DiskSample` the
  fields in the order the code reads them. `DiskLine` is one turn of the loop; a rate is
  kept as numerator (`rates`) and interval (`dt`). A line is read in one step: the kernel
  prints it from one snapshot. `DiskNow` is a sleep and the next call's `time(nullptr)`.
* **MemMonitor.** `MemOpen` takes the file's text at once, as the kernel produces it;
  `MemLine` is a turn of the loop with its vector of words. An uninitialised field is any
  member of `StackWords`.
* **ReportPath.** `call` holds what server threads are executing. `Break` is a call
  that ends for the client only; `Stop` ends it for both; `Die` is a client that never
  calls again. `Sample` saturates at `MaxSeq`, so later reports look alike.

## 3. Runs

The longest run takes about two minutes, most a few seconds. Deadlock is
checked except where a cfg says that the system stops (after `exit(1)`).

| Run | Instance | Shows |
|---|---|---|
| `GrpcManager_calls` | 3 threads, 2 names, 2 payloads | two writers and a reader overlap in every way; the service refines the atomic table, `lock_guard`s are released |
| `ScoredAgent_scores` | every metric at values around each clamp, up to 2 cores | monotonicity, weights, NaN, symmetry of directions |
| `AgentManager_loop` | 2 agents, 2 reports each, failures and empty answers, a signal anywhere | the loop refines the turns of `PollTurns`, tables agree, rates follow rows, failures are harmless, starvation only by a hung RPC |
| `NetMonitor_counts` | 2 CPUs, 2 interfaces that come and go, 3 elements, 3 packets, any number of reads | exact counts unless a creation was raced, counters grow, rates are increments |
| `Monitors_samples` | `CpuStat`: 2 CPUs, 2 units of time before the module is inserted and 2 after, floats that are exact up to 2, any hotplug, a reload at any time. Loads: 3 computations, any reload. Soft interrupts: 2 CPUs, 1 interrupt each, any hotplug and reload. Disks: one with 2 requests per life and one virtual, clock up to 4 and stepped. Memory: 3 layouts, stack words -1, 0, 3 | no negative time; unless a tick intervenes, shares up to the rounding of the sums, and adjoining intervals; fresh loads; the page outlives its users; reports end at gaps and counters grow; disk rates count their interval; shown memory fields are reported |
| `ReportPath_delivery` | 2 clients, 3 calls, 1 break each, 1 death, 1 restart | acknowledged reports are kept, scores do not go back, the table fills again, scores catch up unless the client died |

Why the bounds are enough: a race needs two parties, and a third thread, element or
call makes an outdated one available while both run (three threads, three elements,
three calls). Two names give `begin()` a choice. With `Wrap` = 16 a backward difference
of two reads is seen as a wrap. Four units of time, with floats exact up to 2 (they are 0,
1, 2, 4), include sums that are exact, a sum that is rounded up at a tie, and one that
then stays where it is while the busy time goes on (1 + 2 is 4, and so is 2 + 2): the
excess that `ShareUnlessRewritten` allows for happens. The counters of the second CPU stay
0 so that a sample of the first kept under its name is seen.

`Monitors_samples` checks five monitors in one run, each in behaviours of its own: the
main loop calls the `UpdateOnce` methods one after another in one thread and they share
no state, so a step of one never enables or disables a step of another. Three
computations of the load let one fall before, into and after a tick; two CPUs give a gap
with a CPU before or behind it; one interrupt makes a counter that is not 0, which is
all that "goes back" needs. A clock of four values allows two rounds, a step back and a
third round, and a disk can restart between any two. The three layouts are a kernel with
and one without `MemAvailable`, and one that shows it before the total. What the bounds
leave out, more CPUs, disks, ticks and requests, is what the proofs cover.

Runs that find a statement of the repository violated:

| Run | Statement | What happens |
|---|---|---|
| `AgentManager_shared_user` | agent_manager.cpp:45, key: server_name | the name is the client's user; rates compare two hosts |
| `AgentManager_exit` | main.cpp:30, Ctrl+C exits | static maps are destroyed under the loop |
| `NetMonitor_every_packet` | net_monitor_ebpf.cpp:19, counts packets | a raced `update` erases counts |
| `NetMonitor_late_interface` | net_monitor_ebpf.cpp:75 (mounts on all interfaces), :19, README.md:74 | an interface that comes after the one load, and stays, is never mounted, however often `UpdateOnce` runs |
| `CpuStat_share` | cpu_stat_monitor.hpp:47, share of total | busy time is read a tick later than the total: above 100% |
| `Disk_writes` | proto/disk_info.proto:7 and README.md:36, writes from /proc/diskstats | the column read is that of merged reads; every later field is another column too |

Four further consequences are visible in the models and have no run of their own.
The rate that `CalcScore` divides by 125000000, "1Gbps=125000000B/s" (agent_manager.cpp:252),
arrives in KB/s (net_monitor_ebpf.cpp:154): a full link, 122070 KB/s, which is among the
rates of `ScoredAgent_scores`, loses less than 0.01 of its 5 points.
`GetMonitorInfo` answers with one name only, so in `ReportPath` a second user's
reports need never reach node_server (`ScoresCatchUp` is about the name that is served).
An empty answer scores as a fully idle agent under the empty name. And `cpu_percent`
of the score, which agent_manager.cpp calls the overall usage, is entry 0: cpu0.

### Fairness

* `GrpcManager`: weak fairness of each thread's next statement (the scheduler). None
  of arriving calls, and none of which waiter gets the mutex. `GuardReleased` needs no
  more.
* `AgentManager`: weak fairness of the loop and of the exit sequence, none of `Fetch`,
  since `ClientContext` has no deadline. The liveness property says exactly that:
  an agent is polled again and again unless an RPC never returns or the process ends.
* `ReportPath`: weak fairness of client loops, server threads, the poller and the
  (external) restart of node_mid. Calls break finitely often; a network that breaks
  every call delivers nothing, whatever the code does.
* `NetMonitor_late_interface`: weak fairness of `UpdateOnce`, which `node_client`'s loop calls
  every 3 s for as long as it runs; none of the host's interfaces and packets. The
  counterexample ends in a state that the reads go on in without changing anything: they
  find no entry. No bound is involved: neither reads nor interface changes are bounded.
* The other monitor runs and `ScoredAgent`: safety only, no fairness. Nothing in a monitor
  waits for anything but its own next statement; what else must eventually happen is the
  matter of `ReportPath`.

## 4. Proofs

Every property that a passing run checks is a theorem too, for every value of the
constants, except the four liveness properties. Assumptions are those named in the
modules: model values are distinct, bounds are natural numbers, the reports of
`AgentManager` carry a real name and host, the CPUs of `NetMonitor` are finitely many,
and no u64 counter of `NetMonitor` or `DiskMonitor` overflows in a behaviour. `CpuStat`
assumes that `MaxExact` is even and positive, and nothing of what a CPU had accounted
before the module was inserted.

* **GrpcManager.** `IInv` strengthens mutual exclusion by the message each thread
  carries at each label, and by the fact that a name without a report is being
  assigned to by a thread inside the critical section. That is why `EntriesComplete`
  holds when the mutex is free, and why the refinement `ImplementsStore` goes through:
  `SetInsert` is a stutter (`StoreOf` hides the half-inserted entry), `SetAssign` is
  `ApplySet`, `GetCopy` (or `GetTest` on an empty map) is `ApplyGet`. Exclusion is
  needed in the last: the entry copied is complete because nobody else is inserting.
* **ScoredAgent.** Score bounds, NaN propagation, symmetry, monotonicity in use and in
  cores, and the weights as bounds of each group's effect, from lemmas on the five float
  operations, clamp by clamp: each sub-score is NaN or within 0 and 100, so a group
  that is left alone contributes nothing to a difference and any other its weight.
* **AgentManager.** `LoopInv` says that the tables differ at most in the entry being
  recorded, that the row in hand belongs to it, and that the report in hand is one of the
  agent's whose turn it is, or empty (`InfoIsOfAgent`). The table, failure and rate
  properties follow; the interference of the exit sequence is part of every step.
  `ImplementsPollTurns` is the refinement: only `Store` is a turn, the last part of
  `LoopInv` says that the report it records is one that the agent may hold, and a
  shutdown at any statement is a stutter.
* **NetMonitor.** `IInv` says what each CPU has in hand, and that interfaces do not
  share elements. From it: no CPU creates an entry twice, and counters grow between
  reads (a pointer to a recycled element can only add). For the exact counts it has two
  more parts, which hold while no entry was created by two CPUs: a CPU that is about to add
  points at the element that is linked (`AddsToItsEntry`), and what passed the hooks is what
  is counted plus what the CPUs have still to add (`NothingLost`, a cardinality, since
  several CPUs can be between the lookup and the addition). `CountersBehindTraffic` bounds
  every element, the recycled ones too, by the traffic of the behaviour: no counter
  reaches `Wrap`, so a difference that is not negative is the increment itself.
* **KernelModule.** `IInv` says at which statements of insmod and rmmod the page, the
  timer, the device and the file can be there; the page then outlives its users. The
  file is the delicate part: `Rmmod` needs it closed, and `Open` refuses once it began.
* **Load and soft interrupts** (`PageMonitors_proofs`). Both monitors implement
  `KernelModule` (the refinement maps `drv` to their module record), so the page theorem
  is theirs. `LoadInv` bounds every number of the page by what the last finished tick and
  the assignments of the running one guarantee; `LoadsAreFresh` follows for any order
  of the copy. `SoftIrqInv` has three parts: types; what the page shows of a CPU that has
  been online throughout (`PageInv`), for each statement of a tick; and what the report
  has of the CPUs before the one being read (`ReportInv`). The hotplug step only shrinks
  what is promised, which is why the two unsynchronised reads of a name are harmless.
* **CpuStat** (`Monitors_proofs`). `CpuInv` follows one CPU through three places: the page
  is behind the kernel's counters, and what `UpdateOnce` holds, in `total`, `busy`, `copy`
  and the kept sample, is behind the page, unless that sample is from before a reload. The
  reader's sums are floats, so the order survives them only because `Float` is monotone
  (`FloatMonotone`). `ShareOfTheTime` is for counts of any size: a sum is off by half the
  distance between floats at most (`RoundingError`), and the distance only grows with the
  sum (`RoundingMonotone`), so two sums lose at most one distance, the one at the later,
  and nothing while they are exact. `ShareOfAllCounters` says the same of the sums that the code has, over
  eight and six counters with every addition rounded: seven distances at the total and
  five at the busy time, since no partial sum is rounded more coarsely than the last
  (`UlpOfFloat`). What that is worth in the code: the counters are nanoseconds since boot,
  and floats of that size are 2^26 ns (67 ms) apart after ten days and 2^31 ns (2.1 s)
  after a year, against samples that are 3 s apart. The usage is a share up to one such
  distance per addition, and after a year that allows almost any value. `SamplesOfTheirCpu` needs that a record's name, once written,
  is its own, in any interleaving of ticks with the reader's three reads of it.
* **The arithmetic of floats.** `ulp` is a recursive function. The library's induction
  theorems take an operator, which the provers cannot instantiate, but a set of natural
  numbers that is not empty has a least element (`LeastNat`), which makes induction over
  membership in a set available (`NatSetInduction`). With it `ulp` is shown to
  satisfy its equation, to be at least 1 and monotone, and to bound its argument
  (`UlpRecursion`, `UlpMonotone`, `UlpBounds`), and `Float` to be monotone, across the
  points where the distance of neighbours doubles too.
* **MemMonitor** (`Monitors_proofs`). `MemInv` splits the fields at every turn of the loop:
  what the lines still to come show, and what the struct has already; the vector of words
  that lines share never reaches a field of another line.
* **DiskMonitor** (`Monitors_proofs`). `DiskInv` places the kept time of each disk against
  the clock (behind it unless the clock was set back since, and exactly the time slept
  behind it unless the clock was set at all) and the kept reads against the disk's (`since`
  apart unless the disk restarted). The modulo then does nothing, since a counter is
  below 2^64.
* **The monitors together.** A step of the composition is a step of one monitor and
  leaves the variables of the others (`MonitorsRunEach`), so what is proved of one alone
  holds in the composition that `Monitors_samples` checks (`MonitorsTypesHold`,
  `MonitorsAreSafe`).
* **ReportPath.** `IInv` orders the numbers of a client's reports along the path: a call
  carries at most its client's latest; exactly that, and as the client's only call, while
  it is awaited or if none of its calls ever broke; the table, and node_server behind it,
  follow. All theorems are for any assignment of users to clients, shared ones included.

Only model-checked, because liveness under fairness is out of the proof system's reach:
`GuardReleased`, `StarvedOnlyByHungRpc`, `FillsAgain` and `ScoresCatchUp`. The runs that
find a statement violated show a behaviour of a small instance and need no proof.

## 5. Not modelled, and why

* Whether the code builds and loads. `node_mid` names `node::GrpcManagerImpl`, which
  does not exist; the client's CMake glob misspells `src/moniotr`; the eBPF text uses
  fields and a helper the kernel does not have; the kernel modules use floats and hand
  `virt_to_phys` a `vmalloc` address. `load_modules.sh` inserts modules that do not exist
  and leaves the soft interrupt module out. The models take the evident intent: the class in
  namespace `monitor`, programs that load, a page that is the module's memory.
* Reordering of memory accesses in the pages: both sides run in source order, but for
  the memcpy of the loads. Reads that the compiler merges are behaviours in which no tick
  comes between.
* Time. Intervals are one round except in `DiskMonitor`, where `time(nullptr)` counts
  rounds; that it truncates to seconds, so that a rate over a round of 3.9 s is taken over
  3 or 4, is below the model's unit. The network rates of `AgentManager` are 0 - 0 in the
  code whatever the interval.
* The layout of `std::tuple` against the C struct in which the eBPF table is read, an
  eBPF table that is full, and the meaning of the kernel's numbers (`load_avg_3` is the
  five-minute average).
* Latencies and `util_percent` of a disk: quotients of the same differences. Through the
  shifted columns `util_percent` is computed from the time spent writing. The division of memory
  sizes by `KBToGB`.
* The quotients of `CpuStatMonitor`, 0/0 among them: the model has what is divided. The
  name that goes into the message (line 79) is read once more, for nothing but the
  message; a CPU that goes offline just then is reported under an empty name.
* The bytes of a CPU name. `snprintf` writes "cpu12" byte by byte into the shared page, and
  a reader can see "cpu1" in the tick that gives the record its first name, the first
  after insmod or after the CPU first comes up; from then on the same bytes are
  overwritten by themselves. `CpuStat` and `SoftIrqMonitor` write and read names whole, and
  their properties are about such names.
* The width of the kernel's soft interrupt counters: they are `unsigned int`, and wrap
  after 2^32 interrupts of one kind on one CPU. `SoftIrqMonitor` assumes that they do not.
* `MonitorBase` and the `Stop` methods, which are empty.
* Formatting, logging, `WriteToMysql` (empty), the SQL schema (unused).

## 6. Plan

Done: service and its abstract table; scoring; polling loop; network counters with
interfaces that come and go; all five other monitors and the life of their modules;
composition with deaths and restarts; the polling loop as an implementation of its
turns; proofs of every safety and action property that a run checks.

Next, in this order:

1. The steps of `ReportPath` that touch the table as steps of a `MonitorStore` that a
   restart empties, so that the two levels are joined by a refinement and not by the
   argument of section 2.
2. Its `Poll` as a turn of `PollTurns`, with the clients' reports as `Reports`.
3. Without a race, and for reports sent under different names, that the table is the
   latest report of every client whose loop is asleep.
