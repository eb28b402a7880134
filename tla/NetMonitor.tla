----------------------------- MODULE NetMonitor ------------------------------
(***************************************************************************)
(* The network monitor of node_client: the two eBPF programs that count    *)
(* the packets of every interface in net_stats_map, on the CPU the packet  *)
(* is handled on, and NetMonitor::UpdateOnce, which turns the counters     *)
(* into rates every three seconds.                                         *)
(*                                                                         *)
(* net_stats_map is a kernel hash table whose values live in preallocated  *)
(* elements.  lookup returns a pointer to an element; update links a fresh *)
(* element in the place of the key's old one and recycles that, although a *)
(* program on another CPU may still hold a pointer to it.                  *)
(*                                                                         *)
(* The four counters of a direction are added to one after the other; two  *)
(* of them, bytes and packets, stand for the four.  A u64 counter does not *)
(* overflow in a machine's lifetime; the difference of two of them does,   *)
(* and is taken modulo Wrap.  The programs are taken as loaded.            *)
(* Interfaces come and go, and take their hooks with them.                 *)
(***************************************************************************)
EXTENDS Integers, FiniteSets

CONSTANTS
  Cpus,        \* CPUs that handle packets
  Ifaces,      \* network interfaces that are not skipped by name
  Elems,       \* preallocated elements of net_stats_map
  NoElem,      \* a null pointer
  Wrap,        \* 2^64
  Lens,        \* values of skb->len
  MaxLen,      \* none is above
  MaxPackets   \* bound on the packets of a behaviour

ASSUME NoElemAssumption == NoElem \notin Elems
ASSUME BoundsAssumption ==
  /\ Wrap \in Nat \ {0} /\ MaxPackets \in Nat
  /\ MaxLen \in Nat \ {0} /\ Lens \subseteq 1 .. MaxLen
\* A machine does not live to see a u64 counter overflow.
ASSUME NoOverflowAssumption == MaxPackets * MaxLen < Wrap
ASSUME CpusAssumption == IsFiniteSet(Cpus)

Dirs   == {"ingress", "egress"}
Fields == {"bytes", "packets"}
Hooks  == Ifaces \X Dirs

VARIABLES
  present,         \* the interfaces in /sys/class/net
  attached,        \* the hooks that attach_tc installed
  loaded,          \* g_bpf_init_flag
  elem,            \* the value of each element: its counters by direction
  table,           \* the element of each interface, NoElem before the first packet
  pc,              \* where each CPU is in its program
  pkt,             \* the packet each CPU is counting
  stats,           \* the local pointer `stats` of each CPU
  reading,         \* the interfaces that this UpdateOnce has still to come to
  last_net_info_,  \* the counters of each interface at the previous read
  net_info,        \* the rates in the report of this read, zero for those not in it
  packets,         \* history: packets that passed a hook
  seen,            \* history: what passed the hooks of each interface
  created,         \* history: the CPUs that created the entry of each interface
  fresh            \* history: interfaces whose entry was created since last_net_info_

kernelVars == <<present, attached, elem, table, pc, pkt, stats, packets, seen, created>>
readerVars == <<loaded, reading, last_net_info_, net_info>>
vars == <<kernelVars, readerVars, fresh>>

Zero    == [d \in Dirs |-> [f \in Fields |-> 0]]
NoStats == [d \in Dirs |-> [f \in Fields |-> -1]]
NoPkt   == <<>>

Linked == {table[i] : i \in Ifaces} \ {NoElem}

Goto(c, label) == pc' = [pc EXCEPT ![c] = label]

Init ==
  /\ present \in SUBSET Ifaces
  /\ attached = {} /\ loaded = FALSE
  /\ elem = [e \in Elems |-> Zero]
  /\ table = [i \in Ifaces |-> NoElem]
  /\ pc = [c \in Cpus |-> "idle"]
  /\ pkt = [c \in Cpus |-> NoPkt]
  /\ stats = [c \in Cpus |-> NoElem]
  /\ reading = {}
  /\ last_net_info_ = [i \in Ifaces |-> NoStats]
  /\ net_info = [i \in Ifaces |-> Zero]
  /\ packets = 0 /\ seen = [i \in Ifaces |-> Zero]
  /\ created = [i \in Ifaces |-> {}]
  /\ fresh = {}

-----------------------------------------------------------------------------
(* The host's interfaces. *)

IfaceUp(i) ==
  /\ i \notin present
  /\ present' = present \cup {i}
  /\ UNCHANGED <<attached, elem, table, pc, pkt, stats, packets, seen, created, readerVars, fresh>>

\* An interface goes, and its hooks with it; the map keeps its entry.
IfaceDown(i) ==
  /\ i \in present
  /\ present' = present \ {i}
  /\ attached' = {h \in attached : h[1] # i}
  /\ UNCHANGED <<elem, table, pc, pkt, stats, packets, seen, created, readerVars, fresh>>

-----------------------------------------------------------------------------
(* count_ingress and count_egress, which differ in the fields they add to. *)

\* A packet reaches a hook on an idle CPU; a CPU runs one program at a time.
Hook(c) ==
  /\ pc[c] = "idle"
  /\ packets < MaxPackets
  /\ packets' = packets + 1
  /\ \E h \in attached, len \in Lens :
       /\ pkt' = [pkt EXCEPT ![c] = [iface |-> h[1], dir |-> h[2], len |-> len]]
       /\ seen' = [seen EXCEPT ![h[1]][h[2]].bytes = @ + len, ![h[1]][h[2]].packets = @ + 1]
  /\ Goto(c, "lookup")
  /\ UNCHANGED <<present, attached, elem, table, stats, created, readerVars, fresh>>

\* Variant: every packet sets the entry to zero before it is counted.
Lookup_always_creates(c) ==
  /\ pc[c] = "lookup"
  /\ stats' = [stats EXCEPT ![c] = table[pkt[c].iface]]
  /\ Goto(c, "update")
  /\ UNCHANGED <<present, attached, elem, table, pkt, packets, seen, created, readerVars, fresh>>

\* stats = net_stats_map.lookup(&ifname)
Lookup(c) ==
  LET found == table[pkt[c].iface] IN
  /\ pc[c] = "lookup"
  /\ stats' = [stats EXCEPT ![c] = found]
  /\ Goto(c, IF found = NoElem THEN "update" ELSE "add_bytes")
  /\ UNCHANGED <<present, attached, elem, table, pkt, packets, seen, created, readerVars, fresh>>

\* net_stats_map.update(&ifname, &zero): the element that was linked, if any,
\* can be taken by the next update.
Update(c) ==
  /\ pc[c] = "update"
  /\ \E e \in Elems \ Linked :
       /\ elem' = [elem EXCEPT ![e] = Zero]
       /\ table' = [table EXCEPT ![pkt[c].iface] = e]
  /\ created' = [created EXCEPT ![pkt[c].iface] = @ \cup {c}]
  /\ fresh' = fresh \cup {pkt[c].iface}
  /\ Goto(c, "relookup")
  /\ UNCHANGED <<present, attached, pkt, stats, packets, seen, readerVars>>

\* Variant: the packet that created the entry is left out.
Relookup_counts_from_next(c) ==
  /\ pc[c] = "relookup"
  /\ Goto(c, "idle")
  /\ pkt' = [pkt EXCEPT ![c] = NoPkt]
  /\ UNCHANGED <<present, attached, elem, table, stats, packets, seen, created, readerVars, fresh>>

\* stats = net_stats_map.lookup(&ifname), after the update
Relookup(c) ==
  /\ pc[c] = "relookup"
  /\ stats' = [stats EXCEPT ![c] = table[pkt[c].iface]]
  /\ Goto(c, "add_bytes")
  /\ UNCHANGED <<present, attached, elem, table, pkt, packets, seen, created, readerVars, fresh>>

\* Variant: the counters are narrower than u64.
FetchAndAdd_narrow(c, field, amount) ==
  elem' = [elem EXCEPT ![stats[c]][pkt[c].dir][field] = (@ + amount) % (Wrap \div 4)]

\* Variant: both fields of a hook are added to the ingress counters.
FetchAndAdd_one_direction(c, field, amount) ==
  elem' = [elem EXCEPT ![stats[c]]["ingress"][field] = @ + amount]

\* __sync_fetch_and_add on a field of *stats, linked or not.
FetchAndAdd(c, field, amount) ==
  elem' = [elem EXCEPT ![stats[c]][pkt[c].dir][field] = @ + amount]

AddBytes(c) ==
  /\ pc[c] = "add_bytes"
  /\ FetchAndAdd(c, "bytes", pkt[c].len)
  /\ Goto(c, "add_packets")
  /\ UNCHANGED <<present, attached, table, pkt, stats, packets, seen, created, readerVars, fresh>>

AddPackets(c) ==
  /\ pc[c] = "add_packets"
  /\ FetchAndAdd(c, "packets", 1)
  /\ Goto(c, "idle")
  /\ pkt' = [pkt EXCEPT ![c] = NoPkt]
  /\ stats' = [stats EXCEPT ![c] = NoElem]
  /\ UNCHANGED <<present, attached, table, packets, seen, created, readerVars, fresh>>

Program(c) ==
  Lookup(c) \/ Update(c) \/ Relookup(c) \/ AddBytes(c) \/ AddPackets(c)

-----------------------------------------------------------------------------
(* NetMonitor::UpdateOnce. *)

\* call_once: the first call attaches the programs.  An attach_tc that fails is
\* ignored, and never tried again.
LoadEbpfProgram ==
  /\ ~loaded
  /\ loaded' = TRUE
  /\ attached' \in SUBSET (present \X Dirs)
  /\ UNCHANGED <<present, elem, table, pc, pkt, stats, packets, seen, created, reading,
                 last_net_info_, net_info, fresh>>

\* get_table_offline; the report is a new one.
StartRead ==
  /\ loaded /\ reading = {}
  /\ reading' = {i \in Ifaces : table[i] # NoElem}
  /\ net_info' = [i \in Ifaces |-> Zero]
  /\ UNCHANGED <<kernelVars, loaded, last_net_info_, fresh>>

\* Variant: last - now.
Minus_reversed(x, y) == (y - x) % Wrap

\* The subtraction of two u64 values.
Minus(x, y) == (x - y) % Wrap

Rates(now, last) ==
  [d \in Dirs |-> [f \in Fields |->
     IF last = NoStats THEN 0 ELSE Minus(now[d][f], last[d][f])]]

\* One entry of get_table_offline, copied out and turned into rates.  The
\* interval is that of one round.
ReadEntry(i) ==
  LET now == elem[table[i]] IN
  /\ i \in reading
  /\ reading' = reading \ {i}
  /\ net_info' = [net_info EXCEPT ![i] = Rates(now, last_net_info_[i])]
  /\ last_net_info_' = [last_net_info_ EXCEPT ![i] = now]
  /\ fresh' = fresh \ {i}
  /\ UNCHANGED <<kernelVars, loaded>>

UpdateOnce == LoadEbpfProgram \/ StartRead \/ \E i \in Ifaces : ReadEntry(i)

Next ==
  \/ UpdateOnce
  \/ \E c \in Cpus : Hook(c) \/ Program(c)
  \/ \E i \in Ifaces : IfaceUp(i) \/ IfaceDown(i)

Spec == Init /\ [][Next]_vars

\* main calls UpdateOnce every three seconds.
FairSpec == Spec /\ WF_vars(UpdateOnce)

-----------------------------------------------------------------------------
Counters(S) == [Dirs -> [Fields -> S]]

TypeOK ==
  /\ present \subseteq Ifaces
  /\ attached \subseteq Hooks
  /\ loaded \in BOOLEAN
  /\ elem \in [Elems -> Counters(Nat)]
  /\ table \in [Ifaces -> Elems \cup {NoElem}]
  /\ pc \in [Cpus -> {"idle", "lookup", "update", "relookup", "add_bytes", "add_packets"}]
  /\ pkt \in [Cpus -> [iface : Ifaces, dir : Dirs, len : Lens] \cup {NoPkt}]
  /\ stats \in [Cpus -> Elems \cup {NoElem}]
  /\ reading \subseteq Ifaces
  /\ last_net_info_ \in [Ifaces -> Counters(Nat) \cup {NoStats}]
  /\ net_info \in [Ifaces -> Counters(0 .. Wrap - 1)]
  /\ packets \in 0 .. MaxPackets
  /\ seen \in [Ifaces -> Counters(Nat)]
  /\ created \in [Ifaces -> SUBSET Cpus]
  /\ fresh \subseteq Ifaces

Quiet == \A c \in Cpus : pc[c] = "idle"

\* Every entry was created by one CPU only.
Unraced == \A i \in Ifaces : Cardinality(created[i]) <= 1

\* As long as every entry was created by one CPU only, the table has lost
\* nothing and mixed up nothing: the only source of error in the counts is a
\* creation that two CPUs race for.
ExactUnlessCreationRaced ==
  Quiet /\ Unraced
    => \A i \in Ifaces : table[i] # NoElem => elem[table[i]] = seen[i]

\* No CPU resets an entry twice: whoever created it finds it from then on, so
\* the counts of an interface are lost at most once per CPU and then never.
NoCpuCreatesTwice ==
  \A c \in Cpus : pc[c] = "update" => c \notin created[pkt[c].iface]

\* Between two reads of an interface its counters only grow, unless its entry
\* was created again in between.
CountersGrowBetweenReads ==
  \A i \in Ifaces \ fresh : last_net_info_[i] # NoStats =>
    \A d \in Dirs, f \in Fields : elem[table[i]][d][f] >= last_net_info_[i][d][f]

\* The unsigned subtraction reports what was counted since the previous read,
\* and not a difference wrapped around 2^64, unless the entry was created again.
RatesAreIncrements ==
  [][\A i \in reading \ reading' :
       i \notin fresh /\ last_net_info_[i] # NoStats =>
         \A d \in Dirs, f \in Fields :
           net_info'[i][d][f] = elem[table[i]][d][f] - last_net_info_[i][d][f]]_vars

(***************************************************************************)
(* The inductive invariant: what a CPU has in hand at each statement, that *)
(* an interface has an entry once one was created, and an element of its   *)
(* own; that no counter is ahead of the packets that passed a hook; and,   *)
(* while no creation was raced, that a CPU adds to the element its         *)
(* interface has in the table, and that what passed the hooks of an        *)
(* interface is what is counted in its entry or still to be added.         *)
(***************************************************************************)
Adding    == {"add_bytes", "add_packets"}
Busy      == {c \in Cpus : pc[c] # "idle"}
BusyBytes == {c \in Busy : pc[c] # "add_packets"}

InHand == \A c \in Cpus :
  /\ pc[c] # "idle" => pkt[c] # NoPkt
  /\ pc[c] \in Adding => stats[c] # NoElem
  /\ pc[c] = "relookup" => table[pkt[c].iface] # NoElem

EntryIfCreated == \A i \in Ifaces :
  /\ table[i] = NoElem <=> created[i] = {}
  /\ i \in reading \/ last_net_info_[i] # NoStats => table[i] # NoElem

ElementsNotShared == \A i, j \in Ifaces :
  table[i] = table[j] /\ table[i] # NoElem => i = j

CountersBehindTraffic == \A e \in Elems, d \in Dirs :
  /\ elem[e][d].packets + Cardinality(Busy) <= packets
  /\ elem[e][d].bytes + MaxLen * Cardinality(BusyBytes) <= MaxLen * packets

AddsToItsEntry == Unraced =>
  \A c \in Cpus : pc[c] \in Adding => stats[c] = table[pkt[c].iface]

Counted(i) == IF table[i] = NoElem THEN Zero ELSE elem[table[i]]

\* The CPUs that have still to add to a field, and the bytes they have to add.
Pending(i, d, S)   == {c \in S : pkt[c].iface = i /\ pkt[c].dir = d}
PendingBytes(i, d) == UNION {{c} \X (1 .. pkt[c].len) : c \in Pending(i, d, BusyBytes)}

NothingLost == Unraced => \A i \in Ifaces, d \in Dirs :
  /\ seen[i][d].packets = Counted(i)[d].packets + Cardinality(Pending(i, d, Busy))
  /\ seen[i][d].bytes = Counted(i)[d].bytes + Cardinality(PendingBytes(i, d))

EntriesInv ==
  /\ TypeOK
  /\ InHand
  /\ EntryIfCreated
  /\ ElementsNotShared
  /\ NoCpuCreatesTwice
  /\ CountersGrowBetweenReads

IInv ==
  /\ EntriesInv
  /\ CountersBehindTraffic
  /\ AddsToItsEntry
  /\ NothingLost

-----------------------------------------------------------------------------
\* "统计每个网卡的收发包/字节数" (net_monitor_ebpf.cpp:19): the counters of an
\* interface are the packets and bytes that passed its hooks.
EveryPacketCounted ==
  Quiet => \A i \in Ifaces : table[i] # NoElem => elem[table[i]] = seen[i]

\* "加载eBPF程序并挂载到所有网卡" (net_monitor_ebpf.cpp:75): an interface that
\* comes only after the programs were loaded, and stays, is mounted sooner or
\* later like those that were there before.
LateInterfacesAreMounted == \A i \in Ifaces :
  [](loaded \/ i \notin present) /\ <>[](i \in present)
    => <>[]({i} \X Dirs \subseteq attached)
=============================================================================
