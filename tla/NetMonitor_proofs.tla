-------------------------- MODULE NetMonitor_proofs -------------------------
(***************************************************************************)
(* The packet counters for any number of CPUs, interfaces and packets:     *)
(* types, that a CPU creates an entry at most once, that counters only     *)
(* grow between two reads unless their entry was created again, that the   *)
(* rates are then the increments, and, as long as no creation was raced,   *)
(* that the table holds exactly the traffic.                               *)
(***************************************************************************)
EXTENDS NetMonitor, FiniteSetTheorems, TLAPS

USE NoElemAssumption, BoundsAssumption

-----------------------------------------------------------------------------
(* Types, and the entries of the table. *)

LEMMA InitEntries == Init => EntriesInv
  <1> SUFFICES ASSUME Init PROVE EntriesInv
    OBVIOUS
  <1> USE DEF Init
  <1>1. Zero \in Counters(Nat) /\ Zero \in Counters(0 .. Wrap - 1)
    BY DEF Zero, Counters
  <1>2. seen \in [Ifaces -> Counters(Nat)] /\ packets \in 0 .. MaxPackets
    BY <1>1
  <1>3. TypeOK
    BY <1>1, <1>2 DEF TypeOK, Hooks
  <1>. QED
    BY <1>3 DEF EntriesInv, InHand, Adding, EntryIfCreated, ElementsNotShared,
               NoCpuCreatesTwice, CountersGrowBetweenReads

LEMMA PacketInHand ==
  ASSUME TypeOK, NEW c \in Cpus, pkt[c] # NoPkt
  PROVE  pkt[c].iface \in Ifaces /\ pkt[c].dir \in Dirs /\ pkt[c].len \in Nat
  <1>1. pkt[c] \in [iface : Ifaces, dir : Dirs, len : Lens]
    BY DEF TypeOK
  <1>2. pkt[c].iface \in Ifaces /\ pkt[c].dir \in Dirs /\ pkt[c].len \in Lens
    BY <1>1
  <1>3. Lens \subseteq Nat
    OBVIOUS
  <1>. QED BY <1>2, <1>3

\* Adding to a counter of an element keeps the types and lowers no counter.
LEMMA FetchAndAddGrows ==
  ASSUME TypeOK, NEW c \in Cpus, pkt[c] # NoPkt, stats[c] # NoElem,
         NEW field \in Fields, NEW amount \in Nat, FetchAndAdd(c, field, amount)
  PROVE  /\ elem' \in [Elems -> Counters(Nat)]
         /\ \A e \in Elems, d \in Dirs, f \in Fields : elem'[e][d][f] >= elem[e][d][f]
  <1> USE DEF TypeOK, Counters
  <1>1. pkt[c].dir \in Dirs /\ stats[c] \in Elems
    BY DEF NoPkt
  <1>. QED BY <1>1 DEF FetchAndAdd

Passed(i, d, len) ==
  seen' = [seen EXCEPT ![i][d].bytes = @ + len, ![i][d].packets = @ + 1]

\* A packet raises the two counters of its hook, and no other.
LEMMA HookIsSeen ==
  ASSUME seen \in [Ifaces -> Counters(Nat)], NEW i \in Ifaces, NEW d \in Dirs, NEW len \in Nat,
         Passed(i, d, len)
  PROVE  /\ seen' \in [Ifaces -> Counters(Nat)]
         /\ seen'[i][d].packets = seen[i][d].packets + 1
         /\ seen'[i][d].bytes = seen[i][d].bytes + len
         /\ \A j \in Ifaces, e \in Dirs : j # i \/ e # d => seen'[j][e] = seen[j][e]
  <1> DEFINE new == [seen[i][d] EXCEPT !.bytes = @ + len, !.packets = @ + 1]
  <1>1. seen[i] \in Counters(Nat) /\ seen[i][d] \in [Fields -> Nat]
    BY DEF Counters
  <1>2. /\ new \in [Fields -> Nat]
        /\ new.packets = seen[i][d].packets + 1 /\ new.bytes = seen[i][d].bytes + len
    <2>1. /\ "bytes" \in Fields /\ "packets" \in Fields
          /\ seen[i][d].bytes \in Nat /\ seen[i][d].packets \in Nat
      BY <1>1 DEF Fields
    <2>2. seen[i][d].bytes + len \in Nat /\ seen[i][d].packets + 1 \in Nat
      BY <2>1
    <2>. QED BY <1>1, <2>1, <2>2
  <1>3. seen' = [seen EXCEPT ![i] = [seen[i] EXCEPT ![d] = new]]
    BY <1>1 DEF Passed
  <1> HIDE DEF new
  <1>4. [seen[i] EXCEPT ![d] = new] \in Counters(Nat)
    BY <1>1, <1>2 DEF Counters
  <1>5. seen'[i] = [seen[i] EXCEPT ![d] = new] /\ \A j \in Ifaces : j # i => seen'[j] = seen[j]
    BY <1>3
  <1>6. seen'[i][d] = new /\ \A e \in Dirs : e # d => seen'[i][e] = seen[i][e]
    BY <1>1, <1>5 DEF Counters
  <1>7. seen' \in [Ifaces -> Counters(Nat)]
    BY <1>3, <1>4
  <1>8. ASSUME NEW j \in Ifaces, NEW e \in Dirs, j # i \/ e # d
        PROVE  seen'[j][e] = seen[j][e]
    BY <1>5, <1>6, <1>8
  <1>. QED BY <1>2, <1>6, <1>7, <1>8

\* Adding to a counter of an element touches no other counter.
LEMMA FetchAndAddEffect ==
  ASSUME TypeOK, NEW c \in Cpus, pkt[c] # NoPkt, stats[c] # NoElem,
         NEW field \in Fields, NEW amount \in Nat, FetchAndAdd(c, field, amount)
  PROVE  /\ elem'[stats[c]][pkt[c].dir][field] = elem[stats[c]][pkt[c].dir][field] + amount
         /\ \A e \in Elems, d \in Dirs, f \in Fields :
              e # stats[c] \/ d # pkt[c].dir \/ f # field => elem'[e][d][f] = elem[e][d][f]
  <1> USE DEF TypeOK, Counters
  <1>1. pkt[c].dir \in Dirs /\ stats[c] \in Elems
    BY DEF NoPkt
  <1>. QED BY <1>1 DEF FetchAndAdd

LEMMA EntriesPreserved == EntriesInv /\ [Next]_vars => EntriesInv'
  <1> SUFFICES ASSUME EntriesInv, [Next]_vars PROVE EntriesInv'
    OBVIOUS
  <1> USE DEF EntriesInv
  <1> USE DEF InHand, Adding, EntryIfCreated, ElementsNotShared, NoCpuCreatesTwice,
              CountersGrowBetweenReads, TypeOK, Goto
  <1>1. CASE UNCHANGED vars
    BY <1>1 DEF vars, kernelVars, readerVars
  <1>2. ASSUME NEW c \in Cpus, Hook(c) PROVE EntriesInv'
    <2>1. PICK h \in attached, len \in Lens :
            /\ pkt' = [pkt EXCEPT ![c] = [iface |-> h[1], dir |-> h[2], len |-> len]]
            /\ seen' = [seen EXCEPT ![h[1]][h[2]].bytes = @ + len, ![h[1]][h[2]].packets = @ + 1]
      BY <1>2 DEF Hook
    <2>2. h[1] \in Ifaces /\ h[2] \in Dirs
      BY <2>1 DEF Hooks
    <2>3. [iface |-> h[1], dir |-> h[2], len |-> len] \in [iface : Ifaces, dir : Dirs, len : Lens]
      BY <2>2
    <2>4. [iface |-> h[1], dir |-> h[2], len |-> len] # NoPkt
      BY DEF NoPkt
    <2>5. packets' \in 0 .. MaxPackets
      BY <1>2 DEF Hook
    <2>6. seen' \in [Ifaces -> Counters(Nat)]
      <3>1. seen \in [Ifaces -> Counters(Nat)]
        OBVIOUS
      <3>2. len \in 1 .. MaxLen
        BY <2>1
      <3>3. len \in Nat
        BY <3>2
      <3>. QED BY <2>1, <2>2, <3>1, <3>3, HookIsSeen DEF Passed
    <2>7. UNCHANGED <<present, attached, elem, table, stats, created, readerVars, fresh>>
      BY <1>2 DEF Hook
    <2>8. pc' = [pc EXCEPT ![c] = "lookup"]
      BY <1>2 DEF Hook
    <2>9. TypeOK'
      BY <2>1, <2>3, <2>5, <2>6, <2>7, <2>8 DEF readerVars
    <2>. QED BY <2>1, <2>4, <2>7, <2>8, <2>9 DEF readerVars
  <1>3. ASSUME NEW c \in Cpus, Lookup(c) PROVE EntriesInv'
    <2>1. pkt[c] \in [iface : Ifaces, dir : Dirs, len : Lens]
      BY <1>3 DEF Lookup
    <2>. QED BY <1>3, <2>1 DEF Lookup, readerVars
  <1>4. ASSUME NEW c \in Cpus, Update(c) PROVE EntriesInv'
    <2> DEFINE iface == pkt[c].iface
    <2>1. pkt[c] \in [iface : Ifaces, dir : Dirs, len : Lens] /\ iface \in Ifaces
      BY <1>4 DEF Update
    <2>2. PICK e \in Elems \ Linked : /\ elem' = [elem EXCEPT ![e] = Zero]
                                      /\ table' = [table EXCEPT ![iface] = e]
      BY <1>4 DEF Update
    <2>3. Zero \in Counters(Nat)
      BY DEF Zero, Counters
    <2>4. TypeOK'
      BY <1>4, <2>1, <2>2, <2>3 DEF Update, readerVars
    <2>5. \A i \in Ifaces : i # iface => table'[i] = table[i] /\ table[i] # e
      BY <2>1, <2>2 DEF Linked
    <2>6. table'[iface] = e /\ e # NoElem
      BY <2>1, <2>2
    <2>7. InHand'
      BY <1>4, <2>1, <2>5, <2>6 DEF Update
    <2>8. EntryIfCreated'
      BY <1>4, <2>1, <2>5, <2>6 DEF Update, readerVars
    <2>9. ElementsNotShared'
      BY <2>5, <2>6
    <2>10. NoCpuCreatesTwice'
      BY <1>4, <2>1 DEF Update
    <2>11. CountersGrowBetweenReads'
      BY <1>4, <2>1, <2>2, <2>5 DEF Update, readerVars
    <2>. QED BY <2>4, <2>7, <2>8, <2>9, <2>10, <2>11
  <1>5. ASSUME NEW c \in Cpus, Relookup(c) PROVE EntriesInv'
    BY <1>5 DEF Relookup, readerVars
  <1>6. ASSUME NEW c \in Cpus, AddBytes(c) PROVE EntriesInv'
    <2>1. pkt[c] # NoPkt /\ stats[c] # NoElem /\ pkt[c].len \in Nat
      <3>1. pkt[c] # NoPkt /\ stats[c] # NoElem
        BY <1>6 DEF AddBytes
      <3>. QED BY <3>1, PacketInHand
    <2>2. /\ elem' \in [Elems -> Counters(Nat)]
          /\ \A e \in Elems, d \in Dirs, f \in Fields : elem'[e][d][f] >= elem[e][d][f]
      BY <1>6, <2>1, FetchAndAddGrows DEF AddBytes, Fields
    <2>3. CountersGrowBetweenReads'
      BY <1>6, <2>2 DEF AddBytes, readerVars, Counters
    <2>. QED BY <1>6, <2>1, <2>2, <2>3 DEF AddBytes, readerVars
  <1>7. ASSUME NEW c \in Cpus, AddPackets(c) PROVE EntriesInv'
    <2>1. pkt[c] # NoPkt /\ stats[c] # NoElem
      BY <1>7 DEF AddPackets
    <2>2. /\ elem' \in [Elems -> Counters(Nat)]
          /\ \A e \in Elems, d \in Dirs, f \in Fields : elem'[e][d][f] >= elem[e][d][f]
      BY <1>7, <2>1, FetchAndAddGrows DEF AddPackets, Fields
    <2>3. CountersGrowBetweenReads'
      BY <1>7, <2>2 DEF AddPackets, readerVars, Counters
    <2>. QED BY <1>7, <2>1, <2>2, <2>3 DEF AddPackets, readerVars
  <1>8. CASE LoadEbpfProgram
    BY <1>8 DEF LoadEbpfProgram, Hooks
  <1>9. CASE StartRead
    <2>1. net_info' \in [Ifaces -> Counters(0 .. Wrap - 1)]
      BY <1>9 DEF StartRead, Zero, Counters
    <2>. QED BY <1>9, <2>1 DEF StartRead, kernelVars
  <1>10. ASSUME NEW i \in Ifaces, ReadEntry(i) PROVE EntriesInv'
    <2> DEFINE now == elem[table[i]]
    <2>1. table[i] \in Elems /\ now \in Counters(Nat)
      BY <1>10 DEF ReadEntry
    <2>2. Rates(now, last_net_info_[i]) \in Counters(0 .. Wrap - 1)
      <3>1. last_net_info_[i] = NoStats \/ last_net_info_[i] \in Counters(Nat)
        OBVIOUS
      <3>2. CASE last_net_info_[i] = NoStats
        BY <3>2 DEF Rates, Counters
      <3>3. CASE last_net_info_[i] # NoStats
        <4>1. ASSUME NEW d \in Dirs, NEW f \in Fields
              PROVE  Minus(now[d][f], last_net_info_[i][d][f]) \in 0 .. Wrap - 1
          BY <2>1, <3>1, <3>3 DEF Minus, Counters
        <4>. QED BY <3>3, <4>1 DEF Rates, Counters
      <3>. QED BY <3>2, <3>3
    <2>3. TypeOK'
      BY <1>10, <2>1, <2>2 DEF ReadEntry, kernelVars
    <2>4. CountersGrowBetweenReads'
      <3>1. /\ last_net_info_' = [last_net_info_ EXCEPT ![i] = now]
            /\ fresh' = fresh \ {i}
            /\ UNCHANGED <<elem, table>>
        BY <1>10 DEF ReadEntry, kernelVars
      <3> SUFFICES ASSUME NEW k \in Ifaces, k \notin fresh', last_net_info_'[k] # NoStats,
                          NEW d \in Dirs, NEW f \in Fields
                   PROVE  elem[table[k]][d][f] >= last_net_info_'[k][d][f]
        BY <3>1
      <3>2. CASE k = i
        BY <2>1, <3>1, <3>2 DEF Counters
      <3>3. CASE k # i
        BY <3>1, <3>3
      <3>. QED BY <3>2, <3>3
    <2>. QED BY <1>10, <2>1, <2>3, <2>4 DEF ReadEntry, kernelVars
  <1>11. ASSUME NEW i \in Ifaces, IfaceUp(i) PROVE EntriesInv'
    BY <1>11 DEF IfaceUp, readerVars
  <1>12. ASSUME NEW i \in Ifaces, IfaceDown(i) PROVE EntriesInv'
    BY <1>12 DEF IfaceDown, readerVars
  <1>. QED
    BY <1>1, <1>2, <1>3, <1>4, <1>5, <1>6, <1>7, <1>8, <1>9, <1>10, <1>11, <1>12
    DEF Next, UpdateOnce, Program


-----------------------------------------------------------------------------
(* No counter is ahead of the traffic. *)

LEMMA BusyFinite ==
  /\ IsFiniteSet(Busy) /\ IsFiniteSet(BusyBytes)
  /\ Cardinality(Busy) \in Nat /\ Cardinality(BusyBytes) \in Nat
  <1>1. Busy \in SUBSET Cpus /\ BusyBytes \in SUBSET Cpus
    BY DEF Busy, BusyBytes
  <1>2. IsFiniteSet(Busy) /\ IsFiniteSet(BusyBytes)
    BY <1>1, CpusAssumption, FS_Subset
  <1>. QED BY <1>2, FS_CardinalityType

\* Which CPUs have still to add, after each action.
LEMMA BusySteps ==
  ASSUME TypeOK, Next
  PROVE  \/ \E c \in Cpus :
              /\ Hook(c)
              /\ c \notin Busy /\ Busy' = Busy \cup {c}
              /\ c \notin BusyBytes /\ BusyBytes' = BusyBytes \cup {c}
         \/ \E c \in Cpus :
              /\ AddBytes(c)
              /\ c \in BusyBytes
              /\ Busy' = Busy /\ BusyBytes' = BusyBytes \ {c}
         \/ \E c \in Cpus :
              /\ AddPackets(c)
              /\ c \in Busy /\ c \notin BusyBytes
              /\ Busy' = Busy \ {c} /\ BusyBytes' = BusyBytes
         \/ /\ \/ \E c \in Cpus : Lookup(c) \/ Update(c) \/ Relookup(c)
               \/ UpdateOnce
               \/ \E i \in Ifaces : IfaceUp(i) \/ IfaceDown(i)
            /\ Busy' = Busy /\ BusyBytes' = BusyBytes
  <1> USE DEF Busy, BusyBytes, TypeOK, Goto
  <1>1. ASSUME NEW c \in Cpus, Hook(c)
        PROVE  /\ c \notin Busy /\ Busy' = Busy \cup {c}
               /\ c \notin BusyBytes /\ BusyBytes' = BusyBytes \cup {c}
    <2>1. pc[c] = "idle" /\ pc' = [pc EXCEPT ![c] = "lookup"]
      BY <1>1 DEF Hook
    <2>. QED BY <2>1
  <1>2. ASSUME NEW c \in Cpus, AddBytes(c)
        PROVE  c \in BusyBytes /\ Busy' = Busy /\ BusyBytes' = BusyBytes \ {c}
    <2>1. pc[c] = "add_bytes" /\ pc' = [pc EXCEPT ![c] = "add_packets"]
      BY <1>2 DEF AddBytes
    <2>. QED BY <2>1
  <1>3. ASSUME NEW c \in Cpus, AddPackets(c)
        PROVE  /\ c \in Busy /\ c \notin BusyBytes
               /\ Busy' = Busy \ {c} /\ BusyBytes' = BusyBytes
    <2>1. pc[c] = "add_packets" /\ pc' = [pc EXCEPT ![c] = "idle"]
      BY <1>3 DEF AddPackets
    <2>. QED BY <2>1
  <1>4. ASSUME NEW c \in Cpus, Lookup(c) \/ Update(c) \/ Relookup(c)
        PROVE  Busy' = Busy /\ BusyBytes' = BusyBytes
    <2>1. /\ pc[c] \in {"lookup", "update", "relookup"}
          /\ \E label \in {"update", "relookup", "add_bytes"} : pc' = [pc EXCEPT ![c] = label]
      BY <1>4 DEF Lookup, Update, Relookup
    <2>. QED BY <2>1
  <1>5. ASSUME UpdateOnce \/ \E i \in Ifaces : IfaceUp(i) \/ IfaceDown(i)
        PROVE  Busy' = Busy /\ BusyBytes' = BusyBytes
    <2>1. UNCHANGED pc
      BY <1>5 DEF UpdateOnce, LoadEbpfProgram, StartRead, ReadEntry, IfaceUp, IfaceDown, kernelVars
    <2>. QED BY <2>1
  <1>6. \/ \E c \in Cpus : Hook(c) \/ AddBytes(c) \/ AddPackets(c)
        \/ \E c \in Cpus : Lookup(c) \/ Update(c) \/ Relookup(c)
        \/ UpdateOnce \/ \E i \in Ifaces : IfaceUp(i) \/ IfaceDown(i)
    BY DEF Next, Program
  <1>. QED BY <1>1, <1>2, <1>3, <1>4, <1>5, <1>6, Zenon

LEMMA InitTraffic == Init => CountersBehindTraffic
  <1> SUFFICES ASSUME Init PROVE CountersBehindTraffic
    OBVIOUS
  <1>1. Busy = {} /\ BusyBytes = {}
    BY DEF Init, Busy, BusyBytes
  <1>2. Cardinality(Busy) = 0 /\ Cardinality(BusyBytes) = 0
    BY <1>1, FS_EmptySet
  <1>. QED BY <1>2 DEF Init, CountersBehindTraffic, Zero, Fields

LEMMA TrafficPreserved ==
  EntriesInv /\ CountersBehindTraffic /\ [Next]_vars => CountersBehindTraffic'
  <1> SUFFICES ASSUME EntriesInv, CountersBehindTraffic, [Next]_vars
               PROVE  CountersBehindTraffic'
    OBVIOUS
  <1> DEFINE busy == Cardinality(Busy)
             adding == Cardinality(BusyBytes)
  <1>1. TypeOK /\ InHand
    BY DEF EntriesInv
  <1>2. busy \in Nat /\ adding \in Nat /\ packets \in Nat /\ MaxLen \in Nat
    BY <1>1, BusyFinite DEF TypeOK
  <1>3. \A e \in Elems, d \in Dirs : elem[e][d].packets \in Nat /\ elem[e][d].bytes \in Nat
    BY <1>1 DEF TypeOK, Counters, Fields
  <1>4. CASE UNCHANGED vars
    BY <1>4 DEF vars, kernelVars, CountersBehindTraffic, Busy, BusyBytes
  <1>5. ASSUME NEW c \in Cpus, Hook(c),
               c \notin Busy, Busy' = Busy \cup {c},
               c \notin BusyBytes, BusyBytes' = BusyBytes \cup {c}
        PROVE  CountersBehindTraffic'
    <2>1. busy' = busy + 1 /\ adding' = adding + 1
      BY <1>5, BusyFinite, FS_AddElement
    <2>2. packets' = packets + 1 /\ elem' = elem
      BY <1>5 DEF Hook
    <2>. QED BY <1>2, <1>3, <2>1, <2>2 DEF CountersBehindTraffic
  <1>6. ASSUME NEW c \in Cpus, AddBytes(c),
               c \in BusyBytes, Busy' = Busy, BusyBytes' = BusyBytes \ {c}
        PROVE  CountersBehindTraffic'
    <2>1. busy' = busy /\ adding' = adding - 1
      BY <1>6, BusyFinite, FS_RemoveElement
    <2>2. packets' = packets /\ FetchAndAdd(c, "bytes", pkt[c].len)
      BY <1>6 DEF AddBytes
    <2>3. pkt[c] # NoPkt /\ stats[c] # NoElem
      BY <1>1, <1>6 DEF AddBytes, InHand, Adding
    <2>4. pkt[c].len \in 0 .. MaxLen
      <3>1. pkt[c] \in [iface : Ifaces, dir : Dirs, len : Lens]
        BY <1>1, <2>3 DEF TypeOK
      <3>2. pkt[c].len \in Lens
        BY <3>1
      <3>3. pkt[c].len \in 1 .. MaxLen
        BY <3>2
      <3>. QED BY <1>2, <3>3
    <2>5. \A e \in Elems, d \in Dirs :
            /\ elem'[e][d].packets = elem[e][d].packets
            /\ elem'[e][d].bytes \in Nat
            /\ elem'[e][d].bytes <= elem[e][d].bytes + MaxLen
      <3>1. pkt[c].len \in Nat /\ "bytes" \in Fields /\ "packets" \in Fields
        BY <2>4 DEF Fields
      <3>. QED BY <1>1, <1>2, <1>3, <2>2, <2>3, <2>4, <3>1, FetchAndAddEffect, SMTT(30)
    <2>. QED BY <1>2, <1>3, <2>1, <2>2, <2>5 DEF CountersBehindTraffic
  <1>7. ASSUME NEW c \in Cpus, AddPackets(c),
               c \in Busy, c \notin BusyBytes, Busy' = Busy \ {c}, BusyBytes' = BusyBytes
        PROVE  CountersBehindTraffic'
    <2>1. busy' = busy - 1 /\ adding' = adding
      BY <1>7, BusyFinite, FS_RemoveElement
    <2>2. packets' = packets /\ FetchAndAdd(c, "packets", 1)
      BY <1>7 DEF AddPackets
    <2>3. pkt[c] # NoPkt /\ stats[c] # NoElem
      BY <1>1, <1>7 DEF AddPackets, InHand, Adding
    <2>4. \A e \in Elems, d \in Dirs :
            /\ elem'[e][d].packets \in Nat
            /\ elem'[e][d].packets <= elem[e][d].packets + 1
            /\ elem'[e][d].bytes = elem[e][d].bytes
      <3>1. "bytes" \in Fields /\ "packets" \in Fields
        BY DEF Fields
      <3>. QED BY <1>1, <1>3, <2>2, <2>3, <3>1, FetchAndAddEffect
    <2>. QED BY <1>2, <1>3, <2>1, <2>2, <2>4 DEF CountersBehindTraffic
  <1>8. ASSUME \/ \E c \in Cpus : Lookup(c) \/ Update(c) \/ Relookup(c)
               \/ UpdateOnce
               \/ \E i \in Ifaces : IfaceUp(i) \/ IfaceDown(i),
               Busy' = Busy, BusyBytes' = BusyBytes
        PROVE  CountersBehindTraffic'
    <2>1. busy' = busy /\ adding' = adding /\ packets' = packets
      BY <1>8 DEF Lookup, Update, Relookup, UpdateOnce, LoadEbpfProgram, StartRead, ReadEntry,
                  IfaceUp, IfaceDown, kernelVars
    <2>2. \/ elem' = elem
          \/ \E e \in Elems : elem' = [elem EXCEPT ![e] = Zero]
      BY <1>8 DEF Lookup, Update, Relookup, UpdateOnce, LoadEbpfProgram, StartRead, ReadEntry,
                  IfaceUp, IfaceDown, kernelVars
    <2>3. \A e \in Elems, d \in Dirs :
            /\ elem'[e][d].packets <= elem[e][d].packets
            /\ elem'[e][d].bytes <= elem[e][d].bytes
            /\ elem'[e][d].packets \in Nat /\ elem'[e][d].bytes \in Nat
      BY <1>1, <1>3, <2>2 DEF TypeOK, Zero, Fields
    <2>. QED BY <1>2, <1>3, <2>1, <2>3 DEF CountersBehindTraffic
  <1>9. CASE Next
    <2> HIDE DEF busy, adding
    <2>. QED BY <1>1, <1>5, <1>6, <1>7, <1>8, <1>9, BusySteps, Zenon
  <1>. QED BY <1>4, <1>9

-----------------------------------------------------------------------------
(* While no creation was raced. *)

LEMMA CreatedFinite ==
  ASSUME created \in [Ifaces -> SUBSET Cpus], NEW i \in Ifaces
  PROVE  IsFiniteSet(created[i]) /\ Cardinality(created[i]) \in Nat
  <1>1. created[i] \in SUBSET Cpus
    OBVIOUS
  <1>. QED BY <1>1, CpusAssumption, FS_Subset, FS_CardinalityType

LEMMA CreatedGrows ==
  ASSUME TypeOK, [Next]_vars
  PROVE  \A i \in Ifaces : created[i] \subseteq created'[i]
  <1>1. CASE UNCHANGED created
    BY <1>1
  <1>2. ASSUME NEW c \in Cpus, Update(c) PROVE \A i \in Ifaces : created[i] \subseteq created'[i]
    BY <1>2 DEF Update, TypeOK
  <1>3. UNCHANGED created \/ \E c \in Cpus : Update(c)
    BY DEF vars, kernelVars, Next, Program, UpdateOnce, Hook, Lookup, Relookup, AddBytes, AddPackets,
           LoadEbpfProgram, StartRead, ReadEntry, IfaceUp, IfaceDown
  <1>. QED BY <1>1, <1>2, <1>3

\* A creation that was raced stays so; one that was not found no entry.
LEMMA UnracedBefore ==
  ASSUME EntriesInv, EntriesInv', [Next]_vars, Unraced'
  PROVE  /\ Unraced
         /\ \A c \in Cpus : Update(c) => table[pkt[c].iface] = NoElem
  <1>1. TypeOK /\ TypeOK' /\ InHand /\ EntryIfCreated /\ NoCpuCreatesTwice
    BY DEF EntriesInv
  <1>2. \A i \in Ifaces : /\ IsFiniteSet(created'[i])
                          /\ Cardinality(created[i]) <= Cardinality(created'[i])
                          /\ Cardinality(created[i]) \in Nat /\ Cardinality(created'[i]) \in Nat
    <2> TAKE i \in Ifaces
    <2>1. created'[i] \in SUBSET Cpus /\ created[i] \in SUBSET created'[i]
      BY <1>1, CreatedGrows DEF TypeOK
    <2>2. IsFiniteSet(created'[i])
      BY <2>1, CpusAssumption, FS_Subset
    <2>3. IsFiniteSet(created[i]) /\ Cardinality(created[i]) <= Cardinality(created'[i])
      BY <2>1, <2>2, FS_Subset
    <2>. QED BY <2>2, <2>3, FS_CardinalityType
  <1>3. Unraced
    BY <1>2 DEF Unraced
  <1>4. ASSUME NEW c \in Cpus, Update(c)
        PROVE  table[pkt[c].iface] = NoElem
    <2> DEFINE i == pkt[c].iface
    <2>1. i \in Ifaces /\ pc[c] = "update" /\ c \notin created[i]
      BY <1>1, <1>4, PacketInHand DEF Update, InHand, NoCpuCreatesTwice
    <2>2. created'[i] = created[i] \cup {c}
      BY <1>1, <1>4, <2>1 DEF Update, TypeOK
    <2>3. IsFiniteSet(created[i]) /\ Cardinality(created[i]) \in Nat
      BY <1>1, <2>1, CreatedFinite DEF TypeOK
    <2>4. Cardinality(created'[i]) = Cardinality(created[i]) + 1
      BY <2>1, <2>2, <2>3, FS_AddElement
    <2>5. Cardinality(created[i]) = 0
      BY <2>1, <2>3, <2>4 DEF Unraced
    <2>6. created[i] = {}
      BY <2>3, <2>5, FS_EmptySet
    <2>. QED BY <1>1, <2>1, <2>6 DEF EntryIfCreated
  <1>. QED BY <1>3, <1>4

LEMMA AddsPreserved ==
  ASSUME EntriesInv, EntriesInv', AddsToItsEntry, [Next]_vars
  PROVE  AddsToItsEntry'
  <1>1. TypeOK /\ InHand
    BY DEF EntriesInv
  <1> SUFFICES ASSUME Unraced', NEW k \in Cpus, pc'[k] \in Adding
               PROVE  stats'[k] = table'[pkt'[k].iface]
    BY DEF AddsToItsEntry
  <1>2. Unraced /\ \A c \in Cpus : Update(c) => table[pkt[c].iface] = NoElem
    BY UnracedBefore
  <1>3. pc[k] \in Adding => stats[k] = table[pkt[k].iface] /\ stats[k] # NoElem
    BY <1>1, <1>2 DEF AddsToItsEntry, InHand
  <1> USE DEF TypeOK, Adding, Goto
  <1>4. ASSUME UNCHANGED <<table, pc, pkt, stats>>
        PROVE  stats'[k] = table'[pkt'[k].iface]
    BY <1>3, <1>4
  <1>5. ASSUME NEW c \in Cpus, Hook(c) PROVE stats'[k] = table'[pkt'[k].iface]
    <2>1. pc' = [pc EXCEPT ![c] = "lookup"] /\ UNCHANGED <<stats, table>>
      BY <1>5 DEF Hook
    <2>2. k # c
      BY <1>1, <2>1
    <2>3. pkt'[k] = pkt[k] /\ pc'[k] = pc[k]
      BY <1>1, <1>5, <2>1, <2>2 DEF Hook
    <2>. QED BY <1>3, <2>1, <2>3
  <1>6. ASSUME NEW c \in Cpus, Lookup(c) \/ Relookup(c) PROVE stats'[k] = table'[pkt'[k].iface]
    <2>1. /\ stats' = [stats EXCEPT ![c] = table[pkt[c].iface]] /\ UNCHANGED <<pkt, table>>
          /\ k # c => pc'[k] = pc[k]
      BY <1>1, <1>6 DEF Lookup, Relookup
    <2>. QED BY <1>1, <1>3, <2>1
  <1>7. ASSUME NEW c \in Cpus, Update(c) PROVE stats'[k] = table'[pkt'[k].iface]
    <2>1. pc' = [pc EXCEPT ![c] = "relookup"] /\ UNCHANGED <<stats, pkt>>
      BY <1>7 DEF Update
    <2>2. k # c /\ pc'[k] = pc[k]
      BY <1>1, <2>1
    <2>3. pkt[k].iface # pkt[c].iface
      BY <1>2, <1>3, <1>7, <2>2
    <2>4. pkt[k].iface \in Ifaces
      BY <1>1, <2>2, PacketInHand DEF InHand
    <2>5. table'[pkt[k].iface] = table[pkt[k].iface]
      BY <1>1, <1>7, <2>3, <2>4 DEF Update
    <2>. QED BY <1>3, <2>1, <2>2, <2>5
  <1>8. ASSUME NEW c \in Cpus, AddBytes(c) PROVE stats'[k] = table'[pkt'[k].iface]
    <2>1. /\ pc[c] = "add_bytes" /\ pc' = [pc EXCEPT ![c] = "add_packets"]
          /\ UNCHANGED <<table, pkt, stats>>
      BY <1>8 DEF AddBytes
    <2>. QED BY <1>1, <1>3, <2>1
  <1>9. ASSUME NEW c \in Cpus, AddPackets(c) PROVE stats'[k] = table'[pkt'[k].iface]
    <2>1. /\ pc' = [pc EXCEPT ![c] = "idle"]
          /\ pkt' = [pkt EXCEPT ![c] = NoPkt] /\ stats' = [stats EXCEPT ![c] = NoElem]
          /\ UNCHANGED table
      BY <1>9 DEF AddPackets
    <2>2. k # c
      BY <1>1, <2>1
    <2>. QED BY <1>1, <1>3, <2>1, <2>2
  <1>10. \/ UNCHANGED <<table, pc, pkt, stats>>
         \/ \E c \in Cpus : Hook(c) \/ Program(c)
    BY DEF vars, kernelVars, Next, UpdateOnce,
           LoadEbpfProgram, StartRead, ReadEntry, IfaceUp, IfaceDown
  <1>. QED BY <1>4, <1>5, <1>6, <1>7, <1>8, <1>9, <1>10, Zenon DEF Program

-----------------------------------------------------------------------------
(* The bytes that a set of CPUs has still to add are counted as the pairs  *)
(* of a CPU and a byte of its packet: the sum of the lengths.              *)

BytesOf(S, held) == UNION {{c} \X (1 .. held[c].len) : c \in S}

LEMMA CountTo ==
  ASSUME NEW n \in Nat
  PROVE  IsFiniteSet(1 .. n) /\ Cardinality(1 .. n) = n
  <1>1. n \in Int /\ 1 \in Int
    OBVIOUS
  <1>2. IsFiniteSet(1 .. n) /\ Cardinality(1 .. n) = IF 1 > n THEN 0 ELSE n - 1 + 1
    BY <1>1, FS_Interval, Zenon
  <1>. QED BY <1>2

LEMMA BytesOfMembers ==
  ASSUME NEW S, NEW held, NEW t
  PROVE  t \in BytesOf(S, held) <=> \E c \in S : t \in {c} \X (1 .. held[c].len)
  BY DEF BytesOf

\* The bytes of one more CPU add the length of its packet.
LEMMA BytesOfOneMore ==
  ASSUME NEW S, NEW held, NEW after, \A k \in S : after[k] = held[k],
         NEW c, c \notin S, after[c].len \in Nat, IsFiniteSet(BytesOf(S, held))
  PROVE  /\ IsFiniteSet(BytesOf(S \cup {c}, after))
         /\ Cardinality(BytesOf(S \cup {c}, after))
              = Cardinality(BytesOf(S, held)) + after[c].len
  <1> DEFINE old == BytesOf(S, held)
             added == {c} \X (1 .. after[c].len)
  <1>1. BytesOf(S \cup {c}, after) = old \cup added
    <2>1. \A t : t \in BytesOf(S \cup {c}, after) <=> t \in old \/ t \in added
      <3> TAKE t
      <3>1. t \in BytesOf(S \cup {c}, after)
              <=> \E k \in S \cup {c} : t \in {k} \X (1 .. after[k].len)
        BY BytesOfMembers
      <3>2. t \in old <=> \E k \in S : t \in {k} \X (1 .. held[k].len)
        BY BytesOfMembers
      <3>. QED BY <3>1, <3>2
    <2>. QED BY <2>1
  <1>2. old \cap added = {}
    <2>1. \A t \in old : t \notin added
      <3> TAKE t \in old
      <3>1. PICK k \in S : t \in {k} \X (1 .. held[k].len)
        BY BytesOfMembers
      <3>. QED BY <3>1
    <2>. QED BY <2>1
  <1>3. IsFiniteSet(added) /\ Cardinality(added) = after[c].len
    <2>1. IsFiniteSet({c}) /\ Cardinality({c}) = 1
      BY FS_Singleton
    <2>2. IsFiniteSet(1 .. after[c].len) /\ Cardinality(1 .. after[c].len) = after[c].len
      BY CountTo
    <2>3. IsFiniteSet(added) /\ Cardinality(added) = 1 * after[c].len
      BY <2>1, <2>2, FS_Product, ZenonT(30)
    <2>. QED BY <2>3
  <1>4. Cardinality(old) \in Nat /\ Cardinality(old \cap added) = 0
    BY <1>2, FS_CardinalityType, FS_EmptySet
  <1> HIDE DEF old, added
  <1>5. /\ IsFiniteSet(old \cup added)
        /\ Cardinality(old \cup added)
             = Cardinality(old) + Cardinality(added) - Cardinality(old \cap added)
    <2>1. IsFiniteSet(old)
      BY DEF old
    <2>. QED BY <1>3, <2>1, FS_Union
  <1>6. Cardinality(old \cup added) = Cardinality(old) + after[c].len
    BY <1>3, <1>4, <1>5
  <1>. QED BY <1>1, <1>5, <1>6 DEF old

LEMMA BytesOfFinite ==
  ASSUME NEW S, IsFiniteSet(S), NEW held, NEW n \in Nat, \A c \in S : held[c].len \in 1 .. n
  PROVE  IsFiniteSet(BytesOf(S, held)) /\ Cardinality(BytesOf(S, held)) \in Nat
  <1>1. IsFiniteSet(S \X (1 .. n))
    BY CountTo, FS_Product
  <1>2. BytesOf(S, held) \in SUBSET (S \X (1 .. n))
    <2>1. \A t \in BytesOf(S, held) : t \in S \X (1 .. n)
      <3> TAKE t \in BytesOf(S, held)
      <3>1. PICK c \in S : t \in {c} \X (1 .. held[c].len)
        BY BytesOfMembers
      <3>. QED BY <3>1
    <2>. QED BY <2>1
  <1>3. IsFiniteSet(BytesOf(S, held))
    BY <1>1, <1>2, FS_Subset
  <1>. QED BY <1>3, FS_CardinalityType

LEMMA PendingFinite ==
  ASSUME TypeOK, InHand, NEW i \in Ifaces, NEW d \in Dirs
  PROVE  /\ IsFiniteSet(Pending(i, d, Busy)) /\ Cardinality(Pending(i, d, Busy)) \in Nat
         /\ IsFiniteSet(PendingBytes(i, d)) /\ Cardinality(PendingBytes(i, d)) \in Nat
  <1>1. Pending(i, d, Busy) \in SUBSET Busy /\ Pending(i, d, BusyBytes) \in SUBSET BusyBytes
    BY DEF Pending
  <1>2. IsFiniteSet(Pending(i, d, Busy)) /\ IsFiniteSet(Pending(i, d, BusyBytes))
    BY <1>1, BusyFinite, FS_Subset
  <1>3. \A c \in Pending(i, d, BusyBytes) : pkt[c].len \in 1 .. MaxLen
    <2> TAKE c \in Pending(i, d, BusyBytes)
    <2>1. c \in Cpus /\ pkt[c] # NoPkt
      BY <1>1 DEF BusyBytes, Busy, InHand
    <2>2. pkt[c] \in [iface : Ifaces, dir : Dirs, len : Lens]
      BY <2>1 DEF TypeOK
    <2>3. pkt[c].len \in Lens
      BY <2>2
    <2>. QED BY <2>3
  <1>4. PendingBytes(i, d) = BytesOf(Pending(i, d, BusyBytes), pkt)
    BY DEF PendingBytes, BytesOf
  <1>5. MaxLen \in Nat
    OBVIOUS
  <1>. QED BY <1>2, <1>3, <1>4, <1>5, BytesOfFinite, FS_CardinalityType

\* While no creation was raced, what a CPU adds goes to the entry of its
\* interface, and to no other.
LEMMA AddCounts ==
  ASSUME EntriesInv, Unraced, AddsToItsEntry, NEW c \in Cpus, pc[c] \in Adding,
         NEW field \in Fields, NEW amount \in Nat, FetchAndAdd(c, field, amount), UNCHANGED table,
         NEW i \in Ifaces, NEW d \in Dirs, NEW f \in Fields
  PROVE  /\ Counted(i)[d][f] \in Nat
         /\ Counted(i)'[d][f]
              = Counted(i)[d][f]
                + (IF i = pkt[c].iface /\ d = pkt[c].dir /\ f = field THEN amount ELSE 0)
  <1>1. TypeOK /\ InHand /\ ElementsNotShared
    BY DEF EntriesInv
  <1>2. /\ stats[c] = table[pkt[c].iface] /\ stats[c] # NoElem /\ pkt[c] # NoPkt
        /\ pkt[c].iface \in Ifaces
    BY <1>1, PacketInHand DEF AddsToItsEntry, InHand, Adding
  <1>3. CASE table[i] = NoElem
    BY <1>2, <1>3 DEF Counted, Zero
  <1>4. CASE table[i] # NoElem
    <2>1. table[i] \in Elems /\ elem[table[i]][d][f] \in Nat
      BY <1>1, <1>4 DEF TypeOK, Counters
    <2>2. table[i] = stats[c] <=> i = pkt[c].iface
      BY <1>1, <1>2, <1>4 DEF ElementsNotShared
    <2>3. elem'[table[i]][d][f]
            = elem[table[i]][d][f]
              + (IF i = pkt[c].iface /\ d = pkt[c].dir /\ f = field THEN amount ELSE 0)
      BY <1>1, <1>2, <2>1, <2>2, FetchAndAddEffect
    <2>. QED BY <1>4, <2>1, <2>3 DEF Counted
  <1>. QED BY <1>3, <1>4

\* Nothing else changes what is counted: the entry that an update creates was
\* not there.
LEMMA OthersDoNotCount ==
  ASSUME EntriesInv, EntriesInv', Unraced', [Next]_vars, NEW i \in Ifaces,
         \A c \in Cpus : ~AddBytes(c) /\ ~AddPackets(c)
  PROVE  Counted(i)' = Counted(i)
  <1>1. TypeOK /\ InHand
    BY DEF EntriesInv
  <1>2. CASE UNCHANGED <<elem, table>>
    BY <1>2 DEF Counted
  <1>3. ASSUME NEW c \in Cpus, Update(c) PROVE Counted(i)' = Counted(i)
    <2>1. PICK e \in Elems \ Linked : /\ elem' = [elem EXCEPT ![e] = Zero]
                                      /\ table' = [table EXCEPT ![pkt[c].iface] = e]
      BY <1>3 DEF Update
    <2>2. pkt[c].iface \in Ifaces /\ table[pkt[c].iface] = NoElem
      BY <1>1, <1>3, UnracedBefore, PacketInHand DEF Update, InHand
    <2>3. CASE i = pkt[c].iface
      BY <1>1, <2>1, <2>2, <2>3 DEF Counted, TypeOK
    <2>4. CASE i # pkt[c].iface
      <3>1. table'[i] = table[i] /\ table[i] # e
        BY <1>1, <2>1, <2>4 DEF TypeOK, Linked
      <3>. QED BY <1>1, <2>1, <3>1 DEF Counted, TypeOK
    <2>. QED BY <2>3, <2>4
  <1>4. UNCHANGED <<elem, table>> \/ \E c \in Cpus : Update(c)
    BY DEF vars, kernelVars, Next, Program, UpdateOnce, Hook, Lookup, Relookup,
           LoadEbpfProgram, StartRead, ReadEntry, IfaceUp, IfaceDown
  <1>. QED BY <1>2, <1>3, <1>4

LEMMA InitNothingLost == Init => NothingLost /\ AddsToItsEntry
  <1> SUFFICES ASSUME Init PROVE NothingLost /\ AddsToItsEntry
    OBVIOUS
  <1>1. Busy = {} /\ BusyBytes = {} /\ AddsToItsEntry
    BY DEF Init, Busy, BusyBytes, AddsToItsEntry, Adding
  <1> SUFFICES ASSUME NEW i \in Ifaces, NEW d \in Dirs
               PROVE  /\ seen[i][d].packets
                           = Counted(i)[d].packets + Cardinality(Pending(i, d, Busy))
                      /\ seen[i][d].bytes
                           = Counted(i)[d].bytes + Cardinality(PendingBytes(i, d))
    BY <1>1 DEF NothingLost
  <1>2. Pending(i, d, Busy) = {} /\ PendingBytes(i, d) = {}
    BY <1>1 DEF Pending, PendingBytes
  <1>3. Cardinality(Pending(i, d, Busy)) = 0 /\ Cardinality(PendingBytes(i, d)) = 0
    BY <1>2, FS_EmptySet
  <1>4. seen[i] = Zero /\ Counted(i) = Zero
    BY DEF Init, Counted
  <1>5. Zero[d].packets = 0 /\ Zero[d].bytes = 0
    BY DEF Zero, Fields
  <1>. QED BY <1>3, <1>4, <1>5

LEMMA NothingLostPreserved ==
  ASSUME EntriesInv, EntriesInv', AddsToItsEntry, NothingLost, [Next]_vars
  PROVE  NothingLost'
  <1>1. TypeOK /\ InHand /\ TypeOK' /\ InHand'
    BY DEF EntriesInv
  <1> SUFFICES ASSUME Unraced', NEW i \in Ifaces, NEW d \in Dirs
               PROVE  /\ seen'[i][d].packets
                           = Counted(i)'[d].packets + Cardinality(Pending(i, d, Busy)')
                      /\ seen'[i][d].bytes
                           = Counted(i)'[d].bytes + Cardinality(PendingBytes(i, d)')
    BY DEF NothingLost
  <1> DEFINE toAdd == Pending(i, d, Busy)
             bytes == PendingBytes(i, d)
             Goal == /\ seen'[i][d].packets = Counted(i)'[d].packets + Cardinality(toAdd')
                     /\ seen'[i][d].bytes = Counted(i)'[d].bytes + Cardinality(bytes')
  <1>2. Unraced
    BY UnracedBefore
  <1>3. /\ seen[i][d].packets = Counted(i)[d].packets + Cardinality(toAdd)
        /\ seen[i][d].bytes = Counted(i)[d].bytes + Cardinality(bytes)
    BY <1>2 DEF NothingLost
  <1>4. /\ IsFiniteSet(toAdd) /\ Cardinality(toAdd) \in Nat
        /\ IsFiniteSet(bytes) /\ Cardinality(bytes) \in Nat
    BY <1>1, PendingFinite
  <1>5. /\ Counted(i)[d].packets \in Nat /\ Counted(i)[d].bytes \in Nat
        /\ "packets" \in Fields /\ "bytes" \in Fields
    BY <1>1 DEF TypeOK, Counters, Counted, Zero, Fields
  <1>6. ASSUME UNCHANGED <<pkt, seen>>, Counted(i)' = Counted(i), Busy' = Busy, BusyBytes' = BusyBytes
        PROVE  Goal
    <2>1. toAdd' = toAdd /\ bytes' = bytes
      BY <1>6 DEF Pending, PendingBytes
    <2>. QED BY <1>3, <1>6, <2>1
  <1>7. ASSUME NEW c \in Cpus, Hook(c),
               c \notin Busy, Busy' = Busy \cup {c},
               c \notin BusyBytes, BusyBytes' = BusyBytes \cup {c}
        PROVE  Goal
    <2>1. PICK k \in Ifaces, e \in Dirs, len \in Lens :
            /\ pkt' = [pkt EXCEPT ![c] = [iface |-> k, dir |-> e, len |-> len]]
            /\ Passed(k, e, len)
      <3>1. PICK h \in attached, len \in Lens :
              /\ pkt' = [pkt EXCEPT ![c] = [iface |-> h[1], dir |-> h[2], len |-> len]]
              /\ seen' = [seen EXCEPT ![h[1]][h[2]].bytes = @ + len, ![h[1]][h[2]].packets = @ + 1]
        BY <1>7 DEF Hook
      <3>2. h[1] \in Ifaces /\ h[2] \in Dirs
        BY <1>1, <3>1 DEF TypeOK, Hooks
      <3>. QED BY <3>1, <3>2 DEF Passed
    <2>2. len \in Nat
      OBVIOUS
    <2>3. /\ pkt'[c].iface = k /\ pkt'[c].dir = e /\ pkt'[c].len = len
          /\ \A b \in Busy : pkt'[b] = pkt[b]
      BY <1>1, <1>7, <2>1 DEF TypeOK, Busy
    <2>4. Counted(i)' = Counted(i)
      BY <1>7 DEF Hook, Counted
    <2>5. /\ seen'[k][e].packets = seen[k][e].packets + 1
          /\ seen'[k][e].bytes = seen[k][e].bytes + len
          /\ \A j \in Ifaces, x \in Dirs : j # k \/ x # e => seen'[j][x] = seen[j][x]
      <3>1. seen \in [Ifaces -> Counters(Nat)]
        BY <1>1 DEF TypeOK
      <3>2. /\ seen'[k][e].packets = seen[k][e].packets + 1
            /\ seen'[k][e].bytes = seen[k][e].bytes + len
        BY <2>1, <2>2, <3>1, HookIsSeen
      <3>3. \A j \in Ifaces, x \in Dirs : j # k \/ x # e => seen'[j][x] = seen[j][x]
        BY <2>1, <2>2, <3>1, HookIsSeen
      <3>. QED BY <3>2, <3>3
    <2>6. CASE k = i /\ e = d
      <3>1. /\ seen'[i][d].packets = seen[i][d].packets + 1
            /\ seen'[i][d].bytes = seen[i][d].bytes + len
        BY <2>5, <2>6
      <3>2. /\ toAdd' = toAdd \cup {c} /\ c \notin toAdd
            /\ Pending(i, d, BusyBytes)' = Pending(i, d, BusyBytes) \cup {c}
            /\ c \notin Pending(i, d, BusyBytes)
        BY <1>7, <2>3, <2>6 DEF Pending, BusyBytes
      <3>3. Cardinality(toAdd') = Cardinality(toAdd) + 1
        BY <1>4, <3>2, FS_AddElement
      <3>4. bytes = BytesOf(Pending(i, d, BusyBytes), pkt)
            /\ bytes' = BytesOf(Pending(i, d, BusyBytes)', pkt')
        BY DEF PendingBytes, BytesOf
      <3>5. \A b \in Pending(i, d, BusyBytes) : pkt'[b] = pkt[b]
        BY <2>3 DEF Pending, BusyBytes
      <3>6. Cardinality(bytes') = Cardinality(bytes) + len
        BY <1>4, <2>2, <2>3, <3>2, <3>4, <3>5, BytesOfOneMore
      <3>. QED BY <1>3, <1>4, <1>5, <2>2, <2>4, <3>1, <3>3, <3>6
    <2>7. CASE ~(k = i /\ e = d)
      <3>1. seen'[i][d] = seen[i][d]
        BY <2>5, <2>7
      <3>2. toAdd' = toAdd /\ Pending(i, d, BusyBytes)' = Pending(i, d, BusyBytes)
        BY <1>7, <2>3, <2>7 DEF Pending, BusyBytes
      <3>3. bytes' = bytes
        BY <2>3, <3>2 DEF PendingBytes, Pending, BusyBytes
      <3>. QED BY <1>3, <2>4, <3>1, <3>2, <3>3
    <2>. QED BY <2>6, <2>7
  <1>8. ASSUME NEW c \in Cpus, AddBytes(c),
               c \in BusyBytes, Busy' = Busy, BusyBytes' = BusyBytes \ {c}
        PROVE  Goal
    <2>1. /\ pc[c] \in Adding /\ FetchAndAdd(c, "bytes", pkt[c].len)
          /\ UNCHANGED <<table, pkt, seen>>
      BY <1>8 DEF AddBytes, Adding
    <2>2. pkt[c].len \in Nat
      BY <1>1, <2>1, PacketInHand DEF InHand, Adding
    <2>3. /\ Counted(i)'[d].packets = Counted(i)[d].packets
          /\ Counted(i)'[d].bytes
               = Counted(i)[d].bytes
                 + (IF i = pkt[c].iface /\ d = pkt[c].dir THEN pkt[c].len ELSE 0)
      BY <1>2, <1>5, <2>1, <2>2, AddCounts
    <2>4. toAdd' = toAdd
      BY <1>8, <2>1 DEF Pending
    <2>5. bytes = BytesOf(Pending(i, d, BusyBytes), pkt)
          /\ bytes' = BytesOf(Pending(i, d, BusyBytes)', pkt)
      BY <2>1 DEF PendingBytes, BytesOf
    <2>6. IsFiniteSet(bytes') /\ Cardinality(bytes') \in Nat
      <3>1. Pending(i, d, BusyBytes)' \subseteq Pending(i, d, BusyBytes)
        BY <1>8, <2>1 DEF Pending
      <3>2. bytes' \in SUBSET bytes
        BY <2>5, <3>1 DEF BytesOf
      <3>. QED BY <1>4, <3>2, FS_Subset, FS_CardinalityType
    <2>7. CASE i = pkt[c].iface /\ d = pkt[c].dir
      <3>1. /\ Pending(i, d, BusyBytes) = Pending(i, d, BusyBytes)' \cup {c}
            /\ c \notin Pending(i, d, BusyBytes)'
        BY <1>8, <2>1, <2>7 DEF Pending
      <3>2. Cardinality(bytes) = Cardinality(bytes') + pkt[c].len
        BY <2>2, <2>5, <2>6, <3>1, BytesOfOneMore
      <3>. QED BY <1>3, <1>4, <1>5, <2>1, <2>2, <2>3, <2>4, <2>6, <2>7, <3>2
    <2>8. CASE ~(i = pkt[c].iface /\ d = pkt[c].dir)
      <3>1. Pending(i, d, BusyBytes)' = Pending(i, d, BusyBytes)
        BY <1>8, <2>1, <2>8 DEF Pending
      <3>. QED BY <1>3, <1>5, <2>1, <2>3, <2>4, <2>5, <2>8, <3>1
    <2>. QED BY <2>7, <2>8
  <1>9. ASSUME NEW c \in Cpus, AddPackets(c),
               c \in Busy, c \notin BusyBytes, Busy' = Busy \ {c}, BusyBytes' = BusyBytes
        PROVE  Goal
    <2>1. /\ pc[c] \in Adding /\ FetchAndAdd(c, "packets", 1)
          /\ pkt' = [pkt EXCEPT ![c] = NoPkt] /\ UNCHANGED <<table, seen>>
      BY <1>9 DEF AddPackets, Adding
    <2>2. /\ Counted(i)'[d].bytes = Counted(i)[d].bytes
          /\ Counted(i)'[d].packets
               = Counted(i)[d].packets + (IF i = pkt[c].iface /\ d = pkt[c].dir THEN 1 ELSE 0)
      BY <1>2, <1>5, <2>1, AddCounts
    <2>3. \A k \in Cpus : k # c => pkt'[k] = pkt[k]
      BY <2>1
    <2>4. bytes' = bytes
      <3>1. \A k \in BusyBytes : pkt'[k] = pkt[k]
        BY <1>9, <2>3 DEF BusyBytes, Busy
      <3>2. Pending(i, d, BusyBytes)' = Pending(i, d, BusyBytes)
        BY <1>9, <3>1 DEF Pending
      <3>. QED BY <3>1, <3>2 DEF PendingBytes, Pending
    <2>5. CASE i = pkt[c].iface /\ d = pkt[c].dir
      <3>1. toAdd' = toAdd \ {c} /\ c \in toAdd
        BY <1>9, <2>3, <2>5 DEF Pending, Busy
      <3>2. Cardinality(toAdd') = Cardinality(toAdd) - 1
        <4> HIDE DEF toAdd
        <4>. QED BY <1>4, <3>1, FS_RemoveElement
      <3>. QED BY <1>3, <1>4, <1>5, <2>1, <2>2, <2>4, <2>5, <3>2
    <2>6. CASE ~(i = pkt[c].iface /\ d = pkt[c].dir)
      <3>1. toAdd' = toAdd
        BY <1>9, <2>3, <2>6 DEF Pending, Busy
      <3>. QED BY <1>3, <1>5, <2>1, <2>2, <2>4, <2>6, <3>1
    <2>. QED BY <2>5, <2>6
  <1>10. ASSUME \/ \E c \in Cpus : Lookup(c) \/ Update(c) \/ Relookup(c)
                \/ UpdateOnce
                \/ \E k \in Ifaces : IfaceUp(k) \/ IfaceDown(k),
                Busy' = Busy, BusyBytes' = BusyBytes
         PROVE  Goal
    <2>1. UNCHANGED <<pkt, seen>>
      BY <1>10 DEF Lookup, Update, Relookup, UpdateOnce, LoadEbpfProgram, StartRead, ReadEntry,
                   IfaceUp, IfaceDown, kernelVars
    <2>2. \A c \in Cpus : ~AddBytes(c) /\ ~AddPackets(c)
      <3>1. ASSUME NEW c \in Cpus, AddBytes(c) PROVE FALSE
        <4>1. c \in BusyBytes /\ c \notin BusyBytes'
          BY <1>1, <3>1 DEF AddBytes, BusyBytes, Busy, Goto, TypeOK
        <4>. QED BY <1>10, <4>1
      <3>2. ASSUME NEW c \in Cpus, AddPackets(c) PROVE FALSE
        <4>1. c \in Busy /\ c \notin Busy'
          BY <1>1, <3>2 DEF AddPackets, Busy, Goto, TypeOK
        <4>. QED BY <1>10, <4>1
      <3>. QED BY <3>1, <3>2
    <2>3. Counted(i)' = Counted(i)
      BY <2>2, OthersDoNotCount
    <2>. QED BY <1>6, <1>10, <2>1, <2>3
  <1>11. CASE UNCHANGED vars
    <2>1. UNCHANGED <<pkt, seen>> /\ Counted(i)' = Counted(i) /\ Busy' = Busy /\ BusyBytes' = BusyBytes
      BY <1>11 DEF vars, kernelVars, Counted, Busy, BusyBytes
    <2>. QED BY <1>6, <2>1
  <1>12. CASE Next
    <2> SUFFICES Goal
      OBVIOUS
    <2> HIDE DEF Goal
    <2>1. CASE \E c \in Cpus :
                 /\ Hook(c)
                 /\ c \notin Busy /\ Busy' = Busy \cup {c}
                 /\ c \notin BusyBytes /\ BusyBytes' = BusyBytes \cup {c}
      BY <1>7, <2>1
    <2>2. CASE \E c \in Cpus :
                 /\ AddBytes(c)
                 /\ c \in BusyBytes
                 /\ Busy' = Busy /\ BusyBytes' = BusyBytes \ {c}
      BY <1>8, <2>2
    <2>3. CASE \E c \in Cpus :
                 /\ AddPackets(c)
                 /\ c \in Busy /\ c \notin BusyBytes
                 /\ Busy' = Busy \ {c} /\ BusyBytes' = BusyBytes
      BY <1>9, <2>3
    <2>4. CASE /\ \/ \E c \in Cpus : Lookup(c) \/ Update(c) \/ Relookup(c)
                  \/ UpdateOnce
                  \/ \E k \in Ifaces : IfaceUp(k) \/ IfaceDown(k)
               /\ Busy' = Busy /\ BusyBytes' = BusyBytes
      BY <1>10, <2>4
    <2>. QED BY <1>1, <1>12, <2>1, <2>2, <2>3, <2>4, BusySteps
  <1>. QED BY <1>11, <1>12

-----------------------------------------------------------------------------
(* The theorems. *)

\* The inductive invariant holds in every state.
THEOREM InductiveInvariant == Spec => []IInv
  <1>1. Init => IInv
    BY InitEntries, InitTraffic, InitNothingLost DEF IInv
  <1>2. IInv /\ [Next]_vars => IInv'
    <2> SUFFICES ASSUME IInv, [Next]_vars PROVE IInv'
      OBVIOUS
    <2>1. EntriesInv'
      BY EntriesPreserved DEF IInv
    <2>2. CountersBehindTraffic'
      BY TrafficPreserved DEF IInv
    <2>3. AddsToItsEntry' /\ NothingLost'
      BY <2>1, AddsPreserved, NothingLostPreserved DEF IInv
    <2>. QED BY <2>1, <2>2, <2>3 DEF IInv
  <1>. QED BY <1>1, <1>2, PTL DEF Spec

\* Counters, pointers and rates keep their types, for any CPUs and interfaces.
THEOREM TypeCorrect == Spec => []TypeOK
  BY InductiveInvariant, PTL DEF IInv, EntriesInv

\* A CPU that created the entry of an interface never creates it again.
THEOREM CreatedOncePerCpu == Spec => []NoCpuCreatesTwice
  BY InductiveInvariant, PTL DEF IInv, EntriesInv

\* The counters of an interface never fall below what the reader has cached,
\* unless the entry was created since.
THEOREM CountersGrow == Spec => []CountersGrowBetweenReads
  BY InductiveInvariant, PTL DEF IInv, EntriesInv

\* As long as no two CPUs created the same entry, the table holds exactly what
\* passed the hooks whenever no program is running.
THEOREM ExactCounts == Spec => []ExactUnlessCreationRaced
  <1>1. IInv => ExactUnlessCreationRaced
    <2> SUFFICES ASSUME IInv, Quiet, Unraced, NEW i \in Ifaces, table[i] # NoElem
                 PROVE  elem[table[i]] = seen[i]
      BY DEF ExactUnlessCreationRaced
    <2>1. TypeOK
      BY DEF IInv, EntriesInv
    <2>2. elem[table[i]] \in Counters(Nat) /\ seen[i] \in Counters(Nat)
      BY <2>1 DEF TypeOK
    <2>3. ASSUME NEW d \in Dirs
          PROVE  elem[table[i]][d] = seen[i][d]
      <3>1. Busy = {} /\ BusyBytes = {}
        BY DEF Quiet, Busy, BusyBytes
      <3>2. Pending(i, d, Busy) = {} /\ PendingBytes(i, d) = {}
        BY <3>1 DEF Pending, PendingBytes
      <3>3. Cardinality(Pending(i, d, Busy)) = 0 /\ Cardinality(PendingBytes(i, d)) = 0
        BY <3>2, FS_EmptySet
      <3>4. /\ seen[i][d].packets = elem[table[i]][d].packets + 0
            /\ seen[i][d].bytes = elem[table[i]][d].bytes + 0
        BY <3>3 DEF IInv, NothingLost, Counted
      <3>5. elem[table[i]][d] \in [Fields -> Nat] /\ seen[i][d] \in [Fields -> Nat]
        BY <2>2 DEF Counters
      <3>6. /\ seen[i][d].packets = elem[table[i]][d].packets
            /\ seen[i][d].bytes = elem[table[i]][d].bytes
        BY <3>4, <3>5 DEF Fields
      <3>. QED BY <3>5, <3>6 DEF Fields
    <2>. QED BY <2>2, <2>3 DEF Counters
  <1>. QED BY <1>1, InductiveInvariant, PTL

\* No counter reaches the width of the type it is kept in.
LEMMA CountersBelowWrap ==
  ASSUME TypeOK, CountersBehindTraffic, NEW e \in Elems, NEW d \in Dirs, NEW f \in Fields
  PROVE  elem[e][d][f] \in 0 .. Wrap - 1
  <1> DEFINE most == MaxPackets * MaxLen
  <1>1. most < Wrap /\ most \in Nat /\ MaxPackets <= most
    BY NoOverflowAssumption
  <1>2. packets \in Nat /\ packets <= MaxPackets
    BY DEF TypeOK
  <1>3. MaxLen * packets \in Nat /\ MaxLen * packets <= most
    BY <1>2
  <1>4. elem[e][d].packets \in Nat /\ elem[e][d].bytes \in Nat
    BY DEF TypeOK, Counters, Fields
  <1>5. /\ Cardinality(Busy) \in Nat
        /\ MaxLen * Cardinality(BusyBytes) \in Nat
    BY BusyFinite
  <1>6. /\ elem[e][d].packets + Cardinality(Busy) <= packets
        /\ elem[e][d].bytes + MaxLen * Cardinality(BusyBytes) <= MaxLen * packets
    BY DEF CountersBehindTraffic
  <1> HIDE DEF most
  <1>7. elem[e][d].packets < Wrap /\ elem[e][d].bytes < Wrap
    BY <1>1, <1>2, <1>3, <1>4, <1>5, <1>6
  <1>. QED BY <1>4, <1>7 DEF Fields

\* The rates are what was counted between two reads, in the arithmetic of the
\* u64 difference, unless the entry was created again in between.
THEOREM RatesOfTheTraffic == Spec => RatesAreIncrements
  <1> DEFINE Step == \A i \in reading \ reading' :
                       i \notin fresh /\ last_net_info_[i] # NoStats =>
                         \A d \in Dirs, f \in Fields :
                           net_info'[i][d][f] = elem[table[i]][d][f] - last_net_info_[i][d][f]
  <1>1. IInv /\ [Next]_vars => [Step]_vars
    <2> SUFFICES ASSUME IInv, Next, NEW i \in reading \ reading',
                        i \notin fresh, last_net_info_[i] # NoStats,
                        NEW d \in Dirs, NEW f \in Fields
                 PROVE  net_info'[i][d][f] = elem[table[i]][d][f] - last_net_info_[i][d][f]
      BY Zenon
    <2>1. /\ TypeOK /\ EntryIfCreated /\ CountersGrowBetweenReads /\ CountersBehindTraffic
          /\ i \in Ifaces
      BY DEF IInv, EntriesInv, TypeOK
    <2>2. ReadEntry(i)
      <3>1. \/ UNCHANGED reading \/ StartRead \/ \E k \in Ifaces : ReadEntry(k)
        BY DEF Next, Program, UpdateOnce, Hook, Lookup, Update, Relookup, AddBytes, AddPackets,
               LoadEbpfProgram, IfaceUp, IfaceDown, readerVars
      <3>2. ~StartRead
        BY DEF StartRead
      <3>3. ASSUME NEW k \in Ifaces, ReadEntry(k) PROVE k = i
        BY <3>3 DEF ReadEntry
      <3>. QED BY <3>1, <3>2, <3>3
    <2> DEFINE now == elem[table[i]][d][f]
               last == last_net_info_[i][d][f]
    <2>3. net_info'[i][d][f] = Minus(now, last)
      BY <2>1, <2>2 DEF ReadEntry, Rates, TypeOK
    <2>4. now \in 0 .. Wrap - 1 /\ last \in Nat /\ last <= now
      <3>1. table[i] \in Elems /\ last_net_info_[i] \in Counters(Nat)
        BY <2>1 DEF TypeOK, EntryIfCreated
      <3>. QED BY <2>1, <3>1, CountersBelowWrap DEF Counters, CountersGrowBetweenReads
    <2> HIDE DEF now, last
    <2>5. now - last \in 0 .. Wrap - 1
      BY <2>4
    <2>6. (now - last) % Wrap = now - last
      BY <2>5
    <2>. QED BY <2>3, <2>6 DEF Minus, now, last
  <1>. QED BY <1>1, InductiveInvariant, PTL DEF Spec, RatesAreIncrements
=============================================================================
