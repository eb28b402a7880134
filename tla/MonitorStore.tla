---------------------------- MODULE MonitorStore ----------------------------
(***************************************************************************)
(* What the GrpcManager service of node_mid promises its callers: a table  *)
(* with the latest MonitorInfo of every name, on which SetMonitorInfo and  *)
(* GetMonitorInfo each take effect at one instant between the call's start *)
(* and its return.  GetMonitorInfo promises no particular name: it answers *)
(* with one of the stored reports, or with an empty message when there is  *)
(* none.                                                                   *)
(***************************************************************************)
CONSTANTS
  Threads,   \* server threads that can each be executing one call
  Names,     \* values of MonitorInfo.name a client reports under
  Data,      \* the rest of a MonitorInfo, as far as callers tell it apart
  NoInfo     \* a default-constructed MonitorInfo, not an element of Info

Info == [name : Names, data : Data]

VARIABLES
  store,     \* the latest report of each name, NoInfo if it has none
  call       \* the call each thread is executing

vars == <<store, call>>

Call(op, info) == [op |-> op, info |-> info]

Stored == {store[n] : n \in Names} \ {NoInfo}

Init ==
  /\ store = [n \in Names |-> NoInfo]
  /\ call = [t \in Threads |-> Call("idle", NoInfo)]

BeginSet(t) ==
  /\ call[t].op = "idle"
  /\ \E info \in Info : call' = [call EXCEPT ![t] = Call("set", info)]
  /\ UNCHANGED store

BeginGet(t) ==
  /\ call[t].op = "idle"
  /\ call' = [call EXCEPT ![t] = Call("get", NoInfo)]
  /\ UNCHANGED store

\* The instant at which a report replaces the previous one of its name.
ApplySet(t) ==
  /\ call[t].op = "set"
  /\ store' = [store EXCEPT ![call[t].info.name] = call[t].info]
  /\ call' = [call EXCEPT ![t] = Call("set_done", call[t].info)]

\* The instant at which the answer of a GetMonitorInfo is fixed.
ApplyGet(t) ==
  /\ call[t].op = "get"
  /\ \E info \in (IF Stored = {} THEN {NoInfo} ELSE Stored) :
       call' = [call EXCEPT ![t] = Call("get_done", info)]
  /\ UNCHANGED store

End(t) ==
  /\ call[t].op \in {"set_done", "get_done"}
  /\ call' = [call EXCEPT ![t] = Call("idle", NoInfo)]
  /\ UNCHANGED store

Next == \E t \in Threads :
  BeginSet(t) \/ BeginGet(t) \/ ApplySet(t) \/ ApplyGet(t) \/ End(t)

Spec == Init /\ [][Next]_vars
=============================================================================
