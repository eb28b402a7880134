------------------------- MODULE GrpcManager_proofs -------------------------
(***************************************************************************)
(* GrpcManagerImpl is linearizable, for any number of threads, names and   *)
(* payloads: type correctness, mutual exclusion, the inductive invariant,  *)
(* and the step simulation of MonitorStore.                                *)
(***************************************************************************)
EXTENDS GrpcManager, TLAPS

USE NoInfoAssumption, NoThreadAssumption

\* Init gives an empty map, a free mutex and idle threads.
LEMMA InitIInv == Init => IInv
  BY DEF Init, IInv, TypeOK, MutualExclusion, MessagesMatchLabels,
         InsertedBeforeAssigned, EmptyEntryIsBeingAssigned, FirstIsStored,
         CopyingFromNonEmpty, Stored, Labels, Setting, Answered, Guarded

\* Every step of every thread preserves the types.
LEMMA TypePreserved ==
  ASSUME TypeOK, MessagesMatchLabels, FirstIsStored, CopyingFromNonEmpty, [Next]_vars
  PROVE  TypeOK'
  <1> USE DEF TypeOK, Labels, Setting, Answered, Goto, Stored
  <1>1. CASE UNCHANGED vars
    BY <1>1 DEF vars
  <1>2. ASSUME NEW t \in Threads, InvokeSet(t) PROVE TypeOK'
    BY <1>2 DEF InvokeSet
  <1>3. ASSUME NEW t \in Threads, InvokeGet(t) PROVE TypeOK'
    BY <1>3 DEF InvokeGet
  <1>4. ASSUME NEW t \in Threads, Lock(t) PROVE TypeOK'
    BY <1>4 DEF Lock
  <1>5. ASSUME NEW t \in Threads, Unlock(t) PROVE TypeOK'
    BY <1>5 DEF Unlock
  <1>6. ASSUME NEW t \in Threads, SetInsert(t) PROVE TypeOK'
    <2>1. message[t] \in Info /\ message[t].name \in Names
      BY <1>6 DEF SetInsert, MessagesMatchLabels, Info
    <2>2. /\ Stored' = Stored \cup {message[t].name}
          /\ monitor_infos_map_' \in [Stored' -> Info \cup {NoInfo}]
      BY <1>6, <2>1 DEF SetInsert, Inserted
    <2>3. first' \in Names
      BY <1>6, <2>1 DEF SetInsert
    <2>. QED BY <1>6, <2>1, <2>2, <2>3 DEF SetInsert
  <1>7. ASSUME NEW t \in Threads, SetAssign(t) PROVE TypeOK'
    BY <1>7 DEF SetAssign
  <1>8. ASSUME NEW t \in Threads, GetTest(t) PROVE TypeOK'
    BY <1>8 DEF GetTest
  <1>9. ASSUME NEW t \in Threads, GetCopy(t) PROVE TypeOK'
    <2>1. monitor_infos_map_[first] \in Info \cup {NoInfo}
      BY <1>9 DEF GetCopy, FirstIsStored, CopyingFromNonEmpty
    <2>. QED BY <1>9, <2>1 DEF GetCopy
  <1>10. ASSUME NEW t \in Threads, Return(t) PROVE TypeOK'
    BY <1>10 DEF Return
  <1>. QED
    BY <1>1, <1>2, <1>3, <1>4, <1>5, <1>6, <1>7, <1>8, <1>9, <1>10 DEF Next, Handler

\* Mutual exclusion needs nothing but the types: mtx_ is taken only when free,
\* and only its owner gives it back.
LEMMA MutualExclusionPreserved ==
  ASSUME TypeOK, MutualExclusion, [Next]_vars
  PROVE  MutualExclusion'
  <1> USE DEF TypeOK, MutualExclusion, Guarded, Labels, Setting, Answered, Goto
  <1>1. CASE UNCHANGED vars
    BY <1>1 DEF vars
  <1>2. ASSUME NEW t \in Threads, Lock(t) PROVE MutualExclusion'
    BY <1>2 DEF Lock
  <1>3. ASSUME NEW t \in Threads, Unlock(t) PROVE MutualExclusion'
    BY <1>3 DEF Unlock
  <1>4. ASSUME NEW t \in Threads,
               InvokeSet(t) \/ InvokeGet(t) \/ SetInsert(t) \/ SetAssign(t)
                 \/ GetTest(t) \/ GetCopy(t) \/ Return(t)
        PROVE  MutualExclusion'
    BY <1>4 DEF InvokeSet, InvokeGet, SetInsert, SetAssign, GetTest, GetCopy, Return
  <1>. QED
    BY <1>1, <1>2, <1>3, <1>4 DEF Next, Handler

\* What a message is at each label, and that the map only grows.
LEMMA MessagesPreserved ==
  ASSUME TypeOK, MessagesMatchLabels, [Next]_vars
  PROVE  MessagesMatchLabels'
  <1> USE DEF TypeOK, MessagesMatchLabels, Labels, Setting, Answered, Goto
  <1>1. CASE UNCHANGED vars
    BY <1>1 DEF vars
  <1>2. ASSUME NEW t \in Threads,
               InvokeSet(t) \/ InvokeGet(t) \/ Lock(t) \/ Unlock(t) \/ Return(t)
        PROVE  MessagesMatchLabels'
    BY <1>2 DEF InvokeSet, InvokeGet, Lock, Unlock, Return
  <1>3. ASSUME NEW t \in Threads,
               SetInsert(t) \/ SetAssign(t) \/ GetTest(t) \/ GetCopy(t)
        PROVE  MessagesMatchLabels'
    BY <1>3 DEF SetInsert, SetAssign, GetTest, GetCopy
  <1>. QED
    BY <1>1, <1>2, <1>3 DEF Next, Handler

\* A default-inserted entry makes its name stored and leaves the others alone.
LEMMA InsertKeepsEntries ==
  ASSUME NEW n
  PROVE  /\ DOMAIN Inserted(n) = Stored \cup {n}
         /\ \A m \in Stored : Inserted(n)[m] = monitor_infos_map_[m]
  BY DEF Inserted, Stored

LEMMA IInvPreserved == IInv /\ [Next]_vars => IInv'
  <1> SUFFICES ASSUME IInv, [Next]_vars PROVE IInv'
    OBVIOUS
  <1> USE DEF IInv
  <1>1. TypeOK' /\ MutualExclusion' /\ MessagesMatchLabels'
    BY TypePreserved, MutualExclusionPreserved, MessagesPreserved
  <1> DEFINE Rest == /\ InsertedBeforeAssigned
                     /\ EmptyEntryIsBeingAssigned
                     /\ FirstIsStored
                     /\ CopyingFromNonEmpty
  <1> USE DEF InsertedBeforeAssigned, EmptyEntryIsBeingAssigned, FirstIsStored,
              CopyingFromNonEmpty, TypeOK, Goto
  <1>2. CASE UNCHANGED vars
    BY <1>1, <1>2 DEF vars, Stored
  <1>3. ASSUME NEW t \in Threads,
               InvokeSet(t) \/ InvokeGet(t) \/ Lock(t) \/ Unlock(t) \/ Return(t)
        PROVE  Rest'
    BY <1>3 DEF InvokeSet, InvokeGet, Lock, Unlock, Return, Stored
  <1>4. ASSUME NEW t \in Threads, SetInsert(t)
        PROVE  Rest'
    <2> DEFINE name == message[t].name
    <2>1. /\ Stored' = Stored \cup {name}
          /\ \A m \in Stored : monitor_infos_map_'[m] = monitor_infos_map_[m]
      BY <1>4, InsertKeepsEntries DEF SetInsert, Stored
    <2>2. /\ message' = message
          /\ pc' = [pc EXCEPT ![t] = "set_assign"]
          /\ pc[t] = "set_insert"
      BY <1>4 DEF SetInsert
    <2>3. InsertedBeforeAssigned'
      BY <2>1, <2>2
    <2>4. EmptyEntryIsBeingAssigned'
      <3> SUFFICES ASSUME NEW n \in Stored'
                   PROVE  \/ monitor_infos_map_'[n] \in Info /\ monitor_infos_map_'[n].name = n
                          \/ \E u \in Threads : pc'[u] = "set_assign" /\ message'[u].name = n
        OBVIOUS
      <3>1. CASE n = name
        BY <3>1, <2>2
      <3>2. CASE n \in Stored
        BY <3>2, <2>1, <2>2
      <3>. QED BY <2>1, <3>1, <3>2
    <2>5. FirstIsStored'
      BY <1>4, <2>1 DEF SetInsert
    <2>6. CopyingFromNonEmpty'
      BY <2>1, <2>2
    <2>. QED BY <2>3, <2>4, <2>5, <2>6
  <1>5. ASSUME NEW t \in Threads, SetAssign(t)
        PROVE  Rest'
    <2> DEFINE name == message[t].name
    <2>1. name \in Stored /\ message[t] \in Info
      BY <1>5 DEF SetAssign, MessagesMatchLabels, Setting
    <2>2. /\ Stored' = Stored
          /\ monitor_infos_map_' = [monitor_infos_map_ EXCEPT ![name] = message[t]]
          /\ message' = message
          /\ pc' = [pc EXCEPT ![t] = "set_unlock"]
      BY <1>5, <2>1 DEF SetAssign, Stored
    <2>3. EmptyEntryIsBeingAssigned'
      <3> SUFFICES ASSUME NEW n \in Stored
                   PROVE  \/ monitor_infos_map_'[n] \in Info /\ monitor_infos_map_'[n].name = n
                          \/ \E u \in Threads : pc'[u] = "set_assign" /\ message'[u].name = n
        BY <2>2
      <3>1. CASE n = name
        BY <3>1, <2>1, <2>2
      <3>2. CASE n # name
        BY <3>2, <2>1, <2>2
      <3>. QED BY <3>1, <3>2
    <2>. QED BY <1>5, <2>2, <2>3 DEF SetAssign
  <1>6. ASSUME NEW t \in Threads, GetTest(t) \/ GetCopy(t)
        PROVE  Rest'
    BY <1>6 DEF GetTest, GetCopy, Stored, MessagesMatchLabels, Setting
  <1>. QED
    BY <1>1, <1>2, <1>3, <1>4, <1>5, <1>6 DEF Next, Handler

THEOREM InductiveInvariant == Spec => []IInv
  BY InitIInv, IInvPreserved, PTL DEF Spec

\* The map, the mutex and the calls keep their types, for any number of
\* threads, names and payloads.
THEOREM TypeCorrect == Spec => []TypeOK
  BY InductiveInvariant, PTL DEF IInv

\* The bodies of two calls never overlap.
THEOREM Exclusion == Spec => []MutualExclusion
  BY InductiveInvariant, PTL DEF IInv

\* With the mutex free, every entry is a whole report under its own name.
THEOREM NoHalfInsertedEntry == Spec => []EntriesComplete
  <1>1. IInv => EntriesComplete
    BY DEF IInv, EntriesComplete, MutualExclusion, EmptyEntryIsBeingAssigned, Guarded
  <1>. QED BY <1>1, InductiveInvariant, PTL

(***************************************************************************)
(* Linearizability: SetAssign is the instant at which MonitorStore applies *)
(* a report, GetTest on an empty map and GetCopy are those at which it     *)
(* fixes an answer, and every other step inside a handler is invisible.    *)
(***************************************************************************)
LEMMA AbstractOps ==
  /\ OpAt("idle") = "idle"
  /\ \A l \in {"set_lock", "set_insert", "set_assign"} : OpAt(l) = "set"
  /\ \A l \in {"set_unlock", "set_return"} : OpAt(l) = "set_done"
  /\ \A l \in {"get_lock", "get_test", "get_copy"} : OpAt(l) = "get"
  /\ \A l \in {"get_unlock", "get_return"} : OpAt(l) = "get_done"
  BY DEF OpAt, Answered

LEMMA InitRefines == Init => Store!Init
  BY AbstractOps DEF Init, Store!Init, StoreOf, CallOf, Store!Call, Stored

LEMMA StepRefines == IInv /\ [Next]_vars => [Store!Next]_(Store!vars)
  <1> SUFFICES ASSUME IInv, [Next]_vars
               PROVE  [Store!Next]_(Store!vars)
    OBVIOUS
  <1> USE AbstractOps DEF IInv, TypeOK, Goto, Store!Call, CallOf
  <1> DEFINE calls == [u \in Threads |-> CallOf(u)]
  <1>1. CASE UNCHANGED vars
    BY <1>1 DEF vars, Store!vars, StoreOf, Stored
  <1>2. ASSUME NEW t \in Threads, InvokeSet(t)
        PROVE  Store!BeginSet(t)
    <2>1. PICK info \in Info : message' = [message EXCEPT ![t] = info]
      BY <1>2 DEF InvokeSet
    <2>2. calls' = [calls EXCEPT ![t] = Store!Call("set", info)]
      BY <1>2, <2>1 DEF InvokeSet
    <2>3. UNCHANGED StoreOf
      BY <1>2 DEF InvokeSet, StoreOf, Stored
    <2>. QED BY <1>2, <2>2, <2>3 DEF InvokeSet, Store!BeginSet, Store!Info, Info
  <1>3. ASSUME NEW t \in Threads, InvokeGet(t)
        PROVE  Store!BeginGet(t)
    <2>1. message[t] = NoInfo
      BY <1>3 DEF InvokeGet, MessagesMatchLabels
    <2>2. calls' = [calls EXCEPT ![t] = Store!Call("get", NoInfo)]
      BY <1>3, <2>1 DEF InvokeGet
    <2>3. UNCHANGED StoreOf
      BY <1>3 DEF InvokeGet, StoreOf, Stored
    <2>. QED BY <1>3, <2>2, <2>3 DEF InvokeGet, Store!BeginGet
  <1>4. ASSUME NEW t \in Threads, Lock(t) \/ Unlock(t)
        PROVE  UNCHANGED Store!vars
    <2>1. calls' = calls
      BY <1>4 DEF Lock, Unlock
    <2>. QED BY <1>4, <2>1 DEF Lock, Unlock, Store!vars, StoreOf, Stored
  <1>5. ASSUME NEW t \in Threads, SetInsert(t)
        PROVE  UNCHANGED Store!vars
    <2> DEFINE name == message[t].name
    <2>1. /\ Stored' = Stored \cup {name}
          /\ \A m \in Stored : monitor_infos_map_'[m] = monitor_infos_map_[m]
          /\ name \notin Stored => monitor_infos_map_'[name] = NoInfo
      BY <1>5, InsertKeepsEntries DEF SetInsert, Stored, Inserted
    <2>2. UNCHANGED StoreOf
      BY <2>1 DEF StoreOf
    <2>3. calls' = calls
      BY <1>5 DEF SetInsert
    <2>. QED BY <2>2, <2>3 DEF Store!vars
  <1>6. ASSUME NEW t \in Threads, SetAssign(t)
        PROVE  Store!ApplySet(t)
    <2> DEFINE name == message[t].name
    <2>1. /\ name \in Stored
          /\ message[t] \in Info
      BY <1>6 DEF SetAssign, MessagesMatchLabels, InsertedBeforeAssigned, Setting
    <2>2. StoreOf' = [StoreOf EXCEPT ![name] = message[t]]
      BY <1>6, <2>1 DEF SetAssign, StoreOf, Stored
    <2>3. calls' = [calls EXCEPT ![t] = Store!Call("set_done", message[t])]
      BY <1>6 DEF SetAssign
    <2>. QED BY <1>6, <2>2, <2>3 DEF SetAssign, Store!ApplySet
  <1>7. ASSUME NEW t \in Threads, pc[t] \in {"get_test", "get_copy"}
        PROVE  \A n \in Stored : monitor_infos_map_[n] \in Store!Stored
    <2>1. \A u \in Threads : pc[u] # "set_assign"
      BY <1>7 DEF MutualExclusion, Guarded
    <2>2. ASSUME NEW n \in Stored
          PROVE  StoreOf[n] = monitor_infos_map_[n] /\ monitor_infos_map_[n] # NoInfo
      BY <2>1, NoInfoAssumption DEF EmptyEntryIsBeingAssigned, StoreOf
    <2>. QED BY <2>2 DEF Store!Stored
  <1>8. ASSUME NEW t \in Threads, GetTest(t)
        PROVE  Store!ApplyGet(t) \/ UNCHANGED Store!vars
    <2>1. UNCHANGED StoreOf
      BY <1>8 DEF GetTest, StoreOf, Stored
    <2>2. CASE Stored = {}
      <3>1. Store!Stored = {}
        BY <2>2 DEF Store!Stored, StoreOf
      <3>2. message[t] = NoInfo
        BY <1>8 DEF GetTest, MessagesMatchLabels
      <3>3. calls' = [calls EXCEPT ![t] = Store!Call("get_done", NoInfo)]
        BY <1>8, <2>2, <3>2 DEF GetTest
      <3>. QED BY <1>8, <2>1, <3>1, <3>3 DEF GetTest, Store!ApplyGet
    <2>3. CASE Stored # {}
      <3>1. calls' = calls
        BY <1>8, <2>3 DEF GetTest
      <3>. QED BY <2>1, <3>1 DEF Store!vars
    <2>. QED BY <2>2, <2>3
  <1>9. ASSUME NEW t \in Threads, GetCopy(t)
        PROVE  Store!ApplyGet(t)
    <2> DEFINE answer == monitor_infos_map_[first]
    <2>1. answer \in Store!Stored
      BY <1>9, <1>7 DEF GetCopy, FirstIsStored, CopyingFromNonEmpty
    <2>2. calls' = [calls EXCEPT ![t] = Store!Call("get_done", answer)]
      BY <1>9 DEF GetCopy
    <2>3. UNCHANGED StoreOf
      BY <1>9 DEF GetCopy, StoreOf, Stored
    <2>. QED BY <1>9, <2>1, <2>2, <2>3 DEF GetCopy, Store!ApplyGet
  <1>10. ASSUME NEW t \in Threads, Return(t)
         PROVE  Store!End(t)
    <2>1. calls' = [calls EXCEPT ![t] = Store!Call("idle", NoInfo)]
      BY <1>10 DEF Return
    <2>2. UNCHANGED StoreOf
      BY <1>10 DEF Return, StoreOf, Stored
    <2>. QED BY <1>10, <2>1, <2>2 DEF Return, Store!End
  <1>. QED
    BY <1>1, <1>2, <1>3, <1>4, <1>5, <1>6, <1>8, <1>9, <1>10
    DEF Next, Handler, Store!Next

\* GrpcManagerImpl implements the atomic table MonitorStore, for any number of
\* server threads: every answer of GetMonitorInfo is a report the table held,
\* or the empty message if it held none, at an instant within the call.
THEOREM ImplementsStore == Spec => Linearizable
  BY InitRefines, StepRefines, InductiveInvariant, PTL
  DEF Spec, Linearizable, Store!Spec
=============================================================================
