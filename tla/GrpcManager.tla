---------------------------- MODULE GrpcManager -----------------------------
(***************************************************************************)
(* GrpcManagerImpl (rpc/server): the gRPC service of node_mid.  gRPC runs  *)
(* its two handlers on a pool of threads, so any number of calls overlap;  *)
(* a std::lock_guard on mtx_ serialises their bodies.  A body is modelled  *)
(* statement by statement: `monitor_infos_map_[username] = *request` first *)
(* default-inserts the entry of an unknown name and then assigns to it,    *)
(* and GetMonitorInfo tests for emptiness before it copies begin().        *)
(*                                                                         *)
(* monitor_infos_map_ is a std::unordered_map: which entry begin() yields  *)
(* is unspecified, and can only change when an insertion does (a new node  *)
(* may go first and a rehash may reorder all of them).                     *)
(***************************************************************************)
CONSTANTS
  Threads,   \* threads of the gRPC server
  Names,     \* values of MonitorInfo.name
  Data,      \* the rest of a MonitorInfo
  NoInfo,    \* a default-constructed MonitorInfo
  NoThread   \* mtx_ is free

Info == [name : Names, data : Data]

ASSUME NoInfoAssumption   == NoInfo \notin Info
ASSUME NoThreadAssumption == NoThread \notin Threads

VARIABLES
  monitor_infos_map_,  \* from the names seen so far to their MonitorInfo
  first,               \* the name whose entry begin() yields
  mtx_,                \* the thread that holds the mutex, or NoThread
  pc,                  \* where each thread is
  message              \* *request of a Set call, *response of a Get call

vars == <<monitor_infos_map_, first, mtx_, pc, message>>

Stored == DOMAIN monitor_infos_map_

Goto(t, label) == pc' = [pc EXCEPT ![t] = label]

Init ==
  /\ monitor_infos_map_ = [n \in {} |-> NoInfo]
  /\ first \in Names             \* not read while the map is empty
  /\ mtx_ = NoThread
  /\ pc = [t \in Threads |-> "idle"]
  /\ message = [t \in Threads |-> NoInfo]

(***************************************************************************)
(* The gRPC runtime hands an incoming call to an idle thread.              *)
(***************************************************************************)
InvokeSet(t) ==
  /\ pc[t] = "idle"
  /\ \E info \in Info : message' = [message EXCEPT ![t] = info]
  /\ Goto(t, "set_lock")
  /\ UNCHANGED <<monitor_infos_map_, first, mtx_>>

InvokeGet(t) ==
  /\ pc[t] = "idle"
  /\ Goto(t, "get_lock")
  /\ UNCHANGED <<monitor_infos_map_, first, mtx_, message>>

(***************************************************************************)
(* std::lock_guard<std::mutex> lock(mtx_): constructor and destructor.     *)
(***************************************************************************)
Lock(t) ==
  /\ mtx_ = NoThread
  /\ mtx_' = t
  /\ \/ pc[t] = "set_lock" /\ Goto(t, "set_insert")
     \/ pc[t] = "get_lock" /\ Goto(t, "get_test")
  /\ UNCHANGED <<monitor_infos_map_, first, message>>

Unlock(t) ==
  /\ \/ pc[t] = "set_unlock" /\ Goto(t, "set_return")
     \/ pc[t] = "get_unlock" /\ Goto(t, "get_return")
  /\ mtx_' = NoThread
  /\ UNCHANGED <<monitor_infos_map_, first, message>>

(***************************************************************************)
(* SetMonitorInfo.                                                         *)
(***************************************************************************)
Inserted(n) == [m \in Stored \cup {n} |->
                  IF m \in Stored THEN monitor_infos_map_[m] ELSE NoInfo]

\* Variant: the entry is created and nothing is assigned to it.
SetInsert_only(t) ==
  LET username == message[t].name IN
  /\ pc[t] = "set_insert"
  /\ monitor_infos_map_' = Inserted(username)
  /\ IF username \in Stored THEN UNCHANGED first
                            ELSE first' \in Stored \cup {username}
  /\ Goto(t, "set_unlock")
  /\ UNCHANGED <<mtx_, message>>

SetInsert(t) ==
  LET username == message[t].name IN
  /\ pc[t] = "set_insert"
  /\ monitor_infos_map_' = Inserted(username)
  /\ IF username \in Stored THEN UNCHANGED first
                            ELSE first' \in Stored \cup {username}
  /\ Goto(t, "set_assign")
  /\ UNCHANGED <<mtx_, message>>

\* Variant: map::insert, which keeps the entry of a known name.
SetAssign_insert(t) ==
  LET username == message[t].name IN
  /\ pc[t] = "set_assign"
  /\ monitor_infos_map_' = IF monitor_infos_map_[username] = NoInfo
                             THEN [monitor_infos_map_ EXCEPT ![username] = message[t]]
                             ELSE monitor_infos_map_
  /\ Goto(t, "set_unlock")
  /\ UNCHANGED <<first, mtx_, message>>

SetAssign(t) ==
  /\ pc[t] = "set_assign"
  /\ monitor_infos_map_' = [monitor_infos_map_ EXCEPT ![message[t].name] = message[t]]
  /\ Goto(t, "set_unlock")
  /\ UNCHANGED <<first, mtx_, message>>

(***************************************************************************)
(* GetMonitorInfo.                                                         *)
(***************************************************************************)
\* Variant: a plain lock() and unlock(), and an early return between them.
GetTest_early_return(t) ==
  /\ pc[t] = "get_test"
  /\ Goto(t, IF Stored = {} THEN "get_return" ELSE "get_copy")
  /\ UNCHANGED <<monitor_infos_map_, first, mtx_, message>>

GetTest(t) ==
  /\ pc[t] = "get_test"
  /\ Goto(t, IF Stored = {} THEN "get_unlock" ELSE "get_copy")
  /\ UNCHANGED <<monitor_infos_map_, first, mtx_, message>>

GetCopy(t) ==
  /\ pc[t] = "get_copy"
  /\ message' = [message EXCEPT ![t] = monitor_infos_map_[first]]
  /\ Goto(t, "get_unlock")
  /\ UNCHANGED <<monitor_infos_map_, first, mtx_>>

\* Variant: the response object is reused for the thread's next call.
Return_keeps_message(t) ==
  /\ pc[t] \in {"set_return", "get_return"}
  /\ Goto(t, "idle")
  /\ UNCHANGED <<monitor_infos_map_, first, mtx_, message>>

\* return Status::OK: the answer leaves the server and the thread is free.
Return(t) ==
  /\ pc[t] \in {"set_return", "get_return"}
  /\ Goto(t, "idle")
  /\ message' = [message EXCEPT ![t] = NoInfo]
  /\ UNCHANGED <<monitor_infos_map_, first, mtx_>>

Handler(t) ==
  \/ Lock(t) \/ SetInsert(t) \/ SetAssign(t) \/ GetTest(t) \/ GetCopy(t)
  \/ Unlock(t) \/ Return(t)

Next == \E t \in Threads : InvokeSet(t) \/ InvokeGet(t) \/ Handler(t)

Spec == Init /\ [][Next]_vars

\* A thread of the pool that can run is eventually scheduled.  Nothing is
\* assumed about which of several waiters std::mutex wakes.
FairSpec == Spec /\ \A t \in Threads : WF_vars(Handler(t))

-----------------------------------------------------------------------------
Guarded == {"set_insert", "set_assign", "set_unlock", "get_test", "get_copy", "get_unlock"}
Setting == {"set_lock", "set_insert", "set_assign", "set_unlock", "set_return"}
Answered == {"get_unlock", "get_return"}
Labels  == {"idle", "get_lock", "get_test", "get_copy"} \cup Setting \cup Answered

TypeOK ==
  /\ Stored \subseteq Names
  /\ monitor_infos_map_ \in [Stored -> Info \cup {NoInfo}]
  /\ first \in Names
  /\ mtx_ \in Threads \cup {NoThread}
  /\ pc \in [Threads -> Labels]
  /\ message \in [Threads -> Info \cup {NoInfo}]

\* A thread is inside a handler's body exactly while it owns mtx_, so no two
\* calls are ever both between taking the lock_guard and leaving its scope.
MutualExclusion == \A t \in Threads : pc[t] \in Guarded <=> mtx_ = t

\* Whenever mtx_ is free every entry of the map is a whole report, stored
\* under its own name: the default-inserted entry of operator[] never
\* outlives the critical section.
EntriesComplete ==
  mtx_ = NoThread => \A n \in Stored : /\ monitor_infos_map_[n] # NoInfo
                                       /\ monitor_infos_map_[n].name = n

(***************************************************************************)
(* The inductive invariant.  Beyond types and mutual exclusion it says     *)
(* which message a thread carries at each label, that an entry without a   *)
(* report exists only between the two statements of an insertion, and that *)
(* begin() is a real entry as soon as there is one.                        *)
(***************************************************************************)
MessagesMatchLabels == \A t \in Threads :
  /\ pc[t] \in Setting => message[t] \in Info
  /\ pc[t] \in {"idle", "get_lock", "get_test", "get_copy"} => message[t] = NoInfo

InsertedBeforeAssigned == \A t \in Threads :
  pc[t] = "set_assign" => message[t].name \in Stored

EmptyEntryIsBeingAssigned == \A n \in Stored :
  \/ monitor_infos_map_[n] \in Info /\ monitor_infos_map_[n].name = n
  \/ \E t \in Threads : pc[t] = "set_assign" /\ message[t].name = n

FirstIsStored == Stored # {} => first \in Stored

CopyingFromNonEmpty == \A t \in Threads : pc[t] = "get_copy" => Stored # {}

\* What holds at every step of every thread: in particular begin() is never
\* dereferenced on an empty map (line 28), and the report a thread stores is
\* the one it was called with.
IInv ==
  /\ TypeOK
  /\ MutualExclusion
  /\ MessagesMatchLabels
  /\ InsertedBeforeAssigned
  /\ EmptyEntryIsBeingAssigned
  /\ FirstIsStored
  /\ CopyingFromNonEmpty

\* Every thread that takes mtx_ gives it back, on every path of both
\* handlers (the early "map is empty" path included).
GuardReleased == \A t \in Threads : (mtx_ = t) ~> (mtx_ # t)

(***************************************************************************)
(* The refinement: a name with a default-inserted entry counts as not yet  *)
(* stored, and a call is over for its caller only at Return.               *)
(***************************************************************************)
StoreOf == [n \in Names |-> IF n \in Stored THEN monitor_infos_map_[n] ELSE NoInfo]

OpAt(label) ==
  CASE label \in {"set_lock", "set_insert", "set_assign"} -> "set"
    [] label \in {"set_unlock", "set_return"}             -> "set_done"
    [] label \in {"get_lock", "get_test", "get_copy"}     -> "get"
    [] label \in Answered                                 -> "get_done"
    [] OTHER                                              -> "idle"

CallOf(t) == [op |-> OpAt(pc[t]), info |-> message[t]]

Store == INSTANCE MonitorStore
           WITH store <- StoreOf, call <- [t \in Threads |-> CallOf(t)]

\* The service behaves as an atomic table: every answer is one the table
\* could have given at an instant within the call (linearizability).
Linearizable == Store!Spec
=============================================================================
