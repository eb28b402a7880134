----------------------------- MODULE ReportPath ------------------------------
(***************************************************************************)
(* The way of a report: node_clients sample and send it, the GrpcManager   *)
(* service of one node_mid stores it, node_server polls it.  The service   *)
(* is the atomic table that GrpcManager implements (MonitorStore), and a   *)
(* turn of the polling loop is one step, as its tables allow               *)
(* (AgentManager!TablesAgree).  What is added is what happens between      *)
(* them: a client gives up a call whose connection breaks, while the       *)
(* server may still be executing it, a client can die for good, and        *)
(* node_mid can be restarted, which loses the table.                       *)
(*                                                                         *)
(* A report is known by its client and its number; neither is sent.        *)
(***************************************************************************)
EXTENDS Integers, FiniteSets

CONSTANTS
  Clients,      \* node_clients
  Names,        \* their user names
  UserOf,       \* the user each client runs as
  Calls,        \* SetMonitorInfo calls the server can be executing
  MaxSeq,       \* bound: later reports of a client carry this number too
  MaxBreaks,    \* bound on the calls of one client that fail on the way
  MaxDeaths,    \* bound on the clients that die
  MaxRestarts   \* bound on the restarts of node_mid

ASSUME UserOfAssumption == UserOf \in [Clients -> Names]
ASSUME BoundsAssumption == MaxSeq \in Nat \ {0} /\ MaxBreaks \in Nat /\ MaxDeaths \in Nat
                           /\ MaxRestarts \in Nat

VARIABLES
  pc,        \* where each client's loop is
  seq,       \* the number of its latest report
  call,      \* what each call slot of the server holds
  up,        \* node_mid is running
  store,     \* monitor_infos_map_: the report under each name
  first,     \* the name whose entry begin() yields
  scores,    \* agent_scores_ of node_server
  breaks,    \* the broken calls of each client so far
  restarts,  \* the restarts so far
  acked      \* history: the last report each client was told is stored, since the restart

vars == <<pc, seq, call, up, store, first, scores, breaks, restarts, acked>>

Free == [client |-> "none", seq |-> 0, awaited |-> FALSE]

Request(c) == [client |-> c, seq |-> seq[c], awaited |-> TRUE]

Report(c, n) == [client |-> c, seq |-> n]

Stored == DOMAIN store

NoReports == [n \in {} |-> Report("none", 0)]

Upsert(f, key, value) == [k \in DOMAIN f \cup {key} |-> IF k = key THEN value ELSE f[k]]

Init ==
  /\ pc = [c \in Clients |-> "sample"]
  /\ seq = [c \in Clients |-> 0]
  /\ call = [k \in Calls |-> Free]
  /\ up = TRUE
  /\ store = NoReports
  /\ first \in Names            \* not read while the table is empty
  /\ scores = NoReports
  /\ breaks = [c \in Clients |-> 0]
  /\ restarts = 0
  /\ acked = [c \in Clients |-> 0]

-----------------------------------------------------------------------------
(* The loop of node_client: a report, a call, a sleep of three seconds. *)

Sample(c) ==
  /\ pc[c] = "sample"
  /\ seq' = [seq EXCEPT ![c] = IF @ < MaxSeq THEN @ + 1 ELSE MaxSeq]
  /\ pc' = [pc EXCEPT ![c] = "call"]
  /\ UNCHANGED <<call, up, store, first, scores, breaks, restarts, acked>>

\* Variant: the call is issued and its end is not waited for.
Send_async(c) ==
  /\ pc[c] = "call" /\ up
  /\ \E k \in Calls : call[k] = Free /\ call' = [call EXCEPT ![k] = Request(c)]
  /\ pc' = [pc EXCEPT ![c] = "sample"]
  /\ UNCHANGED <<seq, up, store, first, scores, breaks, restarts, acked>>

\* stub_ptr_->SetMonitorInfo: the request reaches the server.
Send(c) ==
  /\ pc[c] = "call" /\ up
  /\ \E k \in Calls : call[k] = Free /\ call' = [call EXCEPT ![k] = Request(c)]
  /\ pc' = [pc EXCEPT ![c] = "wait"]
  /\ UNCHANGED <<seq, up, store, first, scores, breaks, restarts, acked>>

\* node_mid is not there: status is UNAVAILABLE, which is only printed.
SendFails(c) ==
  /\ pc[c] = "call" /\ ~up
  /\ pc' = [pc EXCEPT ![c] = "sample"]
  /\ UNCHANGED <<seq, call, up, store, first, scores, breaks, restarts, acked>>

\* The answer arrives.
Answer(c) ==
  /\ pc[c] = "answered"
  /\ acked' = [acked EXCEPT ![c] = seq[c]]
  /\ pc' = [pc EXCEPT ![c] = "sample"]
  /\ UNCHANGED <<seq, call, up, store, first, scores, breaks, restarts>>

\* The call of c, if the server has it, is no longer waited for.
Abandoned(c) == [k \in Calls |-> IF call[k].client = c THEN [call[k] EXCEPT !.awaited = FALSE]
                                                      ELSE call[k]]

\* The connection breaks: the client prints an error and goes on with its next
\* report.  The server goes on with the request if it has it.
Break(c) ==
  /\ pc[c] \in {"call", "wait", "answered"}
  /\ breaks[c] < MaxBreaks
  /\ breaks' = [breaks EXCEPT ![c] = @ + 1]
  /\ call' = Abandoned(c)
  /\ pc' = [pc EXCEPT ![c] = "sample"]
  /\ UNCHANGED <<seq, up, store, first, scores, restarts, acked>>

Dead == {c \in Clients : pc[c] = "dead"}

\* The process dies, or its host does.  Nobody takes its report back.
Die(c) ==
  /\ c \notin Dead /\ Cardinality(Dead) < MaxDeaths
  /\ pc' = [pc EXCEPT ![c] = "dead"]
  /\ call' = Abandoned(c)
  /\ UNCHANGED <<seq, up, store, first, scores, breaks, restarts, acked>>

-----------------------------------------------------------------------------
(* node_mid. *)

\* Variant: map::insert, which keeps the report of a known name.
Put_insert(n, report) == IF n \in Stored THEN store ELSE Upsert(store, n, report)

\* Variant: the table is keyed by the client and not by its user.
Put_by_client(n, report) == Upsert(store, report.client, report)

Put(n, report) == Upsert(store, n, report)

\* A call takes effect, and is answered if its client still waits.
Apply(k) ==
  LET r == call[k]
      n == UserOf[r.client]
  IN  /\ up /\ r # Free
      /\ store' = Put(n, Report(r.client, r.seq))
      /\ IF n \in Stored THEN UNCHANGED first ELSE first' \in Stored \cup {n}
      /\ call' = [call EXCEPT ![k] = Free]
      /\ pc' = IF r.awaited THEN [pc EXCEPT ![r.client] = "answered"] ELSE pc
      /\ UNCHANGED <<seq, up, scores, breaks, restarts, acked>>

\* Variant: a call that dies with the server never returns.
GivenUp_waits == pc

\* A client whose call dies with the server gets an error and goes on.
GivenUp == [c \in Clients |-> IF pc[c] \in {"wait", "answered"} THEN "sample" ELSE pc[c]]

\* Variant: the calls in progress outlive the restart.
Stop_keeps_calls ==
  /\ up /\ restarts < MaxRestarts
  /\ up' = FALSE /\ restarts' = restarts + 1
  /\ store' = NoReports
  /\ call' = [k \in Calls |-> [call[k] EXCEPT !.awaited = FALSE]]
  /\ pc' = GivenUp
  /\ acked' = [c \in Clients |-> 0]
  /\ UNCHANGED <<seq, first, scores, breaks>>

Stop ==
  /\ up /\ restarts < MaxRestarts
  /\ up' = FALSE /\ restarts' = restarts + 1
  /\ store' = NoReports
  /\ call' = [k \in Calls |-> Free]
  /\ pc' = GivenUp
  /\ acked' = [c \in Clients |-> 0]
  /\ UNCHANGED <<seq, first, scores, breaks>>

Start ==
  /\ ~up /\ up' = TRUE
  /\ UNCHANGED <<pc, seq, call, store, first, scores, breaks, restarts, acked>>

-----------------------------------------------------------------------------
\* A turn of FetchAndScoreLoop.  One that fails or finds no report changes
\* nothing under a name (AgentManager!FailureLeavesServersAlone).
Poll ==
  /\ up /\ Stored # {}
  /\ scores' = Upsert(scores, first, store[first])
  /\ UNCHANGED <<pc, seq, call, up, store, first, breaks, restarts, acked>>

Client(c) == Sample(c) \/ Send(c) \/ SendFails(c) \/ Answer(c)

Next ==
  \/ \E c \in Clients : Client(c) \/ Break(c) \/ Die(c)
  \/ \E k \in Calls : Apply(k)
  \/ Stop \/ Start \/ Poll

Spec == Init /\ [][Next]_vars

\* Clients, server threads and the poller are scheduled and a stopped node_mid
\* is started again.  Calls break only finitely often (MaxBreaks).
FairSpec ==
  /\ Spec
  /\ \A c \in Clients : WF_vars(Client(c))
  /\ \A k \in Calls : WF_vars(Apply(k))
  /\ WF_vars(Start) /\ WF_vars(Poll)

-----------------------------------------------------------------------------
Reports == [client : Clients, seq : 1..MaxSeq]

Tables == UNION {[S -> Reports] : S \in SUBSET Names}

TypeOK ==
  /\ pc \in [Clients -> {"sample", "call", "wait", "answered", "dead"}]
  /\ seq \in [Clients -> 0..MaxSeq]
  /\ call \in [Calls -> [client : Clients, seq : 1..MaxSeq, awaited : BOOLEAN] \cup {Free}]
  /\ up \in BOOLEAN
  /\ store \in Tables /\ scores \in Tables
  /\ first \in Names
  /\ breaks \in [Clients -> 0..MaxBreaks] /\ restarts \in 0..MaxRestarts
  /\ acked \in [Clients -> 0..MaxSeq]

\* What a client was told is stored stays stored under its name until node_mid
\* stops, and under a client none of whose calls broke it is that report or a
\* later one.
AcknowledgedIsKept ==
  \A c \in Clients : acked[c] > 0 =>
    /\ UserOf[c] \in Stored
    /\ store[UserOf[c]].client = c /\ breaks[c] = 0 => store[UserOf[c]].seq >= acked[c]

\* node_server never scores an older report of a client after a newer one, even
\* across a restart of node_mid, unless a call of that client broke.
ScoresDoNotRegress ==
  [][\A n \in DOMAIN scores :
       scores[n].client = scores'[n].client /\ breaks[scores[n].client] = 0
         => scores'[n].seq >= scores[n].seq]_vars

\* A stored report is replaced by an older one of the same client only by a call
\* that its client had given up.
RegressesOnlyByGivenUpCall ==
  [][\A n \in Stored \cap DOMAIN store' :
       store'[n].client = store[n].client /\ store'[n].seq < store[n].seq
         => \E k \in Calls : /\ call[k] # Free /\ call'[k] = Free /\ ~call[k].awaited
                             /\ UserOf[call[k].client] = n]_vars

\* After the last restart the table fills again without anyone's help: the name
\* of every client that lives is stored from some time on.
FillsAgain == \A c \in Clients : <>[](c \notin Dead => UserOf[c] \in Stored)

\* What node_server scores catches up, whatever late calls and restarts have
\* left behind: where each client has a user of its own, the score of the name
\* that is served is of its client's latest report from some time on.  Only when
\* the client died is an old report served, and scored, forever.
ScoresCatchUp ==
  \A c \in Clients :
    LET n == UserOf[c]
    IN  <>[](c \notin Dead /\ first = n => n \in DOMAIN scores /\ scores[n].seq = MaxSeq)
=============================================================================
