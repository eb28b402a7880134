---------------------------- MODULE AgentManager -----------------------------
(***************************************************************************)
(* node_server: AgentManager::FetchAndScoreLoop, the thread that polls     *)
(* every node_mid in turn, scores the answer and records it, and the main  *)
(* thread, whose only remaining act is to call exit(1) in a signal         *)
(* handler.                                                                *)
(*                                                                         *)
(* One turn of the inner loop is five steps: the RPC (a blocking call      *)
(* without a deadline), the network rates, the change rates, agent_scores_ *)
(* with WriteToMysql, and the next index.  Samples keep four of the 29     *)
(* figures of PerfSample, which the code treats alike.  No time is kept:   *)
(* the only use of a timestamp is the divisor of network rates, and their  *)
(* dividend is 0 - 0 because in_bytes and out_bytes are a `todo`.  mtx_    *)
(* has a single user and running_ never changes (mgr is a local of main,   *)
(* which never returns, so ~AgentManager does not run); both are left out. *)
(***************************************************************************)
EXTENDS CalcScore

CONSTANTS
  NumAgents,  \* rpc_clients_.size()
  Names,      \* names under which node_clients report
  NoName,     \* the empty string, the name of a default MonitorInfo
  NoHost      \* no machine: a sample that does not come from a report

Agents == 0 .. NumAgents - 1

CONSTANT
  Reports     \* what each node_mid may hold: its clients' MonitorInfo, each
              \* with its name and the host (not sent) that it was taken on

ASSUME AgentsAssumption == NumAgents \in Nat \ {0}
ASSUME NamesAssumption  == NoName \notin Names
ASSUME ReportsAssumption ==
  /\ DOMAIN Reports = Agents
  /\ \A a \in Agents : \A r \in Reports[a] : r.name \in Names /\ r.host # NoHost

VARIABLES
  pc,                 \* where the loop thread is
  i,                  \* the agent it is at
  status,             \* how the last GetMonitorInfo ended
  info,               \* its MonitorInfo
  net_samples,        \* last_in_bytes by server_name
  last_perf_samples,  \* the previous PerfSample by server_name
  agent_scores_,      \* the latest report and score by server_name
  row,                \* the last arguments of WriteToMysql
  process,            \* "running", "exiting", "destroyed" or "gone"
  exiter              \* the thread that runs the signal handler, or "none"

loopVars == <<pc, i, status, info, net_samples, last_perf_samples, agent_scores_, row>>
vars == <<loopVars, process, exiter>>

-----------------------------------------------------------------------------
EmptyInfo == [name |-> NoName, host |-> NoHost,
              cpu |-> <<>>, load |-> Absent, mem |-> Absent, net |-> <<>>]

Figures == {"cpu_percent", "load_avg_1", "mem_used_percent", "score"}

\* struct PerfSample; host says where the sample was taken.
PerfSample(x) ==
  [figure |-> [cpu_percent      |-> cpu_percent(x),
               load_avg_1       |-> load_avg_1(x),
               mem_used_percent |-> mem_percent(x),
               score            |-> CalcScore(x)],
   host   |-> x.host]

NoSample == [figure |-> [f \in Figures |-> 0], host |-> NoHost]

Upsert(f, key, value) == [k \in DOMAIN f \cup {key} |-> IF k = key THEN value ELSE f[k]]

\* operator[] on a map: the default for a key it does not have.
Lookup(f, key, default) == IF key \in DOMAIN f THEN f[key] ELSE default

\* The lambda `rate`; the quotient is kept as a pair.
Rate(now, last) ==
  IF last = 0 THEN <<0, 1>>
  ELSE IF NaN \in {now, last} THEN NaN
  ELSE <<now - last, last>>

NoRow == [name |-> NoName, rate |-> [f \in Figures |-> <<0, 1>>], hosts |-> {}]

Init ==
  /\ pc = "rpc" /\ i = 0
  /\ status = "OK"
  /\ info = EmptyInfo
  /\ net_samples = [n \in {} |-> 0]
  /\ last_perf_samples = [n \in {} |-> NoSample]
  /\ agent_scores_ = [n \in {} |-> EmptyInfo]
  /\ row = NoRow
  /\ process = "running" /\ exiter = "none"

\* The loop thread runs until the process is gone, unless it is itself in exit().
LoopRuns == process # "gone" /\ exiter # "loop"

(***************************************************************************)
(* rpc_clients_[i]->GetMonitorInfo(&info) into a fresh MonitorInfo.  An    *)
(* RPC that fails is only printed, and leaves the message as constructed;  *)
(* one that succeeds gives a report the node_mid holds, or an empty        *)
(* message when it holds none.                                             *)
(***************************************************************************)
\* Variant: server_name outlives the turn, and a failed poll keeps the last one.
RpcFails_keeps_name == status' = "failed" /\ info' = [EmptyInfo EXCEPT !.name = info.name]

RpcFails == status' = "failed" /\ info' = EmptyInfo

RpcSucceeds == status' = "OK" /\ info' \in Reports[i] \cup {EmptyInfo}

Fetch ==
  /\ LoopRuns /\ pc = "rpc"
  /\ RpcFails \/ RpcSucceeds
  /\ pc' = "net"
  /\ UNCHANGED <<i, net_samples, last_perf_samples, agent_scores_, row, process, exiter>>

(***************************************************************************)
(* The steps below read and write maps with static storage duration, which *)
(* exit() destroys under a loop thread that it neither stops nor joins.    *)
(***************************************************************************)
StaticsAlive == process \in {"running", "exiting"}

NetRates ==
  /\ LoopRuns /\ pc = "net"
  /\ info.net = <<>> \/ StaticsAlive
  /\ net_samples' = IF info.net = <<>> THEN net_samples ELSE Upsert(net_samples, info.name, 0)
  /\ pc' = "perf"
  /\ UNCHANGED <<i, status, info, last_perf_samples, agent_scores_, row, process, exiter>>

LastOf(name) == Lookup(last_perf_samples, name, NoSample)

\* Variant: last_perf_samples[server_name] = curr before the rates are taken.
ChangeRates_after_update ==
  LET curr == PerfSample(info)
  IN  /\ LoopRuns /\ pc = "perf"
      /\ StaticsAlive
      /\ last_perf_samples' = Upsert(last_perf_samples, info.name, curr)
      /\ row' = [name  |-> info.name,
                 rate  |-> [f \in Figures |-> Rate(curr.figure[f], curr.figure[f])],
                 hosts |-> {curr.host} \ {NoHost}]
      /\ pc' = "store"
      /\ UNCHANGED <<i, status, info, net_samples, agent_scores_, process, exiter>>

\* Variant: the sample of a server is kept only the first time.
ChangeRates_first_sample ==
  LET curr == PerfSample(info)
      last == LastOf(info.name)
  IN  /\ LoopRuns /\ pc = "perf"
      /\ StaticsAlive
      /\ last_perf_samples' = IF info.name \in DOMAIN last_perf_samples THEN last_perf_samples
                               ELSE Upsert(last_perf_samples, info.name, curr)
      /\ row' = [name  |-> info.name,
                 rate  |-> [f \in Figures |-> Rate(curr.figure[f], last.figure[f])],
                 hosts |-> {curr.host, last.host} \ {NoHost}]
      /\ pc' = "store"
      /\ UNCHANGED <<i, status, info, net_samples, agent_scores_, process, exiter>>

ChangeRates ==
  LET curr == PerfSample(info)
      last == LastOf(info.name)
  IN  /\ LoopRuns /\ pc = "perf"
      /\ StaticsAlive
      /\ last_perf_samples' = Upsert(last_perf_samples, info.name, curr)
      /\ row' = [name  |-> info.name,
                 rate  |-> [f \in Figures |-> Rate(curr.figure[f], last.figure[f])],
                 hosts |-> {curr.host, last.host} \ {NoHost}]
      /\ pc' = "store"
      /\ UNCHANGED <<i, status, info, net_samples, agent_scores_, process, exiter>>

\* agent_scores_ is a member of mgr, which exit() leaves alone.
Store ==
  /\ LoopRuns /\ pc = "store"
  /\ agent_scores_' = Upsert(agent_scores_, info.name,
                             [info |-> info, score |-> CalcScore(info)])
  /\ pc' = "next"
  /\ UNCHANGED <<i, status, info, net_samples, last_perf_samples, row, process, exiter>>

\* Variant: `i < rpc_clients_.size() - 1`.
Advance_one_short(index) == IF index + 1 < NumAgents - 1 THEN index + 1 ELSE 0

\* ++i, and after the last agent sleep_for(10 s) and the next round.
Advance(index) == (index + 1) % NumAgents

NextAgent ==
  /\ LoopRuns /\ pc = "next"
  /\ i' = Advance(i)
  /\ pc' = "rpc"
  /\ UNCHANGED <<status, info, net_samples, last_perf_samples, agent_scores_, row, process, exiter>>

\* A static map is used after its destructor ran.  Whatever the build makes of
\* it (a crash, or stale or foreign memory taken for a map), nothing is
\* claimed of what follows: the model stops there.
UseDestroyed ==
  /\ LoopRuns /\ process = "destroyed"
  /\ pc = "perf" \/ (pc = "net" /\ info.net # <<>>)
  /\ pc' = "undefined"
  /\ UNCHANGED <<i, status, info, net_samples, last_perf_samples, agent_scores_, row, process, exiter>>

Loop == NetRates \/ ChangeRates \/ Store \/ NextAgent \/ UseDestroyed

(***************************************************************************)
(* SIGINT or SIGTERM: handle_signal calls exit(1) on the thread the signal *)
(* was delivered to, either of the two.  exit() destroys the static maps   *)
(* and then ends the process, and with it the loop thread.                 *)
(***************************************************************************)
Signal ==
  /\ process = "running"
  /\ process' = "exiting" /\ exiter' \in {"main", "loop"}
  /\ UNCHANGED loopVars

DestroyStatics ==
  /\ process = "exiting" /\ process' = "destroyed"
  /\ UNCHANGED <<loopVars, exiter>>

Terminate ==
  /\ process = "destroyed" /\ process' = "gone"
  /\ UNCHANGED <<loopVars, exiter>>

Exit == DestroyStatics \/ Terminate

Next == Fetch \/ Loop \/ Signal \/ Exit

Spec == Init /\ [][Next]_vars

\* The scheduler runs both threads and the sleep ends.  No fairness for Fetch:
\* ClientContext has no deadline, so an RPC may take for ever.
FairSpec == Spec /\ WF_vars(Loop) /\ WF_vars(Exit)

-----------------------------------------------------------------------------
Servers == Names \cup {NoName}

\* Every report an agent may answer with.
Polled == UNION {Reports[a] : a \in Agents}

TypeOK ==
  /\ pc \in {"rpc", "net", "perf", "store", "next", "undefined"}
  /\ i \in Agents
  /\ status \in {"OK", "failed"}
  /\ info \in Polled \cup {EmptyInfo}
  /\ DOMAIN net_samples \subseteq Servers
  /\ DOMAIN last_perf_samples \subseteq Servers
  /\ DOMAIN agent_scores_ \subseteq Servers
  /\ process \in {"running", "exiting", "destroyed", "gone"}
  /\ exiter \in {"none", "main", "loop"}

\* The two tables the loop keeps of an agent describe the same report once its
\* turn is over: whoever reads agent_scores_ sees the score that the next
\* change rates are computed from.
TablesAgree ==
  pc \in {"rpc", "next"} =>
    /\ DOMAIN last_perf_samples = DOMAIN agent_scores_
    /\ \A n \in DOMAIN agent_scores_ :
         last_perf_samples[n] = PerfSample(agent_scores_[n].info)

\* A server known under a name has been reported under that name: the scores
\* and the samples of names are never made up.
EntriesAreReported ==
  \A n \in DOMAIN agent_scores_ \ {NoName} :
    \E a \in Agents : agent_scores_[n].info \in Reports[a] /\ agent_scores_[n].info.name = n

\* The loop takes its turns as PollTurns says.  A turn takes effect when Store
\* replaces the entry; a shutdown takes none and ends the turns.
Turns == INSTANCE PollTurns WITH
  NoReport <- EmptyInfo,
  turn     <- IF pc = "next" THEN Advance(i) ELSE i,
  latest   <- [n \in DOMAIN agent_scores_ |-> agent_scores_[n].info]

TakesTurns == Turns!Spec

\* A poll that fails changes nothing of any named server: the sample, the
\* score and the rates that its next successful poll starts from are kept.
FailureLeavesServersAlone ==
  [][status' = "failed" =>
       \A n \in Names :
         /\ Lookup(last_perf_samples', n, NoSample) = Lookup(last_perf_samples, n, NoSample)
         /\ Lookup(agent_scores_', n, NoRow) = Lookup(agent_scores_, n, NoRow)]_vars

\* The rates of a row are taken against the row before it under the same name,
\* however many other agents were polled, or failed, in between.
RatesFollowRows ==
  [][pc = "store" /\ pc' = "next" =>
       LET new == agent_scores_'[row.name].score
           old == IF row.name \in DOMAIN agent_scores_ THEN agent_scores_[row.name].score ELSE 0
       IN  row.rate["score"] = Rate(new, old)]_vars

\* The row in hand belongs to the report in hand: name and rates were computed
\* from it and from the table entry that Store has not replaced yet.
RowIsCurrent ==
  pc = "store" =>
    /\ row.name = info.name
    /\ info.name \in DOMAIN last_perf_samples
    /\ last_perf_samples[info.name] = PerfSample(info)
    /\ row.rate["score"] =
         Rate(CalcScore(info),
              IF info.name \in DOMAIN agent_scores_ THEN agent_scores_[info.name].score ELSE 0)

ScoresAreOfReports ==
  \A n \in DOMAIN agent_scores_ :
    /\ agent_scores_[n].info \in Polled \cup {EmptyInfo}
    /\ agent_scores_[n].info.name = n
    /\ agent_scores_[n].score = CalcScore(agent_scores_[n].info)

SamplesFollowScores ==
  /\ \A n \in DOMAIN agent_scores_ :
       /\ n \in DOMAIN last_perf_samples
       /\ \/ last_perf_samples[n] = PerfSample(agent_scores_[n].info)
          \/ pc = "store" /\ n = info.name
  /\ \A n \in DOMAIN last_perf_samples :
       \/ n \in DOMAIN agent_scores_
       \/ pc = "store" /\ n = info.name

\* The report in hand is one that the agent in turn may have answered with.
InfoIsOfAgent == pc \in {"net", "perf", "store"} => info \in Reports[i] \cup {EmptyInfo}

\* What holds between any two steps of the loop, shutdown included: the two
\* tables differ at most in the entry of the report being recorded.
LoopInv ==
  /\ TypeOK
  /\ status = "failed" => info = EmptyInfo
  /\ ScoresAreOfReports
  /\ SamplesFollowScores
  /\ RowIsCurrent
  /\ InfoIsOfAgent

\* An agent is polled again and again, unless a single RPC never returns (to
\* that agent or to any other: they share the thread) or the process ends.
StarvedOnlyByHungRpc ==
  \A a \in Agents : \/ []<>(pc = "rpc" /\ i = a)
                    \/ <>[](pc = "rpc")
                    \/ <>(process # "running")

-----------------------------------------------------------------------------
(* What comments and messages of the code say. *)

\* "key: server_name" (agent_manager.cpp:45): a change rate compares two
\* samples of one server.
RatesCompareOneServer == \A g, h \in row.hosts : g = h

\* "Press Ctrl+C to exit." (main.cpp:30): a Ctrl+C ends the program; it does
\* not send it into undefined behaviour.
ExitIsClean == pc # "undefined"
=============================================================================
