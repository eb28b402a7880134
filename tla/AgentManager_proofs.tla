------------------------ MODULE AgentManager_proofs -------------------------
(***************************************************************************)
(* FetchAndScoreLoop for any number of agents and any reports: the tables  *)
(* it keeps agree, hold nothing that was not reported, are left alone by   *)
(* failed polls, give each row the rates against the row before it, and    *)
(* change turn by turn, as PollTurns says.                                 *)
(* CalcScore is never expanded: the results hold for any scoring function. *)
(***************************************************************************)
EXTENDS AgentManager, TLAPS

USE AgentsAssumption, NamesAssumption, ReportsAssumption

\* An insertion changes no other key of a map.
LEMMA LookupAfterUpsert ==
  ASSUME NEW f, NEW key, NEW value, NEW k, NEW default, k # key
  PROVE  Lookup(Upsert(f, key, value), k, default) = Lookup(f, k, default)
  BY DEF Upsert, Lookup

\* Reports carry a name of Names, and the empty message carries none.
LEMMA NamesOfReports ==
  /\ \A r \in Polled : r.name \in Names
  /\ EmptyInfo.name = NoName
  /\ \A r \in Polled \cup {EmptyInfo} : r.name \in Servers
  BY DEF Polled, EmptyInfo, Servers

LEMMA InitLoopInv == Init => LoopInv
  BY DEF Init, LoopInv, TypeOK, InfoIsOfAgent, ScoresAreOfReports, SamplesFollowScores, RowIsCurrent, Agents

LEMMA LoopInvPreserved == LoopInv /\ [Next]_vars => LoopInv'
  <1> SUFFICES ASSUME LoopInv, [Next]_vars PROVE LoopInv'
    OBVIOUS
  <1> USE DEF LoopInv, TypeOK, InfoIsOfAgent
  <1>1. info.name \in Servers
    BY NamesOfReports
  <1>2. CASE UNCHANGED vars
    BY <1>2 DEF vars, loopVars, ScoresAreOfReports, SamplesFollowScores, RowIsCurrent
  <1>3. CASE Fetch
    <2>1. /\ info' \in Polled \cup {EmptyInfo}
          /\ status' \in {"OK", "failed"}
          /\ status' = "failed" => info' = EmptyInfo
      BY <1>3 DEF Fetch, RpcFails, RpcSucceeds, Polled
    <2>2. SamplesFollowScores'
      BY <1>3 DEF Fetch, SamplesFollowScores
    <2>3. InfoIsOfAgent'
      BY <1>3 DEF Fetch, RpcFails, RpcSucceeds
    <2> HIDE DEF InfoIsOfAgent
    <2>. QED BY <1>3, <2>1, <2>2, <2>3 DEF Fetch, ScoresAreOfReports, RowIsCurrent
  <1>4. CASE NetRates
    <2>1. DOMAIN net_samples' \subseteq Servers
      BY <1>1, <1>4 DEF NetRates, Upsert
    <2>. QED BY <1>4, <2>1 DEF NetRates, ScoresAreOfReports, SamplesFollowScores, RowIsCurrent
  <1>5. CASE ChangeRates
    <2> DEFINE curr == PerfSample(info)
               last == LastOf(info.name)
    <2>1. /\ pc = "perf" /\ pc' = "store"
          /\ last_perf_samples' = Upsert(last_perf_samples, info.name, curr)
          /\ row'.name = info.name
          /\ row'.rate = [f \in Figures |-> Rate(curr.figure[f], last.figure[f])]
          /\ UNCHANGED <<i, status, info, net_samples, agent_scores_, process, exiter>>
      BY <1>5 DEF ChangeRates
    <2>2. /\ DOMAIN last_perf_samples' = DOMAIN last_perf_samples \cup {info.name}
          /\ last_perf_samples'[info.name] = curr
          /\ \A n \in DOMAIN last_perf_samples :
               n # info.name => last_perf_samples'[n] = last_perf_samples[n]
      BY <2>1 DEF Upsert
    <2>3. ScoresAreOfReports'
      BY <2>1 DEF ScoresAreOfReports
    <2>4. SamplesFollowScores'
      BY <2>1, <2>2 DEF SamplesFollowScores
    <2>5. RowIsCurrent'
      <3>1. DOMAIN last_perf_samples = DOMAIN agent_scores_
        BY <2>1 DEF SamplesFollowScores
      <3>2. last.figure["score"] = IF info.name \in DOMAIN agent_scores_
                                     THEN agent_scores_[info.name].score ELSE 0
        <4>1. CASE info.name \in DOMAIN agent_scores_
          <5>1. last = PerfSample(agent_scores_[info.name].info)
            BY <2>1, <3>1, <4>1 DEF LastOf, Lookup, SamplesFollowScores
          <5>. QED BY <4>1, <5>1 DEF PerfSample, ScoresAreOfReports
        <4>2. CASE info.name \notin DOMAIN agent_scores_
          BY <3>1, <4>2 DEF LastOf, Lookup, NoSample, Figures
        <4>. QED BY <4>1, <4>2
      <3>3. curr.figure["score"] = CalcScore(info)
        BY DEF PerfSample
      <3>4. row'.rate["score"] = Rate(CalcScore(info), last.figure["score"])
        BY <2>1, <3>3 DEF Figures
      <3>. QED BY <2>1, <2>2, <3>2, <3>4 DEF RowIsCurrent
    <2>. QED BY <1>1, <2>1, <2>2, <2>3, <2>4, <2>5
  <1>6. CASE Store
    <2> DEFINE entry == [info |-> info, score |-> CalcScore(info)]
    <2>1. /\ pc = "store" /\ pc' = "next"
          /\ agent_scores_' = Upsert(agent_scores_, info.name, entry)
          /\ UNCHANGED <<i, status, info, net_samples, last_perf_samples, row, process, exiter>>
      BY <1>6 DEF Store
    <2>2. /\ DOMAIN agent_scores_' = DOMAIN agent_scores_ \cup {info.name}
          /\ agent_scores_'[info.name] = entry
          /\ \A n \in DOMAIN agent_scores_ :
               n # info.name => agent_scores_'[n] = agent_scores_[n]
      BY <2>1 DEF Upsert
    <2>3. /\ entry.info = info
          /\ entry.score = CalcScore(info)
      OBVIOUS
    <2> HIDE DEF entry
    <2>4. ScoresAreOfReports'
      BY <2>1, <2>2, <2>3 DEF ScoresAreOfReports
    <2>5. SamplesFollowScores'
      BY <2>1, <2>2, <2>3 DEF SamplesFollowScores, RowIsCurrent
    <2>. QED BY <1>1, <2>1, <2>2, <2>4, <2>5 DEF RowIsCurrent
  <1>7. CASE NextAgent
    <2>1. i' \in Agents
      BY <1>7 DEF NextAgent, Advance, Agents
    <2>. QED BY <1>7, <2>1 DEF NextAgent, ScoresAreOfReports, SamplesFollowScores, RowIsCurrent
  <1>8. CASE UseDestroyed
    BY <1>8 DEF UseDestroyed, ScoresAreOfReports, SamplesFollowScores, RowIsCurrent
  <1>9. CASE Signal \/ Exit
    BY <1>9 DEF Signal, Exit, DestroyStatics, Terminate, loopVars,
                ScoresAreOfReports, SamplesFollowScores, RowIsCurrent
  <1>. QED BY <1>2, <1>3, <1>4, <1>5, <1>6, <1>7, <1>8, <1>9 DEF Next, Loop

THEOREM InductiveInvariant == Spec => []LoopInv
  BY InitLoopInv, LoopInvPreserved, PTL DEF Spec

\* The loop's variables keep their types, for any agents and reports.
THEOREM TypeCorrect == Spec => []TypeOK
  BY InductiveInvariant, PTL DEF LoopInv

\* Between two turns every name has the sample of the report it is scored by.
THEOREM SamplesAgreeWithScores == Spec => []TablesAgree
  <1>1. LoopInv => TablesAgree
    BY DEF LoopInv, TablesAgree, SamplesFollowScores
  <1>. QED BY <1>1, InductiveInvariant, PTL

\* No entry of a named server is made up.
THEOREM ScoresAreReported == Spec => []EntriesAreReported
  <1>1. LoopInv => EntriesAreReported
    BY NamesOfReports DEF LoopInv, EntriesAreReported, ScoresAreOfReports, Polled
  <1>. QED BY <1>1, InductiveInvariant, PTL

\* A failed poll touches no entry of a named server.
THEOREM FailuresAreHarmless == Spec => FailureLeavesServersAlone
  <1>1. ASSUME LoopInv, LoopInv', [Next]_vars, status' = "failed", NEW n \in Names
        PROVE  /\ Lookup(last_perf_samples', n, NoSample) = Lookup(last_perf_samples, n, NoSample)
               /\ Lookup(agent_scores_', n, NoRow) = Lookup(agent_scores_, n, NoRow)
    <2>1. info' = EmptyInfo
      BY <1>1 DEF LoopInv
    <2>2. CASE ChangeRates
      <3>1. n # info.name
        BY <2>1, <2>2, NamesOfReports DEF ChangeRates
      <3>. QED BY <2>2, <3>1, LookupAfterUpsert DEF ChangeRates
    <2>3. CASE Store
      <3>1. n # info.name
        BY <2>1, <2>3, NamesOfReports DEF Store
      <3>. QED BY <2>3, <3>1, LookupAfterUpsert DEF Store
    <2>4. CASE UNCHANGED <<last_perf_samples, agent_scores_>>
      BY <2>4
    <2>. QED BY <1>1, <2>2, <2>3, <2>4
         DEF Next, Loop, Fetch, NetRates, NextAgent, UseDestroyed, Signal, Exit,
             DestroyStatics, Terminate, loopVars, vars
  <1>2. LoopInv /\ LoopInv' /\ [Next]_vars =>
          [status' = "failed" =>
             \A n \in Names :
               /\ Lookup(last_perf_samples', n, NoSample) = Lookup(last_perf_samples, n, NoSample)
               /\ Lookup(agent_scores_', n, NoRow) = Lookup(agent_scores_, n, NoRow)]_vars
    BY <1>1
  <1>. QED BY <1>2, LoopInvPreserved, InductiveInvariant, PTL DEF Spec, FailureLeavesServersAlone

\* Every row's rate is taken against the previous row of the same name.
THEOREM RatesAreAgainstPreviousRow == Spec => RatesFollowRows
  <1>1. LoopInv /\ [Next]_vars =>
          [pc = "store" /\ pc' = "next" =>
             LET new == agent_scores_'[row.name].score
                 old == IF row.name \in DOMAIN agent_scores_
                          THEN agent_scores_[row.name].score ELSE 0
             IN  row.rate["score"] = Rate(new, old)]_vars
    <2> SUFFICES ASSUME LoopInv, [Next]_vars, pc = "store", pc' = "next"
                 PROVE  row.rate["score"] =
                          Rate(agent_scores_'[row.name].score,
                               IF row.name \in DOMAIN agent_scores_
                                 THEN agent_scores_[row.name].score ELSE 0)
      OBVIOUS
    <2>1. Store
      BY DEF Next, Loop, Fetch, NetRates, ChangeRates, NextAgent, UseDestroyed, Signal, Exit,
             DestroyStatics, Terminate, loopVars, vars
    <2>2. agent_scores_'[info.name] = [info |-> info, score |-> CalcScore(info)]
      BY <2>1 DEF Store, Upsert
    <2>3. agent_scores_'[info.name].score = CalcScore(info)
      BY <2>2
    <2>. QED BY <2>3 DEF LoopInv, RowIsCurrent
  <1>. QED BY <1>1, InductiveInvariant, PTL DEF Spec, RatesFollowRows

\* The loop implements PollTurns: a turn is taken when Store replaces the entry
\* of the report in hand, and every other step, of the exit sequence too, leaves
\* turn and reports as they are.
THEOREM ImplementsPollTurns == Spec => TakesTurns
  <1> DEFINE turn == IF pc = "next" THEN Advance(i) ELSE i
             latest == [n \in DOMAIN agent_scores_ |-> agent_scores_[n].info]
  <1>1. Init => Turns!Init
    <2> SUFFICES ASSUME Init PROVE turn = 0 /\ latest = [n \in {} |-> EmptyInfo]
      BY DEF Turns!Init
    <2>. QED BY DEF Init
  <1>2. LoopInv /\ [Next]_vars => [Turns!Turn]_<<turn, latest>>
    <2> SUFFICES ASSUME LoopInv, [Next]_vars
                 PROVE  Turns!Turn \/ UNCHANGED <<turn, latest>>
      OBVIOUS
    <2>1. ASSUME UNCHANGED <<pc, i, agent_scores_>> PROVE UNCHANGED <<turn, latest>>
      BY <2>1
    <2>2. ASSUME UNCHANGED <<i, agent_scores_>>, pc # "next", pc' # "next"
          PROVE  UNCHANGED <<turn, latest>>
      BY <2>2
    <2>3. CASE Store
      <3> DEFINE entry == [info |-> info, score |-> CalcScore(info)]
      <3>1. /\ pc = "store" /\ pc' = "next" /\ i' = i
            /\ agent_scores_' = Upsert(agent_scores_, info.name, entry)
            /\ info \in Reports[i] \cup {EmptyInfo}
        BY <2>3 DEF Store, LoopInv, InfoIsOfAgent
      <3>2. turn = i /\ turn' = (i + 1) % NumAgents
        BY <3>1 DEF Advance
      <3>3. entry.info = info
        OBVIOUS
      <3> HIDE DEF entry
      <3>4. /\ DOMAIN agent_scores_' = DOMAIN agent_scores_ \cup {info.name}
            /\ \A n \in DOMAIN agent_scores_' :
                 agent_scores_'[n] = IF n = info.name THEN entry ELSE agent_scores_[n]
        BY <3>1 DEF Upsert
      <3>5. latest' = [n \in DOMAIN latest \cup {info.name} |->
                        IF n = info.name THEN info ELSE latest[n]]
        BY <3>3, <3>4
      <3>. QED BY <3>1, <3>2, <3>5 DEF Turns!Turn
    <2>4. CASE NextAgent
      <3>1. turn' = turn /\ latest' = latest
        BY <2>4 DEF NextAgent
      <3>. QED BY <3>1
    <2>5. CASE Fetch \/ NetRates \/ ChangeRates \/ UseDestroyed
      BY <2>2, <2>5 DEF Fetch, NetRates, ChangeRates, UseDestroyed
    <2>6. CASE Signal \/ Exit \/ UNCHANGED vars
      BY <2>1, <2>6 DEF Signal, Exit, DestroyStatics, Terminate, loopVars, vars
    <2>. QED BY <2>3, <2>4, <2>5, <2>6 DEF Next, Loop
  <1>. QED BY <1>1, <1>2, InductiveInvariant, PTL DEF Spec, TakesTurns, Turns!Spec
=============================================================================
