----------------------------- MODULE PollTurns -------------------------------
(***************************************************************************)
(* What the polling loop of node_server promises to whoever reads          *)
(* agent_scores_: the node_mids take turns, and a turn records one report  *)
(* under its name, one that the node_mid whose turn it is may hold, or the *)
(* empty one if the poll fails or finds none.  All other entries stay.     *)
(***************************************************************************)
EXTENDS Naturals

CONSTANTS
  NumAgents,  \* rpc_clients_.size()
  Reports,    \* what each node_mid may hold
  NoReport    \* the report of a poll that fails or finds none

VARIABLES
  turn,       \* the node_mid whose turn it is
  latest      \* the report recorded last under each name

Init == turn = 0 /\ latest = [n \in {} |-> NoReport]

Turn ==
  /\ \E r \in Reports[turn] \cup {NoReport} :
       latest' = [n \in DOMAIN latest \cup {r.name} |-> IF n = r.name THEN r ELSE latest[n]]
  /\ turn' = (turn + 1) % NumAgents

Spec == Init /\ [][Turn]_<<turn, latest>>
=============================================================================
