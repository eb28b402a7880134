--------------------------- MODULE MCAgentManager ----------------------------
(***************************************************************************)
(* Two node_mids.  The first holds an idle and a busy report of alice; the *)
(* second a report of bob and one with a NaN.  In the shared instance the  *)
(* two hosts run their clients under one user, so both report as alice.    *)
(***************************************************************************)
EXTENDS AgentManager, TLC

Report(name, host, cpu, load, mem, net) ==
  [name |-> name, host |-> host, cpu |-> cpu, load |-> load, mem |-> mem, net |-> net]

Iface(rate) == <<[send_rate |-> rate, rcv_rate |-> rate]>>

HostReports(name, host) ==
  {Report(name, host, <<>>, 50, 40, <<>>),
   Report(name, host, <<80, 10>>, 150, Absent, Iface(0))}

CONSTANTS Alice, Bob, HostA, HostB

OneHostEach ==
  0 :> HostReports(Alice, HostA)
    @@ 1 :> {Report(Bob, HostB, <<20>>, Absent, 60, Iface(0)),
             Report(Bob, HostB, <<NaN>>, 30, 60, Iface(62500000))}

SharedUser == 0 :> HostReports(Alice, HostA) @@ 1 :> HostReports(Alice, HostB)
=============================================================================
