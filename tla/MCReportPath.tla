---------------------------- MODULE MCReportPath -----------------------------
(***************************************************************************)
(* Two clients under two names; three calls, so that one which a client    *)
(* gave up can be overtaken by its next one while the other client calls.  *)
(***************************************************************************)
EXTENDS ReportPath, TLC

CONSTANTS Client1, Client2, Alice, Bob

TwoUsers == Client1 :> Alice @@ Client2 :> Bob
=============================================================================
