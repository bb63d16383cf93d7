------------------------ MODULE MCConnectionHistory ------------------------
(* Inputs for the run of ConnectionHistory.                               *)
EXTENDS ConnectionHistory, MCConnectionHandler

=============================================================================
