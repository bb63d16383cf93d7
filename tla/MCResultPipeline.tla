-------------------------- MODULE MCResultPipeline --------------------------
(* Inputs for the run of ResultPipeline.                                   *)
EXTENDS ResultPipeline

AllFaults == {"next", "convert", "callback", "close", "timeout", "cancel"}

=============================================================================
