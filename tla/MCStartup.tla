------------------------------ MODULE MCStartup ------------------------------
(* Instance of Startup for TLC.                                              *)
EXTENDS Startup

AllConfigs == [bind : Bind, polling : Polling]

=============================================================================
