------------------------------ MODULE MCStartup ------------------------------
(* Values for TLC that a configuration file cannot write down.              *)
EXTENDS Startup

MCModes  == -1 .. 3
MCCounts == {-1, 2}
==============================================================================
