---------------------------- MODULE MCAppClients ----------------------------
(* Instances of AppClients for TLC.                                        *)
EXTENDS AppClients, TLC
CONSTANTS a, b
TwoServers == {a, b}
OneAtATime == {{"activity"}, {"tile"}}
Swap == Permutations(TwoServers)
=============================================================================
