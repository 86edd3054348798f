------------------------------ MODULE MCDaemon ------------------------------
(* Model-checking instance of Daemon: two config-check intervals, a        *)
(* shutdown timeout or none, and every kind of peering list.               *)
EXTENDS Daemon

MCConfigs == [chk : {1, 2}, shto : BOOLEAN, peers : PeerLists]
MCInitCfg == [chk |-> 1, shto |-> FALSE, peers |-> "some"]
=============================================================================
