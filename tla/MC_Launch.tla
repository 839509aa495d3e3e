----------------------------- MODULE MC_Launch ------------------------------
(* Two peers for Launch, one of which sends two packets.                   *)
EXTENDS Launch

MCPeers == {"alice", "bob"}

MCMaxSends == [p \in MCPeers |-> IF p = "alice" THEN 2 ELSE 0]
=============================================================================
