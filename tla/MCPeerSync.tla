----------------------------- MODULE MCPeerSync -----------------------------
(* The coordinator and its two peers.                                      *)
EXTENDS PeerSync

MCPeerAddrs == <<"go-2", "go-3">>
MCInstances == {"go-1", "go-2", "go-3"}

=============================================================================
