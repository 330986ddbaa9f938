--------------------------- MODULE MCTunnelDeploy ---------------------------
(* Values of Links for TLC: a router with two tunnels, so that links can   *)
(* clash on it, and one tunnel, for the plays of both its ends.            *)
EXTENDS TunnelDeploy

HubLinks == {<<2, 1>>, <<3, 1>>}
OneLink == {<<2, 1>>}
=============================================================================
