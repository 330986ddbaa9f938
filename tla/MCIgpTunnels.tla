---------------------------- MODULE MCIgpTunnels ----------------------------
(* Values of Links for TLC.  Three routers are the fewest that have two    *)
(* tunnels with an end in common and a third without.                      *)
EXTENDS IgpTunnels

\* three tunnels: one listed from both ends, one listed from one end, and one
\* of a manual router listed from both ends
CarefulLinks == {<<1, 2>>, <<2, 1>>, <<1, 3>>, <<3, 1>>, <<2, 3>>}

\* two tunnels with an end in common
OverlapLinks == {<<2, 1>>, <<3, 1>>}

\* the same, and a self-link
LiveLinks == OverlapLinks \cup {<<3, 3>>}
=============================================================================
