---------------------------- MODULE MCAutoprune -----------------------------
(* Up to three peers, of an AS each: enough for one to be lost between two *)
(* that are, and for the second of two lost neighbours to be left out.     *)
EXTENDS Autoprune

CONSTANTS i1, i2, i3, as1, as2, as3

MCIface == [i \in Peer |-> i]
MCAsnOf == [i \in Peer |-> CASE i = i1 -> as1 [] i = i2 -> as2 [] i = i3 -> as3]

OneSession == [i \in Peer |-> IF i = i3 THEN {"v6"} ELSE {"mp"}]

\* the second peer has a session per address family
TwoSessions == [i \in Peer |-> IF i = i2 THEN {"v4", "v6"} ELSE {"mp"}]
=============================================================================
