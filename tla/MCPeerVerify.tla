---------------------------- MODULE MCPeerVerify ----------------------------
(* Trees for TLC: one file with one block, for all blocks that differ from *)
(* a proper one in the fields one check looks at; and several files with   *)
(* up to two blocks, for blocks that are valid or not, of few names and    *)
(* ports, and for blocks that peerconfgen makes.                           *)
EXTENDS PeerVerify, TLC

CONSTANTS dn42a, dn42b, iga, bad, ra, rb

\* of the ten digits seven, as TLC has integers of 32 bits; two end alike
MCAsn == {4220001, 4221080, 4270001}

Default ==
    [name |-> dn42a, port |-> 20001, remove |-> FALSE, remote |-> "right",
     wg_pubkey |-> "right", multi |-> "none", wg_mtu |-> "none",
     peer_v4 |-> "usable", peer_v6 |-> "usable", local_v4 |-> "none", local_v6 |-> "none",
     bgp |-> [given |-> TRUE, asn |-> 4220001, neighbor |-> FALSE, ipv4 |-> "on",
              ipv6 |-> "on", mp_bgp |-> FALSE, extended_next_hop |-> FALSE]]

WireGuardBlocks ==
    {[Default EXCEPT !.name = n, !.port = p, !.remove = x, !.remote = e, !.wg_pubkey = k,
                     !.multi = m, !.wg_mtu = u] :
        n \in {dn42a, iga, bad}, p \in {NoPort, 0, 19999, 20000, 21080, 59999, 60000},
        x \in BOOLEAN, e \in {"none", "wrong"}, k \in Text, m \in Text, u \in {"none", "small"}}

SessionBlocks ==
    {[Default EXCEPT !.peer_v4 = p[1], !.peer_v6 = p[2], !.local_v4 = p[3], !.local_v6 = p[4], !.bgp = g] :
        p \in ({"none", "usable", "outside"} \X {"none", "usable", "disallowed"}
                   \X {"none", "host", "pair", "end"} \X {"none", "unparsable", "host", "wide"}),
        g \in {NoBgp} \cup
              [given : {TRUE}, asn : {4220001}, neighbor : BOOLEAN, ipv4 : {"off", "on"},
               ipv6 : Switch, mp_bgp : BOOLEAN, extended_next_hop : BOOLEAN]}

Holding(s) == [state |-> "peers", peers |-> s]

Tree(wga, wgb, gre) ==
    [wireguard |-> ra :> wga @@ rb :> wgb, gre |-> ra :> gre @@ rb :> Missing]

Simple == {[Default EXCEPT !.name = n, !.port = p] : n \in {dn42a, dn42b, iga}, p \in {0, 20001, 20002}}
              \cup {[Default EXCEPT !.name = bad]}

SimpleLists == {<<>>} \cup {<<b>> : b \in Simple} \cup {<<b, c>> : b, c \in Simple}

MadeBlocks ==
    UNION {{Generated(a, o) : o \in Options(a)} :
        a \in {b \in Answers : Complete(b) /\ b.mtu # "right" /\ b.remote # "wrong"}}

MCTrees ==
    {{Tree(Holding(<<b>>), Missing, Missing) : b \in WireGuardBlocks},
     {Tree(Missing, Missing, Holding(<<b>>)) : b \in WireGuardBlocks},
     {Tree(Holding(<<b>>), Missing, Missing) : b \in SessionBlocks},
     {Tree(Holding(s), Holding(<<Default>>), f) :
            s \in SimpleLists,
            f \in {Missing, Empty} \cup {Holding(<<b>>) : b \in Simple}},
     {Tree(Holding(<<b, c>>), Empty, Missing) : b, c \in Simple},
     {Tree(Holding(<<b>>), Missing, Missing) : b \in MadeBlocks},
     {Tree(Holding(<<b, c>>), Missing, Missing) :
            b, c \in {m \in MadeBlocks : m.remote = "right" /\ m.wg_mtu = "none"
                                         /\ {m.peer_v4, m.peer_v6} \subseteq {"none", "usable"}}}}
=============================================================================
