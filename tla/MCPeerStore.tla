---------------------------- MODULE MCPeerStore -----------------------------
(* Command lines for TLC: four peers, the names of two of which shorten to *)
(* one interface name, and words of remove_peer that match neighbours in   *)
(* the list.                                                               *)
EXTENDS PeerStore, TLC

CONSTANTS pa, pb, pbb, pd, ia, ib, id, as1

MCIface == [p \in Peer |-> IF p = pa THEN ia ELSE IF p = pd THEN id ELSE ib]

Gen(p, flags) == [prog |-> "peerconfgen", peer |-> p, replace |-> "replace" \in flags,
                  create |-> "create" \in flags, dry_run |-> "dry_run" \in flags]
Rm(peers, asns) == [prog |-> "peerconfrm", peers |-> peers, asns |-> asns]

MCCommand ==
    {Gen(pa, {"create"}), Gen(pb, {}), Gen(pbb, {"replace"}), Gen(pd, {}), Gen(pd, {"dry_run"}),
     Rm({pa, pbb}, {}), Rm({}, {as1})}

Symmetry == Permutations(Run)
=============================================================================
