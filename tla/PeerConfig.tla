----------------------------- MODULE PeerConfig -----------------------------
(***************************************************************************)
(* The list wg_peers of a router's file under                              *)
(* roles/config-wireguard/config/, and what the scripts of                 *)
(* scripts/peerconfgen/ compute from it.                                   *)
(***************************************************************************)
EXTENDS Naturals, Sequences, SequencesExt

(* Definitions marked "Faulty" are what a bug would make of the definition *)
(* that follows; the specifications do not use them.                       *)

CONSTANTS
    Peer,     \* the peer names an operator types
    Iface,    \* Iface[p]: get_iface_name(p); 10 characters of p, so not injective
    Asn       \* the AS numbers

ASSUME IfaceAssumption == DOMAIN Iface = Peer

Ifaces == {Iface[p] : p \in Peer}

(* A block of the list.  A peering with one AS may have several, under     *)
(* names of their own.                                                     *)
Block == [name : Ifaces, asn : Asn]

(* An invocation of peerconfgen.py or of peerconfrm.py.  The AS number of  *)
(* a new block is asked for later.  remove_peer takes names and AS numbers *)
(* in one list of words.                                                   *)
GenerateArgs == [prog : {"peerconfgen"}, peer : Peer,
                 replace : BOOLEAN, create : BOOLEAN, dry_run : BOOLEAN]
RemoveArgs   == [prog : {"peerconfrm"}, peers : SUBSET Peer, asns : SUBSET Asn]

UniqueNamesIn(s) == \A i, j \in DOMAIN s : s[i].name = s[j].name => i = j

-----------------------------------------------------------------------------
(* peerconfgen.                                                            *)

\* Faulty: the name is compared before it is shortened
PositionsUnshortened(c, s) == {i \in DOMAIN s : s[i].name = c.peer}

(* The blocks that the loop of main() stops at the first of.               *)
Positions(c, s) == {i \in DOMAIN s : s[i].name = Iface[c.peer]}

\* Faulty: the AS number is left out of the block
UpdatedUnnumbered(c, asn, s) == Append(s, [name |-> Iface[c.peer]])

\* Faulty: the new block goes to the end, the old one stays
UpdatedAtEnd(c, asn, s) == Append(s, [name |-> Iface[c.peer], asn |-> asn])

(* The list with the new block in place of the old one, or at its end.     *)
Updated(c, asn, s) ==
    LET block == [name |-> Iface[c.peer], asn |-> asn]
    IN  IF Positions(c, s) = {}
        THEN Append(s, block)
        ELSE [s EXCEPT ![CHOOSE i \in Positions(c, s) :
                            \A j \in Positions(c, s) : i <= j] = block]

-----------------------------------------------------------------------------
(* peerconfrm.                                                             *)

Matches(c, b) == b.name \in {Iface[p] : p \in c.peers} \/ b.asn \in c.asns

(* Faulty: the blocks to delete are found first, then deleted one by one   *)
(* at the places they were found at, which the deletions have moved.       *)
RemovedLater(c, s) ==
    LET found == SetToSortSeq({i \in DOMAIN s : Matches(c, s[i])}, <)
    IN  FoldLeft(LAMBDA list, i : IF i \in DOMAIN list THEN RemoveAt(list, i) ELSE list,
                 s, found)

\* Faulty: the loop ends with the first block that matches
RemovedFirst(c, s) ==
    LET found == {i \in DOMAIN s : Matches(c, s[i])}
    IN  IF found = {} THEN s ELSE RemoveAt(s, CHOOSE i \in found : \A j \in found : i <= j)

(* Faulty: places are counted from one and deleted as counted from zero    *)
VisitedFromOne(c, list, n) ==
    IF n + 1 \in DOMAIN list /\ Matches(c, list[n]) THEN RemoveAt(list, n + 1) ELSE list

(* The block at a place that the loop comes to.                            *)
Visited(c, list, n) ==
    IF n \in DOMAIN list /\ Matches(c, list[n]) THEN RemoveAt(list, n) ELSE list

(* Blocks are deleted from the list that the loop runs over, one place     *)
(* after the other: the block that moves into the place of a deleted one   *)
(* is passed over, and stays.                                              *)
Removed(c, s) ==
    LET left[n \in 0..Len(s)] == IF n = 0 THEN s ELSE Visited(c, left[n - 1], n)
    IN  left[Len(s)]

=============================================================================
