----------------------------- MODULE PeerBlock ------------------------------
(***************************************************************************)
(* A block of wg_peers or gre_peers: how peerconfgen.py makes one from the *)
(* answers to its questions, what ci-verify.py asks of it, and which BGP   *)
(* sessions dn42_peers.conf.j2 writes for it.                              *)
(*                                                                         *)
(* Text fields are reduced to what these programs tell apart.              *)
(***************************************************************************)
EXTENDS Integers

(* Definitions marked "Faulty" are what a bug would make of the definition *)
(* that follows; the specifications do not use them.                       *)

CONSTANTS
    Name,            \* interface names
    LegalNames,      \* not empty, 15 characters at most, ALLOWED_IFACE_RE
    ExternalNames,   \* those that start with dn42
    Asn              \* the AS numbers of other networks

ASSUME NameAssumption == LegalNames \subseteq Name /\ ExternalNames \subseteq Name
ASSUME AsnAssumption == Asn \subseteq Nat

(* A text that may be left out, and is right or wrong.                     *)
Text == {"none", "right", "wrong"}

(* An address of the peer: one that CI wants, one that does not parse, one *)
(* outside the ranges of dn42, or one of the own IGP tunnels.              *)
PeerAddress == {"none", "usable", "unparsable", "outside", "disallowed"}

(* An own address: its network holds one address, two, four with this one  *)
(* inside or at an end, or another number.                                 *)
LocalAddress == {"none", "unparsable", "host", "pair", "inside", "end", "wide"}

NoPort  == -1    \* there is no field port; 0 is one without a value
NotAnAs == -1

Switch == {"missing", "off", "on"}

Bgp == [given : BOOLEAN, asn : Nat \cup {NotAnAs}, neighbor : BOOLEAN,
        ipv4 : Switch, ipv6 : Switch, mp_bgp : BOOLEAN, extended_next_hop : BOOLEAN]

NoBgp == [given |-> FALSE, asn |-> NotAnAs, neighbor |-> FALSE,
          ipv4 |-> "missing", ipv6 |-> "missing", mp_bgp |-> FALSE, extended_next_hop |-> FALSE]

Block == [name : Name, port : Nat \cup {NoPort}, remove : BOOLEAN,
          remote : Text, wg_pubkey : Text, multi : Text, wg_mtu : {"none", "small", "right"},
          peer_v4 : PeerAddress, peer_v6 : PeerAddress,
          local_v4 : LocalAddress, local_v6 : LocalAddress, bgp : Bgp]

-----------------------------------------------------------------------------
(* peerconfgen.                                                            *)

(* The answers that complete_peer_config and the command line accept: the  *)
(* validators ask for link-local or private addresses, which need not be   *)
(* in the ranges of dn42, and hardly anything of the endpoint.             *)
Answers == [name : LegalNames \cap ExternalNames, asn : Asn, remote : Text, wg_pubkey : {"right"},
            mtu : {"none", "small", "right"},
            peer_v4 : {"none", "usable", "outside"},
            peer_v6 : {"none", "usable", "outside", "disallowed"}]

Complete(a) == a.peer_v4 # "none" \/ a.peer_v6 # "none"

(* Faulty: the question about the next hop is always asked.                *)
OptionsUnguarded(a) ==
    {o \in [mp_bgp : BOOLEAN, extended_next_hop : BOOLEAN] :
        o.mp_bgp => a.peer_v6 # "none" /\ a.peer_v4 # "none"}

(* fill_bird_options: MP-BGP is offered to a dual-stack peer, the extended *)
(* next hop with MP-BGP or to a peer without IPv4 addresses.               *)
Options(a) ==
    {o \in [mp_bgp : BOOLEAN, extended_next_hop : BOOLEAN] :
        /\ o.mp_bgp => a.peer_v6 # "none" /\ a.peer_v4 # "none"
        /\ o.extended_next_hop => a.peer_v6 # "none" /\ (o.mp_bgp \/ a.peer_v4 = "none")}

(* The last four digits of an AS number, and those of our own.             *)
Digits(asn) == asn % 10000
OwnDigits == 1080

ListenPort(asn) == 20000 + Digits(asn)

On(b) == IF b THEN "on" ELSE "off"

(* gen_peer_config.                                                        *)
Generated(a, o) ==
    [name |-> a.name, port |-> ListenPort(a.asn), remove |-> FALSE,
     remote |-> a.remote, wg_pubkey |-> a.wg_pubkey, multi |-> "none", wg_mtu |-> a.mtu,
     peer_v4 |-> a.peer_v4, peer_v6 |-> a.peer_v6, local_v4 |-> "none", local_v6 |-> "none",
     bgp |-> [given |-> TRUE, asn |-> a.asn, neighbor |-> FALSE,
              ipv4 |-> On(a.peer_v4 # "none" \/ o.extended_next_hop),
              ipv6 |-> On(a.peer_v6 # "none"),
              mp_bgp |-> o.mp_bgp \/ o.extended_next_hop,
              extended_next_hop |-> o.extended_next_hop]]

-----------------------------------------------------------------------------
(* ci-verify, as far as it looks at one block.                             *)

AllowedPort(p) == (p \in 20000 .. 29999 \/ p \in 50000 .. 59999) /\ p # 21080

External(b) == b.name \in ExternalNames

(* _check_peer_wg but for the ports of other blocks.                       *)
ValidWireGuard(b) ==
    /\ b.port # NoPort
    /\ External(b) /\ b.port # 0 => AllowedPort(b.port)
    /\ b.remote # "wrong"
    /\ b.wg_pubkey = "right" \/ (b.wg_pubkey = "none" /\ b.multi # "none")
    /\ b.multi # "wrong"
    /\ b.wg_mtu # "small"

ValidAddresses(b) ==
    /\ {b.peer_v4, b.peer_v6} \subseteq {"none", "usable"}
    /\ "unparsable" \notin {b.local_v4, b.local_v6}
    /\ b.local_v4 = "host" => b.peer_v4 # "none"
    /\ b.local_v6 = "host" => b.peer_v6 # "none"

(* Faulty: MP-BGP is accepted whatever families are enabled.               *)
ValidBgpOneFamily(b) ==
    /\ b.bgp.asn # NotAnAs
    /\ "missing" \notin {b.bgp.ipv4, b.bgp.ipv6}
    /\ "on" \in {b.bgp.ipv4, b.bgp.ipv6}
    /\ b.bgp.extended_next_hop => b.bgp.mp_bgp
    /\ b.bgp.ipv4 = "on" =>
          b.peer_v4 # "none" \/ b.bgp.extended_next_hop \/ b.local_v4 # "none"
    /\ b.bgp.ipv6 = "on" => b.peer_v6 # "none" \/ b.local_v6 # "none"

(* _check_bgp_auto_config, for a block with a BGP configuration.           *)
ValidBgp(b) ==
    /\ b.bgp.asn # NotAnAs
    /\ "missing" \notin {b.bgp.ipv4, b.bgp.ipv6}
    /\ "on" \in {b.bgp.ipv4, b.bgp.ipv6}
    /\ b.bgp.extended_next_hop => b.bgp.mp_bgp
    /\ b.bgp.mp_bgp => b.bgp.ipv4 = "on" /\ b.bgp.ipv6 = "on"
    /\ b.bgp.ipv4 = "on" =>
          b.peer_v4 # "none" \/ b.bgp.extended_next_hop \/ b.local_v4 # "none"
    /\ b.bgp.ipv6 = "on" => b.peer_v6 # "none" \/ b.local_v6 # "none"

Addressed(b, type) ==
    \/ b.peer_v4 # "none" \/ b.peer_v6 # "none"
    \/ b.local_v4 # "none" \/ b.local_v6 # "none"
    \/ type = "wireguard" /\ b.multi # "none"

(* _check_peer_config but for the names of other blocks.                   *)
Valid(b, type) ==
    /\ b.name \in LegalNames
    /\ ~b.remove
    /\ type = "wireguard" => ValidWireGuard(b)
    /\ Addressed(b, type)
    /\ ValidAddresses(b)
    /\ b.bgp.given => ValidBgp(b)
    /\ External(b) => b.bgp.given

-----------------------------------------------------------------------------
(* BIRD's configuration.                                                   *)

(* The families of addresses of which a block has sessions: one session in *)
(* IPv6 if it does MP-BGP.                                                 *)
Sessions(b) ==
    IF ~b.bgp.given THEN {}
    ELSE IF b.bgp.mp_bgp /\ b.bgp.ipv6 = "on" THEN {6}
    ELSE {f \in {4, 6} : (f = 4 /\ b.bgp.ipv4 = "on") \/ (f = 6 /\ b.bgp.ipv6 = "on")}

Peer(b, f) == IF f = 4 THEN b.peer_v4 ELSE b.peer_v6
Local(b, f) == IF f = 4 THEN b.local_v4 ELSE b.local_v6

(* get_dn42_remote_ip: where the address of the neighbour comes from; the  *)
(* other end of a point-to-point network is taken if nothing else is said. *)
RemoteIp(b, f) ==
    CASE b.bgp.neighbor -> "neighbor"
      [] ~b.bgp.neighbor /\ Peer(b, f) # "none" -> "peer"
      [] ~b.bgp.neighbor /\ Peer(b, f) = "none" /\ Local(b, f) \in {"pair", "inside"} -> "other end"
      [] OTHER -> "ValueError"

=============================================================================
