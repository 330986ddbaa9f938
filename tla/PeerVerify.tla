----------------------------- MODULE PeerVerify -----------------------------
(***************************************************************************)
(* scripts/ci-verify.py: the loops of PeerVerifier.run over the files of   *)
(* config-wireguard and then config-gre-plain, in the order in which glob  *)
(* finds them, with the names and ports seen so far for each router.       *)
(***************************************************************************)
EXTENDS PeerBlock, Sequences

CONSTANTS
    Router,      \* the stems of the file names
    NoRouter,    \* no file is open
    Trees        \* the trees that are pushed, in groups

Types == {"wireguard", "gre"}

(* A file may be missing, or empty, as peerconfgen --create leaves it when *)
(* it is aborted.                                                          *)
Missing == [state |-> "missing", peers |-> <<>>]
Empty   == [state |-> "empty", peers |-> <<>>]
File    == {Missing, Empty} \cup [state : {"peers"}, peers : Seq(Block)]

ASSUME TreesAssumption == Trees \subseteq SUBSET [Types -> [Router -> File]]
ASSUME NoRouterAssumption == NoRouter \notin Router

VARIABLES
    tree,            \* the files; never changed
    type,            \* which of the two loops run() is in
    todo,            \* the files of this type that were not opened yet
    router,          \* the file that is open
    done,            \* done[t][r]: how many blocks of a file were checked
    seen_ifnames,
    seen_ports,
    verdict          \* "running", "OK", or "error" for an exception

vars == <<tree, type, todo, router, done, seen_ifnames, seen_ports, verdict>>

Present(files) == {r \in Router : files[r].state # "missing"}

TypeOK ==
    /\ tree \in [Types -> [Router -> File]]
    /\ type \in Types
    /\ todo \subseteq Router
    /\ router \in Router \cup {NoRouter}
    /\ done \in [Types -> [Router -> Nat]]
    /\ seen_ifnames \in [Router -> SUBSET Name]
    /\ seen_ports \in [Router -> SUBSET Nat]
    /\ verdict \in {"running", "OK", "error"}

Init ==
    /\ \E group \in Trees : tree \in group
    /\ type = "wireguard"
    /\ todo = Present(tree["wireguard"])
    /\ router = NoRouter
    /\ done = [t \in Types |-> [r \in Router |-> 0]]
    /\ seen_ifnames = [r \in Router |-> {}]
    /\ seen_ports = [r \in Router |-> {}]
    /\ verdict = "running"

-----------------------------------------------------------------------------
Fail ==
    /\ verdict' = "error"
    /\ UNCHANGED <<tree, type, todo, router, done, seen_ifnames, seen_ports>>

(* An empty file has no list to loop over.                                 *)
OpenFile ==
    /\ verdict = "running"
    /\ router = NoRouter
    /\ \E r \in todo :
          \/ tree[type][r].state = "empty" /\ Fail
          \/ /\ tree[type][r].state = "peers"
             /\ router' = r
             /\ todo' = todo \ {r}
             /\ UNCHANGED <<tree, type, done, seen_ifnames, seen_ports, verdict>>

Blocks == tree[type][router].peers
Current == Blocks[done[type][router] + 1]

\* Faulty: any value of the field is noted
PortsOfAny(b, t) == {b.port}

(* Only the ports of WireGuard tunnels are looked at, and no port is none. *)
PortsOf(b, t) == IF t = "wireguard" /\ b.port > 0 THEN {b.port} ELSE {}

Acceptable(b) ==
    /\ Valid(b, type)
    /\ b.name \notin seen_ifnames[router]
    /\ PortsOf(b, type) \cap seen_ports[router] = {}

CheckBlock ==
    /\ verdict = "running"
    /\ router # NoRouter
    /\ done[type][router] < Len(Blocks)
    /\ \/ ~Acceptable(Current) /\ Fail
       \/ /\ Acceptable(Current)
          /\ done' = [done EXCEPT ![type][router] = @ + 1]
          /\ seen_ifnames' = [seen_ifnames EXCEPT ![router] = @ \cup {Current.name}]
          /\ seen_ports' = [seen_ports EXCEPT ![router] = @ \cup PortsOf(Current, type)]
          /\ UNCHANGED <<tree, type, todo, router, verdict>>

CloseFile ==
    /\ verdict = "running"
    /\ router # NoRouter
    /\ done[type][router] = Len(Blocks)
    /\ router' = NoRouter
    /\ UNCHANGED <<tree, type, todo, done, seen_ifnames, seen_ports, verdict>>

(* Faulty: the GRE files are checked by a verifier of their own.           *)
EndLoopAfresh ==
    /\ verdict = "running"
    /\ router = NoRouter
    /\ todo = {}
    /\ IF type = "wireguard"
       THEN /\ type' = "gre" /\ todo' = Present(tree["gre"])
            /\ seen_ifnames' = [r \in Router |-> {}]
            /\ UNCHANGED verdict
       ELSE verdict' = "OK" /\ UNCHANGED <<type, todo, seen_ifnames>>
    /\ UNCHANGED <<tree, router, done, seen_ports>>

EndLoop ==
    /\ verdict = "running"
    /\ router = NoRouter
    /\ todo = {}
    /\ IF type = "wireguard"
       THEN type' = "gre" /\ todo' = Present(tree["gre"]) /\ UNCHANGED verdict
       ELSE verdict' = "OK" /\ UNCHANGED <<type, todo>>
    /\ UNCHANGED <<tree, router, done, seen_ifnames, seen_ports>>

Next == OpenFile \/ CheckBlock \/ CloseFile \/ EndLoop

Spec == Init /\ [][Next]_vars

-----------------------------------------------------------------------------
(* Properties.                                                             *)

BlockAt(t, r, i) == tree[t][r].peers[i]
Places(t, r) == DOMAIN tree[t][r].peers

(* What a tree has to be for its routers to be configured from it.         *)
FilesHoldLists == \A t \in Types, r \in Router : tree[t][r].state # "empty"

BlocksValid ==
    \A t \in Types, r \in Router : \A i \in Places(t, r) : Valid(BlockAt(t, r, i), t)

NamesDiffer ==
    \A r \in Router, t, u \in Types : \A i \in Places(t, r), j \in Places(u, r) :
        BlockAt(t, r, i).name = BlockAt(u, r, j).name => t = u /\ i = j

PortsDiffer ==
    \A r \in Router, t, u \in Types : \A i \in Places(t, r), j \in Places(u, r) :
        PortsOf(BlockAt(t, r, i), t) \cap PortsOf(BlockAt(u, r, j), u) # {} => t = u /\ i = j

Deployable == FilesHoldLists /\ BlocksValid /\ NamesDiffer /\ PortsDiffer

(* The verdict is right, in whatever order the files are found: OK for a   *)
(* tree in which every block is valid by itself and no two blocks of a     *)
(* router have one interface name, whichever of its two files they are in, *)
(* or one listen port; an error for any other tree.                        *)
VerdictRight ==
    /\ verdict = "OK" => Deployable
    /\ verdict = "error" => ~Deployable

(* What passes can be turned into BIRD's configuration: a session to every *)
(* other network, and for every session an address of the neighbour.  The  *)
(* exception is an own network that is not one of two or four addresses,   *)
(* or an own address at the end of one, which the verifier does not look   *)
(* at and at which the template fails.                                     *)
SessionsRender ==
    verdict = "OK" =>
        \A t \in Types, r \in Router : \A i \in Places(t, r) :
            LET b == BlockAt(t, r, i)
            IN  /\ External(b) => Sessions(b) # {}
                /\ \A f \in Sessions(b) :
                      RemoteIp(b, f) = "ValueError" => Local(b, f) \in {"end", "wide"}

(* The answers that are also what CI wants: addresses in dn42's ranges, an *)
(* endpoint that looks like one, an AS that is not our own (nor ends like  *)
(* it).                                                                    *)
Proper(a) ==
    /\ Complete(a)
    /\ a.remote # "wrong"
    /\ a.mtu # "small"
    /\ {a.peer_v4, a.peer_v6} \subseteq {"none", "usable"}
    /\ Digits(a.asn) # OwnDigits

Made(b) ==
    \E a \in Answers : Proper(a) /\ \E o \in Options(a) : b = Generated(a, o)

AllMade ==
    /\ \A r \in Router : tree["gre"][r].peers = <<>>
    /\ \A r \in Router : \A i \in Places("wireguard", r) : Made(BlockAt("wireguard", r, i))

LastDigits(r, i) == Digits(BlockAt("wireguard", r, i).bgp.asn)

DigitsDiffer ==
    \A r \in Router : \A i, j \in Places("wireguard", r) :
        LastDigits(r, i) = LastDigits(r, j) => i = j

(* A tree of blocks that peerconfgen made from proper answers passes, when *)
(* on each router their names differ and so do the last four digits of     *)
(* their AS numbers: no choice of BGP options leads to a block that is     *)
(* rejected.                                                               *)
GeneratedPass ==
    (FilesHoldLists /\ AllMade /\ NamesDiffer /\ DigitsDiffer) => verdict # "error"

=============================================================================
