-------------------------- MODULE PeerVerifyProofs --------------------------
(***************************************************************************)
(* Proofs about PeerVerify, for any trees, routers, names and AS numbers:  *)
(* the verdict is right, and with it what passes can be turned into BIRD's *)
(* configuration, and what peerconfgen makes passes.                       *)
(***************************************************************************)
EXTENDS PeerVerify, TLAPS

(* The files, whatever the tree: a list each.                              *)
LEMMA FileFacts ==
    ASSUME NEW f \in File
    PROVE  /\ f.state \in {"missing", "empty", "peers"}
           /\ f.peers \in Seq(Block)
           /\ f.state # "peers" => f.peers = <<>>
<1>1. CASE f \in [state : {"peers"}, peers : Seq(Block)]
  BY <1>1
<1>2. CASE f = Missing
  BY <1>2 DEF Missing
<1>3. CASE f = Empty
  BY <1>3 DEF Empty
<1> QED
  BY <1>1, <1>2, <1>3 DEF File

LEMMA BlockFacts ==
    ASSUME NEW b \in Block, NEW t \in Types
    PROVE  b.name \in Name /\ PortsOf(b, t) \in SUBSET Nat
BY DEF Block, PortsOf, NoPort

(***************************************************************************)
(* Typing.                                                                 *)
(***************************************************************************)

LEMMA TypeInit == Init => TypeOK
BY TreesAssumption DEF Init, TypeOK, Types, Present

(* The block that is checked next.                                         *)
LEMMA CurrentFacts ==
    ASSUME TypeOK, router # NoRouter, done[type][router] < Len(Blocks)
    PROVE  /\ router \in Router
           /\ Blocks \in Seq(Block)
           /\ done[type][router] \in Nat
           /\ done[type][router] + 1 \in DOMAIN Blocks
           /\ Current \in Block
           /\ Current.name \in Name
           /\ PortsOf(Current, type) \in SUBSET Nat
<1>1. router \in Router /\ type \in Types /\ done[type][router] \in Nat
  BY DEF TypeOK
<1>2. tree[type][router] \in File
  BY <1>1 DEF TypeOK
<1>3. Blocks \in Seq(Block)
  BY <1>2, FileFacts DEF Blocks
<1>4. done[type][router] + 1 \in DOMAIN Blocks
  BY <1>1, <1>3
<1>5. Current \in Block
  BY <1>3, <1>4 DEF Current
<1> QED
  BY <1>1, <1>3, <1>4, <1>5, BlockFacts

LEMMA TypeNext == TypeOK /\ [Next]_vars => TypeOK'
<1> SUFFICES ASSUME TypeOK, [Next]_vars PROVE TypeOK'
  OBVIOUS
<1>1. CASE OpenFile
  BY <1>1 DEF OpenFile, Fail, TypeOK
<1>2. CASE CheckBlock
  <2>1. CASE Fail
    BY <2>1 DEF Fail, TypeOK
  <2>2. CASE ~Fail
    <3>1. router # NoRouter /\ done[type][router] < Len(Blocks)
      BY <1>2 DEF CheckBlock
    <3>2. /\ done' = [done EXCEPT ![type][router] = @ + 1]
          /\ seen_ifnames' = [seen_ifnames EXCEPT ![router] = @ \cup {Current.name}]
          /\ seen_ports' = [seen_ports EXCEPT ![router] = @ \cup PortsOf(Current, type)]
          /\ UNCHANGED <<tree, type, todo, router, verdict>>
      BY <1>2, <2>2 DEF CheckBlock
    <3>3. done' \in [Types -> [Router -> Nat]]
      BY <3>1, <3>2, CurrentFacts DEF TypeOK
    <3>4. seen_ifnames' \in [Router -> SUBSET Name]
      BY <3>1, <3>2, CurrentFacts DEF TypeOK
    <3>5. seen_ports' \in [Router -> SUBSET Nat]
      BY <3>1, <3>2, CurrentFacts DEF TypeOK
    <3> QED
      BY <3>2, <3>3, <3>4, <3>5 DEF TypeOK
  <2> QED
    BY <2>1, <2>2
<1>3. CASE CloseFile
  BY <1>3 DEF CloseFile, TypeOK
<1>4. CASE EndLoop
  BY <1>4 DEF EndLoop, TypeOK, Types, Present
<1>5. CASE UNCHANGED vars
  BY <1>5 DEF vars, TypeOK
<1> QED
  BY <1>1, <1>2, <1>3, <1>4, <1>5 DEF Next

(* The variables keep their types, whatever tree is pushed.                *)
THEOREM Typing == Spec => []TypeOK
BY TypeInit, TypeNext, PTL DEF Spec

(***************************************************************************)
(* The verdict.  It is about all blocks; the invariant is about those that *)
(* were checked: they are valid and differ, and what was seen is theirs.   *)
(***************************************************************************)

(* A file is read from its start, and one type after the other.            *)
Progress ==
    /\ \A t \in Types, r \in Router : done[t][r] <= Len(tree[t][r].peers)
    /\ \A t \in Types, r \in Router :
          (t = type /\ r \notin todo /\ r # router) \/ (t = "wireguard" /\ type = "gre") =>
              done[t][r] = Len(tree[t][r].peers) /\ tree[t][r].state # "empty"
    /\ router # NoRouter => tree[type][router].state = "peers"
    /\ verdict = "OK" => type = "gre" /\ todo = {} /\ router = NoRouter

Checked(t, r) == 1 .. done[t][r]

Seen ==
    \A r \in Router, t \in Types : \A i \in Checked(t, r) :
        /\ BlockAt(t, r, i).name \in seen_ifnames[r]
        /\ PortsOf(BlockAt(t, r, i), t) \subseteq seen_ports[r]

Owned ==
    /\ \A r \in Router : \A n \in seen_ifnames[r] :
          \E t \in Types : \E i \in Checked(t, r) : BlockAt(t, r, i).name = n
    /\ \A r \in Router : \A p \in seen_ports[r] :
          \E t \in Types : \E i \in Checked(t, r) : p \in PortsOf(BlockAt(t, r, i), t)

CheckedValid ==
    \A t \in Types, r \in Router : \A i \in Checked(t, r) : Valid(BlockAt(t, r, i), t)

CheckedDiffer ==
    \A r \in Router, t, u \in Types : \A i \in Checked(t, r), j \in Checked(u, r) :
        \/ BlockAt(t, r, i).name = BlockAt(u, r, j).name
        \/ PortsOf(BlockAt(t, r, i), t) \cap PortsOf(BlockAt(u, r, j), u) # {}
        => t = u /\ i = j

Rejected == verdict = "error" => ~Deployable

Inv == Progress /\ Seen /\ Owned /\ CheckedValid /\ CheckedDiffer /\ Rejected

LEMMA InvInit == Init => Inv
<1> SUFFICES ASSUME Init PROVE Inv
  OBVIOUS
<1>1. TypeOK
  BY TypeInit
<1>2. \A t \in Types, r \in Router : Checked(t, r) = {} /\ done[t][r] = 0
  BY DEF Init, Checked
<1>3. \A t \in Types, r \in Router : tree[t][r].peers \in Seq(Block)
                                     /\ (tree[t][r].state = "missing" => tree[t][r].peers = <<>>)
  BY <1>1, FileFacts DEF TypeOK
<1>4. Progress
  BY <1>2, <1>3 DEF Init, Progress, Present, Types
<1>5. Seen /\ CheckedValid /\ CheckedDiffer
  BY <1>2 DEF Seen, CheckedValid, CheckedDiffer
<1>6. Owned
  BY DEF Init, Owned
<1> QED
  BY <1>4, <1>5, <1>6 DEF Inv, Rejected, Init

(* A block that passes is the next of the open file.                       *)
LEMMA PassHere ==
    ASSUME TypeOK, CheckBlock, ~Fail
    PROVE  /\ router \in Router /\ type \in Types
           /\ done[type][router] \in Nat
           /\ done[type][router] < Len(tree[type][router].peers)
           /\ tree' = tree /\ type' = type /\ todo' = todo
           /\ router' = router /\ verdict' = verdict
<1>1. router # NoRouter /\ done[type][router] < Len(Blocks)
  BY DEF CheckBlock
<1>2. UNCHANGED <<tree, type, todo, router, verdict>>
  BY DEF CheckBlock
<1>3. router \in Router /\ type \in Types
  BY <1>1 DEF TypeOK
<1>4. done[type][router] \in Nat
  BY <1>3 DEF TypeOK
<1> QED
  BY <1>1, <1>2, <1>3, <1>4 DEF Blocks

LEMMA PassAccepts ==
    ASSUME TypeOK, CheckBlock, ~Fail
    PROVE  /\ Valid(Current, type)
           /\ Current.name \notin seen_ifnames[router]
           /\ PortsOf(Current, type) \cap seen_ports[router] = {}
BY DEF CheckBlock, Acceptable

(* Its name and port are noted, for its router only.                       *)
LEMMA PassSeen ==
    ASSUME TypeOK, CheckBlock, ~Fail
    PROVE  /\ \A r \in Router : seen_ifnames[r] \subseteq seen_ifnames'[r]
           /\ \A r \in Router : seen_ports[r] \subseteq seen_ports'[r]
           /\ Current.name \in seen_ifnames'[router]
           /\ PortsOf(Current, type) \subseteq seen_ports'[router]
           /\ \A r \in Router : \A n \in seen_ifnames'[r] :
                 n \in seen_ifnames[r] \/ (r = router /\ n = Current.name)
           /\ \A r \in Router : \A p \in seen_ports'[r] :
                 p \in seen_ports[r] \/ (r = router /\ p \in PortsOf(Current, type))
<1> DEFINE N == Current.name
           P == PortsOf(Current, type)
<1>1. /\ seen_ifnames' = [seen_ifnames EXCEPT ![router] = @ \cup {N}]
      /\ seen_ports' = [seen_ports EXCEPT ![router] = @ \cup P]
  BY DEF CheckBlock
<1>2. /\ router \in Router
      /\ seen_ifnames \in [Router -> SUBSET Name]
      /\ seen_ports \in [Router -> SUBSET Nat]
  BY PassHere DEF TypeOK
<1> HIDE DEF N, P
<1>3. \A r \in Router : r # router => seen_ifnames'[r] = seen_ifnames[r]
                                      /\ seen_ports'[r] = seen_ports[r]
  BY <1>1, <1>2
<1>4. /\ seen_ifnames'[router] = seen_ifnames[router] \cup {N}
      /\ seen_ports'[router] = seen_ports[router] \cup P
  BY <1>1, <1>2
<1>5. /\ \A r \in Router : seen_ifnames[r] \subseteq seen_ifnames'[r]
      /\ \A r \in Router : seen_ports[r] \subseteq seen_ports'[r]
  BY <1>3, <1>4
<1>6. N \in seen_ifnames'[router] /\ P \subseteq seen_ports'[router]
  BY <1>4
<1>7. \A r \in Router : \A n \in seen_ifnames'[r] :
          n \in seen_ifnames[r] \/ (r = router /\ n = N)
  BY <1>3, <1>4
<1>8. \A r \in Router : \A p \in seen_ports'[r] :
          p \in seen_ports[r] \/ (r = router /\ p \in P)
  BY <1>3, <1>4
<1> QED
  BY <1>5, <1>6, <1>7, <1>8 DEF N, P

(* It is the only block that is checked now and was not before.            *)
LEMMA PassDone ==
    ASSUME TypeOK, CheckBlock, ~Fail
    PROVE  /\ \A t \in Types, r \in Router :
                 t # type \/ r # router => done'[t][r] = done[t][r]
           /\ done'[type][router] = done[type][router] + 1
<1>1. done' = [done EXCEPT ![type][router] = @ + 1]
  BY DEF CheckBlock
<1>2. router \in Router /\ type \in Types /\ done \in [Types -> [Router -> Nat]]
  BY PassHere DEF TypeOK
<1> QED
  BY <1>1, <1>2

LEMMA PassChecked ==
    ASSUME TypeOK, CheckBlock, ~Fail
    PROVE  /\ \A t \in Types, r \in Router : Checked(t, r) \subseteq Checked(t, r)'
           /\ done[type][router] + 1 \in Checked(type, router)'
           /\ BlockAt(type, router, done[type][router] + 1) = Current
           /\ \A t \in Types, r \in Router : \A i \in Checked(t, r)' :
                 \/ i \in Checked(t, r)
                 \/ t = type /\ r = router /\ i = done[type][router] + 1
<1>1. \A t \in Types, r \in Router : done[t][r] \in Nat
  BY DEF TypeOK
<1>2. router \in Router /\ type \in Types /\ router' = router /\ type' = type
  BY PassHere
<1>3. ASSUME NEW t \in Types, NEW r \in Router
      PROVE  /\ Checked(t, r) \subseteq Checked(t, r)'
             /\ \A i \in Checked(t, r)' :
                  \/ i \in Checked(t, r)
                  \/ t = type /\ r = router /\ i = done[type][router] + 1
  <2>1. CASE t # type \/ r # router
    BY <2>1, PassDone DEF Checked
  <2>2. CASE t = type /\ r = router
    BY <2>2, <1>1, <1>2, PassDone DEF Checked
  <2> QED
    BY <2>1, <2>2
<1>4. done[type][router] + 1 \in Checked(type, router)'
  BY <1>1, <1>2, PassDone DEF Checked
<1>5. BlockAt(type, router, done[type][router] + 1) = Current
  BY DEF BlockAt, Current, Blocks
<1> QED
  BY <1>3, <1>4, <1>5

LEMMA PassInv ==
    ASSUME TypeOK, Inv, CheckBlock, ~Fail
    PROVE  Inv'
<1> DEFINE k == done[type][router] + 1
<1>1. \A t \in Types, r \in Router, i \in Nat : BlockAt(t, r, i)' = BlockAt(t, r, i)
  BY PassHere DEF BlockAt
<1>2. \A t \in Types, r \in Router : Checked(t, r)' \subseteq Nat /\ Checked(t, r) \subseteq Nat
  BY DEF Checked
<1>3. Progress'
  <2>1. /\ \A t \in Types, r \in Router : done[t][r] <= Len(tree[t][r].peers)
        /\ \A t \in Types, r \in Router :
              (t = type /\ r \notin todo /\ r # router) \/ (t = "wireguard" /\ type = "gre") =>
                 done[t][r] = Len(tree[t][r].peers) /\ tree[t][r].state # "empty"
        /\ router # NoRouter => tree[type][router].state = "peers"
        /\ verdict = "OK" => type = "gre" /\ todo = {} /\ router = NoRouter
    BY DEF Inv, Progress
  <2>2. tree[type][router].peers \in Seq(Block)
    BY PassHere, FileFacts DEF TypeOK
  <2>3. done'[type][router] <= Len(tree[type][router].peers)
    BY <2>2, PassHere, PassDone
  <2>4. \A t \in Types, r \in Router : done'[t][r] <= Len(tree[t][r].peers)
    BY <2>1, <2>3, PassDone
  <2>5. \A t \in Types, r \in Router :
          ((t = type /\ r \notin todo /\ r # router) \/ (t = "wireguard" /\ type = "gre")) =>
              /\ done'[t][r] = Len(tree[t][r].peers)
              /\ tree[t][r].state # "empty"
    BY <2>1, PassDone
  <2> QED
    BY <2>1, <2>4, <2>5, PassHere DEF Progress
<1>4. Seen'
  <2> SUFFICES ASSUME NEW r \in Router, NEW t \in Types, NEW i \in Checked(t, r)'
               PROVE  /\ BlockAt(t, r, i)'.name \in seen_ifnames'[r]
                      /\ PortsOf(BlockAt(t, r, i)', t) \subseteq seen_ports'[r]
    BY DEF Seen
  <2>0. BlockAt(t, r, i)' = BlockAt(t, r, i)
    BY <1>1, <1>2
  <2>1. CASE i \in Checked(t, r)
    <3>1. /\ BlockAt(t, r, i).name \in seen_ifnames[r]
          /\ PortsOf(BlockAt(t, r, i), t) \subseteq seen_ports[r]
      BY <2>1 DEF Inv, Seen
    <3> QED
      BY <2>0, <3>1, PassSeen
  <2>2. CASE t = type /\ r = router /\ i = k
    <3>1. BlockAt(t, r, i) = Current
      BY <2>2, PassChecked
    <3> QED
      BY <2>0, <2>2, <3>1, PassSeen
  <2> QED
    BY <2>1, <2>2, PassChecked
<1>5. Owned'
  <2>1. ASSUME NEW r \in Router, NEW n \in seen_ifnames'[r]
        PROVE  \E t \in Types : \E i \in Checked(t, r)' : BlockAt(t, r, i)'.name = n
    <3>1. CASE n \in seen_ifnames[r]
      BY <3>1, <1>1, <1>2, PassChecked DEF Inv, Owned
    <3>2. CASE r = router /\ n = Current.name
      BY <3>2, <1>1, <1>2, PassHere, PassChecked
    <3> QED
      BY <3>1, <3>2, <2>1, PassSeen
  <2>2. ASSUME NEW r \in Router, NEW p \in seen_ports'[r]
        PROVE  \E t \in Types : \E i \in Checked(t, r)' : p \in PortsOf(BlockAt(t, r, i)', t)
    <3>1. CASE p \in seen_ports[r]
      BY <3>1, <1>1, <1>2, PassChecked DEF Inv, Owned
    <3>2. CASE r = router /\ p \in PortsOf(Current, type)
      BY <3>2, <1>1, <1>2, PassHere, PassChecked
    <3> QED
      BY <3>1, <3>2, <2>2, PassSeen
  <2> QED
    BY <2>1, <2>2 DEF Owned
<1>6. CheckedValid'
  <2> SUFFICES ASSUME NEW t \in Types, NEW r \in Router, NEW i \in Checked(t, r)'
               PROVE  Valid(BlockAt(t, r, i)', t)
    BY DEF CheckedValid
  <2>1. CASE i \in Checked(t, r)
    BY <2>1, <1>1, <1>2 DEF Inv, CheckedValid
  <2>2. CASE t = type /\ r = router /\ i = k
    BY <2>2, <1>1, <1>2, PassAccepts, PassChecked
  <2> QED
    BY <2>1, <2>2, PassChecked
<1>7. CheckedDiffer'
  <2> SUFFICES ASSUME NEW r \in Router, NEW t \in Types, NEW u \in Types,
                      NEW i \in Checked(t, r)', NEW j \in Checked(u, r)',
                      \/ BlockAt(t, r, i)'.name = BlockAt(u, r, j)'.name
                      \/ PortsOf(BlockAt(t, r, i)', t) \cap PortsOf(BlockAt(u, r, j)', u) # {}
               PROVE  t = u /\ i = j
    BY DEF CheckedDiffer
  <2>1. /\ BlockAt(t, r, i)' = BlockAt(t, r, i)
        /\ BlockAt(u, r, j)' = BlockAt(u, r, j)
    BY <1>1, <1>2
  <2>2. CASE i \in Checked(t, r) /\ j \in Checked(u, r)
    BY <2>1, <2>2 DEF Inv, CheckedDiffer
  <2>3. CASE i \in Checked(t, r) /\ r = router /\ u = type /\ j = k
    <3>1. /\ BlockAt(t, r, i).name \in seen_ifnames[r]
          /\ PortsOf(BlockAt(t, r, i), t) \subseteq seen_ports[r]
      BY <2>3 DEF Inv, Seen
    <3>2. BlockAt(u, r, j) = Current
      BY <2>3, PassChecked
    <3> QED
      BY <2>1, <2>3, <3>1, <3>2, PassAccepts
  <2>4. CASE j \in Checked(u, r) /\ r = router /\ t = type /\ i = k
    <3>1. /\ BlockAt(u, r, j).name \in seen_ifnames[r]
          /\ PortsOf(BlockAt(u, r, j), u) \subseteq seen_ports[r]
      BY <2>4 DEF Inv, Seen
    <3>2. BlockAt(t, r, i) = Current
      BY <2>4, PassChecked
    <3> QED
      BY <2>1, <2>4, <3>1, <3>2, PassAccepts
  <2>5. CASE t = type /\ u = type /\ i = k /\ j = k
    BY <2>5
  <2> QED
    BY <2>2, <2>3, <2>4, <2>5, PassChecked
<1>8. Rejected'
  BY PassHere DEF CheckBlock, Rejected
<1> QED
  BY <1>3, <1>4, <1>5, <1>6, <1>7, <1>8 DEF Inv

(* A block that fails shows that the tree cannot be deployed: it is not    *)
(* valid, or has the name or port of one of those that were checked.       *)
LEMMA CheckedPlaces ==
    ASSUME TypeOK, Inv, NEW t \in Types, NEW r \in Router
    PROVE  Checked(t, r) \subseteq Places(t, r)
<1>1. done[t][r] \in Nat /\ done[t][r] <= Len(tree[t][r].peers)
  BY DEF TypeOK, Inv, Progress
<1>2. tree[t][r].peers \in Seq(Block)
  BY FileFacts DEF TypeOK
<1> QED
  BY <1>1, <1>2 DEF Checked, Places

LEMMA BlockRejected ==
    ASSUME TypeOK, Inv, router # NoRouter, done[type][router] < Len(Blocks),
           ~Acceptable(Current)
    PROVE  ~Deployable
<1> DEFINE k == done[type][router] + 1
<1>1. router \in Router /\ type \in Types /\ k \in Nat
  BY CurrentFacts DEF TypeOK
<1>2. k \in Places(type, router) /\ BlockAt(type, router, k) = Current
  BY CurrentFacts DEF Places, Blocks, BlockAt, Current
<1>3. k \notin Checked(type, router)
  BY <1>1, CurrentFacts DEF Checked
<1>4. CASE ~Valid(Current, type)
  BY <1>1, <1>2, <1>4 DEF Deployable, BlocksValid
<1>5. CASE Current.name \in seen_ifnames[router]
  <2>1. PICK t \in Types : \E i \in Checked(t, router) :
            BlockAt(t, router, i).name = Current.name
    BY <1>1, <1>5 DEF Inv, Owned
  <2>2. PICK i \in Checked(t, router) : BlockAt(t, router, i).name = Current.name
    BY <2>1
  <2>3. i \in Places(t, router)
    BY <1>1, <2>2, CheckedPlaces
  <2>4. ~(t = type /\ i = k)
    BY <1>3, <2>2
  <2> QED
    BY <1>1, <1>2, <2>2, <2>3, <2>4 DEF Deployable, NamesDiffer
<1>6. CASE PortsOf(Current, type) \cap seen_ports[router] # {}
  <2>1. PICK p \in seen_ports[router] : p \in PortsOf(Current, type)
    BY <1>6
  <2>2. PICK t \in Types : \E i \in Checked(t, router) :
            p \in PortsOf(BlockAt(t, router, i), t)
    BY <1>1, <2>1 DEF Inv, Owned
  <2>3. PICK i \in Checked(t, router) : p \in PortsOf(BlockAt(t, router, i), t)
    BY <2>2
  <2>4. i \in Places(t, router)
    BY <1>1, <2>3, CheckedPlaces
  <2>5. ~(t = type /\ i = k)
    BY <1>3, <2>3
  <2>6. PortsOf(BlockAt(t, router, i), t) \cap PortsOf(BlockAt(type, router, k), type) # {}
    BY <1>2, <2>1, <2>3
  <2> QED
    BY <1>1, <1>2, <2>4, <2>5, <2>6 DEF Deployable, PortsDiffer
<1> QED
  BY <1>4, <1>5, <1>6 DEF Acceptable

(* What Inv says is about the tree, what was checked and what was seen.    *)
LEMMA SameInv ==
    ASSUME Inv, UNCHANGED <<tree, done, seen_ifnames, seen_ports>>
    PROVE  Seen' /\ Owned' /\ CheckedValid' /\ CheckedDiffer' /\ (Deployable' <=> Deployable)
<1>1. \A t, r : Checked(t, r)' = Checked(t, r)
  BY DEF Checked
<1>2. \A t, r, i : BlockAt(t, r, i)' = BlockAt(t, r, i)
  BY DEF BlockAt
<1>3. Seen'
  BY <1>1, <1>2 DEF Inv, Seen
<1>4. Owned'
  BY <1>1, <1>2 DEF Inv, Owned
<1>5. CheckedValid'
  BY <1>1, <1>2 DEF Inv, CheckedValid
<1>6. CheckedDiffer'
  BY <1>1, <1>2 DEF Inv, CheckedDiffer
<1>7. Deployable' <=> Deployable
  BY DEF Deployable, FilesHoldLists, BlocksValid, NamesDiffer, PortsDiffer, BlockAt, Places
<1> QED
  BY <1>3, <1>4, <1>5, <1>6, <1>7

LEMMA FailInv ==
    ASSUME Inv, Fail, ~Deployable
    PROVE  Inv'
<1>1. Progress'
  BY DEF Fail, Inv, Progress
<1>2. Rejected'
  BY SameInv DEF Fail, Rejected
<1> QED
  BY <1>1, <1>2, SameInv DEF Fail, Inv

LEMMA InvNext == TypeOK /\ Inv /\ [Next]_vars => Inv'
<1> SUFFICES ASSUME TypeOK, Inv, [Next]_vars PROVE Inv'
  OBVIOUS
<1>1. CASE OpenFile
  <2>1. PICK r \in todo :
          \/ tree[type][r].state = "empty" /\ Fail
          \/ /\ tree[type][r].state = "peers"
             /\ router' = r
             /\ todo' = todo \ {r}
             /\ UNCHANGED <<tree, type, done, seen_ifnames, seen_ports, verdict>>
    BY <1>1 DEF OpenFile
  <2>2. r \in Router /\ type \in Types
    BY <2>1 DEF TypeOK
  <2>3. CASE tree[type][r].state = "empty" /\ Fail
    <3>1. ~Deployable
      BY <2>2, <2>3 DEF Deployable, FilesHoldLists
    <3> QED
      BY <2>3, <3>1, FailInv
  <2>4. CASE /\ tree[type][r].state = "peers"
             /\ router' = r
             /\ todo' = todo \ {r}
             /\ UNCHANGED <<tree, type, done, seen_ifnames, seen_ports, verdict>>
    <3>1. verdict = "running" /\ router = NoRouter
      BY <1>1 DEF OpenFile
    <3>2. /\ \A t \in Types, q \in Router : done[t][q] <= Len(tree[t][q].peers)
          /\ \A t \in Types, q \in Router :
                (t = type /\ q \notin todo /\ q # router) \/ (t = "wireguard" /\ type = "gre") =>
                   done[t][q] = Len(tree[t][q].peers) /\ tree[t][q].state # "empty"
      BY DEF Inv, Progress
    <3>3. \A t \in Types, q \in Router :
            ((t = type /\ q \notin todo' /\ q # router') \/ (t = "wireguard" /\ type = "gre")) =>
                done[t][q] = Len(tree[t][q].peers) /\ tree[t][q].state # "empty"
      BY <2>4, <3>1, <3>2, NoRouterAssumption
    <3>4. Progress'
      BY <2>4, <3>1, <3>2, <3>3 DEF Progress
    <3>5. Rejected'
      BY <2>4, <3>1 DEF Rejected
    <3> QED
      BY <2>4, <3>4, <3>5, SameInv DEF Inv
  <2> QED
    BY <2>1, <2>3, <2>4
<1>2. CASE CheckBlock
  <2>1. CASE Fail
    <3>1. /\ router # NoRouter /\ done[type][router] < Len(Blocks)
          /\ ~Acceptable(Current)
      BY <1>2, <2>1 DEF CheckBlock, Fail
    <3> QED
      BY <2>1, <3>1, BlockRejected, FailInv
  <2> QED
    BY <1>2, <2>1, PassInv
<1>3. CASE CloseFile
  <2>1. Progress'
    BY <1>3 DEF CloseFile, Blocks, Inv, Progress, TypeOK
  <2> QED
    BY <1>3, <2>1, SameInv DEF CloseFile, Inv, Rejected
<1>4. CASE EndLoop
  <2>1. /\ verdict = "running" /\ router = NoRouter /\ todo = {}
        /\ UNCHANGED <<tree, router, done, seen_ifnames, seen_ports>>
    BY <1>4 DEF EndLoop
  <2>2. \A t \in Types, r \in Router :
          tree[t][r].state = "missing" => tree[t][r].peers = <<>>
    BY FileFacts DEF TypeOK
  <2>3. \A r \in Router : r # NoRouter
    BY NoRouterAssumption
  <2>4. Progress'
    BY <1>4, <2>1, <2>2, <2>3 DEF EndLoop, Present, Inv, Progress, TypeOK, Types
  <2>5. verdict' # "error"
    BY <1>4, <2>1 DEF EndLoop
  <2> QED
    BY <2>1, <2>4, <2>5, SameInv DEF Inv, Rejected
<1>5. CASE UNCHANGED vars
  <2>1. Progress'
    BY <1>5 DEF vars, Inv, Progress
  <2> QED
    BY <1>5, <2>1, SameInv DEF vars, Inv, Rejected
<1> QED
  BY <1>1, <1>2, <1>3, <1>4, <1>5 DEF Next

THEOREM AlwaysInv == Spec => [](TypeOK /\ Inv)
<1>1. Init => TypeOK /\ Inv
  BY TypeInit, InvInit
<1>2. (TypeOK /\ Inv) /\ [Next]_vars => (TypeOK /\ Inv)'
  BY TypeNext, InvNext
<1> QED
  BY <1>1, <1>2, PTL DEF Spec

(* The verdict is right: a tree gets OK exactly if every file holds a list,*)
(* every block is valid, and names and ports differ on each router.  The   *)
(* files may be found in any order, and hold any number of blocks.         *)
LEMMA OkMeansDeployable ==
    ASSUME TypeOK, Inv, verdict = "OK"
    PROVE  Deployable
<1>1. type = "gre" /\ todo = {} /\ router = NoRouter
  BY DEF Inv, Progress
<1>2. ASSUME NEW t \in Types, NEW r \in Router
      PROVE  tree[t][r].state # "empty" /\ Checked(t, r) = Places(t, r)
  <2>1. t = type \/ t = "wireguard"
    BY <1>1 DEF Types
  <2>2. r \notin todo /\ r # router
    BY <1>1, NoRouterAssumption
  <2>3. done[t][r] = Len(tree[t][r].peers) /\ tree[t][r].state # "empty"
    BY <1>1, <2>1, <2>2 DEF Inv, Progress
  <2>4. tree[t][r].peers \in Seq(Block)
    BY FileFacts DEF TypeOK
  <2> QED
    BY <2>3, <2>4 DEF Checked, Places
<1>3. FilesHoldLists
  BY <1>2 DEF FilesHoldLists
<1>4. BlocksValid
  BY <1>2 DEF Inv, CheckedValid, BlocksValid
<1>5. NamesDiffer
  <2> SUFFICES ASSUME NEW r \in Router, NEW t \in Types, NEW u \in Types,
                      NEW i \in Places(t, r), NEW j \in Places(u, r),
                      BlockAt(t, r, i).name = BlockAt(u, r, j).name
               PROVE  t = u /\ i = j
    BY DEF NamesDiffer
  <2>1. i \in Checked(t, r) /\ j \in Checked(u, r)
    BY <1>2
  <2> QED
    BY <2>1 DEF Inv, CheckedDiffer
<1>6. PortsDiffer
  <2> SUFFICES ASSUME NEW r \in Router, NEW t \in Types, NEW u \in Types,
                      NEW i \in Places(t, r), NEW j \in Places(u, r),
                      PortsOf(BlockAt(t, r, i), t) \cap PortsOf(BlockAt(u, r, j), u) # {}
               PROVE  t = u /\ i = j
    BY DEF PortsDiffer
  <2>1. i \in Checked(t, r) /\ j \in Checked(u, r)
    BY <1>2
  <2> QED
    BY <2>1 DEF Inv, CheckedDiffer
<1> QED
  BY <1>3, <1>4, <1>5, <1>6 DEF Deployable

THEOREM VerdictAlwaysRight == Spec => []VerdictRight
<1>1. TypeOK /\ Inv => VerdictRight
  BY OkMeansDeployable DEF VerdictRight, Inv, Rejected
<1> QED
  BY <1>1, AlwaysInv, PTL

(* A valid block has a session to every other network, and every session   *)
(* has the address of a neighbour, but for the own networks that the       *)
(* verifier does not look at.                                              *)
LEMMA ValidRenders ==
    ASSUME NEW b \in Block, NEW t \in Types, Valid(b, t)
    PROVE  /\ External(b) => Sessions(b) # {}
           /\ \A f \in Sessions(b) :
                 RemoteIp(b, f) = "ValueError" => Local(b, f) \in {"end", "wide"}
<1>1. /\ ValidAddresses(b)
      /\ b.bgp.given => ValidBgp(b)
      /\ External(b) => b.bgp.given
  BY DEF Valid
<1>2. /\ b.bgp \in Bgp
      /\ b.bgp.ipv4 \in Switch /\ b.bgp.ipv6 \in Switch
      /\ b.bgp.mp_bgp \in BOOLEAN /\ b.bgp.neighbor \in BOOLEAN
      /\ b.local_v4 \in LocalAddress /\ b.local_v6 \in LocalAddress
  BY DEF Block, Bgp
<1>3. External(b) => Sessions(b) # {}
  <2> SUFFICES ASSUME b.bgp.given, ValidBgp(b) PROVE Sessions(b) # {}
    BY <1>1
  <2>1. b.bgp.ipv4 = "on" \/ b.bgp.ipv6 = "on"
    BY DEF ValidBgp
  <2>2. CASE b.bgp.ipv6 = "on"
    <3>1. 6 \in Sessions(b)
      BY <2>2 DEF Sessions
    <3> QED
      BY <3>1
  <2>3. CASE b.bgp.ipv4 = "on" /\ b.bgp.ipv6 # "on"
    <3>1. 4 \in Sessions(b)
      BY <2>3 DEF Sessions
    <3> QED
      BY <3>1
  <2> QED
    BY <2>1, <2>2, <2>3
<1>4. ASSUME NEW f \in Sessions(b), RemoteIp(b, f) = "ValueError"
      PROVE  Local(b, f) \in {"end", "wide"}
  <2>1. b.bgp.given /\ ValidBgp(b)
    BY <1>1 DEF Sessions
  <2>2. f \in {4, 6}
    BY DEF Sessions
  <2>3. Peer(b, f) = "none" /\ Local(b, f) \notin {"pair", "inside"}
    BY <1>2, <1>4 DEF RemoteIp
  <2>4. CASE f = 4
    <3>1. b.bgp.ipv4 = "on" /\ ~b.bgp.extended_next_hop
      BY <2>1, <2>4 DEF Sessions, ValidBgp
    <3> QED
      BY <1>1, <1>2, <2>1, <2>3, <2>4, <3>1 DEF ValidBgp, ValidAddresses, Peer, Local, LocalAddress
  <2>5. CASE f = 6
    <3>1. b.bgp.ipv6 = "on"
      BY <2>1, <2>5 DEF Sessions, ValidBgp
    <3> QED
      BY <1>1, <1>2, <2>1, <2>3, <2>5, <3>1 DEF ValidBgp, ValidAddresses, Peer, Local, LocalAddress
  <2> QED
    BY <2>2, <2>4, <2>5
<1> QED
  BY <1>3, <1>4

(* What passes can be turned into BIRD's configuration.                    *)
THEOREM SessionsAlwaysRender == Spec => []SessionsRender
<1>1. TypeOK /\ VerdictRight => SessionsRender
  <2> SUFFICES ASSUME TypeOK, VerdictRight, verdict = "OK",
                      NEW t \in Types, NEW r \in Router, NEW i \in Places(t, r)
               PROVE  LET b == BlockAt(t, r, i)
                      IN  /\ External(b) => Sessions(b) # {}
                          /\ \A f \in Sessions(b) :
                                RemoteIp(b, f) = "ValueError" => Local(b, f) \in {"end", "wide"}
    BY DEF SessionsRender
  <2>1. Valid(BlockAt(t, r, i), t)
    BY DEF VerdictRight, Deployable, BlocksValid
  <2>2. tree[t][r].peers \in Seq(Block)
    BY FileFacts DEF TypeOK
  <2>3. BlockAt(t, r, i) \in Block
    BY <2>2 DEF BlockAt, Places
  <2> QED
    BY <2>1, <2>3, ValidRenders
<1> QED
  BY <1>1, Typing, VerdictAlwaysRight, PTL

(* The listen port: one that CI allows, and different for different last   *)
(* digits.                                                                 *)
LEMMA DigitFacts ==
    ASSUME NEW n \in Nat
    PROVE  Digits(n) \in Nat /\ Digits(n) <= 9999
BY DEF Digits

LEMMA ListenPortAllowed ==
    ASSUME NEW n \in Nat, Digits(n) # OwnDigits
    PROVE  /\ ListenPort(n) \in Nat
           /\ ListenPort(n) # 0
           /\ ListenPort(n) # NoPort
           /\ AllowedPort(ListenPort(n))
<1> DEFINE p == ListenPort(n)
<1>1. p \in Nat /\ p >= 20000
  BY DigitFacts DEF ListenPort
<1>2. p <= 29999
  BY DigitFacts DEF ListenPort
<1>3. p # 21080
  BY DigitFacts DEF ListenPort, OwnDigits
<1> HIDE DEF p
<1>4. p # 0
  BY <1>1
<1>5. p # NoPort
  BY <1>1 DEF NoPort
<1>6. p \in 20000 .. 29999
  BY <1>1, <1>2
<1>7. AllowedPort(p)
  BY <1>3, <1>6 DEF AllowedPort
<1> QED
  BY <1>1, <1>4, <1>5, <1>7 DEF p

LEMMA ListenPortDiffers ==
    ASSUME NEW n \in Nat, NEW m \in Nat, ListenPort(n) = ListenPort(m)
    PROVE  Digits(n) = Digits(m)
BY DigitFacts DEF ListenPort

(* What peerconfgen makes of proper answers is valid.                      *)
LEMMA MadeIsValid ==
    ASSUME NEW b, Made(b)
    PROVE  /\ Valid(b, "wireguard")
           /\ b.port = ListenPort(b.bgp.asn)
           /\ b.bgp.asn \in Nat
<1>1. PICK a \in Answers : Proper(a) /\ \E o \in Options(a) : b = Generated(a, o)
  BY DEF Made
<1>2. PICK o \in Options(a) : b = Generated(a, o)
  BY <1>1
<1>3. /\ a.name \in LegalNames /\ a.asn \in Nat
      /\ a.wg_pubkey = "right"
      /\ a.remote # "wrong" /\ a.mtu # "small" /\ Digits(a.asn) # OwnDigits
      /\ {a.peer_v4, a.peer_v6} \subseteq {"none", "usable"}
      /\ a.peer_v4 # "none" \/ a.peer_v6 # "none"
  <2>1. /\ a.name \in LegalNames /\ a.asn \in Asn /\ a.wg_pubkey = "right"
    BY DEF Answers
  <2>2. /\ a.remote # "wrong" /\ a.mtu # "small" /\ Digits(a.asn) # OwnDigits
        /\ {a.peer_v4, a.peer_v6} \subseteq {"none", "usable"}
        /\ a.peer_v4 # "none" \/ a.peer_v6 # "none"
    BY <1>1 DEF Proper, Complete
  <2>3. a.asn \in Nat
    BY <2>1, AsnAssumption
  <2> QED
    BY <2>1, <2>2, <2>3
<1>4. /\ o.mp_bgp \in BOOLEAN /\ o.extended_next_hop \in BOOLEAN
      /\ o.mp_bgp => a.peer_v6 # "none" /\ a.peer_v4 # "none"
      /\ o.extended_next_hop => a.peer_v6 # "none" /\ (o.mp_bgp \/ a.peer_v4 = "none")
  BY DEF Options
<1>5. /\ b.name = a.name /\ b.port = ListenPort(a.asn) /\ b.remove = FALSE
      /\ b.remote = a.remote /\ b.wg_pubkey = a.wg_pubkey
      /\ b.multi = "none" /\ b.wg_mtu = a.mtu
      /\ b.peer_v4 = a.peer_v4 /\ b.peer_v6 = a.peer_v6
      /\ b.local_v4 = "none" /\ b.local_v6 = "none"
      /\ b.bgp.given = TRUE /\ b.bgp.asn = a.asn
      /\ b.bgp.ipv4 = On(a.peer_v4 # "none" \/ o.extended_next_hop)
      /\ b.bgp.ipv6 = On(a.peer_v6 # "none")
      /\ b.bgp.mp_bgp = (o.mp_bgp \/ o.extended_next_hop)
      /\ b.bgp.extended_next_hop = o.extended_next_hop
  BY <1>2 DEF Generated
<1>6. b.port # NoPort /\ AllowedPort(b.port)
  BY <1>3, <1>5, ListenPortAllowed
<1>7. ValidWireGuard(b)
  BY <1>3, <1>5, <1>6 DEF ValidWireGuard
<1>8. ValidAddresses(b) /\ Addressed(b, "wireguard")
  BY <1>3, <1>5 DEF ValidAddresses, Addressed
<1>9. ValidBgp(b)
  <2>1. b.bgp.asn # NotAnAs
    BY <1>3, <1>5 DEF NotAnAs
  <2>2. /\ b.bgp.ipv4 = "on" <=> (a.peer_v4 # "none" \/ o.extended_next_hop)
        /\ b.bgp.ipv6 = "on" <=> a.peer_v6 # "none"
        /\ b.bgp.ipv4 # "missing" /\ b.bgp.ipv6 # "missing"
    BY <1>5 DEF On
  <2>3. b.bgp.mp_bgp => b.bgp.ipv4 = "on" /\ b.bgp.ipv6 = "on"
    BY <1>4, <1>5, <2>2
  <2>4. b.bgp.extended_next_hop => b.bgp.mp_bgp
    BY <1>5
  <2> QED
    BY <1>3, <1>5, <2>1, <2>2, <2>3, <2>4 DEF ValidBgp
<1> QED
  BY <1>3, <1>5, <1>7, <1>8, <1>9 DEF Valid

(* What peerconfgen makes is never rejected, if the names and the last     *)
(* four digits of the AS numbers differ on each router.                    *)
THEOREM GeneratedAlwaysPass == Spec => []GeneratedPass
<1>1. TypeOK /\ VerdictRight => GeneratedPass
  <2> SUFFICES ASSUME TypeOK, FilesHoldLists, AllMade, NamesDiffer, DigitsDiffer
               PROVE  Deployable
    BY DEF VerdictRight, GeneratedPass
  <2>1. \A r \in Router : Places("gre", r) = {}
    BY DEF AllMade, Places
  <2>2. \A r \in Router : \A i \in Places("wireguard", r) : Made(BlockAt("wireguard", r, i))
    BY DEF AllMade
  <2>3. BlocksValid
    BY <2>1, <2>2, MadeIsValid DEF BlocksValid, Types
  <2>4. PortsDiffer
    <3> SUFFICES ASSUME NEW r \in Router, NEW t \in Types, NEW u \in Types,
                        NEW i \in Places(t, r), NEW j \in Places(u, r),
                        PortsOf(BlockAt(t, r, i), t) \cap PortsOf(BlockAt(u, r, j), u) # {}
                 PROVE  t = u /\ i = j
      BY DEF PortsDiffer
    <3>1. t = "wireguard" /\ u = "wireguard"
      BY <2>1 DEF Types
    <3>2. BlockAt(t, r, i).port = BlockAt(u, r, j).port
      BY DEF PortsOf
    <3>3. /\ BlockAt(t, r, i).port = ListenPort(BlockAt(t, r, i).bgp.asn)
          /\ BlockAt(u, r, j).port = ListenPort(BlockAt(u, r, j).bgp.asn)
          /\ BlockAt(t, r, i).bgp.asn \in Nat /\ BlockAt(u, r, j).bgp.asn \in Nat
      BY <2>2, <3>1, MadeIsValid
    <3>4. Digits(BlockAt(t, r, i).bgp.asn) = Digits(BlockAt(u, r, j).bgp.asn)
      BY <3>2, <3>3, ListenPortDiffers
    <3>5. LastDigits(r, i) = LastDigits(r, j)
      BY <3>1, <3>4 DEF LastDigits
    <3> QED
      BY <3>1, <3>5 DEF DigitsDiffer
  <2> QED
    BY <2>3, <2>4 DEF Deployable
<1> QED
  BY <1>1, Typing, VerdictAlwaysRight, PTL

=============================================================================
