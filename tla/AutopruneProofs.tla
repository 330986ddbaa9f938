--------------------------- MODULE AutopruneProofs ---------------------------
(***************************************************************************)
(* Proofs about Autoprune, for any peers and sessions and lists of any     *)
(* length: that its promises hold under the conditions their comments      *)
(* name, and not only for the three peers of the run.                      *)
(***************************************************************************)
EXTENDS Autoprune, PeerConfigProofs

(* Every AS has one peer.                                                  *)
OnePeerEach == \A i, j \in Ifaces : AsnOf[i] = AsnOf[j] => i = j

(* Every peer has one session.                                             *)
OneSessionEach == \A i \in Ifaces : \E f : Families[i] = {f}

-----------------------------------------------------------------------------
(***************************************************************************)
(* Types, and the lists: names are unique, a block has the AS number of    *)
(* its peer, and only peers in the list are edited.                        *)
(***************************************************************************)

Listing(s) ==
    /\ s \in Seq(Block) /\ UniqueNamesIn(s)
    /\ \A b \in Range(s) : b.name \in Ifaces /\ b = BlockOf(b.name)

Inv ==
    /\ TypeOK
    /\ Listing(peers) /\ Listing(head)
    /\ touched \subseteq Names(peers)
    /\ pc = "idle" => lost = {}
    /\ lost \subseteq settled

LEMMA BlockOfType ==
  ASSUME NEW i \in Ifaces
  PROVE  BlockOf(i) \in Block /\ BlockOf(i).name = i /\ BlockOf(i).asn = AsnOf[i]
BY AsnOfAssumption DEF BlockOf, Block

LEMMA NamesType ==
  ASSUME NEW s, Listing(s)
  PROVE  Names(s) \subseteq Ifaces
BY DEF Listing, Names

LEMMA ListingEmpty == Listing(<<>>) /\ Names(<<>>) = {}
BY DEF Listing, UniqueNamesIn, Range, Names

LEMMA ListingAppend ==
  ASSUME NEW s, Listing(s), NEW i \in Ifaces, i \notin Names(s)
  PROVE  /\ Listing(Append(s, BlockOf(i)))
         /\ Names(Append(s, BlockOf(i))) = Names(s) \cup {i}
<1> DEFINE b == BlockOf(i)
           l == Append(s, b)
<1>1. b \in Block /\ b.name = i
  BY BlockOfType
<1> HIDE DEF b
<1>2. /\ s \in Seq(Block) /\ l \in Seq(Block) /\ Len(l) = Len(s) + 1 /\ l[Len(s) + 1] = b
      /\ \A k \in 1..Len(s) : l[k] = s[k]
  BY <1>1 DEF Listing
<1>3. DOMAIN l = 1..(Len(s) + 1) /\ DOMAIN s = 1..Len(s)
  BY <1>2
<1> HIDE DEF l
<1>4. Range(l) = Range(s) \cup {b}
  BY <1>2, <1>3 DEF Range
<1>5. \A k \in 1..Len(s) : s[k].name # i
  BY <1>3 DEF Names, Range
<1>6. UniqueNamesIn(l)
  BY <1>1, <1>2, <1>3, <1>5 DEF Listing, UniqueNamesIn
<1>7. Listing(l)
  BY <1>1, <1>2, <1>4, <1>6 DEF Listing, b
<1>8. Names(l) = Names(s) \cup {i}
  BY <1>1, <1>4 DEF Names
<1> QED BY <1>7, <1>8 DEF l, b

(* A list with some of its blocks is one too.                              *)
LEMMA ListingFewer ==
  ASSUME NEW s, Listing(s), NEW l \in Seq(Block), Range(l) \subseteq Range(s), UniqueNamesIn(l)
  PROVE  Listing(l) /\ Names(l) \subseteq Names(s)
BY DEF Listing, Names

LEMMA ListingRemoveAt ==
  ASSUME NEW s, Listing(s), NEW n \in DOMAIN s
  PROVE  Listing(RemoveAt(s, n)) /\ Names(s) \ {s[n].name} \subseteq Names(RemoveAt(s, n))
<1> DEFINE l == RemoveAt(s, n)
<1>1. s \in Seq(Block) /\ n \in 1..Len(s) /\ DOMAIN s = 1..Len(s)
  BY DEF Listing
<1>2. /\ l \in Seq(Block) /\ Len(l) = Len(s) - 1
      /\ \A k \in 1..(Len(s) - 1) : l[k] = IF k < n THEN s[k] ELSE s[k + 1]
  BY <1>1, RemoveAtFacts
<1>3. DOMAIN l = 1..(Len(s) - 1)
  BY <1>2
<1> HIDE DEF l
<1>4. Range(l) \subseteq Range(s)
  BY <1>1, <1>2, <1>3 DEF Range
<1>5. UniqueNamesIn(l)
  <2>1. \A j, k \in 1..Len(s) : s[j].name = s[k].name => j = k
    BY <1>1 DEF Listing, UniqueNamesIn
  <2> QED BY <1>1, <1>2, <1>3, <2>1 DEF UniqueNamesIn
<1>6. ASSUME NEW k \in 1..Len(s), k # n
      PROVE  s[k] \in Range(l)
  <2>1. CASE k < n
    BY <1>1, <1>2, <1>3, <2>1 DEF Range
  <2>2. CASE k > n
    <3>1. k - 1 \in 1..(Len(s) - 1) /\ ~(k - 1 < n) /\ (k - 1) + 1 = k
      BY <1>1, <2>2
    <3> QED BY <1>2, <1>3, <3>1 DEF Range
  <2> QED BY <1>1, <1>6, <2>1, <2>2
<1>7. Names(s) \ {s[n].name} \subseteq Names(l)
  BY <1>1, <1>6 DEF Names, Range
<1> QED BY <1>2, <1>4, <1>5, <1>7, ListingFewer DEF l

LEMMA InvInit == Init => Inv
<1> SUFFICES ASSUME Init PROVE Inv
  OBVIOUS
<1>1. <<>> \in Seq(Block)
  OBVIOUS
<1>2. TypeOK
  BY <1>1 DEF Init, TypeOK
<1> QED BY <1>2, ListingEmpty DEF Init, Inv

LEMMA InvNext == Inv /\ [Next]_vars => Inv'
<1> SUFFICES ASSUME Inv, [Next]_vars PROVE Inv'
  OBVIOUS
<1>1. /\ TypeOK /\ Listing(peers) /\ Listing(head) /\ touched \subseteq Names(peers)
      /\ Names(peers) \subseteq Ifaces
  BY NamesType DEF Inv
<1> DEFINE Lists == /\ Listing(peers) /\ Listing(head) /\ touched \subseteq Names(peers)
                    /\ recent \subseteq Ifaces
           Router == deployed \subseteq Ifaces /\ up \subseteq UNION {Sessions(i) : i \in deployed}
           Script == /\ pc \in {"idle", "query", "remove"} /\ settled \subseteq Asn
                     /\ lost \subseteq settled /\ (pc = "idle" => lost = {})
<1>2. Lists' /\ Router' /\ Script' => Inv'
  BY NamesType DEF Inv, TypeOK, Listing
<1>3. Lists /\ Router /\ Script
  BY <1>1 DEF Inv, TypeOK
<1>4. CASE Edit
  <2>1. CASE \E i \in Ifaces :
                /\ peers' = IF i \in Names(peers) THEN peers ELSE Append(peers, BlockOf(i))
                /\ touched' = touched \cup {i}
    <3>1. PICK i \in Ifaces :
             /\ peers' = IF i \in Names(peers) THEN peers ELSE Append(peers, BlockOf(i))
             /\ touched' = touched \cup {i}
      BY <2>1
    <3>2. Listing(peers') /\ touched' \subseteq Names(peers')
      BY <1>1, <3>1, ListingAppend
    <3> QED BY <1>2, <1>3, <1>4, <3>2 DEF Edit, routerVars, scriptVars
  <2>2. CASE \E n \in DOMAIN peers : /\ peers' = RemoveAt(peers, n)
                                     /\ touched' = touched \ {peers[n].name}
    <3>1. Listing(peers') /\ touched' \subseteq Names(peers')
      BY <1>1, <2>2, ListingRemoveAt
    <3> QED BY <1>2, <1>3, <1>4, <3>1 DEF Edit, routerVars, scriptVars
  <2> QED BY <1>4, <2>1, <2>2 DEF Edit
<1>5. CASE Commit
  BY <1>1, <1>2, <1>3, <1>5 DEF Commit, routerVars, scriptVars
<1>6. CASE GetOld
  BY <1>2, <1>3, <1>6 DEF GetOld, routerVars, scriptVars
<1>7. CASE Deploy
  <2>1. Router'
    <3>1. \A s \in up : \E i \in deployed : s \in Sessions(i) /\ s[1] = i
      BY <1>3 DEF Sessions
    <3> QED BY <1>1, <1>7, <3>1 DEF Deploy
  <2> QED BY <1>2, <1>3, <1>7, <2>1 DEF Deploy, operatorVars, scriptVars
<1>8. CASE ComeUp
  <2>1. Router'
    BY <1>3, <1>8 DEF ComeUp
  <2> QED BY <1>2, <1>3, <1>8, <2>1 DEF ComeUp, operatorVars, scriptVars
<1>9. CASE StayDown
  <2>1. Router'
    BY <1>3, <1>9 DEF StayDown
  <2> QED BY <1>2, <1>3, <1>9, <2>1 DEF StayDown, operatorVars, scriptVars
<1>10. CASE ReadConfigs
  <2>1. Script'
    BY <1>3, <1>10 DEF ReadConfigs, Settled, Inv
  <2> QED BY <1>2, <1>3, <1>10, <2>1 DEF ReadConfigs, operatorVars, routerVars
<1>11. CASE GetLostPeers
  <2>1. Script'
    BY <1>3, <1>11 DEF GetLostPeers, Lost
  <2> QED BY <1>2, <1>3, <1>11, <2>1 DEF GetLostPeers, operatorVars, routerVars
<1>12. CASE RemovePeers
  <2>1. /\ peers' = Removed([peers |-> {}, asns |-> lost], peers)
        /\ touched' = touched \cap Names(peers')
    BY <1>12 DEF RemovePeers
  <2>2. Listing(peers')
    BY <1>1, <2>1, RemovedFacts, ListingFewer DEF Listing
  <2>3. Script'
    BY <1>12 DEF RemovePeers, EndRun
  <2> QED BY <1>2, <1>3, <1>12, <2>1, <2>2, <2>3 DEF RemovePeers, routerVars
<1>13. CASE Stop
  <2>1. Script'
    BY <1>13 DEF Stop, EndRun
  <2> QED BY <1>2, <1>3, <1>13, <2>1 DEF Stop, operatorVars, routerVars
<1>14. CASE UNCHANGED vars
  BY <1>2, <1>3, <1>14 DEF vars
<1> QED
  BY <1>4, <1>5, <1>6, <1>7, <1>8, <1>9, <1>10, <1>11, <1>12, <1>13, <1>14 DEF Next, Prune

THEOREM Invariance == Spec => []Inv
BY InvInit, InvNext, PTL DEF Spec

(* The variables keep their types: what is marked for removal are AS       *)
(* numbers, and only sessions of deployed peers are up.                    *)
THEOREM TypeCorrect == Spec => []TypeOK
<1>1. Inv => TypeOK
  BY DEF Inv
<1> QED BY <1>1, Invariance, PTL

-----------------------------------------------------------------------------
(***************************************************************************)
(* What the script promises.                                               *)
(***************************************************************************)

(* No peer with a session that was up is marked for removal, when every AS *)
(* has one peer and every peer one session.                                *)
THEOREM MarksOnlyInactiveIfOne ==
  ASSUME OnePeerEach, OneSessionEach
  PROVE  Spec => MarksOnlyInactive
<1>1. Inv => \A i \in Names(head) :
                (GetLostPeers /\ AsnOf[i] \in lost') => Sessions(i) \cap up = {}
  <2> SUFFICES ASSUME Inv, NEW i \in Names(head), GetLostPeers, AsnOf[i] \in lost'
               PROVE  Sessions(i) \cap up = {}
    OBVIOUS
  <2>1. i \in Ifaces /\ deployed \subseteq Ifaces
    BY NamesType DEF Inv, TypeOK
  <2>2. PICK s \in Inactive : AsnOf[s[1]] = AsnOf[i]
    BY DEF GetLostPeers, Lost
  <2>3. PICK j \in deployed : s \in Sessions(j) /\ s \notin up
    BY DEF Inactive
  <2>4. s[1] = j
    BY <2>3 DEF Sessions
  <2>5. j = i
    BY <2>1, <2>2, <2>4 DEF OnePeerEach
  <2>6. PICK f : Families[i] = {f}
    BY <2>1 DEF OneSessionEach
  <2>7. Sessions(i) = {<<i, f>>}
    BY <2>6 DEF Sessions
  <2> QED BY <2>3, <2>5, <2>7
<1> QED BY <1>1, Invariance, PTL DEF MarksOnlyInactive

(* During a run nothing is edited, and no AS that counts as settled has a  *)
(* block that was committed recently.                                      *)
Quiet ==
    pc # "idle" =>
        /\ touched = {} /\ peers = head
        /\ \A i \in Names(peers) \cap recent : AsnOf[i] \notin settled

LEMMA QuietNext ==
  ASSUME OnePeerEach, ~Overlap
  PROVE  Inv /\ Quiet /\ [Next]_vars => Quiet'
<1> SUFFICES ASSUME Inv, Quiet, [Next]_vars PROVE Quiet'
  OBVIOUS
<1>1. CASE Edit
  BY <1>1 DEF Edit, scriptVars, Quiet
<1>2. CASE Commit
  BY <1>2 DEF Commit, Dirty, scriptVars, Quiet
<1>3. CASE GetOld
  BY <1>3 DEF GetOld, scriptVars, Quiet
<1>4. CASE Deploy \/ ComeUp \/ StayDown
  BY <1>4 DEF Deploy, ComeUp, StayDown, operatorVars, scriptVars, Quiet
<1>5. CASE ReadConfigs
  <2>1. /\ touched = {} /\ peers = head /\ settled' = Settled(peers, recent)
        /\ UNCHANGED <<peers, head, touched, recent>>
    BY <1>5 DEF ReadConfigs, Dirty, operatorVars
  <2>2. ASSUME NEW i \in Names(peers) \cap recent, AsnOf[i] \in Settled(peers, recent)
        PROVE  FALSE
    <3>1. PICK k \in DOMAIN peers : peers[k].asn = AsnOf[i] /\ peers[k].name \notin recent
      BY <2>2 DEF Settled
    <3>2. peers[k].name \in Ifaces /\ peers[k] = BlockOf(peers[k].name)
      BY DEF Inv, Listing, Range
    <3>3. AsnOf[peers[k].name] = AsnOf[i]
      BY <3>1, <3>2, BlockOfType
    <3>4. i \in Ifaces
      BY NamesType DEF Inv
    <3> QED BY <3>1, <3>2, <3>3, <3>4 DEF OnePeerEach
  <2> QED BY <2>1, <2>2 DEF Quiet
<1>6. CASE GetLostPeers
  BY <1>6 DEF GetLostPeers, operatorVars, Quiet
<1>7. CASE RemovePeers \/ Stop
  BY <1>7 DEF RemovePeers, Stop, EndRun, Quiet
<1>8. CASE UNCHANGED vars
  BY <1>8 DEF vars, Quiet
<1> QED BY <1>1, <1>2, <1>3, <1>4, <1>5, <1>6, <1>7, <1>8 DEF Next, Prune

(* What is removed was neither committed recently nor edited since, when   *)
(* the file is not edited during a run and every AS has one peer.          *)
THEOREM PrunesOnlySettledIfOne ==
  ASSUME OnePeerEach, ~Overlap
  PROVE  Spec => PrunesOnlySettled
<1>1. Init => Quiet
  BY DEF Init, Quiet
<1>2. Inv /\ Quiet => (RemovePeers => (Names(peers) \ Names(peers')) \cap (recent \cup touched) = {})
  <2> SUFFICES ASSUME Inv, Quiet, RemovePeers, NEW i \in Names(peers) \ Names(peers'),
                      i \in recent \cup touched
               PROVE  FALSE
    OBVIOUS
  <2>1. pc # "idle" /\ peers' = Removed([peers |-> {}, asns |-> lost], peers)
    BY DEF RemovePeers
  <2>2. i \in recent /\ AsnOf[i] \notin lost
    BY <2>1 DEF Quiet, Inv
  <2>3. PICK b \in Range(peers) : b.name = i
    BY DEF Names
  <2>4. b \notin Range(peers')
    BY <2>3 DEF Names
  <2>5. Matches([peers |-> {}, asns |-> lost], b)
    BY <2>1, <2>3, <2>4, RemovedFacts DEF Inv, Listing
  <2>6. b.asn = AsnOf[i]
    BY <2>3, BlockOfType DEF Inv, Listing
  <2> QED BY <2>2, <2>5, <2>6 DEF Matches
<1>3. Spec => []Quiet
  BY <1>1, Invariance, QuietNext, PTL DEF Spec
<1> QED BY <1>2, <1>3, Invariance, PTL DEF PrunesOnlySettled
=============================================================================
