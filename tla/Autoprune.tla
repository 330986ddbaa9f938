----------------------------- MODULE Autoprune ------------------------------
(***************************************************************************)
(* scripts/peerconfgen/autoprune.py on the peers of one router: it reads   *)
(* the peer file and its git history, asks Prometheus which BGP sessions   *)
(* were down for a long time, and removes their peers from the file, while *)
(* an operator edits and commits that file and configures the router.      *)
(***************************************************************************)
EXTENDS PeerConfig

(* Definitions marked "Faulty" are what a bug would make of the definition *)
(* that follows; the specification does not use them.                      *)

CONSTANTS
    Families,    \* Families[i]: the sessions of the peer at interface i
    AsnOf,       \* AsnOf[i]: its AS number
    Overlap      \* may the operator edit the file during a run of the script?

ASSUME FamiliesAssumption ==
    /\ DOMAIN Families = Ifaces
    /\ \A i \in Ifaces : Families[i] \in {{"mp"}, {"v4"}, {"v6"}, {"v4", "v6"}}
ASSUME AsnOfAssumption == AsnOf \in [Ifaces -> Asn]

VARIABLES
    peers,     \* wg_peers in the work tree
    head,      \* wg_peers at HEAD
    touched,   \* the interfaces whose block was edited since HEAD
    recent,    \* those whose block was committed in the last ignore_new_days days
    deployed,  \* those that the router runs sessions for
    up,        \* the sessions that were up within the last threshold days
    pc,        \* the next step of the script, or "idle"
    settled,   \* asn_to_conf_lines and line_to_mod_time: the AS numbers in the
               \* file whose lines are older than ignore_new_days
    lost       \* lost_peers: the AS numbers to remove

operatorVars == <<peers, head, touched, recent>>
routerVars == <<deployed, up>>
scriptVars == <<pc, settled, lost>>
vars == <<peers, head, touched, recent, deployed, up, pc, settled, lost>>

BlockOf(i) == [name |-> i, asn |-> AsnOf[i]]
Names(s) == {b.name : b \in Range(s)}
Sessions(i) == {<<i, f>> : f \in Families[i]}

TypeOK ==
    /\ peers \in Seq(Block)
    /\ head \in Seq(Block)
    /\ touched \subseteq Ifaces
    /\ recent \subseteq Ifaces
    /\ deployed \subseteq Ifaces
    /\ up \subseteq UNION {Sessions(i) : i \in deployed}
    /\ pc \in {"idle", "query", "remove"}
    /\ settled \subseteq Asn
    /\ lost \subseteq Asn

Init ==
    /\ peers = <<>>
    /\ head = <<>>
    /\ touched = {}
    /\ recent = {}
    /\ deployed = {}
    /\ up = {}
    /\ pc = "idle"
    /\ settled = {}
    /\ lost = {}

-----------------------------------------------------------------------------
(* The operator, the router and the passing of time.                       *)

(* A block is added at the end of the list, replaced (peerconfgen.py), or  *)
(* deleted.                                                                *)
Edit ==
    /\ Overlap \/ pc = "idle"
    /\ \/ \E i \in Ifaces :
             /\ peers' = IF i \in Names(peers) THEN peers ELSE Append(peers, BlockOf(i))
             /\ touched' = touched \cup {i}
       \/ \E n \in DOMAIN peers :
             /\ peers' = RemoveAt(peers, n)
             /\ touched' = touched \ {peers[n].name}
    /\ UNCHANGED <<head, recent>>
    /\ UNCHANGED <<routerVars, scriptVars>>

Dirty == touched # {} \/ peers # head

Commit ==
    /\ Dirty
    /\ head' = peers
    /\ recent' = (recent \cup touched) \cap Names(peers)
    /\ touched' = {}
    /\ UNCHANGED peers
    /\ UNCHANGED <<routerVars, scriptVars>>

(* ignore_new_days have passed since a block was committed.                *)
GetOld ==
    /\ \E i \in recent : recent' = recent \ {i}
    /\ UNCHANGED <<peers, head, touched>>
    /\ UNCHANGED <<routerVars, scriptVars>>

Deploy ==
    /\ deployed' = Names(peers)
    /\ up' = {s \in up : s[1] \in Names(peers)}
    /\ UNCHANGED operatorVars
    /\ UNCHANGED scriptVars

ComeUp ==
    /\ \E i \in deployed : \E s \in Sessions(i) : up' = up \cup {s}
    /\ UNCHANGED <<operatorVars, deployed, scriptVars>>

(* A session has been down for threshold days.                             *)
StayDown ==
    /\ \E s \in up : up' = up \ {s}
    /\ UNCHANGED <<operatorVars, deployed, scriptVars>>

-----------------------------------------------------------------------------
(* The script.                                                             *)

(* Faulty: blocks that are not committed yet count as old.                 *)
SettledIn(s, new) == {asn \in Asn : \E i \in DOMAIN s : s[i].asn = asn}

(* The ranges of lines are put under the AS number from the last block to  *)
(* the first, so that the first block of an AS decides for all of them.    *)
Settled(s, new) ==
    {asn \in Asn : \E i \in DOMAIN s :
        /\ s[i].asn = asn
        /\ \A j \in DOMAIN s : s[j].asn = asn => i <= j
        /\ s[i].name \notin new}

(* _read_configs raises a RuntimeError if there are uncommitted changes.   *)
ReadConfigs ==
    /\ pc = "idle"
    /\ ~Dirty
    /\ settled' = Settled(peers, recent)
    /\ pc' = "query"
    /\ UNCHANGED lost
    /\ UNCHANGED <<operatorVars, routerVars>>

\* Faulty: only the names without a suffix are asked for
InactivePlain == {s \in UNION {Sessions(i) : i \in deployed} : s \notin up /\ s[2] = "mp"}

(* The sessions the router has that were never up; any one of them is      *)
(* enough to name its AS.                                                  *)
Inactive == {s \in UNION {Sessions(i) : i \in deployed} : s \notin up}

\* Faulty: a session that was up is as good as one that was not
LostOfDeployed == {AsnOf[i] : i \in deployed} \cap settled

\* Faulty: the names are not turned into AS numbers
LostNames == {s[1] : s \in Inactive}

Lost == {AsnOf[s[1]] : s \in Inactive} \cap settled

GetLostPeers ==
    /\ pc = "query"
    /\ lost' = Lost
    /\ pc' = "remove"
    /\ UNCHANGED settled
    /\ UNCHANGED <<operatorVars, routerVars>>

EndRun ==
    /\ pc' = "idle"
    /\ settled' = {}
    /\ lost' = {}

(* remove_peer reads the file again; see PeerStore.                        *)
RemovePeers ==
    /\ pc = "remove"
    /\ peers' = Removed([peers |-> {}, asns |-> lost], peers)
    /\ touched' = touched \cap Names(peers')
    /\ EndRun
    /\ UNCHANGED <<head, recent>>
    /\ UNCHANGED routerVars

(* A dry run, no answer from Prometheus, or the script is killed.          *)
Stop ==
    /\ pc # "idle"
    /\ EndRun
    /\ UNCHANGED <<operatorVars, routerVars>>

Prune == ReadConfigs \/ GetLostPeers \/ RemovePeers

Next == Edit \/ Commit \/ GetOld \/ Deploy \/ ComeUp \/ StayDown \/ Prune \/ Stop

Spec == Init /\ [][Next]_vars

-----------------------------------------------------------------------------
(* Properties.                                                             *)

(* "A peer is considered inactive if it was NEVER up within the last X     *)
(* days" (autoprune.py:40): no peer is marked for removal that has a       *)
(* session that was up.  Holds when every peer has one session only.       *)
MarksOnlyInactive ==
    [][\A i \in Names(head) :
          (GetLostPeers /\ AsnOf[i] \in lost') => Sessions(i) \cap up = {}]_vars

(* "Ignore peers modified in the last X days" (autoprune.py:113): what is  *)
(* removed was neither committed recently nor edited since.  Holds when    *)
(* the operator does not edit the file during a run, and every AS has one  *)
(* block.                                                                  *)
PrunesOnlySettled ==
    [][RemovePeers => (Names(peers) \ Names(peers')) \cap (recent \cup touched) = {}]_vars

(* The script is run again and again, and what it did is committed; time   *)
(* passes.                                                                 *)
FairSpec == Spec /\ WF_vars(Prune) /\ WF_vars(Commit) /\ WF_vars(GetOld)

(* A run that ends early, as far as the state shows it.                    *)
Interrupt == Stop /\ ~RemovePeers

(* A peer that the router has and that never comes up is removed in the    *)
(* end, though one run leaves out the second of two lost neighbours in the *)
(* list, if runs are no longer stopped and the file no longer edited.      *)
LostPeersGo ==
    \A i \in Ifaces :
        (<>[][~Edit /\ ~Interrupt]_vars /\ <>[](i \in deployed /\ Sessions(i) \cap up = {}))
            => <>[](i \notin Names(peers))

=============================================================================
