------------------------------ MODULE PeerBook ------------------------------
(***************************************************************************)
(* What a router's peer file is to those who use peerconfgen.py and        *)
(* remove_peer: a set of blocks with unique names.  Each of their requests *)
(* changes it at once, as the request says, or is given up and leaves it   *)
(* as it is; and git can bring an earlier set back.                        *)
(***************************************************************************)
CONSTANTS
    Client,      \* who may have a request
    Requests     \* the requests: the blocks one may put in and the blocks it may take out

VARIABLES
    blocks,      \* the blocks stored
    saved,       \* those in the git history
    pending      \* pending[r]: the request of client r, if it has one

bookVars == <<blocks, saved, pending>>

BookInit == blocks = {} /\ saved = {} /\ pending = [r \in Client |-> {}]

Named(name) == {b \in blocks : b.name = name}

Ask(r) ==
    /\ pending[r] = {}
    /\ \E q \in Requests : pending' = [pending EXCEPT ![r] = {q}]
    /\ UNCHANGED <<blocks, saved>>

Done(r) == pending[r] # {} /\ pending' = [pending EXCEPT ![r] = {}] /\ UNCHANGED saved

(* A block whose name is taken takes the place of another only if that one *)
(* may be taken out.                                                       *)
Put(r) ==
    /\ \E q \in pending[r] : \E b \in q.adds :
           /\ Named(b.name) \subseteq q.removes
           /\ blocks' = (blocks \ Named(b.name)) \cup {b}
    /\ Done(r)

Remove(r) ==
    /\ \E q \in pending[r] :
           /\ q.adds = {}
           /\ blocks' \subseteq blocks /\ blocks \ blocks' \subseteq q.removes
    /\ Done(r)

GiveUp(r) == Done(r) /\ UNCHANGED blocks

Save == saved' = blocks /\ UNCHANGED <<blocks, pending>>

Restore ==
    /\ \A r \in Client : pending[r] = {}
    /\ blocks' = saved
    /\ UNCHANGED <<saved, pending>>

BookNext ==
    \/ \E r \in Client : Ask(r) \/ Put(r) \/ Remove(r) \/ GiveUp(r)
    \/ Save
    \/ Restore

BookSpec == BookInit /\ [][BookNext]_bookVars
=============================================================================
