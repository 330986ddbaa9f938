----------------------------- MODULE IgpTunnels -----------------------------
(***************************************************************************)
(* scripts/enumerate-igp-tunnels.py: the list of intra-AS neighbours and   *)
(* the allocation of one WireGuard port per pair of routers, kept in       *)
(* global-config/igp-tunnels.yml across runs.                              *)
(*                                                                         *)
(* The script is a read - modify - write of that file with no lock and no  *)
(* atomic rename.  It is run by two playbooks (reconfigure.yml and         *)
(* reconfigure-bird.yml, through update-local-state.yml), so several runs  *)
(* may overlap, and a run may die at any point: on the exception of a      *)
(* self-link, or because the operator interrupts the playbook.             *)
(***************************************************************************)
EXTENDS Naturals, FiniteSets

(* Definitions marked "Faulty" are what a bug would make of the definition *)
(* that follows; the specification does not use them.                      *)

CONSTANTS
    Host,        \* the routers, numbered in the order hosts.yml lists them
    Links,       \* the pairs <<a, b>> the operator may list: b in a's igp_upstreams
    Manual,      \* the routers with auto_tunnels: false
    Run,         \* the invocations of the script that may be under way at once
    StartPort,   \* START_PORT
    Mishaps      \* what the operator allows to happen, a subset of AllMishaps

ASSUME HostAssumption == Host \subseteq Nat
ASSUME LinksAssumption == Links \subseteq Host \X Host
ASSUME ManualAssumption == Manual \subseteq Host
ASSUME StartPortAssumption == StartPort \in Nat \ {0}

(* "overlap": the script is started while another run is under way;        *)
(* "uncommitted": it is started while the file has uncommitted changes;    *)
(* "rollback": a file that is not torn is reset to its last commit;        *)
(* "remove": the file is deleted.  A careful operator allows none.         *)
AllMishaps == {"overlap", "uncommitted", "rollback", "remove"}
ASSUME MishapsAssumption == Mishaps \subseteq AllMishaps

VARIABLES
    upstreams,   \* hosts.yml: the pairs <<a, b>> with b in a's igp_upstreams
    outfile,     \* igp-tunnels.yml in the work tree
    committed,   \* igp-tunnels.yml in the git history, what git checkout restores
    pc,          \* pc[r]: the next step of run r, or "idle"
    data,        \* data[r]: the mapping run r holds in memory
    todo,        \* todo[r]: the tunnels the loop of main() has yet to add
    published    \* history: every grant that was in a complete outfile

vars == <<upstreams, outfile, committed, pc, data, todo, published>>

-----------------------------------------------------------------------------
(* The contents of the file.  A pair that is not a key of igp_wg_ports has *)
(* NoPort; an empty inner mapping and a missing one are the same.          *)

NoPort == 0

Data == [next_port      : Nat,
         igp_neighbours : [Host -> SUBSET Host],
         igp_wg_ports   : [Host \X Host -> Nat]]

Template == [next_port      |-> StartPort,
             igp_neighbours |-> [h \in Host |-> {}],
             igp_wg_ports   |-> [l \in Host \X Host |-> NoPort]]

(* A file that is not there, one that was truncated and does not hold a    *)
(* mapping, and one with a mapping in it.  The data of the first two is    *)
(* what a run that starts without a mapping works from.                    *)
TornUnread  == [state |-> "torn", data |-> [next_port |-> StartPort]]      \* Faulty
Missing     == [state |-> "missing",  data |-> Template]
Torn        == [state |-> "torn",     data |-> Template]
Complete(d) == [state |-> "complete", data |-> d]

File == [state : {"missing", "torn", "complete"}, data : Data]

Grants(d) == {<<l[1], l[2], d.igp_wg_ports[l]>> :
                 l \in {k \in Host \X Host : d.igp_wg_ports[k] # NoPort}}

-----------------------------------------------------------------------------
Steps == {"idle", "hosts", "link", "write", "unlinked"}

TypeOK ==
    /\ upstreams \subseteq Links
    /\ outfile \in File
    /\ committed \in File
    /\ pc \in [Run -> Steps]
    /\ data \in [Run -> Data]
    /\ todo \in [Run -> SUBSET (Host \X Host)]
    /\ published \subseteq Host \X Host \X Nat

Init ==
    /\ upstreams = {}
    /\ outfile = Missing
    /\ committed = Missing
    /\ pc = [r \in Run |-> "idle"]
    /\ data = [r \in Run |-> Template]
    /\ todo = [r \in Run |-> {}]
    /\ published = {}

Goto(r, step) == pc' = [pc EXCEPT ![r] = step]

(* A run that ends, in whatever way, takes its memory with it.             *)
End(r) ==
    /\ Goto(r, "idle")
    /\ data' = [data EXCEPT ![r] = Template]
    /\ todo' = [todo EXCEPT ![r] = {}]

-----------------------------------------------------------------------------
(* The operator.                                                           *)

(* The igp_upstreams of a router are edited in hosts.yml.                  *)
EditHosts ==
    /\ \E l \in Links :
          upstreams' = IF l \in upstreams THEN upstreams \ {l} ELSE upstreams \cup {l}
    /\ UNCHANGED <<outfile, committed, pc, data, todo, published>>

Commit ==
    /\ outfile.state = "complete"
    /\ committed # outfile
    /\ committed' = outfile
    /\ UNCHANGED <<upstreams, outfile, pc, data, todo, published>>

(* A torn file stops every later run: the operator goes back to the last   *)
(* version under version control, having seen every run end.               *)
Checkout ==
    /\ outfile # committed
    /\ outfile.state = "torn" \/ "rollback" \in Mishaps
    /\ \A r \in Run : pc[r] = "idle"
    /\ outfile' = committed
    /\ UNCHANGED <<upstreams, committed, pc, data, todo, published>>

(* ... or deletes it, and the next run starts from the template.  A run    *)
(* that has the file open keeps a descriptor of what has no name any more. *)
RemoveFile ==
    /\ "remove" \in Mishaps
    /\ outfile.state # "missing"
    /\ outfile' = Missing
    /\ pc' = [r \in Run |-> IF pc[r] = "write" THEN "unlinked" ELSE pc[r]]
    /\ UNCHANGED <<upstreams, committed, data, todo, published>>

(* The operator starts a playbook, and with it a run of the script.        *)
MayStart(r) ==
    /\ "uncommitted" \in Mishaps \/ outfile = committed
    /\ "overlap" \in Mishaps \/ \A q \in Run \ {r} : pc[q] = "idle"

-----------------------------------------------------------------------------
(* The script.                                                             *)

(* _read_previous_settings.  With a torn file yaml.safe_load returns no    *)
(* mapping, main() fails at its first use of it and nothing changes.       *)
ReadPreviousSettings(r) ==
    /\ pc[r] = "idle"
    /\ MayStart(r)
    /\ outfile.state # "torn"
    /\ data' = [data EXCEPT ![r] = outfile.data]
    /\ Goto(r, "hosts")
    /\ UNCHANGED <<upstreams, outfile, committed, todo, published>>

(* Faulty: the ports are cleared with the neighbours.                      *)
ReadHostsForgetful(r) ==
    /\ pc[r] = "hosts"
    /\ todo' = [todo EXCEPT ![r] = {l \in upstreams : l[1] \notin Manual}]
    /\ data' = [data EXCEPT ![r] = [Template EXCEPT !.next_port = data[r].next_port]]
    /\ Goto(r, "link")
    /\ UNCHANGED <<upstreams, outfile, committed, published>>

(* Faulty: the neighbours are not cleared.                                 *)
ReadHostsKeeping(r) ==
    /\ pc[r] = "hosts"
    /\ todo' = [todo EXCEPT ![r] = {l \in upstreams : l[1] \notin Manual}]
    /\ Goto(r, "link")
    /\ UNCHANGED <<upstreams, outfile, committed, data, published>>

(* hosts.yml is read after the tunnels are, and the old neighbours cleared.*)
ReadHosts(r) ==
    /\ pc[r] = "hosts"
    /\ todo' = [todo EXCEPT ![r] = {l \in upstreams : l[1] \notin Manual}]
    /\ data' = [data EXCEPT ![r].igp_neighbours = [h \in Host |-> {}]]
    /\ Goto(r, "link")
    /\ UNCHANGED <<upstreams, outfile, committed, published>>

\* Faulty: only the end that lists the other is changed
OneWay(f, a, b, va, vb) == [f EXCEPT ![a] = va]

BothWays(f, a, b, va, vb) == [f EXCEPT ![a] = va, ![b] = vb]

Linked(d, a, b) ==
    [d EXCEPT !.igp_neighbours =
        BothWays(@, a, b, @[a] \cup {b}, @[b] \cup {a})]

\* Faulty: a tunnel that has a port gets another one
AllocatedAnew(d, a, b) ==
    [d EXCEPT !.igp_wg_ports = BothWays(@, <<a, b>>, <<b, a>>, d.next_port, d.next_port),
              !.next_port = @ + 1]

\* Faulty: next_port stays where it is
AllocatedInPlace(d, a, b) ==
    IF d.igp_wg_ports[<<a, b>>] # NoPort
    THEN d
    ELSE [d EXCEPT !.igp_wg_ports = BothWays(@, <<a, b>>, <<b, a>>, d.next_port, d.next_port)]

Allocated(d, a, b) ==
    IF d.igp_wg_ports[<<a, b>>] # NoPort
    THEN d
    ELSE [d EXCEPT !.igp_wg_ports = BothWays(@, <<a, b>>, <<b, a>>, d.next_port, d.next_port),
                   !.next_port = @ + 1]

\* Faulty: a new neighbour gets no port
AddTunnelUnallocated(d, a, b) == Linked(d, a, b)

AddTunnel(d, a, b) == Allocated(Linked(d, a, b), a, b)

(* One iteration of the loop of main().  Routers come in the order of      *)
(* hosts.yml; the upstreams of one router are a set, in any order.  A      *)
(* router that lists itself ends the run with a ValueError.                *)
Link(r) ==
    /\ pc[r] = "link"
    /\ \E l \in todo[r] :
          /\ \A k \in todo[r] : l[1] <= k[1]
          /\ IF l[1] = l[2]
             THEN End(r)
             ELSE /\ data' = [data EXCEPT ![r] = AddTunnel(@, l[1], l[2])]
                  /\ todo' = [todo EXCEPT ![r] = @ \ {l}]
                  /\ UNCHANGED pc
    /\ UNCHANGED <<upstreams, outfile, committed, published>>

(* open(OUTFILE, 'w') truncates; the mapping follows when f is flushed.    *)
Truncate(r) ==
    /\ pc[r] = "link"
    /\ todo[r] = {}
    /\ outfile' = Torn
    /\ Goto(r, "write")
    /\ UNCHANGED <<upstreams, committed, data, todo, published>>

(* The text grows with the entries of the two mappings.                    *)
Entries(d) ==
    Cardinality({l \in Host \X Host : l[2] \in d.igp_neighbours[l[1]]})
        + Cardinality(Grants(d))

(* The text goes to the start of the file.  Over what another run wrote    *)
(* since the truncation, the tail of a longer text stays behind and the    *)
(* file no longer parses; with as many entries it depends on their names.  *)
WriteOver(d) ==
    (IF outfile.state = "complete" /\ Entries(d) < Entries(outfile.data)
     THEN {} ELSE {Complete(d)})
    \cup
    (IF outfile.state = "complete" /\ Entries(d) <= Entries(outfile.data)
                                  /\ d # outfile.data
     THEN {Torn} ELSE {})

Write(r) ==
    /\ pc[r] = "write"
    /\ outfile' \in WriteOver(data[r])
    /\ published' = IF outfile'.state = "complete"
                    THEN published \cup Grants(data[r]) ELSE published
    /\ End(r)
    /\ UNCHANGED <<upstreams, committed>>

(* The file was deleted since the truncation: the text goes with it, and a *)
(* file of that name, if there is one by now, is not the run's.            *)
WriteUnlinked(r) ==
    /\ pc[r] = "unlinked"
    /\ End(r)
    /\ UNCHANGED <<upstreams, outfile, committed, published>>

(* The run is interrupted.                                                 *)
Kill(r) ==
    /\ pc[r] # "idle"
    /\ End(r)
    /\ UNCHANGED <<upstreams, outfile, committed, published>>

RunStep(r) ==
    \/ ReadPreviousSettings(r)
    \/ ReadHosts(r)
    \/ Link(r)
    \/ Truncate(r)
    \/ Write(r)
    \/ WriteUnlinked(r)

Operator == EditHosts \/ Commit \/ Checkout \/ RemoveFile

Next ==
    \/ Operator
    \/ \E r \in Run : RunStep(r) \/ Kill(r)

Spec == Init /\ [][Next]_vars

-----------------------------------------------------------------------------
(* Properties.                                                             *)

(* What one mapping has to satisfy to be deployed: see the invariants.     *)
Symmetric(d) ==
    \A a, b \in Host : d.igp_wg_ports[<<a, b>>] = d.igp_wg_ports[<<b, a>>]

Exclusive(d) ==
    \A a, b, x, y \in Host :
        (/\ d.igp_wg_ports[<<a, b>>] # NoPort
         /\ d.igp_wg_ports[<<a, b>>] = d.igp_wg_ports[<<x, y>>])
            => {a, b} = {x, y}

Fresh(d) ==
    /\ d.next_port > NoPort
    /\ \A l \in Host \X Host : d.igp_wg_ports[l] < d.next_port

Reachable(d) ==
    \A a \in Host : \A b \in d.igp_neighbours[a] :
        /\ a \in d.igp_neighbours[b]
        /\ a # b
        /\ d.igp_wg_ports[<<a, b>>] # NoPort

WellFormed(d) == Symmetric(d) /\ Exclusive(d) /\ Fresh(d) /\ Reachable(d)

(* Whatever runs overlap, die or are repaired, a file that parses gives    *)
(* both ends of a tunnel the same port, gives no port to two tunnels, and  *)
(* lists a neighbour on both sides or on none, always with a port to reach *)
(* it on: the roles index igp_wg_ports[self][node] for every node of       *)
(* igp_neighbours[self] without checking.                                  *)
FileWellFormed ==
    outfile.state = "complete" =>
        /\ Symmetric(outfile.data)
        /\ Exclusive(outfile.data)
        /\ Reachable(outfile.data)

(* The file as the routers that are configured from it see it.             *)
Plan == IF outfile.state = "complete"
        THEN [readable |-> TRUE,
              pairs |-> {l \in Host \X Host : l[2] \in outfile.data.igp_neighbours[l[1]]}]
        ELSE [readable |-> FALSE, pairs |-> {}]

PP == INSTANCE PortPlan WITH issued <- published, plan <- Plan

(* No port is ever told to two tunnels nor a tunnel told two ports, over   *)
(* the whole history of the file, links removed and added again, runs      *)
(* killed and files restored included.  Holds while there are no mishaps.  *)
NeverReassigned == PP!OneToOne(published)

(* The script and its operator implement the port plan: each of their      *)
(* steps is a step of the plan, or changes nothing a router can see.       *)
(* Without mishaps, like NeverReassigned.                                  *)
ImplementsPortPlan == PP!PlanSpec

(* "Port allocations stick around even as links are removed, in order to   *)
(* ensure stability" (enumerate-igp-tunnels.py:55): a file that can be     *)
(* read still holds every grant that was ever handed out, through edits,   *)
(* kills and restores.  Holds while there are no mishaps.                  *)
AllocationsStick ==
    outfile.state # "torn" => published \subseteq Grants(outfile.data)

-----------------------------------------------------------------------------
(* Liveness.  The operator runs the playbooks again and again, and commits *)
(* or repairs the file between them; a started run is scheduled to its end *)
(* unless it is killed.  Edits and kills are never forced.                 *)
FairSpec ==
    /\ Spec
    /\ WF_vars(Commit) /\ WF_vars(Checkout)
    /\ \A r \in Run : WF_vars(RunStep(r))

Neighbours(links) ==
    [a \in Host |-> {b \in Host : <<a, b>> \in links \/ <<b, a>> \in links}]

Desired == Neighbours({l \in upstreams : l[1] \notin Manual})

SelfLinked == \E l \in upstreams : l[1] = l[2] /\ l[1] \notin Manual

(* Once runs are no longer killed and hosts.yml no longer changes and has  *)
(* no self-link, a file that can be read settles on exactly the neighbours *)
(* that hosts.yml asks for, whatever it went through before: torn,         *)
(* restored from an older commit, or holding links that were removed       *)
(* since.  That there is such a file again and again also needs that it is *)
(* no longer deleted: a run may find the file gone each time it writes.    *)
Converges ==
    (<>[][\A r \in Run : ~Kill(r)]_vars /\ <>[][~EditHosts]_vars /\ <>[]~SelfLinked)
        => /\ <>[](outfile.state = "complete" => outfile.data.igp_neighbours = Desired)
           /\ <>[][~RemoveFile]_vars => []<>(outfile.state = "complete")

=============================================================================
