-------------------------- MODULE IgpTunnelsProofs --------------------------
(***************************************************************************)
(* Proofs about IgpTunnels, for any set of routers, any edits of hosts.yml *)
(* and any number of runs: a file that parses is always well formed, and   *)
(* without mishaps the allocation is stable over its whole history.        *)
(***************************************************************************)
EXTENDS IgpTunnels, TLAPS

(* The template is a well-formed mapping that grants nothing.              *)
LEMMA TemplateFacts ==
    /\ Template \in Data
    /\ WellFormed(Template)
    /\ Grants(Template) = {}
BY StartPortAssumption, HostAssumption
   DEF Template, Data, WellFormed, Symmetric, Exclusive, Fresh, Reachable, Grants, NoPort

(* What the three kinds of file hold.                                      *)
LEMMA FileFacts ==
    /\ Missing \in File /\ Missing.data = Template /\ Missing.state = "missing"
    /\ Torn \in File /\ Torn.data = Template /\ Torn.state = "torn"
    /\ \A d \in Data : /\ Complete(d) \in File
                       /\ Complete(d).data = d
                       /\ Complete(d).state = "complete"
BY TemplateFacts DEF File, Missing, Torn, Complete

LEMMA FileData ==
    ASSUME NEW f \in File
    PROVE  /\ f.data \in Data
           /\ f.state \in {"missing", "torn", "complete"}
BY DEF File

(* A write leaves either its mapping or an unreadable file.                *)
LEMMA WriteOverFacts ==
    ASSUME NEW d \in Data, NEW f \in WriteOver(d)
    PROVE  f = Complete(d) \/ f = Torn
BY DEF WriteOver

(* Clearing the neighbours keeps a mapping well formed and its grants.     *)
LEMMA ClearFacts ==
    ASSUME NEW d \in Data, WellFormed(d),
           NEW e, e = [d EXCEPT !.igp_neighbours = [h \in Host |-> {}]]
    PROVE  e \in Data /\ WellFormed(e) /\ Grants(e) = Grants(d)
<1>1. /\ e \in Data
      /\ e.next_port = d.next_port
      /\ e.igp_wg_ports = d.igp_wg_ports
      /\ \A h \in Host : e.igp_neighbours[h] = {}
  BY DEF Data
<1>2. Symmetric(e) /\ Exclusive(e) /\ Fresh(e)
  BY <1>1, SMT DEF WellFormed, Symmetric, Exclusive, Fresh
<1>3. Reachable(e)
  BY <1>1 DEF Reachable
<1>4. Grants(e) = Grants(d)
  BY <1>1 DEF Grants
<1> QED
  BY <1>1, <1>2, <1>3, <1>4 DEF WellFormed

(* The fields of a mapping.                                                *)
LEMMA DataFields ==
    ASSUME NEW d \in Data
    PROVE  /\ d.next_port \in Nat
           /\ d.igp_neighbours \in [Host -> SUBSET Host]
           /\ d.igp_wg_ports \in [Host \X Host -> Nat]
           /\ \A x \in Host : d.igp_neighbours[x] \subseteq Host
           /\ \A x, y \in Host : d.igp_wg_ports[<<x, y>>] \in Nat
<1>1. /\ d.next_port \in Nat
      /\ d.igp_neighbours \in [Host -> SUBSET Host]
      /\ d.igp_wg_ports \in [Host \X Host -> Nat]
  BY DEF Data
<1>2. \A x \in Host : d.igp_neighbours[x] \subseteq Host
  BY <1>1
<1>3. \A x, y \in Host : <<x, y>> \in Host \X Host
  OBVIOUS
<1>4. \A l \in Host \X Host : d.igp_wg_ports[l] \in Nat
  BY <1>1
<1> QED
  BY <1>1, <1>2, <1>3, <1>4

(* Linked adds each router to the neighbours of the other, and no more.    *)
LEMMA LinkedFacts ==
    ASSUME NEW d \in Data, NEW a \in Host, NEW b \in Host, a # b
    PROVE  /\ Linked(d, a, b) \in Data
           /\ Linked(d, a, b).next_port = d.next_port
           /\ Linked(d, a, b).igp_wg_ports = d.igp_wg_ports
           /\ Linked(d, a, b).igp_neighbours[a] = d.igp_neighbours[a] \cup {b}
           /\ Linked(d, a, b).igp_neighbours[b] = d.igp_neighbours[b] \cup {a}
           /\ \A x \in Host \ {a, b} :
                 Linked(d, a, b).igp_neighbours[x] = d.igp_neighbours[x]
<1> DEFINE n == BothWays(d.igp_neighbours, a, b,
                         d.igp_neighbours[a] \cup {b}, d.igp_neighbours[b] \cup {a})
<1>1. n \in [Host -> SUBSET Host]
  BY DataFields DEF BothWays
<1>2. /\ n[a] = d.igp_neighbours[a] \cup {b}
      /\ n[b] = d.igp_neighbours[b] \cup {a}
      /\ \A x \in Host \ {a, b} : n[x] = d.igp_neighbours[x]
  BY DataFields DEF BothWays
<1>3. Linked(d, a, b) = [d EXCEPT !.igp_neighbours = n]
  BY DEF Linked
<1> HIDE DEF n
<1> QED
  BY <1>1, <1>2, <1>3 DEF Data

(* Allocated gives the pair the next port, in both directions, and leaves  *)
(* every other pair alone.                                                 *)
LEMMA AllocatedFacts ==
    ASSUME NEW d \in Data, NEW a \in Host, NEW b \in Host, a # b,
           d.igp_wg_ports[<<a, b>>] = NoPort
    PROVE  /\ Allocated(d, a, b) \in Data
           /\ Allocated(d, a, b).next_port = d.next_port + 1
           /\ Allocated(d, a, b).igp_neighbours = d.igp_neighbours
           /\ Allocated(d, a, b).igp_wg_ports[<<a, b>>] = d.next_port
           /\ Allocated(d, a, b).igp_wg_ports[<<b, a>>] = d.next_port
           /\ \A l \in (Host \X Host) \ {<<a, b>>, <<b, a>>} :
                 Allocated(d, a, b).igp_wg_ports[l] = d.igp_wg_ports[l]
<1> DEFINE w == BothWays(d.igp_wg_ports, <<a, b>>, <<b, a>>, d.next_port, d.next_port)
<1>1. w \in [Host \X Host -> Nat]
  BY DataFields DEF BothWays
<1>2. /\ w[<<a, b>>] = d.next_port
      /\ w[<<b, a>>] = d.next_port
      /\ \A l \in (Host \X Host) \ {<<a, b>>, <<b, a>>} : w[l] = d.igp_wg_ports[l]
  BY DataFields DEF BothWays
<1>3. Allocated(d, a, b) = [d EXCEPT !.igp_wg_ports = w, !.next_port = @ + 1]
  BY DEF Allocated
<1> HIDE DEF w
<1>4. Allocated(d, a, b) = [next_port      |-> d.next_port + 1,
                            igp_neighbours |-> d.igp_neighbours,
                            igp_wg_ports   |-> w]
  BY <1>3 DEF Data
<1>5. d.next_port + 1 \in Nat
  BY DataFields
<1> QED
  BY <1>1, <1>2, <1>4, <1>5, DataFields DEF Data

(* One tunnel keeps a mapping well formed: the new port is above every     *)
(* port in use, so it is no other tunnel's.                                *)
LEMMA AddTunnelWellFormed ==
    ASSUME NEW d \in Data, WellFormed(d), NEW a \in Host, NEW b \in Host, a # b
    PROVE  AddTunnel(d, a, b) \in Data /\ WellFormed(AddTunnel(d, a, b))
<1> DEFINE m == Linked(d, a, b)
           e == AddTunnel(d, a, b)
<1>m. /\ m \in Data
      /\ m.next_port = d.next_port
      /\ m.igp_wg_ports = d.igp_wg_ports
      /\ m.igp_neighbours[a] = d.igp_neighbours[a] \cup {b}
      /\ m.igp_neighbours[b] = d.igp_neighbours[b] \cup {a}
      /\ \A x \in Host \ {a, b} : m.igp_neighbours[x] = d.igp_neighbours[x]
  BY LinkedFacts
<1>d. /\ d.next_port \in Nat
      /\ \A x, y \in Host : d.igp_wg_ports[<<x, y>>] \in Nat
      /\ \A x \in Host : d.igp_neighbours[x] \subseteq Host
  BY DataFields
(* Each end of a tunnel knows the other; all but the new one had a port.   *)
<1>n. \A x \in Host : \A y \in m.igp_neighbours[x] :
         /\ y \in Host
         /\ x \in m.igp_neighbours[y]
         /\ x # y
         /\ \/ x = a /\ y = b
            \/ x = b /\ y = a
            \/ d.igp_wg_ports[<<x, y>>] # NoPort
  <2> SUFFICES ASSUME NEW x \in Host, NEW y \in m.igp_neighbours[x]
               PROVE  /\ y \in Host
                      /\ x \in m.igp_neighbours[y]
                      /\ x # y
                      /\ \/ x = a /\ y = b
                         \/ x = b /\ y = a
                         \/ d.igp_wg_ports[<<x, y>>] # NoPort
    OBVIOUS
  <2>1. CASE y \in d.igp_neighbours[x]
    <3>1. y \in Host /\ x \in d.igp_neighbours[y] /\ x # y /\ d.igp_wg_ports[<<x, y>>] # NoPort
      BY <2>1, <1>d DEF WellFormed, Reachable
    <3>2. x \in m.igp_neighbours[y]
      BY <3>1, <1>m
    <3> QED
      BY <3>1, <3>2
  <2>2. CASE y \notin d.igp_neighbours[x]
    <3>1. (x = a /\ y = b) \/ (x = b /\ y = a)
      BY <2>2, <1>m
    <3> QED
      BY <3>1, <1>m
  <2> QED
    BY <2>1, <2>2
<1>1. CASE m.igp_wg_ports[<<a, b>>] # NoPort
  <2>1. e = m
    BY <1>1 DEF AddTunnel, Allocated
  <2>2. Symmetric(m) /\ Exclusive(m) /\ Fresh(m)
    BY <1>m, SMT DEF WellFormed, Symmetric, Exclusive, Fresh
  <2>p. d.igp_wg_ports[<<a, b>>] # NoPort /\ d.igp_wg_ports[<<b, a>>] # NoPort
    BY <1>1, <1>m DEF WellFormed, Symmetric
  <2>3. Reachable(m)
    BY <1>n, <1>m, <1>1, <2>p DEF Reachable
  <2> QED
    BY <2>1, <2>2, <2>3, <1>m DEF WellFormed
<1>2. CASE m.igp_wg_ports[<<a, b>>] = NoPort
  <2>1. /\ e \in Data
        /\ e.next_port = d.next_port + 1
        /\ e.igp_neighbours = m.igp_neighbours
        /\ e.igp_wg_ports[<<a, b>>] = d.next_port
        /\ e.igp_wg_ports[<<b, a>>] = d.next_port
        /\ \A l \in (Host \X Host) \ {<<a, b>>, <<b, a>>} :
              e.igp_wg_ports[l] = d.igp_wg_ports[l]
    BY <1>2, <1>m, AllocatedFacts DEF AddTunnel
  <2>a. \A x, y \in Host : ~(x = a /\ y = b) /\ ~(x = b /\ y = a) =>
              e.igp_wg_ports[<<x, y>>] = d.igp_wg_ports[<<x, y>>]
    BY <2>1
  <2>2. Symmetric(e)
    <3> SUFFICES ASSUME NEW x \in Host, NEW y \in Host
                 PROVE  e.igp_wg_ports[<<x, y>>] = e.igp_wg_ports[<<y, x>>]
      BY DEF Symmetric
    <3>1. d.igp_wg_ports[<<x, y>>] = d.igp_wg_ports[<<y, x>>]
      BY DEF WellFormed, Symmetric
    <3> QED
      BY <3>1, <2>1, <2>a
  <2>f. \A x, y \in Host : d.igp_wg_ports[<<x, y>>] < d.next_port
    BY DEF WellFormed, Fresh
  <2>3. Exclusive(e)
    <3> SUFFICES ASSUME NEW x \in Host, NEW y \in Host,
                        NEW u \in Host, NEW v \in Host,
                        e.igp_wg_ports[<<x, y>>] # NoPort,
                        e.igp_wg_ports[<<x, y>>] = e.igp_wg_ports[<<u, v>>]
                 PROVE  {x, y} = {u, v}
      BY DEF Exclusive
    <3>1. (x = a /\ y = b) \/ (x = b /\ y = a) <=> (u = a /\ v = b) \/ (u = b /\ v = a)
      BY <2>1, <2>a, <2>f, <1>d
    <3>2. CASE (x = a /\ y = b) \/ (x = b /\ y = a)
      BY <3>1, <3>2
    <3>3. CASE ~((x = a /\ y = b) \/ (x = b /\ y = a))
      BY <3>1, <3>3, <2>a DEF WellFormed, Exclusive
    <3> QED
      BY <3>2, <3>3
  <2>4. Fresh(e)
    BY <2>1, <2>f, <1>d DEF WellFormed, Fresh, NoPort
  <2>5. Reachable(e)
    <3>1. d.next_port # NoPort
      BY <1>d DEF WellFormed, Fresh, NoPort
    <3>2. ASSUME NEW x \in Host, NEW y \in m.igp_neighbours[x]
          PROVE  e.igp_wg_ports[<<x, y>>] # NoPort
      <4>1. y \in Host
        BY <1>n
      <4> QED
        BY <4>1, <3>1, <2>1, <2>a, <1>n
    <3> QED
      BY <3>2, <2>1, <1>n DEF Reachable
  <2> QED
    BY <2>1, <2>2, <2>3, <2>4, <2>5 DEF WellFormed
<1> QED
  BY <1>1, <1>2

(* ... and it withdraws no grant.                                          *)
LEMMA AddTunnelKeepsGrants ==
    ASSUME NEW d \in Data, WellFormed(d), NEW a \in Host, NEW b \in Host, a # b
    PROVE  Grants(d) \subseteq Grants(AddTunnel(d, a, b))
<1> DEFINE m == Linked(d, a, b)
           e == AddTunnel(d, a, b)
<1>m. m \in Data /\ m.igp_wg_ports = d.igp_wg_ports
  BY LinkedFacts
<1>1. CASE m.igp_wg_ports[<<a, b>>] # NoPort
  BY <1>1, <1>m DEF AddTunnel, Allocated, Grants
<1>2. CASE m.igp_wg_ports[<<a, b>>] = NoPort
  <2>1. d.igp_wg_ports[<<b, a>>] = NoPort
    BY <1>2, <1>m DEF WellFormed, Symmetric
  <2>2. \A l \in (Host \X Host) \ {<<a, b>>, <<b, a>>} :
            e.igp_wg_ports[l] = m.igp_wg_ports[l]
    BY <1>2, <1>m, AllocatedFacts DEF AddTunnel
  <2>3. \A l \in Host \X Host : d.igp_wg_ports[l] # NoPort =>
            e.igp_wg_ports[l] = d.igp_wg_ports[l]
    BY <1>2, <1>m, <2>1, <2>2
  <2> QED
    BY <2>3 DEF Grants
<1> QED
  BY <1>1, <1>2

-----------------------------------------------------------------------------
(***************************************************************************)
(* Typing.                                                                 *)
(***************************************************************************)

LEMMA TypeInit == Init => TypeOK
BY TemplateFacts, FileFacts DEF Init, TypeOK, Steps

LEMMA TypeEnd ==
    ASSUME TypeOK, NEW r \in Run, End(r)
    PROVE  /\ pc' \in [Run -> Steps]
           /\ data' \in [Run -> Data]
           /\ todo' \in [Run -> SUBSET (Host \X Host)]
BY TemplateFacts DEF TypeOK, End, Goto, Steps

LEMMA GrantsType ==
    ASSUME NEW d \in Data
    PROVE  Grants(d) \subseteq Host \X Host \X Nat
<1>1. \A l \in Host \X Host : d.igp_wg_ports[l] \in Nat
  BY DataFields
<1> QED
  BY <1>1 DEF Grants

LEMMA AddTunnelType ==
    ASSUME NEW d \in Data, NEW a \in Host, NEW b \in Host, a # b
    PROVE  AddTunnel(d, a, b) \in Data
<1>1. Linked(d, a, b) \in Data
  BY LinkedFacts
<1>2. CASE Linked(d, a, b).igp_wg_ports[<<a, b>>] # NoPort
  BY <1>1, <1>2 DEF AddTunnel, Allocated
<1>3. CASE Linked(d, a, b).igp_wg_ports[<<a, b>>] = NoPort
  BY <1>1, <1>3, AllocatedFacts DEF AddTunnel
<1> QED
  BY <1>2, <1>3

(* One iteration of the loop: the run fails on a self-link, or adds the    *)
(* tunnel to its mapping.                                                  *)
LEMMA LinkCases ==
    ASSUME TypeOK, NEW r \in Run, Link(r)
    PROVE  \/ End(r)
           \/ \E a, b \in Host :
                 /\ a # b
                 /\ data' = [data EXCEPT ![r] = AddTunnel(data[r], a, b)]
                 /\ todo' \in [Run -> SUBSET (Host \X Host)]
                 /\ pc' = pc
<1>1. PICK l \in todo[r] :
         IF l[1] = l[2]
         THEN End(r)
         ELSE /\ data' = [data EXCEPT ![r] = AddTunnel(@, l[1], l[2])]
              /\ todo' = [todo EXCEPT ![r] = @ \ {l}]
              /\ UNCHANGED pc
  BY DEF Link
<1>2. l[1] \in Host /\ l[2] \in Host
  BY DEF TypeOK
<1>3. CASE l[1] = l[2]
  BY <1>1, <1>3
<1>4. CASE l[1] # l[2]
  <2>1. todo' \in [Run -> SUBSET (Host \X Host)]
    BY <1>1, <1>4 DEF TypeOK
  <2>2. data' = [data EXCEPT ![r] = AddTunnel(data[r], l[1], l[2])] /\ pc' = pc
    BY <1>1, <1>4
  <2> QED
    BY <1>2, <1>4, <2>1, <2>2
<1> QED
  BY <1>3, <1>4

LEMMA TypeNext == TypeOK /\ [Next]_vars => TypeOK'
<1> SUFFICES ASSUME TypeOK, [Next]_vars
             PROVE  TypeOK'
  OBVIOUS
<1> USE DEF TypeOK
<1>1. CASE EditHosts
  BY <1>1 DEF EditHosts
<1>2. CASE Commit
  BY <1>2 DEF Commit
<1>3. CASE Checkout
  BY <1>3 DEF Checkout
<1>4. CASE RemoveFile
  BY <1>4, FileFacts DEF RemoveFile, Steps
<1>5. ASSUME NEW r \in Run, ReadPreviousSettings(r)
      PROVE  TypeOK'
  BY <1>5, FileData DEF ReadPreviousSettings, Goto, Steps
<1>6. ASSUME NEW r \in Run, ReadHosts(r)
      PROVE  TypeOK'
  <2>1. data' \in [Run -> Data]
    BY <1>6 DEF ReadHosts, Data
  <2>2. todo' \in [Run -> SUBSET (Host \X Host)]
    BY <1>6, LinksAssumption DEF ReadHosts
  <2> QED
    BY <1>6, <2>1, <2>2 DEF ReadHosts, Goto, Steps
<1>7. ASSUME NEW r \in Run, Link(r)
      PROVE  TypeOK'
  <2>1. /\ pc' \in [Run -> Steps]
        /\ data' \in [Run -> Data]
        /\ todo' \in [Run -> SUBSET (Host \X Host)]
    <3>1. CASE End(r)
      BY <3>1, TypeEnd
    <3>2. ASSUME NEW a \in Host, NEW b \in Host, a # b,
                 data' = [data EXCEPT ![r] = AddTunnel(data[r], a, b)],
                 todo' \in [Run -> SUBSET (Host \X Host)],
                 pc' = pc
          PROVE  /\ pc' \in [Run -> Steps]
                 /\ data' \in [Run -> Data]
                 /\ todo' \in [Run -> SUBSET (Host \X Host)]
      <4>1. AddTunnel(data[r], a, b) \in Data
        BY <3>2, AddTunnelType
      <4> QED
        BY <3>2, <4>1
    <3> QED
      BY <1>7, <3>1, <3>2, LinkCases
  <2> QED
    BY <1>7, <2>1 DEF Link
<1>8. ASSUME NEW r \in Run, Truncate(r)
      PROVE  TypeOK'
  BY <1>8, FileFacts DEF Truncate, Goto, Steps
<1>9. ASSUME NEW r \in Run, Write(r)
      PROVE  TypeOK'
  <2>1. data[r] \in Data
    OBVIOUS
  <2>2. outfile' \in File
    BY <1>9, <2>1, WriteOverFacts, FileFacts DEF Write
  <2>3. published' \subseteq Host \X Host \X Nat
    BY <1>9, <2>1, GrantsType DEF Write
  <2> QED
    BY <1>9, <2>2, <2>3, TypeEnd DEF Write
<1>10. ASSUME NEW r \in Run, Kill(r)
       PROVE  TypeOK'
  BY <1>10, TypeEnd DEF Kill
<1>11. ASSUME NEW r \in Run, WriteUnlinked(r)
       PROVE  TypeOK'
  BY <1>11, TypeEnd DEF WriteUnlinked
<1>12. CASE UNCHANGED vars
  BY <1>12 DEF vars
<1> QED
  BY <1>1, <1>2, <1>3, <1>4, <1>5, <1>6, <1>7, <1>8, <1>9, <1>10, <1>11, <1>12
     DEF Next, Operator, RunStep

(* The variables keep their types, whatever the operator allows.           *)
THEOREM Typing == Spec => []TypeOK
BY TypeInit, TypeNext, PTL DEF Spec

-----------------------------------------------------------------------------
(***************************************************************************)
(* Every mapping in sight is well formed, on disk, in git and in memory.   *)
(***************************************************************************)

AllWellFormed ==
    /\ WellFormed(outfile.data)
    /\ WellFormed(committed.data)
    /\ \A r \in Run : WellFormed(data[r])

LEMMA WellFormedInit == Init => AllWellFormed
BY TemplateFacts, FileFacts DEF Init, AllWellFormed

LEMMA WellFormedEnd ==
    ASSUME TypeOK, \A q \in Run : WellFormed(data[q]), NEW r \in Run, End(r)
    PROVE  \A q \in Run : WellFormed(data'[q])
BY TemplateFacts DEF TypeOK, End

LEMMA WellFormedNext == TypeOK /\ AllWellFormed /\ [Next]_vars => AllWellFormed'
<1> SUFFICES ASSUME TypeOK, AllWellFormed, [Next]_vars
             PROVE  AllWellFormed'
  OBVIOUS
<1> USE DEF AllWellFormed
<1>1. CASE Operator
  BY <1>1, TemplateFacts, FileFacts DEF Operator, EditHosts, Commit, Checkout, RemoveFile
<1>2. ASSUME NEW r \in Run, ReadPreviousSettings(r)
      PROVE  AllWellFormed'
  BY <1>2 DEF ReadPreviousSettings, TypeOK
<1>3. ASSUME NEW r \in Run, ReadHosts(r)
      PROVE  AllWellFormed'
  <2> DEFINE e == [data[r] EXCEPT !.igp_neighbours = [h \in Host |-> {}]]
  <2>1. data' = [data EXCEPT ![r] = e]
    BY <1>3 DEF ReadHosts
  <2>2. WellFormed(e)
    BY ClearFacts DEF TypeOK
  <2> HIDE DEF e
  <2>3. \A q \in Run : WellFormed(data'[q])
    BY <2>1, <2>2 DEF TypeOK
  <2> QED
    BY <1>3, <2>3 DEF ReadHosts
<1>4. ASSUME NEW r \in Run, Link(r)
      PROVE  AllWellFormed'
  <2>1. \A q \in Run : WellFormed(data'[q])
    <3>1. CASE End(r)
      BY <3>1, WellFormedEnd
    <3>2. ASSUME NEW a \in Host, NEW b \in Host, a # b,
                 data' = [data EXCEPT ![r] = AddTunnel(data[r], a, b)]
          PROVE  \A q \in Run : WellFormed(data'[q])
      <4>1. WellFormed(AddTunnel(data[r], a, b))
        BY <3>2, AddTunnelWellFormed DEF TypeOK
      <4> QED
        BY <3>2, <4>1 DEF TypeOK
    <3> QED
      BY <1>4, <3>1, <3>2, LinkCases
  <2> QED
    BY <1>4, <2>1 DEF Link
<1>5. ASSUME NEW r \in Run, Truncate(r)
      PROVE  AllWellFormed'
  BY <1>5, TemplateFacts, FileFacts DEF Truncate
<1>6. ASSUME NEW r \in Run, Write(r)
      PROVE  AllWellFormed'
  <2>1. data[r] \in Data
    BY DEF TypeOK
  <2>2. outfile' = Complete(data[r]) \/ outfile' = Torn
    BY <1>6, <2>1, WriteOverFacts DEF Write
  <2>3. WellFormed(outfile'.data)
    BY <2>1, <2>2, TemplateFacts, FileFacts
  <2> QED
    BY <1>6, <2>3, WellFormedEnd DEF Write
<1>7. ASSUME NEW r \in Run, Kill(r) \/ WriteUnlinked(r)
      PROVE  AllWellFormed'
  BY <1>7, WellFormedEnd DEF Kill, WriteUnlinked
<1>8. CASE UNCHANGED vars
  BY <1>8 DEF vars
<1> QED
  BY <1>1, <1>2, <1>3, <1>4, <1>5, <1>6, <1>7, <1>8 DEF Next, RunStep

THEOREM AlwaysWellFormed == Spec => []AllWellFormed
BY WellFormedInit, WellFormedNext, Typing, PTL DEF Spec

(* A file that parses can be deployed, with runs that overlap and with     *)
(* every mishap the operator may allow.                                    *)
THEOREM FileAlwaysWellFormed == Spec => []FileWellFormed
<1>1. AllWellFormed => FileWellFormed
  BY DEF AllWellFormed, WellFormed, FileWellFormed
<1> QED
  BY <1>1, AlwaysWellFormed, PTL
-----------------------------------------------------------------------------
(***************************************************************************)
(* Stability.  NeverReassigned is not inductive: the next grants come from *)
(* the mapping a run holds in memory, which in turn came from a file that  *)
(* a kill may since have torn.  The invariant follows the grants through   *)
(* the file, the commit that would repair it, and the one run under way.   *)
(***************************************************************************)

GrantsSurvive ==
    /\ outfile.state # "torn" => published \subseteq Grants(outfile.data)
    /\ outfile.state = "torn" => published \subseteq Grants(committed.data)
    /\ \A r \in Run : pc[r] # "idle" =>
          /\ published \subseteq Grants(data[r])
          /\ published \subseteq Grants(committed.data)
          /\ \A q \in Run \ {r} : pc[q] = "idle"

LEMMA SurviveInit == Init => GrantsSurvive
BY FileFacts DEF Init, GrantsSurvive

(* A run that ends without having written leaves the file or its commit.   *)
LEMMA SurviveEnd ==
    ASSUME TypeOK, GrantsSurvive, NEW r \in Run, End(r),
           UNCHANGED <<outfile, committed, published>>
    PROVE  GrantsSurvive'
BY DEF TypeOK, GrantsSurvive, End, Goto

LEMMA SurviveNext ==
    ASSUME Mishaps = {}
    PROVE  TypeOK /\ AllWellFormed /\ GrantsSurvive /\ [Next]_vars => GrantsSurvive'
<1> SUFFICES ASSUME TypeOK, AllWellFormed, GrantsSurvive, [Next]_vars
             PROVE  GrantsSurvive'
  OBVIOUS
<1>1. CASE EditHosts
  BY <1>1 DEF EditHosts, GrantsSurvive
<1>2. CASE Commit
  BY <1>2 DEF Commit, GrantsSurvive
<1>3. CASE Checkout
  BY <1>3 DEF Checkout, GrantsSurvive
<1>4. CASE RemoveFile
  BY <1>4 DEF RemoveFile
<1>5. ASSUME NEW r \in Run, ReadPreviousSettings(r)
      PROVE  GrantsSurvive'
  <2>1. outfile = committed /\ \A q \in Run \ {r} : pc[q] = "idle"
    BY <1>5 DEF ReadPreviousSettings, MayStart
  <2>2. \A q \in Run : pc'[q] # "idle" => q = r
    BY <1>5, <2>1 DEF ReadPreviousSettings, Goto, TypeOK
  <2>3. data'[r] = outfile.data
    BY <1>5 DEF ReadPreviousSettings, TypeOK
  <2> QED
    BY <1>5, <2>1, <2>2, <2>3 DEF ReadPreviousSettings, GrantsSurvive
<1>6. ASSUME NEW r \in Run, ReadHosts(r)
      PROVE  GrantsSurvive'
  <2> DEFINE e == [data[r] EXCEPT !.igp_neighbours = [h \in Host |-> {}]]
  <2>1. data' = [data EXCEPT ![r] = e]
    BY <1>6 DEF ReadHosts
  <2>2. Grants(e) = Grants(data[r])
    BY ClearFacts DEF TypeOK, AllWellFormed
  <2> HIDE DEF e
  <2> QED
    BY <1>6, <2>1, <2>2 DEF ReadHosts, Goto, GrantsSurvive, TypeOK
<1>7. ASSUME NEW r \in Run, Link(r)
      PROVE  GrantsSurvive'
  <2>1. CASE End(r)
    BY <1>7, <2>1, SurviveEnd DEF Link
  <2>2. ASSUME NEW a \in Host, NEW b \in Host, a # b,
               data' = [data EXCEPT ![r] = AddTunnel(data[r], a, b)],
               pc' = pc
        PROVE  GrantsSurvive'
    <3>1. Grants(data[r]) \subseteq Grants(AddTunnel(data[r], a, b))
      BY <2>2, AddTunnelKeepsGrants DEF TypeOK, AllWellFormed
    <3> QED
      BY <1>7, <2>2, <3>1 DEF Link, GrantsSurvive, TypeOK
  <2> QED
    BY <1>7, <2>1, <2>2, LinkCases
<1>8. ASSUME NEW r \in Run, Truncate(r)
      PROVE  GrantsSurvive'
  BY <1>8, FileFacts DEF Truncate, Goto, GrantsSurvive, TypeOK
<1>9. ASSUME NEW r \in Run, Write(r)
      PROVE  GrantsSurvive'
  <2>1. data[r] \in Data /\ pc[r] # "idle"
    BY <1>9 DEF TypeOK, Write
  <2>2. \A q \in Run : pc'[q] = "idle"
    BY <1>9, <2>1 DEF Write, End, Goto, GrantsSurvive, TypeOK
  <2>3. CASE outfile' = Complete(data[r])
    <3>1. published' = published \cup Grants(data[r]) /\ outfile'.state = "complete"
      BY <1>9, <2>1, <2>3, FileFacts DEF Write
    <3> QED
      BY <2>1, <2>2, <2>3, <3>1, FileFacts DEF GrantsSurvive
  <2>4. CASE outfile' = Torn
    BY <1>9, <2>1, <2>2, <2>4, FileFacts DEF Write, GrantsSurvive
  <2> QED
    BY <1>9, <2>1, <2>3, <2>4, WriteOverFacts DEF Write
<1>10. ASSUME NEW r \in Run, Kill(r) \/ WriteUnlinked(r)
       PROVE  GrantsSurvive'
  BY <1>10, SurviveEnd DEF Kill, WriteUnlinked
<1>11. CASE UNCHANGED vars
  BY <1>11 DEF vars, GrantsSurvive
<1> QED
  BY <1>1, <1>2, <1>3, <1>4, <1>5, <1>6, <1>7, <1>8, <1>9, <1>10, <1>11
     DEF Next, Operator, RunStep

THEOREM AlwaysGrantsSurvive ==
    ASSUME Mishaps = {}
    PROVE  Spec => []GrantsSurvive
BY SurviveInit, SurviveNext, AlwaysWellFormed, Typing, PTL DEF Spec

(* The grants of one well-formed mapping are one to one, and so is any     *)
(* part of them.                                                           *)
LEMMA WellFormedOneToOne ==
    ASSUME NEW d \in Data, WellFormed(d), NEW G, G \subseteq Grants(d)
    PROVE  PP!OneToOne(G)
<1> SUFFICES ASSUME NEW g1 \in G, NEW g2 \in G
             PROVE  (g1[3] = g2[3]) <=> ({g1[1], g1[2]} = {g2[1], g2[2]})
  BY DEF PP!OneToOne
<1>1. PICK k \in Host \X Host :
         /\ g1 = <<k[1], k[2], d.igp_wg_ports[k]>>
         /\ d.igp_wg_ports[k] # NoPort
  BY DEF Grants
<1>2. PICK l \in Host \X Host :
         /\ g2 = <<l[1], l[2], d.igp_wg_ports[l]>>
         /\ d.igp_wg_ports[l] # NoPort
  BY DEF Grants
<1>3. k = <<k[1], k[2]>> /\ l = <<l[1], l[2]>>
  OBVIOUS
<1>4. ASSUME g1[3] = g2[3]
      PROVE  {g1[1], g1[2]} = {g2[1], g2[2]}
  BY <1>1, <1>2, <1>3, <1>4 DEF WellFormed, Exclusive
<1>5. ASSUME {g1[1], g1[2]} = {g2[1], g2[2]}
      PROVE  g1[3] = g2[3]
  <2>1. \/ k[1] = l[1] /\ k[2] = l[2]
        \/ k[1] = l[2] /\ k[2] = l[1]
    BY <1>1, <1>2, <1>5
  <2> QED
    BY <1>1, <1>2, <1>3, <2>1 DEF WellFormed, Symmetric
<1> QED
  BY <1>4, <1>5

LEMMA SurviveOneToOne ==
    TypeOK /\ AllWellFormed /\ GrantsSurvive => NeverReassigned
<1> SUFFICES ASSUME TypeOK, AllWellFormed, GrantsSurvive
             PROVE  PP!OneToOne(published)
  BY DEF NeverReassigned
<1>1. outfile.data \in Data /\ committed.data \in Data
  BY FileData DEF TypeOK
<1>2. published \subseteq Grants(outfile.data) \/ published \subseteq Grants(committed.data)
  BY DEF GrantsSurvive
<1> QED
  BY <1>1, <1>2, WellFormedOneToOne DEF AllWellFormed

(* Without mishaps no port is ever told to two tunnels nor a tunnel told   *)
(* two ports, over the whole history of the file.                          *)
THEOREM PortsNeverReassigned ==
    ASSUME Mishaps = {}
    PROVE  Spec => []NeverReassigned
BY AlwaysGrantsSurvive, SurviveOneToOne, AlwaysWellFormed, Typing, PTL

(* ... and a readable file holds every grant ever handed out.              *)
THEOREM PortAllocationsStick ==
    ASSUME Mishaps = {}
    PROVE  Spec => []AllocationsStick
<1>1. GrantsSurvive => AllocationsStick
  BY DEF GrantsSurvive, AllocationsStick
<1> QED
  BY <1>1, AlwaysGrantsSurvive, PTL

(* No step withdraws a grant.                                              *)
LEMMA PublishedGrows == [Next]_vars => published \subseteq published'
BY DEF Next, Operator, RunStep, EditHosts, Commit, Checkout, RemoveFile,
       ReadPreviousSettings, ReadHosts, Link, Truncate, Write, WriteUnlinked, Kill, vars

(* A file, or a commit, has no grant that was not handed out with it.      *)
GrantsPublished ==
    /\ Grants(outfile.data) \subseteq published
    /\ Grants(committed.data) \subseteq published

LEMMA PublishedInit == Init => GrantsPublished
BY TemplateFacts, FileFacts DEF Init, GrantsPublished

LEMMA PublishedNext == TypeOK /\ GrantsPublished /\ [Next]_vars => GrantsPublished'
<1> SUFFICES ASSUME TypeOK, GrantsPublished, [Next]_vars
             PROVE  GrantsPublished'
  OBVIOUS
<1> USE DEF GrantsPublished
<1>1. CASE Operator
  BY <1>1, TemplateFacts, FileFacts DEF Operator, EditHosts, Commit, Checkout, RemoveFile
<1>2. ASSUME NEW r \in Run,
             \/ ReadPreviousSettings(r) \/ ReadHosts(r) \/ Link(r)
             \/ WriteUnlinked(r) \/ Kill(r)
      PROVE  GrantsPublished'
  BY <1>2 DEF ReadPreviousSettings, ReadHosts, Link, WriteUnlinked, Kill
<1>3. ASSUME NEW r \in Run, Truncate(r)
      PROVE  GrantsPublished'
  BY <1>3, TemplateFacts, FileFacts DEF Truncate
<1>4. ASSUME NEW r \in Run, Write(r)
      PROVE  GrantsPublished'
  <2>1. data[r] \in Data
    BY DEF TypeOK
  <2>2. CASE outfile' = Complete(data[r])
    BY <1>4, <2>1, <2>2, FileFacts DEF Write
  <2>3. CASE outfile' = Torn
    BY <1>4, <2>3, TemplateFacts, FileFacts DEF Write
  <2> QED
    BY <1>4, <2>1, <2>2, <2>3, WriteOverFacts DEF Write
<1>5. CASE UNCHANGED vars
  BY <1>5 DEF vars
<1> QED
  BY <1>1, <1>2, <1>3, <1>4, <1>5 DEF Next, RunStep

THEOREM AlwaysGrantsPublished == Spec => []GrantsPublished
BY PublishedInit, PublishedNext, Typing, PTL DEF Spec

(* A readable file lists every link at both ends, with a grant for it.     *)
PlanServed ==
    \A l \in Plan.pairs : /\ Plan.readable
                          /\ l[1] # l[2]
                          /\ <<l[2], l[1]>> \in Plan.pairs
                          /\ PP!Granted(l, published)

LEMMA WellFormedPlan == TypeOK /\ AllWellFormed /\ GrantsPublished => PlanServed
<1> SUFFICES ASSUME TypeOK, AllWellFormed, GrantsPublished, NEW l \in Plan.pairs
             PROVE  /\ Plan.readable
                    /\ l[1] # l[2]
                    /\ <<l[2], l[1]>> \in Plan.pairs
                    /\ PP!Granted(l, published)
  BY DEF PlanServed
<1> DEFINE d == outfile.data
<1>1. /\ outfile.state = "complete"
      /\ Plan.readable
      /\ Plan.pairs = {k \in Host \X Host : k[2] \in d.igp_neighbours[k[1]]}
  BY DEF Plan
<1>2. l \in Host \X Host /\ l[1] \in Host /\ l[2] \in Host /\ l = <<l[1], l[2]>>
  BY <1>1
<1>3. l[2] \in d.igp_neighbours[l[1]]
  BY <1>1
<1>4. /\ l[1] \in d.igp_neighbours[l[2]]
      /\ l[1] # l[2]
      /\ d.igp_wg_ports[<<l[1], l[2]>>] # NoPort
  BY <1>2, <1>3 DEF AllWellFormed, WellFormed, Reachable
<1>5. <<l[2], l[1]>> \in Plan.pairs
  BY <1>1, <1>2, <1>4
<1>6. <<l[1], l[2], d.igp_wg_ports[l]>> \in Grants(d)
  BY <1>2, <1>4 DEF Grants
<1>7. PP!Granted(l, published)
  BY <1>6 DEF PP!Granted, GrantsPublished
<1> QED
  BY <1>1, <1>4, <1>5, <1>7

THEOREM AlwaysPlanServed == Spec => []PlanServed
BY WellFormedPlan, Typing, AlwaysWellFormed, AlwaysGrantsPublished, PTL

(* Without mishaps the script and its operator implement the port plan.    *)
THEOREM PortPlanImplemented ==
    ASSUME Mishaps = {}
    PROVE  Spec => ImplementsPortPlan
<1>1. Init => PP!PlanInit
  BY FileFacts DEF Init, Plan, PP!PlanInit, PP!NoPlan
<1>2. [Next]_vars /\ NeverReassigned' /\ PlanServed' => [PP!Replace]_<<published, Plan>>
  BY PublishedGrows DEF PP!Replace, NeverReassigned, PlanServed
<1> QED
  BY <1>1, <1>2, PortsNeverReassigned, AlwaysPlanServed, PTL
     DEF Spec, ImplementsPortPlan, PP!PlanSpec
=============================================================================
