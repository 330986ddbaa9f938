--------------------------- MODULE DnsZonesProofs ---------------------------
(***************************************************************************)
(* DnsZones, proved: whatever the configurations, the contents of the      *)
(* registry, the order of its files and the number of edits and mishaps.   *)
(***************************************************************************)
EXTENDS DnsZones, SequenceTheorems, FiniteSetTheorems, WellFoundedInduction, TLAPS

-----------------------------------------------------------------------------
(* When the two names of a reverse zone agree, for every prefix: lstrip    *)
(* gives the name get_ptr_zone gives unless the prefix ends in a label     *)
(* that is zero.                                                           *)

\* A set of numbers has a least one.
LEMMA LeastNat ==
  ASSUME NEW T \in SUBSET Nat, T # {}
  PROVE  \E x \in T : \A y \in T : x <= y
<1> DEFINE R == OpToRel(<, Nat)
<1>1. PICK x \in T : \A y \in T : ~(<<y, x>> \in R)
  BY WFMin, NatLessThanWellFounded, Zenon
<1>2. \A y \in T : ~(y < x)
  BY <1>1, Zenon DEF OpToRel
<1>3. \A y \in T : x <= y
  <2> TAKE y \in T
  <2>1. x \in Nat /\ y \in Nat /\ ~(y < x)
    BY <1>2
  <2> QED BY <2>1
<1> QED BY <1>3

\* lstrip stops at the last label of the address that is not zero.
LEMMA ZerosStop ==
  ASSUME NEW a \in Seq(Nat)
  PROVE  /\ Zeros(a) \in 0..Len(a)
         /\ \A i \in (Len(a) - Zeros(a) + 1)..Len(a) : a[i] = 0
         /\ Zeros(a) < Len(a) => a[Len(a) - Zeros(a)] # 0
<1> DEFINE L == Len(a)
           P(k) == /\ \A i \in (L - k + 1)..L : a[i] = 0
                   /\ k < L => a[L - k] # 0
           T == {k \in 0..L : k = L \/ a[L - k] # 0}
<1>1. L \in Nat
  OBVIOUS
<1>2. PICK k \in T : \A y \in T : k <= y
  <2>1. T \in SUBSET Nat /\ L \in T
    BY <1>1
  <2> HIDE DEF T
  <2> QED BY <2>1, LeastNat, Zenon
<1>3. \A i \in (L - k + 1)..L : a[i] = 0
  <2> SUFFICES ASSUME NEW i \in (L - k + 1)..L PROVE a[i] = 0
    OBVIOUS
  <2>1. L - i \in 0..L /\ L - i < k /\ L - (L - i) = i
    BY <1>1, <1>2
  <2>2. L - i \notin T
    BY <1>1, <1>2, <2>1
  <2> QED BY <2>1, <2>2
<1>4. k \in 0..L /\ P(k)
  BY <1>2, <1>3
<1>5. Zeros(a) = CHOOSE j \in 0..L : P(j)
  BY DEF Zeros
<1> HIDE DEF P
<1>6. Zeros(a) \in 0..L /\ P(Zeros(a))
  BY <1>4, <1>5
<1> QED BY <1>6 DEF P

\* A prefix that ends at a label: its last label and those after it.
LEMMA Labels ==
  ASSUME NEW n, IsNetwork(n), n.len % n.width = 0
  PROVE  LET m == n.len \div n.width IN
         /\ m \in 0..Len(n.addr) /\ (n.len > 0 <=> m > 0)
         /\ \A i \in (m + 1)..Len(n.addr) : n.addr[i] = 0
<1> DEFINE m == n.len \div n.width
           L == Len(n.addr)
<1>1. L \in Nat /\ n.len \in Nat
  BY DEF IsNetwork
<1>2. m \in 0..L /\ n.len = n.width * m
  <2>1. CASE n.width = 4 BY <1>1, <2>1 DEF IsNetwork
  <2>2. CASE n.width = 8 BY <1>1, <2>2 DEF IsNetwork
  <2> QED BY <2>1, <2>2 DEF IsNetwork
<1>3. \A i \in (m + 1)..L : n.addr[i] = 0
  <2> SUFFICES ASSUME NEW i \in (m + 1)..L PROVE n.addr[i] = 0
    OBVIOUS
  <2> HIDE DEF m
  <2>1. n.width * (i - 1) >= n.len
    <3>1. CASE n.width = 4 BY <1>1, <1>2, <3>1
    <3>2. CASE n.width = 8 BY <1>1, <1>2, <3>2
    <3> QED BY <3>1, <3>2 DEF IsNetwork
  <2>2. i \in 1..L
    BY <1>1, <1>2
  <2> QED BY <2>1, <2>2 DEF IsNetwork
<1>4. n.len > 0 <=> m > 0
  <2> HIDE DEF m
  <2>1. CASE n.width = 4 BY <1>1, <1>2, <2>1
  <2>2. CASE n.width = 8 BY <1>1, <1>2, <2>2
  <2> QED BY <2>1, <2>2 DEF IsNetwork
<1> QED BY <1>2, <1>3, <1>4

\* How much lstrip leaves of such a prefix.
LEMMA KeptLabels ==
  ASSUME NEW n, IsNetwork(n), n.len % n.width = 0
  PROVE  LET m == n.len \div n.width
             z == Zeros(n.addr) IN
         /\ z \in 0..Len(n.addr)
         /\ Len(n.addr) - z = m <=> ~Stripped(n)
<1> DEFINE m == n.len \div n.width
           L == Len(n.addr)
           z == Zeros(n.addr)
<1>1. n.addr \in Seq(Nat) /\ L \in Nat
  BY DEF IsNetwork
<1>2. /\ z \in 0..L
      /\ \A i \in (L - z + 1)..L : n.addr[i] = 0
      /\ z < L => n.addr[L - z] # 0
  BY <1>1, ZerosStop
<1>3. /\ m \in 0..L /\ (n.len > 0 <=> m > 0)
      /\ \A i \in (m + 1)..L : n.addr[i] = 0
  BY Labels
<1>4. Stripped(n) <=> m > 0 /\ n.addr[m] = 0
  BY <1>3 DEF Stripped
<1> HIDE DEF m, z
<1>5. CASE m > 0 /\ n.addr[m] = 0
  <2>1. L - z # m
    BY <1>1, <1>2, <1>3, <1>5
  <2> QED BY <1>2, <1>4, <1>5, <2>1 DEF m, z
<1>6. CASE ~(m > 0 /\ n.addr[m] = 0)
  <2>1. ~(L - z > m)
    BY <1>1, <1>2, <1>3
  <2>2. ~(L - z < m)
    BY <1>1, <1>2, <1>3, <1>6
  <2>3. L - z = m
    <3>1. L \in Nat /\ z \in Nat /\ m \in Nat
      BY <1>1, <1>2, <1>3
    <3> HIDE DEF L
    <3> QED BY <2>1, <2>2, <3>1
  <2> QED BY <1>2, <1>4, <1>6, <2>3 DEF m, z
<1> QED BY <1>5, <1>6

\* The labels a reversed prefix is made of.
LEMMA DropIsReverse ==
  ASSUME NEW a \in Seq(Nat), NEW m \in 0..Len(a), NEW z \in 0..Len(a)
  PROVE  DropLeft(a, z) = reverse_pointer(SubSeq(a, 1, m)) <=> Len(a) - z = m
<1> DEFINE L == Len(a)
           s == SubSeq(a, 1, m)
<1>1. L \in Nat /\ m \in Nat /\ L - z \in Nat
  OBVIOUS
<1>2. Len(s) = m /\ \A i \in 1..m : s[i] = a[i]
  BY <1>1
<1>3. reverse_pointer(s) = [i \in 1..m |-> a[m + 1 - i]]
  <2> HIDE DEF s
  <2>1. reverse_pointer(s) = [i \in 1..m |-> s[m + 1 - i]]
    BY <1>1, <1>2 DEF reverse_pointer, DropLeft
  <2>2. \A i \in 1..m : m + 1 - i \in 1..m
    BY <1>1
  <2> QED BY <1>2, <2>1, <2>2
<1>4. DropLeft(a, z) = [i \in 1..(L - z) |-> a[L + 1 - z - i]]
  BY DEF DropLeft
<1>5. ASSUME L - z = m PROVE DropLeft(a, z) = reverse_pointer(s)
  <2>1. \A i \in 1..m : L + 1 - z - i = m + 1 - i
    BY <1>1, <1>5
  <2> HIDE DEF s
  <2> QED BY <1>3, <1>4, <1>5, <2>1
<1>6. ASSUME DropLeft(a, z) = reverse_pointer(s) PROVE L - z = m
  <2>1. 1..(L - z) = 1..m
    BY <1>3, <1>4, <1>6
  <2> QED BY <1>1, <2>1
<1> QED BY <1>5, <1>6

\* The subdivision of a class has the same name both ways (RFC 2317).
LEMMA SubdivisionsAgree ==
  ASSUME NEW n, IsNetwork(n), IPv4(n), n.len \in 25..31
  PROVE  ptr_zonename(n) = get_ptr_zone(n)
<1> DEFINE a == n.addr
           s == SubSeq(a, 1, 3)
<1>1. a \in Seq(Nat) /\ Len(a) = 4 /\ n.width = 8 /\ n.len \div 8 = 3 /\ n.len % 8 # 0
  BY DEF IsNetwork, IPv4
<1>2. Len(s) = 3 /\ s[1] = a[1] /\ s[2] = a[2] /\ s[3] = a[3]
  BY <1>1
<1>3. reverse_pointer(s) = <<a[3], a[2], a[1]>>
  BY <1>2 DEF reverse_pointer, DropLeft
<1>4. reverse_pointer(a) = <<a[4], a[3], a[2], a[1]>>
  BY <1>1 DEF reverse_pointer, DropLeft
<1>5. <<a[4]>> \o reverse_pointer(s) = reverse_pointer(a)
  <2>1. a[1] \in Nat /\ a[2] \in Nat /\ a[3] \in Nat /\ a[4] \in Nat
    BY <1>1
  <2> HIDE DEF a, s
  <2> DEFINE p == <<a[4]>>
             q == <<a[3], a[2], a[1]>>
             t == p \o q
  <2>2. p \in Seq(Nat) /\ q \in Seq(Nat) /\ Len(p) = 1 /\ Len(q) = 3
    BY <2>1
  <2>3. p[1] = a[4] /\ q[1] = a[3] /\ q[2] = a[2] /\ q[3] = a[1]
    OBVIOUS
  <2> HIDE DEF p, q
  <2>4. t \in Seq(Nat) /\ Len(t) = 4 /\ t[1] = p[1] /\ t[2] = q[1] /\ t[3] = q[2] /\ t[4] = q[3]
    <3>1. t \in Seq(Nat) /\ Len(t) = Len(p) + Len(q)
      BY <2>2, ConcatProperties
    <3>2. \A i \in 1..(Len(p) + Len(q)) : t[i] = IF i <= Len(p) THEN p[i] ELSE q[i - Len(p)]
      BY <2>2, ConcatProperties
    <3> HIDE DEF t
    <3> QED BY <2>2, <3>1, <3>2
  <2> HIDE DEF t
  <2>5. t = <<a[4], a[3], a[2], a[1]>>
    BY <2>1, <2>3, <2>4
  <2> QED BY <1>3, <1>4, <2>5 DEF t, p, q
<1>6. get_ptr_zone(n) = ArpaZone(n, <<a[4]>> \o reverse_pointer(s), n.len)
  BY <1>1 DEF get_ptr_zone, IPv4
<1>7. ptr_zonename(n) = ArpaZone(n, reverse_pointer(a), n.len)
  BY <1>1 DEF ptr_zonename, IPv4
<1> QED BY <1>5, <1>6, <1>7

\* make-dns-records.py and registry-to-pdns.py give the zone of a prefix one
\* name, whatever its family and address, unless the prefix ends in a label
\* that is zero; a single IPv4 address and the prefix of all are not meant.
THEOREM NamesAgree ==
  ASSUME NEW n, IsNetwork(n), Supported(n), get_ptr_zone(n) # NoZone,
         n.len # 0, IPv4(n) => n.len < 32
  PROVE  ptr_zonename(n) = get_ptr_zone(n) <=> ~Stripped(n)
<1> DEFINE m == n.len \div n.width
<1>1. n.addr \in Seq(Nat) /\ n.len \in Nat /\ n.width \in {4, 8} /\ n.len # 0
  BY DEF IsNetwork
<1>2. CASE IPv4(n) /\ n.len % 8 # 0
  <2>1. n.len \in 25..31
    <3>1. n.len > 24 /\ n.len < 32
      BY <1>2, Zenon DEF Supported
    <3>2. \A k \in Nat : k > 24 /\ k < 32 => k \in 25..31
      OBVIOUS
    <3> QED BY <1>1, <3>1, <3>2, Zenon
  <2>2. ~Stripped(n)
    BY <1>2 DEF Stripped, IPv4
  <2> QED BY <1>2, <2>1, <2>2, SubdivisionsAgree
<1>3. CASE ~(IPv4(n) /\ n.len % 8 # 0)
  <2>1. n.len % n.width = 0 /\ ~(IPv4(n) /\ n.len > 24)
    <3>1. CASE IPv4(n)
      BY <1>1, <1>3, <3>1 DEF IPv4
    <3>2. CASE ~IPv4(n)
      BY <1>1, <3>2 DEF IPv4, get_ptr_zone
    <3> QED BY <3>1, <3>2
  <2>2. get_ptr_zone(n) = ArpaZone(n, reverse_pointer(SubSeq(n.addr, 1, m)), 0)
    BY <1>1, <2>1 DEF get_ptr_zone, IPv4
  <2>3. ptr_zonename(n) = ArpaZone(n, DropLeft(n.addr, Zeros(n.addr)), 0)
    BY <1>3 DEF ptr_zonename
  <2>4. m \in 0..Len(n.addr)
    BY <2>1, Labels
  <2>5. Zeros(n.addr) \in 0..Len(n.addr) /\ (Len(n.addr) - Zeros(n.addr) = m <=> ~Stripped(n))
    BY <2>1, KeptLabels
  <2>6. DropLeft(n.addr, Zeros(n.addr)) = reverse_pointer(SubSeq(n.addr, 1, m)) <=> ~Stripped(n)
    <3> HIDE DEF m
    <3> QED BY <1>1, <2>4, <2>5, DropIsReverse
  <2>7. \A s, t : ArpaZone(n, s, 0) = ArpaZone(n, t, 0) <=> s = t
    BY DEF ArpaZone
  <2> QED BY <2>2, <2>3, <2>6, <2>7
<1> QED BY <1>2, <1>3

-----------------------------------------------------------------------------
(* Types *)

\* The zones make-dns-records.py can write.
OwnZones ==
    UNION {{DomainZone(c.domains[i].name) : i \in DOMAIN c.domains}
             \cup {ptr_zonename(c.nets[i]) : i \in {k \in DOMAIN c.nets : Supported(c.nets[k])}} :
                 c \in Confs}

ZoneSets == {run.entries, local, cached.local, server.named, DOMAIN zonedir, DOMAIN server.dir,
             DOMAIN server.serves}

Typed ==
    /\ conf \in Confs /\ run.conf \in Confs
    /\ step \in {Idle, "records", "registry", "secondary", "named", "sync", "reload"}
    /\ run = [conf |-> run.conf, domains |-> run.domains, nets |-> run.nets,
              ptr |-> run.ptr, entries |-> run.entries]
    /\ run.domains \in 0..Len(run.conf.domains) /\ run.nets \in 0..Len(run.conf.nets)
    /\ server = [named |-> server.named, slaves |-> server.slaves, dir |-> server.dir,
                 serves |-> server.serves, notified |-> server.notified]
    /\ run.entries \subseteq OwnZones /\ local \subseteq OwnZones /\ cached.local \subseteq OwnZones
    /\ server.named \subseteq OwnZones /\ DOMAIN zonedir \subseteq OwnZones
    /\ DOMAIN server.dir \subseteq OwnZones /\ DOMAIN server.serves \subseteq OwnZones
    /\ server.notified \in BOOLEAN /\ lost \in BOOLEAN /\ whole \in BOOLEAN
    /\ edits \in 0..MaxEdits /\ mishaps \in 0..MaxMishaps

\* The name of a zone of a supported prefix.
LEMMA OwnZoneCut ==
  ASSUME NEW n, IsNetwork(n), Supported(n)
  PROVE  ptr_zonename(n).cut = 0 \/ ptr_zonename(n).cut \in 25..31
<1>1. n.width \in {4, 8} /\ n.len \in Nat /\ (IPv4(n) => n.len \in 0..32)
  <2>1. n.width \in {4, 8} /\ Len(n.addr) \in Nat /\ n.len \in 0..(n.width * Len(n.addr))
    BY DEF IsNetwork
  <2>2. CASE IPv4(n)
    <3>1. n.width = 8
      BY <2>2 DEF IPv4
    <3>2. Len(n.addr) = 4
      BY <2>2 DEF IsNetwork
    <3>3. n.width * Len(n.addr) = 32
      BY <3>1, <3>2
    <3> HIDE DEF IPv4
    <3>4. n.len \in 0..32
      BY <2>1, <3>3, Zenon
    <3> QED BY <2>1, <3>4
  <2>3. CASE ~IPv4(n)
    <3>1. n.width * Len(n.addr) \in Nat
      BY <2>1, <2>3
    <3> QED BY <2>1, <2>3, <3>1
  <2> QED BY <2>2, <2>3
<1>2. CASE IPv4(n) /\ n.len % 8 # 0
  <2>1. n.len \in 25..31
    BY <1>1, <1>2 DEF Supported
  <2> QED BY <1>2, <2>1 DEF ptr_zonename, ArpaZone
<1>3. CASE ~(IPv4(n) /\ n.len % 8 # 0)
  BY <1>3 DEF ptr_zonename, ArpaZone
<1> QED BY <1>2, <1>3

\* The zones of the configuration at hand.
LEMMA ZonesOfConf ==
  ASSUME NEW c \in Confs
  PROVE  /\ DOMAIN c.domains = 1..Len(c.domains) /\ Len(c.domains) \in Nat
         /\ DOMAIN c.nets = 1..Len(c.nets) /\ Len(c.nets) \in Nat
         /\ \A i \in 1..Len(c.domains) : DomainZone(c.domains[i].name) \in OwnZones
         /\ \A i \in 1..Len(c.nets) : /\ IsNetwork(c.nets[i])
                                      /\ Supported(c.nets[i]) => ptr_zonename(c.nets[i]) \in OwnZones
<1>1. /\ c.domains \in Seq({c.domains[i] : i \in DOMAIN c.domains})
      /\ c.nets \in Seq({c.nets[i] : i \in DOMAIN c.nets})
      /\ \A i \in DOMAIN c.nets : IsNetwork(c.nets[i])
  BY ConfsAssumption DEF IsSequence
<1>2. /\ DOMAIN c.domains = 1..Len(c.domains) /\ Len(c.domains) \in Nat
      /\ DOMAIN c.nets = 1..Len(c.nets) /\ Len(c.nets) \in Nat
  BY <1>1
<1>3. \A i \in DOMAIN c.domains : DomainZone(c.domains[i].name) \in OwnZones
  BY DEF OwnZones
<1>4. \A i \in DOMAIN c.nets : Supported(c.nets[i]) => ptr_zonename(c.nets[i]) \in OwnZones
  BY DEF OwnZones
<1> QED BY <1>1, <1>2, <1>3, <1>4

LEMMA TypedImpliesTypeOK ==
  ASSUME Typed, gen.todo \subseteq registry
  PROVE  TypeOK
<1>1. \A z \in OwnZones : z \in Zones /\ (z.cut = 0 \/ z.cut \in 25..31)
  <2> SUFFICES ASSUME NEW z \in OwnZones PROVE z \in Zones /\ (z.cut = 0 \/ z.cut \in 25..31)
    OBVIOUS
  <2>1. PICK c \in Confs :
           \/ \E i \in DOMAIN c.domains : z = DomainZone(c.domains[i].name)
           \/ \E i \in DOMAIN c.nets : Supported(c.nets[i]) /\ z = ptr_zonename(c.nets[i])
    BY DEF OwnZones
  <2>2. z \in Zones
    BY <2>1 DEF Zones, ZonesOf
  <2>3. CASE \E i \in DOMAIN c.domains : z = DomainZone(c.domains[i].name)
    BY <2>2, <2>3 DEF DomainZone
  <2>4. CASE \E i \in DOMAIN c.nets : Supported(c.nets[i]) /\ z = ptr_zonename(c.nets[i])
    BY <2>2, <2>4, ZonesOfConf, OwnZoneCut
  <2> QED BY <2>1, <2>3, <2>4
<1>2. \A S \in ZoneSets : S \subseteq {z \in Zones : z.cut = 0 \/ z.cut \in 25..31}
  BY <1>1 DEF Typed, ZoneSets
<1> QED BY <1>2 DEF Typed, TypeOK, ZoneSets

LEMMA PutDomain ==
  ASSUME NEW dir, NEW z, NEW contents
  PROVE  /\ DOMAIN Put(dir, z, contents) = DOMAIN dir \cup {z}
         /\ Put(dir, z, contents)[z] = contents
         /\ \A y \in DOMAIN dir \ {z} : Put(dir, z, contents)[y] = dir[y]
BY DEF Put


LEMMA TypedInit == Init => Typed
<1> SUFFICES ASSUME Init PROVE Typed
  OBVIOUS
<1>1. conf \in Confs /\ 0 \in 0..Len(conf.domains) /\ 0 \in 0..Len(conf.nets)
  BY ZonesOfConf DEF Init
<1>2. run = [conf |-> conf, domains |-> 0, nets |-> 0, ptr |-> Nothing, entries |-> {}]
  BY DEF Init
<1>3. server = [named |-> {}, slaves |-> {}, dir |-> Nothing, serves |-> Nothing, notified |-> FALSE]
  BY DEF Init
<1>4. zonedir = Nothing /\ local = {} /\ cached.local = {} /\ step = Idle /\ lost = FALSE /\ whole = FALSE
      /\ edits = MaxEdits /\ mishaps = MaxMishaps
  BY DEF Init
<1>5. DOMAIN Nothing = {}
  BY DEF Nothing
<1>6. /\ run.conf = conf /\ run.domains = 0 /\ run.nets = 0 /\ run.entries = {}
      /\ run = [conf |-> run.conf, domains |-> run.domains, nets |-> run.nets,
                ptr |-> run.ptr, entries |-> run.entries]
  BY <1>2, Zenon
<1>7. /\ server.named = {} /\ DOMAIN server.dir = {} /\ DOMAIN server.serves = {}
      /\ server.notified \in BOOLEAN
      /\ server = [named |-> server.named, slaves |-> server.slaves, dir |-> server.dir,
                   serves |-> server.serves, notified |-> server.notified]
  BY <1>3, <1>5, Zenon
<1>8. MaxEdits \in 0..MaxEdits /\ MaxMishaps \in 0..MaxMishaps
  BY BoundsAssumption
<1> QED BY <1>1, <1>4, <1>5, <1>6, <1>7, <1>8, Zenon DEF Typed, Idle

LEMMA TypedStartPlay == Typed /\ StartPlay => Typed'
<1> SUFFICES ASSUME Typed, StartPlay PROVE Typed'
  OBVIOUS
<1>1. 0 \in 0..Len(conf.domains) /\ 0 \in 0..Len(conf.nets)
  BY ZonesOfConf DEF Typed
<1> HIDE DEF Nothing
<1> QED BY <1>1 DEF Typed, StartPlay, zonefiles, bounds

\* A zone that is written is one of the own.
LEMMA OwnPut ==
  ASSUME Typed, NEW zone \in OwnZones, NEW contents, zonedir' = Put(zonedir, zone, contents)
  PROVE  DOMAIN zonedir' \subseteq OwnZones
<1>1. DOMAIN zonedir' = DOMAIN zonedir \cup {zone}
  BY PutDomain
<1>2. DOMAIN zonedir \subseteq OwnZones
  BY DEF Typed
<1> QED BY <1>1, <1>2

\* What the steps of a run of make-dns-records.py leave alone.
LEMMA TypedWritten ==
  ASSUME Typed, NEW zone \in OwnZones, NEW contents, Written(zone, contents), step' = step,
         NEW domains \in 0..Len(run.conf.domains), NEW nets \in 0..Len(run.conf.nets), NEW ptr,
         run' = [conf |-> run.conf, domains |-> domains, nets |-> nets, ptr |-> ptr,
                 entries |-> run.entries \cup {zone}]
  PROVE  Typed'
<1>1. DOMAIN zonedir' \subseteq OwnZones
  BY OwnPut DEF Written
<1>2. run.entries \cup {zone} \subseteq OwnZones
  BY DEF Typed
<1>3. /\ run'.conf = run.conf /\ run'.domains = domains /\ run'.nets = nets
      /\ run'.entries = run.entries \cup {zone}
      /\ run' = [conf |-> run'.conf, domains |-> run'.domains, nets |-> run'.nets,
                 ptr |-> run'.ptr, entries |-> run'.entries]
  BY Zenon
<1>4. /\ conf' = conf /\ local' = local /\ cached' = cached /\ server' = server /\ lost' = lost
      /\ whole' = whole /\ edits' = edits /\ mishaps' = mishaps
  BY DEF Written, bounds
<1> QED BY <1>1, <1>2, <1>3, <1>4 DEF Typed

LEMMA TypedForward == Typed /\ write_forward_zone => Typed'
<1> SUFFICES ASSUME Typed, write_forward_zone PROVE Typed'
  OBVIOUS
<1> DEFINE c == run.conf
           d == c.domains[run.domains + 1]
           zone == DomainZone(d.name)
<1>1. c \in Confs /\ run.domains \in Nat /\ run.domains < Len(c.domains)
  BY DEF Typed, write_forward_zone
<1>2. zone \in OwnZones /\ run.domains + 1 \in 0..Len(c.domains)
  BY <1>1, ZonesOfConf
<1>3. CASE Unknown(c, d)
  <2>1. zonedir' = Put(zonedir, zone, {}) /\ Fails
    BY <1>3 DEF write_forward_zone
  <2>2. DOMAIN zonedir' \subseteq OwnZones
    BY <1>2, <2>1, OwnPut
  <2> QED BY <2>1, <2>2 DEF Typed, Fails, bounds
<1>4. CASE ~Unknown(c, d)
  <2>1. /\ Written(zone, ForwardContents(c, d)) /\ step' = step
        /\ run' = [run EXCEPT !.domains = @ + 1, !.ptr = WithPtr(@, c, d),
                              !.entries = @ \cup {zone}]
    BY <1>4 DEF write_forward_zone
  <2>3. run' = [conf |-> c, domains |-> run.domains + 1, nets |-> run.nets,
                ptr |-> WithPtr(run.ptr, c, d), entries |-> run.entries \cup {zone}]
    <3> HIDE DEF d, zone
    <3> QED BY <2>1 DEF Typed
  <2>4. run.nets \in 0..Len(c.nets)
    BY DEF Typed
  <2> HIDE DEF d, zone
  <2> QED BY <1>2, <2>1, <2>3, <2>4, TypedWritten
<1> QED BY <1>3, <1>4

LEMMA TypedPtr == Typed /\ write_ptr_zone => Typed'
<1> SUFFICES ASSUME Typed, write_ptr_zone PROVE Typed'
  OBVIOUS
<1> DEFINE c == run.conf
           n == c.nets[run.nets + 1]
           zone == ptr_zonename(n)
           contents == {run.ptr[a] : a \in {b \in DOMAIN run.ptr : Within(b, n)}}
<1>1. c \in Confs /\ run.nets \in Nat /\ run.nets < Len(c.nets)
  BY DEF Typed, write_ptr_zone, WritePtrZone
<1>2. (Supported(n) => zone \in OwnZones) /\ run.nets + 1 \in 0..Len(c.nets)
  BY <1>1, ZonesOfConf
<1>3. CASE ~Supported(n)
  <2>1. zonedir' = zonedir /\ Fails
    BY <1>3 DEF write_ptr_zone, WritePtrZone
  <2> QED BY <2>1 DEF Typed, Fails, bounds
<1>4. CASE Supported(n)
  <2>1. /\ Written(zone, contents) /\ step' = step
        /\ run' = [run EXCEPT !.nets = @ + 1, !.entries = @ \cup {zone}]
    BY <1>4 DEF write_ptr_zone, WritePtrZone
  <2> HIDE DEF n, zone, contents
  <2>3. run' = [conf |-> c, domains |-> run.domains, nets |-> run.nets + 1,
                ptr |-> run.ptr, entries |-> run.entries \cup {zone}]
    BY <2>1 DEF Typed
  <2>4. run.domains \in 0..Len(c.domains)
    BY DEF Typed
  <2> QED BY <1>2, <1>4, <2>1, <2>3, <2>4, TypedWritten
<1> QED BY <1>3, <1>4

\* The steps that leave the run of make-dns-records.py alone.
LEMMA TypedWorkstation ==
  Typed /\ (write_zones_local \/ RegistryStep \/ RegistryFails \/ WriteSecondary) => Typed'
<1> SUFFICES ASSUME Typed,
                    write_zones_local \/ RegistryStep \/ RegistryFails \/ WriteSecondary
             PROVE  Typed'
  OBVIOUS
<1>1. CASE write_zones_local
  BY <1>1 DEF Typed, write_zones_local, bounds
<1>2. CASE RegistryStep
  BY <1>2 DEF Typed, RegistryStep, PlayVars, zonefiles, bounds
<1>3. CASE RegistryFails
  BY <1>3 DEF Typed, RegistryFails, Fails, bounds
<1>4. CASE WriteSecondary
  BY <1>4 DEF Typed, WriteSecondary, PlayVars, zonefiles, bounds
<1> QED BY <1>1, <1>2, <1>3, <1>4

LEMMA LoadDomain ==
  ASSUME NEW s
  PROVE  /\ DOMAIN Load(s) = s.named \cap DOMAIN s.dir
         /\ DOMAIN Rediscover(s) = s.named \cap DOMAIN s.dir
BY DEF Load, Rediscover

LEMMA TypedServer ==
  ASSUME Typed, TemplateNamed \/ Synchronize \/ Reload \/ ReloadFails \/ Abort \/ Reboot
  PROVE  Typed'
<1>a. mishaps > 0 => mishaps - 1 \in 0..MaxMishaps
  BY BoundsAssumption DEF Typed
<1> USE DEF Typed, PlayOnly, zonefiles
<1>1. CASE TemplateNamed
  BY <1>1 DEF TemplateNamed
<1>2. CASE Synchronize
  BY <1>2 DEF Synchronize
<1>3. CASE Reload
  BY <1>3, LoadDomain DEF Reload
<1>4. CASE ReloadFails
  <2>1. PICK s \in {server.serves, Rediscover(server)} :
           server' = [server EXCEPT !.serves = s, !.notified = FALSE]
    BY <1>4 DEF ReloadFails
  <2>2. /\ server' = [named |-> server.named, slaves |-> server.slaves, dir |-> server.dir,
                      serves |-> s, notified |-> FALSE]
        /\ DOMAIN s \subseteq OwnZones
    BY <2>1, LoadDomain
  <2> QED BY <1>4, <1>a, <2>2 DEF ReloadFails
<1>5. CASE Abort
  <2>1. PICK new \in IF step = "sync" THEN SUBSET DOMAIN zonedir ELSE {{}} :
           server' = [server EXCEPT !.notified = FALSE,
                                    !.dir = [z \in new \cup DOMAIN @ |->
                                                IF z \in new THEN zonedir[z] ELSE @[z]]]
    BY <1>5 DEF Abort
  <2>2. new \subseteq DOMAIN zonedir
    BY <2>1
  <2>3. /\ DOMAIN server'.dir = new \cup DOMAIN server.dir
        /\ server' = [named |-> server.named, slaves |-> server.slaves, dir |-> server'.dir,
                      serves |-> server.serves, notified |-> FALSE]
    BY <2>1
  <2>4. /\ server'.named = server.named /\ server'.slaves = server.slaves
        /\ server'.serves = server.serves /\ server'.notified = FALSE
    BY <2>1, <2>3
  <2>5. /\ lost' \in BOOLEAN /\ step' = Idle /\ mishaps' \in 0..MaxMishaps
        /\ UNCHANGED <<conf, run, zonedir, local, cached, whole, edits>>
    BY <1>5, <1>a DEF Abort
  <2> QED BY <2>2, <2>3, <2>4, <2>5
<1>6. CASE Reboot
  <2>1. /\ server' = [named |-> server.named, slaves |-> server.slaves, dir |-> server.dir,
                      serves |-> Load(server), notified |-> server.notified]
        /\ DOMAIN Load(server) \subseteq OwnZones
    BY <1>6, LoadDomain DEF Reboot
  <2> QED BY <1>6, <1>a, <2>1 DEF Reboot
<1> QED BY <1>1, <1>2, <1>3, <1>4, <1>5, <1>6

LEMMA TypedNext == Typed /\ [Next]_vars => Typed'
<1> SUFFICES ASSUME Typed, [Next]_vars PROVE Typed'
  OBVIOUS
<1>1. CASE Edit
  BY <1>1, BoundsAssumption DEF Typed, Edit, zonefiles
<1>2. CASE UNCHANGED vars
  BY <1>2 DEF Typed, vars, zonefiles, bounds
<1> QED BY <1>1, <1>2, TypedStartPlay, TypedForward, TypedPtr, TypedWorkstation, TypedServer DEF Next

-----------------------------------------------------------------------------
(* What the server serves *)

FilesInv ==
    /\ local \subseteq DOMAIN zonedir /\ run.entries \subseteq DOMAIN zonedir
    /\ cached.local \subseteq DOMAIN zonedir
    /\ step \in {"sync", "reload"} \/ whole => server.named = cached.local
    /\ step = "reload" \/ whole => server.dir = zonedir
    /\ ~lost /\ ~server.notified => server.serves = Load(server)
    /\ whole => step = Idle /\ ~server.notified

LEMMA LoadCongruence ==
  ASSUME NEW s, NEW t, s.named = t.named, s.dir = t.dir
  PROVE  Load(s) = Load(t)
BY DEF Load

LEMMA FilesInit == Init => FilesInv
<1> SUFFICES ASSUME Init PROVE FilesInv
  OBVIOUS
<1>1. /\ local = {} /\ cached.local = {} /\ run.entries = {} /\ step = Idle /\ ~whole
      /\ server.named = {} /\ server.serves = Nothing
  BY DEF Init
<1>2. Load(server) = Nothing
  BY <1>1 DEF Load, Nothing
<1> QED BY <1>1, <1>2 DEF FilesInv, Idle

\* Zones are written while no play is whole, and the files only grow.
LEMMA FilesWritten ==
  ASSUME FilesInv, step = "records", NEW zone, NEW contents,
         zonedir' = Put(zonedir, zone, contents), step' \in {Idle, "records"},
         run'.entries \subseteq run.entries \cup {zone},
         UNCHANGED <<local, cached, server, lost, whole>>
  PROVE  FilesInv'
<1>1. DOMAIN zonedir' = DOMAIN zonedir \cup {zone}
  BY PutDomain
<1>2. ~whole /\ step' \notin {"sync", "reload"}
  BY DEF FilesInv, Idle
<1>3. Load(server)' = Load(server)
  BY DEF Load
<1> QED BY <1>1, <1>2, <1>3 DEF FilesInv

LEMMA FilesRecords ==
  ASSUME Typed, FilesInv, StartPlay \/ write_forward_zone \/ write_ptr_zone \/ write_zones_local
  PROVE  FilesInv'
<1>1. CASE StartPlay
  <2>1. Load(server)' = Load(server)
    BY <1>1 DEF StartPlay, Load
  <2>2. /\ run'.entries = {} /\ step' = "records" /\ ~whole'
        /\ cached'.local = local /\ UNCHANGED <<local, zonedir, server, lost>>
    BY <1>1 DEF StartPlay, zonefiles
  <2> QED BY <2>1, <2>2 DEF FilesInv
<1>2. CASE write_forward_zone
  <2> DEFINE d == run.conf.domains[run.domains + 1]
             zone == DomainZone(d.name)
  <2>1. CASE Unknown(run.conf, d)
    BY <1>2, <2>1, FilesWritten DEF write_forward_zone, Fails
  <2>2. CASE ~Unknown(run.conf, d)
    <3>1. /\ Written(zone, ForwardContents(run.conf, d)) /\ step' = step /\ step = "records"
          /\ run' = [run EXCEPT !.domains = @ + 1, !.ptr = WithPtr(@, run.conf, d),
                                !.entries = @ \cup {zone}]
      BY <1>2, <2>2 DEF write_forward_zone
    <3> HIDE DEF d, zone
    <3>2. run'.entries = run.entries \cup {zone}
      BY <3>1 DEF Typed
    <3> QED BY <3>1, <3>2, FilesWritten DEF Written
  <2> QED BY <2>1, <2>2
<1>3. CASE write_ptr_zone
  <2> DEFINE n == run.conf.nets[run.nets + 1]
             zone == ptr_zonename(n)
             contents == {run.ptr[a] : a \in {b \in DOMAIN run.ptr : Within(b, n)}}
  <2>1. CASE ~Supported(n)
    <3>1. step' = Idle /\ step = "records" /\ UNCHANGED <<zonedir, run, local, cached, server, lost, whole>>
      BY <1>3, <2>1 DEF write_ptr_zone, WritePtrZone, Fails
    <3>2. Load(server)' = Load(server)
      BY <3>1 DEF Load
    <3> QED BY <3>1, <3>2 DEF FilesInv, Idle
  <2>2. CASE Supported(n)
    <3>1. /\ Written(zone, contents) /\ step' = step /\ step = "records"
          /\ run' = [run EXCEPT !.nets = @ + 1, !.entries = @ \cup {zone}]
      BY <1>3, <2>2 DEF write_ptr_zone, WritePtrZone
    <3> HIDE DEF n, zone, contents
    <3>2. run'.entries = run.entries \cup {zone}
      BY <3>1 DEF Typed
    <3> QED BY <3>1, <3>2, FilesWritten DEF Written
  <2> QED BY <2>1, <2>2
<1>4. CASE write_zones_local
  <2>1. /\ local' = run.entries /\ step = "records" /\ step' = "registry"
        /\ UNCHANGED <<zonedir, run, cached, server, lost, whole>>
    BY <1>4 DEF write_zones_local
  <2>2. Load(server)' = Load(server)
    BY <2>1 DEF Load
  <2> QED BY <2>1, <2>2 DEF FilesInv, Idle
<1> QED BY <1>1, <1>2, <1>3, <1>4

LEMMA FilesRegistry ==
  ASSUME FilesInv, RegistryStep \/ RegistryFails \/ WriteSecondary
  PROVE  FilesInv'
<1>1. /\ step \in {"registry", "secondary"} /\ step' \notin {"sync", "reload"}
      /\ UNCHANGED <<zonedir, local, cached, run, server, lost, whole>>
  <2>1. CASE RegistryStep
    BY <2>1 DEF RegistryStep, PlayVars, zonefiles
  <2>2. CASE RegistryFails
    BY <2>2 DEF RegistryFails, Fails, Idle
  <2>3. CASE WriteSecondary
    BY <2>3 DEF WriteSecondary, PlayVars, zonefiles
  <2> QED BY <2>1, <2>2, <2>3
<1>2. Load(server)' = Load(server)
  BY <1>1 DEF Load
<1> QED BY <1>1, <1>2 DEF FilesInv, Idle

\* What each step does to the server, field by field.
LEMMA ServerFields ==
  ASSUME Typed
  PROVE
    /\ TemplateNamed =>
         /\ server'.named = cached.local /\ server'.slaves = cached.secondary
         /\ server'.dir = server.dir /\ server'.serves = server.serves
         /\ ~server'.notified => ~server.notified /\ server.named = cached.local
    /\ Synchronize =>
         /\ server'.named = server.named /\ server'.slaves = server.slaves
         /\ server'.dir = zonedir /\ server'.serves = server.serves
         /\ ~server'.notified => ~server.notified /\ server.dir = zonedir
    /\ Reload =>
         /\ server'.named = server.named /\ server'.slaves = server.slaves
         /\ server'.dir = server.dir /\ ~server'.notified
         /\ server.notified => server'.serves = Load(server)
         /\ ~server.notified => server' = server
    /\ ReloadFails =>
         /\ server'.named = server.named /\ server'.slaves = server.slaves
         /\ server'.dir = server.dir /\ ~server'.notified
    /\ Abort =>
         /\ server'.named = server.named /\ server'.slaves = server.slaves
         /\ server'.serves = server.serves /\ ~server'.notified
    /\ Reboot =>
         /\ server'.named = server.named /\ server'.slaves = server.slaves
         /\ server'.dir = server.dir /\ server'.serves = Load(server)
         /\ server'.notified = server.notified
<1> DEFINE S(n, l, d, v, t) == [named |-> n, slaves |-> l, dir |-> d, serves |-> v, notified |-> t]
<1>1. server = S(server.named, server.slaves, server.dir, server.serves, server.notified)
      /\ server.notified \in BOOLEAN
  BY DEF Typed
<1>2. ASSUME TemplateNamed
      PROVE  /\ server'.named = cached.local /\ server'.slaves = cached.secondary
             /\ server'.dir = server.dir /\ server'.serves = server.serves
             /\ ~server'.notified => ~server.notified /\ server.named = cached.local
  <2>1. PICK new : /\ new = [server EXCEPT !.named = cached.local, !.slaves = cached.secondary]
                   /\ server' = [new EXCEPT !.notified = @ \/ new # server]
    BY <1>2 DEF TemplateNamed
  <2>2. new = S(cached.local, cached.secondary, server.dir, server.serves, server.notified)
    BY <1>1, <2>1
  <2>3. server' = S(cached.local, cached.secondary, server.dir, server.serves, server.notified \/ new # server)
    BY <2>1, <2>2
  <2>4. new = server => server.named = cached.local
    BY <2>2
  <2> QED BY <2>3, <2>4
<1>3. ASSUME Synchronize
      PROVE  /\ server'.named = server.named /\ server'.slaves = server.slaves
             /\ server'.dir = zonedir /\ server'.serves = server.serves
             /\ ~server'.notified => ~server.notified /\ server.dir = zonedir
  <2>1. server' = S(server.named, server.slaves, zonedir, server.serves,
                    server.notified \/ server.dir # zonedir)
    BY <1>1, <1>3 DEF Synchronize
  <2> QED BY <2>1
<1>4. ASSUME Reload
      PROVE  /\ server'.named = server.named /\ server'.slaves = server.slaves
             /\ server'.dir = server.dir /\ ~server'.notified
             /\ server.notified => server'.serves = Load(server)
             /\ ~server.notified => server' = server
  <2>1. CASE server.notified
    <3>1. server' = S(server.named, server.slaves, server.dir, Load(server), FALSE)
      BY <1>1, <1>4, <2>1 DEF Reload
    <3> QED BY <2>1, <3>1
  <2>2. CASE ~server.notified
    BY <1>4, <2>2 DEF Reload
  <2> QED BY <2>1, <2>2
<1>5. ASSUME ReloadFails
      PROVE  /\ server'.named = server.named /\ server'.slaves = server.slaves
             /\ server'.dir = server.dir /\ ~server'.notified
  <2>1. PICK s : server' = [server EXCEPT !.serves = s, !.notified = FALSE]
    BY <1>5 DEF ReloadFails
  <2>2. server' = S(server.named, server.slaves, server.dir, s, FALSE)
    BY <1>1, <2>1
  <2> QED BY <2>2
<1>6. ASSUME Abort
      PROVE  /\ server'.named = server.named /\ server'.slaves = server.slaves
             /\ server'.serves = server.serves /\ ~server'.notified
  <2>1. PICK new : server' = [server EXCEPT !.notified = FALSE,
                                            !.dir = [z \in new \cup DOMAIN @ |->
                                                        IF z \in new THEN zonedir[z] ELSE @[z]]]
    BY <1>6 DEF Abort
  <2>2. PICK dir : server' = S(server.named, server.slaves, dir, server.serves, FALSE)
    BY <1>1, <2>1
  <2> QED BY <2>2
<1>7. ASSUME Reboot
      PROVE  /\ server'.named = server.named /\ server'.slaves = server.slaves
             /\ server'.dir = server.dir /\ server'.serves = Load(server)
             /\ server'.notified = server.notified
  <2>1. server' = S(server.named, server.slaves, server.dir, Load(server), server.notified)
    BY <1>1, <1>7 DEF Reboot
  <2> QED BY <2>1
<1> QED BY <1>2, <1>3, <1>4, <1>5, <1>6, <1>7

\* On the server: a change of what is to be loaded leaves a notification or the
\* mark of a reload that was lost.
LEMMA FilesServer ==
  ASSUME Typed, FilesInv, TemplateNamed \/ Synchronize \/ Reload \/ ReloadFails \/ Abort \/ Reboot
  PROVE  FilesInv'
<1>a. UNCHANGED <<local, cached, zonedir, run>>
  BY DEF TemplateNamed, Synchronize, Reload, ReloadFails, Abort, Reboot, PlayOnly, zonefiles
<1>1. CASE TemplateNamed
  <2>1. step = "named" /\ step' = "sync" /\ lost' = lost /\ whole' = whole
    BY <1>1 DEF TemplateNamed
  <2>2. ~server'.notified => Load(server') = Load(server)
    BY <1>1, ServerFields, LoadCongruence
  <2> QED BY <1>1, <1>a, <2>1, <2>2, ServerFields DEF FilesInv, Idle
<1>2. CASE Synchronize
  <2>1. step = "sync" /\ step' = "reload" /\ lost' = lost /\ whole' = whole
    BY <1>2 DEF Synchronize
  <2>2. ~server'.notified => Load(server') = Load(server)
    BY <1>2, ServerFields, LoadCongruence
  <2> QED BY <1>2, <1>a, <2>1, <2>2, ServerFields DEF FilesInv, Idle
<1>3. CASE Reload
  <2>1. step = "reload" /\ step' = Idle /\ lost' = (lost /\ ~server.notified) /\ whole'
    BY <1>3 DEF Reload
  <2>2. Load(server') = Load(server)
    BY <1>3, ServerFields, LoadCongruence
  <2> QED BY <1>3, <1>a, <2>1, <2>2, ServerFields DEF FilesInv, Idle
<1>4. CASE ReloadFails
  <2>1. step = "reload" /\ step' = Idle /\ lost'
    BY <1>4 DEF ReloadFails
  <2> QED BY <1>4, <1>a, <2>1, ServerFields DEF FilesInv, Idle
<1>5. CASE Abort
  <2>1. /\ step \in {"named", "sync", "reload"} /\ step' = Idle /\ whole' = whole
        /\ lost' = (lost \/ server'.dir # server.dir \/ server.notified)
    BY <1>5 DEF Abort
  <2>2. ~lost' => Load(server') = Load(server)
    BY <1>5, <2>1, ServerFields, LoadCongruence
  <2> QED BY <1>5, <1>a, <2>1, <2>2, ServerFields DEF FilesInv, Idle
<1>6. CASE Reboot
  <2>1. step' = step /\ whole' = whole
    BY <1>6 DEF Reboot
  <2>2. Load(server') = Load(server)
    BY <1>6, ServerFields, LoadCongruence
  <2> QED BY <1>6, <1>a, <2>1, <2>2, ServerFields DEF FilesInv
<1> QED BY <1>1, <1>2, <1>3, <1>4, <1>5, <1>6

LEMMA FilesNext ==
  ASSUME Typed, FilesInv, [Next]_vars
  PROVE  FilesInv'
<1>1. CASE UNCHANGED <<step, run, local, cached, zonedir, server, lost, whole>>
  <2>1. Load(server)' = Load(server)
    BY <1>1 DEF Load
  <2> QED BY <1>1, <2>1 DEF FilesInv
<1>2. Edit \/ UNCHANGED vars => UNCHANGED <<step, run, local, cached, zonedir, server, lost, whole>>
  BY DEF Edit, vars, zonefiles
<1> QED BY <1>1, <1>2, FilesRecords, FilesRegistry, FilesServer DEF Next

\* After a whole play PowerDNS has the files of the list the play began with.
LEMMA ServesCached ==
  ASSUME FilesInv, whole, ~lost
  PROVE  server.serves = [z \in cached.local |-> zonedir[z]]
<1>1. /\ server.named = cached.local /\ server.dir = zonedir /\ server.serves = Load(server)
      /\ cached.local \subseteq DOMAIN zonedir
  BY DEF FilesInv
<1>2. cached.local \cap DOMAIN zonedir = cached.local
  BY <1>1
<1> QED BY <1>1, <1>2, Zenon DEF Load

-----------------------------------------------------------------------------
(* The zones of a run of make-dns-records.py *)

\* A run that read c and has written the first i forward zones and the first k
\* reverse zones: its ptr_records, its namedconf_entries and the zone files.
RunDone(c, i, k, ptr, entries, dir) ==
    /\ k > 0 => i = Len(c.domains)
    /\ entries = {DomainZone(c.domains[x].name) : x \in 1..i}
                    \cup {ptr_zonename(c.nets[x]) : x \in 1..k}
    /\ \A x \in 1..i : dir[DomainZone(c.domains[x].name)] = ForwardContents(c, c.domains[x])
    /\ \A x \in 1..k : dir[ptr_zonename(c.nets[x])] =
                           {ptr[a] : a \in {b \in DOMAIN ptr : Within(b, c.nets[x])}}
    /\ DOMAIN ptr = UNION {Reversed(c, c.domains[x]) : x \in 1..i}
    /\ \A a \in DOMAIN ptr : \E x \in 1..i :
          /\ ptr[a].ip = a /\ ptr[a].domain = c.domains[x].name
          /\ ptr[a] \in ForwardContents(c, c.domains[x])

\* Of the run under way, or of the one the last play began with.
RunInv ==
    step # Idle \/ whole =>
    /\ RunDone(run.conf, run.domains, run.nets, run.ptr, run.entries, zonedir)
    /\ step # "records" => /\ run.domains = Len(run.conf.domains)
                           /\ run.nets = Len(run.conf.nets) /\ local = run.entries

\* A set of positions has a last one.
LEMMA Greatest ==
  ASSUME NEW N \in Nat, NEW T \in SUBSET (1..N), T # {}
  PROVE  \E x \in T : \A y \in T : y <= x
<1> DEFINE D == {N - y : y \in T}
<1>1. D \in SUBSET Nat /\ D # {}
  <2>1. \A y \in T : N - y \in Nat
    OBVIOUS
  <2> QED BY <2>1, Zenon
<1>2. PICK m \in D : \A k \in D : m <= k
  BY <1>1, LeastNat
<1>3. PICK x \in T : m = N - x
  BY <1>2
<1>4. \A y \in T : y <= x
  <2> TAKE y \in T
  <2>1. m <= N - y /\ y \in 1..N /\ x \in 1..N
    BY <1>2
  <2> QED BY <1>3, <2>1
<1> QED BY <1>4

\* The entries of a domain are numbered.
LEMMA EntriesAreNumbered ==
  ASSUME NEW c \in Confs, NEW i \in DOMAIN c.domains
  PROVE  LET e == Entries(c, c.domains[i]) IN Len(e) \in Nat /\ DOMAIN e = 1..Len(e)
<1> DEFINE s == c.domains[i].records
           t == IF c.domains[i].name = c.dns_domain THEN RouterEntries(c) ELSE <<>>
           A == {s[k] : k \in DOMAIN s}
           B == {RouterEntries(c)[k] : k \in DOMAIN RouterEntries(c)}
<1>1. s \in Seq(A) /\ c.routers \in Seq({c.routers[k] : k \in DOMAIN c.routers})
  BY ConfsAssumption DEF IsSequence
<1>2. DOMAIN RouterEntries(c) = 1..Len(c.routers) /\ Len(c.routers) \in Nat
  BY <1>1 DEF RouterEntries
<1>3. \E n \in Nat : RouterEntries(c) \in [1..n -> B]
  <2>1. RouterEntries(c) = [k \in 1..Len(c.routers) |-> RouterEntries(c)[k]]
    BY <1>2 DEF RouterEntries
  <2> QED BY <1>2, <2>1
<1>4. RouterEntries(c) \in Seq(B)
  BY <1>3
<1>5. s \in Seq(A \cup B) /\ t \in Seq(A \cup B)
  <2> HIDE DEF s, A, B
  <2>1. s \in Seq(A \cup B)
    BY <1>1
  <2>2. RouterEntries(c) \in Seq(A \cup B)
    BY <1>4
  <2> QED BY <2>1, <2>2
<1> HIDE DEF s, t, A, B
<1>6. s \o t \in Seq(A \cup B)
  BY <1>5
<1>7. Entries(c, c.domains[i]) = s \o t
  BY Zenon DEF Entries, s, t
<1> QED BY <1>6, <1>7

LEMMA DomainNumber ==
  ASSUME NEW c \in Confs
  PROVE  DOMAIN c.domains = 1..Len(c.domains) /\ DOMAIN c.nets = 1..Len(c.nets)
BY ZonesOfConf

\* The record that stays for an address is one of the forward zone, of that
\* address.
LEMMA LastRecordStands ==
  ASSUME NEW c \in Confs, NEW i \in DOMAIN c.domains, NEW a \in Reversed(c, c.domains[i])
  PROVE  LET r == LastRecord(c, c.domains[i], a) IN
         /\ r.ip = a /\ r.domain = c.domains[i].name
         /\ r \in ForwardContents(c, c.domains[i])
<1> DEFINE d == c.domains[i]
           e == Entries(c, d)
           T == Reversing(c, d, a)
           last == CHOOSE k \in T : \A j \in T : j <= k
<1>1. Len(e) \in Nat /\ DOMAIN e = 1..Len(e)
  BY EntriesAreNumbered
<1>2. T \in SUBSET (1..Len(e)) /\ T # {}
  BY <1>1 DEF Reversing, Reversed
<1>3. \E k \in T : \A j \in T : j <= k
  <2> HIDE DEF T, e
  <2> QED BY <1>1, <1>2, Greatest
<1>4. last \in T
  <2> HIDE DEF T
  <2> QED BY <1>3
<1>5. last \in DOMAIN e /\ e[last].type = "host_record" /\ a \in e[last].ips
  <2> HIDE DEF last
  <2> QED BY <1>4 DEF Reversing
<1>6. LastRecord(c, d, a) = Record(e[last].name, d.name, a)
  BY DEF LastRecord
<1>7. a \in Ips(c, e[last])
  <2> HIDE DEF last, e
  <2> QED BY <1>5 DEF Ips
<1>8. LastRecord(c, d, a) \in ForwardContents(c, d)
  <2> HIDE DEF last
  <2> QED BY <1>5, <1>6, <1>7 DEF ForwardContents
<1> QED BY <1>6, <1>8 DEF Record

\* The zones of a configuration are as many as its domains and prefixes.
LEMMA ZonesDiffer ==
  ASSUME NEW c \in Confs
  PROVE  /\ \A i, j \in DOMAIN c.domains :
               DomainZone(c.domains[i].name) = DomainZone(c.domains[j].name) => i = j
         /\ \A i, j \in DOMAIN c.nets : ptr_zonename(c.nets[i]) = ptr_zonename(c.nets[j]) => i = j
         /\ \A i \in DOMAIN c.domains, k \in DOMAIN c.nets :
               DomainZone(c.domains[i].name) # ptr_zonename(c.nets[k])
<1>1. \A s, t : DomainZone(s) = DomainZone(t) => s = t
  BY DEF DomainZone
<1>2. \A n : ptr_zonename(n).domain \in Arpa
  BY DEF ptr_zonename, ArpaZone, Arpa
<1>3. \A s : DomainZone(s).domain = s
  BY DEF DomainZone
<1>4. /\ \A i \in DOMAIN c.domains : c.domains[i].name \notin Arpa
      /\ \A i, j \in DOMAIN c.domains : c.domains[i].name = c.domains[j].name => i = j
      /\ \A i, j \in DOMAIN c.nets : ptr_zonename(c.nets[i]) = ptr_zonename(c.nets[j]) => i = j
  BY ConfsAssumption
<1> QED BY <1>1, <1>2, <1>3, <1>4

LEMMA RunStart ==
  ASSUME StartPlay
  PROVE  RunInv'
<1>1. /\ run' = [conf |-> conf, domains |-> 0, nets |-> 0, ptr |-> Nothing, entries |-> {}]
      /\ step' = "records"
  BY DEF StartPlay
<1>2. /\ run'.conf = conf /\ run'.domains = 0 /\ run'.nets = 0 /\ run'.ptr = Nothing
      /\ run'.entries = {}
  BY <1>1
<1>3. 1..0 = {} /\ DOMAIN Nothing = {} /\ ~(0 > 0)
  BY DEF Nothing
<1>4. RunDone(conf, 0, 0, Nothing, {}, zonedir')
  BY <1>3 DEF RunDone
<1> QED BY <1>1, <1>2, <1>4 DEF RunInv

LEMMA RunForward ==
  ASSUME Typed, FilesInv, RunInv, write_forward_zone
  PROVE  RunInv'
<1> DEFINE c == run.conf
           m == run.domains + 1
           d == c.domains[m]
           zone == DomainZone(d.name)
           contents == ForwardContents(c, d)
           ptr == WithPtr(run.ptr, c, d)
           entries == run.entries \cup {zone}
<1>1. /\ c \in Confs /\ run.domains \in Nat /\ run.domains < Len(c.domains) /\ step = "records"
      /\ run.nets \in 0..Len(c.nets) /\ ~whole
  BY DEF Typed, write_forward_zone, FilesInv, Idle
<1>2. CASE Unknown(c, d)
  <2>1. step' = Idle /\ whole' = whole
    BY <1>2 DEF write_forward_zone, Fails
  <2> QED BY <1>1, <2>1 DEF RunInv
<1>3. CASE ~Unknown(c, d)
  <2>1. /\ zonedir' = Put(zonedir, zone, contents) /\ step' = step /\ whole' = whole
        /\ run' = [run EXCEPT !.domains = @ + 1, !.ptr = WithPtr(@, c, d),
                              !.entries = @ \cup {zone}]
    BY <1>3 DEF write_forward_zone, Written
  <2>2. /\ run'.conf = c /\ run'.domains = m /\ run'.nets = run.nets
        /\ run'.ptr = ptr /\ run'.entries = entries
    <3> HIDE DEF d, zone
    <3> QED BY <2>1 DEF Typed
  <2>3. /\ zonedir'[zone] = contents
        /\ \A y \in DOMAIN zonedir \ {zone} : zonedir'[y] = zonedir[y]
    <3> HIDE DEF zone, contents
    <3> QED BY <2>1 DEF Put
  <2>4. /\ DOMAIN c.domains = 1..Len(c.domains) /\ Len(c.domains) \in Nat
    BY <1>1, ZonesOfConf
  <2>5. m \in DOMAIN c.domains /\ 1..m = 1..run.domains \cup {m} /\ m \notin 1..run.domains
        /\ 1..run.domains \subseteq DOMAIN c.domains
    BY <1>1, <2>4
  <2>6. RunDone(c, run.domains, run.nets, run.ptr, run.entries, zonedir)
    BY <1>1 DEF RunInv, Idle
  <2>7. ~(run.nets > 0) /\ 1..run.nets = {}
    <3>1. ~(run.nets > 0)
      BY <1>1, <2>6 DEF RunDone
    <3> QED BY <1>1, <3>1
  <2>8. entries = {DomainZone(c.domains[x].name) : x \in 1..m}
                    \cup {ptr_zonename(c.nets[x]) : x \in 1..run.nets}
    BY <2>5, <2>6 DEF RunDone
  <2>9. \A x \in 1..m : zonedir'[DomainZone(c.domains[x].name)] = ForwardContents(c, c.domains[x])
    <3> TAKE x \in 1..m
    <3>1. CASE x = m
      BY <2>3, <3>1
    <3>2. CASE x \in 1..run.domains
      <4>1. DomainZone(c.domains[x].name) # zone
        BY <1>1, <2>5, <3>2, ZonesDiffer
      <4>2. DomainZone(c.domains[x].name) \in DOMAIN zonedir
        BY <2>6, <3>2 DEF RunDone, FilesInv
      <4>3. zonedir[DomainZone(c.domains[x].name)] = ForwardContents(c, c.domains[x])
        BY <2>6, <3>2 DEF RunDone
      <4> HIDE DEF zone, contents, d
      <4> QED BY <2>3, <4>1, <4>2, <4>3
    <3> QED BY <2>5, <3>1, <3>2
  <2>10. DOMAIN ptr = UNION {Reversed(c, c.domains[x]) : x \in 1..m}
    <3>1. DOMAIN run.ptr = UNION {Reversed(c, c.domains[x]) : x \in 1..run.domains}
      BY <2>6 DEF RunDone
    <3>2. DOMAIN ptr = DOMAIN run.ptr \cup Reversed(c, d)
      BY DEF WithPtr
    <3> QED BY <2>5, <3>1, <3>2
  <2>11. \A a \in DOMAIN ptr : \E x \in 1..m :
            /\ ptr[a].ip = a /\ ptr[a].domain = c.domains[x].name
            /\ ptr[a] \in ForwardContents(c, c.domains[x])
    <3> TAKE a \in DOMAIN ptr
    <3>1. CASE a \in Reversed(c, d)
      <4>1. ptr[a] = LastRecord(c, d, a)
        BY <3>1 DEF WithPtr
      <4>2. /\ LastRecord(c, d, a).ip = a /\ LastRecord(c, d, a).domain = d.name
            /\ LastRecord(c, d, a) \in ForwardContents(c, d)
        BY <1>1, <2>5, <3>1, LastRecordStands
      <4> HIDE DEF ptr
      <4> QED BY <2>5, <4>1, <4>2
    <3>2. CASE a \notin Reversed(c, d)
      <4>1. a \in DOMAIN run.ptr /\ ptr[a] = run.ptr[a]
        BY <3>2 DEF WithPtr
      <4>2. \E x \in 1..run.domains :
               /\ run.ptr[a].ip = a /\ run.ptr[a].domain = c.domains[x].name
               /\ run.ptr[a] \in ForwardContents(c, c.domains[x])
        BY <2>6, <4>1 DEF RunDone
      <4> HIDE DEF ptr
      <4> QED BY <2>5, <4>1, <4>2
    <3> QED BY <3>1, <3>2
  <2>12. RunDone(c, m, run.nets, ptr, entries, zonedir')
    <3> HIDE DEF m, d, zone, ptr, entries
    <3>1. \A x \in 1..run.nets : FALSE
      BY <2>7
    <3> QED BY <2>7, <2>8, <2>9, <2>10, <2>11, <3>1 DEF RunDone
  <2> HIDE DEF c, m, d, zone, ptr, entries
  <2> QED BY <1>1, <2>1, <2>2, <2>12 DEF RunInv
<1> QED BY <1>2, <1>3

LEMMA RunPtr ==
  ASSUME Typed, FilesInv, RunInv, write_ptr_zone
  PROVE  RunInv'
<1> DEFINE c == run.conf
           m == run.nets + 1
           n == c.nets[m]
           zone == ptr_zonename(n)
           ptr == run.ptr
           contents(k) == {ptr[a] : a \in {b \in DOMAIN ptr : Within(b, c.nets[k])}}
           entries == run.entries \cup {zone}
<1>1. /\ c \in Confs /\ run.nets \in Nat /\ run.nets < Len(c.nets) /\ step = "records"
      /\ run.domains = Len(c.domains) /\ ~whole
  BY DEF Typed, write_ptr_zone, WritePtrZone, FilesInv, Idle
<1>2. CASE ~Supported(n)
  <2>1. step' = Idle /\ whole' = whole
    BY <1>2 DEF write_ptr_zone, WritePtrZone, Fails
  <2> QED BY <1>1, <2>1 DEF RunInv
<1>3. CASE Supported(n)
  <2>1. /\ zonedir' = Put(zonedir, zone, contents(m)) /\ step' = step /\ whole' = whole
        /\ run' = [run EXCEPT !.nets = @ + 1, !.entries = @ \cup {zone}]
    BY <1>3 DEF write_ptr_zone, WritePtrZone, Written
  <2>2. /\ run'.conf = c /\ run'.domains = run.domains /\ run'.nets = m
        /\ run'.ptr = ptr /\ run'.entries = entries
    <3> HIDE DEF n, zone, contents
    <3> QED BY <2>1 DEF Typed
  <2>3. /\ zonedir'[zone] = contents(m)
        /\ \A y \in DOMAIN zonedir \ {zone} : zonedir'[y] = zonedir[y]
    <3> HIDE DEF zone, contents
    <3> QED BY <2>1 DEF Put
  <2>4. /\ DOMAIN c.domains = 1..run.domains /\ DOMAIN c.nets = 1..Len(c.nets)
        /\ Len(c.nets) \in Nat
    BY <1>1, ZonesOfConf
  <2>5. m \in DOMAIN c.nets /\ 1..m = 1..run.nets \cup {m} /\ m \notin 1..run.nets
        /\ 1..run.nets \subseteq DOMAIN c.nets
    BY <1>1, <2>4
  <2>6. RunDone(c, run.domains, run.nets, ptr, run.entries, zonedir)
    BY <1>1 DEF RunInv, Idle
  <2>7. entries = {DomainZone(c.domains[x].name) : x \in 1..run.domains}
                    \cup {ptr_zonename(c.nets[x]) : x \in 1..m}
    BY <2>5, <2>6 DEF RunDone
  <2>8. \A x \in 1..run.domains :
           zonedir'[DomainZone(c.domains[x].name)] = ForwardContents(c, c.domains[x])
    <3> TAKE x \in 1..run.domains
    <3>1. DomainZone(c.domains[x].name) # zone
      BY <1>1, <2>4, <2>5, ZonesDiffer
    <3>2. DomainZone(c.domains[x].name) \in DOMAIN zonedir
      BY <2>6 DEF RunDone, FilesInv
    <3>3. zonedir[DomainZone(c.domains[x].name)] = ForwardContents(c, c.domains[x])
      BY <2>6 DEF RunDone
    <3> HIDE DEF zone, contents
    <3> QED BY <2>3, <3>1, <3>2, <3>3
  <2>9. \A x \in 1..m : zonedir'[ptr_zonename(c.nets[x])] = contents(x)
    <3> TAKE x \in 1..m
    <3>1. CASE x = m
      <4> HIDE DEF contents
      <4> QED BY <2>3, <3>1
    <3>2. CASE x \in 1..run.nets
      <4>1. ptr_zonename(c.nets[x]) # zone
        BY <1>1, <2>5, <3>2, ZonesDiffer
      <4>2. ptr_zonename(c.nets[x]) \in DOMAIN zonedir
        BY <2>6, <3>2 DEF RunDone, FilesInv
      <4>3. zonedir[ptr_zonename(c.nets[x])] = contents(x)
        BY <2>6, <3>2 DEF RunDone
      <4> HIDE DEF zone, contents
      <4> QED BY <2>3, <4>1, <4>2, <4>3
    <3> QED BY <2>5, <3>1, <3>2
  <2>10. RunDone(c, run.domains, m, ptr, entries, zonedir')
    <3> HIDE DEF m, n, zone, entries
    <3> QED BY <1>1, <2>6, <2>7, <2>8, <2>9 DEF RunDone
  <2> HIDE DEF c, m, n, zone, ptr, entries
  <2> QED BY <1>1, <2>1, <2>2, <2>10 DEF RunInv
<1> QED BY <1>2, <1>3

LEMMA RunLocal ==
  ASSUME RunInv, write_zones_local
  PROVE  RunInv'
<1>1. /\ step = "records" /\ step' = "registry" /\ local' = run.entries
      /\ run.domains = Len(run.conf.domains) /\ run.nets = Len(run.conf.nets)
      /\ run' = run /\ zonedir' = zonedir
  BY DEF write_zones_local
<1>2. RunDone(run.conf, run.domains, run.nets, run.ptr, run.entries, zonedir)
  BY <1>1 DEF RunInv, Idle
<1> QED BY <1>1, <1>2 DEF RunInv

LEMMA RunNext ==
  ASSUME Typed, FilesInv, RunInv, [Next]_vars
  PROVE  RunInv'
<1>1. CASE RegistryStep \/ RegistryFails \/ WriteSecondary
  <2>1. step \in {"registry", "secondary"} /\ UNCHANGED <<run, zonedir, local>>
    BY <1>1 DEF RegistryStep, RegistryFails, WriteSecondary, Fails, PlayVars, zonefiles
  <2>2. step # Idle /\ step # "records"
    BY <2>1 DEF Idle
  <2> QED BY <2>1, <2>2 DEF RunInv
<1>2. CASE TemplateNamed \/ Synchronize \/ Reload \/ ReloadFails \/ Abort
  <2>1. step \in {"named", "sync", "reload"} /\ UNCHANGED <<run, zonedir, local>>
    BY <1>2 DEF TemplateNamed, Synchronize, Reload, ReloadFails, Abort, PlayOnly, zonefiles
  <2>2. step # Idle /\ step # "records"
    BY <2>1 DEF Idle
  <2> QED BY <2>1, <2>2 DEF RunInv
<1>3. CASE Reboot \/ Edit \/ UNCHANGED vars
  <2>1. UNCHANGED <<step, whole, run, zonedir, local>>
    BY <1>3 DEF Reboot, Edit, vars, PlayOnly, zonefiles
  <2> QED BY <2>1 DEF RunInv
<1> QED BY <1>1, <1>2, <1>3, RunStart, RunForward, RunPtr, RunLocal DEF Next

\* A play that is over wrote the zones of the configuration it read.
LEMMA ServesFilesFrom ==
  ASSUME Typed, FilesInv, RunInv
  PROVE  ServesFiles
<1> SUFFICES ASSUME whole, ~lost
             PROVE  /\ server.serves = [z \in cached.local |-> zonedir[z]]
                    /\ cached.local = local => DOMAIN server.serves = ZonesOf(run.conf)
  BY DEF ServesFiles
<1>1. server.serves = [z \in cached.local |-> zonedir[z]] /\ step = Idle
  BY ServesCached DEF FilesInv
<1>2. /\ run.domains = Len(run.conf.domains) /\ run.nets = Len(run.conf.nets)
      /\ local = run.entries
      /\ RunDone(run.conf, run.domains, run.nets, run.ptr, run.entries, zonedir)
  BY <1>1 DEF RunInv, Idle
<1>3. /\ DOMAIN run.conf.domains = 1..Len(run.conf.domains)
      /\ DOMAIN run.conf.nets = 1..Len(run.conf.nets)
  BY ZonesOfConf DEF Typed
<1>4. local = ZonesOf(run.conf)
  BY <1>2, <1>3 DEF RunDone, ZonesOf
<1> QED BY <1>1, <1>4

\* The server serves what the last whole play wrote.
LEMMA OwnAddressesNamedFrom ==
  ASSUME Typed, FilesInv, RunInv
  PROVE  OwnAddressesNamed
<1> DEFINE c == run.conf
<1> SUFFICES ASSUME whole, ~lost, NEW i \in DOMAIN c.domains, NEW k \in DOMAIN c.nets,
                    NEW a \in Reversed(c, c.domains[i]), Within(a, c.nets[k]),
                    ptr_zonename(c.nets[k]) \in cached.local
             PROVE  LET zone == ptr_zonename(c.nets[k])
                        ptr  == {p \in server.serves[zone] : p.ip = a}
                    IN  /\ zone \in DOMAIN server.serves /\ Cardinality(ptr) = 1
                        /\ \A p \in ptr : DomainZone(p.domain) \in cached.local =>
                                              p \in server.serves[DomainZone(p.domain)]
  BY DEF OwnAddressesNamed
<1> DEFINE zone == ptr_zonename(c.nets[k])
           ptr == {p \in server.serves[zone] : p.ip = a}
<1>1. c \in Confs /\ DOMAIN c.domains = 1..Len(c.domains) /\ DOMAIN c.nets = 1..Len(c.nets)
  BY ZonesOfConf DEF Typed
<1>2. step = Idle /\ server.serves = [z \in cached.local |-> zonedir[z]]
  BY ServesCached DEF FilesInv
<1>3. /\ run.domains = Len(c.domains) /\ run.nets = Len(c.nets)
      /\ local = run.entries
      /\ RunDone(c, run.domains, run.nets, run.ptr, run.entries, zonedir)
  BY <1>2 DEF RunInv, Idle
<1>4. /\ \A j \in DOMAIN c.domains :
            zonedir[DomainZone(c.domains[j].name)] = ForwardContents(c, c.domains[j])
      /\ zonedir[zone] = {run.ptr[b] : b \in {x \in DOMAIN run.ptr : Within(x, c.nets[k])}}
      /\ a \in DOMAIN run.ptr
      /\ \A b \in DOMAIN run.ptr : \E j \in DOMAIN c.domains :
            /\ run.ptr[b].ip = b /\ run.ptr[b].domain = c.domains[j].name
            /\ run.ptr[b] \in ForwardContents(c, c.domains[j])
  BY <1>1, <1>3 DEF RunDone
<1>5. zone \in cached.local /\ server.serves[zone] = zonedir[zone] /\ zone \in DOMAIN server.serves
  BY <1>2, <1>4
<1>6. ptr = {run.ptr[a]}
  BY <1>4, <1>5
<1>7. ASSUME DomainZone(run.ptr[a].domain) \in cached.local
      PROVE  run.ptr[a] \in server.serves[DomainZone(run.ptr[a].domain)]
  <2>1. PICK j \in DOMAIN c.domains : /\ run.ptr[a].domain = c.domains[j].name
                                     /\ run.ptr[a] \in ForwardContents(c, c.domains[j])
    BY <1>4
  <2> QED BY <1>2, <1>4, <1>7, <2>1
<1>8. Cardinality(ptr) = 1
  BY <1>6, FS_Singleton
<1> QED BY <1>5, <1>6, <1>7, <1>8

-----------------------------------------------------------------------------
(* The registry *)

\* The zones the registry's own servers have.
Mirrors(files) == {ZoneOf(f) : f \in {g \in ZoneFiles(files) : Delegated(g)}}

OneDelegation(files) ==
    \A f, g \in files : ZoneOf(f) = Delegation /\ ZoneOf(g) = Delegation => f = g

\* All that is known of the delegation servers, whichever file is read first.
AllKnown(files) == [s \in Names(files) |-> ServerIps(files, s)]

\* What the generator g has made of the files it has read.
Read(files, g) ==
    LET done == files \ g.todo IN
    /\ g.all_zones = {ZoneOf(f) : f \in ZoneFiles(done)}
    /\ \A f, h \in ZoneFiles(done) : ZoneOf(f) = ZoneOf(h) => f = h
    /\ g.mirrored = Mirrors(done)
    /\ OneDelegation(files) =>
         /\ g.known = AllKnown(files)
         /\ g.forward = {[zone |-> ZoneOf(f), forwarders |-> Servers(files, f)] :
                            f \in Forwarded(files) \cap done}
         /\ g.trust = {ZoneOf(f) : f \in {h \in Forwarded(files) \cap done : h.ds}}
         /\ g.negative = {ZoneOf(f) : f \in {h \in Forwarded(files) \cap done : ~h.ds}}
         /\ \A f \in ZoneFiles(done) : Delegated(f) => Servers(files, f) # {}

Generator(g) ==
    g = [todo |-> g.todo, known |-> g.known, ok |-> g.ok, all_zones |-> g.all_zones,
         mirrored |-> g.mirrored, forward |-> g.forward, trust |-> g.trust, negative |-> g.negative]

RegistryInv ==
    /\ Generator(gen)
    /\ registry \in Registries /\ gen.todo \subseteq registry
    /\ ~gen.ok => Flawed(registry)
    /\ step = "registry" /\ gen.ok => Read(registry, gen)
    /\ step \in {"secondary", "named", "sync", "reload"} =>
          /\ gen.todo = {} /\ Read(registry, gen)
          /\ recursor = [forward |-> gen.forward, trust |-> gen.trust, negative |-> gen.negative]
    /\ step \in {"named", "sync", "reload"} => secondary = gen.mirrored

\* The lines of a file are numbered.
LEMMA LinesAreNumbered ==
  ASSUME NEW files \in Registries, NEW f \in files
  PROVE  /\ DOMAIN f.nservers = 1..Len(f.nservers) /\ Len(f.nservers) \in Nat
         /\ Good(f) \subseteq 1..Len(f.nservers)
         /\ \A i \in Good(f) : f.nservers[i] \in Lines(f) /\ f.nservers[i].name \in Names(files)
<1>1. f.nservers \in Seq({f.nservers[i] : i \in DOMAIN f.nservers})
  BY RegistriesAssumption DEF IsSequence
<1>2. DOMAIN f.nservers = 1..Len(f.nservers) /\ Len(f.nservers) \in Nat
  BY <1>1
<1>3. \A i \in DOMAIN f.nservers : f.nservers[i].name \in Names(files)
  BY DEF Names
<1> QED BY <1>2, <1>3 DEF Good, Lines

\* A line of the file of the delegation servers tells an address of one.
LEMMA LineTells ==
  ASSUME NEW files, NEW f \in files, ZoneOf(f) = Delegation, NEW i \in Good(f),
         f.nservers[i].ip # NoIp
  PROVE  f.nservers[i].ip \in ServerIps(files, f.nservers[i].name)
<1>1. f.nservers[i] \in UNION {Lines(h) : h \in {g \in files : ZoneOf(g) = Delegation}}
  BY DEF Lines
<1> QED BY <1>1 DEF ServerIps

\* And only such a line does.
LEMMA ToldByLine ==
  ASSUME NEW files, NEW s, NEW ip \in ServerIps(files, s)
  PROVE  \E f \in files : /\ ZoneOf(f) = Delegation
                          /\ \E i \in Good(f) : /\ f.nservers[i].name = s /\ f.nservers[i].ip = ip
                                                /\ ip # NoIp
<1>1. PICK ns \in UNION {Lines(h) : h \in {g \in files : ZoneOf(g) = Delegation}} :
         ns.name = s /\ ns.ip # NoIp /\ ip = ns.ip
  BY DEF ServerIps
<1>2. PICK f \in files : ZoneOf(f) = Delegation /\ ns \in Lines(f)
  BY <1>1
<1> QED BY <1>1, <1>2 DEF Lines

\* Reading a file again, or another one, tells nothing new to who knows all.
LEMMA KnownStays ==
  ASSUME NEW files \in Registries, NEW f \in files, NEW i
  PROVE  KnownAt(f, AllKnown(files), i) = AllKnown(files)
<1> DEFINE known == AllKnown(files)
           told(s) == {f.nservers[j].ip : j \in {k \in Good(f) : /\ k <= i /\ f.nservers[k].name = s
                                                                /\ f.nservers[k].ip # NoIp}}
<1>1. CASE ZoneOf(f) # Delegation
  BY <1>1 DEF KnownAt
<1>2. CASE ZoneOf(f) = Delegation
  <2>1. KnownAt(f, known, i) = [s \in DOMAIN known |-> known[s] \cup told(s)]
    BY <1>2 DEF KnownAt
  <2>2. DOMAIN known = Names(files) /\ \A s \in Names(files) : known[s] = ServerIps(files, s)
    BY DEF AllKnown
  <2>3. ASSUME NEW s PROVE told(s) \subseteq ServerIps(files, s)
    BY <1>2, LineTells
  <2>4. \A s \in Names(files) : known[s] \cup told(s) = ServerIps(files, s)
    <3> HIDE DEF known, told
    <3> QED BY <2>2, <2>3
  <2>5. KnownAt(f, known, i) = [s \in Names(files) |-> ServerIps(files, s)]
    <3> HIDE DEF known, told
    <3> QED BY <2>1, <2>2, <2>4
  <2> QED BY <2>5 DEF AllKnown
<1> QED BY <1>1, <1>2

\* What a file says, read by who knows all the delegation servers.
LEMMA ReadByKnower ==
  ASSUME NEW files \in Registries, NEW f \in files
  PROVE  LET e == ReadFile(f, AllKnown(files)) IN
         /\ e.known = AllKnown(files)
         /\ e.addresses = Servers(files, f)
         /\ e.delegated <=> Delegated(f)
         /\ e.ok <=> \A ns \in Lines(f) :
                        ns.kind = "delegation" => ServerIps(files, ns.name) # {}
<1> DEFINE known == AllKnown(files)
           servers(i) == KnownAt(f, known, i)[f.nservers[i].name]
           adds(i) == LET ns == f.nservers[i] IN
                      CASE ns.kind = "sync"       -> {ns.spelt}
                        [] ns.kind = "delegation" -> servers(i)
                        [] ns.kind = "dn42"       -> {}
                        [] OTHER                  -> {ns.ip} \ {NoIp}
           gives(ns) == CASE ns.kind = "sync" -> {ns.spelt}
                          [] ns.kind = "delegation" -> ServerIps(files, ns.name)
                          [] ns.kind = "dn42" -> {}
                          [] OTHER -> {ns.ip} \ {NoIp}
<1>1. /\ ReadFile(f, known).known = KnownAt(f, known, Len(f.nservers))
      /\ ReadFile(f, known).addresses = UNION {adds(i) : i \in Good(f)}
      /\ ReadFile(f, known).delegated =
            (\E i \in Good(f) : uses_delegation_server(f.nservers[i]))
      /\ ReadFile(f, known).ok =
            (\A i \in Good(f) : f.nservers[i].kind = "delegation" => servers(i) # {})
  BY DEF ReadFile
<1>2. \A i \in Good(f) : servers(i) = ServerIps(files, f.nservers[i].name)
  <2> TAKE i \in Good(f)
  <2>1. f.nservers[i].name \in Names(files)
    BY LinesAreNumbered
  <2>2. servers(i) = AllKnown(files)[f.nservers[i].name]
    BY KnownStays
  <2> QED BY <2>1, <2>2 DEF AllKnown
<1>3. \A i \in Good(f) : adds(i) = gives(f.nservers[i])
  <2> HIDE DEF servers
  <2> QED BY <1>2
<1>4. UNION {adds(i) : i \in Good(f)} = UNION {gives(ns) : ns \in Lines(f)}
  <2> HIDE DEF adds, gives
  <2> QED BY <1>3 DEF Lines
<1>5. UNION {gives(ns) : ns \in Lines(f)} = Servers(files, f)
  BY DEF Servers
<1>6. (\E i \in Good(f) : uses_delegation_server(f.nservers[i])) <=> Delegated(f)
  BY DEF uses_delegation_server, Delegated, Lines
<1>7. (\A i \in Good(f) : f.nservers[i].kind = "delegation" => servers(i) # {})
        <=> \A ns \in Lines(f) : ns.kind = "delegation" => ServerIps(files, ns.name) # {}
  <2> HIDE DEF servers
  <2> QED BY <1>2 DEF Lines
<1>8. KnownAt(f, known, Len(f.nservers)) = AllKnown(files)
  BY KnownStays
<1> HIDE DEF adds, gives, servers
<1> QED BY <1>1, <1>4, <1>5, <1>6, <1>7, <1>8

Blank(files) == [s \in Names(files) |-> {}]

\* What the constructor knows of the delegation servers after the i-th line.
LEMMA BlankKnown ==
  ASSUME NEW files, NEW f \in files, ZoneOf(f) = Delegation, NEW s \in Names(files), NEW i
  PROVE  KnownAt(f, Blank(files), i)[s] =
            {f.nservers[j].ip : j \in {k \in Good(f) : /\ k <= i /\ f.nservers[k].name = s
                                                       /\ f.nservers[k].ip # NoIp}}
<1> DEFINE told(t) == {f.nservers[j].ip : j \in {k \in Good(f) : /\ k <= i /\ f.nservers[k].name = t
                                                                /\ f.nservers[k].ip # NoIp}}
<1>1. KnownAt(f, Blank(files), i) = [t \in DOMAIN Blank(files) |-> Blank(files)[t] \cup told(t)]
  BY DEF KnownAt
<1>2. DOMAIN Blank(files) = Names(files) /\ Blank(files)[s] = {}
  BY DEF Blank
<1> HIDE DEF told
<1>3. KnownAt(f, Blank(files), i)[s] = told(s)
  BY <1>1, <1>2
<1> QED BY <1>3 DEF told

\* The one file of the delegation servers tells the constructor all there is.
LEMMA BlankKnowsAll ==
  ASSUME NEW files \in Registries, NEW f \in files, ZoneOf(f) = Delegation, OneDelegation(files)
  PROVE  KnownAt(f, Blank(files), Len(f.nservers)) = AllKnown(files)
<1> DEFINE n == Len(f.nservers)
           known == KnownAt(f, Blank(files), n)
           told(s) == {f.nservers[j].ip : j \in {k \in Good(f) : /\ k <= n /\ f.nservers[k].name = s
                                                                /\ f.nservers[k].ip # NoIp}}
<1>1. \A s \in Names(files) : known[s] = told(s)
  BY BlankKnown
<1>2. known = [s \in Names(files) |-> known[s]]
  BY DEF KnownAt, Blank
<1>3. ASSUME NEW s \in Names(files) PROVE told(s) = ServerIps(files, s)
  <2>1. told(s) \subseteq ServerIps(files, s)
    BY LineTells
  <2>2. ASSUME NEW ip \in ServerIps(files, s) PROVE ip \in told(s)
    <3>1. PICK h \in files : /\ ZoneOf(h) = Delegation
                             /\ \E i \in Good(h) : /\ h.nservers[i].name = s /\ h.nservers[i].ip = ip
                                                   /\ ip # NoIp
      BY ToldByLine
    <3>2. h = f
      BY <3>1 DEF OneDelegation
    <3>3. \A i \in Good(f) : i <= n
      BY LinesAreNumbered
    <3> QED BY <3>1, <3>2, <3>3
  <2> QED BY <2>1, <2>2
<1>4. \A s \in Names(files) : known[s] = ServerIps(files, s)
  <2> HIDE DEF known, told
  <2> QED BY <1>1, <1>3
<1> HIDE DEF known
<1>5. known = [s \in Names(files) |-> ServerIps(files, s)]
  BY <1>2, <1>4
<1> QED BY <1>5 DEF known, AllKnown

\* What the constructor reads.
LEMMA ReadByBlank ==
  ASSUME NEW files \in Registries, NEW f \in files, ZoneOf(f) = Delegation
  PROVE  LET e == ReadFile(f, Blank(files)) IN
         /\ e.known = KnownAt(f, Blank(files), Len(f.nservers))
         /\ ~e.ok => \E i \in Good(f) :
               /\ f.nservers[i].kind = "delegation"
               /\ \A j \in Good(f) : f.nservers[j].name = f.nservers[i].name =>
                     j > i \/ f.nservers[j].ip = NoIp
         /\ e.ok /\ e.addresses = {} => Servers(files, f) = {}
<1> DEFINE blank == Blank(files)
           servers(i) == KnownAt(f, blank, i)[f.nservers[i].name]
           adds(i) == LET ns == f.nservers[i] IN
                      CASE ns.kind = "sync"       -> {ns.spelt}
                        [] ns.kind = "delegation" -> servers(i)
                        [] ns.kind = "dn42"       -> {}
                        [] OTHER                  -> {ns.ip} \ {NoIp}
           gives(ns) == CASE ns.kind = "sync" -> {ns.spelt}
                          [] ns.kind = "delegation" -> ServerIps(files, ns.name)
                          [] ns.kind = "dn42" -> {}
                          [] OTHER -> {ns.ip} \ {NoIp}
           e == ReadFile(f, blank)
<1>1. /\ e.known = KnownAt(f, blank, Len(f.nservers))
      /\ e.addresses = UNION {adds(i) : i \in Good(f)}
      /\ e.ok = (\A i \in Good(f) : f.nservers[i].kind = "delegation" => servers(i) # {})
  BY DEF ReadFile
<1>2. ASSUME NEW i \in Good(f), servers(i) = {}, NEW j \in Good(f),
             f.nservers[j].name = f.nservers[i].name, f.nservers[j].ip # NoIp
      PROVE  j > i
  <2>1. f.nservers[i].name \in Names(files) /\ i \in Nat /\ j \in Nat
    BY LinesAreNumbered
  <2>2. servers(i) = {f.nservers[k].ip : k \in {x \in Good(f) :
                          /\ x <= i /\ f.nservers[x].name = f.nservers[i].name
                          /\ f.nservers[x].ip # NoIp}}
    BY <2>1, BlankKnown
  <2>3. ~(j <= i)
    <3> HIDE DEF servers
    <3> QED BY <1>2, <2>2
  <2> QED BY <2>1, <2>3
<1>3. ASSUME ~e.ok
      PROVE  \E i \in Good(f) :
               /\ f.nservers[i].kind = "delegation"
               /\ \A j \in Good(f) : f.nservers[j].name = f.nservers[i].name =>
                     j > i \/ f.nservers[j].ip = NoIp
  <2> HIDE DEF servers, e
  <2>1. PICK i \in Good(f) : f.nservers[i].kind = "delegation" /\ servers(i) = {}
    BY <1>1, <1>3
  <2> QED BY <1>2, <2>1
<1>4. ASSUME e.ok, e.addresses = {}
      PROVE  Servers(files, f) = {}
  <2> HIDE DEF e
  <2>1. \A i \in Good(f) : adds(i) = {}
    <3> HIDE DEF adds
    <3> QED BY <1>1, <1>4
  <2>2. \A i \in Good(f) : f.nservers[i].kind = "delegation" => servers(i) # {}
    BY <1>1, <1>4
  <2>3. \A i \in Good(f) : gives(f.nservers[i]) = {}
    <3> TAKE i \in Good(f)
    <3> HIDE DEF servers
    <3>1. adds(i) = {} /\ f.nservers[i].kind # "delegation"
      BY <2>1, <2>2
    <3> QED BY <3>1
  <2>4. UNION {gives(ns) : ns \in Lines(f)} = {}
    <3> HIDE DEF gives
    <3> QED BY <2>3 DEF Lines
  <2> QED BY <2>4 DEF Servers
<1> QED BY <1>1, <1>3, <1>4

LEMMA ConstructReads ==
  ASSUME NEW files \in Registries
  PROVE  LET g == Construct(files) IN
         /\ g.todo = files /\ g.mirrored = {}
         /\ ~g.ok => Flawed(files)
         /\ g.ok => Read(files, g)
<1> DEFINE g == Construct(files)
           f == CHOOSE h \in files : ZoneOf(h) = Delegation
           e == ReadFile(f, Blank(files))
           found == \E h \in files : ZoneOf(h) = Delegation
<1>1. /\ g.todo = files /\ g.all_zones = {} /\ g.mirrored = {} /\ g.forward = {} /\ g.trust = {}
      /\ g.negative = {} /\ g.known = IF found THEN e.known ELSE Blank(files)
      /\ g.ok = (found /\ e.ok /\ e.addresses # {})
  BY DEF Construct, Blank
<1>2. found => f \in files /\ ZoneOf(f) = Delegation
  OBVIOUS
<1> HIDE DEF g, f
<1>3. ASSUME ~g.ok PROVE Flawed(files)
  <2>1. CASE ~found
    BY <2>1 DEF Flawed
  <2>2. CASE found /\ ~e.ok
    <3>1. \E i \in Good(f) :
             /\ f.nservers[i].kind = "delegation"
             /\ \A j \in Good(f) : f.nservers[j].name = f.nservers[i].name =>
                   j > i \/ f.nservers[j].ip = NoIp
      BY <1>2, <2>2, ReadByBlank
    <3> QED BY <1>2, <2>2, <3>1 DEF Flawed
  <2>3. CASE found /\ e.ok /\ e.addresses = {}
    <3>1. Servers(files, f) = {}
      BY <1>2, <2>3, ReadByBlank
    <3>2. CASE \A h \in files : ZoneOf(h) = Delegation => h = f
      <4>1. \A h \in files : ZoneOf(h) = Delegation => Servers(files, h) = {}
        BY <3>1, <3>2
      <4> QED BY <4>1 DEF Flawed
    <3>3. CASE \E h \in files : ZoneOf(h) = Delegation /\ h # f
      <4>1. Delegation # NoZone
        BY DEF Delegation, NoZone, DomainZone
      <4> QED BY <1>2, <2>3, <3>3, <4>1 DEF Flawed, ZoneFiles
    <3> QED BY <3>2, <3>3
  <2> HIDE DEF e, found
  <2> QED BY <1>1, <1>3, <2>1, <2>2, <2>3
<1>4. ASSUME g.ok PROVE Read(files, g)
  <2>1. files \ g.todo = {}
    BY <1>1
  <2>2. ZoneFiles({}) = {} /\ Mirrors({}) = {}
    BY DEF ZoneFiles, Mirrors
  <2>3. OneDelegation(files) => g.known = AllKnown(files)
    <3>1. found /\ g.known = e.known
      <4> HIDE DEF e
      <4> QED BY <1>1, <1>4
    <3> QED BY <1>2, <3>1, ReadByBlank, BlankKnowsAll
  <2> QED BY <1>1, <2>1, <2>2, <2>3 DEF Read
<1> QED BY <1>1, <1>3, <1>4 DEF g

LEMMA ReadDelegated ==
  ASSUME NEW f, NEW known
  PROVE  ReadFile(f, known).delegated <=> Delegated(f)
<1>1. ReadFile(f, known).delegated = (\E i \in Good(f) : uses_delegation_server(f.nservers[i]))
  BY DEF ReadFile
<1> QED BY <1>1 DEF uses_delegation_server, Delegated, Lines

LEMMA TwoDelegations ==
  ASSUME NEW files, ~OneDelegation(files)
  PROVE  Flawed(files)
<1>1. Delegation # NoZone
  BY DEF Delegation, NoZone, DomainZone
<1> QED BY <1>1 DEF OneDelegation, Flawed, ZoneFiles

\* A zone whose servers are the delegation servers is not without servers.
LEMMA MirroredHasServers ==
  ASSUME NEW files, NEW f, Delegated(f),
         \A ns \in Lines(f) : ns.kind = "delegation" => ServerIps(files, ns.name) # {}
  PROVE  Servers(files, f) # {}
<1> DEFINE gives(ns) == CASE ns.kind = "sync" -> {ns.spelt}
                          [] ns.kind = "delegation" -> ServerIps(files, ns.name)
                          [] ns.kind = "dn42" -> {}
                          [] OTHER -> {ns.ip} \ {NoIp}
<1>1. PICK ns \in Lines(f) : ns.kind = "delegation"
  BY DEF Delegated
<1>2. gives(ns) # {}
  BY <1>1
<1>3. Servers(files, f) = UNION {gives(l) : l \in Lines(f)}
  BY DEF Servers
<1> HIDE DEF gives
<1> QED BY <1>1, <1>2, <1>3

\* A file without a zone changes nothing.
LEMMA PopulateSkips ==
  ASSUME NEW files \in Registries, NEW g, Generator(g), NEW f \in g.todo, g.todo \subseteq files,
         g.ok, Read(files, g), ZoneOf(f) = NoZone
  PROVE  LET h == populate_zone(g, f) IN
         /\ Generator(h) /\ h.todo = g.todo \ {f} /\ h.mirrored = g.mirrored
         /\ h.ok /\ Read(files, h)
<1> DEFINE h == populate_zone(g, f)
           done == files \ g.todo
<1>1. h = [todo |-> g.todo \ {f}, known |-> g.known, ok |-> g.ok, all_zones |-> g.all_zones,
           mirrored |-> g.mirrored, forward |-> g.forward, trust |-> g.trust, negative |-> g.negative]
  <2>1. h = [g EXCEPT !.todo = g.todo \ {f}]
    BY DEF populate_zone
  <2> HIDE DEF h
  <2> QED BY <2>1 DEF Generator
<1> HIDE DEF h
<1>2. files \ h.todo = done \cup {f}
  BY <1>1
<1>3. ZoneFiles(done \cup {f}) = ZoneFiles(done)
  BY DEF ZoneFiles
<1>4. Mirrors(done \cup {f}) = Mirrors(done)
  BY <1>3 DEF Mirrors
<1>5. Forwarded(files) \cap (done \cup {f}) = Forwarded(files) \cap done
  BY DEF Forwarded, ZoneFiles
<1>6. Read(files, h)
  <2>1. /\ h.all_zones = g.all_zones /\ h.mirrored = g.mirrored /\ h.known = g.known
        /\ h.forward = g.forward /\ h.trust = g.trust /\ h.negative = g.negative
    BY <1>1
  <2> HIDE DEF done
  <2> QED BY <1>2, <1>3, <1>4, <1>5, <2>1, Zenon DEF Read, done
<1>7. Generator(h) /\ h.todo = g.todo \ {f} /\ h.mirrored = g.mirrored /\ h.ok
  BY <1>1 DEF Generator
<1> QED BY <1>6, <1>7 DEF h

\* A file with a zone adds what it means, or ends the run for a flaw of the
\* registry.
LEMMA PopulateReads ==
  ASSUME NEW files \in Registries, NEW g, Generator(g), NEW f \in g.todo, g.todo \subseteq files,
         g.ok, Read(files, g), ZoneOf(f) # NoZone
  PROVE  LET h == populate_zone(g, f) IN
         /\ Generator(h) /\ h.todo = g.todo \ {f} /\ h.mirrored \subseteq Mirrors(files)
         /\ ~h.ok => Flawed(files)
         /\ h.ok => Read(files, h)
<1> DEFINE h == populate_zone(g, f)
           done == files \ g.todo
           zone == ZoneOf(f)
           e == ReadFile(f, g.known)
           fwd == is_forward_zone(zone, e) /\ e.addresses # {}
<1>1. h = [todo |-> g.todo \ {f}, known |-> e.known, ok |-> e.ok /\ zone \notin g.all_zones,
           all_zones |-> g.all_zones \cup {zone},
           mirrored |-> IF e.delegated THEN g.mirrored \cup {zone} ELSE g.mirrored,
           forward |-> IF fwd THEN g.forward \cup {[zone |-> zone, forwarders |-> e.addresses]}
                       ELSE g.forward,
           trust |-> IF fwd /\ f.ds THEN g.trust \cup {zone} ELSE g.trust,
           negative |-> IF fwd /\ ~f.ds THEN g.negative \cup {zone} ELSE g.negative]
  BY DEF populate_zone
<1> HIDE DEF h, e, fwd
<1>2. /\ h.todo = g.todo \ {f} /\ h.known = e.known /\ h.ok = (e.ok /\ zone \notin g.all_zones)
      /\ h.all_zones = g.all_zones \cup {zone}
      /\ h.mirrored = (IF e.delegated THEN g.mirrored \cup {zone} ELSE g.mirrored)
      /\ h.forward = (IF fwd THEN g.forward \cup {[zone |-> zone, forwarders |-> e.addresses]}
                      ELSE g.forward)
      /\ h.trust = (IF fwd /\ f.ds THEN g.trust \cup {zone} ELSE g.trust)
      /\ h.negative = (IF fwd /\ ~f.ds THEN g.negative \cup {zone} ELSE g.negative)
      /\ Generator(h)
  BY <1>1 DEF Generator
<1>3. f \in files /\ f \notin done /\ files \ h.todo = done \cup {f} /\ done \subseteq files
  BY <1>2
<1>4. ZoneFiles(done \cup {f}) = ZoneFiles(done) \cup {f}
  BY DEF ZoneFiles
<1>5. g.all_zones = {ZoneOf(x) : x \in ZoneFiles(done)} /\ g.mirrored = Mirrors(done)
  BY DEF Read
<1>6. e.delegated <=> Delegated(f)
  BY ReadDelegated DEF e
<1>7. h.mirrored = Mirrors(done \cup {f})
  <2>1. CASE Delegated(f)
    BY <1>2, <1>4, <1>5, <1>6, <2>1 DEF Mirrors
  <2>2. CASE ~Delegated(f)
    BY <1>2, <1>4, <1>5, <1>6, <2>2 DEF Mirrors
  <2> QED BY <2>1, <2>2
<1>8. Mirrors(done \cup {f}) \subseteq Mirrors(files)
  BY <1>3 DEF Mirrors, ZoneFiles
<1>9. ASSUME OneDelegation(files)
      PROVE  /\ g.known = AllKnown(files) /\ e.known = AllKnown(files)
             /\ e.addresses = Servers(files, f)
             /\ e.ok <=> \A ns \in Lines(f) :
                            ns.kind = "delegation" => ServerIps(files, ns.name) # {}
  <2>1. g.known = AllKnown(files)
    BY <1>9 DEF Read
  <2> QED BY <1>3, <2>1, ReadByKnower DEF e
<1>10. ASSUME ~h.ok PROVE Flawed(files)
  <2>1. CASE zone \in g.all_zones
    <3>1. PICK x \in ZoneFiles(done) : ZoneOf(x) = zone
      BY <1>5, <2>1
    <3>2. x \in ZoneFiles(files) /\ f \in ZoneFiles(files) /\ x # f
      BY <1>3 DEF ZoneFiles
    <3> QED BY <3>1, <3>2 DEF Flawed
  <2>2. CASE ~e.ok /\ OneDelegation(files)
    <3>1. f \in ZoneFiles(files)
      BY <1>3 DEF ZoneFiles
    <3> QED BY <1>9, <2>2, <3>1 DEF Flawed
  <2> QED BY <1>2, <1>10, <2>1, <2>2, TwoDelegations
<1>11. ASSUME h.ok PROVE Read(files, h)
  <2>1. e.ok /\ zone \notin g.all_zones
    BY <1>2, <1>11
  <2>2. h.all_zones = {ZoneOf(x) : x \in ZoneFiles(done \cup {f})}
    BY <1>2, <1>4, <1>5
  <2>3. \A x, y \in ZoneFiles(done \cup {f}) : ZoneOf(x) = ZoneOf(y) => x = y
    <3>1. \A x, y \in ZoneFiles(done) : ZoneOf(x) = ZoneOf(y) => x = y
      BY DEF Read
    <3>2. \A x \in ZoneFiles(done) : ZoneOf(x) # ZoneOf(f)
      BY <1>5, <2>1
    <3> QED BY <1>4, <3>1, <3>2
  <2>4. ASSUME OneDelegation(files)
        PROVE  /\ h.known = AllKnown(files)
               /\ h.forward = {[zone |-> ZoneOf(x), forwarders |-> Servers(files, x)] :
                                  x \in Forwarded(files) \cap (done \cup {f})}
               /\ h.trust = {ZoneOf(x) : x \in {y \in Forwarded(files) \cap (done \cup {f}) : y.ds}}
               /\ h.negative =
                     {ZoneOf(x) : x \in {y \in Forwarded(files) \cap (done \cup {f}) : ~y.ds}}
               /\ \A x \in ZoneFiles(done \cup {f}) : Delegated(x) => Servers(files, x) # {}
    <3> DEFINE old == Forwarded(files) \cap done
               new == Forwarded(files) \cap (done \cup {f})
    <3>1. /\ g.forward = {[zone |-> ZoneOf(x), forwarders |-> Servers(files, x)] : x \in old}
          /\ g.trust = {ZoneOf(x) : x \in {y \in old : y.ds}}
          /\ g.negative = {ZoneOf(x) : x \in {y \in old : ~y.ds}}
          /\ \A x \in ZoneFiles(done) : Delegated(x) => Servers(files, x) # {}
      BY <2>4 DEF Read
    <3>2. e.addresses = Servers(files, f) /\ e.known = AllKnown(files)
      BY <1>9, <2>4
    <3>3. fwd <=> f \in Forwarded(files)
      BY <1>3, <1>6, <3>2 DEF fwd, is_forward_zone, Forwarded, ZoneFiles
    <3>4. new = IF fwd THEN old \cup {f} ELSE old
      BY <3>3
    <3>5. Delegated(f) => Servers(files, f) # {}
      BY <1>9, <2>1, <2>4, MirroredHasServers
    <3>6. \A x \in ZoneFiles(done \cup {f}) : Delegated(x) => Servers(files, x) # {}
      BY <1>4, <3>1, <3>5
    <3> HIDE DEF old, new
    <3>7. h.forward = {[zone |-> ZoneOf(x), forwarders |-> Servers(files, x)] : x \in new}
      <4>1. CASE fwd
        BY <1>2, <3>1, <3>2, <3>4, <4>1
      <4>2. CASE ~fwd
        BY <1>2, <3>1, <3>4, <4>2
      <4> QED BY <4>1, <4>2
    <3>8. h.trust = {ZoneOf(x) : x \in {y \in new : y.ds}}
      <4>1. CASE fwd /\ f.ds
        BY <1>2, <3>1, <3>4, <4>1
      <4>2. CASE ~(fwd /\ f.ds)
        <5>1. {y \in new : y.ds} = {y \in old : y.ds}
          BY <3>4, <4>2
        <5> QED BY <1>2, <3>1, <4>2, <5>1
      <4> QED BY <4>1, <4>2
    <3>9. h.negative = {ZoneOf(x) : x \in {y \in new : ~y.ds}}
      <4>1. CASE fwd /\ ~f.ds
        BY <1>2, <3>1, <3>4, <4>1
      <4>2. CASE ~(fwd /\ ~f.ds)
        <5>1. {y \in new : ~y.ds} = {y \in old : ~y.ds}
          BY <3>4, <4>2
        <5> QED BY <1>2, <3>1, <4>2, <5>1
      <4> QED BY <4>1, <4>2
    <3> QED BY <1>2, <3>2, <3>6, <3>7, <3>8, <3>9 DEF new
  <2> HIDE DEF done
  <2>5. /\ h.all_zones = {ZoneOf(x) : x \in ZoneFiles(files \ h.todo)}
        /\ \A x, y \in ZoneFiles(files \ h.todo) : ZoneOf(x) = ZoneOf(y) => x = y
        /\ h.mirrored = Mirrors(files \ h.todo)
    BY <1>3, <1>7, <2>2, <2>3
  <2> QED BY <1>3, <2>4, <2>5 DEF Read
<1> QED BY <1>2, <1>7, <1>8, <1>10, <1>11 DEF h

LEMMA RegistryInit == Init => RegistryInv
<1> SUFFICES ASSUME Init PROVE RegistryInv
  OBVIOUS
<1>1. registry \in Registries /\ gen = ConstructUnread({}) /\ step = Idle
  BY DEF Init
<1>2. Generator(gen) /\ gen.todo = {} /\ gen.ok
  BY <1>1 DEF ConstructUnread, Generator
<1> QED BY <1>1, <1>2 DEF RegistryInv, Idle

\* Steps that leave what was read of the registry alone.
LEMMA RegistryKept ==
  ASSUME RegistryInv, UNCHANGED registryVars,
         step' = step \/ step' \in {Idle, "records"}
           \/ (step \in {"named", "sync", "reload"} /\ step' \in {"named", "sync", "reload"})
  PROVE  RegistryInv'
BY DEF RegistryInv, registryVars, Idle

LEMMA RegistryStart ==
  ASSUME StartPlay
  PROVE  RegistryInv'
<1>1. registry' \in Registries /\ gen' = ConstructUnread({}) /\ step' = "records"
  BY DEF StartPlay
<1>2. Generator(gen') /\ gen'.todo = {} /\ gen'.ok
  BY <1>1 DEF ConstructUnread, Generator
<1> QED BY <1>1, <1>2 DEF RegistryInv

LEMMA RegistryConstruct ==
  ASSUME RegistryInv, write_zones_local
  PROVE  RegistryInv'
<1>1. registry' = registry /\ gen' = Construct(registry) /\ step' = "registry"
  BY DEF write_zones_local
<1>2. registry \in Registries
  BY DEF RegistryInv
<1>3. Generator(gen')
  BY <1>1 DEF Construct, Generator
<1>4. gen'.todo = registry /\ (~gen'.ok => Flawed(registry)) /\ (gen'.ok => Read(registry, gen'))
  BY <1>1, <1>2, ConstructReads
<1> QED BY <1>1, <1>2, <1>3, <1>4 DEF RegistryInv

LEMMA RegistryGenerates ==
  ASSUME RegistryInv, generate, step = "registry", step' = step
  PROVE  RegistryInv' /\ gen'.mirrored \subseteq gen.mirrored \cup Mirrors(registry)
<1>1. PICK f \in gen.todo : gen.ok /\ gen' = populate_zone(gen, f) /\ registry' = registry
  BY DEF generate
<1>2. /\ registry \in Registries /\ Generator(gen) /\ gen.todo \subseteq registry
      /\ Read(registry, gen)
  BY <1>1 DEF RegistryInv
<1>3. CASE ZoneOf(f) = NoZone
  <2>1. /\ Generator(gen') /\ gen'.todo = gen.todo \ {f} /\ gen'.ok /\ Read(registry, gen')
        /\ gen'.mirrored = gen.mirrored
    BY <1>1, <1>2, <1>3, PopulateSkips
  <2> QED BY <1>1, <1>2, <2>1 DEF RegistryInv
<1>4. CASE ZoneOf(f) # NoZone
  <2>1. /\ Generator(gen') /\ gen'.todo = gen.todo \ {f} /\ gen'.mirrored \subseteq Mirrors(registry)
        /\ ~gen'.ok => Flawed(registry)
        /\ gen'.ok => Read(registry, gen')
    BY <1>1, <1>2, <1>4, PopulateReads
  <2> QED BY <1>1, <1>2, <2>1 DEF RegistryInv
<1> QED BY <1>3, <1>4

LEMMA RegistryWrites ==
  ASSUME RegistryInv, step = "registry", write_recursor_config, step' = "secondary"
  PROVE  RegistryInv'
<1>1. /\ gen.ok /\ gen.todo = {} /\ UNCHANGED <<registry, gen, secondary>>
      /\ recursor' = [forward |-> gen.forward, trust |-> gen.trust, negative |-> gen.negative]
  BY DEF write_recursor_config
<1> QED BY <1>1 DEF RegistryInv

LEMMA RegistryNext ==
  ASSUME RegistryInv, [Next]_vars
  PROVE  RegistryInv'
<1>1. CASE write_forward_zone \/ write_ptr_zone
  BY <1>1, RegistryKept DEF write_forward_zone, write_ptr_zone, WritePtrZone, Written, Fails
<1>2. CASE RegistryStep
  BY <1>2, RegistryGenerates, RegistryWrites DEF RegistryStep
<1>3. CASE RegistryFails
  BY <1>3, RegistryKept DEF RegistryFails, Fails
<1>4. CASE WriteSecondary
  <2>1. /\ step = "secondary" /\ step' = "named" /\ secondary' = gen.mirrored
        /\ UNCHANGED <<registry, gen, recursor>>
    BY <1>4 DEF WriteSecondary, write_secondary_zones_list
  <2> QED BY <2>1 DEF RegistryInv
<1>5. CASE TemplateNamed \/ Synchronize \/ Reload \/ ReloadFails \/ Abort \/ Reboot
  BY <1>5, RegistryKept
     DEF TemplateNamed, Synchronize, Reload, ReloadFails, Abort, Reboot, PlayOnly
<1>6. CASE Edit \/ UNCHANGED vars
  BY <1>6, RegistryKept DEF Edit, vars
<1> QED BY <1>1, <1>2, <1>3, <1>4, <1>5, <1>6, RegistryStart, RegistryConstruct DEF Next

LEMMA RegistryMeaningFrom ==
  ASSUME RegistryInv
  PROVE  RegistryMeaning /\ FailsForCause
<1>1. FailsForCause
  BY DEF RegistryInv, FailsForCause
<1>2. ASSUME step \in {"named", "sync", "reload"}
      PROVE  LET forwarded == Forwarded(registry)
                 mirrored  == {f \in ZoneFiles(registry) : Delegated(f)} IN
             /\ recursor.forward =
                   {[zone |-> ZoneOf(f), forwarders |-> Servers(registry, f)] : f \in forwarded}
             /\ recursor.trust = {ZoneOf(f) : f \in {g \in forwarded : g.ds}}
             /\ recursor.negative = {ZoneOf(f) : f \in {g \in forwarded : ~g.ds}}
             /\ secondary = {ZoneOf(f) : f \in mirrored}
             /\ \A f \in mirrored : Servers(registry, f) # {}
  <2>1. /\ gen.todo = {} /\ Read(registry, gen) /\ secondary = gen.mirrored
        /\ recursor.forward = gen.forward /\ recursor.trust = gen.trust
        /\ recursor.negative = gen.negative
    BY <1>2 DEF RegistryInv
  <2>2. registry \ gen.todo = registry
    BY <2>1
  <2>3. OneDelegation(registry)
    <3>1. \A f, g \in ZoneFiles(registry) : ZoneOf(f) = ZoneOf(g) => f = g
      BY <2>1, <2>2 DEF Read
    <3>2. Delegation # NoZone
      BY DEF Delegation, NoZone, DomainZone
    <3> QED BY <3>1, <3>2 DEF OneDelegation, ZoneFiles
  <2>4. Forwarded(registry) \cap registry = Forwarded(registry)
    BY DEF Forwarded, ZoneFiles
  <2> QED BY <2>1, <2>2, <2>3, <2>4 DEF Read, Mirrors
<1> QED BY <1>1, <1>2 DEF RegistryMeaning

-----------------------------------------------------------------------------
(* What a server is to mirror *)

\* The zones of which the server was told to be a mirror, now or ever.
Mirrorable == UNION {Mirrors(files) : files \in Registries}

MirrorsInv ==
    gen.mirrored \subseteq Mirrorable /\ secondary \subseteq Mirrorable
      /\ cached.secondary \subseteq Mirrorable /\ server.slaves \subseteq Mirrorable

LEMMA MirrorsInit == Init => MirrorsInv
<1> SUFFICES ASSUME Init PROVE MirrorsInv
  OBVIOUS
<1>1. gen = ConstructUnread({}) /\ secondary = {} /\ cached.secondary = {} /\ server.slaves = {}
  BY DEF Init
<1>2. gen.mirrored = {}
  BY <1>1 DEF ConstructUnread
<1> QED BY <1>1, <1>2 DEF MirrorsInv

LEMMA MirrorsNext ==
  ASSUME Typed, RegistryInv, MirrorsInv, [Next]_vars
  PROVE  MirrorsInv'
<1>1. CASE UNCHANGED <<gen, secondary, cached, server>>
  BY <1>1 DEF MirrorsInv
<1>2. CASE StartPlay
  <2>1. gen'.mirrored = {} /\ cached'.secondary = secondary /\ UNCHANGED <<secondary, server>>
    BY <1>2 DEF StartPlay, ConstructUnread
  <2> QED BY <2>1 DEF MirrorsInv
<1>3. CASE write_zones_local
  <2>1. gen'.mirrored = {} /\ UNCHANGED <<secondary, cached, server>>
    BY <1>3 DEF write_zones_local, Construct
  <2> QED BY <2>1 DEF MirrorsInv
<1>4. CASE RegistryStep
  <2>1. CASE generate
    <3>1. gen'.mirrored \subseteq gen.mirrored \cup Mirrors(registry) /\ registry \in Registries
          /\ UNCHANGED <<secondary, cached, server>>
      BY <1>4, <2>1, RegistryGenerates DEF RegistryStep, PlayVars, generate, RegistryInv,
         write_recursor_config
    <3> QED BY <3>1 DEF MirrorsInv, Mirrorable
  <2>2. CASE write_recursor_config
    BY <1>1, <1>4, <2>2 DEF RegistryStep, PlayVars, write_recursor_config
  <2> QED BY <1>4, <2>1, <2>2 DEF RegistryStep
<1>5. CASE WriteSecondary
  <2>1. secondary' = gen.mirrored /\ UNCHANGED <<gen, cached, server>>
    BY <1>5 DEF WriteSecondary, write_secondary_zones_list, PlayVars
  <2> QED BY <2>1 DEF MirrorsInv
<1>6. CASE TemplateNamed
  <2>1. server'.slaves = cached.secondary /\ UNCHANGED <<gen, secondary, cached>>
    BY <1>6, ServerFields DEF TemplateNamed, PlayOnly, registryVars
  <2> QED BY <2>1 DEF MirrorsInv
<1>7. CASE Synchronize \/ Reload \/ ReloadFails \/ Abort \/ Reboot
  <2>1. server'.slaves = server.slaves
    BY <1>7, ServerFields
  <2>2. UNCHANGED <<gen, secondary, cached>>
    BY <1>7 DEF Synchronize, Reload, ReloadFails, Abort, Reboot, PlayOnly, registryVars
  <2> QED BY <2>1, <2>2 DEF MirrorsInv
<1>8. write_forward_zone \/ write_ptr_zone \/ RegistryFails \/ Edit \/ UNCHANGED vars
        => UNCHANGED <<gen, secondary, cached, server>>
  BY DEF write_forward_zone, write_ptr_zone, WritePtrZone, Written, Fails, RegistryFails, Edit,
         vars, registryVars
<1> QED BY <1>1, <1>2, <1>3, <1>4, <1>5, <1>6, <1>7, <1>8 DEF Next

\* An own zone that the registry delegates to its own servers is misnamed.
LEMMA OwnIsNotMirrored ==
  ASSUME NEW z \in OwnZones, z \in Mirrorable
  PROVE  \E c \in Confs : \E i \in DOMAIN c.nets :
            Misnamed(c.nets[i]) /\ z = ptr_zonename(c.nets[i])
<1>1. PICK files \in Registries : \E f \in {g \in ZoneFiles(files) : Delegated(g)} : z = ZoneOf(f)
  BY DEF Mirrorable, Mirrors
<1>2. PICK c \in Confs :
         \/ \E i \in DOMAIN c.domains : z = DomainZone(c.domains[i].name)
         \/ \E i \in DOMAIN c.nets : Supported(c.nets[i]) /\ z = ptr_zonename(c.nets[i])
  BY DEF OwnZones
<1>3. /\ \A i \in DOMAIN c.domains : z # DomainZone(c.domains[i].name)
      /\ \A i \in DOMAIN c.nets : z # get_ptr_zone(c.nets[i])
  BY <1>1, OwnAssumption
<1>4. PICK i \in DOMAIN c.nets : Supported(c.nets[i]) /\ z = ptr_zonename(c.nets[i])
  BY <1>2, <1>3
<1> DEFINE n == c.nets[i]
<1>5. IsNetwork(n) /\ ptr_zonename(n) # get_ptr_zone(n)
  BY <1>3, <1>4, ConfsAssumption
<1>a. CASE n.len = 0
  BY <1>4, <1>a DEF Misnamed
<1>6. CASE get_ptr_zone(n) = NoZone /\ n.len # 0
  <2>1. n.width \in {4, 8} /\ n.len \in Nat
    <3>1. /\ n.width \in {4, 8} /\ Len(n.addr) \in Nat /\ n.len \in 0..(n.width * Len(n.addr))
      BY <1>5 DEF IsNetwork
    <3> QED BY <3>1
  <2>2. \A labels, cut : ArpaZone(n, labels, cut) # NoZone
    BY DEF ArpaZone, NoZone, DomainZone
  <2> HIDE DEF n
  <2>3. CASE IPv4(n)
    <3>1. n.len % 8 # 0 /\ n.len < 24
      BY <1>6, <2>2, <2>3, Zenon DEF get_ptr_zone
    <3>2. n.len % 8 = 0 \/ n.len > 24
      BY <1>4, <2>3, Zenon DEF Supported, n
    <3> QED BY <2>1, <3>1, <3>2
  <2>4. CASE ~IPv4(n)
    <3>1. n.len % 4 # 0
      BY <1>6, <2>2, <2>4, Zenon DEF get_ptr_zone
    <3>2. Misnamed(n)
      BY <2>4, <3>1, Zenon DEF Misnamed
    <3> QED BY <1>4, <3>2 DEF n
  <2> QED BY <1>4, <2>3, <2>4 DEF n
<1>7. CASE get_ptr_zone(n) # NoZone /\ n.len # 0
  <2>1. CASE IPv4(n) /\ n.len = 32
    BY <1>4, <2>1, Zenon DEF Misnamed
  <2>2. CASE IPv4(n) => n.len < 32
    BY <1>4, <1>5, <1>7, <2>2, NamesAgree DEF Misnamed
  <2>3. IPv4(n) => n.len = 32 \/ n.len < 32
    <3>1. IPv4(n) => n.width = 8 /\ Len(n.addr) = 4 /\ n.len \in 0..(n.width * Len(n.addr))
      BY <1>5 DEF IsNetwork, IPv4
    <3> HIDE DEF n
    <3>2. IPv4(n) => n.len \in 0..(8 * 4)
      BY <3>1, Zenon
    <3> QED BY <3>2
  <2> QED BY <2>1, <2>2, <2>3
<1> QED BY <1>a, <1>6, <1>7

LEMMA ClashesAreMisnamedFrom ==
  ASSUME Typed, MirrorsInv
  PROVE  ClashesAreMisnamed
<1>1. server.named \subseteq OwnZones /\ server.slaves \subseteq Mirrorable
  BY DEF Typed, MirrorsInv
<1> QED BY <1>1, OwnIsNotMirrored DEF ClashesAreMisnamed

-----------------------------------------------------------------------------
(* The specification *)

IInv == Typed /\ FilesInv /\ RunInv /\ RegistryInv /\ MirrorsInv

LEMMA IInvInit == Init => IInv
<1> SUFFICES ASSUME Init PROVE IInv
  OBVIOUS
<1>1. RunInv
  BY DEF Init, RunInv
<1> QED BY <1>1, TypedInit, FilesInit, RegistryInit, MirrorsInit DEF IInv

LEMMA IInvNext == IInv /\ [Next]_vars => IInv'
BY TypedNext, FilesNext, RunNext, RegistryNext, MirrorsNext DEF IInv

\* The inductive invariant.
THEOREM Invariance == Spec => []IInv
BY IInvInit, IInvNext, PTL DEF Spec

\* All states are of their types; every zone written has a name that resolvers
\* ask for.
THEOREM TypeCorrect == Spec => []TypeOK
<1>1. IInv => TypeOK
  BY TypedImpliesTypeOK DEF IInv, RegistryInv
<1> QED BY <1>1, Invariance, PTL

\* The server serves what make-dns-records.py wrote last, after every play whose
\* reload was made, whatever was aborted, lost or edited before it.
THEOREM AlwaysServesFiles == Spec => []ServesFiles
<1>1. IInv => ServesFiles
  BY ServesFilesFrom DEF IInv
<1> QED BY <1>1, Invariance, PTL

\* Every address of a host record in an own prefix has one PTR record, and the
\* name in it has that address.
THEOREM OwnAddressesAlwaysNamed == Spec => []OwnAddressesNamed
<1>1. IInv => OwnAddressesNamed
  BY OwnAddressesNamedFrom DEF IInv
<1> QED BY <1>1, Invariance, PTL

\* A zone of which a server is primary and mirror is one that lstrip misnamed.
THEOREM ClashesAlwaysMisnamed == Spec => []ClashesAreMisnamed
<1>1. IInv => ClashesAreMisnamed
  BY ClashesAreMisnamedFrom DEF IInv
<1> QED BY <1>1, Invariance, PTL

\* What the plays make of the registry is what it means, in whatever order its
\* files are read.
THEOREM RegistryAlwaysMeant == Spec => []RegistryMeaning
<1>1. IInv => RegistryMeaning
  BY RegistryMeaningFrom DEF IInv
<1> QED BY <1>1, Invariance, PTL

\* registry-to-pdns.py ends without its lists only on a registry with a flaw.
THEOREM AlwaysFailsForCause == Spec => []FailsForCause
<1>1. IInv => FailsForCause
  BY RegistryMeaningFrom DEF IInv
<1> QED BY <1>1, Invariance, PTL
=============================================================================
