------------------------------ MODULE DnsZones ------------------------------
(***************************************************************************)
(* anycast-dns.yml: the zones of this AS are made from dns-entries.yml,    *)
(* hosts.yml and general.yml (scripts/make-dns-records.py), those of the   *)
(* registry by RegistryZones, and an authoritative server gets both        *)
(* (role config-powerdns), one after the other, while PowerDNS serves what *)
(* it loaded when it was last told to.                                     *)
(***************************************************************************)
EXTENDS RegistryZones, Integers

CONSTANTS
    Confs,        \* the configurations the repository may have
    MaxEdits,     \* bound: edits of the configuration
    MaxMishaps    \* bound: aborted plays, failed handlers and reboots

(* A configuration has the domains in the order of the file, the domain the *)
(* routers' own records go to, the addresses of the hosts, the routers whose *)
(* records are public and the own prefixes.  A domain has its entries in the *)
(* order of the file; an entry has its type, its name, its addresses and the *)
(* host it stands for.  A file that is not there and one that is torn by an  *)
(* exception are the same to a server.                                       *)
Record(name, domain, ip) == [name |-> name, domain |-> domain, ip |-> ip]
Nothing == [x \in {} |-> {}]
Idle == "idle"

ASSUME BoundsAssumption == MaxEdits \in Nat /\ MaxMishaps \in Nat

\* dns_records is a mapping, its domains are no reverse zones, and the own
\* prefixes have a zone each.
ASSUME ConfsAssumption ==
    \A c \in Confs :
        /\ IsSequence(c.domains) /\ IsSequence(c.nets) /\ IsSequence(c.routers)
        /\ \A i \in DOMAIN c.domains : /\ IsSequence(c.domains[i].records)
                                      /\ c.domains[i].name \notin Arpa
        /\ \A i, j \in DOMAIN c.domains : c.domains[i].name = c.domains[j].name => i = j
        /\ \A i \in DOMAIN c.nets : IsNetwork(c.nets[i])
        /\ \A i, j \in DOMAIN c.nets : ptr_zonename(c.nets[i]) = ptr_zonename(c.nets[j]) => i = j

\* The registry does not delegate what is this AS's own to its own servers:
\* the objects of the AS name its servers, which are not mirrors.
ASSUME OwnAssumption ==
    \A files \in Registries : \A f \in {g \in ZoneFiles(files) : Delegated(g)} :
    \A c \in Confs :
        /\ \A i \in DOMAIN c.domains : ZoneOf(f) # DomainZone(c.domains[i].name)
        /\ \A i \in DOMAIN c.nets : ZoneOf(f) # get_ptr_zone(c.nets[i])

VARIABLES
    conf,      \* the configuration in the work tree
    step,      \* the step the play is at
    run,       \* make-dns-records.py: what it read, how many zones it wrote, ptr_records, namedconf_entries
    zonedir,   \* global-config/dns-zones/: the contents of the zone files
    local,     \* global-config/dns-zones-local.yml: the zones, with their files
    cached,    \* the lists of zones as ansible read them when the playbook started
    server,    \* the authoritative server: its named.conf, zone files and what PowerDNS serves
    lost,      \* history: a reload of what is on the server was due and was not made
    whole,     \* history: the last play ended with the reload it was due
    edits, mishaps

vars == <<registryVars, conf, step, run, zonedir, local, cached, server, lost, whole, edits, mishaps>>
zonefiles == <<zonedir, local>>
bounds == <<edits, mishaps>>

Put(dir, zone, contents) ==
    [z \in DOMAIN dir \cup {zone} |-> IF z = zone THEN contents ELSE dir[z]]

Init ==
    /\ registry \in Registries
    /\ gen = ConstructUnread({})
    /\ recursor = [forward |-> {}, trust |-> {}, negative |-> {}] /\ secondary = {}
    /\ conf \in Confs
    /\ step = Idle
    /\ run = [conf |-> conf, domains |-> 0, nets |-> 0, ptr |-> Nothing, entries |-> {}]
    /\ zonedir = Nothing /\ local = {} /\ cached = [local |-> {}, secondary |-> {}]
    /\ server = [named |-> {}, slaves |-> {}, dir |-> Nothing, serves |-> Nothing, notified |-> FALSE]
    /\ lost = FALSE /\ whole = FALSE
    /\ edits = MaxEdits /\ mishaps = MaxMishaps

-----------------------------------------------------------------------------
(* make-dns-records.py *)

\* The entries of a domain, with those of the routers on the domain they go to.
RouterEntries(c) ==
    [i \in DOMAIN c.routers |-> [type |-> "host_record", name |-> c.routers[i],
                                 ips |-> c.hosts[c.routers[i]], target |-> c.routers[i]]]
Entries(c, d) == d.records \o (IF d.name = c.dns_domain THEN RouterEntries(c) ELSE <<>>)

\* The address records of an entry.
Ips(c, e) == IF e.type = "ansible_host_alias" THEN c.hosts[e.target] ELSE e.ips
ForwardContents(c, d) ==
    UNION {{Record(e.name, d.name, ip) : ip \in Ips(c, e)} :
               e \in {Entries(c, d)[i] : i \in DOMAIN Entries(c, d)}}

\* The entries that an address gets a PTR record from: the last one stays.
Reversing(c, d, a) ==
    {i \in DOMAIN Entries(c, d) : /\ Entries(c, d)[i].type = "host_record"
                                  /\ a \in Entries(c, d)[i].ips}
Reversed(c, d) ==
    UNION {e.ips : e \in {Entries(c, d)[i] : i \in {j \in DOMAIN Entries(c, d) :
                                                  Entries(c, d)[j].type = "host_record"}}}
LastRecord(c, d, a) ==
    LET last == CHOOSE i \in Reversing(c, d, a) : \A j \in Reversing(c, d, a) : j <= i
    IN  Record(Entries(c, d)[last].name, d.name, a)
WithPtr(ptr, c, d) ==
    [a \in DOMAIN ptr \cup Reversed(c, d) |->
        IF a \in Reversed(c, d) THEN LastRecord(c, d, a) ELSE ptr[a]]

\* hosts[data['target']]
Unknown(c, d) ==
    \E i \in DOMAIN d.records : /\ d.records[i].type = "ansible_host_alias"
                                /\ d.records[i].target \notin DOMAIN c.hosts

\* The zone whose turn it is, forward or reverse, has been written.
Written(zone, contents) ==
    /\ zonedir' = Put(zonedir, zone, contents)
    /\ UNCHANGED <<registryVars, conf, local, cached, server, lost, whole, bounds>>

\* An exception ends the play.
Fails ==
    /\ step' = Idle
    /\ UNCHANGED <<registryVars, conf, run, local, cached, server, lost, whole, bounds>>

\* The playbook starts: ansible reads group_vars, and the lists of zones with
\* them, once and for all; then the registry is pulled, and main() reads the
\* configuration.
StartPlay ==
    /\ step = Idle
    /\ registry' \in Registries
    /\ step' = "records" /\ whole' = FALSE
    /\ cached' = [local |-> local, secondary |-> secondary]
    /\ run' = [conf |-> conf, domains |-> 0, nets |-> 0, ptr |-> Nothing, entries |-> {}]
    /\ gen' = ConstructUnread({})
    /\ UNCHANGED <<recursor, secondary, conf, zonefiles, server, lost, bounds>>

write_forward_zone ==
    /\ step = "records" /\ run.domains < Len(run.conf.domains)
    /\ LET d == run.conf.domains[run.domains + 1]
           zone == DomainZone(d.name) IN
       IF Unknown(run.conf, d) THEN zonedir' = Put(zonedir, zone, {}) /\ Fails
       ELSE /\ Written(zone, ForwardContents(run.conf, d))
            /\ run' = [run EXCEPT !.domains = @ + 1,
                                  !.ptr = WithPtr(@, run.conf, d),
                                  !.entries = @ \cup {zone}]
            /\ UNCHANGED step

\* A zone of RFC 2317 or of a class, with the names of the addresses within.
WritePtrZone ==
    /\ step = "records" /\ run.nets < Len(run.conf.nets)
    /\ LET n == run.conf.nets[run.nets + 1]
           zone == ptr_zonename(n) IN
       IF ~Supported(n) THEN UNCHANGED zonedir /\ Fails
       ELSE /\ Written(zone, {run.ptr[a] : a \in {b \in DOMAIN run.ptr : Within(b, n)}})
            /\ run' = [run EXCEPT !.nets = @ + 1, !.entries = @ \cup {zone}]
            /\ UNCHANGED step

\* Faulty: the reverse zones do not wait for the forward ones.
write_ptr_zone_early == WritePtrZone

write_ptr_zone == run.domains = Len(run.conf.domains) /\ WritePtrZone

write_zones_local ==
    /\ step = "records" /\ run.domains = Len(run.conf.domains) /\ run.nets = Len(run.conf.nets)
    /\ local' = run.entries
    /\ step' = "registry" /\ gen' = Construct(registry)
    /\ UNCHANGED <<registry, recursor, secondary, conf, run, zonedir, cached, server, lost, whole,
                   bounds>>

-----------------------------------------------------------------------------
(* registry-to-pdns.py, in its play *)

PlayVars == <<conf, run, zonefiles, cached, server, lost, whole, bounds>>

RegistryStep ==
    /\ step = "registry"
    /\ \/ generate /\ UNCHANGED step
       \/ write_recursor_config /\ step' = "secondary"
    /\ UNCHANGED PlayVars

RegistryFails == step = "registry" /\ ~gen.ok /\ Fails /\ UNCHANGED zonedir

WriteSecondary ==
    /\ step = "secondary"
    /\ write_secondary_zones_list
    /\ step' = "named" /\ UNCHANGED PlayVars

-----------------------------------------------------------------------------
(* config-powerdns on the server *)

PlayOnly == <<registryVars, conf, run, zonefiles, cached, edits>>

\* named.conf.j2, with the lists as they were before the scripts of this play
\* wrote them: no task reads them again.
TemplateNamed ==
    LET new == [server EXCEPT !.named = cached.local, !.slaves = cached.secondary] IN
    /\ step = "named"
    /\ server' = [new EXCEPT !.notified = @ \/ new # server]
    /\ step' = "sync" /\ UNCHANGED <<PlayOnly, lost, whole, mishaps>>

\* Faulty: the handler is not notified of the zone files.
SynchronizeQuietly ==
    /\ step = "sync"
    /\ server' = [server EXCEPT !.dir = zonedir]
    /\ step' = "reload" /\ UNCHANGED <<PlayOnly, lost, whole, mishaps>>

Synchronize ==
    /\ step = "sync"
    /\ server' = [server EXCEPT !.dir = zonedir, !.notified = @ \/ server.dir # zonedir]
    /\ step' = "reload" /\ UNCHANGED <<PlayOnly, lost, whole, mishaps>>

\* What PowerDNS has after it loaded the named zones: a zone whose file is not
\* there is not served.
Load(s) == [z \in s.named \cap DOMAIN s.dir |-> s.dir[z]]
Rediscover(s) ==
    [z \in s.named \cap DOMAIN s.dir |-> IF z \in DOMAIN s.serves THEN s.serves[z] ELSE s.dir[z]]

\* The handler, and the end of the play.
Reload ==
    /\ step = "reload"
    /\ server' = IF server.notified
                 THEN [server EXCEPT !.serves = Load(server), !.notified = FALSE]
                 ELSE server
    /\ lost' = (lost /\ ~server.notified)
    /\ whole' = TRUE
    /\ step' = Idle /\ UNCHANGED <<PlayOnly, mishaps>>

\* One of the two commands of the handler fails, and the failure is ignored.
ReloadFails ==
    /\ step = "reload" /\ server.notified /\ mishaps > 0
    /\ \E s \in {server.serves, Rediscover(server)} :
           server' = [server EXCEPT !.serves = s, !.notified = FALSE]
    /\ lost' = TRUE /\ whole' = TRUE
    /\ step' = Idle /\ mishaps' = mishaps - 1
    /\ UNCHANGED PlayOnly

\* A task of the role fails, or the server is lost, before the handler ran; of
\* the zone files some are new.
Abort ==
    /\ step \in {"named", "sync", "reload"} /\ mishaps > 0
    /\ \E new \in IF step = "sync" THEN SUBSET DOMAIN zonedir ELSE {{}} :
           server' = [server EXCEPT !.notified = FALSE,
                                    !.dir = [z \in new \cup DOMAIN @ |->
                                                IF z \in new THEN zonedir[z] ELSE @[z]]]
    /\ lost' = (lost \/ server'.dir # server.dir \/ server.notified)
    /\ step' = Idle /\ mishaps' = mishaps - 1
    /\ UNCHANGED <<PlayOnly, whole>>

\* The server restarts, and PowerDNS loads what it finds.
Reboot ==
    /\ mishaps > 0
    /\ server' = [server EXCEPT !.serves = Load(server)]
    /\ lost' = FALSE /\ mishaps' = mishaps - 1
    /\ UNCHANGED <<PlayOnly, step, whole>>

Edit ==
    /\ edits > 0
    /\ conf' \in Confs \ {conf}
    /\ edits' = edits - 1
    /\ UNCHANGED <<registryVars, step, run, zonefiles, cached, server, lost, whole, mishaps>>

Next ==
    \/ StartPlay \/ write_forward_zone \/ write_ptr_zone \/ write_zones_local
    \/ RegistryStep \/ RegistryFails \/ WriteSecondary
    \/ TemplateNamed \/ Synchronize \/ Reload
    \/ ReloadFails \/ Abort \/ Reboot \/ Edit

Spec == Init /\ [][Next]_vars

-----------------------------------------------------------------------------
(* Properties *)

\* The zones a configuration has.
ZonesOf(c) == {DomainZone(c.domains[i].name) : i \in DOMAIN c.domains}
                  \cup {ptr_zonename(c.nets[i]) : i \in DOMAIN c.nets}

Zones == UNION {ZonesOf(c) : c \in Confs}

\* Everything has its type, and every zone written has a name resolvers ask
\* for: that of a class or of the subdivision of one (write_ptr4_zone).
TypeOK ==
    /\ conf \in Confs /\ run.conf \in Confs
    /\ step \in {Idle, "records", "registry", "secondary", "named", "sync", "reload"}
    /\ \A zs \in {run.entries, local, cached.local, server.named, DOMAIN zonedir, DOMAIN server.dir,
                   DOMAIN server.serves} :
          zs \subseteq {z \in Zones : z.cut = 0 \/ z.cut \in 25..31}
    /\ gen.todo \subseteq registry
    /\ <<server.notified, lost, whole>> \in BOOLEAN \X BOOLEAN \X BOOLEAN
    /\ edits \in 0..MaxEdits /\ mishaps \in 0..MaxMishaps

\* After a play whose reload was made, the server has, for each address of a
\* host record or of a router that is in an own prefix whose zone was listed
\* before the play, one PTR record, in that zone, and the name in it has that
\* address in its own zone, if that one was listed too: ptr_records is filled
\* by all forward zones before a reverse zone is written.  The play that adds
\* a zone writes it and does not serve it.
OwnAddressesNamed ==
    whole /\ ~lost =>
    LET c == run.conf IN
    \A i \in DOMAIN c.domains, k \in DOMAIN c.nets :
    \A a \in Reversed(c, c.domains[i]) :
        Within(a, c.nets[k]) /\ ptr_zonename(c.nets[k]) \in cached.local =>
            LET zone == ptr_zonename(c.nets[k])
                ptr  == {p \in server.serves[zone] : p.ip = a}
            IN  /\ zone \in DOMAIN server.serves /\ Cardinality(ptr) = 1
                /\ \A p \in ptr : DomainZone(p.domain) \in cached.local =>
                                      p \in server.serves[DomainZone(p.domain)]

\* After such a play, whatever plays were aborted before it, PowerDNS serves
\* the files as make-dns-records.py left them, those of the list the play began
\* with and no other.  So a change of a record takes one play and a change of
\* the list two: the play that adds a zone leaves it out, the one that drops a
\* zone still serves its old file, and a play that did not change the list
\* serves the zones of the configuration it read.
ServesFiles ==
    whole /\ ~lost =>
        /\ server.serves = [z \in cached.local |-> zonedir[z]]
        /\ cached.local = local => DOMAIN server.serves = ZonesOf(run.conf)

\* A server is given a zone as a primary and as a mirror of the registry's
\* only when make-dns-records.py does not name the zone of an own prefix as
\* the registry does: lstrip strips zeros of the prefix too.  Nothing compares
\* the two lists named.conf is made of.
ClashesAreMisnamed ==
    \A z \in server.named \cap server.slaves :
        \E c \in Confs : \E i \in DOMAIN c.nets :
            Misnamed(c.nets[i]) /\ z = ptr_zonename(c.nets[i])

\* The lists the plays use mean what the registry means, in whatever order its
\* files were read; each forwarded zone has an anchor that says to trust it
\* or one that says not to; and a zone is mirrored when delegated, never
\* without its servers being known.
RegistryMeaning ==
    step \in {"named", "sync", "reload"} =>
    LET forwarded == Forwarded(registry)
        mirrored  == {f \in ZoneFiles(registry) : Delegated(f)} IN
    /\ recursor.forward =
          {[zone |-> ZoneOf(f), forwarders |-> Servers(registry, f)] : f \in forwarded}
    /\ recursor.trust = {ZoneOf(f) : f \in {g \in forwarded : g.ds}}
    /\ recursor.negative = {ZoneOf(f) : f \in {g \in forwarded : ~g.ds}}
    /\ secondary = {ZoneOf(f) : f \in mirrored}
    /\ \A f \in mirrored : Servers(registry, f) # {}
=============================================================================
