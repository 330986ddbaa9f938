--------------------------- MODULE RegistryZones ----------------------------
(***************************************************************************)
(* scripts/registry-to-pdns.py: the zones of the dn42 registry, made into  *)
(* the zones the recursors forward, with the anchors that tell DNSSEC to   *)
(* trust or not to trust them, and the zones the authoritative servers     *)
(* mirror.  The files are read one by one, in the order of pathlib's glob, *)
(* and what one file says of the delegation servers decides how the others *)
(* are understood: the constructor reads that one first.                   *)
(***************************************************************************)
EXTENDS PtrZone, FiniteSets

\* Definitions marked "Faulty" are what a bug would make of the definition
\* that follows; the specification does not use them.

CONSTANTS
    Registries,   \* the contents the registry may have when it is pulled
    Dn42Names     \* the domains that end in ".dn42"

(* A registry is a set of files: the directory, the zone its domain: line  *)
(* names or the prefix of its cidr: line, its nserver: lines and whether   *)
(* it has ds-rdata: lines.  The line of a name server has its kind, which  *)
(* is the ending of its name, the name and an address; the name of a kind  *)
(* "sync" spells the address out.                                          *)
NoIp == "none"
BadIp == "not an address"
Delegation == DomainZone("delegation-servers.dn42")

ZoneOf(f) == IF f.dir = "dns" THEN DomainZone(f.domain) ELSE get_ptr_zone(f.net)
Names(registry) == UNION {{f.nservers[i].name : i \in DOMAIN f.nservers} : f \in registry}

\* A value that is a sequence, whatever its elements.
IsSequence(s) == s \in Seq({s[i] : i \in DOMAIN s})

\* The lines of a file have an order.
ASSUME RegistriesAssumption ==
    \A files \in Registries : \A f \in files : IsSequence(f.nservers)

VARIABLES
    registry,   \* dn42-registry: the checked-out files
    gen,        \* the generator: the files it has yet to read, what it knows and what it has made
    recursor,   \* global-config/pdns-recursor/dn42-zones.yml
    secondary   \* global-config/dns-zones-secondary.yml

registryVars == <<registry, gen, recursor, secondary>>

-----------------------------------------------------------------------------
\* The ending of a name that makes a zone one of the delegation servers.
\* Faulty: the ending is that of any name of dn42.
uses_delegation_server_dn42(ns) == ns.kind \in {"delegation", "dn42"}

uses_delegation_server(ns) == ns.kind = "delegation"

\* The lines that _read_registry_dns_file does not skip.
Good(f) == {i \in DOMAIN f.nservers : f.nservers[i].ip # BadIp}

\* _delegation_server_ips after the i-th line of a file.
KnownAt(f, known, i) ==
    IF ZoneOf(f) # Delegation THEN known
    ELSE [s \in DOMAIN known |-> known[s] \cup
             {f.nservers[j].ip : j \in {k \in Good(f) : /\ k <= i /\ f.nservers[k].name = s
                                                       /\ f.nservers[k].ip # NoIp}}]

\* What the file says of its zone and of the delegation servers; a server must
\* be known by the line that names it.
ReadFile(f, known) ==
    LET servers(i) == KnownAt(f, known, i)[f.nservers[i].name]
        adds(i) == LET ns == f.nservers[i] IN
                   CASE ns.kind = "sync"       -> {ns.spelt}
                     [] ns.kind = "delegation" -> servers(i)
                     [] ns.kind = "dn42"       -> {}
                     [] OTHER                  -> {ns.ip} \ {NoIp}
    IN  [known     |-> KnownAt(f, known, Len(f.nservers)),
         addresses |-> UNION {adds(i) : i \in Good(f)},
         delegated |-> \E i \in Good(f) : uses_delegation_server(f.nservers[i]),
         ok        |-> \A i \in Good(f) : f.nservers[i].kind = "delegation" => servers(i) # {}]

\* Faulty: every reverse zone of the registry is forwarded.
is_forward_zone_arpa(zone, e) == zone.domain \notin Dn42Names

is_forward_zone(zone, e) ==
    /\ zone.domain \notin Dn42Names
    /\ zone.domain \in Arpa => e.delegated

\* Faulty: the delegation servers are left for their turn among the others.
ConstructUnread(files) ==
    [todo |-> files, known |-> [s \in Names(files) |-> {}], ok |-> TRUE,
     all_zones |-> {}, mirrored |-> {}, forward |-> {}, trust |-> {}, negative |-> {}]

\* The constructor: the file of the delegation servers is read, and will be
\* read again with the others; without it, or without addresses in it, there is
\* no generator.
Construct(files) ==
    LET blank == [s \in Names(files) |-> {}]
        f     == CHOOSE f \in files : ZoneOf(f) = Delegation
        e     == ReadFile(f, blank)
        found == \E g \in files : ZoneOf(g) = Delegation
    IN  [todo |-> files, known |-> IF found THEN e.known ELSE blank,
         ok |-> found /\ e.ok /\ e.addresses # {},
         all_zones |-> {}, mirrored |-> {}, forward |-> {}, trust |-> {}, negative |-> {}]

\* populate_zone for one file.  An address that failed to resolve, or a zone
\* that was seen before, is the end of the run.
populate_zone(g, f) ==
    LET zone  == ZoneOf(f)
        e     == ReadFile(f, g.known)
        fwd   == is_forward_zone(zone, e) /\ e.addresses # {}
    IN  IF zone = NoZone THEN [g EXCEPT !.todo = @ \ {f}]
        ELSE [todo      |-> g.todo \ {f},
              known     |-> e.known,
              ok        |-> e.ok /\ zone \notin g.all_zones,
              all_zones |-> g.all_zones \cup {zone},
              mirrored  |-> IF e.delegated THEN g.mirrored \cup {zone} ELSE g.mirrored,
              forward   |-> IF fwd THEN g.forward \cup {[zone |-> zone, forwarders |-> e.addresses]}
                            ELSE g.forward,
              trust     |-> IF fwd /\ f.ds THEN g.trust \cup {zone} ELSE g.trust,
              negative  |-> IF fwd /\ ~f.ds THEN g.negative \cup {zone} ELSE g.negative]

\* generate chains three globs; the order within each is the file system's.
Next_dir(g) == IF \E f \in g.todo : f.dir = "dns" THEN "dns"
               ELSE IF \E f \in g.todo : f.dir = "inetnum" THEN "inetnum" ELSE "inet6num"

generate ==
    \E f \in gen.todo :
        /\ gen.ok /\ f.dir = Next_dir(gen)
        /\ gen' = populate_zone(gen, f)
        /\ UNCHANGED <<registry, recursor, secondary>>

write_recursor_config ==
    /\ gen.ok /\ gen.todo = {}
    /\ recursor' = [forward |-> gen.forward, trust |-> gen.trust, negative |-> gen.negative]
    /\ UNCHANGED <<registry, gen, secondary>>

write_secondary_zones_list ==
    /\ secondary' = gen.mirrored
    /\ UNCHANGED <<registry, gen, recursor>>

-----------------------------------------------------------------------------
(* What the files of the registry mean, whatever their order.  The servers *)
(* of a zone are the addresses of its own lines and, for a delegation      *)
(* server, those the registry gives for it in the zone of that name.       *)

Lines(f) == {f.nservers[i] : i \in Good(f)}
ServerIps(files, name) ==
    {ns.ip : ns \in {l \in UNION {Lines(f) : f \in {g \in files : ZoneOf(g) = Delegation}} :
                       l.name = name /\ l.ip # NoIp}}
Delegated(f) == \E ns \in Lines(f) : ns.kind = "delegation"
Servers(files, f) ==
    UNION {CASE ns.kind = "sync" -> {ns.spelt}
             [] ns.kind = "delegation" -> ServerIps(files, ns.name)
             [] ns.kind = "dn42" -> {}
             [] OTHER -> {ns.ip} \ {NoIp} : ns \in Lines(f)}
ZoneFiles(files) == {f \in files : ZoneOf(f) # NoZone}
Forwarded(files) ==
    {f \in ZoneFiles(files) : /\ ZoneOf(f).domain \notin Dn42Names
                              /\ ZoneOf(f).domain \in Arpa => Delegated(f)
                              /\ Servers(files, f) # {}}

\* A delegation server without an address; no file of the delegation servers,
\* or one without addresses or with a server named before its first address;
\* two files of one zone.
Flawed(files) ==
    \/ \E f \in ZoneFiles(files) : \E ns \in Lines(f) :
          ns.kind = "delegation" /\ ServerIps(files, ns.name) = {}
    \/ \A f \in files : ZoneOf(f) = Delegation => Servers(files, f) = {}
    \/ \E f \in files : /\ ZoneOf(f) = Delegation
                        /\ \E i \in Good(f) :
                              /\ f.nservers[i].kind = "delegation"
                              /\ \A j \in Good(f) : f.nservers[j].name = f.nservers[i].name =>
                                    j > i \/ f.nservers[j].ip = NoIp
    \/ \E f, g \in ZoneFiles(files) : f # g /\ ZoneOf(f) = ZoneOf(g)

\* The script fails only on a registry that is flawed: as the servers of the
\* delegation are read first, no order of the files makes it miss one.
FailsForCause == ~gen.ok => Flawed(registry)
=============================================================================
