# A formal model of the dn42 automation

This directory holds TLA+ models of the programs in this repository: the
scripts that maintain the configuration of a dn42 network and the Ansible roles
that bring its routers in line with it. TLC checks the models on small
instances, TLAPS proves theorems about them for every value of their constants.

    tlc -workers 2 -config IgpTunnels_careful.cfg MCIgpTunnels.tla   # model-check a run
    tlapm IgpTunnelsProofs.tla                                       # check the proofs

`PROJECT.json` lists the components, the runs, the theorems, the lines each
definition models (`map`), the hazards the properties are aimed at, and for
every property a faulty variant of the code that violates it (`mutants`; the
variants are the definitions marked "Faulty" in the modules, which no
specification uses).

## 1. The system

An operator keeps a git checkout of the repository on a workstation. Scripts
edit YAML files in it, a CI job verifies them, and Ansible playbooks configure
the routers from them. Cron jobs on the routers measure latencies and adjust
BIRD. There is no server and no lock: everything hard about the system comes
from files that several programs read, change and rewrite at their own pace,
and from routers that are configured at different times.

### 1.1 Components

| Component | State it keeps | Operations | Interacts with |
|---|---|---|---|
| **IGP tunnel enumeration** (`scripts/enumerate-igp-tunnels.py`) | `global-config/igp-tunnels.yml`: `next_port`, `igp_neighbours`, `igp_wg_ports` | read the file, clear the neighbours, add a tunnel per pair of `igp_upstreams`, rewrite the file | run by `reconfigure.yml` and `reconfigure-bird.yml` through `update-local-state.yml`; its file is read by `read-peers`, `config-igpping`, the packet filter and `ospf_interfaces.conf.j2` |
| **Peer store** (`scripts/peerconfgen/peerconfgen.py`, `peerconfrm.py`) | `roles/config-wireguard/config/<router>.yml`: the list `wg_peers` | create the file, add, replace or remove a block | prompts an operator; shares the file with `autoprune.py`, editors, git, `ci-verify.py`, `read-peers` |
| **Peer questions** (`validators.py`, `utils.py`, `birdoptions.py`, `pingtest.py`) | none | turn answers into the fields of a block, latency into flags | called by `peerconfgen` |
| **Peer pruning** (`autoprune.py`) | none on disk; reads the git blame of the file and Prometheus | find lost peers, remove them | `remove_peer`; the BGP sessions of the router |
| **Peer verification** (`scripts/ci-verify.py`) | none | reject files with duplicate names, ports, bad options | CI, on what the operator pushes |
| **Tunnel deployment** (roles `read-peers`, `prune-interfaces`, `config-wireguard`, `config-gre-plain`, `config-ifupdown-common`) | interface files and running links of each router | compute the wanted interfaces, remove, stop, write, restart; `ifup`, which may fail, there and at boot; resets by cron (`scripts/wg-autoreset.sh`) | reads the IGP tunnels and the peer store; routers send to each other's ports |
| **IGP costs** (`scripts/igpping/igpping.py`, role `config-igpping`) | one cost file per neighbour; a cron job | ping, compute a cost, rewrite the file, `birdc configure` | BIRD includes the cost files |
| **BIRD configuration** (role `config-bird2` and its handler) | `/etc/bird/`: the main file, peers, static parts | write, remove unknown files, reconfigure on change | includes the files of the IGP costs |
| **BIRD filters** (`community_filters.conf`, `custom_filters.conf.j2`, `ibgp.conf.j2`) | communities on routes | classify latency, bandwidth and encryption of a path | route exchange between routers |
| **Anycast services** (`anycast_services.conf.j2`, role `config-loopback`) | dummy interfaces, a direct protocol | announce a prefix while a service runs | systemd units, BIRD |
| **DNS zones** (`make-dns-records.py`, `registry-to-pdns.py`, role `config-powerdns`) | generated zone files and lists of zones, on the workstation and on the server | derive records and reverse zones, read the registry, copy, reload | the dn42 registry, PowerDNS |
| **Ansible plugins, maintenance, statistics, web, application roles** | - | formatting, reports, packages | - |

### 1.2 What is hard about it, and what makes it correct

* **IGP tunnel enumeration.** `main()` reads the file, works in memory and opens
  the file for writing, which truncates the only copy of every port allocation.
  It is a step of two playbooks, with no lock; an interrupted playbook kills it
  anywhere; a router that lists itself ends it with a `ValueError`. It is
  correct when both ends of a tunnel are given one port, no two tunnels share
  one, the neighbours all have ports (the roles index the mapping without a
  check), and, over time, when the port of a pair of routers *never changes and
  is never given to another pair*: routers are configured at different times,
  from different versions of the file.
* **Tunnel deployment.** A play reads the plan once and then works item by item:
  files are removed, then the links whose removal was reported are stopped,
  then files are written, then the links whose file changed are restarted.
  What a task *reported* is lost when the play fails; an `ifup` that fails is
  ignored; cron resets links in three commands between any of these items.
  Correct when two ends that run a tunnel agree on its port at any time, when a
  router never runs two links on one port, when a router between plays runs what
  its files say, less what could not be brought up, and when that comes up later.
* **Peer store.** Read at the start, written back whole after minutes of
  questions, overwritten in place and truncated at the end. Names are cut to ten
  characters, so that different peers can share an interface. Correct when a
  name occurs once, and a block leaves the file only when a command said so.
* **Peer pruning.** Works on line ranges, AS numbers and sessions, none of which
  is a block; a run that removed something makes the file dirty, and the next
  one refuses to work. Correct when it never removes a peer that has been up,
  or one that is new, and does remove the ones that never come up.
* **IGP costs and BIRD.** A file that BIRD includes is truncated and rewritten
  by cron while a handler may run `birdc configure`, which then keeps the old
  configuration; the handler's notification is lost when a play fails;
  `reconfigure-bird.yml` writes includes of files that only the role of another
  playbook creates. Correct when a reload that was due is lost for these reasons
  and no other, when cost files are usable when nobody writes them, and when
  cron and later plays mend everything.
* **DNS zones.** Zones are written one by one into files that stay when a later
  one raises; reverse zones are made of what the forward ones left in a
  dictionary; the registry is read in the order of the file system while one
  file explains others; a server gets lists and files in separate tasks, the
  lists as they were *before* the scripts of the playbook rewrote them, and a
  failed reload is ignored. Correct when names and addresses agree in both
  directions, when the server serves what was written of the zones it was told
  of, and when no order of files changes what the registry means.
* **Verification.** One pass over the files of all routers, in the order in which
  the directory lists them, with sets of the names and ports seen so far.
  Generator, verifier and template each have their own reading of the same
  fields. Correct when the verdict does not depend on the order, when what
  `peerconfgen` writes passes and when what passes can be deployed.

## 2. The modules

    PortPlan ----- implemented by ----> IgpTunnels ---- MCIgpTunnels, IgpTunnelsProofs
        \_________ assumed by (its steps as environment) --> TunnelDeploy ---- MCTunnelDeploy, TunnelDeployProofs
    PeerBook ----- implemented by ----> PeerStore (runs that do not overlap)
    PeerConfig --- extended by -------> PeerStore ---- MCPeerStore, PeerStoreProofs
        \_________ extended by -------> Autoprune ---- MCAutoprune, AutopruneProofs
        \_________ theorems in -------> PeerConfigProofs, extended by the two above
    PeerBlock ---- extended by -------> PeerVerify ---- MCPeerVerify, PeerVerifyProofs
    PingCost ----- extended by -------> IgpCosts ---- MCIgpCosts, IgpCostsProofs
    PtrZone ------ extended by -------> RegistryZones ---- DnsZones ---- MCDnsZones, DnsZonesProofs

`PortPlan` is the interface between the workstation and the routers: a plan is
published that only ever *adds* grants (a pair of routers, a port), so that a
port once told stays told. `IgpTunnels` is shown to implement it, and
`TunnelDeploy` relies on nothing else: the two proofs together say that routers
configured at any pace from any mixture of versions agree.

### 2.1 IgpTunnels

Models `enumerate-igp-tunnels.py` line by line of control. `outfile` is the
file in the work tree (missing, torn, or a mapping), `committed` the one in the
git history. A run `r` is at `pc[r]` and holds `data[r]` in memory.

| Action | Code |
|---|---|
| `ReadPreviousSettings(r)` | `_read_previous_settings`: template, file, or the exception on a file that holds no mapping |
| `ReadHosts(r)` | lines 51-62: neighbours cleared, ports kept; the tunnels to add, without those between two routers with `auto_tunnels: false` |
| `Link(r)` | one round of the loop: `AddTunnel`, neighbours on both sides, and a port for both directions if the pair has none; a self-link ends the run |
| `Truncate(r)`, `Write(r)` | `open(OUTFILE, 'w')` and `yaml.dump`, two steps between which anything may happen; over what another run wrote since the truncation, the tail of a longer text stays behind and the file no longer parses |
| `WriteUnlinked(r)` | the same `yaml.dump` after the file was deleted under the open descriptor: the text goes with it, and the file stays missing |
| `Kill(r)` | an interrupted playbook, anywhere |
| `EditHosts`, `Commit`, `Checkout`, `RemoveFile` | the operator, external |

`Mishaps` says which of the things an operator can do wrong may happen:
overlapping runs, a run from an uncommitted file, a reset of a good file, its
deletion. `published` is a history variable: every grant that was ever in a file
that parses, which is what some router may have been configured with.

### 2.2 TunnelDeploy

One play per router at a time, routers independent of each other.

| Variable | Code |
|---|---|
| `conf`, `link` | the interface files; the port each running link has |
| `ifstate`, `failed` | the interfaces that ifupdown takes to be up; those a failing `ifup` left there but down |
| `play`, `want`, `changed` | the task the play is at, what it read, what its tasks reported |
| `reset` | the next command of `wg-autoreset.sh` for an interface |
| `stale` | history: links were left behind since the router booted |

| Action | Code |
|---|---|
| `ReadPeers` | takes the plan as it is at that moment |
| `RemoveConf`, `StopLink`, `WriteConf`, `RestartLink` | one item each, in the order of the roles. `RestartLink` is `ifdown --force; ifup` under `ignore_errors`: its `Ifup` has two outcomes, and the play goes on after either |
| `Finish`, `Abort` | the play ends; what its tasks reported is lost |
| `Reboot` | `ifup -a --ignore-errors`: any set of the interfaces may fail |
| `ResetDown`, `ResetDelete`, `ResetUp` | `ifdown`, `ip link del` and `ifup` of `wg-autoreset.sh`, which cron runs whatever a play does between them. `ifdown` and `ifup` go by what ifupdown remembers: `ifdown` does nothing to an interface that failed to start, `ifup` nothing to one a play has brought up meanwhile, even if `ip link del` then took its link away |

The plan changes under it: `IssueGrant`, `ReplacePlan` and `LosePlan` are the steps
a `PortPlan` may take, in any order.

### 2.3 PeerConfig, PeerBook, PeerStore, Autoprune

`PeerConfig` holds what the scripts compute from a list: the shortened names
(`Iface`, not injective), the loop that looks for a name, the update, and the
removal. `remove_peer` deletes from the list it enumerates and so passes over the
block after each deleted one; `Removed` is that loop, a list for every place it has
been at, and `Visited` one round of it. `PeerStore` is the file and every
access to it by runs of `peerconfgen` and `remove_peer`: the test whether it is
there and its creation are two steps, so are the pieces of a long write and the
truncation that follows. Each run has a command line and a list in memory; the
questions are one step with any AS number as the answer. `PeerBook` is what the file
is for: a set of blocks and the git history, and requests that each change it at once,
as they say, or are given up; a run of `PeerStore` maps to a request (`Request`). A block is a name and
an AS number; its other fields decide nothing here. `Autoprune` is a run of the
script in three steps (file and history; Prometheus; removal) against the work
tree (whose edits append or delete a block), `HEAD`, the age of each block, and the sessions of the router.

### 2.4 PeerBlock, PeerVerify

`PeerBlock` holds one block with all its fields, each reduced to what the
programs tell apart, and four views of it: what the questions let through and
`peerconfgen` makes of it (`Answers`, `Options`, `Generated`), what
`ci-verify.py` asks of it (`Valid`), and which sessions `dn42_peers.conf.j2`
writes and where `get_dn42_remote_ip` finds the neighbour (`Sessions`,
`RemoteIp`). `PeerVerify` is the program: `OpenFile` takes any file of the type
under way that was not read yet (`glob` promises no order), `CheckBlock` one
block, `CloseFile` and `EndLoop` move on, `Fail` is the exception that ends it.
An empty file, as `--create` may leave one, is an exception too. The tree that
is verified is any one of the constant `Trees`.

### 2.5 PingCost, IgpCosts

`PingCost` is `calc_costs` and the fallback of `write_costs`. A line of fping is
the number of answers and the sum of their times; times are whole milliseconds,
which truncation makes no difference to. `IgpCosts` is one router:

| Variable | Code |
|---|---|
| `wanted` | what `igp_neighbours` and `lookup('serverhost')` give when a template asks |
| `hosts`, `cost` | `igpping-hosts.txt`; `rxcost/<host>.conf`: missing, opened (empty), with the rest of a longer number behind a shorter one (torn), or a cost |
| `conf`, `running` | the interfaces file; what BIRD runs |
| `play`, `cron`, `run` | the task a play is at with what it registered and notified, the cron job, and the run of `igpping.py` of each |
| `stale`, `broken` | history: a change that no reload took up; cost files that no whole run has mended |

`Open` and `Flush` are the two ends of the `with` of `write_costs`, since the few
characters of a cost leave the buffer when the file is closed. Two runs may
overlap, and one may have a list of hosts that a play has replaced. `Configure`
is BIRD: all or nothing, and silent about it. `TemplateHosts` starts
`reconfigure.yml`, `StartBird` starts `reconfigure-bird.yml`. The tasks of
`reconfigure.yml` that touch none of these files come before `TemplateHosts` and
are those of `TunnelDeploy`.

### 2.6 PtrZone, RegistryZones, DnsZones

`PtrZone` has the two ways in which a reverse zone gets its name, over addresses as
sequences of octets or nibbles; `Misnamed` says where the two differ. `RegistryZones`
is `registry-to-pdns.py`: `ReadFile` is what `_read_registry_dns_file` gets out of one
file, line by line, given what is known of the delegation servers by then (`KnownAt`);
`Construct` reads the file of these servers first, `generate` takes any file of the
directory under way, `populate_zone` is what becomes of it. `DnsZones` is the
playbook: `StartPlay` is the moment ansible reads group_vars, and with them the two
lists of zones (`cached`) that the play will template `named.conf` from; the play
counts the zones it has written;
`write_forward_zone` and `write_ptr_zone` write one zone each, `write_zones_local`
the list; then the registry; then `TemplateNamed` (with the cached lists: no task of
`anycast-dns.yml` or `config-powerdns` reads them again, as `read-peers` does with
`igp-tunnels.yml`), `Synchronize` and `Reload` on the server. An exception (an alias of an unknown host, a prefix no zone name is made
of, a flawed registry) ends the play where it is, with the files as they are.
`Abort` may leave any part of the zone files copied. PowerDNS is external: it
serves what it has loaded, a reload loads the named zones whose files are there.
Each play reads the configuration and the registry of its time, and the lists of the
play before it.

## 3. The runs

| Run | Checks | Result |
|---|---|---|
| `igp_careful` | `TypeOK`, `FileWellFormed`, `NeverReassigned`, `AllocationsStick`, `ImplementsPortPlan` with one run at a time and no mishaps | hold |
| `igp_live` | `Converges` and `FileWellFormed` with deletions and uncommitted files | hold |
| `igp_overlap` | `NeverReassigned` with two runs that overlap | **violated** (section 7) |
| `deploy` | `TypeOK`, `NoListenClash`, `IdleRunsConf`, `Converges`, `FailedRecover` on a router with two tunnels | hold |
| `deploy_ends` | `EndpointsAgree` with both ends of a tunnel configured | hold |
| `peers` | `TypeOK`, `UniqueNames`, `LeavesOnlyIfTold`, `RemovesLoneMatches`, `StepsOfBook` with two runs that overlap | hold |
| `peers_lost_update` | `OnlyReplaceOverwrites` | **violated** |
| `prune_careful` | `TypeOK`, `MarksOnlyInactive`, `PrunesOnlySettled`, `LostPeersGo`, one session and one block per AS | hold |
| `prune_sessions` | `MarksOnlyInactive` with a peer that has two sessions | **violated** |
| `verify` | `TypeOK`, `VerdictRight`, `SessionsRender`, `GeneratedPass` | hold |
| `igp_costs` | `TypeOK`, `IdleRunsConf`, `CostsInPlace`, `SilentIsWorst`, `Heals` | hold |
| `dns` | `TypeOK`, `OwnAddressesNamed`, `ServesFiles`, `ClashesAreMisnamed`, `RegistryMeaning`, `FailsForCause` | hold |

What the less obvious properties say:

* `FileWellFormed`: in a file that parses, ports are symmetric, distinct for
  distinct pairs, below `next_port`, and every neighbour has one, on both sides.
  It holds *whatever* mishaps are allowed: overlap and kills cannot produce a
  file that parses and cannot be deployed, as long as a text that is followed by
  the tail of an older one does not parse (section 6 says what this leaves out).
  TLC checks two of the mishaps, the theorem all of them.
* `NeverReassigned`: among all grants ever published, a pair has one port and a
  port one pair. This is the property about history that deployment depends on.
* `AllocationsStick`: what was ever published is in every readable file.
* `EndpointsAgree`: two *running* ends have one port, though each side was
  configured from a version of its own.
* `Converges` (of `IgpTunnels`): in every readable file the neighbours are in the end
  those of `hosts.yml`, with deletions going on for ever; that there is a readable
  file again and again needs that they cease, since a run may find the file deleted
  each time it writes.
* `IdleRunsConf`: a router between plays runs its files, less the links whose `ifup`
  failed or which are being reset, unless it was left *stale*. It never runs a link
  that is in no file, or on another port. The exception is real, and there are two
  ways into it: an aborted play, whose tasks' reports are lost, so that files look up
  to date to the next one; and a reset whose `ip link del` takes away what a play had
  just brought up, and whose `ifup` then finds the interface up by ifupdown's books.
  Only a reboot is sure to help.
* `Converges` (of `TunnelDeploy`): plays that are not interrupted bring a router that
  is not stale in line with the plan, less the same two kinds of links. More than that
  is not true: when an `ifup` failed, the file is in place, the template reports no
  change, and no number of plays brings the link up.
* `FailedRecover`: cron does. Where it resets the interfaces that failed to start, none
  of them stays down for ever, unless the `ifup` of the reset fails each time.
  Its mutant, a reset without `ip link del`, leaves the interface where it is.
* `LeavesOnlyIfTold`: a run that works from the list that is in the file (the
  history variable `clean`) removes nothing it was not told to, in spite of what
  the others read, write and tear. `peers_lost_update` shows why the condition
  is needed.
* `StepsOfBook`: every change of the list is one step of `PeerBook`, by the request of
  the run that makes it, unless that run is late (`Stale`: it writes what it made of
  an older list, or creates a file that is there by now). Loading, questions, writing
  in pieces and truncation amount to one change, whatever others begin, tear or give
  up in between.
* `VerdictRight`: the verdict of a loop that remembers what it saw is that of a
  definition over the whole tree (`Deployable`), in whatever order the files come.
  It speaks both ways: no bad tree passes and no good one is rejected.
* `SessionsRender`: what passes can be turned into BIRD's configuration, but for
  own networks of the wrong size (or an own address at the end of its network),
  which the verifier does not look at. The exception is exact: nothing else that
  passes makes the template raise.
* `GeneratedPass`: no combination of families and BGP options that `peerconfgen`
  offers gives a block CI rejects. Its conditions are what the questions do not
  ask for: an address in dn42's ranges (the validator takes any private one), an
  endpoint and an MTU that make sense, and AS numbers with last digits that
  differ on a router and are not those of the own AS.
* `LostPeersGo`: a run passes over the second of two lost neighbours, but
  repeated runs remove every lost peer in the end.
* `IdleRunsConf` (of `IgpCosts`): between plays BIRD runs the interfaces on disk,
  unless `stale`: a play stopped between the change and the handler, or BIRD
  refused the configuration over a cost file. Cron, which reloads and rewrites at
  any time, adds no other way.
* `CostsInPlace`: when no run of `igpping.py` is at work, every neighbour pinged has
  a cost file BIRD accepts, unless `broken`. `broken` is raised by what the code can
  do wrong (a run killed, a `Bootstrap` that an aborted play skipped, two writers that
  tear a file) and lowered by one whole run that had the files for itself.
* `SilentIsWorst`: needs room between the worst measured cost and the fallback,
  which `global-config/igpping.yml` leaves (`RoomAssumption`); the code checks nothing
  of the kind.
* `Heals`: after the last edit and mishap, BIRD has the neighbours of the plan with
  the costs last measured, again and again. Cron is what makes it true: the
  mutant whose cron job measures without reloading violates it.
* `OwnAddressesNamed`: every own address that has a name of the two kinds the code
  reverses has exactly one PTR record, in the zone of its prefix, and the name in it
  has that address. It relates two zones written at different moments through
  `ptr_records`. It is about zones that were listed when the play started: the play
  that adds a zone writes it and does not serve it.
* `ServesFiles`: whatever plays failed before it, one play whose reload is made
  brings the server in step with the files on the workstation, for exactly the zones
  of the list it started with, and nothing older stays. So a change of a record takes
  one play and a change of the list two: the play that adds a zone leaves it out, the
  one that drops a zone still serves its old file. A play that leaves the list as it
  was serves the zones of the configuration it read.
* `ClashesAreMisnamed`: a zone that the server has both as a primary and as a mirror
  comes from an own prefix that `make-dns-records.py` does not name as the registry
  does: one that ends in a zero label (section 7), that ends within a nibble, a single
  IPv4 address, or a prefix of length 0, whose zone `get_ptr_zone` gives a leading dot. One of the configurations has such a prefix, and there the
  clash occurs. That the registry does not delegate the own zones themselves to the
  servers that mirror is the assumption `OwnAssumption`.
* `RegistryMeaning`, `FailsForCause`: the lists are those of a definition over the
  whole registry, and the script fails only on a registry in which a server has no
  address or a zone two files, in whatever order the files are read.

### 3.1 Bounds

| Run | Instance | Why it is enough |
|---|---|---|
| `igp_*` | routers 1, 2, 3; `igp_careful`: all three tunnels, two of them listed from both ends, one router with `auto_tunnels: false`; `igp_live`: two tunnels and a self-link; `igp_overlap`: two tunnels, two runs. No bound on ports: there are as many as pairs | two pairs are needed to see a port given twice, three routers to share one between pairs; two runs to overlap |
| `deploy` | three routers, of which one is configured and has cron; two possible tunnels that meet at it, two ports | two tunnels at one router can clash. The number of plays, aborts, failures, resets and reboots is not bounded |
| `deploy_ends` | two routers, both configured and with cron, one possible tunnel, two ports | both ends of one tunnel, each at its own pace. Not bounded either; the theorem is for any number of tunnels |
| `peers` | two runs, four peers with three interface names, seven command lines, one AS number | three blocks let a block follow a deleted one and be followed by another; two peers share a name. The second AS number is left out: removal by name already tells the blocks apart, and removal by AS matches all |
| `prune_*` | three peers | one peer between two lost ones |
| `verify` | one block in every combination of the fields one check looks at (about 15 000), and two routers with up to two WireGuard blocks and one GRE block of four names and three ports; AS numbers of seven digits, since TLC's integers have 32 bits | two blocks collide or do not; names across the types, ports not; the loop is proved for any number |
| `igp_costs` | two neighbours, which answer one of two pings or none, so that costs have three and five digits; `MaxEdits` = 1, `MaxMishaps` = 1. Plays, cron jobs and runs are not bounded | the second neighbour is written while the first is not; costs that differ by two digits can tear a file; the safety properties are proved without the bounds |
| `dns` | five configurations (moved addresses, an address with two names, an unknown alias, a prefix with a zero label, one without a zone), three registries (a good one, one with a missing server, one with a zone in two files), IPv6 addresses of six nibbles; `MaxEdits` = 2, `MaxMishaps` = 1 (aborts, failed reloads, reboots). Plays are not bounded | two edits give three versions, of which the server, the workstation (files and lists, and the lists a play has cached) and the work tree may each have one; one mishap must be made up for by later plays |

Apart from the named bounds (`MaxEdits`, `MaxMishaps`) there are no constraints:
every run explores its whole state space.
`peers` uses the symmetry of the two runs; it has no liveness property.

## 4. Fairness

The system has no scheduler: what happens again and again is what the operator
does again and again, and the fairness assumed is that they keep at it.

* `IgpTunnels!FairSpec`: the playbooks are run again and again, and each run of
  the script goes on (`RunStep`, whose first step is the start); what it wrote is
  committed, a torn file is repaired, as otherwise every playbook fails. No fairness on edits,
  kills and deletions. `Converges` has the premise that edits and kills cease and
  that no router lists itself: every run with such a line fails, in the code as
  in the model. Deletions may go on for ever for its first half; its second half, that
  a readable file is there again and again, has the premise that they cease.
* `TunnelDeploy!FairSpec`: plays are started and proceed. On a router with cron, which
  starts the script every three hours, an interface that failed to start has its turn
  again and again (strong fairness on its `ResetDown`, since the script may be at
  another interface whenever one looks), and a reset that was begun goes on: strong
  fairness on `ResetDelete`, as a reboot may cut a reset short, though not every one,
  and weak fairness on `ResetUp`. `FailedRecover` has the premise that `ifup` does not
  fail each time, stated as strong fairness of a `ResetUp` that succeeds.
  None on plans, aborts and reboots. `Converges` has the premise that the plan no longer changes and
  that plays are not interrupted; `Interrupt` leaves out the steps that look
  like an abort but are the normal end of a play, as otherwise the premise would
  be met by no behaviour and the property would say nothing.
* `Autoprune!FairSpec`: the script is run, changes are committed (as otherwise
  it refuses to run), and blocks get old. `LostPeersGo` has the premise that
  runs are not stopped and the operator makes no edits.

* `IgpCosts!FairSpec`: a task that can run runs, cron comes round every two hours
  (`minute: 15`, `hour: */2`) and a started run goes on. None on edits, mishaps and
  the plays of `reconfigure-bird.yml`. Strong fairness on `TemplateHosts`, as a play
  of either kind may be under way whenever one looks: the operator who runs
  `reconfigure-bird.yml` all the time is assumed to run `reconfigure.yml` now and then.

But for these, all of it is weak fairness: no action that is enabled only now
and then has to be taken.

## 5. What is proved

`IgpTunnelsProofs` (for any set of numbered routers, any links, any number of
runs, any start port above 0):

* `FileAlwaysWellFormed`: `Spec => []FileWellFormed`, *whatever the mishaps*.
  `FileWellFormed` speaks of the file; it is not inductive, as a file is what
  some run had in memory, and a run's memory what some file held. The
  inductive invariant is `AllWellFormed`: the file, the committed file and the
  memory of *every* run are well-formed. Each of them only ever becomes the
  template, a copy of another, or the result of `AddTunnel`, and the lemmas show
  that this preserves symmetry, distinctness and the bound `next_port`.
* `PortsNeverReassigned` and `PortAllocationsStick`, for `Mishaps = {}`. The
  grants that come next are those of a run's memory, which came from a file that
  a kill may since have torn, so neither is inductive; the invariant
  `GrantsSurvive` follows the published grants through the file, the commit that
  would repair it, and the memory of the one run under way. It needs that runs do
  not overlap, as `igp_overlap` shows, and that they start from a committed file.
* `PortPlanImplemented`, for `Mishaps = {}`: initial states map to initial
  states, every step to a step of `PortPlan` or a stutter.

`TunnelDeployProofs` (for any routers, links and ports), over `OpenSpec`, in which
the plan does whatever a `PortPlan` may do:

* `EndpointsAlwaysAgree`, from the invariant `InUseGranted`: every port a play has
  read, a file holds or a link runs on was granted to that pair, whichever
  version of the plan it came from. Grants are never withdrawn and one to one.
* `NeverListenClash`, from the same two facts.
* `IdleAlwaysRunsConf`, with failing `ifup`s, and cron resetting links in three commands
  between any items of a play. `IdleRunsConf` speaks of the time between plays; the
  invariant `DifferOnChanged` extends it into the play: on a router that is not
  stale, file and link differ only at the items that the loop under way reported
  as changed, which the next loop takes up, and where a link is down for a failed
  `ifup` or a reset (`InLine`).
* `Opens` and `PlansAsPromised`: the specification TLC runs, `Spec`, in which a plan
  grows by one grant at a time and a file lists links that were granted, implements
  `OpenSpec` and keeps the promise of `PortPlan`. That every neighbour a file lists has
  a port, at both ends, is the invariant `BothEnds` of the grants and the plan.
  `TypeCorrect` and `LinksAlwaysRight` (the three invariants of the links) are what
  follows for `Spec`: what TLC checks is an instance of what is proved.

`PeerVerifyProofs` (for any trees, routers, names and AS numbers, and files of
any length):

* `VerdictAlwaysRight`. `VerdictRight` says nothing before the end of the
  program; the invariant `Inv` says it of the blocks checked so far: the ones of
  a file that was passed are all of it (`Progress`), what was checked is valid
  and differs, its names and ports have been noted (`Seen`), and what was noted
  is of a checked block of the same router (`Owned`). `Seen` is needed for the OK
  and `Owned` for the error: a name that was noted for another reason would
  reject a good tree.
* `SessionsAlwaysRender`, from it and a lemma about one valid block.
* `GeneratedAlwaysPass`, from it and a lemma about one generated block, with the
  arithmetic of listen ports for any AS number.

`IgpCostsProofs` (for any set of neighbours, any costs the assumptions allow, and
any bounds), each from the inductive invariant `IInv`:

* `IdleAlwaysRunsConf`. What is on disk and what BIRD runs differ only if the play
  under way has it in its notification or the router is `stale`.
* `CostsAlwaysInPlace`. The invariant follows a host of the list on disk to the
  place that accounts for its cost file: usable, still to be written or open in a
  clean run, in the hands of a play that registered the change, or `broken`. A run
  counts only while it is `clean`, that is, alone with the files since it read the
  list that is still there.
* `SilentAlwaysWorst`, from `RoomAssumption` and the bounds of a truncated average,
  and `TypeCorrect`.

`PeerConfigProofs` (for lists of any length), about the two programs' effect on a list:

* `RemovedFacts`. `Looked` is the invariant of the loop over the places: after `n` of
  them, the places to come hold what the list held, moved by as many places as there
  were deletions; the blocks that do not match are still there; and of those passed,
  the ones that match and do not follow one that matches (`Lone`) are gone. The first
  part is what makes the last one true: it says *which* block the loop meets next.
* `RemovesSome`: the first block that matches always goes, so that a removal repeated
  until it changes nothing leaves no match, which is what `autoprune.py` relies on.
* `UpdatedFacts`, by cases on whether the name is taken.

`PeerStoreProofs` (for any peers, any way of shortening their names, any command
lines, and any number of runs that overlap as they please):

* `NamesStayUnique`. The file is what some run had in memory, which was made of what a
  file held: the invariant `Unique` is about the file, the committed file and the
  memory of every run. That the runs work from stale lists does no harm to it.
* `AlwaysLeavesOnlyIfTold` and `AlwaysRemovesLoneMatches`. Both are about the step that
  completes a file and compare it with the last complete one, `book`, which may have
  been torn or truncated since. The invariant `Held` says what a run that works from
  `book` holds in memory at each of its steps (`Works`): the list, and after the
  questions `Updated` or `Removed` of it; and that a name which is taken is only
  replaced on request, as was decided when the list was loaded.
* `OnlyReplaceOverwritesAlone`: under `~Overlap` what the README says of `--replace` is
  true. The invariant `Alone` says that a run past loading works from the list in the
  file; `peers_lost_update` shows that it fails as soon as two runs overlap.
* `AlwaysStepsOfBook`, for any overlap, and `BookImplementedAlone`, which says that
  under `~Overlap` the specification implements `PeerBook`: initial states map to
  initial states, and every step to a step of it or a stutter. The list that is
  committed, the one in the file and the one a run has in memory are those of `Held`;
  that a run creates a file only where there is none is `Fresh`. TLC checked the
  second one too, on one run with two AS numbers (it is no listed run, as the first
  one has it for every step that is not late).

`AutopruneProofs` (for any peers, AS numbers, sessions, and lists of any length):

* `MarksOnlyInactiveIfOne`, under the hypotheses `OnePeerEach` (an AS has one peer) and
  `OneSessionEach` (a peer has one session). `prune_sessions` shows that the second is
  needed; the first is, as the script goes from sessions to AS numbers and back.
* `PrunesOnlySettledIfOne`, under `OnePeerEach` and without edits during a run. The
  invariant `Quiet` carries what was found when the file was read (clean, and no AS
  that counts as settled has a recent block) over the query to the removal.

The hypotheses are met by the constants of `prune_careful`.

`DnsZonesProofs` (for any configurations and registries, with any number of zones,
entries, files and lines, and any bounds), from one inductive invariant, `IInv`:

* `NamesAgree`: for every prefix of both families that both scripts have a zone for,
  the two names are the same *exactly* if the prefix does not end in a zero label.
  The lemmas say where `lstrip` stops (by the well-foundedness of the naturals) and
  that reversed addresses of different length differ. Prefixes of length 0 are left
  out, whose name has a leading dot in one script, and IPv4 prefixes of length 32: `get_ptr_zone` makes a zone of RFC 2317 of them, `write_ptr4_zone` a class.
* `OwnAddressesAlwaysNamed`, from `RunInv` and `FilesInv`: for each zone written so far,
  its file has what the configuration the play *read* says, and `ptr_records` has for
  every address the record of the last entry that has it, which is a record of a zone
  already written (`RunDone`). The reverse zones are taken from it when all forward
  zones are in it, and none of them overwrites another: `ZonesDiffer`, from the
  assumption that domains are distinct, are no reverse zones, and that no two own
  prefixes have one zone.
* `AlwaysServesFiles`, from `FilesInv`: what the server has of the workstation's files
  and of the cached list at each step of a play, and what it serves of what it has
  unless a reload is due or was lost. That every zone of the cached list has a file is
  part of it: the list was written by an earlier play, after the files, which stay. A play aborted half-way leaves any part of the files copied; the handler's
  notification or `lost` accounts for every one of them.
* `RegistryAlwaysMeant` and `AlwaysFailsForCause`, from `RegistryInv`: whatever files
  are still to be read, the zones made so far are those the registry means by the
  files read, and the addresses of the delegation servers known are *all* that the
  registry gives (`AllKnown`), as the constructor read their file first. Without that
  the order of the files would matter; it needs that the file is one
  (`OneDelegation`), or the script fails.
* `ClashesAlwaysMisnamed`, from `MirrorsInv`, `NamesAgree` and `OwnAssumption`: a mirrored
  zone is one some registry delegates, an own zone one some configuration has; so it
  is for the lists a play has cached.
* `TypeCorrect`, whose part that is not a matter of types is that every zone written
  has a name a resolver asks for.

The assumptions on the constants are the named `ASSUME`s of the modules; TLC
evaluates them on every run. The less obvious ones: the entries, prefixes and lines of
files are sequences, `dns_records` is a mapping and no two own prefixes have one zone
(`ConfsAssumption`, `RegistriesAssumption`: what YAML and a text file give);
`OwnAssumption`, above; there is a command line (`CommandAssumption`: `cmd` of an idle
run has some value).

Where a proof is by induction, over the places of a list or the labels of a name, it
goes through a set: the numbers a fact does not hold for, of which there would be a
least one (`LeastNat`, from the well-foundedness of the naturals). `LoopExists` makes the
function that a loop computes out of the ones up to each number, and `UpTo` steps
through them; the induction theorems of the library take an operator as a parameter,
which the installed provers do not instantiate.

## 6. What is only model-checked, and what is not modelled

Liveness (`Converges` of two modules, `FailedRecover`, `LostPeersGo`, `Heals`) stays with TLC, as tlapm
supports neither fairness nor `ENABLED`. Every other property of the passing runs is
also a theorem. What the three violated properties say is refuted by a run; under the
conditions that exclude the counterexamples they are theorems
(`PortsNeverReassigned`, `OnlyReplaceOverwritesAlone`, `MarksOnlyInactiveIfOne`).

Abstractions to know of:

* `PeerBlock` has no regular expressions: a text is right, wrong or left out. The
  entries of `wg_multi` are right or wrong together.
* A file torn by a kill never parses. New text followed by the tail of an old
  one can happen to be valid YAML; the models let the operator see the damage.
* `Autoprune` takes a block as old or recent as a whole. The code works on line
  ranges that start and end one line early (`lc.line` counts from 0, the blame
  table from 1); with blank lines between blocks this makes no difference.
* `TunnelDeploy` covers the `igp-*` interfaces. The `dn42-*` ones and the GRE
  tunnels go through the same loops with ports from the peer store.
* In `TunnelDeploy` an `ifup` fails after its `ip link add`, in what follows as `pre-up`;
  the `add` itself is taken to fail only if the interface exists. A `post-up` command
  that fails leaves the link up and counts as a success. The `ifdown --force; ifup` of
  a play is one step. A reset may pick an interface that has a file and is gone by
  then, which covers the ones listed when the script started.
* `Autoprune` is checked without edits during a run. With them `PrunesOnlySettled`
  does not hold, since the check for new blocks is made before the query to
  Prometheus and the removal after it; nothing in the repository promises more.
* `IgpCosts` leaves out `igpping_override` (a fixed cost, without an include) and the
  interfaces that do not depend on pings. A `birdc configure` sees one state of the
  cost files.
* `DnsZones` has host records with the addresses they list, the suffix of router
  records and the file names of zones are left out, and so are `$GENERATE` records.
  A torn zone file and a missing one are the same to the server. The two lists of zones
  exist from the start (the repository has them), empty in the model. The file of an
  RFC 2317 zone is opened twice, with the same contents.
* A dry run of `peerconfgen` with `--create` leaves an empty file behind
  (`CreateConfig` comes before the questions); the model has it, no property is
  about it.

Not modelled: the components with status `not_modelled` in `PROJECT.json`, each
with its reason: the routing policy in BIRD's own language, what systemd and the
kernel do for the anycast services, and what formats text, installs packages or
draws pictures.

## 7. Findings

1. **Overlapping playbooks reassign ports** (`igp_overlap`). Both start from the
   same `next_port`; the later write wins, and a router configured in between
   keeps a port that is now another pair's. The comment at line 55 of the script
   promises that allocations stick.
2. **peerconfgen loses concurrent changes** (`peers_lost_update`). The list is
   read before the questions and written back after them: a block another run
   added is gone, without `--replace`, although the README says overwriting
   without it is an error.
3. **autoprune judges by any session** (`prune_sessions`). A peer with a v4 and a
   v6 session is removed if one of them was never up.

Not a violation of anything a document promises, or not of one that a run refutes, but
worth knowing:

* `remove_peer` skips: `del wg_peers[idx]` while enumerating (`peerconfrm.py:35`) passes
  over the next block, so the second of two neighbouring matches stays, although the
  comment above says to match "either by name field or ASN". `RemovesLoneMatches` and
  the theorem `RemovedFacts` say what goes; `LostPeersGo` that repetition helps.
* After an `ifup` that failed and was ignored (`config-wireguard/tasks/main.yml:13-20`)
  no later play brings the link up until its file changes again: nothing is reported. Only
  the reset by cron or a boot does (`Converges`, `FailedRecover`).
* A reset by cron that races a play can delete the link the play has just brought up,
  and its own `ifup` then does nothing, since ifupdown takes the interface to be up
  (`wg-autoreset.sh:24-27`, `stale` in `ResetUp`).
* The play of `anycast-dns.yml` that adds or drops a zone templates `named.conf` from the
  list of before: the new zone is copied and not served, the old one still is, until
  the next play (`ServesFiles`). The comment at `read-peers/tasks/main.yml:11-15`
  explains the cause, and that role includes its file again for this reason.
* `lstrip('0.')` in `make-dns-records.py` takes zero labels of the prefix itself away:
  the zone of `172.20.0.0/24` gets the name `20.172.in-addr.arpa`, that of the `/16`,
  where `get_ptr_zone` says `0.20.172.in-addr.arpa` (`scripts/test_netutils.py`
  line 11). None of the prefixes in the repository's configuration is of that kind.
  `ClashesAreMisnamed` and the theorem `NamesAgree` delimit it exactly.
* On a router whose play of `reconfigure-bird.yml` names a neighbour that was never
  pinged, BIRD refuses *every* later change until a full play has run
  (`IdleRunsConf` with `stale`, `Heals`).

## 8. Plan

In this order, the most important behaviour first; done so far: 1 to 7.

1. `PortPlan`, `IgpTunnels`: allocation; proofs of its invariants and of the
   refinement. *Done.*
2. `TunnelDeploy`: rolling configuration of routers under any `PortPlan`; proofs,
   also that its closed specification implements the open one. *Done.*
3. `PeerConfig`, `PeerBook`, `PeerStore`: the peer file; proofs of its invariants and
   action properties, and that runs which do not overlap implement `PeerBook`. *Done.*
4. `Autoprune`; proofs of its safety properties. *Done.*
5. `PeerBlock`, `PeerVerify`: `ci-verify.py`, the blocks that `peerconfgen`
   makes, and what BIRD's template makes of them; proofs. *Done.*
6. `PingCost`, `IgpCosts`: cost files, cron, the handler and the include of a
   missing file; proofs of its safety properties. *Done; to come: its composition
   with a second router, whose costs for the same link may differ.*
7. `PtrZone`, `RegistryZones`, `DnsZones`: zones from the configuration and from the
   registry, and their way to the server; proofs of their invariants. *Done; to come:
   the recursors.*
8. Composition of the peer store with the deployment: an unreadable peer file
   removes every peer interface of a router (`ignore_errors` in `read-peers`).
9. `Communities`: the latency, bandwidth and encryption communities along a path
   (the worst wins), as operators against a reference definition, with theorems
   about the fold's step.
10. The arithmetic of link-local addresses and of `get_dn42_remote_ip`.
