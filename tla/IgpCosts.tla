------------------------------ MODULE IgpCosts ------------------------------
(***************************************************************************)
(* The OSPF costs of one router.  Three actors share its files:            *)
(*   - plays.  reconfigure.yml writes the list of hosts to ping            *)
(*     (config-igpping), runs igpping.py if the list has changed           *)
(*     ("Bootstrap"), installs the cron job, and writes the configuration  *)
(*     of BIRD (config-bird2), whose interfaces include one cost file for  *)
(*     each neighbour; a handler runs birdc configure at the end of the    *)
(*     play if a file has changed.  reconfigure-bird.yml does only the     *)
(*     last two;                                                           *)
(*   - cron, which runs igpping.py && birdc configure;                     *)
(*   - igpping.py itself, on behalf of either, which rewrites the cost     *)
(*     files one by one, in place.                                         *)
(* A neighbour stands for what lookup('serverhost') makes of its name at   *)
(* the time: the line of the hosts file and the name of the cost file.     *)
(* The lookup is made anew by each template, so that a neighbour whose     *)
(* address changes is one that goes and another that comes.                *)
(***************************************************************************)
EXTENDS PingCost, FiniteSets

CONSTANTS
    Neighbour,     \* numbers, in the order of their names
    Lines,         \* the answers of fping that are tried, of Line
    MaxEdits,      \* changes of the neighbours, the script or its settings
    MaxMishaps     \* plays that stop early, runs of igpping.py that fail

ASSUME NeighbourAssumption == Neighbour \subseteq Int
ASSUME LinesAssumption == Lines \subseteq Line

VARIABLES
    wanted,     \* the neighbours in igp-tunnels.yml, as they resolve now
    hosts,      \* igpping-hosts.txt
    cost,       \* cost[h]: rxcost/h.conf
    conf,       \* the neighbours in ospf_interfaces.conf
    running,    \* what BIRD runs: the cost of each of its interfaces
    cron,       \* the cron job: "absent", or the step it is at
    play,       \* the play: task, what it registered and notified
    run,        \* run[w]: the run of igpping.py that w has started
    stale,      \* history: a change on disk was left behind without a reload
    broken,     \* history: cost files were left behind that no run has mended
    edits, mishaps

vars == <<wanted, hosts, cost, conf, running, cron, play, run, stale, broken,
          edits, mishaps>>

Writer == {"play", "cron"}

(* A cost file that is not there, one that was opened for writing, and one *)
(* with the rest of a longer number on a line of its own.                  *)
Missing == -1
Empty == -2
Torn == -3
Usable(c) == c > 0

None == [h \in {} |-> 0]
NoPlay == [task |-> "idle", changed |-> FALSE, notified |-> FALSE]

(* A run: the hosts that are left of its list, what fping said of those    *)
(* that are not written yet, the file that is open; clean as long as it is *)
(* alone with the files and its list is the one on disk (history).         *)
NoRun == [step |-> "idle", todo |-> {}, lines |-> None, open |-> {}, clean |-> TRUE]

Init ==
    /\ wanted \in SUBSET Neighbour
    /\ hosts = {} /\ conf = {}
    /\ cost = [h \in Neighbour |-> Missing]
    /\ running = None
    /\ cron = "absent"
    /\ play = NoPlay
    /\ run = [w \in Writer |-> NoRun]
    /\ stale = FALSE /\ broken = FALSE
    /\ edits = 0 /\ mishaps = 0

-----------------------------------------------------------------------------
(* BIRD.                                                                   *)

(* birdc configure reads the whole configuration, and keeps what it runs   *)
(* when any of it does not parse.  Returns no more than an exit status.    *)
Configure ==
    IF \A h \in conf : Usable(cost[h])
      THEN running' = [h \in conf |-> cost[h]] /\ stale' = FALSE
      ELSE UNCHANGED running /\ stale' = (stale \/ DOMAIN running # conf)

-----------------------------------------------------------------------------
(* igpping.py.                                                             *)

(* The settings and the hosts file are read.                               *)
Begin(w) ==
    run' = [v \in Writer |->
              IF v = w
                THEN [step |-> "ping", todo |-> hosts, lines |-> None, open |-> {},
                      clean |-> \A u \in Writer \ {w} : run[u].step = "idle"]
                ELSE [run[v] EXCEPT !.clean = (run[v].step = "idle")]]

(* fping reads the hosts file for itself.                                  *)
Ping(w) ==
    /\ run[w].step = "ping"
    /\ \E lines \in [hosts -> Lines] :
          run' = [run EXCEPT ![w].step = "write", ![w].lines = lines,
                             ![w].clean = (run[w].clean /\ run[w].todo = hosts)]
    /\ UNCHANGED <<wanted, hosts, cost, conf, running, cron, play, stale, broken, edits, mishaps>>

(* open(output_path, 'w') of the first host that is left: the list is      *)
(* sorted.                                                                 *)
Open(w) ==
    /\ run[w].step = "write" /\ run[w].open = {}
    /\ \E h \in run[w].todo :
          /\ \A g \in run[w].todo : h <= g
          /\ run' = [run EXCEPT ![w].open = {h}, ![w].todo = run[w].todo \ {h}]
          /\ cost' = [cost EXCEPT ![h] = Empty]
    /\ UNCHANGED <<wanted, hosts, conf, running, cron, play, stale, broken, edits, mishaps>>

Digits(c) == Cardinality({k \in {1, 10, 100, 1000, 10000} : c >= k})

(* A number written over the start of one that is longer by two digits     *)
(* leaves a second number on the next line; by one, an empty line.         *)
Over(old, new) ==
    IF old # Empty /\ (old = Torn \/ Digits(old) > Digits(new) + 1) THEN Torn ELSE new

Unwritten(w) == [h \in run[w].todo \cap DOMAIN run[w].lines |-> run[w].lines[h]]

(* The buffered text goes out when the file is closed.                     *)
Flush(w) ==
    /\ run[w].step = "write"
    /\ \E h \in run[w].open :
          /\ cost' = [cost EXCEPT ![h] = Over(cost[h], CostOf(calc_costs(run[w].lines), h))]
          /\ broken' = (broken \/ cost'[h] = Torn)
    /\ run' = [run EXCEPT ![w].open = {}, ![w].lines = Unwritten(w)]
    /\ UNCHANGED <<wanted, hosts, conf, running, cron, play, stale, edits, mishaps>>

Exited(w) == run[w].step = "write" /\ run[w].todo \cup run[w].open = {}

EndRun(w) == run' = [run EXCEPT ![w] = NoRun]

-----------------------------------------------------------------------------
(* Plays.                                                                  *)

At(task) == play.task = task

(* Faulty: only hosts that are new count as a change of the list.          *)
TemplateHostsGrown ==
    /\ At("idle")
    /\ hosts' = wanted
    /\ play' = [play EXCEPT !.task = "bootstrap", !.changed = Cardinality(wanted) > Cardinality(hosts)]
    /\ UNCHANGED <<wanted, cost, conf, running, cron, run, stale, broken, edits, mishaps>>

(* reconfigure.yml begins: the script, the list of hosts and the settings  *)
(* are written.  A new script, new settings and igpping_force are edits.   *)
TemplateHosts ==
    /\ At("idle")
    /\ hosts' = wanted
    /\ \/ /\ play' = [play EXCEPT !.task = "bootstrap", !.changed = (hosts # wanted)]
          /\ UNCHANGED edits
       \/ /\ edits < MaxEdits /\ edits' = edits + 1
          /\ play' = [play EXCEPT !.task = "bootstrap", !.changed = TRUE]
    /\ run' = [run EXCEPT !["cron"].clean = run["cron"].step = "idle" \/ (run["cron"].clean /\ hosts = wanted)]
    /\ UNCHANGED <<wanted, cost, conf, running, cron, stale, broken, mishaps>>

Bootstrap ==
    /\ At("bootstrap") /\ run["play"].step = "idle"
    /\ play' = [play EXCEPT !.task = IF play.changed THEN "pinging" ELSE "cron"]
    /\ IF play.changed THEN Begin("play") ELSE UNCHANGED run
    /\ UNCHANGED <<wanted, hosts, cost, conf, running, cron, stale, broken, edits, mishaps>>

Bootstrapped ==
    /\ At("pinging") /\ Exited("play")
    /\ EndRun("play")
    /\ broken' = (broken /\ ~run["play"].clean)
    /\ play' = [play EXCEPT !.task = "cron", !.changed = FALSE]
    /\ UNCHANGED <<wanted, hosts, cost, conf, running, cron, stale, edits, mishaps>>

InstallCron ==
    /\ At("cron")
    /\ cron' = IF cron = "absent" THEN "waits" ELSE cron
    /\ play' = [play EXCEPT !.task = "bird"]
    /\ UNCHANGED <<wanted, hosts, cost, conf, running, run, stale, broken, edits, mishaps>>

(* Faulty: the template does not notify the handler.                       *)
WriteBirdQuietly ==
    /\ conf' = wanted
    /\ play' = [play EXCEPT !.task = "handler"]
    /\ UNCHANGED <<wanted, hosts, cost, running, cron, run, stale, broken, edits, mishaps>>

WriteBird ==
    /\ conf' = wanted
    /\ play' = [play EXCEPT !.task = "handler", !.notified = (conf # wanted)]
    /\ UNCHANGED <<wanted, hosts, cost, running, cron, run, stale, broken, edits, mishaps>>

(* config-bird2 in reconfigure.yml, and all that reconfigure-bird.yml does. *)
TemplateBird == At("bird") /\ WriteBird
StartBird == At("idle") /\ WriteBird

Handler ==
    /\ At("handler")
    /\ IF play.notified THEN Configure ELSE UNCHANGED <<running, stale>>
    /\ play' = NoPlay
    /\ UNCHANGED <<wanted, hosts, cost, conf, cron, run, broken, edits, mishaps>>

PlayStep ==
    \/ Bootstrap \/ Bootstrapped \/ InstallCron
    \/ TemplateBird \/ Handler

(* The play stops here: the router does not answer, a task fails or the    *)
(* operator interrupts it.  What it registered and notified is forgotten;  *)
(* igpping.py goes with it, between any two writes.                        *)
Abort ==
    /\ ~At("idle")
    /\ mishaps < MaxMishaps /\ mishaps' = mishaps + 1
    /\ stale' = (stale \/ play.notified)
    /\ broken' = (broken \/ play.changed)
    /\ EndRun("play")
    /\ play' = NoPlay
    /\ UNCHANGED <<wanted, hosts, cost, conf, running, cron, edits>>

-----------------------------------------------------------------------------
(* Cron.                                                                   *)

CronStart ==
    /\ cron = "waits" /\ run["cron"].step = "idle"
    /\ cron' = "pinging"
    /\ Begin("cron")
    /\ UNCHANGED <<wanted, hosts, cost, conf, running, play, stale, broken, edits, mishaps>>

\* Faulty: cron only measures
CronPingedOnly ==
    /\ cron = "pinging" /\ Exited("cron")
    /\ cron' = "waits"
    /\ EndRun("cron")
    /\ broken' = (broken /\ ~run["cron"].clean)
    /\ UNCHANGED <<wanted, hosts, cost, conf, running, play, stale, edits, mishaps>>

CronPinged ==
    /\ cron = "pinging" /\ Exited("cron")
    /\ cron' = "reload"
    /\ EndRun("cron")
    /\ broken' = (broken /\ ~run["cron"].clean)
    /\ UNCHANGED <<wanted, hosts, cost, conf, running, play, stale, edits, mishaps>>

CronReload ==
    /\ cron = "reload"
    /\ cron' = "waits"
    /\ Configure
    /\ UNCHANGED <<wanted, hosts, cost, conf, play, run, broken, edits, mishaps>>

(* igpping.py fails, on a line of fping it cannot parse, or is killed; the *)
(* && leaves BIRD as it is.                                                *)
CronFails ==
    /\ cron = "pinging"
    /\ mishaps < MaxMishaps /\ mishaps' = mishaps + 1
    /\ cron' = "waits"
    /\ EndRun("cron")
    /\ broken' = (broken \/ run["cron"].open # {})
    /\ UNCHANGED <<wanted, hosts, cost, conf, running, play, stale, edits>>

(* A neighbour comes, goes, or resolves to another address.                *)
Edit ==
    /\ edits < MaxEdits /\ edits' = edits + 1
    /\ wanted' \in SUBSET Neighbour \ {wanted}
    /\ UNCHANGED <<hosts, cost, conf, running, cron, play, run, stale, broken, mishaps>>

RunStep(w) == Ping(w) \/ Open(w) \/ Flush(w)

Next ==
    \/ TemplateHosts \/ StartBird \/ PlayStep \/ Abort
    \/ CronStart \/ CronPinged \/ CronReload \/ CronFails
    \/ \E w \in Writer : RunStep(w)
    \/ Edit

Spec == Init /\ [][Next]_vars

(* A task that can run runs, cron comes round every two hours, and         *)
(* reconfigure.yml is run again and again; nothing makes the mishaps, the  *)
(* edits or the plays of reconfigure-bird.yml happen.                      *)
FairSpec ==
    /\ Spec
    /\ SF_vars(TemplateHosts)
    /\ WF_vars(PlayStep)
    /\ WF_vars(CronStart) /\ WF_vars(CronPinged) /\ WF_vars(CronReload)
    /\ \A w \in Writer : WF_vars(RunStep(w))

-----------------------------------------------------------------------------
(* Properties.                                                             *)

TypeOK ==
    /\ wanted \subseteq Neighbour /\ hosts \subseteq Neighbour /\ conf \subseteq Neighbour
    /\ DOMAIN cost = Neighbour
    /\ \A h \in Neighbour : cost[h] \in {Missing, Empty, Torn} \/ cost[h] \in MinCost..MaxCost
    /\ DOMAIN running \subseteq Neighbour
    /\ \A h \in DOMAIN running : running[h] \in MinCost..MaxCost
    /\ cron \in {"absent", "waits", "pinging", "reload"}
    /\ play \in [task : {"idle", "bootstrap", "pinging", "cron", "bird", "handler"},
                 changed : BOOLEAN, notified : BOOLEAN]
    /\ \A w \in Writer :
          /\ run[w].step \in {"idle", "ping", "write"}
          /\ run[w].todo \subseteq Neighbour /\ run[w].open \subseteq Neighbour
    /\ stale \in BOOLEAN /\ broken \in BOOLEAN

(* Between plays BIRD runs the interfaces of the file that is on disk,     *)
(* unless a play stopped between a change and its reload, or the reload    *)
(* met a cost file it could not read: a notification is never lost in any  *)
(* other way, whatever cron does at the same time.                         *)
IdleRunsConf == (At("idle") /\ ~stale) => DOMAIN running = conf

(* Once the play is past Bootstrap and no run is at work, each neighbour   *)
(* that is pinged has a cost file BIRD can include, unless a run was cut   *)
(* short, never started, or shared the files with another.                 *)
CostsInPlace ==
    (/\ \A w \in Writer : run[w].step = "idle"
     /\ ~At("bootstrap")
     /\ ~broken)
    => \A h \in hosts : Usable(cost[h])

(* In one run of igpping.py, a neighbour that answered at all gets a lower *)
(* cost than every neighbour that did not answer, however many of its      *)
(* pings were lost.                                                        *)
SilentIsWorst ==
    \A w \in Writer : \A g, h \in DOMAIN run[w].lines :
        LET results == calc_costs(run[w].lines)
        IN  (run[w].lines[g].answers > 0 /\ run[w].lines[h].answers = 0)
            => CostOf(results, g) < CostOf(results, h)

InStep ==
    /\ DOMAIN running = wanted
    /\ \A h \in wanted : Usable(cost[h]) /\ running[h] = cost[h]

(* Once edits and mishaps have ceased, BIRD gets the neighbours of the     *)
(* plan with the costs last measured, again and again: cron heals a lost   *)
(* notification, a Bootstrap that was skipped and a torn cost file; a full *)
(* play heals a list of hosts that reconfigure-bird.yml has overtaken.     *)
Heals == []<>InStep
=============================================================================
