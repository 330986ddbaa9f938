---------------------------- MODULE TunnelDeploy ----------------------------
(***************************************************************************)
(* The roles read-peers, prune-interfaces and config-wireguard bring the   *)
(* WireGuard interfaces igp-<neighbour> of every router in line with       *)
(* igp-tunnels.yml.  A router has interface files under interfaces/ and    *)
(* running links, and the roles touch them in four loops, item by item:    *)
(*   remove obsolete files, delete the links of those that were removed,   *)
(*   write the files, restart the links of those that changed.             *)
(* Routers are configured at their own pace (--limit, a host that does not *)
(* answer), so neighbours run on different versions of the plan; a play    *)
(* may stop between any two items; a router may reboot at any time.  ifup  *)
(* may fail (a port in use, an endpoint that does not resolve), and then   *)
(* nobody minds: the play and the boot ignore it.  By cron, wg-autoreset   *)
(* resets links in three commands, whatever a play does between them.      *)
(*                                                                         *)
(* Where the plan comes from is PortPlan, which IgpTunnels implements; TLC *)
(* issues grants and replaces the file in steps of their own.              *)
(***************************************************************************)
EXTENDS Naturals, FiniteSets, PortPlan

(* Definitions marked "Faulty" are what a bug would make of the definition *)
(* that follows; the specification does not use them.                      *)

CONSTANTS
    Host,      \* the routers
    Managed,   \* those that the plays reach; the others never run anything
    Cron,      \* those of them on which cron runs wg-autoreset.sh
    Port,      \* the listen ports
    NoPort,    \* no interface file, or no link
    Links      \* the pairs <<a, b>> that may be neighbours

ASSUME ManagedAssumption == Managed \subseteq Host
ASSUME CronAssumption == Cron \subseteq Managed
ASSUME NoPortAssumption == NoPort \notin Port
ASSUME LinksAssumption == Links \subseteq Host \X Host

VARIABLES
    play,      \* play[h]: the task the play is at on h, or "idle"
    want,      \* want[h][p]: the port igp-p should have, as read-peers computed it
    conf,      \* conf[h][p]: the port in the interface file of igp-p
    link,      \* link[h][p]: the port the running link igp-p listens and sends on
    ifstate,   \* ifstate[h]: the interfaces that ifupdown takes to be up
    failed,    \* failed[h]: the interfaces a failing ifup left, there but down
    reset,     \* reset[h][p]: the next command of the reset of igp-p, or "none"
    changed,   \* changed[h]: the items that a loop reported as changed
    stale      \* history: since h booted, links of h were left behind

runVars == <<link, ifstate, failed>>
playVars == <<play, want, changed>>
hostVars == <<playVars, conf, runVars, reset, stale>>
vars == <<issued, plan, hostVars>>

Tasks == {"idle", "prune", "stop", "template", "restart"}
Ports == [Host -> Port \cup {NoPort}]
NoPorts == [p \in Host |-> NoPort]
NoReset == [p \in Host |-> "none"]

TypeOK ==
    /\ issued \subseteq Host \X Host \X Port
    /\ plan \in [readable : BOOLEAN, pairs : SUBSET (Host \X Host)]
    /\ play \in [Host -> Tasks]
    /\ want \in [Host -> Ports]
    /\ conf \in [Host -> Ports]
    /\ link \in [Host -> Ports]
    /\ ifstate \in [Host -> SUBSET Host]
    /\ failed \in [Host -> SUBSET Host]
    /\ reset \in [Host -> [Host -> {"none", "delete", "start"}]]
    /\ changed \in [Host -> SUBSET Host]
    /\ stale \in [Host -> BOOLEAN]

Init ==
    /\ PlanInit
    /\ play = [h \in Host |-> "idle"]
    /\ want = [h \in Host |-> NoPorts]
    /\ conf = [h \in Host |-> NoPorts]
    /\ link = [h \in Host |-> NoPorts]
    /\ ifstate = [h \in Host |-> {}]
    /\ failed = [h \in Host |-> {}]
    /\ reset = [h \in Host |-> NoReset]
    /\ changed = [h \in Host |-> {}]
    /\ stale = [h \in Host |-> FALSE]

-----------------------------------------------------------------------------
(* The plan.                                                               *)

(* Faulty: only the ports of the links in the file are taken.              *)
IssueGrantAgain ==
    /\ \E l \in Links, p \in Port :
          /\ l[1] # l[2]
          /\ ~Granted(l, issued)
          /\ ~\E g \in issued : <<g[1], g[2]>> \in plan.pairs /\ g[3] = p
          /\ issued' = issued \cup {<<l[1], l[2], p>>, <<l[2], l[1], p>>}
    /\ UNCHANGED plan
    /\ UNCHANGED hostVars

(* Faulty: the grant of a link that was removed is forgotten with it.      *)
IssueGrantAnew ==
    /\ \E l \in Links, p \in Port :
          /\ l[1] # l[2]
          /\ l \notin plan.pairs
          /\ issued' = {g \in issued : {g[1], g[2]} # {l[1], l[2]}}
                           \cup {<<l[1], l[2], p>>, <<l[2], l[1], p>>}
    /\ OneToOne(issued')
    /\ UNCHANGED plan
    /\ UNCHANGED hostVars

IssueGrant ==
    /\ \E l \in Links, p \in Port :
          /\ l[1] # l[2]
          /\ ~Granted(l, issued)
          /\ issued' = issued \cup {<<l[1], l[2], p>>, <<l[2], l[1], p>>}
    /\ OneToOne(issued')
    /\ UNCHANGED plan
    /\ UNCHANGED hostVars

(* Neighbours come and go; a grant stays when its link is removed.         *)
ReplacePlan ==
    /\ \E ls \in SUBSET Links :
          /\ \A l \in ls : Granted(l, issued)
          /\ plan' = [readable |-> TRUE,
                      pairs |-> ls \cup {<<l[2], l[1]>> : l \in ls}]
    /\ plan' # plan
    /\ UNCHANGED issued
    /\ UNCHANGED hostVars

LosePlan ==
    /\ plan # NoPlan
    /\ plan' = NoPlan
    /\ UNCHANGED issued
    /\ UNCHANGED hostVars

-----------------------------------------------------------------------------
(* One play on one router.                                                 *)

(* igp_wg_ports[h][p] of the file.                                         *)
GrantOf(h, p) == CHOOSE q \in Port : <<h, p, q>> \in issued

WantedPorts(h) ==
    [p \in Host |-> IF <<h, p>> \in plan.pairs THEN GrantOf(h, p) ELSE NoPort]

(* read-peers: the interfaces of h's neighbours.  Without a readable file  *)
(* the task fails and the play ends for this router.                       *)
ReadPeers(h) ==
    /\ play[h] = "idle"
    /\ plan.readable
    /\ want' = [want EXCEPT ![h] = WantedPorts(h)]
    /\ play' = [play EXCEPT ![h] = "prune"]
    /\ UNCHANGED <<issued, plan, changed, conf, runVars, reset, stale>>

Obsolete(h) == {p \in Host : conf[h][p] # NoPort /\ want[h][p] = NoPort}
Outdated(h) == {p \in Host : want[h][p] # NoPort /\ want[h][p] # conf[h][p]}

(* A loop is over when it has no item left.                                *)
NextTask(h, items, from, to) ==
    /\ play[h] = from
    /\ items = {}
    /\ play' = [play EXCEPT ![h] = to]

(* Faulty: the removal is not reported as a change.                        *)
RemoveConfQuietly(h) ==
    /\ play[h] = "prune"
    /\ \E p \in Obsolete(h) : conf' = [conf EXCEPT ![h][p] = NoPort]
    /\ UNCHANGED <<issued, plan, playVars, runVars, reset, stale>>

RemoveConf(h) ==
    /\ play[h] = "prune"
    /\ \E p \in Obsolete(h) :
          /\ conf' = [conf EXCEPT ![h][p] = NoPort]
          /\ changed' = [changed EXCEPT ![h] = @ \cup {p}]
    /\ UNCHANGED <<issued, plan, play, want, runVars, reset, stale>>

(* ip link del, which ifupdown does not get to know of.                    *)
Delete(h, p) ==
    /\ link' = [link EXCEPT ![h][p] = NoPort]
    /\ failed' = [failed EXCEPT ![h] = @ \ {p}]
    /\ UNCHANGED ifstate

(* ... only for the items the removal reported as changed.                 *)
StopLink(h) ==
    /\ play[h] = "stop"
    /\ \E p \in changed[h] :
          /\ Delete(h, p)
          /\ changed' = [changed EXCEPT ![h] = @ \ {p}]
    /\ UNCHANGED <<issued, plan, play, want, conf, reset, stale>>

(* Faulty: the new file is not reported as a change.                       *)
WriteConfQuietly(h) ==
    /\ play[h] = "template"
    /\ \E p \in Outdated(h) : conf' = [conf EXCEPT ![h][p] = want[h][p]]
    /\ UNCHANGED <<issued, plan, playVars, runVars, reset, stale>>

WriteConf(h) ==
    /\ play[h] = "template"
    /\ \E p \in Outdated(h) :
          /\ conf' = [conf EXCEPT ![h][p] = want[h][p]]
          /\ changed' = [changed EXCEPT ![h] = @ \cup {p}]
    /\ UNCHANGED <<issued, plan, play, want, runVars, reset, stale>>

(* ifup brings the link up as its file says, or fails in one of the pre-up *)
(* commands that follow "ip link add".                                     *)
Ifup(h, p) ==
    \/ /\ link' = [link EXCEPT ![h][p] = conf[h][p]]
       /\ ifstate' = [ifstate EXCEPT ![h] = @ \cup {p}]
       /\ failed' = [failed EXCEPT ![h] = @ \ {p}]
    \/ /\ link' = [link EXCEPT ![h][p] = NoPort]
       /\ ifstate' = [ifstate EXCEPT ![h] = @ \ {p}]
       /\ failed' = [failed EXCEPT ![h] = @ \cup {p}]

(* ifdown --force; ifup, only for the items the template reported, with    *)
(* errors ignored.                                                         *)
RestartLink(h) ==
    /\ play[h] = "restart"
    /\ \E p \in changed[h] :
          /\ Ifup(h, p)
          /\ changed' = [changed EXCEPT ![h] = @ \ {p}]
    /\ UNCHANGED <<issued, plan, play, want, conf, reset, stale>>

Advance(h) ==
    /\ \/ NextTask(h, Obsolete(h), "prune", "stop")
       \/ NextTask(h, changed[h], "stop", "template")
       \/ NextTask(h, Outdated(h), "template", "restart")
    /\ UNCHANGED <<issued, plan, want, changed, conf, runVars, reset, stale>>

\* Faulty: the play is left in a state of its own
EndPlayDone(h) ==
    /\ play' = [play EXCEPT ![h] = "done"]
    /\ want' = [want EXCEPT ![h] = NoPorts]
    /\ changed' = [changed EXCEPT ![h] = {}]

(* What a play computed and what its loops reported is gone when it ends.  *)
EndPlay(h) ==
    /\ play' = [play EXCEPT ![h] = "idle"]
    /\ want' = [want EXCEPT ![h] = NoPorts]
    /\ changed' = [changed EXCEPT ![h] = {}]

Finish(h) ==
    /\ play[h] = "restart"
    /\ changed[h] = {}
    /\ EndPlay(h)
    /\ UNCHANGED <<issued, plan, conf, runVars, reset, stale>>

(* The play ends early on h: the router does not answer, another task      *)
(* fails, the operator interrupts it, or skip_wg_restart is set and the    *)
(* last loop does not run.                                                 *)
Abort(h) ==
    /\ play[h] # "idle"
    /\ EndPlay(h)
    /\ stale' = [stale EXCEPT ![h] = @ \/ changed[h] # {}]
    /\ UNCHANGED <<issued, plan, conf, runVars, reset>>

Configured(h) == {p \in Host : conf[h][p] # NoPort}

(* A reboot ends whatever runs and does ifup -a --ignore-errors over the   *)
(* interface files.                                                        *)
Reboot(h) ==
    /\ EndPlay(h)
    /\ \E bad \in SUBSET Configured(h) :
          /\ link' = [link EXCEPT ![h] = [p \in Host |-> IF p \in bad THEN NoPort ELSE conf[h][p]]]
          /\ ifstate' = [ifstate EXCEPT ![h] = Configured(h) \ bad]
          /\ failed' = [failed EXCEPT ![h] = bad]
    /\ reset' = [reset EXCEPT ![h] = NoReset]
    /\ stale' = [stale EXCEPT ![h] = FALSE]
    /\ UNCHANGED <<issued, plan, conf>>

-----------------------------------------------------------------------------
(* wg-autoreset.sh.                                                        *)

Exists(h, p) == link[h][p] # NoPort \/ p \in failed[h]

NextCommand(h, p, from, to) ==
    /\ reset[h][p] = from
    /\ reset' = [reset EXCEPT ![h][p] = to]

(* ifdown of an interface that has had no handshake for long or failed to  *)
(* start.  It does nothing to one that ifupdown does not take to be up, or *)
(* that has no file.  The interfaces were listed when the script started:  *)
(* the one whose turn it is may be gone by now.                            *)
ResetDown(h, p) ==
    /\ \A q \in Host : reset[h][q] = "none"
    /\ Exists(h, p) \/ conf[h][p] # NoPort
    /\ NextCommand(h, p, "none", "delete")
    /\ link' = IF p \in ifstate[h] /\ conf[h][p] # NoPort
               THEN [link EXCEPT ![h][p] = NoPort] ELSE link
    /\ ifstate' = [ifstate EXCEPT ![h] = @ \ {p}]
    /\ UNCHANGED <<issued, plan, playVars, conf, failed, stale>>

(* Faulty: without ip link del.                                            *)
ResetDeleteNot(h, p) ==
    /\ NextCommand(h, p, "delete", "start")
    /\ UNCHANGED <<issued, plan, playVars, conf, runVars, stale>>

ResetDelete(h, p) ==
    /\ NextCommand(h, p, "delete", "start")
    /\ Delete(h, p)
    /\ UNCHANGED <<issued, plan, playVars, conf, stale>>

(* ifup does nothing for an interface that is taken to be up, even if a    *)
(* play brought it up after ifdown and ip link del then took it away: the  *)
(* link is left behind.  It fails without a file or if the interface is    *)
(* there already.                                                          *)
ResetUp(h, p) ==
    /\ NextCommand(h, p, "start", "none")
    /\ IF p \in ifstate[h] \/ p \notin Configured(h) \/ Exists(h, p)
       THEN UNCHANGED runVars
       ELSE Ifup(h, p)
    /\ stale' = [stale EXCEPT ![h] = @ \/ (/\ p \in ifstate[h] /\ p \in Configured(h)
                                          /\ ~Exists(h, p) /\ p \notin changed[h])]
    /\ UNCHANGED <<issued, plan, playVars, conf>>

Autoreset(h) == \E p \in Host : ResetDown(h, p) \/ ResetDelete(h, p) \/ ResetUp(h, p)

PlayStep(h) ==
    \/ ReadPeers(h)
    \/ RemoveConf(h)
    \/ StopLink(h)
    \/ WriteConf(h)
    \/ RestartLink(h)
    \/ Advance(h)
    \/ Finish(h)

Environment == IssueGrant \/ ReplacePlan \/ LosePlan

RouterStep ==
    \/ \E h \in Managed : PlayStep(h) \/ Abort(h) \/ Reboot(h)
    \/ \E h \in Cron : Autoreset(h)

Next == Environment \/ RouterStep

Spec == Init /\ [][Next]_vars

(* The routers under any plan that PortPlan allows, in steps of any size:  *)
(* what the proofs are about.  TLC runs Spec, whose plan is finite.        *)
AnyPlan ==
    /\ Replace
    /\ issued' \subseteq Host \X Host \X Port
    /\ plan' \in [readable : BOOLEAN, pairs : SUBSET (Host \X Host)]
    /\ UNCHANGED hostVars

OpenSpec == Init /\ [][AnyPlan \/ RouterStep]_vars

-----------------------------------------------------------------------------
(* Properties.                                                             *)

(* Two routers that both run their end of a tunnel run it on one port,     *)
(* whichever versions of the plan they were configured from and however    *)
(* their plays ended: each end sends to the port the other listens on.     *)
EndpointsAgree ==
    \A a, b \in Host :
        (link[a][b] # NoPort /\ link[b][a] # NoPort) => link[a][b] = link[b][a]

(* No two links of a router listen on one port, including the links that   *)
(* an aborted play left running: ifup of the second would fail.            *)
NoListenClash ==
    \A h, p, q \in Host :
        (link[h][p] # NoPort /\ link[h][p] = link[h][q]) => p = q

(* Links that may be missing, and no play brings them up: ifup failed, or  *)
(* a reset is under way.                                                   *)
Down(h) == failed[h] \cup {p \in Host : reset[h][p] # "none"}

InLine(h, p) == link[h][p] = conf[h][p] \/ (link[h][p] = NoPort /\ p \in Down(h))

(* Between plays the running links are those of the interface files, less  *)
(* some whose ifup failed or which are being reset, for any router whose   *)
(* links were not left behind: by a play that ended early with items       *)
(* changed but not yet stopped or restarted, or by a reset that deleted    *)
(* what a play had just brought up.  Such a router keeps what was left     *)
(* until it boots: a later play finds its files up to date and restarts    *)
(* nothing.                                                                *)
IdleRunsConf ==
    \A h, p \in Host : (play[h] = "idle" /\ ~stale[h]) => InLine(h, p)

-----------------------------------------------------------------------------
(* Liveness: plays are run again and again on every router, and a play     *)
(* that is not aborted goes on to its end.  Cron starts the script every   *)
(* three hours, and every interface that failed to start has its turn; a   *)
(* reboot may cut a reset short, but not every one.                        *)
FairSpec ==
    /\ Spec
    /\ \A h \in Managed : WF_vars(PlayStep(h))
    /\ \A h \in Cron : \A p \in Host \ {h} :
          /\ SF_vars(p \in failed[h] /\ ResetDown(h, p))
          /\ SF_vars(ResetDelete(h, p))
          /\ WF_vars(ResetUp(h, p))

(* The end of a play that is not its last task, as far as h shows it.      *)
Interrupt(h) == (Abort(h) \/ Reboot(h)) /\ ~Finish(h)

(* If the plan stays readable and no longer changes, and plays are no      *)
(* longer cut short, then the links of a router that were not left behind  *)
(* settle on its neighbours in the plan and their ports: new ones come up, *)
(* those that were removed go down, and only those are missing whose ifup  *)
(* failed or which are being reset.                                        *)
Converges ==
    \A h \in Managed :
        (<>[][~Environment]_vars /\ <>[]plan.readable /\ <>[][~Interrupt(h)]_vars)
            => <>[](stale[h] \/ \A p \in Host :
                        \/ link[h][p] = WantedPorts(h)[p]
                        \/ link[h][p] = NoPort /\ p \in Down(h))

(* Cron brings up what ifup failed to, although no play would: unless the  *)
(* ifup of a reset fails each time, no interface stays down for a failed   *)
(* one, whatever plays, boots and plans do meanwhile.                      *)
FailedRecover ==
    \A h \in Cron : \A p \in Host \ {h} :
        SF_vars(ResetUp(h, p) /\ p \notin failed'[h]) => []<>(p \notin Down(h))
=============================================================================
