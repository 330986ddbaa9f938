------------------------- MODULE TunnelDeployProofs -------------------------
(***************************************************************************)
(* Proofs about TunnelDeploy, for any routers, ports and plans, any number *)
(* of plays under way, and plays that end anywhere.                        *)
(***************************************************************************)
EXTENDS TunnelDeploy, TLAPS

OpenNext == AnyPlan \/ RouterStep

-----------------------------------------------------------------------------
(***************************************************************************)
(* Typing.  A planned neighbour has a grant, so that GrantOf is a port.    *)
(***************************************************************************)

PlanGranted == \A l \in plan.pairs : Granted(l, issued)

Typed == TypeOK /\ PlanGranted /\ OneToOne(issued)

(* No step of a router touches the plan or the grants.                     *)
LEMMA RouterKeepsPlan == RouterStep => UNCHANGED <<issued, plan>>
BY DEF RouterStep, PlayStep, ReadPeers, RemoveConf, StopLink, WriteConf, RestartLink,
       Advance, Finish, Abort, Reboot, Autoreset, ResetDown, ResetDelete, ResetUp

LEMMA GrantOfPort ==
    ASSUME TypeOK, PlanGranted, NEW h \in Host, NEW p \in Host, <<h, p>> \in plan.pairs
    PROVE  GrantOf(h, p) \in Port /\ <<h, p, GrantOf(h, p)>> \in issued
<1>1. PICK g \in issued : g[1] = h /\ g[2] = p
  BY DEF PlanGranted, Granted
<1>2. g = <<h, p, g[3]>> /\ g[3] \in Port
  BY <1>1 DEF TypeOK
<1>3. \E q \in Port : <<h, p, q>> \in issued
  BY <1>2
<1> QED
  BY <1>3 DEF GrantOf

LEMMA TypedInit == Init => Typed
BY DEF Init, Typed, TypeOK, PlanGranted, PlanInit, NoPlan, NoPorts, NoReset, Ports, Tasks,
       OneToOne

LEMMA EndPlayType ==
    ASSUME TypeOK, NEW h \in Host, EndPlay(h)
    PROVE  /\ play' \in [Host -> Tasks]
           /\ want' \in [Host -> Ports]
           /\ changed' \in [Host -> SUBSET Host]
BY DEF TypeOK, EndPlay, Tasks, Ports, NoPorts

(* One interface of one router gets another port, or none.                 *)
LEMMA SetPort ==
    ASSUME NEW f \in [Host -> Ports], NEW h \in Host, NEW p \in Host,
           NEW q \in Port \cup {NoPort},
           NEW g, g = [f EXCEPT ![h][p] = q]
    PROVE  /\ g \in [Host -> Ports]
           /\ g[h][p] = q
           /\ \A a, b \in Host : (g[a][b] = q /\ a = h /\ b = p) \/ g[a][b] = f[a][b]
BY DEF Ports

LEMMA SetLink ==
    ASSUME TypeOK, NEW h \in Host, NEW p \in Host, NEW q \in Port \cup {NoPort},
           link' = [link EXCEPT ![h][p] = q]
    PROVE  /\ link' \in [Host -> Ports]
           /\ link'[h][p] = q
           /\ \A a \in Host \ {h} : link'[a] = link[a]
           /\ \A b \in Host \ {p} : link'[h][b] = link[h][b]
<1>1. link \in [Host -> Ports] /\ link[h] \in [Host -> Port \cup {NoPort}]
  BY DEF TypeOK, Ports
<1>2. link' \in [Host -> Ports]
  BY <1>1, SetPort
<1>3. /\ link'[h] = [link[h] EXCEPT ![p] = q]
      /\ \A a \in Host \ {h} : link'[a] = link[a]
  BY <1>1
<1> QED
  BY <1>1, <1>2, <1>3

(* What ifup does to one interface: the link is as the file says, or down  *)
(* and remembered as such; no other interface is touched.                  *)
LEMMA IfupFacts ==
    ASSUME TypeOK, NEW h \in Host, NEW p \in Host, Ifup(h, p)
    PROVE  /\ link' \in [Host -> Ports]
           /\ ifstate' \in [Host -> SUBSET Host]
           /\ failed' \in [Host -> SUBSET Host]
           /\ \A a \in Host \ {h} : link'[a] = link[a] /\ failed'[a] = failed[a]
           /\ \A b \in Host \ {p} : /\ link'[h][b] = link[h][b]
                                   /\ (b \in failed'[h]) = (b \in failed[h])
           /\ link'[h][p] = conf[h][p] \/ (link'[h][p] = NoPort /\ p \in failed'[h])
<1>1. conf[h][p] \in Port \cup {NoPort}
  BY DEF TypeOK, Ports
<1>2. CASE /\ link' = [link EXCEPT ![h][p] = conf[h][p]]
           /\ ifstate' = [ifstate EXCEPT ![h] = @ \cup {p}]
           /\ failed' = [failed EXCEPT ![h] = @ \ {p}]
  <2>1. /\ link' \in [Host -> Ports]
        /\ link'[h][p] = conf[h][p]
        /\ \A a \in Host \ {h} : link'[a] = link[a]
        /\ \A b \in Host \ {p} : link'[h][b] = link[h][b]
    <3>1. PICK q \in Port \cup {NoPort} : q = conf[h][p]
      BY <1>1
    <3>2. link' = [link EXCEPT ![h][p] = q]
      BY <1>2, <3>1
    <3>3. /\ link' \in [Host -> Ports]
          /\ link'[h][p] = q
          /\ \A a \in Host \ {h} : link'[a] = link[a]
          /\ \A b \in Host \ {p} : link'[h][b] = link[h][b]
      BY <3>2, SetLink
    <3> QED
      BY <3>1, <3>3
  <2> QED
    BY <1>2, <2>1 DEF TypeOK
<1>3. CASE /\ link' = [link EXCEPT ![h][p] = NoPort]
           /\ ifstate' = [ifstate EXCEPT ![h] = @ \ {p}]
           /\ failed' = [failed EXCEPT ![h] = @ \cup {p}]
  <2>1. /\ link' \in [Host -> Ports]
        /\ link'[h][p] = NoPort
        /\ \A a \in Host \ {h} : link'[a] = link[a]
        /\ \A b \in Host \ {p} : link'[h][b] = link[h][b]
    BY <1>3, SetLink
  <2> QED
    BY <1>3, <2>1 DEF TypeOK
<1> QED
  BY <1>2, <1>3 DEF Ifup

(* ... and what ip link del does.                                          *)
LEMMA DeleteFacts ==
    ASSUME TypeOK, NEW h \in Host, NEW p \in Host, Delete(h, p)
    PROVE  /\ link' \in [Host -> Ports]
           /\ failed' \in [Host -> SUBSET Host]
           /\ ifstate' = ifstate
           /\ \A a \in Host \ {h} : link'[a] = link[a] /\ failed'[a] = failed[a]
           /\ \A b \in Host \ {p} : /\ link'[h][b] = link[h][b]
                                   /\ (b \in failed'[h]) = (b \in failed[h])
           /\ link'[h][p] = NoPort
<1>1. /\ link' \in [Host -> Ports]
      /\ link'[h][p] = NoPort
      /\ \A a \in Host \ {h} : link'[a] = link[a]
      /\ \A b \in Host \ {p} : link'[h][b] = link[h][b]
  BY SetLink DEF Delete
<1> QED
  BY <1>1 DEF Delete, TypeOK

(* One command of a reset.                                                 *)
LEMMA CommandFacts ==
    ASSUME TypeOK, NEW h \in Host, NEW p \in Host,
           NEW from, NEW to \in {"none", "delete", "start"}, NextCommand(h, p, from, to)
    PROVE  /\ reset' \in [Host -> [Host -> {"none", "delete", "start"}]]
           /\ reset'[h][p] = to
           /\ \A a \in Host \ {h} : reset'[a] = reset[a]
           /\ \A b \in Host \ {p} : reset'[h][b] = reset[h][b]
BY DEF NextCommand, TypeOK

LEMMA ResetDownFacts ==
    ASSUME TypeOK, NEW h \in Host, NEW p \in Host, ResetDown(h, p)
    PROVE  /\ link' \in [Host -> Ports]
           /\ \A a \in Host \ {h} : link'[a] = link[a]
           /\ \A b \in Host \ {p} : link'[h][b] = link[h][b]
           /\ link'[h][p] = link[h][p] \/ link'[h][p] = NoPort
<1>1. CASE link' = link
  BY <1>1 DEF TypeOK
<1>2. CASE link' = [link EXCEPT ![h][p] = NoPort]
  BY <1>2, SetLink
<1> QED
  BY <1>1, <1>2 DEF ResetDown

LEMMA BootFacts ==
    ASSUME TypeOK, NEW h \in Host, Reboot(h)
    PROVE  /\ link' \in [Host -> Ports]
           /\ ifstate' \in [Host -> SUBSET Host]
           /\ failed' \in [Host -> SUBSET Host]
           /\ \A a \in Host \ {h} : /\ link'[a] = link[a] /\ failed'[a] = failed[a]
                                   /\ reset'[a] = reset[a] /\ stale'[a] = stale[a]
           /\ \A b \in Host : \/ link'[h][b] = conf[h][b]
                             \/ (link'[h][b] = NoPort /\ b \in failed'[h])
<1>1. PICK bad \in SUBSET Configured(h) :
          /\ link' = [link EXCEPT ![h] = [p \in Host |-> IF p \in bad THEN NoPort ELSE conf[h][p]]]
          /\ ifstate' = [ifstate EXCEPT ![h] = Configured(h) \ bad]
          /\ failed' = [failed EXCEPT ![h] = bad]
  BY DEF Reboot
<1>2. Configured(h) \subseteq Host
  BY DEF Configured
<1>3. [p \in Host |-> IF p \in bad THEN NoPort ELSE conf[h][p]] \in Ports
  BY DEF TypeOK, Ports
<1> QED
  BY <1>1, <1>2, <1>3 DEF Reboot, TypeOK

LEMMA TypedNext == Typed /\ [OpenNext]_vars => Typed'
<1> SUFFICES ASSUME TypeOK, PlanGranted, OneToOne(issued), [OpenNext]_vars
             PROVE  Typed'
  BY DEF Typed
<1> USE DEF playVars, runVars
<1>1. CASE AnyPlan
  BY <1>1 DEF AnyPlan, Replace, hostVars, Typed, TypeOK, PlanGranted
<1>2. ASSUME RouterStep, TypeOK'
      PROVE  Typed'
  BY <1>2, RouterKeepsPlan DEF Typed, PlanGranted, Granted, OneToOne
<1>3. ASSUME NEW h \in Host, ReadPeers(h)
      PROVE  TypeOK'
  <2>1. WantedPorts(h) \in Ports
    BY GrantOfPort DEF WantedPorts, Ports, TypeOK
  <2> QED
    BY <1>3, <2>1 DEF ReadPeers, Tasks, TypeOK
<1>4. ASSUME NEW h \in Host, RemoveConf(h)
      PROVE  TypeOK'
  <2>1. PICK p \in Host : conf' = [conf EXCEPT ![h][p] = NoPort]
                          /\ changed' = [changed EXCEPT ![h] = @ \cup {p}]
    BY <1>4 DEF RemoveConf, Obsolete
  <2>2. conf' \in [Host -> Ports]
    BY <2>1, SetPort DEF TypeOK
  <2> QED
    BY <1>4, <2>1, <2>2 DEF RemoveConf, TypeOK
<1>5. ASSUME NEW h \in Host, StopLink(h)
      PROVE  TypeOK'
  <2>1. PICK p \in Host : /\ Delete(h, p)
                          /\ changed' = [changed EXCEPT ![h] = @ \ {p}]
    BY <1>5 DEF StopLink, TypeOK
  <2> QED
    BY <1>5, <2>1, DeleteFacts DEF StopLink, TypeOK
<1>6. ASSUME NEW h \in Host, WriteConf(h)
      PROVE  TypeOK'
  <2>1. \A p \in Host : want[h][p] \in Port \cup {NoPort}
    BY DEF Ports, TypeOK
  <2>2. PICK p \in Host : conf' = [conf EXCEPT ![h][p] = want[h][p]]
                          /\ changed' = [changed EXCEPT ![h] = @ \cup {p}]
    BY <1>6 DEF WriteConf, Outdated
  <2>3. conf' \in [Host -> Ports]
    BY <2>1, <2>2, SetPort DEF TypeOK
  <2> QED
    BY <1>6, <2>2, <2>3 DEF WriteConf, TypeOK
<1>7. ASSUME NEW h \in Host, RestartLink(h)
      PROVE  TypeOK'
  <2>1. PICK p \in Host : /\ Ifup(h, p)
                          /\ changed' = [changed EXCEPT ![h] = @ \ {p}]
    BY <1>7 DEF RestartLink, TypeOK
  <2> QED
    BY <1>7, <2>1, IfupFacts DEF RestartLink, TypeOK
<1>8. ASSUME NEW h \in Host, Advance(h)
      PROVE  TypeOK'
  BY <1>8 DEF Advance, NextTask, Tasks, TypeOK
<1>9. ASSUME NEW h \in Host, Finish(h) \/ Abort(h)
      PROVE  TypeOK'
  BY <1>9, EndPlayType DEF Finish, Abort, TypeOK
<1>10. ASSUME NEW h \in Host, Reboot(h)
       PROVE  TypeOK'
  <2>1. reset' \in [Host -> [Host -> {"none", "delete", "start"}]]
    BY <1>10 DEF Reboot, NoReset, TypeOK
  <2> QED
    BY <1>10, <2>1, EndPlayType, BootFacts DEF Reboot, TypeOK
<1>11. ASSUME NEW h \in Host, NEW p \in Host, ResetDown(h, p)
       PROVE  TypeOK'
  BY <1>11, ResetDownFacts, CommandFacts DEF ResetDown, TypeOK
<1>12. ASSUME NEW h \in Host, NEW p \in Host, ResetDelete(h, p)
       PROVE  TypeOK'
  BY <1>12, DeleteFacts, CommandFacts DEF ResetDelete, TypeOK
<1>13. ASSUME NEW h \in Host, NEW p \in Host, ResetUp(h, p)
       PROVE  TypeOK'
  <2>1. UNCHANGED runVars \/ Ifup(h, p)
    BY <1>13 DEF ResetUp
  <2>2. reset' \in [Host -> [Host -> {"none", "delete", "start"}]]
    BY <1>13, CommandFacts DEF ResetUp
  <2>3. /\ link' \in [Host -> Ports]
        /\ ifstate' \in [Host -> SUBSET Host]
        /\ failed' \in [Host -> SUBSET Host]
    BY <2>1, IfupFacts DEF TypeOK
  <2>4. stale' \in [Host -> BOOLEAN]
    BY <1>13 DEF ResetUp, TypeOK
  <2> QED
    BY <1>13, <2>2, <2>3, <2>4 DEF ResetUp, TypeOK
<1>14. CASE UNCHANGED vars
  BY <1>14 DEF vars, hostVars, Typed, TypeOK, PlanGranted, Granted, OneToOne
<1>15. CASE RouterStep
  <2>1. TypeOK'
    BY <1>3, <1>4, <1>5, <1>6, <1>7, <1>8, <1>9, <1>10, <1>11, <1>12, <1>13, <1>15,
       ManagedAssumption, CronAssumption DEF RouterStep, PlayStep, Autoreset
  <2> QED
    BY <1>2, <1>15, <2>1
<1> QED
  BY <1>1, <1>14, <1>15 DEF OpenNext

LEMMA OpenSpecForm == OpenSpec => Init /\ [][OpenNext]_vars
BY PTL DEF OpenSpec, OpenNext

(* The variables keep their types, under any plan.                         *)
THEOREM Typing == OpenSpec => []Typed
BY OpenSpecForm, TypedInit, TypedNext, PTL

-----------------------------------------------------------------------------
(***************************************************************************)
(* Every port in use anywhere was granted.  The grants are one to one over *)
(* their whole history, so neither the version of the plan a router was    *)
(* configured from nor the point where a play ended matters.               *)
(***************************************************************************)

GrantedPorts(f) ==
    \A h, p \in Host : f[h][p] # NoPort => <<h, p, f[h][p]>> \in issued

InUseGranted == GrantedPorts(want) /\ GrantedPorts(conf) /\ GrantedPorts(link)

LEMMA InUseInit == Init => InUseGranted
BY DEF Init, InUseGranted, GrantedPorts, NoPorts

LEMMA GrantedIf ==
    ASSUME NEW f \in [Host -> Ports], GrantedPorts(f),
           NEW h \in Host, NEW p \in Host, NEW q \in Port \cup {NoPort},
           q # NoPort => <<h, p, q>> \in issued,
           NEW g, g = [f EXCEPT ![h][p] = q]
    PROVE  GrantedPorts(g)
<1>1. \A a, b \in Host : (g[a][b] = q /\ a = h /\ b = p) \/ g[a][b] = f[a][b]
  BY SetPort
<1> QED
  BY <1>1 DEF GrantedPorts

(* A router brings a link up as its file says, or takes it down.           *)
LEMMA LinkFromConf ==
    ASSUME TypeOK, NEW h \in Host,
           \/ PlayStep(h) \/ Abort(h) \/ Reboot(h) \/ Autoreset(h)
    PROVE  \A a, b \in Host : link'[a][b] \in {link[a][b], conf[a][b], NoPort}
<1> USE DEF playVars, runVars
<1>1. CASE StopLink(h)
  <2>1. PICK p \in Host : Delete(h, p)
    BY <1>1 DEF StopLink, TypeOK
  <2> QED
    BY <2>1, DeleteFacts
<1>2. CASE RestartLink(h)
  <2>1. PICK p \in Host : Ifup(h, p)
    BY <1>2 DEF RestartLink, TypeOK
  <2> QED
    BY <2>1, IfupFacts
<1>3. CASE Reboot(h)
  BY <1>3, BootFacts
<1>4. CASE Autoreset(h)
  <2>1. PICK p \in Host : ResetDown(h, p) \/ ResetDelete(h, p) \/ ResetUp(h, p)
    BY <1>4 DEF Autoreset
  <2>2. CASE ResetDown(h, p)
    BY <2>2, ResetDownFacts
  <2>3. CASE ResetDelete(h, p)
    BY <2>3, DeleteFacts DEF ResetDelete
  <2>4. CASE ResetUp(h, p)
    BY <2>4, IfupFacts DEF ResetUp
  <2> QED
    BY <2>1, <2>2, <2>3, <2>4
<1>5. CASE ReadPeers(h) \/ RemoveConf(h) \/ WriteConf(h) \/ Advance(h) \/ Finish(h) \/ Abort(h)
  BY <1>5 DEF ReadPeers, RemoveConf, WriteConf, Advance, Finish, Abort
<1> QED
  BY <1>1, <1>2, <1>3, <1>4, <1>5 DEF PlayStep

LEMMA InUseNext == Typed /\ InUseGranted /\ [OpenNext]_vars => InUseGranted'
<1> SUFFICES ASSUME TypeOK, PlanGranted, InUseGranted, [OpenNext]_vars
             PROVE  InUseGranted'
  BY DEF Typed
<1> USE DEF InUseGranted, playVars, runVars
<1>1. CASE AnyPlan
  BY <1>1 DEF AnyPlan, Replace, hostVars, GrantedPorts
<1>2. ASSUME NEW h \in Host, \/ PlayStep(h) \/ Abort(h) \/ Reboot(h) \/ Autoreset(h),
             issued' = issued
      PROVE  GrantedPorts(link)'
  BY <1>2, LinkFromConf DEF GrantedPorts
<1>3. ASSUME NEW h \in Host, ReadPeers(h)
      PROVE  GrantedPorts(want)' /\ GrantedPorts(conf)'
  <2>1. /\ want'[h] = WantedPorts(h)
        /\ \A a \in Host \ {h} : want'[a] = want[a]
        /\ issued' = issued /\ conf' = conf
    BY <1>3 DEF ReadPeers, TypeOK
  <2>2. GrantedPorts(want)'
    <3> SUFFICES ASSUME NEW a \in Host, NEW p \in Host, want'[a][p] # NoPort
                 PROVE  <<a, p, want'[a][p]>> \in issued
      BY <2>1 DEF GrantedPorts
    <3>1. CASE a # h
      BY <2>1, <3>1 DEF GrantedPorts
    <3>2. CASE a = h
      <4>1. want'[a][p] = IF <<h, p>> \in plan.pairs THEN GrantOf(h, p) ELSE NoPort
        BY <2>1, <3>2 DEF WantedPorts
      <4>2. <<h, p>> \in plan.pairs /\ want'[a][p] = GrantOf(h, p)
        BY <4>1
      <4> QED
        BY <3>2, <4>2, GrantOfPort
    <3> QED
      BY <3>1, <3>2
  <2> QED
    BY <2>1, <2>2 DEF GrantedPorts
<1>4. ASSUME NEW h \in Host, RemoveConf(h)
      PROVE  GrantedPorts(want)' /\ GrantedPorts(conf)'
  <2>1. PICK p \in Host : conf' = [conf EXCEPT ![h][p] = NoPort]
    BY <1>4 DEF RemoveConf, Obsolete
  <2> QED
    BY <1>4, <2>1, GrantedIf DEF RemoveConf, GrantedPorts, TypeOK
<1>5. ASSUME NEW h \in Host, WriteConf(h)
      PROVE  GrantedPorts(want)' /\ GrantedPorts(conf)'
  <2>1. PICK p \in Host : conf' = [conf EXCEPT ![h][p] = want[h][p]]
    BY <1>5 DEF WriteConf, Outdated
  <2>2. want[h][p] \in Port \cup {NoPort}
    BY DEF TypeOK, Ports
  <2>3. want[h][p] # NoPort => <<h, p, want[h][p]>> \in issued
    BY DEF GrantedPorts
  <2>4. GrantedPorts(conf)'
    BY <1>5, <2>1, <2>2, <2>3, GrantedIf DEF WriteConf, GrantedPorts, TypeOK
  <2> QED
    BY <1>5, <2>4 DEF WriteConf, GrantedPorts
<1>6. ASSUME NEW h \in Host, Finish(h) \/ Abort(h) \/ Reboot(h)
      PROVE  GrantedPorts(want)' /\ GrantedPorts(conf)'
  <2>1. UNCHANGED <<issued, conf>> /\ EndPlay(h)
    BY <1>6 DEF Finish, Abort, Reboot
  <2>2. GrantedPorts(want)'
    BY <2>1 DEF EndPlay, GrantedPorts, NoPorts, TypeOK
  <2> QED
    BY <2>1, <2>2 DEF GrantedPorts
<1>7. ASSUME NEW h \in Host, StopLink(h) \/ RestartLink(h) \/ Advance(h) \/ Autoreset(h)
      PROVE  GrantedPorts(want)' /\ GrantedPorts(conf)'
  <2>1. UNCHANGED <<issued, want, conf>>
    BY <1>7 DEF StopLink, RestartLink, Advance, Autoreset, ResetDown, ResetDelete, ResetUp
  <2> QED
    BY <2>1 DEF GrantedPorts
<1>8. CASE RouterStep
  <2>1. PICK h \in Host : PlayStep(h) \/ Abort(h) \/ Reboot(h) \/ Autoreset(h)
    BY <1>8, ManagedAssumption, CronAssumption DEF RouterStep
  <2>2. GrantedPorts(link)'
    BY <1>2, <1>8, <2>1, RouterKeepsPlan
  <2>3. GrantedPorts(want)' /\ GrantedPorts(conf)'
    BY <1>3, <1>4, <1>5, <1>6, <1>7, <2>1 DEF PlayStep
  <2> QED
    BY <2>2, <2>3
<1>9. CASE UNCHANGED vars
  BY <1>9 DEF vars, hostVars, GrantedPorts
<1> QED
  BY <1>1, <1>8, <1>9 DEF OpenNext

THEOREM AlwaysInUseGranted == OpenSpec => []InUseGranted
BY OpenSpecForm, InUseInit, InUseNext, Typing, PTL

(* Two ends of a tunnel that are both up are on the same port.             *)
THEOREM EndpointsAlwaysAgree == OpenSpec => []EndpointsAgree
<1>1. Typed /\ InUseGranted => EndpointsAgree
  <2> SUFFICES ASSUME OneToOne(issued), GrantedPorts(link), NEW a \in Host, NEW b \in Host,
                      link[a][b] # NoPort, link[b][a] # NoPort
               PROVE  link[a][b] = link[b][a]
    BY DEF Typed, InUseGranted, EndpointsAgree
  <2>1. <<a, b, link[a][b]>> \in issued /\ <<b, a, link[b][a]>> \in issued
    BY DEF GrantedPorts
  <2> QED
    BY <2>1 DEF OneToOne
<1> QED
  BY <1>1, Typing, AlwaysInUseGranted, PTL

(* No two links of a router listen on one port.                            *)
THEOREM NeverListenClash == OpenSpec => []NoListenClash
<1>1. Typed /\ InUseGranted => NoListenClash
  <2> SUFFICES ASSUME OneToOne(issued), GrantedPorts(link),
                      NEW h \in Host, NEW p \in Host, NEW q \in Host,
                      link[h][p] # NoPort, link[h][p] = link[h][q]
               PROVE  p = q
    BY DEF Typed, InUseGranted, NoListenClash
  <2>1. <<h, p, link[h][p]>> \in issued /\ <<h, q, link[h][p]>> \in issued
    BY DEF GrantedPorts
  <2>2. {h, p} = {h, q}
    BY <2>1 DEF OneToOne
  <2> QED
    BY <2>2
<1> QED
  BY <1>1, Typing, AlwaysInUseGranted, PTL
-----------------------------------------------------------------------------
(***************************************************************************)
(* Where links and files differ.  Inside a play they differ on the items   *)
(* its loops reported as changed, and where a link is down for a failed    *)
(* ifup or a reset, and nowhere else, as long as nothing was left behind;  *)
(* and the items reported by the removal have no file.                     *)
(***************************************************************************)

DifferOnChanged ==
    \A h \in Host :
        /\ play[h] = "idle" => changed[h] = {}
        /\ play[h] \in {"prune", "stop"} => \A p \in changed[h] : conf[h][p] = NoPort
        /\ ~stale[h] => \A p \in Host : p \in changed[h] \/ InLine(h, p)

LEMMA DifferInit == Init => DifferOnChanged
BY DEF Init, DifferOnChanged, NoPorts, InLine

(* A step of router h that keeps the invariant on h keeps it.              *)
LEMMA DifferOne ==
    ASSUME TypeOK, DifferOnChanged, NEW h \in Host,
           \A a \in Host \ {h} : /\ play'[a] = play[a] /\ changed'[a] = changed[a]
                                 /\ conf'[a] = conf[a] /\ link'[a] = link[a]
                                 /\ stale'[a] = stale[a] /\ failed'[a] = failed[a]
                                 /\ reset'[a] = reset[a],
           play'[h] = "idle" => changed'[h] = {},
           play'[h] \in {"prune", "stop"} => \A p \in changed'[h] : conf'[h][p] = NoPort,
           ~stale'[h] => \A p \in Host : p \in changed'[h] \/ InLine(h, p)'
    PROVE  DifferOnChanged'
BY DEF DifferOnChanged, InLine, Down

(* An interface that a step does not touch stays in line.                  *)
LEMMA InLineKept ==
    ASSUME NEW h \in Host, NEW b \in Host, InLine(h, b),
           link'[h][b] = link[h][b], conf'[h][b] = conf[h][b],
           b \in failed[h] => b \in failed'[h], reset'[h][b] = reset[h][b]
    PROVE  InLine(h, b)'
BY DEF InLine, Down

LEMMA DifferNext == Typed /\ DifferOnChanged /\ [OpenNext]_vars => DifferOnChanged'
<1> SUFFICES ASSUME TypeOK, DifferOnChanged, [OpenNext]_vars
             PROVE  DifferOnChanged'
  BY DEF Typed
<1> USE DEF playVars, runVars
<1>1. CASE AnyPlan
  BY <1>1 DEF AnyPlan, hostVars, DifferOnChanged, InLine, Down
<1>2. ASSUME NEW h \in Host, ReadPeers(h)
      PROVE  DifferOnChanged'
  <2>1. changed[h] = {} /\ play'[h] = "prune"
    BY <1>2 DEF ReadPeers, DifferOnChanged, TypeOK
  <2> QED
    BY <1>2, <2>1 DEF ReadPeers, DifferOnChanged, InLine, Down, TypeOK
<1>3. ASSUME NEW h \in Host, RemoveConf(h)
      PROVE  DifferOnChanged'
  <2>1. PICK p \in Host : /\ conf' = [conf EXCEPT ![h][p] = NoPort]
                          /\ changed' = [changed EXCEPT ![h] = @ \cup {p}]
    BY <1>3 DEF RemoveConf, Obsolete
  <2>2. /\ conf'[h][p] = NoPort
        /\ \A b \in Host \ {p} : conf'[h][b] = conf[h][b]
        /\ changed'[h] = changed[h] \cup {p}
        /\ changed[h] \subseteq Host
    BY <2>1 DEF TypeOK, Ports
  <2>3. /\ play' = play /\ link' = link /\ stale' = stale /\ play[h] = "prune"
        /\ failed' = failed /\ reset' = reset
        /\ \A a \in Host \ {h} : conf'[a] = conf[a] /\ changed'[a] = changed[a]
    BY <1>3, <2>1 DEF RemoveConf, TypeOK
  <2>4. ~stale'[h] => \A b \in Host : b \in changed'[h] \/ InLine(h, b)'
    BY <2>2, <2>3, InLineKept DEF DifferOnChanged
  <2> QED
    BY <2>2, <2>3, <2>4, DifferOne DEF DifferOnChanged
<1>4. ASSUME NEW h \in Host, StopLink(h)
      PROVE  DifferOnChanged'
  <2>1. PICK p \in changed[h] : /\ Delete(h, p)
                                /\ changed' = [changed EXCEPT ![h] = @ \ {p}]
    BY <1>4 DEF StopLink
  <2>2. p \in Host /\ changed'[h] = changed[h] \ {p}
    BY <2>1 DEF TypeOK
  <2>3. /\ play' = play /\ conf' = conf /\ stale' = stale /\ reset' = reset /\ play[h] = "stop"
        /\ \A a \in Host \ {h} : changed'[a] = changed[a]
    BY <1>4, <2>1 DEF StopLink, TypeOK
  <2>4. conf[h][p] = NoPort
    BY <2>1, <2>3 DEF DifferOnChanged
  <2>5. InLine(h, p)'
    BY <2>1, <2>2, <2>3, <2>4, DeleteFacts DEF InLine
  <2>6. ~stale'[h] => \A b \in Host : b \in changed'[h] \/ InLine(h, b)'
    BY <2>1, <2>2, <2>3, <2>5, DeleteFacts, InLineKept DEF DifferOnChanged
  <2>7. \A a \in Host \ {h} : link'[a] = link[a] /\ failed'[a] = failed[a]
    BY <2>1, <2>2, DeleteFacts
  <2> QED
    BY <2>2, <2>3, <2>6, <2>7, DifferOne DEF DifferOnChanged
<1>5. ASSUME NEW h \in Host, WriteConf(h)
      PROVE  DifferOnChanged'
  <2>1. PICK p \in Host : /\ conf' = [conf EXCEPT ![h][p] = want[h][p]]
                          /\ changed' = [changed EXCEPT ![h] = @ \cup {p}]
    BY <1>5 DEF WriteConf, Outdated
  <2>2. /\ \A b \in Host \ {p} : conf'[h][b] = conf[h][b]
        /\ changed'[h] = changed[h] \cup {p}
    BY <2>1 DEF TypeOK, Ports
  <2>3. /\ play' = play /\ link' = link /\ stale' = stale /\ play[h] = "template"
        /\ failed' = failed /\ reset' = reset
        /\ \A a \in Host \ {h} : conf'[a] = conf[a] /\ changed'[a] = changed[a]
    BY <1>5, <2>1 DEF WriteConf, TypeOK
  <2>4. ~stale'[h] => \A b \in Host : b \in changed'[h] \/ InLine(h, b)'
    BY <2>2, <2>3, InLineKept DEF DifferOnChanged
  <2> QED
    BY <2>2, <2>3, <2>4, DifferOne DEF DifferOnChanged
<1>6. ASSUME NEW h \in Host, RestartLink(h)
      PROVE  DifferOnChanged'
  <2>1. PICK p \in changed[h] : /\ Ifup(h, p)
                                /\ changed' = [changed EXCEPT ![h] = @ \ {p}]
    BY <1>6 DEF RestartLink
  <2>2. p \in Host /\ changed'[h] = changed[h] \ {p}
    BY <2>1 DEF TypeOK
  <2>3. /\ play' = play /\ conf' = conf /\ stale' = stale /\ reset' = reset
        /\ play[h] = "restart"
        /\ \A a \in Host \ {h} : changed'[a] = changed[a]
    BY <1>6, <2>1 DEF RestartLink, TypeOK
  <2>4. InLine(h, p)'
    BY <2>1, <2>2, <2>3, IfupFacts DEF InLine, Down
  <2>5. ~stale'[h] => \A b \in Host : b \in changed'[h] \/ InLine(h, b)'
    BY <2>1, <2>2, <2>3, <2>4, IfupFacts, InLineKept DEF DifferOnChanged
  <2>6. \A a \in Host \ {h} : link'[a] = link[a] /\ failed'[a] = failed[a]
    BY <2>1, <2>2, IfupFacts
  <2> QED
    BY <2>2, <2>3, <2>5, <2>6, DifferOne DEF DifferOnChanged
<1>7. ASSUME NEW h \in Host, Advance(h)
      PROVE  DifferOnChanged'
  <2>1. play[h] \in {"prune", "stop", "template"} /\ play'[h] \in {"stop", "template", "restart"}
        /\ (play'[h] = "stop" => play[h] = "prune")
    BY <1>7 DEF Advance, NextTask, TypeOK
  <2>2. \A a \in Host \ {h} : play'[a] = play[a]
    BY <1>7 DEF Advance, NextTask, TypeOK
  <2>3. UNCHANGED <<changed, conf, link, failed, reset, stale>>
    BY <1>7 DEF Advance
  <2>4. ~stale'[h] => \A b \in Host : b \in changed'[h] \/ InLine(h, b)'
    BY <2>3, InLineKept DEF DifferOnChanged
  <2> QED
    BY <2>1, <2>2, <2>3, <2>4, DifferOne DEF DifferOnChanged
<1>8. ASSUME NEW h \in Host, Finish(h) \/ Abort(h)
      PROVE  DifferOnChanged'
  <2>1. /\ play'[h] = "idle" /\ changed'[h] = {}
        /\ \A a \in Host \ {h} : play'[a] = play[a] /\ changed'[a] = changed[a]
    BY <1>8 DEF Finish, Abort, EndPlay, TypeOK
  <2>2. UNCHANGED <<conf, link, failed, reset>>
    BY <1>8 DEF Finish, Abort
  <2>3. (~stale'[h] => ~stale[h] /\ changed[h] = {})
        /\ \A a \in Host \ {h} : stale'[a] = stale[a]
    BY <1>8 DEF Finish, Abort, TypeOK
  <2>4. ~stale'[h] => \A b \in Host : InLine(h, b)'
    BY <2>2, <2>3, InLineKept DEF DifferOnChanged
  <2> QED
    BY <2>1, <2>2, <2>3, <2>4, DifferOne
<1>9. ASSUME NEW h \in Host, Reboot(h)
      PROVE  DifferOnChanged'
  <2>1. /\ play'[h] = "idle" /\ changed'[h] = {} /\ conf' = conf
        /\ \A a \in Host \ {h} : play'[a] = play[a] /\ changed'[a] = changed[a]
    BY <1>9 DEF Reboot, EndPlay, TypeOK
  <2>2. \A b \in Host : InLine(h, b)'
    BY <1>9, <2>1, BootFacts DEF InLine, Down
  <2>3. \A a \in Host \ {h} : /\ link'[a] = link[a] /\ failed'[a] = failed[a]
                              /\ reset'[a] = reset[a] /\ stale'[a] = stale[a]
    BY <1>9, BootFacts
  <2> QED
    BY <2>1, <2>2, <2>3, DifferOne
<1>10. ASSUME NEW h \in Host, NEW p \in Host,
              /\ link'[h][p] = link[h][p] \/ link'[h][p] = NoPort
              /\ \A a \in Host \ {h} : link'[a] = link[a] /\ failed'[a] = failed[a]
              /\ \A b \in Host \ {p} : /\ link'[h][b] = link[h][b]
                                      /\ (b \in failed[h] => b \in failed'[h]),
              reset'[h][p] \in {"delete", "start"},
              /\ \A a \in Host \ {h} : reset'[a] = reset[a]
              /\ \A b \in Host \ {p} : reset'[h][b] = reset[h][b],
              UNCHANGED <<play, changed, conf, stale>>
       PROVE  DifferOnChanged'
  <2>1. ASSUME InLine(h, p)
        PROVE  InLine(h, p)'
    BY <1>10, <2>1 DEF InLine, Down
  <2>2. \A b \in Host \ {p} : InLine(h, b) => InLine(h, b)'
    BY <1>10, InLineKept
  <2>3. ~stale'[h] => \A b \in Host : b \in changed'[h] \/ InLine(h, b)'
    BY <1>10, <2>1, <2>2 DEF DifferOnChanged
  <2> QED
    BY <1>10, <2>3, DifferOne DEF DifferOnChanged
<1>11. ASSUME NEW h \in Host, NEW p \in Host, ResetDown(h, p)
       PROVE  DifferOnChanged'
  <2>1. NextCommand(h, p, "none", "delete") /\ UNCHANGED <<play, changed, conf, stale, failed>>
    BY <1>11 DEF ResetDown
  <2> QED
    BY <1>10, <1>11, <2>1, CommandFacts, ResetDownFacts
<1>12. ASSUME NEW h \in Host, NEW p \in Host, ResetDelete(h, p)
       PROVE  DifferOnChanged'
  <2>1. NextCommand(h, p, "delete", "start") /\ Delete(h, p)
        /\ UNCHANGED <<play, changed, conf, stale>>
    BY <1>12 DEF ResetDelete
  <2> QED
    BY <1>10, <2>1, CommandFacts, DeleteFacts
<1>13. ASSUME NEW h \in Host, NEW p \in Host, ResetUp(h, p)
       PROVE  DifferOnChanged'
  <2>1. NextCommand(h, p, "start", "none") /\ UNCHANGED <<play, changed, conf>>
    BY <1>13 DEF ResetUp
  <2>2. \A a \in Host \ {h} : stale'[a] = stale[a]
    BY <1>13 DEF ResetUp, TypeOK
  <2>3. UNCHANGED runVars \/ Ifup(h, p)
    BY <1>13 DEF ResetUp
  <2>4. \A a \in Host \ {h} : link'[a] = link[a] /\ failed'[a] = failed[a] /\ reset'[a] = reset[a]
    BY <2>1, <2>3, IfupFacts, CommandFacts
  <2>5. ASSUME NEW b \in Host \ {p}, InLine(h, b)
        PROVE  InLine(h, b)'
    <3>1. reset'[h][b] = reset[h][b]
      BY <2>1, CommandFacts
    <3>2. link'[h][b] = link[h][b] /\ (b \in failed[h] => b \in failed'[h])
      BY <2>3, IfupFacts
    <3> QED
      BY <2>1, <2>5, <3>1, <3>2, InLineKept
  <2>6. ASSUME ~stale'[h], p \notin changed[h]
        PROVE  InLine(h, p)'
    <3>1. CASE Ifup(h, p)
      BY <2>1, <3>1, IfupFacts DEF InLine, Down
    <3>2. CASE UNCHANGED runVars /\ (p \in ifstate[h] \/ p \notin Configured(h) \/ Exists(h, p))
      <4>1. ~stale[h] /\ ~(/\ p \in ifstate[h] /\ p \in Configured(h)
                          /\ ~Exists(h, p) /\ p \notin changed[h])
        BY <1>13, <2>6 DEF ResetUp, TypeOK
      <4>2. InLine(h, p)
        BY <2>6, <4>1 DEF DifferOnChanged
      <4>3. CASE link[h][p] = conf[h][p]
        BY <2>1, <3>2, <4>3 DEF InLine
      <4>4. CASE link[h][p] = NoPort /\ conf[h][p] # NoPort
        <5>1. p \in Configured(h)
          BY <4>4 DEF Configured
        <5>2. p \in failed[h]
          BY <2>6, <3>2, <4>1, <4>4, <5>1 DEF Exists
        <5> QED
          BY <3>2, <4>4, <5>2 DEF InLine, Down
      <4> QED
        BY <4>2, <4>3, <4>4 DEF InLine
    <3> QED
      BY <1>13, <3>1, <3>2 DEF ResetUp
  <2>7. ~stale'[h] => ~stale[h]
    BY <1>13 DEF ResetUp, TypeOK
  <2>8. ~stale'[h] => \A b \in Host : b \in changed'[h] \/ InLine(h, b)'
    BY <2>1, <2>5, <2>6, <2>7 DEF DifferOnChanged
  <2> QED
    BY <2>1, <2>2, <2>4, <2>8, DifferOne DEF DifferOnChanged
<1>14. CASE UNCHANGED vars
  BY <1>14 DEF vars, hostVars, DifferOnChanged, InLine, Down
<1> QED
  BY <1>1, <1>2, <1>3, <1>4, <1>5, <1>6, <1>7, <1>8, <1>9, <1>11, <1>12, <1>13, <1>14,
     ManagedAssumption, CronAssumption DEF OpenNext, RouterStep, PlayStep, Autoreset

THEOREM AlwaysDifferOnChanged == OpenSpec => []DifferOnChanged
BY OpenSpecForm, DifferInit, DifferNext, Typing, PTL

(* A router whose links were not left behind runs its files between plays, *)
(* less the links whose ifup failed or which are being reset.              *)
THEOREM IdleAlwaysRunsConf == OpenSpec => []IdleRunsConf
<1>1. DifferOnChanged => IdleRunsConf
  BY DEF DifferOnChanged, IdleRunsConf
<1> QED
  BY <1>1, AlwaysDifferOnChanged, PTL

-----------------------------------------------------------------------------
(***************************************************************************)
(* The plans that TLC runs, one grant or one file at a time, are plans     *)
(* that PortPlan allows: a file lists a link at both ends because grants   *)
(* are made to both, and of different routers.  So every theorem of        *)
(* OpenSpec is one of Spec.                                                *)
(***************************************************************************)

BothEnds ==
    /\ \A g \in issued : g[1] # g[2] /\ <<g[2], g[1], g[3]>> \in issued
    /\ \A l \in plan.pairs : /\ plan.readable /\ l[1] # l[2]
                            /\ <<l[2], l[1]>> \in plan.pairs /\ Granted(l, issued)

LEMMA BothEndsInit == Init => BothEnds
BY DEF Init, PlanInit, NoPlan, BothEnds

LEMMA IssueGrantStep == Typed /\ BothEnds /\ IssueGrant => AnyPlan /\ BothEnds'
<1> SUFFICES ASSUME TypeOK, BothEnds, IssueGrant
             PROVE  AnyPlan /\ BothEnds'
  BY DEF Typed
<1>1. PICK l \in Links, p \in Port :
          /\ l[1] # l[2]
          /\ issued' = issued \cup {<<l[1], l[2], p>>, <<l[2], l[1], p>>}
  BY DEF IssueGrant
<1>2. OneToOne(issued') /\ plan' = plan /\ UNCHANGED hostVars
  BY DEF IssueGrant
<1>3. l[1] \in Host /\ l[2] \in Host
  BY <1>1, LinksAssumption
<1>4. issued \subseteq issued' /\ issued' \subseteq Host \X Host \X Port
  BY <1>1, <1>3 DEF TypeOK
<1>5. \A g \in issued' : g[1] # g[2] /\ <<g[2], g[1], g[3]>> \in issued'
  <2> SUFFICES ASSUME NEW g \in issued'
               PROVE  g[1] # g[2] /\ <<g[2], g[1], g[3]>> \in issued'
    OBVIOUS
  <2>1. CASE g \in issued
    BY <1>4, <2>1 DEF BothEnds
  <2>2. CASE g = <<l[1], l[2], p>> \/ g = <<l[2], l[1], p>>
    BY <1>1, <2>2
  <2> QED
    BY <1>1, <2>1, <2>2
<1>6. \A l1 \in plan.pairs : /\ plan.readable /\ l1[1] # l1[2]
                            /\ <<l1[2], l1[1]>> \in plan.pairs /\ Granted(l1, issued')
  BY <1>4 DEF BothEnds, Granted
<1>7. BothEnds'
  BY <1>2, <1>5, <1>6 DEF BothEnds
<1>8. AnyPlan
  BY <1>2, <1>4, <1>6 DEF AnyPlan, Replace, TypeOK
<1> QED
  BY <1>7, <1>8

LEMMA ReplacePlanStep == Typed /\ BothEnds /\ ReplacePlan => AnyPlan /\ BothEnds'
<1> SUFFICES ASSUME TypeOK, OneToOne(issued), BothEnds, ReplacePlan
             PROVE  AnyPlan /\ BothEnds'
  BY DEF Typed
<1>1. PICK ls \in SUBSET Links :
          /\ \A l \in ls : Granted(l, issued)
          /\ plan' = [readable |-> TRUE, pairs |-> ls \cup {<<l[2], l[1]>> : l \in ls}]
  BY DEF ReplacePlan
<1>2. issued' = issued /\ UNCHANGED hostVars
  BY DEF ReplacePlan
<1>3. plan'.readable = TRUE /\ plan'.pairs = ls \cup {<<l[2], l[1]>> : l \in ls}
  BY <1>1
<1>4. \A l \in ls : /\ l = <<l[1], l[2]>> /\ l \in Host \X Host
                    /\ l[1] # l[2] /\ Granted(<<l[2], l[1]>>, issued)
  <2> SUFFICES ASSUME NEW l \in ls
               PROVE  /\ l = <<l[1], l[2]>> /\ l \in Host \X Host
                      /\ l[1] # l[2] /\ Granted(<<l[2], l[1]>>, issued)
    OBVIOUS
  <2>1. l = <<l[1], l[2]>> /\ l \in Host \X Host
    BY LinksAssumption
  <2>2. PICK g \in issued : g[1] = l[1] /\ g[2] = l[2]
    BY <1>1 DEF Granted
  <2>3. g[1] # g[2] /\ <<g[2], g[1], g[3]>> \in issued
    BY DEF BothEnds
  <2> QED
    BY <2>1, <2>2, <2>3 DEF Granted
<1>5. plan' \in [readable : BOOLEAN, pairs : SUBSET (Host \X Host)]
  <2>1. \A l \in ls : <<l[2], l[1]>> \in Host \X Host
    BY <1>4
  <2>2. {<<l[2], l[1]>> : l \in ls} \subseteq Host \X Host
    BY <2>1
  <2>3. plan'.pairs \subseteq Host \X Host
    BY <1>3, <1>4, <2>2
  <2> QED
    BY <1>1, <1>3, <2>3
<1>6. \A l \in plan'.pairs : /\ plan'.readable /\ l[1] # l[2]
                            /\ <<l[2], l[1]>> \in plan'.pairs /\ Granted(l, issued)
  <2> SUFFICES ASSUME NEW l \in plan'.pairs
               PROVE  /\ l[1] # l[2] /\ <<l[2], l[1]>> \in plan'.pairs /\ Granted(l, issued)
    BY <1>3
  <2>1. CASE l \in ls
    BY <1>1, <1>3, <1>4, <2>1
  <2>2. ASSUME NEW k \in ls, l = <<k[2], k[1]>>
        PROVE  /\ l[1] # l[2] /\ <<l[2], l[1]>> \in plan'.pairs /\ Granted(l, issued)
    <3>1. <<l[2], l[1]>> = k
      BY <1>4, <2>2
    <3> QED
      BY <1>3, <1>4, <2>2, <3>1
  <2> QED
    BY <1>3, <2>1, <2>2
<1>7. BothEnds'
  BY <1>2, <1>6 DEF BothEnds
<1>8. AnyPlan
  BY <1>2, <1>5, <1>6 DEF AnyPlan, Replace, TypeOK
<1> QED
  BY <1>7, <1>8

LEMMA LosePlanStep == Typed /\ BothEnds /\ LosePlan => AnyPlan /\ BothEnds'
BY DEF Typed, TypeOK, BothEnds, LosePlan, NoPlan, AnyPlan, Replace

LEMMA BothEndsNext == Typed /\ BothEnds /\ [Next]_vars => [OpenNext]_vars /\ BothEnds'
<1> SUFFICES ASSUME Typed, BothEnds, [Next]_vars
             PROVE  [OpenNext]_vars /\ BothEnds'
  OBVIOUS
<1>1. CASE Environment
  BY <1>1, IssueGrantStep, ReplacePlanStep, LosePlanStep DEF Environment, OpenNext
<1>2. CASE RouterStep
  BY <1>2, RouterKeepsPlan DEF OpenNext, BothEnds, Granted
<1>3. CASE UNCHANGED vars
  BY <1>3 DEF vars, BothEnds, Granted
<1> QED
  BY <1>1, <1>2, <1>3 DEF Next

LEMMA SpecInvariant == Spec => [](Typed /\ BothEnds)
<1>1. Init => Typed /\ BothEnds
  BY TypedInit, BothEndsInit
<1>2. Typed /\ BothEnds /\ [Next]_vars => (Typed /\ BothEnds)'
  BY BothEndsNext, TypedNext
<1> QED
  BY <1>1, <1>2, PTL DEF Spec

(* What TLC runs is a case of what the theorems are about, ...             *)
THEOREM Opens == Spec => OpenSpec
<1>1. Typed /\ BothEnds /\ [Next]_vars => [AnyPlan \/ RouterStep]_vars
  BY BothEndsNext DEF OpenNext
<1> QED
  BY <1>1, SpecInvariant, PTL DEF Spec, OpenSpec

(* ... and its plans keep the promise of PortPlan.                         *)
THEOREM PlansAsPromised == Spec => PlanSpec
<1>1. Init => PlanInit
  BY DEF Init
<1>2. Typed /\ BothEnds /\ [Next]_vars => [Replace]_<<issued, plan>>
  <2> SUFFICES ASSUME Typed, BothEnds, [Next]_vars
               PROVE  [Replace]_<<issued, plan>>
    OBVIOUS
  <2>1. CASE Environment
    BY <2>1, IssueGrantStep, ReplacePlanStep, LosePlanStep DEF Environment, AnyPlan
  <2>2. CASE RouterStep
    BY <2>2, RouterKeepsPlan
  <2>3. CASE UNCHANGED vars
    BY <2>3 DEF vars
  <2> QED
    BY <2>1, <2>2, <2>3 DEF Next
<1> QED
  BY <1>1, <1>2, SpecInvariant, PTL DEF Spec, PlanSpec

(* The variables keep their types under the specification that TLC runs:   *)
(* a router's links are on ports, and a play is at one of its tasks.       *)
THEOREM TypeCorrect == Spec => []TypeOK
<1>1. Typed => TypeOK
  BY DEF Typed
<1> QED
  BY <1>1, Opens, Typing, PTL

(* The links, for the specification that TLC runs: both ends agree, no two *)
(* of a router clash, and one that was not left stale runs its files.      *)
THEOREM LinksAlwaysRight == Spec => [](EndpointsAgree /\ NoListenClash /\ IdleRunsConf)
BY Opens, EndpointsAlwaysAgree, NeverListenClash, IdleAlwaysRunsConf, PTL
=============================================================================
