------------------------------ MODULE PortPlan ------------------------------
(***************************************************************************)
(* What global-config/igp-tunnels.yml promises to the routers that are     *)
(* configured from it: which routers are neighbours, and on which port.    *)
(*                                                                         *)
(* A grant <<a, b, p>> says that a reaches its neighbour b on port p, and  *)
(* listens for b on p.  "VPN port allocations ... stick around even as     *)
(* links are removed, in order to ensure stability"                        *)
(* (src/scripts/enumerate-igp-tunnels.py:55): a router keeps an interface  *)
(* until it is next configured, so a grant handed out at any time may      *)
(* still be in use somewhere.  Grants are never withdrawn, and it is their *)
(* whole history that has to be consistent, not the latest file.           *)
(***************************************************************************)
VARIABLES
    issued,     \* every grant <<a, b, port>> that was ever in a readable file
    plan        \* the file now: is it readable, and who are neighbours

(* Both ends of a link were told the same, single port, and no other link  *)
(* was ever told that port.                                                *)
OneToOne(grants) ==
    \A g1, g2 \in grants :
        (g1[3] = g2[3]) <=> ({g1[1], g1[2]} = {g2[1], g2[2]})

NoPlan == [readable |-> FALSE, pairs |-> {}]

Granted(l, grants) == \E g \in grants : g[1] = l[1] /\ g[2] = l[2]

PlanInit == issued = {} /\ plan = NoPlan

(* The file is replaced, by one that lists every link at both ends, with a *)
(* grant for it, or by an unreadable one, which lists none.                *)
Replace ==
    /\ issued \subseteq issued' /\ OneToOne(issued')
    /\ \A l \in plan'.pairs : /\ plan'.readable
                              /\ l[1] # l[2]
                              /\ <<l[2], l[1]>> \in plan'.pairs
                              /\ Granted(l, issued')

PlanSpec == PlanInit /\ [][Replace]_<<issued, plan>>
=============================================================================
