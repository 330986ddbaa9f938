------------------------------ MODULE PingCost ------------------------------
(***************************************************************************)
(* The OSPF cost that scripts/igpping/igpping.py makes of the pings of a   *)
(* neighbour: the average of the answers, a base cost, and a penalty for   *)
(* each ping that was lost.  A line of fping is what the script adds up    *)
(* from it: the number of answers and their times in whole milliseconds.   *)
(***************************************************************************)
EXTENDS Integers

CONSTANTS
    PingCount,      \* igpping_ping_count
    LossPenalty,    \* igpping_lost_penalty
    BaseCost,       \* igpping_base_cost
    FallbackCost,   \* igpping_fallback_cost
    MaxRtt          \* fping gives up on a ping after this time

MinCost == 1
MaxCost == 65535

ASSUME CostAssumption ==
    /\ PingCount \in Nat
    /\ LossPenalty \in Nat /\ BaseCost \in Nat /\ MaxRtt \in Nat
    /\ FallbackCost \in MinCost..MaxCost

(* global-config/igpping.yml leaves room between the worst cost that can   *)
(* be measured and the fallback.                                           *)
ASSUME RoomAssumption ==
    /\ FallbackCost > MaxRtt + BaseCost + PingCount * LossPenalty
    /\ FallbackCost > MinCost

Line == {l \in [answers : 0..PingCount, total : Nat] :
            l.total <= l.answers * MaxRtt}

Clamp(c) == IF c < MinCost THEN MinCost ELSE IF c > MaxCost THEN MaxCost ELSE c

(* rtt_avg + penalty                                                       *)
Measured(l) ==
    Clamp((l.total \div l.answers) + BaseCost + (PingCount - l.answers) * LossPenalty)

\* Faulty: a host without answers gets the penalties and the base cost
calc_costs_silent(lines) ==
    [h \in DOMAIN lines |-> IF lines[h].answers > 0 THEN Measured(lines[h])
                            ELSE Clamp(BaseCost + PingCount * LossPenalty)]

(* The costs of the hosts that answered; the others have none.             *)
calc_costs(lines) ==
    [h \in {g \in DOMAIN lines : lines[g].answers > 0} |-> Measured(lines[h])]

\* Faulty: no cost is no distance
CostOfZero(results, h) == IF h \in DOMAIN results THEN results[h] ELSE 0

(* results.get(host, FallbackCost)                                         *)
CostOf(results, h) == IF h \in DOMAIN results THEN results[h] ELSE FallbackCost
=============================================================================
