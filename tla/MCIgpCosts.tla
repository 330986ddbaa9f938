----------------------------- MODULE MCIgpCosts -----------------------------
(* IgpCosts with two neighbours and the costs of global-config: one        *)
(* answers one of two pings, or does not answer at all, and the two costs  *)
(* differ by two digits.                                                   *)
EXTENDS IgpCosts

MCLines == {[answers |-> 1, total |-> 500], [answers |-> 0, total |-> 0]}
=============================================================================
