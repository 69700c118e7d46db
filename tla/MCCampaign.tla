---------------------------- MODULE MCCampaign ----------------------------
(* A small instance of Campaign: two campaigns, each of one message to the *)
(* same customer, a budget for one of them, and two workers that are alike. *)
EXTENDS Campaign, TLC

CONSTANTS k1, k2, p, w1, w2

MCOf == [m \in Message |-> IF m = 1 THEN k1 ELSE k2]
MCWho == [m \in Message |-> p]
MCAlike == Permutations({w1, w2})

=============================================================================
