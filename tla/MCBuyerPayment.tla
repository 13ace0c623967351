--------------------------- MODULE MCBuyerPayment ---------------------------
(* Instances of BuyerPayment for TLC. *)
EXTENDS BuyerPayment, TLC

CONSTANTS j1, j2, k1, k2, o1

(* Attempts at one request, or at one each.                                *)
SharedKey == [j \in Journals |-> k1]
DistinctKeys == [j \in Journals |-> IF j = j1 THEN k1 ELSE k2]

(* Answers name the payment they answer, or any payment of this payer.     *)
OwnPayment == [j \in Journals |-> {j}]
AnyPayment == [j \in Journals |-> Journals]
=============================================================================
