--------------------------- MODULE MCProviderBudget ---------------------------
(* One request costs twice as much as the others. *)
EXTENDS ProviderBudget

CONSTANTS Dear

MCCost == [r \in Requests |-> IF r = Dear THEN 2 ELSE 1]
================================================================================
