---------------------------- MODULE MCSessionBudget ----------------------------
(***************************************************************************)
(* Two proxies on one Redis counter, three of four metered requests on the *)
(* first: the budget fits two prompts, a third is one too many, and both   *)
(* proxies may compare with the same reading.  r5's policy has no budget.  *)
(***************************************************************************)
EXTENDS SessionBudget

CONSTANTS r1, r2, r3, r4, r5, p1, p2

Placement == [r \in Requests |-> IF r \in {r1, r2, r3} THEN p1 ELSE p2]
Prompts == [r \in Requests |-> 1]
Limits == [r \in Requests |-> IF r = r5 THEN 0 ELSE 2]
=============================================================================
