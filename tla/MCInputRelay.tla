---------------------------- MODULE MCInputRelay ----------------------------
(***************************************************************************)
(* Two frames and batches of two.  Each behaviour spends one of the budgets*)
(* below, so the rare operations are combined without multiplying them all.*)
(***************************************************************************)
EXTENDS InputRelay

Budget(s, h, r, d, p, c) ==
  [syncs |-> s, handoffs |-> h, returns |-> r, drops |-> d, pauses |-> p, checks |-> c]
RelayBudgets == {Budget(1, 0, 0, 1, 0, 1), Budget(0, 1, 0, 1, 0, 1), Budget(0, 0, 0, 0, 1, 1),
                 Budget(1, 0, 1, 0, 1, 0), Budget(0, 1, 0, 0, 1, 0), Budget(2, 0, 2, 0, 0, 0)}
=============================================================================
