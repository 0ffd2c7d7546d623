----------------------------- MODULE MCPurchase -----------------------------
(* Two rooms of one user, two orders, two requests or timers at a time.      *)
EXTENDS Purchase, TLC

Symmetry == Permutations(Calls) \cup Permutations(Rooms) \cup Permutations(Orders)
=============================================================================
