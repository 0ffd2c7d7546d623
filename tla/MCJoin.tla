------------------------------- MODULE MCJoin -------------------------------
(* Two tabs and two requests at a time; one place free, another to buy.    *)
EXTENDS Join, TLC

Interchangeable == Permutations(Tabs) \cup Permutations(Calls)
=============================================================================
