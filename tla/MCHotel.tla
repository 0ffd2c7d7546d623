------------------------------ MODULE MCHotel ------------------------------
(* One room, which lives for two units of time and is boosted at most twice, *)
(* and a browser that waits for two answers at a time.                       *)
EXTENDS Hotel
=============================================================================
