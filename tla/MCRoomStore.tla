----------------------------- MODULE MCRoomStore -----------------------------
(* A small room for TLC: three user ids, two requests in flight at a time,  *)
(* and the caps and deadlines of a room of two that a boost makes a room of *)
(* three.  The limits of the runs are named after what they allow.          *)
EXTENDS RoomStore, TLC

AllOperations == [join |-> 2, send |-> 1, leave |-> 2, boost |-> 1, fail |-> 1]
JoinsOnly     == [join |-> 2, send |-> 0, leave |-> 0, boost |-> 0, fail |-> 0]
JoinsAndBoost == [join |-> 1, send |-> 0, leave |-> 0, boost |-> 1, fail |-> 0]

\* The request slots are interchangeable.
Slots == Permutations(Req)
=============================================================================
