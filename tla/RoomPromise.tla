----------------------------- MODULE RoomPromise -----------------------------
(***************************************************************************)
(* What a temporary room promises its users, without keys, requests or     *)
(* Redis: it opens once, a boost extends its life and may raise its caps,  *)
(* it closes for good, and the messages it holds are gone by its deadline. *)
(***************************************************************************)
EXTENDS Naturals

CONSTANTS BoostTTL, BoostMaxP, BoostMaxE

VARIABLES
  clock,
  status,      \* "none", "open" or "closed"
  deadline,    \* the expires_at users are shown
  maxP, maxE,  \* participants and events the room admits
  holding      \* whether any message of the room is stored

terms == <<deadline, maxP, maxE>>
vars == <<clock, status, terms, holding>>

AtLeast(a, b) == IF a >= b THEN a ELSE b

Init ==
  /\ clock = 0
  /\ status = "none"
  /\ deadline = 0 /\ maxP = 0 /\ maxE = 0
  /\ holding = FALSE

\* A room gets its terms once, when it opens.
Open ==
  /\ status = "none" /\ status' = "open"
  /\ deadline' > clock
  /\ maxP' > 0 /\ maxE' > 0
  /\ UNCHANGED <<clock, holding>>

\* A boost adds time to an open room and takes nothing away.
Boost ==
  /\ status = "open"
  /\ deadline' = deadline + BoostTTL
  /\ maxP' = AtLeast(maxP, BoostMaxP)
  /\ maxE' = AtLeast(maxE, BoostMaxE)
  /\ holding' = TRUE
  /\ UNCHANGED <<clock, status>>

\* Messages are stored before the deadline only.
Hold == clock < deadline /\ holding' = TRUE /\ UNCHANGED <<clock, status, terms>>

Erase == holding' = FALSE /\ UNCHANGED <<clock, status, terms>>

Close ==
  /\ status = "open" /\ status' = "closed"
  /\ holding' \in {FALSE, holding}
  /\ UNCHANGED <<clock, terms>>

\* Time may close the room and erase its messages; at the deadline it must
\* have erased them.
Advance ==
  /\ clock' = clock + 1
  /\ status' = status \/ (status = "open" /\ status' = "closed")
  /\ holding' \in {FALSE, holding}
  /\ clock' >= deadline => ~holding'
  /\ UNCHANGED terms

Next == Open \/ Boost \/ Hold \/ Erase \/ Close \/ Advance

Spec == Init /\ [][Next]_vars
=============================================================================
