----------------------------- MODULE MCPayments -----------------------------
(* Two rooms, one order that may be paid twice, two coupon codes and two    *)
(* handlers at a time.                                                      *)
EXTENDS Payments, TLC

\* Rooms are told apart only by the orders and redemptions that name them.
Interchangeable == Permutations(Rooms) \cup Permutations(Coupons) \cup Permutations(Handlers) \cup Permutations(Transfers)
=============================================================================
