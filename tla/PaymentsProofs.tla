--------------------------- MODULE PaymentsProofs ---------------------------
(***************************************************************************)
(* Proofs about Payments, for every number of orders, coupons, transfers    *)
(* and handlers: what the statuses say, how often an order is granted and a *)
(* coupon redeemed, and what an answered webhook has done.                  *)
(***************************************************************************)
EXTENDS Payments, FiniteSetTheorems, TLAPS

-----------------------------------------------------------------------------
(* The inductive invariant.                                                *)

Webhooks == {"check", "get", "idem"} \cup Settling

\* A handler holds what its next round trip needs; a script that was sent again boosted.
HandlersAreWhole ==
  /\ \A o \in Orders : reboosted[o] <= boosted[o]
  /\ \A h \in Handlers :
       LET x == handlers[h] IN
         /\ x.pc \in {"order", "checkout"} \cup Webhooks => x.order \in Orders
         /\ x.pc \notin Webhooks => x.transfer = {}
         /\ x.pc \in Webhooks =>
              \E p \in paid : x.transfer = {p.transfer} /\ x.order = p.order
         /\ x.pc \in Redeeming => x.coupon \in Coupons \ unused
         /\ x.pc = "complete" => boosted[x.order] > reboosted[x.order]
         /\ x.pc = "expired" => /\ issued[x.order] > 0
                                /\ x.coupon \in Coupons \ unused
                                /\ coupons[x.coupon].order \in {x.order, NoOrder}

\* A transfer pays one order, one that a payer was told how to pay; what is answered or
\* remembered was paid.
PaymentsAreOwn ==
  /\ IsFiniteSet(paid)
  /\ \A p \in paid : p.order \in payable
  /\ \A p, q \in paid : p.transfer = q.transfer => p = q
  /\ \A t \in Transfers :
       idem[t] # 0 \/ t \in answered => \E p \in paid : p.transfer = t

Untouched(o) ==
  orders[o].status = "none" /\ o \notin payable /\ boosted[o] = 0 /\ issued[o] = 0

\* Nothing is known of an order or a coupon before it is created.
NothingBefore ==
  /\ \A o \in Orders \cap unused : Untouched(o) /\ \A h \in Handlers : handlers[h].order # o
  /\ \A h \in Handlers :
       At(h, "order") =>
         /\ Untouched(handlers[h].order)
         /\ \A g \in Handlers : handlers[g].order = handlers[h].order => g = h
  /\ \A c \in Coupons \cap unused :
       /\ coupons[c].order = NoOrder /\ redeemed[c] = 0 /\ c \notin shown
       /\ \A h \in Handlers : handlers[h].coupon # c
       /\ \A o \in Orders : orders[o].coupon # c

\* An order granted by more than what was sent again is not pending, or about to be recorded.
GrantsAreRecorded ==
  Without({"overlap", "error", "crash"}) =>
    /\ \A g, h \in Handlers :
         /\ handlers[g].pc \in Settling /\ handlers[h].pc \in Settling
         /\ handlers[g].order = handlers[h].order
         => g = h
    /\ \A h \in Handlers :
         handlers[h].pc \in {"apply", "issue"} =>
           Granted(handlers[h].order) <= reboosted[handlers[h].order]
    /\ \A o \in Orders :
         orders[o].status = "pending" /\ Granted(o) > reboosted[o] =>
           \E h \in Handlers : handlers[h].pc \in {"complete", "expired"} /\ handlers[h].order = o
    /\ \A o \in Orders : Granted(o) <= 1 + reboosted[o]

\* A coupon is the only one of its order, which names it or is about to.
CouponsAreNamed ==
  Without({"overlap", "error", "crash"}) =>
    \A c \in Coupons :
      LET o == coupons[c].order IN
        o # NoOrder =>
          /\ issued[o] > 0
          /\ \A h \in Handlers : At(h, "expired") /\ handlers[h].order = o => handlers[h].coupon = c
          /\ \/ orders[o].coupon = c
             \/ orders[o].status = "none"
             \/ \E h \in Handlers : /\ At(h, "expired")
                                    /\ handlers[h].order = o /\ handlers[h].coupon = c

\* A coupon that has boosted a room is used, or about to be marked.
RedemptionsAreRecorded ==
  Without({"redeem", "error", "crash"}) =>
    /\ \A g, h \in Handlers :
         /\ handlers[g].pc \in Redeeming /\ handlers[h].pc \in Redeeming
         /\ handlers[g].coupon = handlers[h].coupon
         => g = h
    /\ \A h \in Handlers :
         handlers[h].pc \in {"getroom", "redeem"} =>
           redeemed[handlers[h].coupon] <= reredeemed[handlers[h].coupon]
    /\ \A c \in Coupons :
         coupons[c].status = "unused" /\ redeemed[c] > reredeemed[c] =>
           \E h \in Handlers : At(h, "mark") /\ handlers[h].coupon = c
    /\ \A c \in Coupons : redeemed[c] <= 1 + reredeemed[c]

\* An order that can be paid is kept, unless it has lapsed or been granted; what is
\* remembered or answered has been granted.
AnswersAreTrue ==
  /\ \A o \in Orders :
       o \in payable \/ (\E h \in Handlers : At(h, "checkout") /\ handlers[h].order = o) =>
         orders[o].status # "none" \/ o \in lapsed \/ Granted(o) > 0
  /\ Without({"error"}) =>
       /\ \A h \in Handlers : At(h, "idem") => Granted(handlers[h].order) > 0
       /\ \A p \in paid : idem[p.transfer] # 0 => Granted(p.order) > 0
       /\ \A p \in paid :
            p.right /\ p.transfer \in answered /\ p.order \notin lapsed => Granted(p.order) > 0

\* The payments that may have been granted: their key has been set, or is about to be.
Counted(o) ==
  {p \in RightPayments(o) :
     \/ idem[p.transfer] # 0
     \/ \E h \in Handlers :
          p.transfer \in handlers[h].transfer /\ handlers[h].pc \in {"complete", "expired", "idem"}}

\* Between checking and setting a key a call is the only one of its transfer, and
\* finds its order pending only if the key was never set.
KeysAreKept ==
  /\ \A o \in Orders :
       orders[o].status = "pending" => now < orders[o].exp /\ orders[o].exp <= now + OrderTTL
  /\ \A p \in paid :
       orders[p.order].status = "pending" /\ idem[p.transfer] # 0 =>
         orders[p.order].exp <= idem[p.transfer]
  /\ Without({"twice", "unmarked", "crash"}) =>
       /\ \A g, h \in Handlers :
            /\ handlers[g].pc \in Settling \cup {"get", "idem"}
            /\ handlers[h].pc \in Settling \cup {"get", "idem"}
            /\ handlers[g].transfer \cap handlers[h].transfer # {}
            => g = h
       /\ \A h \in Handlers :
            \A t \in handlers[h].transfer :
              /\ handlers[h].pc \in Settling \cup {"get", "idem"} => idem[t] <= now
              /\ handlers[h].pc \in {"apply", "issue"} => idem[t] = 0 /\ RightAmount(h)

GrantsAreCounted ==
  Without({"twice", "unmarked", "crash"}) =>
    \A o \in Orders : Granted(o) <= Cardinality(Counted(o)) + reboosted[o]

IInv ==
  /\ TypeOK
  /\ HandlersAreWhole
  /\ PaymentsAreOwn
  /\ NothingBefore
  /\ StatusIsTruthful
  /\ GrantsAreRecorded
  /\ CouponsAreNamed
  /\ RedemptionsAreRecorded
  /\ AnswersAreTrue
  /\ HashesExpire
  /\ KeysAreKept
  /\ GrantsAreCounted

-----------------------------------------------------------------------------
(* What becomes of a handler.                                              *)

Pcs == {"idle", "order", "checkout", "check", "get", "idem"} \cup Settling \cup Redeeming

HandlerStates ==
  [pc : Pcs, transfer : SUBSET Transfers, order : Orders \cup {NoOrder},
   room : Rooms \cup {NoRoom}, coupon : Coupons \cup {NoCoupon}]

LEMMA HandlerTypes ==
  ASSUME TypeOK
  PROVE  handlers \in [Handlers -> HandlerStates] /\ Idle \in HandlerStates
BY DEF TypeOK, HandlerStates, Pcs, Idle

\* A handler makes its next round trip.
LEMMA GoesOn ==
  ASSUME TypeOK, NEW h \in Handlers, NEW pc \in Pcs, Go(h, pc)
  PROVE  /\ handlers' \in [Handlers -> HandlerStates]
         /\ handlers'[h].pc = pc /\ handlers'[h].transfer = handlers[h].transfer
         /\ handlers'[h].order = handlers[h].order /\ handlers'[h].room = handlers[h].room
         /\ handlers'[h].coupon = handlers[h].coupon
         /\ \A g \in Handlers \ {h} : handlers'[g] = handlers[g]
<1>1. handlers \in [Handlers -> HandlerStates]
  BY HandlerTypes
<1>2. handlers' = [handlers EXCEPT ![h].pc = pc]
  BY DEF Go
<1>3. QED
  BY <1>1, <1>2 DEF HandlerStates

\* A handler is done.
LEMMA IsDone ==
  ASSUME TypeOK, NEW h \in Handlers, Done(h)
  PROVE  /\ handlers' \in [Handlers -> HandlerStates]
         /\ handlers'[h] = Idle
         /\ \A g \in Handlers \ {h} : handlers'[g] = handlers[g]
BY HandlerTypes DEF Done

\* A handler begins.
LEMMA Begins ==
  ASSUME TypeOK, NEW h \in Handlers, NEW r \in HandlerStates, handlers' = [handlers EXCEPT ![h] = r]
  PROVE  /\ handlers' \in [Handlers -> HandlerStates]
         /\ handlers'[h] = r
         /\ \A g \in Handlers \ {h} : handlers'[g] = handlers[g]
BY HandlerTypes

\* What has been counted.
LEMMA CountTypes ==
  ASSUME IInv
  PROVE  /\ boosted \in [Orders -> Nat] /\ issued \in [Orders -> Nat]
         /\ reboosted \in [Orders -> Nat] /\ \A o \in Orders : reboosted[o] <= boosted[o]
         /\ redeemed \in [Coupons -> Nat] /\ reredeemed \in [Coupons -> Nat]
BY DEF IInv, TypeOK, HandlersAreWhole

-----------------------------------------------------------------------------
(* A handler ends, and has answered at most its own transfer.              *)

LEMMA HandlerLeaves ==
  ASSUME IInv, NEW h \in Handlers, Done(h),
         UNCHANGED <<now, redis, unused, paid, shown, boosted, issued, reboosted, reredeemed, lapsed>>,
         \/ redeemed' = redeemed
         \/ /\ At(h, "redeem") /\ "error" \in races'
            /\ redeemed' = [redeemed EXCEPT ![handlers[h].coupon] = @ + 1],
         open' \subseteq open, budget' \in [extra : Nat, redeem : Nat, failure : Nat],
         races \subseteq races',
         races' \subseteq {"overlap", "twice", "redeem", "late", "error", "unmarked", "crash"},
         payable' = payable \/ (At(h, "checkout") /\ payable' = payable \cup {handlers[h].order}),
         handlers[h].pc \in {"complete", "expired", "mark"} =>
           races' \cap {"error", "crash"} # {},
         handlers[h].pc \in {"complete", "expired", "idem"} =>
           races' \cap {"unmarked", "crash"} # {},
         answered' = answered \/ answered' = answered \cup handlers[h].transfer,
         "error" \notin races' =>
           \A p \in paid : p.transfer \in answered' \ answered /\ p.right /\ p.order \notin lapsed
                             => Granted(p.order) > 0
  PROVE  IInv'
<1>1. /\ handlers' \in [Handlers -> HandlerStates]
      /\ handlers'[h] = Idle /\ \A g \in Handlers \ {h} : handlers'[g] = handlers[g]
      /\ Idle.pc = "idle" /\ Idle.transfer = {} /\ Idle.order = NoOrder /\ Idle.coupon = NoCoupon
  BY IsDone DEF IInv, Idle
<1>2. handlers[h] \in HandlerStates
  BY HandlerTypes DEF IInv
<1>3. At(h, "checkout") => handlers[h].order \in Orders \ unused
  BY DEF IInv, HandlersAreWhole, NothingBefore, At
<1>17. /\ redeemed' \in [Coupons -> Nat]
       /\ \A c \in Coupons \cap unused : redeemed'[c] = redeemed[c]
       /\ redeemed' # redeemed => "error" \in races'
  <2>1. At(h, "redeem") => handlers[h].coupon \in Coupons \ unused
    BY DEF IInv, HandlersAreWhole, Redeeming, At
  <2>2. QED
    BY <2>1, CountTypes
<1>4. TypeOK'
  BY <1>1, <1>3, <1>17 DEF IInv, TypeOK, HandlerStates, Pcs, redis, history
<1>5. HandlersAreWhole'
  BY <1>1 DEF IInv, HandlersAreWhole, redis, history, Webhooks, Settling, Redeeming
<1>6. PaymentsAreOwn'
  <2>1. \A t \in handlers[h].transfer : \E p \in paid : p.transfer = t
    BY DEF IInv, HandlersAreWhole
  <2>2. QED
    BY <2>1 DEF IInv, PaymentsAreOwn, redis
<1>7. NothingBefore'
  <2> USE DEF IInv, NothingBefore, redis, history
  <2>1. \A o \in Orders \cap unused :
          Untouched(o)' /\ \A g \in Handlers : handlers'[g].order # o
    BY <1>1, <1>3, PaymentsAssumption DEF Untouched
  <2>2. ASSUME NEW g \in Handlers, At(g, "order")'
        PROVE  /\ Untouched(handlers[g].order)'
               /\ \A f \in Handlers : handlers'[f].order = handlers[g].order => f = g
    <3>1. g # h /\ At(g, "order") /\ handlers'[g] = handlers[g] /\ handlers[g].order \in Orders
      BY <1>1, <2>2 DEF At, HandlersAreWhole
    <3>2. \A f \in Handlers : handlers[f].order = handlers[g].order => f = g
      BY <3>1
    <3>3. \A f \in Handlers : handlers'[f].order = handlers[g].order => f = g
      BY <1>1, <3>1, <3>2, PaymentsAssumption
    <3>4. Untouched(handlers[g].order)'
      BY <1>1, <3>1, <3>2 DEF Untouched, At
    <3>5. QED
      BY <3>3, <3>4
  <2>3. \A c \in Coupons \cap unused :
          /\ coupons'[c].order = NoOrder /\ redeemed'[c] = 0 /\ c \notin shown'
          /\ \A g \in Handlers : handlers'[g].coupon # c
          /\ \A o \in Orders : orders'[o].coupon # c
    BY <1>1, <1>17, PaymentsAssumption
  <2>4. QED
    BY <1>1, <2>1, <2>2, <2>3 DEF At
<1>8. StatusIsTruthful'
  BY <1>1 DEF IInv, StatusIsTruthful, redis, history
<1>9. HashesExpire'
  BY <1>1 DEF IInv, HashesExpire, Without, redis, history
<1>10. GrantsAreRecorded'
  BY <1>1, PaymentsAssumption
     DEF IInv, GrantsAreRecorded, Granted, Settling, Without, redis, history
<1>11. CouponsAreNamed'
  BY <1>1 DEF IInv, CouponsAreNamed, At, Without, redis, history
<1>12. RedemptionsAreRecorded'
  BY <1>1, <1>17, PaymentsAssumption
     DEF IInv, RedemptionsAreRecorded, At, Redeeming, Without, redis, history
<1>13. AnswersAreTrue'
  BY <1>1, PaymentsAssumption DEF IInv, AnswersAreTrue, Granted, At, Without, redis, history
<1>14. KeysAreKept'
  BY <1>1 DEF IInv, KeysAreKept, Settling, RightAmount, Without, redis, history
<1>15. GrantsAreCounted'
  <2>1. Without({"twice", "unmarked", "crash"})' =>
          Without({"twice", "unmarked", "crash"}) /\ \A o \in Orders : Counted(o)' = Counted(o)
    BY <1>1 DEF Without, Counted, RightPayments, redis
  <2>2. QED
    BY <2>1 DEF IInv, GrantsAreCounted, Granted, history
<1>16. QED
  BY <1>4, <1>5, <1>6, <1>7, <1>8, <1>9, <1>10, <1>11, <1>12, <1>13, <1>14, <1>15 DEF IInv

LEMMA HandlerEnds ==
  ASSUME IInv, NEW h \in Handlers, Done(h),
         UNCHANGED <<now, redis, unused, paid, shown, history>>,
         open' \subseteq open, budget' \in [extra : Nat, redeem : Nat, failure : Nat],
         races \subseteq races',
         races' \subseteq {"overlap", "twice", "redeem", "late", "error", "unmarked", "crash"},
         payable' = payable \/ (At(h, "checkout") /\ payable' = payable \cup {handlers[h].order}),
         handlers[h].pc \in {"complete", "expired", "mark"} =>
           races' \cap {"error", "crash"} # {},
         handlers[h].pc \in {"complete", "expired", "idem"} =>
           races' \cap {"unmarked", "crash"} # {},
         answered' = answered \/ answered' = answered \cup handlers[h].transfer,
         "error" \notin races' =>
           \A p \in paid : p.transfer \in answered' \ answered /\ p.right /\ p.order \notin lapsed
                             => Granted(p.order) > 0
  PROVE  IInv'
BY HandlerLeaves DEF history

-----------------------------------------------------------------------------
(* Orders are made.                                                        *)

LEMMA InitiatePaymentStep ==
  ASSUME IInv, NEW h \in Handlers, NEW o \in Orders, NEW r \in Rooms, InitiatePayment(h, o, r)
  PROVE  IInv'
<1> DEFINE x == [Idle EXCEPT !.pc = "order", !.order = o, !.room = r]
<1>1. /\ handlers[h].pc = "idle" /\ o \in unused /\ unused' = unused \ {o}
      /\ handlers' = [handlers EXCEPT ![h] = x]
      /\ UNCHANGED <<now, open, redis, payable, paid, answered, shown, history, budget, races>>
  BY DEF InitiatePayment, At
<1>2. /\ x \in HandlerStates
      /\ x.pc = "order" /\ x.transfer = {} /\ x.order = o /\ x.coupon = NoCoupon
  BY DEF Idle, HandlerStates, Pcs
<1> HIDE DEF x
<1>3. /\ handlers' \in [Handlers -> HandlerStates]
      /\ handlers'[h] = x /\ \A g \in Handlers \ {h} : handlers'[g] = handlers[g]
  BY <1>1, <1>2, Begins DEF IInv
<1>4. TypeOK'
  BY <1>1, <1>2, <1>3 DEF IInv, TypeOK, HandlerStates, Pcs, redis, history
<1>5. HandlersAreWhole'
  BY <1>1, <1>2, <1>3 DEF IInv, HandlersAreWhole, redis, history, Webhooks, Settling, Redeeming
<1>6. PaymentsAreOwn'
  BY <1>1, <1>2, <1>3 DEF IInv, PaymentsAreOwn, redis, history
<1>7. NothingBefore'
  BY <1>1, <1>2, <1>3, PaymentsAssumption
     DEF IInv, NothingBefore, Untouched, At, redis, history, TypeOK
<1>8. StatusIsTruthful'
  BY <1>1, <1>2, <1>3 DEF IInv, StatusIsTruthful, redis, history
<1>9. HashesExpire'
  BY <1>1, <1>2, <1>3 DEF IInv, HashesExpire, Without, redis, history
<1>10. GrantsAreRecorded'
  BY <1>1, <1>2, <1>3 DEF IInv, GrantsAreRecorded, Granted, Settling, Without, redis, history
<1>11. CouponsAreNamed'
  BY <1>1, <1>2, <1>3 DEF IInv, CouponsAreNamed, At, Without, redis, history
<1>12. RedemptionsAreRecorded'
  BY <1>1, <1>2, <1>3 DEF IInv, RedemptionsAreRecorded, At, Redeeming, Without, redis, history
<1>13. AnswersAreTrue'
  BY <1>1, <1>2, <1>3 DEF IInv, AnswersAreTrue, Granted, At, Without, redis, history
<1>14. KeysAreKept'
  BY <1>1, <1>2, <1>3 DEF IInv, KeysAreKept, Settling, RightAmount, Without, redis, history
<1>15. GrantsAreCounted'
  BY <1>1, <1>2, <1>3
     DEF IInv, GrantsAreCounted, Granted, Counted, RightPayments, Without, redis, history
<1>16. QED
  BY <1>4, <1>5, <1>6, <1>7, <1>8, <1>9, <1>10, <1>11, <1>12, <1>13, <1>14, <1>15 DEF IInv

LEMMA CreateOrderStep ==
  ASSUME IInv, NEW h \in Handlers, CreateOrder(h)
  PROVE  IInv'
<1> DEFINE o == handlers[h].order
           x == [status |-> "pending", room |-> handlers[h].room, coupon |-> NoCoupon,
                 exp |-> OrderDeadline]
<1>1. /\ handlers[h].pc = "order" /\ Go(h, "checkout")
      /\ orders' = [orders EXCEPT ![o] = x]
      /\ UNCHANGED <<now, open, coupons, idem, unused, payable, paid, answered, shown,
                     history, budget, races>>
  BY DEF CreateOrder, At
<1>2. /\ o \in Orders \ unused /\ Untouched(o)
      /\ \A g \in Handlers : handlers[g].order = o => g = h
  BY <1>1 DEF IInv, HandlersAreWhole, NothingBefore, At
<1>3. /\ x.status = "pending" /\ x.coupon = NoCoupon /\ x.exp = now + OrderTTL
      /\ x \in [status : {"none", "pending", "completed", "room_expired"},
                room : Rooms \cup {NoRoom}, coupon : Coupons \cup {NoCoupon}, exp : Nat]
      /\ now + OrderTTL > now
  BY HandlerTypes, PaymentsAssumption DEF IInv, TypeOK, HandlerStates, OrderDeadline
<1> HIDE DEF o, x
<1>4. /\ handlers' \in [Handlers -> HandlerStates]
      /\ handlers'[h].pc = "checkout" /\ handlers'[h].transfer = handlers[h].transfer
      /\ handlers'[h].order = o /\ handlers'[h].coupon = handlers[h].coupon
      /\ \A g \in Handlers \ {h} : handlers'[g] = handlers[g]
  BY <1>1, GoesOn DEF IInv, Pcs, o
<1>5. orders'[o] = x /\ \A u \in Orders \ {o} : orders'[u] = orders[u]
  BY <1>1, <1>2 DEF IInv, TypeOK
<1>6. TypeOK'
  BY <1>1, <1>2, <1>3, <1>4, <1>5 DEF IInv, TypeOK, HandlerStates, Pcs, redis, history
<1>7. HandlersAreWhole'
  BY <1>1, <1>2, <1>3, <1>4, <1>5
     DEF IInv, HandlersAreWhole, redis, history, Webhooks, Settling, Redeeming
<1>8. PaymentsAreOwn'
  BY <1>1, <1>2, <1>3, <1>4, <1>5 DEF IInv, PaymentsAreOwn, redis, history
<1>9. NothingBefore'
  BY <1>1, <1>2, <1>3, <1>4, <1>5, PaymentsAssumption
     DEF IInv, NothingBefore, Untouched, At, redis, history
<1>10. StatusIsTruthful'
  BY <1>1, <1>2, <1>3, <1>4, <1>5 DEF IInv, StatusIsTruthful, redis, history
<1>11. HashesExpire'
  BY <1>1, <1>2, <1>3, <1>4, <1>5 DEF IInv, HashesExpire, Without, redis, history
<1>12. GrantsAreRecorded'
  BY <1>1, <1>2, <1>3, <1>4, <1>5, CountTypes
     DEF IInv, GrantsAreRecorded, Granted, Settling, Without, redis, history, Untouched
<1>13. CouponsAreNamed'
  BY <1>1, <1>2, <1>3, <1>4, <1>5
     DEF IInv, CouponsAreNamed, At, Without, redis, history, Untouched
<1>14. RedemptionsAreRecorded'
  BY <1>1, <1>2, <1>3, <1>4, <1>5
     DEF IInv, RedemptionsAreRecorded, At, Redeeming, Without, redis, history
<1>15. AnswersAreTrue'
  BY <1>1, <1>2, <1>3, <1>4, <1>5 DEF IInv, AnswersAreTrue, Granted, At, Without, redis, history
<1>16. KeysAreKept'
  <2>1. \A p \in paid : p.order # o
    BY <1>2 DEF IInv, PaymentsAreOwn, Untouched
  <2>2. paid \subseteq [transfer : Transfers, order : Orders, right : BOOLEAN]
    BY DEF IInv, TypeOK
  <2>3. QED
    BY <1>1, <1>2, <1>3, <1>4, <1>5, <2>1, <2>2
       DEF IInv, KeysAreKept, Settling, RightAmount, Without, history
<1>17. GrantsAreCounted'
  BY <1>1, <1>2, <1>3, <1>4, <1>5
     DEF IInv, GrantsAreCounted, Granted, Counted, RightPayments, Without, redis, history
<1>18. QED
  BY <1>6, <1>7, <1>8, <1>9, <1>10, <1>11, <1>12, <1>13, <1>14, <1>15, <1>16, <1>17 DEF IInv

LEMMA CheckoutStep ==
  ASSUME IInv, NEW h \in Handlers, Checkout(h)
  PROVE  IInv'
<1>1. /\ handlers[h].pc = "checkout" /\ Done(h)
      /\ payable' \in {payable, payable \cup {handlers[h].order}}
      /\ UNCHANGED <<now, open, redis, unused, paid, answered, shown, history, budget, races>>
  BY DEF Checkout, At
<1>2. QED
  BY <1>1, HandlerEnds DEF IInv, TypeOK, At

-----------------------------------------------------------------------------
(* A webhook is called.                                                    *)

LEMMA PayStep ==
  ASSUME IInv, NEW o \in Orders, NEW t \in Transfers, NEW right \in BOOLEAN, Pay(o, t, right)
  PROVE  IInv'
<1> DEFINE p == [transfer |-> t, order |-> o, right |-> right]
<1>1. /\ o \in payable /\ (~\E q \in paid : q.transfer = t) /\ paid' = paid \cup {p}
      /\ UNCHANGED <<now, open, redis, handlers, unused, payable, answered, shown,
                     history, budget, races>>
  BY DEF Pay
<1>2. p.transfer = t /\ p.order = o
  OBVIOUS
<1>3. p \in [transfer : Transfers, order : Orders, right : BOOLEAN]
  OBVIOUS
<1> HIDE DEF p
<1>4. idem[t] = 0 /\ t \notin answered /\ \A h \in Handlers : t \notin handlers[h].transfer
  BY <1>1 DEF IInv, PaymentsAreOwn, HandlersAreWhole
<1>5. \A q \in paid : q.transfer \in Transfers /\ q.transfer # t
  BY <1>1 DEF IInv, TypeOK
<1>6. TypeOK'
  BY <1>1, <1>2, <1>3 DEF IInv, TypeOK, HandlerStates, Pcs, redis, history, redis
<1>7. HandlersAreWhole'
  BY <1>1, <1>2 DEF IInv, HandlersAreWhole, redis, history, Webhooks, Settling, Redeeming
<1>8. PaymentsAreOwn'
  <2>1. IsFiniteSet(paid')
    BY <1>1, FS_AddElement DEF IInv, PaymentsAreOwn
  <2>2. QED
    BY <1>1, <1>2, <1>5, <2>1 DEF IInv, PaymentsAreOwn, redis
<1>9. NothingBefore'
  BY <1>1 DEF IInv, NothingBefore, Untouched, At, redis, history
<1>10. StatusIsTruthful'
  BY <1>1 DEF IInv, StatusIsTruthful, redis, history
<1>11. HashesExpire'
  BY <1>1 DEF IInv, HashesExpire, Without, redis, history
<1>12. GrantsAreRecorded'
  BY <1>1 DEF IInv, GrantsAreRecorded, Granted, Settling, Without, redis, history
<1>13. CouponsAreNamed'
  BY <1>1 DEF IInv, CouponsAreNamed, At, Without, redis, history
<1>14. RedemptionsAreRecorded'
  BY <1>1 DEF IInv, RedemptionsAreRecorded, At, Redeeming, Without, redis, history
<1>15. AnswersAreTrue'
  BY <1>1, <1>2, <1>4, <1>5 DEF IInv, AnswersAreTrue, Granted, At, Without, redis, history
<1>16. KeysAreKept'
  BY <1>1, <1>2, <1>4, <1>5
     DEF IInv, KeysAreKept, Settling, RightAmount, Without, redis, history
<1>17. GrantsAreCounted'
  <2>1. \A u \in Orders : Counted(u)' = Counted(u)
    BY <1>1, <1>2, <1>4 DEF Counted, RightPayments, redis
  <2>2. QED
    BY <1>1, <2>1 DEF IInv, GrantsAreCounted, Granted, Without, history
<1>18. QED
  BY <1>6, <1>7, <1>8, <1>9, <1>10, <1>11, <1>12, <1>13, <1>14, <1>15, <1>16, <1>17 DEF IInv

LEMMA ReceivedStep ==
  ASSUME IInv, NEW h \in Handlers, NEW p \in paid, Received(h, p),
         budget' \in [extra : Nat, redeem : Nat, failure : Nat]
  PROVE  IInv'
<1> DEFINE x == [Idle EXCEPT !.pc = "check", !.transfer = {p.transfer}, !.order = p.order]
<1>1. /\ handlers[h].pc = "idle" /\ handlers' = [handlers EXCEPT ![h] = x]
      /\ UNCHANGED <<now, open, redis, unused, payable, paid, answered, shown, history, races>>
  BY DEF Received, At
<1>2. p.transfer \in Transfers /\ p.order \in Orders
  BY DEF IInv, TypeOK
<1>3. /\ x \in HandlerStates
      /\ x.pc = "check" /\ x.transfer = {p.transfer} /\ x.order = p.order /\ x.coupon = NoCoupon
  BY <1>2 DEF Idle, HandlerStates, Pcs
<1> HIDE DEF x
<1>4. /\ handlers' \in [Handlers -> HandlerStates]
      /\ handlers'[h] = x /\ \A g \in Handlers \ {h} : handlers'[g] = handlers[g]
  BY <1>1, <1>3, Begins DEF IInv
<1>5. p.order \in payable /\ p.order \notin unused /\ ~Untouched(p.order)
  BY <1>2 DEF IInv, PaymentsAreOwn, NothingBefore, Untouched
<1>6. TypeOK'
  BY <1>1, <1>3, <1>4 DEF IInv, TypeOK, HandlerStates, Pcs, redis, history
<1>7. HandlersAreWhole'
  BY <1>1, <1>3, <1>4, <1>2
     DEF IInv, HandlersAreWhole, redis, history, Webhooks, Settling, Redeeming
<1>8. PaymentsAreOwn'
  BY <1>1 DEF IInv, PaymentsAreOwn, redis, history
<1>9. NothingBefore'
  BY <1>1, <1>3, <1>4, <1>2, <1>5, PaymentsAssumption
     DEF IInv, NothingBefore, Untouched, At, redis, history
<1>10. StatusIsTruthful'
  BY <1>1 DEF IInv, StatusIsTruthful, redis, history
<1>11. HashesExpire'
  BY <1>1 DEF IInv, HashesExpire, Without, redis, history
<1>12. GrantsAreRecorded'
  BY <1>1, <1>3, <1>4 DEF IInv, GrantsAreRecorded, Granted, Settling, Without, redis, history
<1>13. CouponsAreNamed'
  BY <1>1, <1>3, <1>4 DEF IInv, CouponsAreNamed, At, Without, redis, history
<1>14. RedemptionsAreRecorded'
  BY <1>1, <1>3, <1>4 DEF IInv, RedemptionsAreRecorded, At, Redeeming, Without, redis, history
<1>15. AnswersAreTrue'
  BY <1>1, <1>3, <1>4 DEF IInv, AnswersAreTrue, Granted, At, Without, redis, history
<1>16. KeysAreKept'
  BY <1>1, <1>3, <1>4 DEF IInv, KeysAreKept, Settling, RightAmount, Without, redis, history
<1>17. GrantsAreCounted'
  <2>1. \A u \in Orders : Counted(u)' = Counted(u)
    BY <1>1, <1>3, <1>4 DEF Counted, RightPayments, redis
  <2>2. QED
    BY <1>1, <2>1 DEF IInv, GrantsAreCounted, Granted, Without, history
<1>18. QED
  BY <1>6, <1>7, <1>8, <1>9, <1>10, <1>11, <1>12, <1>13, <1>14, <1>15, <1>16, <1>17 DEF IInv

LEMMA CheckStep ==
  ASSUME IInv, NEW h \in Handlers, CheckIdempotencyKey(h)
  PROVE  IInv'
<1>1. /\ handlers[h].pc = "check"
      /\ UNCHANGED <<now, open, redis, unused, payable, paid, shown, history, budget>>
  BY DEF CheckIdempotencyKey, At
<1>2. handlers[h] \in HandlerStates /\ now \in Nat /\ idem \in [Transfers -> Nat]
  BY HandlerTypes DEF IInv, TypeOK
<1>3. CASE \E t \in handlers[h].transfer : idem[t] > now
  <2>1. Done(h) /\ answered' = answered \cup handlers[h].transfer /\ races' = races
    BY <1>3 DEF CheckIdempotencyKey, Answer
  <2>2. PICK p \in paid : handlers[h].transfer = {p.transfer}
    BY <1>1 DEF IInv, HandlersAreWhole, Webhooks
  <2>3. idem[p.transfer] # 0
    BY <1>2, <1>3, <2>2 DEF HandlerStates
  <2>4. "error" \notin races' =>
          \A q \in paid : q.transfer \in answered' \ answered => Granted(q.order) > 0
    BY <2>1, <2>2, <2>3 DEF IInv, AnswersAreTrue, Without
  <2>5. QED
    BY <1>1, <2>1, <2>4, HandlerEnds DEF IInv, TypeOK
<1>4. CASE \A t \in handlers[h].transfer : ~(idem[t] > now)
  <2>1. Go(h, "get") /\ answered' = answered /\ races' = races \cup SameTransfer(h)
    BY <1>4 DEF CheckIdempotencyKey
  <2>2. /\ handlers' \in [Handlers -> HandlerStates]
        /\ handlers'[h].pc = "get" /\ handlers'[h].transfer = handlers[h].transfer
        /\ handlers'[h].order = handlers[h].order /\ handlers'[h].coupon = handlers[h].coupon
        /\ \A g \in Handlers \ {h} : handlers'[g] = handlers[g]
    BY <2>1, GoesOn DEF IInv, Pcs
  <2>3. /\ races' = races \/ races' = races \cup {"twice"}
        /\ "twice" \notin races' =>
             \A g \in Handlers : handlers[g].pc \in Settling \cup {"get", "idem"} =>
               handlers[g].transfer \cap handlers[h].transfer = {}
    BY <2>1 DEF SameTransfer
  <2>4. \A t \in handlers[h].transfer : idem[t] <= now
    BY <1>2, <1>4 DEF HandlerStates
  <2>5. TypeOK'
    BY <1>1, <2>1, <2>2, <2>3, <1>2 DEF IInv, TypeOK, HandlerStates, Pcs, redis, history
  <2>6. HandlersAreWhole'
    BY <1>1, <2>2 DEF IInv, HandlersAreWhole, redis, history, Webhooks, Settling, Redeeming
  <2>7. PaymentsAreOwn'
    BY <1>1, <2>1 DEF IInv, PaymentsAreOwn, redis, history
  <2>8. NothingBefore'
    BY <1>1, <2>2 DEF IInv, NothingBefore, Untouched, At, redis, history
  <2>9. StatusIsTruthful'
    BY <1>1 DEF IInv, StatusIsTruthful, redis, history
  <2>10. HashesExpire'
    BY <1>1, <2>3 DEF IInv, HashesExpire, Without, redis, history
  <2>11. GrantsAreRecorded'
    BY <1>1, <2>1, <2>2, <2>3
       DEF IInv, GrantsAreRecorded, Granted, Settling, Without, redis, history
  <2>12. CouponsAreNamed'
    BY <1>1, <2>1, <2>2, <2>3 DEF IInv, CouponsAreNamed, At, Without, redis, history
  <2>13. RedemptionsAreRecorded'
    BY <1>1, <2>1, <2>2, <2>3
       DEF IInv, RedemptionsAreRecorded, At, Redeeming, Without, redis, history
  <2>14. AnswersAreTrue'
    BY <1>1, <2>1, <2>2, <2>3 DEF IInv, AnswersAreTrue, Granted, At, Without, redis, history
  <2>15. KeysAreKept'
    BY <1>1, <2>1, <2>2, <2>3, <2>4
       DEF IInv, KeysAreKept, Settling, RightAmount, Without, redis, history
  <2>16. GrantsAreCounted'
    <3>1. \A u \in Orders : Counted(u)' = Counted(u)
      BY <1>1, <2>2 DEF Counted, RightPayments, redis
    <3>2. QED
      BY <1>1, <3>1, <2>3 DEF IInv, GrantsAreCounted, Granted, Without, history
  <2>17. QED
    BY <2>5, <2>6, <2>7, <2>8, <2>9, <2>10, <2>11, <2>12, <2>13, <2>14, <2>15, <2>16 DEF IInv
<1>5. QED
  BY <1>3, <1>4

\* What the handler of a webhook holds.
LEMMA WebhookTypes ==
  ASSUME IInv, NEW h \in Handlers, handlers[h].pc \in Webhooks
  PROVE  /\ handlers[h].order \in Orders \ unused
         /\ ~Untouched(handlers[h].order)
         /\ \E p \in paid : /\ handlers[h].transfer = {p.transfer} /\ handlers[h].order = p.order
                            /\ \A q \in paid : q.transfer \in handlers[h].transfer => q = p
<1>1. PICK p \in paid : handlers[h].transfer = {p.transfer} /\ handlers[h].order = p.order
  BY DEF IInv, HandlersAreWhole
<1>2. p.order \in payable /\ p.order \in Orders
  BY DEF IInv, PaymentsAreOwn, TypeOK
<1>3. p.order \notin unused
  BY <1>2 DEF IInv, NothingBefore, Untouched
<1>4. \A q \in paid : q.transfer \in handlers[h].transfer => q = p
  BY <1>1 DEF IInv, PaymentsAreOwn
<1>5. QED
  BY <1>1, <1>2, <1>3, <1>4 DEF Untouched

LEMMA CountedIsFinite ==
  ASSUME IInv
  PROVE  \A o \in Orders : IsFiniteSet(Counted(o)) /\ Cardinality(Counted(o)) \in Nat
<1> TAKE o \in Orders
<1>1. IsFiniteSet(paid) /\ Counted(o) \subseteq paid
  BY DEF IInv, PaymentsAreOwn, Counted, RightPayments
<1>2. QED
  BY <1>1, FS_Subset, FS_CardinalityType

LEMMA CountsMore ==
  ASSUME IInv, paid' = paid, NEW o \in Orders, Counted(o) \subseteq Counted(o)'
  PROVE  /\ IsFiniteSet(Counted(o)') /\ Cardinality(Counted(o)') \in Nat
         /\ Cardinality(Counted(o)) <= Cardinality(Counted(o)')
<1>1. IsFiniteSet(paid) /\ Counted(o)' \subseteq paid
  BY DEF IInv, PaymentsAreOwn, Counted, RightPayments
<1>2. IsFiniteSet(Counted(o)')
  BY <1>1, FS_Subset
<1>3. QED
  BY <1>2, FS_Subset, FS_CardinalityType

\* The payments counted, when no key is set and this handler alone moves on.
LEMMA CountedGrows ==
  ASSUME IInv, NEW h \in Handlers, UNCHANGED <<idem, paid>>,
         handlers'[h].transfer = handlers[h].transfer,
         \A g \in Handlers \ {h} : handlers'[g] = handlers[g],
         \/ handlers[h].pc \notin {"complete", "expired", "idem"}
         \/ handlers'[h].pc \in {"complete", "expired", "idem"}
  PROVE  \A o \in Orders :
           /\ Counted(o) \subseteq Counted(o)'
           /\ Cardinality(Counted(o)) <= Cardinality(Counted(o)')
           /\ Cardinality(Counted(o)') \in Nat
           /\ \A p \in RightPayments(o) \ Counted(o) :
                /\ handlers'[h].pc \in {"complete", "expired", "idem"}
                /\ p.transfer \in handlers[h].transfer
                => Cardinality(Counted(o)) + 1 <= Cardinality(Counted(o)')
<1> TAKE o \in Orders
<1>1. Counted(o) \subseteq Counted(o)'
  BY DEF Counted, RightPayments
<1>2. IsFiniteSet(Counted(o)) /\ IsFiniteSet(Counted(o)')
  BY <1>1, CountedIsFinite, CountsMore
<1>3. /\ Cardinality(Counted(o)) \in Nat /\ Cardinality(Counted(o)') \in Nat
      /\ Cardinality(Counted(o)) <= Cardinality(Counted(o)')
  BY <1>1, CountedIsFinite, CountsMore
<1>4. ASSUME NEW p \in RightPayments(o) \ Counted(o),
             handlers'[h].pc \in {"complete", "expired", "idem"},
             p.transfer \in handlers[h].transfer
      PROVE  Cardinality(Counted(o)) + 1 <= Cardinality(Counted(o)')
  <2>1. Counted(o) \cup {p} \subseteq Counted(o)'
    BY <1>1, <1>4 DEF Counted, RightPayments
  <2>2. Cardinality(Counted(o) \cup {p}) = Cardinality(Counted(o)) + 1
    BY <1>2, <1>4, FS_AddElement
  <2>3. Cardinality(Counted(o) \cup {p}) <= Cardinality(Counted(o)')
    BY <1>2, <2>1, FS_Subset
  <2>4. QED
    BY <2>2, <2>3
<1>5. QED
  BY <1>1, <1>3, <1>4

LEMMA GetOrderStep ==
  ASSUME IInv, NEW h \in Handlers, GetOrder(h)
  PROVE  IInv'
<1> DEFINE o == handlers[h].order
<1>1. /\ handlers[h].pc = "get"
      /\ UNCHANGED <<now, open, redis, unused, payable, paid, shown, history, budget>>
  BY DEF GetOrder, At
<1>2. PICK p \in paid :
        /\ handlers[h].transfer = {p.transfer} /\ o = p.order
        /\ \A q \in paid : q.transfer \in handlers[h].transfer => q = p
  BY <1>1, WebhookTypes DEF Webhooks
<1>3. o \in Orders \ unused
  BY <1>1, WebhookTypes DEF Webhooks
<1>4. /\ boosted[o] \in Nat /\ issued[o] \in Nat /\ p.transfer \in Transfers
      /\ orders[o].status \in {"none", "pending", "completed", "room_expired"}
      /\ orders[o].exp \in Nat /\ idem[p.transfer] \in Nat /\ now \in Nat
  BY <1>3 DEF IInv, TypeOK
<1>5. CASE PayableNow(h)
  <2>1. /\ handlers' = [handlers EXCEPT ![h] =
                          [handlers[h] EXCEPT !.pc = "apply", !.room = orders[o].room]]
        /\ races' = races \/ races' = races \cup {"overlap"}
        /\ "overlap" \notin races' =>
             \A g \in Handlers : handlers[g].order = o => handlers[g].pc \notin Settling
        /\ answered' = answered
    <3>1. handlers \in [Handlers -> HandlerStates]
      BY HandlerTypes DEF IInv
    <3>2. handlers' = [handlers EXCEPT ![h].pc = "apply", ![h].room = orders[o].room]
      BY <1>5 DEF GetOrder
    <3>3. QED
      BY <1>5, <3>1, <3>2 DEF GetOrder, HandlerStates
  <2>2. [handlers[h] EXCEPT !.pc = "apply", !.room = orders[o].room] \in HandlerStates
    <3>1. orders[o].room \in Rooms \cup {NoRoom} /\ handlers[h] \in HandlerStates
      BY <1>3, HandlerTypes DEF IInv, TypeOK
    <3>2. QED
      BY <3>1 DEF HandlerStates, Pcs, Settling
  <2>3. /\ handlers' \in [Handlers -> HandlerStates]
        /\ handlers'[h].pc = "apply" /\ handlers'[h].transfer = handlers[h].transfer
        /\ handlers'[h].order = o /\ handlers'[h].coupon = handlers[h].coupon
        /\ \A g \in Handlers \ {h} : handlers'[g] = handlers[g]
    <3>1. handlers[h] \in HandlerStates
      BY HandlerTypes DEF IInv
    <3>2. QED
      BY <2>1, <2>2, <3>1, Begins DEF IInv, HandlerStates
  <2>4. orders[o].status = "pending" /\ p.right
    BY <1>2, <1>5 DEF PayableNow, RightAmount
  <2>5. "overlap" \notin races' => \/ Granted(o) <= reboosted[o]
                                   \/ ~Without({"overlap", "error", "crash"})
    BY <1>3, <1>4, <2>1, <2>4, CountTypes DEF IInv, GrantsAreRecorded, Granted, Settling
  <2>6. Without({"twice", "unmarked", "crash"}) => idem[p.transfer] = 0
    <3>1. Without({"twice", "unmarked", "crash"}) => idem[p.transfer] <= now
      BY <1>1, <1>2 DEF IInv, KeysAreKept
    <3>2. now < orders[o].exp /\ (idem[p.transfer] # 0 => orders[o].exp <= idem[p.transfer])
      BY <1>2, <1>3, <2>4 DEF IInv, KeysAreKept
    <3>3. QED
      BY <1>4, <3>1, <3>2
  <2> HIDE DEF o
  <2>7. TypeOK'
    BY <1>1, <2>1, <2>3 DEF IInv, TypeOK, HandlerStates, Pcs, redis, history
  <2>8. HandlersAreWhole'
    BY <1>1, <1>3, <2>1, <2>3
       DEF IInv, HandlersAreWhole, redis, history, Webhooks, Settling, Redeeming, o
  <2>9. PaymentsAreOwn'
    BY <1>1, <2>1 DEF IInv, PaymentsAreOwn, redis, history
  <2>10. NothingBefore'
    BY <1>1, <1>3, <2>1, <2>3 DEF IInv, NothingBefore, Untouched, At, redis, history, o
  <2>11. StatusIsTruthful'
    BY <1>1 DEF IInv, StatusIsTruthful, redis, history
  <2>12. HashesExpire'
    BY <1>1, <2>1 DEF IInv, HashesExpire, Without, redis, history
  <2>13. GrantsAreRecorded'
    BY <1>1, <2>1, <2>3, <2>5
       DEF IInv, GrantsAreRecorded, Granted, Settling, Without, redis, history, o
  <2>14. CouponsAreNamed'
    BY <1>1, <2>1, <2>3 DEF IInv, CouponsAreNamed, At, Without, redis, history
  <2>15. RedemptionsAreRecorded'
    BY <1>1, <2>1, <2>3 DEF IInv, RedemptionsAreRecorded, At, Redeeming, Without, redis, history
  <2>16. AnswersAreTrue'
    BY <1>1, <2>1, <2>3 DEF IInv, AnswersAreTrue, Granted, At, Without, redis, history
  <2>17. KeysAreKept'
    BY <1>1, <2>1, <2>3, <1>2, <2>4, <2>6
       DEF IInv, KeysAreKept, Settling, RightAmount, Without, redis, history
  <2>18. GrantsAreCounted'
    <3>1. \A u \in Orders : Counted(u)' = Counted(u)
      BY <1>1, <2>3 DEF Counted, RightPayments, redis
    <3>2. QED
      BY <1>1, <3>1, <2>1 DEF IInv, GrantsAreCounted, Granted, Without, history
  <2>19. QED
    BY <2>7, <2>8, <2>9, <2>10, <2>11, <2>12, <2>13, <2>14, <2>15, <2>16, <2>17, <2>18 DEF IInv
<1>6. CASE ~PayableNow(h)
  <2>1. Done(h) /\ answered' = answered \cup handlers[h].transfer /\ races' = races
    BY <1>6 DEF GetOrder, Answer
  <2>2. p.right => orders[o].status # "pending"
    BY <1>2, <1>6 DEF PayableNow, RightAmount
  <2>3. o \in payable /\ (orders[o].status # "none" \/ o \in lapsed \/ Granted(o) > 0)
    BY <1>2, <1>3 DEF IInv, PaymentsAreOwn, AnswersAreTrue
  <2>4. p.right /\ o \notin lapsed => Granted(o) > 0
    BY <1>3, <1>4, <2>2, <2>3 DEF IInv, StatusIsTruthful, Granted
  <2>5. QED
    BY <1>1, <1>2, <2>1, <2>4, HandlerEnds DEF IInv, TypeOK
<1>7. QED
  BY <1>5, <1>6

-----------------------------------------------------------------------------
(* An order is settled.                                                    *)

LEMMA ApplyBoostStep ==
  ASSUME IInv, NEW h \in Handlers, ApplyBoost(h)
  PROVE  IInv'
<1> DEFINE o == handlers[h].order
<1>1. /\ handlers[h].pc = "apply"
      /\ UNCHANGED <<now, open, redis, unused, payable, paid, answered, shown, issued, redeemed,
                     reboosted, reredeemed, lapsed, budget, races>>
  BY DEF ApplyBoost, At
<1>2. o \in Orders \ unused /\ ~Untouched(o)
  BY <1>1, WebhookTypes DEF Webhooks, Settling
<1>3. boosted \in [Orders -> Nat] /\ issued \in [Orders -> Nat]
  BY DEF IInv, TypeOK
<1>4. \/ Go(h, "complete") /\ boosted' = [boosted EXCEPT ![o] = @ + 1]
      \/ Go(h, "issue") /\ boosted' = boosted
  BY DEF ApplyBoost
<1>5. /\ handlers' \in [Handlers -> HandlerStates]
      /\ handlers'[h].transfer = handlers[h].transfer
      /\ handlers'[h].order = o /\ handlers'[h].coupon = handlers[h].coupon
      /\ \A g \in Handlers \ {h} : handlers'[g] = handlers[g]
      /\ \/ handlers'[h].pc = "complete" /\ boosted'[o] = boosted[o] + 1
         \/ handlers'[h].pc = "issue" /\ boosted'[o] = boosted[o]
      /\ boosted' \in [Orders -> Nat] /\ \A u \in Orders \ {o} : boosted'[u] = boosted[u]
  BY <1>2, <1>3, <1>4, GoesOn DEF IInv, Pcs, Settling
<1>6. \A u \in Orders : Granted(u) \in Nat /\ Granted(u)' \in Nat /\ Granted(u) <= Granted(u)'
  BY <1>1, <1>3, <1>5 DEF Granted
<1> HIDE DEF o
<1>7. TypeOK'
  BY <1>1, <1>2, <1>5 DEF IInv, TypeOK, HandlerStates, Pcs, redis, history
<1>8. HandlersAreWhole'
  BY <1>1, <1>2, <1>5, <1>3, CountTypes
     DEF IInv, HandlersAreWhole, redis, history, Webhooks, Settling, Redeeming, o
<1>9. PaymentsAreOwn'
  BY <1>1 DEF IInv, PaymentsAreOwn, redis, history
<1>10. NothingBefore'
  <2>1. \A u \in Orders \cap unused : u # o
    BY <1>2
  <2>2. ASSUME NEW g \in Handlers, At(g, "order")'
        PROVE  g # h /\ handlers[g].order \in Orders \ {o}
    BY <1>1, <1>2, <1>5, <2>2 DEF IInv, NothingBefore, HandlersAreWhole, At, o
  <2>3. QED
    BY <1>1, <1>2, <1>5, <2>1, <2>2
       DEF IInv, NothingBefore, Untouched, At, redis, history, o
<1>11. StatusIsTruthful'
  BY <1>1, <1>3, <1>5 DEF IInv, StatusIsTruthful, redis, history
<1>12. HashesExpire'
  BY <1>1 DEF IInv, HashesExpire, Without, redis, history
<1>13. GrantsAreRecorded'
  <2> SUFFICES ASSUME Without({"overlap", "error", "crash"})
               PROVE  GrantsAreRecorded'
    BY <1>1 DEF GrantsAreRecorded, Without
  <2>1. /\ Granted(o) <= reboosted[o] /\ Granted(o)' <= 1 + reboosted[o]
        /\ handlers'[h].pc = "issue" => Granted(o)' <= reboosted[o]
        /\ Granted(o)' > reboosted[o] => handlers'[h].pc = "complete"
        /\ \A u \in Orders \ {o} : Granted(u)' = Granted(u)
    BY <1>1, <1>2, <1>3, <1>5, CountTypes DEF IInv, GrantsAreRecorded, Granted, o
  <2>2. \A g \in Handlers \ {h} : handlers[g].pc \in Settling => handlers[g].order # o
    BY <1>1 DEF IInv, GrantsAreRecorded, Settling, o
  <2>3. \A g \in Handlers : handlers[g].pc \in Settling => handlers[g].order \in Orders
    BY DEF IInv, HandlersAreWhole, Webhooks
  <2>4. QED
    BY <1>1, <1>2, <1>5, <2>1, <2>2, <2>3 DEF IInv, GrantsAreRecorded, Settling, redis, o
<1>14. CouponsAreNamed'
  BY <1>1, <1>2, <1>5 DEF IInv, CouponsAreNamed, At, Without, redis, history
<1>15. RedemptionsAreRecorded'
  BY <1>1, <1>2, <1>5 DEF IInv, RedemptionsAreRecorded, At, Redeeming, Without, redis, history
<1>16. AnswersAreTrue'
  <2>1. /\ \A q \in paid : q.order \in Orders
        /\ \A g \in Handlers : At(g, "idem") => handlers[g].order \in Orders
    BY DEF IInv, TypeOK, HandlersAreWhole, Webhooks, At
  <2>2. \A u \in Orders : Granted(u) > 0 => Granted(u)' > 0
    BY <1>6
  <2>3. QED
    BY <1>1, <1>5, <2>1, <2>2 DEF IInv, AnswersAreTrue, At, Without, redis
<1>17. KeysAreKept'
  BY <1>1, <1>2, <1>5 DEF IInv, KeysAreKept, Settling, RightAmount, Without, redis, history
<1>18. GrantsAreCounted'
  <2> SUFFICES ASSUME Without({"twice", "unmarked", "crash"}), NEW u \in Orders
               PROVE  Granted(u)' <= Cardinality(Counted(u)') + reboosted[u]
    BY <1>1 DEF GrantsAreCounted, Without
  <2>1. /\ Granted(u) <= Cardinality(Counted(u)) + reboosted[u] /\ reboosted[u] \in Nat
        /\ Cardinality(Counted(u)) <= Cardinality(Counted(u)')
        /\ Cardinality(Counted(u)) \in Nat /\ Cardinality(Counted(u)') \in Nat
    BY <1>1, <1>5, CountedGrows, CountedIsFinite, CountTypes DEF IInv, GrantsAreCounted, redis
  <2>2. CASE Granted(u)' = Granted(u)
    BY <1>6, <2>1, <2>2
  <2>3. CASE Granted(u)' # Granted(u)
    <3>1. u = o /\ handlers'[h].pc = "complete" /\ Granted(u)' = Granted(u) + 1
      BY <1>1, <1>3, <1>5, <2>3 DEF Granted
    <3>2. PICK p \in paid : /\ handlers[h].transfer = {p.transfer} /\ o = p.order
                            /\ \A q \in paid : q.transfer \in handlers[h].transfer => q = p
      BY <1>1, WebhookTypes DEF Webhooks, Settling, o
    <3>3. p.right /\ idem[p.transfer] = 0
      BY <1>1, <3>2 DEF IInv, KeysAreKept, RightAmount
    <3>4. \A g \in Handlers :
            p.transfer \in handlers[g].transfer =>
              handlers[g].pc \notin {"complete", "expired", "idem"}
      BY <1>1, <3>2 DEF IInv, KeysAreKept, Settling
    <3>5. p \in RightPayments(u) \ Counted(u)
      BY <3>1, <3>2, <3>3, <3>4 DEF Counted, RightPayments
    <3>6. Cardinality(Counted(u)) + 1 <= Cardinality(Counted(u)')
      BY <1>1, <1>5, <3>1, <3>2, <3>5, CountedGrows DEF redis
    <3>7. QED
      BY <1>6, <2>1, <3>1, <3>6
  <2>4. QED
    BY <2>2, <2>3
<1>19. QED
  BY <1>7, <1>8, <1>9, <1>10, <1>11, <1>12, <1>13, <1>14, <1>15, <1>16, <1>17, <1>18 DEF IInv

LEMMA SetOrderCompletedStep ==
  ASSUME IInv, NEW h \in Handlers, SetOrderCompleted(h)
  PROVE  IInv'
<1> DEFINE o == handlers[h].order
<1>1. /\ handlers[h].pc = "complete" /\ Go(h, "idem")
      /\ races' = races \/ races' = races \cup {"late"}
      /\ orders[o].status = "none" => races' = races \cup {"late"}
      /\ UNCHANGED <<now, open, coupons, idem, unused, payable, paid, answered, shown,
                     history, budget>>
  BY DEF SetOrderCompleted, At, Late
<1>2. o \in Orders \ unused /\ ~Untouched(o)
  BY <1>1, WebhookTypes DEF Webhooks, Settling
<1>3. /\ boosted[o] > reboosted[o] /\ reboosted[o] \in Nat
      /\ boosted[o] > 0 /\ Granted(o) > 0 /\ boosted[o] \in Nat /\ issued[o] \in Nat
  BY <1>1, <1>2 DEF IInv, TypeOK, HandlersAreWhole, Granted
<1>4. /\ orders'[o].status = "completed"
      /\ orders'[o].exp = orders[o].exp /\ orders'[o].coupon = orders[o].coupon
      /\ \A u \in Orders \ {o} : orders'[u] = orders[u]
      /\ orders' \in [Orders -> [status : {"none", "pending", "completed", "room_expired"},
                                 room : Rooms \cup {NoRoom}, coupon : Coupons \cup {NoCoupon},
                                 exp : Nat]]
  <2>1. orders \in [Orders -> [status : {"none", "pending", "completed", "room_expired"},
                               room : Rooms \cup {NoRoom}, coupon : Coupons \cup {NoCoupon},
                               exp : Nat]]
    BY DEF IInv, TypeOK
  <2>2. orders' = [orders EXCEPT ![o] = [orders[o] EXCEPT !.status = "completed"]]
    BY <1>2, <2>1 DEF SetOrderCompleted
  <2>3. QED
    BY <1>2, <1>3, <2>1, <2>2
<1>5. /\ handlers' \in [Handlers -> HandlerStates]
      /\ handlers'[h].pc = "idem" /\ handlers'[h].transfer = handlers[h].transfer
      /\ handlers'[h].order = o /\ handlers'[h].coupon = handlers[h].coupon
      /\ \A g \in Handlers \ {h} : handlers'[g] = handlers[g]
  BY <1>1, GoesOn DEF IInv, Pcs
<1>6. \A q \in paid : q.order \in Orders
  BY DEF IInv, TypeOK
<1> HIDE DEF o
<1>7. TypeOK'
  BY <1>1, <1>2, <1>4, <1>5 DEF IInv, TypeOK, HandlerStates, Pcs, redis, history
<1>8. HandlersAreWhole'
  BY <1>1, <1>2, <1>4, <1>5
     DEF IInv, HandlersAreWhole, redis, history, Webhooks, Settling, Redeeming, o
<1>9. PaymentsAreOwn'
  BY <1>1 DEF IInv, PaymentsAreOwn, redis, history
<1>10. NothingBefore'
  <2>1. \A u \in Orders \cap unused : u # o
    BY <1>2
  <2>2. ASSUME NEW g \in Handlers, At(g, "order")'
        PROVE  g # h /\ handlers[g].order \in Orders \ {o}
    BY <1>1, <1>2, <1>5, <2>2 DEF IInv, NothingBefore, HandlersAreWhole, At, o
  <2>3. QED
    BY <1>1, <1>2, <1>4, <1>5, <2>1, <2>2
       DEF IInv, NothingBefore, Untouched, At, redis, history, o
<1>11. StatusIsTruthful'
  BY <1>1, <1>2, <1>4, <1>5, <1>3 DEF IInv, StatusIsTruthful, redis, history
<1>12. HashesExpire'
  BY <1>1, <1>2, <1>4, <1>5 DEF IInv, HashesExpire, Without, redis, history
<1>13. GrantsAreRecorded'
  BY <1>1, <1>2, <1>4, <1>5
     DEF IInv, GrantsAreRecorded, Granted, Settling, Without, redis, history, o
<1>14. CouponsAreNamed'
  <2> SUFFICES ASSUME Without({"overlap", "error", "crash"}), NEW c \in Coupons,
                      coupons[c].order # NoOrder
               PROVE  LET u == coupons[c].order IN
                        /\ issued[u] > 0
                        /\ \A g \in Handlers :
                             At(g, "expired")' /\ handlers'[g].order = u => handlers'[g].coupon = c
                        /\ \/ orders'[u].coupon = c
                           \/ orders'[u].status = "none"
                           \/ \E g \in Handlers :
                                /\ At(g, "expired")'
                                /\ handlers'[g].order = u /\ handlers'[g].coupon = c
    BY <1>1 DEF CouponsAreNamed, Without, history
  <2>1. coupons[c].order \in Orders /\ issued[coupons[c].order] > 0
    BY DEF IInv, TypeOK, CouponsAreNamed
  <2>2. coupons[c].order # o
    BY <1>2, <1>3, <2>1 DEF IInv, GrantsAreRecorded, Granted
  <2>3. QED
    BY <1>1, <1>4, <1>5, <2>1, <2>2 DEF IInv, CouponsAreNamed, At
<1>15. RedemptionsAreRecorded'
  BY <1>1, <1>5 DEF IInv, RedemptionsAreRecorded, At, Redeeming, Without, redis, history
<1>16. AnswersAreTrue'
  BY <1>1, <1>2, <1>4, <1>5, <1>3 DEF IInv, AnswersAreTrue, Granted, At, Without, redis, history
<1>17. KeysAreKept'
  BY <1>1, <1>2, <1>4, <1>5, <1>6
     DEF IInv, KeysAreKept, Settling, RightAmount, Without, redis, history
<1>18. GrantsAreCounted'
  <2>1. \A u \in Orders :
          /\ Cardinality(Counted(u)) <= Cardinality(Counted(u)')
          /\ Cardinality(Counted(u)) \in Nat /\ Cardinality(Counted(u)') \in Nat
    BY <1>1, <1>5, CountedGrows, CountedIsFinite
  <2>2. \A u \in Orders : Granted(u)' = Granted(u) /\ Granted(u) \in Nat
    BY <1>1 DEF IInv, TypeOK, Granted, history
  <2>3. QED
    BY <1>1, <2>1, <2>2, CountTypes DEF IInv, GrantsAreCounted, Without, history
<1>19. QED
  BY <1>7, <1>8, <1>9, <1>10, <1>11, <1>12, <1>13, <1>14, <1>15, <1>16, <1>17, <1>18 DEF IInv

LEMMA CreateCouponStep ==
  ASSUME IInv, NEW h \in Handlers, CreateCoupon(h)
  PROVE  IInv'
<1> DEFINE o == handlers[h].order
<1>1. /\ handlers[h].pc = "issue"
      /\ UNCHANGED <<now, open, orders, idem, payable, paid, answered, shown, boosted, redeemed,
                     reboosted, reredeemed, lapsed, budget, races>>
  BY DEF CreateCoupon, At
<1>2. o \in Orders \ unused /\ ~Untouched(o)
  BY <1>1, WebhookTypes DEF Webhooks, Settling
<1>3. PICK c \in unused \cap Coupons :
        /\ coupons' = [coupons EXCEPT ![c] = [status |-> "unused", order |-> o,
                                              exp |-> now + CouponTTL]]
        /\ unused' = unused \ {c}
        /\ issued' = [issued EXCEPT ![o] = @ + 1]
        /\ handlers' = [handlers EXCEPT ![h].pc = "expired", ![h].coupon = c]
  BY DEF CreateCoupon
<1>4. /\ coupons'[c].status = "unused" /\ coupons'[c].order = o /\ coupons'[c].exp > now
      /\ coupons'[c].exp # Never
      /\ \A d \in Coupons \ {c} : coupons'[d] = coupons[d]
      /\ coupons' \in [Coupons -> [status : {"none", "unused", "used"},
                                   order : Orders \cup {NoOrder}, exp : Nat]]
      /\ boosted \in [Orders -> Nat] /\ issued \in [Orders -> Nat]
      /\ issued' \in [Orders -> Nat] /\ issued'[o] = issued[o] + 1 /\ issued[o] \in Nat
      /\ \A u \in Orders \ {o} : issued'[u] = issued[u]
  BY <1>1, <1>2, <1>3, PaymentsAssumption DEF IInv, TypeOK, Never
<1>5. /\ handlers' \in [Handlers -> HandlerStates]
      /\ handlers'[h].pc = "expired" /\ handlers'[h].transfer = handlers[h].transfer
      /\ handlers'[h].order = o /\ handlers'[h].coupon = c
      /\ \A g \in Handlers \ {h} : handlers'[g] = handlers[g]
  BY <1>3, HandlerTypes DEF IInv, HandlerStates, Pcs, Settling
<1>6. /\ \A g \in Handlers : handlers[g].coupon # c
      /\ \A u \in Orders : orders[u].coupon # c
      /\ coupons[c].order = NoOrder /\ redeemed[c] = 0
  BY DEF IInv, NothingBefore
<1>7. \A u \in Orders : /\ Granted(u) \in Nat /\ Granted(u)' \in Nat
                        /\ Granted(u)' = IF u = o THEN Granted(u) + 1 ELSE Granted(u)
  BY <1>1, <1>2, <1>4 DEF Granted
<1> HIDE DEF o
<1>8. TypeOK'
  BY <1>1, <1>2, <1>3, <1>4, <1>5, <1>6 DEF IInv, TypeOK, HandlerStates, Pcs, redis, history
<1>9. HandlersAreWhole'
  <2> SUFFICES ASSUME NEW g \in Handlers
               PROVE  LET x == handlers'[g] IN
                        /\ x.pc \in {"order", "checkout"} \cup Webhooks => x.order \in Orders
                        /\ x.pc \notin Webhooks => x.transfer = {}
                        /\ x.pc \in Webhooks =>
                             \E p \in paid : x.transfer = {p.transfer} /\ x.order = p.order
                        /\ x.pc \in Redeeming => x.coupon \in Coupons \ unused'
                        /\ x.pc = "complete" => boosted[x.order] > reboosted[x.order]
                        /\ x.pc = "expired" => /\ issued'[x.order] > 0
                                               /\ x.coupon \in Coupons \ unused'
                                               /\ coupons'[x.coupon].order \in {x.order, NoOrder}
    BY <1>1 DEF IInv, HandlersAreWhole
  <2>1. CASE g = h
    BY <1>1, <1>2, <1>3, <1>4, <1>5, <2>1
       DEF IInv, HandlersAreWhole, Webhooks, Settling, Redeeming, o
  <2>2. CASE g # h
    <3>1. handlers[g].pc = "expired" => issued'[handlers[g].order] > 0
      BY <1>2, <1>4 DEF IInv, HandlersAreWhole, Webhooks, Settling
    <3>2. handlers[g].coupon # c
      BY <1>6
    <3>3. QED
      BY <1>3, <1>4, <1>5, <2>2, <3>1, <3>2 DEF IInv, HandlersAreWhole
  <2>3. QED
    BY <2>1, <2>2
<1>10. PaymentsAreOwn'
  BY <1>1 DEF IInv, PaymentsAreOwn, redis, history
<1>11. NothingBefore'
  <2>1. \A u \in Orders \cap unused' : u # o
    BY <1>2, <1>3
  <2>2. ASSUME NEW g \in Handlers, At(g, "order")'
        PROVE  /\ g # h /\ At(g, "order") /\ handlers'[g] = handlers[g]
               /\ handlers[g].order \in Orders \ {o}
    BY <1>1, <1>2, <1>5, <2>2 DEF IInv, NothingBefore, HandlersAreWhole, At, o
  <2>3. ASSUME NEW u \in Orders \cap unused'
        PROVE  Untouched(u)' /\ \A g \in Handlers : handlers'[g].order # u
    BY <1>1, <1>3, <1>4, <1>5, <2>1 DEF IInv, NothingBefore, Untouched, o
  <2>4. ASSUME NEW g \in Handlers, At(g, "order")'
        PROVE  /\ Untouched(handlers[g].order)'
               /\ \A f \in Handlers : handlers'[f].order = handlers'[g].order => f = g
    BY <1>1, <1>4, <1>5, <2>2, <2>4 DEF IInv, NothingBefore, Untouched, o
  <2>5. ASSUME NEW d \in Coupons \cap unused'
        PROVE  /\ coupons'[d].order = NoOrder /\ redeemed'[d] = 0 /\ d \notin shown'
               /\ \A g \in Handlers : handlers'[g].coupon # d
               /\ \A u \in Orders : orders'[u].coupon # d
    BY <1>1, <1>3, <1>4, <1>5 DEF IInv, NothingBefore
  <2>6. QED
    BY <2>2, <2>3, <2>4, <2>5 DEF NothingBefore
<1>12. StatusIsTruthful'
  BY <1>1, <1>2, <1>3, <1>4, <1>5, <1>6 DEF IInv, StatusIsTruthful, redis, history
<1>13. HashesExpire'
  BY <1>1, <1>2, <1>3, <1>4, <1>5, <1>6 DEF IInv, HashesExpire, Without, redis, history
<1>14. GrantsAreRecorded'
  <2> SUFFICES ASSUME Without({"overlap", "error", "crash"})
               PROVE  GrantsAreRecorded'
    BY <1>1 DEF GrantsAreRecorded, Without
  <2>1. Granted(o) <= reboosted[o]
    BY <1>1 DEF IInv, GrantsAreRecorded, o
  <2>2. \A g \in Handlers \ {h} : handlers[g].pc \in Settling => handlers[g].order # o
    BY <1>1 DEF IInv, GrantsAreRecorded, Settling, o
  <2>3. \A g \in Handlers : handlers[g].pc \in Settling => handlers[g].order \in Orders
    BY DEF IInv, HandlersAreWhole, Webhooks
  <2>4. QED
    BY <1>1, <1>2, <1>5, <1>7, <2>1, <2>2, <2>3, CountTypes DEF IInv, GrantsAreRecorded, Settling, o
<1>15. CouponsAreNamed'
  <2> SUFFICES ASSUME Without({"overlap", "error", "crash"}), NEW d \in Coupons,
                      coupons'[d].order # NoOrder
               PROVE  LET u == coupons'[d].order IN
                        /\ issued'[u] > 0
                        /\ \A g \in Handlers :
                             At(g, "expired")' /\ handlers'[g].order = u => handlers'[g].coupon = d
                        /\ \/ orders'[u].coupon = d
                           \/ orders'[u].status = "none"
                           \/ \E g \in Handlers :
                                /\ At(g, "expired")'
                                /\ handlers'[g].order = u /\ handlers'[g].coupon = d
    BY <1>1 DEF CouponsAreNamed, Without
  <2>1. /\ issued[o] = 0
        /\ \A g \in Handlers \ {h} : handlers[g].pc \in Settling => handlers[g].order # o
    <3>1. /\ Granted(o) <= reboosted[o]
          /\ \A g \in Handlers \ {h} : handlers[g].pc \in Settling => handlers[g].order # o
      BY <1>1 DEF IInv, GrantsAreRecorded, Settling, o
    <3>2. QED
      BY <1>2, <3>1, CountTypes DEF Granted
  <2>2. CASE d = c
    BY <1>2, <1>4, <1>5, <2>1, <2>2 DEF At, Settling
  <2>3. CASE d # c
    <3>1. coupons[d].order \in Orders \ {o} /\ issued[coupons[d].order] > 0
      BY <1>4, <2>1, <2>3 DEF IInv, TypeOK, CouponsAreNamed
    <3>2. QED
      BY <1>1, <1>4, <1>5, <2>3, <3>1 DEF IInv, CouponsAreNamed, At
  <2>4. QED
    BY <2>2, <2>3
<1>16. RedemptionsAreRecorded'
  BY <1>1, <1>2, <1>3, <1>4, <1>5, <1>6, CountTypes
     DEF IInv, RedemptionsAreRecorded, At, Redeeming, Without, redis, history
<1>17. AnswersAreTrue'
  <2>1. /\ \A q \in paid : q.order \in Orders
        /\ \A g \in Handlers : At(g, "idem") => handlers[g].order \in Orders
    BY DEF IInv, TypeOK, HandlersAreWhole, Webhooks, At
  <2>2. \A u \in Orders : Granted(u) > 0 => Granted(u)' > 0
    BY <1>7
  <2>3. QED
    BY <1>1, <1>5, <2>1, <2>2 DEF IInv, AnswersAreTrue, At, Without
<1>18. KeysAreKept'
  BY <1>1, <1>2, <1>3, <1>4, <1>5, <1>6
     DEF IInv, KeysAreKept, Settling, RightAmount, Without, redis, history
<1>19. GrantsAreCounted'
  <2> SUFFICES ASSUME Without({"twice", "unmarked", "crash"}), NEW u \in Orders
               PROVE  Granted(u)' <= Cardinality(Counted(u)') + reboosted[u]
    BY <1>1 DEF GrantsAreCounted, Without
  <2>1. /\ Granted(u) <= Cardinality(Counted(u)) + reboosted[u] /\ reboosted[u] \in Nat
        /\ Cardinality(Counted(u)) <= Cardinality(Counted(u)')
        /\ Cardinality(Counted(u)) \in Nat /\ Cardinality(Counted(u)') \in Nat
    BY <1>1, <1>5, CountedGrows, CountedIsFinite, CountTypes DEF IInv, GrantsAreCounted
  <2>2. CASE u # o
    BY <1>7, <2>1, <2>2
  <2>3. CASE u = o
    <3>1. PICK p \in paid : /\ handlers[h].transfer = {p.transfer} /\ o = p.order
                            /\ \A q \in paid : q.transfer \in handlers[h].transfer => q = p
      BY <1>1, WebhookTypes DEF Webhooks, Settling, o
    <3>2. p.right /\ idem[p.transfer] = 0
      BY <1>1, <3>1 DEF IInv, KeysAreKept, RightAmount
    <3>3. \A g \in Handlers :
            p.transfer \in handlers[g].transfer =>
              handlers[g].pc \notin {"complete", "expired", "idem"}
      BY <1>1, <3>1 DEF IInv, KeysAreKept, Settling
    <3>4. p \in RightPayments(u) \ Counted(u)
      BY <2>3, <3>1, <3>2, <3>3 DEF Counted, RightPayments
    <3>5. Cardinality(Counted(u)) + 1 <= Cardinality(Counted(u)')
      BY <1>1, <1>5, <3>1, <3>4, CountedGrows
    <3>6. QED
      BY <1>7, <2>1, <2>3, <3>5
  <2>4. QED
    BY <2>2, <2>3
<1>20. QED
  BY <1>8, <1>9, <1>10, <1>11, <1>12, <1>13, <1>14, <1>15, <1>16, <1>17, <1>18, <1>19 DEF IInv

LEMMA SetOrderRoomExpiredStep ==
  ASSUME IInv, NEW h \in Handlers, SetOrderRoomExpired(h)
  PROVE  IInv'
<1> DEFINE o == handlers[h].order
<1>1. /\ handlers[h].pc = "expired" /\ Go(h, "idem")
      /\ races' = races \/ races' = races \cup {"late"}
      /\ orders[o].status = "none" => races' = races \cup {"late"}
      /\ UNCHANGED <<now, open, coupons, idem, unused, payable, paid, answered, shown,
                     history, budget>>
  BY DEF SetOrderRoomExpired, At, Late
<1>2. o \in Orders \ unused /\ ~Untouched(o)
  BY <1>1, WebhookTypes DEF Webhooks, Settling
<1>3. /\ issued[o] > 0
      /\ Granted(o) > 0 /\ boosted[o] \in Nat /\ issued[o] \in Nat
      /\ handlers[h].coupon \in Coupons \ unused
      /\ coupons[handlers[h].coupon].order \in {o, NoOrder}
  BY <1>1, <1>2 DEF IInv, TypeOK, HandlersAreWhole, Granted
<1>4. /\ orders'[o].status = "room_expired"
      /\ orders'[o].exp = orders[o].exp /\ orders'[o].coupon = handlers[h].coupon
      /\ \A u \in Orders \ {o} : orders'[u] = orders[u]
      /\ orders' \in [Orders -> [status : {"none", "pending", "completed", "room_expired"},
                                 room : Rooms \cup {NoRoom}, coupon : Coupons \cup {NoCoupon},
                                 exp : Nat]]
  <2>1. orders \in [Orders -> [status : {"none", "pending", "completed", "room_expired"},
                               room : Rooms \cup {NoRoom}, coupon : Coupons \cup {NoCoupon},
                               exp : Nat]]
    BY DEF IInv, TypeOK
  <2>2. orders' = [orders EXCEPT ![o] = [orders[o] EXCEPT !.status = "room_expired",
                                                      !.coupon = handlers[h].coupon]]
    BY <1>2, <2>1 DEF SetOrderRoomExpired
  <2>3. QED
    BY <1>2, <1>3, <2>1, <2>2
<1>5. /\ handlers' \in [Handlers -> HandlerStates]
      /\ handlers'[h].pc = "idem" /\ handlers'[h].transfer = handlers[h].transfer
      /\ handlers'[h].order = o /\ handlers'[h].coupon = handlers[h].coupon
      /\ \A g \in Handlers \ {h} : handlers'[g] = handlers[g]
  BY <1>1, GoesOn DEF IInv, Pcs
<1>6. \A q \in paid : q.order \in Orders
  BY DEF IInv, TypeOK
<1> HIDE DEF o
<1>7. TypeOK'
  BY <1>1, <1>2, <1>4, <1>5 DEF IInv, TypeOK, HandlerStates, Pcs, redis, history
<1>8. HandlersAreWhole'
  BY <1>1, <1>2, <1>4, <1>5
     DEF IInv, HandlersAreWhole, redis, history, Webhooks, Settling, Redeeming, o
<1>9. PaymentsAreOwn'
  BY <1>1 DEF IInv, PaymentsAreOwn, redis, history
<1>10. NothingBefore'
  <2>1. \A u \in Orders \cap unused : u # o
    BY <1>2
  <2>2. ASSUME NEW g \in Handlers, At(g, "order")'
        PROVE  g # h /\ handlers[g].order \in Orders \ {o}
    BY <1>1, <1>2, <1>5, <2>2 DEF IInv, NothingBefore, HandlersAreWhole, At, o
  <2>3. QED
    BY <1>1, <1>2, <1>4, <1>5, <2>1, <2>2
       DEF IInv, NothingBefore, Untouched, At, redis, history, o
<1>11. StatusIsTruthful'
  BY <1>1, <1>2, <1>4, <1>5, <1>3, PaymentsAssumption DEF IInv, StatusIsTruthful, redis, history
<1>12. HashesExpire'
  BY <1>1, <1>2, <1>4, <1>5 DEF IInv, HashesExpire, Without, redis, history
<1>13. GrantsAreRecorded'
  BY <1>1, <1>2, <1>4, <1>5
     DEF IInv, GrantsAreRecorded, Granted, Settling, Without, redis, history, o
<1>14. CouponsAreNamed'
  <2> SUFFICES ASSUME Without({"overlap", "error", "crash"}), NEW c \in Coupons,
                      coupons[c].order # NoOrder
               PROVE  LET u == coupons[c].order IN
                        /\ issued[u] > 0
                        /\ \A g \in Handlers :
                             At(g, "expired")' /\ handlers'[g].order = u => handlers'[g].coupon = c
                        /\ \/ orders'[u].coupon = c
                           \/ orders'[u].status = "none"
                           \/ \E g \in Handlers :
                                /\ At(g, "expired")'
                                /\ handlers'[g].order = u /\ handlers'[g].coupon = c
    BY <1>1 DEF CouponsAreNamed, Without, history
  <2>1. coupons[c].order \in Orders /\ issued[coupons[c].order] > 0
    BY DEF IInv, TypeOK, CouponsAreNamed
  <2>2. coupons[c].order = o => handlers[h].coupon = c
    BY <1>1, <2>1 DEF IInv, CouponsAreNamed, At, o
  <2>3. QED
    BY <1>1, <1>4, <1>5, <2>1, <2>2 DEF IInv, CouponsAreNamed, At, o
<1>15. RedemptionsAreRecorded'
  BY <1>1, <1>5 DEF IInv, RedemptionsAreRecorded, At, Redeeming, Without, redis, history
<1>16. AnswersAreTrue'
  BY <1>1, <1>2, <1>4, <1>5, <1>3 DEF IInv, AnswersAreTrue, Granted, At, Without, redis, history
<1>17. KeysAreKept'
  BY <1>1, <1>2, <1>4, <1>5, <1>6
     DEF IInv, KeysAreKept, Settling, RightAmount, Without, redis, history
<1>18. GrantsAreCounted'
  <2>1. \A u \in Orders :
          /\ Cardinality(Counted(u)) <= Cardinality(Counted(u)')
          /\ Cardinality(Counted(u)) \in Nat /\ Cardinality(Counted(u)') \in Nat
    BY <1>1, <1>5, CountedGrows, CountedIsFinite
  <2>2. \A u \in Orders : Granted(u)' = Granted(u) /\ Granted(u) \in Nat
    BY <1>1 DEF IInv, TypeOK, Granted, history
  <2>3. QED
    BY <1>1, <2>1, <2>2, CountTypes DEF IInv, GrantsAreCounted, Without, history
<1>19. QED
  BY <1>7, <1>8, <1>9, <1>10, <1>11, <1>12, <1>13, <1>14, <1>15, <1>16, <1>17, <1>18 DEF IInv

LEMMA SetIdempotencyKeyStep ==
  ASSUME IInv, NEW h \in Handlers, SetIdempotencyKey(h)
  PROVE  IInv'
<1>1. /\ handlers[h].pc = "idem" /\ Done(h) /\ answered' = answered \cup handlers[h].transfer
      /\ UNCHANGED <<now, open, orders, coupons, unused, payable, paid, shown, history,
                     budget, races>>
  BY DEF SetIdempotencyKey, Answer, At
<1>2. PICK p \in paid :
        /\ handlers[h].transfer = {p.transfer} /\ handlers[h].order = p.order
        /\ \A q \in paid : q.transfer \in handlers[h].transfer => q = p
  BY <1>1, WebhookTypes DEF Webhooks
<1>3. /\ p.transfer \in Transfers /\ p.order \in Orders /\ now \in Nat
      /\ orders[p.order].exp \in Nat
  BY DEF IInv, TypeOK
<1>4. /\ idem' \in [Transfers -> Nat] /\ idem'[p.transfer] = now + IdempotencyTTL
      /\ now + OrderTTL <= idem'[p.transfer] /\ idem'[p.transfer] # 0
      /\ \A t \in Transfers \ {p.transfer} : idem'[t] = idem[t]
  BY <1>2, <1>3, PaymentsAssumption DEF SetIdempotencyKey, RemembersTransfer, IInv, TypeOK
<1>5. /\ handlers' \in [Handlers -> HandlerStates]
      /\ handlers'[h] = Idle /\ \A g \in Handlers \ {h} : handlers'[g] = handlers[g]
      /\ Idle.pc = "idle" /\ Idle.transfer = {} /\ Idle.order = NoOrder /\ Idle.coupon = NoCoupon
  BY <1>1, IsDone DEF IInv, Idle
<1>6. "error" \notin races => Granted(p.order) > 0
  BY <1>1, <1>2 DEF IInv, AnswersAreTrue, Without, At
<1>7. \A q \in paid : q.transfer \in Transfers /\ (q.transfer = p.transfer => q = p)
  BY <1>2 DEF IInv, TypeOK
<1>8. TypeOK'
  BY <1>1, <1>2, <1>3, <1>4, <1>5 DEF IInv, TypeOK, HandlerStates, Pcs, redis, history
<1>9. HandlersAreWhole'
  BY <1>1, <1>5 DEF IInv, HandlersAreWhole, redis, history, Webhooks, Settling, Redeeming
<1>10. PaymentsAreOwn'
  BY <1>1, <1>2, <1>4 DEF IInv, PaymentsAreOwn, redis, history
<1>11. NothingBefore'
  <2> USE DEF IInv, NothingBefore, history
  <2>1. \A o \in Orders \cap unused :
          Untouched(o)' /\ \A g \in Handlers : handlers'[g].order # o
    BY <1>1, <1>5, PaymentsAssumption DEF Untouched
  <2>2. ASSUME NEW g \in Handlers, At(g, "order")'
        PROVE  /\ Untouched(handlers[g].order)'
               /\ \A f \in Handlers : handlers'[f].order = handlers'[g].order => f = g
    <3>1. g # h /\ At(g, "order") /\ handlers'[g] = handlers[g] /\ handlers[g].order \in Orders
      BY <1>5, <2>2 DEF At, HandlersAreWhole
    <3>2. QED
      BY <1>1, <1>5, <3>1, PaymentsAssumption DEF Untouched
  <2>3. \A c \in Coupons \cap unused :
          /\ coupons'[c].order = NoOrder /\ redeemed'[c] = 0 /\ c \notin shown'
          /\ \A g \in Handlers : handlers'[g].coupon # c
          /\ \A o \in Orders : orders'[o].coupon # c
    BY <1>1, <1>5, PaymentsAssumption
  <2>4. QED
    BY <1>1, <2>1, <2>2, <2>3
<1>12. StatusIsTruthful'
  BY <1>1 DEF IInv, StatusIsTruthful, redis, history
<1>13. HashesExpire'
  BY <1>1 DEF IInv, HashesExpire, Without, redis, history
<1>14. GrantsAreRecorded'
  BY <1>1, <1>5, PaymentsAssumption
     DEF IInv, GrantsAreRecorded, Granted, Settling, Without, redis, history
<1>15. CouponsAreNamed'
  BY <1>1, <1>5, PaymentsAssumption DEF IInv, CouponsAreNamed, At, Without, redis, history
<1>16. RedemptionsAreRecorded'
  BY <1>1, <1>5, PaymentsAssumption
     DEF IInv, RedemptionsAreRecorded, At, Redeeming, Without, redis, history
<1>17. AnswersAreTrue'
  BY <1>1, <1>2, <1>4, <1>5, <1>6, <1>7
     DEF IInv, AnswersAreTrue, Granted, At, Without, redis, history
<1>18. KeysAreKept'
  <2>1. \A o \in Orders :
          orders[o].status = "pending" => now < orders[o].exp /\ orders[o].exp <= now + OrderTTL
    BY DEF IInv, KeysAreKept
  <2>2. ASSUME NEW q \in paid, orders[q.order].status = "pending", idem'[q.transfer] # 0
        PROVE  orders[q.order].exp <= idem'[q.transfer]
    <3>1. CASE q = p
      BY <1>3, <1>4, <2>1, <2>2, <3>1, PaymentsAssumption
    <3>2. CASE q # p
      BY <1>4, <1>7, <2>2, <3>2 DEF IInv, KeysAreKept
    <3>3. QED
      BY <3>1, <3>2
  <2>3. ASSUME Without({"twice", "unmarked", "crash"}), NEW g \in Handlers \ {h},
               NEW t \in handlers[g].transfer, handlers[g].pc \in Settling \cup {"get", "idem"}
        PROVE  t \in Transfers \ {p.transfer}
    <3>1. handlers[g].transfer \cap handlers[h].transfer = {}
      BY <1>1, <2>3 DEF IInv, KeysAreKept
    <3>2. QED
      BY <1>2, <2>3, <3>1, HandlerTypes DEF IInv, HandlerStates
  <2>4. QED
    BY <1>1, <1>4, <1>5, <2>1, <2>2, <2>3
       DEF IInv, KeysAreKept, Settling, RightAmount, Without
<1>19. GrantsAreCounted'
  <2>1. ASSUME NEW o \in Orders
        PROVE  /\ Cardinality(Counted(o)) <= Cardinality(Counted(o)')
               /\ Cardinality(Counted(o)) \in Nat /\ Cardinality(Counted(o)') \in Nat
    <3>1. Counted(o) \subseteq Counted(o)'
      BY <1>1, <1>2, <1>4, <1>5, <1>7 DEF Counted, RightPayments
    <3>2. QED
      BY <1>1, <3>1, CountsMore, CountedIsFinite
  <2>2. \A o \in Orders : Granted(o)' = Granted(o) /\ Granted(o) \in Nat
    BY <1>1 DEF IInv, TypeOK, Granted, history
  <2>3. QED
    BY <1>1, <2>1, <2>2, CountTypes DEF IInv, GrantsAreCounted, Without, history
<1>20. QED
  BY <1>8, <1>9, <1>10, <1>11, <1>12, <1>13, <1>14, <1>15, <1>16, <1>17, <1>18, <1>19 DEF IInv

-----------------------------------------------------------------------------
(* A coupon is shown and redeemed.                                         *)

LEMMA GetOrderStatusStep ==
  ASSUME IInv, NEW o \in Orders, GetOrderStatus(o)
  PROVE  IInv'
<1>1. /\ orders[o].coupon \in Coupons /\ shown' = shown \cup {orders[o].coupon}
      /\ UNCHANGED <<now, open, redis, handlers, unused, payable, paid, answered, history,
                     budget, races>>
  BY DEF GetOrderStatus
<1>2. TypeOK'
  BY <1>1 DEF IInv, TypeOK, HandlerStates, Pcs, redis, history
<1>3. HandlersAreWhole'
  BY <1>1 DEF IInv, HandlersAreWhole, redis, history, Webhooks, Settling, Redeeming
<1>4. PaymentsAreOwn'
  BY <1>1 DEF IInv, PaymentsAreOwn, redis, history
<1>5. NothingBefore'
  BY <1>1 DEF IInv, NothingBefore, Untouched, At, redis, history
<1>6. StatusIsTruthful'
  BY <1>1 DEF IInv, StatusIsTruthful, redis, history
<1>7. HashesExpire'
  BY <1>1 DEF IInv, HashesExpire, Without, redis, history
<1>8. GrantsAreRecorded'
  BY <1>1 DEF IInv, GrantsAreRecorded, Granted, Settling, Without, redis, history
<1>9. CouponsAreNamed'
  BY <1>1 DEF IInv, CouponsAreNamed, At, Without, redis, history
<1>10. RedemptionsAreRecorded'
  BY <1>1 DEF IInv, RedemptionsAreRecorded, At, Redeeming, Without, redis, history
<1>11. AnswersAreTrue'
  BY <1>1 DEF IInv, AnswersAreTrue, Granted, At, Without, redis, history
<1>12. KeysAreKept'
  BY <1>1 DEF IInv, KeysAreKept, Settling, RightAmount, Without, redis, history
<1>13. GrantsAreCounted'
  <2>1. \A p \in Orders : Counted(p)' = Counted(p)
    BY <1>1 DEF Counted, RightPayments, redis
  <2>2. QED
    BY <1>1, <2>1 DEF IInv, GrantsAreCounted, Granted, Without, history
<1>14. QED
  BY <1>2, <1>3, <1>4, <1>5, <1>6, <1>7, <1>8, <1>9, <1>10, <1>11, <1>12, <1>13 DEF IInv

LEMMA GetCouponStep ==
  ASSUME IInv, NEW h \in Handlers, NEW c \in Coupons, NEW r \in Rooms, GetCoupon(h, c, r)
  PROVE  IInv'
<1> DEFINE x == [Idle EXCEPT !.pc = "getroom", !.coupon = c, !.room = r]
<1>1. /\ handlers[h].pc = "idle" /\ handlers' = [handlers EXCEPT ![h] = x]
      /\ c \in shown /\ coupons[c].status = "unused"
      /\ races' = races \/ races' = races \cup {"redeem"}
      /\ "redeem" \notin races' =>
           \A g \in Handlers : handlers[g].coupon = c => handlers[g].pc \notin Redeeming
      /\ UNCHANGED <<now, open, redis, unused, payable, paid, answered, shown, history>>
  BY DEF GetCoupon, At, Redeemable
<1>2. budget' \in [extra : Nat, redeem : Nat, failure : Nat]
  BY DEF GetCoupon, Spend, IInv, TypeOK
<1>3. /\ x \in HandlerStates
      /\ x.pc = "getroom" /\ x.transfer = {} /\ x.order = NoOrder /\ x.coupon = c
  BY DEF Idle, HandlerStates, Pcs, Redeeming
<1> HIDE DEF x
<1>4. /\ handlers' \in [Handlers -> HandlerStates]
      /\ handlers'[h] = x /\ \A g \in Handlers \ {h} : handlers'[g] = handlers[g]
  BY <1>1, <1>3, Begins DEF IInv
<1>5. c \notin unused /\ redeemed[c] \in Nat
  BY <1>1 DEF IInv, NothingBefore, TypeOK
<1>6. NoOrder \notin Orders
  BY PaymentsAssumption
<1>7. TypeOK'
  BY <1>1, <1>3, <1>4, <1>2 DEF IInv, TypeOK, HandlerStates, Pcs, redis, history
<1>8. HandlersAreWhole'
  BY <1>1, <1>3, <1>4, <1>5
     DEF IInv, HandlersAreWhole, redis, history, Webhooks, Settling, Redeeming
<1>9. PaymentsAreOwn'
  BY <1>1 DEF IInv, PaymentsAreOwn, redis, history
<1>10. NothingBefore'
  <2> USE DEF IInv, NothingBefore, redis, history
  <2>1. \A o \in Orders \cap unused :
          Untouched(o)' /\ \A g \in Handlers : handlers'[g].order # o
    BY <1>1, <1>3, <1>4, <1>6 DEF Untouched
  <2>2. ASSUME NEW g \in Handlers, At(g, "order")'
        PROVE  /\ Untouched(handlers[g].order)'
               /\ \A f \in Handlers : handlers'[f].order = handlers'[g].order => f = g
    <3>1. g # h /\ At(g, "order") /\ handlers'[g] = handlers[g] /\ handlers[g].order \in Orders
      BY <1>3, <1>4, <2>2 DEF At, HandlersAreWhole
    <3>2. QED
      BY <1>1, <1>3, <1>4, <1>6, <3>1 DEF Untouched
  <2>3. \A d \in Coupons \cap unused :
          /\ coupons'[d].order = NoOrder /\ redeemed'[d] = 0 /\ d \notin shown'
          /\ \A g \in Handlers : handlers'[g].coupon # d
          /\ \A o \in Orders : orders'[o].coupon # d
    BY <1>1, <1>3, <1>4, <1>5
  <2>4. QED
    BY <1>1, <2>1, <2>2, <2>3
<1>11. StatusIsTruthful'
  BY <1>1 DEF IInv, StatusIsTruthful, redis, history
<1>12. HashesExpire'
  BY <1>1 DEF IInv, HashesExpire, Without, redis, history
<1>13. GrantsAreRecorded'
  BY <1>1, <1>3, <1>4, <1>6
     DEF IInv, GrantsAreRecorded, Granted, Settling, Without, redis, history
<1>14. CouponsAreNamed'
  BY <1>1, <1>3, <1>4 DEF IInv, CouponsAreNamed, At, Without, redis, history
<1>15. RedemptionsAreRecorded'
  <2> SUFFICES ASSUME Without({"redeem", "error", "crash"}), "redeem" \notin races'
               PROVE  RedemptionsAreRecorded'
    BY <1>1 DEF RedemptionsAreRecorded, Without
  <2>1. \A g \in Handlers \ {h} : handlers[g].pc \in Redeeming => handlers[g].coupon # c
    BY <1>1
  <2>2. redeemed[c] <= reredeemed[c]
    BY <1>1, <1>5, <2>1, CountTypes DEF IInv, RedemptionsAreRecorded, At, Redeeming
  <2>3. QED
    BY <1>1, <1>3, <1>4, <2>1, <2>2
       DEF IInv, RedemptionsAreRecorded, At, Redeeming, redis, history
<1>16. AnswersAreTrue'
  BY <1>1, <1>3, <1>4, <1>6 DEF IInv, AnswersAreTrue, Granted, At, Without, redis, history
<1>17. KeysAreKept'
  BY <1>1, <1>3, <1>4 DEF IInv, KeysAreKept, Settling, RightAmount, Without, redis, history
<1>18. GrantsAreCounted'
  <2>1. \A o \in Orders : Counted(o)' = Counted(o)
    BY <1>1, <1>3, <1>4 DEF Counted, RightPayments, redis
  <2>2. QED
    BY <1>1, <2>1 DEF IInv, GrantsAreCounted, Granted, Without, history
<1>19. QED
  BY <1>7, <1>8, <1>9, <1>10, <1>11, <1>12, <1>13, <1>14, <1>15, <1>16, <1>17, <1>18 DEF IInv

\* The two round trips before a coupon is marked: the room is looked up, the script runs.
LEMMA RedeemSteps ==
  ASSUME IInv, NEW h \in Handlers, GetRoom(h) \/ RedeemCoupon(h)
  PROVE  IInv'
<1> DEFINE c == handlers[h].coupon
<1>1. /\ handlers[h].pc \in {"getroom", "redeem"}
      /\ UNCHANGED <<now, open, redis, unused, payable, paid, answered, shown, boosted, issued,
                     reboosted, reredeemed, lapsed, budget, races>>
      /\ \/ Done(h) /\ redeemed' = redeemed
         \/ Go(h, "redeem") /\ redeemed' = redeemed
         \/ /\ Go(h, "mark") /\ handlers[h].pc = "redeem"
            /\ redeemed' = [redeemed EXCEPT ![c] = @ + 1]
  BY DEF GetRoom, RedeemCoupon, At, history
<1>2. c \in Coupons \ unused
  BY <1>1 DEF IInv, HandlersAreWhole, Redeeming
<1>3. CASE Done(h) /\ redeemed' = redeemed
  BY <1>1, <1>3, HandlerEnds DEF IInv, TypeOK, history
<1>4. CASE ~(Done(h) /\ redeemed' = redeemed)
  <2>1. redeemed \in [Coupons -> Nat]
    BY DEF IInv, TypeOK
  <2>2. /\ handlers' \in [Handlers -> HandlerStates]
        /\ handlers'[h].transfer = handlers[h].transfer
        /\ handlers'[h].order = handlers[h].order /\ handlers'[h].coupon = c
        /\ \A g \in Handlers \ {h} : handlers'[g] = handlers[g]
        /\ \/ handlers'[h].pc = "redeem" /\ redeemed'[c] = redeemed[c]
           \/ /\ handlers'[h].pc = "mark" /\ redeemed'[c] = redeemed[c] + 1
        /\ redeemed' \in [Coupons -> Nat] /\ \A d \in Coupons \ {c} : redeemed'[d] = redeemed[d]
    BY <1>1, <1>2, <1>4, <2>1, GoesOn DEF IInv, Pcs, Redeeming
  <2> HIDE DEF c
  <2>3. TypeOK'
    BY <1>1, <2>2 DEF IInv, TypeOK, HandlerStates, Pcs, redis, history
  <2>4. HandlersAreWhole'
    BY <1>1, <1>2, <2>2
       DEF IInv, HandlersAreWhole, redis, history, Webhooks, Settling, Redeeming, c
  <2>5. PaymentsAreOwn'
    BY <1>1 DEF IInv, PaymentsAreOwn, redis, history
  <2>6. NothingBefore'
    BY <1>1, <1>2, <2>2 DEF IInv, NothingBefore, Untouched, At, redis, history, c
  <2>7. StatusIsTruthful'
    BY <1>1 DEF IInv, StatusIsTruthful, redis, history
  <2>8. HashesExpire'
    BY <1>1 DEF IInv, HashesExpire, Without, redis, history
  <2>9. GrantsAreRecorded'
    BY <1>1, <2>2 DEF IInv, GrantsAreRecorded, Granted, Settling, Without, redis, history
  <2>10. CouponsAreNamed'
    BY <1>1, <2>2 DEF IInv, CouponsAreNamed, At, Without, redis, history
  <2>11. RedemptionsAreRecorded'
    <3> SUFFICES ASSUME Without({"redeem", "error", "crash"})
                 PROVE  RedemptionsAreRecorded'
      BY <1>1 DEF RedemptionsAreRecorded, Without
    <3>1. redeemed[c] <= reredeemed[c] /\ \A g \in Handlers \ {h} : handlers[g].pc \in Redeeming =>
                               handlers[g].coupon # c /\ handlers[g].coupon \in Coupons
      BY <1>1 DEF IInv, RedemptionsAreRecorded, HandlersAreWhole, Redeeming, c
    <3>2. QED
      BY <1>1, <1>2, <2>2, <3>1, CountTypes DEF IInv, RedemptionsAreRecorded, At, Redeeming, redis, c
  <2>12. AnswersAreTrue'
    BY <1>1, <2>2 DEF IInv, AnswersAreTrue, Granted, At, Without, redis, history
  <2>13. KeysAreKept'
    BY <1>1, <2>2 DEF IInv, KeysAreKept, Settling, RightAmount, Without, redis, history
  <2>14. GrantsAreCounted'
    <3>1. \A o \in Orders : Counted(o)' = Counted(o)
      BY <1>1, <2>2 DEF Counted, RightPayments, redis
    <3>2. QED
      BY <1>1, <3>1 DEF IInv, GrantsAreCounted, Granted, Without, history
  <2>15. QED
    BY <2>3, <2>4, <2>5, <2>6, <2>7, <2>8, <2>9, <2>10, <2>11, <2>12, <2>13, <2>14 DEF IInv
<1>5. QED
  BY <1>3, <1>4

LEMMA MarkCouponUsedStep ==
  ASSUME IInv, NEW h \in Handlers, MarkCouponUsed(h)
  PROVE  IInv'
<1> DEFINE c == handlers[h].coupon
<1>1. /\ handlers[h].pc = "mark" /\ Done(h)
      /\ coupons' = [coupons EXCEPT ![c].status = "used"]
      /\ races' = races \/ races' = races \cup {"late"}
      /\ coupons[c].status = "none" => races' = races \cup {"late"}
      /\ UNCHANGED <<now, open, orders, idem, unused, payable, paid, answered, shown, history,
                     budget>>
  BY DEF MarkCouponUsed, At, Late
<1>2. c \in Coupons \ unused
  BY <1>1 DEF IInv, HandlersAreWhole, Redeeming
<1>3. /\ coupons'[c].status = "used" /\ coupons'[c].exp = coupons[c].exp
      /\ \A d \in Coupons : coupons'[d].order = coupons[d].order
      /\ \A d \in Coupons \ {c} : coupons'[d] = coupons[d]
      /\ coupons' \in [Coupons -> [status : {"none", "unused", "used"},
                                   order : Orders \cup {NoOrder}, exp : Nat]]
  <2>1. coupons \in [Coupons -> [status : {"none", "unused", "used"},
                                 order : Orders \cup {NoOrder}, exp : Nat]]
    BY DEF IInv, TypeOK
  <2>2. coupons' = [coupons EXCEPT ![c] = [coupons[c] EXCEPT !.status = "used"]]
    BY <1>1, <1>2, <2>1
  <2>3. QED
    BY <1>2, <2>1, <2>2
<1>4. /\ handlers' \in [Handlers -> HandlerStates]
      /\ handlers'[h] = Idle /\ \A g \in Handlers \ {h} : handlers'[g] = handlers[g]
      /\ Idle.pc = "idle" /\ Idle.transfer = {} /\ Idle.order = NoOrder /\ Idle.coupon = NoCoupon
  BY <1>1, IsDone DEF IInv, Idle
<1>5. NoOrder \notin Orders /\ NoCoupon \notin Coupons
  BY PaymentsAssumption
<1> HIDE DEF c
<1>6. TypeOK'
  BY <1>1, <1>3, <1>4 DEF IInv, TypeOK, HandlerStates, Pcs, redis, history
<1>7. HandlersAreWhole'
  BY <1>1, <1>3, <1>4 DEF IInv, HandlersAreWhole, redis, history, Webhooks, Settling, Redeeming
<1>8. PaymentsAreOwn'
  BY <1>1 DEF IInv, PaymentsAreOwn, redis, history
<1>9. NothingBefore'
  <2> USE DEF IInv, NothingBefore, history
  <2>1. \A o \in Orders \cap unused :
          Untouched(o)' /\ \A g \in Handlers : handlers'[g].order # o
    BY <1>1, <1>4, <1>5 DEF Untouched
  <2>2. ASSUME NEW g \in Handlers, At(g, "order")'
        PROVE  /\ Untouched(handlers[g].order)'
               /\ \A f \in Handlers : handlers'[f].order = handlers'[g].order => f = g
    <3>1. g # h /\ At(g, "order") /\ handlers'[g] = handlers[g] /\ handlers[g].order \in Orders
      BY <1>4, <2>2 DEF At, HandlersAreWhole
    <3>2. QED
      BY <1>1, <1>4, <1>5, <3>1 DEF Untouched
  <2>3. \A d \in Coupons \cap unused :
          /\ coupons'[d].order = NoOrder /\ redeemed'[d] = 0 /\ d \notin shown'
          /\ \A g \in Handlers : handlers'[g].coupon # d
          /\ \A o \in Orders : orders'[o].coupon # d
    BY <1>1, <1>2, <1>3, <1>4, <1>5
  <2>4. QED
    BY <1>1, <2>1, <2>2, <2>3
<1>10. StatusIsTruthful'
  BY <1>1, <1>2, <1>3, <1>4, <1>5 DEF IInv, StatusIsTruthful, redis, history
<1>11. HashesExpire'
  BY <1>1, <1>2, <1>3, <1>4, <1>5 DEF IInv, HashesExpire, Without, redis, history
<1>12. GrantsAreRecorded'
  BY <1>1, <1>2, <1>3, <1>4, <1>5
     DEF IInv, GrantsAreRecorded, Granted, Settling, Without, redis, history
<1>13. CouponsAreNamed'
  BY <1>1, <1>2, <1>3, <1>4, <1>5 DEF IInv, CouponsAreNamed, At, Without, redis, history
<1>14. RedemptionsAreRecorded'
  BY <1>1, <1>2, <1>3, <1>4, <1>5
     DEF IInv, RedemptionsAreRecorded, At, Redeeming, Without, redis, history, c
<1>15. AnswersAreTrue'
  BY <1>1, <1>2, <1>3, <1>4, <1>5 DEF IInv, AnswersAreTrue, Granted, At, Without, redis, history
<1>16. KeysAreKept'
  BY <1>1, <1>2, <1>3, <1>4, <1>5
     DEF IInv, KeysAreKept, Settling, RightAmount, Without, redis, history
<1>17. GrantsAreCounted'
  <2>1. \A o \in Orders : Counted(o)' = Counted(o)
    BY <1>1, <1>4 DEF Counted, RightPayments
  <2>2. QED
    BY <1>1, <2>1 DEF IInv, GrantsAreCounted, Granted, Without, history
<1>18. QED
  BY <1>6, <1>7, <1>8, <1>9, <1>10, <1>11, <1>12, <1>13, <1>14, <1>15, <1>16, <1>17 DEF IInv

-----------------------------------------------------------------------------
(* Time and failures.                                                      *)

LEMMA TickStep ==
  ASSUME IInv, Tick
  PROVE  IInv'
<1>1. /\ now' = now + 1 /\ now \in Nat /\ now' \in 0..MaxTime
      /\ UNCHANGED <<open, idem, handlers, unused, payable, paid, answered, shown,
                     boosted, issued, redeemed, reboosted, reredeemed, budget, races>>
  BY PaymentsAssumption DEF Tick, IInv, TypeOK
<1>2. /\ orders \in [Orders -> [status : {"none", "pending", "completed", "room_expired"},
                                room : Rooms \cup {NoRoom}, coupon : Coupons \cup {NoCoupon},
                                exp : Nat]]
      /\ coupons \in [Coupons -> [status : {"none", "unused", "used"},
                                  order : Orders \cup {NoOrder}, exp : Nat]]
  BY DEF IInv, TypeOK
<1>3. \A o \in Orders :
        \/ orders'[o] = orders[o] /\ (orders[o].exp = 0 \/ orders[o].exp > now + 1)
        \/ /\ orders'[o] = AbsentOrder
           /\ orders[o].status = "pending" => o \in lapsed'
  BY <1>1, <1>2 DEF Tick, Expires, Never
<1>4. \A c \in Coupons :
        \/ coupons'[c] = coupons[c] /\ (coupons[c].exp = 0 \/ coupons[c].exp > now + 1)
        \/ coupons'[c] = AbsentCoupon
  BY <1>1, <1>2 DEF Tick, Expires, Never
<1>5. lapsed \subseteq lapsed' /\ lapsed' \subseteq Orders
  BY DEF Tick, IInv, TypeOK
<1>6. /\ AbsentOrder.status = "none" /\ AbsentOrder.coupon = NoCoupon
      /\ AbsentCoupon.status = "none" /\ AbsentCoupon.order = NoOrder
  BY DEF AbsentOrder, AbsentCoupon
<1>7. NoOrder \notin Orders /\ NoCoupon \notin Coupons
  BY PaymentsAssumption
<1>8. TypeOK'
  <2>1. /\ orders' = [o \in Orders |-> orders'[o]] /\ coupons' = [c \in Coupons |-> coupons'[c]]
    BY DEF Tick
  <2>2. /\ AbsentOrder \in [status : {"none", "pending", "completed", "room_expired"},
                            room : Rooms \cup {NoRoom}, coupon : Coupons \cup {NoCoupon},
                            exp : Nat]
        /\ AbsentCoupon \in [status : {"none", "unused", "used"},
                             order : Orders \cup {NoOrder}, exp : Nat]
    BY DEF AbsentOrder, AbsentCoupon, Never
  <2>3. /\ orders' \in [Orders -> [status : {"none", "pending", "completed", "room_expired"},
                                   room : Rooms \cup {NoRoom}, coupon : Coupons \cup {NoCoupon},
                                   exp : Nat]]
        /\ coupons' \in [Coupons -> [status : {"none", "unused", "used"},
                                     order : Orders \cup {NoOrder}, exp : Nat]]
    BY <1>2, <1>3, <1>4, <2>1, <2>2
  <2>4. QED
    BY <1>1, <1>5, <2>3 DEF IInv, TypeOK
<1>9. HandlersAreWhole'
  BY <1>1, <1>3, <1>4, <1>6, <1>7
     DEF IInv, HandlersAreWhole, redis, history, Webhooks, Settling, Redeeming
<1>10. PaymentsAreOwn'
  BY <1>1 DEF IInv, PaymentsAreOwn, redis, history
<1>11. NothingBefore'
  <2>1. \A h \in Handlers : At(h, "order") => handlers[h].order \in Orders
    BY DEF IInv, HandlersAreWhole, At
  <2>2. QED
    BY <1>1, <1>3, <1>4, <1>6, <1>7, <2>1 DEF IInv, NothingBefore, Untouched, At
<1>12. StatusIsTruthful'
  BY <1>1, <1>3, <1>4, <1>6, <1>7, <1>2 DEF IInv, StatusIsTruthful, redis, history
<1>13. HashesExpire'
  BY <1>1, <1>3, <1>4, <1>6, <1>7, <1>2 DEF IInv, HashesExpire, Without, redis, history
<1>14. GrantsAreRecorded'
  BY <1>1, <1>3, <1>4, <1>6, <1>7
     DEF IInv, GrantsAreRecorded, Granted, Settling, Without, redis, history
<1>15. CouponsAreNamed'
  <2>1. \A c \in Coupons : coupons[c].order \in Orders \cup {NoOrder}
    BY <1>2
  <2>2. QED
    BY <1>1, <1>3, <1>4, <1>6, <1>7, <2>1 DEF IInv, CouponsAreNamed, At, Without
<1>16. RedemptionsAreRecorded'
  BY <1>1, <1>3, <1>4, <1>6, <1>7
     DEF IInv, RedemptionsAreRecorded, At, Redeeming, Without, redis, history
<1>17. AnswersAreTrue'
  <2>1. \A o \in Orders : Granted(o)' = Granted(o)
    BY <1>1 DEF Granted
  <2>2. ASSUME NEW o \in Orders, orders[o].status # "none"
        PROVE  orders'[o].status # "none" \/ o \in lapsed' \/ Granted(o) > 0
    <3>1. orders[o].status \in {"pending", "completed", "room_expired"}
      BY <1>2, <2>2
    <3>2. boosted[o] \in Nat /\ issued[o] \in Nat
      BY DEF IInv, TypeOK
    <3>3. orders[o].status \in {"completed", "room_expired"} => Granted(o) > 0
      BY <3>2 DEF IInv, StatusIsTruthful, Granted
    <3>4. QED
      BY <1>3, <2>2, <3>1, <3>3
  <2>3. \A p \in paid : p.order \in Orders
    BY DEF IInv, TypeOK
  <2>4. \A h \in Handlers : At(h, "idem") => handlers[h].order \in Orders
    BY DEF IInv, HandlersAreWhole, Webhooks, At
  <2>5. QED
    BY <1>1, <1>5, <2>1, <2>2, <2>3, <2>4 DEF IInv, AnswersAreTrue, At, Without
<1>18. KeysAreKept'
  <2>1. \A p \in paid : p.order \in Orders
    BY DEF IInv, TypeOK
  <2>2. \A o \in Orders : orders[o].status = "pending" /\ orders'[o] = orders[o] =>
                            now' < orders'[o].exp /\ orders'[o].exp <= now' + OrderTTL
    BY <1>1, <1>2, <1>3, <1>6, PaymentsAssumption DEF IInv, KeysAreKept
  <2>3. \A h \in Handlers, t \in Transfers : /\ idem[t] <= now => idem'[t] <= now'
                                             /\ t \in handlers[h].transfer => t \in Transfers
    BY <1>1 DEF IInv, TypeOK
  <2>4. \A h \in Handlers : handlers[h].transfer \subseteq Transfers
    BY HandlerTypes DEF IInv, HandlerStates
  <2>5. \A h \in Handlers : RightAmount(h)' = RightAmount(h)
    BY <1>1 DEF RightAmount
  <2>6. QED
    BY <1>1, <1>3, <1>6, <2>1, <2>2, <2>3, <2>4, <2>5
       DEF IInv, KeysAreKept, Settling, Without
<1>19. GrantsAreCounted'
  <2>1. \A o \in Orders : Counted(o)' = Counted(o) /\ Granted(o)' = Granted(o)
    BY <1>1 DEF Counted, RightPayments, Granted
  <2>2. QED
    BY <1>1, <2>1 DEF IInv, GrantsAreCounted, Without
<1>20. QED
  BY <1>8, <1>9, <1>10, <1>11, <1>12, <1>13, <1>14, <1>15, <1>16, <1>17, <1>18, <1>19 DEF IInv

LEMMA RoomGoneStep ==
  ASSUME IInv, NEW r \in Rooms, RoomGone(r)
  PROVE  IInv'
<1>1. /\ open' \subseteq open
      /\ UNCHANGED <<now, redis, handlers, unused, payable, paid, answered, shown,
                     history, budget, races>>
  BY DEF RoomGone
<1>2. TypeOK'
  BY <1>1 DEF IInv, TypeOK, HandlerStates, Pcs, redis, history
<1>3. HandlersAreWhole'
  BY <1>1 DEF IInv, HandlersAreWhole, redis, history, Webhooks, Settling, Redeeming
<1>4. PaymentsAreOwn'
  BY <1>1 DEF IInv, PaymentsAreOwn, redis, history
<1>5. NothingBefore'
  BY <1>1 DEF IInv, NothingBefore, Untouched, At, redis, history
<1>6. StatusIsTruthful'
  BY <1>1 DEF IInv, StatusIsTruthful, redis, history
<1>7. HashesExpire'
  BY <1>1 DEF IInv, HashesExpire, Without, redis, history
<1>8. GrantsAreRecorded'
  BY <1>1 DEF IInv, GrantsAreRecorded, Granted, Settling, Without, redis, history
<1>9. CouponsAreNamed'
  BY <1>1 DEF IInv, CouponsAreNamed, At, Without, redis, history
<1>10. RedemptionsAreRecorded'
  BY <1>1 DEF IInv, RedemptionsAreRecorded, At, Redeeming, Without, redis, history
<1>11. AnswersAreTrue'
  BY <1>1 DEF IInv, AnswersAreTrue, Granted, At, Without, redis, history
<1>12. KeysAreKept'
  BY <1>1 DEF IInv, KeysAreKept, Settling, RightAmount, Without, redis, history
<1>13. GrantsAreCounted'
  <2>1. \A o \in Orders : Counted(o)' = Counted(o)
    BY <1>1 DEF Counted, RightPayments, redis
  <2>2. QED
    BY <1>1, <2>1 DEF IInv, GrantsAreCounted, Granted, Without, history
<1>14. QED
  BY <1>2, <1>3, <1>4, <1>5, <1>6, <1>7, <1>8, <1>9, <1>10, <1>11, <1>12, <1>13 DEF IInv

\* The boost's script runs, and the handler waits for it to run again.
LEMMA ResendStep ==
  ASSUME IInv, NEW h \in Handlers, Resend(h)
  PROVE  IInv'
<1> DEFINE o == handlers[h].order
           c == handlers[h].coupon
<1>1. UNCHANGED <<now, open, redis, handlers, unused, payable, paid, answered, shown, issued,
                  lapsed, races>>
  BY DEF Resend
<1>2. budget' \in [extra : Nat, redeem : Nat, failure : Nat]
  BY DEF Resend, Spend, IInv, TypeOK
<1>3. \/ /\ At(h, "apply") /\ redeemed' = redeemed /\ reredeemed' = reredeemed
         /\ boosted' = [boosted EXCEPT ![o] = @ + 1]
         /\ reboosted' = [reboosted EXCEPT ![o] = @ + 1]
      \/ /\ At(h, "redeem") /\ boosted' = boosted /\ reboosted' = reboosted
         /\ redeemed' = [redeemed EXCEPT ![c] = @ + 1]
         /\ reredeemed' = [reredeemed EXCEPT ![c] = @ + 1]
  BY DEF Resend
<1>4. /\ At(h, "apply") => o \in Orders \ unused /\ ~Untouched(o)
      /\ At(h, "redeem") => c \in Coupons \ unused
  BY WebhookTypes DEF IInv, HandlersAreWhole, Webhooks, Settling, Redeeming, At
<1>5. /\ boosted' \in [Orders -> Nat] /\ reboosted' \in [Orders -> Nat]
      /\ \A u \in Orders : \/ boosted'[u] = boosted[u] /\ reboosted'[u] = reboosted[u]
                           \/ /\ u = o /\ At(h, "apply")
                              /\ boosted'[u] = boosted[u] + 1
                              /\ reboosted'[u] = reboosted[u] + 1
  BY <1>3, <1>4, CountTypes
<1>6. /\ redeemed' \in [Coupons -> Nat] /\ reredeemed' \in [Coupons -> Nat]
      /\ \A d \in Coupons :
           \/ redeemed'[d] = redeemed[d] /\ reredeemed'[d] = reredeemed[d]
           \/ /\ d = c /\ At(h, "redeem")
              /\ redeemed'[d] = redeemed[d] + 1
              /\ reredeemed'[d] = reredeemed[d] + 1
  BY <1>3, <1>4, CountTypes
<1>7. \A u \in Orders :
        /\ Granted(u) \in Nat /\ Granted(u)' \in Nat /\ Granted(u) <= Granted(u)'
        /\ Granted(u)' <= reboosted'[u] <=> Granted(u) <= reboosted[u]
        /\ Granted(u)' > reboosted'[u] <=> Granted(u) > reboosted[u]
        /\ \A n \in Nat : Granted(u) <= n + reboosted[u] => Granted(u)' <= n + reboosted'[u]
  BY <1>1, <1>5, CountTypes DEF Granted
<1> HIDE DEF o, c
<1>8. TypeOK'
  BY <1>1, <1>2, <1>5, <1>6 DEF IInv, TypeOK, redis
<1>9. HandlersAreWhole'
  <2>1. \A g \in Handlers : handlers[g].pc = "complete" => handlers[g].order \in Orders
    BY DEF IInv, HandlersAreWhole, Webhooks, Settling
  <2>2. QED
    BY <1>1, <1>5, <2>1, CountTypes DEF IInv, HandlersAreWhole, redis
<1>10. PaymentsAreOwn'
  BY <1>1 DEF IInv, PaymentsAreOwn, redis
<1>11. NothingBefore'
  <2>1. \A u \in Orders : Untouched(u) => Untouched(u)'
    BY <1>1, <1>4, <1>5 DEF Untouched, redis
  <2>2. \A d \in Coupons \cap unused : redeemed'[d] = redeemed[d]
    BY <1>4, <1>6
  <2>3. \A g \in Handlers : At(g, "order") => handlers[g].order \in Orders
    BY DEF IInv, HandlersAreWhole, At
  <2>4. QED
    BY <1>1, <2>1, <2>2, <2>3 DEF IInv, NothingBefore, At, redis
<1>12. StatusIsTruthful'
  BY <1>1, <1>5, CountTypes DEF IInv, StatusIsTruthful, redis
<1>13. GrantsAreRecorded'
  <2>1. \A g \in Handlers : handlers[g].pc \in {"apply", "issue"} => handlers[g].order \in Orders
    BY DEF IInv, HandlersAreWhole, Webhooks, Settling
  <2>2. QED
    BY <1>1, <1>7, <2>1 DEF IInv, GrantsAreRecorded, Without, redis
<1>14. CouponsAreNamed'
  BY <1>1 DEF IInv, CouponsAreNamed, At, Without, redis
<1>15. RedemptionsAreRecorded'
  <2>1. \A d \in Coupons :
          /\ redeemed'[d] <= reredeemed'[d] <=> redeemed[d] <= reredeemed[d]
          /\ redeemed'[d] > reredeemed'[d] <=> redeemed[d] > reredeemed[d]
          /\ redeemed'[d] <= 1 + reredeemed'[d] <=> redeemed[d] <= 1 + reredeemed[d]
    BY <1>6, CountTypes
  <2>2. \A g \in Handlers : handlers[g].pc \in {"getroom", "redeem"} => handlers[g].coupon \in Coupons
    BY DEF IInv, HandlersAreWhole, Redeeming
  <2>3. QED
    BY <1>1, <2>1, <2>2 DEF IInv, RedemptionsAreRecorded, At, Without, redis
<1>16. AnswersAreTrue'
  <2>1. \A u \in Orders : Granted(u) > 0 => Granted(u)' > 0
    BY <1>7
  <2>2. /\ \A q \in paid : q.order \in Orders
        /\ \A g \in Handlers : At(g, "idem") => handlers[g].order \in Orders
    BY DEF IInv, TypeOK, HandlersAreWhole, Webhooks, At
  <2>3. QED
    BY <1>1, <2>1, <2>2 DEF IInv, AnswersAreTrue, At, Without, redis
<1>17. HashesExpire' /\ KeysAreKept'
  BY <1>1 DEF IInv, HashesExpire, KeysAreKept, RightAmount, Without, redis
<1>18. GrantsAreCounted'
  <2>1. \A u \in Orders : Counted(u)' = Counted(u) /\ Cardinality(Counted(u)) \in Nat
    BY <1>1, CountedIsFinite DEF Counted, RightPayments, redis
  <2>2. QED
    BY <1>1, <1>7, <2>1 DEF IInv, GrantsAreCounted, Without
<1>19. QED
  BY <1>8, <1>9, <1>10, <1>11, <1>12, <1>13, <1>14, <1>15, <1>16, <1>17, <1>18 DEF IInv

LEMMA RedisErrorStep ==
  ASSUME IInv, NEW h \in Handlers, RedisError(h)
  PROVE  IInv'
<1> DEFINE o == handlers[h].order
           pc == handlers[h].pc
<1>1. /\ "error" \in races' /\ races \subseteq races'
      /\ pc \in {"check", "idem"} => "unmarked" \in races'
      /\ races' \subseteq {"overlap", "twice", "redeem", "late", "error", "unmarked", "crash"}
      /\ UNCHANGED <<now, open, redis, unused, payable, paid, shown, issued, reboosted, reredeemed,
                     lapsed>>
  BY DEF RedisError, IInv, TypeOK
<1>2. budget' \in [extra : Nat, redeem : Nat, failure : Nat]
  BY DEF RedisError, Spend, IInv, TypeOK
<1>3. CASE /\ pc \in {"get", "idem"} \cup Redeeming /\ Done(h) /\ boosted' = boosted
           /\ answered' = answered \/ answered' = answered \cup handlers[h].transfer
           /\ \/ redeemed' = redeemed
              \/ /\ At(h, "redeem")
                 /\ redeemed' = [redeemed EXCEPT ![handlers[h].coupon] = @ + 1]
  BY <1>1, <1>2, <1>3, HandlerLeaves DEF At, Redeeming
<1>4. CASE /\ pc \in {"check", "apply", "complete", "issue", "expired"}
           /\ answered' = answered /\ redeemed' = redeemed
           /\ Go(h, IF pc = "check" THEN "get" ELSE "idem")
           /\ \/ boosted' = boosted
              \/ pc = "apply" /\ boosted' = [boosted EXCEPT ![o] = @ + 1]
  <2>1. o \in Orders \ unused /\ ~Untouched(o)
    BY <1>4, WebhookTypes DEF Webhooks, Settling
  <2>2. boosted \in [Orders -> Nat] /\ issued \in [Orders -> Nat]
    BY DEF IInv, TypeOK
  <2>3. /\ handlers' \in [Handlers -> HandlerStates]
        /\ handlers'[h].pc = IF pc = "check" THEN "get" ELSE "idem"
        /\ handlers'[h].transfer = handlers[h].transfer
        /\ handlers'[h].order = o /\ handlers'[h].coupon = handlers[h].coupon
        /\ \A g \in Handlers \ {h} : handlers'[g] = handlers[g]
    BY <1>4, GoesOn DEF IInv, Pcs
  <2>4. /\ boosted' \in [Orders -> Nat]
        /\ \A u \in Orders \ {o} : boosted'[u] = boosted[u]
        /\ boosted'[o] = boosted[o] \/ (pc = "apply" /\ boosted'[o] = boosted[o] + 1)
    BY <1>4, <2>1, <2>2
  <2>5. \A u \in Orders : Granted(u) \in Nat /\ Granted(u)' \in Nat /\ Granted(u) <= Granted(u)'
    BY <1>1, <2>2, <2>4 DEF Granted
  <2> HIDE DEF o, pc
  <2>6. TypeOK'
    BY <1>1, <1>2, <1>4, <2>3, <2>4 DEF IInv, TypeOK, HandlerStates, Pcs, redis, history
  <2>7. HandlersAreWhole'
    <3>1. \A g \in Handlers : handlers[g].pc = "complete" => handlers[g].order \in Orders
      BY DEF IInv, HandlersAreWhole, Webhooks, Settling
    <3>2. QED
      BY <1>1, <1>4, <2>1, <2>2, <2>3, <2>4, <3>1, CountTypes
         DEF IInv, HandlersAreWhole, redis, Webhooks, Settling, Redeeming, o, pc
  <2>8. PaymentsAreOwn'
    BY <1>1, <1>4 DEF IInv, PaymentsAreOwn, redis, history
  <2>9. NothingBefore'
    <3>1. \A u \in Orders \cap unused : u # o
      BY <2>1
    <3>2. ASSUME NEW g \in Handlers, At(g, "order")'
          PROVE  g # h /\ handlers[g].order \in Orders \ {o}
      BY <1>4, <2>1, <2>3, <3>2 DEF IInv, NothingBefore, HandlersAreWhole, At, o
    <3>3. QED
      BY <1>1, <1>4, <2>1, <2>3, <2>4, <3>1, <3>2
         DEF IInv, NothingBefore, Untouched, At, redis, o
  <2>10. StatusIsTruthful'
    BY <1>1, <2>2, <2>4 DEF IInv, StatusIsTruthful, redis, history
  <2>11. HashesExpire'
    BY <1>1 DEF IInv, HashesExpire, Without, redis, history
  <2>12. GrantsAreRecorded'
    BY <1>1 DEF IInv, GrantsAreRecorded, Granted, Settling, Without, redis, history
  <2>13. CouponsAreNamed'
    BY <1>1 DEF IInv, CouponsAreNamed, At, Without, redis, history
  <2>14. RedemptionsAreRecorded'
    BY <1>1 DEF IInv, RedemptionsAreRecorded, At, Redeeming, Without, redis, history
  <2>15. AnswersAreTrue'
    BY <1>1, <1>4, <2>3, <2>5 DEF IInv, AnswersAreTrue, Granted, At, Without, redis, history, pc
  <2>16. KeysAreKept'
    BY <1>1, <1>4, <2>3 DEF IInv, KeysAreKept, Settling, RightAmount, Without, redis, history, pc
  <2>17. GrantsAreCounted'
    <3> SUFFICES ASSUME Without({"twice", "unmarked", "crash"}), NEW u \in Orders, pc # "check"
                 PROVE  Granted(u)' <= Cardinality(Counted(u)') + reboosted[u]
      BY <1>1 DEF GrantsAreCounted, Without
    <3>1. /\ Granted(u) <= Cardinality(Counted(u)) + reboosted[u] /\ reboosted[u] \in Nat
          /\ Cardinality(Counted(u)) <= Cardinality(Counted(u)')
          /\ Cardinality(Counted(u)) \in Nat /\ Cardinality(Counted(u)') \in Nat
      BY <1>1, <2>3, CountedGrows, CountedIsFinite, CountTypes DEF IInv, GrantsAreCounted, redis
    <3>2. CASE Granted(u)' = Granted(u)
      BY <2>5, <3>1, <3>2
    <3>3. CASE Granted(u)' # Granted(u)
      <4>1. u = o /\ pc = "apply" /\ Granted(u)' = Granted(u) + 1
        BY <1>1, <2>2, <2>4, <3>3 DEF Granted
      <4>2. PICK p \in paid : /\ handlers[h].transfer = {p.transfer} /\ o = p.order
                              /\ \A q \in paid : q.transfer \in handlers[h].transfer => q = p
        BY <1>4, WebhookTypes DEF Webhooks, Settling, o, pc
      <4>3. p.right /\ idem[p.transfer] = 0
        BY <4>1, <4>2 DEF IInv, KeysAreKept, RightAmount, pc
      <4>4. \A g \in Handlers :
              p.transfer \in handlers[g].transfer =>
                handlers[g].pc \notin {"complete", "expired", "idem"}
        BY <4>1, <4>2 DEF IInv, KeysAreKept, Settling, pc
      <4>5. p \in RightPayments(u) \ Counted(u)
        BY <4>1, <4>2, <4>3, <4>4 DEF Counted, RightPayments
      <4>6. Cardinality(Counted(u)) + 1 <= Cardinality(Counted(u)')
        BY <1>1, <2>3, <4>1, <4>2, <4>5, CountedGrows DEF redis
      <4>7. QED
        BY <2>5, <3>1, <4>1, <4>6
    <3>4. QED
      BY <3>2, <3>3
  <2>18. QED
    BY <2>6, <2>7, <2>8, <2>9, <2>10, <2>11, <2>12, <2>13, <2>14, <2>15, <2>16, <2>17 DEF IInv
<1>5. QED
  BY <1>3, <1>4 DEF RedisError, AfterError, At, Answer, Redeeming

LEMMA CrashStep ==
  ASSUME IInv, NEW h \in Handlers, Crash(h)
  PROVE  IInv'
<1>1. /\ Done(h) /\ races' = races \cup {"crash"} /\ answered' = answered
      /\ UNCHANGED <<now, open, redis, unused, payable, paid, shown, history>>
  BY DEF Crash
<1>2. budget' \in [extra : Nat, redeem : Nat, failure : Nat]
  BY DEF Crash, Spend, IInv, TypeOK
<1>3. QED
  BY <1>1, <1>2, HandlerEnds DEF IInv, TypeOK

-----------------------------------------------------------------------------
(* The invariant and the properties.                                       *)

LEMMA InitInvariant == Init => IInv
<1> SUFFICES ASSUME Init
             PROVE  IInv
  OBVIOUS
<1> USE DEF Init, Idle, AbsentOrder, AbsentCoupon, Never
<1>1. TypeOK
  BY PaymentsAssumption DEF TypeOK
<1>2. PaymentsAreOwn
  BY FS_EmptySet DEF PaymentsAreOwn
<1>3. HandlersAreWhole /\ NothingBefore
  BY PaymentsAssumption DEF HandlersAreWhole, Webhooks, Settling, Redeeming, NothingBefore,
     Untouched, At
<1>4. StatusIsTruthful /\ HashesExpire
  BY DEF StatusIsTruthful, HashesExpire
<1>5. GrantsAreRecorded /\ CouponsAreNamed /\ RedemptionsAreRecorded
  BY DEF GrantsAreRecorded, CouponsAreNamed, RedemptionsAreRecorded, Settling, Redeeming, Granted
<1>6. AnswersAreTrue
  BY DEF AnswersAreTrue, At
<1>7. KeysAreKept
  BY DEF KeysAreKept, Settling
<1>8. GrantsAreCounted
  <2> SUFFICES ASSUME NEW o \in Orders
               PROVE  Granted(o) <= Cardinality(Counted(o)) + reboosted[o]
    BY DEF GrantsAreCounted
  <2>1. Counted(o) = {}
    BY DEF Counted, RightPayments
  <2>2. Cardinality(Counted(o)) = 0
    BY <2>1, FS_EmptySet, Zenon
  <2>3. Granted(o) = 0 /\ reboosted[o] = 0
    BY DEF Granted
  <2>4. QED
    BY <2>2, <2>3
<1>9. QED
  BY <1>1, <1>2, <1>3, <1>4, <1>5, <1>6, <1>7, <1>8 DEF IInv

LEMMA NextInvariant == IInv /\ [Next]_vars => IInv'
<1> SUFFICES ASSUME IInv, [Next]_vars
             PROVE  IInv'
  OBVIOUS
<1>1. ASSUME NEW h \in Handlers, NEW o \in Orders, NEW r \in Rooms, InitiatePayment(h, o, r)
      PROVE  IInv'
  BY <1>1, InitiatePaymentStep
<1>2. ASSUME NEW h \in Handlers, CreateOrder(h) \/ Checkout(h)
      PROVE  IInv'
  BY <1>2, CreateOrderStep, CheckoutStep
<1>3. ASSUME NEW h \in Handlers, NEW p \in paid, CallWebhook(h, p) \/ CallAgain(h, p)
      PROVE  IInv'
  <2>1. Received(h, p) /\ budget' \in [extra : Nat, redeem : Nat, failure : Nat]
    BY <1>3 DEF CallWebhook, CallAgain, Spend, IInv, TypeOK
  <2>2. QED
    BY <2>1, ReceivedStep
<1>4. ASSUME NEW h \in Handlers, Webhook(h)
      PROVE  IInv'
  BY <1>4, CheckStep, GetOrderStep, ApplyBoostStep, SetOrderCompletedStep, CreateCouponStep,
     SetOrderRoomExpiredStep, SetIdempotencyKeyStep DEF Webhook
<1>5. ASSUME NEW h \in Handlers, NEW c \in Coupons, NEW r \in Rooms, GetCoupon(h, c, r)
      PROVE  IInv'
  BY <1>5, GetCouponStep
<1>6. ASSUME NEW h \in Handlers, GetRoom(h) \/ RedeemCoupon(h) \/ MarkCouponUsed(h)
      PROVE  IInv'
  BY <1>6, RedeemSteps, MarkCouponUsedStep
<1>7. ASSUME NEW h \in Handlers, Resend(h) \/ RedisError(h) \/ Crash(h)
      PROVE  IInv'
  BY <1>7, ResendStep, RedisErrorStep, CrashStep
<1>8. ASSUME NEW o \in Orders, NEW t \in Transfers, NEW right \in BOOLEAN, Pay(o, t, right)
      PROVE  IInv'
  BY <1>8, PayStep
<1>9. ASSUME NEW o \in Orders, GetOrderStatus(o)
      PROVE  IInv'
  BY <1>9, GetOrderStatusStep
<1>10. ASSUME NEW r \in Rooms, RoomGone(r)
       PROVE  IInv'
  BY <1>10, RoomGoneStep
<1>11. CASE Tick
  BY <1>11, TickStep
<1>12. CASE UNCHANGED vars
  <2>1. IInv' = IInv
    BY <1>12 DEF vars, redis, history, IInv, TypeOK, HandlersAreWhole, PaymentsAreOwn,
       NothingBefore, Untouched, StatusIsTruthful, HashesExpire, GrantsAreRecorded,
       CouponsAreNamed, RedemptionsAreRecorded, AnswersAreTrue, KeysAreKept, GrantsAreCounted,
       Counted, RightPayments, RightAmount, Granted, Without, At
  <2>2. QED
    BY <2>1
<1>13. QED
  BY <1>1, <1>2, <1>3, <1>4, <1>5, <1>6, <1>7, <1>8, <1>9, <1>10, <1>11, <1>12 DEF Next, Step

\* The counted payments are right payments of the order.
LEMMA CountedGivesGrantedPerTransfer == IInv => GrantedPerTransfer
<1> SUFFICES ASSUME IInv, Without({"twice", "unmarked", "crash"}), NEW o \in Orders
             PROVE  Granted(o) <= Cardinality(RightPayments(o)) + reboosted[o]
  BY DEF GrantedPerTransfer
<1>1. IsFiniteSet(RightPayments(o)) /\ Counted(o) \subseteq RightPayments(o)
  <2>1. IsFiniteSet(paid) /\ RightPayments(o) \subseteq paid
    BY DEF IInv, PaymentsAreOwn, RightPayments
  <2>2. QED
    BY <2>1, FS_Subset DEF Counted
<1>2. /\ Cardinality(Counted(o)) <= Cardinality(RightPayments(o))
      /\ Cardinality(Counted(o)) \in Nat /\ Cardinality(RightPayments(o)) \in Nat
  BY <1>1, FS_Subset, FS_CardinalityType
<1>3. /\ Granted(o) \in Nat /\ reboosted[o] \in Nat
      /\ Granted(o) <= Cardinality(Counted(o)) + reboosted[o]
  BY DEF IInv, TypeOK, GrantsAreCounted, Granted
<1>4. QED
  BY <1>2, <1>3

LEMMA InvariantImplies ==
  IInv => GrantedOnce /\ GrantedPerTransfer /\ StatusIsTruthful /\ AnsweredIsGranted
          /\ CouponBoostsOnce /\ CouponsCanBeShown /\ HashesExpire
<1> SUFFICES ASSUME IInv
             PROVE  /\ GrantedOnce /\ GrantedPerTransfer /\ StatusIsTruthful /\ AnsweredIsGranted
                    /\ CouponBoostsOnce /\ CouponsCanBeShown /\ HashesExpire
  OBVIOUS
<1>1. GrantedOnce
  BY DEF IInv, GrantsAreRecorded, GrantedOnce
<1>2. AnsweredIsGranted
  BY DEF IInv, AnswersAreTrue, AnsweredIsGranted
<1>3. CouponBoostsOnce
  BY DEF IInv, RedemptionsAreRecorded, CouponBoostsOnce
<1>4. CouponsCanBeShown
  BY DEF IInv, CouponsAreNamed, CouponsCanBeShown
<1>5. QED
  BY <1>1, <1>2, <1>3, <1>4, CountedGivesGrantedPerTransfer DEF IInv

\* The inductive invariant holds in every state of the payment handlers.
THEOREM PaymentsInvariance == Spec => []IInv
BY InitInvariant, NextInvariant, PTL DEF Spec

\* Every variable of the payment handlers has its type.
THEOREM PaymentsTypes == Spec => []TypeOK
<1>1. IInv => TypeOK
  BY DEF IInv
<1>2. QED
  BY <1>1, PaymentsInvariance, PTL

\* An order is granted one boost or one coupon, unless calls overlapped or a failure came
\* between the grant and its record (applyBoostOrIssueCoupon).
THEOREM OrdersAreGrantedOnce == Spec => []GrantedOnce
<1>1. IInv => GrantedOnce
  BY InvariantImplies
<1>2. QED
  BY <1>1, PaymentsInvariance, PTL

\* Failures to apply a boost or to write a status grant no transfer twice: the idempotency
\* key stands in for the status (SepayWebhook, PolarWebhook).
THEOREM TransfersAreGrantedOnce == Spec => []GrantedPerTransfer
<1>1. IInv => GrantedPerTransfer
  BY InvariantImplies
<1>2. QED
  BY <1>1, PaymentsInvariance, PTL

\* GetOrderStatus says only what has happened: a completed order has boosted its room, one
\* whose room expired has a coupon of its own.
THEOREM StatusIsAlwaysTruthful == Spec => []StatusIsTruthful
<1>1. IInv => StatusIsTruthful
  BY InvariantImplies
<1>2. QED
  BY <1>1, PaymentsInvariance, PTL

\* A webhook that was answered 200 has granted what was paid, unless the order had expired
\* or an error was dropped.
THEOREM AnsweredIsAlwaysGranted == Spec => []AnsweredIsGranted
<1>1. IInv => AnsweredIsGranted
  BY InvariantImplies
<1>2. QED
  BY <1>1, PaymentsInvariance, PTL

\* A coupon boosts one room, unless redemptions overlapped or one was not marked
\* (RedeemCoupon).
THEOREM CouponsBoostOnce == Spec => []CouponBoostsOnce
<1>1. IInv => CouponBoostsOnce
  BY InvariantImplies
<1>2. QED
  BY <1>1, PaymentsInvariance, PTL

\* The order names the coupon that was issued for it, for as long as it is kept
\* (SetOrderRoomExpired).
THEOREM CouponsCanAlwaysBeShown == Spec => []CouponsCanBeShown
<1>1. IInv => CouponsCanBeShown
  BY InvariantImplies
<1>2. QED
  BY <1>1, PaymentsInvariance, PTL

\* No order and no coupon is kept for ever, unless its status was written after it had
\* expired.
THEOREM HashesAlwaysExpire == Spec => []HashesExpire
<1>1. IInv => HashesExpire
  BY InvariantImplies
<1>2. QED
  BY <1>1, PaymentsInvariance, PTL
=============================================================================
