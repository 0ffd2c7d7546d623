------------------------------ MODULE Payments ------------------------------
(***************************************************************************)
(* Orders, payment webhooks and coupons: handler/payment.go,               *)
(* handler/coupon.go and the order and coupon keys of store/redis.         *)
(*                                                                         *)
(* A handler is a process that makes one Redis round trip per step.  The   *)
(* payment provider is external: it learns of a payment, calls the webhook *)
(* until a call is answered 200, and may call again although it was.  A    *)
(* room is only open or gone here; RoomStore has its keys.                 *)
(***************************************************************************)
EXTENDS Integers, FiniteSets

CONSTANTS
  Rooms,
  Orders,      \* ids NewOrderID hands out
  Coupons,     \* codes NewCouponCode hands out
  Transfers,   \* payments: SePay reference codes, Polar webhook ids
  Handlers,    \* handlers running at the same time
  NoRoom, NoOrder, NoCoupon,
  OrderTTL, CouponTTL, IdempotencyTTL,
  MaxTime,     \* bound on the clock
  Extra,       \* bound on webhook calls beyond the first unanswered one
  Redeems,     \* bound on redemptions begun
  Failures     \* bound on failed round trips, lost replies and crashes

ASSUME PaymentsAssumption ==
  /\ NoRoom \notin Rooms /\ NoOrder \notin Orders /\ NoCoupon \notin Coupons
  /\ {OrderTTL, CouponTTL, IdempotencyTTL} \subseteq Nat \ {0}
  /\ OrderTTL <= IdempotencyTTL
  /\ {MaxTime, Extra, Redeems, Failures} \subseteq Nat

VARIABLES
  now,
  open,       \* rooms that exist
  orders,     \* order:{id}:meta hashes
  coupons,    \* coupon:{code} hashes
  idem,       \* idempotency keys: when the key of a transfer expires, 0 if none
  handlers,   \* what every handler is doing
  unused,     \* order ids and coupon codes not handed out yet
  payable,    \* orders whose payer was told how to pay
  paid,       \* the transfers made: the order each names and whether its amount is right
  answered,   \* transfers whose webhook was answered 200
  shown,      \* coupons whose code a payer has seen
  boosted,    \* history: boosts applied for each order
  issued,     \* history: coupons created for each order
  redeemed,   \* history: boosts applied with each coupon
  reboosted,  \* history: those of boosted whose script was sent once more
  reredeemed, \* history: those of redeemed whose script was sent once more
  lapsed,     \* history: orders that expired while pending
  budget,     \* history: what is left of the bounds
  races       \* history: kinds of race and failure that have happened

redis == <<orders, coupons, idem>>
history == <<boosted, issued, redeemed, reboosted, reredeemed, lapsed>>
vars == <<now, open, redis, handlers, unused, payable, paid, answered, shown,
          history, budget, races>>

-----------------------------------------------------------------------------
(* Hashes.  status "none" says the hash does not exist; exp is when it     *)
(* expires, Never when a write made it without a deadline.                 *)

Never == 0
AbsentOrder  == [status |-> "none", room |-> NoRoom, coupon |-> NoCoupon, exp |-> Never]
AbsentCoupon == [status |-> "none", order |-> NoOrder, exp |-> Never]
Idle == [pc |-> "idle", transfer |-> {}, order |-> NoOrder, room |-> NoRoom, coupon |-> NoCoupon]

At(h, pc) == handlers[h].pc = pc
Go(h, pc) == handlers' = [handlers EXCEPT ![h].pc = pc]
Done(h)   == handlers' = [handlers EXCEPT ![h] = Idle]

\* The provider's call is answered 200.
Answer(h) == Done(h) /\ answered' = answered \cup handlers[h].transfer

Spend(kind) == budget[kind] > 0 /\ budget' = [budget EXCEPT ![kind] = @ - 1]

\* The calls that found the order pending and have not settled it yet.
Settling == {"apply", "complete", "issue", "expired"}
Redeeming == {"getroom", "redeem", "mark"}

-----------------------------------------------------------------------------
(* InitiatePayment.                                                        *)

InitiatePayment(h, o, r) ==
  /\ At(h, "idle")
  /\ o \in unused
  /\ r \in open
  /\ unused' = unused \ {o}
  /\ handlers' = [handlers EXCEPT ![h] = [Idle EXCEPT !.pc = "order", !.order = o, !.room = r]]
  /\ UNCHANGED <<now, open, redis, payable, paid, answered, shown, history, budget, races>>

\* Mutant: no EXPIRE in the pipeline.
NoDeadline == Never

OrderDeadline == now + OrderTTL

CreateOrder(h) ==
  /\ At(h, "order")
  /\ orders' = [orders EXCEPT ![handlers[h].order] =
                  [status |-> "pending", room |-> handlers[h].room, coupon |-> NoCoupon,
                   exp |-> OrderDeadline]]
  /\ Go(h, "checkout")
  /\ UNCHANGED <<now, open, coupons, idem, unused, payable, paid, answered, shown,
                 history, budget, races>>

\* SePay's bank details, or a Polar checkout, which may be refused: the order
\* stays although nobody can pay it.
Checkout(h) ==
  /\ At(h, "checkout")
  /\ payable' \in {payable, payable \cup {handlers[h].order}}
  /\ Done(h)
  /\ UNCHANGED <<now, open, redis, unused, paid, answered, shown, history, budget, races>>

-----------------------------------------------------------------------------
(* The payer and the provider.                                             *)

Pay(o, t, right) ==
  /\ o \in payable
  /\ ~\E p \in paid : p.transfer = t
  /\ paid' = paid \cup {[transfer |-> t, order |-> o, right |-> right]}
  /\ UNCHANGED <<now, open, redis, handlers, unused, payable, answered, shown,
                 history, budget, races>>

Received(h, p) ==
  /\ At(h, "idle")
  /\ p \in paid
  /\ handlers' = [handlers EXCEPT ![h] = [Idle EXCEPT !.pc = "check", !.transfer = {p.transfer},
                                                      !.order = p.order]]
  /\ UNCHANGED <<now, open, redis, unused, payable, paid, answered, shown, history, races>>

\* The call the provider owes: none is under way, none was answered.
CallWebhook(h, p) ==
  /\ Received(h, p)
  /\ p.transfer \notin answered
  /\ \A g \in Handlers : p.transfer \notin handlers[g].transfer
  /\ UNCHANGED budget

\* A call too many: an earlier one is still running or was answered.
CallAgain(h, p) ==
  /\ Received(h, p)
  /\ p.transfer \in answered \cup UNION {handlers[g].transfer : g \in Handlers}
  /\ Spend("extra")

-----------------------------------------------------------------------------
(* SepayWebhook and PolarWebhook.  They differ in what is external: how    *)
(* the call is authenticated and where the order id stands.  The amount    *)
(* of a Polar checkout is always right.                                    *)

\* Another call for the transfer has checked the key and not set it yet.
SameTransfer(h) ==
  IF \E g \in Handlers : /\ handlers[g].transfer \cap handlers[h].transfer # {}
                          /\ handlers[g].pc \in Settling \cup {"get", "idem"}
  THEN {"twice"} ELSE {}

\* Mutant: the key is set as soon as it has been checked.
CheckAndSetKey(h) ==
  /\ At(h, "check")
  /\ IF \E t \in handlers[h].transfer : idem[t] > now
     THEN Answer(h) /\ UNCHANGED <<races, idem>>
     ELSE /\ Go(h, "get")
          /\ races' = races \cup SameTransfer(h)
          /\ idem' = [t \in Transfers |-> IF t \in handlers[h].transfer
                                          THEN now + IdempotencyTTL ELSE idem[t]]
          /\ UNCHANGED answered
  /\ UNCHANGED <<now, open, orders, coupons, unused, payable, paid, shown, history, budget>>

CheckIdempotencyKey(h) ==
  /\ At(h, "check")
  /\ IF \E t \in handlers[h].transfer : idem[t] > now
     THEN Answer(h) /\ UNCHANGED races
     ELSE /\ Go(h, "get")
          /\ races' = races \cup SameTransfer(h)
          /\ UNCHANGED answered
  /\ UNCHANGED <<now, open, redis, unused, payable, paid, shown, history, budget>>

RightAmount(h) == \E p \in paid : p.transfer \in handlers[h].transfer /\ p.right

\* Mutants: the status, or the amount, is not looked at.
PayableAnyStatus(h) == orders[handlers[h].order].status # "none" /\ RightAmount(h)
PayableAnyAmount(h) == orders[handlers[h].order].status = "pending"

PayableNow(h) == orders[handlers[h].order].status = "pending" /\ RightAmount(h)

\* An order that is unknown, settled or paid with the wrong amount is answered
\* 200, so that the provider does not call again.
GetOrder(h) ==
  /\ At(h, "get")
  /\ LET o == handlers[h].order IN
       IF PayableNow(h)
       THEN /\ handlers' = [handlers EXCEPT ![h].pc = "apply", ![h].room = orders[o].room]
            /\ races' = races \cup
                 IF \E g \in Handlers : handlers[g].order = o /\ handlers[g].pc \in Settling
                 THEN {"overlap"} ELSE {}
            /\ UNCHANGED answered
       ELSE Answer(h) /\ UNCHANGED races
  /\ UNCHANGED <<now, open, redis, unused, payable, paid, shown, history, budget>>

\* applyBoostOrIssueCoupon: the script finds the room, or it does not.
ApplyBoost(h) ==
  /\ At(h, "apply")
  /\ LET o == handlers[h].order IN
       IF handlers[h].room \in open
       THEN boosted' = [boosted EXCEPT ![o] = @ + 1] /\ Go(h, "complete")
       ELSE Go(h, "issue") /\ UNCHANGED boosted
  /\ UNCHANGED <<now, open, redis, unused, payable, paid, answered, shown, issued, redeemed,
                 reboosted, reredeemed, lapsed, budget, races>>

\* HSET on an order hash that has expired makes one with this field alone and
\* no deadline.
Late(exists) == IF exists THEN {} ELSE {"late"}

\* Mutant: a status nobody knows.
SetOrderComplete(h) ==
  /\ At(h, "complete")
  /\ orders' = [orders EXCEPT ![handlers[h].order].status = "complete"]
  /\ Go(h, "idem")
  /\ UNCHANGED <<now, open, coupons, idem, unused, payable, paid, answered, shown,
                 history, budget, races>>

\* Publish, then SetOrderCompleted.
SetOrderCompleted(h) ==
  /\ At(h, "complete")
  /\ LET o == handlers[h].order IN
       /\ orders' = [orders EXCEPT ![o].status = "completed"]
       /\ races' = races \cup Late(orders[o].status # "none")
  /\ Go(h, "idem")
  /\ UNCHANGED <<now, open, coupons, idem, unused, payable, paid, answered, shown,
                 history, budget>>

CreateCoupon(h) ==
  /\ At(h, "issue")
  /\ LET o == handlers[h].order IN
     \E c \in unused \cap Coupons :
       /\ coupons' = [coupons EXCEPT ![c] = [status |-> "unused", order |-> o,
                                             exp |-> now + CouponTTL]]
       /\ unused' = unused \ {c}
       /\ issued' = [issued EXCEPT ![o] = @ + 1]
       /\ handlers' = [handlers EXCEPT ![h].pc = "expired", ![h].coupon = c]
  /\ UNCHANGED <<now, open, orders, idem, payable, paid, answered, shown, boosted, redeemed,
                 reboosted, reredeemed, lapsed, budget, races>>

\* Mutant: the coupon's code is not recorded.
ExpiredWithoutCode(h) ==
  /\ At(h, "expired")
  /\ LET o == handlers[h].order IN
       /\ orders' = [orders EXCEPT ![o].status = "room_expired"]
       /\ races' = races \cup Late(orders[o].status # "none")
  /\ Go(h, "idem")
  /\ UNCHANGED <<now, open, coupons, idem, unused, payable, paid, answered, shown,
                 history, budget>>

SetOrderRoomExpired(h) ==
  /\ At(h, "expired")
  /\ LET o == handlers[h].order IN
       /\ orders' = [orders EXCEPT ![o].status = "room_expired", ![o].coupon = handlers[h].coupon]
       /\ races' = races \cup Late(orders[o].status # "none")
  /\ Go(h, "idem")
  /\ UNCHANGED <<now, open, coupons, idem, unused, payable, paid, answered, shown,
                 history, budget>>

\* Mutant: the key is not set.
ForgetsTransfer(h) == idem' = idem

RemembersTransfer(h) ==
  idem' = [t \in Transfers |-> IF t \in handlers[h].transfer THEN now + IdempotencyTTL ELSE idem[t]]

SetIdempotencyKey(h) ==
  /\ At(h, "idem")
  /\ RemembersTransfer(h)
  /\ Answer(h)
  /\ UNCHANGED <<now, open, orders, coupons, unused, payable, paid, shown, history, budget, races>>

-----------------------------------------------------------------------------
(* GetOrderStatus and RedeemCoupon.                                        *)

\* The payer's page asks for the order: a coupon is shown when the order has
\* one and the coupon still exists.
GetOrderStatus(o) ==
  /\ orders[o].status = "room_expired"
  /\ orders[o].coupon \in Coupons \ shown
  /\ coupons[orders[o].coupon].status # "none"
  /\ shown' = shown \cup {orders[o].coupon}
  /\ UNCHANGED <<now, open, redis, handlers, unused, payable, paid, answered, history,
                 budget, races>>

\* Mutant: a used coupon is let through.
RedeemableEver(c) == coupons[c].status # "none"

Redeemable(c) == coupons[c].status = "unused"

GetCoupon(h, c, r) ==
  /\ At(h, "idle")
  /\ c \in shown
  /\ Redeemable(c)
  /\ Spend("redeem")
  /\ handlers' = [handlers EXCEPT ![h] = [Idle EXCEPT !.pc = "getroom", !.coupon = c, !.room = r]]
  /\ races' = races \cup
       IF \E g \in Handlers : handlers[g].coupon = c /\ handlers[g].pc \in Redeeming
       THEN {"redeem"} ELSE {}
  /\ UNCHANGED <<now, open, redis, unused, payable, paid, answered, shown, history>>

GetRoom(h) ==
  /\ At(h, "getroom")
  /\ IF handlers[h].room \in open THEN Go(h, "redeem") ELSE Done(h)
  /\ UNCHANGED <<now, open, redis, unused, payable, paid, answered, shown, history, budget, races>>

RedeemCoupon(h) ==
  /\ At(h, "redeem")
  /\ IF handlers[h].room \in open
     THEN /\ redeemed' = [redeemed EXCEPT ![handlers[h].coupon] = @ + 1]
          /\ Go(h, "mark")
     ELSE Done(h) /\ UNCHANGED redeemed
  /\ UNCHANGED <<now, open, redis, unused, payable, paid, answered, shown, boosted, issued,
                 reboosted, reredeemed, lapsed, budget, races>>

\* HSET again: a coupon that expired meanwhile comes back without a deadline.
MarkCouponUsed(h) ==
  /\ At(h, "mark")
  /\ LET c == handlers[h].coupon IN
       /\ coupons' = [coupons EXCEPT ![c].status = "used"]
       /\ races' = races \cup Late(coupons[c].status # "none")
  /\ Done(h)
  /\ UNCHANGED <<now, open, orders, idem, unused, payable, paid, answered, shown, history, budget>>

-----------------------------------------------------------------------------
(* Time and failures.                                                      *)

Expires(x) == x.exp # Never /\ x.exp <= now + 1

Tick ==
  /\ now < MaxTime
  /\ now' = now + 1
  /\ orders' = [o \in Orders |-> IF Expires(orders[o]) THEN AbsentOrder ELSE orders[o]]
  /\ coupons' = [c \in Coupons |-> IF Expires(coupons[c]) THEN AbsentCoupon ELSE coupons[c]]
  /\ lapsed' = lapsed \cup {o \in Orders : Expires(orders[o]) /\ orders[o].status = "pending"}
  /\ UNCHANGED <<open, idem, handlers, unused, payable, paid, answered, shown,
                 boosted, issued, redeemed, reboosted, reredeemed, budget, races>>

\* A room expires or everybody leaves it.
RoomGone(r) ==
  /\ r \in open
  /\ open' = open \ {r}
  /\ UNCHANGED <<now, redis, handlers, unused, payable, paid, answered, shown,
                 history, budget, races>>

\* The reply to the boost's script is lost after it has run, and the client, with
\* MaxRetries left at its default, sends the script once more: the handler stands where
\* it stood.  Every other write sent again writes the same values.
Resend(h) ==
  /\ handlers[h].room \in open
  /\ Spend("failure")
  /\ \/ /\ At(h, "apply")
        /\ boosted' = [boosted EXCEPT ![handlers[h].order] = @ + 1]
        /\ reboosted' = [reboosted EXCEPT ![handlers[h].order] = @ + 1]
        /\ UNCHANGED <<redeemed, reredeemed>>
     \/ /\ At(h, "redeem")
        /\ redeemed' = [redeemed EXCEPT ![handlers[h].coupon] = @ + 1]
        /\ reredeemed' = [reredeemed EXCEPT ![handlers[h].coupon] = @ + 1]
        /\ UNCHANGED <<boosted, reboosted>>
  /\ UNCHANGED <<now, open, redis, handlers, unused, payable, paid, answered, shown, issued,
                 lapsed, races>>

\* Where a webhook goes on when a round trip returns an error: only the
\* boost's own "room not found" is told apart, the others are dropped.
AfterError == [check |-> "get", apply |-> "idem", complete |-> "idem", issue |-> "idem",
               expired |-> "idem"]

\* The round trip before which the handler stands fails, for the last time that the
\* client tries it.  A boost may fail after its script has run, when it is the reply
\* that is lost; the redemption then answers 500 and leaves the coupon unused.
RedisError(h) ==
  /\ Spend("failure")
  /\ races' = races \cup {"error"} \cup IF handlers[h].pc \in {"check", "idem"}
                                       THEN {"unmarked"} ELSE {}
  /\ \/ /\ handlers[h].pc \in DOMAIN AfterError
        /\ Go(h, AfterError[handlers[h].pc])
        /\ boosted' \in {boosted} \cup
             IF At(h, "apply") /\ handlers[h].room \in open
             THEN {[boosted EXCEPT ![handlers[h].order] = @ + 1]} ELSE {}
        /\ UNCHANGED <<answered, redeemed>>
     \/ handlers[h].pc \in {"get", "idem"} /\ Answer(h) /\ UNCHANGED <<boosted, redeemed>>
     \/ /\ handlers[h].pc \in Redeeming
        /\ Done(h)
        /\ redeemed' \in {redeemed} \cup
             IF At(h, "redeem") /\ handlers[h].room \in open
             THEN {[redeemed EXCEPT ![handlers[h].coupon] = @ + 1]} ELSE {}
        /\ UNCHANGED <<answered, boosted>>
  /\ UNCHANGED <<now, open, redis, unused, payable, paid, shown, issued, reboosted, reredeemed,
                 lapsed>>

\* The process dies: the provider gets no answer.
Crash(h) ==
  /\ ~At(h, "idle")
  /\ Spend("failure")
  /\ Done(h)
  /\ races' = races \cup {"crash"}
  /\ UNCHANGED <<now, open, redis, unused, payable, paid, answered, shown, history>>

-----------------------------------------------------------------------------
Init ==
  /\ now = 0
  /\ open = Rooms
  /\ orders = [o \in Orders |-> AbsentOrder]
  /\ coupons = [c \in Coupons |-> AbsentCoupon]
  /\ idem = [t \in Transfers |-> 0]
  /\ handlers = [h \in Handlers |-> Idle]
  /\ unused = Orders \cup Coupons
  /\ payable = {} /\ paid = {} /\ answered = {} /\ shown = {}
  /\ boosted = [o \in Orders |-> 0]
  /\ issued = [o \in Orders |-> 0]
  /\ redeemed = [c \in Coupons |-> 0]
  /\ reboosted = [o \in Orders |-> 0]
  /\ reredeemed = [c \in Coupons |-> 0]
  /\ lapsed = {}
  /\ budget = [extra |-> Extra, redeem |-> Redeems, failure |-> Failures]
  /\ races = {}

\* A webhook call that has been received goes on.
Webhook(h) ==
  \/ CheckIdempotencyKey(h) \/ GetOrder(h) \/ ApplyBoost(h) \/ SetOrderCompleted(h)
  \/ CreateCoupon(h) \/ SetOrderRoomExpired(h) \/ SetIdempotencyKey(h)

Step(h) ==
  \/ \E o \in Orders, r \in Rooms : InitiatePayment(h, o, r)
  \/ CreateOrder(h) \/ Checkout(h)
  \/ \E p \in paid : CallWebhook(h, p) \/ CallAgain(h, p)
  \/ Webhook(h)
  \/ \E c \in Coupons, r \in Rooms : GetCoupon(h, c, r)
  \/ GetRoom(h) \/ RedeemCoupon(h) \/ MarkCouponUsed(h)
  \/ Resend(h) \/ RedisError(h) \/ Crash(h)

Next ==
  \/ \E h \in Handlers : Step(h)
  \/ \E o \in Orders, t \in Transfers, right \in BOOLEAN : Pay(o, t, right)
  \/ \E o \in Orders : GetOrderStatus(o)
  \/ \E r \in Rooms : RoomGone(r)
  \/ Tick

\* The scheduler runs every handler, and the provider calls until it is
\* answered.
Fairness ==
  /\ \A h \in Handlers : WF_vars(Webhook(h) \/ CreateOrder(h) \/ Checkout(h)
                                 \/ GetRoom(h) \/ RedeemCoupon(h) \/ MarkCouponUsed(h))
  /\ \A t \in Transfers :
       WF_vars(\E h \in Handlers, p \in paid : p.transfer = t /\ CallWebhook(h, p))

Spec == Init /\ [][Next]_vars /\ Fairness

-----------------------------------------------------------------------------
(* Properties.                                                             *)

Without(kinds) == races \cap kinds = {}
Granted(o) == boosted[o] + issued[o]
RightPayments(o) == {p \in paid : p.order = o /\ p.right}

TypeOK ==
  /\ now \in 0..MaxTime
  /\ open \subseteq Rooms
  /\ orders \in [Orders -> [status : {"none", "pending", "completed", "room_expired"},
                            room : Rooms \cup {NoRoom}, coupon : Coupons \cup {NoCoupon},
                            exp : Nat]]
  /\ coupons \in [Coupons -> [status : {"none", "unused", "used"},
                              order : Orders \cup {NoOrder}, exp : Nat]]
  /\ idem \in [Transfers -> Nat]
  /\ handlers \in [Handlers -> [pc : {"idle", "order", "checkout", "check", "get", "idem"}
                                     \cup Settling \cup Redeeming,
                                transfer : SUBSET Transfers, order : Orders \cup {NoOrder},
                                room : Rooms \cup {NoRoom}, coupon : Coupons \cup {NoCoupon}]]
  /\ unused \subseteq Orders \cup Coupons
  /\ payable \subseteq Orders
  /\ paid \subseteq [transfer : Transfers, order : Orders, right : BOOLEAN]
  /\ answered \subseteq Transfers
  /\ shown \subseteq Coupons
  /\ boosted \in [Orders -> Nat] /\ issued \in [Orders -> Nat]
  /\ redeemed \in [Coupons -> Nat]
  /\ reboosted \in [Orders -> Nat] /\ reredeemed \in [Coupons -> Nat]
  /\ lapsed \subseteq Orders
  /\ budget \in [extra : Nat, redeem : Nat, failure : Nat]
  /\ races \subseteq {"overlap", "twice", "redeem", "late", "error", "unmarked", "crash"}

\* An order is granted one boost or one coupon, and beyond it only what a script that
\* the client sent again has boosted, however often it is paid and its webhook called,
\* unless two calls overlapped, or a round trip or the process failed between the grant
\* and the record of it.
GrantedOnce ==
  Without({"overlap", "error", "crash"}) => \A o \in Orders : Granted(o) <= 1 + reboosted[o]

\* Even when applying the boost or writing the order's new status fails, or calls
\* for several transfers overlap, no transfer is granted twice: its idempotency key
\* stands in for the status, unless the key itself failed or two calls for the transfer
\* were between checking and setting it.  The key does not guard one call's script
\* from being sent again: that boosts once more.
GrantedPerTransfer ==
  Without({"twice", "unmarked", "crash"}) =>
    \A o \in Orders : Granted(o) <= Cardinality(RightPayments(o)) + reboosted[o]

\* What the payer's page is told is true: a completed order has boosted its
\* room, an order whose room expired has a coupon that was made for it.
StatusIsTruthful ==
  \A o \in Orders :
    /\ orders[o].status = "completed" => boosted[o] > 0
    /\ orders[o].status = "room_expired" =>
         /\ issued[o] > 0
         /\ orders[o].coupon # NoCoupon
         /\ coupons[orders[o].coupon].order \in {o, NoOrder}

\* A transfer of the right amount whose webhook is answered 200 has been
\* granted, unless its order had expired or an error was dropped on the way:
\* after the answer the provider does not call again.
AnsweredIsGranted ==
  Without({"error"}) =>
    \A p \in paid : p.right /\ p.transfer \in answered /\ p.order \notin lapsed
                      => Granted(p.order) > 0

\* A coupon boosts one room, once and as often again as its script was sent again,
\* unless two redemptions overlapped, the process died before the coupon was marked, or
\* the boost or the mark failed.
CouponBoostsOnce ==
  Without({"redeem", "error", "crash"}) => \A c \in Coupons : redeemed[c] <= 1 + reredeemed[c]

\* The code of every coupon can be learned from the order it was issued for,
\* for as long as the order is kept, once its webhook is answered.
CouponsCanBeShown ==
  Without({"overlap", "error", "crash"}) =>
    \A c \in Coupons :
      coupons[c].status # "none" /\ coupons[c].order # NoOrder
      /\ (\A h \in Handlers : handlers[h].coupon # c)
      => orders[coupons[c].order].coupon = c \/ orders[coupons[c].order].status = "none"

\* Every order and coupon expires, unless its status was written after it had.
HashesExpire ==
  Without({"late"}) =>
    /\ \A o \in Orders : orders[o].status # "none" => orders[o].exp > now
    /\ \A c \in Coupons : coupons[c].status # "none" => coupons[c].exp > now

\* Every transfer of the right amount is granted in the end, unless its order
\* expires before the webhook gets to it or an error is dropped on the way.
PaymentsAreGranted ==
  \A t \in Transfers, o \in Orders :
    [transfer |-> t, order |-> o, right |-> TRUE] \in paid
      ~> Granted(o) > 0 \/ o \in lapsed \/ "error" \in races
=============================================================================
