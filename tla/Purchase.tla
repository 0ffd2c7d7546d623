------------------------------ MODULE Purchase ------------------------------
(***************************************************************************)
(* Buying a boost from a room's chat page, and the coupons the browser     *)
(* keeps: the purchase sheet that polls an order                           *)
(* (components/shared/PurchaseConfirmSheet.tsx), the list it opens from    *)
(* (components/chat/BoostSheet.tsx), the return from Polar's checkout      *)
(* (pages/ChatPage.tsx), and the wallet in localStorage (lib/payment.ts).  *)
(* A coupon is named by the order it was issued for.                       *)
(*                                                                         *)
(* What stands between two awaits is one step; requests are answered, and  *)
(* their answers handled, in any order.  A callback of a page that is gone *)
(* still runs: it moves nothing on the screen, but writes the wallet and   *)
(* navigates.                                                              *)
(***************************************************************************)
EXTENDS Integers, FiniteSets

CONSTANTS
  Rooms,     \* rooms this browser's user is a member of
  Orders,    \* orders that can be made
  Calls,     \* bound on the requests and timers that wait at the same time
  Visits, Failures, Ends, Expiries   \* bounds: pages opened, failed requests,
                                     \* rooms that end, coupons that expire

ASSUME PurchaseAssumption ==
  /\ {Visits, Failures, Ends, Expiries} \subseteq Nat
  /\ Rooms \cap {"home", "checkout"} = {}
  /\ "none" \notin Orders

VARIABLES
  up,      \* the rooms that exist on the server
  status,  \* the status of each order on the server, "none" before it is made
  home,    \* the room each order is for
  coupon,  \* the coupon of each order on the server, "none" before it is issued
  wallet,  \* the coupons in localStorage
  page,    \* what is shown: a room's chat page, "home", or Polar's "checkout"
  url,     \* the orderId in the query string, or that the checkout is for
  loaded,  \* whether the chat page has loaded its room
  sheet,   \* the purchase sheet
  listed,  \* the coupons BoostSheet lists
  redeeming, \* the coupon being applied
  calls,   \* requests and timers that wait
  told,    \* history: coupons whose code this browser was told and took in
  budget,  \* history: what is left of the bounds
  races    \* history: kinds of race and failure that have happened

server == <<up, status, home, coupon>>
screen == <<page, url, loaded, sheet, listed, redeeming>>
vars == <<server, wallet, screen, calls, told, budget, races>>

None == "none"
Pages == Rooms \cup {"home", "checkout"}
Statuses == {"pending", "completed", "room_expired"}

\* A call: an initiated payment ("sepay" or "polar"), a "poll" of the sheet or of
\* the page ("return"), a "redeem", or the "redirect" timer of a settled order.
Idle == [kind |-> "idle", order |-> None, room |-> None, answer |-> None, old |-> FALSE]
Ask(kind, o) == [Idle EXCEPT !.kind = kind, !.order = o, !.room = page]

Free(c) == calls[c].kind = "idle"
Ready(c, kind) == calls[c].kind = kind /\ calls[c].answer # None
Waits(kind) == \E c \in Calls : calls[c].kind = kind /\ ~calls[c].old
Done(c) == calls' = [calls EXCEPT ![c] = Idle]
Spend(kind) == budget[kind] > 0 /\ budget' = [budget EXCEPT ![kind] = @ - 1]

-----------------------------------------------------------------------------
(* lib/payment.ts: the wallet.                                             *)

Expired == {k \in Orders : coupon[k] = "expired"}
getUnusedCoupons == wallet \ Expired

\* Mutant: the coupons that were there are overwritten.
SaveOnly(k) == wallet' = {k}

saveCoupon(k) == wallet' = getUnusedCoupons \cup {k}

\* Mutant: the coupon stays although it has been applied.
KeepCoupon(k) == UNCHANGED wallet

removeCoupon(k) == wallet' = wallet \ {k}

-----------------------------------------------------------------------------
(* The chat page and its address.                                          *)

NoSheet == [open |-> FALSE, order |-> None, loading |-> FALSE, done |-> FALSE, timer |-> "off"]

\* A page that is left: its timers are cleared or do nothing, its requests go on.
LeftBehind ==
  [c \in Calls |-> IF calls[c].kind \in {"idle", "redirect"} THEN Idle
                   ELSE [calls[c] EXCEPT !.old = TRUE]]

Show(p, o) ==
  /\ page' = p
  /\ url' = o
  /\ loaded' = FALSE
  /\ sheet' = NoSheet
  /\ listed' = {}
  /\ redeeming' = None

OpenPage(r) ==
  /\ page = "home"
  /\ Spend("visit")
  /\ Show(r, None)
  /\ UNCHANGED <<server, wallet, calls, told, races>>

\* The room is loaded: BoostSheet is mounted and reads the wallet.  A room that is
\* gone sends the page home.
PageLoaded ==
  /\ page \in Rooms
  /\ ~loaded
  /\ IF page \in up
     THEN /\ loaded' = TRUE
          /\ listed' = getUnusedCoupons
          /\ UNCHANGED <<page, url, sheet, redeeming, calls>>
     ELSE Show("home", None) /\ calls' = LeftBehind
  /\ UNCHANGED <<server, wallet, told, budget, races>>

\* The user goes back, or handleExpiry does.
ClosePage ==
  /\ page \in Rooms
  /\ Show("home", None)
  /\ calls' = LeftBehind
  /\ UNCHANGED <<server, wallet, told, budget, races>>

\* The checkout ends at /chat/{roomId}?orderId=, in a new document; a record of a
\* room that is gone may have been removed by then.
ReturnFromPolar ==
  /\ page = "checkout"
  /\ \/ Show(home[url], url)
     \/ home[url] \notin up /\ Show("home", None)
  /\ UNCHANGED <<server, wallet, calls, told, budget, races>>

\* The checkout is left without paying.
CancelCheckout ==
  /\ page = "checkout"
  /\ Show("home", None)
  /\ UNCHANGED <<server, wallet, calls, told, budget, races>>

-----------------------------------------------------------------------------
(* PurchaseConfirmSheet.                                                   *)

\* The two faces of the sheet: what to pay with, or the QR code of an order with
\* "Waiting for payment" or "Payment confirmed!" under it.
ShowsChoice == sheet.open /\ sheet.order = None
ShowsQR(o) == sheet.open /\ sheet.order = o
Confirmed(o) == ShowsQR(o) /\ sheet.done

\* An option is chosen in BoostSheet: opening resets the sheet.  Whatever polls and
\* redirects are under way stay so.
OpenSheet ==
  /\ loaded
  /\ ~sheet.open
  /\ sheet' = [NoSheet EXCEPT !.open = TRUE]
  /\ UNCHANGED <<server, wallet, page, url, loaded, listed, redeeming, calls, told, budget, races>>

\* Mutant: the effect does not look for a QR code.
RestartedAlways(s) == [s EXCEPT !.timer = "armed"]

\* The polling effect depends on onRedirect, which is another function after every
\* render of the parent: the interval begins anew, also in a closed sheet and for an
\* order that is settled.
Restarted(s) == [s EXCEPT !.timer = IF s.order = None THEN "off" ELSE "armed"]

CloseSheet ==
  /\ sheet.open
  /\ sheet' = Restarted([sheet EXCEPT !.open = FALSE])
  /\ UNCHANGED <<server, wallet, page, url, loaded, listed, redeeming, calls, told, budget, races>>

\* The chat page renders: a message, or a second of the countdown.
Rerender ==
  /\ loaded
  /\ sheet.order # None
  /\ sheet' = Restarted(sheet)
  /\ UNCHANGED <<server, wallet, page, url, loaded, listed, redeeming, calls, told, budget, races>>

\* handleConfirm up to initiatePayment.
HandleConfirm(c) ==
  /\ ShowsChoice
  /\ ~sheet.loading
  /\ Free(c)
  /\ \E provider \in {"sepay", "polar"} : calls' = [calls EXCEPT ![c] = Ask(provider, None)]
  /\ sheet' = [sheet EXCEPT !.loading = TRUE]
  /\ UNCHANGED <<server, wallet, page, url, loaded, listed, redeeming, told, budget, races>>

\* Its rest, for SePay: the QR code is shown, and polling begins, whether the sheet
\* is still open or not.
SepayInitiated(c) ==
  /\ Ready(c, "sepay")
  /\ Done(c)
  /\ IF calls[c].old THEN UNCHANGED <<sheet, races>>
     ELSE IF calls[c].answer # "ok"
     THEN sheet' = [sheet EXCEPT !.loading = FALSE] /\ UNCHANGED races
     ELSE /\ sheet' = [sheet EXCEPT !.order = calls[c].order, !.loading = FALSE, !.timer = "armed"]
          /\ races' = races \cup IF sheet.done \/ Waits("poll") \/ Waits("redirect")
                                 THEN {"overlap"} ELSE {}
  /\ UNCHANGED <<server, wallet, page, url, loaded, listed, redeeming, told, budget>>

\* Its rest, for Polar: the document is replaced, even when the page is another.
PolarInitiated(c) ==
  /\ Ready(c, "polar")
  /\ page # "checkout"
  /\ IF calls[c].answer = "ok"
     THEN /\ Show("checkout", calls[c].order)
          /\ calls' = [d \in Calls |-> Idle]
          /\ races' = races \cup IF \E d \in Calls : calls[d].kind = "redeem" THEN {"lost"} ELSE {}
     ELSE /\ Done(c)
          /\ sheet' = IF calls[c].old THEN sheet ELSE [sheet EXCEPT !.loading = FALSE]
          /\ UNCHANGED <<page, url, loaded, listed, redeeming, races>>
  /\ UNCHANGED <<server, wallet, told, budget>>

\* The three seconds pass; a render may come between.
Elapse ==
  /\ sheet.timer \in {"armed", "near"}
  /\ sheet' = [sheet EXCEPT !.timer = IF @ = "armed" THEN "near" ELSE "due"]
  /\ UNCHANGED <<server, wallet, page, url, loaded, listed, redeeming, calls, told, budget, races>>

\* Mutant: a poll is made once, not every three seconds.
Once == "off"

Interval == "armed"

Poll(c) ==
  /\ sheet.timer = "due"
  /\ Free(c)
  /\ calls' = [calls EXCEPT ![c] = Ask("poll", sheet.order)]
  /\ sheet' = [sheet EXCEPT !.timer = Interval]
  /\ UNCHANGED <<server, wallet, page, url, loaded, listed, redeeming, told, budget, races>>

\* Mutant: an answer that is not "pending" ends the wait, an error too.
NotPending(answer) == answer # "pending"

Settled(answer) == answer \in {"completed", "room_expired"}

\* A coupon is taken from the answer, whether it was taken before or not.
TakeCoupon(c) ==
  IF calls[c].answer = "room_expired"
  THEN /\ saveCoupon(calls[c].order)
       /\ told' = told \cup {calls[c].order}
       /\ races' = races \cup IF calls[c].order \in told THEN {"late"} ELSE {}
  ELSE UNCHANGED <<wallet, told, races>>

\* The poll's answer stops whatever interval the sheet has and calls whatever it
\* shows confirmed; onRedirect follows after 800 ms.
PollAnswered(c) ==
  /\ Ready(c, "poll")
  /\ TakeCoupon(c)
  /\ IF Settled(calls[c].answer) /\ ~calls[c].old
     THEN /\ calls' = [calls EXCEPT ![c] = [Ask("redirect", calls[c].order) EXCEPT !.answer = "ok"]]
          /\ sheet' = [sheet EXCEPT !.done = TRUE, !.timer = "off"]
     ELSE Done(c) /\ UNCHANGED sheet
  /\ UNCHANGED <<server, page, url, loaded, listed, redeeming, budget>>

Redirect(c) ==
  /\ Ready(c, "redirect")
  /\ Done(c)
  /\ sheet' = IF sheet.open THEN Restarted([sheet EXCEPT !.open = FALSE]) ELSE sheet
  /\ UNCHANGED <<server, wallet, page, url, loaded, listed, redeeming, told, budget, races>>

-----------------------------------------------------------------------------
(* ChatPage: the order in the query string.                                *)

PollReturn(c) ==
  /\ page \in Rooms
  /\ url # None
  /\ Free(c)
  /\ calls' = [calls EXCEPT ![c] = Ask("return", url)]
  /\ UNCHANGED <<server, wallet, screen, told, budget, races>>

\* setSearchParams drops the orderId; of a page that was left it navigates back to it.
ReturnAnswered(c) ==
  /\ Ready(c, "return")
  /\ page # "checkout"
  /\ TakeCoupon(c)
  /\ IF ~Settled(calls[c].answer) \/ (calls[c].old /\ page = calls[c].room)
     THEN Done(c) /\ UNCHANGED screen
     ELSE IF calls[c].old
     THEN Show(calls[c].room, None) /\ calls' = [LeftBehind EXCEPT ![c] = Idle]
     ELSE Done(c) /\ url' = None /\ UNCHANGED <<page, loaded, sheet, listed, redeeming>>
  /\ UNCHANGED <<server, budget>>

-----------------------------------------------------------------------------
(* BoostSheet: the coupons.                                                *)

CanApply(k) == loaded /\ k \in listed /\ redeeming = None

\* handleApplyCoupon up to redeemCoupon.
HandleApplyCoupon(c, k) ==
  /\ CanApply(k)
  /\ Free(c)
  /\ redeeming' = k
  /\ calls' = [calls EXCEPT ![c] = Ask("redeem", k)]
  /\ UNCHANGED <<server, wallet, page, url, loaded, sheet, listed, told, budget, races>>

\* Its rest: redeemingCode is reset only after an error.
Redeemed(c) ==
  /\ Ready(c, "redeem")
  /\ Done(c)
  /\ IF calls[c].answer = "ok"
     THEN /\ removeCoupon(calls[c].order)
          /\ listed' = IF calls[c].old THEN listed ELSE listed \ {calls[c].order}
          /\ UNCHANGED redeeming
     ELSE /\ redeeming' = IF calls[c].old THEN redeeming ELSE None
          /\ UNCHANGED <<wallet, listed>>
  /\ UNCHANGED <<server, page, url, loaded, sheet, told, budget, races>>

-----------------------------------------------------------------------------
(* The server, the payer and the network.                                  *)

\* InitiatePayment: an order of a room that exists.
AnswerInitiate(c) ==
  /\ calls[c].kind \in {"sepay", "polar"} /\ calls[c].answer = None
  /\ \/ /\ calls[c].room \in up
        /\ LET new == {o \in Orders : status[o] = None} IN
             /\ new # {}
             /\ \E o \in new :
                  /\ status' = [status EXCEPT ![o] = "pending"]
                  /\ home' = [home EXCEPT ![o] = calls[c].room]
                  /\ calls' = [calls EXCEPT ![c].answer = "ok", ![c].order = o]
     \/ /\ calls[c].room \notin up \/ \A o \in Orders : status[o] # None
        /\ calls' = [calls EXCEPT ![c].answer = "refused"]
        /\ UNCHANGED <<status, home>>
  /\ UNCHANGED <<up, coupon, wallet, screen, told, budget, races>>

\* GetOrderStatus.
AnswerStatus(c) ==
  /\ calls[c].kind \in {"poll", "return"} /\ calls[c].answer = None
  /\ calls' = [calls EXCEPT ![c].answer = status[calls[c].order]]
  /\ UNCHANGED <<server, wallet, screen, told, budget, races>>

\* RedeemCoupon; "used" is a coupon whose boost was given (that the mark may fail after it
\* is the subject of Payments).
Redeemable(c) == coupon[calls[c].order] = "unused" /\ calls[c].room \in up
AnswerRedeem(c) ==
  /\ calls[c].kind = "redeem" /\ calls[c].answer = None
  /\ calls' = [calls EXCEPT ![c].answer = IF Redeemable(c) THEN "ok" ELSE "refused"]
  /\ coupon' = IF Redeemable(c) THEN [coupon EXCEPT ![calls[c].order] = "used"] ELSE coupon
  /\ UNCHANGED <<up, status, home, wallet, screen, told, budget, races>>

\* A request fails before it arrives, or, for a redemption, its answer is lost.
Fail(c) ==
  /\ ~Free(c) /\ calls[c].answer = None
  /\ Spend("failure")
  /\ calls' = [calls EXCEPT ![c].answer = "error"]
  /\ \/ UNCHANGED <<coupon, races>>
     \/ /\ calls[c].kind = "redeem" /\ Redeemable(c)
        /\ coupon' = [coupon EXCEPT ![calls[c].order] = "used"]
        /\ races' = races \cup {"lost"}
  /\ UNCHANGED <<up, status, home, wallet, screen, told>>

\* The provider's webhook: applyBoostOrIssueCoupon.
Pay(o) ==
  /\ status[o] = "pending"
  /\ IF home[o] \in up
     THEN status' = [status EXCEPT ![o] = "completed"] /\ UNCHANGED coupon
     ELSE /\ status' = [status EXCEPT ![o] = "room_expired"]
          /\ coupon' = [coupon EXCEPT ![o] = "unused"]
  /\ UNCHANGED <<up, home, wallet, screen, calls, told, budget, races>>

RoomEnds(r) ==
  /\ r \in up
  /\ Spend("end")
  /\ up' = up \ {r}
  /\ UNCHANGED <<status, home, coupon, wallet, screen, calls, told, races>>

CouponExpires(k) ==
  /\ coupon[k] = "unused"
  /\ Spend("expiry")
  /\ coupon' = [coupon EXCEPT ![k] = "expired"]
  /\ UNCHANGED <<up, status, home, wallet, screen, calls, told, races>>

Init ==
  /\ up = Rooms
  /\ status = [o \in Orders |-> None]
  /\ home = [o \in Orders |-> None]
  /\ coupon = [o \in Orders |-> None]
  /\ wallet = {} /\ told = {}
  /\ page = "home" /\ url = None /\ loaded = FALSE
  /\ sheet = NoSheet /\ listed = {} /\ redeeming = None
  /\ calls = [c \in Calls |-> Idle]
  /\ budget = [visit |-> Visits, failure |-> Failures, end |-> Ends, expiry |-> Expiries]
  /\ races = {}

Answer(c) == AnswerInitiate(c) \/ AnswerStatus(c) \/ AnswerRedeem(c)
Handle(c) ==
  \/ SepayInitiated(c) \/ PolarInitiated(c) \/ PollAnswered(c) \/ Redirect(c)
  \/ ReturnAnswered(c) \/ Redeemed(c)

Next ==
  \/ PageLoaded \/ ClosePage \/ ReturnFromPolar \/ CancelCheckout
  \/ OpenSheet \/ CloseSheet \/ Rerender \/ Elapse
  \/ \E r \in Rooms : OpenPage(r) \/ RoomEnds(r)
  \/ \E o \in Orders : Pay(o) \/ CouponExpires(o)
  \/ \E c \in Calls :
       \/ HandleConfirm(c) \/ Poll(c) \/ PollReturn(c)
       \/ \E k \in Orders : HandleApplyCoupon(c, k)
       \/ Answer(c) \/ Handle(c) \/ Fail(c)

\* Time passes; what an elapsed interval calls is called, also when the bound on Calls
\* lets other calls go first (hence SF); calls are answered and handled.
Fairness ==
  /\ WF_vars(Elapse)
  /\ SF_vars(\E c \in Calls : Poll(c))
  /\ SF_vars(\E c \in Calls : PollReturn(c))
  /\ \A c \in Calls : WF_vars(Answer(c)) /\ WF_vars(Handle(c))

Spec == Init /\ [][Next]_vars /\ Fairness

-----------------------------------------------------------------------------
(* Properties.                                                             *)

Without(kinds) == races \cap kinds = {}

Polls == {"poll", "return"}
Kinds == {"idle", "sepay", "polar", "redeem", "redirect"} \cup Polls
Requests == [kind : Kinds, order : {None} \cup Orders, room : {None} \cup Rooms,
             answer : Statuses \cup {None, "ok", "refused", "error"}, old : BOOLEAN]
Sheets == [open : BOOLEAN, order : {None} \cup Orders, loading : BOOLEAN, done : BOOLEAN,
           timer : {"off", "armed", "near", "due"}]

\* The types.
TypeOK ==
  /\ up \subseteq Rooms
  /\ status \in [Orders -> {None} \cup Statuses]
  /\ home \in [Orders -> {None} \cup Rooms]
  /\ coupon \in [Orders -> {None, "unused", "used", "expired"}]
  /\ wallet \subseteq Orders /\ listed \subseteq Orders /\ told \subseteq Orders
  /\ page \in Pages
  /\ url \in {None} \cup Orders /\ redeeming \in {None} \cup Orders
  /\ loaded \in BOOLEAN /\ (loaded => page \in Rooms)
  /\ sheet \in Sheets
  /\ sheet.timer # "off" => sheet.order # None
  /\ calls \in [Calls -> Requests]
  /\ races \subseteq {"overlap", "lost", "late"}

\* "Payment confirmed!" stands under the QR code of an order that is settled, and
\* only then does the sheet close by itself; except when a QR code is shown while
\* polls, or the redirect, of an earlier purchase are still under way.
ConfirmedIsPaid ==
  \A o \in Orders :
    (Confirmed(o) \/ (ShowsQR(o) /\ Waits("redirect"))) /\ Without({"overlap"}) =>
      Settled(status[o])

\* The wallet keeps a coupon this browser was told of until it is used or expires,
\* whatever fails and whichever page is left.
KeptUntilUsed == \A k \in told : coupon[k] = "unused" => k \in wallet

\* A coupon that was applied is not kept once the answer is there; except when that answer
\* was lost, or another poll of the same order was answered later.
UsedIsForgotten ==
  \A k \in wallet :
    coupon[k] = "used" /\ Without({"lost", "late"}) =>
      \E c \in Calls : calls[c].kind = "redeem" /\ calls[c].order = k

Awaited(o) == (ShowsQR(o) /\ ~sheet.done) \/ (page \in Rooms /\ url = o)

\* docs/design/features/coupon_design.md:147: the client "should poll `GET
\* /v1/orders/:orderId` every 3 seconds while waiting for confirmation".  So a page that
\* waits for an order notices in the end that it is settled.
SettlingIsNoticed ==
  \A o \in Orders : (Awaited(o) /\ Settled(status[o])) ~> ~Awaited(o)

\* The same, by the QR code or on return from Polar, if from some time on the page is
\* not rendered.
NoticedWhenQuiet == <>[][~Rerender]_vars => SettlingIsNoticed
=============================================================================
