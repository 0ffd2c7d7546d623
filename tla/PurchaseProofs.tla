--------------------------- MODULE PurchaseProofs ---------------------------
(***************************************************************************)
(* Proofs about Purchase, for every number of rooms, orders and calls: that *)
(* the sheet confirms what is paid, and which coupons the browser keeps.    *)
(***************************************************************************)
EXTENDS Purchase, TLAPS

-----------------------------------------------------------------------------
(* The inductive invariant.                                                *)

\* A call names the order and the room it is about; only that of a page that was left
\* runs while no chat page is shown.
CallsAreWhole ==
  \A c \in Calls :
    LET call == calls[c] IN
      /\ call.kind # "idle" => call.room \in Rooms /\ (call.old \/ page \in Rooms)
      /\ call.kind \in Polls \cup {"redeem", "redirect"} => call.order \in Orders
      /\ call.kind \in {"sepay", "polar"} /\ call.answer = "ok" =>
           call.order \in Orders /\ status[call.order] # None

\* An order has a room to return to, and a sheet a page it stands on.
PagesAreThere ==
  /\ \A o \in Orders : status[o] # None => home[o] \in Rooms
  /\ page = "checkout" => url \in Orders /\ status[url] # None
  /\ sheet.open \/ sheet.order # None => page \in Rooms

\* What the server has answered of an order or coupon that is settled stays true.
AnswersStayTrue ==
  \A c \in Calls :
    LET call == calls[c] IN
      /\ call.kind \in Polls /\ Settled(call.answer) => status[call.order] = call.answer
      /\ call.kind = "redirect" => Settled(status[call.order])
      /\ call.kind = "redeem" /\ call.answer = "ok" => coupon[call.order] = "used"

\* A coupon belongs to an order that came too late, and the browser redeems only what
\* it was told of.
CouponsAreOfLateOrders ==
  \A k \in Orders : coupon[k] # None \/ k \in told => status[k] = "room_expired"

OnlyToldIsRedeemed ==
  /\ wallet \subseteq told /\ listed \subseteq told
  /\ \A c \in Calls : calls[c].kind = "redeem" => calls[c].order \in told
  /\ \A k \in Orders : coupon[k] = "used" => k \in told

\* Without an overlap the polls that are under way are those of the order that is shown.
SheetIsOfItsOrder ==
  Without({"overlap"}) /\ sheet.order # None =>
    /\ \A c \in Calls :
         calls[c].kind \in {"poll", "redirect"} /\ ~calls[c].old => calls[c].order = sheet.order
    /\ sheet.done => Settled(status[sheet.order])

\* The answer that removes a used coupon from the wallet is on its way.
UsedIsOnItsWay ==
  Without({"lost", "late"}) =>
    \A k \in wallet :
      coupon[k] = "used" =>
        \E c \in Calls :
          calls[c].kind = "redeem" /\ calls[c].answer = "ok" /\ calls[c].order = k

IInv ==
  /\ TypeOK
  /\ CallsAreWhole
  /\ PagesAreThere
  /\ AnswersStayTrue
  /\ CouponsAreOfLateOrders
  /\ OnlyToldIsRedeemed
  /\ KeptUntilUsed
  /\ SheetIsOfItsOrder
  /\ UsedIsOnItsWay

\* The invariant gives the properties.
LEMMA InvariantImplies == IInv => ConfirmedIsPaid /\ KeptUntilUsed /\ UsedIsForgotten
<1> SUFFICES ASSUME IInv
             PROVE  ConfirmedIsPaid /\ KeptUntilUsed /\ UsedIsForgotten
  OBVIOUS
<1>1. ConfirmedIsPaid
  <2> SUFFICES ASSUME NEW o \in Orders, Confirmed(o) \/ (ShowsQR(o) /\ Waits("redirect")),
                      Without({"overlap"})
               PROVE  Settled(status[o])
    BY DEF ConfirmedIsPaid
  <2>1. sheet.order = o /\ o # None
    BY PurchaseAssumption DEF Confirmed, ShowsQR, None
  <2>2. CASE Confirmed(o)
    BY <2>1, <2>2 DEF IInv, SheetIsOfItsOrder, Confirmed
  <2>3. CASE Waits("redirect")
    BY <2>1, <2>3 DEF IInv, SheetIsOfItsOrder, AnswersStayTrue, Waits
  <2>4. QED
    BY <2>2, <2>3
<1>2. UsedIsForgotten
  BY DEF IInv, UsedIsOnItsWay, UsedIsForgotten
<1>3. QED
  BY <1>1, <1>2 DEF IInv

LEMMA InitInvariant == Init => IInv
<1> SUFFICES ASSUME Init
             PROVE  IInv
  OBVIOUS
<1> USE DEF Init, NoSheet, Idle, None
<1>1. TypeOK
  BY DEF TypeOK, Pages, Statuses, Kinds, Requests, Sheets
<1>2. CallsAreWhole /\ AnswersStayTrue
  BY DEF CallsAreWhole, AnswersStayTrue, Polls
<1>3. PagesAreThere /\ CouponsAreOfLateOrders /\ OnlyToldIsRedeemed
  BY DEF PagesAreThere, CouponsAreOfLateOrders, OnlyToldIsRedeemed
<1>4. KeptUntilUsed /\ SheetIsOfItsOrder /\ UsedIsOnItsWay
  BY DEF KeptUntilUsed, SheetIsOfItsOrder, UsedIsOnItsWay
<1>5. QED
  BY <1>1, <1>2, <1>3, <1>4 DEF IInv
-----------------------------------------------------------------------------
(* What becomes of the calls.                                              *)

LEMMA CallTypes ==
  ASSUME IInv
  PROVE  /\ calls \in [Calls -> Requests]
         /\ Idle \in Requests
         /\ LeftBehind \in [Calls -> Requests]
         /\ \A d \in Calls :
              \/ LeftBehind[d] = Idle /\ calls[d].kind \in {"idle", "redirect"}
              \/ /\ LeftBehind[d].kind = calls[d].kind /\ calls[d].kind # "redirect"
                 /\ LeftBehind[d].order = calls[d].order
                 /\ LeftBehind[d].room = calls[d].room
                 /\ LeftBehind[d].answer = calls[d].answer
                 /\ LeftBehind[d].old
<1>1. calls \in [Calls -> Requests]
  BY DEF IInv, TypeOK
<1>2. Idle \in Requests
  BY DEF Idle, Requests, Kinds, None
<1>3. \A d \in Calls : [calls[d] EXCEPT !.old = TRUE] \in Requests
  BY <1>1 DEF Requests
<1>4. QED
  BY <1>1, <1>2, <1>3 DEF LeftBehind, Requests

\* A call whose record is replaced.
LEMMA Recorded ==
  ASSUME calls \in [Calls -> Requests], NEW c \in Calls, NEW r \in Requests,
         calls' = [calls EXCEPT ![c] = r]
  PROVE  /\ calls' \in [Calls -> Requests]
         /\ \A d \in Calls : calls'[d] = IF d = c THEN r ELSE calls[d]
OBVIOUS

\* A call that is made.
LEMMA Asked ==
  ASSUME NEW kind \in Kinds, NEW o \in {None} \cup Orders, page \in Rooms
  PROVE  /\ Ask(kind, o) \in Requests
         /\ Ask(kind, o).kind = kind /\ Ask(kind, o).order = o /\ Ask(kind, o).room = page
         /\ Ask(kind, o).answer = None /\ Ask(kind, o).old = FALSE
BY DEF Ask, Idle, Requests, None

-----------------------------------------------------------------------------
(* The steps of the sheet and the pages.                                   *)

\* Of the sheet alone: what it is about, and what it has confirmed, stays.
LEMMA SheetSteps ==
  ASSUME IInv, OpenSheet \/ CloseSheet \/ Rerender \/ Elapse
  PROVE  IInv'
<1>1. /\ UNCHANGED <<server, wallet, page, url, loaded, listed, redeeming, calls, told, races>>
      /\ page \in Rooms
    BY DEF OpenSheet, CloseSheet, Rerender, Elapse, IInv, TypeOK, PagesAreThere
<1>2. /\ sheet' \in Sheets
      /\ sheet'.timer # "off" => sheet'.order # None
      /\ sheet'.order # None => sheet'.order = sheet.order /\ sheet'.done = sheet.done
  <2>0. sheet \in Sheets /\ (sheet.timer # "off" => sheet.order # None)
    BY DEF IInv, TypeOK
  <2>1. CASE OpenSheet
    BY <2>1 DEF OpenSheet, NoSheet, Sheets, None
  <2>2. CASE CloseSheet
    BY <2>0, <2>2 DEF CloseSheet, Restarted, Sheets
  <2>3. CASE Rerender
    BY <2>0, <2>3 DEF Rerender, Restarted, Sheets
  <2>4. CASE Elapse
    BY <2>0, <2>4 DEF Elapse, Sheets
  <2>5. QED
    BY <2>1, <2>2, <2>3, <2>4
<1>3. TypeOK'
  BY <1>1, <1>2 DEF IInv, TypeOK, server
<1>4. CallsAreWhole' /\ PagesAreThere'
  BY <1>1 DEF IInv, CallsAreWhole, PagesAreThere, server
<1>5. AnswersStayTrue' /\ CouponsAreOfLateOrders' /\ OnlyToldIsRedeemed'
  BY <1>1 DEF IInv, AnswersStayTrue, CouponsAreOfLateOrders, OnlyToldIsRedeemed, server
<1>6. KeptUntilUsed' /\ UsedIsOnItsWay'
  BY <1>1 DEF IInv, KeptUntilUsed, UsedIsOnItsWay, Without, server
<1>7. SheetIsOfItsOrder'
  BY <1>1, <1>2 DEF IInv, SheetIsOfItsOrder, Without, server
<1>8. QED
  BY <1>3, <1>4, <1>5, <1>6, <1>7 DEF IInv

\* A page is opened, loaded or left.
LEMMA PageSteps ==
  ASSUME IInv,
         \/ PageLoaded \/ ClosePage \/ ReturnFromPolar \/ CancelCheckout
         \/ \E r \in Rooms : OpenPage(r)
  PROVE  IInv'
<1>1. /\ UNCHANGED <<server, wallet, told, races>>
      /\ \/ UNCHANGED <<page, url, sheet, redeeming, calls>>
         \/ /\ sheet' = NoSheet /\ redeeming' = None
            /\ page' \in Rooms \cup {"home"} /\ url' \in {None} \cup Orders
            /\ IF page \in Rooms THEN calls' = LeftBehind ELSE calls' = calls
      /\ listed' \subseteq wallet
      /\ loaded' \in BOOLEAN /\ (loaded' => page' \in Rooms)
  <2>0. /\ Rooms \cap {"home", "checkout"} = {} /\ page \in Pages /\ url \in {None} \cup Orders
        /\ page = "checkout" => url \in Orders /\ home[url] \in Rooms
    BY PurchaseAssumption DEF IInv, TypeOK, PagesAreThere
  <2>1. CASE PageLoaded
    BY <2>0, <2>1 DEF PageLoaded, Show, getUnusedCoupons
  <2>2. CASE ClosePage
    BY <2>0, <2>2 DEF ClosePage, Show
  <2>3. CASE ReturnFromPolar
    BY <2>0, <2>3 DEF ReturnFromPolar, Show
  <2>4. CASE CancelCheckout
    BY <2>0, <2>4 DEF CancelCheckout, Show
  <2>5. CASE \E r \in Rooms : OpenPage(r)
    BY <2>0, <2>5 DEF OpenPage, Show
  <2>6. QED
    BY <2>1, <2>2, <2>3, <2>4, <2>5
<1>2. /\ calls' \in [Calls -> Requests]
      /\ \A d \in Calls :
           calls'[d].kind # "idle" =>
             /\ calls'[d].kind = calls[d].kind /\ calls'[d].order = calls[d].order
             /\ calls'[d].room = calls[d].room /\ calls'[d].answer = calls[d].answer
             /\ (~calls'[d].old => ~calls[d].old /\ page' = page)
      /\ \A d \in Calls : calls[d].kind = "redeem" => calls'[d].kind = "redeem"
  BY <1>1, CallTypes DEF Idle, IInv, CallsAreWhole
<1>3. TypeOK'
  <2>1. NoSheet \in Sheets /\ NoSheet.timer = "off"
    BY DEF NoSheet, Sheets, None
  <2>2. sheet' \in Sheets /\ (sheet'.timer # "off" => sheet'.order # None)
    BY <1>1, <2>1 DEF IInv, TypeOK
  <2>3. page' \in Pages /\ url' \in {None} \cup Orders /\ redeeming' \in {None} \cup Orders
    BY <1>1 DEF IInv, TypeOK, Pages
  <2>4. QED
    BY <1>1, <1>2, <2>2, <2>3 DEF IInv, TypeOK, server
<1>4. CallsAreWhole'
  BY <1>1, <1>2 DEF IInv, CallsAreWhole, server, Polls
<1>5. PagesAreThere'
  BY <1>1, PurchaseAssumption DEF IInv, PagesAreThere, server, NoSheet, None
<1>6. AnswersStayTrue'
  BY <1>1, <1>2 DEF IInv, AnswersStayTrue, server, Polls
<1>7. CouponsAreOfLateOrders' /\ KeptUntilUsed'
  BY <1>1 DEF IInv, CouponsAreOfLateOrders, KeptUntilUsed, server
<1>8. OnlyToldIsRedeemed'
  BY <1>1, <1>2 DEF IInv, OnlyToldIsRedeemed, server
<1>9. SheetIsOfItsOrder'
  BY <1>1 DEF IInv, SheetIsOfItsOrder, Without, server, NoSheet, None
<1>10. UsedIsOnItsWay'
  BY <1>1, <1>2 DEF IInv, UsedIsOnItsWay, Without, server
<1>11. QED
  BY <1>3, <1>4, <1>5, <1>6, <1>7, <1>8, <1>9, <1>10 DEF IInv

\* A call is made.
LEMMA AskSteps ==
  ASSUME IInv, NEW c \in Calls,
         \/ HandleConfirm(c) \/ Poll(c) \/ PollReturn(c)
         \/ \E k \in Orders : HandleApplyCoupon(c, k)
  PROVE  IInv'
<1>0. /\ page \in Rooms /\ calls[c].kind = "idle"
      /\ UNCHANGED <<server, wallet, page, url, loaded, listed, told, races>>
  <2>1. sheet \in Sheets /\ (sheet.timer # "off" => sheet.order # None)
    BY DEF IInv, TypeOK
  <2>2. sheet.open \/ sheet.order # None \/ loaded => page \in Rooms
    BY DEF IInv, TypeOK, PagesAreThere
  <2>3. QED
    BY <2>1, <2>2 DEF HandleConfirm, Poll, PollReturn, HandleApplyCoupon, ShowsChoice, CanApply,
       Free, screen
<1>1. PICK kind \in Kinds, o \in {None} \cup Orders :
        /\ calls' = [calls EXCEPT ![c] = Ask(kind, o)]
        /\ kind # "redirect"
        /\ kind \in Polls \cup {"redeem"} => o \in Orders
        /\ kind = "poll" => o = sheet.order
        /\ kind = "redeem" => o \in told
        /\ UNCHANGED sheet \/ (\E f \in BOOLEAN : sheet' = [sheet EXCEPT !.loading = f])
                           \/ (sheet.order # None /\ sheet' = [sheet EXCEPT !.timer = "armed"])
        /\ redeeming' \in {None} \cup Orders
  <2>0. /\ sheet \in Sheets /\ url \in {None} \cup Orders /\ redeeming \in {None} \cup Orders
        /\ sheet.timer # "off" => sheet.order # None
        /\ listed \subseteq told /\ None \notin Orders
    BY PurchaseAssumption DEF IInv, TypeOK, OnlyToldIsRedeemed, None
  <2>1. CASE HandleConfirm(c)
    BY <2>1, <2>0 DEF HandleConfirm, Kinds, Polls
  <2>2. CASE Poll(c)
    BY <2>2, <2>0 DEF Poll, Kinds, Polls, Interval, Sheets
  <2>3. CASE PollReturn(c)
    <3>1. /\ calls' = [calls EXCEPT ![c] = Ask("return", url)]
          /\ url \in Orders /\ UNCHANGED sheet /\ redeeming' \in {None} \cup Orders
      BY <2>3, <2>0 DEF PollReturn, screen
    <3>2. "return" \in Kinds
      BY DEF Kinds, Polls
    <3>3. QED
      BY <3>1, <3>2
  <2>4. CASE \E k \in Orders : HandleApplyCoupon(c, k)
    BY <2>4, <2>0 DEF HandleApplyCoupon, CanApply, Kinds, Polls
  <2>5. QED
    BY <2>1, <2>2, <2>3, <2>4
<1> DEFINE r == Ask(kind, o)
<1>2. /\ r \in Requests
      /\ r.kind = kind /\ r.order = o /\ r.room = page /\ r.answer = None /\ r.old = FALSE
  BY <1>0, Asked
<1>3. /\ calls' \in [Calls -> Requests]
      /\ \A d \in Calls : calls'[d] = IF d = c THEN r ELSE calls[d]
  <2> HIDE DEF r
  <2>1. QED
    BY <1>1, <1>2, CallTypes, Recorded DEF r
<1>4. /\ sheet' \in Sheets /\ (sheet'.timer # "off" => sheet'.order # None)
      /\ sheet'.open = sheet.open /\ sheet'.order = sheet.order /\ sheet'.done = sheet.done
  BY <1>1 DEF IInv, TypeOK, Sheets
<1> HIDE DEF r
<1>5. TypeOK'
  BY <1>0, <1>1, <1>3, <1>4 DEF IInv, TypeOK, server
<1>6. CallsAreWhole'
  BY <1>0, <1>1, <1>2, <1>3 DEF IInv, CallsAreWhole, server, Polls, None
<1>7. PagesAreThere'
  BY <1>0, <1>4 DEF IInv, PagesAreThere, server
<1>8. AnswersStayTrue'
  BY <1>0, <1>1, <1>2, <1>3 DEF IInv, AnswersStayTrue, server, Settled, None
<1>9. CouponsAreOfLateOrders' /\ KeptUntilUsed'
  BY <1>0 DEF IInv, CouponsAreOfLateOrders, KeptUntilUsed, server
<1>10. OnlyToldIsRedeemed'
  BY <1>0, <1>1, <1>2, <1>3 DEF IInv, OnlyToldIsRedeemed, server
<1>11. SheetIsOfItsOrder'
  BY <1>0, <1>1, <1>2, <1>3, <1>4 DEF IInv, SheetIsOfItsOrder, Without, server
<1>12. UsedIsOnItsWay'
  BY <1>0, <1>3 DEF IInv, UsedIsOnItsWay, Without, server
<1>13. QED
  BY <1>5, <1>6, <1>7, <1>8, <1>9, <1>10, <1>11, <1>12 DEF IInv

-----------------------------------------------------------------------------
(* The steps of the server, the payer and the network.                     *)

\* A settled order stays as it is.
LEMMA AnswerSteps ==
  ASSUME IInv, NEW c \in Calls,
         AnswerInitiate(c) \/ AnswerStatus(c) \/ AnswerRedeem(c) \/ Fail(c)
  PROVE  IInv'
<1>0. /\ calls \in [Calls -> Requests] /\ calls[c] \in Requests
      /\ status \in [Orders -> {None} \cup Statuses]
      /\ home \in [Orders -> {None} \cup Rooms]
      /\ coupon \in [Orders -> {None, "unused", "used", "expired"}]
  BY DEF IInv, TypeOK
<1>1. /\ UNCHANGED <<up, wallet, page, url, loaded, sheet, listed, redeeming, told>>
      /\ calls[c].kind # "idle" /\ calls[c].answer = None
  BY DEF AnswerInitiate, AnswerStatus, AnswerRedeem, Fail, Free, screen, server
<1>2. /\ status' \in [Orders -> {None} \cup Statuses]
      /\ home' \in [Orders -> {None} \cup Rooms]
      /\ \A o \in Orders :
           /\ status[o] # None => status'[o] = status[o] /\ home'[o] = home[o]
           /\ status'[o] # None => status[o] # None \/ home'[o] \in Rooms
           /\ ~Settled(status[o]) => ~Settled(status'[o])
  <2>1. CASE AnswerInitiate(c)
    BY <1>0, <1>1, <2>1 DEF AnswerInitiate, IInv, CallsAreWhole, Settled, Statuses, None
  <2>2. CASE AnswerStatus(c) \/ AnswerRedeem(c) \/ Fail(c)
    BY <1>0, <2>2 DEF AnswerStatus, AnswerRedeem, Fail, server
  <2>3. QED
    BY <2>1, <2>2
<1>3. /\ coupon' \in [Orders -> {None, "unused", "used", "expired"}]
      /\ \A k \in Orders :
           \/ coupon'[k] = coupon[k]
           \/ /\ coupon[k] = "unused" /\ coupon'[k] = "used"
              /\ calls[c].kind = "redeem" /\ calls[c].order = k
              /\ calls'[c] = [calls[c] EXCEPT !.answer = "ok"] \/ "lost" \in races'
  BY <1>0 DEF AnswerInitiate, AnswerStatus, AnswerRedeem, Fail, Redeemable, server
<1>4. races \subseteq races' /\ races' \subseteq races \cup {"lost"}
  BY DEF AnswerInitiate, AnswerStatus, AnswerRedeem, Fail
<1>5. /\ calls' \in [Calls -> Requests]
      /\ \A d \in Calls \ {c} : calls'[d] = calls[d]
      /\ calls'[c].kind = calls[c].kind /\ calls'[c].room = calls[c].room
      /\ calls'[c].old = calls[c].old
      /\ calls[c].kind \notin {"sepay", "polar"} => calls'[c].order = calls[c].order
  <2>1. CASE AnswerInitiate(c)
    BY <1>0, <2>1 DEF AnswerInitiate, Requests, None
  <2>2. CASE AnswerStatus(c)
    <3>1. status[calls[c].order] \in {None} \cup Statuses
      BY <1>0, <2>2 DEF AnswerStatus, IInv, CallsAreWhole, Polls
    <3>2. QED
      BY <1>0, <2>2, <3>1 DEF AnswerStatus, Requests
  <2>3. CASE AnswerRedeem(c) \/ Fail(c)
    BY <1>0, <2>3 DEF AnswerRedeem, Fail, Requests
  <2>4. QED
    BY <2>1, <2>2, <2>3
<1>6. /\ calls'[c].kind \in {"sepay", "polar"} /\ calls'[c].answer = "ok" =>
           calls'[c].order \in Orders /\ status'[calls'[c].order] # None
      /\ calls'[c].kind \in Polls /\ Settled(calls'[c].answer) =>
           status[calls[c].order] = calls'[c].answer
      /\ calls'[c].kind = "redeem" /\ calls'[c].answer = "ok" => coupon'[calls[c].order] = "used"
  BY <1>0, <1>1 DEF AnswerInitiate, AnswerStatus, AnswerRedeem, Fail, server, Requests, Polls,
     Settled, Statuses, None, IInv, CallsAreWhole
<1>7. TypeOK'
  BY <1>1, <1>2, <1>3, <1>4, <1>5 DEF IInv, TypeOK
<1>8. CallsAreWhole'
  BY <1>1, <1>2, <1>5, <1>6 DEF IInv, CallsAreWhole, Polls
<1>9. PagesAreThere'
  BY <1>1, <1>2 DEF IInv, PagesAreThere
<1>10. AnswersStayTrue'
  BY <1>0, <1>1, <1>2, <1>3, <1>5, <1>6
     DEF IInv, AnswersStayTrue, CallsAreWhole, Polls, Settled, None
<1>11. CouponsAreOfLateOrders'
  BY <1>0, <1>1, <1>2, <1>3 DEF IInv, CouponsAreOfLateOrders, TypeOK, None
<1>12. OnlyToldIsRedeemed'
  BY <1>1, <1>3, <1>5 DEF IInv, OnlyToldIsRedeemed
<1>13. KeptUntilUsed'
  BY <1>1, <1>3 DEF IInv, KeptUntilUsed, TypeOK
<1>14. SheetIsOfItsOrder'
  BY <1>0, <1>1, <1>2, <1>4, <1>5 DEF IInv, SheetIsOfItsOrder, TypeOK, Sheets, Without, Settled, None
<1>15. UsedIsOnItsWay'
  <2> SUFFICES ASSUME Without({"lost", "late"})', NEW k \in wallet, coupon'[k] = "used"
               PROVE  \E d \in Calls :
                        calls'[d].kind = "redeem" /\ calls'[d].answer = "ok" /\ calls'[d].order = k
    BY <1>1 DEF UsedIsOnItsWay
  <2>1. k \in Orders /\ Without({"lost", "late"}) /\ "lost" \notin races'
    BY <1>4 DEF IInv, TypeOK, Without
  <2>2. CASE coupon[k] = "used"
    <3>1. PICK d \in Calls :
            calls[d].kind = "redeem" /\ calls[d].answer = "ok" /\ calls[d].order = k
      BY <2>1, <2>2 DEF IInv, UsedIsOnItsWay
    <3>2. d # c
      BY <1>1, <3>1 DEF None
    <3>3. QED
      BY <1>5, <3>1, <3>2
  <2>3. CASE coupon[k] # "used"
    BY <1>0, <1>3, <2>1, <2>3 DEF Requests
  <2>4. QED
    BY <2>2, <2>3
<1>16. QED
  BY <1>7, <1>8, <1>9, <1>10, <1>11, <1>12, <1>13, <1>14, <1>15 DEF IInv

\* Orders are paid, rooms and coupons end.
LEMMA ServerSteps ==
  ASSUME IInv,
         \/ \E o \in Orders : Pay(o) \/ CouponExpires(o)
         \/ \E r \in Rooms : RoomEnds(r)
  PROVE  IInv'
<1>0. /\ status \in [Orders -> {None} \cup Statuses]
      /\ coupon \in [Orders -> {None, "unused", "used", "expired"}]
      /\ \A c \in Calls : calls[c].kind \in Polls \cup {"redeem", "redirect"} => calls[c].order \in Orders
  BY DEF IInv, TypeOK, CallsAreWhole
<1>1. UNCHANGED <<home, wallet, screen, calls, told, races>> /\ up' \subseteq up
  BY DEF Pay, CouponExpires, RoomEnds
<1>2. /\ status' \in [Orders -> {None} \cup Statuses]
      /\ coupon' \in [Orders -> {None, "unused", "used", "expired"}]
      /\ \A o \in Orders :
           /\ status[o] = None => status'[o] = None
           /\ status[o] # "pending" => status'[o] = status[o]
           /\ status[o] # None => status'[o] # None
           /\ coupon'[o] # coupon[o] =>
                \/ status[o] = "pending" /\ status'[o] = "room_expired" /\ coupon'[o] = "unused"
                \/ coupon[o] = "unused" /\ coupon'[o] = "expired"
  BY <1>0 DEF Pay, CouponExpires, RoomEnds, Statuses, None
<1>3. TypeOK'
  BY <1>1, <1>2 DEF IInv, TypeOK, screen
<1>4. CallsAreWhole' /\ PagesAreThere'
  BY <1>1, <1>2 DEF IInv, CallsAreWhole, PagesAreThere, screen
<1>5. AnswersStayTrue'
  <2> SUFFICES ASSUME NEW c \in Calls
               PROVE  LET call == calls[c] IN
                        /\ call.kind \in Polls /\ Settled(call.answer) => status'[call.order] = call.answer
                        /\ call.kind = "redirect" => Settled(status'[call.order])
                        /\ call.kind = "redeem" /\ call.answer = "ok" => coupon'[call.order] = "used"
    BY <1>1 DEF AnswersStayTrue
  <2>1. /\ calls[c].kind \in Polls /\ Settled(calls[c].answer) =>
             status[calls[c].order] = calls[c].answer
        /\ calls[c].kind = "redirect" => Settled(status[calls[c].order])
        /\ calls[c].kind = "redeem" /\ calls[c].answer = "ok" => coupon[calls[c].order] = "used"
    BY DEF IInv, AnswersStayTrue
  <2>2. \A o \in Orders : Settled(status[o]) => status'[o] = status[o]
    BY <1>2 DEF Settled
  <2>3. \A o \in Orders : coupon[o] = "used" => coupon'[o] = "used"
    BY <1>0, <1>2, <2>2 DEF IInv, CouponsAreOfLateOrders, Settled, None
  <2>4. QED
    BY <1>0, <2>1, <2>2, <2>3
<1>6. CouponsAreOfLateOrders'
  BY <1>0, <1>1, <1>2 DEF IInv, CouponsAreOfLateOrders, None
<1>7. OnlyToldIsRedeemed'
  BY <1>1, <1>2 DEF IInv, OnlyToldIsRedeemed, screen
<1>8. KeptUntilUsed'
  BY <1>1, <1>2 DEF IInv, KeptUntilUsed, CouponsAreOfLateOrders, TypeOK
<1>9. SheetIsOfItsOrder'
  BY <1>1, <1>2 DEF IInv, SheetIsOfItsOrder, TypeOK, Sheets, Without, Settled, screen
<1>10. UsedIsOnItsWay'
  BY <1>1, <1>2 DEF IInv, UsedIsOnItsWay, Without, TypeOK
<1>11. QED
  BY <1>3, <1>4, <1>5, <1>6, <1>7, <1>8, <1>9, <1>10 DEF IInv

-----------------------------------------------------------------------------
(* The steps that handle an answer.                                        *)

\* The coupon of a poll's answer is kept with the others, except the expired.
LEMMA CouponTaken ==
  ASSUME IInv, NEW c \in Calls, calls[c].kind \in Polls, TakeCoupon(c)
  PROVE  /\ wallet' \subseteq told' /\ told \subseteq told' /\ told' \subseteq Orders
         /\ races \subseteq races' /\ races' \subseteq races \cup {"late"}
         /\ \A k \in told' : status[k] = "room_expired" /\ (coupon[k] = "unused" => k \in wallet')
         /\ \A k \in wallet' : k \in wallet \/ "late" \in races' \/ coupon[k] # "used"
<1>0. /\ calls[c].order \in Orders /\ wallet \subseteq told /\ told \subseteq Orders
      /\ \A k \in Orders : coupon[k] = "used" => k \in told
      /\ \A k \in told : status[k] = "room_expired" /\ (coupon[k] = "unused" => k \in wallet)
  BY DEF IInv, CallsAreWhole, OnlyToldIsRedeemed, KeptUntilUsed, CouponsAreOfLateOrders, TypeOK
<1>1. CASE calls[c].answer = "room_expired"
  <2>1. status[calls[c].order] = "room_expired"
    BY <1>1 DEF IInv, AnswersStayTrue, Settled
  <2>2. QED
    BY <1>0, <1>1, <2>1 DEF TakeCoupon, saveCoupon, getUnusedCoupons, Expired
<1>2. CASE calls[c].answer # "room_expired"
  BY <1>0, <1>2 DEF TakeCoupon
<1>3. QED
  BY <1>1, <1>2

\* After that the wallet is as it should be, if nothing happens to redemptions.
LEMMA CouponKept ==
  ASSUME IInv, NEW c \in Calls, calls[c].kind \in Polls, TakeCoupon(c), UNCHANGED server,
         listed' \subseteq listed,
         \A d \in Calls :
           calls'[d].kind = "redeem" \/ calls[d].kind = "redeem" =>
             /\ calls'[d].kind = calls[d].kind /\ calls'[d].order = calls[d].order
             /\ calls'[d].answer = calls[d].answer
  PROVE  CouponsAreOfLateOrders' /\ OnlyToldIsRedeemed' /\ KeptUntilUsed' /\ UsedIsOnItsWay'
<1>1. CouponsAreOfLateOrders'
  BY CouponTaken DEF IInv, CouponsAreOfLateOrders, server
<1>2. OnlyToldIsRedeemed'
  BY CouponTaken DEF IInv, OnlyToldIsRedeemed, server
<1>3. KeptUntilUsed'
  BY CouponTaken DEF KeptUntilUsed, server
<1>4. UsedIsOnItsWay'
  BY CouponTaken DEF IInv, UsedIsOnItsWay, Without, server
<1>5. QED
  BY <1>1, <1>2, <1>3, <1>4

\* The QR code is shown, or the redirect of a settled order closes the sheet.
LEMMA SheetHandles ==
  ASSUME IInv, NEW c \in Calls, SepayInitiated(c) \/ Redirect(c)
  PROVE  IInv'
<1>0. /\ UNCHANGED <<server, wallet, page, url, loaded, listed, redeeming, told>>
      /\ calls[c].kind \in {"sepay", "redirect"}
      /\ calls' = [calls EXCEPT ![c] = Idle]
      /\ races' = races \/ races' = races \cup {"overlap"}
  BY DEF SepayInitiated, Redirect, Ready, Done
<1>1. /\ calls' \in [Calls -> Requests]
      /\ \A d \in Calls : calls'[d] = IF d = c THEN Idle ELSE calls[d]
  BY <1>0, CallTypes, Recorded
<1>2. /\ sheet' \in Sheets
      /\ sheet'.timer # "off" => sheet'.order # None
      /\ \/ sheet'.order = sheet.order /\ sheet'.done = sheet.done
         \/ /\ sheet'.order \in Orders /\ sheet'.done = sheet.done
            /\ Without({"overlap"})' => ~sheet.done /\ ~Waits("poll") /\ ~Waits("redirect")
      /\ sheet'.open \/ sheet'.order # None => page \in Rooms
  <2>0. /\ sheet \in Sheets /\ (sheet.timer # "off" => sheet.order # None)
        /\ sheet.open \/ sheet.order # None => page \in Rooms
    BY DEF IInv, TypeOK, PagesAreThere
  <2>1. CASE SepayInitiated(c)
    <3>1. CASE calls[c].old \/ calls[c].answer # "ok"
      BY <2>0, <2>1, <3>1 DEF SepayInitiated, Sheets
    <3>2. CASE ~calls[c].old /\ calls[c].answer = "ok"
      <4>1. calls[c].order \in Orders /\ calls[c].order # None /\ page \in Rooms
        BY <2>1, <3>2, PurchaseAssumption
           DEF IInv, CallsAreWhole, SepayInitiated, Ready, None
      <4>2. sheet' = [sheet EXCEPT !.order = calls[c].order, !.loading = FALSE, !.timer = "armed"]
        BY <2>1, <3>2 DEF SepayInitiated
      <4>3. Without({"overlap"})' => ~sheet.done /\ ~Waits("poll") /\ ~Waits("redirect")
        BY <2>1, <3>2 DEF SepayInitiated, Without
      <4>4. QED
        BY <2>0, <4>1, <4>2, <4>3 DEF Sheets
    <3>3. QED
      BY <3>1, <3>2
  <2>2. CASE Redirect(c)
    BY <2>0, <2>2 DEF Redirect, Restarted, Sheets
  <2>3. QED
    BY <2>1, <2>2
<1>3. TypeOK'
  BY <1>0, <1>1, <1>2 DEF IInv, TypeOK, server
<1>4. CallsAreWhole'
  BY <1>0, <1>1 DEF IInv, CallsAreWhole, server, Idle, Polls
<1>5. PagesAreThere'
  BY <1>0, <1>2 DEF IInv, PagesAreThere, server
<1>6. AnswersStayTrue'
  BY <1>0, <1>1 DEF IInv, AnswersStayTrue, server, Idle, Polls
<1>7. CouponsAreOfLateOrders' /\ KeptUntilUsed'
  BY <1>0 DEF IInv, CouponsAreOfLateOrders, KeptUntilUsed, server
<1>8. OnlyToldIsRedeemed'
  BY <1>0, <1>1 DEF IInv, OnlyToldIsRedeemed, server, Idle
<1>9. SheetIsOfItsOrder'
  BY <1>0, <1>1, <1>2 DEF IInv, SheetIsOfItsOrder, Without, Waits, server, Idle
<1>10. UsedIsOnItsWay'
  BY <1>0, <1>1 DEF IInv, UsedIsOnItsWay, Without, server
<1>11. QED
  BY <1>3, <1>4, <1>5, <1>6, <1>7, <1>8, <1>9, <1>10 DEF IInv

\* A poll of the sheet is answered: what it confirms is the order the sheet shows.
LEMMA PollHandles ==
  ASSUME IInv, NEW c \in Calls, PollAnswered(c)
  PROVE  IInv'
<1>0. /\ calls[c].kind = "poll" /\ calls[c].order \in Orders /\ TakeCoupon(c)
      /\ UNCHANGED <<server, page, url, loaded, listed, redeeming>>
      /\ calls[c].old \/ page \in Rooms
  BY DEF PollAnswered, Ready, IInv, CallsAreWhole, Polls
<1>1. PICK r \in Requests :
        /\ calls' = [calls EXCEPT ![c] = r]
        /\ r.kind # "idle" =>
             /\ r.kind = "redirect" /\ r.order = calls[c].order /\ r.room = page /\ ~calls[c].old
             /\ Settled(status[r.order])
        /\ \/ UNCHANGED sheet
           \/ /\ sheet' = [sheet EXCEPT !.done = TRUE, !.timer = "off"]
              /\ ~calls[c].old /\ Settled(status[calls[c].order])
  <2>1. CASE Settled(calls[c].answer) /\ ~calls[c].old
    <3> DEFINE r == [Ask("redirect", calls[c].order) EXCEPT !.answer = "ok"]
    <3>0. "redirect" \in Kinds
      BY DEF Kinds
    <3>1. /\ r \in Requests /\ r.kind = "redirect" /\ r.order = calls[c].order /\ r.room = page
      <4>0. page \in Rooms /\ calls[c].order \in {None} \cup Orders
        BY <1>0, <2>1
      <4>1. \A o \in {None} \cup Orders :
              LET x == Ask("redirect", o) IN
                x \in Requests /\ x.kind = "redirect" /\ x.order = o /\ x.room = page
        BY ONLY <3>0, <4>0, Asked
      <4>2. LET x == Ask("redirect", calls[c].order) IN
              x \in Requests /\ x.kind = "redirect" /\ x.order = calls[c].order /\ x.room = page
        BY ONLY <4>0, <4>1
      <4>3. QED
        BY <4>2 DEF Requests
    <3>2. Settled(status[calls[c].order])
      BY <1>0, <2>1 DEF IInv, AnswersStayTrue, Polls
    <3>3. calls' = [calls EXCEPT ![c] = r] /\ sheet' = [sheet EXCEPT !.done = TRUE, !.timer = "off"]
      BY <2>1 DEF PollAnswered
    <3> HIDE DEF r
    <3>4. QED
      BY <2>1, <3>1, <3>2, <3>3
  <2>2. CASE ~(Settled(calls[c].answer) /\ ~calls[c].old)
    <3>1. calls' = [calls EXCEPT ![c] = Idle] /\ UNCHANGED sheet /\ Idle.kind = "idle"
      BY <2>2 DEF PollAnswered, Done, Idle
    <3>2. QED
      BY <3>1, CallTypes
  <2>3. QED
    BY <2>1, <2>2
<1>2. /\ calls' \in [Calls -> Requests]
      /\ \A d \in Calls : calls'[d] = IF d = c THEN r ELSE calls[d]
  BY <1>1, CallTypes, Recorded
<1>3. /\ sheet' \in Sheets /\ (sheet'.timer # "off" => sheet'.order # None)
      /\ sheet'.order = sheet.order /\ sheet'.open = sheet.open
  BY <1>1 DEF IInv, TypeOK, Sheets
<1>4. /\ told' \subseteq Orders /\ wallet' \subseteq told'
      /\ races \subseteq races' /\ races' \subseteq races \cup {"late"}
  BY <1>0, CouponTaken DEF Polls
<1>5. TypeOK'
  BY <1>0, <1>2, <1>3, <1>4 DEF IInv, TypeOK, server
<1>6. CallsAreWhole'
  BY <1>0, <1>1, <1>2 DEF IInv, CallsAreWhole, server, Polls
<1>7. PagesAreThere'
  BY <1>0, <1>3 DEF IInv, PagesAreThere, server
<1>8. AnswersStayTrue'
  BY <1>0, <1>1, <1>2 DEF IInv, AnswersStayTrue, server, Polls
<1>9. CouponsAreOfLateOrders' /\ OnlyToldIsRedeemed' /\ KeptUntilUsed' /\ UsedIsOnItsWay'
  BY <1>0, <1>1, <1>2, CouponKept DEF Polls
<1>10. SheetIsOfItsOrder'
  BY <1>0, <1>1, <1>2, <1>3, <1>4 DEF IInv, SheetIsOfItsOrder, TypeOK, Sheets, Without, server
<1>11. QED
  BY <1>5, <1>6, <1>7, <1>8, <1>9, <1>10 DEF IInv

\* The document is replaced by the checkout: whatever waited is gone with it.
LEMMA PolarHandles ==
  ASSUME IInv, NEW c \in Calls, PolarInitiated(c)
  PROVE  IInv'
<1>0. UNCHANGED <<server, wallet, told>> /\ calls[c].kind = "polar"
  BY DEF PolarInitiated, Ready
<1>1. CASE calls[c].answer = "ok"
  <2>1. /\ page' = "checkout" /\ url' = calls[c].order /\ loaded' = FALSE
        /\ sheet' = NoSheet /\ listed' = {} /\ redeeming' = None
        /\ calls' = [d \in Calls |-> Idle]
        /\ races' = races \cup IF \E d \in Calls : calls[d].kind = "redeem" THEN {"lost"} ELSE {}
    BY <1>1 DEF PolarInitiated, Show
  <2>2. url' \in Orders /\ status[url'] # None
    BY <1>0, <1>1, <2>1 DEF IInv, CallsAreWhole
  <2>3. NoSheet \in Sheets /\ NoSheet.timer = "off" /\ NoSheet.order = None /\ ~NoSheet.open
    BY DEF NoSheet, Sheets, None
  <2>4. Idle \in Requests /\ Idle.kind = "idle"
    BY CallTypes DEF Idle
  <2>5. TypeOK'
    BY <1>0, <2>1, <2>2, <2>3, <2>4 DEF IInv, TypeOK, Pages, server
  <2>6. CallsAreWhole' /\ AnswersStayTrue'
    BY <2>1, <2>4 DEF CallsAreWhole, AnswersStayTrue, Polls
  <2>7. PagesAreThere'
    BY <1>0, <2>1, <2>2, <2>3 DEF IInv, PagesAreThere, server
  <2>8. CouponsAreOfLateOrders' /\ KeptUntilUsed'
    BY <1>0 DEF IInv, CouponsAreOfLateOrders, KeptUntilUsed, server
  <2>9. OnlyToldIsRedeemed'
    BY <1>0, <2>1, <2>4 DEF IInv, OnlyToldIsRedeemed, server
  <2>10. SheetIsOfItsOrder'
    BY <2>1, <2>3 DEF SheetIsOfItsOrder
  <2>11. UsedIsOnItsWay'
    BY <1>0, <2>1 DEF IInv, UsedIsOnItsWay, Without, server
  <2>12. QED
    BY <2>5, <2>6, <2>7, <2>8, <2>9, <2>10, <2>11 DEF IInv
<1>2. CASE calls[c].answer # "ok"
  <2>1. /\ calls' = [calls EXCEPT ![c] = Idle]
        /\ sheet' = sheet \/ sheet' = [sheet EXCEPT !.loading = FALSE]
        /\ UNCHANGED <<page, url, loaded, listed, redeeming, races>>
    BY <1>2 DEF PolarInitiated, Done
  <2>2. /\ calls' \in [Calls -> Requests]
        /\ \A d \in Calls : calls'[d] = IF d = c THEN Idle ELSE calls[d]
    BY <2>1, CallTypes, Recorded
  <2>3. /\ sheet' \in Sheets /\ (sheet'.timer # "off" => sheet'.order # None)
        /\ sheet'.order = sheet.order /\ sheet'.open = sheet.open /\ sheet'.done = sheet.done
    BY <2>1 DEF IInv, TypeOK, Sheets
  <2>4. TypeOK'
    BY <1>0, <2>1, <2>2, <2>3 DEF IInv, TypeOK, server
  <2>5. CallsAreWhole'
    BY <1>0, <2>1, <2>2 DEF IInv, CallsAreWhole, server, Idle, Polls
  <2>6. PagesAreThere'
    BY <1>0, <2>1, <2>3 DEF IInv, PagesAreThere, server
  <2>7. AnswersStayTrue'
    BY <1>0, <2>2 DEF IInv, AnswersStayTrue, server, Idle, Polls
  <2>8. CouponsAreOfLateOrders' /\ KeptUntilUsed'
    BY <1>0 DEF IInv, CouponsAreOfLateOrders, KeptUntilUsed, server
  <2>9. OnlyToldIsRedeemed'
    BY <1>0, <2>1, <2>2 DEF IInv, OnlyToldIsRedeemed, server, Idle
  <2>10. SheetIsOfItsOrder'
    BY <1>0, <2>1, <2>2, <2>3 DEF IInv, SheetIsOfItsOrder, Without, server, Idle
  <2>11. UsedIsOnItsWay'
    BY <1>0, <2>1, <2>2 DEF IInv, UsedIsOnItsWay, Without, server
  <2>12. QED
    BY <2>4, <2>5, <2>6, <2>7, <2>8, <2>9, <2>10, <2>11 DEF IInv
<1>3. QED
  BY <1>1, <1>2

\* The poll of the page that returned from the checkout is answered, and may navigate back
\* to a page that was left.
LEMMA ReturnHandles ==
  ASSUME IInv, NEW c \in Calls, ReturnAnswered(c)
  PROVE  IInv'
<1>0. /\ calls[c].kind = "return" /\ calls[c].kind \in Polls /\ calls[c].room \in Rooms
      /\ TakeCoupon(c) /\ UNCHANGED server /\ page # "checkout"
  BY DEF ReturnAnswered, Ready, IInv, CallsAreWhole, Polls
<1>1. /\ told' \subseteq Orders /\ wallet' \subseteq told'
      /\ races \subseteq races' /\ races' \subseteq races \cup {"late"}
  BY <1>0, CouponTaken
<1>2. /\ listed' \subseteq listed
      /\ \/ /\ UNCHANGED <<page, loaded, sheet, redeeming>> /\ url' \in {None, url}
            /\ calls' = [calls EXCEPT ![c] = Idle]
         \/ /\ page' \in Rooms /\ url' = None /\ ~loaded' /\ loaded' \in BOOLEAN
            /\ sheet' = NoSheet /\ redeeming' = None
            /\ calls' = [LeftBehind EXCEPT ![c] = Idle]
  BY <1>0 DEF ReturnAnswered, Show, Done, screen
<1>3. /\ calls' \in [Calls -> Requests]
      /\ \A d \in Calls :
           calls'[d].kind # "idle" =>
             /\ calls'[d].kind = calls[d].kind /\ calls'[d].order = calls[d].order
             /\ calls'[d].room = calls[d].room /\ calls'[d].answer = calls[d].answer
             /\ (~calls'[d].old => ~calls[d].old /\ page' = page)
      /\ \A d \in Calls :
           calls[d].kind = "redeem" =>
             calls'[d].kind = "redeem" /\ calls'[d].order = calls[d].order
             /\ calls'[d].answer = calls[d].answer
  <2>1. /\ calls' \in [Calls -> Requests]
        /\ calls'[c] = Idle
        /\ \/ page' = page /\ \A d \in Calls \ {c} : calls'[d] = calls[d]
           \/ \A d \in Calls \ {c} : calls'[d] = LeftBehind[d]
    BY <1>2, CallTypes
  <2>2. Idle.kind = "idle"
    BY DEF Idle
  <2>3. QED
    BY <1>0, <2>1, <2>2, CallTypes
<1>4. sheet' \in Sheets /\ (sheet'.timer # "off" => sheet'.order # None)
  <2>1. NoSheet \in Sheets /\ NoSheet.timer = "off"
    BY DEF NoSheet, Sheets, None
  <2>2. QED
    BY <1>2, <2>1 DEF IInv, TypeOK
<1>5. TypeOK'
  BY <1>0, <1>1, <1>2, <1>3, <1>4 DEF IInv, TypeOK, Pages, server
<1>6. CallsAreWhole'
  BY <1>0, <1>2, <1>3 DEF IInv, CallsAreWhole, server, Polls
<1>7. PagesAreThere'
  BY <1>0, <1>2, PurchaseAssumption DEF IInv, PagesAreThere, server, NoSheet
<1>8. AnswersStayTrue'
  BY <1>0, <1>3 DEF IInv, AnswersStayTrue, server, Polls
<1>9. CouponsAreOfLateOrders' /\ OnlyToldIsRedeemed' /\ KeptUntilUsed' /\ UsedIsOnItsWay'
  BY <1>0, <1>2, <1>3, CouponKept
<1>10. SheetIsOfItsOrder'
  BY <1>0, <1>1, <1>2, <1>3 DEF IInv, SheetIsOfItsOrder, Without, server, NoSheet
<1>11. QED
  BY <1>5, <1>6, <1>7, <1>8, <1>9, <1>10 DEF IInv

\* A coupon that was redeemed leaves the wallet.
LEMMA RedeemHandles ==
  ASSUME IInv, NEW c \in Calls, Redeemed(c)
  PROVE  IInv'
<1>0. /\ calls[c].kind = "redeem" /\ calls[c].order \in Orders
      /\ UNCHANGED <<server, page, url, loaded, sheet, told, races>>
      /\ calls' = [calls EXCEPT ![c] = Idle]
      /\ wallet' \subseteq wallet /\ listed' \subseteq listed
      /\ redeeming' \in {redeeming, None}
  BY DEF Redeemed, Ready, Done, removeCoupon, IInv, CallsAreWhole
<1>1. \/ UNCHANGED wallet /\ calls[c].answer # "ok"
      \/ /\ wallet' = wallet \ {calls[c].order} /\ calls[c].answer = "ok"
         /\ coupon[calls[c].order] = "used"
  BY <1>0 DEF Redeemed, removeCoupon, IInv, AnswersStayTrue
<1>2. /\ calls' \in [Calls -> Requests]
      /\ \A d \in Calls : calls'[d] = IF d = c THEN Idle ELSE calls[d]
  BY <1>0, CallTypes, Recorded
<1>3. TypeOK'
  BY <1>0, <1>2 DEF IInv, TypeOK, server
<1>4. CallsAreWhole'
  BY <1>0, <1>2 DEF IInv, CallsAreWhole, server, Idle, Polls
<1>5. PagesAreThere'
  BY <1>0 DEF IInv, PagesAreThere, server
<1>6. AnswersStayTrue'
  BY <1>0, <1>2 DEF IInv, AnswersStayTrue, server, Idle, Polls
<1>7. CouponsAreOfLateOrders'
  BY <1>0 DEF IInv, CouponsAreOfLateOrders, server
<1>8. OnlyToldIsRedeemed'
  BY <1>0, <1>2 DEF IInv, OnlyToldIsRedeemed, server, Idle
<1>9. KeptUntilUsed'
  BY <1>0, <1>1 DEF IInv, KeptUntilUsed, server
<1>10. SheetIsOfItsOrder'
  BY <1>0, <1>2 DEF IInv, SheetIsOfItsOrder, Without, server, Idle
<1>11. UsedIsOnItsWay'
  BY <1>0, <1>1, <1>2 DEF IInv, UsedIsOnItsWay, Without, server
<1>12. QED
  BY <1>3, <1>4, <1>5, <1>6, <1>7, <1>8, <1>9, <1>10, <1>11 DEF IInv

-----------------------------------------------------------------------------
(* The theorems.                                                           *)

LEMMA NextInvariant == IInv /\ [Next]_vars => IInv'
<1> SUFFICES ASSUME IInv, [Next]_vars
             PROVE  IInv'
  OBVIOUS
<1>1. CASE OpenSheet \/ CloseSheet \/ Rerender \/ Elapse
  BY <1>1, SheetSteps
<1>2. CASE PageLoaded \/ ClosePage \/ ReturnFromPolar \/ CancelCheckout
  BY <1>2, PageSteps
<1>3. CASE \E r \in Rooms : OpenPage(r) \/ RoomEnds(r)
  BY <1>3, PageSteps, ServerSteps
<1>4. CASE \E o \in Orders : Pay(o) \/ CouponExpires(o)
  BY <1>4, ServerSteps
<1>5. ASSUME NEW c \in Calls,
             \/ HandleConfirm(c) \/ Poll(c) \/ PollReturn(c)
             \/ \E k \in Orders : HandleApplyCoupon(c, k)
             \/ Answer(c) \/ Handle(c) \/ Fail(c)
      PROVE  IInv'
  <2>1. CASE HandleConfirm(c) \/ Poll(c) \/ PollReturn(c) \/ \E k \in Orders : HandleApplyCoupon(c, k)
    BY <2>1, AskSteps
  <2>2. CASE Answer(c) \/ Fail(c)
    BY <2>2, AnswerSteps DEF Answer
  <2>3. CASE Handle(c)
    BY <2>3, SheetHandles, PollHandles, PolarHandles, ReturnHandles, RedeemHandles DEF Handle
  <2>4. QED
    BY <1>5, <2>1, <2>2, <2>3
<1>6. CASE UNCHANGED vars
  <2>1. TypeOK' /\ CallsAreWhole' /\ PagesAreThere' /\ AnswersStayTrue'
    BY <1>6 DEF vars, server, screen, IInv, TypeOK, CallsAreWhole, PagesAreThere, AnswersStayTrue
  <2>2. CouponsAreOfLateOrders' /\ OnlyToldIsRedeemed' /\ KeptUntilUsed'
    BY <1>6 DEF vars, server, screen, IInv, CouponsAreOfLateOrders, OnlyToldIsRedeemed, KeptUntilUsed
  <2>3. SheetIsOfItsOrder' /\ UsedIsOnItsWay'
    BY <1>6 DEF vars, server, screen, IInv, SheetIsOfItsOrder, UsedIsOnItsWay, Without
  <2>4. QED
    BY <2>1, <2>2, <2>3 DEF IInv
<1>7. QED
  BY <1>1, <1>2, <1>3, <1>4, <1>5, <1>6 DEF Next

\* The invariant holds in every reachable state.
THEOREM PurchaseInvariance == Spec => []IInv
BY InitInvariant, NextInvariant, PTL DEF Spec

\* For every number of rooms, orders and calls the state is well typed.
THEOREM PurchaseTypes == Spec => []TypeOK
<1>1. IInv => TypeOK
  BY DEF IInv
<1>2. QED
  BY <1>1, PurchaseInvariance, PTL

\* What the sheet calls confirmed is settled, unless two purchases overlap.
THEOREM ConfirmedIsAlwaysPaid == Spec => []ConfirmedIsPaid
BY InvariantImplies, PurchaseInvariance, PTL

\* A coupon the browser was told of is in its wallet until it is used or expires,
\* whatever fails, whichever calls overlap.
THEOREM CouponsAreKept == Spec => []KeptUntilUsed
BY InvariantImplies, PurchaseInvariance, PTL

\* A used coupon leaves the wallet with the answer to its redemption, unless that is lost
\* or another poll of its order is answered late.
THEOREM UsedCouponsAreForgotten == Spec => []UsedIsForgotten
BY InvariantImplies, PurchaseInvariance, PTL
=============================================================================
