-------------------------------- MODULE Join --------------------------------
(***************************************************************************)
(* Entering and leaving a room: the invite link and the join page with its *)
(* "room is full" face (pages/JoinPage.tsx), what the browser keeps of a   *)
(* join (HotelManager.joinRoom, persist) and writes again after a boost    *)
(* (loadAll, updateExpiry), and how a member leaves                        *)
(* (components/chat/RoomDetailDrawer.tsx).                                 *)
(*                                                                         *)
(* One room that does not end, one browser with several tabs, and others.  *)
(* Tabs share localStorage; what a tab has in memory it read at its start. *)
(* What stands between two awaits is one step.  The purchase itself is the *)
(* subject of Purchase and stands here as one step.                        *)
(***************************************************************************)
EXTENDS Integers, Sequences

CONSTANTS
  Tabs,       \* tabs of this browser
  Calls,      \* bound on the requests that wait at the same time
  Cap, Tier,  \* max_participants at first, and with the boost that is on offer
  Opens, Closes, Failures   \* bounds: tabs and links opened, tabs closed,
                            \* requests that fail

ASSUME JoinAssumption ==
  /\ {Cap, Tier, Opens, Closes, Failures} \subseteq Nat
  /\ 0 < Cap /\ Cap < Tier
  /\ Tabs \cap Calls = {}   \* both are in overtaken

VARIABLES
  slots,     \* the room's users: whose each is; a uid is a position
  left,      \* the uids whose left_at is set
  max,       \* max_participants
  coupon,    \* whether the browser's coupon is unused, on the server
  order,     \* the status of the order made from a tab, "none" before
  record,    \* the uid of the room's record in localStorage, 0 without a record
  wallet,    \* whether the coupon is in localStorage
  sess,      \* the uid of the session a tab has in memory, 0 without a session
  tab,       \* what a tab shows: its phase; of the full page, what it knows; and whether
             \* only its chat page still has the session, its HotelManager not
  calls,     \* requests that wait
  overtaken, \* history: orders and redemptions that wait, and somebody has joined
  budget,    \* history: what is left of the bounds
  races      \* history: kinds of race and failure that have happened

server == <<slots, left, max, coupon, order>>
browser == <<record, wallet, sess, tab>>
vars == <<server, browser, calls, overtaken, budget, races>>

\* The phases of JoinPage ("expired" and "error" are both "Invalid invite"), and
\* where else a tab can be.
Phases == {"closed", "starting", "home", "extracting", "name", "joining", "full", "error",
           "expired", "chat", "checkout", "returning"}
Unknown == [count |-> 0, max |-> 0]
At(phase) == [phase |-> phase, seen |-> Unknown, listed |-> FALSE, redeeming |-> FALSE,
              paying |-> FALSE, forgotten |-> FALSE]
Form(seen) == [At("name") EXCEPT !.seen = seen]

\* The full page, with what it was told of the room; eligibleCoupons.
Full(seen) ==
  [At("full") EXCEPT !.seen = seen,
                     !.listed = wallet /\ (seen = Unknown \/ Tier > seen.count)]

\* A request of a tab; its page is there, left ("old"), or its tab is "gone".
Idle == [kind |-> "idle", tab |-> "none", page |-> "here", answer |-> "none",
         uid |-> 0, seen |-> Unknown]
Ask(kind, t) == [Idle EXCEPT !.kind = kind, !.tab = t]
Free(c) == calls[c].kind = "idle"
Pending(c, kind) == calls[c].kind = kind /\ calls[c].answer = "none"
Ready(c, kind) == calls[c].kind = kind /\ calls[c].answer # "none" /\ calls[c].page # "gone"
Shown(c) == calls[c].page = "here"
Done(c) == calls' = [calls EXCEPT ![c] = Idle]
Spend(kind) == budget[kind] > 0 /\ budget' = [budget EXCEPT ![kind] = @ - 1]
Become(t, phase) == tab' = [tab EXCEPT ![t] = At(phase)]

-----------------------------------------------------------------------------
(* The room on the server.                                                 *)

Count == Len(slots)
Info == [count |-> Count, max |-> max]
Mine == {u \in 1..Count : slots[u] = "me" /\ u \notin left}

\* Mutant: the cap is compared the wrong way.
MayOverfill == Count <= max

HasRoom == Count < max

\* Mutant: a boost is sold to a non-member whatever it holds.
Always == TRUE

\* The capacity check of a non-member, when an order is made or a coupon redeemed.
MakesRoom == Tier > Count

Enter(who) ==
  /\ slots' = Append(slots, who)
  /\ overtaken' = overtaken \cup {t \in Tabs : order[t] = "pending"}
                            \cup {c \in Calls : calls[c].kind = "apply"}

RaiseCap == max' = IF Tier > max THEN Tier ELSE max

-----------------------------------------------------------------------------
(* Tabs and links.                                                         *)

\* A new document shows nothing before loadAll has read the record, and asked for the room
\* when there is one.
loadAll(t, c, loading, page) ==
  /\ sess' = [sess EXCEPT ![t] = record]
  /\ IF record = 0
     THEN Become(t, page) /\ UNCHANGED calls
     ELSE /\ Free(c)
          /\ Become(t, loading)
          /\ calls' = [calls EXCEPT ![c] = Ask("refresh", t)]

\* A tab is opened.
Start(t, c) ==
  /\ tab[t].phase = "closed"
  /\ Spend("open")
  /\ loadAll(t, c, "starting", "home")
  /\ UNCHANGED <<server, record, wallet, overtaken, races>>

\* The room was boosted: a deadline that the browser keeps may be the old one, and be over
\* before the room is.
Boosted == max > Cap

\* An answer of getRoom that tells of a boost.
TellsOfBoost(c) == calls[c].answer = "ok" /\ calls[c].seen.max > Cap

\* What a tab has in memory is written over whatever record there is by now.
updateExpiry(t) ==
  /\ record' = sess[t]
  /\ races' = races \cup IF record \in Mine \ {sess[t]} THEN {"overwritten"} ELSE {}

\* The room seems to have ended.
SeemsOver ==
  /\ record' = 0
  /\ races' = races \cup IF record \in Mine THEN {"untimely"} ELSE {}

\* The rest of loadAll: a deadline that a boost had moved by the answer is written back, or,
\* when a further boost overtook the answer, is over.  A chat page looks for its session.
Loaded(c) ==
  LET t == calls[c].tab IN
    /\ Ready(c, "refresh")
    /\ Done(c)
    /\ \/ UNCHANGED <<record, sess, races>>
       \/ TellsOfBoost(c) /\ updateExpiry(t) /\ UNCHANGED sess
       \/ TellsOfBoost(c) /\ SeemsOver /\ sess' = [sess EXCEPT ![t] = 0]
    /\ Become(t, IF tab[t].phase # "returning" THEN "home"
                 ELSE IF sess'[t] # 0 THEN "chat" ELSE "expired")
    /\ UNCHANGED <<server, wallet, overtaken, budget>>

\* A card's countdown is over: verifyExpiredRoom, up to getRoom.
Verify(t, c) ==
  /\ tab[t].phase = "home" /\ sess[t] # 0
  /\ Boosted
  /\ Free(c)
  /\ calls' = [calls EXCEPT ![c] = Ask("verify", t)]
  /\ UNCHANGED <<server, browser, overtaken, budget, races>>

\* Its rest, whatever the tab shows by now.  A room that was removed meanwhile is not written
\* back; one that seems over is removed under the chat page that shows it.
Verified(c) ==
  LET t == calls[c].tab
      forgets == tab[t].phase = "chat" IN
    /\ Ready(c, "verify")
    /\ Done(c)
    /\ \/ /\ ~TellsOfBoost(c) \/ sess[t] = 0 \/ tab[t].forgotten
          /\ UNCHANGED <<record, sess, tab, races>>
       \/ /\ TellsOfBoost(c) /\ sess[t] # 0 /\ ~tab[t].forgotten
          /\ updateExpiry(t)
          /\ UNCHANGED <<sess, tab>>
       \/ /\ TellsOfBoost(c)
          /\ SeemsOver
          /\ tab' = [tab EXCEPT ![t].forgotten = forgets]
          /\ sess' = [sess EXCEPT ![t] = IF forgets THEN @ ELSE 0]
    /\ UNCHANGED <<server, wallet, overtaken, budget>>

\* The requests of a tab whose page is left, or that is closed.
Orphaned(t, how) ==
  [c \in Calls |-> IF calls[c].tab # t \/ calls[c].page = "gone" THEN calls[c]
                   ELSE IF how = "gone" /\ calls[c].answer # "none" THEN Idle
                   ELSE [calls[c] EXCEPT !.page = how]]

\* What a join or a leave did is lost when nobody reads its answer.
Unread(cs) ==
  IF \E c \in cs : calls[c].kind \in {"join", "leave"} /\ calls[c].answer = "ok"
  THEN {"lost"} ELSE {}
OfTab(t) == {c \in Calls : calls[c].tab = t}
Waiting(t, kinds) == \E c \in OfTab(t) : Shown(c) /\ calls[c].kind \in kinds

CloseTab(t) ==
  /\ tab[t].phase # "closed"
  /\ Spend("close")
  /\ Become(t, "closed")
  /\ sess' = [sess EXCEPT ![t] = 0]
  /\ calls' = Orphaned(t, "gone")
  /\ races' = races \cup Unread(OfTab(t))
  /\ UNCHANGED <<server, record, wallet, overtaken>>

GoHome(t) ==
  /\ tab[t].phase \notin {"closed", "starting", "home", "checkout", "returning"}
  /\ Become(t, "home")
  /\ sess' = [sess EXCEPT ![t] = IF tab[t].forgotten THEN 0 ELSE @]
  /\ calls' = Orphaned(t, "old")
  /\ UNCHANGED <<server, record, wallet, overtaken, budget, races>>

\* A member opens the room from the dashboard.
OpenChat(t) ==
  /\ tab[t].phase = "home" /\ sess[t] # 0
  /\ Become(t, "chat")
  /\ UNCHANGED <<server, record, wallet, sess, calls, overtaken, budget, races>>

\* An invite link has the room's key behind the #; copied by hand it may have lost it.
\* JoinLinkSheet takes only one with a key, the address bar any.
inviteUrl == "keyed"
Links == {inviteUrl, "bare"}
parseInviteLink(link) == link # "bare"

\* JoinPage's first effect, up to getRoom.
OpenLink(t, c) ==
  /\ tab[t].phase = "home"
  /\ Spend("open")
  /\ \E link \in Links :
       \/ sess[t] # 0 /\ Become(t, "chat") /\ UNCHANGED calls
       \/ sess[t] = 0 /\ ~parseInviteLink(link) /\ Become(t, "error") /\ UNCHANGED calls
       \/ /\ sess[t] = 0 /\ parseInviteLink(link)
          /\ Free(c)
          /\ Become(t, "extracting")
          /\ calls' = [calls EXCEPT ![c] = Ask("open", t)]
  /\ UNCHANGED <<server, record, wallet, sess, overtaken, races>>

\* Its rest.
LinkOpened(c) ==
  LET t == calls[c].tab
      seen == calls[c].seen IN
    /\ Ready(c, "open")
    /\ Done(c)
    /\ tab' = IF ~Shown(c) THEN tab
              ELSE IF calls[c].answer # "ok" THEN [tab EXCEPT ![t] = At("error")]
              ELSE [tab EXCEPT ![t] = IF seen.count >= seen.max THEN Full(seen) ELSE Form(seen)]
    /\ UNCHANGED <<server, record, wallet, sess, overtaken, budget, races>>

-----------------------------------------------------------------------------
(* Joining.                                                                *)

CanJoin(t) == tab[t].phase = "name"

HandleJoin(t, c) ==
  /\ CanJoin(t)
  /\ Free(c)
  /\ tab' = [tab EXCEPT ![t].phase = "joining"]
  /\ calls' = [calls EXCEPT ![c] = Ask("join", t)]
  /\ UNCHANGED <<server, record, wallet, sess, overtaken, budget, races>>

\* Mutant: a join is kept only by the page that shows it.
PersistShown(c) == record' = IF Shown(c) THEN calls[c].uid ELSE record

persist(c) == record' = calls[c].uid

\* The answer is handled, and the chat page shown, whatever the tab shows by now.
Joined(c) ==
  LET t == calls[c].tab IN
    /\ Ready(c, "join") /\ calls[c].answer = "ok"
    /\ persist(c)
    /\ sess' = [sess EXCEPT ![t] = calls[c].uid]
    /\ Become(t, "chat")
    /\ calls' = [Orphaned(t, "old") EXCEPT ![c] = Idle]
    /\ UNCHANGED <<server, wallet, overtaken, budget, races>>

\* A refusal: the room is fetched again for the full page, anything else is an error.
NotJoined(c) ==
  LET t == calls[c].tab IN
    /\ Ready(c, "join") /\ calls[c].answer # "ok"
    /\ IF calls[c].answer = "room_full"
       THEN calls' = [calls EXCEPT ![c] = [Ask("refetch", t) EXCEPT !.page = calls[c].page]]
            /\ UNCHANGED tab
       ELSE Done(c) /\ IF Shown(c) THEN Become(t, "error") ELSE UNCHANGED tab
    /\ UNCHANGED <<server, record, wallet, sess, overtaken, budget, races>>

\* Mutant: a failed fetch is not caught.
ShowFetched(t, c) ==
  tab' = IF calls[c].answer = "ok" THEN [tab EXCEPT ![t] = Full(calls[c].seen)] ELSE tab

\* The full page follows also when the fetch failed, or found that there is room by now.
ShowFull(t, c) ==
  tab' = [tab EXCEPT ![t] =
            Full(IF calls[c].answer = "ok" THEN calls[c].seen ELSE tab[t].seen)]

Refetched(c) ==
  /\ Ready(c, "refetch")
  /\ Done(c)
  /\ IF Shown(c) THEN ShowFull(calls[c].tab, c) ELSE UNCHANGED tab
  /\ UNCHANGED <<server, record, wallet, sess, overtaken, budget, races>>

-----------------------------------------------------------------------------
(* RoomFullPage.                                                           *)

CanApply(t) == tab[t].phase = "full" /\ tab[t].listed /\ ~tab[t].redeeming

HandleApplyCoupon(t, c) ==
  /\ CanApply(t)
  /\ Free(c)
  /\ tab' = [tab EXCEPT ![t].redeeming = TRUE]
  /\ calls' = [calls EXCEPT ![c] = Ask("redeem", t)]
  /\ UNCHANGED <<server, record, wallet, sess, overtaken, budget, races>>

\* onCouponApplied shows the form.
Redeemed(c) ==
  LET t == calls[c].tab IN
    /\ Ready(c, "redeem")
    /\ Done(c)
    /\ wallet' = (wallet /\ calls[c].answer # "ok")
    /\ tab' = IF ~Shown(c) THEN tab
              ELSE IF calls[c].answer = "ok" THEN [tab EXCEPT ![t] = Form(tab[t].seen)]
              ELSE [tab EXCEPT ![t].redeeming = FALSE]
    /\ UNCHANGED <<server, record, sess, overtaken, budget, races>>

\* A boost above the cap the page knows is bought (one order per tab).  SePay's QR code is
\* shown over the full page; Polar's checkout takes its place.
Buy(t) ==
  /\ tab[t].phase = "full" /\ ~tab[t].paying
  /\ tab[t].seen = Unknown \/ Tier > tab[t].seen.max
  /\ order[t] = "none"
  /\ MakesRoom
  /\ order' = [order EXCEPT ![t] = "pending"]
  /\ \/ tab' = [tab EXCEPT ![t].paying = TRUE] /\ UNCHANGED <<calls, sess, races>>
     \/ /\ Become(t, "checkout")
        /\ sess' = [sess EXCEPT ![t] = 0]
        /\ calls' = Orphaned(t, "gone")
        /\ races' = races \cup Unread(OfTab(t))
  /\ UNCHANGED <<slots, left, max, coupon, record, wallet, overtaken, budget>>

\* The sheet closes once its order is completed, and nothing else happens: onRedirect.
SheetCloses(t) ==
  /\ tab[t].paying /\ order[t] = "completed"
  /\ tab' = [tab EXCEPT ![t].paying = FALSE]
  /\ UNCHANGED <<server, record, wallet, sess, calls, overtaken, budget, races>>

\* The checkout ends at /chat/{roomId}?orderId=, in a new document: who is not a member is
\* sent on to /join/{roomId}?orderId=, where there is no key.
ReturnFromPolar(t, c) ==
  /\ tab[t].phase = "checkout"
  /\ loadAll(t, c, "returning", "expired")
  /\ UNCHANGED <<server, record, wallet, overtaken, budget, races>>

-----------------------------------------------------------------------------
(* RoomDetailDrawer: "Leave & delete room"; and the end of a countdown.    *)

HandleLeave(t, c) ==
  /\ tab[t].phase = "chat"
  /\ Free(c)
  /\ \A d \in Calls : calls[d].kind = "leave" => calls[d].tab # t \/ calls[d].page # "here"
  /\ calls' = [calls EXCEPT ![c] = [Ask("leave", t) EXCEPT !.uid = sess[t]]]
  /\ UNCHANGED <<server, browser, overtaken, budget, races>>

\* Mutant: the session stays in memory.
RemoveRecord(t) == record' = 0 /\ UNCHANGED sess

\* The record is removed whatever the server said.
removeRoom(t) == record' = 0 /\ sess' = [sess EXCEPT ![t] = 0]

LeaveAnswered(c) ==
  LET t == calls[c].tab IN
    /\ Ready(c, "leave")
    /\ removeRoom(t)
    /\ Become(t, "home")
    /\ calls' = [Orphaned(t, "old") EXCEPT ![c] = Idle]
    /\ races' = races \cup (IF calls[c].answer # "ok" THEN {"unleft"} ELSE {})
                     \cup (IF \E s \in Tabs \ {t} : sess[s] # 0 THEN {"elsewhere"} ELSE {})
                     \cup (IF record \in Mine \ {calls[c].uid} THEN {"misled"} ELSE {})
    /\ UNCHANGED <<server, wallet, overtaken, budget>>

\* handleExpiry: the chat page's countdown runs to the deadline it loaded, whatever boost
\* has come since.
PageExpires(t) ==
  /\ tab[t].phase = "chat"
  /\ Boosted
  /\ SeemsOver
  /\ removeRoom(t)
  /\ Become(t, "home")
  /\ calls' = Orphaned(t, "old")
  /\ UNCHANGED <<server, wallet, overtaken, budget>>

-----------------------------------------------------------------------------
(* The server, others, and the network.                                    *)

\* A request is answered; that of a closed tab may still arrive.
Reply(c, answer) ==
  calls' = [calls EXCEPT ![c] = IF @.page = "gone" THEN Idle ELSE [@ EXCEPT !.answer = answer]]

\* GetRoom.
AnswerRoom(c) ==
  /\ \E kind \in {"open", "refetch", "refresh", "verify"} : Pending(c, kind)
  /\ calls' = [calls EXCEPT ![c] = IF @.page = "gone" THEN Idle
                                   ELSE [@ EXCEPT !.answer = "ok", !.seen = Info]]
  /\ UNCHANGED <<server, browser, overtaken, budget, races>>

\* JoinRoom.
AnswerJoin(c) ==
  /\ Pending(c, "join")
  /\ IF HasRoom
     THEN /\ Enter("me")
          /\ calls' = [calls EXCEPT ![c] = IF @.page = "gone" THEN Idle
                                           ELSE [@ EXCEPT !.answer = "ok", !.uid = Count + 1]]
          /\ races' = races \cup (IF Mine # {} THEN {"doubled"} ELSE {})
                           \cup (IF calls[c].page = "gone" THEN {"lost"} ELSE {})
     ELSE Reply(c, "room_full") /\ UNCHANGED <<slots, overtaken, races>>
  /\ UNCHANGED <<left, max, coupon, order, browser, budget>>

\* RedeemCoupon by a non-member: its checks, then ApplyBoost and MarkCouponUsed.
CheckRedeem(c) ==
  /\ Pending(c, "redeem")
  /\ IF coupon = "unused" /\ MakesRoom
     THEN calls' = [calls EXCEPT ![c].kind = "apply"]
     ELSE Reply(c, "refused")
  /\ UNCHANGED <<server, browser, overtaken, budget, races>>

ApplyRedeem(c) ==
  /\ Pending(c, "apply")
  /\ coupon' = "used"
  /\ RaiseCap
  /\ calls' = [calls EXCEPT ![c] = IF @.page = "gone" THEN Idle
                                   ELSE [@ EXCEPT !.kind = "redeem", !.answer = "ok"]]
  /\ overtaken' = overtaken \ {c}
  /\ UNCHANGED <<slots, left, order, browser, budget, races>>

\* LeaveRoom.
AnswerLeave(c) ==
  /\ Pending(c, "leave")
  /\ left' = left \cup {calls[c].uid}
  /\ Reply(c, "ok")
  /\ races' = races \cup IF calls[c].page = "gone" THEN {"lost"} ELSE {}
  /\ UNCHANGED <<slots, max, coupon, order, browser, overtaken, budget>>

\* A request fails, or the answer to a join is lost.
Fail(c) ==
  /\ calls[c].kind \notin {"idle", "apply"} /\ calls[c].answer = "none"
  /\ Spend("failure")
  /\ Reply(c, "error")
  /\ \/ UNCHANGED <<slots, overtaken, races>>
     \/ /\ calls[c].kind = "join" /\ HasRoom
        /\ Enter("me")
        /\ races' = races \cup {"lost"}
  /\ UNCHANGED <<left, max, coupon, order, browser>>

\* The provider's webhook: ApplyBoost, with no look at the members.
Pay(t) ==
  /\ order[t] = "pending"
  /\ order' = [order EXCEPT ![t] = "completed"]
  /\ RaiseCap
  /\ overtaken' = overtaken \ {t}
  /\ UNCHANGED <<slots, left, coupon, browser, calls, budget, races>>

SomeoneJoins ==
  /\ HasRoom
  /\ Enter("other")
  /\ UNCHANGED <<left, max, coupon, order, browser, calls, budget, races>>

SomeoneBoosts ==
  /\ RaiseCap
  /\ UNCHANGED <<slots, left, coupon, order, browser, calls, overtaken, budget, races>>

Init ==
  /\ slots = <<"other">> /\ left = {} /\ max = Cap
  /\ coupon = "unused" /\ wallet = TRUE
  /\ order = [t \in Tabs |-> "none"]
  /\ record = 0
  /\ sess = [t \in Tabs |-> 0]
  /\ tab = [t \in Tabs |-> At("closed")]
  /\ calls = [c \in Calls |-> Idle]
  /\ overtaken = {} /\ races = {}
  /\ budget = [open |-> Opens, close |-> Closes, failure |-> Failures]

Answer(c) == AnswerRoom(c) \/ AnswerJoin(c) \/ CheckRedeem(c) \/ ApplyRedeem(c) \/ AnswerLeave(c)
Handle(c) ==
  LinkOpened(c) \/ Joined(c) \/ NotJoined(c) \/ Refetched(c) \/ Redeemed(c) \/ LeaveAnswered(c)
  \/ Loaded(c) \/ Verified(c)

Next ==
  \/ SomeoneJoins \/ SomeoneBoosts
  \/ \E t \in Tabs :
       \/ CloseTab(t) \/ GoHome(t) \/ OpenChat(t) \/ PageExpires(t)
       \/ Buy(t) \/ SheetCloses(t) \/ Pay(t)
       \/ \E c \in Calls :
            \/ Start(t, c) \/ ReturnFromPolar(t, c) \/ Verify(t, c)
            \/ OpenLink(t, c) \/ HandleJoin(t, c)
            \/ HandleApplyCoupon(t, c) \/ HandleLeave(t, c)
  \/ \E c \in Calls : Answer(c) \/ Handle(c) \/ Fail(c)

\* Requests are answered or fail, and answers are handled.
Fairness ==
  \A c \in Calls : WF_vars(Answer(c)) /\ WF_vars(Handle(c))

Spec == Init /\ [][Next]_vars /\ Fairness

-----------------------------------------------------------------------------
(* Properties.                                                             *)

Without(kinds) == races \cap kinds = {}

\* What can part a member from its record.
Slips == {"lost", "doubled", "unleft", "misled", "overwritten", "untimely"}

Kinds == {"idle", "refresh", "verify", "open", "join", "refetch", "redeem", "apply", "leave"}
Counts == [count : Nat, max : Nat]
Views == [phase : Phases, seen : Counts, listed : BOOLEAN, redeeming : BOOLEAN, paying : BOOLEAN,
          forgotten : BOOLEAN]
Requests == [kind : Kinds, tab : Tabs \cup {"none"}, page : {"here", "old", "gone"},
             answer : {"none", "ok", "room_full", "refused", "error"}, uid : Nat, seen : Counts]

\* The types, and the cap.
TypeOK ==
  /\ slots \in Seq({"me", "other"}) /\ Count <= max
  /\ left \subseteq 1..Count
  /\ max \in {Cap, Tier}
  /\ coupon \in {"unused", "used"} /\ wallet \in BOOLEAN
  /\ order \in [Tabs -> {"none", "pending", "completed"}]
  /\ record \in 0..Count
  /\ sess \in [Tabs -> 0..Count]
  /\ tab \in [Tabs -> Views]
  /\ \A t \in Tabs : tab[t].listed \/ tab[t].redeeming \/ tab[t].paying => tab[t].phase = "full"
  /\ calls \in [Calls -> Requests]
  /\ \A c \in Calls : calls[c].uid <= Count
  /\ overtaken \subseteq Tabs \cup Calls
  /\ races \subseteq Slips \cup {"elsewhere"}

\* A place in the room that this browser took and has not given back is the one its record
\* names, or a join that is on its way to the record: a member can always return.  Except
\* when an answer is lost or its tab closed, when it joined while it was a member, when a
\* leave failed, or came late and removed the record of a new join, when a tab that has not
\* seen another join wrote its own uid over it (loadAll, updateExpiry), or when a boost was
\* missed and the room removed as over (handleExpiry, verifyExpiredRoom).
MembersAreKept ==
  Without(Slips) =>
    \A u \in Mine :
      record = u \/ \E c \in Calls : calls[c].kind = "join" /\ calls[c].uid = u

\* Who is shown the chat is a member of the room and has not left; except in a tab that has
\* not seen the room removed in another, or when nobody was left to hear that it had left.
ChatsAsMember ==
  \A t \in Tabs :
    tab[t].phase = "chat" =>
      /\ sess[t] # 0 /\ slots[sess[t]] = "me"
      /\ sess[t] \in left /\ Without({"elsewhere", "lost"}) =>
           \E c \in Calls : calls[c].kind = "leave" /\ calls[c].uid = sess[t]

BoostStep ==
  /\ \A t \in Tabs \ overtaken :
       order[t] = "pending" /\ order'[t] = "completed" => Len(slots') < max'
  /\ \A c \in Calls \ overtaken :
       calls[c].kind = "apply" /\ calls'[c].kind # "apply" => Len(slots') < max'

\* A boost by somebody outside, paid for or from a coupon, leaves room for them; except when
\* others joined between its check and its effect.
BoostMakesRoom == [][BoostStep]_vars

\* What a new document and the join page wait for is under way: no spinner, and no disabled
\* button, stays after the last answer.
SpinnersWait ==
  \A t \in Tabs :
    /\ tab[t].phase \in {"starting", "returning"} => Waiting(t, {"refresh"})
    /\ tab[t].phase = "extracting" => Waiting(t, {"open"})
    /\ tab[t].phase = "joining" => Waiting(t, {"join", "refetch"})
    /\ tab[t].redeeming => Waiting(t, {"redeem", "apply"})

\* Who paid for a boost to enter is not left on a page that offers no way in.
PaidEntryResumes ==
  LET Waits(t) == order[t] = "completed" /\ tab[t].phase \in {"full", "expired"} IN
    \A t \in Tabs : Waits(t) ~> ~Waits(t)
=============================================================================
