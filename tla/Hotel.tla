------------------------------- MODULE Hotel -------------------------------
(***************************************************************************)
(* How a browser keeps a room it is a member of: the record in             *)
(* localStorage and in memory (webapp/src/services/HotelManager.ts), the   *)
(* dashboard's list and countdowns (hooks/useRooms.ts, useCountdown.ts,    *)
(* components/dashboard/RoomCard.tsx, context/HotelContext.tsx) and the    *)
(* chat page's own countdown (pages/ChatPage.tsx), against the server's    *)
(* expires_at, which boosts move.                                          *)
(*                                                                         *)
(* What stands between two awaits is one step; the calls of getRoom that   *)
(* wait are answered, and go on, in any order.                             *)
(***************************************************************************)
EXTENDS Integers, FiniteSets

CONSTANTS
  TTL,        \* a new room's life
  MaxTime,    \* bound on the clock
  MaxBoosts,  \* bound on the boosts, each of one unit
  Calls,      \* bound on the calls that wait at the same time
  Failures, Visits, Restarts, Changes   \* bounds: failed requests, pages
                                        \* opened, browser restarts, changes
                                        \* of the other rooms in the list

ASSUME HotelAssumption ==
  /\ {TTL, MaxTime} \subseteq Nat \ {0}
  /\ {MaxBoosts, Failures, Visits, Restarts, Changes} \subseteq Nat

VARIABLES
  now,      \* the time
  exp,      \* the server's expires_at
  deleted,  \* whether the server deleted the room before that
  member,   \* whether this browser's user joined and did not leave
  stored,   \* expiresAt of the record in localStorage, None without one
  meta,     \* expiresAt in metadata (and the session with it), None without
  expired,  \* the room's state in expiredRooms, "none" when it is not there
  view,     \* what the browser shows: "closed", "starting", "dashboard", "chat"
  shown,    \* the room in the dashboard's list
  card,     \* the countdown of its card
  pageExp,  \* roomInfo.expiresAt of the chat page, None until it is loaded
  frames,   \* "room:boosted" frames on their way to the chat page
  calls,    \* the async calls that wait
  budget,   \* history: what is left of the bounds
  races     \* history: kinds of race and failure that have happened

record == <<stored, meta, expired>>
screen == <<view, shown, card, pageExp, frames>>
vars == <<now, exp, deleted, member, record, screen, calls, budget, races>>

None == 0
Error == -1
\* The room is on the server.
Live == exp > now /\ ~deleted

\* A call: why it was made ("verify", "refresh", "page", "joined", "persist", or
\* "old" for the load of a page that is gone), whether it is answered, and the
\* expiresAt it was answered with (None for a 404, Error when the server was
\* not reached).
Idle == [kind |-> "idle", done |-> FALSE, answer |-> None]
Ask(kind) == [kind |-> kind, done |-> FALSE, answer |-> None]

Free(c) == calls[c].kind = "idle"
Ready(c, kind) == calls[c].kind = kind /\ calls[c].done
Waits(kind) == \E c \in Calls : calls[c].kind = kind
Spend(kind) == budget[kind] > 0 /\ budget' = [budget EXCEPT ![kind] = @ - 1]

\* What an unmounted page was told of its room changes nothing any more, but
\* the load goes on: a failure still navigates home.
Unmounted(f) ==
  [c \in Calls |-> CASE f[c].kind = "joined" -> Idle
                     [] f[c].kind = "page"   -> [f[c] EXCEPT !.kind = "old"]
                     [] OTHER                -> f[c]]

-----------------------------------------------------------------------------
(* The dashboard.                                                          *)

NotListed == [exp |-> None, state |-> "none"]

\* listRooms: an expired room is listed only while it is in expiredRooms.
ListRooms(m, x) ==
  IF m = None \/ (m <= now /\ x = "none") THEN NotListed
  ELSE [exp |-> m, state |-> IF m > now THEN "none" ELSE x]

\* Mutant: a card that comes back does not start its countdown.
CardKept(list) == IF list = NotListed THEN "none" ELSE IF card = "none" THEN "done" ELSE card

\* A card's countdown restarts with expiresAt; one that is over calls onExpiry
\* once more before it does ("again"), as its effect still sees remaining = 0.
CardOf(list) ==
  IF list = NotListed THEN "none"
  ELSE IF shown = NotListed THEN "ticking"
  ELSE IF shown.exp # list.exp /\ card = "done" THEN "again" ELSE card

\* useRooms after a "change" event, and the cards with it.
Dispatch(m, x) ==
  IF view = "dashboard"
  THEN shown' = ListRooms(m, x) /\ card' = CardOf(ListRooms(m, x))
  ELSE UNCHANGED <<shown, card>>

\* An expired room that is not listed although nobody verifies it.
Hides(m, x) == IF m # None /\ m <= now /\ x = "none" THEN {"hidden"} ELSE {}

\* The dashboard is mounted: from the start, or from the chat page.
ToDashboard(m, x) ==
  /\ view' = "dashboard"
  /\ shown' = ListRooms(m, x)
  /\ card' = IF ListRooms(m, x) = NotListed THEN "none" ELSE "ticking"
  /\ pageExp' = None
  /\ frames' = 0
  /\ races' = races \cup Hides(m, x)

\* The chat page is mounted.
ToChat ==
  /\ view' = "chat"
  /\ shown' = NotListed
  /\ card' = "none"
  /\ pageExp' = None
  /\ frames' = 0

\* Another room of the list was verified, boosted or removed.
OtherRoomChanges ==
  /\ view = "dashboard"
  /\ Spend("change")
  /\ Dispatch(meta, expired)
  /\ races' = races \cup Hides(meta, expired)
  /\ UNCHANGED <<now, exp, deleted, member, record, view, pageExp, frames, calls>>

Over(t) == t <= now

\* RoomCard's onExpiry, hotelActions.verifyExpiredRoom: the change event comes
\* before verifyExpiredRoom puts the room in expiredRooms.
CardExpires(c) ==
  /\ view = "dashboard"
  /\ \/ card = "ticking" /\ Over(shown.exp)
     \/ card = "again"
  /\ Free(c)
  /\ meta # None
  /\ LET list == ListRooms(meta, expired) IN
       /\ shown' = list
       /\ card' = IF list = NotListed THEN "none"
                  ELSE IF Over(list.exp) THEN "done" ELSE "ticking"
  /\ expired' = "checking"
  /\ calls' = [calls EXCEPT ![c] = Ask("verify")]
  /\ UNCHANGED <<now, exp, deleted, member, stored, meta, view, pageExp, frames, budget, races>>

-----------------------------------------------------------------------------
(* HotelManager.                                                           *)

removeRoom ==
  /\ stored' = None
  /\ meta' = None
  /\ expired' = "none"

\* Mutant: whatever the server does not confirm is removed.
RemoveUnlessConfirmed(answer) == answer <= now

\* A 404, or an expiresAt that has passed.
ToBeRemoved(answer) == answer # Error /\ answer <= now

\* Mutant: the list is not refreshed at the end.
NoDispatch(m, x) == UNCHANGED <<shown, card>>

DispatchAfter(m, x) == Dispatch(m, x)

\* Mutant: a record that is no longer there is written all the same.
UpdateUnchecked(expiresAt) == stored' = expiresAt /\ meta' = expiresAt

updateExpiry(expiresAt) ==
  IF meta = None THEN UNCHANGED <<stored, meta>> ELSE stored' = expiresAt /\ meta' = expiresAt

\* The rest of verifyExpiredRoom, once getRoom is answered, and the change
\* event after it; the one of loadAll ends the start.
VerifyDone(c) ==
  /\ Ready(c, "verify")
  /\ LET answer == calls[c].answer IN
       CASE ToBeRemoved(answer) -> removeRoom
         [] answer = Error      -> expired' = "unreachable" /\ UNCHANGED <<stored, meta>>
         [] OTHER               -> updateExpiry(answer) /\ expired' = "none"
  /\ calls' = [calls EXCEPT ![c] = Idle]
  /\ IF view = "starting"
     THEN ToDashboard(meta', expired')
     ELSE /\ DispatchAfter(meta', expired')
          /\ races' = races \cup IF view = "dashboard" THEN Hides(meta', expired') ELSE {}
          /\ UNCHANGED <<view, pageExp, frames>>
  /\ UNCHANGED <<now, exp, deleted, member, budget>>

\* loadAll, for a record that has not expired: a changed expiresAt is taken
\* over; a failure, and a room that is gone, keep the record.
RefreshDone(c) ==
  /\ Ready(c, "refresh")
  /\ LET answer == calls[c].answer IN
       IF answer \in {Error, None} THEN UNCHANGED <<stored, meta>>
       ELSE stored' = answer /\ meta' = answer
  /\ calls' = [calls EXCEPT ![c] = Idle]
  /\ ToDashboard(meta', expired)
  /\ UNCHANGED <<now, exp, deleted, member, expired, budget>>

\* loadAll: the record is restored and the server asked.
Start(c) ==
  /\ view = "closed"
  /\ Free(c)
  /\ meta' = stored
  /\ IF stored = None
     THEN /\ expired' = "none" /\ calls' = calls
          /\ ToDashboard(None, "none")
     ELSE /\ expired' = IF stored <= now THEN "checking" ELSE "none"
          /\ calls' = [calls EXCEPT ![c] = Ask(IF stored <= now THEN "verify" ELSE "refresh")]
          /\ view' = "starting"
          /\ UNCHANGED <<shown, card, pageExp, frames, races>>
  /\ UNCHANGED <<now, exp, deleted, member, stored, budget>>

\* Mutant: the browser's own idea of how long a new room lives.
OwnDeadline == now + TTL

ServerDeadline == exp

\* joinRoom: the server has added the member; keys and names are still being
\* encrypted before the record is written.
Join(c) ==
  /\ view = "dashboard"
  /\ Live
  /\ ~member /\ meta = None
  /\ Free(c)
  /\ Spend("visit")
  /\ member' = TRUE
  /\ calls' = [calls EXCEPT ![c] =
                 [kind |-> "persist", done |-> TRUE, answer |-> ServerDeadline]]
  /\ UNCHANGED <<now, exp, deleted, record, screen, races>>

\* persist, then the chat page opens.
Persist(c) ==
  /\ Ready(c, "persist")
  /\ stored' = calls[c].answer
  /\ meta' = calls[c].answer
  /\ calls' = [calls EXCEPT ![c] = Ask("page")]
  /\ ToChat
  /\ UNCHANGED <<now, exp, deleted, member, expired, budget, races>>

-----------------------------------------------------------------------------
(* The chat page.                                                          *)

\* It needs a session only: the back button leads to an expired room too.
OpenPage(c) ==
  /\ view = "dashboard"
  /\ meta # None
  /\ Free(c)
  /\ Spend("visit")
  /\ calls' = [calls EXCEPT ![c] = Ask("page")]
  /\ ToChat
  /\ UNCHANGED <<now, exp, deleted, member, record, races>>

\* The initial load: a page that cannot load its room goes home.
PageLoaded(c) ==
  /\ Ready(c, "page")
  /\ LET rest == [calls EXCEPT ![c] = Idle] IN
       IF calls[c].answer \in {Error, None}
       THEN calls' = Unmounted(rest) /\ ToDashboard(meta, expired)
       ELSE /\ calls' = rest
            /\ pageExp' = calls[c].answer
            /\ UNCHANGED <<view, shown, card, frames, races>>
  /\ UNCHANGED <<now, exp, deleted, member, record, budget>>

\* The load of an earlier page: when it fails, whatever page is open goes home.
OldPageLoaded(c) ==
  /\ Ready(c, "old")
  /\ LET rest == [calls EXCEPT ![c] = Idle] IN
       IF calls[c].answer \in {Error, None} /\ view = "chat"
       THEN calls' = Unmounted(rest) /\ ToDashboard(meta, expired)
       ELSE calls' = rest /\ UNCHANGED <<screen, races>>
  /\ UNCHANGED <<now, exp, deleted, member, record, budget>>

\* A "user:joined" frame makes the page ask for the room again.
SomeoneJoins(c) ==
  /\ view = "chat"
  /\ Live
  /\ Free(c)
  /\ Spend("change")
  /\ calls' = [calls EXCEPT ![c] = Ask("joined")]
  /\ UNCHANGED <<now, exp, deleted, member, record, screen, races>>

RoomInfoFetched(c) ==
  /\ Ready(c, "joined")
  /\ calls' = [calls EXCEPT ![c] = Idle]
  /\ pageExp' = IF calls[c].answer \in {Error, None} THEN pageExp ELSE calls[c].answer
  /\ UNCHANGED <<now, exp, deleted, member, record, view, shown, card, frames, budget, races>>

\* A "room:boosted" frame: the page has a branch for "boosted" only, so this
\* is an unknown event.
BoostedFrame ==
  /\ view = "chat"
  /\ frames > 0
  /\ frames' = frames - 1
  /\ UNCHANGED <<now, exp, deleted, member, record, view, shown, card, pageExp, calls, budget,
                 races>>

\* handleExpiry: the room is removed without asking the server.
PageExpires ==
  /\ view = "chat"
  /\ pageExp # None
  /\ Over(pageExp)
  /\ removeRoom
  /\ calls' = Unmounted(calls)
  /\ ToDashboard(None, "none")
  /\ UNCHANGED <<now, exp, deleted, member, budget>>

ClosePage ==
  /\ view = "chat"
  /\ calls' = Unmounted(calls)
  /\ ToDashboard(meta, expired)
  /\ UNCHANGED <<now, exp, deleted, member, record, budget>>

\* "Leave & Delete Room" in the drawer: the last member to leave deletes the room.
Leave ==
  /\ view = "chat"
  /\ pageExp # None
  /\ member' = FALSE
  /\ removeRoom
  /\ calls' = Unmounted(calls)
  /\ ToDashboard(None, "none")
  /\ deleted' = TRUE \/ UNCHANGED deleted
  /\ UNCHANGED <<now, exp, budget>>

-----------------------------------------------------------------------------
(* The server, the network and the browser.                                *)

\* GET /v1/rooms/:roomId is answered, or fails on the way.
Answer(c) ==
  /\ ~Free(c) /\ ~calls[c].done
  /\ calls' = [calls EXCEPT ![c].done = TRUE, ![c].answer = IF Live THEN exp ELSE None]
  /\ UNCHANGED <<now, exp, deleted, member, record, screen, budget, races>>

Fail(c) ==
  /\ ~Free(c) /\ ~calls[c].done
  /\ Spend("failure")
  /\ calls' = [calls EXCEPT ![c].done = TRUE, ![c].answer = Error]
  /\ races' = races \cup {IF "failed" \in races THEN "failed again" ELSE "failed"}
  /\ UNCHANGED <<now, exp, deleted, member, record, screen>>

\* A boost reaches the page only as a frame, and no answer already given.
Boost ==
  /\ Live
  /\ Spend("boost")
  /\ exp' = exp + 1
  /\ frames' = IF view = "chat" THEN frames + 1 ELSE frames
  /\ races' = races \cup (IF view = "chat" THEN {"page"} ELSE {})
                    \cup (IF \E c \in Calls : calls[c].done THEN {"answer"} ELSE {})
  /\ UNCHANGED <<now, deleted, member, record, view, shown, card, pageExp, calls>>

\* The room goes before its time: the last of its other members leaves when this user is
\* none any more, or a member's record expires and the cleanup worker takes it for the room's.
DeleteRoom ==
  /\ Live
  /\ deleted' = TRUE
  /\ UNCHANGED <<now, exp, member, record, screen, calls, budget, races>>

\* This user leaves from another tab, which removes the record they share, and deletes the
\* room when nobody else is left; what this tab has in memory stays.
LeaveElsewhere ==
  /\ stored # None
  /\ Spend("visit")
  /\ stored' = None
  /\ member' = FALSE
  /\ deleted' = TRUE \/ UNCHANGED deleted
  /\ races' = races \cup IF meta # None THEN {"elsewhere"} ELSE {}
  /\ UNCHANGED <<now, exp, meta, expired, screen, calls>>

Tick ==
  /\ now < MaxTime
  /\ now' = now + 1
  /\ UNCHANGED <<exp, deleted, member, record, screen, calls, budget, races>>

\* The browser is closed, or the page reloaded; localStorage stays.
Quit ==
  /\ view # "closed"
  /\ Spend("restart")
  /\ view' = "closed"
  /\ meta' = None /\ expired' = "none"
  /\ shown' = NotListed /\ card' = "none" /\ pageExp' = None /\ frames' = 0
  /\ calls' = [c \in Calls |-> Idle]
  /\ races' = races \cup IF Waits("persist") THEN {"unsaved"} ELSE {}
  /\ UNCHANGED <<now, exp, deleted, member, stored>>

Init ==
  /\ now = 1 /\ exp = 1 + TTL /\ deleted = FALSE
  /\ member = FALSE /\ stored = None /\ meta = None /\ expired = "none"
  /\ view = "dashboard" /\ shown = NotListed /\ card = "none"
  /\ pageExp = None /\ frames = 0
  /\ calls = [c \in Calls |-> Idle]
  /\ budget = [failure |-> Failures, visit |-> Visits, restart |-> Restarts,
               change |-> Changes, boost |-> MaxBoosts]
  /\ races = {}

\* What the event loop does by itself, once it may: timers and answers.
Handle(c) ==
  VerifyDone(c) \/ RefreshDone(c) \/ Persist(c) \/ PageLoaded(c) \/ OldPageLoaded(c)
  \/ RoomInfoFetched(c)

Next ==
  \/ OtherRoomChanges \/ BoostedFrame \/ PageExpires \/ ClosePage \/ Leave
  \/ Boost \/ DeleteRoom \/ LeaveElsewhere \/ Tick \/ Quit
  \/ \E c \in Calls :
       \/ CardExpires(c) \/ Handle(c) \/ Start(c) \/ Join(c) \/ OpenPage(c)
       \/ SomeoneJoins(c) \/ Answer(c) \/ Fail(c)

\* Requests are answered or fail in the end; the browser resumes what was
\* answered and runs its timers; and time passes.
Fairness ==
  /\ WF_vars(PageExpires) /\ WF_vars(Tick)
  /\ \A c \in Calls : WF_vars(CardExpires(c)) /\ WF_vars(Handle(c)) /\ WF_vars(Answer(c))

Spec == Init /\ [][Next]_vars /\ Fairness

-----------------------------------------------------------------------------
(* Properties.                                                             *)

Without(kinds) == races \cap kinds = {}

\* The types.
TypeOK ==
  /\ now \in 1..MaxTime
  /\ exp \in 1..(1 + TTL + MaxBoosts)
  /\ member \in BOOLEAN /\ deleted \in BOOLEAN
  /\ {stored, meta, pageExp} \subseteq {None} \cup 1..exp
  /\ expired \in {"none", "checking", "unreachable"}
  /\ view \in {"closed", "starting", "dashboard", "chat"}
  /\ shown \in [exp : {None} \cup 1..exp, state : {"none", "checking", "unreachable"}]
  /\ card \in {"none", "ticking", "again", "done"} /\ (card = "none" <=> shown = NotListed)
  /\ frames \in 0..MaxBoosts
  /\ calls \in [Calls -> [kind : {"idle", "verify", "refresh", "page", "joined", "persist", "old"},
                          done : BOOLEAN, answer : {Error, None} \cup 1..exp]]
  /\ races \subseteq {"hidden", "failed", "failed again", "page", "answer", "unsaved",
                     "elsewhere"}

\* A member who has not left keeps the record, and the key in it, of a room
\* that lives on the server: failed requests, restarts and expired local
\* deadlines do not lose it.  Except when a boost comes while the chat page is
\* open, which does not notice it, or after an answer was given that is
\* handled later.
LiveRoomIsKept ==
  member /\ Live /\ ~Waits("persist") /\ Without({"page", "answer", "unsaved"}) =>
    stored # None

\* A record that was removed stays removed: the answer to a verification, which
\* comes after the page's own countdown or a leave has removed the room, does
\* not write it back.  Only a join that was under way, and saves its keys,
\* writes a record where there was none; and a tab that has not seen the room
\* removed in another.
RemovedStaysRemoved ==
  [][Without({"elsewhere"}) /\ stored = None /\ stored' # None =>
       \E c \in Calls : Ready(c, "persist") /\ ~Ready(c, "persist")']_vars

\* A room the dashboard knows and does not list is being verified, so that its
\* record will be either removed or listed again; except when the list was made
\* between the end of the room and its countdown's last step.
NothingIsForgotten ==
  view = "dashboard" /\ meta # None /\ shown = NotListed /\ Without({"hidden"}) =>
    Waits("verify")

\* In a browser that stays open the record of a room that is gone, at its
\* deadline or before it, is removed in the end, although it is listed with
\* time left until then and although a request fails: the card that comes back
\* asks again.  A second failure leaves it listed as unreachable, and a list
\* made at the wrong time forgets it.
GoneRoomsAreForgotten ==
  (stored # None /\ ~Live /\ view # "closed") ~>
    (stored = None \/ view = "closed" \/ ~Without({"failed again", "hidden"}))

\* docs/design/api_design.md:172, of room:boosted: "Clients update their local
\* room state and status pill".
PageFollowsBoosts ==
  view = "chat" /\ pageExp # None /\ frames = 0 /\ (\A c \in Calls : Free(c)) =>
    pageExp = exp
=============================================================================
