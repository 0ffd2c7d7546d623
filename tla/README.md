# TempChat in TLA+

TempChat is a chat of temporary, end-to-end encrypted rooms. A Go backend keeps
each room in Redis, under keys that expire with the room; members can pay for a
boost that gives the room more time and more room; a browser keeps the keys of
the rooms its user has joined and follows the event log of the one it shows.

This directory models the parts of the program in which something can go wrong
between two steps that look right one by one. TLC checks the models on small
instances; the safety properties of every component are theorems too, proved with
TLAPS for all values of the constants.

- [Running it](#running-it)
- [The system](#the-system)
- [The modules](#the-modules)
- [What each run shows](#what-each-run-shows)
- [Where the code and its documents disagree](#where-the-code-and-its-documents-disagree)
- [What is proved](#what-is-proved)
- [What is not modelled](#what-is-not-modelled)
- [Plan](#plan)

## Running it

    tlc -workers 2 -config RoomStore.cfg MCRoomStore
    tlapm RoomStoreProofs.tla

`PROJECT.json` lists every run with its module and configuration, the source
lines each definition stands for (`map`), the hazards of the code with the
properties about them, and for each property a mutant: a small change of one
definition, of the kind a bug would make, under which the property fails.

## The system

Paths are relative to `src/`.

### Components, state, operations

| Component | State | Operations |
| --- | --- | --- |
| Room store, `backend/internal/store/redis/{room,events,boost}.go` | per room the Redis keys `meta` (hash), `users` (hash), `user:{uid}:meta` (hashes), `events` (sorted set), `event_seq` (counter), `keys` (registry of the others), each with its own TTL | CreateRoom, GetRoom, JoinRoom, SetUserLeft, DeleteRoom, AppendMessage, GetEvents, ApplyBoost |
| Cleanup worker, `backend/internal/cleanup` | none; one subscription per instance to Redis' expired events | handleExpiry: DeleteRoom |
| Orders and coupons, `store/redis/coupon.go` | `order:{id}:meta`, `coupon:{code}`, idempotency keys, with TTLs | create, get, mark used, completed, room expired |
| Payment and coupon handlers, `handler/{payment,coupon}.go` | none of their own | InitiatePayment, SepayWebhook, PolarWebhook, GetOrderStatus, RedeemCoupon |
| Hub and WebSocket handler, `hub/hub.go`, `handler/ws.go` | per room the local connections, each with a buffer of 64 frames, and one Redis subscription | Subscribe, Unsubscribe, Publish, fanOut |
| Chat page, `webapp/src/pages/ChatPage.tsx`, `hooks/useWebSocket.ts` | the feed, `maxEidRef`, room info, the socket | load, frames with gap detection, backfill on return to the foreground, reconnect, expiry |
| Message store, `lib/messageStore.ts` | messages per room in IndexedDB | save, load, largest eid, clear |
| Hotel, `services/HotelManager.ts`, `context/HotelContext.tsx`, `hooks/{useRooms,useCountdown}.ts`, `components/dashboard/RoomCard.tsx` | a record per room in localStorage, the same in memory, the rooms being verified, the dashboard's list | loadAll, createRoom, joinRoom, updateExpiry, verifyExpiredRoom, removeRoom |
| Purchase and boost sheets, `components/shared/PurchaseConfirmSheet.tsx`, `components/chat/BoostSheet.tsx`, `lib/payment.ts` | the order whose QR code is shown, its polling, the coupons in localStorage | handleConfirm, the poll every 3 s, handleApplyCoupon, saveCoupon, removeCoupon |
| Join page and leaving, `pages/JoinPage.tsx`, `components/dashboard/JoinLinkSheet.tsx`, `components/chat/RoomDetailDrawer.tsx` | the phase of the page, what it knows of the room, eligible coupons | open an invite link, handleJoin, the full page with coupons and boosts, handleLeave |
| The rest | see [What is not modelled](#what-is-not-modelled) | |

### How they interact

A handler calls the room store, several Redis round trips per request, and
publishes the resulting event through the hub; every instance forwards it to
its connections. Requests run concurrently, on several instances if there are
several, and share nothing but Redis, so a round trip is the grain at which they
interleave. Redis drops keys at their deadline by itself and tells the workers.
Payment providers call the webhooks when they like and as often as they like;
the webhooks end in the same `ApplyBoost` that a coupon does. The page gets
events by two ways, frames and `GetEvents`, that are not ordered with each other,
and keeps the two in step by their eids. The page and the dashboard each count
down to a copy of `expires_at` that is as old as their last answer. The browser
knows of a payment only what it polls: the sheet that shows a QR code, and the chat page
that the checkout returns to. Tabs share localStorage and nothing else: what a
tab has in memory it read when it was opened.

### What is hard, and what makes each part correct

- *Room store*: check-then-write across round trips; values read from `meta`
  and written back as deadlines after a boost has moved them; writes that
  recreate keys which have expired or been deleted; failure between two round
  trips. Correct when no message outlives its room, all keys go together, caps
  hold, eids are not reused, an empty room goes at once and a room with members
  does not go early.
- *Payments*: calls that are repeated, concurrent, or interrupted between the
  grant and the record of it. Correct when each right payment is granted, once,
  and what the payer is told is true.
- *Chat page*: async calls resumed in any order over a shared `maxEidRef` and
  feed. Correct when the feed is the log, without holes or doubles, and markers
  of missing history stand where the server has dropped events.
- *Purchase*: polls that outlive the order, the sheet or the page they were
  made for, and an interval that begins anew with each render. Correct when what is called
  confirmed is paid, a coupon is kept until it is used and no longer, and a
  page that waits notices that its order is settled.
- *Join*: a place in the room is taken on the server and known to the browser by
  one answer, which may be lost, come late, or come twice over two tabs. Correct
  when the record names the place, the chat is shown to members, no spinner stays,
  and a boost bought from outside makes room for the buyer.
- *Hotel*: local deadlines that are stale, requests that fail, a list computed at
  the wrong moment. Correct when the key of a room that lives is kept, and the
  record of one that is gone is removed.

The list of hazards, each at its line, is in `PROJECT.json`.

## The modules

    RoomPromise  <--refines--  RoomStore  <--  RoomStoreProofs  <--  RoomPromiseProofs
                                   ^                           <--  RoomKeysProofs
                               MCRoomStore
    MCPayments --> Payments <-- PaymentsProofs
    MCChatSync --> ChatSync <-- ChatSyncProofs
    MCHotel    --> Hotel    <-- HotelProofs
    MCPurchase --> Purchase <-- PurchaseProofs
    MCJoin     --> Join     <-- JoinProofs

The backend's modules and the browser's overlap where they meet: a request that is several
round trips in RoomStore or Payments is one step of ChatSync, Hotel, Purchase or
Join, which have it wait, fail, lose its answer, and be handled late. A
redemption from outside is two steps in Join, its checks and its effect, because others
may join between them. The purchase that Purchase takes apart is one step of Join.

Each component is a module with its variables, one action per round trip (in the
backend) or per stretch between two awaits (in the browser), and its properties at the
end. An `MC` module adds what TLC needs. `races` is a history variable in every
component: it collects the kinds of race and failure that have happened so far.
A property that the code keeps only when it is not raced is stated as
`Without({kinds}) => ...`: it says both what holds and which interleavings are to
blame when it does not. Each kind that is named in a property is needed: without it
TLC finds a counterexample (with the bounds of the run, or one event more where
that is said below).

### RoomStore

One room: rooms share nothing, their keys carry the room's id. A request is a
process in a slot of `Req`; `req[r].pc` names the round trip it is about to make
and the other fields what it has read (`exp`, `maxP`, `maxE`), the eid it has been
given and the keys it has listed. A pipeline is one step: go-redis writes it in one
piece and Redis drains what a client has sent before it turns to another client.
The boost script is one step because Redis runs scripts atomically.

| Code | Actions |
| --- | --- |
| CreateRoom, with pexpireAllKeys | `CreateRoom`, then `AppendIncr`, `AppendEvent`, `SetJoinEid`, `ExpireAllList`, `ExpireAllSet` |
| JoinRoom | `JoinRead`, `JoinFull` or `JoinRoom`, `JoinEnter`, then as above, `GetRoom` |
| AppendMessage, appendSystemEvent | `SendRead`, `AppendIncr`, `AppendEvent` |
| SetUserLeft, isRoomEmpty, DeleteRoom | `LeaveRead`, `SetUserLeft`, the append, `IsRoomEmptyKeys`, `IsRoomEmptyNext`, `DeleteRoomList`, `DeleteRoom` |
| ApplyBoost | `ApplyBoost` |
| worker | `HandleNothing`, `HandleExpiry`, `LoseNotification` |
| Redis expiry; a failed round trip or crash | `Tick`; `Fail` |

`ttl[k]` is a key's deadline, `NoTTL` or `Absent`; `Touch` is what a write does to
it: a missing key is created without a deadline. `meta` keeps its last value when
its key is gone, so that the refinement can name the last `expires_at`. An event
is `<<eid, epoch>>`, where `epoch` counts the counters the room has had. Time is
coarse: a unit is the difference a TTL makes. `Tick` drops all due keys at once
and queues the notifications for them, which may be handled any time later or lost. Each join gets a
fresh id; only users who were told their id leave or send.

### RoomPromise

The abstract specification: a room opens once with a deadline in the future; a
boost adds time and lowers no cap; it closes for good; it holds messages only before its
deadline. `RoomStore!KeepsPromise` is `RoomPromise`'s specification under the
mapping *open* = the meta key exists, *deadline* and caps = the hash, *holding* =
the events key exists.

### Payments

Handlers are processes again, with a step per round trip. SePay's and Polar's
webhooks have the same steps in the same order and share the actions
(`CheckIdempotencyKey`, `GetOrder`, `ApplyBoost` or `CreateCoupon`,
`SetOrderCompleted` or `SetOrderRoomExpired`, `SetIdempotencyKey`); a
transfer with a wrong amount is SePay's only. The provider is external: it learns of
a payment (`Pay`), calls until it is answered (`CallWebhook`), and may call again
(`CallAgain`). A room is open or gone. Requests that are refused change nothing
and are no actions. A write to a hash whose TTL is over recreates it without one
(`Late`).

A round trip may fail in two ways. `client.go:9` leaves go-redis at its default of three
retries: when the reply to a command is lost, the client sends the command again and the
handler learns nothing of it. Most commands write the same a second time; the boost's
script does not, so `Resend` boosts once more while the handler stands where it stood.
`RedisError` is a round trip that fails for good, which a boost may do after its script has run.
`reboosted` and `reredeemed` count the boosts that only a script sent again has given.

### ChatSync

One page of one member, with the backend's side reduced to what the page can see:
`TakeEid` and `StoreEvent` are the two round trips of an append, `Publish` comes
after, in any order among events, and is lost when the page is not subscribed or
its buffer is full. An async function of the page is a task with the state it carries over its
awaits; `load`, `visible` and the calls of `handleWsEvent` in `Tasks` go on in any order.
In the feed eids are doubled, so that the marker at `maxEid + 0.5` is a
number. A boost's frame shows nothing (its name is unknown to the page) but
takes part in the gap check; a boost that is fetched is displayed. A fetch asks for what is newer than an eid, and the server gives
nothing from before the member's join (`JoinEid`; `handler/events.go` raises `from` to
`join_eid`). IndexedDB's transactions are one step each. `here` says whether
the page that made a call is still mounted: an unmounted one still saves.

### Hotel

One room in one browser tab. `stored` and `meta` are the record's `expiresAt` in
localStorage and in memory, `expired` its entry in `expiredRooms`, `shown` what
`useRooms` last got from `listRooms`, and `card` the countdown of the room's
card. Sessions come and go with `metadata`, so they have no variable. A call of
`getRoom` is a slot of `calls`: asked, answered with the deadline at that moment
(or 404, or a failure), and handled later, when the answer may be stale. The
server's room exists until `exp`, or until it is `deleted`: the last member leaves, or the
cleanup worker takes a member's key for the room's (`DeleteRoom`). The user may also leave in
another tab (`LeaveElsewhere`), which removes the record but not what this tab has in memory.
The chat page has its own copy of the deadline, `pageExp`.

### Purchase

One browser, the chat pages of its rooms one at a time, the sheet over them. `sheet` is the
state of `PurchaseConfirmSheet`: the order whose QR code it has, `loading`, `done`
("Payment confirmed!") and the interval as `timer` (`off`, `armed`, `near`,
`due`: two steps of `Elapse` make three seconds, and a render that comes between begins them anew).
`wallet` is localStorage, `listed` what BoostSheet read of it when it was mounted.
`calls` holds requests and the timer of the redirect; a page that is left
makes its calls `old`: they go on, write the wallet and navigate, but move nothing on
the screen. A coupon is named by the order it was issued for.

| Code | Actions |
| --- | --- |
| the chat page and its address | `OpenPage`, `PageLoaded`, `ClosePage`, `ReturnFromPolar`, `CancelCheckout` |
| PurchaseConfirmSheet | `OpenSheet`, `CloseSheet`, `HandleConfirm`, `SepayInitiated`, `PolarInitiated`, `Elapse`, `Poll`, `PollAnswered`, `Redirect` |
| a render of the chat page | `Rerender` |
| the order in the query string | `PollReturn`, `ReturnAnswered` |
| BoostSheet's coupons | `HandleApplyCoupon`, `Redeemed` |
| backend, payer, network, time | `AnswerInitiate`, `AnswerStatus`, `AnswerRedeem`, `Pay`, `RoomEnds`, `CouponExpires`, `Fail` |

`Rerender` begins the interval anew because the effect depends on `onRedirect`, which
ChatPage makes in each render (`ChatPage.tsx` passes a function literal through
BoostSheet). The build has the React Compiler switched on, but it leaves ChatPage as
it is: the component writes refs while it renders. `useCountdown` renders the page every second in
a room's last 15 minutes, and each message does too.

### Join

One room that does not end, several tabs of one browser, and others who join and boost.
`slots` is the room's users in the order they came, so a uid is a position;
`left` the uids with `left_at`. `record` is the uid in localStorage, `sess[t]`
that of the session tab *t* has in memory, `tab[t]` what it shows.

All the code that writes the record is here: `persist` after a join, `removeRoom` after a leave and
when a room seems over, and `updateExpiry`, with which the refresh of `loadAll` and
`verifyExpiredRoom` write back what the *tab* has in memory, the uid included. Deadlines are not
modelled: what matters of them is that a boost makes the browser's copy differ from the
server's. So a tab may write back, or take the room for over, only when `max` says that the room was
boosted (`Boosted`, `TellsOfBoost`). A room that seems over is removed also under the chat page
that shows it, which keeps its session until it is left: `forgotten`.

| Code | Actions |
| --- | --- |
| a tab and its document; loadAll | `Start`, `Loaded`, `CloseTab`, `GoHome`, `OpenChat` |
| verifyExpiredRoom | `Verify`, `Verified` |
| JoinPage: link, form, answers | `OpenLink`, `LinkOpened`, `HandleJoin`, `Joined`, `NotJoined`, `Refetched` |
| RoomFullPage | `HandleApplyCoupon`, `Redeemed`, `Buy`, `SheetCloses`, `ReturnFromPolar` |
| RoomDetailDrawer; handleExpiry | `HandleLeave`, `LeaveAnswered`; `PageExpires` |
| backend | `AnswerRoom`, `AnswerJoin`, `CheckRedeem`, `ApplyRedeem`, `AnswerLeave`, `Pay` |
| others, the network | `SomeoneJoins`, `SomeoneBoosts`, `Fail` |

`Joined` keeps the record and shows the chat whatever the tab shows by then,
because `hotel.joinRoom` and `navigate` are not tied to the page; the answer to a leave likewise
removes whatever record there is. A join that counts and enters is one step here: the
overrun of the cap is RoomStore's subject.

## What each run shows

All passing runs end with no error, and each but those for liveness checks a type invariant. `CHECK_DEADLOCK
FALSE` throughout: a room that is gone, a payment that is settled and a browser
that is closed have nothing left to do, and the bounds stop the rest.

### `room_store` (RoomStore.cfg)

Two requests at a time, three users, at most two joins, two leaves, one message,
one boost and one failure, three operations in all besides the creation; a room for two users and two
events that a boost makes a room for three; two units of time. Two slots are enough for every
race of two requests, and every race in the hazard list is one of two requests with
the clock. With four operations (6.3 million states) the result is the same. Request slots are
interchangeable (symmetry).

- `MessagesExpire`: the stored messages always carry a deadline no later than
  the room's. It holds whatever races or fails, because an append sets the
  TTL in the same pipeline as it writes.
- `KeysShareDeadline`, `EidsNotReused`: hold unless a boost came between an
  operation's read of `meta` and its write. With such a boost `event_seq` gets
  the old deadline, expires before the room and starts again.
- `CapacityRespected`: holds unless two joins counted before either entered.
- `EmptyRoomIsDeleted`: two members who leave at the same time cannot miss each other.
- `NothingLeaks`: what is left of a gone room expires, whatever died halfway, unless
  the room went away under a request that was still writing, or a boost race brought a
  key back.
- `EarlyRemovalOnlyWhenEmpty`: an action property; an open room goes before its
  deadline only when everybody has left, unless someone entered meanwhile.
- `KeepsPromise`: the refinement.

### `payments` (Payments.cfg) and `payments_live` (PaymentsLive.cfg)

One order paid by up to two transfers, two rooms, two coupons, two handlers at a
time, one webhook call more than needed, two redemptions, one failed round trip, script that is
sent again or crash, and TTLs short enough to run out. Rooms, transfers, handlers and coupons are
interchangeable.

- `GrantedOnce`, `GrantedPerTransfer`: an order is granted once when no
  calls overlap and nothing fails. When calls for several transfers overlap, or an error
  keeps the status from being written, the idempotency key still keeps each transfer to
  one grant, as long as it is itself written and no two calls for the same transfer overlap.
  Neither the status nor the key guards one call's script from being sent again: each time
  the client does so is one boost more, and the two say that nothing else is.
- `StatusIsTruthful`: always; a status is written after the grant it reports.
- `AnsweredIsGranted`: what is answered 200 was granted, unless an error was
  dropped.
- `CouponBoostsOnce`, `CouponsCanBeShown`, `HashesExpire`: a coupon boosts one
  room, once and as often again as its script is sent again, unless redemptions overlap or the
  boost or the write that marks the coupon fails; an order that says
  `room_expired` has a coupon to show; and no hash outlives its TTL unless it was
  written after it. Two calls for one transfer that both pass the idempotency check
  may issue two coupons; that race is among the exceptions.
- `PaymentsAreGranted` (liveness, without symmetry): every right transfer is
  granted in the end, in spite of a crash. Fairness: a handler that can take a step takes it, and the provider calls
  until it is answered, which is what both providers document and the handlers
  rely on. Nothing is assumed of payers, of redemptions or of crashes.

### `chat_sync` (ChatSync.cfg)

Five events, of which the second is the member's join, the third a boost, and the server
keeps two; a buffer of two frames; two frames handled at a time next to a load
and a return to the foreground; two loads, one lost connection, one failed
fetch. Keeping fewer events than there are makes the log drop some while the
page is away; the buffer of two overflows; an event before the join is one that the server holds and
does not give.

- `DisplayedOnce`, `DisplayedIsSaved`: in every interleaving.
- `NoSilentHole`: frames may be lost, but at no moment is an event that the server
  holds missing below the newest one displayed, whatever calls wait. What the code does not
  survive: a gap fetch that fails, a fetch answered between another event's INCR
  and ZADD, a frame that comes before the first load knows the newest eid, a
  load that replaces a feed which has frames in it.
- `FollowsLog`: when no frames are lost the whole log is displayed once everything has
  settled. A failed fetch or a frame before the first load leaves a hole that the frames
  still on their way fill, unless the page was left before they came: the next load asks for
  nothing before the newest saved event, and so never for those that were missed
  (`ChatPage.tsx:109`). That exception came to light in the proof. It shows in the run
  because the boost comes first after the join: were it between the other two, the server would
  have dropped the event that such a page lacks.
- `MarkersAreTrue`: a marker covers no event since the member's join that the server still
  holds. Of those before the join it may: a page that had nothing displayed when it is looked at
  again asks from 0, gets the member's join at the earliest, and puts a marker before it
  although nothing was evicted. The comment at `ChatPage.tsx:191` ("if server has
  evicted events the client never received") says so of evicted events only; as the member is
  not given what came before its join, the property counts only what it could be given.
  The exception for a load needs one event more than the run has.
- `NothingAfterRemoval`: no message stays in IndexedDB when no call was waiting.

### `hotel` (Hotel.cfg)

A room of two units of time with up to two boosts, two calls at a time, two
failed requests, two visits (the join, and a page or a leave in another tab), one restart, one
change of another room. The second failure is there because the first one is retried: the card that comes back asks again.

- `LiveRoomIsKept`: a member's record of a living room is not lost, unless a
  boost came while the chat page was open, or between an answer and its
  handling, or the browser was closed in the middle of a join.
- `RemovedStaysRemoved` (action property): a record that was removed is not written back by an
  answer that comes later; only a join that was under way writes one where there was none. A tab that
  has not seen the room removed in another does write it back (`elsewhere`).
- `NothingIsForgotten`: a known room that is not listed is being verified,
  unless the list was made in the moment between its end and its countdown's last step.
- `GoneRoomsAreForgotten` (liveness): the record of a gone room is removed in a
  browser that stays open. A room may be gone long before the browser's deadline, and is listed
  with time left until then: `loadAll` keeps it on purpose (`HotelManager.ts:78-80`), and only a
  deadline makes the browser ask. Fairness: requests are answered or fail, the event
  loop resumes what is answered, timers fire, and time passes. Nothing is assumed of the user.

### `purchase` (Purchase.cfg) and `purchase_live` (PurchaseLive.cfg)

Two rooms, two orders, two requests or timers at a time, two visits of a chat
page, one failed request, one room that ends, one coupon that expires. Two orders let a poll
of the first meet the QR code of the second; two calls, a poll meet a
redirect or another poll; two rooms, an answer meet another room's page.

- `ConfirmedIsPaid`: "Payment confirmed!" stands under the code of a settled order,
  and only then does the sheet close by itself; except after `overlap`, a QR code
  shown while the polls, or the redirect, of an earlier purchase were under way. The poll's
  answer does not look at which order it is about.
- `KeptUntilUsed`: no exception. A coupon the browser was told of stays in the
  wallet until it is used or expires, whatever fails and whichever page is left:
  a coupon is removed only by the answer to its redemption.
- `UsedIsForgotten`: a used coupon leaves the wallet with that answer, unless it was
  `lost`, or a second poll of the order was answered `late` and saved the coupon again.
- `NoticedWhenQuiet` (liveness; one room, no expiry, no symmetry): a page that
  waits for an order notices that it is settled, provided it is not rendered for
  ever. Fairness: time passes, calls are answered and handled, and an elapsed
  interval is called; that last one is strong because the bound on `Calls` may let
  others go first. Nothing is assumed of the user, the payer or the network's failures, which are bounded.
  `purchase_starved` drops the proviso.

### `join` (Join.cfg)

Two tabs, two requests at a time, a room for two with one place free and a boost to
three, four links or tabs opened, one tab closed, one request failed; others join and boost
whenever they can. Four openings are what a second tab needs to leave and to join again while the
first keeps what it read; two tabs that each join, one that leaves while the other joins, and a
place taken while a boost is paid for fit in too. It is the largest run, with 5.2 million states.

- `MembersAreKept`: a place this browser took and has not given back is the one its record
  names, or a join on its way there. Exceptions: the answer was `lost` or its
  tab closed; it joined while it was a member (`doubled`); a leave failed and the
  record was removed all the same (`unleft`), or came late and removed the
  record of a newer join (`misled`); after a boost, a tab that has not seen another join
  wrote its own uid over it (`overwritten`), or one that missed the boost took the room for
  over (`untimely`).
- `ChatsAsMember`: who is shown the chat has been a member, and when it has left, the
  answer that sends it home is on its way, except in a tab that has not seen the
  removal in another (`elsewhere`).
- `SpinnersWait`: no spinner, of the join page or of a document that starts, and no disabled
  button without a request that will end it.
- `BoostMakesRoom` (action property): when a boost from outside takes effect there
  is a place, unless others joined between its check and its effect (`overtaken`).

## Where the code and its documents disagree

Each has a run whose configuration is small and whose one property states what
the document says.

| Run | What happens |
| --- | --- |
| `room_worker` | A user meta key that got a deadline read before a boost expires; its name also ends in `:meta`, and the worker deletes the boosted room (`worker.go:36`, redis_design.md:181). |
| `hotel_boost` | The server sends `room:boosted`, the page knows `boosted`; it keeps the old deadline, and at the end of it removes the room and its key (`ChatPage.tsx:235` and `:320`, api_design.md:172). |
| `purchase_starved` | Each render of the chat page begins the three seconds of the polling anew: in a room's last 15 minutes it is rendered every second and never polls (`PurchaseConfirmSheet.tsx:135`, coupon_design.md:147). |
| `join_paid` | Who pays on the full page stays there, or comes back from Polar to "Invalid invite": the code that polls the order and joins is never reached (`JoinPage.tsx:80`, payment_design.md:322). |

Others show as exceptions in the properties above: the cap that two joins overrun
(`CapacityRespected`), keys without a TTL left of a gone room (`NothingLeaks`), a second
coupon for one transfer (`GrantedPerTransfer`), a boost given twice because its
reply was lost (`CouponBoostsOnce`), frames missed while the connection was lost
(`FollowsLog`), the card of a room being verified that disappears (`NothingIsForgotten`), a newer
join's uid overwritten by a tab that did not see it (`MembersAreKept`).

## What is proved

Every type invariant, safety invariant and action property of the passing runs, for all
values of the constants that satisfy the assumption of their module. Each proof goes the
same way: an inductive invariant `IInv`, checked by TLC on a small instance before it was
proved, that holds initially, that each step keeps, and that has the property as a conjunct
or implies it in one step.

### The room store

`RoomStoreProofs` and `RoomPromiseProofs` hold for any set of users, any number
of requests, any caps, TTLs and bounds that satisfy `RoomAssumption` (sets of
users and keys are disjoint, users are finitely many, the numbers are natural and the
room's terms positive). TLC evaluates the assumption on every run of `RoomStore`.

- `TypeCorrect`: `Spec => []TypeOK`.
- `Invariance`: `Spec => []IInv`.
- `MessagesAlwaysExpire`: `Spec => []MessagesExpire`.
- `RoomKeepsPromise`: `Spec => KeepsPromise`, the refinement.

`MessagesExpire` is not inductive. That an append leaves a deadline which is
ahead and not later than the room's depends on the deadline its request has
read, maybe long ago; that expiry takes the events with the room depends on what
the registry lists. `IInv` adds: the registry of an existing room names all its
keys (`RegistryComplete`), and so do the lists that requests have taken of it
(`SnapshotsComplete`); what a request has read is never later than the room's
terms (`ReadsAreOld`), as these only grow; nothing exists before the room is created (`NothingBefore`);
the creating request is alone with it (`CreatedAlone`); who joins was invited
(`JoinersWereInvited`); deadlines lie in the future (`DeadlinesAhead`); and the
meta key of an open room expires at the room's `expires_at` (`MetaExpires`).
Most of the proof is shared: `Proceeds(r)` says what every step of a request but
`CreateRoom` does to the request itself and to who was answered, and
`ProceedsInvariant` derives from it the five parts of `IInv` that speak of
requests. `ReadsProceed` shows it of the twelve round trips that write no key of
the room; `StepInvariant` then takes the eight that write, one by one, with the
four parts about keys and deadlines, and `NextInvariant` adds the boost script,
the clock and the lost notification. The refinement maps each action to
a step of `RoomPromise` or to a stutter, with `IInv` for the guards: that an
append after the deadline erases instead of storing, and that no message is left
when `Tick` reaches the deadline.

`RoomKeysProofs` takes `IInv` for granted and proves the other properties of the run
`room_store` from a second invariant on top of it, `KInv`.

- `KeysAlwaysShareDeadline`, `CapacityIsRespected`, `EidsAreNeverReused`,
  `EmptyRoomIsAlwaysDeleted`, `NothingEverLeaks`, and the action property
  `OnlyEmptyRoomsAreRemovedEarly`.

A room without a boost race keeps its keys together only because what its requests have
read is still so when they write (`Together`); before its creation is answered the creating
request is the only one (`Unborn`, `Creating`, `CreatingNumbers`). The counter is ahead of
every eid, stored or about to be, and no two requests hold the same (`Numbered`); a join
that nobody overtook counted what it enters (`Caps`). That a room everybody left is
deleted, and no other, takes two facts: a leave that goes on to delete has seen everybody
gone, with the keys it has not yet looked at as the exception (`Checked`), and in an open
room that everybody has left somebody is still leaving (`LastLeaves`). A room that went
without a request still writing leaves none that could write (`ClosedClean`), which is why
requests that die halfway leak nothing.

### Payments

`PaymentsProofs` holds for any orders, transfers, rooms, coupons, handlers and bounds, and
any TTLs as long as an order's is not longer than an idempotency key's
(`PaymentsAssumption`; the code has 24 hours and 7 days).

- `PaymentsTypes`, `OrdersAreGrantedOnce`, `TransfersAreGrantedOnce`,
  `StatusIsAlwaysTruthful`, `AnsweredIsAlwaysGranted`, `CouponsBoostOnce`,
  `CouponsCanAlwaysBeShown`, `HashesAlwaysExpire`, from `PaymentsInvariance`.

Grants are counted, and those that a script sent again has made are counted apart and subtracted.
`GrantsAreRecorded`: without overlap or error an order that was granted
is settled, or exactly one handler is about to settle it. `GrantsAreCounted`: an order is
granted no more often than it has payments whose key is set, or whose handler has granted
and is about to set it (`Counted`); `KeysAreKept` says why the next grant is by a payment
that is not yet counted: a call between checking and setting a key is alone with it, and the
key outlives the order. `CouponsAreNamed` and `RedemptionsAreRecorded` do the same for
coupons, and `AnswersAreTrue` ties answers and keys to grants. One lemma per step.

### The chat page

`ChatSyncProofs` holds for any number of events, any capacity of the log and buffer of the hub,
any number of calls that wait, any set of boosts and any bounds that satisfy `ChatAssumption`
(numbers are positive, the member's join is an event).

- `ChatTypes`, `NothingIsDisplayedTwice`, `DisplayedIsAlwaysSaved`, `NoHoleIsSilent`,
  `SettledPageFollowsLog`, `MarkersAreAlwaysTrue`, `NothingIsKeptAfterRemoval`: all
  properties of the run `chat_sync`, from `ChatInvariance`.

What is displayed depends on what was saved, since the next load begins there, on what
the calls that wait have asked for and got, and on what is on its way. `EidsAreTaken` and
`TasksFit` say what a call holds; `AnswersFit`, that an answer has all that the log then held
above the eid asked from, so that what it lacks is newer than all it has, unless an older
event was not yet stored; `AskedFromShown`, that a call of the page asked from no later than
the newest displayed. From these, nothing is missing below the newest displayed and below the
frame whose text is awaited (`ShownWithoutHoles`), nor below the newest saved
(`SavedWithoutHoles`), nor in what a load has read of it (`LoadedWithoutHoles`); and a marker stays
behind what the log holds since the join (`MarkersLast`), which takes that a fetch gives nothing from
before it. For `FollowsLog`, every event is displayed or `Coming`
(`NothingIsLost`), and a page left at rest has left nothing behind (`LeftComplete`).
The steps are read once: `EveryStep` says that each has one of thirteen effects, and
each conjunct has a lemma with one step per effect. The sort of the feed is shown to lose and
repeat no entry (`SortKeepsEntries`), which is why it is defined by ranks.

### The hotel

`HotelProofs` holds for any lifetime of the room, number of calls and bounds
(`HotelAssumption`: the lifetime and the end of time are positive).

- `HotelTypes`, `LiveRoomIsAlwaysKept`, `NothingIsEverForgotten`, from `HotelInvariance`;
- the action property `RemovedAlwaysStaysRemoved`, from `HotelInvariance` and
  `MemoryIsAlwaysStored`.

What the browser shows says which calls may wait (`CallsFitTheView`); an answer in hand and the
page's countdown are the room's deadline, unless a boost has come since
(`AnswersAreCurrent`, `PageIsCurrent`); a 404 stays true, because a room that is gone, at its
deadline or before it, stays gone. For what is removed: what is in memory is stored, unless
another tab removed it, and a browser that starts has both (`MemoryIsStored`), so that the answers
which write a record find one there. One lemma per action.

### The purchase

`PurchaseProofs` holds for any rooms, orders, number of calls and bounds that satisfy
`PurchaseAssumption` (rooms and orders are not named like other pages or "none").

- `PurchaseTypes`, `ConfirmedIsAlwaysPaid`, `CouponsAreKept`, `UsedCouponsAreForgotten`:
  the four invariants of the run `purchase`, from `PurchaseInvariance`.

What makes them inductive is that news about an order only gets truer: an answer
"completed" or "room_expired" of a poll is still the order's status when it is
handled (`AnswersStayTrue`), a coupon exists only for an order that came too late
(`CouponsAreOfLateOrders`), and only coupons the browser was told of are redeemed
(`OnlyToldIsRedeemed`). `SheetIsOfItsOrder` says that without an overlap the polls under
way are those of the order shown, which gives `ConfirmedIsPaid`; `UsedIsOnItsWay` strengthens
`UsedIsForgotten` to a redemption that was answered "ok".

### Entering a room

`JoinProofs` holds for any tabs, calls, caps and bounds that satisfy
`JoinAssumption` (tabs and calls are disjoint, the boost raises the cap).

- `JoinTypes`, `MembersAreAlwaysKept`, `ChatIsForMembers`, `SpinnersAlwaysWait` and the action
  property `BoostAlwaysMakesRoom`: all properties of the run `join`, from `JoinInvariance`.

Its invariant ties the copies of a uid together: all of them are of this browser's members
(`UidsAreMine`); a member that has just joined is known to its call only
(`JoinsAreNew`), and is the only one unless a race has happened (`JoinsAreAlone`), so
that the record written over is never that of another place; the answer to a leave is on its
way to whoever still has the uid (`LeavesAreOnTheirWay`); and a boost that is not
overtaken finds fewer members than its tier (`RoomIsMade`). The steps of the
browser that leave the room as it is are one `BrowserStep`: the record stays, goes, or becomes
the uid of a tab's session, and when it was a member's that is another's a race is named
(`RefreshSteps` shows it of what `loadAll` and `verifyExpiredRoom` write). The
answers of the server that let nobody in are `Answered`, and each of the two keeps
the invariant by one lemma; the rest (a join entering, its answer, a leave's answer, a boost) is
taken step by step.

### What stays with TLC

The three liveness properties, `PaymentsAreGranted`, `GoneRoomsAreForgotten` and
`NoticedWhenQuiet`: liveness under fairness is out of the prover's reach, as is anything about
ENABLED or by induction over data. No module here declares a recursive operator.

## What is not modelled

- Access tokens, rate limits, boost options and configuration: stateless, or a
  library's. A refused request changes nothing.
- Client cryptography and formats: a text is its event's eid.
- The content of events and the members' list of the page; the second `left`
  event of a member who leaves twice.
- The hub's own bookkeeping (connections per room, its lock): what the page sees of
  it is in ChatSync.
- The create and invite pages, whose state does not outlive them.
- The backfill of `encryptedName`; the new-message badge; display names.
- In Hotel the joins of other tabs, whose uids are Join's subject. In Join the room does not end, one order is made per tab, and a full page knows one boost;
  rooms that end under a purchase are in Purchase, under a record in Hotel.
- Presentation, the static site, scripts, test endpoints.

Abstractions to keep in mind: Redis is one server that does not lose writes;
keys expire exactly at their deadline; the browser's clock and the server's are
one; IndexedDB and localStorage do not fail.

That the Redis client sends a command again after a lost reply is in Payments, for the boost's
script. Elsewhere it shows nothing new: in RoomStore a second run of the script is another
request's boost, an INCR sent again leaves an eid that no event has (a page may show a marker
there), and the other writes of RoomStore and Payments put what is there already. In Purchase a
coupon is used when its boost was given; that the server may have failed to mark it
(`coupon.go:139-143` answers 200 all the same) is in Payments.

## Plan

Done: RoomStore, RoomPromise, Payments, ChatSync, Hotel, Purchase and Join, each with its
proofs. Most important first, what could follow:

1. `Hub`: connections, subscriptions per room, the buffer and the order of
   Subscribe, Unsubscribe, Close and fanOut; an abstract channel that ChatSync's
   `Publish` and `Connect` stand for, refined by it.
2. Proofs: that ChatSync refines that channel, once it is there.
3. Hotel's dashboard over several tabs that join, with the new-message badge.
