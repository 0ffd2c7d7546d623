------------------------------ MODULE ChatSync ------------------------------
(***************************************************************************)
(* How one member's chat page follows the event log of its room:           *)
(* webapp/src/pages/ChatPage.tsx, lib/messageStore.ts,                     *)
(* hooks/useWebSocket.ts, with the backend's side of it (store/redis/      *)
(* events.go, handler/ws.go, hub/hub.go).                                  *)
(*                                                                         *)
(* The page is JavaScript: what stands between two awaits is one step, and *)
(* the async calls that are waiting (tasks) go on in any order.  An event  *)
(* is its eid.                                                             *)
(***************************************************************************)
EXTENDS Integers, FiniteSets, Sequences, SequencesExt

CONSTANTS
  MaxEid,     \* bound on the events of the room
  MaxEvents,  \* max_events: how many the server keeps
  Buffer,     \* how many frames fit between Publish and the page (64 in hub.go)
  Tasks,      \* handleWsEvent calls that wait at the same time
  JoinEid,    \* the member's join_eid
  Boosts,     \* the eids that are boosts
  Opens, Returns, Outages, Failures   \* bounds: page loads, returns to the foreground,
                                      \* lost connections, failed fetches

ASSUME ChatAssumption ==
  /\ {MaxEid, MaxEvents, Buffer, JoinEid} \subseteq Nat \ {0}
  /\ {Opens, Returns, Outages, Failures} \subseteq Nat
  /\ JoinEid <= MaxEid
  /\ Boosts \subseteq Nat
  /\ {"load", "visible"} \cap Tasks = {}

VARIABLES
  seq,       \* event_seq
  stored,    \* the events sorted set
  pending,   \* eids handed out whose ZADD is still to come
  unsent,    \* stored events still to be published
  wire,      \* frames on their way to the page
  socket,    \* the page's WebSocket: "new" (not yet open), "on" or "lost"
  page,      \* "closed", "loading" or "open"
  max,       \* maxEidRef
  feed,      \* messages, in the order they are displayed
  saved,     \* the room's messages in IndexedDB
  removed,   \* the room was removed from this browser
  tasks,     \* the async calls of the page
  budget,    \* history: what is left of the bounds
  races      \* history: kinds of race and failure that have happened

server == <<seq, stored, pending, unsent>>
client == <<page, max, feed, saved, removed>>
vars == <<server, wire, socket, client, tasks, budget, races>>

Calls == Tasks \cup {"load", "visible"}

\* A task: the frame it handles, the eid it asked for events after, what it
\* got, what the page had stored; whether its page is still there.
Idle == [pc |-> "idle", eid |-> 0, after |-> 0, got |-> {}, local |-> {}, here |-> TRUE]

At(t, pc) == tasks[t].pc = pc
Go(t, pc) == tasks' = [tasks EXCEPT ![t].pc = pc]
End(t)    == tasks' = [tasks EXCEPT ![t] = Idle]
Spend(kind) == budget[kind] > 0 /\ budget' = [budget EXCEPT ![kind] = @ - 1]

Most(S) == CHOOSE x \in S : \A y \in S : y <= x
Least(S) == CHOOSE x \in S : \A y \in S : x <= y

-----------------------------------------------------------------------------
(* The server.                                                             *)

\* ZREMRANGEBYRANK: the newest MaxEvents stay.
Kept(S) == {e \in S : Cardinality({f \in S : f > e}) < MaxEvents}

\* AppendMessage, appendSystemEvent: INCR.
TakeEid ==
  /\ seq < MaxEid
  /\ seq + 1 \notin Boosts
  /\ seq' = seq + 1
  /\ pending' = pending \cup {seq + 1}
  /\ UNCHANGED <<stored, unsent, wire, socket, client, tasks, budget, races>>

\* Then ZADD and the trim, in any order among the requests that took one.
StoreEvent(e) ==
  /\ e \in pending
  /\ pending' = pending \ {e}
  /\ stored' = Kept(stored \cup {e})
  /\ unsent' = unsent \cup {e}
  /\ UNCHANGED <<seq, wire, socket, client, tasks, budget, races>>

\* The boost script does both at once.
ApplyBoost ==
  /\ seq < MaxEid
  /\ seq + 1 \in Boosts
  /\ seq' = seq + 1
  /\ stored' = Kept(stored \cup {seq + 1})
  /\ unsent' = unsent \cup {seq + 1}
  /\ UNCHANGED <<pending, wire, socket, client, tasks, budget, races>>

\* Publish and fanOut: the frame is lost when the page is not subscribed or
\* its send buffer is full.
Publish(e) ==
  /\ e \in unsent
  /\ unsent' = unsent \ {e}
  /\ IF socket = "on" /\ Len(wire) < Buffer
     THEN wire' = Append(wire, e) /\ UNCHANGED races
     ELSE /\ races' = races \cup IF page = "closed" THEN {}
                                ELSE IF socket = "lost" THEN {"outage"} ELSE {"missed"}
          /\ UNCHANGED wire
  /\ UNCHANGED <<seq, stored, pending, socket, client, tasks, budget>>

-----------------------------------------------------------------------------
(* The connection and the life of the page.                                *)

\* connect(): subscribed from now on; what was published before is not sent.
Connect ==
  /\ page # "closed"
  /\ socket # "on"
  /\ socket' = "on"
  /\ UNCHANGED <<server, wire, client, tasks, budget, races>>

\* onclose: what was on its way is lost.  The page connects again later and
\* does not ask for what it missed.
Disconnect ==
  /\ socket = "on"
  /\ Spend("outage")
  /\ socket' = "lost"
  /\ wire' = <<>>
  /\ races' = races \cup IF wire = <<>> THEN {} ELSE {"outage"}
  /\ UNCHANGED <<server, client, tasks>>

\* Mutant: the join eid is forgotten.
FetchFromStart(maxLocal) == maxLocal

FetchFrom(maxLocal) == IF maxLocal >= JoinEid THEN maxLocal ELSE JoinEid

\* One load at a time.  The effect that loads the room reads IndexedDB, then asks the server for
\* what is newer.
OpenPage ==
  /\ page = "closed"
  /\ ~removed
  /\ At("load", "idle")
  /\ Spend("open")
  /\ page' = "loading"
  /\ tasks' = [tasks EXCEPT !["load"] =
                 [Idle EXCEPT !.pc = "fetch",
                              !.after = FetchFrom(IF saved = {} THEN -1 ELSE Most(saved)),
                              !.local = {e \in saved : e >= JoinEid}]]
  /\ UNCHANGED <<server, wire, socket, max, feed, saved, removed, races>>

\* The page is left: its state is gone, the calls that wait go on.
Unmount ==
  /\ page' = "closed"
  /\ max' = 0
  /\ feed' = <<>>
  /\ socket' = "new"
  /\ wire' = <<>>

\* Events are on their way, or calls wait.
Left ==
  IF wire = <<>> /\ pending \cup unsent = {} /\ \A t \in Calls : At(t, "idle")
  THEN {} ELSE {"left"}

Leaving == [t \in Calls |-> IF At(t, "idle") THEN Idle ELSE [tasks[t] EXCEPT !.here = FALSE]]

ClosePage ==
  /\ page # "closed"
  /\ Unmount
  /\ tasks' = Leaving
  /\ races' = races \cup Left
  /\ UNCHANGED <<server, saved, removed, budget>>

\* Mutant: the range stops short of the newest message.
ClearAllButLast == {e \in saved : \A f \in saved : f <= e}

clearRoom == {}

\* The countdown, a leave or the dashboard removes the room: removeRoom clears
\* IndexedDB, and a page that shows the room is left.
RemoveRoom ==
  /\ ~removed
  /\ Unmount
  /\ tasks' = Leaving
  /\ saved' = clearRoom
  /\ removed' = TRUE
  /\ races' = races \cup IF \E t \in Calls : ~At(t, "idle") THEN {"late"} ELSE {}
  /\ UNCHANGED <<server, budget>>

-----------------------------------------------------------------------------
(* Fetching: the initial load, the gap in handleWsEvent and the return to  *)
(* the foreground all wait for getEvents.                                  *)

Event(e) == [eid |-> 2 * e, missing |-> 0]

\* Mutant: the event that ends the gap is counted too.
GapAfterLong(m, first) == [eid |-> 2 * m + 1, missing |-> first - m]

\* A history_gap entry stands at max + 0.5: eids are doubled in the feed.
GapAfter(m, first) == [eid |-> 2 * m + 1, missing |-> first - m - 1]

InFeed == {feed[i].eid : i \in DOMAIN feed}

\* Array.sort by eid, which leaves equal ones in their order.
Earlier(s, i, j) == s[i].eid < s[j].eid \/ (s[i].eid = s[j].eid /\ i < j)
Rank(s, i) == Cardinality({j \in DOMAIN s : Earlier(s, j, i)}) + 1
InOrder(s) == [n \in DOMAIN s |-> s[CHOOSE i \in DOMAIN s : Rank(s, i) = n]]

\* Store.GetEvents: the lower bound is exclusive.
After(eid) == {e \in stored : e > eid}

\* Mutant: the lower bound is taken one too high.
HeldAfterNext(eid) == {e \in stored : e > eid + 1 /\ e >= JoinEid}

\* The handler lifts the bound to join_eid - 1: a member is given its own joining and
\* what came after it.
HeldAfter(eid) == {e \in After(eid) : e >= JoinEid}

\* Mutant: only the oldest message reaches the store.
SavedOldest(S) == saved \cup {e \in S : \A f \in S : e <= f}

saveMessages(S) == saved \cup S

Answered(t, held) ==
  /\ tasks' = [tasks EXCEPT ![t].pc = "got", ![t].got = held]
  /\ races' = races \cup IF pending # {} THEN {"unstored"} ELSE {}

\* The server answers with what it holds at that moment.  The bound is not lifted when
\* the lookup of join_eid fails.
GetEvents(t) ==
  /\ At(t, "fetch")
  /\ \/ Answered(t, HeldAfter(tasks[t].after)) /\ UNCHANGED budget
     \/ Answered(t, After(tasks[t].after)) /\ Spend("failure")
  /\ UNCHANGED <<server, wire, socket, client>>

\* A page that is loading goes home when the fetch fails; the others go on.
FetchFails(t) ==
  /\ At(t, "fetch")
  /\ Spend("failure")
  /\ IF t = "load" /\ tasks[t].here
     THEN /\ Unmount
          /\ tasks' = [Leaving EXCEPT !["load"] = Idle]
          /\ races' = races \cup {"failed"} \cup Left
     ELSE /\ IF t \in Tasks /\ tasks[t].eid \notin Boosts THEN Go(t, "text") ELSE End(t)
          /\ races' = races \cup {"failed"}
          /\ UNCHANGED <<page, max, feed, socket, wire>>
  /\ UNCHANGED <<server, saved, removed>>

\* The end of the load replaces the feed and maxEidRef, whatever frames have
\* put there meanwhile.
LoadDone ==
  /\ At("load", "got")
  /\ LET all == tasks["load"].local \cup tasks["load"].got IN
       /\ saved' = saveMessages(tasks["load"].got)
       /\ IF tasks["load"].here
          THEN /\ page' = "open"
               /\ feed' = InOrder(SetToSeq({Event(e) : e \in all}))
               /\ max' = IF all = {} THEN max ELSE Most(all)
               /\ races' = races \cup IF feed = <<>> THEN {} ELSE {"load"}
          ELSE UNCHANGED <<page, feed, max, races>>
  /\ End("load")
  /\ UNCHANGED <<server, wire, socket, removed, budget>>

\* Mutant: what is displayed already is not filtered out.
NewOrNot(got) == {Event(e) : e \in got}

New(got) == {Event(e) : e \in {f \in got : 2 * f \notin InFeed}}

\* The updater given to setMessages reads maxEidRef when React runs it, before
\* or after the loop that raises it: m is either.
Gap(got, m) ==
  IF got # {} /\ Least(got) > m + 1 /\ 2 * m + 1 \notin InFeed
  THEN {GapAfter(m, Least(got))} ELSE {}

Raised(got) == Most(got \cup {max})

\* What the gap check and the return to the foreground got is merged.
Merge(t) ==
  /\ t # "load"
  /\ At(t, "got")
  /\ LET got == tasks[t].got IN
       /\ saved' = saveMessages(got)
       /\ IF tasks[t].here
          THEN /\ \E m \in {max, Raised(got)} :
                    LET extra == New(got) \cup Gap(got, m) IN
                    feed' = IF extra = {} THEN feed
                            ELSE InOrder(feed \o SetToSeq(extra))
               /\ max' = Raised(got)
          ELSE UNCHANGED <<feed, max>>
  /\ IF t \in Tasks /\ tasks[t].eid \notin Boosts THEN Go(t, "text") ELSE End(t)
  /\ UNCHANGED <<server, wire, socket, page, removed, budget, races>>

-----------------------------------------------------------------------------
(* handleWsEvent.                                                          *)

\* Mutant: off by one.
GapBeforeLate(e) == max > 0 /\ e > max + 2

GapBefore(e) == max > 0 /\ e > max + 1

\* A frame: missing events are fetched first.  The page knows no frame named
\* "room:boosted", so a boost does nothing more than that.
Receive(t) ==
  /\ page # "closed"
  /\ wire # <<>>
  /\ t \in Tasks
  /\ At(t, "idle")
  /\ LET e == Head(wire) IN
       /\ wire' = Tail(wire)
       /\ tasks' = IF GapBefore(e)
                   THEN [tasks EXCEPT ![t] = [Idle EXCEPT !.pc = "fetch", !.eid = e, !.after = max]]
                   ELSE IF e \in Boosts THEN tasks
                   ELSE [tasks EXCEPT ![t] = [Idle EXCEPT !.pc = "text", !.eid = e]]
       /\ races' = races \cup IF max = 0 /\ e > JoinEid + 1 THEN {"blind"} ELSE {}
  /\ UNCHANGED <<server, socket, client, budget>>

\* The text is decrypted: the message is displayed at the end of the feed.
Show(t) ==
  /\ At(t, "text")
  /\ LET e == tasks[t].eid IN
       /\ saved' = saveMessages({e})
       /\ IF tasks[t].here
          THEN /\ max' = IF e > max THEN e ELSE max
               /\ feed' = IF 2 * e \in InFeed THEN feed ELSE Append(feed, Event(e))
          ELSE UNCHANGED <<max, feed>>
  /\ End(t)
  /\ UNCHANGED <<server, wire, socket, page, removed, budget, races>>

\* The page is looked at again: everything after maxEidRef is asked for, from 0 on when
\* nothing has been displayed, or loaded, yet.
Visible ==
  /\ page # "closed"
  /\ At("visible", "idle")
  /\ Spend("visible")
  /\ tasks' = [tasks EXCEPT !["visible"] = [Idle EXCEPT !.pc = "fetch", !.after = max]]
  /\ UNCHANGED <<server, wire, socket, client, races>>

-----------------------------------------------------------------------------
\* The member has just joined, and the log holds what was there and the event
\* of the join.
Init ==
  /\ seq = JoinEid
  /\ stored = Kept(1..JoinEid)
  /\ pending = {} /\ unsent = {}
  /\ wire = <<>> /\ socket = "new"
  /\ page = "closed" /\ max = 0 /\ feed = <<>> /\ saved = {} /\ removed = FALSE
  /\ tasks = [t \in Calls |-> Idle]
  /\ budget = [open |-> Opens, outage |-> Outages, failure |-> Failures, visible |-> Returns]
  /\ races = {}

Next ==
  \/ TakeEid \/ (\E e \in 1..MaxEid : StoreEvent(e) \/ Publish(e)) \/ ApplyBoost
  \/ Connect \/ Disconnect \/ OpenPage \/ ClosePage \/ RemoveRoom \/ Visible
  \/ \E t \in Calls : GetEvents(t) \/ FetchFails(t) \/ Merge(t) \/ Receive(t) \/ Show(t)
  \/ LoadDone

Spec == Init /\ [][Next]_vars

-----------------------------------------------------------------------------
(* Properties.                                                             *)

Without(kinds) == races \cap kinds = {}

\* Nothing is on its way and the page is connected.
Settled ==
  /\ page = "open" /\ socket = "on" /\ wire = <<>>
  /\ pending = {} /\ unsent = {}
  /\ \A t \in Calls : At(t, "idle")

Displayed == {e \in 1..MaxEid : 2 * e \in InFeed}
Markers == {m \in {feed[i] : i \in DOMAIN feed} : m.missing > 0}
Covers(m, e) == 2 * e > m.eid /\ 2 * e <= m.eid + 2 * m.missing

\* The types, with the bounds of the wire and of what the server keeps: every
\* number asked for is a possible eid, although the local maximum of an empty
\* store is -1 (ChatPage.tsx fetchFromEid).
TypeOK ==
  /\ seq \in 0..MaxEid
  /\ stored \subseteq 1..seq /\ pending \subseteq 1..seq /\ unsent \subseteq 1..seq
  /\ wire \in Seq(1..MaxEid) /\ Len(wire) <= Buffer
  /\ socket \in {"new", "on", "lost"} /\ removed \in BOOLEAN
  /\ page \in {"closed", "loading", "open"}
  /\ max \in 0..MaxEid
  /\ saved \subseteq 1..seq
  /\ feed \in Seq([eid : 1..(2 * MaxEid), missing : 0..MaxEid])
  /\ tasks \in [Calls -> [pc : {"idle", "fetch", "got", "text"}, eid : 0..MaxEid,
                          after : 0..MaxEid, got : SUBSET (1..MaxEid),
                          local : SUBSET (1..MaxEid), here : BOOLEAN]]
  /\ races \subseteq {"missed", "outage", "late", "unstored", "failed", "load", "blind", "left"}

\* No event and no marker of a gap is displayed twice, although frames, the
\* gap check, the load and the return to the foreground, each resumed in any
\* order, may all bring the same one.
DisplayedOnce == \A i, j \in DOMAIN feed : feed[i].eid = feed[j].eid => i = j

\* Whatever is displayed is in IndexedDB too, where the next load takes it
\* from: the load asks the server for nothing at or before the newest saved
\* message.
DisplayedIsSaved == Displayed \subseteq saved

\* At no moment, whatever calls are waiting, is an event that the server still
\* holds missing below the newest one displayed, even when frames were lost;
\* unless a fetch failed or was answered before an older event was stored, a
\* frame was handled before the first load knew the newest eid, or a load
\* replaced the feed.
NoSilentHole ==
  Without({"failed", "unstored", "blind", "load"}) =>
    \A e \in stored : e > JoinEid /\ e < max => e \in Displayed

\* Once everything has settled the page shows every event since the member
\* joined that the server still holds, boosts aside, unless frames were lost,
\* the server answered a fetch before an older event was stored, or a load
\* replaced the feed.  After a failed fetch or a frame that was handled before
\* the first load, the newest saved event may be newer than one that has not
\* come yet: then this holds as long as no page was left while events were on
\* their way, because the next load asks for nothing before the newest saved.
FollowsLog ==
  /\ Settled
  /\ Without({"unstored", "missed", "outage", "load"})
  /\ Without({"failed", "blind"}) \/ Without({"left"})
  => \A e \in stored \ Boosts : e > JoinEid => e \in Displayed

\* A marker of missing history hides no event that the member could still be given: what
\* it stands for the server has dropped, whichever of the concurrent calls placed it and
\* whatever maxEidRef had become meanwhile, or is from before the member joined, when the
\* page had nothing displayed and asked from 0; unless an event was not yet stored when
\* it was asked for or a load had set maxEidRef back.
MarkersAreTrue ==
  Without({"unstored", "load"}) =>
    \A m \in Markers : \A e \in stored : Covers(m, e) => e < JoinEid

\* Nothing of a removed room stays in IndexedDB, if no call of the page was
\* waiting when it was removed.
NothingAfterRemoval == removed /\ Without({"late"}) => saved = {}
=============================================================================
