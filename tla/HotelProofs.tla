---------------------------- MODULE HotelProofs ----------------------------
(***************************************************************************)
(* Proofs about Hotel, for every life of a room, number of boosts and calls *)
(* that wait: which rooms the browser keeps, lists and verifies.            *)
(***************************************************************************)
EXTENDS Hotel, TLAPS

-----------------------------------------------------------------------------
(* The inductive invariant.                                                *)

\* Every boost is one of the bounded number, and so is every frame.
BoostsAreCounted ==
  /\ budget \in [failure : Nat, visit : Nat, restart : Nat, change : Nat, boost : Nat]
  /\ frames + budget.boost <= MaxBoosts
  /\ exp + budget.boost <= 1 + TTL + MaxBoosts

\* What the browser shows says which calls may wait.
CallsFitTheView ==
  /\ \A c \in Calls :
       LET x == calls[c] IN
         /\ x.kind = "idle" => ~x.done
         /\ x.kind = "persist" => x.done /\ x.answer \in 1..exp
         /\ x.kind \in {"page", "joined"} => view = "chat"
         /\ x.kind = "refresh" => view = "starting"
         /\ view = "closed" => x.kind = "idle"
         /\ view = "starting" => x.kind \in {"idle", "verify", "refresh"}
  /\ view = "starting" => \A c, d \in Calls : ~Free(c) /\ ~Free(d) => c = d
  /\ pageExp # None => view = "chat"

\* An answer given is the deadline, unless a boost has come since; a room that is gone
\* stays gone.
AnswersAreCurrent ==
  Without({"answer"}) =>
    \A c \in Calls :
      calls[c].done => \/ calls[c].answer \in {Error, exp}
                       \/ calls[c].answer = None /\ ~Live

\* The page's countdown runs to the deadline, unless a boost has come since.
PageIsCurrent ==
  Without({"page", "answer"}) => pageExp \in {None, exp}

IInv ==
  /\ TypeOK
  /\ BoostsAreCounted
  /\ CallsFitTheView
  /\ AnswersAreCurrent
  /\ PageIsCurrent
  /\ LiveRoomIsKept
  /\ NothingIsForgotten
-----------------------------------------------------------------------------
(* Lists and calls.                                                        *)

States == {"none", "checking", "unreachable"}
Deadlines(e) == {None} \cup 1..e
Lists(e) == [exp : Deadlines(e), state : States]
Kinds == {"idle", "verify", "refresh", "page", "joined", "persist", "old"}
Views == {"closed", "starting", "dashboard", "chat"}
Cards == {"none", "ticking", "again", "done"}
Races == {"hidden", "failed", "failed again", "page", "answer", "unsaved", "elsewhere"}
CallRecords(e) == [kind : Kinds, done : BOOLEAN, answer : {Error, None} \cup 1..e]

LEMMA Types ==
  ASSUME IInv
  PROVE  /\ now \in Nat /\ exp \in Nat /\ exp >= 1
         /\ {stored, meta, pageExp} \subseteq Deadlines(exp)
         /\ expired \in States /\ shown \in Lists(exp)
         /\ calls \in [Calls -> CallRecords(exp)]
         /\ Idle \in CallRecords(exp) /\ Idle.kind = "idle" /\ ~Idle.done
         /\ frames \in Nat /\ budget.boost \in Nat /\ MaxBoosts \in Nat /\ TTL \in Nat
         /\ now \in 1..MaxTime /\ exp \in 1..(1 + TTL + MaxBoosts) /\ frames \in 0..MaxBoosts
         /\ member \in BOOLEAN /\ deleted \in BOOLEAN /\ view \in Views /\ races \subseteq Races
         /\ card \in Cards /\ (card = "none" <=> shown = NotListed)
<1>1. TTL \in Nat /\ MaxBoosts \in Nat /\ MaxTime \in Nat
  BY HotelAssumption
<1>2. now \in Nat /\ exp \in Nat /\ exp >= 1 /\ frames \in Nat /\ budget.boost \in Nat
  <2>1. now \in 1..MaxTime /\ exp \in 1..(1 + TTL + MaxBoosts) /\ frames \in 0..MaxBoosts
    BY DEF IInv, TypeOK
  <2>2. budget.boost \in Nat
    BY DEF IInv, BoostsAreCounted
  <2>3. QED
    BY <1>1, <2>1, <2>2
<1>3. /\ {stored, meta, pageExp} \subseteq Deadlines(exp)
      /\ expired \in States /\ shown \in Lists(exp)
      /\ calls \in [Calls -> CallRecords(exp)]
  BY DEF IInv, TypeOK, Deadlines, States, Lists, CallRecords, Kinds
<1>4. Idle \in CallRecords(exp) /\ Idle.kind = "idle" /\ ~Idle.done
  BY DEF CallRecords, Kinds, Idle
<1>5. /\ now \in 1..MaxTime /\ exp \in 1..(1 + TTL + MaxBoosts) /\ frames \in 0..MaxBoosts
      /\ member \in BOOLEAN /\ deleted \in BOOLEAN /\ view \in Views /\ races \subseteq Races
      /\ card \in Cards /\ (card = "none" <=> shown = NotListed)
  BY DEF IInv, TypeOK, Views, Cards, Races
<1>6. QED
  BY <1>1, <1>2, <1>3, <1>4, <1>5

LEMMA TypesAgain ==
  ASSUME now' \in 1..MaxTime, exp' \in 1..(1 + TTL + MaxBoosts), frames' \in 0..MaxBoosts,
         member' \in BOOLEAN, deleted' \in BOOLEAN, view' \in Views, races' \subseteq Races,
         {stored', meta', pageExp'} \subseteq Deadlines(exp'), expired' \in States,
         shown' \in Lists(exp'), card' \in Cards, card' = "none" <=> shown' = NotListed,
         calls' \in [Calls -> CallRecords(exp')]
  PROVE  TypeOK'
BY DEF TypeOK, Deadlines, States, Lists, CallRecords, Kinds, Views, Cards, Races

\* What is listed of a room.
LEMMA ListTypes ==
  ASSUME NEW e \in Nat, NEW m \in Deadlines(e), NEW x \in States
  PROVE  /\ ListRooms(m, x) \in Lists(e)
         /\ ListRooms(m, x) = NotListed <=> m = None \/ (m <= now /\ x = "none")
BY DEF ListRooms, NotListed, Lists, Deadlines, States, None

\* The list after a change, and the cards with it.
LEMMA Dispatched ==
  ASSUME IInv, NEW m \in Deadlines(exp), NEW x \in States, Dispatch(m, x)
  PROVE  /\ shown' \in Lists(exp) /\ card' \in {"none", "ticking", "again", "done"}
         /\ card' = "none" <=> shown' = NotListed
         /\ view = "dashboard" /\ shown' = NotListed /\ m # None => m <= now /\ x = "none"
<1>1. /\ ListRooms(m, x) \in Lists(exp)
      /\ ListRooms(m, x) = NotListed <=> m = None \/ (m <= now /\ x = "none")
  BY Types, ListTypes
<1>2. shown \in Lists(exp) /\ card \in {"none", "ticking", "again", "done"}
      /\ (card = "none" <=> shown = NotListed)
  BY Types DEF IInv, TypeOK
<1>3. CASE view = "dashboard"
  BY <1>1, <1>2, <1>3 DEF Dispatch, CardOf
<1>4. CASE view # "dashboard"
  BY <1>2, <1>4 DEF Dispatch
<1>5. QED
  BY <1>3, <1>4

\* The dashboard that is mounted.
LEMMA Mounted ==
  ASSUME IInv, NEW m \in Deadlines(exp), NEW x \in States, ToDashboard(m, x)
  PROVE  /\ view' = "dashboard" /\ pageExp' = None /\ frames' = 0
         /\ shown' \in Lists(exp) /\ card' \in {"none", "ticking"}
         /\ card' = "none" <=> shown' = NotListed
         /\ races \subseteq races' /\ races' \subseteq races \cup {"hidden"}
         /\ shown' = NotListed /\ m # None => "hidden" \in races'
<1>1. /\ ListRooms(m, x) \in Lists(exp)
      /\ ListRooms(m, x) = NotListed <=> m = None \/ (m <= now /\ x = "none")
  BY Types, ListTypes
<1>2. QED
  BY <1>1 DEF ToDashboard, Hides

\* The calls of a page that is left.
LEMMA Unmounts ==
  ASSUME NEW e \in Nat, NEW f \in [Calls -> CallRecords(e)]
  PROVE  /\ Unmounted(f) \in [Calls -> CallRecords(e)]
         /\ \A c \in Calls :
              IF f[c].kind = "joined" THEN Unmounted(f)[c].kind = "idle" /\ ~Unmounted(f)[c].done
              ELSE /\ Unmounted(f)[c].kind = IF f[c].kind = "page" THEN "old" ELSE f[c].kind
                   /\ Unmounted(f)[c].done = f[c].done /\ Unmounted(f)[c].answer = f[c].answer
<1>1. Idle \in CallRecords(e) /\ Idle.kind = "idle" /\ ~Idle.done
  BY DEF Idle, CallRecords, Kinds, Error, None
<1>2. \A c \in Calls : /\ [f[c] EXCEPT !.kind = "old"] \in CallRecords(e)
                       /\ [f[c] EXCEPT !.kind = "old"].kind = "old"
                       /\ [f[c] EXCEPT !.kind = "old"].done = f[c].done
                       /\ [f[c] EXCEPT !.kind = "old"].answer = f[c].answer
  BY DEF CallRecords, Kinds
<1>3. \A c \in Calls :
        /\ Unmounted(f)[c] \in CallRecords(e)
        /\ f[c].kind = "joined" => Unmounted(f)[c] = Idle
        /\ f[c].kind = "page" => Unmounted(f)[c] = [f[c] EXCEPT !.kind = "old"]
        /\ f[c].kind \notin {"joined", "page"} => Unmounted(f)[c] = f[c]
  BY <1>1, <1>2 DEF Unmounted
<1>4. Unmounted(f) \in [Calls -> CallRecords(e)]
  BY <1>3 DEF Unmounted
<1>5. QED
  BY <1>1, <1>2, <1>3, <1>4


-----------------------------------------------------------------------------
(* Steps that share what they do.                                          *)

\* The page is left for the dashboard: its calls become nobody's, the record is
\* kept or removed.
LEMMA GoesHome ==
  ASSUME IInv, view = "chat", NEW rest \in [Calls -> CallRecords(exp)],
         \A c \in Calls : \/ rest[c] = calls[c]
                          \/ rest[c] = Idle /\ calls[c].kind \in {"page", "old"},
         calls' = Unmounted(rest), ToDashboard(meta', expired'),
         UNCHANGED <<now, exp, budget>>,
         member' \in BOOLEAN, deleted' \in BOOLEAN, deleted => deleted',
         \/ UNCHANGED <<record, member>>
         \/ /\ removeRoom
            /\ Without({"page", "answer"}) => ~(member' /\ Live)
  PROVE  IInv'
<1>1. /\ {stored', meta'} \subseteq Deadlines(exp) /\ expired' \in States
  BY Types DEF removeRoom, record, Deadlines, States
<1>2. /\ view' = "dashboard" /\ pageExp' = None /\ frames' = 0
      /\ shown' \in Lists(exp) /\ card' \in {"none", "ticking"}
      /\ card' = "none" <=> shown' = NotListed
      /\ races \subseteq races' /\ races' \subseteq races \cup {"hidden"}
      /\ shown' = NotListed /\ meta' # None => "hidden" \in races'
  BY <1>1, Mounted
<1>3. /\ calls' \in [Calls -> CallRecords(exp)]
      /\ \A c \in Calls : \/ calls'[c].kind = "idle" /\ ~calls'[c].done
                             /\ calls[c].kind \in {"page", "old", "joined"}
                          \/ /\ calls'[c].kind = IF calls[c].kind = "page" THEN "old"
                                                 ELSE calls[c].kind
                             /\ calls[c].kind # "joined"
                             /\ calls'[c].done = calls[c].done
                             /\ calls'[c].answer = calls[c].answer
  BY Types, Unmounts
<1>4. TypeOK'
  <2>1. /\ 0 \in 0..MaxBoosts /\ None \in Deadlines(exp) /\ pageExp' \in Deadlines(exp)
        /\ "dashboard" \in Views /\ races' \subseteq Races /\ card' \in Cards
    <3>1. 0 \in 0..MaxBoosts
      BY Types
    <3>2. None \in Deadlines(exp) /\ pageExp' \in Deadlines(exp)
      BY <1>2 DEF Deadlines
    <3>3. "dashboard" \in Views /\ card' \in Cards
      BY <1>2 DEF Views, Cards
    <3>4. races' \subseteq Races
      BY <1>2, Types DEF Races
    <3>5. QED
      BY <3>1, <3>2, <3>3, <3>4
  <2>2. QED
    BY <1>1, <1>2, <1>3, <2>1, Types, TypesAgain DEF record, removeRoom
<1>5. BoostsAreCounted'
  BY <1>1, <1>2, <1>3, Types DEF IInv, BoostsAreCounted, record, screen
<1>6. CallsFitTheView'
  BY <1>1, <1>2, <1>3 DEF IInv, CallsFitTheView, Free, record, screen, None
<1>7. AnswersAreCurrent'
  BY <1>1, <1>2, <1>3 DEF IInv, AnswersAreCurrent, Without, Live, record, screen
<1>8. PageIsCurrent'
  BY <1>1, <1>2, <1>3 DEF IInv, PageIsCurrent, Without, record, screen
<1>9. LiveRoomIsKept'
  BY <1>1, <1>2, <1>3, Types
     DEF IInv, LiveRoomIsKept, Waits, Without, Live, record, screen, removeRoom
<1>10. NothingIsForgotten'
  BY <1>1, <1>2, <1>3 DEF IInv, NothingIsForgotten, Waits, Without, record, screen
<1>11. QED
  BY <1>4, <1>5, <1>6, <1>7, <1>8, <1>9, <1>10 DEF IInv

-----------------------------------------------------------------------------
(* One step per action.                                                    *)

\* A call that starts or ends.
LEMMA Asks ==
  ASSUME NEW e \in Nat, NEW kind \in Kinds
  PROVE  Ask(kind) \in CallRecords(e) /\ Ask(kind).kind = kind /\ ~Ask(kind).done
BY DEF Ask, CallRecords, None

LEMMA OneCall ==
  ASSUME IInv, NEW c \in Calls, NEW r \in CallRecords(exp), calls' = [calls EXCEPT ![c] = r]
  PROVE  /\ calls' \in [Calls -> CallRecords(exp)] /\ calls'[c] = r
         /\ \A d \in Calls : d # c => calls'[d] = calls[d]
BY Types

\* What is spent stays counted.
LEMMA Spends ==
  ASSUME IInv, NEW kind \in {"failure", "visit", "restart", "change"}, Spend(kind),
         UNCHANGED exp, frames' = frames \/ frames' = 0
  PROVE  BoostsAreCounted'
<1>1. budget' = [budget EXCEPT ![kind] = budget[kind] - 1] /\ budget[kind] > 0
  BY DEF Spend
<1>2. budget \in [failure : Nat, visit : Nat, restart : Nat, change : Nat, boost : Nat]
      /\ frames + budget.boost <= MaxBoosts /\ exp + budget.boost <= 1 + TTL + MaxBoosts
  BY DEF IInv, BoostsAreCounted
<1>3. budget' \in [failure : Nat, visit : Nat, restart : Nat, change : Nat, boost : Nat]
      /\ budget'.boost = budget.boost
  BY <1>1, <1>2
<1>4. QED
  BY <1>2, <1>3, Types DEF BoostsAreCounted

LEMMA OtherRoomStep == ASSUME IInv, OtherRoomChanges PROVE IInv'
<1>1. /\ shown' \in Lists(exp) /\ card' \in Cards /\ (card' = "none" <=> shown' = NotListed)
      /\ shown' = NotListed /\ meta # None => meta <= now /\ expired = "none"
  BY Types, Dispatched DEF OtherRoomChanges, Cards
<1>2. /\ races \subseteq races' /\ races' \subseteq races \cup {"hidden"}
      /\ shown' = NotListed /\ meta # None => "hidden" \in races'
  BY <1>1 DEF OtherRoomChanges, Hides
<1>3. races' \subseteq Races
  BY <1>2, Types DEF Races
<1>4. /\ UNCHANGED <<now, exp, deleted, member, stored, meta, expired, view, pageExp, frames,
                    calls>>
      /\ view = "dashboard"
  BY DEF OtherRoomChanges, record
<1>5. TypeOK'
  BY <1>1, <1>3, <1>4, Types, TypesAgain
<1>6. BoostsAreCounted'
  BY <1>4, Spends DEF OtherRoomChanges
<1>7. CallsFitTheView'
  BY <1>2, <1>4 DEF IInv, CallsFitTheView, Free, record, screen
<1>8. AnswersAreCurrent'
  BY <1>2, <1>4 DEF IInv, AnswersAreCurrent, Without, Live, record, screen
<1>9. PageIsCurrent'
  BY <1>2, <1>4 DEF IInv, PageIsCurrent, Without, record, screen
<1>10. LiveRoomIsKept'
  BY <1>2, <1>4 DEF IInv, LiveRoomIsKept, Waits, Without, Live, record, screen
<1>11. NothingIsForgotten'
  BY <1>2, <1>4 DEF IInv, NothingIsForgotten, Waits, Without, record, screen
<1>12. QED
  BY <1>5, <1>6, <1>7, <1>8, <1>9, <1>10, <1>11 DEF IInv


LEMMA CardExpiresStep == ASSUME IInv, NEW c \in Calls, CardExpires(c) PROVE IInv'
<1>1. /\ shown' \in Lists(exp) /\ card' \in Cards /\ (card' = "none" <=> shown' = NotListed)
  BY Types, ListTypes DEF CardExpires, Cards
<1>2. /\ calls' \in [Calls -> CallRecords(exp)] /\ calls'[c].kind = "verify" /\ ~calls'[c].done
      /\ \A d \in Calls : d # c => calls'[d] = calls[d]
  BY Types, Asks, OneCall DEF CardExpires, Kinds
<1>3. /\ UNCHANGED <<now, exp, deleted, member, stored, meta, view, pageExp, frames, budget, races>>
      /\ view = "dashboard" /\ Free(c) /\ expired' \in States
  BY DEF CardExpires, States
<1>4. TypeOK'
  BY <1>1, <1>2, <1>3, Types, TypesAgain
<1>5. BoostsAreCounted'
  BY <1>2, <1>3, Types DEF IInv, BoostsAreCounted, record, screen
<1>6. CallsFitTheView'
  BY <1>2, <1>3 DEF IInv, CallsFitTheView, Free, record, screen
<1>7. AnswersAreCurrent'
  BY <1>2, <1>3 DEF IInv, AnswersAreCurrent, Without, Live, record, screen
<1>8. PageIsCurrent'
  BY <1>2, <1>3 DEF IInv, PageIsCurrent, Without, record, screen
<1>9. LiveRoomIsKept'
  BY <1>2, <1>3 DEF IInv, LiveRoomIsKept, Waits, Without, Live, record, screen, Free
<1>10. NothingIsForgotten'
  BY <1>2, <1>3 DEF IInv, NothingIsForgotten, Waits, Without, record, screen
<1>11. QED
  BY <1>4, <1>5, <1>6, <1>7, <1>8, <1>9, <1>10 DEF IInv


\* What an answer to a verification says: without a race, a room it removes is gone.
LEMMA Removes ==
  ASSUME IInv, NEW c \in Calls, calls[c].done, ToBeRemoved(calls[c].answer), Without({"answer"})
  PROVE  ~Live
BY Types DEF IInv, AnswersAreCurrent, ToBeRemoved, Live

\* The record after a verification.
LEMMA Verifies ==
  ASSUME IInv, NEW c \in Calls, VerifyDone(c)
  PROVE  /\ {stored', meta'} \subseteq Deadlines(exp) /\ expired' \in States
         /\ stored' = None => \/ stored = None
                              \/ Without({"answer"}) => ~Live
<1>1. calls[c].answer \in {Error, None} \cup 1..exp /\ calls[c].done
      /\ {stored, meta} \subseteq Deadlines(exp) /\ None \in Deadlines(exp)
  BY Types DEF VerifyDone, Ready, CallRecords, Deadlines
<1>2. \/ ToBeRemoved(calls[c].answer) /\ removeRoom
      \/ calls[c].answer = Error /\ expired' = "unreachable" /\ UNCHANGED <<stored, meta>>
      \/ /\ ~ToBeRemoved(calls[c].answer) /\ calls[c].answer # Error
         /\ stored' = IF meta = None THEN stored ELSE calls[c].answer
         /\ meta' = IF meta = None THEN meta ELSE calls[c].answer
         /\ expired' = "none"
  BY <1>1 DEF VerifyDone, ToBeRemoved, updateExpiry
<1>3. CASE ToBeRemoved(calls[c].answer) /\ removeRoom
  BY <1>1, <1>3, Removes DEF removeRoom, States
<1>4. CASE calls[c].answer = Error /\ expired' = "unreachable" /\ UNCHANGED <<stored, meta>>
  BY <1>1, <1>4 DEF States
<1>5. CASE /\ ~ToBeRemoved(calls[c].answer) /\ calls[c].answer # Error
           /\ stored' = IF meta = None THEN stored ELSE calls[c].answer
           /\ meta' = IF meta = None THEN meta ELSE calls[c].answer
           /\ expired' = "none"
  <2>1. calls[c].answer \in 1..exp
    BY <1>1, <1>5, Types DEF ToBeRemoved, None
  <2>2. calls[c].answer \in Deadlines(exp) /\ calls[c].answer # None
    BY <2>1 DEF Deadlines, None
  <2>3. QED
    BY <1>1, <1>5, <2>2 DEF States
<1>6. QED
  BY <1>2, <1>3, <1>4, <1>5

LEMMA VerifyDoneStep == ASSUME IInv, NEW c \in Calls, VerifyDone(c) PROVE IInv'
<1>1. /\ {stored', meta'} \subseteq Deadlines(exp) /\ expired' \in States
      /\ stored' = None => \/ stored = None
                           \/ Without({"answer"}) => ~Live
  BY Verifies
<1>2. /\ calls' \in [Calls -> CallRecords(exp)] /\ calls'[c].kind = "idle" /\ ~calls'[c].done
      /\ \A d \in Calls : d # c => calls'[d] = calls[d]
  BY Types, OneCall DEF VerifyDone
<1>3. UNCHANGED <<now, exp, deleted, member, budget>> /\ calls[c].kind = "verify"
  BY DEF VerifyDone, Ready
<1>4. CASE view = "starting"
  <2>1. ToDashboard(meta', expired')
    BY <1>4 DEF VerifyDone
  <2>2. /\ view' = "dashboard" /\ pageExp' = None /\ frames' = 0
        /\ shown' \in Lists(exp) /\ card' \in {"none", "ticking"}
        /\ card' = "none" <=> shown' = NotListed
        /\ races \subseteq races' /\ races' \subseteq races \cup {"hidden"}
        /\ shown' = NotListed /\ meta' # None => "hidden" \in races'
    BY <1>1, <2>1, Mounted
  <2>3. /\ 0 \in 0..MaxBoosts /\ pageExp' \in Deadlines(exp) /\ card' \in Cards
        /\ view' \in Views /\ races' \subseteq Races
    <3>1. 0 \in 0..MaxBoosts
      BY Types
    <3>2. pageExp' \in Deadlines(exp) /\ card' \in Cards /\ view' \in Views
      BY <2>2 DEF Deadlines, Cards, Views
    <3>3. races' \subseteq Races
      BY <2>2, Types DEF Races
    <3>4. QED
      BY <3>1, <3>2, <3>3
  <2>4. TypeOK'
    BY <1>1, <1>2, <1>3, <2>2, <2>3, Types, TypesAgain
  <2>5. BoostsAreCounted'
    BY <1>1, <1>2, <1>3, <1>4, <2>2, Types DEF IInv, BoostsAreCounted, record, screen
  <2>6. CallsFitTheView'
    BY <1>1, <1>2, <1>3, <1>4, <2>2 DEF IInv, CallsFitTheView, Free, record, screen, None
  <2>7. AnswersAreCurrent'
    BY <1>1, <1>2, <1>3, <1>4, <2>2 DEF IInv, AnswersAreCurrent, Without, Live, record, screen
  <2>8. PageIsCurrent'
    BY <1>1, <1>2, <1>3, <1>4, <2>2 DEF IInv, PageIsCurrent, Without, record, screen
  <2>9. LiveRoomIsKept'
    BY <1>1, <1>2, <1>3, <1>4, <2>2
       DEF IInv, LiveRoomIsKept, Waits, Without, Live, record, screen
  <2>10. NothingIsForgotten'
    BY <1>1, <1>2, <1>3, <1>4, <2>2 DEF IInv, NothingIsForgotten, Waits, Without, record, screen
  <2>11. QED
    BY <2>4, <2>5, <2>6, <2>7, <2>8, <2>9, <2>10 DEF IInv
<1>5. CASE view # "starting"
  <2>1. /\ Dispatch(meta', expired') /\ UNCHANGED <<view, pageExp, frames>>
        /\ races' = races \cup IF view = "dashboard" THEN Hides(meta', expired') ELSE {}
    BY <1>5 DEF VerifyDone, DispatchAfter
  <2>2. /\ shown' \in Lists(exp) /\ card' \in Cards /\ (card' = "none" <=> shown' = NotListed)
        /\ view = "dashboard" /\ shown' = NotListed /\ meta' # None =>
             meta' <= now /\ expired' = "none"
    BY <1>1, <2>1, Dispatched DEF Cards
  <2>3. /\ races \subseteq races' /\ races' \subseteq races \cup {"hidden"}
        /\ view = "dashboard" /\ shown' = NotListed /\ meta' # None => "hidden" \in races'
    BY <2>1, <2>2 DEF Hides
  <2>4. races' \subseteq Races
    BY <2>3, Types DEF Races
  <2>5. TypeOK'
    BY <1>1, <1>2, <1>3, <2>1, <2>2, <2>4, Types, TypesAgain
  <2>6. BoostsAreCounted'
    BY <1>1, <1>2, <1>3, <1>5, <2>1, <2>3, Types DEF IInv, BoostsAreCounted, record, screen
  <2>7. CallsFitTheView'
    BY <1>1, <1>2, <1>3, <1>5, <2>1, <2>3 DEF IInv, CallsFitTheView, Free, record, screen
  <2>8. AnswersAreCurrent'
    BY <1>1, <1>2, <1>3, <1>5, <2>1, <2>3
       DEF IInv, AnswersAreCurrent, Without, Live, record, screen
  <2>9. PageIsCurrent'
    BY <1>1, <1>2, <1>3, <1>5, <2>1, <2>3 DEF IInv, PageIsCurrent, Without, record, screen
  <2>10. LiveRoomIsKept'
    BY <1>1, <1>2, <1>3, <1>5, <2>1, <2>3
       DEF IInv, LiveRoomIsKept, Waits, Without, Live, record, screen
  <2>11. NothingIsForgotten'
    BY <1>1, <1>2, <1>3, <1>5, <2>1, <2>3
       DEF IInv, NothingIsForgotten, Waits, Without, record, screen
  <2>12. QED
    BY <2>5, <2>6, <2>7, <2>8, <2>9, <2>10, <2>11 DEF IInv
<1>6. QED
  BY <1>4, <1>5


\* The dashboard that is mounted fits its types.
LEMMA MountedTypes ==
  ASSUME IInv, NEW m \in Deadlines(exp), NEW x \in States, ToDashboard(m, x),
         UNCHANGED <<now, exp, deleted>>, member' \in BOOLEAN,
         {stored', meta'} \subseteq Deadlines(exp), expired' \in States,
         calls' \in [Calls -> CallRecords(exp)]
  PROVE  TypeOK'
<1>1. /\ view' = "dashboard" /\ pageExp' = None /\ frames' = 0
      /\ shown' \in Lists(exp) /\ card' \in {"none", "ticking"}
      /\ card' = "none" <=> shown' = NotListed
      /\ races' \subseteq races \cup {"hidden"}
  BY Mounted
<1>2. 0 \in 0..MaxBoosts
  BY Types
<1>3. pageExp' \in Deadlines(exp) /\ card' \in Cards /\ view' \in Views
  BY <1>1 DEF Deadlines, Cards, Views
<1>4. races' \subseteq Races
  BY <1>1, Types DEF Races
<1>5. QED
  BY <1>1, <1>2, <1>3, <1>4, Types, TypesAgain

LEMMA RefreshDoneStep == ASSUME IInv, NEW c \in Calls, RefreshDone(c) PROVE IInv'
<1>1. /\ calls[c].answer \in {Error, None} \cup 1..exp
      /\ {stored, meta} \subseteq Deadlines(exp)
      /\ calls[c].answer \in 1..exp =>
           calls[c].answer \in Deadlines(exp) /\ calls[c].answer # None
  BY Types DEF CallRecords, Deadlines, None
<1>2. /\ \/ UNCHANGED <<stored, meta>>
         \/ stored' \in Deadlines(exp) /\ stored' # None /\ meta' \in Deadlines(exp)
      /\ expired' = expired /\ UNCHANGED <<now, exp, deleted, member, budget>>
      /\ ToDashboard(meta', expired)
      /\ calls[c].kind = "refresh" /\ calls[c].done
  <2>1. \/ UNCHANGED <<stored, meta>>
        \/ /\ calls[c].answer \notin {Error, None}
           /\ stored' = calls[c].answer /\ meta' = calls[c].answer
    BY DEF RefreshDone
  <2>2. /\ expired' = expired /\ UNCHANGED <<now, exp, deleted, member, budget>>
        /\ ToDashboard(meta', expired)
        /\ calls[c].kind = "refresh" /\ calls[c].done
    BY DEF RefreshDone, Ready
  <2>3. ASSUME calls[c].answer \notin {Error, None}
        PROVE  calls[c].answer \in Deadlines(exp) /\ calls[c].answer # None
    BY <1>1, <2>3
  <2>4. QED
    BY <2>1, <2>2, <2>3
<1>3. view = "starting"
  BY <1>2 DEF IInv, CallsFitTheView
<1>4. /\ calls' \in [Calls -> CallRecords(exp)] /\ calls'[c].kind = "idle" /\ ~calls'[c].done
      /\ \A d \in Calls : d # c => calls'[d] = calls[d]
  BY Types, OneCall DEF RefreshDone
<1>5. {stored', meta'} \subseteq Deadlines(exp) /\ expired \in States
  BY <1>1, <1>2, Types
<1>6. /\ view' = "dashboard" /\ pageExp' = None /\ frames' = 0
      /\ shown' \in Lists(exp) /\ card' \in {"none", "ticking"}
      /\ card' = "none" <=> shown' = NotListed
      /\ races \subseteq races' /\ races' \subseteq races \cup {"hidden"}
      /\ shown' = NotListed /\ meta' # None => "hidden" \in races'
  BY <1>2, <1>5, Mounted
<1>7. TypeOK'
  BY <1>2, <1>4, <1>5, Types, MountedTypes
<1>8. BoostsAreCounted'
  BY <1>2, <1>3, <1>4, <1>6, Types DEF IInv, BoostsAreCounted, record, screen
<1>9. CallsFitTheView'
  BY <1>2, <1>3, <1>4, <1>6 DEF IInv, CallsFitTheView, Free, record, screen, None
<1>10. AnswersAreCurrent'
  BY <1>2, <1>3, <1>4, <1>6 DEF IInv, AnswersAreCurrent, Without, Live, record, screen
<1>11. PageIsCurrent'
  BY <1>2, <1>3, <1>4, <1>6 DEF IInv, PageIsCurrent, Without, record, screen
<1>12. LiveRoomIsKept'
  BY <1>2, <1>3, <1>4, <1>6 DEF IInv, LiveRoomIsKept, Waits, Without, Live, record, screen
<1>13. NothingIsForgotten'
  BY <1>2, <1>3, <1>4, <1>6 DEF IInv, NothingIsForgotten, Waits, Without, record, screen
<1>14. QED
  BY <1>7, <1>8, <1>9, <1>10, <1>11, <1>12, <1>13 DEF IInv


LEMMA StartStep == ASSUME IInv, NEW c \in Calls, Start(c) PROVE IInv'
<1>1. /\ view = "closed" /\ Free(c) /\ meta' = stored
      /\ UNCHANGED <<now, exp, deleted, member, stored, budget>>
  BY DEF Start
<1>2. \A d \in Calls : calls[d].kind = "idle"
  BY <1>1 DEF IInv, CallsFitTheView
<1>3. stored \in Deadlines(exp) /\ None \in Deadlines(exp)
  BY Types DEF Deadlines
<1>4. CASE stored = None
  <2>1. expired' = "none" /\ "none" \in States /\ calls' = calls /\ ToDashboard(None, "none")
    BY <1>4 DEF Start, States
  <2>2. /\ view' = "dashboard" /\ pageExp' = None /\ frames' = 0
        /\ shown' \in Lists(exp) /\ card' \in {"none", "ticking"}
        /\ card' = "none" <=> shown' = NotListed
        /\ races \subseteq races' /\ races' \subseteq races \cup {"hidden"}
        /\ shown' = NotListed /\ meta' # None => "hidden" \in races'
    BY <1>3, <2>1, <1>1, <1>4, Mounted
  <2>3. TypeOK'
    BY <1>1, <1>3, <1>4, <2>1, Types, MountedTypes
  <2>4. BoostsAreCounted'
    BY <1>1, <1>2, <1>4, <2>1, <2>2, Types DEF IInv, BoostsAreCounted, record, screen
  <2>5. CallsFitTheView'
    BY <1>1, <1>2, <1>4, <2>1, <2>2 DEF IInv, CallsFitTheView, Free, record, screen, None
  <2>6. AnswersAreCurrent'
    BY <1>1, <1>2, <1>4, <2>1, <2>2 DEF IInv, AnswersAreCurrent, Without, Live, record, screen
  <2>7. PageIsCurrent'
    BY <1>1, <1>2, <1>4, <2>1, <2>2 DEF IInv, PageIsCurrent, Without, record, screen
  <2>8. LiveRoomIsKept'
    BY <1>1, <1>2, <1>4, <2>1, <2>2
       DEF IInv, LiveRoomIsKept, Waits, Without, Live, record, screen
  <2>9. NothingIsForgotten'
    BY <1>1, <1>2, <1>4, <2>1, <2>2 DEF IInv, NothingIsForgotten, Waits, Without, record, screen
  <2>10. QED
    BY <2>3, <2>4, <2>5, <2>6, <2>7, <2>8, <2>9 DEF IInv
<1>5. CASE stored # None
  <2>1. PICK kind \in {"verify", "refresh"} : calls' = [calls EXCEPT ![c] = Ask(kind)]
    BY <1>5 DEF Start
  <2>2. /\ calls' \in [Calls -> CallRecords(exp)] /\ calls'[c].kind = kind /\ ~calls'[c].done
        /\ \A d \in Calls : d # c => calls'[d] = calls[d]
    BY <2>1, Types, Asks, OneCall DEF Kinds
  <2>3. expired' \in States /\ view' = "starting" /\ "starting" \in Views
        /\ UNCHANGED <<shown, card, pageExp, frames, races>>
    BY <1>5 DEF Start, States, Views
  <2>4. TypeOK'
    BY <1>1, <1>3, <2>2, <2>3, Types, TypesAgain
  <2>5. BoostsAreCounted'
    BY <1>1, <1>2, <1>5, <2>2, <2>3, Types DEF IInv, BoostsAreCounted, record, screen
  <2>6. CallsFitTheView'
    BY <1>1, <1>2, <1>5, <2>2, <2>3 DEF IInv, CallsFitTheView, Free, record, screen
  <2>7. AnswersAreCurrent'
    BY <1>1, <1>2, <1>5, <2>2, <2>3 DEF IInv, AnswersAreCurrent, Without, Live, record, screen
  <2>8. PageIsCurrent'
    BY <1>1, <1>2, <1>5, <2>2, <2>3 DEF IInv, PageIsCurrent, Without, record, screen
  <2>9. LiveRoomIsKept'
    BY <1>1, <1>2, <1>5, <2>2, <2>3
       DEF IInv, LiveRoomIsKept, Waits, Without, Live, record, screen
  <2>10. NothingIsForgotten'
    BY <1>1, <1>2, <1>5, <2>2, <2>3 DEF IInv, NothingIsForgotten, Waits, Without, record, screen
  <2>11. QED
    BY <2>4, <2>5, <2>6, <2>7, <2>8, <2>9, <2>10 DEF IInv
<1>6. QED
  BY <1>4, <1>5

LEMMA JoinStep == ASSUME IInv, NEW c \in Calls, Join(c) PROVE IInv'
<1>1. /\ view = "dashboard" /\ Free(c) /\ meta = None /\ member' = TRUE
      /\ UNCHANGED <<now, exp, deleted, record, screen, races>>
  BY DEF Join
<1>2. exp \in 1..exp
  BY Types
<1>3. [kind |-> "persist", done |-> TRUE, answer |-> exp] \in CallRecords(exp)
  BY <1>2 DEF CallRecords, Kinds
<1>4. /\ calls' \in [Calls -> CallRecords(exp)]
      /\ calls'[c] = [kind |-> "persist", done |-> TRUE, answer |-> exp]
      /\ \A d \in Calls : d # c => calls'[d] = calls[d]
  BY <1>3, OneCall DEF Join, ServerDeadline
<1>5. TypeOK'
  BY <1>1, <1>4, Types, TypesAgain DEF record, screen
<1>6. BoostsAreCounted'
  BY <1>1, Spends DEF Join, record, screen
<1>7. CallsFitTheView'
  BY <1>1, <1>2, <1>4 DEF IInv, CallsFitTheView, Free, record, screen
<1>8. AnswersAreCurrent'
  BY <1>1, <1>2, <1>4 DEF IInv, AnswersAreCurrent, Without, Live, record, screen
<1>9. PageIsCurrent'
  BY <1>1, <1>2, <1>4 DEF IInv, PageIsCurrent, Without, record, screen
<1>10. LiveRoomIsKept'
  BY <1>1, <1>2, <1>4 DEF IInv, LiveRoomIsKept, Waits, Without, Live, record, screen
<1>11. NothingIsForgotten'
  BY <1>1, <1>2, <1>4 DEF IInv, NothingIsForgotten, Waits, Without, record, screen
<1>12. QED
  BY <1>5, <1>6, <1>7, <1>8, <1>9, <1>10, <1>11 DEF IInv


LEMMA PersistStep == ASSUME IInv, NEW c \in Calls, Persist(c) PROVE IInv'
<1>1. /\ calls[c].kind = "persist" /\ stored' = calls[c].answer /\ meta' = calls[c].answer
      /\ view' = "chat" /\ shown' = NotListed /\ card' = "none" /\ pageExp' = None /\ frames' = 0
      /\ UNCHANGED <<now, exp, deleted, member, expired, budget, races>>
  BY DEF Persist, Ready, ToChat
<1>2. view \notin {"closed", "starting"} /\ calls[c].answer \in 1..exp
  BY <1>1 DEF IInv, CallsFitTheView
<1>3. calls[c].answer # None /\ calls[c].answer \in Deadlines(exp)
  BY <1>2, Types DEF None, Deadlines
<1>4. /\ calls' \in [Calls -> CallRecords(exp)] /\ calls'[c].kind = "page" /\ ~calls'[c].done
      /\ \A d \in Calls : d # c => calls'[d] = calls[d]
  BY Types, Asks, OneCall DEF Persist, Kinds
<1>5. TypeOK'
  <2>1. 0 \in 0..MaxBoosts
    BY Types
  <2>2. pageExp' \in Deadlines(exp) /\ card' \in Cards /\ view' \in Views
        /\ shown' \in Lists(exp)
    BY <1>1 DEF Deadlines, Cards, Views, Lists, NotListed, States
  <2>3. QED
    BY <1>1, <1>3, <1>4, <2>1, <2>2, Types, TypesAgain
<1>6. BoostsAreCounted'
  BY <1>1, <1>2, <1>3, <1>4, Types DEF IInv, BoostsAreCounted, record, screen
<1>7. CallsFitTheView'
  BY <1>1, <1>2, <1>3, <1>4 DEF IInv, CallsFitTheView, Free, record, screen
<1>8. AnswersAreCurrent'
  BY <1>1, <1>2, <1>3, <1>4 DEF IInv, AnswersAreCurrent, Without, Live, record, screen
<1>9. PageIsCurrent'
  BY <1>1, <1>2, <1>3, <1>4 DEF IInv, PageIsCurrent, Without, record, screen
<1>10. LiveRoomIsKept'
  BY <1>1, <1>2, <1>3, <1>4 DEF IInv, LiveRoomIsKept, Waits, Without, Live, record, screen
<1>11. NothingIsForgotten'
  BY <1>1, <1>2, <1>3, <1>4 DEF IInv, NothingIsForgotten, Waits, Without, record, screen
<1>12. QED
  BY <1>5, <1>6, <1>7, <1>8, <1>9, <1>10, <1>11 DEF IInv


LEMMA OpenPageStep == ASSUME IInv, NEW c \in Calls, OpenPage(c) PROVE IInv'
<1>1. /\ view = "dashboard" /\ Free(c)
      /\ view' = "chat" /\ shown' = NotListed /\ card' = "none" /\ pageExp' = None /\ frames' = 0
      /\ UNCHANGED <<now, exp, deleted, member, stored, meta, expired, races>>
  BY DEF OpenPage, ToChat, record
<1>2. /\ calls' \in [Calls -> CallRecords(exp)] /\ calls'[c].kind = "page" /\ ~calls'[c].done
      /\ \A d \in Calls : d # c => calls'[d] = calls[d]
  BY Types, Asks, OneCall DEF OpenPage, Kinds
<1>3. TypeOK'
  <2>1. 0 \in 0..MaxBoosts
    BY Types
  <2>2. pageExp' \in Deadlines(exp) /\ card' \in Cards /\ view' \in Views
        /\ shown' \in Lists(exp)
    BY <1>1 DEF Deadlines, Cards, Views, Lists, NotListed, States
  <2>3. QED
    BY <1>1, <1>2, <2>1, <2>2, Types, TypesAgain
<1>4. BoostsAreCounted'
  BY <1>1, Spends DEF OpenPage
<1>5. CallsFitTheView'
  BY <1>1, <1>2 DEF IInv, CallsFitTheView, Free, record, screen
<1>6. AnswersAreCurrent'
  BY <1>1, <1>2 DEF IInv, AnswersAreCurrent, Without, Live, record, screen
<1>7. PageIsCurrent'
  BY <1>1, <1>2 DEF IInv, PageIsCurrent, Without, record, screen
<1>8. LiveRoomIsKept'
  BY <1>1, <1>2 DEF IInv, LiveRoomIsKept, Waits, Without, Live, record, screen, Free
<1>9. NothingIsForgotten'
  BY <1>1, <1>2 DEF IInv, NothingIsForgotten, Waits, Without, record, screen
<1>10. QED
  BY <1>3, <1>4, <1>5, <1>6, <1>7, <1>8, <1>9 DEF IInv


LEMMA PageLoadedStep == ASSUME IInv, NEW c \in Calls, PageLoaded(c) PROVE IInv'
<1>1. /\ calls[c].kind = "page" /\ calls[c].done
      /\ UNCHANGED <<now, exp, deleted, member, record, budget>>
  BY DEF PageLoaded, Ready
<1>2. view = "chat"
  BY <1>1 DEF IInv, CallsFitTheView
<1>3. DEFINE rest == [calls EXCEPT ![c] = Idle]
<1>4. /\ rest \in [Calls -> CallRecords(exp)] /\ rest[c] = Idle
      /\ \A d \in Calls : d # c => rest[d] = calls[d]
  BY Types
<1>5. CASE calls[c].answer \in {Error, None}
  <2>1. calls' = Unmounted(rest) /\ ToDashboard(meta, expired)
    BY <1>5 DEF PageLoaded
  <2>2. /\ ToDashboard(meta', expired') /\ member' \in BOOLEAN
        /\ deleted' \in BOOLEAN /\ (deleted => deleted')
    BY <1>1, <2>1, Types DEF record
  <2>3. \A d \in Calls : \/ rest[d] = calls[d]
                         \/ rest[d] = Idle /\ calls[d].kind \in {"page", "old"}
    BY <1>1, <1>4
  <2>4. QED
    BY <1>1, <1>2, <1>4, <2>1, <2>2, <2>3, GoesHome
<1>6. CASE calls[c].answer \notin {Error, None}
  <2>1. /\ calls' = rest /\ pageExp' = calls[c].answer
        /\ UNCHANGED <<view, shown, card, frames, races>>
    BY <1>6 DEF PageLoaded
  <2>2. calls[c].answer \in 1..exp /\ calls[c].answer \in Deadlines(exp)
    BY <1>6, Types DEF CallRecords, Deadlines
  <2>3. calls'[c].kind = "idle" /\ ~calls'[c].done
    BY <1>4, <2>1, Types
  <2>4. UNCHANGED <<stored, meta, expired>>
    BY <1>1 DEF record
  <2>5. TypeOK'
    BY <1>1, <1>4, <2>1, <2>2, <2>4, Types, TypesAgain
  <2>6. BoostsAreCounted'
    BY <1>1, <1>2, <1>4, <1>6, <2>1, <2>3, <2>4, Types
       DEF IInv, BoostsAreCounted, record, screen
  <2>7. CallsFitTheView'
    BY <1>1, <1>2, <1>4, <1>6, <2>1, <2>3, <2>4 DEF IInv, CallsFitTheView, Free, record, screen
  <2>8. AnswersAreCurrent'
    BY <1>1, <1>2, <1>4, <1>6, <2>1, <2>3, <2>4
       DEF IInv, AnswersAreCurrent, Without, Live, record, screen
  <2>9. PageIsCurrent'
    BY <1>1, <1>6, <2>1 DEF IInv, PageIsCurrent, AnswersAreCurrent, Without
  <2>10. LiveRoomIsKept'
    BY <1>1, <1>2, <1>4, <1>6, <2>1, <2>3, <2>4
       DEF IInv, LiveRoomIsKept, Waits, Without, Live, record, screen
  <2>11. NothingIsForgotten'
    BY <1>1, <1>2, <1>4, <1>6, <2>1, <2>3, <2>4
       DEF IInv, NothingIsForgotten, Waits, Without, record, screen
  <2>12. QED
    BY <2>5, <2>6, <2>7, <2>8, <2>9, <2>10, <2>11 DEF IInv
<1>7. QED
  BY <1>5, <1>6

LEMMA OldPageLoadedStep == ASSUME IInv, NEW c \in Calls, OldPageLoaded(c) PROVE IInv'
<1>1. /\ calls[c].kind = "old" /\ calls[c].done
      /\ UNCHANGED <<now, exp, deleted, member, record, budget>>
  BY DEF OldPageLoaded, Ready
<1>2. DEFINE rest == [calls EXCEPT ![c] = Idle]
<1>3. /\ rest \in [Calls -> CallRecords(exp)] /\ rest[c] = Idle
      /\ \A d \in Calls : d # c => rest[d] = calls[d]
  BY Types
<1>4. CASE calls[c].answer \in {Error, None} /\ view = "chat"
  <2>1. calls' = Unmounted(rest) /\ ToDashboard(meta, expired)
    BY <1>4 DEF OldPageLoaded
  <2>2. /\ ToDashboard(meta', expired') /\ member' \in BOOLEAN
        /\ deleted' \in BOOLEAN /\ (deleted => deleted')
    BY <1>1, <2>1, Types DEF record
  <2>3. \A d \in Calls : \/ rest[d] = calls[d]
                         \/ rest[d] = Idle /\ calls[d].kind \in {"page", "old"}
    BY <1>1, <1>3
  <2>4. QED
    BY <1>1, <1>3, <1>4, <2>1, <2>2, <2>3, GoesHome
<1>5. CASE ~(calls[c].answer \in {Error, None} /\ view = "chat")
  <2>1. calls' = rest /\ UNCHANGED <<view, shown, card, pageExp, frames, races>>
    BY <1>5 DEF OldPageLoaded, screen
  <2>2. calls'[c].kind = "idle" /\ ~calls'[c].done
    BY <1>3, <2>1, Types
  <2>3. UNCHANGED <<stored, meta, expired>>
    BY <1>1 DEF record
  <2>4. TypeOK'
    BY <1>1, <1>3, <2>1, <2>3, Types, TypesAgain
  <2>5. BoostsAreCounted'
    BY <1>1, <1>3, <2>1, <2>2, <2>3, Types DEF IInv, BoostsAreCounted, record, screen
  <2>6. CallsFitTheView'
    BY <1>1, <1>3, <2>1, <2>2, <2>3 DEF IInv, CallsFitTheView, Free, record, screen
  <2>7. AnswersAreCurrent'
    BY <1>1, <1>3, <2>1, <2>2, <2>3 DEF IInv, AnswersAreCurrent, Without, Live, record, screen
  <2>8. PageIsCurrent'
    BY <1>1, <1>3, <2>1, <2>2, <2>3 DEF IInv, PageIsCurrent, Without, record, screen
  <2>9. LiveRoomIsKept'
    BY <1>1, <1>3, <2>1, <2>2, <2>3
       DEF IInv, LiveRoomIsKept, Waits, Without, Live, record, screen
  <2>10. NothingIsForgotten'
    BY <1>1, <1>3, <2>1, <2>2, <2>3 DEF IInv, NothingIsForgotten, Waits, Without, record, screen
  <2>11. QED
    BY <2>4, <2>5, <2>6, <2>7, <2>8, <2>9, <2>10 DEF IInv
<1>6. QED
  BY <1>4, <1>5


LEMMA SomeoneJoinsStep == ASSUME IInv, NEW c \in Calls, SomeoneJoins(c) PROVE IInv'
<1>1. view = "chat" /\ Free(c) /\ UNCHANGED <<now, exp, deleted, member, record, screen, races>>
  BY DEF SomeoneJoins
<1>2. /\ calls' \in [Calls -> CallRecords(exp)] /\ calls'[c].kind = "joined" /\ ~calls'[c].done
      /\ \A d \in Calls : d # c => calls'[d] = calls[d]
  BY Types, Asks, OneCall DEF SomeoneJoins, Kinds
<1>3. TypeOK'
  BY <1>1, <1>2, Types, TypesAgain DEF record, screen
<1>4. BoostsAreCounted'
  BY <1>1, Spends DEF SomeoneJoins, screen
<1>5. CallsFitTheView'
  BY <1>1, <1>2 DEF IInv, CallsFitTheView, Free, record, screen
<1>6. AnswersAreCurrent'
  BY <1>1, <1>2 DEF IInv, AnswersAreCurrent, Without, Live, record, screen
<1>7. PageIsCurrent'
  BY <1>1, <1>2 DEF IInv, PageIsCurrent, Without, record, screen
<1>8. LiveRoomIsKept'
  BY <1>1, <1>2 DEF IInv, LiveRoomIsKept, Waits, Without, Live, record, screen, Free
<1>9. NothingIsForgotten'
  BY <1>1, <1>2 DEF IInv, NothingIsForgotten, Waits, Without, record, screen
<1>10. QED
  BY <1>3, <1>4, <1>5, <1>6, <1>7, <1>8, <1>9 DEF IInv

LEMMA RoomInfoFetchedStep == ASSUME IInv, NEW c \in Calls, RoomInfoFetched(c) PROVE IInv'
<1>1. calls[c].kind = "joined" /\ calls[c].done
      /\ pageExp' = (IF calls[c].answer \in {Error, None} THEN pageExp ELSE calls[c].answer)
      /\ UNCHANGED <<now, exp, deleted, member, stored, meta, expired, view, shown, card, frames,
                     budget, races>>
  BY DEF RoomInfoFetched, Ready, record
<1>2. view = "chat"
  BY <1>1 DEF IInv, CallsFitTheView
<1>3. /\ calls' \in [Calls -> CallRecords(exp)] /\ calls'[c].kind = "idle" /\ ~calls'[c].done
      /\ \A d \in Calls : d # c => calls'[d] = calls[d]
  BY Types, OneCall DEF RoomInfoFetched
<1>4. pageExp' \in Deadlines(exp)
  BY <1>1, Types DEF CallRecords, Deadlines
<1>5. TypeOK'
  BY <1>1, <1>3, <1>4, Types, TypesAgain
<1>6. BoostsAreCounted'
  BY <1>1, <1>2, <1>3, Types DEF IInv, BoostsAreCounted, record, screen
<1>7. CallsFitTheView'
  BY <1>1, <1>2, <1>3 DEF IInv, CallsFitTheView, Free, record, screen
<1>8. AnswersAreCurrent'
  BY <1>1, <1>2, <1>3 DEF IInv, AnswersAreCurrent, Without, Live, record, screen
<1>9. PageIsCurrent'
  BY <1>1, <1>2, <1>3 DEF IInv, PageIsCurrent, AnswersAreCurrent, Without
<1>10. LiveRoomIsKept'
  BY <1>1, <1>2, <1>3 DEF IInv, LiveRoomIsKept, Waits, Without, Live, record, screen
<1>11. NothingIsForgotten'
  BY <1>1, <1>2, <1>3 DEF IInv, NothingIsForgotten, Waits, Without, record, screen
<1>12. QED
  BY <1>5, <1>6, <1>7, <1>8, <1>9, <1>10, <1>11 DEF IInv

LEMMA BoostedFrameStep == ASSUME IInv, BoostedFrame PROVE IInv'
<1>1. /\ frames' = frames - 1 /\ frames > 0
      /\ UNCHANGED <<now, exp, deleted, member, record, view, shown, card, pageExp, calls, budget,
                     races>>
  BY DEF BoostedFrame
<1>2. frames' \in 0..MaxBoosts
  BY <1>1, Types
<1>3. TypeOK'
  BY <1>1, <1>2, Types, TypesAgain DEF record
<1>4. BoostsAreCounted'
  BY <1>1, Types DEF IInv, BoostsAreCounted, record, screen
<1>5. CallsFitTheView'
  BY <1>1 DEF IInv, CallsFitTheView, Free, record, screen
<1>6. AnswersAreCurrent'
  BY <1>1 DEF IInv, AnswersAreCurrent, Without, Live, record, screen
<1>7. PageIsCurrent'
  BY <1>1 DEF IInv, PageIsCurrent, Without, record, screen
<1>8. LiveRoomIsKept'
  BY <1>1 DEF IInv, LiveRoomIsKept, Waits, Without, Live, record, screen
<1>9. NothingIsForgotten'
  BY <1>1 DEF IInv, NothingIsForgotten, Waits, Without, record, screen
<1>10. QED
  BY <1>3, <1>4, <1>5, <1>6, <1>7, <1>8, <1>9 DEF IInv

LEMMA PageExpiresStep == ASSUME IInv, PageExpires PROVE IInv'
<1>1. /\ view = "chat" /\ pageExp # None /\ pageExp <= now /\ removeRoom
      /\ calls' = Unmounted(calls) /\ ToDashboard(None, "none")
      /\ UNCHANGED <<now, exp, deleted, member, budget>>
  BY DEF PageExpires, Over
<1>2. Without({"page", "answer"}) => ~(member' /\ Live)
  BY <1>1, Types DEF IInv, PageIsCurrent, Without, Live
<1>3. ToDashboard(meta', expired') /\ member' \in BOOLEAN
  BY <1>1, Types DEF removeRoom
<1>4. QED
  BY <1>1, <1>2, <1>3, Types, GoesHome

LEMMA ClosePageStep == ASSUME IInv, ClosePage PROVE IInv'
<1>1. /\ view = "chat" /\ calls' = Unmounted(calls) /\ ToDashboard(meta, expired)
      /\ UNCHANGED <<now, exp, deleted, member, record, budget>>
  BY DEF ClosePage
<1>2. ToDashboard(meta', expired') /\ member' \in BOOLEAN
  BY <1>1, Types DEF record
<1>3. QED
  BY <1>1, <1>2, Types, GoesHome

LEMMA LeaveStep == ASSUME IInv, Leave PROVE IInv'
<1>1. /\ view = "chat" /\ member' = FALSE /\ removeRoom
      /\ calls' = Unmounted(calls) /\ ToDashboard(None, "none")
      /\ UNCHANGED <<now, exp, budget>>
  BY DEF Leave
<1>2. ToDashboard(meta', expired')
  BY <1>1 DEF removeRoom
<1>3. deleted' \in BOOLEAN /\ (deleted => deleted')
  <2>1. deleted' = TRUE \/ deleted' = deleted
    BY DEF Leave
  <2>2. deleted \in BOOLEAN
    BY Types
  <2>3. CASE deleted' = TRUE
    BY <2>3
  <2>4. CASE deleted' = deleted
    BY <2>2, <2>4
  <2>5. QED
    BY <2>1, <2>3, <2>4
<1>4. member' \in BOOLEAN
  BY <1>1
<1>5. QED
  BY <1>1, <1>2, <1>3, <1>4, Types, GoesHome


LEMMA AnswerStep == ASSUME IInv, NEW c \in Calls, Answer(c) PROVE IInv'
<1>1. /\ ~Free(c) /\ ~calls[c].done
      /\ UNCHANGED <<now, exp, deleted, member, record, screen, budget, races>>
  BY DEF Answer
<1>2. DEFINE a == IF Live THEN exp ELSE None
<1>3. a \in {Error, None} \cup 1..exp
  BY Types
<1>4. /\ calls'[c].kind = calls[c].kind /\ calls'[c].done /\ calls'[c].answer = a
      /\ calls'[c] \in CallRecords(exp) /\ calls' \in [Calls -> CallRecords(exp)]
      /\ \A d \in Calls : d # c => calls'[d] = calls[d]
  <2>1. calls' = [calls EXCEPT ![c] = [calls[c] EXCEPT !.done = TRUE, !.answer = a]]
    BY Types DEF Answer
  <2>2. /\ [calls[c] EXCEPT !.done = TRUE, !.answer = a] \in CallRecords(exp)
        /\ [calls[c] EXCEPT !.done = TRUE, !.answer = a].kind = calls[c].kind
        /\ [calls[c] EXCEPT !.done = TRUE, !.answer = a].done
        /\ [calls[c] EXCEPT !.done = TRUE, !.answer = a].answer = a
    BY <1>3, Types DEF CallRecords
  <2>3. QED
    BY <2>1, <2>2, Types
<1>5. TypeOK'
  BY <1>1, <1>4, Types, TypesAgain DEF record, screen
<1>6. BoostsAreCounted'
  BY <1>1, <1>4, Types DEF IInv, BoostsAreCounted, record, screen
<1>7. CallsFitTheView'
  BY <1>1, <1>4 DEF IInv, CallsFitTheView, Free, record, screen
<1>8. AnswersAreCurrent'
  BY <1>1, <1>4 DEF IInv, AnswersAreCurrent, Without, Live, record, screen
<1>9. PageIsCurrent'
  BY <1>1, <1>4 DEF IInv, PageIsCurrent, Without, record, screen
<1>10. LiveRoomIsKept'
  BY <1>1, <1>4 DEF IInv, LiveRoomIsKept, Waits, Without, Live, record, screen
<1>11. NothingIsForgotten'
  BY <1>1, <1>4 DEF IInv, NothingIsForgotten, Waits, Without, record, screen
<1>12. QED
  BY <1>5, <1>6, <1>7, <1>8, <1>9, <1>10, <1>11 DEF IInv

LEMMA FailStep == ASSUME IInv, NEW c \in Calls, Fail(c) PROVE IInv'
<1>1. /\ ~Free(c) /\ ~calls[c].done
      /\ UNCHANGED <<now, exp, deleted, member, record, screen>>
  BY DEF Fail
<1>2. /\ calls'[c].kind = calls[c].kind /\ calls'[c].done /\ calls'[c].answer = Error
      /\ calls'[c] \in CallRecords(exp) /\ calls' \in [Calls -> CallRecords(exp)]
      /\ \A d \in Calls : d # c => calls'[d] = calls[d]
  <2>1. calls' = [calls EXCEPT ![c] = [calls[c] EXCEPT !.done = TRUE, !.answer = Error]]
    BY Types DEF Fail
  <2>2. /\ [calls[c] EXCEPT !.done = TRUE, !.answer = Error] \in CallRecords(exp)
        /\ [calls[c] EXCEPT !.done = TRUE, !.answer = Error].kind = calls[c].kind
        /\ [calls[c] EXCEPT !.done = TRUE, !.answer = Error].done
        /\ [calls[c] EXCEPT !.done = TRUE, !.answer = Error].answer = Error
    BY Types DEF CallRecords
  <2>3. QED
    BY <2>1, <2>2, Types
<1>3. /\ races \subseteq races' /\ races' \subseteq Races
      /\ races' \subseteq races \cup {"failed", "failed again"}
  BY Types DEF Fail, Races
<1>4. TypeOK'
  BY <1>1, <1>2, <1>3, Types, TypesAgain DEF record, screen
<1>5. BoostsAreCounted'
  BY <1>1, Spends DEF Fail, screen
<1>6. CallsFitTheView'
  <2>1. /\ UNCHANGED <<view, pageExp, exp>> /\ calls[c].kind \notin {"idle", "persist"}
    BY <1>1 DEF IInv, CallsFitTheView, Free, screen
  <2>2. \A d \in Calls : /\ calls'[d].kind = calls[d].kind
                         /\ d # c => calls'[d] = calls[d]
    BY <1>2
  <2>3. \A d \in Calls : Free(d)' <=> Free(d)
    BY <2>2 DEF Free
  <2>4. /\ view' = "starting" => \A d, e \in Calls : ~Free(d)' /\ ~Free(e)' => d = e
        /\ pageExp' # None => view' = "chat"
    BY <2>1, <2>3 DEF IInv, CallsFitTheView
  <2>5. ASSUME NEW d \in Calls
        PROVE  LET x == calls'[d] IN
                 /\ x.kind = "idle" => ~x.done
                 /\ x.kind = "persist" => x.done /\ x.answer \in 1..exp'
                 /\ x.kind \in {"page", "joined"} => view' = "chat"
                 /\ x.kind = "refresh" => view' = "starting"
                 /\ view' = "closed" => x.kind = "idle"
                 /\ view' = "starting" => x.kind \in {"idle", "verify", "refresh"}
    BY <2>1, <2>2 DEF IInv, CallsFitTheView
  <2>6. QED
    BY <2>4, <2>5 DEF CallsFitTheView
<1>7. AnswersAreCurrent'
  BY <1>1, <1>2, <1>3 DEF IInv, AnswersAreCurrent, Without, Live, record, screen
<1>8. PageIsCurrent'
  BY <1>1, <1>2, <1>3 DEF IInv, PageIsCurrent, Without, record, screen
<1>9. LiveRoomIsKept'
  BY <1>1, <1>2, <1>3 DEF IInv, LiveRoomIsKept, Waits, Without, Live, record, screen
<1>10. NothingIsForgotten'
  BY <1>1, <1>2, <1>3 DEF IInv, NothingIsForgotten, Waits, Without, record, screen
<1>11. QED
  BY <1>4, <1>5, <1>6, <1>7, <1>8, <1>9, <1>10 DEF IInv

LEMMA BoostStep == ASSUME IInv, Boost PROVE IInv'
<1>1. /\ Live /\ exp' = exp + 1 /\ (frames' = frames + 1 \/ frames' = frames)
      /\ UNCHANGED <<now, deleted, member, stored, meta, expired, view, shown, card, pageExp,
                     calls>>
  BY DEF Boost, record
<1>2. /\ budget.boost > 0 /\ budget' = [budget EXCEPT !.boost = budget.boost - 1]
  BY DEF Boost, Spend
<1>3. /\ races \subseteq races' /\ races' \subseteq Races
      /\ view = "chat" => "page" \in races'
      /\ (\E c \in Calls : calls[c].done) => "answer" \in races'
  BY Types DEF Boost, Races
<1>4. BoostsAreCounted'
  BY <1>1, <1>2, Types DEF IInv, BoostsAreCounted
<1>5. exp' \in 1..(1 + TTL + MaxBoosts) /\ frames' \in 0..MaxBoosts
  <2>1. /\ budget.boost \in Nat /\ frames + budget.boost <= MaxBoosts
        /\ exp + budget.boost <= 1 + TTL + MaxBoosts
    BY DEF IInv, BoostsAreCounted
  <2>2. QED
    BY <1>1, <1>2, <2>1, Types
<1>6. 1..exp \subseteq 1..exp'
  BY <1>1, Types
<1>7. /\ {stored', meta', pageExp'} \subseteq Deadlines(exp') /\ shown' \in Lists(exp')
      /\ calls' \in [Calls -> CallRecords(exp')]
  BY <1>1, <1>6, Types DEF Deadlines, Lists, CallRecords
<1>8. TypeOK'
  BY <1>1, <1>3, <1>5, <1>7, Types, TypesAgain
<1>9. BoostsAreCounted'
  BY <1>4
<1>10. CallsFitTheView'
  BY <1>1, <1>3, <1>6 DEF IInv, CallsFitTheView, Free, record, screen
<1>11. AnswersAreCurrent'
  BY <1>1, <1>3 DEF AnswersAreCurrent, Without
<1>12. PageIsCurrent'
  BY <1>1, <1>3 DEF IInv, PageIsCurrent, CallsFitTheView, Without
<1>13. LiveRoomIsKept'
  BY <1>1, <1>3 DEF IInv, LiveRoomIsKept, Waits, Without, Live, record, screen
<1>14. NothingIsForgotten'
  BY <1>1, <1>3 DEF IInv, NothingIsForgotten, Waits, Without, record, screen
<1>15. QED
  BY <1>8, <1>9, <1>10, <1>11, <1>12, <1>13, <1>14 DEF IInv


LEMMA DeleteRoomStep == ASSUME IInv, DeleteRoom PROVE IInv'
<1>1. /\ deleted' = TRUE /\ ~Live'
      /\ UNCHANGED <<now, exp, member, record, screen, calls, budget, races>>
  BY DEF DeleteRoom, Live
<1>2. TypeOK'
  BY <1>1, Types, TypesAgain DEF record, screen
<1>3. BoostsAreCounted'
  BY <1>1 DEF IInv, BoostsAreCounted, record, screen
<1>4. CallsFitTheView'
  BY <1>1 DEF IInv, CallsFitTheView, Free, record, screen
<1>5. AnswersAreCurrent'
  BY <1>1 DEF IInv, AnswersAreCurrent, Without
<1>6. PageIsCurrent'
  BY <1>1 DEF IInv, PageIsCurrent, Without, record, screen
<1>7. LiveRoomIsKept'
  BY <1>1 DEF LiveRoomIsKept
<1>8. NothingIsForgotten'
  BY <1>1 DEF IInv, NothingIsForgotten, Waits, Without, record, screen
<1>9. QED
  BY <1>2, <1>3, <1>4, <1>5, <1>6, <1>7, <1>8 DEF IInv

LEMMA LeaveElsewhereStep == ASSUME IInv, LeaveElsewhere PROVE IInv'
<1>1. /\ Spend("visit") /\ stored' = None /\ member' = FALSE
      /\ deleted' = TRUE \/ deleted' = deleted
      /\ races \subseteq races' /\ races' \subseteq races \cup {"elsewhere"}
      /\ UNCHANGED <<now, exp, meta, expired, screen, calls>>
  BY DEF LeaveElsewhere
<1>2. TypeOK'
  <2>1. None \in Deadlines(exp) /\ races' \subseteq Races /\ member' \in BOOLEAN
    BY <1>1, Types DEF Deadlines, Races
  <2>2. deleted' \in BOOLEAN
    BY <1>1, Types
  <2>3. QED
    BY <1>1, <2>1, <2>2, Types, TypesAgain DEF screen
<1>3. BoostsAreCounted'
  BY <1>1, Spends DEF screen
<1>4. CallsFitTheView'
  BY <1>1 DEF IInv, CallsFitTheView, Free, screen
<1>5. ~Live => ~Live'
  <2>1. CASE deleted' = TRUE
    BY <2>1 DEF Live
  <2>2. CASE deleted' = deleted
    BY <1>1, <2>2 DEF Live
  <2>3. QED
    BY <1>1, <2>1, <2>2
<1>6. AnswersAreCurrent'
  BY <1>1, <1>5 DEF IInv, AnswersAreCurrent, Without
<1>7. PageIsCurrent'
  BY <1>1 DEF IInv, PageIsCurrent, Without, screen
<1>8. LiveRoomIsKept'
  BY <1>1 DEF LiveRoomIsKept
<1>9. NothingIsForgotten'
  BY <1>1 DEF IInv, NothingIsForgotten, Waits, Without, screen
<1>10. QED
  BY <1>2, <1>3, <1>4, <1>6, <1>7, <1>8, <1>9 DEF IInv

LEMMA TickStep == ASSUME IInv, Tick PROVE IInv'
<1>1. /\ now < MaxTime /\ now' = now + 1
      /\ UNCHANGED <<exp, deleted, member, record, screen, calls, budget, races>>
  BY DEF Tick
<1>2. now' \in 1..MaxTime /\ (Live' => Live)
  BY <1>1, Types, HotelAssumption DEF Live
<1>3. TypeOK'
  BY <1>1, <1>2, Types, TypesAgain DEF record, screen
<1>4. BoostsAreCounted'
  BY <1>1, <1>2 DEF IInv, BoostsAreCounted, record, screen
<1>5. CallsFitTheView'
  BY <1>1, <1>2 DEF IInv, CallsFitTheView, Free, record, screen
<1>6. AnswersAreCurrent'
  BY <1>1, <1>2 DEF IInv, AnswersAreCurrent, Without
<1>7. PageIsCurrent'
  BY <1>1, <1>2 DEF IInv, PageIsCurrent, Without, record, screen
<1>8. LiveRoomIsKept'
  BY <1>1, <1>2 DEF IInv, LiveRoomIsKept, Waits, Without, record
<1>9. NothingIsForgotten'
  BY <1>1, <1>2 DEF IInv, NothingIsForgotten, Waits, Without, record, screen
<1>10. QED
  BY <1>3, <1>4, <1>5, <1>6, <1>7, <1>8, <1>9 DEF IInv

LEMMA QuitStep == ASSUME IInv, Quit PROVE IInv'
<1>1. /\ view' = "closed" /\ meta' = None /\ expired' = "none"
      /\ shown' = NotListed /\ card' = "none" /\ pageExp' = None /\ frames' = 0
      /\ calls' = [c \in Calls |-> Idle]
      /\ UNCHANGED <<now, exp, deleted, member, stored>>
  BY DEF Quit
<1>2. /\ races \subseteq races' /\ races' \subseteq Races
      /\ Waits("persist") => "unsaved" \in races'
  BY Types DEF Quit, Races
<1>3. /\ calls' \in [Calls -> CallRecords(exp)]
      /\ \A c \in Calls : calls'[c].kind = "idle" /\ ~calls'[c].done
  BY <1>1, Types
<1>4. TypeOK'
  <2>1. 0 \in 0..MaxBoosts
    BY Types
  <2>2. {meta', pageExp'} \subseteq Deadlines(exp) /\ card' \in Cards /\ view' \in Views
        /\ shown' \in Lists(exp) /\ expired' \in States
    BY <1>1 DEF Deadlines, Cards, Views, Lists, NotListed, States
  <2>3. QED
    BY <1>1, <1>2, <1>3, <2>1, <2>2, Types, TypesAgain
<1>5. BoostsAreCounted'
  BY <1>1, Spends DEF Quit
<1>6. CallsFitTheView'
  BY <1>1, <1>2, <1>3 DEF IInv, CallsFitTheView, Free, record, screen
<1>7. AnswersAreCurrent'
  BY <1>1, <1>2, <1>3 DEF IInv, AnswersAreCurrent, Without, Live, record, screen
<1>8. PageIsCurrent'
  BY <1>1, <1>2, <1>3 DEF IInv, PageIsCurrent, Without, record, screen
<1>9. LiveRoomIsKept'
  BY <1>1, <1>2, <1>3 DEF IInv, LiveRoomIsKept, Waits, Without, Live, record, screen
<1>10. NothingIsForgotten'
  BY <1>1, <1>2, <1>3 DEF IInv, NothingIsForgotten, Waits, Without, record, screen
<1>11. QED
  BY <1>4, <1>5, <1>6, <1>7, <1>8, <1>9, <1>10 DEF IInv

-----------------------------------------------------------------------------
(* The invariant and what follows from it.                                 *)

LEMMA InitInvariant == Init => IInv
<1>1. SUFFICES ASSUME Init PROVE IInv
  OBVIOUS
<1>2. TTL \in Nat /\ MaxTime \in Nat /\ MaxTime >= 1
      /\ {MaxBoosts, Failures, Visits, Restarts, Changes} \subseteq Nat
  BY HotelAssumption
<1>3. /\ now \in 1..MaxTime /\ exp \in 1..(1 + TTL + MaxBoosts) /\ frames \in 0..MaxBoosts
      /\ BoostsAreCounted
  <2>1. now = 1 /\ exp = 1 + TTL /\ frames = 0
    BY <1>1 DEF Init
  <2>2. /\ budget \in [failure : Nat, visit : Nat, restart : Nat, change : Nat, boost : Nat]
        /\ budget.boost = MaxBoosts
    BY <1>1, <1>2 DEF Init
  <2>3. QED
    BY <1>2, <2>1, <2>2 DEF BoostsAreCounted
<1>4. /\ \A c \in Calls : calls[c] = Idle /\ calls[c].kind = "idle" /\ ~calls[c].done
      /\ shown = NotListed /\ card = "none" /\ view = "dashboard" /\ meta = None /\ pageExp = None
      /\ stored = None /\ ~member
  <2>1. Idle.kind = "idle" /\ ~Idle.done
    BY DEF Idle
  <2>2. QED
    BY <1>1, <2>1 DEF Init
<1>5. TypeOK
  <2>1. calls \in [Calls -> [kind : {"idle", "verify", "refresh", "page", "joined", "persist",
                                     "old"},
                             done : BOOLEAN, answer : {Error, None} \cup 1..exp]]
    BY <1>1 DEF Init, Idle
  <2>2. shown \in [exp : {None} \cup 1..exp, state : {"none", "checking", "unreachable"}]
    BY <1>4 DEF NotListed
  <2>3. QED
    BY <1>1, <1>3, <1>4, <2>1, <2>2 DEF Init, TypeOK
<1>6. QED
  BY <1>3, <1>4, <1>5 DEF IInv, CallsFitTheView, Free, AnswersAreCurrent, PageIsCurrent,
     LiveRoomIsKept, NothingIsForgotten

LEMMA NextInvariant == IInv /\ [Next]_vars => IInv'
<1>1. SUFFICES ASSUME IInv, [Next]_vars PROVE IInv'
  OBVIOUS
<1>2. CASE UNCHANGED vars
  <2>1. UNCHANGED <<now, exp, deleted, member, stored, meta, expired, view, shown, card, pageExp,
                    frames, calls, budget, races>>
    BY <1>2 DEF vars, record, screen
  <2>2. TypeOK'
    BY <1>1, <2>1, Types, TypesAgain
  <2>3. QED
    BY <1>1, <2>1, <2>2 DEF IInv, BoostsAreCounted, CallsFitTheView, Free, AnswersAreCurrent,
       PageIsCurrent, LiveRoomIsKept, NothingIsForgotten, Without, Waits, Live
<1>3. CASE OtherRoomChanges \/ BoostedFrame \/ PageExpires \/ ClosePage \/ Leave
           \/ Boost \/ DeleteRoom \/ LeaveElsewhere \/ Tick \/ Quit
  BY <1>1, <1>3, OtherRoomStep, BoostedFrameStep, PageExpiresStep, ClosePageStep, LeaveStep,
     BoostStep, DeleteRoomStep, LeaveElsewhereStep, TickStep, QuitStep
<1>4. ASSUME NEW c \in Calls,
             \/ CardExpires(c) \/ Handle(c) \/ Start(c) \/ Join(c) \/ OpenPage(c)
             \/ SomeoneJoins(c) \/ Answer(c) \/ Fail(c)
      PROVE  IInv'
  <2>1. CASE Handle(c)
    BY <1>1, <2>1, VerifyDoneStep, RefreshDoneStep, PersistStep, PageLoadedStep, OldPageLoadedStep,
       RoomInfoFetchedStep DEF Handle
  <2>2. CASE CardExpires(c) \/ Start(c) \/ Join(c) \/ OpenPage(c) \/ SomeoneJoins(c)
             \/ Answer(c) \/ Fail(c)
    BY <1>1, <2>2, CardExpiresStep, StartStep, JoinStep, OpenPageStep, SomeoneJoinsStep, AnswerStep,
       FailStep
  <2>3. QED
    BY <1>4, <2>1, <2>2
<1>5. QED
  BY <1>1, <1>2, <1>3, <1>4 DEF Next

\* In every reachable state: which calls may wait under what the browser shows, which of their
\* answers are still true, and what follows for the record.
THEOREM HotelInvariance == Spec => []IInv
BY InitInvariant, NextInvariant, PTL DEF Spec

\* The types of the browser's record, screen and calls, whatever the order of the answers.
THEOREM HotelTypes == Spec => []TypeOK
<1>1. IInv => TypeOK
  BY DEF IInv
<1>2. QED
  BY <1>1, HotelInvariance, PTL

\* A member who has not left keeps the record of a room that lives: neither a failed request,
\* a restart, an expired local deadline nor answers in any order lose it, unless a boost comes
\* while the chat page is open or after an answer was given.
THEOREM LiveRoomIsAlwaysKept == Spec => []LiveRoomIsKept
<1>1. IInv => LiveRoomIsKept
  BY DEF IInv
<1>2. QED
  BY <1>1, HotelInvariance, PTL

\* A room the dashboard knows and does not list is being verified, unless the list was made
\* between the end of the room and its countdown's last step.
THEOREM NothingIsEverForgotten == Spec => []NothingIsForgotten
<1>1. IInv => NothingIsForgotten
  BY DEF IInv
<1>2. QED
  BY <1>1, HotelInvariance, PTL

-----------------------------------------------------------------------------
(* What is removed stays removed.                                          *)

\* What is in memory is in localStorage too, unless another tab has removed it; and a browser
\* that starts has a record.
MemoryIsStored ==
  /\ Without({"elsewhere"}) => (meta # None => stored # None)
  /\ view = "starting" => meta # None

\* The answers that write a record find one, but for the keys that a join saves.
LEMMA WritersFindARecord ==
  ASSUME IInv, MemoryIsStored, NEW c \in Calls, Handle(c)
  PROVE  /\ MemoryIsStored'
         /\ Without({"elsewhere"}) /\ stored = None /\ stored' # None =>
           Ready(c, "persist") /\ ~Ready(c, "persist")'
<1>1. calls[c] \in CallRecords(exp) /\ calls \in [Calls -> CallRecords(exp)]
  BY Types
<1>2. CASE VerifyDone(c)
  <2>1. \/ stored' = None /\ meta' = None
        \/ UNCHANGED <<stored, meta>>
        \/ meta # None /\ stored' = meta'
    BY <1>2 DEF VerifyDone, removeRoom, updateExpiry
  <2>2. /\ view' # "starting" \/ (view' = view /\ view # "starting")
        /\ races \subseteq races'
    BY <1>2 DEF VerifyDone, ToDashboard
  <2>3. QED
    BY <2>1, <2>2 DEF MemoryIsStored, Without
<1>3. CASE RefreshDone(c)
  <2>1. view = "starting"
    BY <1>3 DEF RefreshDone, Ready, IInv, CallsFitTheView
  <2>2. /\ view' = "dashboard" /\ (UNCHANGED <<stored, meta>> \/ stored' = meta')
        /\ races \subseteq races'
    BY <1>3 DEF RefreshDone, ToDashboard
  <2>3. QED
    BY <2>1, <2>2 DEF MemoryIsStored, Without
<1>4. CASE Persist(c)
  <2>1. /\ stored' = meta' /\ view' = "chat" /\ Ready(c, "persist")
        /\ calls' = [calls EXCEPT ![c] = Ask("page")]
    BY <1>4 DEF Persist, ToChat
  <2>2. calls'[c].kind = "page"
    BY <1>1, <2>1 DEF Ask
  <2>3. QED
    BY <2>1, <2>2 DEF MemoryIsStored, Ready, Without
<1>5. CASE PageLoaded(c) \/ OldPageLoaded(c) \/ RoomInfoFetched(c)
  <2>1. UNCHANGED <<stored, meta>> /\ (view' = view \/ view' = "dashboard") /\ races \subseteq races'
    BY <1>5 DEF PageLoaded, OldPageLoaded, RoomInfoFetched, ToDashboard, record, screen
  <2>2. QED
    BY <2>1 DEF MemoryIsStored, Without
<1>6. QED
  BY <1>2, <1>3, <1>4, <1>5 DEF Handle

\* No other step writes a record where there is none.
LEMMA OthersWriteNone ==
  ASSUME MemoryIsStored,
         \/ OtherRoomChanges \/ BoostedFrame \/ PageExpires \/ ClosePage \/ Leave
         \/ Boost \/ DeleteRoom \/ LeaveElsewhere \/ Tick \/ Quit
         \/ \E c \in Calls : \/ CardExpires(c) \/ Start(c) \/ Join(c) \/ OpenPage(c)
                             \/ SomeoneJoins(c) \/ Answer(c) \/ Fail(c)
  PROVE  MemoryIsStored' /\ (stored' = None \/ stored' = stored)
<1>1. CASE OtherRoomChanges \/ BoostedFrame \/ Boost \/ DeleteRoom \/ Tick \/ Quit
  BY <1>1 DEF OtherRoomChanges, BoostedFrame, Boost, DeleteRoom, Tick, Quit, record, screen,
     MemoryIsStored, Without
<1>2. CASE PageExpires \/ ClosePage \/ Leave
  BY <1>2 DEF PageExpires, ClosePage, Leave, ToDashboard, removeRoom, record, MemoryIsStored,
     Without
<1>3. ASSUME NEW c \in Calls, Start(c)
      PROVE  MemoryIsStored' /\ stored' = stored
  BY <1>3 DEF Start, ToDashboard, MemoryIsStored
<1>4. ASSUME NEW c \in Calls, CardExpires(c) \/ Join(c) \/ OpenPage(c) \/ SomeoneJoins(c)
                              \/ Answer(c) \/ Fail(c)
      PROVE  MemoryIsStored' /\ stored' = stored
  BY <1>4 DEF CardExpires, Join, OpenPage, ToChat, SomeoneJoins, Answer, Fail, record, screen,
     MemoryIsStored, Without
<1>5. CASE LeaveElsewhere
  BY <1>5 DEF LeaveElsewhere, screen, MemoryIsStored, Without
<1>6. QED
  BY <1>1, <1>2, <1>3, <1>4, <1>5

\* A step writes a record where there was none only as the end of a join.
LEMMA StepKeepsRemoved ==
  ASSUME IInv, MemoryIsStored, [Next]_vars
  PROVE  /\ MemoryIsStored'
         /\ Without({"elsewhere"}) /\ stored = None /\ stored' # None =>
              \E c \in Calls : Ready(c, "persist") /\ ~Ready(c, "persist")'
<1>1. CASE UNCHANGED vars
  BY <1>1 DEF vars, record, screen, MemoryIsStored, Without
<1>2. CASE \E c \in Calls : Handle(c)
  BY <1>2, WritersFindARecord
<1>3. CASE \/ OtherRoomChanges \/ BoostedFrame \/ PageExpires \/ ClosePage \/ Leave
           \/ Boost \/ DeleteRoom \/ LeaveElsewhere \/ Tick \/ Quit
           \/ \E c \in Calls : \/ CardExpires(c) \/ Start(c) \/ Join(c) \/ OpenPage(c)
                               \/ SomeoneJoins(c) \/ Answer(c) \/ Fail(c)
  BY <1>3, OthersWriteNone
<1>4. QED
  BY <1>1, <1>2, <1>3 DEF Next

\* In every reachable state the browser's memory holds only rooms that localStorage holds,
\* or that were removed from it by another tab.
THEOREM MemoryIsAlwaysStored == Spec => []MemoryIsStored
<1>1. Init => MemoryIsStored
  BY DEF Init, MemoryIsStored
<1>2. IInv /\ MemoryIsStored /\ [Next]_vars => MemoryIsStored'
  BY StepKeepsRemoved
<1>3. QED
  BY <1>1, <1>2, HotelInvariance, PTL DEF Spec

\* A record that was removed stays removed, whatever answers come late and in whatever order:
\* only a join that was under way, or a tab that has not seen the room removed in another,
\* writes a record where there was none.
THEOREM RemovedAlwaysStaysRemoved == Spec => RemovedStaysRemoved
<1>1. IInv /\ MemoryIsStored /\ [Next]_vars =>
        [Without({"elsewhere"}) /\ stored = None /\ stored' # None =>
           \E c \in Calls : Ready(c, "persist") /\ ~Ready(c, "persist")']_vars
  BY StepKeepsRemoved
<1>2. QED
  BY <1>1, HotelInvariance, MemoryIsAlwaysStored, PTL DEF Spec, RemovedStaysRemoved
=============================================================================
