----------------------------- MODULE JoinProofs -----------------------------
(***************************************************************************)
(* Proofs about Join, for every number of tabs and calls, every cap and    *)
(* every bound: who is a member, what the browser keeps of it, and that a  *)
(* boost from outside makes room.                                          *)
(***************************************************************************)
EXTENDS Join, TLAPS

-----------------------------------------------------------------------------
(* The inductive invariant.                                                *)

\* A call belongs to a tab, and has the uid of the member it is about, if of any.
CallsAreWhole ==
  \A c \in Calls :
    LET call == calls[c] IN
      /\ call.kind # "idle" => call.tab \in Tabs
      /\ call.kind = "apply" => call.answer = "none"
      /\ call.kind = "join" => (call.uid # 0 <=> call.answer = "ok")
      /\ call.kind = "leave" => call.uid # 0 /\ (call.answer = "ok" => call.uid \in left)

\* A boost that is not overtaken still finds fewer members than its tier.
RoomIsMade ==
  /\ \A t \in Tabs \ overtaken : order[t] = "pending" => Count < Tier
  /\ \A c \in Calls \ overtaken : calls[c].kind = "apply" => Count < Tier

\* The uids of the browser are of its own members.
UidsAreMine ==
  /\ record # 0 => slots[record] = "me"
  /\ \A t \in Tabs : sess[t] # 0 => slots[sess[t]] = "me"
  /\ \A c \in Calls : calls[c].uid # 0 => slots[calls[c].uid] = "me"
  /\ \A t \in Tabs : tab[t].phase = "chat" => sess[t] # 0

\* Nobody but its join knows of a member that is new.
JoinsAreNew ==
  \A c \in Calls :
    calls[c].kind = "join" /\ calls[c].uid # 0 =>
      /\ calls[c].uid \notin left
      /\ record # calls[c].uid
      /\ \A t \in Tabs : sess[t] # calls[c].uid
      /\ \A d \in Calls \ {c} : calls[d].uid # calls[c].uid

\* Without the races that are named, the answer to a leave is on its way to whoever still
\* has the member's uid.
LeavesAreOnTheirWay ==
  Without({"elsewhere", "lost"}) =>
    \A u \in left :
      record = u \/ (\E t \in Tabs : sess[t] = u) =>
        \E c \in Calls : calls[c].kind = "leave" /\ calls[c].answer = "ok" /\ calls[c].uid = u

\* ... and a join that is on its way to the record is the browser's only membership.
JoinsAreAlone ==
  Without(Slips) =>
    \A c \in Calls :
      calls[c].kind = "join" /\ calls[c].uid # 0 => Mine = {calls[c].uid}

IInv ==
  /\ TypeOK
  /\ CallsAreWhole
  /\ RoomIsMade
  /\ SpinnersWait
  /\ UidsAreMine
  /\ JoinsAreNew
  /\ LeavesAreOnTheirWay
  /\ JoinsAreAlone
  /\ MembersAreKept

\* The invariant gives the properties.
LEMMA InvariantImplies == IInv => ChatsAsMember
BY DEF IInv, TypeOK, UidsAreMine, LeavesAreOnTheirWay, ChatsAsMember

LEMMA InitInvariant == Init => IInv
<1> SUFFICES ASSUME Init
             PROVE  IInv
  OBVIOUS
<1>0. /\ Len(slots) = 1 /\ slots \in Seq({"me", "other"}) /\ slots[1] = "other"
      /\ Count = 1 /\ Mine = {}
  <2>1. slots = <<"other">>
    BY DEF Init
  <2>2. Len(slots) = 1 /\ slots \in Seq({"me", "other"}) /\ slots[1] = "other"
    BY <2>1
  <2>3. \A u \in 1..Len(slots) : u = 1
    BY <2>2
  <2>4. QED
    BY <2>2, <2>3 DEF Mine, Count
<1>1. TypeOK
  <2>1. tab \in [Tabs -> Views] /\ calls \in [Calls -> Requests]
    BY DEF Init, At, Idle, Unknown, Views, Requests, Kinds, Phases, Counts
  <2>2. /\ \A t \in Tabs : ~(tab[t].listed \/ tab[t].redeeming \/ tab[t].paying)
        /\ \A c \in Calls : calls[c].uid = 0
    BY DEF Init, At, Idle
  <2>3. Count <= max /\ max \in {Cap, Tier}
    BY <1>0, JoinAssumption DEF Init
  <2>4. /\ left = {} /\ overtaken = {} /\ races = {}
        /\ record \in 0..Count /\ sess \in [Tabs -> 0..Count]
    BY <1>0 DEF Init
  <2>5. QED
    BY <1>0, <2>1, <2>2, <2>3, <2>4 DEF TypeOK, Init
<1> USE DEF Init, At, Idle, Unknown
<1>2. CallsAreWhole /\ RoomIsMade /\ SpinnersWait
  BY DEF CallsAreWhole, RoomIsMade, SpinnersWait
<1>3. UidsAreMine /\ JoinsAreNew /\ LeavesAreOnTheirWay /\ JoinsAreAlone
  BY DEF UidsAreMine, JoinsAreNew, LeavesAreOnTheirWay, JoinsAreAlone
<1>4. MembersAreKept
  BY <1>0 DEF MembersAreKept
<1>5. QED
  BY <1>1, <1>2, <1>3, <1>4 DEF IInv

-----------------------------------------------------------------------------
(* What becomes of the calls and the spinners.                             *)

LEMMA Replaced ==
  ASSUME calls \in [Calls -> Requests], NEW c \in Calls, NEW r \in Requests,
         calls' = [calls EXCEPT ![c] = r]
  PROVE  /\ calls' \in [Calls -> Requests]
         /\ \A d \in Calls : calls'[d] = IF d = c THEN r ELSE calls[d]
OBVIOUS

LEMMA IdleCall ==
  /\ Idle \in Requests
  /\ Idle.kind = "idle" /\ Idle.answer = "none" /\ Idle.uid = 0 /\ Idle.page = "here"
BY DEF Idle, Requests, Kinds, Counts, Unknown

LEMMA AskedCall ==
  ASSUME NEW kind \in Kinds, NEW t \in Tabs
  PROVE  /\ Ask(kind, t) \in Requests
         /\ Ask(kind, t).kind = kind /\ Ask(kind, t).tab = t /\ Ask(kind, t).page = "here"
         /\ Ask(kind, t).answer = "none" /\ Ask(kind, t).uid = 0
BY DEF Ask, Idle, Requests, Counts, Unknown

\* A call is as it was, up to its page and what it was told of the room.
Same(c) ==
  /\ calls'[c].kind = calls[c].kind /\ calls'[c].tab = calls[c].tab
  /\ calls'[c].answer = calls[c].answer /\ calls'[c].uid = calls[c].uid

\* A call is new.
New(c) ==
  /\ calls'[c].answer = "none" /\ calls'[c].tab \in Tabs
  /\ \/ /\ calls'[c].kind \in {"refresh", "verify", "open", "join", "refetch", "redeem"}
        /\ calls'[c].uid = 0
     \/ calls'[c].kind = "leave" /\ calls'[c].uid # 0 /\ \E s \in Tabs : calls'[c].uid = sess[s]

\* The calls of a tab whose page is left or that is closed.
LEMMA OrphanedCalls ==
  ASSUME IInv, NEW t \in Tabs, NEW how \in {"old", "gone"}
  PROVE  /\ Orphaned(t, how) \in [Calls -> Requests]
         /\ \A c \in Calls :
              LET now == Orphaned(t, how)[c] IN
                \/ now = calls[c]
                \/ /\ now.kind = calls[c].kind /\ now.tab = calls[c].tab
                   /\ now.answer = calls[c].answer /\ now.uid = calls[c].uid
                   /\ calls[c].tab = t
                \/ now = Idle /\ calls[c].tab = t /\ how = "gone" /\ calls[c].answer # "none"
<1>1. calls \in [Calls -> Requests]
  BY DEF IInv, TypeOK
<1>2. \A c \in Calls : [calls[c] EXCEPT !.page = how] \in Requests
  BY <1>1 DEF Requests
<1>3. \A c \in Calls :
        \/ Orphaned(t, how)[c] = calls[c]
        \/ Orphaned(t, how)[c] = [calls[c] EXCEPT !.page = how] /\ calls[c].tab = t
        \/ /\ Orphaned(t, how)[c] = Idle /\ calls[c].tab = t
           /\ how = "gone" /\ calls[c].answer # "none"
  BY DEF Orphaned
<1>4. Orphaned(t, how) \in [Calls -> Requests]
  BY <1>1, <1>2, IdleCall DEF Orphaned
<1>5. QED
  BY <1>1, <1>3, <1>4 DEF Requests

\* The spinners of the other tabs go on, when a step is about one tab.
LEMMA SpinnersOfOthers ==
  ASSUME SpinnersWait, NEW t \in Tabs,
         \A s \in Tabs \ {t} : tab'[s] = tab[s],
         \A c \in Calls : calls[c].kind # "idle" /\ calls[c].tab # t => calls'[c] = calls[c],
         tab'[t].phase \in {"starting", "returning"} => Waiting(t, {"refresh"})',
         tab'[t].phase = "extracting" => Waiting(t, {"open"})',
         tab'[t].phase = "joining" => Waiting(t, {"join", "refetch"})',
         tab'[t].redeeming => Waiting(t, {"redeem", "apply"})'
  PROVE  SpinnersWait'
<1> SUFFICES ASSUME NEW s \in Tabs \ {t}
             PROVE  /\ tab[s].phase \in {"starting", "returning"} => Waiting(s, {"refresh"})'
                    /\ tab[s].phase = "extracting" => Waiting(s, {"open"})'
                    /\ tab[s].phase = "joining" => Waiting(s, {"join", "refetch"})'
                    /\ tab[s].redeeming => Waiting(s, {"redeem", "apply"})'
  BY DEF SpinnersWait
<1>1. /\ tab[s].phase \in {"starting", "returning"} => Waiting(s, {"refresh"})
      /\ tab[s].phase = "extracting" => Waiting(s, {"open"})
      /\ tab[s].phase = "joining" => Waiting(s, {"join", "refetch"})
      /\ tab[s].redeeming => Waiting(s, {"redeem", "apply"})
  BY DEF SpinnersWait
<1>2. ASSUME NEW kinds, Waiting(s, kinds), "idle" \notin kinds
      PROVE  Waiting(s, kinds)'
  BY <1>2 DEF Waiting, OfTab, Shown
<1>3. QED
  BY <1>1, <1>2

\* All of them go on, when requests are answered.
LEMMA SpinnersOfAll ==
  ASSUME SpinnersWait, UNCHANGED tab,
         \A c \in Calls :
           Shown(c) /\ calls[c].kind # "idle" =>
             /\ calls'[c].tab = calls[c].tab /\ calls'[c].page = calls[c].page
             /\ \/ calls'[c].kind = calls[c].kind
                \/ {calls[c].kind, calls'[c].kind} \subseteq {"redeem", "apply"}
  PROVE  SpinnersWait'
<1>1. \A s \in Tabs :
        /\ Waiting(s, {"refresh"}) => Waiting(s, {"refresh"})'
        /\ Waiting(s, {"open"}) => Waiting(s, {"open"})'
        /\ Waiting(s, {"join", "refetch"}) => Waiting(s, {"join", "refetch"})'
        /\ Waiting(s, {"redeem", "apply"}) => Waiting(s, {"redeem", "apply"})'
  BY DEF Waiting, OfTab, Shown
<1>2. QED
  BY <1>1 DEF SpinnersWait

-----------------------------------------------------------------------------
(* The steps of the browser that leave the room as it is.                  *)

\* Calls are made, dropped and handled; what a dropped call has done is a race, and so is
\* that the record of a member goes.
BrowserStep ==
  /\ UNCHANGED <<slots, left, overtaken>>
  /\ record' \in {record, 0} \/ \E s \in Tabs : record' = sess[s]
  /\ record \in Mine /\ record' # record => races' \cap {"overwritten", "untimely"} # {}
  /\ calls' \in [Calls -> Requests]
  /\ \A c \in Calls : Same(c) \/ calls'[c] = Idle \/ New(c)
  /\ \A c \in Calls :
       calls[c].kind \in {"join", "leave"} /\ calls[c].answer = "ok" => Same(c) \/ "lost" \in races'
  /\ \A c \in Calls : calls[c].kind = "apply" => Same(c)
  /\ races \subseteq races' /\ races' \subseteq races \cup {"lost", "overwritten", "untimely"}
  /\ \A t \in Tabs : sess'[t] \in {sess[t], record, 0}
  /\ \A t \in Tabs : tab'[t].phase = "chat" => sess'[t] # 0
  /\ \A t \in Tabs : order'[t] = order[t] \/ (order'[t] = "pending" /\ MakesRoom)

LEMMA BrowserInvariant ==
  ASSUME IInv, BrowserStep
  PROVE  /\ CallsAreWhole' /\ RoomIsMade' /\ UidsAreMine' /\ JoinsAreNew'
         /\ LeavesAreOnTheirWay' /\ JoinsAreAlone' /\ MembersAreKept' /\ BoostStep
<1>0. /\ Count \in Nat /\ Tier \in Nat
      /\ \A c \in Calls : calls[c].uid \in Nat /\ calls'[c].uid \in Nat
      /\ UNCHANGED <<Count, Mine>>
  <2>1. Count \in Nat /\ Tier \in Nat
    BY JoinAssumption DEF IInv, TypeOK, Count
  <2>2. QED
    BY <2>1 DEF BrowserStep, IInv, TypeOK, Requests, Count, Mine
<1>1. \A c \in Calls : Same(c) \/ (calls'[c].kind = "idle" /\ calls'[c].uid = 0) \/ New(c)
  BY IdleCall DEF BrowserStep
<1>2. CallsAreWhole'
  BY <1>1 DEF IInv, CallsAreWhole, BrowserStep, Same, New
<1>3. RoomIsMade'
  BY <1>0, <1>1 DEF IInv, RoomIsMade, BrowserStep, Same, New, MakesRoom
<1>4. UidsAreMine'
  BY <1>1 DEF IInv, UidsAreMine, BrowserStep, Same, New
<1>5. JoinsAreNew'
  <2> SUFFICES ASSUME NEW c \in Calls, calls'[c].kind = "join", calls'[c].uid # 0
               PROVE  /\ calls[c].uid \notin left /\ record' # calls[c].uid
                      /\ \A t \in Tabs : sess'[t] # calls[c].uid
                      /\ \A d \in Calls \ {c} : calls'[d].uid # calls[c].uid
                      /\ calls'[c].uid = calls[c].uid
    BY DEF JoinsAreNew, BrowserStep
  <2>1. Same(c)
    BY <1>1 DEF New
  <2>2. /\ calls[c].uid \notin left /\ record # calls[c].uid /\ calls[c].uid # 0
        /\ \A t \in Tabs : sess[t] # calls[c].uid
        /\ \A d \in Calls \ {c} : calls[d].uid # calls[c].uid
    BY <2>1 DEF IInv, JoinsAreNew, Same
  <2>3. \A d \in Calls \ {c} : calls'[d].uid # calls[c].uid
    BY <1>1, <2>2 DEF Same, New
  <2>4. QED
    BY <2>1, <2>2, <2>3 DEF BrowserStep, Same
<1>6. LeavesAreOnTheirWay'
  <2> SUFFICES ASSUME Without({"elsewhere", "lost"})', NEW u \in left,
                      record' = u \/ \E t \in Tabs : sess'[t] = u
               PROVE  \E c \in Calls :
                        calls'[c].kind = "leave" /\ calls'[c].answer = "ok" /\ calls'[c].uid = u
    BY DEF LeavesAreOnTheirWay, BrowserStep
  <2>1. Without({"elsewhere", "lost"}) /\ "lost" \notin races'
    BY DEF Without, BrowserStep
  <2>2. u # 0 /\ (record = u \/ \E t \in Tabs : sess[t] = u)
    BY DEF BrowserStep, IInv, TypeOK
  <2>3. PICK c \in Calls :
          calls[c].kind = "leave" /\ calls[c].answer = "ok" /\ calls[c].uid = u
    BY <2>1, <2>2 DEF IInv, LeavesAreOnTheirWay
  <2>4. QED
    BY <2>1, <2>3 DEF BrowserStep, Same
<1>7. JoinsAreAlone'
  <2> SUFFICES ASSUME Without(Slips)', NEW c \in Calls,
                      calls'[c].kind = "join", calls'[c].uid # 0
               PROVE  Mine = {calls'[c].uid}
    BY <1>0 DEF JoinsAreAlone, BrowserStep
  <2>1. Without(Slips)
    BY DEF Without, BrowserStep
  <2>2. Same(c)
    BY <1>1 DEF New
  <2>3. QED
    BY <2>1, <2>2 DEF IInv, JoinsAreAlone, Same
<1>8. MembersAreKept'
  <2> SUFFICES ASSUME Without(Slips)', NEW u \in Mine
               PROVE  record' = u \/ \E c \in Calls : calls'[c].kind = "join" /\ calls'[c].uid = u
    BY <1>0 DEF MembersAreKept, BrowserStep
  <2>1. Without(Slips) /\ races' \cap {"lost", "overwritten", "untimely"} = {}
    BY DEF Without, Slips, BrowserStep
  <2>2. CASE \E c \in Calls : calls[c].kind = "join" /\ calls[c].uid = u
    <3>1. PICK c \in Calls : calls[c].kind = "join" /\ calls[c].uid = u
      BY <2>2
    <3>2. u # 0 /\ calls[c].answer = "ok"
      BY <3>1 DEF Mine, Count, IInv, CallsAreWhole
    <3>3. QED
      BY <2>1, <3>1, <3>2 DEF BrowserStep, Same
  <2>3. CASE record = u
    BY <2>1, <2>3 DEF BrowserStep
  <2>4. QED
    BY <2>1, <2>2, <2>3 DEF IInv, MembersAreKept
<1>9. BoostStep
  BY DEF BrowserStep, BoostStep, Same
<1>10. QED
  BY <1>2, <1>3, <1>4, <1>5, <1>6, <1>7, <1>8, <1>9

\* What a tab can show.
LEMMA ViewTypes ==
  ASSUME IInv, NEW seen \in Counts
  PROVE  /\ \A phase \in Phases :
              /\ At(phase) \in Views /\ At(phase).phase = phase
              /\ ~At(phase).listed /\ ~At(phase).redeeming /\ ~At(phase).paying
         /\ Form(seen) \in Views /\ Form(seen).phase = "name"
         /\ ~Form(seen).listed /\ ~Form(seen).redeeming /\ ~Form(seen).paying
         /\ Full(seen) \in Views /\ Full(seen).phase = "full" /\ ~Full(seen).redeeming
<1>1. \A phase \in Phases :
        /\ At(phase) \in Views /\ At(phase).phase = phase
        /\ ~At(phase).listed /\ ~At(phase).redeeming /\ ~At(phase).paying
  BY DEF At, Views, Counts, Unknown
<1>2. "name" \in Phases /\ "full" \in Phases
  BY DEF Phases
<1>3. /\ Form(seen) \in Views /\ Form(seen).phase = "name"
      /\ ~Form(seen).listed /\ ~Form(seen).redeeming /\ ~Form(seen).paying
  BY <1>1, <1>2 DEF Form, At, Views
<1>4. (wallet /\ (seen = Unknown \/ Tier > seen.count)) \in BOOLEAN
  OBVIOUS
<1>5. Full(seen) \in Views /\ Full(seen).phase = "full" /\ ~Full(seen).redeeming
  <2> DEFINE listed == wallet /\ (seen = Unknown \/ Tier > seen.count)
  <2>1. Full(seen) = [At("full") EXCEPT !.seen = seen, !.listed = listed]
    BY DEF Full
  <2>2. listed \in BOOLEAN
    BY <1>4
  <2> HIDE DEF listed
  <2>3. QED
    BY <1>1, <1>2, <2>1, <2>2 DEF Views
<1>6. QED
  BY <1>1, <1>3, <1>5

\* A step of a tab that is a BrowserStep keeps the types too.
LEMMA BrowserDone ==
  ASSUME IInv, BrowserStep, SpinnersWait', NEW t \in Tabs, NEW v \in Views,
         tab' = [tab EXCEPT ![t] = v],
         v.listed \/ v.redeeming \/ v.paying => v.phase = "full",
         UNCHANGED sess \/ \E u \in {record, 0} : sess' = [sess EXCEPT ![t] = u],
         UNCHANGED order \/ order' = [order EXCEPT ![t] = "pending"],
         wallet' \in BOOLEAN, UNCHANGED <<max, coupon>>
  PROVE  IInv' /\ BoostStep
<1>1. UNCHANGED Count /\ Count \in Nat /\ record' \in 0..Count
  BY DEF BrowserStep, Count, IInv, TypeOK
<1>2. \A c \in Calls : calls'[c].uid <= Count
  <2>1. \A s \in Tabs : sess[s] <= Count
    BY <1>1 DEF IInv, TypeOK
  <2>2. \A c \in Calls : calls[c].uid <= Count
    BY DEF IInv, TypeOK
  <2>3. QED
    BY <1>1, <2>1, <2>2, IdleCall DEF BrowserStep, Same, New
<1>3. /\ tab' \in [Tabs -> Views]
      /\ \A s \in Tabs :
           tab'[s].listed \/ tab'[s].redeeming \/ tab'[s].paying => tab'[s].phase = "full"
  <2>1. /\ tab \in [Tabs -> Views]
        /\ \A s \in Tabs :
             tab[s].listed \/ tab[s].redeeming \/ tab[s].paying => tab[s].phase = "full"
    BY DEF IInv, TypeOK
  <2>2. tab'[t] = v /\ \A s \in Tabs \ {t} : tab'[s] = tab[s]
    BY <2>1
  <2>3. tab' \in [Tabs -> Views]
    BY <2>1
  <2>4. QED
    BY <2>1, <2>2, <2>3
<1>4. /\ sess' \in [Tabs -> 0..Count]
      /\ order' \in [Tabs -> {"none", "pending", "completed"}]
  <2>1. /\ sess \in [Tabs -> 0..Count] /\ {record, 0} \subseteq 0..Count
        /\ order \in [Tabs -> {"none", "pending", "completed"}]
    BY <1>1 DEF IInv, TypeOK
  <2>2. QED
    BY <2>1
<1>5. races' \subseteq Slips \cup {"elsewhere"}
  BY DEF BrowserStep, IInv, TypeOK, Slips
<1>6. TypeOK'
  BY <1>1, <1>2, <1>3, <1>4, <1>5 DEF IInv, TypeOK, BrowserStep
<1>7. QED
  BY <1>6, BrowserInvariant DEF IInv

\* The calls of a tab that goes on, leaves its page, or is closed.
LEMMA DroppedCalls ==
  ASSUME IInv, NEW t \in Tabs,
         \/ UNCHANGED calls
         \/ calls' = Orphaned(t, "old")
         \/ calls' = Orphaned(t, "gone") /\ Unread(OfTab(t)) \subseteq races'
  PROVE  /\ calls' \in [Calls -> Requests]
         /\ \A c \in Calls :
              \/ calls'[c] = calls[c]
              \/ calls[c].tab = t /\ Same(c)
              \/ calls[c].tab = t /\ calls'[c] = Idle /\ calls[c].answer # "none"
         /\ \A c \in Calls :
              calls[c].kind \in {"join", "leave"} /\ calls[c].answer = "ok" =>
                Same(c) \/ "lost" \in races'
<1>1. CASE UNCHANGED calls
  BY <1>1 DEF IInv, TypeOK, Same
<1>2. CASE calls' = Orphaned(t, "old")
  BY <1>2, OrphanedCalls DEF Same
<1>3. CASE calls' = Orphaned(t, "gone") /\ Unread(OfTab(t)) \subseteq races'
  <2>1. /\ calls' \in [Calls -> Requests]
        /\ \A c \in Calls :
             \/ calls'[c] = calls[c]
             \/ calls[c].tab = t /\ Same(c)
             \/ calls[c].tab = t /\ calls'[c] = Idle /\ calls[c].answer # "none"
    BY <1>3, OrphanedCalls DEF Same
  <2>2. QED
    BY <1>3, <2>1 DEF Unread, OfTab, Same
<1>4. QED
  BY <1>1, <1>2, <1>3

\* A tab is closed or left, or its countdown ends.
LEMMA TabSteps ==
  ASSUME IInv, NEW t \in Tabs,
         CloseTab(t) \/ GoHome(t) \/ OpenChat(t) \/ PageExpires(t)
  PROVE  IInv' /\ BoostStep
<1>1. PICK phase \in {"home", "closed", "chat"} :
        /\ tab' = [tab EXCEPT ![t] = At(phase)]
        /\ \/ UNCHANGED sess
           \/ phase # "chat" /\ sess' = [sess EXCEPT ![t] = 0]
        /\ phase = "chat" => sess'[t] # 0
        /\ \/ UNCHANGED calls
           \/ calls' = Orphaned(t, "old")
           \/ calls' = Orphaned(t, "gone") /\ Unread(OfTab(t)) \subseteq races'
        /\ record' \in {record, 0}
        /\ record \in Mine /\ record' # record => "untimely" \in races'
        /\ races \subseteq races' /\ races' \subseteq races \cup {"lost", "untimely"}
        /\ UNCHANGED <<slots, left, max, coupon, order, wallet, overtaken>>
  <2>1. Unread(OfTab(t)) \subseteq {"lost"}
    BY DEF Unread
  <2>2. CASE CloseTab(t)
    BY <2>1, <2>2 DEF CloseTab, Become, server
  <2>3. CASE GoHome(t)
    <3>1. UNCHANGED sess \/ sess' = [sess EXCEPT ![t] = 0]
      BY <2>3 DEF GoHome, IInv, TypeOK
    <3>2. QED
      BY <2>3, <3>1 DEF GoHome, Become, server
  <2>4. CASE OpenChat(t)
    BY <2>4 DEF OpenChat, Become, server
  <2>5. CASE PageExpires(t)
    BY <2>5 DEF PageExpires, SeemsOver, removeRoom, Become, server
  <2>6. QED
    BY <2>2, <2>3, <2>4, <2>5
<1>2. At(phase) \in Views /\ At(phase).phase = phase
      /\ ~At(phase).listed /\ ~At(phase).redeeming /\ ~At(phase).paying
  BY DEF At, Views, Counts, Unknown, Phases
<1>3. /\ calls' \in [Calls -> Requests]
      /\ \A c \in Calls :
           \/ calls'[c] = calls[c]
           \/ calls[c].tab = t /\ Same(c)
           \/ calls[c].tab = t /\ calls'[c] = Idle /\ calls[c].answer # "none"
      /\ \A c \in Calls :
           calls[c].kind \in {"join", "leave"} /\ calls[c].answer = "ok" =>
             Same(c) \/ "lost" \in races'
  BY <1>1, DroppedCalls
<1>4. BrowserStep
  <2>1. \A c \in Calls : calls[c].kind = "apply" => calls[c].answer = "none"
    BY DEF IInv, CallsAreWhole
  <2>2. \A s \in Tabs : tab'[s].phase = "chat" => sess'[s] # 0
    BY <1>1, <1>2 DEF IInv, TypeOK, UidsAreMine
  <2>3. \A s \in Tabs : sess'[s] \in {sess[s], record, 0}
    BY <1>1 DEF IInv, TypeOK
  <2>4. QED
    BY <1>1, <1>3, <2>1, <2>2, <2>3 DEF BrowserStep, Same
<1>5. SpinnersWait'
  <2>1. tab'[t] = At(phase) /\ \A s \in Tabs \ {t} : tab'[s] = tab[s]
    BY <1>1 DEF IInv, TypeOK
  <2>2. \A c \in Calls : calls[c].tab # t => calls'[c] = calls[c]
    BY <1>3
  <2>3. QED
    BY <1>2, <2>1, <2>2, SpinnersOfOthers DEF IInv
<1>6. wallet \in BOOLEAN
  BY DEF IInv, TypeOK
<1>7. QED
  BY <1>1, <1>2, <1>4, <1>5, <1>6, BrowserDone

\* A document or a link is opened, or a form sent: a call is made, and what waits for it
\* shown.
LEMMA AskSteps ==
  ASSUME IInv, NEW t \in Tabs, NEW c \in Calls,
         \/ Start(t, c) \/ ReturnFromPolar(t, c) \/ Verify(t, c)
         \/ OpenLink(t, c) \/ HandleJoin(t, c) \/ HandleApplyCoupon(t, c) \/ HandleLeave(t, c)
  PROVE  IInv' /\ BoostStep
<1>0. /\ calls \in [Calls -> Requests] /\ tab \in [Tabs -> Views] /\ tab[t] \in Views
      /\ wallet \in BOOLEAN
      /\ tab[t].listed \/ tab[t].redeeming \/ tab[t].paying => tab[t].phase = "full"
      /\ sess \in [Tabs -> 0..Count] /\ sess[t] \in Nat /\ record \in Nat
  BY DEF IInv, TypeOK
<1>1. /\ UNCHANGED <<slots, left, max, coupon, order, record, wallet, overtaken, races>>
      /\ UNCHANGED sess \/ sess' = [sess EXCEPT ![t] = record]
  BY DEF Start, ReturnFromPolar, Verify, loadAll, OpenLink, HandleJoin, HandleApplyCoupon,
         HandleLeave, server, browser
<1>2. PICK v \in Views :
        /\ tab' = [tab EXCEPT ![t] = v]
        /\ v.listed \/ v.redeeming \/ v.paying => v.phase = "full"
        /\ v.phase = "chat" => sess'[t] # 0
        /\ \/ UNCHANGED calls /\ v.phase \in {"home", "expired", "chat", "error"}
           \/ /\ calls[c].kind = "idle"
              /\ \E r \in Requests :
                   /\ calls' = [calls EXCEPT ![c] = r]
                   /\ r.tab = t /\ r.page = "here" /\ r.answer = "none"
                   /\ \/ r.kind = "refresh" /\ r.uid = 0 /\ v.phase \in {"starting", "returning"}
                      \/ r.kind = "verify" /\ r.uid = 0 /\ v.phase = "home"
                      \/ r.kind = "open" /\ r.uid = 0 /\ v.phase = "extracting"
                      \/ r.kind = "join" /\ r.uid = 0 /\ v.phase = "joining"
                      \/ r.kind = "redeem" /\ r.uid = 0 /\ v.phase = "full"
                      \/ r.kind = "leave" /\ r.uid = sess[t] /\ r.uid # 0 /\ v.phase = "chat"
  <2>0. {"refresh", "verify", "open", "join", "redeem", "leave"} \subseteq Kinds
    BY DEF Kinds
  <2>1. CASE OpenLink(t, c)
    <3>1. /\ At("chat") \in Views /\ At("error") \in Views /\ At("extracting") \in Views
          /\ \A phase : /\ At(phase).phase = phase
                        /\ ~At(phase).listed /\ ~At(phase).redeeming /\ ~At(phase).paying
      BY DEF At, Views, Counts, Unknown, Phases
    <3>2. CASE sess[t] # 0
      BY <1>0, <2>1, <3>1, <3>2 DEF OpenLink, Become
    <3>3. CASE sess[t] = 0
      BY <1>0, <2>0, <2>1, <3>1, <3>3, AskedCall DEF OpenLink, Become, Free
    <3>4. QED
      BY <3>2, <3>3
  <2>2. CASE HandleJoin(t, c)
    <3> DEFINE w == [tab[t] EXCEPT !.phase = "joining"]
    <3>1. /\ w \in Views /\ w.phase = "joining" /\ ~(w.listed \/ w.redeeming \/ w.paying)
          /\ tab' = [tab EXCEPT ![t] = w]
      BY <1>0, <2>2 DEF HandleJoin, CanJoin, Views, Phases
    <3> DEFINE r == Ask("join", t)
    <3>2. calls[c].kind = "idle" /\ calls' = [calls EXCEPT ![c] = r]
      BY <2>2 DEF HandleJoin, Free
    <3>3. /\ r \in Requests /\ r.kind = "join" /\ r.uid = 0 /\ r.tab = t /\ r.page = "here"
          /\ r.answer = "none"
      BY <2>0, AskedCall
    <3> HIDE DEF w, r
    <3>4. QED
      BY <3>1, <3>2, <3>3
  <2>3. CASE HandleApplyCoupon(t, c)
    <3> DEFINE w == [tab[t] EXCEPT !.redeeming = TRUE]
    <3>1. w \in Views /\ w.phase = "full" /\ tab' = [tab EXCEPT ![t] = w]
      BY <1>0, <2>3 DEF HandleApplyCoupon, CanApply, Views
    <3> DEFINE r == Ask("redeem", t)
    <3>2. calls[c].kind = "idle" /\ calls' = [calls EXCEPT ![c] = r]
      BY <2>3 DEF HandleApplyCoupon, Free
    <3>3. /\ r \in Requests /\ r.kind = "redeem" /\ r.uid = 0 /\ r.tab = t /\ r.page = "here"
          /\ r.answer = "none"
      BY <2>0, AskedCall
    <3> HIDE DEF w, r
    <3>4. QED
      BY <3>1, <3>2, <3>3
  <2>4. CASE HandleLeave(t, c)
    <3> DEFINE r == [Ask("leave", t) EXCEPT !.uid = sess[t]]
    <3>1. /\ tab' = [tab EXCEPT ![t] = tab[t]] /\ tab[t].phase = "chat" /\ sess[t] # 0
          /\ calls[c].kind = "idle" /\ calls' = [calls EXCEPT ![c] = r]
      BY <1>0, <2>4 DEF HandleLeave, browser, Free, IInv, UidsAreMine
    <3>2. /\ r \in Requests /\ r.kind = "leave" /\ r.uid = sess[t] /\ r.tab = t /\ r.page = "here"
          /\ r.answer = "none"
      BY <1>0, <2>0, AskedCall DEF Requests
    <3>3. UNCHANGED sess
      BY <2>4 DEF HandleLeave, browser
    <3> HIDE DEF r
    <3>4. QED
      BY <1>0, <3>1, <3>2, <3>3
  <2>5. ASSUME NEW loading \in {"starting", "returning"}, NEW page \in {"home", "expired"},
               loadAll(t, c, loading, page)
        PROVE  \E v \in Views :
                 /\ tab' = [tab EXCEPT ![t] = v]
                 /\ ~(v.listed \/ v.redeeming \/ v.paying)
                 /\ \/ UNCHANGED calls /\ v.phase = page
                    \/ /\ calls[c].kind = "idle" /\ v.phase = loading
                       /\ \E r \in Requests :
                            /\ calls' = [calls EXCEPT ![c] = r]
                            /\ r.tab = t /\ r.page = "here" /\ r.answer = "none"
                            /\ r.kind = "refresh" /\ r.uid = 0
    <3>1. \A phase \in {loading, page} :
            /\ At(phase) \in Views /\ At(phase).phase = phase
            /\ ~(At(phase).listed \/ At(phase).redeeming \/ At(phase).paying)
      BY DEF At, Views, Counts, Unknown, Phases
    <3>2. CASE record = 0
      <4>1. tab' = [tab EXCEPT ![t] = At(page)] /\ UNCHANGED calls
        BY <2>5, <3>2 DEF loadAll, Become
      <4>2. QED
        BY <3>1, <4>1
    <3>3. CASE record # 0
      <4>1. /\ tab' = [tab EXCEPT ![t] = At(loading)]
            /\ calls[c].kind = "idle" /\ calls' = [calls EXCEPT ![c] = Ask("refresh", t)]
        BY <1>0, <2>5, <3>3 DEF loadAll, Become, Free
      <4>2. /\ Ask("refresh", t) \in Requests /\ Ask("refresh", t).kind = "refresh"
            /\ Ask("refresh", t).tab = t /\ Ask("refresh", t).page = "here"
            /\ Ask("refresh", t).answer = "none" /\ Ask("refresh", t).uid = 0
        BY <2>0, AskedCall
      <4>3. QED
        BY <3>1, <4>1, <4>2
    <3>4. QED
      BY <3>2, <3>3
  <2>6. CASE Start(t, c) \/ ReturnFromPolar(t, c)
    BY <2>5, <2>6 DEF Start, ReturnFromPolar
  <2>7. CASE Verify(t, c)
    <3> DEFINE r == Ask("verify", t)
    <3>1. /\ tab' = [tab EXCEPT ![t] = tab[t]] /\ tab[t].phase = "home"
          /\ calls[c].kind = "idle" /\ calls' = [calls EXCEPT ![c] = r]
      BY <1>0, <2>7 DEF Verify, browser, Free
    <3>2. /\ r \in Requests /\ r.kind = "verify" /\ r.uid = 0 /\ r.tab = t /\ r.page = "here"
          /\ r.answer = "none"
      BY <2>0, AskedCall
    <3> HIDE DEF r
    <3>3. QED
      BY <1>0, <3>1, <3>2
  <2>8. QED
    BY <2>1, <2>2, <2>3, <2>4, <2>6, <2>7
<1>3. BrowserStep
  <2>1. calls' \in [Calls -> Requests]
    BY <1>0, <1>2
  <2>2. \A d \in Calls : d # c \/ UNCHANGED calls => calls'[d] = calls[d]
    BY <1>0, <1>2
  <2>3. Same(c) \/ New(c)
    BY <1>0, <1>2 DEF Same, New
  <2>4. calls[c].kind = "idle" \/ UNCHANGED calls
    BY <1>2
  <2>5. \A s \in Tabs : tab'[s].phase = "chat" => sess'[s] # 0
    BY <1>0, <1>1, <1>2 DEF IInv, UidsAreMine
  <2>6. \A s \in Tabs : sess'[s] \in {sess[s], record}
    BY <1>0, <1>1
  <2>7. QED
    BY <1>1, <2>1, <2>2, <2>3, <2>4, <2>5, <2>6 DEF BrowserStep, Same
<1>4. SpinnersWait'
  <2>1. tab'[t] = v /\ \A s \in Tabs \ {t} : tab'[s] = tab[s]
    BY <1>0, <1>2
  <2>2. \A d \in Calls : calls[d].kind # "idle" => calls'[d] = calls[d]
    BY <1>0, <1>2
  <2>3. v.phase = "extracting" => Waiting(t, {"open"})'
    BY <1>0, <1>2 DEF Waiting, OfTab, Shown
  <2>4. v.phase = "joining" => Waiting(t, {"join", "refetch"})'
    BY <1>0, <1>2 DEF Waiting, OfTab, Shown
  <2>5. v.redeeming => Waiting(t, {"redeem", "apply"})'
    BY <1>0, <1>2 DEF Waiting, OfTab, Shown
  <2>6. v.phase \in {"starting", "returning"} => Waiting(t, {"refresh"})'
    BY <1>0, <1>2 DEF Waiting, OfTab, Shown
  <2>7. QED
    BY <2>1, <2>2, <2>3, <2>4, <2>5, <2>6, SpinnersOfOthers DEF IInv
<1>5. QED
  BY <1>0, <1>1, <1>2, <1>3, <1>4, BrowserDone

\* An answer that changes nobody's membership is handled.
LEMMA AnswerSteps ==
  ASSUME IInv, NEW c \in Calls,
         LinkOpened(c) \/ NotJoined(c) \/ Refetched(c) \/ Redeemed(c)
  PROVE  IInv' /\ BoostStep
<1>0. /\ calls \in [Calls -> Requests] /\ tab \in [Tabs -> Views] /\ wallet \in BOOLEAN
      /\ calls[c] \in Requests
      /\ \A s \in Tabs : tab[s].listed \/ tab[s].redeeming \/ tab[s].paying => tab[s].phase = "full"
  BY DEF IInv, TypeOK
<1>1. /\ calls[c].kind \in {"open", "join", "refetch", "redeem"}
      /\ calls[c].kind = "join" => calls[c].answer # "ok"
      /\ UNCHANGED <<slots, left, max, coupon, order, record, sess, overtaken, races>>
      /\ wallet' \in BOOLEAN
  BY <1>0 DEF LinkOpened, NotJoined, Refetched, Redeemed, Ready, server
<1>2. PICK t \in Tabs : calls[c].tab = t /\ tab[t] \in Views
  BY <1>0, <1>1 DEF IInv, CallsAreWhole
<1>3. PICK v \in Views, r \in Requests :
        /\ tab' = [tab EXCEPT ![t] = v]
        /\ calls' = [calls EXCEPT ![c] = r]
        /\ v.listed \/ v.redeeming \/ v.paying => v.phase = "full"
        /\ \/ v.phase \notin {"starting", "returning", "extracting", "joining", "chat"}
           \/ v.phase = tab[t].phase
        /\ v.redeeming => v = tab[t]
        /\ \/ /\ r = Idle
              /\ Shown(c) => ~v.redeeming
              /\ Shown(c) /\ calls[c].kind # "redeem" => v.phase \notin {"extracting", "joining"}
           \/ /\ v = tab[t] /\ calls[c].kind = "join"
              /\ r.kind = "refetch" /\ r.tab = t /\ r.page = calls[c].page
              /\ r.answer = "none" /\ r.uid = 0
  <2>1. CASE LinkOpened(c)
    <3>1. calls[c].seen \in Counts
      BY <1>0 DEF Requests
    <3>2. calls' = [calls EXCEPT ![c] = Idle] /\ Idle \in Requests
      BY <2>1, IdleCall DEF LinkOpened, Done
    <3>3. CASE ~Shown(c)
      <4>1. tab' = [tab EXCEPT ![t] = tab[t]]
        BY <1>0, <1>2, <2>1, <3>3 DEF LinkOpened
      <4>2. QED
        BY <1>0, <1>2, <3>2, <3>3, <4>1
    <3>4. CASE Shown(c)
      <4>1. PICK v \in {At("error"), Full(calls[c].seen), Form(calls[c].seen)} :
              tab' = [tab EXCEPT ![t] = v]
        BY <1>2, <2>1, <3>4 DEF LinkOpened
      <4>2. /\ v \in Views /\ ~v.redeeming /\ v.phase \in {"error", "full", "name"}
            /\ v.listed \/ v.paying => v.phase = "full"
        BY <3>1, ViewTypes DEF Phases
      <4>3. QED
        BY <3>2, <3>4, <4>1, <4>2
    <3>5. QED
      BY <3>3, <3>4
  <2>2. CASE NotJoined(c)
    <3>1. CASE calls[c].answer = "room_full"
      <4> DEFINE r == [Ask("refetch", t) EXCEPT !.page = calls[c].page]
      <4>1. calls' = [calls EXCEPT ![c] = r] /\ tab' = tab /\ calls[c].kind = "join"
        BY <1>2, <2>2, <3>1 DEF NotJoined, Ready
      <4>2. /\ r \in Requests /\ r.kind = "refetch" /\ r.tab = t /\ r.page = calls[c].page
            /\ r.answer = "none" /\ r.uid = 0
        <5>1. "refetch" \in Kinds
          BY DEF Kinds
        <5>2. QED
          BY <1>0, <1>2, <5>1, AskedCall DEF Requests
      <4> HIDE DEF r
      <4>3. tab' = [tab EXCEPT ![t] = tab[t]]
        BY <1>0, <1>2, <4>1
      <4>4. QED
        BY <1>0, <1>2, <4>1, <4>2, <4>3
    <3>2. CASE calls[c].answer # "room_full" /\ Shown(c)
      <4>1. /\ calls' = [calls EXCEPT ![c] = Idle] /\ Idle \in Requests
            /\ tab' = [tab EXCEPT ![t] = At("error")]
        BY <1>2, <2>2, <3>2, IdleCall DEF NotJoined, Done, Become
      <4>2. /\ At("error") \in Views /\ At("error").phase = "error" /\ ~At("error").redeeming
            /\ ~At("error").listed /\ ~At("error").paying
        BY DEF At, Views, Counts, Unknown, Phases
      <4>3. QED
        BY <4>1, <4>2
    <3>3. CASE calls[c].answer # "room_full" /\ ~Shown(c)
      <4>1. calls' = [calls EXCEPT ![c] = Idle] /\ Idle \in Requests /\ tab' = tab
        BY <2>2, <3>3, IdleCall DEF NotJoined, Done
      <4>2. tab' = [tab EXCEPT ![t] = tab[t]]
        BY <1>0, <1>2, <4>1
      <4>3. QED
        BY <1>0, <1>2, <3>3, <4>1, <4>2
    <3>4. QED
      BY <3>1, <3>2, <3>3
  <2>3. CASE Refetched(c)
    <3>1. calls' = [calls EXCEPT ![c] = Idle] /\ Idle \in Requests
      BY <2>3, IdleCall DEF Refetched, Done
    <3>2. CASE Shown(c)
      <4>1. PICK seen \in Counts : tab' = [tab EXCEPT ![t] = Full(seen)]
        BY <1>0, <1>2, <2>3, <3>2 DEF Refetched, ShowFull, Requests, Views
      <4>2. /\ Full(seen) \in Views /\ Full(seen).phase = "full" /\ ~Full(seen).redeeming
        BY ViewTypes
      <4>3. QED
        BY <3>1, <4>1, <4>2
    <3>3. CASE ~Shown(c)
      <4>1. tab' = [tab EXCEPT ![t] = tab[t]]
        BY <1>0, <1>2, <2>3, <3>3 DEF Refetched
      <4>2. QED
        BY <1>0, <1>2, <3>1, <3>3, <4>1
    <3>4. QED
      BY <3>2, <3>3
  <2>4. CASE Redeemed(c)
    <3>1. calls' = [calls EXCEPT ![c] = Idle] /\ Idle \in Requests /\ calls[c].kind = "redeem"
      BY <2>4, IdleCall DEF Redeemed, Done, Ready
    <3>2. CASE Shown(c) /\ calls[c].answer = "ok"
      <4>1. tab[t].seen \in Counts /\ tab' = [tab EXCEPT ![t] = Form(tab[t].seen)]
        BY <1>2, <2>4, <3>2 DEF Redeemed, Views
      <4>2. LET v == Form(tab[t].seen) IN
              v \in Views /\ v.phase = "name" /\ ~v.listed /\ ~v.redeeming /\ ~v.paying
        BY <4>1, ViewTypes
      <4>3. QED
        BY <3>1, <4>1, <4>2
    <3>3. CASE Shown(c) /\ calls[c].answer # "ok"
      <4> DEFINE v == [tab[t] EXCEPT !.redeeming = FALSE]
      <4>1. tab' = [tab EXCEPT ![t] = v]
        BY <1>0, <1>2, <2>4, <3>3 DEF Redeemed
      <4>2. /\ v \in Views /\ ~v.redeeming /\ v.phase = tab[t].phase
            /\ v.listed \/ v.paying => v.phase = "full"
        BY <1>0, <1>2 DEF Views
      <4> HIDE DEF v
      <4>3. QED
        BY <3>1, <4>1, <4>2
    <3>4. CASE ~Shown(c)
      <4>1. tab' = [tab EXCEPT ![t] = tab[t]]
        BY <1>0, <1>2, <2>4, <3>4 DEF Redeemed
      <4>2. QED
        BY <1>0, <1>2, <3>1, <3>4, <4>1
    <3>5. QED
      BY <3>2, <3>3, <3>4
  <2>5. QED
    BY <2>1, <2>2, <2>3, <2>4
<1>4. BrowserStep
  <2>1. /\ calls' \in [Calls -> Requests]
        /\ \A d \in Calls : calls'[d] = IF d = c THEN r ELSE calls[d]
    BY <1>0, <1>3, Replaced
  <2>2. calls'[c] = Idle \/ New(c)
    BY <1>2, <1>3, <2>1 DEF New
  <2>3. \A s \in Tabs : tab'[s].phase = "chat" => sess[s] # 0
    BY <1>0, <1>2, <1>3 DEF IInv, UidsAreMine
  <2>4. QED
    BY <1>1, <2>1, <2>2, <2>3 DEF BrowserStep, Same
<1>5. SpinnersWait'
  <2>1. tab'[t] = v /\ \A s \in Tabs \ {t} : tab'[s] = tab[s]
    BY <1>0, <1>2, <1>3
  <2>2. calls'[c] = r /\ \A d \in Calls \ {c} : calls'[d] = calls[d]
    BY <1>0, <1>3
  <2>3. /\ tab[t].phase \in {"starting", "returning"} => Waiting(t, {"refresh"})
        /\ tab[t].phase = "extracting" => Waiting(t, {"open"})
        /\ tab[t].phase = "joining" => Waiting(t, {"join", "refetch"})
        /\ tab[t].redeeming => Waiting(t, {"redeem", "apply"})
    BY <1>2 DEF IInv, SpinnersWait
  <2>4. ASSUME NEW kinds, Waiting(t, kinds), calls[c].kind \notin kinds \/ ~Shown(c)
        PROVE  Waiting(t, kinds)'
    BY <2>2, <2>4 DEF Waiting, OfTab, Shown
  <2>5. r.kind = "refetch" /\ Shown(c) => Waiting(t, {"join", "refetch"})'
    BY <1>3, <2>2, IdleCall DEF Waiting, OfTab, Shown
  <2>6. /\ v.phase \in {"starting", "returning"} => Waiting(t, {"refresh"})'
        /\ v.phase = "extracting" => Waiting(t, {"open"})'
        /\ v.phase = "joining" => Waiting(t, {"join", "refetch"})'
        /\ v.redeeming => Waiting(t, {"redeem", "apply"})'
    <3>1. CASE ~Shown(c)
      BY <1>3, <2>3, <2>4, <3>1
    <3>2. CASE Shown(c) /\ r = Idle
      BY <1>1, <1>3, <2>3, <2>4, <3>2, IdleCall
    <3>3. CASE Shown(c) /\ r.kind = "refetch"
      BY <1>1, <1>3, <2>3, <2>4, <2>5, <3>3, IdleCall
    <3>4. QED
      BY <1>3, <3>1, <3>2, <3>3
  <2>7. \A d \in Calls : calls[d].kind # "idle" /\ calls[d].tab # t => calls'[d] = calls[d]
    BY <1>2, <2>2
  <2>8. QED
    BY <1>2, <2>1, <2>6, <2>7, SpinnersOfOthers DEF IInv
<1>6. QED
  BY <1>1, <1>2, <1>3, <1>4, <1>5, BrowserDone

\* The answer for a tab that starts or verifies: its uid may be written back.
LEMMA RefreshSteps ==
  ASSUME IInv, NEW c \in Calls, Loaded(c) \/ Verified(c)
  PROVE  IInv' /\ BoostStep
<1>0. /\ calls \in [Calls -> Requests] /\ tab \in [Tabs -> Views] /\ wallet \in BOOLEAN
      /\ sess \in [Tabs -> 0..Count]
      /\ \A s \in Tabs : tab[s].listed \/ tab[s].redeeming \/ tab[s].paying => tab[s].phase = "full"
  BY DEF IInv, TypeOK
<1>1. /\ calls[c].kind \in {"refresh", "verify"} /\ calls' = [calls EXCEPT ![c] = Idle]
      /\ UNCHANGED <<slots, left, max, coupon, order, wallet, overtaken>>
  BY DEF Loaded, Verified, Ready, Done, server
<1>2. PICK t \in Tabs : calls[c].tab = t /\ tab[t] \in Views
  BY <1>0, <1>1 DEF IInv, CallsAreWhole
<1>3. /\ record' \in {record, sess[t], 0}
      /\ record \in Mine /\ record' # record => races' \cap {"overwritten", "untimely"} # {}
      /\ races \subseteq races' /\ races' \subseteq races \cup {"overwritten", "untimely"}
  <2>1. updateExpiry(t) \/ SeemsOver \/ UNCHANGED <<record, races>>
    BY <1>2 DEF Loaded, Verified
  <2>2. QED
    BY <2>1 DEF updateExpiry, SeemsOver
<1>4. PICK v \in Views :
        /\ tab' = [tab EXCEPT ![t] = v]
        /\ v.listed \/ v.redeeming \/ v.paying => v.phase = "full"
        /\ UNCHANGED sess \/ sess' = [sess EXCEPT ![t] = 0]
        /\ v.phase = "chat" => sess'[t] # 0
        /\ \/ v.phase \in {"home", "expired", "chat"}
           \/ /\ v.phase = tab[t].phase /\ v.redeeming = tab[t].redeeming
              /\ calls[c].kind = "verify"
  <2>1. \A phase \in {"home", "expired", "chat"} :
          /\ At(phase) \in Views /\ At(phase).phase = phase
          /\ ~(At(phase).listed \/ At(phase).redeeming \/ At(phase).paying)
    BY DEF At, Views, Counts, Unknown, Phases
  <2>2. tab[t].phase = "chat" => sess[t] # 0
    BY DEF IInv, UidsAreMine
  <2>3. CASE Loaded(c)
    <3>1. PICK phase \in {"home", "expired", "chat"} :
            /\ tab' = [tab EXCEPT ![t] = At(phase)]
            /\ phase = "chat" => sess'[t] # 0
      BY <1>2, <2>3 DEF Loaded, Become
    <3>2. UNCHANGED sess \/ sess' = [sess EXCEPT ![t] = 0]
      BY <1>2, <2>3 DEF Loaded
    <3>3. QED
      BY <2>1, <3>1, <3>2
  <2>4. CASE Verified(c)
    <3>1. calls[c].kind = "verify"
      BY <2>4 DEF Verified, Ready
    <3>2. CASE UNCHANGED <<sess, tab>>
      <4>1. tab' = [tab EXCEPT ![t] = tab[t]]
        BY <1>0, <3>2
      <4>2. QED
        BY <1>0, <1>2, <2>2, <3>1, <3>2, <4>1
    <3>3. CASE ~UNCHANGED <<sess, tab>>
      <4> DEFINE forgets == tab[t].phase = "chat"
      <4> DEFINE v == [tab[t] EXCEPT !.forgotten = forgets]
      <4>1. /\ tab' = [tab EXCEPT ![t] = v]
            /\ sess' = [sess EXCEPT ![t] = IF forgets THEN sess[t] ELSE 0]
        BY <1>0, <1>2, <2>4, <3>3 DEF Verified
      <4>2. /\ v \in Views /\ v.phase = tab[t].phase /\ v.redeeming = tab[t].redeeming
            /\ v.listed \/ v.redeeming \/ v.paying => v.phase = "full"
        BY <1>0, <1>2 DEF Views
      <4> HIDE DEF v
      <4>3. /\ UNCHANGED sess \/ sess' = [sess EXCEPT ![t] = 0]
            /\ v.phase = "chat" => sess'[t] # 0
        BY <1>0, <2>2, <4>1, <4>2
      <4>4. QED
        BY <3>1, <4>1, <4>2, <4>3
    <3>4. QED
      BY <3>2, <3>3
  <2>5. QED
    BY <2>3, <2>4
<1>5. /\ calls' \in [Calls -> Requests] /\ calls'[c] = Idle
      /\ \A d \in Calls \ {c} : calls'[d] = calls[d]
  BY <1>0, <1>1, IdleCall, Replaced
<1>6. BrowserStep
  <2>1. \A s \in Tabs : tab'[s].phase = "chat" => sess'[s] # 0
    BY <1>0, <1>4 DEF IInv, UidsAreMine
  <2>2. \A s \in Tabs : sess'[s] \in {sess[s], 0}
    BY <1>0, <1>4
  <2>3. QED
    BY <1>1, <1>3, <1>5, <2>1, <2>2 DEF BrowserStep, Same
<1>7. SpinnersWait'
  <2>1. tab'[t] = v /\ \A s \in Tabs \ {t} : tab'[s] = tab[s]
    BY <1>0, <1>4
  <2>2. \A d \in Calls : calls[d].kind # "idle" /\ calls[d].tab # t => calls'[d] = calls[d]
    BY <1>2, <1>5
  <2>3. CASE v.phase \in {"home", "expired", "chat"}
    BY <1>4, <2>1, <2>2, <2>3, SpinnersOfOthers DEF IInv
  <2>4. CASE /\ v.phase = tab[t].phase /\ v.redeeming = tab[t].redeeming
             /\ calls[c].kind = "verify"
    <3>1. /\ tab[t].phase \in {"starting", "returning"} => Waiting(t, {"refresh"})
          /\ tab[t].phase = "extracting" => Waiting(t, {"open"})
          /\ tab[t].phase = "joining" => Waiting(t, {"join", "refetch"})
          /\ tab[t].redeeming => Waiting(t, {"redeem", "apply"})
      BY <1>2 DEF IInv, SpinnersWait
    <3>2. ASSUME NEW kinds, Waiting(t, kinds), "verify" \notin kinds
          PROVE  Waiting(t, kinds)'
      BY <1>5, <2>4, <3>2 DEF Waiting, OfTab, Shown
    <3>3. QED
      BY <2>1, <2>2, <2>4, <3>1, <3>2, SpinnersOfOthers DEF IInv
  <2>5. QED
    BY <1>4, <2>3, <2>4
<1>8. UNCHANGED order /\ wallet' \in BOOLEAN /\ UNCHANGED <<max, coupon>>
  BY <1>0, <1>1
<1>9. QED
  BY <1>4, <1>6, <1>7, <1>8, BrowserDone

\* A boost is bought on the full page, and the sheet of its order closes.
LEMMA BuySteps ==
  ASSUME IInv, NEW t \in Tabs, Buy(t) \/ SheetCloses(t)
  PROVE  IInv' /\ BoostStep
<1>0. /\ tab \in [Tabs -> Views] /\ tab[t] \in Views
      /\ order \in [Tabs -> {"none", "pending", "completed"}]
      /\ tab[t].phase = "full" /\ sess \in [Tabs -> 0..Count] /\ wallet \in BOOLEAN
  BY DEF IInv, TypeOK, Buy, SheetCloses
<1>1. UNCHANGED <<slots, left, max, coupon, record, wallet, overtaken>>
  BY DEF Buy, SheetCloses, server
<1>2. UNCHANGED order \/ (order' = [order EXCEPT ![t] = "pending"] /\ MakesRoom)
  BY DEF Buy, SheetCloses, server
<1>3. PICK v \in Views :
        /\ tab' = [tab EXCEPT ![t] = v]
        /\ \/ /\ v.phase = "full" /\ v.redeeming = tab[t].redeeming
              /\ UNCHANGED <<sess, calls, races>>
           \/ /\ v.phase = "checkout" /\ ~v.listed /\ ~v.redeeming /\ ~v.paying
              /\ sess' = [sess EXCEPT ![t] = 0]
              /\ calls' = Orphaned(t, "gone") /\ Unread(OfTab(t)) \subseteq races'
              /\ races \subseteq races' /\ races' \subseteq races \cup {"lost"}
  <2>1. ASSUME NEW paying \in BOOLEAN
        PROVE  /\ [tab[t] EXCEPT !.paying = paying] \in Views
               /\ [tab[t] EXCEPT !.paying = paying].phase = "full"
               /\ [tab[t] EXCEPT !.paying = paying].redeeming = tab[t].redeeming
    BY <1>0 DEF Views
  <2>2. /\ At("checkout") \in Views /\ At("checkout").phase = "checkout"
        /\ ~At("checkout").redeeming /\ ~At("checkout").listed /\ ~At("checkout").paying
    BY DEF At, Views, Counts, Unknown, Phases
  <2>3. \/ \E paying \in BOOLEAN :
             /\ tab' = [tab EXCEPT ![t] = [tab[t] EXCEPT !.paying = paying]]
             /\ UNCHANGED <<sess, calls, races>>
        \/ /\ tab' = [tab EXCEPT ![t] = At("checkout")]
           /\ sess' = [sess EXCEPT ![t] = 0]
           /\ calls' = Orphaned(t, "gone") /\ races' = races \cup Unread(OfTab(t))
    BY <1>0 DEF Buy, SheetCloses, Become
  <2>4. Unread(OfTab(t)) \subseteq {"lost"}
    BY DEF Unread
  <2>5. QED
    BY <2>1, <2>2, <2>3, <2>4
<1>4. /\ calls' \in [Calls -> Requests]
      /\ \A c \in Calls :
           \/ calls'[c] = calls[c]
           \/ calls[c].tab = t /\ Same(c)
           \/ calls[c].tab = t /\ calls'[c] = Idle /\ calls[c].answer # "none"
      /\ \A c \in Calls :
           calls[c].kind \in {"join", "leave"} /\ calls[c].answer = "ok" =>
             Same(c) \/ "lost" \in races'
  BY <1>3, DroppedCalls
<1>5. BrowserStep
  <2>1. \A c \in Calls : calls[c].kind = "apply" => calls[c].answer = "none"
    BY DEF IInv, CallsAreWhole
  <2>2. \A s \in Tabs : tab'[s].phase = "chat" => sess'[s] # 0
    BY <1>0, <1>3 DEF IInv, UidsAreMine
  <2>3. \A s \in Tabs : sess'[s] \in {sess[s], record, 0}
    BY <1>0, <1>3
  <2>4. \A s \in Tabs : order'[s] = order[s] \/ (order'[s] = "pending" /\ MakesRoom)
    BY <1>0, <1>2
  <2>5. QED
    BY <1>1, <1>3, <1>4, <2>1, <2>2, <2>3, <2>4 DEF BrowserStep, Same
<1>6. SpinnersWait'
  <2>1. tab'[t] = v /\ \A s \in Tabs \ {t} : tab'[s] = tab[s]
    BY <1>0, <1>3
  <2>2. \A c \in Calls : calls[c].tab # t => calls'[c] = calls[c]
    BY <1>4
  <2>3. v.redeeming => Waiting(t, {"redeem", "apply"})'
    <3>1. v.redeeming => UNCHANGED calls /\ Waiting(t, {"redeem", "apply"})
      BY <1>0, <1>3 DEF IInv, SpinnersWait
    <3>2. QED
      BY <3>1 DEF Waiting, OfTab, Shown
  <2>4. QED
    BY <1>3, <2>1, <2>2, <2>3, SpinnersOfOthers DEF IInv
<1>7. v.listed \/ v.redeeming \/ v.paying => v.phase = "full"
  BY <1>3
<1>8. UNCHANGED sess \/ \E u \in {record, 0} : sess' = [sess EXCEPT ![t] = u]
  BY <1>3
<1>9. QED
  BY <1>0, <1>1, <1>2, <1>3, <1>5, <1>6, <1>7, <1>8, BrowserDone

-----------------------------------------------------------------------------
(* The answers to a join and to a leave.                                   *)

\* What both do to the calls: this one is done, those of its tab are of a page that is left.
LEMMA PageLeft ==
  ASSUME IInv, NEW c \in Calls, NEW t \in Tabs, calls[c].tab = t,
         calls' = [Orphaned(t, "old") EXCEPT ![c] = Idle]
  PROVE  /\ calls' \in [Calls -> Requests]
         /\ calls'[c].kind = "idle" /\ calls'[c].uid = 0
         /\ \A d \in Calls \ {c} : Same(d)
         /\ \A d \in Calls : calls[d].tab # t => calls'[d] = calls[d]
<1>1. /\ Orphaned(t, "old") \in [Calls -> Requests]
      /\ \A d \in Calls :
           LET now == Orphaned(t, "old")[d] IN
             \/ now = calls[d]
             \/ /\ now.kind = calls[d].kind /\ now.tab = calls[d].tab
                /\ now.answer = calls[d].answer /\ now.uid = calls[d].uid
                /\ calls[d].tab = t
  BY OrphanedCalls
<1>2. /\ calls' \in [Calls -> Requests] /\ calls'[c] = Idle
      /\ \A d \in Calls \ {c} : calls'[d] = Orphaned(t, "old")[d]
  BY <1>1, IdleCall
<1>3. QED
  BY <1>1, <1>2, IdleCall DEF Same

LEMMA JoinedStep ==
  ASSUME IInv, NEW c \in Calls, Joined(c)
  PROVE  IInv' /\ BoostStep
<1>1. /\ calls \in [Calls -> Requests] /\ tab \in [Tabs -> Views] /\ sess \in [Tabs -> 0..Count]
      /\ calls[c] \in Requests /\ calls[c].uid \in 1..Count /\ Count \in Nat
      /\ calls[c].kind = "join" /\ calls[c].uid # 0
  <2>1. /\ calls \in [Calls -> Requests] /\ tab \in [Tabs -> Views] /\ sess \in [Tabs -> 0..Count]
        /\ calls[c] \in Requests /\ calls[c].uid <= Count /\ Count \in Nat
    BY DEF IInv, TypeOK, Count
  <2>2. calls[c].kind = "join" /\ calls[c].uid # 0
    BY DEF Joined, Ready, IInv, CallsAreWhole
  <2>3. QED
    BY <2>1, <2>2 DEF Requests
<1>2. PICK t \in Tabs : calls[c].tab = t
  BY <1>1 DEF IInv, CallsAreWhole
<1>3. /\ UNCHANGED <<slots, left, max, coupon, order, wallet, overtaken, races>>
      /\ record' = calls[c].uid
      /\ sess' = [sess EXCEPT ![t] = calls[c].uid]
      /\ tab' = [tab EXCEPT ![t] = At("chat")]
      /\ calls' = [Orphaned(t, "old") EXCEPT ![c] = Idle]
      /\ UNCHANGED <<Count, Mine>>
  BY <1>2 DEF Joined, persist, Become, server, Count, Mine
<1>4. /\ calls' \in [Calls -> Requests]
      /\ calls'[c].kind = "idle" /\ calls'[c].uid = 0
      /\ \A d \in Calls \ {c} : Same(d)
      /\ \A d \in Calls : calls[d].tab # t => calls'[d] = calls[d]
  BY <1>2, <1>3, PageLeft
<1>5. /\ At("chat") \in Views /\ At("chat").phase = "chat"
      /\ ~At("chat").listed /\ ~At("chat").redeeming /\ ~At("chat").paying
  BY DEF At, Views, Counts, Unknown, Phases
<1>6. /\ sess'[t] = calls[c].uid /\ \A s \in Tabs \ {t} : sess'[s] = sess[s]
      /\ tab'[t] = At("chat") /\ \A s \in Tabs \ {t} : tab'[s] = tab[s]
  BY <1>1, <1>3
<1>7. /\ calls[c].uid \notin left
      /\ \A d \in Calls \ {c} : calls[d].uid # calls[c].uid
  BY <1>1 DEF IInv, JoinsAreNew
<1>8. TypeOK'
  <2>1. tab' \in [Tabs -> Views] /\ sess' \in [Tabs -> 0..Count]
    BY <1>1, <1>3, <1>5
  <2>2. \A s \in Tabs :
          tab'[s].listed \/ tab'[s].redeeming \/ tab'[s].paying => tab'[s].phase = "full"
    BY <1>5, <1>6 DEF IInv, TypeOK
  <2>3. \A d \in Calls : calls'[d].uid <= Count
    BY <1>1, <1>4 DEF IInv, TypeOK, Same
  <2>4. QED
    BY <1>1, <1>3, <1>4, <2>1, <2>2, <2>3 DEF IInv, TypeOK
<1>9. CallsAreWhole' /\ RoomIsMade' /\ BoostStep
  <2>1. CallsAreWhole'
    BY <1>3, <1>4 DEF IInv, CallsAreWhole, Same
  <2>2. RoomIsMade'
    BY <1>3, <1>4 DEF IInv, RoomIsMade, Same
  <2>3. BoostStep
    BY <1>1, <1>3, <1>4 DEF BoostStep, Same
  <2>4. QED
    BY <2>1, <2>2, <2>3
<1>10. SpinnersWait'
  BY <1>4, <1>5, <1>6, SpinnersOfOthers DEF IInv
<1>11. UidsAreMine'
  BY <1>1, <1>3, <1>4, <1>6 DEF IInv, UidsAreMine, Same
<1>12. JoinsAreNew'
  <2> SUFFICES ASSUME NEW d \in Calls \ {c}, calls'[d].kind = "join", calls'[d].uid # 0
               PROVE  /\ calls'[d].uid \notin left /\ calls[c].uid # calls'[d].uid
                      /\ \A s \in Tabs : sess'[s] # calls'[d].uid
                      /\ \A e \in Calls \ {d} : calls'[e].uid # calls'[d].uid
    BY <1>3, <1>4 DEF JoinsAreNew
  <2>1. /\ calls'[d].uid = calls[d].uid /\ calls[d].uid \notin left
        /\ \A s \in Tabs : sess[s] # calls[d].uid
        /\ \A e \in Calls \ {d} : calls[e].uid # calls[d].uid
    BY <1>4 DEF IInv, JoinsAreNew, Same
  <2>2. QED
    BY <1>4, <1>6, <1>7, <2>1 DEF Same
<1>13. LeavesAreOnTheirWay'
  <2> SUFFICES ASSUME Without({"elsewhere", "lost"}), NEW u \in left,
                      record' = u \/ \E s \in Tabs : sess'[s] = u
               PROVE  \E d \in Calls :
                        calls'[d].kind = "leave" /\ calls'[d].answer = "ok" /\ calls'[d].uid = u
    BY <1>3 DEF LeavesAreOnTheirWay, Without
  <2>1. \E s \in Tabs : sess[s] = u
    BY <1>3, <1>6, <1>7
  <2>2. PICK d \in Calls : calls[d].kind = "leave" /\ calls[d].answer = "ok" /\ calls[d].uid = u
    BY <2>1 DEF IInv, LeavesAreOnTheirWay
  <2>3. QED
    BY <1>1, <1>4, <2>2 DEF Same
<1>14. JoinsAreAlone' /\ MembersAreKept'
  <2> SUFFICES ASSUME Without(Slips)
               PROVE  /\ Mine = {calls[c].uid}
                      /\ \A d \in Calls : ~(calls'[d].kind = "join" /\ calls'[d].uid # 0)
    BY <1>3 DEF JoinsAreAlone, MembersAreKept, Without
  <2>1. Mine = {calls[c].uid}
    BY <1>1 DEF IInv, JoinsAreAlone
  <2>2. \A d \in Calls \ {c} : ~(calls[d].kind = "join" /\ calls[d].uid # 0)
    BY <1>7, <2>1 DEF IInv, JoinsAreAlone
  <2>3. QED
    BY <1>4, <2>1, <2>2 DEF Same
<1>15. QED
  BY <1>8, <1>9, <1>10, <1>11, <1>12, <1>13, <1>14 DEF IInv

LEMMA LeaveStep ==
  ASSUME IInv, NEW c \in Calls, LeaveAnswered(c)
  PROVE  IInv' /\ BoostStep
<1>1. /\ calls \in [Calls -> Requests] /\ tab \in [Tabs -> Views] /\ sess \in [Tabs -> 0..Count]
      /\ calls[c].kind = "leave" /\ Count \in Nat
      /\ calls[c].answer = "ok" => calls[c].uid \in left
  <2>1. calls[c].kind = "leave"
    BY DEF LeaveAnswered, Ready
  <2>2. QED
    BY <2>1 DEF IInv, TypeOK, CallsAreWhole, Count
<1>2. PICK t \in Tabs : calls[c].tab = t
  BY <1>1 DEF IInv, CallsAreWhole
<1>3. /\ UNCHANGED <<slots, left, max, coupon, order, wallet, overtaken>>
      /\ record' = 0
      /\ sess' = [sess EXCEPT ![t] = 0]
      /\ tab' = [tab EXCEPT ![t] = At("home")]
      /\ calls' = [Orphaned(t, "old") EXCEPT ![c] = Idle]
      /\ UNCHANGED <<Count, Mine>>
  BY <1>2 DEF LeaveAnswered, removeRoom, Become, server, Count, Mine
<1>4. /\ calls' \in [Calls -> Requests]
      /\ calls'[c].kind = "idle" /\ calls'[c].uid = 0
      /\ \A d \in Calls \ {c} : Same(d)
      /\ \A d \in Calls : calls[d].tab # t => calls'[d] = calls[d]
  BY <1>2, <1>3, PageLeft
<1>5. /\ At("home") \in Views /\ At("home").phase = "home"
      /\ ~At("home").listed /\ ~At("home").redeeming /\ ~At("home").paying
  BY DEF At, Views, Counts, Unknown, Phases
<1>6. /\ sess'[t] = 0 /\ \A s \in Tabs \ {t} : sess'[s] = sess[s]
      /\ tab'[t] = At("home") /\ \A s \in Tabs \ {t} : tab'[s] = tab[s]
  BY <1>1, <1>3
<1>7. /\ races \subseteq races' /\ races' \subseteq races \cup {"unleft", "elsewhere", "misled"}
      /\ calls[c].answer # "ok" => "unleft" \in races'
      /\ (\E s \in Tabs \ {t} : sess[s] # 0) => "elsewhere" \in races'
      /\ record \in Mine \ {calls[c].uid} => "misled" \in races'
  BY <1>2 DEF LeaveAnswered
<1>8. TypeOK'
  <2>1. tab' \in [Tabs -> Views] /\ sess' \in [Tabs -> 0..Count]
    BY <1>1, <1>3, <1>5
  <2>2. \A s \in Tabs :
          tab'[s].listed \/ tab'[s].redeeming \/ tab'[s].paying => tab'[s].phase = "full"
    BY <1>5, <1>6 DEF IInv, TypeOK
  <2>3. \A d \in Calls : calls'[d].uid <= Count
    BY <1>1, <1>4 DEF IInv, TypeOK, Same
  <2>4. races' \subseteq Slips \cup {"elsewhere"}
    BY <1>7 DEF IInv, TypeOK, Slips
  <2>5. QED
    BY <1>1, <1>3, <1>4, <2>1, <2>2, <2>3, <2>4 DEF IInv, TypeOK
<1>9. CallsAreWhole' /\ RoomIsMade' /\ BoostStep
  <2>1. CallsAreWhole'
    BY <1>3, <1>4 DEF IInv, CallsAreWhole, Same
  <2>2. RoomIsMade'
    BY <1>3, <1>4 DEF IInv, RoomIsMade, Same
  <2>3. BoostStep
    BY <1>1, <1>3, <1>4 DEF BoostStep, Same
  <2>4. QED
    BY <2>1, <2>2, <2>3
<1>10. SpinnersWait'
  BY <1>4, <1>5, <1>6, SpinnersOfOthers DEF IInv
<1>11. UidsAreMine'
  BY <1>3, <1>4, <1>5, <1>6 DEF IInv, UidsAreMine, Same
<1>12. JoinsAreNew'
  <2> SUFFICES ASSUME NEW d \in Calls \ {c}, calls'[d].kind = "join", calls'[d].uid # 0
               PROVE  /\ calls'[d].uid \notin left
                      /\ \A s \in Tabs : sess'[s] # calls'[d].uid
                      /\ \A e \in Calls \ {d} : calls'[e].uid # calls'[d].uid
    BY <1>3, <1>4 DEF JoinsAreNew
  <2>1. /\ calls'[d].uid = calls[d].uid /\ calls[d].uid \notin left
        /\ \A s \in Tabs : sess[s] # calls[d].uid
        /\ \A e \in Calls \ {d} : calls[e].uid # calls[d].uid
    BY <1>4 DEF IInv, JoinsAreNew, Same
  <2>2. QED
    BY <1>4, <1>6, <2>1 DEF Same
<1>13. LeavesAreOnTheirWay'
  <2>1. \A u \in left : u # 0
    BY <1>1 DEF IInv, TypeOK
  <2>2. QED
    BY <1>3, <1>6, <1>7, <2>1 DEF LeavesAreOnTheirWay, Without
<1>14. JoinsAreAlone'
  <2> SUFFICES ASSUME Without(Slips)', NEW d \in Calls,
                      calls'[d].kind = "join", calls'[d].uid # 0
               PROVE  Mine = {calls'[d].uid}
    BY <1>3 DEF JoinsAreAlone
  <2>1. Without(Slips) /\ Same(d)
    BY <1>4, <1>7 DEF Without
  <2>2. QED
    BY <2>1 DEF IInv, JoinsAreAlone, Same
<1>15. MembersAreKept'
  <2> SUFFICES ASSUME Without(Slips)', NEW u \in Mine
               PROVE  \E d \in Calls : calls'[d].kind = "join" /\ calls'[d].uid = u
    BY <1>3 DEF MembersAreKept
  <2>1. /\ Without(Slips)
        /\ calls[c].answer = "ok" /\ record \notin Mine \ {calls[c].uid}
    BY <1>7 DEF Without, Slips
  <2>2. u # 0 /\ u \notin left
    BY <1>1 DEF Mine
  <2>3. PICK d \in Calls : calls[d].kind = "join" /\ calls[d].uid = u
    BY <1>1, <2>1, <2>2 DEF IInv, MembersAreKept
  <2>4. QED
    BY <1>1, <1>4, <2>3 DEF Same
<1>16. QED
  BY <1>8, <1>9, <1>10, <1>11, <1>12, <1>13, <1>14, <1>15 DEF IInv

-----------------------------------------------------------------------------
(* The server: requests are answered, and boosts take effect.              *)

\* A boost leaves max at the tier.
LEMMA CapRaised ==
  ASSUME IInv
  PROVE  /\ max \in Nat /\ Tier \in Nat /\ Count \in Nat /\ Count <= max /\ max <= Tier
         /\ RaiseCap => max' = Tier
BY JoinAssumption DEF IInv, TypeOK, Count, RaiseCap

\* A request becomes r: it is answered, or passes its checks; slots stay.
Answered(c, r) ==
  /\ calls[c].kind # "idle" /\ calls[c].answer = "none"
  /\ calls' = [calls EXCEPT ![c] = r]
  /\ \/ r = Idle /\ ~Shown(c) /\ calls[c].kind # "apply"
     \/ r = Idle /\ ~Shown(c) /\ RaiseCap
     \/ /\ r.tab = calls[c].tab /\ r.page = calls[c].page /\ r.uid = calls[c].uid
        /\ \/ /\ r.kind = calls[c].kind /\ r.kind # "apply" /\ r.answer # "none"
              /\ r.answer = "ok" => r.kind # "join" /\ (r.kind = "leave" => r.uid \in left')
           \/ r.kind = "apply" /\ r.answer = "none" /\ calls[c].kind = "redeem" /\ MakesRoom
           \/ r.kind = "redeem" /\ r.answer = "ok" /\ calls[c].kind = "apply" /\ RaiseCap
  /\ \/ UNCHANGED left
     \/ /\ calls[c].kind = "leave" /\ left' = left \cup {calls[c].uid}
        /\ (r.kind = "leave" /\ r.answer = "ok") \/ "lost" \in races'
  /\ UNCHANGED max \/ RaiseCap
  /\ UNCHANGED overtaken \/ (overtaken' = overtaken \ {c} /\ r.kind # "apply")
  /\ UNCHANGED <<slots, order, browser>>
  /\ races \subseteq races' /\ races' \subseteq races \cup {"lost"}

LEMMA AnsweredInvariant ==
  ASSUME IInv, NEW c \in Calls, NEW r \in Requests, Answered(c, r),
         coupon' \in {"unused", "used"}
  PROVE  IInv' /\ BoostStep
<1>0. /\ calls \in [Calls -> Requests] /\ calls[c] \in Requests /\ Count \in Nat
      /\ UNCHANGED <<Count, record, wallet, sess, tab>>
      /\ calls[c].uid \in Nat /\ calls[c].uid <= Count
  <2>1. /\ calls \in [Calls -> Requests] /\ calls[c] \in Requests /\ Count \in Nat
        /\ calls[c].uid <= Count
    BY DEF IInv, TypeOK, Count
  <2>2. QED
    BY <2>1 DEF Requests, Answered, browser, Count
<1>1. /\ calls' \in [Calls -> Requests] /\ calls'[c] = r
      /\ \A d \in Calls \ {c} : calls'[d] = calls[d]
  BY <1>0, Replaced DEF Answered
<1>2. /\ r.uid \in {0, calls[c].uid} /\ (r.kind # "idle" => r.uid = calls[c].uid)
      /\ \/ r.kind = "idle" \/ r.kind = calls[c].kind
         \/ {r.kind, calls[c].kind} = {"redeem", "apply"}
      /\ calls[c].kind = "join" => calls[c].uid = 0
      /\ calls[c].kind = "leave" => calls[c].uid \in 1..Count
  <2>1. /\ r.uid \in {0, calls[c].uid} /\ (r.kind # "idle" => r.uid = calls[c].uid)
        /\ \/ r.kind = "idle" \/ r.kind = calls[c].kind
           \/ {r.kind, calls[c].kind} = {"redeem", "apply"}
    BY IdleCall DEF Answered
  <2>2. /\ calls[c].kind = "join" => calls[c].uid = 0
        /\ calls[c].kind = "leave" => calls[c].uid # 0
    BY DEF Answered, IInv, CallsAreWhole
  <2>3. QED
    BY <1>0, <2>1, <2>2
<1>3. /\ left \subseteq left' /\ left' \subseteq 1..Count
      /\ left' # left => calls[c].kind = "leave" /\ left' = left \cup {calls[c].uid}
      /\ Mine' \subseteq Mine /\ \A u \in Mine : u \in left' \/ u \in Mine'
  <2>1. /\ left \subseteq left' /\ left' \subseteq 1..Count
        /\ left' # left => calls[c].kind = "leave" /\ left' = left \cup {calls[c].uid}
    BY <1>0, <1>2 DEF Answered, IInv, TypeOK
  <2>2. QED
    BY <1>0, <2>1 DEF Mine, Answered
<1>4. TypeOK'
  <2>1. /\ max' \in {Cap, Tier} /\ Count <= max'
    BY CapRaised DEF Answered, IInv, TypeOK
  <2>2. \A d \in Calls : calls'[d].uid <= Count
    BY <1>0, <1>1, <1>2 DEF IInv, TypeOK
  <2>3. /\ overtaken' \subseteq Tabs \cup Calls
        /\ races' \subseteq Slips \cup {"elsewhere"}
    BY DEF Answered, IInv, TypeOK, Slips
  <2>4. QED
    BY <1>0, <1>1, <1>3, <2>1, <2>2, <2>3 DEF Answered, IInv, TypeOK
<1>5. CallsAreWhole'
  <2>1. \A d \in Calls \ {c} :
          LET call == calls'[d] IN
            /\ call.kind # "idle" => call.tab \in Tabs
            /\ call.kind = "apply" => call.answer = "none"
            /\ call.kind = "join" => (call.uid # 0 <=> call.answer = "ok")
            /\ call.kind = "leave" => call.uid # 0 /\ (call.answer = "ok" => call.uid \in left')
    BY <1>1, <1>3 DEF IInv, CallsAreWhole
  <2>2. /\ r.kind # "idle" => r.tab \in Tabs
        /\ r.kind = "apply" => r.answer = "none"
        /\ r.kind = "join" => (r.uid # 0 <=> r.answer = "ok")
        /\ r.kind = "leave" => r.uid # 0 /\ (r.answer = "ok" => r.uid \in left')
    <3>1. calls[c].tab \in Tabs
      BY DEF Answered, IInv, CallsAreWhole
    <3>2. QED
      BY <1>2, <3>1, IdleCall DEF Answered
  <2>3. QED
    BY <1>1, <2>1, <2>2 DEF CallsAreWhole
<1>6. RoomIsMade'
  <2>1. c \notin Tabs
    BY JoinAssumption
  <2>2. \A t \in Tabs \ overtaken' : order'[t] = "pending" => Count < Tier
    BY <2>1 DEF Answered, IInv, RoomIsMade
  <2>3. \A d \in Calls \ overtaken' : calls'[d].kind = "apply" => Count < Tier
    <3>1. r.kind = "apply" => Count < Tier
      BY <1>2, CapRaised, IdleCall DEF Answered, MakesRoom
    <3>2. QED
      BY <1>1, <3>1 DEF Answered, IInv, RoomIsMade
  <2>4. QED
    BY <1>0, <2>2, <2>3 DEF RoomIsMade
<1>7. SpinnersWait'
  <2>1. Shown(c) => /\ r.tab = calls[c].tab /\ r.page = calls[c].page
                    /\ \/ r.kind = calls[c].kind
                       \/ {calls[c].kind, r.kind} \subseteq {"redeem", "apply"}
    BY DEF Answered
  <2>2. \A d \in Calls :
          Shown(d) /\ calls[d].kind # "idle" =>
            /\ calls'[d].tab = calls[d].tab /\ calls'[d].page = calls[d].page
            /\ \/ calls'[d].kind = calls[d].kind
               \/ {calls[d].kind, calls'[d].kind} \subseteq {"redeem", "apply"}
    BY <1>1, <2>1
  <2>3. QED
    BY <1>0, <2>2, SpinnersOfAll DEF IInv
<1>8. UidsAreMine'
  BY <1>0, <1>1, <1>2 DEF Answered, IInv, UidsAreMine
<1>9. JoinsAreNew'
  <2> SUFFICES ASSUME NEW d \in Calls, calls'[d].kind = "join", calls'[d].uid # 0
               PROVE  /\ calls'[d].uid \notin left' /\ record # calls'[d].uid
                      /\ \A t \in Tabs : sess[t] # calls'[d].uid
                      /\ \A e \in Calls \ {d} : calls'[e].uid # calls'[d].uid
    BY <1>0 DEF JoinsAreNew
  <2>1. d # c /\ calls'[d] = calls[d]
    BY <1>1, <1>2
  <2>2. /\ calls[d].uid \notin left /\ record # calls[d].uid
        /\ \A t \in Tabs : sess[t] # calls[d].uid
        /\ \A e \in Calls \ {d} : calls[e].uid # calls[d].uid
    BY <2>1 DEF IInv, JoinsAreNew
  <2>3. QED
    BY <1>1, <1>2, <1>3, <2>1, <2>2
<1>10. LeavesAreOnTheirWay'
  <2> SUFFICES ASSUME Without({"elsewhere", "lost"})', NEW u \in left',
                      record = u \/ \E t \in Tabs : sess[t] = u
               PROVE  \E d \in Calls :
                        calls'[d].kind = "leave" /\ calls'[d].answer = "ok" /\ calls'[d].uid = u
    BY <1>0 DEF LeavesAreOnTheirWay
  <2>1. Without({"elsewhere", "lost"}) /\ "lost" \notin races'
    BY DEF Without, Answered
  <2>2. CASE u \in left
    <3>1. PICK d \in Calls : calls[d].kind = "leave" /\ calls[d].answer = "ok" /\ calls[d].uid = u
      BY <2>1, <2>2 DEF IInv, LeavesAreOnTheirWay
    <3>2. d # c
      BY <3>1 DEF Answered
    <3>3. QED
      BY <1>1, <3>1, <3>2
  <2>3. CASE u \notin left
    <3>1. r.kind = "leave" /\ r.answer = "ok" /\ u = calls[c].uid
      BY <2>1, <2>3 DEF Answered
    <3>2. QED
      BY <1>1, <1>2, <3>1
  <2>4. QED
    BY <2>2, <2>3
<1>11. JoinsAreAlone'
  <2> SUFFICES ASSUME Without(Slips)', NEW d \in Calls,
                      calls'[d].kind = "join", calls'[d].uid # 0
               PROVE  Mine' = {calls'[d].uid}
    BY <1>0 DEF JoinsAreAlone
  <2>1. d # c /\ calls'[d] = calls[d]
    BY <1>1, <1>2
  <2>2. Without(Slips)
    BY DEF Without, Answered
  <2>3. Mine = {calls[d].uid}
    BY <2>1, <2>2 DEF IInv, JoinsAreAlone
  <2>4. calls[d].uid \notin left'
    BY <1>3, <2>1 DEF IInv, JoinsAreNew
  <2>5. QED
    BY <1>3, <2>1, <2>3, <2>4
<1>12. MembersAreKept'
  <2> SUFFICES ASSUME Without(Slips)', NEW u \in Mine'
               PROVE  record = u \/ \E d \in Calls : calls'[d].kind = "join" /\ calls'[d].uid = u
    BY <1>0 DEF MembersAreKept
  <2>1. Without(Slips) /\ u \in Mine /\ u # 0
    BY <1>0, <1>3 DEF Without, Answered, Mine
  <2>2. record = u \/ \E d \in Calls \ {c} : calls[d].kind = "join" /\ calls[d].uid = u
    BY <1>2, <2>1 DEF IInv, MembersAreKept
  <2>3. QED
    BY <1>1, <2>2
<1>13. BoostStep
  <2>1. calls[c].kind = "apply" /\ r.kind # "apply" => max' = Tier
    BY CapRaised DEF Answered
  <2>2. \A d \in Calls \ overtaken :
          calls[d].kind = "apply" /\ calls'[d].kind # "apply" => Len(slots') < max'
    BY <1>1, <2>1 DEF IInv, RoomIsMade, Count, Answered
  <2>3. QED
    BY <2>2 DEF BoostStep, Answered
<1>14. QED
  BY <1>4, <1>5, <1>6, <1>7, <1>8, <1>9, <1>10, <1>11, <1>12, <1>13 DEF IInv

\* What the server and the network do to a request when nobody enters the room.
LEMMA RequestSteps ==
  ASSUME IInv, NEW c \in Calls,
         \/ AnswerRoom(c) \/ CheckRedeem(c) \/ ApplyRedeem(c) \/ AnswerLeave(c)
         \/ (AnswerJoin(c) \/ Fail(c)) /\ UNCHANGED slots
  PROVE  IInv' /\ BoostStep
<1>1. /\ calls[c] \in Requests /\ Info \in Counts /\ coupon \in {"unused", "used"}
      /\ calls[c].kind = "apply" => calls[c].answer = "none"
  BY CapRaised DEF IInv, TypeOK, CallsAreWhole, Info, Counts
<1>2. ASSUME NEW answer \in {"ok", "room_full", "refused", "error"}, Reply(c, answer)
      PROVE  \E r \in Requests :
               /\ calls' = [calls EXCEPT ![c] = r]
               /\ \/ r = Idle /\ ~Shown(c) /\ calls[c].page = "gone"
                  \/ /\ calls[c].page # "gone"
                     /\ r.tab = calls[c].tab /\ r.page = calls[c].page /\ r.uid = calls[c].uid
                     /\ r.kind = calls[c].kind /\ r.answer = answer
  <2>1. CASE calls[c].page = "gone"
    BY <1>2, <2>1, IdleCall DEF Reply, Shown
  <2>2. CASE calls[c].page # "gone"
    <3> DEFINE r == [calls[c] EXCEPT !.answer = answer]
    <3>1. calls' = [calls EXCEPT ![c] = r]
      BY <1>2, <2>2 DEF Reply
    <3>2. /\ r \in Requests /\ r.tab = calls[c].tab /\ r.page = calls[c].page
          /\ r.uid = calls[c].uid /\ r.kind = calls[c].kind /\ r.answer = answer
      BY <1>1 DEF Requests
    <3> HIDE DEF r
    <3>3. QED
      BY <2>2, <3>1, <3>2
  <2>3. QED
    BY <2>1, <2>2
<1>3. CASE AnswerRoom(c)
  <2>1. CASE calls[c].page = "gone"
    <3>1. Answered(c, Idle)
      BY <1>3, <2>1 DEF AnswerRoom, Answered, Pending, Shown, server, browser
    <3>2. QED
      BY <1>1, <1>3, <3>1, IdleCall, AnsweredInvariant DEF AnswerRoom, server
  <2>2. CASE calls[c].page # "gone"
    <3> DEFINE r == [calls[c] EXCEPT !.answer = "ok", !.seen = Info]
    <3>1. calls' = [calls EXCEPT ![c] = r]
      BY <1>3, <2>2 DEF AnswerRoom
    <3>2. /\ r \in Requests /\ r.tab = calls[c].tab /\ r.page = calls[c].page
          /\ r.uid = calls[c].uid /\ r.kind = calls[c].kind /\ r.answer = "ok"
      BY <1>1 DEF Requests
    <3> HIDE DEF r
    <3>3. Answered(c, r)
      BY <1>3, <3>1, <3>2 DEF AnswerRoom, Answered, Pending, server, browser
    <3>4. QED
      BY <1>1, <1>3, <3>2, <3>3, AnsweredInvariant DEF AnswerRoom, server
  <2>3. QED
    BY <2>1, <2>2
<1>4. CASE CheckRedeem(c) /\ calls[c].kind = "redeem" /\ calls' = [calls EXCEPT ![c].kind = "apply"]
  <2> DEFINE r == [calls[c] EXCEPT !.kind = "apply"]
  <2>1. /\ r \in Requests /\ r.tab = calls[c].tab /\ r.page = calls[c].page
        /\ r.uid = calls[c].uid /\ r.kind = "apply" /\ r.answer = calls[c].answer
    BY <1>1 DEF Requests, Kinds
  <2>2. calls' = [calls EXCEPT ![c] = r]
    BY <1>4
  <2>3. MakesRoom
    <3>1. CASE coupon = "unused" /\ MakesRoom
      BY <1>4, <3>1 DEF CheckRedeem
    <3>2. CASE ~(coupon = "unused" /\ MakesRoom)
      <4>1. calls \in [Calls -> Requests] /\ Reply(c, "refused") /\ calls'[c].kind = "apply"
        BY <1>4, <3>2 DEF CheckRedeem, IInv, TypeOK
      <4>2. PICK q \in Requests : calls'[c] = q /\ q.kind \in {"idle", "redeem"}
        BY <1>2, <1>4, <4>1, IdleCall
      <4>3. QED
        BY <4>1, <4>2
    <3>3. QED
      BY <3>1, <3>2
  <2> HIDE DEF r
  <2>4. Answered(c, r)
    BY <1>4, <2>1, <2>2, <2>3 DEF CheckRedeem, Answered, Pending, server, browser
  <2>5. QED
    BY <1>1, <1>4, <2>1, <2>4, AnsweredInvariant DEF CheckRedeem, server
<1>5. CASE /\ \/ CheckRedeem(c) /\ Reply(c, "refused") /\ UNCHANGED overtaken
              \/ (AnswerJoin(c) \/ Fail(c)) /\ UNCHANGED slots
  <2>1. PICK answer \in {"refused", "room_full", "error"} :
          /\ Reply(c, answer)
          /\ UNCHANGED <<server, browser, overtaken, races>>
          /\ calls[c].kind \notin {"idle", "apply"} /\ calls[c].answer = "none"
    <3>1. \A who : Append(slots, who) # slots
      BY DEF IInv, TypeOK
    <3>2. QED
      BY <1>5, <3>1 DEF CheckRedeem, AnswerJoin, Fail, Enter, Pending, server
  <2>2. PICK r \in Requests :
          /\ calls' = [calls EXCEPT ![c] = r]
          /\ \/ r = Idle /\ ~Shown(c) /\ calls[c].page = "gone"
             \/ /\ calls[c].page # "gone"
                /\ r.tab = calls[c].tab /\ r.page = calls[c].page /\ r.uid = calls[c].uid
                /\ r.kind = calls[c].kind /\ r.answer = answer
    BY <1>2, <2>1
  <2>3. Answered(c, r)
    BY <2>1, <2>2 DEF Answered, server
  <2>4. QED
    BY <1>1, <2>1, <2>3, AnsweredInvariant DEF server
<1>6. CASE ApplyRedeem(c)
  <2>1. CASE calls[c].page = "gone"
    <3>1. Answered(c, Idle)
      BY <1>6, <2>1, IdleCall DEF ApplyRedeem, Answered, Pending, Shown, browser
    <3>2. QED
      BY <1>6, <3>1, IdleCall, AnsweredInvariant DEF ApplyRedeem
  <2>2. CASE calls[c].page # "gone"
    <3> DEFINE r == [calls[c] EXCEPT !.kind = "redeem", !.answer = "ok"]
    <3>1. calls' = [calls EXCEPT ![c] = r]
      BY <1>6, <2>2 DEF ApplyRedeem
    <3>2. /\ r \in Requests /\ r.tab = calls[c].tab /\ r.page = calls[c].page
          /\ r.uid = calls[c].uid /\ r.kind = "redeem" /\ r.answer = "ok"
      BY <1>1 DEF Requests, Kinds
    <3> HIDE DEF r
    <3>3. Answered(c, r)
      BY <1>6, <3>1, <3>2 DEF ApplyRedeem, Answered, Pending, browser
    <3>4. QED
      BY <1>6, <3>2, <3>3, AnsweredInvariant DEF ApplyRedeem
  <2>3. QED
    BY <2>1, <2>2
<1>7. CASE AnswerLeave(c)
  <2>1. PICK r \in Requests :
          /\ calls' = [calls EXCEPT ![c] = r]
          /\ \/ r = Idle /\ ~Shown(c) /\ calls[c].page = "gone"
             \/ /\ calls[c].page # "gone"
                /\ r.tab = calls[c].tab /\ r.page = calls[c].page /\ r.uid = calls[c].uid
                /\ r.kind = calls[c].kind /\ r.answer = "ok"
    BY <1>2, <1>7 DEF AnswerLeave
  <2>2. /\ calls[c].kind = "leave" /\ calls[c].answer = "none"
        /\ left' = left \cup {calls[c].uid}
        /\ UNCHANGED <<slots, max, coupon, order, browser, overtaken>>
        /\ races \subseteq races' /\ races' \subseteq races \cup {"lost"}
        /\ calls[c].page = "gone" => "lost" \in races'
    BY <1>7 DEF AnswerLeave, Pending
  <2>3. Answered(c, r)
    BY <2>1, <2>2 DEF Answered
  <2>4. QED
    BY <1>1, <2>2, <2>3, AnsweredInvariant
<1>8. CASE CheckRedeem(c)
  BY <1>4, <1>5, <1>8 DEF CheckRedeem, Pending
<1>9. QED
  BY <1>3, <1>5, <1>6, <1>7, <1>8

\* A boost from outside takes effect.
LEMMA BoostSteps ==
  ASSUME IInv, (\E t \in Tabs : Pay(t)) \/ SomeoneBoosts
  PROVE  IInv' /\ BoostStep
<1>1. /\ RaiseCap /\ UNCHANGED <<slots, left, coupon, browser, calls, races>>
      /\ \/ UNCHANGED <<order, overtaken>>
         \/ \E t \in Tabs : /\ order[t] = "pending" /\ order' = [order EXCEPT ![t] = "completed"]
                           /\ overtaken' = overtaken \ {t}
  BY DEF Pay, SomeoneBoosts
<1>2. /\ order \in [Tabs -> {"none", "pending", "completed"}] /\ max' = Tier /\ Count <= Tier
      /\ UNCHANGED <<Count, Mine, record, wallet, sess, tab>>
  <2>1. UNCHANGED <<Count, Mine, record, wallet, sess, tab>>
    BY <1>1 DEF browser, Count, Mine
  <2>2. Count <= Tier /\ max' = Tier
    BY <1>1, CapRaised
  <2>3. QED
    BY <2>1, <2>2 DEF IInv, TypeOK
<1>3. /\ order' \in [Tabs -> {"none", "pending", "completed"}]
      /\ \A t \in Tabs : order'[t] = "pending" => order[t] = "pending"
      /\ \A t \in Tabs \ overtaken' : order'[t] = "pending" => t \notin overtaken
      /\ \A c \in Calls \ overtaken' : c \notin overtaken
      /\ overtaken' \subseteq overtaken
  BY <1>1, <1>2, JoinAssumption
<1>4. TypeOK'
  BY <1>1, <1>2, <1>3 DEF IInv, TypeOK
<1>5. CallsAreWhole' /\ RoomIsMade' /\ UidsAreMine' /\ JoinsAreNew'
  <2>1. CallsAreWhole'
    BY <1>1 DEF IInv, CallsAreWhole
  <2>2. RoomIsMade'
    BY <1>1, <1>2, <1>3 DEF IInv, RoomIsMade
  <2>3. UidsAreMine'
    BY <1>1, <1>2 DEF IInv, UidsAreMine
  <2>4. JoinsAreNew'
    BY <1>1, <1>2 DEF IInv, JoinsAreNew
  <2>5. QED
    BY <2>1, <2>2, <2>3, <2>4
<1>6. SpinnersWait'
  BY <1>1, <1>2, SpinnersOfAll DEF IInv
<1>7. LeavesAreOnTheirWay' /\ JoinsAreAlone' /\ MembersAreKept'
  BY <1>1, <1>2 DEF IInv, LeavesAreOnTheirWay, JoinsAreAlone, MembersAreKept, Without
<1>8. BoostStep
  BY <1>1, <1>2 DEF IInv, RoomIsMade, BoostStep, Count
<1>9. QED
  BY <1>4, <1>5, <1>6, <1>7, <1>8 DEF IInv

\* Somebody enters the room: its users move up by one.
LEMMA EnteredRoom ==
  ASSUME IInv, NEW who \in {"me", "other"}, Enter(who), HasRoom, UNCHANGED left
  PROVE  /\ slots' \in Seq({"me", "other"}) /\ Count \in Nat /\ Count' = Count + 1
         /\ max \in Nat /\ Count + 1 <= max
         /\ \A u \in 1..Count : slots'[u] = slots[u]
         /\ slots'[Count + 1] = who
         /\ Mine' = IF who = "me" THEN Mine \cup {Count + 1} ELSE Mine
         /\ Mine \subseteq 1..Count /\ left \subseteq 1..Count
<1>1. /\ slots \in Seq({"me", "other"}) /\ slots' = Append(slots, who) /\ Count \in Nat
      /\ left \subseteq 1..Count /\ max \in Nat /\ Count < max
  BY CapRaised DEF Enter, HasRoom, IInv, TypeOK
<1>2. /\ slots' \in Seq({"me", "other"}) /\ Len(slots') = Len(slots) + 1
      /\ \A u \in 1..Len(slots) : slots'[u] = slots[u]
      /\ slots'[Len(slots) + 1] = who
  BY <1>1
<1>3. /\ Count' = Count + 1 /\ slots'[Count + 1] = who
      /\ \A u \in 1..Count : slots'[u] = slots[u]
  BY <1>2 DEF Count
<1>4. /\ Mine' = {u \in 1..(Count + 1) : slots'[u] = "me" /\ u \notin left}
      /\ Mine = {u \in 1..Count : slots[u] = "me" /\ u \notin left}
  BY <1>3 DEF Mine
<1>5. \A u \in 1..(Count + 1) : u \in 1..Count \/ u = Count + 1
  BY <1>1
<1>6. Count + 1 \notin left /\ Count + 1 \in 1..(Count + 1) /\ 1..Count \subseteq 1..(Count + 1)
  BY <1>1
<1>7. \A u \in 1..Count : u \in Mine' <=> u \in Mine
  BY <1>3, <1>4, <1>6
<1>8. Count + 1 \in Mine' <=> who = "me"
  BY <1>3, <1>4, <1>6
<1>9. Mine' \subseteq 1..(Count + 1) /\ Mine \subseteq 1..Count
  BY <1>4
<1>10. Mine' = IF who = "me" THEN Mine \cup {Count + 1} ELSE Mine
  <2>1. \A u : u \in Mine' <=> u \in Mine \/ (u = Count + 1 /\ who = "me")
    BY <1>5, <1>7, <1>8, <1>9
  <2>2. QED
    BY <2>1
<1>11. Count + 1 <= max
  BY <1>1
<1>12. slots' \in Seq({"me", "other"})
  BY <1>2
<1>13. QED
  BY <1>1, <1>3, <1>9, <1>10, <1>11, <1>12

\* By somebody else, or by a join of this browser.
LEMMA EnterSteps ==
  ASSUME IInv, SomeoneJoins \/ \E c \in Calls : (AnswerJoin(c) \/ Fail(c)) /\ slots' # slots
  PROVE  IInv' /\ BoostStep
<1>1. /\ UNCHANGED <<left, max, coupon, order, browser>> /\ HasRoom
      /\ races \subseteq races' /\ races' \subseteq races \cup {"lost", "doubled"}
  <2>1. CASE SomeoneJoins
    BY <2>1 DEF SomeoneJoins
  <2>2. CASE \E c \in Calls : (AnswerJoin(c) \/ Fail(c)) /\ slots' # slots
    BY <2>2 DEF AnswerJoin, Fail
  <2>3. QED
    BY <2>1, <2>2
<1>2. PICK who \in {"me", "other"} :
        /\ Enter(who)
        /\ \/ who = "other" /\ UNCHANGED calls
           \/ /\ who = "me"
              /\ \E c \in Calls, r \in Requests :
                   /\ calls[c].kind = "join" /\ calls[c].answer = "none"
                   /\ calls' = [calls EXCEPT ![c] = r]
                   /\ \/ r.kind = "idle" /\ r.uid = 0 /\ ~Shown(c) /\ "lost" \in races'
                      \/ /\ r.kind = "join" /\ r.tab = calls[c].tab /\ r.page = calls[c].page
                         /\ \/ r.answer = "error" /\ r.uid = 0 /\ "lost" \in races'
                            \/ /\ r.answer = "ok" /\ r.uid = Count + 1
                               /\ Mine # {} => "doubled" \in races'
  <2>1. CASE SomeoneJoins
    BY <2>1 DEF SomeoneJoins
  <2>2. ASSUME NEW c \in Calls, AnswerJoin(c) \/ Fail(c), slots' # slots
        PROVE  /\ Enter("me") /\ calls[c].kind = "join" /\ calls[c].answer = "none"
               /\ \E r \in Requests :
                    /\ calls' = [calls EXCEPT ![c] = r]
                    /\ \/ r.kind = "idle" /\ r.uid = 0 /\ ~Shown(c) /\ "lost" \in races'
                       \/ /\ r.kind = "join" /\ r.tab = calls[c].tab /\ r.page = calls[c].page
                          /\ \/ r.answer = "error" /\ r.uid = 0 /\ "lost" \in races'
                             \/ /\ r.answer = "ok" /\ r.uid = Count + 1
                                /\ Mine # {} => "doubled" \in races'
    <3>1. /\ Enter("me") /\ calls[c].kind = "join" /\ calls[c].answer = "none"
          /\ calls[c] \in Requests /\ Count + 1 \in Nat
      <4>1. Enter("me") /\ calls[c].kind = "join"
        BY <2>2 DEF AnswerJoin, Fail, Pending
      <4>2. calls[c].answer = "none"
        BY <2>2 DEF AnswerJoin, Fail, Pending
      <4>3. QED
        BY <4>1, <4>2, CapRaised DEF IInv, TypeOK
    <3>2. calls[c].uid = 0
      BY <3>1 DEF IInv, CallsAreWhole
    <3>3. CASE calls[c].page = "gone"
      <4>1. calls' = [calls EXCEPT ![c] = Idle] /\ "lost" \in races'
        BY <2>2, <3>3 DEF AnswerJoin, Fail, Reply
      <4>2. QED
        BY <3>1, <3>3, <4>1, IdleCall DEF Shown
    <3>4. CASE calls[c].page # "gone" /\ AnswerJoin(c)
      <4> DEFINE r == [calls[c] EXCEPT !.answer = "ok", !.uid = Count + 1]
      <4>1. /\ calls' = [calls EXCEPT ![c] = r]
            /\ Mine # {} => "doubled" \in races'
        BY <2>2, <3>4 DEF AnswerJoin
      <4>2. /\ r \in Requests /\ r.kind = "join" /\ r.tab = calls[c].tab
            /\ r.page = calls[c].page /\ r.answer = "ok" /\ r.uid = Count + 1
        BY <3>1 DEF Requests
      <4> HIDE DEF r
      <4>3. QED
        BY <3>1, <4>1, <4>2
    <3>5. CASE calls[c].page # "gone" /\ Fail(c)
      <4> DEFINE r == [calls[c] EXCEPT !.answer = "error"]
      <4>1. calls' = [calls EXCEPT ![c] = r] /\ "lost" \in races'
        BY <2>2, <3>5 DEF Fail, Reply
      <4>2. /\ r \in Requests /\ r.kind = "join" /\ r.tab = calls[c].tab
            /\ r.page = calls[c].page /\ r.answer = "error" /\ r.uid = 0
        BY <3>1, <3>2 DEF Requests
      <4> HIDE DEF r
      <4>3. QED
        BY <3>1, <4>1, <4>2
    <3>6. QED
      BY <2>2, <3>3, <3>4, <3>5
  <2>3. QED
    BY <2>1, <2>2
<1>3. /\ slots' \in Seq({"me", "other"}) /\ Count \in Nat /\ Count' = Count + 1
      /\ max \in Nat /\ Count + 1 <= max
      /\ \A u \in 1..Count : slots'[u] = slots[u]
      /\ slots'[Count + 1] = who
      /\ Mine' = IF who = "me" THEN Mine \cup {Count + 1} ELSE Mine
      /\ Mine \subseteq 1..Count /\ left \subseteq 1..Count
  BY <1>1, <1>2, EnteredRoom
<1>4. /\ calls \in [Calls -> Requests] /\ sess \in [Tabs -> 0..Count] /\ record \in 0..Count
      /\ UNCHANGED <<record, wallet, sess, tab>>
      /\ \A c \in Calls : calls[c].uid \in 0..Count
  <2>1. /\ calls \in [Calls -> Requests] /\ sess \in [Tabs -> 0..Count] /\ record \in 0..Count
        /\ \A c \in Calls : calls[c].uid <= Count
    BY DEF IInv, TypeOK
  <2>2. QED
    BY <1>1, <1>3, <2>1 DEF browser, Requests
<1>5. /\ calls' \in [Calls -> Requests]
      /\ \A c \in Calls :
           \/ calls'[c] = calls[c]
           \/ /\ who = "me"
              /\ calls[c].kind = "join" /\ calls[c].uid = 0 /\ calls[c].answer = "none"
              /\ \/ calls'[c].kind = "idle" /\ calls'[c].uid = 0 /\ ~Shown(c)
                 \/ /\ calls'[c].kind = "join" /\ calls'[c].tab = calls[c].tab
                    /\ calls'[c].page = calls[c].page
                    /\ \/ calls'[c].answer = "error" /\ calls'[c].uid = 0
                       \/ /\ calls'[c].answer = "ok" /\ calls'[c].uid = Count + 1
                          /\ Mine # {} => "doubled" \in races'
      /\ \A c, d \in Calls : calls'[c] # calls[c] /\ calls'[d] # calls[d] => c = d
      /\ who = "me" => "lost" \in races' \/ \E c \in Calls :
                                              calls'[c].kind = "join" /\ calls'[c].uid = Count + 1
  <2>1. CASE who = "other" /\ UNCHANGED calls
    BY <1>4, <2>1
  <2>2. CASE who = "me"
    <3>1. PICK c \in Calls, r \in Requests :
            /\ calls[c].kind = "join" /\ calls[c].answer = "none"
            /\ calls' = [calls EXCEPT ![c] = r]
            /\ \/ r.kind = "idle" /\ r.uid = 0 /\ ~Shown(c) /\ "lost" \in races'
               \/ /\ r.kind = "join" /\ r.tab = calls[c].tab /\ r.page = calls[c].page
                  /\ \/ r.answer = "error" /\ r.uid = 0 /\ "lost" \in races'
                     \/ /\ r.answer = "ok" /\ r.uid = Count + 1
                        /\ Mine # {} => "doubled" \in races'
      BY <1>2, <2>2
    <3>2. /\ calls' \in [Calls -> Requests] /\ calls'[c] = r
          /\ \A d \in Calls \ {c} : calls'[d] = calls[d]
      BY <1>4, <3>1, Replaced
    <3>3. calls[c].uid = 0
      BY <3>1 DEF IInv, CallsAreWhole
    <3>4. QED
      BY <2>2, <3>1, <3>2, <3>3
  <2>3. QED
    BY <1>2, <2>1, <2>2
<1>6. TypeOK'
  <2>1. /\ record \in 0..(Count + 1) /\ sess \in [Tabs -> 0..(Count + 1)]
        /\ left \subseteq 1..(Count + 1)
    BY <1>3, <1>4
  <2>2. \A c \in Calls : calls'[c].uid <= Count + 1
    BY <1>3, <1>4, <1>5
  <2>3. overtaken' \subseteq Tabs \cup Calls
    BY <1>2 DEF Enter, IInv, TypeOK
  <2>4. races' \subseteq Slips \cup {"elsewhere"}
    BY <1>1 DEF IInv, TypeOK, Slips
  <2>5. QED
    BY <1>1, <1>3, <1>4, <1>5, <2>1, <2>2, <2>3, <2>4 DEF IInv, TypeOK
<1>7. CallsAreWhole'
  <2> SUFFICES ASSUME NEW c \in Calls
               PROVE  LET call == calls'[c] IN
                        /\ call.kind # "idle" => call.tab \in Tabs
                        /\ call.kind = "apply" => call.answer = "none"
                        /\ call.kind = "join" => (call.uid # 0 <=> call.answer = "ok")
                        /\ call.kind = "leave" =>
                             call.uid # 0 /\ (call.answer = "ok" => call.uid \in left)
    BY <1>1 DEF CallsAreWhole
  <2>1. LET call == calls[c] IN
          /\ call.kind # "idle" => call.tab \in Tabs
          /\ call.kind = "apply" => call.answer = "none"
          /\ call.kind = "join" => (call.uid # 0 <=> call.answer = "ok")
          /\ call.kind = "leave" => call.uid # 0 /\ (call.answer = "ok" => call.uid \in left)
    BY DEF IInv, CallsAreWhole
  <2>2. QED
    BY <1>3, <1>5, <2>1
<1>8. RoomIsMade'
  <2>1. /\ overtaken \subseteq overtaken'
        /\ \A t \in Tabs : order[t] = "pending" => t \in overtaken'
        /\ \A c \in Calls : calls[c].kind = "apply" => c \in overtaken'
    BY <1>2 DEF Enter
  <2>2. \A c \in Calls : calls'[c].kind = "apply" => c \in overtaken'
    BY <1>5, <2>1
  <2>3. QED
    BY <1>1, <2>1, <2>2 DEF RoomIsMade
<1>9. SpinnersWait'
  <2>1. \A c \in Calls :
          Shown(c) =>
            /\ calls'[c].tab = calls[c].tab /\ calls'[c].page = calls[c].page
            /\ calls'[c].kind = calls[c].kind
    BY <1>5
  <2>2. QED
    BY <1>4, <2>1, SpinnersOfAll DEF IInv
<1>10. UidsAreMine'
  <2>1. record # 0 => slots'[record] = "me"
    BY <1>3, <1>4 DEF IInv, UidsAreMine
  <2>2. \A t \in Tabs : sess[t] # 0 => slots'[sess[t]] = "me"
    BY <1>3, <1>4 DEF IInv, UidsAreMine
  <2>3. \A c \in Calls : calls[c].uid # 0 => slots'[calls[c].uid] = "me"
    BY <1>3, <1>4 DEF IInv, UidsAreMine
  <2>4. \A c \in Calls : calls'[c].uid # 0 => slots'[calls'[c].uid] = "me"
    BY <1>3, <1>5, <2>3
  <2>5. QED
    BY <1>4, <2>1, <2>2, <2>4 DEF IInv, UidsAreMine
<1>11. JoinsAreNew'
  <2> SUFFICES ASSUME NEW c \in Calls, calls'[c].kind = "join", calls'[c].uid # 0
               PROVE  /\ calls'[c].uid \notin left /\ record # calls'[c].uid
                      /\ \A t \in Tabs : sess[t] # calls'[c].uid
                      /\ \A d \in Calls \ {c} : calls'[d].uid # calls'[c].uid
    BY <1>1, <1>4 DEF JoinsAreNew
  <2>1. CASE calls'[c] = calls[c]
    <3>1. /\ calls[c].uid \notin left /\ record # calls[c].uid
          /\ \A t \in Tabs : sess[t] # calls[c].uid
          /\ \A d \in Calls \ {c} : calls[d].uid # calls[c].uid
      BY <2>1 DEF IInv, JoinsAreNew
    <3>2. \A d \in Calls \ {c} : calls'[d].uid \in {calls[d].uid, 0, Count + 1}
      BY <1>5
    <3>3. calls[c].uid \notin {0, Count + 1}
      BY <1>3, <1>4, <2>1
    <3>4. QED
      BY <2>1, <3>1, <3>2, <3>3
  <2>2. CASE calls'[c] # calls[c]
    <3>1. calls'[c].uid = Count + 1 /\ \A d \in Calls \ {c} : calls'[d] = calls[d]
      BY <1>5, <2>2
    <3>2. /\ Count + 1 \notin left /\ record # Count + 1
          /\ \A t \in Tabs : sess[t] # Count + 1
          /\ \A d \in Calls : calls[d].uid # Count + 1
      BY <1>3, <1>4
    <3>3. QED
      BY <3>1, <3>2
  <2>3. QED
    BY <2>1, <2>2
<1>12. LeavesAreOnTheirWay'
  <2> SUFFICES ASSUME Without({"elsewhere", "lost"})', NEW u \in left,
                      record = u \/ \E t \in Tabs : sess[t] = u
               PROVE  \E c \in Calls :
                        calls'[c].kind = "leave" /\ calls'[c].answer = "ok" /\ calls'[c].uid = u
    BY <1>1, <1>4 DEF LeavesAreOnTheirWay
  <2>1. Without({"elsewhere", "lost"})
    BY <1>1 DEF Without
  <2>2. PICK c \in Calls : calls[c].kind = "leave" /\ calls[c].answer = "ok" /\ calls[c].uid = u
    BY <2>1 DEF IInv, LeavesAreOnTheirWay
  <2>3. QED
    BY <1>5, <2>2
<1>13. JoinsAreAlone'
  <2> SUFFICES ASSUME Without(Slips)', NEW c \in Calls,
                      calls'[c].kind = "join", calls'[c].uid # 0
               PROVE  Mine' = {calls'[c].uid}
    BY <1>4 DEF JoinsAreAlone
  <2>1. Without(Slips) /\ {"lost", "doubled"} \cap races' = {}
    BY <1>1 DEF Without, Slips
  <2>2. CASE calls'[c] # calls[c]
    <3>1. calls'[c].uid = Count + 1 /\ Mine = {} /\ who = "me"
      BY <1>5, <2>1, <2>2
    <3>2. QED
      BY <1>3, <3>1
  <2>3. CASE calls'[c] = calls[c]
    <3>1. Mine = {calls[c].uid} /\ calls[c].uid # 0 /\ calls[c].uid \in 1..Count
      BY <1>3, <1>4, <2>1, <2>3 DEF IInv, JoinsAreAlone
    <3>2. who = "other"
      <4>1. ASSUME who = "me"
            PROVE  FALSE
        <5>1. PICK d \in Calls : calls'[d].kind = "join" /\ calls'[d].uid = Count + 1
          BY <1>5, <2>1, <4>1
        <5>2. calls'[d] # calls[d]
          BY <1>3, <1>4, <5>1
        <5>3. Mine = {}
          BY <1>3, <1>5, <2>1, <5>1, <5>2
        <5>4. QED
          BY <3>1, <5>3
      <4>2. QED
        BY <4>1
    <3>3. QED
      BY <1>3, <2>3, <3>1, <3>2
  <2>4. QED
    BY <2>2, <2>3
<1>14. MembersAreKept'
  <2> SUFFICES ASSUME Without(Slips)', NEW u \in Mine'
               PROVE  record = u \/ \E c \in Calls : calls'[c].kind = "join" /\ calls'[c].uid = u
    BY <1>4 DEF MembersAreKept
  <2>1. Without(Slips) /\ "lost" \notin races'
    BY <1>1 DEF Without, Slips
  <2>2. CASE u \in Mine
    <3>1. u # 0
      BY <1>3, <2>2
    <3>2. record = u \/ \E c \in Calls : calls[c].kind = "join" /\ calls[c].uid = u
      BY <2>1, <2>2 DEF IInv, MembersAreKept
    <3>3. QED
      BY <1>5, <3>1, <3>2
  <2>3. CASE u \notin Mine
    BY <1>3, <1>5, <2>1, <2>3
  <2>4. QED
    BY <2>2, <2>3
<1>15. BoostStep
  BY <1>1, <1>5 DEF BoostStep
<1>16. QED
  BY <1>6, <1>7, <1>8, <1>9, <1>10, <1>11, <1>12, <1>13, <1>14, <1>15 DEF IInv

-----------------------------------------------------------------------------
(* The theorems.                                                           *)

LEMMA NextInvariant ==
  ASSUME IInv, [Next]_vars
  PROVE  IInv' /\ (BoostStep \/ UNCHANGED vars)
<1>1. CASE Next
  <2>1. ASSUME NEW t \in Tabs,
               \/ CloseTab(t) \/ GoHome(t) \/ OpenChat(t) \/ PageExpires(t)
               \/ Buy(t) \/ SheetCloses(t) \/ Pay(t)
        PROVE  IInv' /\ BoostStep
    BY <2>1, TabSteps, BuySteps, BoostSteps
  <2>2. ASSUME NEW t \in Tabs, NEW c \in Calls,
               \/ Start(t, c) \/ ReturnFromPolar(t, c) \/ Verify(t, c)
               \/ OpenLink(t, c) \/ HandleJoin(t, c)
               \/ HandleApplyCoupon(t, c) \/ HandleLeave(t, c)
        PROVE  IInv' /\ BoostStep
    BY <2>2, AskSteps
  <2>3. ASSUME NEW c \in Calls, Answer(c) \/ Fail(c)
        PROVE  IInv' /\ BoostStep
    <3>1. CASE slots' = slots
      BY <2>3, <3>1, RequestSteps DEF Answer
    <3>2. CASE slots' # slots
      <4>1. AnswerJoin(c) \/ Fail(c)
        BY <2>3, <3>2 DEF Answer, AnswerRoom, CheckRedeem, ApplyRedeem, AnswerLeave, server
      <4>2. QED
        BY <3>2, <4>1, EnterSteps
    <3>3. QED
      BY <3>1, <3>2
  <2>4. ASSUME NEW c \in Calls, Handle(c)
        PROVE  IInv' /\ BoostStep
    BY <2>4, AnswerSteps, RefreshSteps, JoinedStep, LeaveStep DEF Handle
  <2>5. QED
    BY <1>1, <2>1, <2>2, <2>3, <2>4, BoostSteps, EnterSteps DEF Next
<1>2. CASE UNCHANGED vars
  <2>1. TypeOK' /\ CallsAreWhole' /\ RoomIsMade'
    BY <1>2 DEF IInv, TypeOK, CallsAreWhole, RoomIsMade, vars, server, browser, Count
  <2>2. SpinnersWait' /\ UidsAreMine' /\ JoinsAreNew'
    BY <1>2 DEF IInv, SpinnersWait, UidsAreMine, JoinsAreNew, vars, server, browser, Waiting,
                OfTab, Shown
  <2>3. LeavesAreOnTheirWay' /\ JoinsAreAlone' /\ MembersAreKept'
    BY <1>2 DEF IInv, LeavesAreOnTheirWay, JoinsAreAlone, MembersAreKept, Without, Mine, Count,
                vars, server, browser
  <2>4. QED
    BY <1>2, <2>1, <2>2, <2>3 DEF IInv
<1>3. QED
  BY <1>1, <1>2

\* The inductive invariant always holds.
THEOREM JoinInvariance == Spec => []IInv
<1>1. QED
  BY InitInvariant, NextInvariant, PTL DEF Spec

\* The types, and that the room never has more users than its cap.
THEOREM JoinTypes == Spec => []TypeOK
<1>1. IInv => TypeOK
  BY DEF IInv
<1>2. QED
  BY <1>1, JoinInvariance, PTL

\* A place that this browser took in the room is in its record, or on its way there, unless
\* one of the races that are named has happened (all that HotelManager writes to the record:
\* joinRoom, removeRoom, updateExpiry and the refresh of loadAll).
THEOREM MembersAreAlwaysKept == Spec => []MembersAreKept
<1>1. IInv => MembersAreKept
  BY DEF IInv
<1>2. QED
  BY <1>1, JoinInvariance, PTL

\* Who is shown the chat entered the room, and hears of it when it has left.
THEOREM ChatIsForMembers == Spec => []ChatsAsMember
<1>1. QED
  BY InvariantImplies, JoinInvariance, PTL

\* Every spinner of a new document and of the join page waits for a request that is under way.
THEOREM SpinnersAlwaysWait == Spec => []SpinnersWait
<1>1. IInv => SpinnersWait
  BY DEF IInv
<1>2. QED
  BY <1>1, JoinInvariance, PTL

\* A boost by somebody outside that nobody overtook leaves room for them.
THEOREM BoostAlwaysMakesRoom == Spec => BoostMakesRoom
<1>1. IInv /\ [Next]_vars => [BoostStep]_vars
  BY NextInvariant
<1>2. QED
  BY <1>1, JoinInvariance, PTL DEF Spec, BoostMakesRoom
=============================================================================
