--------------------------- MODULE RoomKeysProofs ---------------------------
(***************************************************************************)
(* More proofs about RoomStore: that the keys of a room share its deadline, *)
(* that event ids are not handed out twice, that its cap is respected, and  *)
(* when a room is deleted.  The invariant of RoomStoreProofs says of the     *)
(* meta key, the registry and the events what is needed of them here.        *)
(***************************************************************************)
EXTENDS RoomStoreProofs

-----------------------------------------------------------------------------
(* The inductive invariant.                                                *)

\* The operation of a request says which round trips it makes.
Fits(q) ==
  /\ q.pc \in {"hlen", "enter"} => q.op = "join"
  /\ q.pc \in {"leftat", "hkeys", "check"} => q.op = "leave"
  /\ q.pc \in {"incr", "append"} => q.op \in {"create", "join", "send", "leave"}
  /\ q.pc \in {"list", "del"} => q.op \in {"leave", "cleanup"}
  /\ q.op = "none" <=> q.pc = "idle"

OpsFit == \A r \in Req : Fits(req[r])

\* Until its creation is answered a room is nobody's: there is no notification and no other
\* request, and it cannot go away.
Unborn ==
  told = {} =>
    /\ notif = 0
    /\ \A r \in Req : req[r].op = "create" \/ req[r].pc = "idle"
    /\ \A k \in Users \cup {"meta"} : ttl[k] \in {Absent, NoTTL}
    /\ IF epoch = 0 THEN events = {} ELSE Exists("meta")

\* What a creation has written so far.
Creating ==
  \A r \in Req : req[r].op = "create" =>
    /\ req[r].u = Creator /\ users = {Creator} /\ ~um[Creator].left /\ keys = Registry
    /\ \A k \in {"meta", "users", "keys", Creator} : ttl[k] = NoTTL
    /\ \A k \in {"events", "event_seq"} : ttl[k] \in {Absent, NoTTL, meta.exp}
    /\ \A k \in Key \ Registry : ~Exists(k)
    /\ req[r].pc = "ttl_set" => req[r].todo = Registry

\* And which ids it has handed out, as long as its own deadline is ahead.
CreatingNumbers ==
  \A r \in Req : req[r].op = "create" /\ meta.exp > now =>
    /\ epoch = 1 /\ Exists("event_seq")
    /\ req[r].pc \in {"joineid", "ttl_list", "ttl_set"} => Exists("events")
    /\ \A e \in events : e[1] <= seq
    /\ um[Creator].joinEid <= seq
    /\ req[r].pc \in {"append", "joineid"} => req[r].ev[1] <= seq
    /\ req[r].pc = "append" => req[r].ev \notin events

\* Unless a boost came between the read and the write of a request.
Undisturbed == Open /\ Without({"boost"})

\* The keys of an open room are registered, share its deadline, and are all there; and what the
\* requests have read is still so.
Together ==
  Undisturbed =>
    /\ \A k \in Key : Exists(k) => ttl[k] = meta.exp /\ k \in keys
    /\ \A k \in RoomKeys \cup told : Exists(k)
    /\ notif = 0
    /\ \A r \in Req :
         /\ req[r].op # "cleanup"
         /\ req[r].pc \in Relying => req[r].exp = meta.exp
         /\ req[r].op = "join" /\ req[r].pc \in {"incr", "append", "joineid", "getroom"} =>
              Exists(req[r].u)
         /\ req[r].pc = "leftat" => Exists(req[r].u)

\* The counter is ahead of every id that was stored or is about to be.
Numbered ==
  Undisturbed =>
    /\ epoch = 1
    /\ \A e \in events : e[1] <= seq
    /\ \A u \in users : um[u].joinEid <= seq
    /\ \A r \in Req : req[r].pc \in {"append", "joineid"} => req[r].ev[1] <= seq
    /\ \A r, s \in Req : r # s /\ At(r, "append") /\ At(s, "append") => req[r].ev # req[s].ev
    /\ \A r \in Req : At(r, "append") => req[r].ev \notin events

\* Who has been let in has been let in alone, under a cap that is not larger than the room's.
Caps ==
  /\ \A r \in Req : req[r].pc \in {"hlen", "enter"} => req[r].maxP <= meta.maxP
  /\ Without({"join"}) =>
       /\ Cardinality(users) <= meta.maxP
       /\ \A r, s \in Req : At(r, "enter") /\ At(s, "enter") => r = s
       /\ \A r \in Req : At(r, "enter") => Cardinality(users) < req[r].maxP

\* A leave that goes on to delete the room has found that everybody left.
Checked ==
  Undisturbed =>
    \A r \in Req :
      /\ req[r].pc = "check" => req[r].todo \subseteq users
      /\ Without({"enter"}) =>
           /\ req[r].pc = "check" => \A u \in users \ req[r].todo : um[u].left
           /\ req[r].pc \in {"list", "del"} => \A u \in users : um[u].left

\* In a room that everybody has left somebody is still leaving.
LastLeaves ==
  Undisturbed /\ Without({"crash"}) =>
    \/ \E u \in users : ~um[u].left
    \/ \E r \in Req : req[r].op = "leave" /\ req[r].pc # "leftat"

\* A room that is closed leaves no key without a deadline, and nobody who could write one.
ClosedClean ==
  told # {} /\ ~Exists("meta") /\ Without({"boost", "close"}) =>
    /\ \A k \in Key : ttl[k] # NoTTL
    /\ \A r \in Req : req[r].pc \notin Writing \cup {"ttl_list"}

KInv ==
  /\ OpsFit
  /\ Unborn
  /\ Creating
  /\ CreatingNumbers
  /\ Together
  /\ Numbered
  /\ Caps
  /\ Checked
  /\ LastLeaves
  /\ ClosedClean

-----------------------------------------------------------------------------
(* What is known of every state.                                           *)

Requests == [op : Ops, pc : Pcs, u : Users, exp : Nat, maxP : Nat, maxE : Nat,
             ev : Nat \X Nat, todo : SUBSET Key]

LEMMA Known ==
  ASSUME IInv
  PROVE  /\ ttl \in [Key -> Nat \cup {Absent}] /\ now \in Nat /\ told \subseteq Users
         /\ meta \in [exp : Nat, maxP : Nat, maxE : Nat]
         /\ req \in [Req -> Requests]
         /\ um \in [Users -> [joinEid : Nat, left : BOOLEAN]]
         /\ seq \in Nat /\ epoch \in Nat /\ events \subseteq Nat \X Nat
         /\ users \subseteq Users /\ keys \subseteq Key /\ notif \in Nat
BY DEF IInv, TypeOK, Requests

LEMMA KeyNames ==
  /\ RoomKeys = {"meta", "users", "events", "event_seq", "keys"}
  /\ Key = RoomKeys \cup Users /\ Users \cap RoomKeys = {}
  /\ Creator \in Users /\ Registry = RoomKeys \cup {Creator}
BY RoomAssumption DEF RoomKeys, Key, Registry

\* While the room is being created nobody has been told of it, and nobody else is there.
LEMMA Alone ==
  ASSUME IInv, KInv, NEW r \in Req, req[r].op = "create"
  PROVE  /\ told = {} /\ epoch > 0 /\ req[r].exp = meta.exp
         /\ req[r].pc \in {"incr", "append", "joineid", "ttl_list", "ttl_set"}
         /\ \A s \in Req : s # r => req[s].pc = "idle" /\ req[s].op = "none"
         /\ ~Open /\ ttl["meta"] = NoTTL
<1>1. /\ told = {} /\ epoch > 0 /\ req[r].exp = meta.exp
      /\ req[r].pc \in {"incr", "append", "joineid", "ttl_list", "ttl_set"}
      /\ \A s \in Req : s # r => req[s].pc \in {"idle", "list", "del"}
  BY DEF IInv, CreatedAlone
<1>2. \A s \in Req : s # r => req[s].pc = "idle"
  BY <1>1 DEF IInv, CreatedAlone, KInv, Unborn
<1>3. \A s \in Req : req[s].pc = "idle" => req[s].op = "none"
  BY DEF KInv, OpsFit, Fits
<1>4. QED
  BY <1>1, <1>2, <1>3 DEF Open, KInv, Creating

\* An open room's deadline is ahead, and its registry is complete.
LEMMA OpenIsAhead ==
  ASSUME IInv, KInv, Open
  PROVE  /\ ttl["meta"] = meta.exp /\ meta.exp > now /\ RoomKeys \subseteq keys
         /\ \A r \in Req : req[r].op # "create" /\ req[r].pc \notin {"ttl_list", "ttl_set"}
<1>1. ttl["meta"] = meta.exp /\ meta.exp > 0 /\ "meta" \in Key
  BY KeyNames DEF IInv, MetaExpires
<1>2. meta.exp > now
  BY <1>1 DEF IInv, DeadlinesAhead, NoTTL
<1>3. RoomKeys \subseteq keys
  BY DEF IInv, RegistryComplete, Open
<1>4. \A r \in Req : req[r].op # "create" /\ req[r].pc \notin {"ttl_list", "ttl_set"}
  BY DEF IInv, CreatedAlone, Open
<1>5. QED
  BY <1>1, <1>2, <1>3, <1>4

-----------------------------------------------------------------------------
(* Round trips that write no key.                                          *)

\* Request r makes a step that writes no key; what it may do to itself.
Moves(r) ==
  LET p == req[r]
      q == req'[r]
  IN
    /\ UNCHANGED <<now, store>>
    /\ \A s \in Req : s # r => req'[s] = req[s]
    /\ told \subseteq told' /\ (told' # {} => told # {})
    /\ \A u \in told' \ told : p.op = "join" /\ p.pc = "getroom" /\ u = p.u
    /\ races \subseteq races'
    /\ notif = 0 => notif' = 0
    /\ Fits(q)
    /\ q.op = "create" => /\ p.op = "create" /\ p.pc = "ttl_list" /\ q.u = p.u
                          /\ q.pc = "ttl_set" /\ q.todo = keys
    /\ q.op = "cleanup" => p.op = "cleanup" \/ notif > 0
    /\ q.op \in {"none", "create"} \/ told # {} \/ notif > 0 \/ p.op = q.op
    /\ q.pc \in Relying => \/ q.exp = meta.exp /\ q.maxP = meta.maxP
                           \/ q.exp = p.exp /\ q.maxP = p.maxP /\ p.pc = "hlen"
    /\ q.pc \notin {"append", "joineid", "ttl_list", "getroom"}
    /\ q.op = "join" => q.pc \in {"hlen", "enter"}
    /\ q.pc = "incr" => q.op = "send"
    /\ q.pc = "leftat" => q.u \in told
    /\ q.pc = "enter" => /\ p.pc = "hlen" /\ Cardinality(users) < p.maxP
                         /\ q.maxP = p.maxP /\ JoinRace(r) \subseteq races'
    /\ q.pc = "check" => \/ p.pc = "hkeys" /\ q.todo = users
                         \/ /\ p.pc = "check"
                            /\ \E u \in p.todo : um[u].left /\ q.todo = p.todo \ {u}
    /\ q.pc = "list" => \/ q.op = "cleanup"
                        \/ p.pc = "hkeys" /\ users = {}
                        \/ p.pc = "check" /\ \E u \in p.todo : um[u].left /\ p.todo = {u}
    /\ q.pc = "del" => p.pc = "list"
    /\ p.op = "leave" /\ p.pc # "leftat" =>
         \/ q.op = "leave" /\ q.pc # "leftat"
         \/ "crash" \in races'
         \/ p.pc = "check" /\ \E u \in p.todo : ~um[u].left
         \/ keys = {}
    /\ q.pc \in Writing \cup {"ttl_list"} =>
         Exists("meta") \/ p.pc \in Writing \cup {"ttl_list"}

LEMMA MovesKeep ==
  ASSUME IInv, KInv, NEW r \in Req, Moves(r), req' \in [Req -> Requests]
  PROVE  KInv'
<1>1. UNCHANGED <<now, ttl, meta, users, um, seq, epoch, events, keys>>
  BY DEF Moves, store
<1>2. /\ \A s \in Req : s # r => req'[s] = req[s]
      /\ told \subseteq told' /\ (told' # {} => told # {})
      /\ races \subseteq races' /\ Fits(req'[r])
  BY DEF Moves
<1>3. Undisturbed' => Undisturbed
  BY <1>1, <1>2 DEF Undisturbed, Open, Without, Exists
<1>4. OpsFit'
  BY <1>2 DEF KInv, OpsFit
<1>5. Unborn'
  BY <1>1, <1>2, <1>3 DEF KInv, Unborn, Exists, Moves, OpsFit, Fits
<1>6. Creating'
  BY <1>1, <1>2, <1>3, Alone DEF KInv, Creating, Exists, Moves
<1>7. CreatingNumbers'
  BY <1>1, <1>2, <1>3, Alone DEF KInv, CreatingNumbers, Exists, Moves
<1>8. Together'
  BY <1>1, <1>2, <1>3, OpenIsAhead
     DEF KInv, Together, Undisturbed, Open, Without, Exists, Moves, Relying
<1>9. Numbered'
  BY <1>1, <1>2, <1>3 DEF KInv, Numbered, Undisturbed, Open, Without, Exists, At, Moves
<1>10. Caps'
  <2>1. \A s \in Req : req'[s].pc \in {"hlen", "enter"} => req'[s].maxP <= meta'.maxP
    BY <1>1, <1>2, Known DEF KInv, Caps, Moves, Relying
  <2>2. ASSUME Without({"join"})'
        PROVE  /\ Cardinality(users') <= meta'.maxP
               /\ \A s \in Req : req'[s].pc = "enter" => Cardinality(users') < req'[s].maxP
    BY <1>1, <1>2, <2>2 DEF KInv, Caps, Without, At, Moves
  <2>3. ASSUME Without({"join"})', NEW s \in Req, NEW t \in Req,
               req'[s].pc = "enter", req'[t].pc = "enter"
        PROVE  s = t
    <3>1. CASE s # r /\ t # r
      BY <1>2, <2>3, <3>1 DEF KInv, Caps, Without, At
    <3>2. ASSUME req'[r].pc = "enter"
          PROVE  \A z \in Req : z # r => req[z].pc # "enter"
      BY <1>2, <2>3, <3>2 DEF Moves, JoinRace, At, Without
    <3>3. QED
      BY <1>2, <2>3, <3>1, <3>2
  <2>4. QED
    BY <2>1, <2>2, <2>3 DEF Caps, At
<1>11. Checked'
  <2>1. SUFFICES ASSUME Undisturbed'
                 PROVE  /\ req'[r].pc = "check" => req'[r].todo \subseteq users
                        /\ Without({"enter"}) =>
                             /\ req'[r].pc = "check" =>
                                  \A u \in users \ req'[r].todo : um[u].left
                             /\ req'[r].pc \in {"list", "del"} => \A u \in users : um[u].left
    BY <1>1, <1>2, <1>3 DEF KInv, Checked, Without
  <2>2. /\ req[r].pc = "check" => req[r].todo \subseteq users
        /\ Without({"enter"}) =>
             /\ req[r].pc = "check" => \A u \in users \ req[r].todo : um[u].left
             /\ req[r].pc \in {"list", "del"} => \A u \in users : um[u].left
        /\ req'[r].op # "cleanup"
    BY <1>3, <2>1 DEF KInv, Checked, Together, Moves
  <2>3. QED
    BY <2>2 DEF Moves
<1>12. LastLeaves'
  <2>1. SUFFICES ASSUME Undisturbed', Without({"crash"})',
                        \A u \in users : um[u].left
                 PROVE  \E s \in Req : req'[s].op = "leave" /\ req'[s].pc # "leftat"
    BY <1>1 DEF LastLeaves
  <2>2. PICK s \in Req : req[s].op = "leave" /\ req[s].pc # "leftat"
    BY <1>2, <1>3, <2>1 DEF KInv, LastLeaves, Without
  <2>3. req[r].pc = "check" => req[r].todo \subseteq users
    BY <1>3, <2>1 DEF KInv, Checked
  <2>4. keys # {}
    BY <1>3, <2>1, OpenIsAhead, KeyNames DEF Undisturbed
  <2>5. CASE s = r
    BY <2>1, <2>2, <2>3, <2>4, <2>5 DEF Moves, Without
  <2>6. CASE s # r
    BY <1>2, <2>2, <2>6
  <2>7. QED
    BY <2>5, <2>6
<1>13. ClosedClean'
  BY <1>1, <1>2, <1>3 DEF KInv, ClosedClean, Without, Exists, Moves, Writing, Relying
<1>14. QED
  BY <1>4, <1>5, <1>6, <1>7, <1>8, <1>9, <1>10, <1>11, <1>12, <1>13 DEF KInv


LEMMA ReadsMove ==
  ASSUME IInv, KInv, NEW r \in Req, Reads(r)
  PROVE  Moves(r)
<1> USE DEF At, Go, Done, Start, Exists
<1>0. req \in [Req -> Requests] /\ users \subseteq Users /\ told \subseteq Users
  BY Known
<1>a. Fits(req[r]) /\ Idle.pc = "idle" /\ Idle.op = "none" /\ Fits(Idle)
  BY DEF KInv, OpsFit, Fits, Idle
<1>b. /\ req[r].pc = "getroom" => req[r].op = "join"
      /\ req[r].pc \in {"ttl_list", "ttl_set"} => req[r].op = "create"
  BY DEF IInv, JoinersWereInvited, CreatedAlone
<1>c. told = {} => req[r].pc = "idle" \/ req[r].op = "create"
  BY DEF KInv, Unborn
<1>d. req[r].pc \in {"hlen", "enter"} => req[r].maxP \in Nat
  BY <1>0 DEF Requests
<1>e. Cardinality(users) \in Nat
  BY <1>0, RoomAssumption, FS_Subset, FS_CardinalityType
<1>1. CASE ExpireAllList(r)
  BY <1>0, <1>a, <1>b, <1>c, <1>d, <1>e, <1>1
     DEF ExpireAllList, Moves, Fits, Relying, Writing, store
<1>2. CASE JoinFull(r)
  BY <1>0, <1>a, <1>b, <1>c, <1>d, <1>e, <1>2
     DEF JoinFull, Moves, Fits, Relying, Writing, store
<1>3. CASE JoinRoom(r)
  BY <1>0, <1>a, <1>b, <1>c, <1>d, <1>e, <1>3
     DEF JoinRoom, Moves, Fits, Relying, Writing, store, IsFull, Relying, Writing
<1>4. CASE GetRoom(r)
  BY <1>0, <1>a, <1>b, <1>c, <1>d, <1>e, <1>4
     DEF GetRoom, Moves, Fits, Relying, Writing, store
<1>5. CASE SendRead(r)
  BY <1>0, <1>a, <1>b, <1>c, <1>d, <1>e, <1>5
     DEF SendRead, Moves, Fits, Relying, Writing, store, Begin
<1>6. CASE IsRoomEmptyKeys(r)
  BY <1>0, <1>a, <1>b, <1>c, <1>d, <1>e, <1>6
     DEF IsRoomEmptyKeys, Moves, Fits, Relying, Writing, store
<1>7. CASE IsRoomEmptyNext(r)
  <2>1. /\ req[r].pc = "check" /\ req[r].op = "leave"
        /\ UNCHANGED <<now, store, fresh, told, notif, count, races>>
    BY <1>a, <1>7 DEF IsRoomEmptyNext, Fits
  <2>2. PICK u \in req[r].todo :
          IF um[u].left
          THEN req' = [req EXCEPT ![r].pc = IF req[r].todo = {u} THEN "list" ELSE "check",
                                  ![r].todo = @ \ {u}]
          ELSE Done(r)
    BY <1>7 DEF IsRoomEmptyNext
  <2>3. CASE um[u].left
    <3>1. /\ \A s \in Req : s # r => req'[s] = req[s]
          /\ req'[r].pc = (IF req[r].todo = {u} THEN "list" ELSE "check")
          /\ req'[r].todo = req[r].todo \ {u} /\ req'[r].op = "leave"
      BY <1>0, <2>1, <2>2, <2>3 DEF Requests
    <3>2. Fits(req'[r])
      BY <3>1 DEF Fits
    <3>3. QED
      BY <2>1, <2>3, <3>1, <3>2 DEF Moves, Relying, Writing
  <2>4. CASE ~um[u].left
    BY <1>0, <1>a, <2>1, <2>2, <2>4 DEF Moves, Relying, Writing
  <2>5. QED
    BY <2>3, <2>4
<1>8. CASE DeleteRoomList(r)
  <2>1. /\ req[r].pc = "list" /\ req[r].op \in {"leave", "cleanup"}
        /\ UNCHANGED <<now, store, fresh, told, notif, count, races>>
    BY <1>a, <1>8 DEF DeleteRoomList, Fits
  <2>2. CASE keys = {}
    BY <1>0, <1>a, <1>8, <2>1, <2>2 DEF DeleteRoomList, Moves, Relying, Writing
  <2>3. CASE keys # {}
    <3>1. /\ \A s \in Req : s # r => req'[s] = req[s]
          /\ req'[r].pc = "del" /\ req'[r].op = req[r].op
      BY <1>0, <1>8, <2>3 DEF DeleteRoomList, Requests
    <3>2. Fits(req'[r])
      BY <2>1, <3>1 DEF Fits
    <3>3. QED
      BY <2>1, <3>1, <3>2 DEF Moves, Relying, Writing
  <2>4. QED
    BY <2>2, <2>3
<1>9. CASE HandleExpiry(r)
  BY <1>0, <1>a, <1>b, <1>c, <1>d, <1>e, <1>9
     DEF HandleExpiry, Moves, Fits, Relying, Writing, store
<1>10. CASE Fail(r)
  BY <1>0, <1>a, <1>b, <1>c, <1>d, <1>e, <1>10
     DEF Fail, Moves, Fits, Relying, Writing, store
<1>11. ASSUME NEW u \in Users, JoinRead(r, u)
      PROVE  Moves(r)
  BY <1>0, <1>a, <1>b, <1>c, <1>d, <1>e, <1>11
     DEF JoinRead, Moves, Fits, Relying, Writing, store, Begin
<1>12. ASSUME NEW u \in Users, LeaveRead(r, u)
      PROVE  Moves(r)
  BY <1>0, <1>a, <1>b, <1>c, <1>d, <1>e, <1>12
     DEF LeaveRead, Moves, Fits, Relying, Writing, store, Begin
<1>13. QED
  BY <1>1, <1>2, <1>3, <1>4, <1>5, <1>6, <1>7, <1>8, <1>9, <1>10, <1>11, <1>12 DEF Reads

-----------------------------------------------------------------------------
(* Round trips that write keys.                                            *)

\* A request of a room that is open or was: nobody is creating it, and it has not been closed
\* without a race.
LEMMA WriteFrame ==
  ASSUME IInv, KInv, NEW r \in Req, req[r].pc \in Writing, req[r].op # "create",
         req'[r].op # "create", \A s \in Req : s # r => req'[s] = req[s],
         told' = told, ttl'["meta"] = ttl["meta"], races \subseteq races'
  PROVE  /\ Unborn' /\ Creating' /\ CreatingNumbers' /\ ClosedClean'
         /\ Undisturbed' => Undisturbed
<1>1. told # {} /\ \A s \in Req : req[s].op # "create"
  BY Alone DEF KInv, Unborn, Writing, Relying
<1>2. \A s \in Req : req'[s].op # "create"
  BY <1>1
<1>3. Unborn' /\ Creating' /\ CreatingNumbers'
  BY <1>1, <1>2 DEF Unborn, Creating, CreatingNumbers
<1>4. ClosedClean'
  BY <1>1 DEF KInv, ClosedClean, Exists, Without
<1>5. Undisturbed' => Undisturbed
  BY DEF Undisturbed, Open, Exists, Without
<1>6. QED
  BY <1>3, <1>4, <1>5

\* A request of the creation: the room is not open yet.
LEMMA CreateFrame ==
  ASSUME told' = {}
  PROVE  Together' /\ Numbered' /\ Checked' /\ LastLeaves' /\ ClosedClean'
BY DEF Together, Numbered, Checked, LastLeaves, ClosedClean, Undisturbed, Open

\* A request that changes neither the users nor the caps.
LEMMA CapsFrame ==
  ASSUME KInv, UNCHANGED <<users, meta>>, races \subseteq races',
         \A s \in Req : req'[s].pc \in {"hlen", "enter"} => req'[s] = req[s]
  PROVE  Caps'
BY DEF KInv, Caps, Without, At

LEMMA JoinEnterStep == ASSUME IInv, KInv, NEW r \in Req, JoinEnter(r) PROVE KInv'
<1> DEFINE u == req[r].u
<1>1. /\ req[r].pc = "enter" /\ req[r].op = "join" /\ u \in Users /\ u \in Key
      /\ \A s \in Req : s # r => req'[s] = req[s]
      /\ req'[r].pc = "incr" /\ req'[r].op = "join" /\ req'[r].u = u /\ req'[r].exp = req[r].exp
      /\ UNCHANGED <<now, meta, seq, epoch, events, told, notif>>
      /\ races' = races \cup EnterRace
      /\ users' = users \cup {u} /\ keys' = keys \cup {u}
  BY Known, KeyNames DEF JoinEnter, At, Go, KInv, OpsFit, Fits, Requests
<1>2. /\ um' \in [Users -> [joinEid : Nat, left : BOOLEAN]]
      /\ um'[u].joinEid = 0 /\ ~um'[u].left
      /\ \A v \in Users : v # u => um'[v] = um[v]
  BY <1>1, Known DEF JoinEnter, NoUserMeta
<1>3. ttl' = EnterTTL(u, req[r].exp) /\ ttl'["meta"] = ttl["meta"]
  BY <1>1, Known, KeyNames DEF JoinEnter, EnterTTL
<1>4. /\ Unborn' /\ Creating' /\ CreatingNumbers' /\ ClosedClean'
      /\ Undisturbed' => Undisturbed
  BY <1>1, <1>3, WriteFrame DEF Writing, Relying
<1>5. ASSUME Undisturbed
      PROVE  /\ ttl'[u] = meta.exp /\ meta.exp # Absent
             /\ \A k \in Key : k # u => ttl'[k] = ttl[k]
  <2>1. req[r].exp = meta.exp /\ Exists("users") /\ Exists("keys")
    BY <1>1, <1>5, KeyNames DEF KInv, Together, Relying
  <2>2. meta.exp > now /\ meta.exp \in Nat
    BY <1>5, OpenIsAhead, Known DEF Undisturbed
  <2>3. QED
    BY <1>1, <1>3, <2>1, <2>2, Known, KeyNames DEF EnterTTL, Touch, Until, Absent
<1>6. OpsFit'
  BY <1>1 DEF KInv, OpsFit, Fits
<1>7. Unborn'
  BY <1>4
<1>8. Creating'
  BY <1>4
<1>9. CreatingNumbers'
  BY <1>4
<1>10. Together'
  <2>1. SUFFICES ASSUME Undisturbed'
                 PROVE  /\ \A k \in Key : ttl'[k] # Absent => ttl'[k] = meta.exp /\ k \in keys'
                        /\ \A k \in RoomKeys \cup told : ttl'[k] # Absent
                        /\ \A s \in Req :
                             /\ req'[s].op = "join"
                                /\ req'[s].pc \in {"incr", "append", "joineid", "getroom"} =>
                                  ttl'[req'[s].u] # Absent
                             /\ req'[s].pc = "leftat" => ttl'[req'[s].u] # Absent
    BY <1>1, <1>4 DEF KInv, Together, Relying, Exists
  <2>2. Undisturbed /\ RoomKeys \cup told \subseteq Key /\ \A s \in Req : req[s].u \in Key
    BY <1>4, <2>1, KeyNames, Known DEF Requests
  <2>3. \A k \in Key : ttl[k] # Absent => ttl'[k] = meta.exp
    BY <1>5, <2>2 DEF KInv, Together, Exists
  <2>4. \A k \in Key : ttl'[k] # Absent => ttl'[k] = meta.exp /\ k \in keys'
    BY <1>1, <1>5, <2>2 DEF KInv, Together, Exists
  <2>5. \A k \in RoomKeys \cup told : ttl'[k] # Absent
    BY <1>5, <2>2, <2>3 DEF KInv, Together, Exists
  <2>6. \A s \in Req :
          /\ req'[s].op = "join" /\ req'[s].pc \in {"incr", "append", "joineid", "getroom"} =>
               ttl'[req'[s].u] # Absent
          /\ req'[s].pc = "leftat" => ttl'[req'[s].u] # Absent
    BY <1>1, <1>5, <2>2, <2>3 DEF KInv, Together, Exists
  <2>7. QED
    BY <2>4, <2>5, <2>6
<1>11. Numbered'
  <2>1. SUFFICES ASSUME Undisturbed'
                 PROVE  Numbered'
    BY DEF Numbered
  <2>2. /\ epoch = 1
        /\ \A e \in events : e[1] <= seq
        /\ \A v \in users : um[v].joinEid <= seq
        /\ \A s \in Req : req[s].pc \in {"append", "joineid"} => req[s].ev[1] <= seq
        /\ \A s, t \in Req : s # t /\ At(s, "append") /\ At(t, "append") => req[s].ev # req[t].ev
        /\ \A s \in Req : At(s, "append") => req[s].ev \notin events
    BY <1>4, <2>1 DEF KInv, Numbered
  <2>3. \A s \in Req : req'[s].pc \in {"append", "joineid"} => req'[s] = req[s]
    BY <1>1
  <2>4. \A s \in Req : At(s, "append")' => At(s, "append") /\ req'[s] = req[s]
    BY <2>3 DEF At
  <2>5. \A v \in users' : um'[v].joinEid <= seq'
    <3>1. users \subseteq Users /\ seq \in Nat
      BY Known
    <3>2. QED
      BY <1>1, <1>2, <2>2, <3>1
  <2>6. \A s \in Req : req'[s].pc \in {"append", "joineid"} => req'[s].ev[1] <= seq'
    BY <1>1, <2>2, <2>3
  <2>7. /\ \A s, t \in Req :
             s # t /\ At(s, "append")' /\ At(t, "append")' => req'[s].ev # req'[t].ev
        /\ \A s \in Req : At(s, "append")' => req'[s].ev \notin events'
    BY <1>1, <2>2, <2>4
  <2>8. QED
    BY <1>1, <2>2, <2>5, <2>6, <2>7 DEF Numbered
<1>12. Caps'
  <2>1. IsFiniteSet(users) /\ Cardinality(users) \in Nat
    BY Known, RoomAssumption, FS_Subset, FS_CardinalityType
  <2>2. Cardinality(users') \in Nat /\ Cardinality(users') <= Cardinality(users) + 1
    <3>1. Cardinality(users \cup {u}) =
            IF u \in users THEN Cardinality(users) ELSE Cardinality(users) + 1
      BY <2>1, FS_AddElement
    <3>2. QED
      BY <1>1, <2>1, <3>1
  <2>3. req[r].maxP \in Nat /\ meta.maxP \in Nat /\ req[r].maxP <= meta.maxP
    BY <1>1, Known DEF KInv, Caps, Requests
  <2>4. \A s \in Req : req'[s].pc \in {"hlen", "enter"} => req'[s] = req[s] /\ s # r
    BY <1>1
  <2>5. ASSUME Without({"join"})'
        PROVE  /\ Cardinality(users') <= meta'.maxP
               /\ \A s \in Req : req'[s].pc # "enter"
    <3>1. Without({"join"})
      BY <1>1, <2>5 DEF Without
    <3>2. Cardinality(users) < req[r].maxP
      BY <1>1, <3>1 DEF KInv, Caps, At
    <3>3. \A s \in Req : req'[s].pc # "enter"
      BY <1>1, <2>4, <3>1 DEF KInv, Caps, At
    <3>4. QED
      BY <1>1, <2>1, <2>2, <2>3, <3>2, <3>3
  <2>6. \A s \in Req : req'[s].pc \in {"hlen", "enter"} => req'[s].maxP <= meta'.maxP
    BY <1>1, <2>4 DEF KInv, Caps
  <2>7. QED
    BY <2>5, <2>6 DEF Caps, At
<1>13. Checked'
  <2>1. SUFFICES ASSUME Undisturbed', NEW s \in Req
                 PROVE  /\ req'[s].pc = "check" => req'[s].todo \subseteq users'
                        /\ Without({"enter"})' =>
                             req'[s].pc \notin {"check", "list", "del"}
    BY DEF Checked
  <2>2. Undisturbed
    BY <1>4, <2>1
  <2>3. req'[s].pc = "check" => req'[s].todo \subseteq users'
    BY <1>1, <2>2 DEF KInv, Checked
  <2>4. ASSUME req'[s].pc \in {"check", "list", "del"}
        PROVE  "enter" \in races'
    <3>1. s # r /\ req[s].pc \in {"check", "list", "del"}
      BY <1>1, <2>4
    <3>2. req[s].op = "leave"
      BY <2>2, <3>1 DEF KInv, OpsFit, Fits, Together
    <3>3. QED
      BY <1>1, <3>1, <3>2 DEF EnterRace
  <2>5. QED
    BY <2>3, <2>4 DEF Without
<1>14. LastLeaves'
  BY <1>1, <1>2 DEF LastLeaves
<1>15. ClosedClean'
  BY <1>4
<1>16. QED
  BY <1>6, <1>7, <1>8, <1>9, <1>10, <1>11, <1>12, <1>13, <1>14, <1>15 DEF KInv


LEMMA SetUserLeftStep == ASSUME IInv, KInv, NEW r \in Req, SetUserLeft(r) PROVE KInv'
<1> DEFINE u == req[r].u
<1>1. /\ req[r].pc = "leftat" /\ req[r].op = "leave" /\ u \in Users /\ u \in Key
      /\ \A s \in Req : s # r => req'[s] = req[s]
      /\ req'[r].pc = "incr" /\ req'[r].op = "leave" /\ req'[r].exp = req[r].exp
      /\ UNCHANGED <<now, meta, seq, epoch, events, told, notif, users, keys, races>>
  BY Known, KeyNames DEF SetUserLeft, At, Go, KInv, OpsFit, Fits, Requests
<1>2. /\ \A v \in Users : um'[v].joinEid = um[v].joinEid /\ (um[v].left => um'[v].left)
      /\ um' \in [Users -> [joinEid : Nat, left : BOOLEAN]]
  BY <1>1, Known DEF SetUserLeft
<1>3. ttl'["meta"] = ttl["meta"] /\ ttl' = [ttl EXCEPT ![u] = Touch(u)]
  BY <1>1, Known, KeyNames DEF SetUserLeft
<1>4. /\ Unborn' /\ Creating' /\ CreatingNumbers' /\ ClosedClean'
      /\ Undisturbed' => Undisturbed
  BY <1>1, <1>3, WriteFrame DEF Writing, Relying
<1>5. ASSUME Undisturbed
      PROVE  ttl' = ttl
  BY <1>1, <1>3, <1>5, Known DEF KInv, Together, Touch
<1>6. OpsFit'
  BY <1>1 DEF KInv, OpsFit, Fits
<1>7. Unborn'
  BY <1>4
<1>8. Creating'
  BY <1>4
<1>9. CreatingNumbers'
  BY <1>4
<1>10. Together'
  BY <1>1, <1>4, <1>5 DEF KInv, Together, Undisturbed, Open, Without, Exists, Relying
<1>11. Numbered'
  <2>1. SUFFICES ASSUME Undisturbed, NEW v \in users
                 PROVE  um'[v].joinEid <= seq
    BY <1>1, <1>4 DEF KInv, Numbered, At
  <2>2. QED
    BY <1>2, <2>1, Known DEF KInv, Numbered
<1>12. Caps'
  BY <1>1, CapsFrame
<1>13. Checked'
  BY <1>1, <1>4, <1>5, <1>2, Known DEF KInv, Checked, Undisturbed, Open, Without, Exists
<1>14. LastLeaves'
  BY <1>1 DEF LastLeaves
<1>15. ClosedClean'
  BY <1>4
<1>16. QED
  BY <1>6, <1>7, <1>8, <1>9, <1>10, <1>11, <1>12, <1>13, <1>14, <1>15 DEF KInv


LEMMA SetJoinEidStep == ASSUME IInv, KInv, NEW r \in Req, SetJoinEid(r) PROVE KInv'
<1> DEFINE u == req[r].u
<1>1. /\ req[r].pc = "joineid" /\ req[r].op \in {"create", "join"} /\ u \in Users /\ u \in Key
      /\ \A s \in Req : s # r => req'[s] = req[s]
      /\ req'[r].pc = (IF req[r].op = "create" THEN "ttl_list" ELSE "getroom")
      /\ req'[r].op = req[r].op /\ req'[r].u = u
      /\ UNCHANGED <<now, meta, seq, epoch, events, told, notif, users, keys, races>>
      /\ req[r].ev[1] \in Nat
  BY Known, KeyNames DEF SetJoinEid, At, Go, IInv, JoinersWereInvited, Requests
<1>2. /\ \A v \in Users : um'[v].left = um[v].left
      /\ um'[u].joinEid = req[r].ev[1]
      /\ \A v \in Users : v # u => um'[v] = um[v]
  BY <1>1, Known DEF SetJoinEid
<1>3. ttl'["meta"] = ttl["meta"] /\ ttl' = [ttl EXCEPT ![u] = Touch(u)]
  BY <1>1, Known, KeyNames DEF SetJoinEid
<1>4. CASE req[r].op = "create"
  <2>1. u = Creator /\ told' = {} /\ ttl[Creator] = NoTTL /\ epoch > 0
        /\ \A s \in Req : s # r => req[s].op # "create"
    BY <1>1, <1>4, Alone DEF KInv, Creating
  <2>2. ttl' = ttl
    BY <1>3, <2>1, Known DEF Touch
  <2>3. Together' /\ Numbered' /\ Checked' /\ LastLeaves' /\ ClosedClean'
    BY <2>1, CreateFrame
  <2>4. OpsFit'
    BY <1>1, <1>4 DEF KInv, OpsFit, Fits
  <2>5. Unborn'
    BY <1>1, <1>2, <1>4, <2>1, <2>2 DEF KInv, Unborn, Exists
  <2>6. Creating'
    BY <1>1, <1>2, <1>4, <2>1, <2>2, KeyNames DEF KInv, Creating, Exists
  <2>7. CreatingNumbers'
    BY <1>1, <1>2, <1>4, <2>1, <2>2, KeyNames DEF KInv, CreatingNumbers, Exists
  <2>8. Together'
    BY <2>3
  <2>9. Numbered'
    BY <2>3
  <2>10. Caps'
    BY <1>1, CapsFrame
  <2>11. Checked'
    BY <2>3
  <2>12. LastLeaves'
    BY <2>3
  <2>13. ClosedClean'
    BY <2>3
  <2>14. QED
    BY <2>4, <2>5, <2>6, <2>7, <2>8, <2>9, <2>10, <2>11, <2>12, <2>13 DEF KInv
<1>5. CASE req[r].op = "join"
  <2>1. /\ Unborn' /\ Creating' /\ CreatingNumbers' /\ ClosedClean'
        /\ Undisturbed' => Undisturbed
    BY <1>1, <1>3, <1>5, WriteFrame DEF Writing, Relying
  <2>2. ASSUME Undisturbed
        PROVE  ttl' = ttl
    BY <1>1, <1>3, <1>5, <2>2, Known DEF KInv, Together, Touch
  <2>3. OpsFit'
    BY <1>1, <1>5 DEF KInv, OpsFit, Fits
  <2>4. Unborn'
    BY <2>1
  <2>5. Creating'
    BY <2>1
  <2>6. CreatingNumbers'
    BY <2>1
  <2>7. Together'
    BY <1>1, <1>2, <1>5, <2>1, <2>2
       DEF KInv, Together, Undisturbed, Open, Without, Exists, Relying
  <2>8. Numbered'
    <3>1. SUFFICES ASSUME Undisturbed, NEW v \in users
                   PROVE  um'[v].joinEid <= seq
      BY <1>1, <2>1 DEF KInv, Numbered, At
    <3>2. QED
      BY <1>1, <1>2, <3>1, Known DEF KInv, Numbered
  <2>9. Caps'
    BY <1>1, CapsFrame
  <2>10. Checked'
    BY <1>1, <1>2, <1>5, <2>1, <2>2, Known DEF KInv, Checked, Undisturbed, Open, Without, Exists
  <2>11. LastLeaves'
    BY <1>1, <1>2, <1>5, <2>1, <2>2, Known
       DEF KInv, LastLeaves, Undisturbed, Open, Without, Exists
  <2>12. ClosedClean'
    BY <2>1
  <2>13. QED
    BY <2>3, <2>4, <2>5, <2>6, <2>7, <2>8, <2>9, <2>10, <2>11, <2>12 DEF KInv
<1>6. QED
  BY <1>1, <1>4, <1>5


LEMMA AppendIncrStep == ASSUME IInv, KInv, NEW r \in Req, AppendIncr(r) PROVE KInv'
<1>1. /\ req[r].pc = "incr" /\ req[r].op \in {"create", "join", "send", "leave"}
      /\ \A s \in Req : s # r => req'[s] = req[s]
      /\ req'[r].pc = "append" /\ req'[r].op = req[r].op /\ req'[r].u = req[r].u
      /\ req'[r].exp = req[r].exp /\ req'[r].ev = <<seq + 1, NextEpoch>>
      /\ UNCHANGED <<now, meta, users, um, events, told, notif, keys, races>>
      /\ seq' = seq + 1 /\ epoch' = NextEpoch
  BY Known DEF AppendIncr, At, KInv, OpsFit, Fits, Requests
<1>2. /\ ttl' = [ttl EXCEPT !["event_seq"] = Touch("event_seq")]
      /\ "event_seq" \in Key /\ ttl'["meta"] = ttl["meta"]
  BY Known, KeyNames DEF AppendIncr
<1>3. \A s \in Req : req[s].ev \in Nat \X Nat /\ req[s].ev[1] \in Nat
  BY Known DEF Requests
<1>4. CASE req[r].op = "create"
  <2>1. /\ told' = {} /\ epoch > 0 /\ epoch \in Nat /\ epoch' > 0
        /\ \A s \in Req : s # r => req[s].op # "create"
    BY <1>1, <1>4, Alone, Known DEF NextEpoch
  <2>2. Together' /\ Numbered' /\ Checked' /\ LastLeaves' /\ ClosedClean'
    BY <2>1, CreateFrame
  <2>3. Exists("event_seq") => ttl' = ttl /\ epoch' = epoch
    BY <1>1, <1>2, Known DEF Touch, NextEpoch
  <2>4. OpsFit'
    BY <1>1, <1>4 DEF KInv, OpsFit, Fits
  <2>5. Unborn'
    BY <1>1, <1>2, <1>4, <2>1, <2>3, KeyNames, Known DEF KInv, Unborn, Exists
  <2>6. Creating'
    BY <1>1, <1>2, <1>4, <2>1, <2>3, KeyNames, Known DEF KInv, Creating, Exists, Touch
  <2>7. CreatingNumbers'
    <3>1. SUFFICES ASSUME meta.exp > now
                   PROVE  /\ epoch' = 1 /\ ttl'["event_seq"] # Absent
                          /\ \A e \in events : e[1] <= seq + 1
                          /\ um[Creator].joinEid <= seq + 1
                          /\ <<seq + 1, NextEpoch>>[1] <= seq + 1
                          /\ <<seq + 1, NextEpoch>> \notin events
      BY <1>1, <1>4, <2>1 DEF CreatingNumbers, Exists
    <3>2. /\ epoch = 1 /\ Exists("event_seq") /\ \A e \in events : e[1] <= seq
          /\ um[Creator].joinEid <= seq
      BY <1>4, <3>1 DEF KInv, CreatingNumbers
    <3>3. /\ seq \in Nat /\ \A e \in events : e[1] \in Nat
          /\ um[Creator].joinEid \in Nat
      BY Known, KeyNames
    <3>4. QED
      BY <2>3, <3>2, <3>3 DEF Exists
  <2>8. Together'
    BY <2>2
  <2>9. Numbered'
    BY <2>2
  <2>10. Caps'
    BY <1>1, CapsFrame
  <2>11. Checked'
    BY <2>2
  <2>12. LastLeaves'
    BY <2>2
  <2>13. ClosedClean'
    BY <2>2
  <2>14. QED
    BY <2>4, <2>5, <2>6, <2>7, <2>8, <2>9, <2>10, <2>11, <2>12, <2>13 DEF KInv
<1>5. CASE req[r].op # "create"
  <2>1. /\ Unborn' /\ Creating' /\ CreatingNumbers' /\ ClosedClean'
        /\ Undisturbed' => Undisturbed
    BY <1>1, <1>2, <1>5, WriteFrame DEF Writing, Relying
  <2>2. ASSUME Undisturbed
        PROVE  ttl' = ttl /\ epoch' = epoch /\ epoch = 1
    BY <1>1, <1>2, <2>2, Known, KeyNames DEF KInv, Together, Numbered, Touch, NextEpoch, Exists
  <2>3. OpsFit'
    BY <1>1, <1>5 DEF KInv, OpsFit, Fits
  <2>4. Unborn'
    BY <2>1
  <2>5. Creating'
    BY <2>1
  <2>6. CreatingNumbers'
    BY <2>1
  <2>7. Together'
    BY <1>1, <1>5, <2>1, <2>2 DEF KInv, Together, Undisturbed, Open, Without, Exists, Relying
  <2>8. Numbered'
    <3>1. SUFFICES ASSUME Undisturbed
                   PROVE  /\ \A e \in events : e[1] <= seq + 1
                          /\ \A v \in users : um[v].joinEid <= seq + 1
                          /\ \A s \in Req : req'[s].pc \in {"append", "joineid"} =>
                                              req'[s].ev[1] <= seq + 1
                          /\ \A s \in Req : s # r /\ req[s].pc = "append" =>
                                              req[s].ev # <<seq + 1, NextEpoch>>
                          /\ <<seq + 1, NextEpoch>> \notin events
      BY <1>1, <2>1, <2>2 DEF KInv, Numbered, At
    <3>2. /\ seq \in Nat /\ \A e \in events : e[1] \in Nat /\ e[1] <= seq
          /\ \A v \in users : um[v].joinEid \in Nat /\ um[v].joinEid <= seq
          /\ \A s \in Req : req[s].pc \in {"append", "joineid"} => req[s].ev[1] <= seq
      BY <3>1, Known DEF KInv, Numbered
    <3>3. QED
      BY <1>1, <1>3, <3>2
  <2>9. Caps'
    BY <1>1, CapsFrame
  <2>10. Checked'
    BY <1>1, <1>5, <2>1, <2>2, Known DEF KInv, Checked, Undisturbed, Open, Without, Exists
  <2>11. LastLeaves'
    BY <1>1, <1>5, <2>1, <2>2, Known DEF KInv, LastLeaves, Undisturbed, Open, Without, Exists
  <2>12. ClosedClean'
    BY <2>1
  <2>13. QED
    BY <2>3, <2>4, <2>5, <2>6, <2>7, <2>8, <2>9, <2>10, <2>11, <2>12 DEF KInv
<1>6. QED
  BY <1>4, <1>5


LEMMA AppendEventStep == ASSUME IInv, KInv, NEW r \in Req, AppendEvent(r) PROVE KInv'
<1> DEFINE exp == req[r].exp
<1>1. /\ req[r].pc = "append" /\ req[r].op \in {"create", "join", "send", "leave"}
      /\ UNCHANGED <<now, meta, users, um, epoch, keys, told, notif, races>>
      /\ exp \in Nat /\ exp # Absent /\ req[r].ev \in Nat \X Nat
  BY Known DEF AppendEvent, At, KInv, OpsFit, Fits, Requests, Absent
<1>2. /\ \A s \in Req : s # r => req'[s] = req[s]
      /\ req[r].op = "create" => /\ req'[r].pc = "joineid" /\ req'[r].op = "create"
                                 /\ req'[r].u = req[r].u /\ req'[r].ev = req[r].ev
      /\ req[r].op = "join" => /\ req'[r].pc = "joineid" /\ req'[r].op = "join"
                               /\ req'[r].u = req[r].u /\ req'[r].ev = req[r].ev
      /\ req[r].op = "leave" => req'[r].pc = "hkeys" /\ req'[r].op = "leave"
      /\ req[r].op = "send" => req'[r].pc = "idle" /\ req'[r].op = "none"
  BY <1>1, Known DEF AppendEvent, Go, Done, Idle, Requests
<1>3. /\ \A k \in Key : k \notin {"events", "event_seq"} => ttl'[k] = ttl[k]
      /\ ttl'["events"] = Until(exp)
      /\ ttl'["event_seq"] = IF Exists("event_seq") THEN Until(exp) ELSE Absent
      /\ "meta" \in Key /\ "events" \in Key /\ "event_seq" \in Key
  BY Known, KeyNames DEF AppendEvent, AppendTTL
<1>4. CASE req[r].op = "create"
  <2>1. /\ told' = {} /\ epoch > 0 /\ epoch \in Nat /\ exp = meta.exp
        /\ \A s \in Req : s # r => req[s].op # "create"
    BY <1>1, <1>4, Alone, Known
  <2>2. Together' /\ Numbered' /\ Checked' /\ LastLeaves' /\ ClosedClean'
    BY <2>1, CreateFrame
  <2>3. OpsFit'
    BY <1>2, <1>4 DEF KInv, OpsFit, Fits
  <2>4. Unborn'
    <3>1. \A k \in Users \cup {"meta"} : ttl'[k] = ttl[k]
      BY <1>3, KeyNames
    <3>2. /\ notif = 0 /\ \A k \in Users \cup {"meta"} : ttl[k] \in {Absent, NoTTL}
          /\ Exists("meta") /\ \A s \in Req : s # r => req[s].pc = "idle"
      BY <1>4, <2>1, Alone DEF KInv, Unborn
    <3>3. QED
      BY <1>1, <1>2, <1>4, <2>1, <3>1, <3>2 DEF Unborn, Exists
  <2>5. Creating'
    <3>1. \A s \in Req : req'[s].op = "create" => s = r
      BY <1>2, <2>1
    <3>2. /\ req[r].u = Creator /\ users = {Creator} /\ ~um[Creator].left /\ keys = Registry
          /\ \A k \in {"meta", "users", "keys", Creator} : ttl[k] = NoTTL
          /\ ttl["event_seq"] \in {Absent, NoTTL, meta.exp}
          /\ \A k \in Key \ Registry : ttl[k] = Absent
      BY <1>4 DEF KInv, Creating, Exists
    <3>3. /\ \A k \in {"meta", "users", "keys", Creator} \cup (Key \ Registry) : ttl'[k] = ttl[k]
      BY <1>3, KeyNames
    <3>4. \A k \in {"events", "event_seq"} : ttl'[k] \in {Absent, NoTTL, meta.exp}
      BY <1>3, <2>1 DEF Until
    <3>5. QED
      BY <1>1, <1>2, <1>4, <3>1, <3>2, <3>3, <3>4 DEF Creating, Exists
  <2>6. CreatingNumbers'
    <3>1. SUFFICES ASSUME meta.exp > now
                   PROVE  /\ epoch = 1 /\ ttl'["event_seq"] # Absent /\ ttl'["events"] # Absent
                          /\ \A e \in events' : e[1] <= seq'
                          /\ um[Creator].joinEid <= seq'
                          /\ req[r].ev[1] <= seq'
      BY <1>1, <1>2, <1>4, <2>1 DEF CreatingNumbers, Exists
    <3>2. /\ epoch = 1 /\ Exists("event_seq") /\ \A e \in events : e[1] <= seq
          /\ um[Creator].joinEid <= seq /\ req[r].ev[1] <= seq
      BY <1>1, <1>4, <3>1 DEF KInv, CreatingNumbers
    <3>3. seq' = seq /\ events' \subseteq events \cup {req[r].ev}
      BY <2>1, <3>1, TrimsSubset DEF AppendEvent
    <3>4. QED
      BY <1>1, <1>3, <2>1, <3>1, <3>2, <3>3 DEF Until
  <2>7. Together'
    BY <2>2
  <2>8. Numbered'
    BY <2>2
  <2>9. Caps'
    BY <1>1, <1>2, CapsFrame
  <2>10. Checked'
    BY <2>2
  <2>11. LastLeaves'
    BY <2>2
  <2>12. ClosedClean'
    BY <2>2
  <2>13. QED
    BY <2>3, <2>4, <2>5, <2>6, <2>7, <2>8, <2>9, <2>10, <2>11, <2>12 DEF KInv
<1>5. CASE req[r].op # "create"
  <2>1. /\ Unborn' /\ Creating' /\ CreatingNumbers' /\ ClosedClean'
        /\ Undisturbed' => Undisturbed
    BY <1>1, <1>2, <1>3, <1>5, WriteFrame DEF Writing, Relying
  <2>2. ASSUME Undisturbed
        PROVE  /\ exp = meta.exp /\ exp > now /\ ttl'["events"] = meta.exp
               /\ ttl'["event_seq"] = meta.exp
               /\ seq' = seq /\ events' \subseteq events \cup {req[r].ev}
    <3>1. exp = meta.exp /\ exp > now /\ Exists("event_seq")
      BY <1>1, <1>5, <2>2, OpenIsAhead, KeyNames DEF KInv, Together, Relying, Undisturbed
    <3>2. QED
      BY <1>3, <3>1, TrimsSubset DEF AppendEvent, Until
  <2>3. OpsFit'
    BY <1>1, <1>2, <1>5 DEF KInv, OpsFit, Fits
  <2>4. Unborn'
    BY <2>1
  <2>5. Creating'
    BY <2>1
  <2>6. CreatingNumbers'
    BY <2>1
  <2>7. Together'
    <3>1. SUFFICES ASSUME Undisturbed
                   PROVE  /\ \A k \in Key : ttl'[k] # Absent => ttl'[k] = meta.exp /\ k \in keys
                          /\ \A k \in RoomKeys \cup told : ttl'[k] # Absent
                          /\ \A s \in Req :
                               /\ req'[s].op = "join" /\ req'[s].pc \in {"incr", "append", "joineid",
                                                                        "getroom"} =>
                                    ttl'[req'[s].u] # Absent
                               /\ req'[s].pc = "leftat" => ttl'[req'[s].u] # Absent
      BY <1>1, <1>2, <1>5, <2>1 DEF KInv, Together, Relying, Exists
    <3>2. /\ RoomKeys \cup told \subseteq Key /\ \A s \in Req : req[s].u \in Key
          /\ "events" \in keys /\ "event_seq" \in keys
      BY <3>1, OpenIsAhead, KeyNames, Known DEF Requests, Undisturbed
    <3>3. /\ \A k \in Key : ttl'[k] # Absent => ttl'[k] = meta.exp /\ k \in keys
          /\ \A k \in Key : ttl[k] # Absent => ttl'[k] # Absent
      BY <1>1, <1>3, <2>2, <3>1, <3>2 DEF KInv, Together, Exists
    <3>4. QED
      BY <1>1, <1>2, <1>5, <3>1, <3>2, <3>3 DEF KInv, Together, Exists
  <2>8. Numbered'
    <3>1. SUFFICES ASSUME Undisturbed
                   PROVE  /\ \A e \in events' : e[1] <= seq
                          /\ \A s \in Req : req'[s].pc \in {"append", "joineid"} =>
                                              req'[s].ev[1] <= seq
                          /\ \A s, t \in Req : s # t /\ req'[s].pc = "append"
                                                 /\ req'[t].pc = "append" =>
                                                 req'[s].ev # req'[t].ev
                          /\ \A s \in Req : req'[s].pc = "append" => req'[s].ev \notin events'
      BY <1>1, <2>1, <2>2 DEF KInv, Numbered, At
    <3>2. req[r].ev[1] <= seq /\ \A e \in events : e[1] <= seq
      BY <1>1, <3>1 DEF KInv, Numbered
    <3>3. \A s \in Req : req'[s].pc = "append" => s # r
      BY <1>1, <1>2, <1>5
    <3>4. \A s \in Req : req'[s].pc = "append" => req'[s].ev \notin events'
      BY <1>1, <1>2, <2>2, <3>1, <3>3 DEF KInv, Numbered, At
    <3>5. \A e \in events' : e[1] <= seq
      BY <2>2, <3>1, <3>2
    <3>6. QED
      BY <1>1, <1>2, <1>5, <3>1, <3>2, <3>3, <3>4, <3>5 DEF KInv, Numbered, At
  <2>9. Caps'
    BY <1>1, <1>2, <1>5, CapsFrame
  <2>10. Checked'
    BY <1>1, <1>2, <1>3, <1>5, <2>1, <2>2, Known
       DEF KInv, Checked, Undisturbed, Open, Without, Exists
  <2>11. LastLeaves'
    BY <1>1, <1>2, <1>3, <1>5, <2>1, <2>2, Known
       DEF KInv, LastLeaves, Undisturbed, Open, Without, Exists
  <2>12. ClosedClean'
    BY <2>1
  <2>13. QED
    BY <2>3, <2>4, <2>5, <2>6, <2>7, <2>8, <2>9, <2>10, <2>11, <2>12 DEF KInv
<1>6. QED
  BY <1>4, <1>5


\* The creation ends: the room opens, or is gone at once.
LEMMA ExpireAllSetStep == ASSUME IInv, KInv, NEW r \in Req, ExpireAllSet(r) PROVE KInv'
<1>1. /\ req[r].pc = "ttl_set" /\ req[r].op = "create"
      /\ told' = told \cup {Creator} /\ UNCHANGED <<now, notif, races>>
  BY DEF ExpireAllSet, At, IInv, CreatedAlone
<1>2. /\ told = {} /\ epoch > 0 /\ req[r].exp = meta.exp /\ notif = 0
      /\ \A s \in Req : s # r => req[s].pc = "idle" /\ req[s].op = "none"
  BY <1>1, Alone DEF KInv, Unborn
<1>3. \A s \in Req : req'[s].pc = "idle" /\ req'[s].op = "none"
  BY <1>1, <1>2, Known DEF ExpireAllSet, Done, Idle
<1>4. /\ req[r].u = Creator /\ users = {Creator} /\ ~um[Creator].left /\ keys = Registry
      /\ \A k \in {"meta", "users", "keys", Creator} : ttl[k] = NoTTL
      /\ \A k \in Key \ Registry : ~Exists(k)
      /\ req[r].todo = Registry
  BY <1>1 DEF KInv, Creating
<1>5. OpsFit' /\ Unborn' /\ Creating' /\ CreatingNumbers' /\ Checked'
  BY <1>1, <1>3 DEF OpsFit, Fits, Unborn, Creating, CreatingNumbers, Checked
<1>6. CASE meta.exp > now
  <2>1. /\ UNCHANGED <<meta, users, um, seq, epoch, events, keys>>
        /\ \A k \in Key : ttl'[k] = IF k \in Registry /\ Exists(k) THEN meta.exp ELSE ttl[k]
    BY <1>2, <1>4, <1>6 DEF ExpireAllSet
  <2>2. /\ epoch = 1 /\ Exists("event_seq") /\ Exists("events")
        /\ \A e \in events : e[1] <= seq
        /\ um[Creator].joinEid <= seq
    BY <1>1, <1>6 DEF KInv, CreatingNumbers
  <2>3. meta.exp \in Nat /\ meta.exp # Absent
    BY Known DEF Absent
  <2>4. /\ \A k \in Key : ttl'[k] # Absent => ttl'[k] = meta.exp /\ k \in Registry
        /\ \A k \in RoomKeys \cup {Creator} : ttl'[k] # Absent
    <3>1. \A k \in Registry : k \in Key /\ Exists(k)
      BY <1>4, <2>2, KeyNames DEF Exists, Absent, NoTTL
    <3>2. \A k \in Registry : ttl'[k] = meta.exp
      BY <2>1, <3>1
    <3>3. \A k \in Key : k \notin Registry => ttl'[k] = Absent
      BY <1>4, <2>1 DEF Exists
    <3>4. QED
      BY <2>3, <3>2, <3>3, KeyNames
  <2>5. Together'
    BY <1>1, <1>2, <1>3, <1>4, <2>1, <2>4 DEF Together, Relying, Exists
  <2>6. Numbered'
    <3>1. \A s \in Req : req'[s].pc \notin {"append", "joineid"}
      BY <1>3
    <3>2. /\ epoch' = 1 /\ \A e \in events' : e[1] <= seq'
          /\ \A v \in users' : um'[v].joinEid <= seq'
      BY <1>4, <2>1, <2>2
    <3>3. QED
      BY <3>1, <3>2 DEF Numbered, At
  <2>7. Caps'
    BY <1>1, <1>3, <2>1, CapsFrame
  <2>8. LastLeaves'
    BY <1>4, <2>1 DEF LastLeaves
  <2>9. ClosedClean'
    BY <2>4, KeyNames DEF ClosedClean, Exists
  <2>10. QED
    BY <1>5, <2>5, <2>6, <2>7, <2>8, <2>9 DEF KInv
<1>7. CASE ~(meta.exp > now)
  <2>1. Drop(Registry)
    BY <1>2, <1>4, <1>7 DEF ExpireAllSet
  <2>2. /\ \A k \in Key : ttl'[k] = Absent
        /\ users' = {} /\ meta' = meta
    BY <1>4, <2>1, KeyNames DEF Drop, Exists
  <2>3. ~Open' /\ Absent # NoTTL
    BY <2>2, KeyNames DEF Open, Exists, Absent, NoTTL
  <2>4. Together' /\ Numbered' /\ LastLeaves'
    BY <2>3 DEF Together, Numbered, LastLeaves, Undisturbed
  <2>5. ClosedClean'
    BY <1>3, <2>2, <2>3 DEF ClosedClean, Writing, Relying
  <2>6. Caps'
    BY <1>3, <2>2, Known, FS_EmptySet DEF Caps, At
  <2>7. QED
    BY <1>5, <2>4, <2>5, <2>6 DEF KInv
<1>8. QED
  BY <1>6, <1>7

LEMMA CreateRoomStep == ASSUME IInv, KInv, NEW r \in Req, CreateRoom(r) PROVE KInv'
<1>1. /\ epoch = 0 /\ told = {} /\ UNCHANGED <<events, told, notif, now, races>>
      /\ \A k \in Key : ttl[k] = Absent
  BY DEF CreateRoom, IInv, NothingBefore, Exists
<1>2. /\ events = {} /\ notif = 0
      /\ \A s \in Req : req[s].pc = "idle" /\ req[s].op = "none"
  BY <1>1, Alone DEF KInv, Unborn, OpsFit, Fits
<1>3. /\ req'[r].op = "create" /\ req'[r].pc = "incr" /\ req'[r].u = Creator
      /\ \A s \in Req : s # r => req'[s].pc = "idle" /\ req'[s].op = "none"
  BY <1>2, Known DEF CreateRoom
<1>4. /\ users' = {Creator} /\ keys' = Registry /\ epoch' = 1 /\ seq' = 0
      /\ um'[Creator] = NoUserMeta /\ meta'.maxP = FreeMaxP
  BY Known, KeyNames DEF CreateRoom
<1>5. /\ \A k \in {"meta", "users", "event_seq", "keys", Creator} : ttl'[k] = NoTTL
      /\ ttl'["events"] = Absent
      /\ \A k \in Key \ Registry : ttl'[k] = Absent
      /\ \A k \in Users : ttl'[k] \in {Absent, NoTTL}
  BY <1>1, KeyNames DEF CreateRoom
<1>6. OpsFit'
  BY <1>3 DEF OpsFit, Fits
<1>7. Unborn'
  BY <1>1, <1>2, <1>3, <1>4, <1>5 DEF Unborn, Exists, Absent, NoTTL
<1>8. Creating'
  BY <1>3, <1>4, <1>5 DEF Creating, Exists, NoUserMeta
<1>9. CreatingNumbers'
  BY <1>1, <1>2, <1>3, <1>4, <1>5 DEF CreatingNumbers, Exists, NoUserMeta, Absent, NoTTL
<1>10. Together' /\ Numbered' /\ Checked' /\ LastLeaves' /\ ClosedClean'
  BY <1>1, CreateFrame
<1>11. Caps'
  <2>1. Cardinality({Creator}) = 1
    BY FS_Singleton
  <2>2. FreeMaxP \in Nat \ {0}
    BY RoomAssumption
  <2>3. QED
    BY <1>3, <1>4, <2>1, <2>2 DEF Caps, At
<1>12. QED
  BY <1>6, <1>7, <1>8, <1>9, <1>10, <1>11 DEF KInv


\* A cap that keeps or loses its users is respected.
LEMMA CapsDropped ==
  ASSUME IInv, KInv, users' \in {{}, users}, meta' = meta, races \subseteq races',
         \A s \in Req : req'[s].pc \in {"hlen", "enter"} => req'[s] = req[s]
  PROVE  Caps'
<1>1. CASE users' = users
  BY <1>1, CapsFrame
<1>2. CASE users' = {}
  <2>1. Cardinality({}) = 0
    BY FS_EmptySet
  <2>2. \A s \in Req : req[s].maxP \in Nat
    BY Known DEF Requests
  <2>3. users \in SUBSET Users /\ IsFiniteSet(users) /\ Cardinality(users) \in Nat
    BY Known, RoomAssumption, FS_Subset, FS_CardinalityType
  <2>4. meta.maxP \in Nat
    BY Known
  <2>5. QED
    BY <1>2, <2>1, <2>2, <2>3, <2>4 DEF KInv, Caps, Without, At
<1>3. QED
  BY <1>1, <1>2

\* The keys of a closed room go away with its meta key, when nobody was writing.
LEMMA Closes ==
  ASSUME IInv, KInv, NEW D, Drop(D), races' = races \cup CloseRace(D), told' = told,
         \A s \in Req : req'[s].pc \in Writing \cup {"ttl_list"} => req'[s] = req[s]
  PROVE  ClosedClean'
<1>1. /\ \A k \in Key : ttl'[k] = Absent \/ ttl'[k] = ttl[k]
      /\ Absent # NoTTL
  BY KeyNames DEF Drop, Exists, Absent, NoTTL
<1>2. SUFFICES ASSUME told # {}, ~Exists("meta")', Without({"boost", "close"})'
               PROVE  /\ \A k \in Key : ttl[k] # NoTTL
                      /\ \A s \in Req : req[s].pc \notin Writing \cup {"ttl_list"}
  BY <1>1 DEF ClosedClean
<1>3. CASE ~Exists("meta")
  BY <1>2, <1>3 DEF KInv, ClosedClean, Without
<1>4. CASE Exists("meta")
  <2>1. "meta" \in D
    BY <1>2, <1>4, KeyNames DEF Drop, Exists
  <2>2. \A s \in Req : req[s].pc \notin Writing
    BY <1>2, <1>4, <2>1 DEF CloseRace, Without
  <2>3. Undisturbed
    BY <1>2, <1>4 DEF Undisturbed, Open, Without
  <2>4. \A s \in Req : req[s].pc # "ttl_list"
    BY <2>3, OpenIsAhead DEF Undisturbed
  <2>5. \A k \in Key : ttl[k] \in {Absent, meta.exp} /\ meta.exp # NoTTL
    BY <2>3, OpenIsAhead, Known DEF KInv, Together, Exists, Undisturbed, NoTTL
  <2>6. QED
    BY <1>1, <2>2, <2>4, <2>5
<1>5. QED
  BY <1>3, <1>4

LEMMA DeleteRoomStep == ASSUME IInv, KInv, NEW r \in Req, DeleteRoom(r) PROVE KInv'
<1> DEFINE D == req[r].todo \cup {"keys"}
<1>1. /\ req[r].pc = "del" /\ req[r].op \in {"leave", "cleanup"}
      /\ Drop(D) /\ races' = races \cup CloseRace(D) /\ UNCHANGED <<now, told, notif>>
  BY DEF DeleteRoom, At, KInv, OpsFit, Fits
<1>2. /\ \A s \in Req : s # r => req'[s] = req[s]
      /\ req'[r].pc = "idle" /\ req'[r].op = "none"
  BY Known DEF DeleteRoom, Done, Idle
<1>3. told # {} /\ \A s \in Req : req[s].op # "create"
  BY <1>1, Alone DEF KInv, Unborn
<1>4. ~Open'
  <2>1. Exists("meta") => "meta" \in D
    BY <1>1, KeyNames DEF IInv, SnapshotsComplete
  <2>2. QED
    BY <1>1, <2>1, KeyNames DEF Open, Exists, Drop
<1>5. OpsFit'
  BY <1>2 DEF KInv, OpsFit, Fits
<1>6. Unborn' /\ Creating' /\ CreatingNumbers'
  BY <1>1, <1>2, <1>3 DEF Unborn, Creating, CreatingNumbers
<1>7. Together' /\ Numbered' /\ Checked' /\ LastLeaves'
  BY <1>4 DEF Together, Numbered, Checked, LastLeaves, Undisturbed
<1>8. Caps'
  BY <1>1, <1>2, CapsDropped DEF Drop
<1>9. ClosedClean'
  BY <1>1, <1>2, Closes DEF Writing, Relying
<1>10. QED
  BY <1>5, <1>6, <1>7, <1>8, <1>9 DEF KInv

-----------------------------------------------------------------------------
(* Boosts, the clock and lost notifications.                               *)

LEMMA BoostStep == ASSUME IInv, KInv, ApplyBoost PROVE KInv'
<1>1. /\ told # {} /\ Exists("meta") /\ Open
      /\ UNCHANGED <<now, users, um, keys, req, told, notif>>
      /\ seq' = seq + 1 /\ epoch' = NextEpoch /\ meta'.exp = meta.exp + BoostTTL
      /\ meta'.maxP = Larger(meta.maxP, BoostMaxP)
      /\ races' = races \cup BoostRace
      /\ events' \subseteq events \cup {<<seq + 1, NextEpoch>>}
  BY TrimsSubset DEF ApplyBoost, BoostedExpiry, Open
<1>2. \A k \in Key : ttl'[k] = IF k \in keys /\ (Exists(k) \/ k \in {"event_seq", "events"})
                               THEN meta.exp + BoostTTL
                               ELSE IF k \in {"event_seq", "events"} THEN Touch(k) ELSE ttl[k]
  BY DEF ApplyBoost, BoostedKeys, BoostedExpiry
<1>3. /\ meta.exp \in Nat /\ meta.maxP \in Nat /\ BoostTTL \in Nat /\ BoostMaxP \in Nat
      /\ seq \in Nat /\ meta'.maxP >= meta.maxP
  BY <1>1, Known, RoomAssumption DEF Larger
<1>4. \A s \in Req : req[s].op # "create"
  BY <1>1, Alone
<1>5. Exists("meta")'
  BY <1>1, <1>2, <1>3, KeyNames DEF Exists, Absent
<1>6. Undisturbed' => Undisturbed /\ \A s \in Req : req[s].pc \notin Relying
  BY <1>1, <1>4 DEF Undisturbed, Without, BoostRace
<1>7. ASSUME Undisturbed
      PROVE  /\ epoch' = epoch /\ epoch = 1
             /\ \A k \in Key : Exists(k) => ttl'[k] = meta'.exp
             /\ \A k \in Key : ~Exists(k) => ttl'[k] = Absent
             /\ meta'.exp # Absent
  <2>1. \A k \in RoomKeys : Exists(k)
    BY <1>7 DEF KInv, Together
  <2>2. epoch = 1 /\ \A k \in Key : Exists(k) => k \in keys
    BY <1>7 DEF KInv, Together, Numbered
  <2>3. QED
    BY <1>1, <1>2, <1>3, <2>1, <2>2, KeyNames DEF NextEpoch, Exists, Absent
<1>8. OpsFit'
  BY <1>1 DEF KInv, OpsFit
<1>9. Unborn'
  BY <1>1 DEF Unborn
<1>10. Creating'
  BY <1>1, <1>4 DEF Creating
<1>11. CreatingNumbers'
  BY <1>1, <1>4 DEF CreatingNumbers
<1>12. Together'
  <2>1. SUFFICES ASSUME Undisturbed', Undisturbed
                 PROVE  Together'
    BY <1>6 DEF Together
  <2>2. RoomKeys \cup told \subseteq Key /\ \A s \in Req : req[s].u \in Key
    BY KeyNames, Known DEF Requests
  <2>3. \A k \in Key : Exists(k)' <=> Exists(k)
    BY <1>7, <2>1 DEF Exists
  <2>4. QED
    BY <1>1, <1>6, <1>7, <2>1, <2>2, <2>3 DEF KInv, Together, Exists
<1>13. Numbered'
  <2>1. SUFFICES ASSUME Undisturbed', Undisturbed
                 PROVE  Numbered'
    BY <1>6 DEF Numbered
  <2>2. /\ \A e \in events : e[1] \in Nat /\ e[1] <= seq
        /\ \A v \in users : um[v].joinEid \in Nat /\ um[v].joinEid <= seq
        /\ \A s \in Req : req[s].ev[1] \in Nat
        /\ \A s \in Req : req[s].pc \in {"append", "joineid"} => req[s].ev[1] <= seq
    BY <2>1, Known DEF KInv, Numbered, Requests
  <2>3. \A s \in Req : req[s].pc # "append"
    BY <1>6, <2>1 DEF Relying
  <2>4. \A e \in events' : e[1] <= seq'
    BY <1>1, <1>3, <2>2
  <2>5. QED
    BY <1>1, <1>3, <1>7, <2>1, <2>2, <2>3, <2>4 DEF Numbered, At
<1>14. Caps'
  <2>1. /\ users \in SUBSET Users /\ IsFiniteSet(users) /\ Cardinality(users) \in Nat
        /\ \A s \in Req : req[s].maxP \in Nat
    BY Known, RoomAssumption, FS_Subset, FS_CardinalityType DEF Requests
  <2>2. meta'.maxP \in Nat
    BY <1>1, <1>3 DEF Larger
  <2>3. QED
    BY <1>1, <1>3, <2>1, <2>2 DEF KInv, Caps, Without, At
<1>15. Checked'
  BY <1>1, <1>6 DEF KInv, Checked, Without
<1>16. LastLeaves'
  BY <1>1, <1>6 DEF KInv, LastLeaves, Without
<1>17. ClosedClean'
  BY <1>5 DEF ClosedClean
<1>18. QED
  BY <1>8, <1>9, <1>10, <1>11, <1>12, <1>13, <1>14, <1>15, <1>16, <1>17 DEF KInv


LEMMA TickStep == ASSUME IInv, KInv, Tick PROVE KInv'
<1>1. /\ UNCHANGED <<req, told, meta, epoch>> /\ now' = now + 1 /\ now \in Nat
      /\ Drop(Due) /\ races' = races \cup CloseRace(Due)
      /\ notif' = notif + Instances * Cardinality(Due \cap (Users \cup {"meta"}))
  BY Known DEF Tick, Drop
<1>2. /\ \A k \in Key : k \in Due <=> ttl[k] \in 1..(now + 1)
      /\ Due \subseteq Key
  BY DEF Due
<1>3. (\A k \in Users \cup {"meta"} : k \notin Due) => notif' = notif
  <2>1. ASSUME \A k \in Users \cup {"meta"} : k \notin Due
        PROVE  Cardinality(Due \cap (Users \cup {"meta"})) = 0
    <3>1. Due \cap (Users \cup {"meta"}) = {}
      BY <2>1
    <3>2. QED
      BY <3>1, FS_EmptySet
  <2>2. QED
    BY <1>1, <2>1, Known, RoomAssumption
<1>4. ASSUME Undisturbed'
      PROVE  /\ Undisturbed /\ UNCHANGED <<ttl, users, um, seq, events, keys, notif>>
             /\ Without({"enter"})' => Without({"enter"})
  <2>1. Exists("meta") /\ "meta" \notin Due /\ "meta" \in Key
    BY <1>1, <1>4, KeyNames DEF Undisturbed, Open, Exists, Drop, Absent
  <2>2. Undisturbed
    BY <1>1, <1>4, <2>1 DEF Undisturbed, Open, Without
  <2>3. ttl["meta"] = meta.exp
    BY <2>2, OpenIsAhead DEF Undisturbed
  <2>4. \A k \in Key : ttl[k] \in {Absent, meta.exp}
    BY <2>2 DEF KInv, Together, Exists
  <2>5. Due = {}
    BY <1>1, <1>2, <2>1, <2>3, <2>4 DEF Absent
  <2>6. UNCHANGED <<ttl, users, um, seq, events, keys>>
    BY <1>1, <2>5, Known DEF Drop
  <2>7. QED
    BY <1>1, <1>3, <2>2, <2>5, <2>6 DEF Without
<1>5. OpsFit'
  BY <1>1 DEF KInv, OpsFit
<1>6. Unborn'
  <2>1. SUFFICES ASSUME told = {}
                 PROVE  Unborn'
    BY <1>1 DEF Unborn
  <2>2. /\ notif = 0 /\ \A k \in Users \cup {"meta"} : ttl[k] \in {Absent, NoTTL}
        /\ \A s \in Req : req[s].op = "create" \/ req[s].pc = "idle"
        /\ IF epoch = 0 THEN events = {} ELSE Exists("meta")
    BY <2>1 DEF KInv, Unborn
  <2>3. \A k \in Users \cup {"meta"} : k \in Key /\ k \notin Due
    <3>1. \A k \in Users \cup {"meta"} : k \in Key
      BY KeyNames
    <3>2. \A k \in Users \cup {"meta"} : ttl[k] \notin 1..(now + 1)
      BY <1>1, <2>2 DEF Absent, NoTTL
    <3>3. QED
      BY <1>2, <3>1, <3>2
  <2>4. notif' = 0
    BY <1>3, <2>2, <2>3
  <2>5. /\ \A k \in Users \cup {"meta"} : ttl'[k] = ttl[k]
        /\ events = {} => events' = {}
    BY <1>1, <2>3 DEF Drop
  <2>6. QED
    BY <1>1, <2>1, <2>2, <2>4, <2>5 DEF Unborn, Exists
<1>7. Creating'
  <2>1. SUFFICES ASSUME NEW r \in Req, req[r].op = "create"
                 PROVE  Creating'
    BY <1>1 DEF Creating
  <2>2. \A k \in {"meta", "users", "keys", Creator} : k \in Key /\ k \notin Due
    BY <1>1, <1>2, <2>1, KeyNames DEF KInv, Creating, NoTTL
  <2>3. /\ \A k \in Key : ttl'[k] = Absent \/ ttl'[k] = ttl[k]
        /\ \A k \in {"meta", "users", "keys", Creator} : ttl'[k] = ttl[k]
        /\ UNCHANGED <<users, keys>> /\ um'[Creator] = um[Creator]
    BY <1>1, <2>2, KeyNames DEF Drop
  <2>4. QED
    BY <1>1, <2>3, KeyNames DEF KInv, Creating, Exists
<1>8. CreatingNumbers'
  <2>1. SUFFICES ASSUME NEW r \in Req, req[r].op = "create", meta.exp > now + 1
                 PROVE  CreatingNumbers'
    BY <1>1 DEF CreatingNumbers
  <2>2. /\ "events" \in Key /\ "event_seq" \in Key /\ Creator \in Key
        /\ "events" \notin Due /\ "event_seq" \notin Due /\ Creator \notin Due
    <3>1. "events" \in Key /\ "event_seq" \in Key /\ Creator \in Key
      BY KeyNames
    <3>2. /\ ttl["events"] \in {Absent, NoTTL, meta.exp}
          /\ ttl["event_seq"] \in {Absent, NoTTL, meta.exp} /\ ttl[Creator] = NoTTL
      BY <2>1 DEF KInv, Creating
    <3>3. \A t \in {Absent, NoTTL, meta.exp} : t \notin 1..(now + 1)
      BY <1>1, <2>1, Known DEF Absent, NoTTL
    <3>4. QED
      BY <1>2, <3>1, <3>2, <3>3
  <2>3. /\ UNCHANGED <<seq, events>> /\ um'[Creator] = um[Creator]
        /\ ttl'["events"] = ttl["events"] /\ ttl'["event_seq"] = ttl["event_seq"]
    BY <1>1, <2>2, KeyNames DEF Drop
  <2>4. meta.exp > now
    BY <1>1, <2>1, Known
  <2>5. QED
    BY <1>1, <2>3, <2>4 DEF KInv, CreatingNumbers, Exists
<1>9. Together'
  BY <1>1, <1>4 DEF KInv, Together, Undisturbed, Open, Without, Exists
<1>10. Numbered'
  BY <1>1, <1>4 DEF KInv, Numbered, Undisturbed, Open, Without, Exists, At
<1>11. Caps'
  BY <1>1, CapsDropped DEF Drop
<1>12. Checked'
  BY <1>1, <1>4 DEF KInv, Checked, Undisturbed, Open, Without, Exists
<1>13. LastLeaves'
  BY <1>1, <1>4 DEF KInv, LastLeaves, Undisturbed, Open, Without, Exists
<1>14. ClosedClean'
  BY <1>1, Closes
<1>15. QED
  BY <1>5, <1>6, <1>7, <1>8, <1>9, <1>10, <1>11, <1>12, <1>13, <1>14 DEF KInv


LEMMA LoseNotificationStep == ASSUME IInv, KInv, LoseNotification PROVE KInv'
<1>1. /\ notif > 0
      /\ UNCHANGED <<now, ttl, meta, users, um, seq, epoch, events, keys, req, told, races>>
  BY DEF LoseNotification, store
<1>2. told # {} /\ ~Undisturbed
  BY <1>1 DEF KInv, Unborn, Together
<1>3. Unborn' /\ Together'
  BY <1>1, <1>2 DEF Unborn, Together, Undisturbed, Open, Without, Exists
<1>4. OpsFit' /\ Creating' /\ CreatingNumbers' /\ Numbered' /\ Caps'
  BY <1>1 DEF KInv, OpsFit, Creating, CreatingNumbers, Numbered, Caps, Undisturbed, Open,
     Without, Exists, At
<1>5. Checked' /\ LastLeaves' /\ ClosedClean'
  BY <1>1 DEF KInv, Checked, LastLeaves, ClosedClean, Undisturbed, Open, Without, Exists
<1>6. QED
  BY <1>3, <1>4, <1>5 DEF KInv

-----------------------------------------------------------------------------
(* The invariant and what follows from it.                                 *)

LEMMA InitKeys == Init => KInv
<1> SUFFICES ASSUME Init
             PROVE  KInv
  OBVIOUS
<1>1. /\ \A r \in Req : req[r].pc = "idle" /\ req[r].op = "none"
      /\ told = {} /\ notif = 0 /\ epoch = 0 /\ events = {} /\ users = {} /\ meta.maxP = 0
      /\ \A k \in Key : ttl[k] = Absent
  BY DEF Init, Idle
<1>2. OpsFit /\ Creating /\ CreatingNumbers
  BY <1>1 DEF OpsFit, Fits, Creating, CreatingNumbers
<1>3. Unborn
  BY <1>1, KeyNames DEF Unborn
<1>4. Together /\ Numbered /\ Checked /\ LastLeaves /\ ClosedClean
  BY <1>1 DEF Together, Numbered, Checked, LastLeaves, ClosedClean, Undisturbed, Open
<1>5. Caps
  BY <1>1, FS_EmptySet DEF Caps, At
<1>6. QED
  BY <1>2, <1>3, <1>4, <1>5 DEF KInv

LEMMA NextKeys == IInv /\ KInv /\ [Next]_vars => KInv'
<1> SUFFICES ASSUME IInv, KInv, [Next]_vars
             PROVE  KInv'
  OBVIOUS
<1>1. ASSUME NEW r \in Req, Step(r)
      PROVE  KInv'
  <2>1. CASE Reads(r)
    <3>1. TypeOK'
      BY <1>1, StepTypes DEF IInv
    <3>2. req' \in [Req -> Requests]
      BY <3>1 DEF TypeOK, Requests
    <3>3. QED
      BY <2>1, <3>2, ReadsMove, MovesKeep
  <2>2. CASE CreateRoom(r) \/ ExpireAllSet(r) \/ JoinEnter(r) \/ SetJoinEid(r) \/ AppendIncr(r)
             \/ AppendEvent(r) \/ SetUserLeft(r) \/ DeleteRoom(r)
    BY <2>2, CreateRoomStep, ExpireAllSetStep, JoinEnterStep, SetJoinEidStep, AppendIncrStep,
       AppendEventStep, SetUserLeftStep, DeleteRoomStep
  <2>3. QED
    BY <1>1, <2>1, <2>2 DEF Step, Reads
<1>2. CASE ApplyBoost \/ Tick \/ LoseNotification
  BY <1>2, BoostStep, TickStep, LoseNotificationStep
<1>3. CASE UNCHANGED vars
  <2>1. UNCHANGED <<now, ttl, meta, users, um, seq, epoch, events, keys, req, told, notif, races>>
    BY <1>3 DEF vars
  <2>2. OpsFit' /\ Unborn' /\ Creating' /\ CreatingNumbers' /\ Together' /\ Numbered' /\ Caps'
    BY <2>1 DEF KInv, OpsFit, Unborn, Creating, CreatingNumbers, Together, Numbered, Caps,
       Undisturbed, Open, Without, Exists, At
  <2>3. Checked' /\ LastLeaves' /\ ClosedClean'
    BY <2>1 DEF KInv, Checked, LastLeaves, ClosedClean, Undisturbed, Open, Without, Exists
  <2>4. QED
    BY <2>2, <2>3 DEF KInv
<1>4. QED
  BY <1>1, <1>2, <1>3 DEF Next

\* In every reachable state: what a creation has written so far, that the keys of an open room are
\* together unless a boost raced, which ids and users there are, and what a leave has checked.
THEOREM KeysInvariance == Spec => [](IInv /\ KInv)
<1>1. Init => IInv /\ KInv
  BY InitInvariant, InitKeys
<1>2. IInv /\ KInv /\ [Next]_vars => (IInv /\ KInv)'
  BY NextInvariant, NextKeys
<1>3. QED
  BY <1>1, <1>2, PTL DEF Spec

\* All keys of an open room expire at its expires_at, whichever operations and crashes interleave,
\* unless a boost came between the read and the write of one of them.
THEOREM KeysAlwaysShareDeadline == Spec => []KeysShareDeadline
<1>1. KInv => KeysShareDeadline
  BY DEF KInv, Together, Undisturbed, KeysShareDeadline
<1>2. QED
  BY <1>1, KeysInvariance, PTL

\* A room never has more users than its cap allows, unless two joins counted the users before
\* either of them had entered.
THEOREM CapacityIsRespected == Spec => []CapacityRespected
<1>1. KInv => CapacityRespected
  BY DEF KInv, Caps, CapacityRespected
<1>2. QED
  BY <1>1, KeysInvariance, PTL

\* While a room is open its counter is never restarted and hands out no event id twice, unless a
\* boost raced with an operation.
THEOREM EidsAreNeverReused == Spec => []EidsNotReused
<1>1. KInv => EidsNotReused
  BY DEF KInv, Numbered, Undisturbed, EidsNotReused, At
<1>2. QED
  BY <1>1, KeysInvariance, PTL

\* However the leaves interleaved, a room that everybody has left is deleted once nothing is in
\* flight, unless an operation died or a boost raced.
THEOREM EmptyRoomIsAlwaysDeleted == Spec => []EmptyRoomIsDeleted
<1>1. KInv => EmptyRoomIsDeleted
  <2>1. SUFFICES ASSUME KInv, Quiet, Open, Without({"boost", "crash"})
                 PROVE  \E u \in users : ~um[u].left
    BY DEF EmptyRoomIsDeleted
  <2>2. \A r \in Req : req[r].op = "none"
    BY <2>1 DEF KInv, OpsFit, Fits, Quiet, At
  <2>3. Undisturbed /\ Without({"crash"})
    BY <2>1 DEF Undisturbed, Without
  <2>4. QED
    BY <2>1, <2>2, <2>3 DEF KInv, LastLeaves
<1>2. QED
  BY <1>1, KeysInvariance, PTL

\* Nothing of a closed room is left without a deadline, even if requests died, unless a boost
\* raced or the room went away under a request that was still writing.
THEOREM NothingEverLeaks == Spec => []NothingLeaks
<1>1. KInv => NothingLeaks
  <2>1. SUFFICES ASSUME KInv, epoch > 0, ~Exists("meta"), Without({"boost", "close"})
                 PROVE  \A k \in Key : ttl[k] # NoTTL
    BY DEF NothingLeaks
  <2>2. told # {}
    BY <2>1 DEF KInv, Unborn
  <2>3. QED
    BY <2>1, <2>2 DEF KInv, ClosedClean
<1>2. QED
  BY <1>1, KeysInvariance, PTL

\* No step removes an open room before its deadline while one of its users has not left, unless a
\* user entered during the check or a boost raced.
THEOREM OnlyEmptyRoomsAreRemovedEarly == Spec => EarlyRemovalOnlyWhenEmpty
<1> DEFINE Early == Open /\ ~Exists("meta")' /\ now' < meta.exp /\ Without({"boost", "enter"})
                    => \A u \in users : um[u].left
<1>1. IInv /\ KInv /\ [Next]_vars => [Early]_vars
  <2>1. SUFFICES ASSUME IInv, KInv, Next, Open, ~Exists("meta")', now' < meta.exp,
                        Without({"boost", "enter"})
                 PROVE  \A u \in users : um[u].left
    OBVIOUS
  <2>2. Undisturbed /\ Without({"enter"}) /\ ttl["meta"] = meta.exp /\ Exists("meta")
    BY <2>1, OpenIsAhead DEF Undisturbed, Without, Open
  <2>3. \A r \in Req : req[r].pc # "ttl_set" /\ req[r].op # "create"
    BY <2>1, OpenIsAhead
  <2>4. ASSUME NEW r \in Req, Step(r)
        PROVE  req[r].pc = "del"
    <3>1. CASE Reads(r)
      BY <2>1, <2>2, <3>1, ReadsProceed DEF Exists, store
    <3>2. CASE CreateRoom(r) \/ ExpireAllSet(r)
      BY <2>1, <2>2, <2>3, <3>2 DEF CreateRoom, ExpireAllSet, At, IInv, NothingBefore, Open
    <3>3. ASSUME NEW u \in Users, ttl'["meta"] # ttl["meta"]
          PROVE  ~JoinEnter(r) /\ ~SetJoinEid(r) /\ ~AppendIncr(r) /\ ~AppendEvent(r)
                 /\ ~SetUserLeft(r)
      BY <2>1, <3>3, Known, KeyNames DEF JoinEnter, EnterTTL, SetJoinEid, AppendIncr,
         AppendEvent, AppendTTL, SetUserLeft, Requests
    <3>4. CASE JoinEnter(r) \/ SetJoinEid(r) \/ AppendIncr(r) \/ AppendEvent(r) \/ SetUserLeft(r)
      BY <2>1, <2>2, <3>3, <3>4, KeyNames DEF Exists
    <3>5. CASE DeleteRoom(r)
      BY <3>5 DEF DeleteRoom, At
    <3>6. QED
      BY <2>4, <3>1, <3>2, <3>4, <3>5 DEF Step, Reads
  <2>5. ~ApplyBoost
    BY <2>1, Known, RoomAssumption, KeyNames
       DEF ApplyBoost, BoostedExpiry, Exists, Absent
  <2>6. ~Tick
    <3>1. SUFFICES ASSUME Tick PROVE FALSE
      OBVIOUS
    <3>2. now' = now + 1 /\ Drop(Due)
      BY <3>1 DEF Tick
    <3>3. "meta" \in Due
      BY <2>1, <2>2, <3>2, KeyNames DEF Drop, Exists
    <3>4. QED
      BY <2>1, <2>2, <3>2, <3>3, Known DEF Due
  <2>7. ~LoseNotification
    BY <2>1, <2>2 DEF LoseNotification, store, Exists
  <2>8. QED
    BY <2>1, <2>2, <2>4, <2>5, <2>6, <2>7 DEF Next, KInv, Checked
<1>2. QED
  BY <1>1, KeysInvariance, PTL DEF Spec, EarlyRemovalOnlyWhenEmpty
=============================================================================
