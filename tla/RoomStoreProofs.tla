--------------------------- MODULE RoomStoreProofs ---------------------------
(***************************************************************************)
(* Proofs about RoomStore, for every number of users, requests and         *)
(* operations, every cap and every deadline.                               *)
(***************************************************************************)
EXTENDS RoomStore, FiniteSetTheorems, TLAPS

\* Cardinality of the expired user meta and meta keys is a number.
LEMMA NoticesAreNumbered ==
  ASSUME NEW D
  PROVE  Cardinality(D \cap (Users \cup {"meta"})) \in Nat
<1>1. IsFiniteSet(Users \cup {"meta"})
  BY RoomAssumption, FS_AddElement
<1>2. D \cap (Users \cup {"meta"}) \subseteq Users \cup {"meta"}
  OBVIOUS
<1>3. QED
  BY <1>1, <1>2, FS_Subset, FS_CardinalityType

\* What Drop leaves has the type of what was there.
LEMMA DropTypes ==
  ASSUME TypeOK, NEW D, Drop(D)
  PROVE  /\ ttl' \in [Key -> Nat \cup {Absent}]
         /\ meta' = meta /\ epoch' = epoch
         /\ users' \subseteq Users /\ keys' \subseteq Key
         /\ um' \in [Users -> [joinEid : Nat, left : BOOLEAN]]
         /\ seq' \in Nat /\ events' \subseteq Nat \X Nat
BY DEF TypeOK, Drop, NoUserMeta

\* What a write to k leaves as its deadline.
LEMMA TouchType ==
  ASSUME TypeOK, NEW k \in Key
  PROVE  Touch(k) \in Nat \cup {Absent}
BY DEF TypeOK, Touch, NoTTL

\* What a trim keeps was stored.
LEMMA TrimsSubset ==
  ASSUME NEW S, NEW n, NEW T \in Trims(S, n)
  PROVE  T \subseteq S
BY DEF Trims

LEMMA IdleType ==
  TypeOK => Idle \in [op : Ops, pc : Pcs, u : Users, exp : Nat, maxP : Nat, maxE : Nat,
                      ev : Nat \X Nat, todo : SUBSET Key]
BY RoomAssumption DEF Idle, Ops, Pcs

\* Every round trip of a request preserves the types.
LEMMA StepTypes ==
  ASSUME TypeOK, NEW r \in Req, Step(r)
  PROVE  TypeOK'
<1> USE DEF At, Go, Done, Start, Begin, store, Kinds
<1> DEFINE Request == [op : Ops, pc : Pcs, u : Users, exp : Nat, maxP : Nat, maxE : Nat,
                       ev : Nat \X Nat, todo : SUBSET Key]
<1>0. /\ Idle \in Request
      /\ FreeTTL \in Nat /\ FreeMaxP \in Nat /\ FreeMaxE \in Nat /\ Creator \in Users
      /\ req \in [Req -> Request]
      /\ now \in Nat
      /\ meta.exp \in Nat /\ meta.maxP \in Nat /\ meta.maxE \in Nat
  BY IdleType, RoomAssumption DEF TypeOK
<1>g. \A pc \in Pcs : [req EXCEPT ![r].pc = pc] \in [Req -> Request]
  <2>1. \A pc \in Pcs : [req[r] EXCEPT !.pc = pc] \in Request
    BY <1>0
  <2>2. \A pc : [req EXCEPT ![r].pc = pc] = [req EXCEPT ![r] = [req[r] EXCEPT !.pc = pc]]
    OBVIOUS
  <2>3. QED
    BY <1>0, <2>1, <2>2
<1>1. CASE CreateRoom(r)
  BY <1>0, <1>1 DEF CreateRoom, TypeOK, Registry, Key, RoomKeys, NoUserMeta, NoTTL, Ops, Pcs
<1>2. CASE ExpireAllList(r)
  <2>1. req' \in [Req -> Request]
    <3>1. req[r] \in Request /\ keys \in SUBSET Key /\ "ttl_set" \in Pcs
      BY <1>0 DEF TypeOK, Pcs
    <3>2. [req[r] EXCEPT !.pc = "ttl_set", !.todo = keys] \in Request
      BY <3>1
    <3>3. req' = [req EXCEPT ![r] = [req[r] EXCEPT !.pc = "ttl_set", !.todo = keys]]
      BY <1>2 DEF ExpireAllList
    <3>4. QED
      BY <1>0, <3>2, <3>3
  <2>2. QED
    BY <1>2, <2>1 DEF ExpireAllList, TypeOK
<1>3. CASE ExpireAllSet(r)
  <2>1. CASE req[r].exp > now
    BY <1>0, <1>3, <2>1 DEF ExpireAllSet, TypeOK
  <2>2. CASE ~(req[r].exp > now)
    <3>1. Drop(req[r].todo)
      BY <1>3, <2>2 DEF ExpireAllSet
    <3>2. QED
      BY <1>0, <1>3, <3>1, DropTypes DEF ExpireAllSet, TypeOK
  <2>3. QED
    BY <2>1, <2>2
<1>4. ASSUME NEW u \in Users, JoinRead(r, u)
      PROVE  TypeOK'
  BY <1>0, <1>4 DEF JoinRead, TypeOK, Ops, Pcs
<1>5. ASSUME NEW u \in Users, LeaveRead(r, u)
      PROVE  TypeOK'
  BY <1>0, <1>5 DEF LeaveRead, TypeOK, Ops, Pcs
<1>6. CASE JoinFull(r)
  BY <1>0, <1>6 DEF JoinFull, TypeOK
<1>7. CASE JoinRoom(r)
  <2>1. req' \in [Req -> Request]
    BY <1>7, <1>g DEF JoinRoom, Pcs
  <2>2. QED
    BY <1>7, <2>1 DEF JoinRoom, TypeOK, JoinRace
<1>8. CASE JoinEnter(r)
  <2>1. ttl' \in [Key -> Nat \cup {Absent}]
    BY <1>0, <1>8, TouchType DEF JoinEnter, TypeOK, EnterTTL, Until, Key, RoomKeys
  <2>2. req' \in [Req -> Request]
    BY <1>8, <1>g DEF JoinEnter, Pcs
  <2>3. users' \subseteq Users /\ keys' \subseteq Key
    BY <1>0, <1>8 DEF JoinEnter, TypeOK, Key
  <2>4. um' \in [Users -> [joinEid : Nat, left : BOOLEAN]]
    BY <1>0, <1>8 DEF JoinEnter, TypeOK, NoUserMeta
  <2>5. races' \subseteq {"boost", "join", "enter", "close", "crash"}
    BY <1>8 DEF JoinEnter, TypeOK, EnterRace
  <2>6. QED
    BY <1>8, <2>1, <2>2, <2>3, <2>4, <2>5 DEF JoinEnter, TypeOK
<1>9. CASE SetJoinEid(r)
  <2>1. ttl' \in [Key -> Nat \cup {Absent}]
    BY <1>0, <1>9, TouchType DEF SetJoinEid, TypeOK, Key
  <2>2. req' \in [Req -> Request]
    <3> DEFINE pc == IF req[r].op = "create" THEN "ttl_list" ELSE "getroom"
    <3>1. pc \in Pcs
      BY DEF Pcs
    <3>2. req' = [req EXCEPT ![r].pc = pc]
      BY <1>9 DEF SetJoinEid
    <3> HIDE DEF pc
    <3>3. QED
      BY <1>g, <3>1, <3>2
  <2>3. um' \in [Users -> [joinEid : Nat, left : BOOLEAN]]
    BY <1>0, <1>9 DEF SetJoinEid, TypeOK
  <2>4. QED
    BY <1>9, <2>1, <2>2, <2>3 DEF SetJoinEid, TypeOK
<1>10. CASE GetRoom(r)
  BY <1>0, <1>10 DEF GetRoom, TypeOK
<1>11. CASE SendRead(r)
  BY <1>0, <1>11 DEF SendRead, TypeOK, Ops, Pcs
<1>12. CASE AppendIncr(r)
  <2>1. NextEpoch \in Nat /\ seq + 1 \in Nat
    BY DEF NextEpoch, TypeOK
  <2>2. ttl' \in [Key -> Nat \cup {Absent}]
    BY <1>0, <1>12, TouchType DEF AppendIncr, TypeOK, Key, RoomKeys
  <2>3. req' \in [Req -> Request]
    <3> DEFINE q == [req[r] EXCEPT !.pc = "append", !.ev = <<seq + 1, NextEpoch>>]
    <3>1. q \in Request
      BY <1>0, <2>1 DEF Pcs
    <3>2. req' = [req EXCEPT ![r] = q]
      BY <1>0, <1>12 DEF AppendIncr
    <3>3. QED
      BY <1>0, <3>1, <3>2
  <2>4. QED
    BY <1>12, <2>1, <2>2, <2>3 DEF AppendIncr, TypeOK
<1>13. CASE AppendEvent(r)
  <2>1. events' \subseteq Nat \X Nat
    BY <1>0, <1>13, TrimsSubset DEF AppendEvent, TypeOK
  <2>2. ttl' \in [Key -> Nat \cup {Absent}]
    BY <1>0, <1>13 DEF AppendEvent, TypeOK, AppendTTL, Until, Absent
  <2>3. req' \in [Req -> Request]
    <3>1. CASE req[r].op \in {"create", "join"}
      BY <1>0, <1>13, <3>1 DEF AppendEvent, Pcs
    <3>2. CASE req[r].op = "leave"
      BY <1>0, <1>13, <3>2 DEF AppendEvent, Pcs
    <3>3. CASE req[r].op \notin {"create", "join", "leave"}
      BY <1>0, <1>13, <3>3 DEF AppendEvent, Pcs
    <3>4. QED
      BY <3>1, <3>2, <3>3
  <2>5. seq' \in Nat
    BY <1>13 DEF AppendEvent, TypeOK
  <2>4. QED
    BY <1>13, <2>1, <2>2, <2>3, <2>5 DEF AppendEvent, TypeOK
<1>14. CASE SetUserLeft(r)
  <2>1. ttl' \in [Key -> Nat \cup {Absent}]
    BY <1>0, <1>14, TouchType DEF SetUserLeft, TypeOK, Key
  <2>2. req' \in [Req -> Request]
    BY <1>14, <1>g DEF SetUserLeft, Pcs
  <2>3. um' \in [Users -> [joinEid : Nat, left : BOOLEAN]]
    BY <1>0, <1>14 DEF SetUserLeft, TypeOK
  <2>4. QED
    BY <1>14, <2>1, <2>2, <2>3 DEF SetUserLeft, TypeOK
<1>15. CASE IsRoomEmptyKeys(r)
  <2>1. users \in SUBSET Key
    BY DEF TypeOK, Key
  <2>2. req' \in [Req -> Request]
    <3> DEFINE q == [req[r] EXCEPT !.pc = IF users = {} THEN "list" ELSE "check",
                                   !.todo = users]
    <3>1. q \in Request
      BY <1>0, <2>1 DEF Pcs
    <3>2. req' = [req EXCEPT ![r] = q]
      BY <1>0, <1>15 DEF IsRoomEmptyKeys
    <3>3. QED
      BY <1>0, <3>1, <3>2
  <2>3. QED
    BY <1>15, <2>2 DEF IsRoomEmptyKeys, TypeOK
<1>16. CASE IsRoomEmptyNext(r)
  BY <1>0, <1>16 DEF IsRoomEmptyNext, TypeOK, Pcs
<1>17. CASE DeleteRoomList(r)
  <2>1. req' \in [Req -> Request]
    <3> DEFINE q == [req[r] EXCEPT !.pc = "del", !.todo = keys]
    <3>1. req[r] \in Request /\ keys \in SUBSET Key /\ "del" \in Pcs
      BY <1>0 DEF TypeOK, Pcs
    <3>2. q \in Request
      BY <3>1
    <3>3. req' = [req EXCEPT ![r] = Idle] \/ req' = [req EXCEPT ![r] = q]
      BY <1>17 DEF DeleteRoomList
    <3> HIDE DEF q
    <3>4. QED
      BY <1>0, <3>2, <3>3
  <2>2. QED
    BY <1>17, <2>1 DEF DeleteRoomList, TypeOK
<1>18. CASE DeleteRoom(r)
  BY <1>0, <1>18, DropTypes DEF DeleteRoom, TypeOK, CloseRace
<1>19. CASE HandleExpiry(r)
  <2>1. [Idle EXCEPT !.op = "cleanup", !.pc = "list"] \in Request
    BY <1>0 DEF Ops, Pcs
  <2>2. notif' \in Nat
    BY <1>19 DEF HandleExpiry, TypeOK
  <2>3. QED
    BY <1>0, <1>19, <2>1, <2>2 DEF HandleExpiry, TypeOK
<1>20. CASE Fail(r)
  BY <1>0, <1>20 DEF Fail, TypeOK
<1>21. QED
  BY <1>1, <1>2, <1>3, <1>4, <1>5, <1>6, <1>7, <1>8, <1>9, <1>10, <1>11, <1>12, <1>13,
     <1>14, <1>15, <1>16, <1>17, <1>18, <1>19, <1>20 DEF Step

LEMMA NextTypes == TypeOK /\ [Next]_vars => TypeOK'
<1> SUFFICES ASSUME TypeOK, [Next]_vars
             PROVE  TypeOK'
  OBVIOUS
<1>1. CASE \E r \in Req : Step(r)
  BY <1>1, StepTypes
<1>2. CASE ApplyBoost
  <2>1. BoostedExpiry \in Nat /\ BoostMaxP \in Nat /\ BoostMaxE \in Nat /\ NextEpoch \in Nat
    BY RoomAssumption DEF BoostedExpiry, NextEpoch, TypeOK
  <2>2. events' \subseteq Nat \X Nat
    <3>1. events' \subseteq events \cup {<<seq + 1, NextEpoch>>}
      BY <1>2, TrimsSubset DEF ApplyBoost
    <3>2. QED
      BY <2>1, <3>1 DEF TypeOK
  <2>3. meta' \in [exp : Nat, maxP : Nat, maxE : Nat]
    BY <1>2, <2>1 DEF ApplyBoost, TypeOK, Larger
  <2>4. ttl' \in [Key -> Nat \cup {Absent}]
    BY <1>2, <2>1 DEF ApplyBoost, TypeOK, Touch, NoTTL
  <2>5. races' \subseteq {"boost", "join", "enter", "close", "crash"}
    BY <1>2 DEF ApplyBoost, TypeOK, BoostRace
  <2>6. QED
    BY <1>2, <2>1, <2>2, <2>3, <2>4, <2>5 DEF ApplyBoost, TypeOK, Begin, Kinds
<1>3. CASE Tick
  <2>1. Instances * Cardinality(Due \cap (Users \cup {"meta"})) \in Nat
    BY NoticesAreNumbered, RoomAssumption
  <2>2. Drop(Due)
    BY <1>3 DEF Tick
  <2>3. races' \subseteq {"boost", "join", "enter", "close", "crash"}
    BY <1>3 DEF Tick, CloseRace, TypeOK
  <2>4. now' \in 0..MaxTime /\ notif' \in Nat
    BY <1>3, <2>1, RoomAssumption DEF Tick, TypeOK
  <2>5. QED
    BY <1>3, <2>2, <2>3, <2>4, DropTypes DEF Tick, TypeOK
<1>4. CASE LoseNotification
  BY <1>4 DEF LoseNotification, TypeOK, store
<1>5. CASE UNCHANGED vars
  BY <1>5 DEF vars, TypeOK
<1>6. QED
  BY <1>1, <1>2, <1>3, <1>4, <1>5 DEF Next

LEMMA InitTypes == Init => TypeOK
BY RoomAssumption, IdleType DEF Init, TypeOK, Idle, Ops, Pcs, NoUserMeta, Absent, Key, Kinds

\* The variables always have their types.
THEOREM TypeCorrect == Spec => []TypeOK
BY InitTypes, NextTypes, PTL DEF Spec

-----------------------------------------------------------------------------
(* The inductive invariant behind MessagesExpire.  Its parts say why no    *)
(* write can leave the events without a deadline or with one too late.     *)

\* The registry of a room that exists names all its keys, and lives as long.
RegistryComplete ==
  Exists("meta") => RoomKeys \subseteq keys /\ ttl["keys"] = ttl["meta"]

\* So does every copy of it a request is working through.
SnapshotsComplete ==
  \A r \in Req : req[r].pc \in {"del", "ttl_set"} /\ Exists("meta")
                   => RoomKeys \subseteq req[r].todo

\* Nobody has read a later deadline than the room's.
ReadsAreOld == \A r \in Req : req[r].exp <= meta.exp

\* Before the room is created there is nothing to work on.
NothingBefore ==
  epoch = 0 => /\ \A k \in Key : ~Exists(k)
               /\ keys = {} /\ told = {}
               /\ \A r \in Req : req[r].exp = 0 /\ req[r].pc \in {"idle", "list"}

\* While the room is being created nobody else can reach it.
CreatedAlone ==
  \A r \in Req :
    /\ req[r].op = "create" =>
         /\ epoch > 0 /\ told = {} /\ req[r].exp = meta.exp
         /\ req[r].pc \in {"incr", "append", "joineid", "ttl_list", "ttl_set"}
         /\ \A s \in Req \ {r} : req[s].pc \in {"idle", "list", "del"}
    /\ req[r].pc \in {"ttl_list", "ttl_set"} => req[r].op = "create"

\* A join starts from the link of a room whose creation was answered.
JoinersWereInvited ==
  \A r \in Req :
    /\ req[r].op = "join" => told # {}
    /\ req[r].pc = "joineid" => req[r].op \in {"create", "join"}
    /\ req[r].pc = "getroom" => req[r].op = "join"

\* A deadline that has been reached has been acted on.
DeadlinesAhead == \A k \in Key : ttl[k] > NoTTL => ttl[k] > now

\* The meta key of an open room expires at the room's deadline.
MetaExpires == Open => ttl["meta"] = meta.exp /\ meta.exp > 0

IInv ==
  /\ TypeOK
  /\ RegistryComplete
  /\ SnapshotsComplete
  /\ ReadsAreOld
  /\ NothingBefore
  /\ CreatedAlone
  /\ JoinersWereInvited
  /\ DeadlinesAhead
  /\ MetaExpires
  /\ MessagesExpire

\* Request r makes a step, and what it does to itself and to the answers is
\* what every step but CreateRoom does.
Proceeds(r) ==
  LET q == req'[r] IN
    /\ meta' = meta
    /\ ttl'["meta"] # Absent => ttl["meta"] # Absent
    /\ \A s \in Req \ {r} : req'[s] = req[s]
    /\ q.exp \in {req[r].exp, meta.exp, 0}
    /\ q.pc \in {"del", "ttl_set"} => q.todo = keys
    /\ q.pc \in {"ttl_list", "ttl_set"} => q.op = "create"
    /\ q.pc = "joineid" => q.op \in {"create", "join"}
    /\ q.pc = "getroom" => q.op = "join"
    /\ q.op = "join" => told # {}
    /\ q.op = "create" => /\ req[r].op = "create" /\ q.exp = req[r].exp
                          /\ q.pc \in {"append", "joineid", "ttl_list", "ttl_set"}
    /\ (\E s \in Req \ {r} : req[s].op = "create") => q.pc \in {"idle", "list", "del"}
    /\ told \subseteq told'
    /\ told' # {} => told # {} \/ (req[r].op = "create" /\ q.op # "create")
    /\ \/ epoch > 0 /\ epoch' > 0
       \/ UNCHANGED <<store, told>> /\ q.exp = 0 /\ q.pc \in {"idle", "list"}

\* What the invariant says of the requests survives such a step.
LEMMA ProceedsInvariant ==
  ASSUME IInv, TypeOK', NEW r \in Req, Proceeds(r)
  PROVE  /\ SnapshotsComplete' /\ ReadsAreOld' /\ NothingBefore'
         /\ CreatedAlone' /\ JoinersWereInvited'
<1> DEFINE q == req'[r]
<1>0. \A s \in Req : s # r => req'[s] = req[s]
  BY DEF Proceeds
<1>1. SnapshotsComplete'
  <2> SUFFICES ASSUME NEW s \in Req, req'[s].pc \in {"del", "ttl_set"}, ttl'["meta"] # Absent
               PROVE  RoomKeys \subseteq req'[s].todo
    BY DEF SnapshotsComplete, Exists
  <2>1. Exists("meta")
    BY DEF Proceeds, Exists
  <2>2. CASE s = r
    BY <2>1, <2>2 DEF Proceeds, IInv, RegistryComplete
  <2>3. CASE s # r
    BY <1>0, <2>1, <2>3 DEF IInv, SnapshotsComplete
  <2>4. QED
    BY <2>2, <2>3
<1>2. ReadsAreOld'
  <2>1. meta' = meta /\ meta.exp \in Nat
    BY DEF Proceeds, IInv, TypeOK
  <2>2. q.exp <= meta.exp
    BY <2>1 DEF Proceeds, IInv, ReadsAreOld
  <2>3. QED
    BY <1>0, <2>1, <2>2 DEF IInv, ReadsAreOld
<1>3. NothingBefore'
  <2>1. CASE epoch > 0 /\ epoch' > 0
    BY <2>1 DEF IInv, TypeOK, NothingBefore
  <2>2. CASE UNCHANGED <<store, told>> /\ q.exp = 0 /\ q.pc \in {"idle", "list"}
    BY <1>0, <2>2 DEF IInv, NothingBefore, store, Exists
  <2>3. QED
    BY <2>1, <2>2 DEF Proceeds
<1>4. CreatedAlone'
  <2>1. ASSUME NEW s \in Req, req'[s].op = "create"
        PROVE  /\ epoch' > 0 /\ told' = {} /\ req'[s].exp = meta'.exp
               /\ req'[s].pc \in {"incr", "append", "joineid", "ttl_list", "ttl_set"}
               /\ \A t \in Req \ {s} : req'[t].pc \in {"idle", "list", "del"}
    <3>1. req[s].op = "create" /\ req'[s].exp = req[s].exp
      BY <1>0, <2>1 DEF Proceeds
    <3>2. /\ told = {} /\ req[s].exp = meta.exp
          /\ req[s].pc \in {"incr", "append", "joineid", "ttl_list", "ttl_set"}
          /\ \A t \in Req \ {s} : req[t].pc \in {"idle", "list", "del"}
      BY <3>1 DEF IInv, CreatedAlone
    <3>3. req'[s].pc \in {"incr", "append", "joineid", "ttl_list", "ttl_set"}
      BY <1>0, <2>1, <3>2 DEF Proceeds
    <3>4. epoch' > 0
      BY <3>3, <1>3, TypeOK' DEF NothingBefore, TypeOK
    <3>5. req[r].op = "create" => r = s
      BY <3>2 DEF IInv, CreatedAlone
    <3>6. told' = {}
      BY <2>1, <3>2, <3>5 DEF Proceeds
    <3>7. \A t \in Req \ {s} : req'[t].pc \in {"idle", "list", "del"}
      BY <1>0, <3>1, <3>2 DEF Proceeds
    <3>8. QED
      BY <3>1, <3>2, <3>3, <3>4, <3>6, <3>7 DEF Proceeds
  <2>2. ASSUME NEW s \in Req, req'[s].pc \in {"ttl_list", "ttl_set"}
        PROVE  req'[s].op = "create"
    BY <1>0, <2>2 DEF Proceeds, IInv, CreatedAlone
  <2>3. QED
    BY <2>1, <2>2 DEF CreatedAlone
<1>5. JoinersWereInvited'
  <2>1. told # {} => told' # {}
    BY DEF Proceeds
  <2>2. QED
    BY <1>0, <2>1 DEF Proceeds, IInv, JoinersWereInvited
<1>6. QED
  BY <1>1, <1>2, <1>3, <1>4, <1>5

\* The round trips that write no key of the room.
Reads(r) ==
  \/ ExpireAllList(r) \/ JoinFull(r) \/ JoinRoom(r) \/ GetRoom(r) \/ SendRead(r)
  \/ IsRoomEmptyKeys(r) \/ IsRoomEmptyNext(r) \/ DeleteRoomList(r)
  \/ HandleExpiry(r) \/ Fail(r)
  \/ \E u \in Users : JoinRead(r, u) \/ LeaveRead(r, u)

\* They all proceed so, and none of them opens the room.
LEMMA ReadsProceed ==
  ASSUME IInv, NEW r \in Req, Reads(r)
  PROVE  Proceeds(r) /\ UNCHANGED <<now, store>> /\ (told' # {} => told # {})
<1> USE DEF At, Go, Done, Start, store
<1>0. req \in [Req -> [op : Ops, pc : Pcs, u : Users, exp : Nat, maxP : Nat, maxE : Nat,
                       ev : Nat \X Nat, todo : SUBSET Key]]
  BY DEF IInv, TypeOK
\* What the invariant says of a request, and of the others during a creation.
<1>a. /\ req[r].op = "join" => told # {}
      /\ req[r].pc = "getroom" => req[r].op = "join"
      /\ req[r].op = "create" =>
           req[r].pc \in {"incr", "append", "joineid", "ttl_list", "ttl_set"}
      /\ req[r].pc \in {"ttl_list", "ttl_set"} => req[r].op = "create"
      /\ (\E s \in Req \ {r} : req[s].op = "create") => req[r].pc \in {"idle", "list", "del"}
  BY DEF IInv, JoinersWereInvited, CreatedAlone
<1>b. (\E s \in Req : req[s].op = "create") => told = {}
  BY DEF IInv, CreatedAlone
<1>c. epoch = 0 => /\ \A k \in Key : ttl[k] = Absent
                   /\ keys = {} /\ told = {}
                   /\ req[r].exp = 0 /\ req[r].pc \in {"idle", "list"}
  BY DEF IInv, NothingBefore, Exists
<1>d. epoch \in Nat /\ "meta" \in Key
  BY DEF IInv, TypeOK, Key, RoomKeys
<1>1. CASE ExpireAllList(r)
  BY <1>0, <1>a, <1>b, <1>c, <1>d, <1>1 DEF ExpireAllList, Proceeds
<1>2. CASE JoinFull(r)
  BY <1>0, <1>a, <1>b, <1>c, <1>d, <1>2 DEF JoinFull, Idle, Proceeds
<1>3. CASE JoinRoom(r)
  BY <1>0, <1>a, <1>b, <1>c, <1>d, <1>3 DEF JoinRoom, Proceeds
<1>4. CASE GetRoom(r)
  BY <1>0, <1>a, <1>b, <1>c, <1>d, <1>4 DEF GetRoom, Idle, Proceeds
<1>5. CASE SendRead(r)
  BY <1>0, <1>a, <1>b, <1>c, <1>d, <1>5 DEF SendRead, Exists, Proceeds
<1>6. CASE IsRoomEmptyKeys(r)
  BY <1>0, <1>a, <1>b, <1>c, <1>d, <1>6 DEF IsRoomEmptyKeys, Proceeds
<1>7. CASE IsRoomEmptyNext(r)
  BY <1>0, <1>a, <1>b, <1>c, <1>d, <1>7 DEF IsRoomEmptyNext, Idle, Proceeds
<1>8. CASE DeleteRoomList(r)
  BY <1>0, <1>a, <1>b, <1>c, <1>d, <1>8 DEF DeleteRoomList, Idle, Proceeds
<1>9. CASE HandleExpiry(r)
  BY <1>0, <1>a, <1>b, <1>c, <1>d, <1>9 DEF HandleExpiry, Idle, Proceeds
<1>10. CASE Fail(r)
  BY <1>0, <1>a, <1>b, <1>c, <1>d, <1>10 DEF Fail, Idle, Proceeds
<1>11. ASSUME NEW u \in Users, JoinRead(r, u)
      PROVE  Proceeds(r) /\ UNCHANGED <<now, store>> /\ (told' # {} => told # {})
  BY <1>0, <1>a, <1>b, <1>c, <1>d, <1>11 DEF JoinRead, Exists, Proceeds
<1>12. ASSUME NEW u \in Users, LeaveRead(r, u)
      PROVE  Proceeds(r) /\ UNCHANGED <<now, store>> /\ (told' # {} => told # {})
  BY <1>0, <1>a, <1>b, <1>c, <1>d, <1>12 DEF LeaveRead, Exists, Proceeds
<1>13. QED
  BY <1>1, <1>2, <1>3, <1>4, <1>5, <1>6, <1>7, <1>8, <1>9, <1>10, <1>11, <1>12 DEF Reads

\* No round trip of a request breaks the invariant.
LEMMA StepInvariant ==
  ASSUME IInv, NEW r \in Req, Step(r)
  PROVE  IInv'
<1> USE DEF At, Go, Done, store
<1>0. /\ TypeOK'
      /\ ttl \in [Key -> Nat \cup {Absent}] /\ now \in Nat /\ meta.exp \in Nat
      /\ req \in [Req -> [op : Ops, pc : Pcs, u : Users, exp : Nat, maxP : Nat, maxE : Nat,
                          ev : Nat \X Nat, todo : SUBSET Key]]
  BY StepTypes, RoomAssumption DEF IInv, TypeOK
\* What the invariant says of a request that is past its first read.
<1>a. /\ req[r].op = "join" => told # {}
      /\ req[r].pc = "joineid" => req[r].op \in {"create", "join"}
      /\ req[r].op = "create" =>
           /\ req[r].pc \in {"incr", "append", "joineid", "ttl_list", "ttl_set"}
           /\ req[r].exp = meta.exp
      /\ req[r].pc \in {"ttl_list", "ttl_set"} => req[r].op = "create"
      /\ (\E s \in Req \ {r} : req[s].op = "create") => req[r].pc \in {"idle", "list", "del"}
  BY DEF IInv, JoinersWereInvited, CreatedAlone
<1>b. req[r].pc \notin {"idle", "list"} => epoch > 0 /\ epoch' > 0 /\ epoch \in Nat
  BY <1>0 DEF IInv, TypeOK, NothingBefore, Step, CreateRoom, ExpireAllList, ExpireAllSet,
     JoinRead, LeaveRead, JoinFull, JoinRoom, JoinEnter, SetJoinEid, GetRoom, SendRead,
     AppendIncr, NextEpoch, AppendEvent, SetUserLeft, IsRoomEmptyKeys, IsRoomEmptyNext,
     DeleteRoomList, DeleteRoom, Drop, HandleExpiry, Fail
<1>c. /\ "meta" \in Key /\ "keys" \in Key /\ "events" \in Key
      /\ "meta" \notin Users /\ Users \cap RoomKeys = {}
  BY RoomAssumption DEF Key, RoomKeys
<1>1. CASE Reads(r)
  <2>1. Proceeds(r) /\ UNCHANGED <<now, store>> /\ (told' # {} => told # {})
    BY <1>1, ReadsProceed
  <2>2. RegistryComplete' /\ DeadlinesAhead' /\ MessagesExpire' /\ MetaExpires'
    BY <2>1 DEF IInv, RegistryComplete, DeadlinesAhead, MessagesExpire, MetaExpires, Open, Exists
  <2>3. QED
    BY <1>0, <2>1, <2>2, ProceedsInvariant DEF IInv
<1>2. CASE CreateRoom(r)
  <2>0. /\ epoch = 0 /\ epoch' = 1 /\ told = {} /\ UNCHANGED <<now, told>>
        /\ \A k \in Key : ttl[k] = Absent /\ ttl'[k] \in {Absent, NoTTL}
        /\ ttl'["keys"] = NoTTL /\ ttl'["meta"] = NoTTL /\ ttl'["events"] = Absent
        /\ RoomKeys \subseteq keys'
        /\ meta'.exp = now + FreeTTL
        /\ \A s \in Req : req[s].exp = 0 /\ req[s].pc \in {"idle", "list"}
        /\ \A s \in Req \ {r} : req'[s] = req[s]
        /\ req'[r].op = "create" /\ req'[r].pc = "incr" /\ req'[r].exp = meta'.exp
    BY <1>0, <1>2, <1>c, RoomAssumption DEF CreateRoom, IInv, NothingBefore, Exists, Registry,
       Key, RoomKeys, Absent, NoTTL
  <2>1. FreeTTL \in Nat
    BY RoomAssumption
  <2>2. RegistryComplete' /\ DeadlinesAhead' /\ MetaExpires' /\ MessagesExpire'
    BY <1>c, <2>0 DEF RegistryComplete, DeadlinesAhead, MetaExpires, MessagesExpire, Open,
       Exists, Absent, NoTTL
  <2>3. SnapshotsComplete' /\ ReadsAreOld'
    BY <1>0, <2>0, <2>1 DEF SnapshotsComplete, ReadsAreOld
  <2>4. NothingBefore'
    BY <2>0 DEF NothingBefore
  <2>5. CreatedAlone'
    BY <2>0 DEF IInv, CreatedAlone
  <2>6. JoinersWereInvited'
    BY <2>0 DEF IInv, JoinersWereInvited
  <2>7. QED
    BY <1>0, <2>2, <2>3, <2>4, <2>5, <2>6 DEF IInv
<1>3. CASE ExpireAllSet(r)
  <2>1. Proceeds(r)
    BY <1>0, <1>a, <1>b, <1>c, <1>3 DEF ExpireAllSet, Drop, Exists, Idle, Proceeds
  <2>2. RegistryComplete'
    BY <1>0, <1>c, <1>3 DEF ExpireAllSet, Drop, Exists, IInv, SnapshotsComplete,
       RegistryComplete, RoomKeys, Absent, NoTTL
  <2>3. DeadlinesAhead'
    BY <1>0, <1>c, <1>3 DEF ExpireAllSet, Drop, Exists, IInv, DeadlinesAhead, Absent, NoTTL
  <2>4. MetaExpires'
    BY <1>0, <1>a, <1>b, <1>c, <1>3 DEF ExpireAllSet, Drop, Exists, IInv, SnapshotsComplete,
       MetaExpires, Open, RoomKeys, Absent, NoTTL
  <2>5. MessagesExpire'
    BY <1>0, <1>a, <1>c, <1>3 DEF ExpireAllSet, Drop, Exists, IInv, ReadsAreOld,
       SnapshotsComplete, MessagesExpire, RoomKeys, Absent, NoTTL
  <2>6. QED
    BY <1>0, <2>1, <2>2, <2>3, <2>4, <2>5, ProceedsInvariant DEF IInv
<1>4. CASE JoinEnter(r)
  <2>1. Proceeds(r)
    BY <1>0, <1>a, <1>b, <1>c, <1>4 DEF JoinEnter, EnterTTL, Touch, Until, Exists, Proceeds
  <2>2. RegistryComplete'
    BY <1>0, <1>c, <1>4 DEF JoinEnter, EnterTTL, Touch, Until, Exists, IInv, SnapshotsComplete,
       RegistryComplete, RoomKeys, Absent, NoTTL
  <2>3. DeadlinesAhead'
    BY <1>0, <1>c, <1>4 DEF JoinEnter, EnterTTL, Touch, Until, Exists, IInv, DeadlinesAhead,
       Absent, NoTTL
  <2>4. MetaExpires'
    BY <1>0, <1>a, <1>b, <1>c, <1>4 DEF JoinEnter, EnterTTL, Touch, Until, Exists, IInv,
       SnapshotsComplete, MetaExpires, Open, RoomKeys, Absent, NoTTL
  <2>5. MessagesExpire'
    BY <1>0, <1>a, <1>c, <1>4 DEF JoinEnter, EnterTTL, Touch, Until, Exists, IInv, ReadsAreOld,
       SnapshotsComplete, MessagesExpire, RoomKeys, Absent, NoTTL
  <2>6. QED
    BY <1>0, <2>1, <2>2, <2>3, <2>4, <2>5, ProceedsInvariant DEF IInv
<1>5. CASE SetJoinEid(r)
  <2>1. Proceeds(r)
    BY <1>0, <1>a, <1>b, <1>c, <1>5 DEF SetJoinEid, Touch, Exists, Proceeds
  <2>2. RegistryComplete'
    BY <1>0, <1>c, <1>5 DEF SetJoinEid, Touch, Exists, IInv, SnapshotsComplete, RegistryComplete,
       RoomKeys, Absent, NoTTL
  <2>3. DeadlinesAhead'
    BY <1>0, <1>c, <1>5 DEF SetJoinEid, Touch, Exists, IInv, DeadlinesAhead, Absent, NoTTL
  <2>4. MetaExpires'
    BY <1>0, <1>a, <1>b, <1>c, <1>5 DEF SetJoinEid, Touch, Exists, IInv, SnapshotsComplete,
       MetaExpires, Open, RoomKeys, Absent, NoTTL
  <2>5. MessagesExpire'
    BY <1>0, <1>a, <1>c, <1>5 DEF SetJoinEid, Touch, Exists, IInv, ReadsAreOld,
       SnapshotsComplete, MessagesExpire, RoomKeys, Absent, NoTTL
  <2>6. QED
    BY <1>0, <2>1, <2>2, <2>3, <2>4, <2>5, ProceedsInvariant DEF IInv
<1>6. CASE AppendIncr(r)
  <2>1. Proceeds(r)
    BY <1>0, <1>a, <1>b, <1>c, <1>6 DEF AppendIncr, Touch, Exists, Proceeds
  <2>2. RegistryComplete'
    BY <1>0, <1>c, <1>6 DEF AppendIncr, Touch, Exists, IInv, SnapshotsComplete, RegistryComplete,
       RoomKeys, Absent, NoTTL
  <2>3. DeadlinesAhead'
    BY <1>0, <1>c, <1>6 DEF AppendIncr, Touch, Exists, IInv, DeadlinesAhead, Absent, NoTTL
  <2>4. MetaExpires'
    BY <1>0, <1>a, <1>b, <1>c, <1>6 DEF AppendIncr, Touch, Exists, IInv, SnapshotsComplete,
       MetaExpires, Open, RoomKeys, Absent, NoTTL
  <2>5. MessagesExpire'
    BY <1>0, <1>a, <1>c, <1>6 DEF AppendIncr, Touch, Exists, IInv, ReadsAreOld,
       SnapshotsComplete, MessagesExpire, RoomKeys, Absent, NoTTL
  <2>6. QED
    BY <1>0, <2>1, <2>2, <2>3, <2>4, <2>5, ProceedsInvariant DEF IInv
<1>7. CASE AppendEvent(r)
  <2>1. Proceeds(r)
    BY <1>0, <1>a, <1>b, <1>c, <1>7 DEF AppendEvent, AppendTTL, Until, Exists, Idle, Proceeds
  <2>2. RegistryComplete'
    BY <1>0, <1>c, <1>7 DEF AppendEvent, AppendTTL, Until, Exists, IInv, SnapshotsComplete,
       RegistryComplete, RoomKeys, Absent, NoTTL
  <2>3. DeadlinesAhead'
    BY <1>0, <1>c, <1>7 DEF AppendEvent, AppendTTL, Until, Exists, IInv, DeadlinesAhead, Absent,
       NoTTL
  <2>4. MetaExpires'
    BY <1>0, <1>a, <1>b, <1>c, <1>7 DEF AppendEvent, AppendTTL, Until, Exists, IInv,
       SnapshotsComplete, MetaExpires, Open, RoomKeys, Absent, NoTTL
  <2>5. MessagesExpire'
    BY <1>0, <1>a, <1>c, <1>7 DEF AppendEvent, AppendTTL, Until, Exists, IInv, ReadsAreOld,
       SnapshotsComplete, MessagesExpire, RoomKeys, Absent, NoTTL
  <2>6. QED
    BY <1>0, <2>1, <2>2, <2>3, <2>4, <2>5, ProceedsInvariant DEF IInv
<1>8. CASE SetUserLeft(r)
  <2>1. Proceeds(r)
    BY <1>0, <1>a, <1>b, <1>c, <1>8 DEF SetUserLeft, Touch, Exists, Proceeds
  <2>2. RegistryComplete'
    BY <1>0, <1>c, <1>8 DEF SetUserLeft, Touch, Exists, IInv, SnapshotsComplete,
       RegistryComplete, RoomKeys, Absent, NoTTL
  <2>3. DeadlinesAhead'
    BY <1>0, <1>c, <1>8 DEF SetUserLeft, Touch, Exists, IInv, DeadlinesAhead, Absent, NoTTL
  <2>4. MetaExpires'
    BY <1>0, <1>a, <1>b, <1>c, <1>8 DEF SetUserLeft, Touch, Exists, IInv, SnapshotsComplete,
       MetaExpires, Open, RoomKeys, Absent, NoTTL
  <2>5. MessagesExpire'
    BY <1>0, <1>a, <1>c, <1>8 DEF SetUserLeft, Touch, Exists, IInv, ReadsAreOld,
       SnapshotsComplete, MessagesExpire, RoomKeys, Absent, NoTTL
  <2>6. QED
    BY <1>0, <2>1, <2>2, <2>3, <2>4, <2>5, ProceedsInvariant DEF IInv
<1>9. CASE DeleteRoom(r)
  <2>1. Proceeds(r)
    BY <1>0, <1>a, <1>b, <1>c, <1>9 DEF DeleteRoom, Drop, Exists, Idle, Proceeds
  <2>2. RegistryComplete'
    BY <1>0, <1>c, <1>9 DEF DeleteRoom, Drop, Exists, IInv, SnapshotsComplete, RegistryComplete,
       RoomKeys, Absent, NoTTL
  <2>3. DeadlinesAhead'
    BY <1>0, <1>c, <1>9 DEF DeleteRoom, Drop, Exists, IInv, DeadlinesAhead, Absent, NoTTL
  <2>4. MetaExpires'
    BY <1>0, <1>a, <1>b, <1>c, <1>9 DEF DeleteRoom, Drop, Exists, IInv, SnapshotsComplete,
       MetaExpires, Open, RoomKeys, Absent, NoTTL
  <2>5. MessagesExpire'
    BY <1>0, <1>a, <1>c, <1>9 DEF DeleteRoom, Drop, Exists, IInv, ReadsAreOld, SnapshotsComplete,
       MessagesExpire, RoomKeys, Absent, NoTTL
  <2>6. QED
    BY <1>0, <2>1, <2>2, <2>3, <2>4, <2>5, ProceedsInvariant DEF IInv
<1>10. QED
  BY <1>1, <1>2, <1>3, <1>4, <1>5, <1>6, <1>7, <1>8, <1>9 DEF Step, Reads

\* Nor do the boost script, the clock and a lost notification.
LEMMA NextInvariant == IInv /\ [Next]_vars => IInv'
<1> SUFFICES ASSUME IInv, [Next]_vars
             PROVE  IInv'
  OBVIOUS
<1>0. /\ TypeOK'
      /\ ttl \in [Key -> Nat \cup {Absent}] /\ now \in Nat /\ meta.exp \in Nat
      /\ req \in [Req -> [op : Ops, pc : Pcs, u : Users, exp : Nat, maxP : Nat, maxE : Nat,
                          ev : Nat \X Nat, todo : SUBSET Key]]
  BY NextTypes, RoomAssumption DEF IInv, TypeOK
<1>1. CASE \E r \in Req : Step(r)
  BY <1>1, StepInvariant
<1>2. CASE ApplyBoost
  <2>0. /\ epoch > 0 /\ epoch' > 0
        /\ Exists("meta") /\ "meta" \in Key /\ "events" \in Key
        /\ BoostTTL \in Nat /\ BoostTTL > 0
    <3>1. epoch > 0 /\ epoch \in Nat
      BY <1>0, <1>2 DEF ApplyBoost, IInv, TypeOK, NothingBefore
    <3>2. QED
      BY <1>2, <3>1, RoomAssumption DEF ApplyBoost, NextEpoch, Key, RoomKeys
  <2>a. /\ meta.exp > now /\ meta'.exp = meta.exp + BoostTTL
        /\ "events" \in keys /\ "meta" \in keys
    <3>1. ttl["meta"] = meta.exp /\ meta.exp > 0
      BY <1>2 DEF ApplyBoost, IInv, MetaExpires, Open
    <3>2. meta.exp > now
      BY <2>0, <3>1 DEF IInv, DeadlinesAhead, NoTTL
    <3>3. QED
      BY <1>2, <2>0, <3>2 DEF ApplyBoost, BoostedExpiry, IInv, RegistryComplete, RoomKeys
  <2>b. UNCHANGED <<req, told, keys>>
    BY <1>2 DEF ApplyBoost
  <2>1. RegistryComplete'
    BY <1>2, <2>0, <2>b DEF ApplyBoost, IInv, RegistryComplete, BoostedKeys, Exists, RoomKeys, Key
  <2>2. SnapshotsComplete'
    BY <2>0, <2>b DEF IInv, SnapshotsComplete, Exists
  <2>3. ReadsAreOld'
    BY <1>0, <2>0, <2>a, <2>b DEF IInv, ReadsAreOld
  <2>4. NothingBefore'
    BY <1>0, <2>0 DEF NothingBefore
  <2>5. CreatedAlone'
    BY <1>2, <2>b DEF ApplyBoost, IInv, CreatedAlone
  <2>6. JoinersWereInvited'
    BY <2>b DEF IInv, JoinersWereInvited
  <2>7. DeadlinesAhead'
    <3>1. ASSUME NEW k \in Key, ttl'[k] > NoTTL
          PROVE  ttl'[k] > now
      <4>1. ttl'[k] = meta.exp + BoostTTL \/ ttl'[k] = ttl[k] \/ ttl'[k] = NoTTL
        BY <1>2 DEF ApplyBoost, BoostedExpiry, Touch
      <4>2. CASE ttl'[k] = meta.exp + BoostTTL
        BY <1>0, <2>0, <2>a, <4>2
      <4>3. CASE ttl'[k] = ttl[k]
        BY <3>1, <4>3 DEF IInv, DeadlinesAhead
      <4>4. QED
        BY <1>0, <3>1, <4>1, <4>2, <4>3 DEF NoTTL
    <3>2. QED
      BY <1>2, <3>1 DEF DeadlinesAhead, ApplyBoost
  <2>8. MetaExpires'
    BY <1>0, <1>2, <2>0, <2>a DEF ApplyBoost, MetaExpires, Open, BoostedExpiry, BoostedKeys
  <2>9. MessagesExpire'
    <3>1. ttl'["events"] = meta.exp + BoostTTL
      BY <1>2, <2>0, <2>a DEF ApplyBoost, BoostedExpiry, BoostedKeys
    <3>2. now' = now
      BY <1>2 DEF ApplyBoost
    <3>3. QED
      BY <1>0, <2>0, <2>a, <3>1, <3>2 DEF MessagesExpire
  <2>10. QED
    BY <1>0, <2>1, <2>2, <2>3, <2>4, <2>5, <2>6, <2>7, <2>8, <2>9 DEF IInv
<1>3. CASE Tick
  <2>0. /\ UNCHANGED <<req, told, meta, epoch>> /\ now' = now + 1
        /\ \A k \in Key : ttl'[k] = IF ttl[k] \in 1..(now + 1) THEN Absent ELSE ttl[k]
        /\ keys' = IF ttl["keys"] \in 1..(now + 1) THEN {} ELSE keys
        /\ "meta" \in Key /\ "keys" \in Key /\ "events" \in Key
    BY <1>3 DEF Tick, Drop, Due, Key, RoomKeys
  <2>1. RegistryComplete'
    BY <1>0, <2>0 DEF IInv, RegistryComplete, Exists, Absent
  <2>2. SnapshotsComplete'
    BY <1>0, <2>0 DEF IInv, SnapshotsComplete, Exists
  <2>3. ReadsAreOld'
    BY <2>0 DEF IInv, ReadsAreOld
  <2>4. NothingBefore'
    BY <1>0, <2>0 DEF IInv, NothingBefore, Exists, Absent
  <2>5. CreatedAlone'
    BY <2>0 DEF IInv, CreatedAlone
  <2>6. JoinersWereInvited'
    BY <2>0 DEF IInv, JoinersWereInvited
  <2>7. DeadlinesAhead'
    BY <1>0, <2>0 DEF IInv, DeadlinesAhead, Absent, NoTTL
  <2>8. MetaExpires'
    BY <1>0, <2>0 DEF IInv, MetaExpires, Open, Exists, Absent
  <2>9. MessagesExpire'
    BY <1>0, <2>0 DEF IInv, MessagesExpire, Exists, Absent
  <2>10. QED
    BY <1>0, <2>1, <2>2, <2>3, <2>4, <2>5, <2>6, <2>7, <2>8, <2>9 DEF IInv
<1>4. CASE LoseNotification \/ UNCHANGED vars
  <2>1. UNCHANGED <<now, ttl, meta, keys, epoch, req, told>>
    BY <1>4 DEF LoseNotification, vars, store
  <2>2. QED
    BY <1>0, <2>1 DEF IInv, RegistryComplete, SnapshotsComplete, ReadsAreOld, NothingBefore,
       CreatedAlone, JoinersWereInvited, DeadlinesAhead, MetaExpires, MessagesExpire, Open, Exists
<1>5. QED
  BY <1>1, <1>2, <1>3, <1>4 DEF Next

\* It holds of a store that has no key of the room.
LEMMA InitInvariant == Init => IInv
<1> SUFFICES ASSUME Init
             PROVE  IInv
  OBVIOUS
<1>1. TypeOK
  BY InitTypes
<1>2. /\ \A k \in Key : ttl[k] = Absent
      /\ \A r \in Req : req[r] = Idle
      /\ told = {} /\ keys = {} /\ meta.exp = 0 /\ now = 0
  BY DEF Init
<1>3. \A k \in {"meta", "keys", "events"} : k \in Key
  BY DEF Key, RoomKeys
<1>4. QED
  BY <1>1, <1>2, <1>3 DEF IInv, RegistryComplete, SnapshotsComplete, ReadsAreOld, NothingBefore,
     CreatedAlone, JoinersWereInvited, DeadlinesAhead, MetaExpires, MessagesExpire, Open, Exists,
     Idle, Absent, NoTTL

\* The invariant holds in every reachable state of the room's keys.
THEOREM Invariance == Spec => []IInv
BY InitInvariant, NextInvariant, PTL DEF Spec

\* The stored messages of a room always carry a deadline that is still ahead
\* and no later than the room's last expires_at.
THEOREM MessagesAlwaysExpire == Spec => []MessagesExpire
<1>1. IInv => MessagesExpire
  BY DEF IInv
<1>2. QED
  BY <1>1, Invariance, PTL
=============================================================================
