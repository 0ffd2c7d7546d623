------------------------------ MODULE RoomStore ------------------------------
(***************************************************************************)
(* The Redis keys of one room and the backend requests that work on them   *)
(* (backend/internal/store/redis, backend/internal/cleanup).               *)
(*                                                                         *)
(* A request is a process: every round trip to Redis is a step of its own, *)
(* so that the steps of several requests interleave as they do in Redis.   *)
(* A pipeline is one round trip and one step; the Lua script of ApplyBoost *)
(* is one step because Redis runs a script atomically.                     *)
(*                                                                         *)
(* A key's deadline is ttl[k]: Absent, NoTTL (the key never expires), or   *)
(* the instant Redis drops it.  Time is counted in coarse ticks.           *)
(***************************************************************************)
EXTENDS Integers, FiniteSets

CONSTANTS
  Users,         \* user ids handed out by nanoid: one per join
  Creator,       \* the id handed out by CreateRoom
  Req,           \* slots for requests in flight at the same time
  FreeTTL, FreeMaxP, FreeMaxE,      \* freeTTL, freeMaxParticipants, freeMaxEvents
  BoostTTL, BoostMaxP, BoostMaxE,   \* what one boost tier grants
  Instances,     \* backend instances, each with its own cleanup subscription
  MaxTime,       \* bound on the clock
  Limit,         \* bound on the operations of each kind
  MaxOps         \* bound on the operations of all kinds

RoomKeys == {"meta", "users", "events", "event_seq", "keys"}

\* The user meta hash of u, room:{id}:user:{u}:meta, is named by u itself.
Key == RoomKeys \cup Users

\* Room operations, and failures of a request.
Kinds == {"join", "send", "leave", "boost", "fail"}

ASSUME RoomAssumption ==
  /\ Creator \in Users
  /\ Users \cap RoomKeys = {}
  /\ IsFiniteSet(Users)
  /\ {FreeTTL, FreeMaxP, FreeMaxE, BoostTTL, BoostMaxP, BoostMaxE} \subseteq Nat \ {0}
  /\ {Instances, MaxTime, MaxOps} \subseteq Nat
  /\ Limit \in [Kinds -> Nat]

VARIABLES
  now,      \* the clock
  ttl,      \* deadline of every key
  meta,     \* room meta hash; keeps its last value once the key is gone
  users,    \* users hash: the ids that joined
  um,       \* user meta hashes: join_eid, and whether left_at is set
  seq,      \* event_seq counter
  epoch,    \* history: counters the room has had: INCR starts a missing one
  events,   \* events sorted set: <<eid, epoch>> of each stored event
  keys,     \* the registry set room:{id}:keys
  req,      \* requests in flight
  fresh,    \* ids nanoid has not handed out yet
  told,     \* users whose create or join was answered with their id
  notif,    \* expired notifications still on their way to a worker
  count,    \* operations begun, per kind
  races     \* history: kinds of race and failure that have happened

vars == <<now, ttl, meta, users, um, seq, epoch, events, keys, req, fresh,
          told, notif, count, races>>
store == <<ttl, meta, users, um, seq, epoch, events, keys>>

-----------------------------------------------------------------------------
(* Deadlines and single Redis commands.                                    *)

Absent == -1
NoTTL  == 0
NoUserMeta == [joinEid |-> 0, left |-> FALSE]

Exists(k) == ttl[k] # Absent

\* A write to a key that does not exist creates it without a deadline.
Touch(k) == IF Exists(k) THEN ttl[k] ELSE NoTTL

\* PEXPIREAT on an existing key: an instant that has passed deletes it.
Until(t) == IF t > now THEN t ELSE Absent

\* The keys of D are gone (expired or deleted); hashes and sets read as empty.
Drop(D) ==
  /\ ttl' = [k \in Key |-> IF k \in D THEN Absent ELSE ttl[k]]
  /\ users' = IF "users" \in D THEN {} ELSE users
  /\ um' = [u \in Users |-> IF u \in D THEN NoUserMeta ELSE um[u]]
  /\ seq' = IF "event_seq" \in D THEN 0 ELSE seq
  /\ events' = IF "events" \in D THEN {} ELSE events
  /\ keys' = IF "keys" \in D THEN {} ELSE keys
  /\ UNCHANGED <<meta, epoch>>

\* ZREMRANGEBYRANK 0 -(n+1): the n highest ranks stay.  Equal scores are
\* ranked by their bytes, which the model leaves open.
Trims(S, n) ==
  IF Cardinality(S) <= n THEN {S}
  ELSE {T \in SUBSET S : /\ Cardinality(T) = n
                         /\ \A e \in T, f \in S \ T : e[1] >= f[1]}

-----------------------------------------------------------------------------
(* Requests.  op is the operation, pc its next round trip; exp, maxP and   *)
(* maxE are what it read from meta, ev the event INCR gave it the eid of,  *)
(* and todo the users or keys it still has to go through.                  *)

Idle == [op |-> "none", pc |-> "idle", u |-> Creator, exp |-> 0, maxP |-> 0,
         maxE |-> 0, ev |-> <<0, 0>>, todo |-> {}]

Ops == {"none", "create", "join", "leave", "send", "cleanup"}
Pcs == {"idle", "incr", "append", "joineid", "ttl_list", "ttl_set", "hlen",
        "enter", "getroom", "leftat", "hkeys", "check", "list", "del"}

\* The steps before which a request still relies on what it read from meta.
Relying == {"hlen", "enter", "leftat", "incr", "append"}

\* Steps that write keys of the room without looking at meta again.
Writing == Relying \cup {"joineid", "ttl_set"}

At(r, pc) == req[r].pc = pc
Go(r, pc) == req' = [req EXCEPT ![r].pc = pc]
Done(r)   == req' = [req EXCEPT ![r] = Idle]
Start(r, op, pc, u) ==
  req' = [req EXCEPT ![r] = [op |-> op, pc |-> pc, u |-> u, exp |-> meta.exp,
                             maxP |-> meta.maxP, maxE |-> meta.maxE,
                             ev |-> <<0, 0>>, todo |-> {}]]

\* A room that goes away under a request that will still write to it.
CloseRace(D) ==
  IF Exists("meta") /\ "meta" \in D /\ \E r \in Req : req[r].pc \in Writing
  THEN {"close"} ELSE {}

BoostRace ==
  IF \E r \in Req : req[r].op # "create" /\ req[r].pc \in Relying THEN {"boost"} ELSE {}

\* A user who enters after a leave has listed the users it will check.
EnterRace ==
  IF \E s \in Req : req[s].op = "leave" /\ req[s].pc \in {"check", "list", "del"}
  THEN {"enter"} ELSE {}

JoinRace(r) ==
  IF \E s \in Req \ {r} : At(s, "enter") THEN {"join"} ELSE {}

\* Bounds of the model: one more operation of this kind begins.
Begin(kind) ==
  /\ count[kind] < Limit[kind]
  /\ count["join"] + count["send"] + count["leave"] + count["boost"] < MaxOps
  /\ count' = [count EXCEPT ![kind] = @ + 1]

-----------------------------------------------------------------------------
(* CreateRoom.                                                             *)

\* Mutants: a key the registry forgets.
RegistryNoSeq  == {"meta", "users", "events", "keys", Creator}
RegistryNoMeta == {"users", "events", "event_seq", "keys", Creator}

\* The keys CreateRoom enters in the registry set.
Registry == RoomKeys \cup {Creator}

\* The room's keys written in one pipeline, all without a deadline.
CreateRoom(r) ==
  /\ At(r, "idle")
  /\ epoch = 0
  /\ meta' = [exp |-> now + FreeTTL, maxP |-> FreeMaxP, maxE |-> FreeMaxE]
  /\ ttl' = [k \in Key |-> IF k \in {"meta", "users", "event_seq", "keys", Creator}
                           THEN NoTTL ELSE ttl[k]]
  /\ users' = {Creator}
  /\ um' = [um EXCEPT ![Creator] = NoUserMeta]
  /\ seq' = 0
  /\ epoch' = 1
  /\ keys' = Registry
  /\ fresh' = fresh \ {Creator}
  /\ req' = [req EXCEPT ![r] = [op |-> "create", pc |-> "incr", u |-> Creator,
                                exp |-> now + FreeTTL, maxP |-> FreeMaxP,
                                maxE |-> FreeMaxE, ev |-> <<0, 0>>, todo |-> {}]]
  /\ UNCHANGED <<now, events, told, notif, count, races>>

\* pexpireAllKeys: SMEMBERS, then PEXPIREAT on every member.
ExpireAllList(r) ==
  /\ At(r, "ttl_list")
  /\ req' = [req EXCEPT ![r].pc = "ttl_set", ![r].todo = keys]
  /\ UNCHANGED <<now, store, fresh, told, notif, count, races>>

ExpireAllSet(r) ==
  /\ At(r, "ttl_set")
  /\ IF req[r].exp > now
     THEN /\ ttl' = [k \in Key |-> IF k \in req[r].todo /\ Exists(k)
                                   THEN req[r].exp ELSE ttl[k]]
          /\ UNCHANGED <<meta, users, um, seq, epoch, events, keys>>
     ELSE Drop(req[r].todo)
  /\ told' = told \cup {Creator}
  /\ Done(r)
  /\ UNCHANGED <<now, fresh, notif, count, races>>

-----------------------------------------------------------------------------
(* JoinRoom.                                                               *)

JoinRead(r, u) ==
  /\ At(r, "idle")
  /\ told # {}
  /\ u \in fresh
  /\ Exists("meta")
  /\ fresh' = fresh \ {u}
  /\ Start(r, "join", "hlen", u)
  /\ Begin("join")
  /\ UNCHANGED <<now, store, told, notif, races>>

\* Mutant: the cap itself is still let in.
IsFullLate(r) == Cardinality(users) > req[r].maxP

\* HLEN users against the cap that was read.
IsFull(r) == Cardinality(users) >= req[r].maxP

\* ErrRoomFull.
JoinFull(r) ==
  /\ At(r, "hlen")
  /\ IsFull(r)
  /\ Done(r)
  /\ UNCHANGED <<now, store, fresh, told, notif, count, races>>

JoinRoom(r) ==
  /\ At(r, "hlen")
  /\ ~IsFull(r)
  /\ Go(r, "enter")
  /\ races' = races \cup JoinRace(r)
  /\ UNCHANGED <<now, store, fresh, told, notif, count>>

\* Mutant: the user meta key is written without PEXPIREAT.
EnterTTLForgotten(u, exp) ==
  [ttl EXCEPT !["users"] = Touch("users"), !["keys"] = Touch("keys"), ![u] = NoTTL]

EnterTTL(u, exp) ==
  [ttl EXCEPT !["users"] = Touch("users"), !["keys"] = Touch("keys"), ![u] = Until(exp)]

\* The pipeline that registers the user; only the user meta key gets a
\* deadline, the one read at the start.
JoinEnter(r) ==
  /\ At(r, "enter")
  /\ LET u == req[r].u IN
       /\ users' = users \cup {u}
       /\ um' = [um EXCEPT ![u] = NoUserMeta]
       /\ keys' = keys \cup {u}
       /\ ttl' = EnterTTL(u, req[r].exp)
  /\ Go(r, "incr")
  /\ races' = races \cup EnterRace
  /\ UNCHANGED <<now, meta, seq, epoch, events, fresh, told, notif, count>>

\* HSET join_eid on the user meta hash, which it creates when it is gone.
SetJoinEid(r) ==
  /\ At(r, "joineid")
  /\ LET u == req[r].u IN
       /\ um' = [um EXCEPT ![u].joinEid = req[r].ev[1]]
       /\ ttl' = [ttl EXCEPT ![u] = Touch(u)]
  /\ Go(r, IF req[r].op = "create" THEN "ttl_list" ELSE "getroom")
  /\ UNCHANGED <<now, meta, users, seq, epoch, events, keys, fresh, told, notif, count, races>>

\* The closing GetRoom: when meta is gone the join is answered 404 and the
\* user never learns the id.
GetRoom(r) ==
  /\ At(r, "getroom")
  /\ told' = IF Exists("meta") THEN told \cup {req[r].u} ELSE told
  /\ Done(r)
  /\ UNCHANGED <<now, store, fresh, notif, count, races>>

-----------------------------------------------------------------------------
(* AppendMessage, and the append that CreateRoom, JoinRoom and SetUserLeft *)
(* share with it.                                                          *)

SendRead(r) ==
  /\ At(r, "idle")
  /\ told # {}
  /\ Exists("meta")
  /\ Start(r, "send", "incr", Creator)
  /\ Begin("send")
  /\ UNCHANGED <<now, store, fresh, told, notif, races>>

\* INCR on a counter that does not exist starts it again from 0.
NextEpoch == IF Exists("event_seq") THEN epoch ELSE epoch + 1

AppendIncr(r) ==
  /\ At(r, "incr")
  /\ seq' = seq + 1
  /\ epoch' = NextEpoch
  /\ ttl' = [ttl EXCEPT !["event_seq"] = Touch("event_seq")]
  /\ req' = [req EXCEPT ![r].pc = "append", ![r].ev = <<seq + 1, NextEpoch>>]
  /\ UNCHANGED <<now, meta, users, um, events, keys, fresh, told, notif, count, races>>

\* Mutant: only the counter gets its PEXPIREAT.
AppendTTLSeqOnly(exp) ==
  [ttl EXCEPT !["events"] = Touch("events"),
              !["event_seq"] = IF Exists("event_seq") THEN Until(exp) ELSE Absent]

\* The deadlines after the two PEXPIREATs of an append.
AppendTTL(exp) ==
  [ttl EXCEPT !["events"] = Until(exp),
              !["event_seq"] = IF Exists("event_seq") THEN Until(exp) ELSE Absent]

\* ZADD, ZREMRANGEBYRANK and the two PEXPIREATs with the deadline and the
\* cap that the request read before.
AppendEvent(r) ==
  /\ At(r, "append")
  /\ LET alive == req[r].exp > now
         stored == events \cup {req[r].ev}
     IN /\ IF alive THEN events' \in Trims(stored, req[r].maxE) ELSE events' = {}
        /\ seq' = IF alive THEN seq ELSE 0
        /\ ttl' = AppendTTL(req[r].exp)
  /\ CASE req[r].op \in {"create", "join"} -> Go(r, "joineid")
       [] req[r].op = "leave" -> Go(r, "hkeys")
       [] OTHER -> Done(r)
  /\ UNCHANGED <<now, meta, users, um, epoch, keys, fresh, told, notif, count, races>>

-----------------------------------------------------------------------------
(* SetUserLeft, isRoomEmpty and DeleteRoom.                                *)

LeaveRead(r, u) ==
  /\ At(r, "idle")
  /\ u \in told
  /\ Exists("meta")
  /\ Start(r, "leave", "leftat", u)
  /\ Begin("leave")
  /\ UNCHANGED <<now, store, fresh, told, notif, races>>

SetUserLeft(r) ==
  /\ At(r, "leftat")
  /\ LET u == req[r].u IN
       /\ um' = [um EXCEPT ![u].left = TRUE]
       /\ ttl' = [ttl EXCEPT ![u] = Touch(u)]
  /\ Go(r, "incr")
  /\ UNCHANGED <<now, meta, users, seq, epoch, events, keys, fresh, told, notif, count, races>>

\* HKEYS users: nobody left means empty.
IsRoomEmptyKeys(r) ==
  /\ At(r, "hkeys")
  /\ req' = [req EXCEPT ![r].pc = IF users = {} THEN "list" ELSE "check",
                        ![r].todo = users]
  /\ UNCHANGED <<now, store, fresh, told, notif, count, races>>

\* Mutant: one user who left is enough.
IsRoomEmptyAny(r) ==
  /\ At(r, "check")
  /\ \E u \in req[r].todo : IF um[u].left THEN Go(r, "list") ELSE Done(r)
  /\ UNCHANGED <<now, store, fresh, told, notif, count, races>>

\* HGET left_at, one user after another in the order of the hash.
IsRoomEmptyNext(r) ==
  /\ At(r, "check")
  /\ \E u \in req[r].todo :
       IF um[u].left
       THEN req' = [req EXCEPT ![r].pc = IF req[r].todo = {u} THEN "list" ELSE "check",
                               ![r].todo = @ \ {u}]
       ELSE Done(r)
  /\ UNCHANGED <<now, store, fresh, told, notif, count, races>>

DeleteRoomList(r) ==
  /\ At(r, "list")
  /\ IF keys = {} THEN Done(r)
     ELSE req' = [req EXCEPT ![r].pc = "del", ![r].todo = keys]
  /\ UNCHANGED <<now, store, fresh, told, notif, count, races>>

DeleteRoom(r) ==
  /\ At(r, "del")
  /\ LET D == req[r].todo \cup {"keys"} IN
       /\ Drop(D)
       /\ races' = races \cup CloseRace(D)
  /\ Done(r)
  /\ UNCHANGED <<now, fresh, told, notif, count>>

-----------------------------------------------------------------------------
(* ApplyBoost: the Lua script.                                             *)

Larger(a, b) == IF a >= b THEN a ELSE b

\* Mutants: the time counted from now; only the fixed keys extended.
ExpiryFromNow == now + BoostTTL
FixedKeys == RoomKeys

\* The keys the script sets the new deadline on: SMEMBERS of the registry.
BoostedKeys == keys

\* A boost adds its time to whatever the room has left.
BoostedExpiry == meta.exp + BoostTTL

ApplyBoost ==
  /\ told # {}
  /\ Exists("meta")
  /\ LET exp == BoostedExpiry
         maxE == Larger(meta.maxE, BoostMaxE)
     IN /\ meta' = [exp |-> exp, maxP |-> Larger(meta.maxP, BoostMaxP), maxE |-> maxE]
        /\ seq' = seq + 1
        /\ epoch' = NextEpoch
        /\ events' \in Trims(events \cup {<<seq + 1, NextEpoch>>}, maxE)
        /\ ttl' = [k \in Key |->
                     IF k \in BoostedKeys /\ (Exists(k) \/ k \in {"event_seq", "events"})
                     THEN exp
                     ELSE IF k \in {"event_seq", "events"} THEN Touch(k) ELSE ttl[k]]
  /\ races' = races \cup BoostRace
  /\ Begin("boost")
  /\ UNCHANGED <<now, users, um, keys, req, fresh, told, notif>>

-----------------------------------------------------------------------------
(* Expiry and the cleanup worker.                                          *)

Due == {k \in Key : ttl[k] \in 1..(now + 1)}

\* Redis drops what is due and publishes an expired event for each key; the
\* worker reacts to those that end in ":meta": the room's and its users'.
Tick ==
  /\ now < MaxTime
  /\ now' = now + 1
  /\ Drop(Due)
  /\ notif' = notif + Instances * Cardinality(Due \cap (Users \cup {"meta"}))
  /\ races' = races \cup CloseRace(Due)
  /\ UNCHANGED <<req, fresh, told, count>>

\* Mutant: the worker runs without a notification.
HandleNothing(r) ==
  /\ At(r, "idle")
  /\ notif' = notif - 1
  /\ req' = [req EXCEPT ![r] = [Idle EXCEPT !.op = "cleanup", !.pc = "list"]]
  /\ UNCHANGED <<now, store, fresh, told, count, races>>

\* handleExpiry calls DeleteRoom for the room named in the key.
HandleExpiry(r) ==
  /\ At(r, "idle")
  /\ notif > 0
  /\ notif' = notif - 1
  /\ req' = [req EXCEPT ![r] = [Idle EXCEPT !.op = "cleanup", !.pc = "list"]]
  /\ UNCHANGED <<now, store, fresh, told, count, races>>

\* Keyspace notifications are fire and forget: a worker that is not
\* subscribed at that moment never gets it.
LoseNotification ==
  /\ notif > 0
  /\ notif' = notif - 1
  /\ UNCHANGED <<now, store, req, fresh, told, count, races>>

\* A request ends before its next step: the process dies, or Redis returns an
\* error and the handler answers 500.
Fail(r) ==
  /\ ~At(r, "idle")
  /\ Done(r)
  /\ count["fail"] < Limit["fail"]
  /\ count' = [count EXCEPT !["fail"] = @ + 1]
  /\ races' = races \cup {"crash"}
  /\ UNCHANGED <<now, store, fresh, told, notif>>

-----------------------------------------------------------------------------
Init ==
  /\ now = 0
  /\ ttl = [k \in Key |-> Absent]
  /\ meta = [exp |-> 0, maxP |-> 0, maxE |-> 0]
  /\ users = {}
  /\ um = [u \in Users |-> NoUserMeta]
  /\ seq = 0
  /\ epoch = 0
  /\ events = {}
  /\ keys = {}
  /\ req = [r \in Req |-> Idle]
  /\ fresh = Users
  /\ told = {}
  /\ notif = 0
  /\ count = [k \in Kinds |-> 0]
  /\ races = {}

Step(r) ==
  \/ CreateRoom(r) \/ ExpireAllList(r) \/ ExpireAllSet(r)
  \/ \E u \in Users : JoinRead(r, u) \/ LeaveRead(r, u)
  \/ JoinFull(r) \/ JoinRoom(r) \/ JoinEnter(r) \/ SetJoinEid(r) \/ GetRoom(r)
  \/ SendRead(r) \/ AppendIncr(r) \/ AppendEvent(r)
  \/ SetUserLeft(r) \/ IsRoomEmptyKeys(r) \/ IsRoomEmptyNext(r)
  \/ DeleteRoomList(r) \/ DeleteRoom(r)
  \/ HandleExpiry(r) \/ Fail(r)

Next ==
  \/ \E r \in Req : Step(r)
  \/ ApplyBoost \/ Tick \/ LoseNotification

Spec == Init /\ [][Next]_vars

-----------------------------------------------------------------------------
(* Properties.  Several of them hold only as long as one kind of race has  *)
(* not happened; races says which kinds have.                              *)

Without(kinds) == races \cap kinds = {}
Quiet == \A r \in Req : At(r, "idle")
Open == Exists("meta") /\ told # {}

TypeOK ==
  /\ now \in 0..MaxTime
  /\ ttl \in [Key -> Nat \cup {Absent}]
  /\ meta \in [exp : Nat, maxP : Nat, maxE : Nat]
  /\ users \subseteq Users
  /\ um \in [Users -> [joinEid : Nat, left : BOOLEAN]]
  /\ seq \in Nat
  /\ epoch \in Nat
  /\ events \subseteq Nat \X Nat
  /\ keys \subseteq Key
  /\ req \in [Req -> [op : Ops, pc : Pcs, u : Users, exp : Nat, maxP : Nat, maxE : Nat,
                      ev : Nat \X Nat, todo : SUBSET Key]]
  /\ fresh \subseteq Users
  /\ told \subseteq Users
  /\ notif \in Nat
  /\ count \in [Kinds -> Nat]
  /\ races \subseteq {"boost", "join", "enter", "close", "crash"}

\* The stored messages always carry a deadline, one that is still ahead and
\* never later than the last expires_at of the room: whatever fails or races,
\* no message outlives the room it was sent to (redis_design.md, "All keys
\* carry the room TTL").
MessagesExpire == Exists("events") => ttl["events"] \in (now + 1)..meta.exp

\* While the room is open all its keys have the same deadline, its
\* expires_at, unless a boost came between the read and the write of an
\* operation (redis_design.md, "All keys must share the same absolute
\* deadline").
KeysShareDeadline ==
  Open /\ Without({"boost"}) => \A k \in Key : Exists(k) => ttl[k] = meta.exp

\* A room never has more users than its cap, unless two joins counted the
\* users before either had entered.
CapacityRespected ==
  Exists("meta") /\ Without({"join"}) => Cardinality(users) <= meta.maxP

\* Event ids are never handed out twice while the room is open: the counter
\* has not been restarted, and no stored event or user is ahead of it, unless
\* a boost raced with an operation (redis_design.md, "event_seq").
EidsNotReused ==
  Open /\ Without({"boost"}) =>
    /\ epoch = 1
    /\ \A e \in events : e[1] <= seq
    /\ \A u \in users : um[u].joinEid <= seq
    /\ \A r, s \in Req : r # s /\ At(r, "append") /\ At(s, "append") => req[r].ev # req[s].ev
    /\ \A r \in Req : At(r, "append") => req[r].ev \notin events

\* Once everybody has left and nothing is in flight the room is gone, however
\* the leaves interleaved (SetUserLeft's comment), unless an operation died
\* halfway or a boost race made a user meta key expire early.
EmptyRoomIsDeleted ==
  Quiet /\ Open /\ Without({"boost", "crash"}) => \E u \in users : ~um[u].left

\* Once the room is gone every key that is left will expire by itself, although
\* requests died halfway, unless the room went away under a request that was
\* still writing, or a boost race made a key expire early that a later write
\* brought back without a deadline.
NothingLeaks ==
  epoch > 0 /\ ~Exists("meta") /\ Without({"boost", "close"})
  => \A k \in Key : ttl[k] # NoTTL

\* A room is removed before its deadline only when all its users have left,
\* unless someone entered while the last leave was checking, or a boost race
\* made a user meta key expire and the worker took it for the room's.
EarlyRemovalOnlyWhenEmpty ==
  [][ Open /\ ~Exists("meta")' /\ now' < meta.exp /\ Without({"boost", "enter"})
        => \A u \in users : um[u].left ]_vars

\* The room as its users are promised it: see RoomPromise.
Promise == INSTANCE RoomPromise WITH
  clock    <- now,
  status   <- IF epoch = 0 THEN "none"
              ELSE IF Exists("meta") THEN "open" ELSE "closed",
  deadline <- meta.exp,
  maxP     <- meta.maxP,
  maxE     <- meta.maxE,
  holding  <- Exists("events")

\* The keys of the room implement the promise: a room opens once, only boosts
\* change its terms and only for the better, it never comes back once it is
\* closed, and its messages are gone when the deadline is reached.
KeepsPromise == Promise!Spec

-----------------------------------------------------------------------------
(* What the documents say and the code does not keep.                      *)

\* redis_design.md:181, "Listen for expired events on room:{roomId}:meta.
\* When fired, the cleanup worker calls DeleteRoom": the worker never deletes
\* a room whose own deadline is still ahead.
WorkerDeletesExpiredRooms ==
  [][ \A r \in Req : req[r].op = "cleanup" /\ Exists("meta") /\ ~Exists("meta")'
        => now' >= meta.exp ]_vars
=============================================================================
