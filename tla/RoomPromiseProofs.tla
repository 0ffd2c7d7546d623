-------------------------- MODULE RoomPromiseProofs --------------------------
(***************************************************************************)
(* Proof that the keys of a room implement RoomPromise: every round trip   *)
(* is a step of the promise or changes nothing of it.                      *)
(***************************************************************************)
EXTENDS RoomStoreProofs

\* A step that keeps the clock, the terms and the two keys that the promise
\* speaks of is a stutter.
LEMMA NothingPromisedChanges ==
  ASSUME now' = now, meta' = meta, (epoch = 0) <=> (epoch' = 0),
         (ttl["meta"] = Absent) <=> (ttl'["meta"] = Absent),
         (ttl["events"] = Absent) <=> (ttl'["events"] = Absent)
  PROVE  UNCHANGED Promise!vars
BY DEF Promise!vars, Promise!terms, Exists

\* Keys that are dropped at an instant close the room or erase its messages.
LEMMA DropClosesOrErases ==
  ASSUME IInv, NEW D, Drop(D), now' = now
  PROVE  [Promise!Next]_Promise!vars
<1>0. /\ "meta" \in Key /\ "events" \in Key
      /\ meta' = meta /\ epoch' = epoch
      /\ ttl' = [k \in Key |-> IF k \in D THEN Absent ELSE ttl[k]]
  BY DEF Drop, Key, RoomKeys
<1>1. CASE "meta" \in D /\ Exists("meta")
  <2>1. Promise!Close
    BY <1>0, <1>1 DEF Promise!Close, Promise!terms, Exists, IInv, NothingBefore
  <2>2. QED
    BY <2>1 DEF Promise!Next
<1>2. CASE ~("meta" \in D /\ Exists("meta")) /\ "events" \in D
  <2>1. Promise!Erase
    BY <1>0, <1>2 DEF Promise!Erase, Promise!terms, Exists
  <2>2. QED
    BY <2>1 DEF Promise!Next
<1>3. CASE ~("meta" \in D /\ Exists("meta")) /\ "events" \notin D
  BY <1>0, <1>3, NothingPromisedChanges DEF Exists
<1>4. QED
  BY <1>1, <1>2, <1>3

\* An append stores with the deadline its request read, which is the room's
\* or an older one, or erases.
LEMMA AppendHoldsOrErases ==
  ASSUME IInv, NEW r \in Req, AppendEvent(r)
  PROVE  Promise!Next
<1>0. /\ now \in Nat /\ meta.exp \in Nat /\ req[r].exp \in Nat /\ req[r].exp <= meta.exp
      /\ ttl \in [Key -> Nat \cup {Absent}]
  BY RoomAssumption DEF IInv, TypeOK, ReadsAreOld
<1>1. /\ now' = now /\ meta' = meta /\ epoch' = epoch
      /\ ttl'["meta"] = ttl["meta"] /\ ttl'["events"] = Until(req[r].exp)
  BY <1>0 DEF AppendEvent, AppendTTL, Key, RoomKeys
<1>2. CASE req[r].exp > now
  <2>1. Promise!Hold
    BY <1>0, <1>1, <1>2 DEF Promise!Hold, Promise!terms, Exists, Until, Absent
  <2>2. QED
    BY <2>1 DEF Promise!Next
<1>3. CASE ~(req[r].exp > now)
  <2>1. Promise!Erase
    BY <1>1, <1>3 DEF Promise!Erase, Promise!terms, Exists, Until
  <2>2. QED
    BY <2>1 DEF Promise!Next
<1>4. QED
  BY <1>2, <1>3

\* Every round trip of a request is a step of the promise or a stutter.
LEMMA StepKeepsPromise ==
  ASSUME IInv, NEW r \in Req, Step(r)
  PROVE  [Promise!Next]_Promise!vars
<1> USE DEF store
<1>0. /\ ttl \in [Key -> Nat \cup {Absent}] /\ now \in Nat /\ epoch \in Nat
      /\ req[r].u \in Users /\ "meta" \in Key /\ "events" \in Key
      /\ "meta" \notin Users /\ "events" \notin Users
      /\ req[r].pc \notin {"idle", "list"} => epoch > 0
  BY RoomAssumption DEF IInv, TypeOK, NothingBefore, Key, RoomKeys
<1>1. CASE CreateRoom(r)
  <2>1. Promise!Open
    BY <1>0, <1>1, RoomAssumption
    DEF CreateRoom, Promise!Open, Promise!terms, Exists, Absent, NoTTL, Key, RoomKeys
  <2>2. QED
    BY <2>1 DEF Promise!Next
<1>2. CASE ExpireAllSet(r)
  <2>1. CASE req[r].exp > now
    BY <1>0, <1>2, <2>1, NothingPromisedChanges DEF ExpireAllSet, Exists, Absent, IInv, TypeOK
  <2>2. CASE ~(req[r].exp > now)
    BY <1>2, <2>2, DropClosesOrErases DEF ExpireAllSet
  <2>3. QED
    BY <2>1, <2>2
<1>3. CASE DeleteRoom(r)
  BY <1>3, DropClosesOrErases DEF DeleteRoom
<1>4. CASE AppendEvent(r)
  BY <1>4, AppendHoldsOrErases
<1>5. CASE AppendIncr(r)
  <2>1. epoch > 0 /\ epoch' > 0
    BY <1>0, <1>5 DEF AppendIncr, At, NextEpoch
  <2>2. ttl'["meta"] = ttl["meta"] /\ ttl'["events"] = ttl["events"]
    BY <1>0, <1>5 DEF AppendIncr
  <2>3. now' = now /\ meta' = meta
    BY <1>5 DEF AppendIncr
  <2>4. QED
    BY <1>0, <2>1, <2>2, <2>3, NothingPromisedChanges
<1>6. CASE JoinEnter(r) \/ SetJoinEid(r) \/ SetUserLeft(r)
  <2>1. ttl'["meta"] = ttl["meta"] /\ ttl'["events"] = ttl["events"]
    BY <1>0, <1>6 DEF JoinEnter, EnterTTL, SetJoinEid, SetUserLeft
  <2>2. now' = now /\ meta' = meta /\ epoch' = epoch
    BY <1>6 DEF JoinEnter, SetJoinEid, SetUserLeft
  <2>3. QED
    BY <2>1, <2>2, NothingPromisedChanges
<1>7. CASE Reads(r)
  <2>1. now' = now /\ meta' = meta /\ epoch' = epoch /\ ttl' = ttl
    BY <1>7, ReadsProceed DEF Proceeds
  <2>2. QED
    BY <2>1, NothingPromisedChanges
<1>8. QED
  BY <1>1, <1>2, <1>3, <1>4, <1>5, <1>6, <1>7 DEF Step, Reads

\* So is the boost script, which only a room somebody was told of can get.
LEMMA ApplyBoostIsBoost ==
  ASSUME IInv, ApplyBoost
  PROVE  Promise!Boost
<1>0. /\ epoch \in Nat /\ epoch > 0 /\ BoostTTL \in Nat /\ meta.exp \in Nat
      /\ "meta" \in Key /\ "events" \in Key
      /\ "meta" \in keys /\ "events" \in keys
  BY RoomAssumption
  DEF ApplyBoost, IInv, TypeOK, NothingBefore, RegistryComplete, Key, RoomKeys
<1>1. epoch' > 0
  BY <1>0 DEF ApplyBoost, NextEpoch
<1>2. ttl'["meta"] = meta.exp + BoostTTL /\ ttl'["events"] = meta.exp + BoostTTL
  BY <1>0 DEF ApplyBoost, BoostedExpiry, BoostedKeys
<1>3. /\ meta'.exp = meta.exp + BoostTTL
      /\ meta'.maxP = Promise!AtLeast(meta.maxP, BoostMaxP)
      /\ meta'.maxE = Promise!AtLeast(meta.maxE, BoostMaxE)
  BY DEF ApplyBoost, BoostedExpiry, Larger, Promise!AtLeast
<1>4. now' = now /\ Exists("meta")
  BY DEF ApplyBoost
<1>5. QED
  BY <1>0, <1>1, <1>2, <1>3, <1>4 DEF Promise!Boost, Exists, Absent

\* The clock closes and erases, and leaves no message at the deadline.
LEMMA TickAdvances ==
  ASSUME IInv, IInv', Tick
  PROVE  Promise!Advance
<1>0. /\ "meta" \in Key /\ "events" \in Key
      /\ now' = now + 1 /\ meta' = meta /\ epoch' = epoch
      /\ ttl' = [k \in Key |-> IF k \in Due THEN Absent ELSE ttl[k]]
  BY DEF Tick, Drop, Key, RoomKeys
<1>1. now' >= meta'.exp => ~Exists("events")'
  <2>1. now' \in Nat /\ meta'.exp \in Nat
    BY RoomAssumption DEF IInv, TypeOK
  <2>2. QED
    BY <2>1 DEF IInv, MessagesExpire
<1>2. Exists("meta")' => Exists("meta")
  BY <1>0 DEF Exists
<1>3. Exists("events")' => Exists("events")
  BY <1>0 DEF Exists
<1>4. Exists("meta") => epoch # 0
  BY <1>0 DEF IInv, NothingBefore
<1>5. CASE Exists("meta") /\ ~Exists("meta")'
  BY <1>0, <1>1, <1>3, <1>4, <1>5 DEF Promise!Advance, Promise!terms, Exists
<1>6. CASE Exists("meta") <=> Exists("meta")'
  BY <1>0, <1>1, <1>3, <1>6 DEF Promise!Advance, Promise!terms, Exists
<1>7. QED
  BY <1>2, <1>5, <1>6

\* The keys of a room keep the promise: it opens once, only boosts change its
\* terms and only for the better, it closes for good, and its messages are
\* gone by its deadline, whatever the requests do and wherever they fail.
THEOREM RoomKeepsPromise == Spec => KeepsPromise
<1>1. Init => Promise!Init
  BY DEF Init, Promise!Init, Exists, Absent, Key, RoomKeys
<1>2. ASSUME IInv, IInv', [Next]_vars
      PROVE  [Promise!Next]_Promise!vars
  <2>1. CASE \E r \in Req : Step(r)
    BY <1>2, <2>1, StepKeepsPromise
  <2>2. CASE ApplyBoost
    BY <1>2, <2>2, ApplyBoostIsBoost DEF Promise!Next
  <2>3. CASE Tick
    BY <1>2, <2>3, TickAdvances DEF Promise!Next
  <2>4. CASE LoseNotification \/ UNCHANGED vars
    BY <2>4, NothingPromisedChanges DEF LoseNotification, vars, store
  <2>5. QED
    BY <1>2, <2>1, <2>2, <2>3, <2>4 DEF Next
<1>3. QED
  BY <1>1, <1>2, Invariance, PTL DEF Spec, KeepsPromise, Promise!Spec
=============================================================================
