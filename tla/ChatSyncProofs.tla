--------------------------- MODULE ChatSyncProofs ---------------------------
(***************************************************************************)
(* Proofs about ChatSync: its type invariant and the six invariants of the *)
(* page, for every number of events, capacity of the log, buffer of the    *)
(* hub and number of calls that wait.                                      *)
(*                                                                         *)
(* The steps are read once: `EveryStep' says that each of them has one of  *)
(* thirteen effects on the log, the wire, the feed, IndexedDB and the      *)
(* calls that wait.  Then each conjunct of the invariant has a lemma with  *)
(* one step per effect.                                                    *)
(***************************************************************************)
EXTENDS ChatSync, FiniteSetTheorems, WellFoundedInduction, SequenceTheorems, TLAPS

-----------------------------------------------------------------------------
(* Numbers.                                                                *)

\* A set of eids has a least member.
LEMMA LeastExists ==
  ASSUME NEW S \in SUBSET Nat, S # {}
  PROVE  Least(S) \in S /\ \A y \in S : Least(S) <= y
<1>1. IsWellFoundedOn(OpToRel(<, Nat), Nat)
  BY NatLessThanWellFounded
<1>2. PICK x \in S : \A y \in S : <<y, x>> \notin OpToRel(<, Nat)
  BY <1>1, WFMin
<1>3. \A y \in S : ~(y < x)
  BY <1>2 DEF OpToRel
<1>4. \E z \in S : \A y \in S : z <= y
  BY <1>3
<1> QED BY <1>4 DEF Least

\* A set of eids that have been handed out has a newest one.
LEMMA MostExists ==
  ASSUME NEW n \in Nat, NEW S \in SUBSET (0..n), S # {}
  PROVE  Most(S) \in S /\ \A y \in S : y <= Most(S)
<1> DEFINE T == {k \in Nat : \A y \in S : y <= k}
<1>1. n \in T /\ T \subseteq Nat
  OBVIOUS
<1>2. Least(T) \in T /\ \A k \in T : Least(T) <= k
  BY <1>1, LeastExists
<1>3. Least(T) \in S
  <2> SUFFICES ASSUME Least(T) \notin S PROVE FALSE
    OBVIOUS
  <2>1. \A y \in S : y <= Least(T) - 1
    BY <1>2
  <2>2. PICK y \in S : y \in Nat /\ y <= Least(T) - 1
    <3>1. \A y \in S : y \in Nat
      OBVIOUS
    <3> HIDE DEF T
    <3> QED BY <2>1, <3>1
  <2>3. Least(T) - 1 \in Nat
    BY <2>2, <1>2
  <2>4. Least(T) - 1 \in T
    BY <2>1, <2>3
  <2> QED BY <2>3, <2>4, <1>2
<1> QED BY <1>2, <1>3 DEF Most

\* The trim drops nothing newer than what it keeps.
LEMMA KeptNewest ==
  ASSUME NEW n \in Nat, NEW S \in SUBSET (0..n)
  PROVE  /\ Kept(S) \subseteq S
         /\ \A e \in S : \E f \in Kept(S) : f >= e
<1>1. Kept(S) \subseteq S
  BY DEF Kept
<1>2. ASSUME NEW e \in S PROVE \E f \in Kept(S) : f >= e
  <2>1. Most(S) \in S /\ e <= Most(S) /\ \A y \in S : y <= Most(S)
    BY MostExists
  <2>2. {f \in S : f > Most(S)} = {}
    <3> DEFINE m == Most(S)
    <3>1. \A f \in S : f \in Nat
      OBVIOUS
    <3>2. m \in Nat /\ \A f \in S : f <= m
      BY <2>1, <3>1
    <3> HIDE DEF m
    <3>3. \A f \in S : ~(f > m)
      BY <3>1, <3>2
    <3> QED BY <3>3 DEF m
  <2>3. Cardinality({f \in S : f > Most(S)}) < MaxEvents
    BY <2>2, FS_EmptySet, ChatAssumption
  <2>4. Most(S) \in Kept(S)
    BY <2>1, <2>3 DEF Kept
  <2> QED BY <2>1, <2>4
<1> QED BY <1>1, <1>2

-----------------------------------------------------------------------------
(* Sequences of entries.                                                   *)

\* No two entries have the same eid.
Once(s) == \A i, j \in DOMAIN s : s[i].eid = s[j].eid => i = j

\* A finite set is listed once, in some order.
LEMMA SetIsListed ==
  ASSUME NEW S, IsFiniteSet(S)
  PROVE  /\ SetToSeq(S) \in Seq(S)
         /\ IsInjective(SetToSeq(S))
         /\ Range(SetToSeq(S)) = S
<1> DEFINE n == Cardinality(S)
           f == SetToSeq(S)
<1>1. n \in Nat /\ ExistsBijection(1..n, S)
  BY FS_CardinalityType
<1>2. \E g \in [1..n -> S] : IsInjective(g)
  BY <1>1 DEF ExistsBijection, Bijection, Injection
<1>3. f \in [1..n -> S] /\ IsInjective(f)
  BY <1>2 DEF SetToSeq
<1>4. f \in Injection(1..n, S)
  BY <1>3 DEF Injection
<1>5. Cardinality(1..n) = n
  BY <1>1, FS_Interval
<1>6. f \in Surjection(1..n, S)
  BY <1>4, <1>5, FS_Injection
<1>7. Range(f) = S
  BY <1>3, <1>6 DEF Range, Surjection
<1>8. f \in Seq(S)
  BY <1>1, <1>3
<1> QED BY <1>3, <1>7, <1>8

\* Every position has a rank of its own, and every rank is taken.
LEMMA RanksAreTaken ==
  ASSUME NEW R, NEW s \in Seq(R), \A i \in DOMAIN s : s[i].eid \in Int
  PROVE  /\ \A i, j \in DOMAIN s : Rank(s, i) = Rank(s, j) => i = j
         /\ \A n \in DOMAIN s : \E i \in DOMAIN s : Rank(s, i) = n
<1> DEFINE D == DOMAIN s
           B(i) == {j \in D : Earlier(s, j, i)}
           rank == [i \in D |-> Rank(s, i)]
<1>1. D = 1..Len(s) /\ Len(s) \in Nat /\ IsFiniteSet(D) /\ Cardinality(D) = Len(s)
  <2>1. D = 1..Len(s) /\ Len(s) \in Nat
    BY LenProperties
  <2>2. IsFiniteSet(1..Len(s)) /\ Cardinality(1..Len(s)) = Len(s)
    <3> DEFINE n == Len(s)
    <3>1. n \in Nat
      BY <2>1
    <3> HIDE DEF n
    <3>2. IsFiniteSet(1..n) /\ Cardinality(1..n) = n
      BY <3>1, FS_Interval
    <3> QED BY <3>2 DEF n
  <2> QED BY <2>1, <2>2
<1>2. \A i \in D : B(i) \subseteq D /\ i \notin B(i)
  BY <1>1 DEF Earlier
<1>3. \A i \in D : /\ IsFiniteSet(B(i)) /\ Cardinality(B(i)) \in Nat
                   /\ Cardinality(B(i)) <= Len(s) /\ Cardinality(B(i)) # Len(s)
  <2> TAKE i \in D
  <2>1. IsFiniteSet(B(i)) /\ Cardinality(B(i)) <= Len(s) /\ (Cardinality(B(i)) = Len(s) => B(i) = D)
    <3>1. B(i) \in SUBSET D
      OBVIOUS
    <3> HIDE DEF D, B
    <3> QED BY <3>1, <1>1, FS_Subset
  <2>2. Cardinality(B(i)) \in Nat
    BY <2>1, FS_CardinalityType
  <2> HIDE DEF B
  <2> QED BY <2>1, <2>2, <1>2
<1>4. ASSUME NEW i \in D, NEW j \in D, Earlier(s, i, j)
      PROVE  Cardinality(B(i)) + 1 <= Cardinality(B(j))
  <2>1. B(i) \cup {i} \subseteq B(j)
    BY <1>1, <1>4 DEF Earlier
  <2> HIDE DEF B
  <2>2. Cardinality(B(i) \cup {i}) = Cardinality(B(i)) + 1
    BY <1>2, <1>3, FS_AddElement
  <2>3. Cardinality(B(i) \cup {i}) <= Cardinality(B(j))
    BY <2>1, <1>3, FS_Subset
  <2> QED BY <2>2, <2>3
<1>5. \A i, j \in D : i # j => Earlier(s, i, j) \/ Earlier(s, j, i)
  BY <1>1 DEF Earlier
<1>6. \A i \in D : Rank(s, i) = Cardinality(B(i)) + 1
  BY DEF Rank
<1> HIDE DEF B
<1>7. \A i, j \in D : Rank(s, i) = Rank(s, j) => i = j
  <2> SUFFICES ASSUME NEW i \in D, NEW j \in D, Rank(s, i) = Rank(s, j), i # j PROVE FALSE
    OBVIOUS
  <2>1. CASE Earlier(s, i, j)
    BY <2>1, <1>3, <1>4, <1>6
  <2>2. CASE Earlier(s, j, i)
    BY <2>2, <1>3, <1>4, <1>6
  <2> QED BY <2>1, <2>2, <1>5
<1>8. rank \in [D -> D]
  <2> SUFFICES ASSUME NEW i \in D PROVE Rank(s, i) \in 1..Len(s)
    BY <1>1
  <2> QED BY <1>1, <1>3, <1>6
<1>9. rank \in Injection(D, D)
  <2>1. IsInjective(rank)
    BY <1>7 DEF IsInjective
  <2> HIDE DEF rank
  <2> QED BY <1>8, <2>1 DEF Injection
<1>10. rank \in Surjection(D, D)
  <2> HIDE DEF rank, D
  <2> QED BY <1>1, <1>9, FS_Injection
<1>11. \A n \in D : \E i \in D : Rank(s, i) = n
  BY <1>10 DEF Surjection
<1> QED BY <1>7, <1>11

\* Sorting loses no entry and repeats none.
LEMMA SortKeepsEntries ==
  ASSUME NEW R, NEW s \in Seq(R), \A i \in DOMAIN s : s[i].eid \in Int
  PROVE  /\ InOrder(s) \in Seq(R)
         /\ Range(InOrder(s)) = Range(s)
         /\ Once(s) => Once(InOrder(s))
<1> DEFINE D == DOMAIN s
           at(n) == CHOOSE i \in D : Rank(s, i) = n
           f == InOrder(s)
<1>1. D = 1..Len(s) /\ Len(s) \in Nat /\ \A i \in D : s[i] \in R
  BY LenProperties, ElementOfSeq
<1>2. /\ \A i, j \in D : Rank(s, i) = Rank(s, j) => i = j
      /\ \A n \in D : \E i \in D : Rank(s, i) = n
  BY RanksAreTaken
<1>3. \A n \in D : at(n) \in D /\ Rank(s, at(n)) = n
  BY <1>2
<1>4. DOMAIN f = D /\ \A n \in D : f[n] = s[at(n)]
  BY DEF InOrder
<1>5. f \in [1..Len(s) -> R]
  <2>1. f = [n \in D |-> s[at(n)]]
    BY DEF InOrder
  <2> HIDE DEF f, at
  <2> QED BY <1>1, <1>3, <2>1
<1>6. f \in Seq(R)
  <2> HIDE DEF f
  <2> QED BY <1>1, <1>5
<1>7. \A i \in D : \E n \in D : at(n) = i
  <2> TAKE i \in D
  <2>1. Rank(s, i) \in D
    <3>1. s \in Seq(R) /\ Rank(s, i) \in 1..Len(s)
      <4>1. IsFiniteSet(D) /\ Cardinality(D) = Len(s)
        BY <1>1, FS_Interval
      <4> DEFINE B == {j \in D : Earlier(s, j, i)}
      <4>2. B \in SUBSET (D \ {i})
        BY <1>1 DEF Earlier
      <4>3. IsFiniteSet(D \ {i}) /\ Cardinality(D \ {i}) = Len(s) - 1
        BY <4>1, FS_RemoveElement
      <4>4. IsFiniteSet(B) /\ Cardinality(B) <= Len(s) - 1
        <5> HIDE DEF B
        <5> QED BY <4>2, <4>3, FS_Subset
      <4>5. Cardinality(B) \in Nat
        BY <4>4, FS_CardinalityType
      <4>6. Rank(s, i) = Cardinality(B) + 1
        BY DEF Rank
      <4> QED BY <1>1, <4>4, <4>5, <4>6
    <3> QED BY <3>1, <1>1
  <2>2. Rank(s, at(Rank(s, i))) = Rank(s, i) /\ at(Rank(s, i)) \in D
    BY <2>1, <1>3
  <2>3. at(Rank(s, i)) = i
    <3> HIDE DEF at
    <3> QED BY <2>2, <1>2
  <2> QED BY <2>1, <2>3
<1>8. Range(f) = Range(s)
  <2> HIDE DEF f, at
  <2>1. Range(f) \subseteq Range(s)
    BY <1>3, <1>4 DEF Range
  <2>2. Range(s) \subseteq Range(f)
    BY <1>4, <1>7 DEF Range
  <2> QED BY <2>1, <2>2
<1>9. Once(s) => Once(f)
  <2> HIDE DEF f, at
  <2> SUFFICES ASSUME Once(s), NEW m \in D, NEW n \in D, f[m].eid = f[n].eid PROVE m = n
    BY <1>4 DEF Once
  <2>1. at(m) = at(n)
    BY <1>3, <1>4 DEF Once
  <2> QED BY <2>1, <1>3
<1> QED BY <1>6, <1>8, <1>9

-----------------------------------------------------------------------------
(* The invariant.                                                          *)

\* Events that have an eid and are stored, or will be.
Numbered == stored \cup pending

\* A call that waits for something.
Busy(t) == tasks[t].pc # "idle"

\* A call that has asked the server, and one that was answered.
Asking(t) == tasks[t].pc \in {"fetch", "got"}

\* Every eid in use has been handed out.
EidsTakenBy(t) ==
  /\ tasks[t].eid <= seq /\ tasks[t].after <= seq
  /\ tasks[t].got \subseteq 1..seq /\ tasks[t].local \subseteq 1..seq
EidsAreTaken ==
  /\ JoinEid <= seq
  /\ max <= seq
  /\ \A i \in DOMAIN wire : wire[i] <= seq
  /\ \A t \in Calls : EidsTakenBy(t)

\* Idle calls hold nothing; a frame's call has its eid, the others have none.
TaskFits(t) ==
  /\ ~Busy(t) => tasks[t] = Idle
  /\ t \notin Tasks => tasks[t].eid = 0 /\ ~At(t, "text")
  /\ t \in Tasks /\ Busy(t) => tasks[t].eid > 0
  /\ t \in Tasks /\ Asking(t) => tasks[t].eid > tasks[t].after
  /\ t \in Tasks /\ At(t, "text") => tasks[t].eid \notin Boosts

TasksFit ==
  /\ \A t \in Calls : TaskFits(t)
  /\ pending \cap Boosts = {}

\* A page that is closed shows nothing and no call counts on it.
ClosedIsEmpty ==
  /\ page = "closed" => max = 0 /\ feed = <<>> /\ wire = <<>>
  /\ page = "closed" => \A t \in Calls : Busy(t) => ~tasks[t].here
  /\ Without({"load"}) /\ max > 0 => feed # <<>>

\* It is not subscribed either.
ClosedIsOff == page = "closed" => socket # "on"

\* The log holds this event, or one that came after it.
Newer(e) == \E f \in stored : f >= e

\* What is published was stored, only newer events push it out, and the member had joined.
PublishedWasStored ==
  /\ \A e \in pending \cup unsent : e > JoinEid
  /\ \A e \in unsent : Newer(e)
  /\ \A i \in DOMAIN wire : wire[i] > JoinEid /\ Newer(wire[i])
  /\ \A t \in Tasks : Busy(t) => tasks[t].eid > JoinEid /\ Newer(tasks[t].eid)

\* A call that was answered has its own event or newer ones, all newer than it asked for.
AnswerFits(t) ==
  At(t, "got") =>
    /\ \A g \in tasks[t].got : g > tasks[t].after
    /\ t \in Tasks => \E g \in tasks[t].got : g >= tasks[t].eid

\* It has all that the log then held for the member, so that what it lacks is newer than
\* all it has.
AnswerIsFull(t) ==
  At(t, "got") =>
    \A e \in Numbered : e >= JoinEid /\ e > tasks[t].after /\ e \notin tasks[t].got =>
      \A g \in tasks[t].got : g < e

\* Answers are full unless one was given before an older event was stored.
AnswersFit ==
  /\ \A t \in Calls : AnswerFits(t)
  /\ Without({"unstored"}) => \A t \in Calls : AnswerIsFull(t)

\* A call of the page has asked from an event that is not above the newest shown.
AskedFromShown ==
  Without({"load"}) =>
    \A t \in Calls \ {"load"} : Asking(t) /\ tasks[t].here => tasks[t].after <= max

\* A load has read what is saved, and asked for what is newer.
LoadedIsSaved ==
  /\ tasks["load"].here => tasks["load"].local \subseteq saved
  /\ \A e \in tasks["load"].local : e <= tasks["load"].after

\* A marker covers no event since the member joined, and none that is still to be numbered.
MarkersLast ==
  Without({"unstored", "load"}) =>
    \A m \in Markers : /\ m.eid + 2 * m.missing <= 2 * seq
                       /\ \A e \in Numbered : Covers(m, e) => e < JoinEid

\* Nothing has happened that the page is not proof against.
NoRace == Without({"failed", "unstored", "blind", "load"})

\* What is below the frame whose text is fetched is displayed already.
TextFollowsShown(t) ==
  At(t, "text") /\ tasks[t].here =>
    \A e \in Numbered : e > JoinEid /\ e < tasks[t].eid => 2 * e \in InFeed

\* Nothing is missing below the newest displayed, nor below the frame that comes next.
ShownWithoutHoles ==
  NoRace => /\ \A e \in Numbered : e > JoinEid /\ e <= max => 2 * e \in InFeed
            /\ \A t \in Tasks : TextFollowsShown(t)

\* What is below the eid that a call asked from, or whose text it fetches, is saved.
FollowsSaved(t) ==
  \A e \in Numbered :
    /\ e > JoinEid
    /\ \/ Asking(t) /\ e <= tasks[t].after
       \/ At(t, "text") /\ e < tasks[t].eid
    => e \in saved

\* Nothing is missing below the newest saved.
SavedWithoutHoles ==
  NoRace /\ ~removed =>
    /\ \A e \in Numbered, s \in saved : e > JoinEid /\ e <= s => e \in saved
    /\ \A t \in Calls : FollowsSaved(t)

\* Nor in what a load has read of it.
LoadedWithoutHoles ==
  NoRace /\ Asking("load") =>
    \A e \in Numbered : e > JoinEid /\ e <= tasks["load"].after => e \in tasks["load"].local

\* No frame was lost and no load or answer was overtaken.
Lossless == Without({"unstored", "missed", "outage", "load"})

\* A page that was left at rest has left no call behind, and no hole in what it saved.
LeftComplete ==
  Lossless /\ Without({"left"}) /\ page = "closed" /\ ~removed =>
    /\ \A t \in Calls : ~Busy(t)
    /\ \A e \in Numbered \ Boosts, s \in saved : e > JoinEid /\ e <= s => e \in saved

\* The event is on its way to the feed.
Coming(e) ==
  \/ e \in unsent
  \/ \E i \in DOMAIN wire : wire[i] = e
  \/ \E t \in Tasks : Busy(t) /\ tasks[t].here /\ tasks[t].eid = e
  \/ /\ tasks["load"].here
     /\ \/ Asking("load") /\ e \in tasks["load"].local
        \/ At("load", "fetch") /\ e > tasks["load"].after
        \/ At("load", "got") /\ e \in tasks["load"].got

\* Every event is displayed or on its way.
NothingIsLost ==
  Lossless /\ (Without({"failed", "blind"}) \/ Without({"left"})) /\ page # "closed" =>
    \A e \in stored \ Boosts : e > JoinEid => 2 * e \in InFeed \/ Coming(e)

\* The page of a removed room is closed, and nothing brings its messages back.
NothingAfterRemovalStays ==
  removed => /\ page = "closed"
             /\ Without({"late"}) => saved = {} /\ \A t \in Calls : ~Busy(t)

\* The inductive invariant.  That nothing is missing among what is displayed
\* depends on what is saved, for that is where the next load begins, on what the
\* calls of the page asked for and got, and on what is still on its way.
IInv ==
  /\ TypeOK
  /\ EidsAreTaken
  /\ TasksFit
  /\ ClosedIsOff
  /\ ClosedIsEmpty
  /\ PublishedWasStored
  /\ AnswersFit
  /\ AskedFromShown
  /\ DisplayedOnce
  /\ LoadedIsSaved
  /\ DisplayedIsSaved
  /\ MarkersLast
  /\ ShownWithoutHoles
  /\ SavedWithoutHoles
  /\ LoadedWithoutHoles
  /\ LeftComplete
  /\ NothingIsLost
  /\ NothingAfterRemovalStays

-----------------------------------------------------------------------------
(* What the steps do to the log and to the feed.                           *)

\* What the feed and a call are made of.
Entry == [eid : 1..(2 * MaxEid), missing : 0..MaxEid]
TaskRecord == [pc : {"idle", "fetch", "got", "text"}, eid : 0..MaxEid,
               after : 0..MaxEid, got : SUBSET (1..MaxEid),
               local : SUBSET (1..MaxEid), here : BOOLEAN]

\* The constants, one by one.
LEMMA ConstantTypes ==
  /\ MaxEid \in Nat /\ MaxEvents \in Nat /\ Buffer \in Nat /\ JoinEid \in Nat
  /\ MaxEid > 0 /\ MaxEvents > 0 /\ Buffer > 0 /\ JoinEid > 0 /\ JoinEid <= MaxEid
  /\ "load" \in Calls /\ "visible" \in Calls /\ Tasks \subseteq Calls
  /\ "load" \notin Tasks /\ "visible" \notin Tasks
  /\ \A t \in Calls : t = "load" \/ t = "visible" \/ t \in Tasks
BY ChatAssumption DEF Calls

\* The log, the page and what is on its way, part by part.
LEMMA LogTypes ==
  ASSUME TypeOK
  PROVE  /\ seq \in Nat /\ seq <= MaxEid /\ max \in Nat /\ max <= MaxEid
         /\ stored \subseteq 1..seq /\ pending \subseteq 1..seq /\ unsent \subseteq 1..seq
         /\ saved \subseteq 1..seq /\ Numbered \subseteq 1..seq
         /\ feed \in Seq(Entry) /\ tasks \in [Calls -> TaskRecord]
         /\ wire \in Seq(1..MaxEid) /\ Len(wire) <= Buffer
         /\ \A i \in DOMAIN feed : feed[i] \in Entry
         /\ \A i \in DOMAIN wire : wire[i] \in 1..MaxEid
<1>1. /\ seq \in 0..MaxEid /\ max \in 0..MaxEid
      /\ stored \subseteq 1..seq /\ pending \subseteq 1..seq /\ unsent \subseteq 1..seq
      /\ saved \subseteq 1..seq
      /\ feed \in Seq(Entry) /\ tasks \in [Calls -> TaskRecord]
      /\ wire \in Seq(1..MaxEid) /\ Len(wire) <= Buffer
  BY DEF TypeOK, Entry, TaskRecord
<1>2. seq \in Nat /\ seq <= MaxEid /\ max \in Nat /\ max <= MaxEid
  BY <1>1, ConstantTypes
<1>3. \A i \in DOMAIN feed : feed[i] \in Entry
  <2>1. \A i \in 1..Len(feed) : feed[i] \in Entry
    BY <1>1, ElementOfSeq
  <2> QED BY <1>1, <2>1, LenProperties
<1>4. \A i \in DOMAIN wire : wire[i] \in 1..MaxEid
  <2>1. \A i \in 1..Len(wire) : wire[i] \in 1..MaxEid
    BY <1>1, ElementOfSeq
  <2> QED BY <1>1, <2>1, LenProperties
<1> QED BY <1>1, <1>2, <1>3, <1>4 DEF Numbered

\* The log only grows at its end, and a trim keeps what is newer.
LEMMA LogGrows ==
  ASSUME TypeOK, TakeEid \/ ApplyBoost \/ \E e \in 1..MaxEid : StoreEvent(e)
  PROVE  /\ seq' \in seq..MaxEid /\ seq <= seq'
         /\ stored' \subseteq 1..seq' /\ pending' \subseteq 1..seq' /\ unsent' \subseteq 1..seq'
         /\ \A e \in Numbered' : e \in Numbered \/ e > seq
         /\ \A e \in Numbered' \ Boosts : e \in Numbered \ Boosts \/ e > seq
         /\ \A e \in stored' : e \in stored \/ e \in unsent'
         /\ unsent \subseteq unsent'
         /\ \A e \in Nat : Newer(e) => Newer(e)'
         /\ \A e \in unsent' : e \in unsent \/ Newer(e)'
<1> USE LogTypes, ConstantTypes
<1>1. CASE TakeEid
  BY <1>1 DEF TakeEid, Numbered, Newer
<1>2. ASSUME NEW x \in 1..(seq + 1), stored' = Kept(stored \cup {x})
      PROVE  /\ stored' \subseteq stored \cup {x}
             /\ \A e \in Nat : Newer(e) => Newer(e)'
             /\ Newer(x)'
  <2>1. stored \cup {x} \in SUBSET (0..(seq + 1)) /\ seq + 1 \in Nat
    BY <1>2
  <2>2. /\ stored' \subseteq stored \cup {x}
        /\ \A e \in stored \cup {x} : \E f \in stored' : f >= e
    <3> DEFINE S == stored \cup {x}
               n == seq + 1
    <3>1. n \in Nat /\ S \in SUBSET (0..n) /\ stored' = Kept(S)
      BY <1>2, <2>1
    <3> HIDE DEF S, n
    <3>2. stored' \subseteq S /\ \A e \in S : \E f \in stored' : f >= e
      BY <3>1, KeptNewest
    <3> QED BY <3>2 DEF S
  <2>3. ASSUME NEW e \in Nat, NEW f \in stored, f >= e PROVE Newer(e)'
    <3>1. PICK g \in stored' : g >= f
      BY <2>2
    <3>2. g \in stored \/ g = x
      BY <2>2
    <3>3. \A y \in stored : y \in Nat
      OBVIOUS
    <3>4. g \in Nat /\ f \in Nat
      BY <3>2, <3>3
    <3> QED BY <2>3, <3>1, <3>4 DEF Newer
  <2> QED BY <2>2, <2>3 DEF Newer
<1>3. CASE ApplyBoost
  <2>1. seq + 1 \in 1..(seq + 1) /\ stored' = Kept(stored \cup {seq + 1})
    BY <1>3 DEF ApplyBoost
  <2>2. /\ stored' \subseteq stored \cup {seq + 1}
        /\ \A e \in Nat : Newer(e) => Newer(e)'
        /\ \E f \in stored' : f >= seq + 1
    BY <2>1, <1>2 DEF Newer
  <2>3. /\ seq' = seq + 1 /\ seq + 1 <= MaxEid /\ pending' = pending
        /\ unsent' = unsent \cup {seq + 1}
    BY <1>3 DEF ApplyBoost
  <2>4. \A e \in unsent' : e \in unsent \/ Newer(e)'
    BY <2>2, <2>3 DEF Newer
  <2>5. \A e \in Numbered' : e \in Numbered \/ e > seq
    BY <2>2, <2>3 DEF Numbered
  <2>6. stored' \subseteq 1..seq' /\ pending' \subseteq 1..seq' /\ unsent' \subseteq 1..seq'
    BY <2>2, <2>3
  <2> QED BY <2>2, <2>3, <2>4, <2>5, <2>6
<1>4. ASSUME NEW x \in 1..MaxEid, StoreEvent(x) PROVE
         /\ seq' \in seq..MaxEid /\ seq <= seq'
         /\ stored' \subseteq 1..seq' /\ pending' \subseteq 1..seq' /\ unsent' \subseteq 1..seq'
         /\ \A e \in Numbered' : e \in Numbered \/ e > seq
         /\ \A e \in Numbered' \ Boosts : e \in Numbered \ Boosts \/ e > seq
         /\ \A e \in stored' : e \in stored \/ e \in unsent'
         /\ unsent \subseteq unsent'
         /\ \A e \in Nat : Newer(e) => Newer(e)'
         /\ \A e \in unsent' : e \in unsent \/ Newer(e)'
  <2>1. x \in 1..(seq + 1) /\ x \in pending
    BY <1>4 DEF StoreEvent
  <2>2. /\ stored' \subseteq stored \cup {x}
        /\ \A e \in Nat : Newer(e) => Newer(e)'
        /\ Newer(x)'
    BY <1>4, <1>2, <2>1 DEF StoreEvent
  <2>3. /\ seq' = seq /\ pending' = pending \ {x} /\ unsent' = unsent \cup {x}
        /\ x \in Numbered
    BY <1>4, <2>1 DEF StoreEvent, Numbered
  <2>4. \A e \in Numbered' : e \in Numbered
    BY <2>2, <2>3 DEF Numbered
  <2>5. stored' \subseteq 1..seq' /\ pending' \subseteq 1..seq' /\ unsent' \subseteq 1..seq'
    BY <2>1, <2>2, <2>3
  <2>6. \A e \in unsent' : e \in unsent \/ Newer(e)'
    BY <2>2, <2>3
  <2>7. \A e \in stored' : e \in stored \/ e \in unsent'
    BY <2>2, <2>3
  <2> QED BY <2>2, <2>3, <2>4, <2>5, <2>6, <2>7
<1> QED BY <1>1, <1>3, <1>4

\* A page that opens asks for what is newer than all it has saved.
LEMMA FetchFromSaved ==
  ASSUME TypeOK, EidsAreTaken
  PROVE  LET a == FetchFrom(IF saved = {} THEN -1 ELSE Most(saved)) IN
           /\ a \in 1..seq /\ JoinEid <= a
           /\ \A s \in saved : s <= a
           /\ a = JoinEid \/ a \in saved
<1> USE LogTypes, ConstantTypes DEF FetchFrom, EidsAreTaken
<1>1. CASE saved = {}
  BY <1>1
<1>2. CASE saved # {}
  <2> DEFINE m == Most(saved)
  <2>1. saved \in SUBSET (0..seq)
    OBVIOUS
  <2>2. m \in saved /\ \A s \in saved : s <= m
    BY <1>2, <2>1, MostExists
  <2> HIDE DEF m
  <2>3. m \in Nat /\ m \in 1..seq
    BY <2>2
  <2> QED BY <1>2, <2>2, <2>3 DEF m
<1> QED BY <1>1, <1>2

\* The feed as a set of entries.
LEMMA FeedEntries ==
  /\ InFeed = {x.eid : x \in Range(feed)}
  /\ Markers = {m \in Range(feed) : m.missing > 0}
  /\ DisplayedOnce <=> Once(feed)
BY DEF InFeed, Range, Markers, DisplayedOnce, Once

\* A marker stands between what was displayed and what was got.
LEMMA GapIsBetween ==
  ASSUME NEW got \in SUBSET (1..MaxEid), NEW m \in 0..MaxEid, NEW x \in Gap(got, m)
  PROVE  \E l \in got : /\ x = [eid |-> 2 * m + 1, missing |-> l - m - 1]
                        /\ l > m + 1 /\ 2 * m + 1 \notin InFeed
                        /\ \A g \in got : l <= g
<1> DEFINE l == Least(got)
<1>1. got # {} /\ l > m + 1 /\ 2 * m + 1 \notin InFeed /\ x = GapAfter(m, l)
  BY DEF Gap
<1>2. got \in SUBSET Nat
  BY ConstantTypes
<1>3. l \in got /\ \A g \in got : l <= g
  BY <1>1, <1>2, LeastExists
<1> HIDE DEF l
<1> QED BY <1>1, <1>3 DEF GapAfter

\* What maxEidRef is raised to is the newest of what it was and what was got.
LEMMA RaisedIsMost ==
  ASSUME TypeOK, NEW got \in SUBSET (1..MaxEid)
  PROVE  /\ Raised(got) \in got \cup {max} /\ Raised(got) \in 0..MaxEid
         /\ max <= Raised(got) /\ \A g \in got : g <= Raised(got)
<1> USE LogTypes, ConstantTypes
<1> DEFINE S == got \cup {max}
           most == Most(S)
<1>1. S \in SUBSET (0..MaxEid) /\ S # {} /\ MaxEid \in Nat
  <2>1. \A y \in S : y \in 0..MaxEid
    BY DEF TypeOK
  <2> QED BY <2>1
<1>2. most \in S /\ \A y \in S : y <= most
  <2> HIDE DEF S
  <2> QED BY <1>1, MostExists
<1> HIDE DEF most
<1>3. most \in got \cup {max} /\ \A y \in got \cup {max} : y <= most
  BY <1>2
<1> QED BY <1>1, <1>3 DEF Raised, most

\* The messages of finitely many events are finitely many.
LEMMA EventsAreFinite ==
  ASSUME NEW S \in SUBSET (1..MaxEid)
  PROVE  IsFiniteSet({Event(e) : e \in S})
<1> DEFINE T == {Event(e) : e \in S}
           g == [e \in S |-> Event(e)]
<1>1. IsFiniteSet(1..MaxEid)
  BY ConstantTypes, FS_Interval
<1>2. IsFiniteSet(S)
  BY <1>1, FS_Subset
<1>3. g \in Surjection(S, T)
  BY DEF Surjection
<1> HIDE DEF g, T
<1>4. IsFiniteSet(T)
  BY <1>2, <1>3, FS_Surjection
<1> QED BY <1>4 DEF T

\* What a merge got is displayed beside what was there, with at most one marker.
LEMMA MergeDisplays ==
  ASSUME TypeOK, NEW got \in SUBSET (1..MaxEid), NEW m \in 0..MaxEid,
         NEW f, LET extra == New(got) \cup Gap(got, m) IN
                f = IF extra = {} THEN feed ELSE InOrder(feed \o SetToSeq(extra))
  PROVE  /\ f \in Seq(Entry)
         /\ Range(f) = Range(feed) \cup New(got) \cup Gap(got, m)
         /\ DisplayedOnce => Once(f)
         /\ \A e \in 1..MaxEid : e \in got => 2 * e \in {x.eid : x \in Range(f)}
<1> DEFINE extra == New(got) \cup Gap(got, m)
           s == feed \o SetToSeq(extra)
<1> USE LogTypes, ConstantTypes
<1>1. \A x \in New(got) : x \in Entry /\ x.eid \notin InFeed /\ \E e \in got : x = Event(e)
  BY DEF New, Event, Entry
<1>2. \A x \in Gap(got, m) : /\ x \in Entry /\ x.eid \notin InFeed /\ x.eid = 2 * m + 1
                             /\ \A y \in Gap(got, m) : x = y
  <2>1. \A x \in Gap(got, m) : /\ x \in Entry /\ x.eid \notin InFeed /\ x.eid = 2 * m + 1
    <3> TAKE x \in Gap(got, m)
    <3>1. PICK l \in got : /\ x = [eid |-> 2 * m + 1, missing |-> l - m - 1]
                           /\ l > m + 1 /\ 2 * m + 1 \notin InFeed
      BY GapIsBetween
    <3> QED BY <3>1 DEF Entry
  <2>2. \A x, y \in Gap(got, m) : x = y
    BY DEF Gap
  <2> QED BY <2>1, <2>2
<1>3. IsFiniteSet(extra)
  <2>1. {e \in got : 2 * e \notin InFeed} \in SUBSET (1..MaxEid)
    OBVIOUS
  <2>2. IsFiniteSet(New(got))
    BY <2>1, EventsAreFinite DEF New
  <2>3. IsFiniteSet(Gap(got, m))
    BY FS_EmptySet, FS_Singleton DEF Gap
  <2> QED BY <2>2, <2>3, FS_Union
<1>4. \A x, y \in extra : x.eid = y.eid => x = y
  <2>1. \A x, y \in New(got) : x.eid = y.eid => x = y
    BY <1>1 DEF Event
  <2>2. \A x \in New(got), y \in Gap(got, m) : x.eid # y.eid
    BY <1>1, <1>2 DEF Event
  <2> QED BY <1>2, <2>1, <2>2
<1>5. \A x \in extra : x \in Entry /\ x.eid \notin InFeed
  BY <1>1, <1>2
<1> HIDE DEF extra
<1>6. /\ SetToSeq(extra) \in Seq(extra) /\ IsInjective(SetToSeq(extra))
      /\ Range(SetToSeq(extra)) = extra
  BY <1>3, SetIsListed
<1> DEFINE q == SetToSeq(extra)
<1>7. q \in Seq(Entry) /\ IsInjective(q) /\ Range(q) = extra
  BY <1>5, <1>6, SeqMonotonic
<1> HIDE DEF q
<1>8. /\ s = feed \o q /\ s \in Seq(Entry) /\ Len(s) = Len(feed) + Len(q)
      /\ \A i \in 1..Len(s) : s[i] = IF i <= Len(feed) THEN feed[i] ELSE q[i - Len(feed)]
  BY <1>7, ConcatProperties DEF q
<1>9. /\ DOMAIN s = 1..Len(s) /\ DOMAIN feed = 1..Len(feed) /\ DOMAIN q = 1..Len(q)
      /\ Len(feed) \in Nat /\ Len(q) \in Nat
  BY <1>7, <1>8, LenProperties
<1> HIDE DEF s
<1>10. \A i \in DOMAIN q : q[i] \in extra
  BY <1>7 DEF Range
<1>11. Range(s) = Range(feed) \cup extra
  <2>1. \A x \in Range(s) : x \in Range(feed) \cup Range(q)
    <3> SUFFICES ASSUME NEW i \in DOMAIN s PROVE s[i] \in Range(feed) \cup Range(q)
      BY DEF Range
    <3>1. CASE i <= Len(feed)
      BY <3>1, <1>8, <1>9 DEF Range
    <3>2. CASE ~(i <= Len(feed))
      <4>1. i - Len(feed) \in DOMAIN q
        BY <3>2, <1>8, <1>9
      <4> QED BY <3>2, <4>1, <1>8, <1>9 DEF Range
    <3> QED BY <3>1, <3>2
  <2>2. \A x \in Range(feed) : x \in Range(s)
    BY <1>8, <1>9 DEF Range
  <2>3. \A x \in Range(q) : x \in Range(s)
    <3> SUFFICES ASSUME NEW i \in DOMAIN q PROVE q[i] \in Range(s)
      BY DEF Range
    <3>1. i + Len(feed) \in DOMAIN s /\ s[i + Len(feed)] = q[i]
      BY <1>8, <1>9
    <3> QED BY <3>1 DEF Range
  <2> QED BY <2>1, <2>2, <2>3, <1>7
<1>12. DisplayedOnce => Once(s)
  <2> SUFFICES ASSUME DisplayedOnce, NEW i \in DOMAIN s, NEW j \in DOMAIN s,
                      s[i].eid = s[j].eid
               PROVE  i = j
    BY DEF Once
  <2>1. \A k \in DOMAIN s : \/ k \in DOMAIN feed /\ s[k] = feed[k] /\ s[k].eid \in InFeed
                            \/ /\ k - Len(feed) \in DOMAIN q /\ s[k] = q[k - Len(feed)]
                               /\ s[k].eid \notin InFeed /\ s[k] \in extra
    <3> TAKE k \in DOMAIN s
    <3>1. CASE k <= Len(feed)
      BY <3>1, <1>8, <1>9 DEF InFeed
    <3>2. CASE ~(k <= Len(feed))
      <4>1. k - Len(feed) \in DOMAIN q /\ s[k] = q[k - Len(feed)]
        BY <3>2, <1>8, <1>9
      <4> QED BY <4>1, <1>5, <1>10
    <3> QED BY <3>1, <3>2
  <2>2. CASE s[i].eid \in InFeed
    BY <2>1, <2>2 DEF DisplayedOnce
  <2>3. CASE s[i].eid \notin InFeed
    <3>1. /\ i - Len(feed) \in DOMAIN q /\ s[i] = q[i - Len(feed)] /\ s[i] \in extra
          /\ j - Len(feed) \in DOMAIN q /\ s[j] = q[j - Len(feed)] /\ s[j] \in extra
      BY <2>1, <2>3
    <3>2. s[i] = s[j]
      BY <3>1, <1>4
    <3>3. i - Len(feed) = j - Len(feed)
      BY <3>1, <3>2, <1>7 DEF IsInjective
    <3> QED BY <3>3, <1>8, <1>9
  <2> QED BY <2>2, <2>3
<1>13. /\ f \in Seq(Entry) /\ Range(f) = Range(feed) \cup extra
       /\ DisplayedOnce => Once(f)
  <2>1. CASE extra = {}
    <3>1. f = feed
      BY <2>1 DEF extra
    <3> QED BY <2>1, <3>1, FeedEntries
  <2>2. CASE extra # {}
    <3>1. f = InOrder(s)
      BY <2>2 DEF extra, s
    <3>2. \A i \in DOMAIN s : s[i].eid \in Int
      <4>1. \A i \in DOMAIN s : s[i] \in Entry
        BY <1>8, <1>9, ElementOfSeq
      <4> QED BY <4>1 DEF Entry
    <3>3. /\ InOrder(s) \in Seq(Entry) /\ Range(InOrder(s)) = Range(s)
          /\ Once(s) => Once(InOrder(s))
      BY <1>8, <3>2, SortKeepsEntries
    <3> QED BY <3>1, <3>3, <1>11, <1>12
  <2> QED BY <2>1, <2>2
<1>14. \A e \in 1..MaxEid : e \in got => 2 * e \in {x.eid : x \in Range(f)}
  <2> SUFFICES ASSUME NEW e \in got PROVE \E x \in Range(f) : x.eid = 2 * e
    OBVIOUS
  <2>1. CASE 2 * e \in InFeed
    BY <2>1, <1>13, FeedEntries
  <2>2. CASE 2 * e \notin InFeed
    <3>1. Event(e) \in New(got)
      BY <2>2 DEF New
    <3>2. Event(e) \in Range(f) /\ Event(e).eid = 2 * e
      BY <3>1, <1>13 DEF extra, Event
    <3> QED BY <3>2
  <2> QED BY <2>1, <2>2
<1> QED BY <1>13, <1>14 DEF extra

\* A load displays what was saved and what it got, and nothing else.
LEMMA LoadDisplays ==
  ASSUME NEW all \in SUBSET (1..MaxEid), NEW f, f = InOrder(SetToSeq({Event(e) : e \in all}))
  PROVE  /\ f \in Seq(Entry)
         /\ Range(f) = {Event(e) : e \in all}
         /\ Once(f)
<1> DEFINE S == {Event(e) : e \in all}
           s == SetToSeq(S)
<1> USE ConstantTypes
<1>1. \A x \in S : x \in Entry
  BY DEF Event, Entry
<1>2. IsFiniteSet(S)
  BY EventsAreFinite
<1>3. \A x, y \in S : x.eid = y.eid => x = y
  BY DEF Event
<1> HIDE DEF S
<1>4. s \in Seq(S) /\ IsInjective(s) /\ Range(s) = S
  BY <1>2, SetIsListed
<1>5. s \in Seq(Entry)
  BY <1>1, <1>4, SeqMonotonic
<1> HIDE DEF s
<1>6. \A i \in DOMAIN s : s[i] \in S
  BY <1>4 DEF Range
<1>7. Once(s)
  BY <1>3, <1>4, <1>6 DEF Once, IsInjective
<1>8. \A i \in DOMAIN s : s[i].eid \in Int
  BY <1>1, <1>6 DEF Entry
<1>9. InOrder(s) \in Seq(Entry) /\ Range(InOrder(s)) = Range(s) /\ Once(InOrder(s))
  BY <1>5, <1>7, <1>8, SortKeepsEntries
<1> QED BY <1>4, <1>9 DEF s, S

\* A message is displayed at the end of the feed, once.
LEMMA ShowDisplays ==
  ASSUME TypeOK, NEW e \in 1..MaxEid,
         NEW f, f = IF 2 * e \in InFeed THEN feed ELSE Append(feed, Event(e))
  PROVE  /\ f \in Seq(Entry)
         /\ \/ Range(f) = Range(feed) /\ 2 * e \in InFeed
            \/ Range(f) = Range(feed) \cup {Event(e)}
         /\ DisplayedOnce => Once(f)
<1> USE LogTypes, ConstantTypes
<1>1. CASE 2 * e \in InFeed
  BY <1>1, FeedEntries
<1>2. CASE 2 * e \notin InFeed
  <2>1. Event(e) \in Entry /\ Event(e).eid = 2 * e
    BY DEF Event, Entry
  <2>2. f = Append(feed, Event(e))
    BY <1>2
  <2> DEFINE x == Event(e)
  <2> HIDE DEF x
  <2>3. /\ f \in Seq(Entry) /\ Len(f) = Len(feed) + 1 /\ f[Len(f)] = x
        /\ \A i \in 1..Len(feed) : f[i] = feed[i]
    BY <2>1, <2>2, AppendProperties DEF x
  <2>4. DOMAIN f = 1..Len(f) /\ DOMAIN feed = 1..Len(feed) /\ Len(feed) \in Nat
    BY <2>3, LenProperties
  <2>5. Range(f) = Range(feed) \cup {x}
    BY <2>3, <2>4 DEF Range
  <2>6. ASSUME DisplayedOnce PROVE Once(f)
    <3>1. \A i \in 1..Len(feed) : f[i].eid # f[Len(f)].eid
      BY <1>2, <2>1, <2>3, <2>4 DEF InFeed, x
    <3> QED BY <2>3, <2>4, <2>6, <3>1 DEF Once, DisplayedOnce
  <2> QED BY <2>3, <2>5, <2>6 DEF x
<1> QED BY <1>1, <1>2

\* A call that ends, is left or goes on stays a call.
LEMMA TaskRecords ==
  /\ Idle \in TaskRecord
  /\ \A r \in TaskRecord :
       /\ [r EXCEPT !.here = FALSE] \in TaskRecord
       /\ [r EXCEPT !.here = FALSE].pc = r.pc /\ [r EXCEPT !.here = FALSE].eid = r.eid
       /\ [r EXCEPT !.here = FALSE].after = r.after /\ [r EXCEPT !.here = FALSE].got = r.got
       /\ [r EXCEPT !.here = FALSE].local = r.local /\ [r EXCEPT !.here = FALSE].here = FALSE
  /\ \A r \in TaskRecord :
       /\ [r EXCEPT !.pc = "text"] \in TaskRecord
       /\ [r EXCEPT !.pc = "text"].pc = "text" /\ [r EXCEPT !.pc = "text"].eid = r.eid
       /\ [r EXCEPT !.pc = "text"].after = r.after /\ [r EXCEPT !.pc = "text"].got = r.got
       /\ [r EXCEPT !.pc = "text"].local = r.local /\ [r EXCEPT !.pc = "text"].here = r.here
  /\ \A e, a \in 0..MaxEid :
       /\ [Idle EXCEPT !.pc = "fetch", !.eid = e, !.after = a] \in TaskRecord
       /\ [Idle EXCEPT !.pc = "text", !.eid = e] \in TaskRecord
<1>1. Idle \in TaskRecord
  BY ConstantTypes DEF Idle, TaskRecord
<1>2. ASSUME NEW r \in TaskRecord
      PROVE  /\ [r EXCEPT !.here = FALSE] \in TaskRecord
             /\ [r EXCEPT !.here = FALSE].pc = r.pc /\ [r EXCEPT !.here = FALSE].eid = r.eid
             /\ [r EXCEPT !.here = FALSE].after = r.after /\ [r EXCEPT !.here = FALSE].got = r.got
             /\ [r EXCEPT !.here = FALSE].local = r.local /\ [r EXCEPT !.here = FALSE].here = FALSE
  BY DEF TaskRecord
<1>3. ASSUME NEW r \in TaskRecord
      PROVE  /\ [r EXCEPT !.pc = "text"] \in TaskRecord
             /\ [r EXCEPT !.pc = "text"].pc = "text" /\ [r EXCEPT !.pc = "text"].eid = r.eid
             /\ [r EXCEPT !.pc = "text"].after = r.after /\ [r EXCEPT !.pc = "text"].got = r.got
             /\ [r EXCEPT !.pc = "text"].local = r.local /\ [r EXCEPT !.pc = "text"].here = r.here
  BY DEF TaskRecord
<1>4. ASSUME NEW r \in TaskRecord, NEW e \in 0..MaxEid, NEW a \in 0..MaxEid
      PROVE  /\ [r EXCEPT !.pc = "fetch", !.eid = e, !.after = a] \in TaskRecord
             /\ [r EXCEPT !.pc = "text", !.eid = e] \in TaskRecord
  BY DEF TaskRecord
<1> QED BY <1>1, <1>2, <1>3, <1>4

\* What the steps of a call do to the calls: it ends, or goes on with the text
\* of its frame, and the others wait on.
Continues(t) ==
  /\ \A u \in Calls \ {t} : tasks'[u] = tasks[u]
  /\ \/ tasks'[t] = Idle
     \/ /\ t \in Tasks /\ tasks[t].eid \notin Boosts
        /\ tasks'[t].pc = "text" /\ tasks'[t].eid = tasks[t].eid
        /\ tasks'[t].after = tasks[t].after /\ tasks'[t].got = tasks[t].got
        /\ tasks'[t].local = tasks[t].local /\ tasks'[t].here = tasks[t].here
  /\ t \in Tasks /\ tasks[t].eid \notin Boosts => tasks'[t].pc = "text"
  /\ tasks' \in [Calls -> TaskRecord]

\* The page is left: the calls that wait are no longer its own.
LeftBehind(u) ==
  \/ ~Busy(u) /\ tasks'[u] = Idle
  \/ /\ Busy(u) /\ ~tasks'[u].here
     /\ tasks'[u].pc = tasks[u].pc /\ tasks'[u].eid = tasks[u].eid
     /\ tasks'[u].after = tasks[u].after /\ tasks'[u].got = tasks[u].got
     /\ tasks'[u].local = tasks[u].local

\* What is left of the page that is left.
Emptied == page' = "closed" /\ max' = 0 /\ feed' = <<>> /\ socket' = "new" /\ wire' = <<>>

\* A call that is done with its fetch ends, or goes on with the text of its frame.
LEMMA GoesOn ==
  ASSUME TypeOK, NEW t \in Calls,
         IF t \in Tasks /\ tasks[t].eid \notin Boosts THEN Go(t, "text") ELSE End(t)
  PROVE  Continues(t)
<1>1. tasks \in [Calls -> TaskRecord] /\ tasks[t] \in TaskRecord
  BY LogTypes
<1>2. CASE t \in Tasks /\ tasks[t].eid \notin Boosts
  <2>1. tasks' = [tasks EXCEPT ![t] = [tasks[t] EXCEPT !.pc = "text"]]
    BY <1>2 DEF Go
  <2> DEFINE r == [tasks[t] EXCEPT !.pc = "text"]
  <2>2. /\ r \in TaskRecord /\ r.pc = "text" /\ r.eid = tasks[t].eid /\ r.after = tasks[t].after
        /\ r.got = tasks[t].got /\ r.local = tasks[t].local /\ r.here = tasks[t].here
    BY <1>1, TaskRecords
  <2> HIDE DEF r
  <2> QED BY <1>1, <1>2, <2>1, <2>2 DEF Continues, r
<1>3. CASE ~(t \in Tasks /\ tasks[t].eid \notin Boosts)
  <2>1. tasks' = [tasks EXCEPT ![t] = Idle]
    BY <1>3 DEF End
  <2> QED BY <1>1, <1>3, <2>1, TaskRecords DEF Continues
<1> QED BY <1>2, <1>3

\* What closing the page or removing the room changes.
LEMMA LeavingSteps ==
  ASSUME TypeOK, ClosePage \/ RemoveRoom
  PROVE  /\ Emptied /\ UNCHANGED <<server, budget>>
         /\ tasks' \in [Calls -> TaskRecord]
         /\ \A u \in Calls : LeftBehind(u)
         /\ races \subseteq races' /\ races' \subseteq races \cup {"late", "left"}
         /\ \/ ClosePage /\ UNCHANGED <<saved, removed>> /\ page # "closed" /\ races' = races \cup Left
            \/ /\ RemoveRoom /\ saved' = {} /\ removed'
               /\ (\E u \in Calls : Busy(u)) => "late" \in races'
<1>1. tasks' = Leaving
  BY DEF ClosePage, RemoveRoom
<1>2. /\ \A u \in Calls : tasks[u] \in TaskRecord
      /\ \A u \in Calls : tasks'[u] = IF Busy(u) THEN [tasks[u] EXCEPT !.here = FALSE] ELSE Idle
  BY <1>1, LogTypes DEF Leaving, At, Busy
<1>3. tasks' \in [Calls -> TaskRecord]
  <2>1. tasks' = [u \in Calls |-> tasks'[u]]
    BY <1>1 DEF Leaving
  <2>2. \A u \in Calls : tasks'[u] \in TaskRecord
    BY <1>2, TaskRecords
  <2> QED BY <2>1, <2>2
<1>4. ASSUME NEW u \in Calls PROVE LeftBehind(u)
  <2>1. CASE ~Busy(u)
    BY <1>2, <2>1 DEF LeftBehind
  <2>2. CASE Busy(u)
    <3> DEFINE r == tasks[u]
               left == [r EXCEPT !.here = FALSE]
    <3>1. /\ left.pc = r.pc /\ left.eid = r.eid /\ left.after = r.after /\ left.got = r.got
          /\ left.local = r.local /\ left.here = FALSE
      BY <1>2, TaskRecords
    <3>2. tasks'[u] = left
      BY <1>2, <2>2
    <3> HIDE DEF left
    <3> QED BY <2>2, <3>1, <3>2 DEF LeftBehind
  <2> QED BY <2>1, <2>2
<1>5. Emptied
  BY DEF ClosePage, RemoveRoom, Unmount, Emptied
<1> QED BY <1>3, <1>4, <1>5 DEF ClosePage, RemoveRoom, clearRoom, Left, Busy, At, server

\* A failed fetch lets the call go on without it, or closes the page that was loading.
LEMMA FetchFailsSteps ==
  ASSUME TypeOK, NEW t \in Calls, FetchFails(t)
  PROVE  /\ At(t, "fetch") /\ UNCHANGED <<server, saved, removed>>
         /\ races \cup {"failed"} \subseteq races' /\ races' \subseteq races \cup {"failed", "left"}
         /\ \/ /\ t = "load" /\ tasks[t].here /\ Emptied /\ "left" \in races'
               /\ tasks' \in [Calls -> TaskRecord]
               /\ tasks'[t] = Idle /\ \A u \in Calls \ {t} : LeftBehind(u)
            \/ /\ ~(t = "load" /\ tasks[t].here)
               /\ Continues(t) /\ UNCHANGED <<page, max, feed, socket, wire>>
<1>1. /\ At(t, "fetch") /\ UNCHANGED <<server, saved, removed>>
      /\ races' \in {races \cup {"failed"}, races \cup {"failed"} \cup Left}
  BY DEF FetchFails
<1>2. CASE t = "load" /\ tasks[t].here
  <2>1. Emptied /\ tasks' = [Leaving EXCEPT !["load"] = Idle] /\ races' = races \cup {"failed"} \cup Left
    BY <1>2 DEF FetchFails, Unmount, Emptied
  <2>2. Left = {"left"}
    BY <1>1 DEF Left, At
  <2>3. /\ \A u \in Calls : tasks[u] \in TaskRecord
        /\ \A u \in Calls \ {t} :
             tasks'[u] = IF Busy(u) THEN [tasks[u] EXCEPT !.here = FALSE] ELSE Idle
        /\ tasks'[t] = Idle /\ tasks' = [u \in Calls |-> tasks'[u]]
    BY <1>2, <2>1, LogTypes DEF Leaving, At, Busy
  <2>4. ASSUME NEW u \in Calls \ {t} PROVE LeftBehind(u) /\ tasks'[u] \in TaskRecord
    <3>1. CASE ~Busy(u)
      BY <2>3, <3>1, TaskRecords DEF LeftBehind
    <3>2. CASE Busy(u)
      <4> DEFINE r == tasks[u]
                 left == [r EXCEPT !.here = FALSE]
      <4>1. /\ left.pc = r.pc /\ left.eid = r.eid /\ left.after = r.after /\ left.got = r.got
            /\ left.local = r.local /\ left.here = FALSE /\ left \in TaskRecord
        BY <2>3, TaskRecords
      <4>2. tasks'[u] = left
        BY <2>3, <3>2
      <4> HIDE DEF left
      <4> QED BY <3>2, <4>1, <4>2 DEF LeftBehind
    <3> QED BY <3>1, <3>2
  <2>5. tasks' \in [Calls -> TaskRecord]
    BY <2>3, <2>4, TaskRecords
  <2> QED BY <1>1, <1>2, <2>1, <2>2, <2>3, <2>4, <2>5
<1>3. CASE ~(t = "load" /\ tasks[t].here)
  <2>1. /\ UNCHANGED <<page, max, feed, socket, wire>> /\ races' = races \cup {"failed"}
        /\ IF t \in Tasks /\ tasks[t].eid \notin Boosts THEN Go(t, "text") ELSE End(t)
    BY <1>3 DEF FetchFails
  <2>2. Continues(t)
    BY <2>1, GoesOn
  <2> QED BY <1>1, <1>3, <2>1, <2>2
<1> QED BY <1>2, <1>3

\* What a call that has got its events saves and displays.
LEMMA MergeSteps ==
  ASSUME TypeOK, NEW t \in Calls, Merge(t)
  PROVE  /\ t # "load" /\ At(t, "got") /\ Continues(t)
         /\ saved' = saved \cup tasks[t].got
         /\ UNCHANGED <<server, wire, socket, page, removed, budget, races>>
         /\ \/ ~tasks[t].here /\ UNCHANGED <<feed, max>>
            \/ /\ tasks[t].here
               /\ max' \in tasks[t].got \cup {max} /\ max' \in 0..MaxEid /\ max <= max'
               /\ \A g \in tasks[t].got : g <= max'
               /\ feed' \in Seq(Entry)
               /\ DisplayedOnce => DisplayedOnce'
               /\ InFeed \subseteq InFeed'
               /\ \A e \in tasks[t].got : 2 * e \in InFeed'
               /\ \A e \in 1..MaxEid : 2 * e \in InFeed' => 2 * e \in InFeed \/ e \in tasks[t].got
               /\ \A x \in Markers' : x \in Markers \/ \E m \in {max, max'} : x \in Gap(tasks[t].got, m)
<1> DEFINE got == tasks[t].got
<1> USE LogTypes, ConstantTypes
<1>1. /\ t # "load" /\ At(t, "got") /\ saved' = saved \cup got
      /\ UNCHANGED <<server, wire, socket, page, removed, budget, races>>
      /\ IF t \in Tasks /\ tasks[t].eid \notin Boosts THEN Go(t, "text") ELSE End(t)
  BY DEF Merge, saveMessages
<1>2. Continues(t)
  BY <1>1, GoesOn
<1>3. CASE ~tasks[t].here
  <2>1. UNCHANGED <<feed, max>>
    BY <1>3 DEF Merge
  <2> QED BY <1>1, <1>2, <1>3, <2>1
<1>4. CASE tasks[t].here
  <2>1. got \in SUBSET (1..MaxEid)
    BY DEF TaskRecord
  <2>2. max' = Raised(got)
    BY <1>4 DEF Merge
  <2>3. /\ max' \in got \cup {max} /\ max' \in 0..MaxEid
        /\ max <= max' /\ \A g \in got : g <= max'
    BY <2>1, <2>2, RaisedIsMost
  <2>4. PICK m \in {max, max'} :
          feed' = IF New(got) \cup Gap(got, m) = {} THEN feed
                  ELSE InOrder(feed \o SetToSeq(New(got) \cup Gap(got, m)))
    BY <1>4, <2>2 DEF Merge
  <2>5. m \in 0..MaxEid
    BY <2>3, <2>4
  <2> HIDE DEF got
  <2>6. /\ feed' \in Seq(Entry)
        /\ Range(feed') = Range(feed) \cup New(got) \cup Gap(got, m)
        /\ DisplayedOnce => Once(feed')
        /\ \A e \in 1..MaxEid : e \in got => 2 * e \in {x.eid : x \in Range(feed')}
    BY <2>1, <2>4, <2>5, MergeDisplays
  <2>7. /\ InFeed' = {x.eid : x \in Range(feed')}
        /\ Markers' = {x \in Range(feed') : x.missing > 0}
        /\ DisplayedOnce' <=> Once(feed')
    BY DEF InFeed, Range, Markers, DisplayedOnce, Once
  <2>8. InFeed \subseteq InFeed' /\ \A e \in got : 2 * e \in InFeed'
    BY <2>1, <2>6, <2>7, FeedEntries
  <2>9. \A x \in Gap(got, m) : x.eid = 2 * m + 1
    <3> TAKE x \in Gap(got, m)
    <3>1. \E l \in got : x = [eid |-> 2 * m + 1, missing |-> l - m - 1]
      BY <2>1, <2>5, GapIsBetween
    <3> QED BY <3>1
  <2>10. \A e \in 1..MaxEid : 2 * e \in InFeed' => 2 * e \in InFeed \/ e \in got
    <3> TAKE e \in 1..MaxEid
    <3> HAVE 2 * e \in InFeed'
    <3>1. PICK x \in Range(feed') : x.eid = 2 * e
      BY <2>7
    <3>2. CASE x \in Range(feed)
      BY <3>1, <3>2, FeedEntries
    <3>3. CASE x \in New(got)
      BY <2>1, <3>1, <3>3 DEF New, Event
    <3>4. CASE x \in Gap(got, m)
      BY <2>5, <2>9, <3>1, <3>4
    <3> QED BY <2>6, <3>2, <3>3, <3>4
  <2>11. \A x \in Markers' : x \in Markers \/ x \in Gap(got, m)
    <3>1. \A x \in New(got) : x.missing = 0
      BY DEF New, Event
    <3> QED BY <2>6, <2>7, <3>1, FeedEntries
  <2> QED BY <1>1, <1>2, <1>4, <2>3, <2>4, <2>6, <2>7, <2>8, <2>10, <2>11 DEF got
<1> QED BY <1>3, <1>4

\* What the message of a frame saves and displays.
LEMMA ShowSteps ==
  ASSUME TypeOK, TasksFit, NEW t \in Calls, Show(t)
  PROVE  /\ t \in Tasks /\ At(t, "text") /\ tasks[t].eid \in 1..MaxEid
         /\ tasks' = [tasks EXCEPT ![t] = Idle]
         /\ saved' = saved \cup {tasks[t].eid}
         /\ UNCHANGED <<server, wire, socket, page, removed, budget, races>>
         /\ \/ ~tasks[t].here /\ UNCHANGED <<feed, max>>
            \/ /\ tasks[t].here
               /\ max' = IF tasks[t].eid > max THEN tasks[t].eid ELSE max
               /\ feed' \in Seq(Entry)
               /\ DisplayedOnce => DisplayedOnce'
               /\ InFeed' = InFeed \cup {2 * tasks[t].eid}
               /\ Markers' = Markers
<1> DEFINE e == tasks[t].eid
<1> USE LogTypes, ConstantTypes
<1>1. /\ At(t, "text") /\ tasks' = [tasks EXCEPT ![t] = Idle] /\ saved' = saved \cup {e}
      /\ UNCHANGED <<server, wire, socket, page, removed, budget, races>>
  BY DEF Show, End, saveMessages
<1>2. t \in Tasks /\ e \in 1..MaxEid
  <2>1. t \in Tasks
    BY <1>1 DEF TasksFit, TaskFits
  <2>2. e > 0
    BY <1>1, <2>1 DEF TasksFit, TaskFits, At, Busy
  <2>3. e \in 0..MaxEid
    BY DEF TaskRecord
  <2> QED BY <2>1, <2>2, <2>3
<1>3. CASE ~tasks[t].here
  <2>1. UNCHANGED <<feed, max>>
    BY <1>3 DEF Show
  <2> QED BY <1>1, <1>2, <1>3, <2>1
<1>4. CASE tasks[t].here
  <2>1. /\ max' = IF e > max THEN e ELSE max
        /\ feed' = IF 2 * e \in InFeed THEN feed ELSE Append(feed, Event(e))
    BY <1>4 DEF Show
  <2> HIDE DEF e
  <2>2. /\ feed' \in Seq(Entry)
        /\ \/ Range(feed') = Range(feed) /\ 2 * e \in InFeed
           \/ Range(feed') = Range(feed) \cup {Event(e)}
        /\ DisplayedOnce => Once(feed')
    BY <1>2, <2>1, ShowDisplays
  <2>3. /\ InFeed' = {x.eid : x \in Range(feed')}
        /\ Markers' = {x \in Range(feed') : x.missing > 0}
        /\ DisplayedOnce' <=> Once(feed')
    BY DEF InFeed, Range, Markers, DisplayedOnce, Once
  <2>4. Event(e).eid = 2 * e /\ Event(e).missing = 0
    BY DEF Event
  <2> DEFINE x == Event(e)
  <2> HIDE DEF x
  <2>5. InFeed' = InFeed \cup {2 * e}
    <3>1. CASE Range(feed') = Range(feed) /\ 2 * e \in InFeed
      BY <2>3, <3>1, FeedEntries
    <3>2. CASE Range(feed') = Range(feed) \cup {x}
      BY <2>3, <2>4, <3>2, FeedEntries DEF x
    <3> QED BY <2>2, <3>1, <3>2 DEF x
  <2>6. Markers' = Markers
    <3>1. CASE Range(feed') = Range(feed)
      BY <2>3, <3>1, FeedEntries
    <3>2. CASE Range(feed') = Range(feed) \cup {x}
      BY <2>3, <2>4, <3>2, FeedEntries DEF x
    <3> QED BY <2>2, <3>1, <3>2 DEF x
  <2> QED BY <1>1, <1>2, <1>4, <2>1, <2>2, <2>3, <2>5, <2>6 DEF e
<1> QED BY <1>3, <1>4

\* What a load that has got its events saves and displays.
LEMMA LoadSteps ==
  ASSUME TypeOK, LoadDone
  PROVE  LET all == tasks["load"].local \cup tasks["load"].got IN
         /\ At("load", "got") /\ all \subseteq 1..MaxEid
         /\ tasks' = [tasks EXCEPT !["load"] = Idle]
         /\ saved' = saved \cup tasks["load"].got
         /\ UNCHANGED <<server, wire, socket, removed, budget>>
         /\ \/ ~tasks["load"].here /\ UNCHANGED <<page, feed, max, races>>
            \/ /\ tasks["load"].here /\ page' = "open"
               /\ feed' \in Seq(Entry) /\ DisplayedOnce'
               /\ all # {} => feed' # <<>>
               /\ InFeed' = {2 * e : e \in all}
               /\ Markers' = {}
               /\ max' \in 0..MaxEid
               /\ \/ all = {} /\ max' = max
                  \/ max' \in all /\ \A e \in all : e <= max'
               /\ \/ feed = <<>> /\ races' = races
                  \/ races' = races \cup {"load"}
<1> DEFINE all == tasks["load"].local \cup tasks["load"].got
<1> USE LogTypes, ConstantTypes
<1>1. /\ At("load", "got") /\ tasks' = [tasks EXCEPT !["load"] = Idle]
      /\ saved' = saved \cup tasks["load"].got
      /\ UNCHANGED <<server, wire, socket, removed, budget>>
  BY DEF LoadDone, End, saveMessages
<1>2. all \in SUBSET (1..MaxEid)
  BY DEF TaskRecord
<1>3. CASE ~tasks["load"].here
  <2>1. UNCHANGED <<page, feed, max, races>>
    BY <1>3 DEF LoadDone
  <2> QED BY <1>1, <1>2, <1>3, <2>1
<1>4. CASE tasks["load"].here
  <2>1. /\ page' = "open"
        /\ feed' = InOrder(SetToSeq({Event(e) : e \in all}))
        /\ max' = IF all = {} THEN max ELSE Most(all)
        /\ races' = races \cup IF feed = <<>> THEN {} ELSE {"load"}
    BY <1>4 DEF LoadDone
  <2> HIDE DEF all
  <2>2. /\ feed' \in Seq(Entry)
        /\ Range(feed') = {Event(e) : e \in all}
        /\ Once(feed')
    BY <1>2, <2>1, LoadDisplays
  <2>3. /\ InFeed' = {x.eid : x \in Range(feed')}
        /\ Markers' = {x \in Range(feed') : x.missing > 0}
        /\ DisplayedOnce' <=> Once(feed')
    BY DEF InFeed, Range, Markers, DisplayedOnce, Once
  <2>4. InFeed' = {2 * e : e \in all} /\ Markers' = {}
    <3>1. \A e \in all : Event(e).eid = 2 * e /\ Event(e).missing = 0
      BY DEF Event
    <3>2. \A x \in InFeed' : x \in {2 * e : e \in all}
      BY <2>2, <2>3, <3>1
    <3>3. \A e \in all : 2 * e \in InFeed'
      BY <2>2, <2>3, <3>1
    <3>4. Markers' = {}
      BY <1>2, <2>2, <2>3, <3>1
    <3> QED BY <3>2, <3>3, <3>4
  <2>5. all # {} => feed' # <<>>
    <3> SUFFICES ASSUME NEW e \in all PROVE feed' # <<>>
      OBVIOUS
    <3>1. Event(e) \in Range(feed')
      BY <2>2
    <3> QED BY <3>1 DEF Range
  <2>6. max' \in 0..MaxEid /\ ((all = {} /\ max' = max) \/ (max' \in all /\ \A e \in all : e <= max'))
    <3>1. CASE all = {}
      BY <2>1, <3>1
    <3>2. CASE all # {}
      <4>1. all \in SUBSET (0..MaxEid)
        BY <1>2
      <4>2. Most(all) \in all /\ \A e \in all : e <= Most(all)
        BY <3>2, <4>1, MostExists
      <4>3. max' = Most(all)
        BY <2>1, <3>2
      <4>4. max' \in all /\ \A e \in all : e <= max'
        BY <4>2, <4>3
      <4> QED BY <4>1, <4>4
    <3> QED BY <3>1, <3>2
  <2> QED BY <1>1, <1>2, <1>4, <2>1, <2>2, <2>3, <2>4, <2>5, <2>6 DEF all
<1> QED BY <1>3, <1>4

\* A frame is handled by a call that waits for what is missing, or for its text.
LEMMA ReceiveSteps ==
  ASSUME TypeOK, NEW t \in Calls, Receive(t)
  PROVE  /\ page # "closed" /\ t \in Tasks /\ At(t, "idle") /\ Len(wire) > 0
         /\ Head(wire) = wire[1] /\ Head(wire) \in 1..MaxEid /\ 1 \in DOMAIN wire
         /\ wire' \in Seq(1..MaxEid) /\ Len(wire') <= Buffer
         /\ \A i \in DOMAIN wire' : i + 1 \in DOMAIN wire /\ wire'[i] = wire[i + 1]
         /\ \A i \in DOMAIN wire : i # 1 => i - 1 \in DOMAIN wire' /\ wire'[i - 1] = wire[i]
         /\ UNCHANGED <<server, socket, client, budget>>
         /\ tasks' \in [Calls -> TaskRecord]
         /\ \A u \in Calls \ {t} : tasks'[u] = tasks[u]
         /\ \/ /\ max > 0 /\ Head(wire) > max + 1
               /\ tasks'[t] = [Idle EXCEPT !.pc = "fetch", !.eid = Head(wire), !.after = max]
            \/ /\ ~(max > 0 /\ Head(wire) > max + 1)
               /\ \/ Head(wire) \in Boosts /\ tasks'[t] = tasks[t]
                  \/ Head(wire) \notin Boosts /\ tasks'[t] = [Idle EXCEPT !.pc = "text", !.eid = Head(wire)]
         /\ \/ max = 0 /\ Head(wire) > JoinEid + 1 /\ races' = races \cup {"blind"}
            \/ ~(max = 0 /\ Head(wire) > JoinEid + 1) /\ races' = races
<1> USE LogTypes, ConstantTypes
<1>1. wire # <<>> /\ wire' = Tail(wire)
  BY DEF Receive
<1>2. /\ Len(wire) > 0 /\ Head(wire) = wire[1] /\ Head(wire) \in 1..MaxEid /\ 1 \in DOMAIN wire
      /\ wire' \in Seq(1..MaxEid) /\ Len(wire') = Len(wire) - 1
      /\ \A i \in 1..Len(wire') : wire'[i] = wire[i + 1]
  <2>1. /\ Head(wire) \in 1..MaxEid /\ wire' \in Seq(1..MaxEid) /\ Len(wire') = Len(wire) - 1
        /\ \A i \in 1..Len(wire') : wire'[i] = wire[i + 1]
    BY <1>1, HeadTailProperties
  <2>2. Len(wire) > 0 /\ DOMAIN wire = 1..Len(wire) /\ Head(wire) = wire[1]
    BY <1>1
  <2> QED BY <2>1, <2>2
<1>3. DOMAIN wire = 1..Len(wire) /\ DOMAIN wire' = 1..Len(wire') /\ Len(wire) \in Nat
  BY <1>2, LenProperties
<1>4. /\ \A i \in DOMAIN wire' : i + 1 \in DOMAIN wire /\ wire'[i] = wire[i + 1]
      /\ \A i \in DOMAIN wire : i # 1 => i - 1 \in DOMAIN wire' /\ wire'[i - 1] = wire[i]
      /\ Len(wire') <= Buffer
  <2>1. ASSUME NEW i \in DOMAIN wire'
        PROVE  i + 1 \in DOMAIN wire /\ wire'[i] = wire[i + 1]
    <3>1. i \in 1..Len(wire') /\ Len(wire') = Len(wire) - 1 /\ Len(wire) \in Nat
      BY ONLY <1>2, <1>3, <2>1
    <3>2. i + 1 \in 1..Len(wire)
      BY ONLY <3>1
    <3> QED BY ONLY <1>2, <1>3, <3>1, <3>2
  <2>2. ASSUME NEW i \in DOMAIN wire, i # 1
        PROVE  i - 1 \in DOMAIN wire' /\ wire'[i - 1] = wire[i]
    <3>1. i - 1 \in 1..Len(wire') /\ (i - 1) + 1 = i
      BY <1>2, <1>3, <2>2
    <3> QED BY <1>2, <1>3, <3>1
  <2>3. Len(wire') <= Buffer
    BY <1>2, <1>3
  <2> QED BY ONLY <2>1, <2>2, <2>3
<1> DEFINE e == Head(wire)
<1>5. /\ page # "closed" /\ t \in Tasks /\ At(t, "idle")
      /\ UNCHANGED <<server, socket, client, budget>>
      /\ tasks' = IF GapBefore(e)
                  THEN [tasks EXCEPT ![t] = [Idle EXCEPT !.pc = "fetch", !.eid = e, !.after = max]]
                  ELSE IF e \in Boosts THEN tasks
                  ELSE [tasks EXCEPT ![t] = [Idle EXCEPT !.pc = "text", !.eid = e]]
      /\ races' = races \cup IF max = 0 /\ e > JoinEid + 1 THEN {"blind"} ELSE {}
  BY DEF Receive
<1> HIDE DEF e
<1>6. e \in 1..MaxEid
  BY <1>2 DEF e
<1>7. /\ tasks' \in [Calls -> TaskRecord]
      /\ \A u \in Calls \ {t} : tasks'[u] = tasks[u]
      /\ \/ /\ max > 0 /\ e > max + 1
            /\ tasks'[t] = [Idle EXCEPT !.pc = "fetch", !.eid = e, !.after = max]
         \/ /\ ~(max > 0 /\ e > max + 1)
            /\ \/ e \in Boosts /\ tasks'[t] = tasks[t]
               \/ e \notin Boosts /\ tasks'[t] = [Idle EXCEPT !.pc = "text", !.eid = e]
  <2>1. 0 \in 0..MaxEid /\ e \in 0..MaxEid /\ max \in 0..MaxEid
    BY <1>6
  <2>2. /\ [Idle EXCEPT !.pc = "fetch", !.eid = e, !.after = max] \in TaskRecord
        /\ [Idle EXCEPT !.pc = "text", !.eid = e] \in TaskRecord
    BY <2>1, TaskRecords
  <2> QED BY <1>5, <2>2 DEF GapBefore
<1>8. \/ max = 0 /\ e > JoinEid + 1 /\ races' = races \cup {"blind"}
      \/ ~(max = 0 /\ e > JoinEid + 1) /\ races' = races
  BY <1>5
<1> QED BY <1>2, <1>4, <1>5, <1>7, <1>8 DEF e

\* A frame that is published goes on its way, or is lost.
LEMMA PublishSteps ==
  ASSUME TypeOK, NEW e \in 1..MaxEid, Publish(e)
  PROVE  /\ e \in unsent /\ unsent' = unsent \ {e}
         /\ UNCHANGED <<seq, stored, pending, socket, client, tasks, budget>>
         /\ wire' \in Seq(1..MaxEid) /\ Len(wire') <= Buffer
         /\ \A i \in DOMAIN wire' : wire'[i] # e => i \in DOMAIN wire /\ wire'[i] = wire[i]
         /\ \A i \in DOMAIN wire : i \in DOMAIN wire' /\ wire'[i] = wire[i]
         /\ races \subseteq races' /\ races' \subseteq races \cup {"missed", "outage"}
         /\ \/ socket = "on" /\ races' = races /\ \E i \in DOMAIN wire' : wire'[i] = e
            \/ page = "closed" /\ wire' = wire
            \/ wire' = wire /\ races' \cap {"missed", "outage"} # {}
<1> USE LogTypes, ConstantTypes
<1>1. /\ e \in unsent /\ unsent' = unsent \ {e}
      /\ UNCHANGED <<seq, stored, pending, socket, client, tasks, budget>>
  BY DEF Publish
<1>2. CASE socket = "on" /\ Len(wire) < Buffer
  <2>1. wire' = Append(wire, e) /\ races' = races
    BY <1>2 DEF Publish
  <2>2. /\ wire' \in Seq(1..MaxEid) /\ Len(wire') = Len(wire) + 1 /\ wire'[Len(wire')] = e
        /\ \A i \in 1..Len(wire) : wire'[i] = wire[i]
    BY <2>1, AppendProperties
  <2>3. DOMAIN wire = 1..Len(wire) /\ DOMAIN wire' = 1..Len(wire') /\ Len(wire) \in Nat
    BY <2>2, LenProperties
  <2>4. \A i \in DOMAIN wire : i \in DOMAIN wire' /\ wire'[i] = wire[i]
    BY <2>2, <2>3
  <2>5. \A i \in DOMAIN wire' : wire'[i] # e => i \in DOMAIN wire /\ wire'[i] = wire[i]
    BY <2>2, <2>3
  <2>6. Len(wire') \in DOMAIN wire' /\ Len(wire') <= Buffer
    BY <1>2, <2>2, <2>3
  <2> QED BY <1>1, <1>2, <2>1, <2>2, <2>4, <2>5, <2>6
<1>3. CASE ~(socket = "on" /\ Len(wire) < Buffer)
  <2>1. /\ wire' = wire
        /\ races' = races \cup (IF page = "closed" THEN {}
                                ELSE IF socket = "lost" THEN {"outage"} ELSE {"missed"})
    BY <1>3 DEF Publish
  <2>2. CASE page = "closed"
    <3>1. wire' = wire /\ races' = races
      BY <2>1, <2>2
    <3> QED BY <1>1, <2>2, <3>1
  <2> QED BY <1>1, <2>1
<1> QED BY <1>2, <1>3

-----------------------------------------------------------------------------
(* The effects of the steps, variable by variable.                         *)

\* What most steps leave as it is.
LogSame ==
  /\ seq' = seq /\ stored' = stored /\ pending' = pending /\ unsent' = unsent
  /\ Numbered' = Numbered
FeedSame == feed' = feed /\ max' = max /\ InFeed' = InFeed /\ Markers' = Markers
KeptSame == saved' = saved /\ removed' = removed
OthersSame(t) == \A u \in Calls \ {t} : tasks'[u] = tasks[u]

\* One line for what is the same, then what changes.
StutterEffect ==
  LogSame /\ FeedSame /\ KeptSame /\ tasks' = tasks /\ wire' = wire /\ page' = page /\ races' = races

\* An event takes an eid or is stored, with the trim, or a boost is both at once.
GrowEffect ==
  /\ FeedSame /\ KeptSame /\ tasks' = tasks /\ wire' = wire /\ page' = page /\ races' = races
  /\ seq' \in seq..MaxEid /\ seq <= seq'
  /\ stored' \subseteq 1..seq' /\ pending' \subseteq 1..seq' /\ unsent' \subseteq 1..seq'
  /\ \A e \in Numbered' : e \in Numbered \/ e > seq
  /\ \A e \in stored' : e \in stored \/ e \in unsent'
  /\ unsent \subseteq unsent'
  /\ pending' \cap Boosts \subseteq pending
  /\ \A e \in pending' \cup unsent' : e \in pending \cup unsent \/ e > seq
  /\ \A e \in Nat : Newer(e) => Newer(e)'
  /\ \A e \in unsent' : e \in unsent \/ Newer(e)'

\* A frame reaches the wire or is lost.
PublishEffect(e) ==
  /\ FeedSame /\ KeptSame /\ tasks' = tasks /\ page' = page /\ races \subseteq races'
  /\ seq' = seq /\ stored' = stored /\ pending' = pending /\ Numbered' = Numbered
  /\ e \in unsent /\ unsent' = unsent \ {e}
  /\ \A i \in DOMAIN wire' : wire'[i] # e => i \in DOMAIN wire /\ wire'[i] = wire[i]
  /\ \A i \in DOMAIN wire : i \in DOMAIN wire' /\ wire'[i] = wire[i]
  /\ \/ socket = "on" /\ races' = races /\ \E i \in DOMAIN wire' : wire'[i] = e
     \/ page = "closed" /\ wire' = wire
     \/ wire' = wire /\ races' \cap {"missed", "outage"} # {}

\* The connection breaks: what was on the wire is gone.
DisconnectEffect ==
  /\ LogSame /\ FeedSame /\ KeptSame /\ tasks' = tasks /\ page' = page /\ races \subseteq races'
  /\ wire' = <<>> /\ (wire = <<>> \/ "outage" \in races')

\* A page opens and its load asks for what is newer than all it has saved.
OpenEffect ==
  /\ LogSame /\ FeedSame /\ KeptSame /\ wire' = wire /\ races' = races /\ OthersSame("load")
  /\ page = "closed" /\ ~removed /\ page' = "loading" /\ ~Busy("load")
  /\ LET x == tasks'["load"] IN
       /\ x.pc = "fetch" /\ x.eid = 0 /\ x.got = {} /\ x.here = TRUE
       /\ x.local = {e \in saved : e >= JoinEid}
       /\ x.after \in 1..seq /\ JoinEid <= x.after
       /\ \A s \in saved : s <= x.after
       /\ x.after = JoinEid \/ x.after \in saved

\* A page is left, with its room or without.
LeaveEffect ==
  /\ LogSame /\ Emptied /\ InFeed' = {} /\ Markers' = {} /\ races \subseteq races'
  /\ \A u \in Calls : LeftBehind(u)
  /\ \/ /\ KeptSame /\ page # "closed"
        /\ \/ "left" \in races'
           \/ wire = <<>> /\ pending \cup unsent = {} /\ \A u \in Calls : ~Busy(u)
     \/ /\ saved' = {} /\ removed'
        /\ (\E u \in Calls : Busy(u)) => "late" \in races'

\* A page that is visible again asks for what is newer than the newest displayed.
VisibleEffect ==
  /\ LogSame /\ FeedSame /\ KeptSame /\ wire' = wire /\ page' = page /\ races' = races
  /\ OthersSame("visible") /\ page # "closed" /\ ~Busy("visible")
  /\ LET x == tasks'["visible"] IN
       x.pc = "fetch" /\ x.eid = 0 /\ x.got = {} /\ x.here = TRUE /\ x.local = {} /\ x.after = max

\* The server answers a call with what the log holds for the member after the eid it asked
\* from, and maybe with what is older than its joining.
AnswerEffect(t) ==
  /\ LogSame /\ FeedSame /\ KeptSame /\ wire' = wire /\ page' = page /\ races \subseteq races'
  /\ OthersSame(t) /\ tasks[t].pc = "fetch"
  /\ LET x == tasks'[t] IN
       /\ x.pc = "got" /\ x.eid = tasks[t].eid /\ x.after = tasks[t].after
       /\ x.local = tasks[t].local /\ x.here = tasks[t].here
       /\ x.got \subseteq {e \in stored : e > tasks[t].after}
       /\ \A e \in stored : e > tasks[t].after /\ e >= JoinEid => e \in x.got
  /\ pending = {} \/ "unstored" \in races'

\* A fetch fails: the call goes on, or the page that was loading closes.
FailEffect(t) ==
  /\ LogSame /\ KeptSame /\ races \subseteq races' /\ "failed" \in races' /\ tasks[t].pc = "fetch"
  /\ \/ /\ t = "load" /\ tasks[t].here /\ Emptied /\ InFeed' = {} /\ Markers' = {}
        /\ "left" \in races' /\ tasks'[t] = Idle
        /\ \A u \in Calls \ {t} : LeftBehind(u)
     \/ FeedSame /\ wire' = wire /\ page' = page /\ Continues(t) /\ ~(t = "load" /\ tasks[t].here)

\* A call saves what it got and, if its page is there, displays it.
MergeEffect(t) ==
  /\ LogSame /\ wire' = wire /\ page' = page /\ races' = races /\ removed' = removed
  /\ t # "load" /\ tasks[t].pc = "got" /\ Continues(t)
  /\ saved' = saved \cup tasks[t].got
  /\ \/ ~tasks[t].here /\ FeedSame
     \/ /\ tasks[t].here
        /\ max' \in tasks[t].got \cup {max} /\ max' \in Nat /\ max <= max'
        /\ \A g \in tasks[t].got : g <= max'
        /\ feed # <<>> => feed' # <<>>
        /\ tasks[t].got # {} => feed' # <<>>
        /\ InFeed \subseteq InFeed'
        /\ \A e \in tasks[t].got : 2 * e \in InFeed'
        /\ \A e \in 1..MaxEid : 2 * e \in InFeed' => 2 * e \in InFeed \/ e \in tasks[t].got
        /\ \A x \in Markers' : x \in Markers \/ \E m \in {max, max'} : x \in Gap(tasks[t].got, m)

\* A call takes the first frame off the wire: its event is behind a gap, a boost or a text.
ReceiveEffect(t) ==
  /\ LogSame /\ FeedSame /\ KeptSame /\ page' = page /\ races \subseteq races'
  /\ page # "closed" /\ t \in Tasks /\ tasks[t] = Idle /\ OthersSame(t)
  /\ 1 \in DOMAIN wire
  /\ \A i \in DOMAIN wire' : i + 1 \in DOMAIN wire /\ wire'[i] = wire[i + 1]
  /\ \A i \in DOMAIN wire : i # 1 => i - 1 \in DOMAIN wire' /\ wire'[i - 1] = wire[i]
  /\ wire[1] \in 1..MaxEid
  /\ LET x == tasks'[t] IN
       \/ /\ max > 0 /\ wire[1] > max + 1
          /\ x.pc = "fetch" /\ x.eid = wire[1] /\ x.after = max /\ x.got = {}
          /\ x.here = TRUE /\ x.local = {}
       \/ ~(max > 0 /\ wire[1] > max + 1) /\ wire[1] \in Boosts /\ x = Idle
       \/ /\ ~(max > 0 /\ wire[1] > max + 1) /\ wire[1] \notin Boosts
          /\ x.pc = "text" /\ x.eid = wire[1] /\ x.after = 0 /\ x.got = {}
          /\ x.here = TRUE /\ x.local = {}
  /\ (max = 0 /\ wire[1] > JoinEid + 1) => "blind" \in races'

\* A message is saved and, if its page is there, displayed.
ShowEffect(t) ==
  /\ LogSame /\ wire' = wire /\ page' = page /\ races' = races /\ removed' = removed
  /\ t \in Tasks /\ tasks[t].pc = "text" /\ tasks[t].eid \in 1..MaxEid
  /\ OthersSame(t) /\ tasks'[t] = Idle
  /\ saved' = saved \cup {tasks[t].eid}
  /\ \/ ~tasks[t].here /\ FeedSame
     \/ /\ tasks[t].here
        /\ max' = IF tasks[t].eid > max THEN tasks[t].eid ELSE max
        /\ feed' # <<>>
        /\ InFeed' = InFeed \cup {2 * tasks[t].eid}
        /\ Markers' = Markers

\* A load saves what it got and, if its page is there, displays all it has.
LoadEffect ==
  LET all == tasks["load"].local \cup tasks["load"].got IN
  /\ LogSame /\ wire' = wire /\ removed' = removed /\ races \subseteq races'
  /\ tasks["load"].pc = "got" /\ OthersSame("load") /\ tasks'["load"] = Idle
  /\ saved' = saved \cup tasks["load"].got
  /\ \/ ~tasks["load"].here /\ FeedSame /\ page' = page /\ races' = races
     \/ /\ tasks["load"].here /\ page' = "open" /\ max' \in Nat
        /\ all # {} => feed' # <<>>
        /\ InFeed' = {2 * e : e \in all} /\ Markers' = {}
        /\ \/ all = {} /\ max' = max
           \/ max' \in all /\ \A e \in all : e <= max'
        /\ feed = <<>> \/ "load" \in races'

\* One of them is what a step does.
Effect ==
  \/ StutterEffect
  \/ GrowEffect
  \/ \E e \in 1..MaxEid : PublishEffect(e)
  \/ DisconnectEffect
  \/ OpenEffect
  \/ LeaveEffect
  \/ VisibleEffect
  \/ \E t \in Calls : \/ AnswerEffect(t) \/ FailEffect(t) \/ MergeEffect(t)
                      \/ ReceiveEffect(t) \/ ShowEffect(t)
  \/ LoadEffect

\* What is unchanged as a variable is unchanged in what is read from it.
LEMMA SameReads ==
  /\ stored' = stored /\ pending' = pending => Numbered' = Numbered
  /\ feed' = feed => InFeed' = InFeed /\ Markers' = Markers
  /\ feed' = <<>> => InFeed' = {} /\ Markers' = {}
BY DEF Numbered, InFeed, Markers

\* Every step of the page, of the log and of the network has one of the effects.
LEMMA EveryStep ==
  ASSUME TypeOK, EidsAreTaken, TasksFit, Next \/ UNCHANGED vars
  PROVE  Effect
<1> USE ConstantTypes, SameReads DEF LogSame, FeedSame, KeptSame, server, client
<1>1. CASE UNCHANGED vars
  BY <1>1 DEF vars, StutterEffect, Effect
<1>2. CASE TakeEid \/ ApplyBoost \/ \E e \in 1..MaxEid : StoreEvent(e)
  <2>1. UNCHANGED <<wire, socket, page, max, feed, saved, removed, tasks, budget, races>>
    BY <1>2 DEF TakeEid, ApplyBoost, StoreEvent
  <2>2. pending' \cap Boosts \subseteq pending
    BY <1>2 DEF TakeEid, ApplyBoost, StoreEvent
  <2>3. \A e \in pending' \cup unsent' : e \in pending \cup unsent \/ e > seq
    <3>1. seq + 1 > seq
      BY LogTypes
    <3>2. ASSUME NEW x \in pending \cup {seq + 1},
                 pending' \cup unsent' \subseteq pending \cup unsent \cup {x}
          PROVE  \A e \in pending' \cup unsent' : e \in pending \cup unsent \/ e > seq
      BY <3>1, <3>2
    <3>3. CASE TakeEid \/ ApplyBoost
      BY <3>2, <3>3 DEF TakeEid, ApplyBoost
    <3>4. CASE \E e \in 1..MaxEid : StoreEvent(e)
      BY <3>2, <3>4 DEF StoreEvent
    <3> QED BY <1>2, <3>3, <3>4
  <2> QED BY <1>2, <2>1, <2>2, <2>3, LogGrows DEF GrowEffect, Effect
<1>3. ASSUME NEW e \in 1..MaxEid, Publish(e) PROVE PublishEffect(e)
  BY <1>3, PublishSteps DEF PublishEffect
<1>4. CASE Connect
  BY <1>4 DEF Connect, StutterEffect, Effect
<1>5. CASE Disconnect
  BY <1>5 DEF Disconnect, Spend, DisconnectEffect, Effect
<1>6. CASE OpenPage
  <2> DEFINE a == FetchFrom(IF saved = {} THEN -1 ELSE Most(saved))
             L == {e \in saved : e >= JoinEid}
  <2>1. /\ a \in 1..seq /\ JoinEid <= a /\ (\A s \in saved : s <= a)
        /\ a = JoinEid \/ a \in saved
    BY FetchFromSaved
  <2> HIDE DEF a
  <2>2. /\ page = "closed" /\ ~removed /\ ~Busy("load") /\ page' = "loading"
        /\ tasks' = [tasks EXCEPT !["load"] =
                       [Idle EXCEPT !.pc = "fetch", !.after = a, !.local = L]]
        /\ UNCHANGED <<server, wire, socket, max, feed, saved, removed, races>>
    BY <1>6 DEF OpenPage, At, Busy, a
  <2> HIDE DEF L
  <2>3. /\ OthersSame("load")
        /\ LET x == tasks'["load"] IN x.pc = "fetch" /\ x.eid = 0 /\ x.got = {} /\ x.here = TRUE
                                      /\ x.local = L /\ x.after = a
    BY <2>2, LogTypes DEF OthersSame, Idle
  <2>4. LogSame /\ FeedSame /\ KeptSame /\ wire' = wire /\ races' = races
    BY <2>2
  <2> QED BY ONLY <2>1, <2>2, <2>3, <2>4 DEF OpenEffect, Effect, L
<1>7. CASE ClosePage \/ RemoveRoom
  <2>1. "left" \in Left \/ (wire = <<>> /\ pending \cup unsent = {} /\ \A u \in Calls : ~Busy(u))
    BY DEF Left, At, Busy
  <2> QED BY <1>7, <2>1, LeavingSteps DEF LeaveEffect, Effect, Emptied
<1>8. CASE Visible
  <2>1. /\ page # "closed" /\ ~Busy("visible")
        /\ tasks' = [tasks EXCEPT !["visible"] = [Idle EXCEPT !.pc = "fetch", !.after = max]]
        /\ UNCHANGED <<server, wire, socket, client, races>>
    BY <1>8 DEF Visible, At, Busy
  <2>2. /\ OthersSame("visible")
        /\ LET x == tasks'["visible"] IN x.pc = "fetch" /\ x.eid = 0 /\ x.got = {} /\ x.here = TRUE
                                         /\ x.local = {} /\ x.after = max
    BY <2>1, LogTypes DEF OthersSame, Idle
  <2> QED BY <2>1, <2>2 DEF VisibleEffect, Effect
<1>9. ASSUME NEW t \in Calls, GetEvents(t) PROVE AnswerEffect(t)
  <2>1. tasks[t] \in TaskRecord
    BY LogTypes
  <2>2. /\ tasks[t].pc = "fetch" /\ UNCHANGED <<server, wire, socket, client>>
        /\ \E held \in {HeldAfter(tasks[t].after), After(tasks[t].after)} : Answered(t, held)
    BY <1>9 DEF GetEvents, At
  <2>3. PICK held \in {HeldAfter(tasks[t].after), After(tasks[t].after)} : Answered(t, held)
    BY <2>2
  <2>4. /\ tasks' = [tasks EXCEPT ![t].pc = "got", ![t].got = held]
        /\ races' = races \cup IF pending # {} THEN {"unstored"} ELSE {}
    BY <2>3 DEF Answered
  <2>5. OthersSame(t)
    BY <2>4, LogTypes DEF OthersSame
  <2>6. LET x == tasks'[t] IN /\ x.pc = "got" /\ x.eid = tasks[t].eid /\ x.after = tasks[t].after
                              /\ x.local = tasks[t].local /\ x.here = tasks[t].here
                              /\ x.got = held
    BY <2>1, <2>4, LogTypes DEF TaskRecord
  <2>7. /\ held \subseteq {e \in stored : e > tasks[t].after}
        /\ \A e \in stored : e > tasks[t].after /\ e >= JoinEid => e \in held
    BY <2>3 DEF HeldAfter, After
  <2> QED BY <2>2, <2>4, <2>5, <2>6, <2>7 DEF AnswerEffect
<1>10. ASSUME NEW t \in Calls, FetchFails(t) PROVE FailEffect(t)
  BY <1>10, FetchFailsSteps DEF FailEffect, Emptied, At
<1>11. ASSUME NEW t \in Calls, Merge(t) PROVE MergeEffect(t)
  <2>1. tasks[t].got \in SUBSET (1..MaxEid)
    BY LogTypes DEF TaskRecord
  <2>2. CASE ~tasks[t].here
    BY <1>11, <2>2, MergeSteps DEF MergeEffect, At
  <2>3. CASE tasks[t].here
    <3>1. (feed # <<>> => feed' # <<>>) /\ (tasks[t].got # {} => feed' # <<>>)
      <4>1. feed' = <<>> => InFeed' = {}
        BY SameReads
      <4>2. InFeed \subseteq InFeed' /\ \A e \in tasks[t].got : 2 * e \in InFeed'
        BY <1>11, <2>3, MergeSteps
      <4>3. feed # <<>> => InFeed # {}
        <5>1. feed # <<>> => 1 \in DOMAIN feed
          BY LogTypes
        <5> QED BY <5>1 DEF InFeed
      <4> QED BY <4>1, <4>2, <4>3
    <3>2. max' \in Nat
      BY <1>11, <2>3, MergeSteps
    <3> QED BY <1>11, <2>3, <3>1, <3>2, MergeSteps DEF MergeEffect, At
  <2> QED BY <2>2, <2>3
<1>12. ASSUME NEW t \in Calls, Receive(t) PROVE ReceiveEffect(t)
  <2> DEFINE e == Head(wire)
  <2>1. tasks[t] = Idle
    BY <1>12, ReceiveSteps DEF TasksFit, TaskFits, Busy, At
  <2>2. LET x == tasks'[t] IN
       \/ /\ max > 0 /\ e > max + 1
          /\ x.pc = "fetch" /\ x.eid = e /\ x.after = max /\ x.got = {}
          /\ x.here = TRUE /\ x.local = {}
       \/ ~(max > 0 /\ e > max + 1) /\ e \in Boosts /\ x = Idle
       \/ /\ ~(max > 0 /\ e > max + 1) /\ e \notin Boosts
          /\ x.pc = "text" /\ x.eid = e /\ x.after = 0 /\ x.got = {}
          /\ x.here = TRUE /\ x.local = {}
    <3> HIDE DEF e
    <3>1. \/ /\ max > 0 /\ e > max + 1
             /\ tasks'[t] = [Idle EXCEPT !.pc = "fetch", !.eid = e, !.after = max]
          \/ /\ ~(max > 0 /\ e > max + 1)
             /\ \/ e \in Boosts /\ tasks'[t] = Idle
                \/ e \notin Boosts /\ tasks'[t] = [Idle EXCEPT !.pc = "text", !.eid = e]
      BY <1>12, <2>1, ReceiveSteps DEF e
    <3> QED BY ONLY <3>1 DEF Idle
  <2>3. e = wire[1]
    BY <1>12, ReceiveSteps
  <2> HIDE DEF e
  <2> QED BY <1>12, <2>1, <2>2, <2>3, ReceiveSteps DEF ReceiveEffect, OthersSame, e
<1>13. ASSUME NEW t \in Calls, Show(t) PROVE ShowEffect(t)
  <2>1. OthersSame(t) /\ tasks'[t] = Idle
    BY <1>13, ShowSteps, LogTypes DEF OthersSame
  <2>2. tasks[t].here => feed' # <<>>
    <3>1. tasks[t].here => InFeed' # {}
      BY <1>13, ShowSteps
    <3> QED BY <3>1, SameReads
  <2> QED BY <1>13, <2>1, <2>2, ShowSteps DEF ShowEffect, At
<1>14. CASE LoadDone
  <2>1. OthersSame("load") /\ tasks'["load"] = Idle
    BY <1>14, LoadSteps, LogTypes DEF OthersSame
  <2>2. LoadEffect
    BY <1>14, <2>1, LoadSteps, ConstantTypes DEF LoadEffect, At
  <2> QED BY <2>2 DEF Effect
<1> QED BY <1>1, <1>2, <1>3, <1>4, <1>5, <1>6, <1>7, <1>8, <1>9, <1>10, <1>11, <1>12, <1>13,
           <1>14
        DEF Next, Effect

-----------------------------------------------------------------------------
(* Every conjunct of the invariant under every effect.                     *)

\* The numbers that the proofs compare.
LEMMA NumberTypes ==
  ASSUME TypeOK
  PROVE  /\ seq \in Nat /\ max \in Nat /\ JoinEid \in Nat
         /\ stored \subseteq Nat /\ pending \subseteq Nat /\ unsent \subseteq Nat
         /\ saved \subseteq Nat /\ Numbered \subseteq Nat
         /\ \A i \in DOMAIN wire : wire[i] \in Nat
         /\ \A t \in Calls : /\ tasks[t].eid \in Nat /\ tasks[t].after \in Nat
                             /\ tasks[t].got \subseteq Nat /\ tasks[t].local \subseteq Nat
                             /\ tasks[t].here \in BOOLEAN
<1>1. \A t \in Calls : tasks[t] \in TaskRecord
  BY LogTypes
<1>2. \A t \in Calls : /\ tasks[t].eid \in Nat /\ tasks[t].after \in Nat
                       /\ tasks[t].got \subseteq Nat /\ tasks[t].local \subseteq Nat
                       /\ tasks[t].here \in BOOLEAN
  BY <1>1, ConstantTypes DEF TaskRecord
<1>3. \A i \in DOMAIN wire : wire[i] \in Nat
  BY LogTypes
<1>4. seq \in Nat /\ max \in Nat /\ JoinEid \in Nat
  BY LogTypes, ConstantTypes
<1>5. /\ stored \subseteq Nat /\ pending \subseteq Nat /\ unsent \subseteq Nat
      /\ saved \subseteq Nat /\ Numbered \subseteq Nat
  BY <1>4, LogTypes
<1> QED BY <1>2, <1>3, <1>4, <1>5

\* The log is still numbers when it has grown.
LEMMA GrownNumbers ==
  ASSUME TypeOK, GrowEffect
  PROVE  /\ seq' \in Nat /\ Numbered' \subseteq Nat /\ stored' \subseteq Nat
         /\ pending' \subseteq Nat /\ unsent' \subseteq Nat
<1>1. seq' \in Nat
  BY NumberTypes DEF GrowEffect
<1> QED BY <1>1 DEF GrowEffect, Numbered

\* The types hold after every step.
LEMMA TypesStay ==
  ASSUME TypeOK, EidsAreTaken, TasksFit, Next \/ UNCHANGED vars
  PROVE  TypeOK'
<1> DEFINE Log == /\ seq \in 0..MaxEid /\ stored \subseteq 1..seq /\ pending \subseteq 1..seq
                  /\ unsent \subseteq 1..seq
           Page == /\ wire \in Seq(1..MaxEid) /\ Len(wire) <= Buffer
                   /\ socket \in {"new", "on", "lost"} /\ page \in {"closed", "loading", "open"}
                   /\ max \in 0..MaxEid /\ feed \in Seq(Entry)
           Kinds == {"missed", "outage", "late", "unstored", "failed", "load", "blind", "left"}
           Saved == saved \subseteq 1..seq /\ removed \in BOOLEAN
           Rest == tasks \in [Calls -> TaskRecord] /\ races \subseteq Kinds
<1>a. Log /\ Page /\ Saved /\ Rest
  BY DEF TypeOK, Entry, TaskRecord
<1>b. ASSUME Log', Page', Saved', Rest' PROVE TypeOK'
  BY <1>b DEF TypeOK, Entry, TaskRecord
<1>c. <<>> \in Seq(1..MaxEid) /\ Len(<<>>) = 0 /\ <<>> \in Seq(Entry) /\ 0 \in 0..MaxEid /\ 0 <= Buffer
  BY ConstantTypes
<1>d. \A t \in Calls : /\ tasks[t].got \subseteq 1..seq /\ tasks[t].eid <= seq
                       /\ tasks[t].local \subseteq 1..seq
  BY DEF EidsAreTaken, EidsTakenBy
<1>e. ASSUME NEW a \in 0..MaxEid, NEW L \in SUBSET (1..MaxEid)
      PROVE  /\ [Idle EXCEPT !.pc = "fetch", !.after = a, !.local = L] \in TaskRecord
             /\ [Idle EXCEPT !.pc = "fetch", !.after = a] \in TaskRecord
  <2>1. 0 \in 0..MaxEid /\ {} \in SUBSET (1..MaxEid)
    BY ConstantTypes
  <2> QED BY ONLY <2>1, <1>e DEF Idle, TaskRecord
<1> USE <1>a, ConstantTypes
<1>1. CASE UNCHANGED vars
  BY <1>1, <1>b DEF vars, server, client
<1>2. CASE TakeEid \/ ApplyBoost \/ \E e \in 1..MaxEid : StoreEvent(e)
  <2>1. UNCHANGED <<wire, socket, page, max, feed, saved, removed, tasks, budget, races>>
    BY <1>2 DEF TakeEid, ApplyBoost, StoreEvent, client
  <2>2. Log' /\ seq <= seq'
    BY <1>2, LogGrows
  <2> QED BY <1>b, <2>1, <2>2
<1>3. ASSUME NEW e \in 1..MaxEid, Publish(e) PROVE TypeOK'
  BY <1>3, <1>b, PublishSteps DEF client
<1>4. CASE Connect \/ Disconnect
  BY <1>4, <1>b, <1>c DEF Connect, Disconnect, Spend, server, client
<1>5. CASE OpenPage \/ Visible
  <2>1. /\ UNCHANGED <<seq, stored, pending, unsent, wire, socket, max, feed, saved, removed, races>>
        /\ page' \in {"closed", "loading", "open"}
    BY <1>5 DEF OpenPage, Visible, server, client
  <2>2. CASE Visible
    <3>1. tasks' = [tasks EXCEPT !["visible"] = [Idle EXCEPT !.pc = "fetch", !.after = max]]
      BY <2>2 DEF Visible
    <3>2. [Idle EXCEPT !.pc = "fetch", !.after = max] \in TaskRecord
      BY ONLY <1>a, <1>e
    <3> QED BY <1>b, <2>1, <3>1, <3>2
  <2>3. CASE OpenPage
    <3> DEFINE a == FetchFrom(IF saved = {} THEN -1 ELSE Most(saved))
               L == {e \in saved : e >= JoinEid}
    <3>1. a \in 1..seq
      BY FetchFromSaved
    <3>2. tasks' = [tasks EXCEPT !["load"] = [Idle EXCEPT !.pc = "fetch", !.after = a, !.local = L]]
      BY <2>3 DEF OpenPage
    <3> HIDE DEF a
    <3>3. L \in SUBSET (1..MaxEid) /\ a \in 0..MaxEid
      BY ONLY <3>1, LogTypes, TypeOK, ConstantTypes
    <3> HIDE DEF L
    <3>4. [Idle EXCEPT !.pc = "fetch", !.after = a, !.local = L] \in TaskRecord
      BY ONLY <3>3, <1>e
    <3> QED BY <1>b, <2>1, <3>2, <3>4
  <2> QED BY <1>5, <2>2, <2>3
<1>6. CASE ClosePage \/ RemoveRoom
  BY <1>6, <1>b, <1>c, LeavingSteps DEF Emptied, server
<1>7. ASSUME NEW t \in Calls, GetEvents(t) PROVE TypeOK'
  <2>0. PICK held \in {HeldAfter(tasks[t].after), After(tasks[t].after)} : Answered(t, held)
    BY <1>7 DEF GetEvents
  <2>1. /\ tasks' = [tasks EXCEPT ![t] = [tasks[t] EXCEPT !.pc = "got", !.got = held]]
        /\ races' \subseteq races \cup {"unstored"}
        /\ UNCHANGED <<seq, stored, pending, unsent, wire, socket, page, max, feed, saved, removed>>
    BY <1>7, <2>0 DEF GetEvents, Answered, server, client
  <2>2. [tasks[t] EXCEPT !.pc = "got", !.got = held] \in TaskRecord
    <3>1. \A e \in stored : e \in 1..MaxEid
      BY ONLY LogTypes, TypeOK, ConstantTypes
    <3>2. held \in SUBSET (1..MaxEid)
      BY ONLY <2>0, <3>1 DEF HeldAfter, After
    <3>3. tasks[t] \in TaskRecord
      BY <1>a
    <3> QED BY ONLY <3>2, <3>3 DEF TaskRecord
  <2> QED BY <1>b, <2>1, <2>2
<1>8. ASSUME NEW t \in Calls, FetchFails(t) PROVE TypeOK'
  BY <1>8, <1>b, <1>c, FetchFailsSteps DEF Emptied, Continues, server
<1>9. ASSUME NEW t \in Calls, Merge(t) PROVE TypeOK'
  <2>1. /\ UNCHANGED <<seq, stored, pending, unsent, wire, socket, page, removed, races>>
        /\ saved' = saved \cup tasks[t].got /\ tasks' \in [Calls -> TaskRecord]
    BY <1>9, MergeSteps DEF Continues, server
  <2>2. max' \in 0..MaxEid /\ feed' \in Seq(Entry)
    BY <1>9, MergeSteps
  <2>3. saved' \subseteq 1..seq
    BY <1>d, <2>1
  <2> QED BY <1>b, <2>1, <2>2, <2>3
<1>10. ASSUME NEW t \in Calls, Receive(t) PROVE TypeOK'
  BY <1>10, <1>b, ReceiveSteps DEF server, client
<1>11. ASSUME NEW t \in Calls, Show(t) PROVE TypeOK'
  <2>1. Idle \in TaskRecord
    BY TaskRecords
  <2>2. /\ UNCHANGED <<seq, stored, pending, unsent, wire, socket, page, removed, races>>
        /\ saved' = saved \cup {tasks[t].eid} /\ tasks[t].eid \in 1..MaxEid
        /\ tasks' = [tasks EXCEPT ![t] = Idle]
    BY <1>11, ShowSteps DEF server
  <2>3. max' \in 0..MaxEid /\ feed' \in Seq(Entry)
    BY <1>11, <2>2, ShowSteps
  <2>4. saved' \subseteq 1..seq
    <3>1. tasks[t].eid \in 1..seq /\ saved \subseteq 1..seq
      <4>1. tasks[t].eid <= seq
        BY <1>d
      <4> QED BY ONLY <1>a, <2>2, <4>1, ConstantTypes
    <3> QED BY ONLY <2>2, <3>1
  <2> QED BY <1>b, <2>1, <2>2, <2>3, <2>4
<1>12. CASE LoadDone
  <2>1. Idle \in TaskRecord
    BY TaskRecords
  <2> QED BY <1>12, <1>b, <1>d, <2>1, LoadSteps DEF server
<1> QED BY <1>1, <1>2, <1>3, <1>4, <1>5, <1>6, <1>7, <1>8, <1>9, <1>10, <1>11, <1>12 DEF Next

\* No step displays an entry a second time.
LEMMA DisplayedStaysOnce ==
  ASSUME TypeOK, TasksFit, DisplayedOnce, Next \/ UNCHANGED vars
  PROVE  DisplayedOnce'
<1>1. CASE feed' = feed
  BY <1>1 DEF DisplayedOnce
<1>2. CASE feed' = <<>>
  BY <1>2 DEF DisplayedOnce
<1>3. ASSUME NEW t \in Calls, Merge(t) PROVE DisplayedOnce'
  BY <1>1, <1>3, MergeSteps
<1>4. ASSUME NEW t \in Calls, Show(t) PROVE DisplayedOnce'
  BY <1>1, <1>4, ShowSteps
<1>5. CASE LoadDone
  BY <1>1, <1>5, LoadSteps
<1>6. CASE ClosePage \/ RemoveRoom
  BY <1>2, <1>6, LeavingSteps DEF Emptied
<1>7. ASSUME NEW t \in Calls, FetchFails(t) PROVE DisplayedOnce'
  BY <1>1, <1>2, <1>7, FetchFailsSteps DEF Emptied
<1>8. ASSUME \/ UNCHANGED vars \/ TakeEid \/ ApplyBoost \/ Connect \/ Disconnect \/ OpenPage \/ Visible
             \/ \E e \in 1..MaxEid : StoreEvent(e) \/ Publish(e)
             \/ \E t \in Calls : GetEvents(t) \/ Receive(t)
      PROVE  DisplayedOnce'
  BY <1>1, <1>8 DEF vars, client, TakeEid, ApplyBoost, Connect, Disconnect, OpenPage, Visible,
                    StoreEvent,
                    Publish, GetEvents, Receive
<1> QED BY <1>3, <1>4, <1>5, <1>6, <1>7, <1>8 DEF Next

\* A closed page has no connection.
LEMMA ClosedStaysOff ==
  ASSUME TypeOK, ClosedIsEmpty, ClosedIsOff, Next \/ UNCHANGED vars
  PROVE  ClosedIsOff'
<1>1. CASE page' = page /\ socket' = socket
  BY <1>1 DEF ClosedIsOff
<1>2. CASE page' # "closed" \/ socket' # "on"
  BY <1>2 DEF ClosedIsOff
<1>3. CASE ClosePage \/ RemoveRoom
  BY <1>2, <1>3, LeavingSteps DEF Emptied
<1>4. ASSUME NEW t \in Calls, FetchFails(t) PROVE ClosedIsOff'
  BY <1>1, <1>2, <1>4, FetchFailsSteps DEF Emptied
<1>5. CASE LoadDone
  BY <1>1, <1>2, <1>5, LoadSteps
<1>6. CASE Connect \/ Disconnect \/ OpenPage
  BY <1>2, <1>6 DEF Connect, Disconnect, OpenPage, client
<1>7. ASSUME \/ UNCHANGED vars \/ TakeEid \/ ApplyBoost \/ Visible
             \/ \E e \in 1..MaxEid : StoreEvent(e) \/ Publish(e)
             \/ \E t \in Calls : GetEvents(t) \/ Receive(t) \/ Merge(t) \/ Show(t)
      PROVE  ClosedIsOff'
  BY <1>1, <1>7 DEF vars, client, TakeEid, ApplyBoost, Visible, StoreEvent, Publish, GetEvents,
                    Receive,
                    Merge, Show
<1> QED BY <1>3, <1>4, <1>5, <1>6, <1>7 DEF Next

\* No step makes up an eid: what is on the wire, shown or waited for was handed out.
LEMMA EidsStayTaken ==
  ASSUME IInv, Effect
  PROVE  EidsAreTaken'
<1> DEFINE Fine(u) ==
       /\ JoinEid <= seq /\ max <= seq /\ \A i \in DOMAIN wire : wire[i] <= seq
       /\ EidsTakenBy(u)
<1> SUFFICES ASSUME NEW u \in Calls PROVE Fine(u)'
  BY ConstantTypes DEF EidsAreTaken, EidsTakenBy
<1>hyp. TypeOK /\ EidsAreTaken
  BY DEF IInv
<1>1. CASE StutterEffect
  BY <1>hyp, <1>1 DEF StutterEffect, LogSame, FeedSame, KeptSame, EidsAreTaken, EidsTakenBy
<1>2. CASE GrowEffect
  BY <1>hyp, <1>2, NumberTypes, ConstantTypes DEF GrowEffect, FeedSame, KeptSame, EidsAreTaken,
                                                  EidsTakenBy
<1>3. ASSUME NEW x \in 1..MaxEid, PublishEffect(x) PROVE Fine(u)'
  BY <1>hyp, <1>3, LogTypes DEF PublishEffect, LogSame, FeedSame, KeptSame, EidsAreTaken,
                                EidsTakenBy
<1>4. CASE DisconnectEffect
  BY <1>hyp, <1>4 DEF DisconnectEffect, LogSame, FeedSame, KeptSame, EidsAreTaken, EidsTakenBy
<1>5. CASE OpenEffect
  BY <1>hyp, <1>5, NumberTypes, ConstantTypes DEF OpenEffect, LogSame, FeedSame, KeptSame,
                                                  OthersSame, EidsAreTaken, EidsTakenBy
<1>6. CASE LeaveEffect
  BY <1>hyp, <1>6, NumberTypes, ConstantTypes DEF LeaveEffect, LogSame, KeptSame, LeftBehind,
                                                  Emptied, Idle, Busy, EidsAreTaken, EidsTakenBy
<1>7. CASE VisibleEffect
  BY <1>hyp, <1>7, NumberTypes, ConstantTypes DEF VisibleEffect, LogSame, FeedSame, KeptSame,
                                                  OthersSame, EidsAreTaken, EidsTakenBy
<1>8. ASSUME NEW t \in Calls, AnswerEffect(t) PROVE Fine(u)'
  BY <1>hyp, <1>8, LogTypes, NumberTypes DEF AnswerEffect, LogSame, FeedSame, KeptSame,
                                             OthersSame, EidsAreTaken, EidsTakenBy
<1>9. ASSUME NEW t \in Calls, FailEffect(t) PROVE Fine(u)'
  BY <1>hyp, <1>9, NumberTypes, ConstantTypes DEF FailEffect, LogSame, KeptSame, Emptied,
                                                  FeedSame, Continues, LeftBehind, Idle, Busy,
                                                  EidsAreTaken, EidsTakenBy
<1>10. ASSUME NEW t \in Calls, MergeEffect(t) PROVE Fine(u)'
  BY <1>hyp, <1>10, NumberTypes, ConstantTypes DEF MergeEffect, LogSame, FeedSame, Continues,
                                                   Idle, EidsAreTaken, EidsTakenBy
<1>11. ASSUME NEW t \in Calls, ReceiveEffect(t) PROVE Fine(u)'
  BY <1>hyp, <1>11 DEF ReceiveEffect, LogSame, FeedSame, KeptSame, OthersSame, Idle,
                       EidsAreTaken, EidsTakenBy
<1>12. ASSUME NEW t \in Calls, ShowEffect(t) PROVE Fine(u)'
  BY <1>hyp, <1>12, NumberTypes, ConstantTypes DEF ShowEffect, LogSame, FeedSame, OthersSame,
                                                   Idle, EidsAreTaken, EidsTakenBy
<1>13. CASE LoadEffect
  BY <1>hyp, <1>13, NumberTypes, ConstantTypes DEF LoadEffect, LogSame, FeedSame, OthersSame,
                                                   Idle, EidsAreTaken, EidsTakenBy
<1> QED BY <1>1, <1>2, <1>3, <1>4, <1>5, <1>6, <1>7, <1>8, <1>9, <1>10, <1>11, <1>12, <1>13
           DEF Effect

\* A call stays with the eid of its frame, and never comes to the text of a boost.
LEMMA TasksStayFit ==
  ASSUME IInv, Effect
  PROVE  TasksFit'
<1> DEFINE Fine(u) ==
       TaskFits(u) /\ pending \cap Boosts = {}
<1> SUFFICES ASSUME NEW u \in Calls PROVE Fine(u)'
  BY ConstantTypes DEF TasksFit, TaskFits, Busy, At, Asking
<1>hyp. TypeOK /\ TasksFit
  BY DEF IInv
<1>1. CASE StutterEffect
  BY <1>hyp, <1>1, NumberTypes DEF StutterEffect, LogSame, FeedSame, KeptSame, Busy, TasksFit,
                                   TaskFits, At, Asking
<1>2. CASE GrowEffect
  BY <1>hyp, <1>2, NumberTypes DEF GrowEffect, FeedSame, KeptSame, Busy, TasksFit, TaskFits, At,
                                   Asking
<1>3. ASSUME NEW x \in 1..MaxEid, PublishEffect(x) PROVE Fine(u)'
  BY <1>hyp, <1>3, NumberTypes DEF PublishEffect, FeedSame, KeptSame, Busy, TasksFit, TaskFits,
                                   At, Asking
<1>4. CASE DisconnectEffect
  BY <1>hyp, <1>4, NumberTypes DEF DisconnectEffect, LogSame, FeedSame, KeptSame, Busy,
                                   TasksFit, TaskFits, At, Asking
<1>5. CASE OpenEffect
  BY <1>hyp, <1>5, ConstantTypes DEF OpenEffect, LogSame, FeedSame, KeptSame, OthersSame, Busy,
                                     TasksFit, TaskFits, At, Asking
<1>6. CASE LeaveEffect
  BY <1>hyp, <1>6 DEF LeaveEffect, LogSame, KeptSame, LeftBehind, Emptied, Idle, Busy, TasksFit,
                      TaskFits, At, Asking
<1>7. CASE VisibleEffect
  BY <1>hyp, <1>7, ConstantTypes DEF VisibleEffect, LogSame, FeedSame, KeptSame, OthersSame,
                                     Busy, TasksFit, TaskFits, At, Asking
<1>8. ASSUME NEW t \in Calls, AnswerEffect(t) PROVE Fine(u)'
  BY <1>hyp, <1>8, NumberTypes DEF AnswerEffect, LogSame, FeedSame, KeptSame, OthersSame, Busy,
                                   TasksFit, TaskFits, At, Asking
<1>9. ASSUME NEW t \in Calls, FailEffect(t) PROVE Fine(u)'
  BY <1>hyp, <1>9 DEF FailEffect, LogSame, KeptSame, Emptied, FeedSame, Continues, LeftBehind,
                      Idle, Busy, TasksFit, TaskFits, At, Asking
<1>10. ASSUME NEW t \in Calls, MergeEffect(t) PROVE Fine(u)'
  BY <1>hyp, <1>10, NumberTypes DEF MergeEffect, LogSame, FeedSame, Continues, Idle, Busy,
                                    TasksFit, TaskFits, At, Asking
<1>11. ASSUME NEW t \in Calls, ReceiveEffect(t) PROVE Fine(u)'
  BY <1>hyp, <1>11, NumberTypes DEF ReceiveEffect, LogSame, FeedSame, KeptSame, OthersSame,
                                    Idle, Busy, TasksFit, TaskFits, At, Asking
<1>12. ASSUME NEW t \in Calls, ShowEffect(t) PROVE Fine(u)'
  BY <1>hyp, <1>12, NumberTypes DEF ShowEffect, LogSame, FeedSame, OthersSame, Idle, Busy,
                                    TasksFit, TaskFits, At, Asking
<1>13. CASE LoadEffect
  BY <1>hyp, <1>13, NumberTypes DEF LoadEffect, LogSame, FeedSame, OthersSame, Idle, Busy,
                                    TasksFit, TaskFits, At, Asking
<1> QED BY <1>1, <1>2, <1>3, <1>4, <1>5, <1>6, <1>7, <1>8, <1>9, <1>10, <1>11, <1>12, <1>13
           DEF Effect

\* A page that is left is empty, and the calls it leaves no longer count on it.
LEMMA ClosedStaysEmpty ==
  ASSUME IInv, Effect
  PROVE  ClosedIsEmpty'
<1>hyp. TypeOK /\ ClosedIsOff /\ ClosedIsEmpty
  BY DEF IInv
<1>1. CASE StutterEffect
  BY <1>hyp, <1>1, NumberTypes DEF StutterEffect, LogSame, FeedSame, KeptSame, Busy,
                                   ClosedIsEmpty, Without
<1>2. CASE GrowEffect
  BY <1>hyp, <1>2, NumberTypes DEF GrowEffect, FeedSame, KeptSame, Busy, ClosedIsEmpty, Without
<1>3. ASSUME NEW x \in 1..MaxEid, PublishEffect(x) PROVE ClosedIsEmpty'
  BY <1>hyp, <1>3, NumberTypes DEF PublishEffect, FeedSame, KeptSame, Busy, ClosedIsEmpty,
                                   ClosedIsOff, Without
<1>4. CASE DisconnectEffect
  BY <1>hyp, <1>4, NumberTypes DEF DisconnectEffect, LogSame, FeedSame, KeptSame, Busy,
                                   ClosedIsEmpty, Without
<1>5. CASE OpenEffect
  BY <1>hyp, <1>5 DEF OpenEffect, LogSame, FeedSame, KeptSame, OthersSame, ClosedIsEmpty,
                      Without
<1>6. CASE LeaveEffect
  BY <1>hyp, <1>6 DEF LeaveEffect, LogSame, KeptSame, LeftBehind, Emptied, Idle, Busy,
                      ClosedIsEmpty, Without
<1>7. CASE VisibleEffect
  BY <1>hyp, <1>7 DEF VisibleEffect, LogSame, FeedSame, KeptSame, OthersSame, ClosedIsEmpty,
                      Without
<1>8. ASSUME NEW t \in Calls, AnswerEffect(t) PROVE ClosedIsEmpty'
  BY <1>hyp, <1>8, NumberTypes DEF AnswerEffect, LogSame, FeedSame, KeptSame, OthersSame, Busy,
                                   ClosedIsEmpty, Without
<1>9. ASSUME NEW t \in Calls, FailEffect(t) PROVE ClosedIsEmpty'
  BY <1>hyp, <1>9 DEF FailEffect, LogSame, KeptSame, Emptied, FeedSame, Continues, LeftBehind,
                      Idle, Busy, ClosedIsEmpty, Without
<1>10. ASSUME NEW t \in Calls, MergeEffect(t) PROVE ClosedIsEmpty'
  BY <1>hyp, <1>10, NumberTypes DEF MergeEffect, LogSame, FeedSame, Continues, Idle, Busy,
                                    ClosedIsEmpty, Without
<1>11. ASSUME NEW t \in Calls, ReceiveEffect(t) PROVE ClosedIsEmpty'
  BY <1>hyp, <1>11 DEF ReceiveEffect, LogSame, FeedSame, KeptSame, OthersSame, Idle,
                       ClosedIsEmpty, Without
<1>12. ASSUME NEW t \in Calls, ShowEffect(t) PROVE ClosedIsEmpty'
  BY <1>hyp, <1>12, NumberTypes DEF ShowEffect, LogSame, FeedSame, OthersSame, Idle, Busy,
                                    ClosedIsEmpty, Without
<1>13. CASE LoadEffect
  BY <1>hyp, <1>13, NumberTypes DEF LoadEffect, LogSame, FeedSame, OthersSame, Idle, Busy,
                                    ClosedIsEmpty, Without
<1> QED BY <1>1, <1>2, <1>3, <1>4, <1>5, <1>6, <1>7, <1>8, <1>9, <1>10, <1>11, <1>12, <1>13
           DEF Effect

\* An event is published after it is stored, and only newer ones push it out.
LEMMA PublishedStaysStored ==
  ASSUME IInv, Effect
  PROVE  PublishedWasStored'
<1>hyp. TypeOK /\ EidsAreTaken /\ PublishedWasStored /\ TasksFit
  BY DEF IInv
<1>1. CASE StutterEffect
  BY <1>hyp, <1>1, NumberTypes DEF StutterEffect, LogSame, FeedSame, KeptSame, Busy,
                                   PublishedWasStored, Newer
<1>2. CASE GrowEffect
  BY <1>hyp, <1>2, NumberTypes, ConstantTypes DEF GrowEffect, FeedSame, KeptSame, Busy, Idle,
                                                  PublishedWasStored, Newer, EidsAreTaken
<1>3. ASSUME NEW e \in 1..MaxEid, PublishEffect(e) PROVE PublishedWasStored'
  BY <1>hyp, <1>3, NumberTypes DEF PublishEffect, FeedSame, KeptSame, Busy, PublishedWasStored,
                                   Newer
<1>4. CASE DisconnectEffect
  BY <1>hyp, <1>4, NumberTypes DEF DisconnectEffect, LogSame, FeedSame, KeptSame, Busy,
                                   PublishedWasStored, Newer
<1>5. CASE OpenEffect
  BY <1>hyp, <1>5, ConstantTypes DEF OpenEffect, LogSame, FeedSame, KeptSame, OthersSame, Busy,
                                     PublishedWasStored, Newer
<1>6. CASE LeaveEffect
  BY <1>hyp, <1>6, ConstantTypes DEF LeaveEffect, LogSame, KeptSame, LeftBehind, Emptied, Idle,
                                     Busy, PublishedWasStored, Newer
<1>7. CASE VisibleEffect
  BY <1>hyp, <1>7, ConstantTypes DEF VisibleEffect, LogSame, FeedSame, KeptSame, OthersSame,
                                     Busy, PublishedWasStored, Newer
<1>8. ASSUME NEW t \in Calls, AnswerEffect(t) PROVE PublishedWasStored'
  BY <1>hyp, <1>8, ConstantTypes DEF AnswerEffect, LogSame, FeedSame, KeptSame, OthersSame,
                                     Busy, PublishedWasStored, Newer
<1>9. ASSUME NEW t \in Calls, FailEffect(t) PROVE PublishedWasStored'
  BY <1>hyp, <1>9, ConstantTypes DEF FailEffect, LogSame, KeptSame, Emptied, FeedSame,
                                     Continues, LeftBehind, Idle, Busy, PublishedWasStored,
                                     Newer
<1>10. ASSUME NEW t \in Calls, MergeEffect(t) PROVE PublishedWasStored'
  BY <1>hyp, <1>10, ConstantTypes DEF MergeEffect, LogSame, FeedSame, Continues, Idle, Busy,
                                      PublishedWasStored, Newer
<1>11. ASSUME NEW t \in Calls, ReceiveEffect(t) PROVE PublishedWasStored'
  BY <1>hyp, <1>11, ConstantTypes DEF ReceiveEffect, LogSame, FeedSame, KeptSame, OthersSame,
                                      Idle, Busy, PublishedWasStored, Newer
<1>12. ASSUME NEW t \in Calls, ShowEffect(t) PROVE PublishedWasStored'
  BY <1>hyp, <1>12, ConstantTypes DEF ShowEffect, LogSame, FeedSame, OthersSame, Idle, Busy,
                                      PublishedWasStored, Newer
<1>13. CASE LoadEffect
  BY <1>hyp, <1>13, ConstantTypes DEF LoadEffect, LogSame, FeedSame, OthersSame, Idle, Busy,
                                      PublishedWasStored, Newer
<1> QED BY <1>1, <1>2, <1>3, <1>4, <1>5, <1>6, <1>7, <1>8, <1>9, <1>10, <1>11, <1>12, <1>13
           DEF Effect

\* A call has asked for what is newer than it knows, and gets its own event or newer ones.
LEMMA AnswersStayFit ==
  ASSUME IInv, Effect
  PROVE  (\A t \in Calls : AnswerFits(t))'
<1> DEFINE Fine(u) ==
       AnswerFits(u)
<1> SUFFICES ASSUME NEW u \in Calls PROVE Fine(u)'
  BY ConstantTypes DEF AnswerFits, At
<1>hyp. TypeOK /\ PublishedWasStored /\ TasksFit /\ EidsAreTaken /\ AnswersFit
  BY DEF IInv
<1>1. CASE StutterEffect
  BY <1>hyp, <1>1 DEF StutterEffect, LogSame, FeedSame, KeptSame, AnswersFit, AnswerFits, At,
                      Asking
<1>2. CASE GrowEffect
  BY <1>hyp, <1>2 DEF GrowEffect, FeedSame, KeptSame, AnswersFit, AnswerFits, At, Asking
<1>3. ASSUME NEW x \in 1..MaxEid, PublishEffect(x) PROVE Fine(u)'
  BY <1>hyp, <1>3 DEF PublishEffect, FeedSame, KeptSame, AnswersFit, AnswerFits, At, Asking
<1>4. CASE DisconnectEffect
  BY <1>hyp, <1>4 DEF DisconnectEffect, LogSame, FeedSame, KeptSame, AnswersFit, AnswerFits, At,
                      Asking
<1>5. CASE OpenEffect
  BY <1>hyp, <1>5 DEF OpenEffect, LogSame, FeedSame, KeptSame, OthersSame, AnswersFit,
                      AnswerFits, At, Asking
<1>6. CASE LeaveEffect
  BY <1>hyp, <1>6 DEF LeaveEffect, LogSame, KeptSame, LeftBehind, Emptied, Idle, Busy,
                      AnswersFit, AnswerFits, At, Asking
<1>7. CASE VisibleEffect
  BY <1>hyp, <1>7 DEF VisibleEffect, LogSame, FeedSame, KeptSame, OthersSame, AnswersFit,
                      AnswerFits, At, Asking
<1>8. ASSUME NEW t \in Calls, AnswerEffect(t) PROVE Fine(u)'
  BY <1>hyp, <1>8, NumberTypes, ConstantTypes DEF AnswerEffect, LogSame, FeedSame, KeptSame,
                                                  OthersSame, Continues, LeftBehind, Emptied,
                                                  Busy, Idle, AnswersFit, AnswerFits, At, Newer,
                                                  Asking, PublishedWasStored, TasksFit, TaskFits
<1>9. ASSUME NEW t \in Calls, FailEffect(t) PROVE Fine(u)'
  BY <1>hyp, <1>9 DEF FailEffect, LogSame, KeptSame, Emptied, FeedSame, Continues, LeftBehind,
                      Idle, Busy, AnswersFit, AnswerFits, At, Asking
<1>10. ASSUME NEW t \in Calls, MergeEffect(t) PROVE Fine(u)'
  BY <1>hyp, <1>10 DEF MergeEffect, LogSame, FeedSame, Continues, Idle, AnswersFit, AnswerFits,
                       At, Asking
<1>11. ASSUME NEW t \in Calls, ReceiveEffect(t) PROVE Fine(u)'
  BY <1>hyp, <1>11 DEF ReceiveEffect, LogSame, FeedSame, KeptSame, OthersSame, Idle, AnswersFit,
                       AnswerFits, At, Asking
<1>12. ASSUME NEW t \in Calls, ShowEffect(t) PROVE Fine(u)'
  BY <1>hyp, <1>12 DEF ShowEffect, LogSame, FeedSame, OthersSame, Idle, AnswersFit, AnswerFits,
                       At, Asking
<1>13. CASE LoadEffect
  BY <1>hyp, <1>13 DEF LoadEffect, LogSame, FeedSame, OthersSame, Idle, AnswersFit, AnswerFits,
                       At, Asking
<1> QED BY <1>1, <1>2, <1>3, <1>4, <1>5, <1>6, <1>7, <1>8, <1>9, <1>10, <1>11, <1>12, <1>13
           DEF Effect

\* What an answer lacks of the log is newer than all it brings, unless the server
\* answered before an older event was stored.
LEMMA AnswersStayFull ==
  ASSUME IInv, Effect
  PROVE  (Without({"unstored"}) => \A t \in Calls : AnswerIsFull(t))'
<1> DEFINE Fine(u) ==
       Without({"unstored"}) => AnswerIsFull(u)
<1> SUFFICES ASSUME NEW u \in Calls PROVE Fine(u)'
  BY ConstantTypes DEF AnswerIsFull, At, Without
<1>hyp. TypeOK /\ EidsAreTaken /\ AnswersFit
  BY DEF IInv
<1>1. CASE StutterEffect
  BY <1>hyp, <1>1 DEF StutterEffect, LogSame, FeedSame, KeptSame, AnswersFit, AnswerIsFull, At,
                      Without, Numbered
<1>2. CASE GrowEffect
  <2>1. \A e \in Numbered' : e \in Numbered \/ e > seq
    BY <1>2 DEF GrowEffect
  <2>2. tasks' = tasks /\ races' = races
    BY <1>2 DEF GrowEffect
  <2>3. seq \in Nat /\ \A g \in tasks[u].got : g \in Nat /\ g <= seq
    BY <1>hyp, NumberTypes DEF EidsAreTaken, EidsTakenBy
  <2>4. \A e \in Numbered' : e \in Nat
    BY <1>hyp, <1>2, GrownNumbers
  <2>5. \A e \in Numbered' : e > seq => \A g \in tasks[u].got : g < e
    BY <2>3, <2>4
  <2> QED BY <1>hyp, <2>1, <2>2, <2>5 DEF AnswersFit, AnswerIsFull, At, Without
<1>3. ASSUME NEW x \in 1..MaxEid, PublishEffect(x) PROVE Fine(u)'
  BY <1>hyp, <1>3 DEF PublishEffect, FeedSame, KeptSame, AnswersFit, AnswerIsFull, At, Without,
                      Numbered
<1>4. CASE DisconnectEffect
  BY <1>hyp, <1>4 DEF DisconnectEffect, LogSame, FeedSame, KeptSame, AnswersFit, AnswerIsFull,
                      At, Without, Numbered
<1>5. CASE OpenEffect
  BY <1>hyp, <1>5 DEF OpenEffect, LogSame, FeedSame, KeptSame, OthersSame, AnswersFit,
                      AnswerIsFull, At, Without, Numbered
<1>6. CASE LeaveEffect
  BY <1>hyp, <1>6 DEF LeaveEffect, LogSame, KeptSame, LeftBehind, Emptied, Idle, Busy,
                      AnswersFit, AnswerIsFull, At, Without, Numbered
<1>7. CASE VisibleEffect
  BY <1>hyp, <1>7 DEF VisibleEffect, LogSame, FeedSame, KeptSame, OthersSame, AnswersFit,
                      AnswerIsFull, At, Without, Numbered
<1>8. ASSUME NEW t \in Calls, AnswerEffect(t) PROVE Fine(u)'
  BY <1>hyp, <1>8 DEF AnswerEffect, LogSame, FeedSame, KeptSame, OthersSame, AnswersFit,
                      AnswerIsFull, At, Without, Numbered
<1>9. ASSUME NEW t \in Calls, FailEffect(t) PROVE Fine(u)'
  BY <1>hyp, <1>9 DEF FailEffect, LogSame, KeptSame, Emptied, FeedSame, Continues, LeftBehind,
                      Idle, Busy, AnswersFit, AnswerIsFull, At, Without, Numbered
<1>10. ASSUME NEW t \in Calls, MergeEffect(t) PROVE Fine(u)'
  BY <1>hyp, <1>10 DEF MergeEffect, LogSame, FeedSame, Continues, Idle, AnswersFit,
                       AnswerIsFull, At, Without, Numbered
<1>11. ASSUME NEW t \in Calls, ReceiveEffect(t) PROVE Fine(u)'
  BY <1>hyp, <1>11 DEF ReceiveEffect, LogSame, FeedSame, KeptSame, OthersSame, Idle, AnswersFit,
                       AnswerIsFull, At, Without, Numbered
<1>12. ASSUME NEW t \in Calls, ShowEffect(t) PROVE Fine(u)'
  BY <1>hyp, <1>12 DEF ShowEffect, LogSame, FeedSame, OthersSame, Idle, AnswersFit,
                       AnswerIsFull, At, Without, Numbered
<1>13. CASE LoadEffect
  BY <1>hyp, <1>13 DEF LoadEffect, LogSame, FeedSame, OthersSame, Idle, AnswersFit,
                       AnswerIsFull, At, Without, Numbered
<1> QED BY <1>1, <1>2, <1>3, <1>4, <1>5, <1>6, <1>7, <1>8, <1>9, <1>10, <1>11, <1>12, <1>13
           DEF Effect

\* A call of the page has asked for events after one that is not above the newest shown.
LEMMA AskedStaysShown ==
  ASSUME IInv, Effect
  PROVE  AskedFromShown'
<1> DEFINE Fine(u) ==
       Without({"load"}) /\ u # "load" /\ Asking(u) /\ tasks[u].here => tasks[u].after <= max
<1> SUFFICES ASSUME NEW u \in Calls PROVE Fine(u)'
  BY ConstantTypes DEF AskedFromShown, Asking, Without
<1>hyp. TypeOK /\ ClosedIsEmpty /\ LoadedIsSaved /\ AskedFromShown
  BY DEF IInv
<1>1. CASE StutterEffect
  BY <1>hyp, <1>1 DEF StutterEffect, LogSame, FeedSame, KeptSame, AskedFromShown, Asking,
                      Without
<1>2. CASE GrowEffect
  BY <1>hyp, <1>2 DEF GrowEffect, FeedSame, KeptSame, AskedFromShown, Asking, Without
<1>3. ASSUME NEW x \in 1..MaxEid, PublishEffect(x) PROVE Fine(u)'
  BY <1>hyp, <1>3 DEF PublishEffect, FeedSame, KeptSame, AskedFromShown, Asking, Without
<1>4. CASE DisconnectEffect
  BY <1>hyp, <1>4 DEF DisconnectEffect, LogSame, FeedSame, KeptSame, AskedFromShown, Asking,
                      Without
<1>5. CASE OpenEffect
  BY <1>hyp, <1>5 DEF OpenEffect, LogSame, FeedSame, KeptSame, OthersSame, AskedFromShown,
                      Asking, Without
<1>6. CASE LeaveEffect
  BY <1>hyp, <1>6 DEF LeaveEffect, LogSame, KeptSame, LeftBehind, Emptied, Idle, Busy,
                      AskedFromShown, Asking, Without
<1>7. CASE VisibleEffect
  BY <1>hyp, <1>7, NumberTypes, ConstantTypes DEF VisibleEffect, LogSame, FeedSame, KeptSame,
                                                  OthersSame, AskedFromShown, Asking, Without
<1>8. ASSUME NEW t \in Calls, AnswerEffect(t) PROVE Fine(u)'
  BY <1>hyp, <1>8 DEF AnswerEffect, LogSame, FeedSame, KeptSame, OthersSame, AskedFromShown,
                      Asking, Without
<1>9. ASSUME NEW t \in Calls, FailEffect(t) PROVE Fine(u)'
  BY <1>hyp, <1>9 DEF FailEffect, LogSame, KeptSame, Emptied, FeedSame, Continues, LeftBehind,
                      Idle, Busy, AskedFromShown, Asking, Without
<1>10. ASSUME NEW t \in Calls, MergeEffect(t) PROVE Fine(u)'
  BY <1>hyp, <1>10, NumberTypes, ConstantTypes DEF MergeEffect, LogSame, FeedSame, Continues,
                                                   Idle, AskedFromShown, Asking, Without
<1>11. ASSUME NEW t \in Calls, ReceiveEffect(t) PROVE Fine(u)'
  BY <1>hyp, <1>11, NumberTypes, ConstantTypes DEF ReceiveEffect, LogSame, FeedSame, KeptSame,
                                                   OthersSame, Idle, AskedFromShown, Asking,
                                                   Without
<1>12. ASSUME NEW t \in Calls, ShowEffect(t) PROVE Fine(u)'
  BY <1>hyp, <1>12, NumberTypes, ConstantTypes DEF ShowEffect, LogSame, FeedSame, OthersSame,
                                                   Idle, AskedFromShown, Asking, Without
<1>13. CASE LoadEffect
  BY <1>hyp, <1>13, NumberTypes, ConstantTypes DEF LoadEffect, LogSame, FeedSame, OthersSame,
                                                   Idle, AskedFromShown, Asking, Without,
                                                   ClosedIsEmpty, LoadedIsSaved
<1> QED BY <1>1, <1>2, <1>3, <1>4, <1>5, <1>6, <1>7, <1>8, <1>9, <1>10, <1>11, <1>12, <1>13
           DEF Effect

\* What a load read of IndexedDB is there when it shows it.
LEMMA LoadedStaysSaved ==
  ASSUME IInv, Effect
  PROVE  LoadedIsSaved'
<1>hyp. TypeOK /\ LoadedIsSaved
  BY DEF IInv
<1>1. CASE StutterEffect
  BY <1>hyp, <1>1 DEF StutterEffect, KeptSame, LoadedIsSaved
<1>2. CASE GrowEffect
  BY <1>hyp, <1>2 DEF GrowEffect, KeptSame, LoadedIsSaved
<1>3. ASSUME NEW e \in 1..MaxEid, PublishEffect(e) PROVE LoadedIsSaved'
  BY <1>hyp, <1>3 DEF PublishEffect, KeptSame, LoadedIsSaved
<1>4. CASE DisconnectEffect
  BY <1>hyp, <1>4 DEF DisconnectEffect, KeptSame, LoadedIsSaved
<1>5. CASE OpenEffect
  BY <1>5 DEF OpenEffect, KeptSame, LoadedIsSaved
<1>6. CASE LeaveEffect
  BY <1>hyp, <1>6, ConstantTypes DEF LeaveEffect, LeftBehind, Idle, LoadedIsSaved
<1>7. CASE VisibleEffect
  BY <1>hyp, <1>7, ConstantTypes DEF VisibleEffect, KeptSame, OthersSame, LoadedIsSaved
<1>8. ASSUME NEW t \in Calls, AnswerEffect(t) PROVE LoadedIsSaved'
  BY <1>hyp, <1>8, ConstantTypes DEF AnswerEffect, KeptSame, OthersSame, LoadedIsSaved
<1>9. ASSUME NEW t \in Calls, FailEffect(t) PROVE LoadedIsSaved'
  BY <1>hyp, <1>9, ConstantTypes DEF FailEffect, KeptSame, Continues, Idle, LoadedIsSaved
<1>10. ASSUME NEW t \in Calls, MergeEffect(t) PROVE LoadedIsSaved'
  BY <1>hyp, <1>10, ConstantTypes DEF MergeEffect, Continues, LoadedIsSaved
<1>11. ASSUME NEW t \in Calls, ReceiveEffect(t) PROVE LoadedIsSaved'
  BY <1>hyp, <1>11, ConstantTypes DEF ReceiveEffect, KeptSame, OthersSame, LoadedIsSaved
<1>12. ASSUME NEW t \in Calls, ShowEffect(t) PROVE LoadedIsSaved'
  BY <1>hyp, <1>12, ConstantTypes DEF ShowEffect, OthersSame, LoadedIsSaved
<1>13. CASE LoadEffect
  BY <1>13 DEF LoadEffect, Idle, LoadedIsSaved
<1> QED BY <1>1, <1>2, <1>3, <1>4, <1>5, <1>6, <1>7, <1>8, <1>9, <1>10, <1>11, <1>12, <1>13
           DEF Effect

\* What is displayed has been saved before.
LEMMA DisplayedStaysSaved ==
  ASSUME IInv, Effect
  PROVE  DisplayedIsSaved'
<1>hyp. TypeOK /\ LoadedIsSaved /\ DisplayedIsSaved
  BY DEF IInv
<1>1. CASE StutterEffect
  BY <1>hyp, <1>1 DEF StutterEffect, LogSame, FeedSame, KeptSame, DisplayedIsSaved, Displayed
<1>2. CASE GrowEffect
  BY <1>hyp, <1>2 DEF GrowEffect, FeedSame, KeptSame, DisplayedIsSaved, Displayed
<1>3. ASSUME NEW e \in 1..MaxEid, PublishEffect(e) PROVE DisplayedIsSaved'
  BY <1>hyp, <1>3 DEF PublishEffect, FeedSame, KeptSame, DisplayedIsSaved, Displayed
<1>4. CASE DisconnectEffect
  BY <1>hyp, <1>4 DEF DisconnectEffect, LogSame, FeedSame, KeptSame, DisplayedIsSaved, Displayed
<1>5. CASE OpenEffect
  BY <1>hyp, <1>5 DEF OpenEffect, LogSame, FeedSame, KeptSame, OthersSame, DisplayedIsSaved,
                      Displayed
<1>6. CASE LeaveEffect
  BY <1>hyp, <1>6 DEF LeaveEffect, LogSame, KeptSame, LeftBehind, Emptied, Idle, Busy,
                      DisplayedIsSaved, Displayed
<1>7. CASE VisibleEffect
  BY <1>hyp, <1>7 DEF VisibleEffect, LogSame, FeedSame, KeptSame, OthersSame, DisplayedIsSaved,
                      Displayed
<1>8. ASSUME NEW t \in Calls, AnswerEffect(t) PROVE DisplayedIsSaved'
  BY <1>hyp, <1>8 DEF AnswerEffect, LogSame, FeedSame, KeptSame, OthersSame, DisplayedIsSaved,
                      Displayed
<1>9. ASSUME NEW t \in Calls, FailEffect(t) PROVE DisplayedIsSaved'
  BY <1>hyp, <1>9 DEF FailEffect, LogSame, KeptSame, Emptied, FeedSame, Continues, LeftBehind,
                      Idle, Busy, DisplayedIsSaved, Displayed
<1>10. ASSUME NEW t \in Calls, MergeEffect(t) PROVE DisplayedIsSaved'
  BY <1>hyp, <1>10 DEF MergeEffect, LogSame, FeedSame, Continues, Idle, DisplayedIsSaved,
                       Displayed
<1>11. ASSUME NEW t \in Calls, ReceiveEffect(t) PROVE DisplayedIsSaved'
  BY <1>hyp, <1>11 DEF ReceiveEffect, LogSame, FeedSame, KeptSame, OthersSame, Idle,
                       DisplayedIsSaved, Displayed
<1>12. ASSUME NEW t \in Calls, ShowEffect(t) PROVE DisplayedIsSaved'
  BY <1>hyp, <1>12 DEF ShowEffect, LogSame, FeedSame, OthersSame, Idle, DisplayedIsSaved,
                       Displayed
<1>13. CASE LoadEffect
  BY <1>hyp, <1>13, NumberTypes, ConstantTypes DEF LoadEffect, LogSame, FeedSame, OthersSame,
                                                   Idle, LoadedIsSaved, DisplayedIsSaved,
                                                   Displayed
<1> QED BY <1>1, <1>2, <1>3, <1>4, <1>5, <1>6, <1>7, <1>8, <1>9, <1>10, <1>11, <1>12, <1>13
           DEF Effect

\* A marker stays behind the newest eid, and covers nothing that is or will be stored for
\* the member.
LEMMA MarkersStayLast ==
  ASSUME IInv, Effect
  PROVE  MarkersLast'
<1>hyp. TypeOK /\ EidsAreTaken /\ AnswersFit /\ AskedFromShown /\ MarkersLast
  BY DEF IInv
<1>1. CASE StutterEffect
  BY <1>hyp, <1>1 DEF StutterEffect, LogSame, FeedSame, KeptSame, MarkersLast, Covers, Without,
                      Asking, At
<1>2. CASE GrowEffect
  <2>1. \A m \in Markers : m.eid \in Nat /\ m.missing \in Nat
    BY <1>hyp, LogTypes, ConstantTypes DEF Markers, Entry
  <2>2. \A e \in Numbered' : e \in Nat /\ (e \in Numbered \/ e > seq)
    BY <1>hyp, <1>2, GrownNumbers DEF GrowEffect
  <2>3. seq \in Nat /\ seq' \in Nat /\ seq <= seq' /\ Markers' = Markers /\ races' = races
    BY <1>hyp, <1>2, GrownNumbers, NumberTypes DEF GrowEffect, FeedSame
  <2>4. ASSUME NEW m \in Markers, m.eid + 2 * m.missing <= 2 * seq,
               \A e \in Numbered : Covers(m, e) => e < JoinEid
        PROVE  m.eid + 2 * m.missing <= 2 * seq' /\ \A e \in Numbered' : Covers(m, e) => e < JoinEid
    BY <2>1, <2>2, <2>3, <2>4 DEF Covers
  <2> QED BY <1>hyp, <2>3, <2>4 DEF MarkersLast, Without, Covers
<1>3. ASSUME NEW e \in 1..MaxEid, PublishEffect(e) PROVE MarkersLast'
  BY <1>hyp, <1>3 DEF PublishEffect, FeedSame, KeptSame, MarkersLast, Covers, Without, Asking,
                      At
<1>4. CASE DisconnectEffect
  BY <1>hyp, <1>4 DEF DisconnectEffect, LogSame, FeedSame, KeptSame, MarkersLast, Covers,
                      Without, Asking, At
<1>5. CASE OpenEffect
  BY <1>hyp, <1>5 DEF OpenEffect, LogSame, FeedSame, KeptSame, OthersSame, MarkersLast, Covers,
                      Without, Asking, At
<1>6. CASE LeaveEffect
  BY <1>hyp, <1>6 DEF LeaveEffect, LogSame, KeptSame, LeftBehind, Emptied, Idle, Busy,
                      MarkersLast, Covers, Without, Asking, At
<1>7. CASE VisibleEffect
  BY <1>hyp, <1>7 DEF VisibleEffect, LogSame, FeedSame, KeptSame, OthersSame, MarkersLast,
                      Covers, Without, Asking, At
<1>8. ASSUME NEW t \in Calls, AnswerEffect(t) PROVE MarkersLast'
  BY <1>hyp, <1>8 DEF AnswerEffect, LogSame, FeedSame, KeptSame, OthersSame, MarkersLast,
                      Covers, Without, Asking, At
<1>9. ASSUME NEW t \in Calls, FailEffect(t) PROVE MarkersLast'
  BY <1>hyp, <1>9 DEF FailEffect, LogSame, KeptSame, Emptied, FeedSame, Continues, LeftBehind,
                      Idle, Busy, MarkersLast, Covers, Without, Asking, At
<1>10. ASSUME NEW t \in Calls, MergeEffect(t) PROVE MarkersLast'
  <2> DEFINE got == tasks[t].got
  <2>0. got \in SUBSET (1..MaxEid) /\ \A g \in got : g \in Nat /\ g <= seq
    BY <1>hyp, NumberTypes, LogTypes DEF EidsAreTaken, EidsTakenBy, TaskRecord
  <2> SUFFICES ASSUME Without({"unstored", "load"}), NEW x \in Markers'
               PROVE  /\ x.eid + 2 * x.missing <= 2 * seq
                      /\ \A e \in Numbered : Covers(x, e) => e < JoinEid
    BY <1>10 DEF MarkersLast, MergeEffect, LogSame, Without, Covers
  <2>1. CASE x \in Markers
    BY <1>hyp, <2>1 DEF MarkersLast
  <2>2. CASE x \notin Markers
    <3>1. /\ tasks[t].here /\ \A g \in got : g <= max'
          /\ max' \in Nat /\ \E m \in {max, max'} : x \in Gap(got, m)
      BY <1>10, <2>2 DEF MergeEffect, FeedSame
    <3> HIDE DEF got
    <3>2. PICK m \in {max, max'} : x \in Gap(got, m)
      BY <3>1
    <3>3. m \in 0..MaxEid
      <4>1. max \in 0..MaxEid /\ max' \in Nat /\ max' \in got \cup {max}
        BY <1>hyp, <1>10, <2>2, LogTypes DEF MergeEffect, FeedSame, got
      <4> QED BY <2>0, <3>2, <4>1
    <3>4. PICK l \in got : /\ x = [eid |-> 2 * m + 1, missing |-> l - m - 1]
                           /\ l > m + 1 /\ \A g \in got : l <= g
      BY <2>0, <3>2, <3>3, GapIsBetween
    <3>5. m = max /\ max \in Nat /\ l \in Nat /\ l <= seq /\ seq \in Nat
      BY <1>hyp, <2>0, <3>1, <3>2, <3>3, <3>4, NumberTypes
    <3>6. tasks[t].after <= max /\ tasks[t].after \in Nat
      BY <1>hyp, <1>10, <3>1, NumberTypes DEF MergeEffect, AskedFromShown, Asking, Without
    <3>7. \A e \in Numbered : e > max /\ e < l => e < JoinEid
      <4>1. AnswerIsFull(t) /\ tasks[t].pc = "got"
        BY <1>hyp, <1>10 DEF AnswersFit, Without, MergeEffect
      <4> SUFFICES ASSUME NEW e \in Numbered, e > max, e < l, ~(e < JoinEid) PROVE FALSE
        OBVIOUS
      <4>2. e \in Nat /\ e > tasks[t].after /\ e >= JoinEid
        BY <1>hyp, <3>5, <3>6, NumberTypes, ConstantTypes
      <4>3. e \notin got
        BY <3>4, <3>5, <4>2, <2>0
      <4>4. l < e
        BY <4>1, <4>2, <4>3 DEF AnswerIsFull, At, got
      <4> QED BY <3>5, <4>2, <4>4
    <3>8. x.eid = 2 * max + 1 /\ x.missing = l - max - 1
      BY <3>4, <3>5
    <3>9. x.eid + 2 * x.missing <= 2 * seq
      BY <3>5, <3>8
    <3>10. ASSUME NEW e \in Numbered, Covers(x, e) PROVE e < JoinEid
      <4>1. e \in Nat
        BY <1>hyp, NumberTypes
      <4>2. 2 * e > 2 * max + 1 /\ 2 * e <= 2 * max + 1 + 2 * (l - max - 1)
        BY <3>8, <3>10 DEF Covers
      <4>3. e > max /\ e < l
        BY <3>5, <4>1, <4>2
      <4> QED BY <3>7, <4>3
    <3> QED BY <3>9, <3>10
  <2> QED BY <2>1, <2>2
<1>11. ASSUME NEW t \in Calls, ReceiveEffect(t) PROVE MarkersLast'
  BY <1>hyp, <1>11 DEF ReceiveEffect, LogSame, FeedSame, KeptSame, OthersSame, Idle,
                       MarkersLast, Covers, Without, Asking, At
<1>12. ASSUME NEW t \in Calls, ShowEffect(t) PROVE MarkersLast'
  BY <1>hyp, <1>12 DEF ShowEffect, LogSame, FeedSame, OthersSame, Idle, MarkersLast, Covers,
                       Without, Asking, At
<1>13. CASE LoadEffect
  BY <1>hyp, <1>13 DEF LoadEffect, LogSame, FeedSame, OthersSame, Idle, MarkersLast, Covers,
                       Without, Asking, At
<1> QED BY <1>1, <1>2, <1>3, <1>4, <1>5, <1>6, <1>7, <1>8, <1>9, <1>10, <1>11, <1>12, <1>13
           DEF Effect

\* Whatever comes next, no event below the newest displayed is missing, and none below
\* the frame whose text is about to be shown.
LEMMA ShownStaysWithoutHoles ==
  ASSUME IInv, Effect
  PROVE  ShownWithoutHoles'
<1> DEFINE Fine(u) ==
       NoRace =>
         /\ \A e \in Numbered : e > JoinEid /\ e <= max => 2 * e \in InFeed
         /\ u \in Tasks => TextFollowsShown(u)
<1> SUFFICES ASSUME NEW u \in Calls PROVE Fine(u)'
  BY ConstantTypes DEF ShownWithoutHoles, TextFollowsShown, NoRace, Without, At
<1>hyp. /\ TypeOK /\ EidsAreTaken /\ TasksFit /\ ClosedIsEmpty /\ AnswersFit /\ AskedFromShown
        /\ LoadedIsSaved /\ LoadedWithoutHoles /\ ShownWithoutHoles
  BY DEF IInv
<1>1. CASE StutterEffect
  BY <1>hyp, <1>1 DEF StutterEffect, LogSame, FeedSame, KeptSame, ShownWithoutHoles,
                      TextFollowsShown, NoRace, Without, At, Asking
<1>2. CASE GrowEffect
  <2>1. /\ max \in Nat /\ max <= seq /\ seq \in Nat
        /\ tasks[u].eid \in Nat /\ tasks[u].eid <= seq
    BY <1>hyp, NumberTypes DEF EidsAreTaken, EidsTakenBy
  <2>2. \A e \in Numbered' : e \in Nat /\ (e \in Numbered \/ e > seq)
    BY <1>hyp, <1>2, GrownNumbers DEF GrowEffect
  <2>3. /\ InFeed' = InFeed /\ max' = max /\ tasks' = tasks /\ races' = races
    BY <1>2 DEF GrowEffect, FeedSame
  <2>4. NoRace => \A e \in Numbered' : e > JoinEid /\ e <= max => 2 * e \in InFeed
    BY <1>hyp, <2>1, <2>2 DEF ShownWithoutHoles
  <2>5. ASSUME NoRace, u \in Tasks, At(u, "text"), tasks[u].here
        PROVE  \A e \in Numbered' : e > JoinEid /\ e < tasks[u].eid => 2 * e \in InFeed
    <3>1. \A e \in Numbered : e > JoinEid /\ e < tasks[u].eid => 2 * e \in InFeed
      BY <1>hyp, <2>5 DEF ShownWithoutHoles, TextFollowsShown
    <3> QED BY <2>1, <2>2, <3>1
  <2> QED BY <2>3, <2>4, <2>5 DEF NoRace, Without, TextFollowsShown, At
<1>3. ASSUME NEW x \in 1..MaxEid, PublishEffect(x) PROVE Fine(u)'
  BY <1>hyp, <1>3 DEF PublishEffect, FeedSame, KeptSame, ShownWithoutHoles, TextFollowsShown,
                      NoRace, Without, At, Asking
<1>4. CASE DisconnectEffect
  BY <1>hyp, <1>4 DEF DisconnectEffect, LogSame, FeedSame, KeptSame, ShownWithoutHoles,
                      TextFollowsShown, NoRace, Without, At, Asking
<1>5. CASE OpenEffect
  BY <1>hyp, <1>5 DEF OpenEffect, LogSame, FeedSame, KeptSame, OthersSame, ShownWithoutHoles,
                      TextFollowsShown, NoRace, Without, At, Asking
<1>6. CASE LeaveEffect
  BY <1>hyp, <1>6, NumberTypes, ConstantTypes DEF LeaveEffect, LogSame, KeptSame, LeftBehind,
                                                  Emptied, Idle, Busy, ShownWithoutHoles,
                                                  TextFollowsShown, NoRace, Without, At, Asking
<1>7. CASE VisibleEffect
  BY <1>hyp, <1>7 DEF VisibleEffect, LogSame, FeedSame, KeptSame, OthersSame, ShownWithoutHoles,
                      TextFollowsShown, NoRace, Without, At, Asking
<1>8. ASSUME NEW t \in Calls, AnswerEffect(t) PROVE Fine(u)'
  BY <1>hyp, <1>8 DEF AnswerEffect, LogSame, FeedSame, KeptSame, OthersSame, ShownWithoutHoles,
                      TextFollowsShown, NoRace, Without, At, Asking
<1>9. ASSUME NEW t \in Calls, FailEffect(t) PROVE Fine(u)'
  BY <1>hyp, <1>9 DEF FailEffect, LogSame, KeptSame, Emptied, FeedSame, Continues, LeftBehind,
                      Idle, Busy, ShownWithoutHoles, TextFollowsShown, NoRace, Without, At,
                      Asking
<1>10. ASSUME NEW t \in Calls, MergeEffect(t) PROVE Fine(u)'
  <2> DEFINE got == tasks[t].got
             after == tasks[t].after
  <2>1. CASE ~tasks[t].here
    BY <1>hyp, <1>10, <2>1
       DEF MergeEffect, LogSame, FeedSame, Continues, Idle, ShownWithoutHoles, TextFollowsShown,
           NoRace, Without, At
  <2>2. CASE tasks[t].here /\ NoRace
    <3>1. /\ max' \in got \cup {max} /\ max' \in Nat /\ max <= max' /\ InFeed \subseteq InFeed'
          /\ \A e \in got : 2 * e \in InFeed'
          /\ Numbered' = Numbered /\ races' = races /\ Continues(t)
      BY <1>10, <2>2, <1>hyp, NumberTypes DEF MergeEffect, LogSame, FeedSame
    <3>2. /\ t # "load" /\ At(t, "got") /\ after \in Nat /\ after <= max /\ max \in Nat
          /\ \A g \in got : g \in Nat
      BY <1>hyp, <1>10, <2>2, NumberTypes DEF MergeEffect, AskedFromShown, Asking, At, NoRace,
                                              Without
    <3>3. \A e \in Numbered : e \in Nat /\ (e > JoinEid /\ e <= max => 2 * e \in InFeed')
      BY <1>hyp, <2>2, <3>1, NumberTypes DEF ShownWithoutHoles
    <3>4. AnswerIsFull(t)
      BY <1>hyp, <2>2 DEF AnswersFit, NoRace, Without
    <3>5. ASSUME NEW e \in Numbered, NEW g \in got, e > JoinEid, e <= g PROVE 2 * e \in InFeed'
      <4>1. CASE e <= max
        BY <3>3, <3>5, <4>1
      <4>2. CASE e \in got
        BY <3>1, <4>2
      <4>3. CASE e > max /\ e \notin got
        <5>1. e > after
          BY <3>2, <3>3, <4>3
        <5>2. g < e
          BY <3>2, <3>3, <3>4, <3>5, <4>3, <5>1, ConstantTypes DEF AnswerIsFull
        <5> QED BY <3>2, <3>3, <3>5, <5>2
      <4> QED BY <3>2, <3>3, <4>1, <4>2, <4>3
    <3>6. \A e \in Numbered' : e > JoinEid /\ e <= max' => 2 * e \in InFeed'
      BY <3>1, <3>3, <3>5
    <3>7. ASSUME u \in Tasks, u # t PROVE TextFollowsShown(u)'
      <4>1. tasks'[u] = tasks[u] /\ TextFollowsShown(u)
        BY <1>hyp, <2>2, <3>1, <3>7 DEF ShownWithoutHoles, Continues
      <4> QED BY <3>1, <4>1 DEF TextFollowsShown, At
    <3>8. ASSUME u \in Tasks, u = t PROVE TextFollowsShown(u)'
      <4>1. PICK g \in got : g >= tasks[t].eid
        BY <1>hyp, <3>2, <3>8 DEF AnswersFit, AnswerFits
      <4>2. tasks[t].eid \in Nat /\ g \in Nat /\ \A e \in Numbered : e \in Nat
        BY <1>hyp, <3>2, NumberTypes
      <4>3. \A e \in Numbered : e > JoinEid /\ e < tasks[t].eid => 2 * e \in InFeed'
        <5> TAKE e \in Numbered
        <5> HAVE e > JoinEid /\ e < tasks[t].eid
        <5>1. e <= g
          BY <4>1, <4>2
        <5> QED BY <3>5, <5>1
      <4>4. tasks'[t] = Idle \/ tasks'[t].eid = tasks[t].eid
        BY <3>1 DEF Continues
      <4> QED BY <3>1, <3>8, <4>3, <4>4 DEF TextFollowsShown, At, Idle
    <3> QED BY <3>6, <3>7, <3>8
  <2>3. CASE ~NoRace
    BY <1>10, <2>3 DEF MergeEffect, NoRace, Without
  <2> QED BY <2>1, <2>2, <2>3
<1>11. ASSUME NEW t \in Calls, ReceiveEffect(t) PROVE Fine(u)'
  BY <1>hyp, <1>11, NumberTypes, ConstantTypes DEF ReceiveEffect, LogSame, FeedSame, KeptSame,
                                                   OthersSame, Idle, ShownWithoutHoles,
                                                   TextFollowsShown, NoRace, Without, At, Asking
<1>12. ASSUME NEW t \in Calls, ShowEffect(t) PROVE Fine(u)'
  BY <1>hyp, <1>12, NumberTypes, ConstantTypes DEF ShowEffect, LogSame, FeedSame, OthersSame,
                                                   Idle, ShownWithoutHoles, TextFollowsShown,
                                                   NoRace, Without, At, Asking
<1>13. CASE LoadEffect
  <2> DEFINE c == tasks["load"]
             all == c.local \cup c.got
  <2>1. CASE ~c.here
    BY <1>hyp, <1>13, <2>1, ConstantTypes
       DEF LoadEffect, LogSame, FeedSame, OthersSame, ShownWithoutHoles, TextFollowsShown,
           NoRace, Without, At
  <2>2. CASE c.here /\ NoRace'
    <3>1. NoRace /\ feed = <<>>
      BY <1>13, <2>2 DEF LoadEffect, NoRace, Without
    <3>2. max = 0 /\ InFeed = {}
      BY <1>hyp, <3>1, NumberTypes DEF ClosedIsEmpty, NoRace, Without, InFeed
    <3>3. /\ At("load", "got") /\ OthersSame("load") /\ Numbered' = Numbered
          /\ InFeed' = {2 * e : e \in all}
          /\ max' = 0 \/ max' \in all
      BY <1>13, <2>2, <3>2 DEF LoadEffect, LogSame, At
    <3>4. /\ c.after \in Nat /\ (\A g \in all : g \in Nat) /\ (\A g \in c.local : g <= c.after)
          /\ \A e \in Numbered : e \in Nat
      BY <1>hyp, NumberTypes, ConstantTypes DEF LoadedIsSaved
    <3>5. /\ AnswerIsFull("load")
          /\ \A e \in Numbered : e > JoinEid /\ e <= c.after => e \in c.local
      BY <1>hyp, <3>1, <3>3, ConstantTypes
         DEF AnswersFit, LoadedWithoutHoles, NoRace, Without, Asking, At
    <3>6. ASSUME NEW e \in Numbered, e > JoinEid, e <= max' PROVE 2 * e \in InFeed'
      <4>1. e \in Nat /\ e > 0 /\ max' \in all
        BY <3>3, <3>4, <3>6, ConstantTypes
      <4>2. e \in all
        <5>1. CASE e <= c.after
          BY <3>5, <3>6, <5>1
        <5>2. CASE e > c.after /\ e \notin c.got
          <6>1. \A g \in c.got : g < e
            BY <3>3, <3>5, <3>6, <4>1, <5>2, ConstantTypes DEF AnswerIsFull
          <6> QED BY <3>4, <3>6, <4>1, <5>2, <6>1
        <5> QED BY <3>4, <5>1, <5>2
      <4> QED BY <3>3, <4>2
    <3>7. ASSUME u \in Tasks PROVE TextFollowsShown(u)'
      <4>1. tasks'[u] = tasks[u] /\ TextFollowsShown(u)
        BY <1>hyp, <3>1, <3>3, <3>7, ConstantTypes DEF ShownWithoutHoles, OthersSame
      <4> QED BY <3>2, <3>3, <4>1 DEF TextFollowsShown, At
    <3> QED BY <3>3, <3>6, <3>7
  <2> QED BY <2>1, <2>2
<1> QED BY <1>1, <1>2, <1>3, <1>4, <1>5, <1>6, <1>7, <1>8, <1>9, <1>10, <1>11, <1>12, <1>13
           DEF Effect

\* The same of IndexedDB: a load asks only for what is newer than all it has saved.
LEMMA SavedStaysWithoutHoles ==
  ASSUME IInv, Effect
  PROVE  SavedWithoutHoles'
<1> DEFINE Fine(u) ==
       NoRace /\ ~removed =>
         /\ \A e \in Numbered, s \in saved : e > JoinEid /\ e <= s => e \in saved
         /\ FollowsSaved(u)
<1> SUFFICES ASSUME NEW u \in Calls PROVE Fine(u)'
  BY ConstantTypes DEF SavedWithoutHoles, FollowsSaved, NoRace, Without, At, Asking
<1>hyp. /\ TypeOK /\ EidsAreTaken /\ TasksFit /\ AnswersFit /\ DisplayedIsSaved
        /\ ShownWithoutHoles /\ SavedWithoutHoles
  BY DEF IInv
<1>1. CASE StutterEffect
  BY <1>hyp, <1>1 DEF StutterEffect, LogSame, FeedSame, KeptSame, SavedWithoutHoles,
                      FollowsSaved, NoRace, Without, At, Asking
<1>2. CASE GrowEffect
  <2>1. /\ seq \in Nat /\ (\A s \in saved : s \in Nat /\ s <= seq)
        /\ tasks[u].eid \in Nat /\ tasks[u].eid <= seq
        /\ tasks[u].after \in Nat /\ tasks[u].after <= seq
    BY <1>hyp, LogTypes, NumberTypes DEF EidsAreTaken, EidsTakenBy
  <2>2. \A e \in Numbered' : e \in Nat /\ (e \in Numbered \/ e > seq)
    BY <1>hyp, <1>2, GrownNumbers DEF GrowEffect
  <2>3. /\ saved' = saved /\ removed' = removed /\ tasks' = tasks /\ races' = races
    BY <1>2 DEF GrowEffect, KeptSame
  <2> SUFFICES ASSUME NoRace, ~removed
               PROVE  /\ \A e \in Numbered', s \in saved : e > JoinEid /\ e <= s => e \in saved
                      /\ FollowsSaved(u)'
    BY <2>3 DEF NoRace, Without
  <2>4. \A e \in Numbered', s \in saved : e > JoinEid /\ e <= s => e \in saved
    <3>1. \A e \in Numbered, s \in saved : e > JoinEid /\ e <= s => e \in saved
      BY <1>hyp DEF SavedWithoutHoles
    <3> QED BY <2>1, <2>2, <3>1
  <2>5. FollowsSaved(u)'
    <3>1. FollowsSaved(u)
      BY <1>hyp DEF SavedWithoutHoles
    <3> QED BY <2>1, <2>2, <2>3, <3>1 DEF FollowsSaved, Asking, At
  <2> QED BY <2>4, <2>5
<1>3. ASSUME NEW x \in 1..MaxEid, PublishEffect(x) PROVE Fine(u)'
  BY <1>hyp, <1>3 DEF PublishEffect, FeedSame, KeptSame, SavedWithoutHoles, FollowsSaved,
                      NoRace, Without, At, Asking
<1>4. CASE DisconnectEffect
  BY <1>hyp, <1>4 DEF DisconnectEffect, LogSame, FeedSame, KeptSame, SavedWithoutHoles,
                      FollowsSaved, NoRace, Without, At, Asking
<1>5. CASE OpenEffect
  BY <1>hyp, <1>5, NumberTypes, ConstantTypes DEF OpenEffect, LogSame, FeedSame, KeptSame,
                                                  OthersSame, SavedWithoutHoles, FollowsSaved,
                                                  NoRace, Without, At, Asking
<1>6. CASE LeaveEffect
  BY <1>hyp, <1>6 DEF LeaveEffect, LogSame, KeptSame, LeftBehind, Emptied, Idle, Busy,
                      SavedWithoutHoles, FollowsSaved, NoRace, Without, At, Asking
<1>7. CASE VisibleEffect
  <2>1. CASE u # "visible"
    BY <1>hyp, <1>7, <2>1
       DEF VisibleEffect, LogSame, KeptSame, OthersSame, SavedWithoutHoles, FollowsSaved, NoRace,
           Without, At, Asking
  <2>2. CASE u = "visible"
    <3>1. /\ Numbered' = Numbered /\ saved' = saved /\ removed' = removed /\ races' = races
          /\ tasks'[u].pc = "fetch" /\ tasks'[u].after = max
      BY <1>7, <2>2 DEF VisibleEffect, LogSame, KeptSame
    <3>2. NoRace => \A e \in Numbered : e > JoinEid /\ e <= max => e \in saved
      <4>1. \A e \in Numbered : e \in 1..MaxEid
        BY <1>hyp, LogTypes, ConstantTypes
      <4> QED BY <1>hyp, <4>1 DEF ShownWithoutHoles, DisplayedIsSaved, Displayed
    <3> QED BY <1>hyp, <3>1, <3>2 DEF SavedWithoutHoles, FollowsSaved, NoRace, Without, At,
                                      Asking
  <2> QED BY <2>1, <2>2
<1>8. ASSUME NEW t \in Calls, AnswerEffect(t) PROVE Fine(u)'
  BY <1>hyp, <1>8 DEF AnswerEffect, LogSame, FeedSame, KeptSame, OthersSame, SavedWithoutHoles,
                      FollowsSaved, NoRace, Without, At, Asking
<1>9. ASSUME NEW t \in Calls, FailEffect(t) PROVE Fine(u)'
  BY <1>hyp, <1>9 DEF FailEffect, LogSame, KeptSame, Emptied, FeedSame, Continues, LeftBehind,
                      Idle, Busy, SavedWithoutHoles, FollowsSaved, NoRace, Without, At, Asking
<1>10. ASSUME NEW t \in Calls, MergeEffect(t) PROVE Fine(u)'
  <2> DEFINE got == tasks[t].got
             after == tasks[t].after
  <2>1. /\ Numbered' = Numbered /\ races' = races /\ removed' = removed /\ Continues(t)
        /\ saved' = saved \cup got /\ At(t, "got")
    BY <1>10 DEF MergeEffect, LogSame, At
  <2> SUFFICES ASSUME NoRace, ~removed
               PROVE  /\ \A e \in Numbered, s \in saved' : e > JoinEid /\ e <= s => e \in saved'
                      /\ FollowsSaved(u)'
    BY <2>1 DEF NoRace, Without
  <2>2. /\ after \in Nat /\ tasks[t].eid \in Nat /\ (\A g \in got : g \in Nat)
        /\ \A e \in Numbered : e \in Nat
    BY <1>hyp, NumberTypes
  <2>3. /\ AnswerIsFull(t) /\ FollowsSaved(t) /\ FollowsSaved(u)
        /\ \A e \in Numbered, s \in saved : e > JoinEid /\ e <= s => e \in saved
    BY <1>hyp DEF AnswersFit, SavedWithoutHoles, NoRace, Without
  <2>4. ASSUME NEW e \in Numbered, NEW g \in got, e > JoinEid, e <= g PROVE e \in saved'
    <3>1. CASE e <= after
      BY <2>1, <2>3, <2>4, <3>1 DEF FollowsSaved, Asking, At
    <3>2. CASE e > after /\ e \notin got
      <4>1. g < e
        BY <2>1, <2>2, <2>3, <2>4, <3>2, ConstantTypes DEF AnswerIsFull
      <4> QED BY <2>2, <2>4, <4>1
    <3> QED BY <2>1, <2>2, <3>1, <3>2
  <2>5. \A e \in Numbered, s \in saved' : e > JoinEid /\ e <= s => e \in saved'
    BY <2>1, <2>3, <2>4
  <2>6. CASE u # t
    BY <2>1, <2>3, <2>5, <2>6 DEF FollowsSaved, Continues, Asking, At
  <2>7. CASE u = t
    <3>1. CASE tasks'[t] = Idle
      BY <2>5, <2>7, <3>1 DEF FollowsSaved, Idle, Asking, At
    <3>2. CASE tasks'[t] # Idle
      <4>1. t \in Tasks /\ tasks'[t].pc = "text" /\ tasks'[t].eid = tasks[t].eid
        BY <2>1, <3>2 DEF Continues
      <4>2. PICK g \in got : g >= tasks[t].eid
        BY <1>hyp, <2>1, <4>1 DEF AnswersFit, AnswerFits
      <4>3. ASSUME NEW e \in Numbered, e > JoinEid, e < tasks[t].eid PROVE e \in saved'
        <5>1. e <= g
          BY <2>2, <4>2, <4>3
        <5> QED BY <2>4, <4>3, <5>1
      <4> QED BY <2>1, <2>5, <2>7, <4>1, <4>3 DEF FollowsSaved, Asking, At
    <3> QED BY <2>5, <3>1, <3>2
  <2> QED BY <2>5, <2>6, <2>7
<1>11. ASSUME NEW t \in Calls, ReceiveEffect(t) PROVE Fine(u)'
  BY <1>hyp, <1>11, NumberTypes, ConstantTypes DEF ReceiveEffect, LogSame, FeedSame, KeptSame,
                                                   OthersSame, Idle, SavedWithoutHoles,
                                                   FollowsSaved, NoRace, Without, At, Asking,
                                                   EidsAreTaken, EidsTakenBy, AnswersFit,
                                                   AnswerFits, AnswerIsFull, TasksFit, TaskFits,
                                                   ShownWithoutHoles, DisplayedIsSaved,
                                                   Displayed
<1>12. ASSUME NEW t \in Calls, ShowEffect(t) PROVE Fine(u)'
  BY <1>hyp, <1>12, NumberTypes, ConstantTypes DEF ShowEffect, LogSame, FeedSame, OthersSame,
                                                   Idle, SavedWithoutHoles, FollowsSaved,
                                                   NoRace, Without, At, Asking
<1>13. CASE LoadEffect
  BY <1>hyp, <1>13, NumberTypes, ConstantTypes DEF LoadEffect, LogSame, FeedSame, OthersSame,
                                                   Idle, SavedWithoutHoles, FollowsSaved,
                                                   NoRace, Without, At, Asking, EidsAreTaken,
                                                   EidsTakenBy, AnswersFit, AnswerFits,
                                                   AnswerIsFull, TasksFit, TaskFits,
                                                   ShownWithoutHoles, DisplayedIsSaved,
                                                   Displayed
<1> QED BY <1>1, <1>2, <1>3, <1>4, <1>5, <1>6, <1>7, <1>8, <1>9, <1>10, <1>11, <1>12, <1>13
           DEF Effect

\* What a load read of IndexedDB has no hole below the eid it asked from.
LEMMA LoadedStaysWithoutHoles ==
  ASSUME IInv, Effect
  PROVE  LoadedWithoutHoles'
<1>hyp. TypeOK /\ EidsAreTaken /\ TasksFit /\ SavedWithoutHoles /\ LoadedWithoutHoles
  BY DEF IInv
<1>1. CASE StutterEffect
  BY <1>hyp, <1>1 DEF StutterEffect, LogSame, FeedSame, KeptSame, NoRace, Without, Asking,
                      LoadedWithoutHoles
<1>2. CASE GrowEffect
  <2>1. tasks["load"].after \in Nat /\ tasks["load"].after <= seq
    BY <1>hyp, NumberTypes, ConstantTypes DEF EidsAreTaken, EidsTakenBy
  <2>2. \A e \in Numbered' : e \in Nat /\ (e \in Numbered \/ e > seq)
    BY <1>hyp, <1>2, GrownNumbers DEF GrowEffect
  <2> QED BY <1>hyp, <1>2, <2>1, <2>2, NumberTypes
          DEF GrowEffect, LoadedWithoutHoles, NoRace, Without, Asking
<1>3. ASSUME NEW e \in 1..MaxEid, PublishEffect(e) PROVE LoadedWithoutHoles'
  BY <1>hyp, <1>3 DEF PublishEffect, FeedSame, KeptSame, NoRace, Without, Asking,
                      LoadedWithoutHoles
<1>4. CASE DisconnectEffect
  BY <1>hyp, <1>4 DEF DisconnectEffect, LogSame, FeedSame, KeptSame, NoRace, Without, Asking,
                      LoadedWithoutHoles
<1>5. CASE OpenEffect
  BY <1>hyp, <1>5, NumberTypes, ConstantTypes DEF OpenEffect, LogSame, FeedSame, KeptSame,
                                                  OthersSame, EidsAreTaken, EidsTakenBy, NoRace,
                                                  Without, Asking, SavedWithoutHoles,
                                                  LoadedWithoutHoles
<1>6. CASE LeaveEffect
  BY <1>hyp, <1>6, ConstantTypes DEF LeaveEffect, LogSame, KeptSame, LeftBehind, Emptied, Idle,
                                     Busy, NoRace, Without, Asking, LoadedWithoutHoles
<1>7. CASE VisibleEffect
  BY <1>hyp, <1>7, ConstantTypes DEF VisibleEffect, LogSame, FeedSame, KeptSame, OthersSame,
                                     NoRace, Without, Asking, LoadedWithoutHoles
<1>8. ASSUME NEW t \in Calls, AnswerEffect(t) PROVE LoadedWithoutHoles'
  BY <1>hyp, <1>8, ConstantTypes DEF AnswerEffect, LogSame, FeedSame, KeptSame, OthersSame,
                                     NoRace, Without, Asking, LoadedWithoutHoles
<1>9. ASSUME NEW t \in Calls, FailEffect(t) PROVE LoadedWithoutHoles'
  BY <1>hyp, <1>9 DEF FailEffect, LogSame, KeptSame, Emptied, FeedSame, Continues, LeftBehind,
                      Idle, Busy, NoRace, Without, Asking, LoadedWithoutHoles
<1>10. ASSUME NEW t \in Calls, MergeEffect(t) PROVE LoadedWithoutHoles'
  BY <1>hyp, <1>10, ConstantTypes DEF MergeEffect, LogSame, FeedSame, Continues, Idle, NoRace,
                                      Without, Asking, LoadedWithoutHoles
<1>11. ASSUME NEW t \in Calls, ReceiveEffect(t) PROVE LoadedWithoutHoles'
  BY <1>hyp, <1>11, ConstantTypes DEF ReceiveEffect, LogSame, FeedSame, KeptSame, OthersSame,
                                      Idle, NoRace, Without, Asking, LoadedWithoutHoles
<1>12. ASSUME NEW t \in Calls, ShowEffect(t) PROVE LoadedWithoutHoles'
  BY <1>hyp, <1>12, ConstantTypes DEF ShowEffect, LogSame, FeedSame, OthersSame, Idle, NoRace,
                                      Without, Asking, LoadedWithoutHoles
<1>13. CASE LoadEffect
  BY <1>hyp, <1>13 DEF LoadEffect, LogSame, FeedSame, OthersSame, Idle, NoRace, Without, Asking,
                       LoadedWithoutHoles
<1> QED BY <1>1, <1>2, <1>3, <1>4, <1>5, <1>6, <1>7, <1>8, <1>9, <1>10, <1>11, <1>12, <1>13
           DEF Effect

\* A page that is left when nothing is on its way leaves all it has been shown saved.
LEMMA LeftStaysComplete ==
  ASSUME IInv, Effect
  PROVE  LeftComplete'
<1>hyp. TypeOK /\ EidsAreTaken /\ TasksFit /\ DisplayedIsSaved /\ NothingIsLost /\ LeftComplete
  BY DEF IInv
<1>1. CASE StutterEffect
  BY <1>hyp, <1>1, NumberTypes DEF StutterEffect, LogSame, FeedSame, KeptSame, Busy,
                                   LeftComplete, Lossless, Without, Numbered
<1>2. CASE GrowEffect
  <2>1. seq \in Nat /\ \A s \in saved : s \in Nat /\ s <= seq
    BY <1>hyp, LogTypes
  <2>2. \A e \in Numbered' : e \in Nat /\ (e \in Numbered \/ e > seq)
    BY <1>hyp, <1>2, GrownNumbers DEF GrowEffect
  <2>3. /\ saved' = saved /\ removed' = removed /\ tasks' = tasks /\ races' = races /\ page' = page
    BY <1>2 DEF GrowEffect, KeptSame
  <2> QED BY <1>hyp, <2>1, <2>2, <2>3 DEF LeftComplete, Lossless, Without, Busy
<1>3. ASSUME NEW x \in 1..MaxEid, PublishEffect(x) PROVE LeftComplete'
  BY <1>hyp, <1>3, NumberTypes DEF PublishEffect, FeedSame, KeptSame, Busy, LeftComplete,
                                   Lossless, Without, Numbered
<1>4. CASE DisconnectEffect
  BY <1>hyp, <1>4, NumberTypes DEF DisconnectEffect, LogSame, FeedSame, KeptSame, Busy,
                                   LeftComplete, Lossless, Without, Numbered
<1>5. CASE OpenEffect
  BY <1>hyp, <1>5 DEF OpenEffect, LogSame, FeedSame, KeptSame, OthersSame, LeftComplete,
                      Lossless, Without, Numbered
<1>6. CASE LeaveEffect
  <2> SUFFICES ASSUME Lossless', Without({"left"})', ~removed'
               PROVE  /\ \A u \in Calls : ~Busy(u)'
                      /\ \A e \in Numbered' \ Boosts, s \in saved' :
                           e > JoinEid /\ e <= s => e \in saved'
    BY DEF LeftComplete
  <2>1. /\ page # "closed" /\ saved' = saved /\ LogSame /\ races \subseteq races'
        /\ wire = <<>> /\ pending \cup unsent = {} /\ \A u \in Calls : ~Busy(u)
    BY <1>6 DEF LeaveEffect, KeptSame, Without
  <2>2. ASSUME NEW u \in Calls PROVE ~Busy(u)'
    BY <1>6, <2>1 DEF LeaveEffect, LeftBehind, Busy, Idle
  <2>3. Numbered = stored /\ Numbered' = Numbered
    BY <2>1 DEF Numbered, LogSame
  <2>4. ASSUME NEW e \in stored \ Boosts, e > JoinEid PROVE e \in saved
    <3>1. Lossless /\ Without({"left"})
      BY <2>1 DEF Lossless, Without
    <3>2. 2 * e \in InFeed \/ Coming(e)
      BY <1>hyp, <2>1, <2>4, <3>1 DEF NothingIsLost
    <3>3. ~Coming(e)
      <4>1. e \notin unsent /\ DOMAIN wire = {}
        BY <2>1
      <4>2. ~Asking("load") /\ ~At("load", "fetch") /\ ~At("load", "got")
        BY <2>1, ConstantTypes DEF Busy, Asking, At
      <4> QED BY <2>1, <4>1, <4>2, ConstantTypes DEF Coming
    <3>4. e \in 1..MaxEid
      BY <1>hyp, LogTypes, ConstantTypes
    <3> QED BY <1>hyp, <3>2, <3>3, <3>4 DEF DisplayedIsSaved, Displayed
  <2> QED BY <2>1, <2>2, <2>3, <2>4
<1>7. CASE VisibleEffect
  BY <1>hyp, <1>7 DEF VisibleEffect, LogSame, FeedSame, KeptSame, OthersSame, LeftComplete,
                      Lossless, Without, Numbered
<1>8. ASSUME NEW t \in Calls, AnswerEffect(t) PROVE LeftComplete'
  BY <1>hyp, <1>8, NumberTypes DEF AnswerEffect, LogSame, FeedSame, KeptSame, OthersSame, Busy,
                                   LeftComplete, Lossless, Without, Numbered
<1>9. ASSUME NEW t \in Calls, FailEffect(t) PROVE LeftComplete'
  BY <1>hyp, <1>9 DEF FailEffect, LogSame, KeptSame, Emptied, FeedSame, Continues, LeftBehind,
                      Idle, Busy, LeftComplete, Lossless, Without, Numbered
<1>10. ASSUME NEW t \in Calls, MergeEffect(t) PROVE LeftComplete'
  BY <1>hyp, <1>10, NumberTypes DEF MergeEffect, LogSame, FeedSame, Continues, Idle, Busy,
                                    LeftComplete, Lossless, Without, Numbered
<1>11. ASSUME NEW t \in Calls, ReceiveEffect(t) PROVE LeftComplete'
  BY <1>hyp, <1>11 DEF ReceiveEffect, LogSame, FeedSame, KeptSame, OthersSame, Idle,
                       LeftComplete, Lossless, Without, Numbered
<1>12. ASSUME NEW t \in Calls, ShowEffect(t) PROVE LeftComplete'
  BY <1>hyp, <1>12, NumberTypes DEF ShowEffect, LogSame, FeedSame, OthersSame, Idle, Busy,
                                    LeftComplete, Lossless, Without, Numbered
<1>13. CASE LoadEffect
  BY <1>hyp, <1>13, ConstantTypes DEF LoadEffect, LogSame, FeedSame, OthersSame, Idle, Busy,
                                      LeftComplete, Lossless, Without, Numbered
<1> QED BY <1>1, <1>2, <1>3, <1>4, <1>5, <1>6, <1>7, <1>8, <1>9, <1>10, <1>11, <1>12, <1>13
           DEF Effect

\* An event is displayed, or on its way: to be published, on the wire, in the hands of a
\* call, or part of what the load reads or asks for.
LEMMA NothingGetsLost ==
  ASSUME IInv, Effect
  PROVE  NothingIsLost'
<1>hyp. /\ TypeOK /\ EidsAreTaken /\ TasksFit /\ ClosedIsEmpty /\ AnswersFit
        /\ SavedWithoutHoles /\ LeftComplete /\ NothingIsLost
  BY DEF IInv
<1>1. CASE StutterEffect
  BY <1>hyp, <1>1, NumberTypes DEF StutterEffect, LogSame, FeedSame, KeptSame, Busy, Lossless,
                                   Without, NothingIsLost, Coming, Numbered, Asking, At
<1>2. CASE GrowEffect
  BY <1>hyp, <1>2, NumberTypes DEF GrowEffect, FeedSame, KeptSame, Busy, Lossless, Without,
                                   NothingIsLost, Coming, Numbered, Asking, At
<1>3. ASSUME NEW x \in 1..MaxEid, PublishEffect(x) PROVE NothingIsLost'
  BY <1>hyp, <1>3, NumberTypes DEF PublishEffect, FeedSame, KeptSame, Busy, Lossless, Without,
                                   NothingIsLost, Coming, Numbered, Asking, At
<1>4. CASE DisconnectEffect
  BY <1>hyp, <1>4, NumberTypes DEF DisconnectEffect, LogSame, FeedSame, KeptSame, Busy,
                                   Lossless, Without, NothingIsLost, Coming, Numbered, Asking,
                                   At
<1>5. CASE OpenEffect
  BY <1>hyp, <1>5, NumberTypes, ConstantTypes DEF OpenEffect, LogSame, FeedSame, KeptSame,
                                                  OthersSame, EidsAreTaken, EidsTakenBy,
                                                  LeftComplete, Lossless, Without,
                                                  NothingIsLost, Coming, Numbered,
                                                  SavedWithoutHoles, NoRace, Asking, At
<1>6. CASE LeaveEffect
  BY <1>hyp, <1>6 DEF LeaveEffect, LogSame, KeptSame, LeftBehind, Emptied, Idle, Busy, Lossless,
                      Without, NothingIsLost, Coming, Numbered, Asking, At
<1>7. CASE VisibleEffect
  BY <1>hyp, <1>7, ConstantTypes DEF VisibleEffect, LogSame, FeedSame, KeptSame, OthersSame,
                                     Busy, Lossless, Without, NothingIsLost, Coming, Numbered,
                                     Asking, At
<1>8. ASSUME NEW t \in Calls, AnswerEffect(t) PROVE NothingIsLost'
  <2>1. /\ LogSame /\ FeedSame /\ wire' = wire /\ page' = page /\ races \subseteq races'
        /\ OthersSame(t) /\ tasks[t].pc = "fetch" /\ tasks'[t].pc = "got"
        /\ tasks'[t].eid = tasks[t].eid /\ tasks'[t].local = tasks[t].local
        /\ tasks'[t].here = tasks[t].here
    BY <1>8 DEF AnswerEffect
  <2>2. \A e \in stored : e > JoinEid /\ e > tasks[t].after => e \in tasks'[t].got
    <3>1. \A e \in stored : e \in Nat
      BY <1>hyp, NumberTypes
    <3>2. \A e \in stored : e > JoinEid => e >= JoinEid
      BY <3>1, ConstantTypes
    <3> QED BY <1>8, <3>2 DEF AnswerEffect
  <2>3. ASSUME NEW e \in stored, e > JoinEid, Coming(e) PROVE Coming(e)'
    BY <2>1, <2>2, <2>3, ConstantTypes DEF LogSame, OthersSame, Coming, Busy, Asking, At
  <2> QED BY <1>hyp, <2>1, <2>3 DEF NothingIsLost, Lossless, Without, LogSame, FeedSame
<1>9. ASSUME NEW t \in Calls, FailEffect(t) PROVE NothingIsLost'
  BY <1>hyp, <1>9, ConstantTypes DEF FailEffect, LogSame, KeptSame, Emptied, FeedSame,
                                     Continues, LeftBehind, Idle, Busy, Lossless, Without,
                                     NothingIsLost, Coming, Numbered, Asking, At
<1>10. ASSUME NEW t \in Calls, MergeEffect(t) PROVE NothingIsLost'
  BY <1>hyp, <1>10, ConstantTypes DEF MergeEffect, LogSame, FeedSame, Continues, Idle, Busy,
                                      Lossless, Without, NothingIsLost, Coming, Numbered,
                                      Asking, At
<1>11. ASSUME NEW t \in Calls, ReceiveEffect(t) PROVE NothingIsLost'
  BY <1>hyp, <1>11, ConstantTypes DEF ReceiveEffect, LogSame, FeedSame, KeptSame, OthersSame,
                                      Idle, Busy, Lossless, Without, NothingIsLost, Coming,
                                      Numbered, Asking, At
<1>12. ASSUME NEW t \in Calls, ShowEffect(t) PROVE NothingIsLost'
  BY <1>hyp, <1>12, ConstantTypes DEF ShowEffect, LogSame, FeedSame, OthersSame, Idle, Busy,
                                      Lossless, Without, NothingIsLost, Coming, Numbered,
                                      Asking, At
<1>13. CASE LoadEffect
  <2> DEFINE c == tasks["load"]
  <2>1. /\ LogSame /\ wire' = wire /\ OthersSame("load") /\ races \subseteq races' /\ c.pc = "got"
    BY <1>13 DEF LoadEffect
  <2>2. page = "closed" => ~c.here /\ page' = page
    BY <1>hyp, <1>13, <2>1, ConstantTypes DEF ClosedIsEmpty, Busy, LoadEffect
  <2> SUFFICES ASSUME Lossless, Lossless', page # "closed",
                      Without({"failed", "blind"}) \/ Without({"left"}),
                      NEW e \in stored \ Boosts, e > JoinEid
               PROVE  2 * e \in InFeed' \/ Coming(e)'
    BY <2>1, <2>2 DEF NothingIsLost, Lossless, Without, LogSame
  <2>3. 2 * e \in InFeed \/ Coming(e)
    BY <1>hyp DEF NothingIsLost
  <2>4. CASE \/ e \in unsent
             \/ \E i \in DOMAIN wire : wire[i] = e
             \/ \E t \in Tasks : Busy(t) /\ tasks[t].here /\ tasks[t].eid = e
    <3>1. \A t \in Tasks : tasks'[t] = tasks[t]
      BY <2>1, ConstantTypes DEF OthersSame
    <3> QED BY <2>1, <2>4, <3>1 DEF LogSame, Coming, Busy
  <2>5. CASE ~c.here
    <3>1. InFeed' = InFeed
      BY <1>13, <2>5 DEF LoadEffect, FeedSame
    <3> QED BY <2>3, <2>4, <2>5, <3>1 DEF Coming
  <2>6. CASE c.here
    <3>1. feed = <<>> /\ InFeed' = {2 * f : f \in c.local \cup c.got}
      BY <1>13, <2>6 DEF LoadEffect, Lossless, Without
    <3>2. InFeed = {}
      BY <3>1 DEF InFeed
    <3> QED BY <2>1, <2>3, <2>4, <3>1, <3>2 DEF Coming, At
  <2> QED BY <2>5, <2>6
<1> QED BY <1>1, <1>2, <1>3, <1>4, <1>5, <1>6, <1>7, <1>8, <1>9, <1>10, <1>11, <1>12, <1>13
           DEF Effect

\* A room that is removed while no call waits leaves nothing saved, now or later.
LEMMA NothingStaysAfterRemoval ==
  ASSUME IInv, Effect
  PROVE  NothingAfterRemovalStays'
<1>hyp. TypeOK /\ ClosedIsEmpty /\ NothingAfterRemovalStays
  BY DEF IInv
<1>1. CASE StutterEffect
  BY <1>hyp, <1>1 DEF StutterEffect, KeptSame, Busy, NothingAfterRemovalStays, Without
<1>2. CASE GrowEffect
  BY <1>hyp, <1>2 DEF GrowEffect, KeptSame, Busy, NothingAfterRemovalStays, Without
<1>3. ASSUME NEW e \in 1..MaxEid, PublishEffect(e) PROVE NothingAfterRemovalStays'
  BY <1>hyp, <1>3 DEF PublishEffect, KeptSame, Busy, NothingAfterRemovalStays, Without
<1>4. CASE DisconnectEffect
  BY <1>hyp, <1>4 DEF DisconnectEffect, KeptSame, Busy, NothingAfterRemovalStays, Without
<1>5. CASE OpenEffect
  BY <1>5 DEF OpenEffect, KeptSame, NothingAfterRemovalStays
<1>6. CASE LeaveEffect
  <2>1. page' = "closed"
    BY <1>6 DEF LeaveEffect, Emptied
  <2>2. CASE KeptSame /\ page # "closed"
    BY <1>hyp, <2>1, <2>2 DEF NothingAfterRemovalStays, KeptSame
  <2>3. CASE saved' = {} /\ ((\E u \in Calls : Busy(u)) => "late" \in races')
    <3>1. ASSUME NEW u \in Calls, ~Busy(u) PROVE ~Busy(u)'
      BY <1>6, <3>1 DEF LeaveEffect, LeftBehind, Busy, Idle
    <3>2. (\A u \in Calls : ~Busy(u)) => \A u \in Calls : ~Busy(u)'
      BY <3>1
    <3>3. Without({"late"})' => \A u \in Calls : ~Busy(u)
      BY <2>3 DEF Without
    <3> QED BY <2>1, <2>3, <3>2, <3>3 DEF NothingAfterRemovalStays
  <2> QED BY <1>6, <2>2, <2>3 DEF LeaveEffect
<1>7. CASE VisibleEffect
  BY <1>hyp, <1>7 DEF VisibleEffect, KeptSame, NothingAfterRemovalStays
<1>8. ASSUME NEW t \in Calls, AnswerEffect(t) PROVE NothingAfterRemovalStays'
  BY <1>hyp, <1>8 DEF AnswerEffect, KeptSame, Busy, NothingAfterRemovalStays, Without
<1>9. ASSUME NEW t \in Calls, FailEffect(t) PROVE NothingAfterRemovalStays'
  BY <1>hyp, <1>9 DEF FailEffect, KeptSame, Emptied, Busy, NothingAfterRemovalStays, Without
<1>10. ASSUME NEW t \in Calls, MergeEffect(t) PROVE NothingAfterRemovalStays'
  BY <1>hyp, <1>10 DEF MergeEffect, Busy, NothingAfterRemovalStays, Without
<1>11. ASSUME NEW t \in Calls, ReceiveEffect(t) PROVE NothingAfterRemovalStays'
  BY <1>hyp, <1>11 DEF ReceiveEffect, KeptSame, NothingAfterRemovalStays
<1>12. ASSUME NEW t \in Calls, ShowEffect(t) PROVE NothingAfterRemovalStays'
  BY <1>hyp, <1>12 DEF ShowEffect, Busy, NothingAfterRemovalStays, Without
<1>13. CASE LoadEffect
  BY <1>hyp, <1>13, ConstantTypes DEF LoadEffect, Busy, NothingAfterRemovalStays, Without,
                                      ClosedIsEmpty
<1> QED BY <1>1, <1>2, <1>3, <1>4, <1>5, <1>6, <1>7, <1>8, <1>9, <1>10, <1>11, <1>12, <1>13
           DEF Effect

-----------------------------------------------------------------------------
(* The invariant, and what it says of the page.                            *)

\* It holds for a member who has just joined.
LEMMA InitIsFine == Init => IInv
<1> SUFFICES ASSUME Init PROVE IInv
  OBVIOUS
<1> USE ConstantTypes DEF Init
<1>1. stored \subseteq 1..seq /\ seq = JoinEid
  BY DEF Kept
<1>2. \A t \in Calls : tasks[t] = Idle
  OBVIOUS
<1>3. InFeed = {} /\ Markers = {} /\ DOMAIN wire = {} /\ DOMAIN feed = {}
  BY DEF InFeed, Markers
<1>4. TypeOK
  <2>1. tasks \in [Calls -> TaskRecord]
    BY TaskRecords
  <2>2. wire \in Seq(1..MaxEid) /\ Len(wire) <= Buffer /\ feed \in Seq(Entry)
    OBVIOUS
  <2>3. /\ seq \in 0..MaxEid /\ stored \subseteq 1..seq /\ pending \subseteq 1..seq
        /\ unsent \subseteq 1..seq /\ saved \subseteq 1..seq
    BY <1>1
  <2>4. socket = "new" /\ page = "closed" /\ removed = FALSE /\ max = 0 /\ races = {}
    BY Zenon
  <2>5. 0 \in 0..MaxEid
    BY ONLY ConstantTypes
  <2> QED BY ONLY <2>1, <2>2, <2>3, <2>4, <2>5 DEF TypeOK, Entry, TaskRecord
<1>5. EidsAreTaken /\ TasksFit
  BY <1>1, <1>2, <1>3 DEF EidsAreTaken, EidsTakenBy, TasksFit, TaskFits, Busy, Asking, At, Idle
<1>6. ClosedIsOff /\ ClosedIsEmpty /\ PublishedWasStored
  BY <1>2, <1>3 DEF ClosedIsOff, ClosedIsEmpty, PublishedWasStored, Busy, Idle
<1>7. AnswersFit /\ AskedFromShown /\ DisplayedOnce /\ LoadedIsSaved /\ DisplayedIsSaved
  BY <1>2, <1>3 DEF AnswersFit, AnswerFits, AnswerIsFull, AskedFromShown, Asking, At, Idle,
                    DisplayedOnce, LoadedIsSaved, DisplayedIsSaved, Displayed
<1>8. MarkersLast
  BY <1>3 DEF MarkersLast
<1>9. ShownWithoutHoles
  <2>1. \A e \in Numbered : e \in Nat /\ max = 0
    BY <1>4, NumberTypes
  <2> QED BY <1>2, <2>1 DEF ShownWithoutHoles, TextFollowsShown, At, Idle
<1>10. SavedWithoutHoles /\ LoadedWithoutHoles
  BY <1>2 DEF SavedWithoutHoles, FollowsSaved, LoadedWithoutHoles, Asking, At, Idle
<1>11. LeftComplete /\ NothingIsLost /\ NothingAfterRemovalStays
  BY <1>2 DEF LeftComplete, NothingIsLost, NothingAfterRemovalStays, Busy, Idle
<1> QED BY <1>4, <1>5, <1>6, <1>7, <1>8, <1>9, <1>10, <1>11 DEF IInv

\* Every step keeps it.
LEMMA StepsAreFine == IInv /\ [Next]_vars => IInv'
<1> SUFFICES ASSUME IInv, Next \/ UNCHANGED vars PROVE IInv'
  OBVIOUS
<1>1. /\ TypeOK /\ EidsAreTaken /\ TasksFit /\ ClosedIsOff /\ ClosedIsEmpty /\ DisplayedOnce
  BY DEF IInv
<1>2. TypeOK' /\ DisplayedOnce' /\ ClosedIsOff'
  BY <1>1, TypesStay, DisplayedStaysOnce, ClosedStaysOff
<1>3. Effect
  BY <1>1, EveryStep
<1>4. AnswersFit'
  BY <1>3, AnswersStayFit, AnswersStayFull DEF AnswersFit
<1>5. EidsAreTaken' /\ TasksFit' /\ ClosedIsEmpty' /\ PublishedWasStored'
  BY <1>3, EidsStayTaken, TasksStayFit, ClosedStaysEmpty, PublishedStaysStored
<1>6. AskedFromShown' /\ LoadedIsSaved' /\ DisplayedIsSaved' /\ MarkersLast'
  BY <1>3, AskedStaysShown, LoadedStaysSaved, DisplayedStaysSaved, MarkersStayLast
<1>7. ShownWithoutHoles' /\ SavedWithoutHoles' /\ LoadedWithoutHoles'
  BY <1>3, ShownStaysWithoutHoles, SavedStaysWithoutHoles, LoadedStaysWithoutHoles
<1>8. LeftComplete' /\ NothingIsLost' /\ NothingAfterRemovalStays'
  BY <1>3, LeftStaysComplete, NothingGetsLost, NothingStaysAfterRemoval
<1> QED BY <1>2, <1>4, <1>5, <1>6, <1>7, <1>8 DEF IInv

\* The inductive invariant of a member's page and the log of its room, for
\* every number of events, capacity, buffer and number of calls that wait.
THEOREM ChatInvariance == Spec => []IInv
BY InitIsFine, StepsAreFine, PTL DEF Spec

\* The types, and the bounds of the wire (ChatPage.tsx, hub.go).
THEOREM ChatTypes == Spec => []TypeOK
<1>1. IInv => TypeOK
  BY DEF IInv
<1> QED BY <1>1, ChatInvariance, PTL

\* Neither an event nor a marker is ever displayed twice, whichever calls of
\* handleWsEvent, of the load and of the return to the foreground bring it and
\* in whatever order they go on.
THEOREM NothingIsDisplayedTwice == Spec => []DisplayedOnce
<1>1. IInv => DisplayedOnce
  BY DEF IInv
<1> QED BY <1>1, ChatInvariance, PTL

\* Whatever a page displays is in IndexedDB (saveMessages).
THEOREM DisplayedIsAlwaysSaved == Spec => []DisplayedIsSaved
<1>1. IInv => DisplayedIsSaved
  BY DEF IInv
<1> QED BY <1>1, ChatInvariance, PTL

\* Below the newest displayed event no event that the server holds is missing,
\* at any moment and with frames lost, but for the named races.
THEOREM NoHoleIsSilent == Spec => []NoSilentHole
<1>1. ASSUME IInv PROVE NoSilentHole
  <2>1. TypeOK /\ ShownWithoutHoles
    BY <1>1 DEF IInv
  <2>2. stored \subseteq Numbered /\ max \in Nat /\ \A e \in stored : e \in Nat /\ e \in 1..MaxEid
    BY <2>1, NumberTypes, LogTypes, ConstantTypes DEF Numbered
  <2> QED BY <2>1, <2>2 DEF NoSilentHole, ShownWithoutHoles, NoRace, Displayed
<1> QED BY <1>1, ChatInvariance, PTL

\* A settled page shows every event since the join that the server holds, but
\* for boosts and the named races.
THEOREM SettledPageFollowsLog == Spec => []FollowsLog
<1>1. ASSUME IInv PROVE FollowsLog
  <2>1. TypeOK /\ NothingIsLost
    BY <1>1 DEF IInv
  <2> SUFFICES ASSUME Settled, Lossless, Without({"failed", "blind"}) \/ Without({"left"}),
                      NEW e \in stored \ Boosts, e > JoinEid
               PROVE  e \in Displayed
    BY DEF FollowsLog, Lossless
  <2>2. 2 * e \in InFeed \/ Coming(e)
    BY <2>1 DEF NothingIsLost, Settled
  <2>3. ~Coming(e)
    BY ConstantTypes DEF Settled, Coming, Busy, Asking, At
  <2>4. e \in 1..MaxEid
    BY <2>1, LogTypes, ConstantTypes
  <2> QED BY <2>2, <2>3, <2>4 DEF Displayed
<1> QED BY <1>1, ChatInvariance, PTL

\* A marker of missing history covers no event since the member joined that the server
\* still holds.
THEOREM MarkersAreAlwaysTrue == Spec => []MarkersAreTrue
<1>1. IInv => MarkersAreTrue
  BY DEF IInv, MarkersLast, MarkersAreTrue, Numbered
<1> QED BY <1>1, ChatInvariance, PTL

\* removeRoom leaves nothing in IndexedDB unless a call of the page waited.
THEOREM NothingIsKeptAfterRemoval == Spec => []NothingAfterRemoval
<1>1. IInv => NothingAfterRemoval
  BY DEF IInv, NothingAfterRemovalStays, NothingAfterRemoval
<1> QED BY <1>1, ChatInvariance, PTL
=============================================================================
