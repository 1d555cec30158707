------------------------- MODULE AcquireRefinesProofs -------------------------
(***************************************************************************)
(* The scheduler implements Downloader, for every value of the constants:  *)
(* the initial states map to initial states, and every step of the         *)
(* scheduler, its workers and its method processes to a step of the        *)
(* abstract downloader or to a stutter.                                    *)
(***************************************************************************)
EXTENDS AcquireChannelsProofs, AcquireRefines

-----------------------------------------------------------------------------
(* The mapping, as a function of the scheduler's record and the live items. *)

PhaseOf(s, lives, i) ==
    IF i \notin lives THEN "absent"
    ELSE IF OwnedBy(s, i) = {} THEN "settled"
    ELSE IF s.status[i] = "Fetching" THEN "active" ELSE "waiting"

PlaceOf(s, lives, i) ==
    IF i \in lives /\ OwnedBy(s, i) # {}
    THEN (CHOOSE e \in OwnedBy(s, i) : TRUE).queue ELSE NoQueue

\* What left is mapped to.
Remaining == [i \in Items |-> Attempts(i, item[i])]

\* phase and at are what PhaseOf and PlaceOf say.
LEMMA MapIs ==
    /\ phase = [i \in Items |-> PhaseOf(acq, live, i)]
    /\ at = [i \in Items |-> PlaceOf(acq, live, i)]
    /\ phase' = [i \in Items |-> PhaseOf(acq', live', i)]
    /\ at' = [i \in Items |-> PlaceOf(acq', live', i)]
<1>1. \A i \in Items : /\ phase[i] = PhaseOf(acq, live, i)
                       /\ phase'[i] = PhaseOf(acq', live', i)
  BY DEF phase, PhaseOf
<1>2. \A i \in Items : /\ at[i] = PlaceOf(acq, live, i)
                       /\ at'[i] = PlaceOf(acq', live', i)
  BY DEF at, PlaceOf
<1>3. /\ phase = [i \in Items |-> phase[i]] /\ phase' = [i \in Items |-> phase'[i]]
      /\ at = [i \in Items |-> at[i]] /\ at' = [i \in Items |-> at'[i]]
  BY DEF phase, at
<1> QED BY <1>1, <1>2, <1>3, Zenon

\* A queued item has one QItem.
LEMMA OwnedOne ==
    ASSUME NEW s, Sound(s), NEW i \in Items, OwnedBy(s, i) # {}
    PROVE  \E e \in s.qitems : OwnedBy(s, i) = {e} /\ e.owner = i /\ e.queue \in Queues
<1>1. PICK e \in s.qitems : OwnedBy(s, i) = {e}
  BY DEF Sound, AtMostOnce
<1>2. e \in OwnedBy(s, i) /\ e \in QItem
  BY <1>1 DEF Sound, AcqType
<1>3. e.owner = i /\ e.queue \in Queues
  BY <1>2 DEF OwnedBy, QItem
<1> QED BY <1>1, <1>3

\* No queue has the name NoQueue.
LEMMA NoQueueIsNone == NoQueue \notin Queues
BY DEF NoQueue, Queues

\* An item's place is the queue of its QItem.
LEMMA PlaceIs ==
    ASSUME NEW s, Sound(s), NEW lives, NEW i \in Items, NEW e, OwnedBy(s, i) = {e}
    PROVE  PlaceOf(s, lives, i) = IF i \in lives THEN e.queue ELSE NoQueue
BY DEF PlaceOf

\* Who is waiting or active is in a queue, and who is not is in none.
LEMMA PlacedIs ==
    ASSUME NEW s, Sound(s), NEW lives, NEW i \in Items
    PROVE  PlaceOf(s, lives, i) \in Queues <=> PhaseOf(s, lives, i) \in {"waiting", "active"}
<1>1. CASE i \in lives /\ OwnedBy(s, i) # {}
  <2>1. PICK e \in s.qitems : OwnedBy(s, i) = {e} /\ e.queue \in Queues
    BY <1>1, OwnedOne
  <2> QED BY <1>1, <2>1, PlaceIs DEF PhaseOf
<1>2. CASE ~(i \in lives /\ OwnedBy(s, i) # {})
  BY <1>2, NoQueueIsNone DEF PlaceOf, PhaseOf
<1> QED BY <1>1, <1>2

\* The items of a queue that are active are at its worker, one QItem each.
LEMMA ActiveFit ==
    ASSUME NEW s, Sound(s), NEW lives, NEW q \in Queues, Deep(s, q)
    PROVE  Cardinality({i \in Items : /\ PlaceOf(s, lives, i) = q
                                      /\ PhaseOf(s, lives, i) = "active"}) <= Limit(q)
<1> DEFINE A == {i \in Items : PlaceOf(s, lives, i) = q /\ PhaseOf(s, lives, i) = "active"}
           one(i) == CHOOSE e \in OwnedBy(s, i) : TRUE
           f == [i \in A |-> one(i)]
<1>1. ASSUME NEW i \in A PROVE one(i) \in Flight(s, q) /\ one(i).owner = i
  <2>1. OwnedBy(s, i) # {} /\ s.status[i] = "Fetching" /\ one(i).queue = q
    BY DEF PhaseOf, PlaceOf
  <2>2. PICK e \in s.qitems : OwnedBy(s, i) = {e} /\ e.owner = i
    BY <2>1, OwnedOne
  <2>3. one(i) = e
    BY <2>2
  <2> QED BY <2>1, <2>2, <2>3 DEF Flight, QItemsOf
<1>2. f \in Injection(A, Flight(s, q))
  BY <1>1, ZenonT(40) DEF Injection, IsInjective
<1>3. IsFiniteSet(Flight(s, q)) /\ Cardinality(Flight(s, q)) \in Nat
  <2>1. Flight(s, q) \subseteq s.qitems /\ IsFiniteSet(s.qitems)
    BY DEF Flight, QItemsOf, Sound
  <2> QED BY <2>1, FS_Subset, FS_CardinalityType
<1>4. IsFiniteSet(A) /\ Cardinality(A) <= Cardinality(Flight(s, q))
  BY <1>2, <1>3, FS_Injection
<1>5. /\ s.depth[q] = Cardinality(Flight(s, q)) /\ s.depth[q] <= s.maxDepth[q]
      /\ s.maxDepth[q] <= Limit(q) /\ s.maxDepth[q] \in Nat /\ Limit(q) \in Nat
  BY QueueAssumption DEF Deep, Sound, AcqType, Limit
<1>6. Cardinality(A) \in Nat
  BY <1>4, FS_CardinalityType
<1> QED
  <2> HIDE DEF A
  <2>1. Cardinality(A) <= Limit(q)
    BY <1>3, <1>4, <1>5, <1>6
  <2> QED BY <2>1 DEF A

-----------------------------------------------------------------------------
(* Attempts.                                                                *)

\* The methods a Done handler copies with do not answer from where the file is
\* (methods/copy.cc announces no Local-Only), so that nothing is copied twice.
CopyInPlace ==
    \A i \in Items : Conf[i].kind \in {"file", "rel"} =>
        InPlace(AccessOf[Conf[i].copy])

\* Vf is within the sources or just behind them.
Within(i, it) == it.vf <= Len(Conf[i].sources) + 1

\* Verdict v on item i spends an attempt if it queues the item again, under the
\* URI it leaves in Desc.URI, and gives none back if it does not.
Spends(i, it, v) ==
    /\ Within(i, v.it) /\ Attempts(i, v.it) \in Int /\ Attempts(i, v.it) <= Attempts(i, it)
    /\ v.next # NoURI => v.it.uri = v.next /\ Attempts(i, v.it) < Attempts(i, it)

\* A retry costs as many attempts as there are sources.
LEMMA Distributes ==
    ASSUME NEW r \in Int, NEW n \in Int
    PROVE  r * n \in Int /\ (r - 1) * n = r * n - n
OBVIOUS

\* What Attempts is, kind by kind.
LEMMA AttemptsAre ==
    ASSUME NEW i \in Items, NEW it \in ItemState
    PROVE  /\ Attempts(i, it) \in Int
           /\ Conf[i].kind = "archive" =>
                 Attempts(i, it) = Len(Conf[i].sources) + 1 - it.vf
                                   + it.retries * Len(Conf[i].sources)
           /\ Conf[i].kind = "index" => Attempts(i, it) = IF it.second THEN 0 ELSE 1
           /\ Conf[i].kind = "rel" =>
                 Attempts(i, it) = IF it.second THEN 0
                                   ELSE IF it.uri = Conf[i].copy THEN 1 ELSE 2
           /\ Conf[i].kind = "file" =>
                 Attempts(i, it) = it.retries + IF it.uri = Conf[i].copy THEN 0 ELSE 1
<1>1. Conf[i].kind \in {"index", "rel", "archive", "file"}
  BY ItemAssumption DEF ItemConf
<1>2. it.vf \in Nat /\ it.retries \in Nat /\ it.second \in BOOLEAN
  BY DEF ItemState
<1>3. Len(Conf[i].sources) \in Nat
  BY SourcesType
<1>4. it.retries * Len(Conf[i].sources) \in Int
  BY <1>2, <1>3, Distributes
<1>5. CASE Conf[i].kind = "archive"
  <2>1. Attempts(i, it) = Len(Conf[i].sources) + 1 - it.vf
                          + it.retries * Len(Conf[i].sources)
    BY <1>5 DEF Attempts
  <2> QED BY <1>5, <2>1, <1>2, <1>3, <1>4
<1>6. CASE Conf[i].kind = "index"
  BY <1>6 DEF Attempts
<1>7. CASE Conf[i].kind = "rel"
  BY <1>7 DEF Attempts
<1>8. CASE Conf[i].kind = "file"
  BY <1>8, <1>2 DEF Attempts
<1> QED BY <1>1, <1>5, <1>6, <1>7, <1>8

\* The forms of verdict.
LEMMA FormsSpend ==
    ASSUME NEW i \in Items, NEW it \in ItemState, NEW x \in ItemState, Within(i, x)
    PROVE  /\ Attempts(i, x) <= Attempts(i, it) =>
                 /\ \A st, deq : Spends(i, it, Verdict(x, st, deq, NoURI))
                 /\ \A st : Spends(i, it, Settled(x, st))
                 /\ \A a, transient, count : Spends(i, it, ItemFailed(x, a, transient, count))
           /\ \A u \in URI \cup {NoURI} : \A deq :
                 Attempts(i, [x EXCEPT !.uri = u]) < Attempts(i, it) =>
                    Spends(i, it, Requeue(x, u, deq))
<1>1. Attempts(i, x) \in Int /\ Attempts(i, it) \in Int
  BY AttemptsAre
<1>2. ASSUME Attempts(i, x) <= Attempts(i, it)
      PROVE  \A st, deq : Spends(i, it, Verdict(x, st, deq, NoURI))
  BY <1>1, <1>2 DEF Spends, Verdict
<1>3. ASSUME NEW u \in URI \cup {NoURI}, NEW deq,
             Attempts(i, [x EXCEPT !.uri = u]) < Attempts(i, it)
      PROVE  Spends(i, it, Requeue(x, u, deq))
  <2> DEFINE y == [x EXCEPT !.uri = u]
  <2>1. y \in ItemState /\ y.uri = u /\ y.vf = x.vf
    BY DEF ItemState
  <2>2. Attempts(i, y) \in Int
    BY <2>1, AttemptsAre
  <2>3. Requeue(x, u, deq).it = y /\ Requeue(x, u, deq).next = u
    BY DEF Requeue, Verdict
  <2>4. Within(i, y)
    BY <2>1 DEF Within
  <2>5. Attempts(i, y) < Attempts(i, it)
    BY <1>3
  <2>6. Attempts(i, y) <= Attempts(i, it)
    BY <2>2, <2>5, <1>1
  <2> HIDE DEF y
  <2> QED BY <2>1, <2>2, <2>3, <2>4, <2>5, <2>6 DEF Spends
<1> QED BY <1>2, <1>3, Zenon DEF Settled, ItemFailed

\* An archive's state without its flags.
LEMMA ArchiveSame ==
    ASSUME NEW i \in Items, Conf[i].kind = "archive", NEW it \in ItemState,
           NEW x \in ItemState, x.vf = it.vf, x.retries = it.retries
    PROVE  Attempts(i, x) = Attempts(i, it) /\ (Within(i, it) => Within(i, x))
BY AttemptsAre, Zenon DEF Within

\* pkgAcqArchive::QueueNext, from x: one source fewer is left.
LEMMA NextSpends ==
    ASSUME NEW i \in Items, Conf[i].kind = "archive", NEW it \in ItemState,
           NEW x \in ItemState, Attempts(i, x) <= Attempts(i, it), Within(i, x),
           NEW err, HasNext(i, x, err), NEW cached \in BOOLEAN
    PROVE  Spends(i, it, QueueNext(i, x, cached))
<1>1. /\ x.vf \in Nat \ {0} /\ x.vf <= Len(Conf[i].sources) /\ Len(Conf[i].sources) \in Nat
      /\ Conf[i].sources[x.vf] \in URI /\ x.retries * Len(Conf[i].sources) \in Int
  <2>1. x.vf \in Nat \ {0} /\ x.retries \in Int
    BY DEF ItemState
  <2>2. x.vf <= Len(Conf[i].sources)
    BY DEF HasNext
  <2> QED BY <2>1, <2>2, SourcesType, Distributes
<1>2. CASE cached
  <2> DEFINE y == [x EXCEPT !.complete = TRUE, !.store = TRUE]
  <2>1. y \in ItemState /\ y.vf = x.vf /\ y.retries = x.retries
    BY DEF ItemState
  <2>2. Attempts(i, y) = Attempts(i, x) /\ Within(i, y)
    BY <2>1, ArchiveSame
  <2>3. QueueNext(i, x, cached) = Verdict(y, "Done", FALSE, NoURI)
    BY <1>2 DEF QueueNext
  <2> HIDE DEF y
  <2> QED BY <2>1, <2>2, <2>3, FormsSpend
<1>3. CASE ~cached
  <2> DEFINE y == [x EXCEPT !.vf = @ + 1]
             u == Conf[i].sources[x.vf]
             z == [y EXCEPT !.uri = u]
  <2>1. y \in ItemState /\ Within(i, y) /\ y.vf = x.vf + 1 /\ y.retries = x.retries
    BY <1>1, SMTT(30) DEF ItemState, Within
  <2>2. z \in ItemState /\ z.vf = x.vf + 1 /\ z.retries = x.retries
    <3>1. u \in URI
      BY <1>1
    <3> HIDE DEF y, u
    <3> QED BY <2>1, <3>1 DEF ItemState
  <2>3. Attempts(i, z) = Len(Conf[i].sources) + 1 - (x.vf + 1)
                         + x.retries * Len(Conf[i].sources)
    BY <2>2, AttemptsAre, ZenonT(40)
  <2>4. Attempts(i, x) = Len(Conf[i].sources) + 1 - x.vf
                         + x.retries * Len(Conf[i].sources)
    BY AttemptsAre
  <2>5. Attempts(i, z) < Attempts(i, it)
    <3> DEFINE w == x.retries * Len(Conf[i].sources)
    <3>1. Attempts(i, z) < Attempts(i, x)
      <4>1. w \in Int
        BY <1>1
      <4> HIDE DEF w, z
      <4> QED BY <1>1, <2>3, <2>4, <4>1 DEF w
    <3>2. Attempts(i, z) \in Int /\ Attempts(i, x) \in Int /\ Attempts(i, it) \in Int
      BY <2>2, AttemptsAre
    <3> HIDE DEF z
    <3> QED BY <3>1, <3>2
  <2>6. QueueNext(i, x, cached) = Requeue(y, u, FALSE)
    BY <1>3 DEF QueueNext
  <2>7. Spends(i, it, Requeue(y, u, FALSE))
    <3> HIDE DEF y, u
    <3> QED BY <1>1, <2>1, <2>5, FormsSpend DEF u, z
  <2> QED BY <2>6, <2>7
<1> QED BY <1>2, <1>3

\* Giving up a retry, or skipping the sources left, gives no attempt back.
LEMMA RetrySpends ==
    ASSUME NEW i \in Items, Conf[i].kind = "archive", NEW it \in ItemState, Within(i, it),
           NEW x \in ItemState,
           \/ x.vf = Len(Conf[i].sources) + 1 /\ x.retries = it.retries
           \/ x.vf = 1 /\ x.retries = it.retries - 1
    PROVE  Attempts(i, x) <= Attempts(i, it) /\ Within(i, x)
<1> DEFINE n == Len(Conf[i].sources)
           w == it.retries * n
<1>1. n \in Nat /\ it.vf \in Nat \ {0} /\ it.retries \in Nat /\ it.vf <= n + 1
  BY SourcesType DEF ItemState, Within
<1>2. w \in Int /\ (it.retries - 1) * n = w - n
  BY <1>1, Distributes
<1>3. Attempts(i, it) = n + 1 - it.vf + w
  BY AttemptsAre
<1>4. Attempts(i, x) = n + 1 - x.vf + x.retries * n
  BY AttemptsAre
<1>5. CASE x.vf = n + 1 /\ x.retries = it.retries
  <2>1. Attempts(i, x) = n + 1 - (n + 1) + w
    BY <1>4, <1>5
  <2> HIDE DEF n, w
  <2> QED BY <1>1, <1>2, <1>3, <1>5, <2>1 DEF Within, n
<1>6. CASE x.vf = 1 /\ x.retries = it.retries - 1
  <2>1. Attempts(i, x) = n + 1 - 1 + (it.retries - 1) * n
    BY <1>4, <1>6
  <2>2. Attempts(i, x) = n + 1 - 1 + (w - n)
    BY <2>1, <1>2
  <2> HIDE DEF n, w
  <2> QED BY <1>1, <1>2, <1>3, <1>6, <2>2 DEF Within, n
<1> QED BY <1>5, <1>6

\* pkgAcqArchive: Done settles, Failed goes on to the next source, starts over with
\* one retry fewer, or settles.
LEMMA ArchiveSpends ==
    ASSUME NEW i \in Items, Conf[i].kind = "archive", NEW it \in ItemState, Within(i, it)
    PROVE  /\ \A answer : Spends(i, it, ArchiveDone(it, answer))
           /\ \A a, transient, count, err : \A cached \in BOOLEAN :
                 Spends(i, it, ArchiveFailed(i, it, a, transient, count, cached, err))
<1> DEFINE full == [it EXCEPT !.complete = TRUE, !.store = TRUE]
           lost == [it EXCEPT !.store = FALSE]
           skip == [lost EXCEPT !.vf = Len(Conf[i].sources) + 1]
           again == [it EXCEPT !.retries = @ - 1, !.vf = 1]
           over == [again EXCEPT !.store = FALSE]
<1>1. Attempts(i, it) <= Attempts(i, it)
  BY AttemptsAre
<1>2. /\ full \in ItemState /\ full.vf = it.vf /\ full.retries = it.retries
      /\ lost \in ItemState /\ lost.vf = it.vf /\ lost.retries = it.retries
  BY DEF ItemState
<1>3. /\ Attempts(i, full) <= Attempts(i, it) /\ Within(i, full)
      /\ Attempts(i, lost) <= Attempts(i, it) /\ Within(i, lost)
  <2>1. Attempts(i, full) = Attempts(i, it) /\ Within(i, full)
    BY <1>2, ArchiveSame
  <2>2. Attempts(i, lost) = Attempts(i, it) /\ Within(i, lost)
    BY <1>2, ArchiveSame
  <2> HIDE DEF full, lost
  <2> QED BY <1>1, <2>1, <2>2
<1>4. skip \in ItemState /\ Attempts(i, skip) <= Attempts(i, it) /\ Within(i, skip)
  <2>1. Len(Conf[i].sources) \in Nat
    BY SourcesType
  <2>2. skip \in ItemState /\ skip.vf = Len(Conf[i].sources) + 1
        /\ skip.retries = it.retries
    <3> HIDE DEF lost
    <3> QED BY <1>2, <2>1 DEF ItemState
  <2> HIDE DEF skip
  <2> QED BY <2>2, RetrySpends
<1>5. ASSUME it.retries > 0
      PROVE  /\ again \in ItemState /\ Attempts(i, again) <= Attempts(i, it)
             /\ Within(i, again)
             /\ over \in ItemState /\ Attempts(i, over) <= Attempts(i, it)
             /\ Within(i, over)
  <2>1. again \in ItemState /\ again.vf = 1 /\ again.retries = it.retries - 1
    <3>1. it.retries \in Nat
      BY DEF ItemState
    <3>2. it.retries - 1 \in Nat
      BY <3>1, <1>5
    <3> DEFINE less == [it EXCEPT !.retries = it.retries - 1]
    <3>3. less \in ItemState /\ less.retries = it.retries - 1
      BY <3>2 DEF ItemState
    <3>4. again = [less EXCEPT !.vf = 1]
      OBVIOUS
    <3> HIDE DEF less, again
    <3> QED BY <3>3, <3>4 DEF ItemState
  <2>2. over \in ItemState /\ over.vf = 1 /\ over.retries = it.retries - 1
    <3> HIDE DEF again
    <3> QED BY <2>1 DEF ItemState
  <2> HIDE DEF again, over
  <2>3. Attempts(i, again) <= Attempts(i, it) /\ Within(i, again)
    BY <2>1, RetrySpends
  <2>4. Attempts(i, over) <= Attempts(i, it) /\ Within(i, over)
    BY <2>2, RetrySpends
  <2> QED BY <2>1, <2>2, <2>3, <2>4
<1>6. ASSUME NEW answer PROVE Spends(i, it, ArchiveDone(it, answer))
  <2>1. \A st : Spends(i, it, Settled(it, st)) /\ Spends(i, it, Settled(full, st))
    <3> HIDE DEF full
    <3> QED BY <1>1, <1>2, <1>3, FormsSpend
  <2> QED BY <2>1, Zenon DEF ArchiveDone
<1>7. ASSUME NEW a, NEW transient, NEW count, NEW err, NEW cached \in BOOLEAN
      PROVE  Spends(i, it, ArchiveFailed(i, it, a, transient, count, cached, err))
  <2> DEFINE v == ArchiveFailed(i, it, a, transient, count, cached, err)
  <2>1. CASE Method[a].removable /\ transient
    <3>1. v = ItemFailed(skip, a, transient, count)
      BY <2>1 DEF ArchiveFailed
    <3> HIDE DEF skip, v
    <3>2. Spends(i, it, ItemFailed(skip, a, transient, count))
      BY <1>4, FormsSpend
    <3>3. Spends(i, it, v)
      BY <3>1, <3>2, Zenon
    <3> QED BY <3>3 DEF v
  <2>2. CASE ~(Method[a].removable /\ transient) /\ HasNext(i, it, err)
    <3>1. v = QueueNext(i, it, cached)
      BY <2>2 DEF ArchiveFailed
    <3>2. Spends(i, it, QueueNext(i, it, cached))
      BY <1>1, <2>2, NextSpends
    <3> QED BY <3>1, <3>2, Zenon
  <2>3. CASE /\ ~(Method[a].removable /\ transient) /\ ~HasNext(i, it, err)
             /\ it.retries > 0 /\ ~Method[a].localOnly /\ transient
    <3>1. CASE HasNext(i, again, err)
      <4>1. v = QueueNext(i, again, cached)
        BY <2>3, <3>1 DEF ArchiveFailed
      <4> HIDE DEF again
      <4>2. Spends(i, it, QueueNext(i, again, cached))
        BY <1>5, <2>3, <3>1, NextSpends
      <4> QED BY <4>1, <4>2, Zenon
    <3>2. CASE ~HasNext(i, again, err)
      <4>1. v = ItemFailed(over, a, transient, count)
        BY <2>3, <3>2 DEF ArchiveFailed
      <4> HIDE DEF over
      <4>2. Spends(i, it, ItemFailed(over, a, transient, count))
        BY <1>5, <2>3, FormsSpend
      <4> QED BY <4>1, <4>2, Zenon
    <3> QED BY <3>1, <3>2
  <2>4. CASE /\ ~(Method[a].removable /\ transient) /\ ~HasNext(i, it, err)
             /\ ~(it.retries > 0 /\ ~Method[a].localOnly /\ transient)
    <3>1. v = ItemFailed(lost, a, transient, count)
      BY <2>4 DEF ArchiveFailed
    <3> HIDE DEF lost
    <3>2. Spends(i, it, ItemFailed(lost, a, transient, count))
      BY <1>2, <1>3, FormsSpend
    <3> QED BY <3>1, <3>2, Zenon
  <2> QED BY <2>1, <2>2, <2>3, <2>4
<1> QED BY <1>6, <1>7

\* pkgAcqFile: a file is copied from where it is once, and asked for again only at
\* the cost of a retry.
LEMMA FileSpends ==
    ASSUME CopyInPlace, NEW i \in Items, Conf[i].kind = "file", NEW it \in ItemState,
           Within(i, it)
    PROVE  /\ \A answer : Spends(i, it, FileDone(i, it, AccessOf[it.uri], answer))
           /\ \A a, transient, count : Spends(i, it, FileFailed(it, a, transient, count))
<1> DEFINE got == [it EXCEPT !.complete = TRUE]
           less == [it EXCEPT !.retries = @ - 1]
           copied == [got EXCEPT !.uri = Conf[i].copy]
           anew == [less EXCEPT !.uri = it.uri]
<1>1. /\ got \in ItemState /\ got.vf = it.vf /\ got.retries = it.retries
      /\ got.uri = it.uri /\ got.second = it.second
      /\ it.retries \in Nat /\ it.uri \in URI \cup {NoURI} /\ Conf[i].copy \in URI
  BY SourcesType DEF ItemState
<1>2. Attempts(i, it) = it.retries + IF it.uri = Conf[i].copy THEN 0 ELSE 1
  BY AttemptsAre
<1>3. Attempts(i, got) <= Attempts(i, it) /\ Within(i, got)
  <2> HIDE DEF got
  <2>1. Attempts(i, got) = got.retries + IF got.uri = Conf[i].copy THEN 0 ELSE 1
    BY <1>1, AttemptsAre
  <2> QED BY <1>1, <1>2, <2>1 DEF Within
<1>4. Attempts(i, it) <= Attempts(i, it)
  BY AttemptsAre
<1>5. ASSUME NEW answer PROVE Spends(i, it, FileDone(i, it, AccessOf[it.uri], answer))
  <2>1. \A st, deq : Spends(i, it, Verdict(it, st, deq, NoURI))
    BY <1>4, FormsSpend
  <2>2. \A st : Spends(i, it, Settled(it, st)) /\ Spends(i, it, Settled(got, st))
    <3> HIDE DEF got
    <3> QED BY <1>1, <1>3, <1>4, FormsSpend
  <2>3. ASSUME ~InPlace(AccessOf[it.uri]) PROVE Spends(i, it, Requeue(got, Conf[i].copy, TRUE))
    <3>1. it.uri # Conf[i].copy
      BY <2>3 DEF CopyInPlace
    <3>2. copied \in ItemState /\ copied.uri = Conf[i].copy /\ copied.retries = it.retries
      <4> HIDE DEF got
      <4> QED BY <1>1 DEF ItemState
    <3> HIDE DEF copied
    <3>3. Attempts(i, copied) = copied.retries + 0
      BY <3>2, AttemptsAre
    <3>4. Attempts(i, copied) < Attempts(i, it)
      BY <1>1, <1>2, <3>1, <3>2, <3>3
    <3> HIDE DEF got
    <3> QED BY <1>1, <1>3, <3>4, FormsSpend DEF copied
  <2> HIDE DEF got
  <2>4. CASE answer = "bad"
    BY <2>1, <2>4 DEF FileDone
  <2>5. CASE answer # "bad" /\ (answer = "ims" \/ InPlace(AccessOf[it.uri]))
    BY <2>2, <2>5 DEF FileDone, got
  <2>6. CASE answer # "bad" /\ ~(answer = "ims" \/ InPlace(AccessOf[it.uri]))
    <3>1. \/ FileDone(i, it, AccessOf[it.uri], answer) = Requeue(got, Conf[i].copy, TRUE)
          \/ FileDone(i, it, AccessOf[it.uri], answer) = Settled(it, "Error")
          \/ FileDone(i, it, AccessOf[it.uri], answer) = Settled(got, "Done")
      BY <2>6, Zenon DEF FileDone, got
    <3> QED BY <2>2, <2>3, <2>6, <3>1, Zenon
  <2> QED BY <2>4, <2>5, <2>6
<1>6. ASSUME NEW a, NEW transient, NEW count
      PROVE  Spends(i, it, FileFailed(it, a, transient, count))
  <2>1. CASE it.retries > 0 /\ ~Method[a].localOnly /\ transient
    <3>1. it.retries - 1 \in Nat
      BY <1>1, <2>1
    <3>2. \A r \in Nat : /\ [it EXCEPT !.retries = r] \in ItemState
                         /\ [it EXCEPT !.retries = r].retries = r
                         /\ [it EXCEPT !.retries = r].uri = it.uri
                         /\ [it EXCEPT !.retries = r].vf = it.vf
      BY DEF ItemState
    <3>3. less \in ItemState /\ less.retries = it.retries - 1 /\ less.uri = it.uri
          /\ less.vf = it.vf
      BY <3>1, <3>2
    <3>4. anew \in ItemState /\ anew.retries = it.retries - 1 /\ anew.uri = it.uri
      <4> HIDE DEF less
      <4> QED BY <3>3, <1>1 DEF ItemState
    <3> HIDE DEF anew
    <3>5. Attempts(i, anew) = anew.retries + IF anew.uri = Conf[i].copy THEN 0 ELSE 1
      BY <3>4, AttemptsAre
    <3>6. Attempts(i, anew) < Attempts(i, it)
      BY <1>1, <1>2, <3>4, <3>5
    <3>7. FileFailed(it, a, transient, count) = Requeue(less, it.uri, FALSE)
      BY <2>1 DEF FileFailed
    <3>8. Within(i, less)
      BY <3>3 DEF Within
    <3> HIDE DEF less
    <3>9. Spends(i, it, Requeue(less, it.uri, FALSE))
      BY <1>1, <3>3, <3>6, <3>8, FormsSpend DEF anew
    <3> QED BY <3>7, <3>9, Zenon
  <2>2. CASE ~(it.retries > 0 /\ ~Method[a].localOnly /\ transient)
    <3>1. FileFailed(it, a, transient, count) = ItemFailed(it, a, transient, count)
      BY <2>2 DEF FileFailed
    <3>2. Spends(i, it, ItemFailed(it, a, transient, count))
      BY <1>4, FormsSpend
    <3> QED BY <3>1, <3>2, Zenon
  <2> QED BY <2>1, <2>2
<1> QED BY <1>5, <1>6

\* pkgAcqIndex and pkgAcqIndexRel: a copy and the second stage, each at most once.
LEMMA IndexSpends ==
    ASSUME NEW i \in Items, Conf[i].kind = "index", NEW it \in ItemState, Within(i, it)
    PROVE  /\ \A answer : Spends(i, it, IndexDone(i, it, answer))
           /\ \A a, transient, count : Spends(i, it, ItemFailed(it, a, transient, count))
<1> DEFINE got == [it EXCEPT !.complete = TRUE]
           next == [got EXCEPT !.second = TRUE]
           asked == [next EXCEPT !.uri = Conf[i].post]
<1>1. /\ got \in ItemState /\ got.vf = it.vf /\ got.second = it.second
      /\ Conf[i].post \in URI
  BY SourcesType DEF ItemState
<1>2. next \in ItemState /\ next.vf = it.vf /\ next.second = TRUE
  <2> HIDE DEF got
  <2> QED BY <1>1 DEF ItemState
<1>3. asked \in ItemState /\ asked.second = TRUE
  <2> HIDE DEF next
  <2> QED BY <1>1, <1>2 DEF ItemState
<1>4. Attempts(i, it) = IF it.second THEN 0 ELSE 1
  BY AttemptsAre
<1>5. Attempts(i, it) <= Attempts(i, it)
  BY AttemptsAre
<1>6. Attempts(i, got) <= Attempts(i, it) /\ Within(i, got) /\ Within(i, next)
  <2> HIDE DEF got, next
  <2>1. Attempts(i, got) = IF got.second THEN 0 ELSE 1
    BY <1>1, AttemptsAre
  <2> QED BY <1>1, <1>2, <1>4, <2>1 DEF Within
<1>7. \A st : Spends(i, it, Settled(it, st)) /\ Spends(i, it, Settled(got, st))
  <2> HIDE DEF got
  <2> QED BY <1>1, <1>5, <1>6, FormsSpend
<1>8. ASSUME ~it.second PROVE Spends(i, it, Requeue(next, Conf[i].post, TRUE))
  <2> HIDE DEF asked
  <2>1. Attempts(i, asked) = 0
    BY <1>3, AttemptsAre
  <2>2. Attempts(i, asked) < Attempts(i, it)
    BY <1>4, <1>8, <2>1
  <2> HIDE DEF next
  <2> QED BY <1>1, <1>2, <1>6, <2>2, FormsSpend DEF asked
<1>9. ASSUME NEW answer PROVE Spends(i, it, IndexDone(i, it, answer))
  <2> HIDE DEF next
  <2>1. \/ \E st : IndexDone(i, it, answer) = Settled(it, st)
        \/ \E st : IndexDone(i, it, answer) = Settled(got, st)
        \/ ~it.second /\ IndexDone(i, it, answer) = Requeue(next, Conf[i].post, TRUE)
    BY Zenon DEF IndexDone, got, next
  <2> QED BY <1>7, <1>8, <2>1, Zenon
<1> QED BY <1>5, <1>9, FormsSpend

\* pkgAcqIndexRel: from where it is to its place, and from there to gpg.
LEMMA RelSpends ==
    ASSUME CopyInPlace, NEW i \in Items, Conf[i].kind = "rel", NEW it \in ItemState,
           Within(i, it)
    PROVE  /\ \A answer : Spends(i, it, RelDone(i, it, AccessOf[it.uri], answer))
           /\ \A a, transient, count : Spends(i, it, RelFailed(i, it, a, transient, count))
<1> DEFINE got == [it EXCEPT !.complete = TRUE]
           none == [it EXCEPT !.complete = FALSE]
           next == [got EXCEPT !.second = TRUE]
           copied == [got EXCEPT !.uri = Conf[i].copy]
           asked == [next EXCEPT !.uri = Conf[i].post]
           all(x) == IF x.second THEN 0 ELSE IF x.uri = Conf[i].copy THEN 1 ELSE 2
<1>1. /\ got \in ItemState /\ got.vf = it.vf /\ got.second = it.second /\ got.uri = it.uri
      /\ none \in ItemState /\ none.vf = it.vf /\ none.second = it.second
      /\ none.uri = it.uri /\ Conf[i].post \in URI /\ Conf[i].copy \in URI
      /\ it.second \in BOOLEAN
  BY SourcesType DEF ItemState
<1>2. next \in ItemState /\ next.vf = it.vf /\ next.second = TRUE
  <2> HIDE DEF got
  <2> QED BY <1>1 DEF ItemState
<1>3. /\ copied \in ItemState /\ copied.uri = Conf[i].copy /\ copied.second = it.second
      /\ asked \in ItemState /\ asked.second = TRUE
  <2> HIDE DEF next, got
  <2> QED BY <1>1, <1>2 DEF ItemState
<1>4. \A x \in ItemState : Attempts(i, x) = all(x)
  BY AttemptsAre
<1>5. Attempts(i, it) <= Attempts(i, it)
  BY AttemptsAre
<1>6. /\ Attempts(i, got) <= Attempts(i, it) /\ Within(i, got) /\ Within(i, next)
      /\ Attempts(i, none) <= Attempts(i, it) /\ Within(i, none)
  <2> HIDE DEF got, none, next
  <2> QED BY <1>1, <1>2, <1>4 DEF Within
<1>7. \A st : /\ Spends(i, it, Settled(it, st)) /\ Spends(i, it, Settled(got, st))
              /\ Spends(i, it, Settled(none, st))
  <2> HIDE DEF got, none
  <2> QED BY <1>1, <1>5, <1>6, FormsSpend
<1>8. ASSUME ~it.second PROVE Spends(i, it, Requeue(next, Conf[i].post, TRUE))
  <2> HIDE DEF asked
  <2>1. Attempts(i, asked) = 0
    BY <1>3, <1>4
  <2>2. Attempts(i, asked) < Attempts(i, it)
    BY <1>4, <1>8, <2>1
  <2> HIDE DEF next
  <2> QED BY <1>1, <1>2, <1>6, <2>2, FormsSpend DEF asked
<1>9. ASSUME ~it.second, ~InPlace(AccessOf[it.uri])
      PROVE  Spends(i, it, Requeue(got, Conf[i].copy, TRUE))
  <2>1. it.uri # Conf[i].copy
    BY <1>9 DEF CopyInPlace
  <2> HIDE DEF copied
  <2>2. Attempts(i, copied) = 1
    BY <1>1, <1>3, <1>4, <1>9
  <2>3. Attempts(i, it) = 2
    BY <1>4, <1>9, <2>1
  <2>4. Attempts(i, copied) < Attempts(i, it)
    BY <2>2, <2>3
  <2> HIDE DEF got
  <2> QED BY <1>1, <1>6, <2>4, FormsSpend DEF copied
<1>10. ASSUME NEW answer PROVE Spends(i, it, RelDone(i, it, AccessOf[it.uri], answer))
  <2> HIDE DEF next
  <2>1. \/ \E st : RelDone(i, it, AccessOf[it.uri], answer) = Settled(it, st)
        \/ \E st : RelDone(i, it, AccessOf[it.uri], answer) = Settled(got, st)
        \/ /\ ~it.second
           /\ RelDone(i, it, AccessOf[it.uri], answer) = Requeue(next, Conf[i].post, TRUE)
        \/ /\ ~it.second /\ ~InPlace(AccessOf[it.uri])
           /\ RelDone(i, it, AccessOf[it.uri], answer) = Requeue(got, Conf[i].copy, TRUE)
    BY Zenon DEF RelDone, got, next
  <2> QED BY <1>7, <1>8, <1>9, <2>1, Zenon
<1>11. ASSUME NEW a, NEW transient, NEW count
       PROVE  Spends(i, it, RelFailed(i, it, a, transient, count))
  <2>1. \/ \E st : RelFailed(i, it, a, transient, count) = Settled(none, st)
        \/ RelFailed(i, it, a, transient, count) = ItemFailed(it, a, transient, count)
    BY Zenon DEF RelFailed, none
  <2>2. Spends(i, it, ItemFailed(it, a, transient, count))
    BY <1>5, FormsSpend
  <2> QED BY <1>7, <2>1, <2>2, Zenon
<1> QED BY <1>10, <1>11

\* Whatever a handler decides spends an attempt, or settles.
LEMMA DecidesSpends ==
    ASSUME CopyInPlace, NEW i \in Items, NEW it \in ItemState, Within(i, it),
           NEW a, a = AccessOf[it.uri], NEW v, Decides(i, it, a, v)
    PROVE  Spends(i, it, v)
<1>1. Conf[i].kind \in {"index", "rel", "archive", "file"}
  BY ItemAssumption DEF ItemConf
<1>2. CASE \E answer \in Answer : v = Done(i, it, a, answer)
  <2>1. PICK answer \in Answer : v = Done(i, it, a, answer)
    BY <1>2
  <2>2. CASE Conf[i].kind = "archive"
    BY <2>1, <2>2, ArchiveSpends, Zenon DEF Done
  <2>3. CASE Conf[i].kind = "file"
    BY <2>1, <2>3, FileSpends, Zenon DEF Done
  <2>4. CASE Conf[i].kind = "index"
    BY <2>1, <2>4, IndexSpends, Zenon DEF Done
  <2>5. CASE Conf[i].kind = "rel"
    BY <2>1, <2>5, RelSpends, Zenon DEF Done
  <2> QED BY <1>1, <2>2, <2>3, <2>4, <2>5
<1>3. CASE \E transient, cached, err \in BOOLEAN, count \in Int :
              v = Failed(i, it, a, transient, count, cached, err)
  <2>1. PICK transient, cached, err \in BOOLEAN, count \in Int :
              v = Failed(i, it, a, transient, count, cached, err)
    BY <1>3
  <2>2. CASE Conf[i].kind = "archive"
    BY <2>1, <2>2, ArchiveSpends, Zenon DEF Failed
  <2>3. CASE Conf[i].kind = "file"
    BY <2>1, <2>3, FileSpends, Zenon DEF Failed
  <2>4. CASE Conf[i].kind = "index"
    BY <2>1, <2>4, IndexSpends, Zenon DEF Failed
  <2>5. CASE Conf[i].kind = "rel"
    BY <2>1, <2>5, RelSpends, Zenon DEF Failed
  <2> QED BY <1>1, <2>2, <2>3, <2>4, <2>5
<1> QED BY <1>2, <1>3 DEF Decides

\* The first attempt is one of the item's budget.
LEMMA ConstructedSpends ==
    ASSUME NEW i \in Items, NEW cached \in BOOLEAN, NEW err
    PROVE  LET v == Constructed(i, cached, err) IN
           /\ Within(i, NewState(i)) /\ Within(i, v.it)
           /\ Attempts(i, v.it) \in Int /\ Attempts(i, v.it) <= Attempts(i, NewState(i))
           /\ v.next # NoURI => v.it.uri = v.next
<1> DEFINE it == NewState(i)
           u == Conf[i].sources[1]
           v == Constructed(i, cached, err)
           x == [it EXCEPT !.uri = u]
<1>1. /\ Conf[i].kind \in {"index", "rel", "archive", "file"} /\ Conf[i].retries \in Nat
      /\ Conf[i].copy \in URI /\ Len(Conf[i].sources) \in Nat
      /\ Conf[i].kind # "archive" => u \in URI
  <2>1. Conf[i].kind \in {"index", "rel", "archive", "file"} /\ Conf[i].retries \in Nat
        /\ (Conf[i].kind # "archive" => Len(Conf[i].sources) = 1)
    BY ItemAssumption DEF ItemConf
  <2> QED
    BY <2>1, SourcesType
<1>2. /\ it \in ItemState /\ it.vf = 1 /\ it.uri = NoURI /\ it.retries = Conf[i].retries
      /\ it.second = FALSE
  BY <1>1 DEF NewState, ItemState
<1> HIDE DEF it
<1>3. Within(i, it)
  BY <1>1, <1>2 DEF Within
<1>4. Attempts(i, it) \in Int /\ Attempts(i, it) <= Attempts(i, it)
  BY <1>2, AttemptsAre
<1>5. CASE Conf[i].kind # "archive"
  <2>1. v = Verdict(x, "Idle", FALSE, u)
    BY <1>5 DEF Constructed, it
  <2>2. x \in ItemState /\ x.vf = 1 /\ x.retries = it.retries /\ x.second = FALSE /\ x.uri = u
    BY <1>1, <1>2, <1>5 DEF ItemState
  <2> HIDE DEF x, u
  <2>3. Attempts(i, x) \in Int /\ Attempts(i, x) <= Attempts(i, it)
    <3>1. it.uri # Conf[i].copy
      BY <1>1, <1>2, ItemAssumption
    <3>2. CASE Conf[i].kind = "index"
      <4>1. Attempts(i, x) = 1 /\ Attempts(i, it) = 1
        BY <1>2, <2>2, <3>2, AttemptsAre
      <4> QED BY <4>1
    <3>3. CASE Conf[i].kind = "rel"
      <4>1. Attempts(i, x) \in {1, 2} /\ Attempts(i, it) = 2
        BY <1>2, <2>2, <3>1, <3>3, AttemptsAre
      <4> QED BY <4>1
    <3>4. CASE Conf[i].kind = "file"
      <4>1. /\ Attempts(i, x) = it.retries + IF x.uri = Conf[i].copy THEN 0 ELSE 1
            /\ Attempts(i, it) = it.retries + 1
        BY <1>2, <2>2, <3>1, <3>4, AttemptsAre
      <4> QED BY <4>1, <1>1, <1>2
    <3> QED BY <1>1, <1>5, <3>2, <3>3, <3>4
  <2>4. v.it = x /\ v.next = u
    BY <2>1 DEF Verdict
  <2>5. Within(i, x)
    BY <1>1, <2>2 DEF Within
  <2> HIDE DEF v
  <2> QED BY <1>3, <2>2, <2>3, <2>4, <2>5 DEF v, it
<1>6. CASE Conf[i].kind = "archive"
  <2>1. CASE ~HasNext(i, it, err)
    <3>1. v = Verdict(it, "Idle", FALSE, NoURI)
      BY <1>6, <2>1 DEF Constructed, it
    <3>2. v.it = it /\ v.next = NoURI
      BY <3>1 DEF Verdict
    <3> HIDE DEF v
    <3> QED BY <1>3, <1>4, <3>2 DEF v, it
  <2>2. CASE HasNext(i, it, err)
    <3>1. \A c \in BOOLEAN : Spends(i, it, QueueNext(i, it, c))
      BY <1>2, <1>3, <1>4, <1>6, <2>2, NextSpends
    <3>2. \E c \in BOOLEAN : /\ v.it = QueueNext(i, it, c).it
                             /\ v.next = QueueNext(i, it, c).next
      <4>1. CASE cached
        BY <1>6, <2>2, <4>1 DEF Constructed, it
      <4>2. CASE ~cached
        <5>1. v = [QueueNext(i, it, FALSE) EXCEPT !.status = "Idle"]
          BY <1>6, <2>2, <4>2 DEF Constructed, it
        <5>2. v.it = QueueNext(i, it, FALSE).it /\ v.next = QueueNext(i, it, FALSE).next
          BY <5>1 DEF QueueNext, Requeue, Verdict
        <5> QED BY <5>2
      <4> QED BY <4>1, <4>2
    <3> HIDE DEF v
    <3> QED BY <1>3, <3>1, <3>2 DEF Spends, v, it
  <2> QED BY <2>1, <2>2
<1> QED BY <1>5, <1>6

-----------------------------------------------------------------------------
(* Where an item is queued.                                                 *)

\* The QItems of item i are with the access method of URI u.
AtMethod(s, i, u) == \A e \in OwnedBy(s, i) : e.queue[1] = AccessOf[u]

\* No item but i changes its Status.
Silent(s, t, i) == \A j \in Items \ {i} : t.status[j] = s.status[j]

\* Handing out marks the items of the QItems handed out.
LEMMA GiveMarks ==
    ASSUME NEW s \in AcqType, NEW q, NEW P
    PROVE  \A j \in Items :
              ~(\E f \in P : f.owner = j) => Give(s, q, P).status[j] = s.status[j]
BY DEF Give, AcqType

\* Queue::Enqueue puts the item in the queue it is told to, and hands out no item
\* that waits in another queue.
LEMMA QueueEnqueuePlaces ==
    ASSUME NEW s, Sound(s), NEW q \in s.made, NEW i \in Items, OwnedBy(s, i) = {},
           NEW u \in URI, NEW garbage \in BOOLEAN
    PROVE  LET t == QueueEnqueue(s, q, i, u, garbage) IN
           Silent(s, t, i) /\ \A e \in OwnedBy(t, i) : e.queue = q
<1> DEFINE pos == IF QItemsOf(s, q) = {} THEN 1 ELSE s.tail[q] + 1
           e == [queue |-> q, pos |-> pos, owner |-> i, uri |-> u]
           t == Append1(s, q, i, u, garbage)
<1>1. s \in AcqType /\ q \in Queues
  BY DEF Sound, AcqType
<1>2. Sound(t) /\ t.status = [s.status EXCEPT ![i] = "Idle"]
  BY AppendSound
<1>3. t.qitems = s.qitems \cup {e}
  BY <1>1 DEF Append1, AcqType
<1>4. e.owner = i /\ e.queue = q
  OBVIOUS
<1> HIDE DEF t, e
<1>5. OwnedBy(t, i) = {e}
  BY <1>3, <1>4 DEF OwnedBy
<1>6. Silent(s, t, i)
  BY <1>1, <1>2 DEF Silent, AcqType
<1>7. ASSUME QItemsOf(s, q) = {}
      PROVE  Silent(s, Cycle(t, q), i) /\ OwnedBy(Cycle(t, q), i) = {e}
  <2>1. OwnedBy(Cycle(t, q), i) = {e}
    BY <1>1, <1>2, <1>5, CycleFeeds DEF Fed
  <2>2. \A f \in QItemsOf(t, q) : f.owner = i
    BY <1>3, <1>4, <1>7 DEF QItemsOf
  <2>3. \A f \in Picked(t, q) : f.owner = i
    BY <2>2 DEF Picked, IdleIn
  <2>4. t \in AcqType
    BY <1>2 DEF Sound
  <2>5. \A j \in Items \ {i} : Give(t, q, Picked(t, q)).status[j] = t.status[j]
    <3>1. SUFFICES ASSUME NEW j \in Items, j # i
                   PROVE  Give(t, q, Picked(t, q)).status[j] = t.status[j]
      OBVIOUS
    <3>2. ~(\E f \in Picked(t, q) : f.owner = j)
      BY <2>3, <3>1
    <3> QED BY <2>4, <3>2, GiveMarks
  <2>6. Cycle(t, q).status = t.status \/ Cycle(t, q) = Give(t, q, Picked(t, q))
    BY <2>4 DEF Cycle, AcqType
  <2> QED BY <1>6, <2>1, <2>5, <2>6 DEF Silent
<1> QED BY <1>4, <1>5, <1>6, <1>7 DEF QueueEnqueue, t

\* pkgAcquire::Enqueue puts the item, if it does, in a queue of the method of its
\* URI, and while no Run runs hands out no other item.
LEMMA EnqueuePlaces ==
    ASSUME NEW s, Sound(s), NEW i \in Items, OwnedBy(s, i) = {}, NEW u \in URI,
           NEW running \in BOOLEAN, NEW choice \in Choice
    PROVE  LET t == Enqueue(s, i, u, running, choice) IN
           AtMethod(t, i, u) /\ (~running => Silent(s, t, i))
<1> DEFINE a == AccessOf[u]
           g == GetConfig(s, a, choice.probe)
           q == QueueName(g, u)
           m == MakeQueue(g, q, running, choice.start)
           n == QueueEnqueue(m, q, i, u, choice.garbage)
           t == Enqueue(s, i, u, running, choice)
<1>1. a \in Access /\ q \in Queues /\ q[1] = a /\ s \in AcqType
  BY ItemAssumption DEF QueueName, Queues, Hosts, Sound
<1>2. choice.probe \in BOOLEAN /\ choice.start \in BOOLEAN /\ choice.garbage \in BOOLEAN
  BY QueueAssumption DEF Choice
<1>3. Fed(s, g) /\ Sound(g) /\ g.status = s.status
  <2>1. Fed(s, g) /\ Sound(g)
    BY <1>1, <1>2, ConfigFeeds DEF Fed
  <2> QED BY <1>1, <2>1 DEF GetConfig, AcqType
<1>4. t = IF a \notin s.configs /\ ~choice.probe THEN g ELSE [n EXCEPT !.toFetch = @ + 1]
  BY DEF Enqueue
<1> HIDE DEF g, q, t
<1>5. Fed(g, m) /\ q \in m.made /\ (~running => m.status = g.status)
  <2>1. Fed(g, m) /\ q \in m.made
    BY <1>1, <1>2, <1>3, MakeQueueFeeds
  <2>2. g \in AcqType
    BY <1>3 DEF Sound
  <2> QED BY <2>1, <2>2 DEF MakeQueue, AcqType
<1>6. Sound(m) /\ OwnedBy(m, i) = {}
  BY <1>3, <1>5 DEF Fed
<1> HIDE DEF m
<1>7. /\ Sound(n) /\ Silent(m, n, i) /\ \A e \in OwnedBy(n, i) : e.queue = q
  BY <1>2, <1>5, <1>6, QueueEnqueueSound, QueueEnqueuePlaces
<1> HIDE DEF n
<1>8. CASE t = g
  BY <1>3, <1>8 DEF AtMethod, Silent, Fed, t
<1>9. CASE t = [n EXCEPT !.toFetch = @ + 1]
  <2>1. n \in AcqType
    BY <1>7 DEF Sound
  <2>2. t.qitems = n.qitems /\ t.status = n.status
    BY <1>9, <2>1 DEF AcqType
  <2>3. AtMethod(t, i, u)
    BY <1>1, <1>7, <2>2 DEF AtMethod, OwnedBy
  <2>4. ~running => Silent(s, t, i)
    BY <1>3, <1>5, <1>7, <2>2 DEF Silent
  <2> QED BY <2>3, <2>4 DEF t
<1> QED BY <1>4, <1>8, <1>9

\* So does the verdict of a handler, or of a constructor.
LEMMA ApplyPlaces ==
    ASSUME NEW s, Sound(s), NEW i \in Items, OwnedBy(s, i) = {},
           NEW v \in Verdicts, v.status # "Fetching",
           NEW running \in BOOLEAN, NEW choice \in Choice
    PROVE  LET t == Apply(s, i, v, running, choice) IN
           AtMethod(t, i, v.next) /\ (~running => Silent(s, t, i))
<1> DEFINE st == [s.status EXCEPT ![i] = v.status]
           b == [s EXCEPT !.status[i] = v.status]
           d == IF v.dequeue THEN Dequeue(b, i) ELSE b
           t == Apply(s, i, v, running, choice)
<1>1. s \in AcqType /\ s.toFetch \in Int /\ s.error \in BOOLEAN
  BY DEF Sound, AcqType
<1>2. st \in [Items -> Status] /\ \A j \in Items \ {i} : st[j] = s.status[j]
  BY <1>1 DEF AcqType, Verdicts
<1>3. b = Recount(s, s.toFetch, st, s.error)
  BY <1>1 DEF AcqType, Recount
<1>4. Sound(b) /\ b.status = st /\ OwnedBy(b, i) = {}
  BY <1>1, <1>2, <1>3, RecountSound
<1> HIDE DEF b, st
<1>5. Sound(d) /\ d.status = st /\ OwnedBy(d, i) = {}
  <2>1. ~Left(b, Dequeue(b, i), i)
    BY <1>4 DEF Left
  <2>2. /\ Sound(Dequeue(b, i)) /\ Dequeue(b, i).status = b.status
        /\ Dequeue(b, i).qitems = b.qitems
    BY <1>4, <2>1, DequeueSound
  <2> QED BY <1>4, <2>2 DEF OwnedBy
<1> HIDE DEF d
<1>6. CASE v.next = NoURI
  <2>1. t = d
    BY <1>6 DEF Apply, d, b
  <2> QED BY <1>2, <1>5, <2>1 DEF AtMethod, Silent
<1>7. CASE v.next # NoURI
  <2> DEFINE n == Enqueue(d, i, v.next, running, choice)
  <2>1. v.next \in URI
    BY <1>7 DEF Verdicts
  <2>2. t = n
    BY <1>7 DEF Apply, d, b
  <2>3. AtMethod(n, i, v.next) /\ (~running => Silent(d, n, i))
    BY <1>5, <2>1, EnqueuePlaces
  <2> HIDE DEF n, t
  <2>4. AtMethod(t, i, v.next) /\ (~running => Silent(s, t, i))
    BY <1>2, <1>5, <2>2, <2>3 DEF Silent
  <2> QED BY <2>4 DEF t
<1> QED BY <1>6, <1>7

-----------------------------------------------------------------------------
(* What the mapping needs of a state, next to IInv and CInv.                *)

\* An item is queued with the access method of its URI, and Vf is within reach
\* of the sources.
Accessed == \A i \in Items : AtMethod(acq, i, item[i].uri)
Walks == \A i \in Items : Within(i, item[i])

RInv == Accessed /\ Walks

\* The steps that leave items alone, and their QItems in their queues.
LEMMA PlacesKept ==
    ASSUME RInv, UNCHANGED item,
           \A i \in Items : \A e \in OwnedBy(acq', i) :
              \E f \in OwnedBy(acq, i) : f.queue = e.queue
    PROVE  RInv'
<1>1. Accessed'
  BY DEF RInv, Accessed, AtMethod
<1>2. Walks'
  BY DEF RInv, Walks
<1> QED BY <1>1, <1>2 DEF RInv

\* A step on item i alone, which leaves it in a queue of the method of its URI.
LEMMA PlacesTurned ==
    ASSUME RInv, TypeOK, NEW i \in Items, Turned(acq, acq', i), NEW x,
           item' = [item EXCEPT ![i] = x], Within(i, x),
           OwnedBy(acq', i) # {} => AtMethod(acq', i, x.uri)
    PROVE  RInv'
<1>1. item'[i] = x /\ \A j \in Items \ {i} : item'[j] = item[j]
  BY DEF TypeOK
<1>2. Walks'
  BY <1>1 DEF RInv, Walks
<1>3. ASSUME NEW j \in Items PROVE AtMethod(acq', j, item'[j].uri)
  <2>1. CASE j = i
    BY <1>1, <2>1 DEF AtMethod
  <2>2. CASE j # i
    <3>1. OwnedBy(acq', j) = OwnedBy(acq, j)
      BY <2>2 DEF Turned
    <3> QED BY <1>1, <2>2, <3>1 DEF RInv, Accessed, AtMethod
  <2> QED BY <2>1, <2>2
<1>4. Accessed'
  BY <1>3 DEF Accessed
<1> QED BY <1>2, <1>4 DEF RInv

\* Item i is in no queue.
Out(s, i) == OwnedBy(s, i) = {}

\* ItemDone takes its item out of the queues.
LEMMA DoneLeaves ==
    ASSUME NEW s, Sound(s), NEW e \in s.qitems
    PROVE  Sound(ItemDone(s, e)) /\ Out(ItemDone(s, e), e.owner)
BY ItemDoneSound DEF Out

\* Verdict v is carried out on item i, which was being fetched.
Carried(i, v) ==
    /\ OwnedBy(acq, i) # {} /\ acq.status[i] = "Fetching" /\ Running
    /\ Sound(acq') /\ Turned(acq, acq', i) /\ Ruled(acq', i, v)
    /\ AtMethod(acq', i, v.next) /\ Spends(i, item[i], v)
    /\ item' = [item EXCEPT ![i] = v.it] /\ UNCHANGED <<live, loop, result>>

\* A final reply is carried out on an item that is being fetched, which it settles
\* or sends on with fewer attempts left.
LEMMA FinalSpends ==
    ASSUME IInv, CInv, RInv, CopyInPlace, NEW q \in Queues, URIDone(q) \/ URIFailure(q)
    PROVE  \E i \in live, v \in Verdicts : Carried(i, v)
<1>1. TypeOK /\ Sound(acq) /\ Chan \in Channels /\ Tracked(acq, Chan)
  BY CInvIs DEF IInv
<1>2. PICK code \in {201, 400}, e \in Hit(q), choice \in Choice, v \in Verdicts :
         /\ Handling(q, code) /\ Legal(v) /\ Decides(e.owner, item[e.owner], q[1], v)
         /\ Conclude(q, e, v, ItemDone(acq, e), choice)
  BY FinalConcludes
<1> DEFINE i == e.owner
           s == ItemDone(acq, e)
<1>3. /\ Sound(acq') /\ e \in acq.qitems /\ i \in Items /\ i \in live
      /\ Turned(acq, acq', i) /\ Ruled(acq', i, v)
  BY <1>2, ConcludeTurns
<1>4. /\ Chan.r[q] # <<>> /\ Hit(q) = FindItem(acq, q, Head(Chan.r[q]).uri)
  BY <1>1, <1>2, HandlingShortens
<1>5. e \in Flight(acq, q)
  BY <1>1, <1>2, <1>4, FoundIs
<1>6. e \in OwnedBy(acq, i) /\ e.queue = q /\ acq.status[i] = "Fetching"
  BY <1>3, <1>5 DEF Flight, QItemsOf, OwnedBy
<1>7. Running
  <2>1. msgs[q] # <<>>
    BY <1>2 DEF Handling
  <2> QED BY <2>1 DEF CInv, Passes, Quiet, Running, At
<1>8. Sound(s) /\ OwnedBy(s, i) = {}
  <2>1. Sound(acq) /\ e \in acq.qitems
    BY <1>1, <1>3
  <2>2. Sound(s) /\ Out(s, i)
    BY <2>1, DoneLeaves
  <2> HIDE DEF s, i
  <2> QED BY <2>2 DEF Out
<1>9. acq' = Apply(s, i, v, TRUE, choice) /\ item' = [item EXCEPT ![i] = v.it]
  BY <1>2 DEF Conclude
<1>10. v \in Verdicts /\ v.status # "Fetching"
  BY <1>2 DEF Legal
<1>11. AtMethod(acq', i, v.next)
  <2> HIDE DEF s
  <2>1. \A b \in BOOLEAN : AtMethod(Apply(s, i, v, b, choice), i, v.next)
    BY <1>2, <1>3, <1>8, <1>10, ApplyPlaces
  <2> QED BY <1>9, <2>1
<1>12. q[1] = AccessOf[item[i].uri]
  BY <1>3, <1>6 DEF RInv, Accessed, AtMethod
<1>13. Spends(i, item[i], v)
  <2>1. item[i] \in ItemState /\ Within(i, item[i])
    BY <1>1, <1>3 DEF TypeOK, RInv, Walks
  <2>2. i \in Items /\ Decides(i, item[i], q[1], v)
    BY <1>2, <1>3
  <2> HIDE DEF i
  <2> QED BY <1>12, <2>1, <2>2, DecidesSpends
<1>14. UNCHANGED <<live, loop, result>>
  BY <1>2 DEF Handling, runVars
<1>15. OwnedBy(acq, i) # {} /\ i \in live
  BY <1>3, <1>6
<1> HIDE DEF i, s
<1>16. Carried(i, v)
  BY <1>3, <1>6, <1>7, <1>9, <1>11, <1>13, <1>14, <1>15 DEF Carried
<1> QED BY <1>10, <1>15, <1>16

\* Verdict v is carried out on item i, which is new.
Offered(i, v) ==
    /\ i \notin live /\ ~Running /\ Sound(acq')
    /\ Turned(acq, acq', i) /\ Silent(acq, acq', i) /\ Ruled(acq', i, v)
    /\ AtMethod(acq', i, v.next) /\ Within(i, v.it)
    /\ Attempts(i, v.it) \in Int /\ Attempts(i, v.it) <= Attempts(i, NewState(i))
    /\ v.next # NoURI => v.it.uri = v.next
    /\ item' = [item EXCEPT ![i] = v.it] /\ live' = live \cup {i}
    /\ UNCHANGED <<loop, result>>

\* A constructor queues its item, with no more than the item's budget, and hands
\* out no other item.
LEMMA NewItemSpends ==
    ASSUME IInv, NEW i \in Items, NewItem(i)
    PROVE  \E v \in Verdicts : Offered(i, v)
<1>1. TypeOK /\ Sound(acq)
  BY DEF IInv
<1>2. PICK choice \in Choice, v \in Verdicts, cached \in BOOLEAN :
         /\ v = Constructed(i, cached, acq.error) /\ Legal(v)
         /\ acq' = [Apply(acq, i, v, FALSE, choice) EXCEPT
                       !.error = @ \/ (v.next = NoURI /\ v.status = "Idle")]
         /\ item' = [item EXCEPT ![i] = v.it]
         /\ Sound(acq') /\ OwnedBy(acq, i) = {} /\ i \notin live
         /\ Turned(acq, acq', i) /\ Ruled(acq', i, v)
  BY NewItemTurns
<1>3. /\ Within(i, v.it) /\ Attempts(i, v.it) \in Int
      /\ Attempts(i, v.it) <= Attempts(i, NewState(i))
      /\ v.next # NoURI => v.it.uri = v.next
  BY <1>2, ConstructedSpends
<1>4. v.status # "Fetching"
  BY <1>2 DEF Legal
<1> DEFINE t == Apply(acq, i, v, FALSE, choice)
<1>5. t \in AcqType
  BY <1>1, <1>2, <1>4, ApplySound DEF Stays, Queued, Sound
<1>6. AtMethod(t, i, v.next) /\ Silent(acq, t, i)
  <2>1. \A b \in BOOLEAN :
           LET x == Apply(acq, i, v, b, choice) IN
           AtMethod(x, i, v.next) /\ (~b => Silent(acq, x, i))
    BY <1>1, <1>2, <1>4, ApplyPlaces
  <2> QED BY <2>1
<1>7. acq'.qitems = t.qitems /\ acq'.status = t.status
  <2> HIDE DEF t
  <2>1. acq' = [t EXCEPT !.error = @ \/ (v.next = NoURI /\ v.status = "Idle")]
    BY <1>2 DEF t
  <2> QED BY <1>5, <2>1 DEF AcqType
<1> HIDE DEF t
<1>8. AtMethod(acq', i, v.next) /\ Silent(acq, acq', i)
  BY <1>6, <1>7 DEF AtMethod, Silent, OwnedBy
<1>9. ~Running /\ live' = live \cup {i} /\ UNCHANGED <<loop, result>>
  BY DEF NewItem, Running, runVars
<1>10. Offered(i, v)
  BY <1>2, <1>3, <1>8, <1>9 DEF Offered
<1> QED BY <1>10

-----------------------------------------------------------------------------
(* Steps that map to a stutter.                                             *)

\* No item changes its place or its state.
Stuttering ==
    /\ UNCHANGED <<live, item, result>> /\ Running' = Running
    /\ \A i \in Items : acq'.status[i] = acq.status[i]
    /\ \A i \in Items : \/ OwnedBy(acq', i) = OwnedBy(acq, i)
                        \/ \E e \in acq.qitems, f \in acq'.qitems :
                              /\ OwnedBy(acq, i) = {e} /\ OwnedBy(acq', i) = {f}
                              /\ f.queue = e.queue

\* Such a step keeps RInv and changes nothing the mapping looks at.
LEMMA StutterKeeps ==
    ASSUME IInv, RInv, Sound(acq'), Stuttering
    PROVE  RInv' /\ UNCHANGED D!vars
<1>1. UNCHANGED <<live, item, result>> /\ Running' = Running /\ Sound(acq)
  BY DEF Stuttering, IInv
<1>2. RInv'
  <2>1. \A i \in Items : \A e \in OwnedBy(acq', i) :
           \E f \in OwnedBy(acq, i) : f.queue = e.queue
    BY DEF Stuttering
  <2> QED BY <1>1, <2>1, PlacesKept
<1>3. ASSUME NEW i \in Items
      PROVE  /\ PhaseOf(acq', live, i) = PhaseOf(acq, live, i)
             /\ PlaceOf(acq', live, i) = PlaceOf(acq, live, i)
  <2>1. acq'.status[i] = acq.status[i]
    BY DEF Stuttering
  <2>2. CASE OwnedBy(acq', i) = OwnedBy(acq, i)
    BY <2>1, <2>2 DEF PhaseOf, PlaceOf
  <2>3. CASE \E e \in acq.qitems, f \in acq'.qitems :
                /\ OwnedBy(acq, i) = {e} /\ OwnedBy(acq', i) = {f} /\ f.queue = e.queue
    <3>1. PICK e \in acq.qitems, f \in acq'.qitems :
             /\ OwnedBy(acq, i) = {e} /\ OwnedBy(acq', i) = {f} /\ f.queue = e.queue
      BY <2>3
    <3>2. PlaceOf(acq', live, i) = PlaceOf(acq, live, i)
      BY <1>1, <3>1, PlaceIs
    <3>3. PhaseOf(acq', live, i) = PhaseOf(acq, live, i)
      BY <2>1, <3>1 DEF PhaseOf
    <3> QED BY <3>2, <3>3
  <2> QED BY <2>2, <2>3 DEF Stuttering
<1>4. phase' = phase /\ at' = at
  <2>1. /\ [i \in Items |-> PhaseOf(acq', live', i)] = [i \in Items |-> PhaseOf(acq, live, i)]
        /\ [i \in Items |-> PlaceOf(acq', live', i)] = [i \in Items |-> PlaceOf(acq, live, i)]
    BY <1>1, <1>3
  <2> QED BY <2>1, MapIs, Zenon
<1>5. Remaining' = Remaining
  BY <1>1 DEF Remaining
<1> QED BY <1>1, <1>2, <1>4, <1>5 DEF D!vars, Remaining

\* The loop's bookkeeping, its reads and writes.
LEMMA LoopStutters ==
    ASSUME IInv, \/ Select \/ EndRound
                 \/ \E q \in Queues : InReady(q) \/ OutReady(q)
    PROVE  Stuttering
<1>1. loop \in LoopState /\ acq \in AcqType /\ Sound(acq)
  BY DEF IInv, TypeOK
<1>2. CASE Select
  <2>1. UNCHANGED <<acq, live, item, result>> /\ Running' = Running
    BY <1>1, <1>2 DEF Select, itemVars, runVars, Running, At
  <2> QED BY <2>1 DEF Stuttering
<1>3. CASE EndRound
  <2>1. UNCHANGED <<acq, live, item, result>> /\ Running' = Running
    BY <1>1, <1>3 DEF EndRound, RoundOver, itemVars, runVars, Running, At, LoopState
  <2> QED BY <2>1 DEF Stuttering
<1>4. ASSUME NEW q \in Queues, InReady(q) \/ OutReady(q)
      PROVE  Stuttering
  <2>1. acq'.qitems = acq.qitems /\ acq'.status = acq.status
    <3>1. \A k : [acq EXCEPT !.out[q] = SubSeq(@, k + 1, Len(@))].qitems = acq.qitems
                 /\ [acq EXCEPT !.out[q] = SubSeq(@, k + 1, Len(@))].status = acq.status
      BY <1>1 DEF AcqType
    <3>2. MethodFailure(acq, q).qitems = acq.qitems /\ MethodFailure(acq, q).status = acq.status
      BY <1>1, MethodFailureAlike DEF Alike
    <3> QED
      BY <1>4, <3>1, <3>2 DEF InReady, OutReady
  <2>2. UNCHANGED <<live, item, result>> /\ (loop' = Ticked(q, "in") \/ loop' = Ticked(q, "out"))
    BY <1>4 DEF InReady, OutReady, itemVars, runVars
  <2>3. loop'.pc = loop.pc
    BY <1>1, <2>2 DEF Ticked, LoopState
  <2>4. Running' = Running
    BY <2>3 DEF Running, At
  <2>5. \A i \in Items : OwnedBy(acq', i) = OwnedBy(acq, i)
    BY <2>1 DEF OwnedBy
  <2> QED BY <2>1, <2>2, <2>4, <2>5 DEF Stuttering
<1> QED BY <1>2, <1>3, <1>4

\* The children's steps, and a stutter of the scheduler.
LEMMA ChildStutters ==
    ASSUME \/ UNCHANGED vars
           \/ \E q \in Queues : MethodStep(q) \/ SendStart(q) \/ Redirect(q) \/ Die(q)
    PROVE  Stuttering
<1>1. UNCHANGED <<acq, live, item, result, loop>>
  BY DEF MethodStep, Receive, Answered, SendStart, Redirect, Die, otherVars, itemVars,
         runVars, vars
<1> QED BY <1>1 DEF Stuttering, Running, At

\* 103 Redirect gives a QItem another URI, in its place.
LEMMA RedirectedStutters ==
    ASSUME IInv, NEW q \in Queues, Redirected(q)
    PROVE  Stuttering
<1>1. Sound(acq) /\ acq \in AcqType
  BY DEF IInv, Sound
<1>2. UNCHANGED <<live, item, result, loop>>
  BY DEF Redirected, Handling, runVars
<1>3. PICK e \in Hit(q) :
         LET f == [e EXCEPT !.uri = Head(msgs[q]).arg] IN
         acq' = [acq EXCEPT !.qitems = (@ \ {e}) \cup {f}, !.mine = (@ \ {e}) \cup {f}]
  BY DEF Redirected
<1> DEFINE f == [e EXCEPT !.uri = Head(msgs[q]).arg]
<1>4. e \in acq.qitems /\ e \in QItem
  BY <1>1, HitType DEF AcqType
<1>5. f.queue = e.queue /\ f.owner = e.owner
  BY <1>4 DEF QItem
<1>6. acq'.status = acq.status /\ acq'.qitems = (acq.qitems \ {e}) \cup {f}
  BY <1>1, <1>3 DEF AcqType
<1> HIDE DEF f
<1>7. \A g \in acq.qitems : g.owner = e.owner => g = e
  BY <1>1, <1>4, OwnerKey
<1>8. ASSUME NEW i \in Items
      PROVE  \/ OwnedBy(acq', i) = OwnedBy(acq, i)
             \/ OwnedBy(acq, i) = {e} /\ OwnedBy(acq', i) = {f}
  <2>1. CASE i = e.owner
    BY <1>4, <1>5, <1>6, <1>7, <2>1 DEF OwnedBy
  <2>2. CASE i # e.owner
    BY <1>4, <1>5, <1>6, <2>2 DEF OwnedBy
  <2> QED BY <2>1, <2>2
<1>9. f \in acq'.qitems
  BY <1>6
<1> QED BY <1>2, <1>4, <1>5, <1>6, <1>8, <1>9 DEF Stuttering, Running, At

\* 200 URI Start: the QItem it finds is being fetched already.
LEMMA StartStutters ==
    ASSUME IInv, CInv, NEW q \in Queues, URIStart(q), TypeOK'
    PROVE  Stuttering
<1>1. TypeOK /\ Sound(acq) /\ Chan \in Channels /\ Tracked(acq, Chan) /\ Chan' \in Channels
  BY CInvIs, ChanTypeNext DEF IInv
<1>2. Handling(q, 200)
  BY DEF URIStart
<1>3. /\ Shorter(Chan, Chan', q) /\ Chan.r[q] # <<>> /\ Head(Chan.r[q]) = Head(msgs[q])
      /\ Head(msgs[q]).code = 200 /\ Hit(q) = FindItem(acq, q, Head(Chan.r[q]).uri)
  BY <1>1, <1>2, HandlingShortens
<1>4. PICK e \in Hit(q) : acq' = [acq EXCEPT !.status[e.owner] = "Fetching"]
  BY DEF URIStart
<1>5. acq' = acq
  BY <1>1, <1>3, <1>4, StartTracked
<1>6. UNCHANGED <<live, item, result, loop>>
  BY <1>2 DEF Handling, URIStart, runVars
<1> QED BY <1>5, <1>6 DEF Stuttering, Running, At

-----------------------------------------------------------------------------
(* Steps that map to a step of the downloader.                              *)

\* Every queue is worked on within its limit.
AllDeep(s) == \A q \in Queues : Deep(s, q)

\* Then so is what it is mapped to.
LEMMA WindowNext == ASSUME Sound(acq'), AllDeep(acq') PROVE D!Window
<1>1. ASSUME NEW q \in Queues
      PROVE  Cardinality({i \in Items : at'[i] = q /\ phase'[i] = "active"}) <= Limit(q)
  <2>1. {i \in Items : at'[i] = q /\ phase'[i] = "active"} =
        {i \in Items : /\ PlaceOf(acq', live', i) = q
                       /\ PhaseOf(acq', live', i) = "active"}
    <3>1. \A i \in Items : /\ at'[i] = PlaceOf(acq', live', i)
                           /\ phase'[i] = PhaseOf(acq', live', i)
      BY MapIs
    <3> QED BY <3>1
  <2>2. \A s : Sound(s) /\ Deep(s, q) =>
           \A L : Cardinality({i \in Items : /\ PlaceOf(s, L, i) = q
                                             /\ PhaseOf(s, L, i) = "active"}) <= Limit(q)
    BY ActiveFit
  <2>3. Deep(acq', q)
    BY DEF AllDeep
  <2> QED BY <2>1, <2>2, <2>3
<1>2. \A q \in Queues :
         [p \in Queues |-> IF Method[p[1]].pipeline THEN PipeLimit ELSE 1][q] = Limit(q)
  BY DEF Limit
<1>3. \A q \in Queues :
         Cardinality({i \in Items : at'[i] = q /\ phase'[i] = "active"})
         <= [p \in Queues |-> IF Method[p[1]].pipeline THEN PipeLimit ELSE 1][q]
  <2> TAKE q \in Queues
  <2>1. Cardinality({i \in Items : at'[i] = q /\ phase'[i] = "active"}) <= Limit(q)
    BY <1>1
  <2> QED BY <1>2, <2>1, Zenon
<1>4. \A S : D!Cardinality(S) = Cardinality(S)
  BY Zenon DEF D!Cardinality, Cardinality
<1> QED BY <1>3, <1>4, Zenon DEF D!Window

\* What happens to the items other than i, if one of them may be handed out.
LEMMA OthersMap ==
    ASSUME Sound(acq), QueuedIsOpen, NEW i \in Items, Turned(acq, acq', i),
           live' \cup {i} = live \cup {i}, NEW j \in Items, j # i
    PROVE  /\ PlaceOf(acq', live', j) = PlaceOf(acq, live, j)
           /\ \/ PhaseOf(acq', live', j) = PhaseOf(acq, live, j)
              \/ PhaseOf(acq, live, j) = "waiting" /\ PhaseOf(acq', live', j) = "active"
           /\ acq'.status[j] = acq.status[j] => PhaseOf(acq', live', j) = PhaseOf(acq, live, j)
<1>1. OwnedBy(acq', j) = OwnedBy(acq, j) /\ (j \in live' <=> j \in live)
  BY DEF Turned
<1>2. PlaceOf(acq', live', j) = PlaceOf(acq, live, j)
  BY <1>1 DEF PlaceOf
<1>3. \/ acq'.status[j] = acq.status[j]
      \/ /\ acq.status[j] = "Idle" /\ acq'.status[j] = "Fetching"
         /\ OwnedBy(acq, j) # {}
  BY DEF Turned
<1>4. OwnedBy(acq, j) # {} => j \in live
  BY DEF QueuedIsOpen, OwnedBy
<1>5. acq'.status[j] = acq.status[j] => PhaseOf(acq', live', j) = PhaseOf(acq, live, j)
  BY <1>1 DEF PhaseOf
<1>6. \/ PhaseOf(acq', live', j) = PhaseOf(acq, live, j)
      \/ PhaseOf(acq, live, j) = "waiting" /\ PhaseOf(acq', live', j) = "active"
  <2>1. CASE acq.status[j] = "Idle" /\ acq'.status[j] = "Fetching" /\ OwnedBy(acq, j) # {}
    BY <1>1, <1>4, <2>1 DEF PhaseOf
  <2> QED BY <1>3, <1>5, <2>1
<1> QED BY <1>2, <1>5, <1>6

\* Queue::Startup hands out waiting items.
LEMMA StartQueueFeeds ==
    ASSUME IInv, RInv, NEW q \in Queues, StartQueue(q), AllDeep(acq')
    PROVE  RInv' /\ D!Feed
<1>1. Sound(acq) /\ QueuedIsOpen /\ loop \in LoopState
  BY DEF IInv, TypeOK
<1>2. PICK ok \in StartOK : acq' = Startup(acq, q, ok)
  BY DEF StartQueue
<1>3. Fed(acq, acq')
  BY <1>1, <1>2, QueueAssumption, StartupFeeds
<1>4. UNCHANGED <<live, item, result>> /\ Running /\ Running'
  BY <1>1 DEF StartQueue, Ticked, LoopState, Running, At, itemVars, runVars
<1>5. Sound(acq') /\ \A i \in Items : OwnedBy(acq', i) = OwnedBy(acq, i)
  BY <1>3 DEF Fed
<1>6. RInv'
  BY <1>4, <1>5, PlacesKept
<1>7. D!Window
  BY <1>5, WindowNext
<1>8. ASSUME NEW i \in Items
      PROVE  /\ PlaceOf(acq', live', i) = PlaceOf(acq, live, i)
             /\ \/ PhaseOf(acq', live', i) = PhaseOf(acq, live, i)
                \/ PhaseOf(acq, live, i) = "waiting" /\ PhaseOf(acq', live', i) = "active"
  <2>1. PlaceOf(acq', live', i) = PlaceOf(acq, live, i)
    <3>1. OwnedBy(acq', i) = OwnedBy(acq, i) /\ (i \in live' <=> i \in live)
      BY <1>4, <1>5
    <3> QED BY <3>1 DEF PlaceOf
  <2>2. \/ acq'.status[i] = acq.status[i]
        \/ /\ acq.status[i] = "Idle" /\ acq'.status[i] = "Fetching"
           /\ OwnedBy(acq, i) # {}
    BY <1>3 DEF Fed, Handed
  <2>3. OwnedBy(acq, i) # {} => i \in live
    BY <1>1 DEF QueuedIsOpen, OwnedBy
  <2> QED BY <1>4, <1>5, <2>1, <2>2, <2>3 DEF PhaseOf
<1>9. D!Feeding({})
  <2>1. ASSUME NEW i \in Items
        PROVE  /\ at'[i] = at[i] /\ Remaining'[i] = Remaining[i]
               /\ phase'[i] = phase[i] \/ (phase[i] = "waiting" /\ phase'[i] = "active")
    <3>1. /\ phase[i] = PhaseOf(acq, live, i) /\ phase'[i] = PhaseOf(acq', live', i)
          /\ at[i] = PlaceOf(acq, live, i) /\ at'[i] = PlaceOf(acq', live', i)
      BY MapIs
    <3>2. Remaining'[i] = Remaining[i]
      BY <1>4 DEF Remaining
    <3> QED BY <1>8, <3>1, <3>2
  <2> QED BY <2>1 DEF D!Feeding, Remaining
<1> QED BY <1>4, <1>6, <1>7, <1>9 DEF D!Feed

\* pkgAcquire::Run begins.
LEMMA RunBegins == ASSUME RInv, Run PROVE RInv' /\ D!Begin
<1>1. UNCHANGED <<acq, live, item>> /\ ~Running /\ Running' /\ result' = "none"
  BY DEF Run, Running, At, itemVars
<1>2. RInv'
  BY <1>1, PlacesKept
<1>3. phase' = phase /\ at' = at
  BY <1>1, MapIs, Zenon
<1>4. Remaining' = Remaining
  BY <1>1 DEF Remaining
<1> QED BY <1>1, <1>2, <1>3, <1>4 DEF D!Begin, Remaining

\* What the mapping makes of an item, now and next.
LEMMA MapAt ==
    ASSUME NEW i \in Items
    PROVE  /\ phase[i] = PhaseOf(acq, live, i) /\ phase'[i] = PhaseOf(acq', live', i)
           /\ at[i] = PlaceOf(acq, live, i) /\ at'[i] = PlaceOf(acq', live', i)
           /\ Remaining[i] = Attempts(i, item[i]) /\ Remaining'[i] = Attempts(i, item'[i])
BY MapIs DEF Remaining

\* A verdict that queues its item leaves it waiting or active, any other settled.
LEMMA RuledPhase ==
    ASSUME NEW i \in live', NEW v, Ruled(acq', i, v)
    PROVE  \/ PhaseOf(acq', live', i) = "settled"
           \/ PhaseOf(acq', live', i) \in {"waiting", "active"} /\ v.next # NoURI
BY DEF Ruled, PhaseOf

\* Constructing an item offers it.
LEMMA OfferedOffers ==
    ASSUME IInv, RInv, AllDeep(acq'), NEW i \in Items, NEW v, Offered(i, v)
    PROVE  RInv' /\ D!Offer(i)
<1>1. /\ TypeOK /\ Sound(acq) /\ QueuedIsOpen /\ Sound(acq')
      /\ i \notin live /\ ~Running /\ live' = live \cup {i} /\ UNCHANGED <<loop, result>>
      /\ Turned(acq, acq', i) /\ Silent(acq, acq', i) /\ Ruled(acq', i, v)
      /\ AtMethod(acq', i, v.next) /\ Within(i, v.it)
      /\ Attempts(i, v.it) <= Attempts(i, NewState(i))
      /\ v.next # NoURI => v.it.uri = v.next
      /\ item' = [item EXCEPT ![i] = v.it]
  BY DEF Offered, IInv
<1>2. RInv'
  <2>1. OwnedBy(acq', i) # {} => AtMethod(acq', i, v.it.uri)
    BY <1>1 DEF Ruled
  <2> QED BY <1>1, <2>1, PlacesTurned
<1>3. D!Window
  BY <1>1, WindowNext
<1>4. item'[i] = v.it /\ \A j \in Items \ {i} : item'[j] = item[j]
  BY <1>1 DEF TypeOK
<1>5. /\ phase[i] = "absent" /\ phase'[i] # "absent"
      /\ at'[i] \in Queues <=> phase'[i] \in {"waiting", "active"}
      /\ Remaining'[i] <= [j \in Items |-> Attempts(j, NewState(j))][i]
  <2>1. PhaseOf(acq, live, i) = "absent"
    BY <1>1 DEF PhaseOf
  <2>2. i \in live'
    BY <1>1
  <2>3. PhaseOf(acq', live', i) # "absent"
    BY <2>2 DEF PhaseOf
  <2>4. PlaceOf(acq', live', i) \in Queues <=> PhaseOf(acq', live', i) \in {"waiting", "active"}
    <3>1. \A L : PlaceOf(acq', L, i) \in Queues <=> PhaseOf(acq', L, i) \in {"waiting", "active"}
      BY <1>1, PlacedIs
    <3> QED BY <3>1
  <2>5. Remaining'[i] = Attempts(i, v.it)
    BY <1>4, MapAt
  <2> QED BY <1>1, <2>1, <2>3, <2>4, <2>5, MapAt
<1>6. ASSUME NEW j \in Items \ {i}
      PROVE  phase'[j] = phase[j] /\ at'[j] = at[j] /\ Remaining'[j] = Remaining[j]
  <2>1. /\ PlaceOf(acq', live', j) = PlaceOf(acq, live, j)
        /\ acq'.status[j] = acq.status[j] => PhaseOf(acq', live', j) = PhaseOf(acq, live, j)
    BY <1>1, OthersMap
  <2>2. acq'.status[j] = acq.status[j]
    BY <1>1 DEF Silent
  <2> QED BY <1>4, <2>1, <2>2, MapAt
<1>7. UNCHANGED <<Running, result>>
  BY <1>1 DEF Running, At
<1> QED BY <1>1, <1>2, <1>3, <1>5, <1>6, <1>7 DEF D!Offer, D!Same, D!Placed, D!Open, Remaining

\* The handler of a final reply concludes an attempt.
LEMMA CarriedConcludes ==
    ASSUME IInv, RInv, AllDeep(acq'), NEW i \in live, NEW v, Carried(i, v)
    PROVE  RInv' /\ D!Conclude(i)
<1>1. /\ TypeOK /\ Sound(acq) /\ QueuedIsOpen /\ Sound(acq') /\ i \in Items
      /\ OwnedBy(acq, i) # {} /\ acq.status[i] = "Fetching" /\ Running
      /\ Turned(acq, acq', i) /\ Ruled(acq', i, v)
      /\ AtMethod(acq', i, v.next) /\ Spends(i, item[i], v)
      /\ item' = [item EXCEPT ![i] = v.it] /\ UNCHANGED <<live, loop, result>>
  BY DEF Carried, IInv, TypeOK
<1>2. RInv'
  <2>1. OwnedBy(acq', i) # {} => AtMethod(acq', i, v.it.uri)
    BY <1>1 DEF Ruled, Spends
  <2>2. Within(i, v.it)
    BY <1>1 DEF Spends
  <2> QED BY <1>1, <2>1, <2>2, PlacesTurned
<1>3. D!Window
  BY <1>1, WindowNext
<1>4. item'[i] = v.it /\ \A j \in Items \ {i} : item'[j] = item[j]
  BY <1>1 DEF TypeOK
<1>5. phase[i] = "active"
  <2>1. PhaseOf(acq, live, i) = "active"
    BY <1>1 DEF PhaseOf
  <2> QED BY <1>1, <2>1, MapAt
<1>6. at'[i] \in Queues <=> phase'[i] \in {"waiting", "active"}
  <2>1. \A L : PlaceOf(acq', L, i) \in Queues <=> PhaseOf(acq', L, i) \in {"waiting", "active"}
    BY <1>1, PlacedIs
  <2> QED BY <1>1, <2>1, MapAt
<1>7. \/ phase'[i] = "settled" /\ Remaining'[i] <= Remaining[i]
      \/ phase'[i] \in {"waiting", "active"} /\ Remaining'[i] < Remaining[i]
  <2>1. Remaining'[i] = Attempts(i, v.it) /\ Remaining[i] = Attempts(i, item[i])
    BY <1>1, <1>4, MapAt
  <2>2. \/ PhaseOf(acq', live', i) = "settled"
        \/ PhaseOf(acq', live', i) \in {"waiting", "active"} /\ v.next # NoURI
    BY <1>1, RuledPhase
  <2> QED BY <1>1, <2>1, <2>2, MapAt DEF Spends
<1>8. ASSUME NEW j \in Items \ {i}
      PROVE  /\ at'[j] = at[j] /\ Remaining'[j] = Remaining[j]
             /\ phase'[j] = phase[j] \/ (phase[j] = "waiting" /\ phase'[j] = "active")
  <2>1. /\ PlaceOf(acq', live', j) = PlaceOf(acq, live, j)
        /\ \/ PhaseOf(acq', live', j) = PhaseOf(acq, live, j)
           \/ PhaseOf(acq, live, j) = "waiting" /\ PhaseOf(acq', live', j) = "active"
    BY <1>1, OthersMap
  <2> QED BY <1>4, <2>1, MapAt
<1>9. UNCHANGED <<Running, result>>
  BY <1>1 DEF Running, At
<1> QED BY <1>1, <1>2, <1>3, <1>5, <1>6, <1>7, <1>8, <1>9
        DEF D!Conclude, D!Feeding, D!Placed, D!Open, Remaining

\* What stays of an item that is left alone.
LEMMA SameMap ==
    ASSUME NEW j \in Items, OwnedBy(acq', j) = OwnedBy(acq, j),
           acq'.status[j] = acq.status[j], j \in live' <=> j \in live
    PROVE  phase'[j] = phase[j] /\ at'[j] = at[j]
<1>1. /\ PhaseOf(acq', live', j) = PhaseOf(acq, live, j)
      /\ PlaceOf(acq', live', j) = PlaceOf(acq, live, j)
  BY DEF PhaseOf, PlaceOf
<1> QED BY <1>1, MapAt

\* Deleting an item withdraws it.
LEMMA DropItemWithdraws ==
    ASSUME IInv, RInv, NEW i \in Items, DropItem(i)
    PROVE  RInv' /\ D!Withdraw(i)
<1>1. /\ TypeOK /\ Sound(acq) /\ acq' = Dequeue(acq, i) /\ acq.status[i] # "Fetching"
      /\ i \in live /\ live' = live \ {i} /\ UNCHANGED <<item, loop, result>> /\ ~Running
  BY DEF IInv, DropItem, Running, runVars
<1>2. /\ Sound(acq') /\ acq'.status = acq.status
      /\ \/ /\ OwnedBy(acq, i) = {} /\ acq'.qitems = acq.qitems
            /\ acq'.toFetch = acq.toFetch
         \/ /\ Left(acq, acq', i) /\ OwnedBy(acq', i) = {}
            /\ acq'.toFetch = acq.toFetch - 1
  BY <1>1, DequeueSound
<1>3. /\ acq'.qitems \subseteq acq.qitems
      /\ \A j \in Items \ {i} : OwnedBy(acq', j) = OwnedBy(acq, j)
  BY <1>2 DEF Left, OwnedBy
<1>4. RInv'
  <2>1. \A j \in Items : \A e \in OwnedBy(acq', j) :
           \E f \in OwnedBy(acq, j) : f.queue = e.queue
    BY <1>3 DEF OwnedBy
  <2> QED BY <1>1, <2>1, PlacesKept
<1>5. phase[i] \in {"waiting", "settled"} /\ phase'[i] = "absent" /\ at'[i] = NoQueue
  <2>1. PhaseOf(acq, live, i) \in {"waiting", "settled"}
    BY <1>1 DEF PhaseOf
  <2>2. PhaseOf(acq', live', i) = "absent" /\ PlaceOf(acq', live', i) = NoQueue
    BY <1>1 DEF PhaseOf, PlaceOf
  <2> QED BY <2>1, <2>2, MapAt
<1>6. \A j \in Items \ {i} : phase'[j] = phase[j] /\ at'[j] = at[j]
  BY <1>1, <1>2, <1>3, SameMap
<1>7. phase' = [phase EXCEPT ![i] = "absent"] /\ at' = [at EXCEPT ![i] = NoQueue]
  <2> DEFINE f == [j \in Items |-> PhaseOf(acq, live, j)]
             g == [j \in Items |-> PhaseOf(acq', live', j)]
             h == [j \in Items |-> PlaceOf(acq, live, j)]
             k == [j \in Items |-> PlaceOf(acq', live', j)]
  <2>1. phase = f /\ phase' = g /\ at = h /\ at' = k
    BY MapIs
  <2>2. \A j \in Items : /\ g[j] = IF j = i THEN "absent" ELSE f[j]
                         /\ k[j] = IF j = i THEN NoQueue ELSE h[j]
    BY <1>5, <1>6, <2>1
  <2>3. g = [f EXCEPT ![i] = "absent"]
    BY <2>2
  <2>4. k = [h EXCEPT ![i] = NoQueue]
    BY <2>2
  <2> HIDE DEF f, g, h, k
  <2> QED BY <2>1, <2>3, <2>4
<1>8. Remaining' = Remaining
  BY <1>1 DEF Remaining
<1>9. UNCHANGED <<Running, result>>
  BY <1>1 DEF Running, At
<1> QED BY <1>1, <1>4, <1>5, <1>7, <1>8, <1>9 DEF D!Withdraw, Remaining

\* pkgAcquire::Shutdown abandons every item.
LEMMA ShutdownAbandons == ASSUME IInv, RInv, Shutdown PROVE RInv' /\ D!Abandon
<1>1. /\ live' = {} /\ UNCHANGED <<item, loop, result>> /\ ~Running
  BY DEF Shutdown, Running, runVars
<1>2. acq'.qitems = {}
  <2>1. live \in SUBSET Items /\ Sound(acq) /\ acq' = ObjectShutdown(acq, live)
    BY DEF IInv, TypeOK, Shutdown
  <2>2. /\ \A e \in acq.qitems : e.owner \in live
        /\ \A i \in live : acq.status[i] = "Fetching" => OwnedBy(acq, i) # {}
    BY DEF IInv, QueuedIsOpen
  <2> QED BY <2>1, <2>2, ObjectShutdownSound
<1>3. RInv'
  <2>1. \A j \in Items : \A e \in OwnedBy(acq', j) :
           \E f \in OwnedBy(acq, j) : f.queue = e.queue
    BY <1>2 DEF OwnedBy
  <2> QED BY <1>1, <2>1, PlacesKept
<1>4. phase' = [i \in Items |-> "absent"] /\ at' = [i \in Items |-> NoQueue]
  <2>1. \A i \in Items : /\ PhaseOf(acq', live', i) = "absent"
                         /\ PlaceOf(acq', live', i) = NoQueue
    BY <1>1 DEF PhaseOf, PlaceOf
  <2> QED BY <2>1, MapIs
<1>5. Remaining' = Remaining
  BY <1>1 DEF Remaining
<1>6. UNCHANGED <<Running, result>>
  BY <1>1 DEF Running, At
<1> QED BY <1>1, <1>3, <1>4, <1>5, <1>6 DEF D!Abandon, Remaining

\* Finished touches the StoreFilename alone.
LEMMA FinishedSpendsNothing ==
    ASSUME NEW i \in Items, NEW it \in ItemState, NEW st
    PROVE  LET x == Finished(i, it, st) IN
           x.uri = it.uri /\ Attempts(i, x) = Attempts(i, it) /\ (Within(i, it) => Within(i, x))
<1>1. LET x == Finished(i, it, st) IN
      /\ x.uri = it.uri /\ x.vf = it.vf /\ x.retries = it.retries /\ x.second = it.second
  BY DEF Finished, ItemState
<1> QED BY <1>1, Zenon DEF Attempts, Within

\* Leaving Run ends it, with Continue only if nothing is queued.
LEMMA LeaveEnds ==
    ASSUME IInv, RInv, Running, NEW res \in {"Continue", "Failed", "Cancelled"}, Leave(res),
           res = "Continue" => acq.qitems = {}
    PROVE  RInv' /\ D!End
<1>1. TypeOK /\ acq'.qitems = acq.qitems /\ acq'.status = acq.status
  BY LeaveKeeps DEF IInv
<1>2. /\ item' = [i \in Items |-> IF i \in live THEN Finished(i, item[i], acq.status[i])
                                                ELSE item[i]]
      /\ result' = IF acq.error THEN "Failed" ELSE res
      /\ loop' = [pc |-> "idle", todo |-> {}] /\ live' = live
  BY DEF Leave
<1>3. ASSUME NEW i \in Items
      PROVE  /\ OwnedBy(acq', i) = OwnedBy(acq, i) /\ item'[i].uri = item[i].uri
             /\ Attempts(i, item'[i]) = Attempts(i, item[i])
             /\ Within(i, item[i]) => Within(i, item'[i])
  <2>1. item[i] \in ItemState
    BY <1>1 DEF TypeOK
  <2>2. OwnedBy(acq', i) = OwnedBy(acq, i)
    BY <1>1 DEF OwnedBy
  <2>3. CASE i \in live
    <3>1. item'[i] = Finished(i, item[i], acq.status[i])
      BY <1>2, <2>3
    <3>2. LET x == Finished(i, item[i], acq.status[i]) IN
          /\ x.uri = item[i].uri /\ Attempts(i, x) = Attempts(i, item[i])
          /\ Within(i, item[i]) => Within(i, x)
      BY <2>1, FinishedSpendsNothing
    <3> QED BY <2>2, <3>1, <3>2
  <2>4. CASE i \notin live
    BY <1>2, <2>2, <2>4
  <2> QED BY <2>3, <2>4
<1>4. RInv'
  BY <1>3 DEF RInv, Accessed, Walks, AtMethod
<1>5. /\ phase' = phase /\ at' = at /\ Remaining' = Remaining
  <2>1. \A i \in Items : /\ PhaseOf(acq', live', i) = PhaseOf(acq, live, i)
                         /\ PlaceOf(acq', live', i) = PlaceOf(acq, live, i)
    <3> TAKE i \in Items
    <3>1. /\ OwnedBy(acq', i) = OwnedBy(acq, i) /\ acq'.status[i] = acq.status[i]
          /\ i \in live' <=> i \in live
      BY <1>1, <1>2, <1>3
    <3> QED BY <3>1 DEF PhaseOf, PlaceOf
  <2>2. phase' = phase /\ at' = at
    BY <2>1, MapIs
  <2>3. Remaining' = Remaining
    BY <1>3 DEF Remaining
  <2> QED BY <2>2, <2>3
<1>6. ~Running'
  BY <1>2 DEF Running, At
<1>7. ASSUME result' = "Continue", NEW i \in Items
      PROVE  phase[i] \notin {"waiting", "active"}
  <2>1. acq.qitems = {}
    BY <1>2, <1>7
  <2>2. PhaseOf(acq, live, i) \in {"absent", "settled"}
    BY <2>1 DEF PhaseOf, OwnedBy
  <2> QED BY <2>2, MapAt
<1>8. result' \in {"Continue", "Failed", "Cancelled"}
  BY <1>2
<1> QED BY <1>4, <1>5, <1>6, <1>7, <1>8 DEF D!End, D!Open, Remaining

\* The three ways out of Run: with Continue, ToFetch is 0 and nothing is queued.
LEMMA LeavingEnds ==
    ASSUME IInv, RInv, Break \/ Cancel \/ Fetched
    PROVE  RInv' /\ D!End
<1>1. CASE Break \/ Cancel
  <2>1. Running
    BY <1>1 DEF Break, Cancel, RoundOver, Running, At
  <2>2. Leave("Failed") \/ Leave("Cancelled")
    BY <1>1 DEF Break, Cancel
  <2> QED BY <2>1, <2>2, LeaveEnds
<1>2. CASE Fetched
  <2>1. Running /\ acq.toFetch = 0 /\ Leave("Continue")
    BY <1>2 DEF Fetched, Running, At
  <2>2. acq.qitems = {}
    <3>1. /\ IsFiniteSet(acq.qitems) /\ acq.toFetch = Cardinality(acq.qitems) + leaked
          /\ leaked \in Nat
      BY DEF IInv, Sound, Counted, TypeOK
    <3>2. Cardinality(acq.qitems) \in Nat
      BY <3>1, FS_CardinalityType
    <3>3. Cardinality(acq.qitems) = 0
      BY <2>1, <3>1, <3>2
    <3> QED BY <3>1, <3>3, FS_EmptySet
  <2> QED BY <2>1, <2>2, LeaveEnds
<1> QED BY <1>1, <1>2

-----------------------------------------------------------------------------
(* The refinement.                                                          *)

\* A new pkgAcquire is a new downloader.
LEMMA InitMaps == ASSUME Init PROVE RInv /\ D!Init
<1>1. /\ acq = NewAcquire /\ item = [i \in Items |-> NewState(i)] /\ live = {}
      /\ loop = [pc |-> "idle", todo |-> {}] /\ result = "none"
  BY DEF Init
<1>2. acq.qitems = {}
  BY <1>1 DEF NewAcquire
<1>3. RInv
  <2>1. Accessed
    BY <1>2 DEF Accessed, AtMethod, OwnedBy
  <2>2. Walks
    BY <1>1, ConstructedSpends DEF Walks
  <2> QED BY <2>1, <2>2 DEF RInv
<1>4. phase = [i \in Items |-> "absent"] /\ at = [i \in Items |-> NoQueue]
  <2>1. \A i \in Items : PhaseOf(acq, live, i) = "absent" /\ PlaceOf(acq, live, i) = NoQueue
    BY <1>1 DEF PhaseOf, PlaceOf
  <2> QED BY <2>1, MapIs
<1>5. Remaining = [i \in Items |-> Attempts(i, NewState(i))]
  BY <1>1 DEF Remaining
<1>6. Running = FALSE
  BY <1>1 DEF Running, At
<1> QED BY <1>1, <1>3, <1>4, <1>5, <1>6 DEF D!Init, Remaining

\* One step per action: RInv is inductive next to IInv and CInv, and the step is
\* one of the downloader or a stutter.
LEMMA NextMaps ==
    ASSUME OwnURIs, CopyInPlace, IInv, CInv, RInv, [Next]_vars
    PROVE  RInv' /\ [D!Next]_(D!vars)
<1>1. IInv' /\ CInv' /\ TypeOK' /\ Sound(acq')
  BY NextKeeps, ChannelsNext DEF IInv
<1>2. AllDeep(acq')
  BY <1>1 DEF CInv, Tracked, Tracks, AllDeep
<1>3. CASE Run
  BY <1>3, RunBegins DEF D!Next
<1>4. CASE Shutdown
  BY <1>4, ShutdownAbandons DEF D!Next
<1>5. ASSUME NEW i \in Items, NewItem(i)
      PROVE  RInv' /\ D!Next
  <2>1. PICK v \in Verdicts : Offered(i, v)
    BY <1>5, NewItemSpends
  <2>2. RInv' /\ D!Offer(i)
    BY <1>2, <2>1, OfferedOffers
  <2> QED BY <2>2 DEF D!Next
<1>6. ASSUME NEW i \in Items, DropItem(i)
      PROVE  RInv' /\ D!Next
  BY <1>6, DropItemWithdraws DEF D!Next
<1>7. ASSUME NEW q \in Queues, StartQueue(q)
      PROVE  RInv' /\ D!Next
  BY <1>2, <1>7, StartQueueFeeds DEF D!Next
<1>8. CASE Break \/ Cancel \/ Fetched
  BY <1>8, LeavingEnds DEF D!Next
<1>9. ASSUME NEW q \in Queues, URIDone(q) \/ URIFailure(q)
      PROVE  RInv' /\ D!Next
  <2>1. PICK i \in live, v \in Verdicts : Carried(i, v)
    BY <1>9, FinalSpends
  <2>2. RInv' /\ D!Conclude(i)
    BY <1>2, <2>1, CarriedConcludes
  <2>3. i \in Items
    BY DEF IInv, TypeOK
  <2> QED BY <2>2, <2>3 DEF D!Next
<1>10. ASSUME \/ Select \/ EndRound \/ UNCHANGED vars
              \/ \E q \in Queues : \/ InReady(q) \/ OutReady(q)
                                   \/ Redirected(q) \/ URIStart(q)
                                   \/ MethodStep(q) \/ SendStart(q) \/ Redirect(q) \/ Die(q)
       PROVE  RInv' /\ UNCHANGED D!vars
  <2>1. Stuttering
    BY <1>1, <1>10, LoopStutters, ChildStutters, RedirectedStutters, StartStutters
  <2> QED BY <1>1, <2>1, StutterKeeps
<1> QED
  BY <1>3, <1>4, <1>5, <1>6, <1>7, <1>8, <1>9, <1>10 DEF Next, LoopStep, RunMessage

\* Whatever the items, queues and methods, if the URIs in flight are the items' own
\* (OwnURIs) and files are copied in place (CopyInPlace), pkgAcquire is a downloader:
\* no queue is worked on beyond its pipeline, an item's attempts are bounded by its
\* sources, retries and stages, what settled is left alone, and Continue means that
\* nothing is waiting or being fetched.
THEOREM DownloaderImplemented ==
    ASSUME OwnURIs, CopyInPlace PROVE Spec => ImplementsDownloader
<1>1. Init => RInv /\ D!Init
  BY InitMaps
<1>2. IInv /\ CInv /\ RInv /\ [Next]_vars => RInv' /\ [D!Next]_(D!vars)
  BY NextMaps
<1>3. Spec => []IInv
  BY Invariance
<1>4. Spec => []CInv
  BY ChannelsInvariance
<1>5. ImplementsDownloader <=> D!Init /\ [][D!Next]_(D!vars)
  BY DEF ImplementsDownloader, D!Spec
<1> QED
  BY <1>1, <1>2, <1>3, <1>4, <1>5, PTL DEF Spec
=============================================================================
