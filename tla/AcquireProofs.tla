----------------------------- MODULE AcquireProofs -----------------------------
(***************************************************************************)
(* Theorems of the scheduler, for every value of the constants: its types, *)
(* what is queued is open, ToFetch counts the queued items, and a Run that *)
(* returns Continue leaves nothing behind.                                 *)
(*                                                                         *)
(* None of them is inductive.  IInv adds what they rest on: QItems are     *)
(* keyed by queue and position and an item has at most one (Sound), owners *)
(* of QItems exist, and an archive that is complete is out of the queues   *)
(* with its StoreFilename.  First come the lemmas about what the handlers  *)
(* of AcquireItem and the operators of AcquireQueues preserve.             *)
(***************************************************************************)
EXTENDS Acquire, TLAPS, FiniteSetTheorems, FunctionTheorems, SequenceTheorems

-----------------------------------------------------------------------------
(* What the item handlers of AcquireItem decide: their verdicts are         *)
(* verdicts, never leave Status Fetching, and never lose or resurrect an    *)
(* archive that is complete.                                                *)

\* A verdict every handler keeps to: only pkgAcquire itself sets StatFetching.
Legal(v) == v \in Verdicts /\ v.status # "Fetching"

\* An archive's verdict: what is complete after the handler is not queued again
\* and, when Done, has its StoreFilename.
KeepsArchive(v) ==
    v.it.complete => v.next = NoURI /\ (v.status = "Done" => v.it.store)

\* The sources of an item are URIs, and all but archives have one.
LEMMA SourcesType ==
    ASSUME NEW i \in Items
    PROVE  /\ Conf[i].sources \in Seq(URI) /\ Conf[i].copy \in URI
           /\ Conf[i].post \in URI /\ Conf[i].retries \in Nat
           /\ Len(Conf[i].sources) \in Nat
           /\ \A k \in Nat \ {0} : k <= Len(Conf[i].sources) => Conf[i].sources[k] \in URI
<1>1. Conf[i] \in ItemConf
  BY ItemAssumption
<1>2. Conf[i].sources \in Seq(URI) /\ Conf[i].copy \in URI /\ Conf[i].post \in URI
      /\ Conf[i].retries \in Nat
  BY <1>1 DEF ItemConf
<1>3. Len(Conf[i].sources) \in Nat
  BY <1>2
<1>4. ASSUME NEW k \in Nat \ {0}, k <= Len(Conf[i].sources)
      PROVE  Conf[i].sources[k] \in URI
  BY <1>2, <1>3, <1>4
<1> QED
  BY <1>2, <1>3, <1>4

\* The two forms of verdict the handlers are built from.
LEMMA SettledLegal ==
    ASSUME NEW it \in ItemState, NEW st \in Status \ {"Fetching"}
    PROVE  /\ Legal(Settled(it, st)) /\ Settled(it, st).it = it
           /\ Settled(it, st).next = NoURI /\ Settled(it, st).status = st
  BY DEF Legal, Settled, Verdict, Verdicts

\* A verdict that queues a URI again.
LEMMA RequeueLegal ==
    ASSUME NEW it \in ItemState, NEW u \in URI \cup {NoURI}, NEW deq \in BOOLEAN
    PROVE  /\ Legal(Requeue(it, u, deq)) /\ Requeue(it, u, deq).next = u
           /\ Requeue(it, u, deq).it.complete = it.complete
<1>1. [it EXCEPT !.uri = u] \in ItemState /\ [it EXCEPT !.uri = u].complete = it.complete
  BY DEF ItemState
<1> QED
  BY <1>1 DEF Legal, Requeue, Verdict, Verdicts, Status

\* pkgAcqArchive::QueueNext with a source left to try.
LEMMA QueueNextLegal ==
    ASSUME NEW i \in Items, NEW it \in ItemState, NEW cached \in BOOLEAN, NEW err,
           HasNext(i, it, err), ~it.complete
    PROVE  Legal(QueueNext(i, it, cached)) /\ KeepsArchive(QueueNext(i, it, cached))
<1> DEFINE c == [it EXCEPT !.complete = TRUE, !.store = TRUE]
           n == [it EXCEPT !.vf = @ + 1]
<1>1. c \in ItemState /\ c.store
  BY DEF ItemState
<1>2. n \in ItemState /\ ~n.complete
  BY DEF ItemState
<1>3. Conf[i].sources[it.vf] \in URI
  BY SourcesType DEF HasNext, ItemState
<1>4. CASE cached
  BY <1>1, <1>4 DEF QueueNext, Legal, KeepsArchive, Verdict, Verdicts, Status
<1>5. CASE ~cached
  BY <1>2, <1>3, <1>5, RequeueLegal DEF QueueNext, KeepsArchive
<1> QED
  BY <1>4, <1>5

\* Item::Failed.
LEMMA ItemFailedLegal ==
    ASSUME NEW it \in ItemState, NEW a, NEW transient, NEW count \in Int
    PROVE  /\ Legal(ItemFailed(it, a, transient, count))
           /\ ItemFailed(it, a, transient, count).it = it
           /\ ItemFailed(it, a, transient, count).next = NoURI
           /\ ItemFailed(it, a, transient, count).status # "Done"
  BY DEF Legal, ItemFailed, Verdict, Verdicts, Status

\* Every Done handler returns a verdict, and that of an archive keeps it.
LEMMA DoneLegal ==
    ASSUME NEW i \in Items, NEW it \in ItemState, NEW a, NEW v
    PROVE  /\ Legal(Done(i, it, a, v))
           /\ Conf[i].kind = "archive" /\ ~it.complete => KeepsArchive(Done(i, it, a, v))
<1> DEFINE got == [it EXCEPT !.complete = TRUE]
           kept == [it EXCEPT !.complete = TRUE, !.store = TRUE]
           sec == [got EXCEPT !.second = TRUE]
<1>1. got \in ItemState /\ sec \in ItemState
  BY DEF ItemState
<1>2. kept \in ItemState /\ kept.store
  BY DEF ItemState
<1>3. Conf[i].copy \in URI /\ Conf[i].post \in URI
      /\ Conf[i].kind \in {"index", "rel", "archive", "file"}
  BY ItemAssumption, SourcesType DEF ItemConf
<1>4. {"Done", "Error", "Idle"} \subseteq Status \ {"Fetching"}
  BY DEF Status
<1>5. Legal(ArchiveDone(it, v)) /\ (~it.complete => KeepsArchive(ArchiveDone(it, v)))
  BY <1>2, <1>4, SettledLegal DEF ArchiveDone, KeepsArchive
<1>6. Legal(FileDone(i, it, a, v))
  <2>1. Legal(Verdict(it, "Error", FALSE, NoURI))
    BY <1>4 DEF Legal, Verdict, Verdicts
  <2> QED
    BY <1>1, <1>3, <1>4, <2>1, SettledLegal, RequeueLegal DEF FileDone
<1>7. Legal(IndexDone(i, it, v))
  BY <1>1, <1>3, <1>4, SettledLegal, RequeueLegal DEF IndexDone
<1>8. Legal(RelDone(i, it, a, v))
  BY <1>1, <1>3, <1>4, SettledLegal, RequeueLegal DEF RelDone
<1> QED
  BY <1>3, <1>5, <1>6, <1>7, <1>8 DEF Done

\* pkgAcqArchive::Failed, whichever of its branches is taken.
LEMMA ArchiveFailedLegal ==
    ASSUME NEW i \in Items, NEW it \in ItemState, NEW a, NEW transient, NEW count \in Int,
           NEW cached \in BOOLEAN, NEW err, ~it.complete
    PROVE  LET v == ArchiveFailed(i, it, a, transient, count, cached, err) IN
           Legal(v) /\ KeepsArchive(v)
<1> DEFINE lost == [it EXCEPT !.store = FALSE]
           done == [lost EXCEPT !.vf = Len(Conf[i].sources) + 1]
           again == [it EXCEPT !.retries = @ - 1, !.vf = 1]
           dead == [again EXCEPT !.store = FALSE]
<1>1. lost \in ItemState /\ ~lost.complete
  BY DEF ItemState
<1>2. done \in ItemState /\ ~done.complete
  <2>1. Len(Conf[i].sources) + 1 \in Nat \ {0}
    BY SourcesType
  <2>2. \A k \in Nat \ {0} : [lost EXCEPT !.vf = k] \in ItemState
                             /\ ~[lost EXCEPT !.vf = k].complete
    BY <1>1 DEF ItemState
  <2> QED
    BY <2>1, <2>2
<1>3. ASSUME it.retries > 0
      PROVE  again \in ItemState /\ ~again.complete /\ dead \in ItemState /\ ~dead.complete
  <2>1. it.retries - 1 \in Nat
    BY <1>3 DEF ItemState
  <2>2. ASSUME NEW k \in Nat
        PROVE  LET x == [it EXCEPT !.retries = k, !.vf = 1] IN x \in ItemState /\ ~x.complete
    <3>1. [it EXCEPT !.retries = k] \in ItemState /\ ~[it EXCEPT !.retries = k].complete
      BY DEF ItemState
    <3>2. \A y \in ItemState : [y EXCEPT !.vf = 1] \in ItemState
                               /\ [y EXCEPT !.vf = 1].complete = y.complete
      BY DEF ItemState
    <3> QED
      BY <3>1, <3>2
  <2>3. again \in ItemState /\ ~again.complete
    BY <2>1, <2>2
  <2> HIDE DEF again
  <2> QED
    BY <2>3 DEF ItemState
<1>4. \A x \in ItemState :
         ~x.complete => /\ Legal(ItemFailed(x, a, transient, count))
                        /\ KeepsArchive(ItemFailed(x, a, transient, count))
  BY ItemFailedLegal DEF KeepsArchive
<1>5. \A x \in ItemState :
         HasNext(i, x, err) /\ ~x.complete => /\ Legal(QueueNext(i, x, cached))
                                              /\ KeepsArchive(QueueNext(i, x, cached))
  BY QueueNextLegal
<1> QED
  BY <1>1, <1>2, <1>3, <1>4, <1>5 DEF ArchiveFailed

\* Every Failed handler returns a verdict, and that of an archive keeps it.
LEMMA FailedLegal ==
    ASSUME NEW i \in Items, NEW it \in ItemState, NEW a, NEW transient, NEW count \in Int,
           NEW cached \in BOOLEAN, NEW err, Conf[i].kind = "archive" => ~it.complete
    PROVE  LET v == Failed(i, it, a, transient, count, cached, err) IN
           Legal(v) /\ (Conf[i].kind = "archive" => KeepsArchive(v))
<1>1. Conf[i].kind \in {"index", "rel", "archive", "file"}
  BY ItemAssumption DEF ItemConf
<1>2. Legal(ItemFailed(it, a, transient, count))
  BY ItemFailedLegal
<1>3. Legal(FileFailed(it, a, transient, count))
  <2>1. CASE it.retries > 0 /\ ~Method[a].localOnly /\ transient
    <3>1. [it EXCEPT !.retries = @ - 1] \in ItemState /\ it.uri \in URI \cup {NoURI}
      BY <2>1 DEF ItemState
    <3> QED
      BY <2>1, <3>1, RequeueLegal DEF FileFailed
  <2>2. CASE ~(it.retries > 0 /\ ~Method[a].localOnly /\ transient)
    BY <1>2, <2>2 DEF FileFailed
  <2> QED
    BY <2>1, <2>2
<1>4. Legal(RelFailed(i, it, a, transient, count))
  <2>1. [it EXCEPT !.complete = FALSE] \in ItemState
    BY DEF ItemState
  <2> QED
    BY <1>2, <2>1, SettledLegal DEF RelFailed, Status
<1> QED
  BY <1>1, <1>2, <1>3, <1>4, ArchiveFailedLegal DEF Failed

\* A constructed item is incomplete or, found in the cache, Done.
LEMMA ConstructedLegal ==
    ASSUME NEW i \in Items, NEW cached \in BOOLEAN, NEW err
    PROVE  /\ Legal(Constructed(i, cached, err))
           /\ Conf[i].kind = "archive" => KeepsArchive(Constructed(i, cached, err))
<1> DEFINE it == NewState(i)
           u == Conf[i].sources[1]
           q == QueueNext(i, it, FALSE)
<1>1. it \in ItemState /\ ~it.complete /\ it.vf = 1
  BY SourcesType DEF NewState, ItemState
<1>2. CASE Conf[i].kind # "archive"
  <2>1. u \in URI
    BY <1>2, ItemAssumption, SourcesType
  <2>2. [it EXCEPT !.uri = u] \in ItemState
    BY <1>1, <2>1 DEF ItemState
  <2> QED
    BY <1>2, <2>1, <2>2 DEF Constructed, Legal, Verdict, Verdicts, Status
<1>3. CASE Conf[i].kind = "archive" /\ ~HasNext(i, it, err)
  BY <1>1, <1>3 DEF Constructed, Legal, KeepsArchive, Verdict, Verdicts, Status
<1>4. CASE Conf[i].kind = "archive" /\ HasNext(i, it, err) /\ cached
  BY <1>1, <1>4, QueueNextLegal DEF Constructed
<1>5. CASE Conf[i].kind = "archive" /\ HasNext(i, it, err) /\ ~cached
  <2>1. Legal(q) /\ KeepsArchive(q)
    BY <1>1, <1>5, QueueNextLegal
  <2>2. Constructed(i, cached, err) = [q EXCEPT !.status = "Idle"]
    BY <1>5 DEF Constructed
  <2> QED
    BY <2>1, <2>2 DEF Legal, KeepsArchive, Verdicts, Status
<1> QED
  BY <1>2, <1>3, <1>4, <1>5

-----------------------------------------------------------------------------
(* The URIs the handlers ask for.                                           *)

\* The URIs item i may come to ask for: its sources, and the ones its Done
\* handlers copy, decompress or authenticate.
Named(i) ==
    {Conf[i].sources[k] : k \in 1..Len(Conf[i].sources)}
    \cup (IF Conf[i].kind \in {"file", "rel"} THEN {Conf[i].copy} ELSE {})
    \cup (IF Conf[i].kind \in {"index", "rel"} THEN {Conf[i].post} ELSE {})

\* Verdict v keeps item i to the URI it has and the ones it names.
Asking(i, it, v) ==
    v.it.uri \in {it.uri} \cup Named(i) /\ v.next \in {NoURI, it.uri} \cup Named(i)

\* What item i names are URIs.
LEMMA NamedType == ASSUME NEW i \in Items PROVE Named(i) \subseteq URI
<1>1. \A k \in 1..Len(Conf[i].sources) : k \in Nat \ {0} /\ k <= Len(Conf[i].sources)
  BY SourcesType
<1> QED
  BY <1>1, SourcesType DEF Named

\* The forms of verdict.
LEMMA FormsAsk ==
    ASSUME NEW i, NEW it \in ItemState, NEW x \in ItemState, x.uri = it.uri
    PROVE  /\ \A st, deq : Asking(i, it, Verdict(x, st, deq, NoURI))
           /\ \A st : Asking(i, it, Settled(x, st))
           /\ \A u \in {it.uri} \cup Named(i) : \A deq : Asking(i, it, Requeue(x, u, deq))
           /\ \A a, transient, count : Asking(i, it, ItemFailed(x, a, transient, count))
<1>1. \A st, deq : Asking(i, it, Verdict(x, st, deq, NoURI))
  BY DEF Asking, Verdict
<1>2. \A u : [x EXCEPT !.uri = u].uri = u
  BY DEF ItemState
<1> QED
  BY <1>1, <1>2 DEF Asking, Settled, Requeue, Verdict, ItemFailed

\* pkgAcqArchive::QueueNext asks for a source.
LEMMA NextAsks ==
    ASSUME NEW i \in Items, NEW it \in ItemState, NEW x \in ItemState, x.uri = it.uri,
           NEW cached, NEW err, HasNext(i, x, err)
    PROVE  Asking(i, it, QueueNext(i, x, cached))
<1> DEFINE u == Conf[i].sources[x.vf]
           c == [x EXCEPT !.complete = TRUE, !.store = TRUE]
           n == [x EXCEPT !.vf = @ + 1]
<1>1. x.vf \in 1..Len(Conf[i].sources)
  BY SourcesType DEF HasNext, ItemState
<1>2. Conf[i].kind # "archive" => Len(Conf[i].sources) = 1
  BY ItemAssumption
<1>3. u \in Named(i)
  BY <1>1 DEF Named
<1>4. c \in ItemState /\ c.uri = it.uri /\ n \in ItemState /\ n.uri = it.uri
  <2>1. c \in ItemState /\ c.uri = it.uri
    BY DEF ItemState
  <2>2. x.vf + 1 \in Nat \ {0}
    BY DEF ItemState
  <2>3. n \in ItemState /\ n.uri = it.uri
    BY <2>2 DEF ItemState
  <2> QED
    BY <2>1, <2>3
<1> HIDE DEF u, c, n
<1> QED
  BY <1>3, <1>4, FormsAsk DEF QueueNext, u, c, n

\* Done handlers ask for what they copy, decompress or authenticate.
LEMMA DoneAsks ==
    ASSUME NEW i \in Items, NEW it \in ItemState, NEW a, NEW v
    PROVE  Asking(i, it, Done(i, it, a, v))
<1> DEFINE got == [it EXCEPT !.complete = TRUE]
           kept == [it EXCEPT !.complete = TRUE, !.store = TRUE]
           sec == [got EXCEPT !.second = TRUE]
<1>1. /\ got \in ItemState /\ got.uri = it.uri
      /\ kept \in ItemState /\ kept.uri = it.uri
      /\ sec \in ItemState /\ sec.uri = it.uri
  BY DEF ItemState
<1>2. /\ Conf[i].kind \in {"file", "rel"} => Conf[i].copy \in Named(i)
      /\ Conf[i].kind \in {"index", "rel"} => Conf[i].post \in Named(i)
      /\ Conf[i].kind \in {"index", "rel", "archive", "file"}
  BY ItemAssumption DEF Named, ItemConf
<1> HIDE DEF got, kept, sec
<1>3. Conf[i].kind = "archive" => Asking(i, it, ArchiveDone(it, v))
  BY <1>1, FormsAsk DEF ArchiveDone, kept
<1>4. Conf[i].kind = "file" => Asking(i, it, FileDone(i, it, a, v))
  BY <1>1, <1>2, FormsAsk DEF FileDone, got
<1>5. Conf[i].kind = "index" => Asking(i, it, IndexDone(i, it, v))
  BY <1>1, <1>2, FormsAsk DEF IndexDone, got, sec
<1>6. Conf[i].kind = "rel" => Asking(i, it, RelDone(i, it, a, v))
  BY <1>1, <1>2, FormsAsk DEF RelDone, got, sec
<1> QED
  BY <1>2, <1>3, <1>4, <1>5, <1>6 DEF Done

\* Failed handlers ask for another source, or again for the same URI.
LEMMA FailedAsks ==
    ASSUME NEW i \in Items, NEW it \in ItemState, NEW a, NEW transient, NEW count,
           NEW cached, NEW err
    PROVE  Asking(i, it, Failed(i, it, a, transient, count, cached, err))
<1> DEFINE lost == [it EXCEPT !.store = FALSE]
           done == [lost EXCEPT !.vf = Len(Conf[i].sources) + 1]
           again == [it EXCEPT !.retries = @ - 1, !.vf = 1]
           dead == [again EXCEPT !.store = FALSE]
           less == [it EXCEPT !.retries = @ - 1]
           torn == [it EXCEPT !.complete = FALSE]
<1>1. lost \in ItemState /\ lost.uri = it.uri /\ torn \in ItemState /\ torn.uri = it.uri
  BY DEF ItemState
<1>2. done \in ItemState /\ done.uri = it.uri
  <2>1. Len(Conf[i].sources) + 1 \in Nat \ {0}
    BY SourcesType
  <2>2. \A k \in Nat \ {0} : [lost EXCEPT !.vf = k] \in ItemState
                             /\ [lost EXCEPT !.vf = k].uri = lost.uri
    BY <1>1 DEF ItemState
  <2> QED
    BY <1>1, <2>1, <2>2
<1>3. ASSUME it.retries > 0
      PROVE  /\ less \in ItemState /\ less.uri = it.uri
             /\ again \in ItemState /\ again.uri = it.uri
             /\ dead \in ItemState /\ dead.uri = it.uri
  <2>1. PICK k \in Nat : k = it.retries - 1
    BY <1>3 DEF ItemState
  <2>2. less = [it EXCEPT !.retries = k] /\ again = [[it EXCEPT !.retries = k] EXCEPT !.vf = 1]
    BY <2>1
  <2>3. less \in ItemState /\ less.uri = it.uri
    BY <2>2 DEF ItemState
  <2>4. again \in ItemState /\ again.uri = it.uri
    <3>1. [it EXCEPT !.retries = k] \in ItemState /\ [it EXCEPT !.retries = k].uri = it.uri
      BY DEF ItemState
    <3>2. \A y \in ItemState : [y EXCEPT !.vf = 1] \in ItemState
                               /\ [y EXCEPT !.vf = 1].uri = y.uri
      BY DEF ItemState
    <3> QED
      BY <2>2, <3>1, <3>2
  <2> HIDE DEF again
  <2> QED
    BY <2>3, <2>4 DEF ItemState
<1> HIDE DEF lost, done, again, dead, less, torn
<1>4. \A x \in ItemState : x.uri = it.uri =>
         /\ HasNext(i, x, err) => Asking(i, it, QueueNext(i, x, cached))
         /\ \A st : Asking(i, it, Settled(x, st))
         /\ \A u \in {it.uri} \cup Named(i) : \A deq : Asking(i, it, Requeue(x, u, deq))
         /\ Asking(i, it, ItemFailed(x, a, transient, count))
  BY NextAsks, FormsAsk
<1>5. Asking(i, it, ArchiveFailed(i, it, a, transient, count, cached, err))
  BY <1>1, <1>2, <1>3, <1>4 DEF ArchiveFailed, lost, done, again, dead
<1>6. Asking(i, it, FileFailed(it, a, transient, count))
  BY <1>3, <1>4 DEF FileFailed, less
<1>7. Asking(i, it, RelFailed(i, it, a, transient, count))
  BY <1>1, <1>4 DEF RelFailed, torn
<1>8. Conf[i].kind \in {"index", "rel", "archive", "file"}
  BY ItemAssumption DEF ItemConf
<1> QED
  BY <1>4, <1>5, <1>6, <1>7, <1>8 DEF Failed

\* Constructors ask for the first source.
LEMMA ConstructedAsks ==
    ASSUME NEW i \in Items, NEW cached \in BOOLEAN, NEW err
    PROVE  Asking(i, NewState(i), Constructed(i, cached, err))
<1> DEFINE it == NewState(i)
           u == Conf[i].sources[1]
           q == QueueNext(i, it, FALSE)
<1>1. it \in ItemState
  BY SourcesType DEF NewState, ItemState
<1>2. CASE Conf[i].kind # "archive"
  <2>1. Len(Conf[i].sources) = 1
    BY <1>2, ItemAssumption
  <2>2. u \in Named(i)
    <3>1. 1 \in 1..Len(Conf[i].sources)
      BY <2>1
    <3> QED
      BY <3>1 DEF Named
  <2> HIDE DEF u, it
  <2>3. [it EXCEPT !.uri = u].uri = u
    BY <1>1 DEF ItemState
  <2> QED
    BY <1>2, <2>2, <2>3 DEF Constructed, Asking, Verdict, u, it
<1>3. CASE Conf[i].kind = "archive" /\ ~HasNext(i, it, err)
  BY <1>1, <1>3, FormsAsk DEF Constructed
<1>4. CASE Conf[i].kind = "archive" /\ HasNext(i, it, err) /\ cached
  BY <1>1, <1>4, NextAsks DEF Constructed
<1>5. CASE Conf[i].kind = "archive" /\ HasNext(i, it, err) /\ ~cached
  <2>1. Asking(i, it, q) /\ Legal(q)
    <3>1. ~it.complete
      BY DEF NewState
    <3> QED
      BY <1>1, <1>5, <3>1, NextAsks, QueueNextLegal
  <2>2. Constructed(i, cached, err) = [q EXCEPT !.status = "Idle"]
    BY <1>5 DEF Constructed
  <2> HIDE DEF q, it
  <2>3. [q EXCEPT !.status = "Idle"].it = q.it /\ [q EXCEPT !.status = "Idle"].next = q.next
    BY <2>1 DEF Legal, Verdicts
  <2> QED
    BY <2>1, <2>2, <2>3 DEF Asking, it
<1> QED
  BY <1>2, <1>3, <1>4, <1>5

-----------------------------------------------------------------------------
(* What holds between any two operators of the queues.                      *)

\* No two QItems share a queue and a position, and a queue's positions do not
\* exceed its tail.
Keyed(s) ==
    /\ \A e, f \in s.qitems : e.queue = f.queue /\ e.pos = f.pos => e = f
    /\ \A e \in s.qitems : e.pos <= s.tail[e.queue]

\* An item is in at most one queue, once, and QueueCounter says so.
AtMostOnce(s) ==
    \A i \in Items : \/ OwnedBy(s, i) = {} /\ s.counter[i] = 0
                     \/ s.counter[i] = 1 /\ \E e \in s.qitems : OwnedBy(s, i) = {e}

\* What a record of the scheduler satisfies between any two operators.
Sound(s) ==
    /\ s \in AcqType /\ IsFiniteSet(s.qitems) /\ s.mine \subseteq s.qitems
    /\ \A e \in s.qitems : e.queue \in s.made
    /\ Keyed(s) /\ AtMostOnce(s)

-----------------------------------------------------------------------------
(* The order in which Cycle scans the queue.                                *)

\* The scan order is a strict total order on the idle QItems of a queue.
LEMMA ScanOrder ==
    ASSUME NEW s, Sound(s), NEW q \in Queues
    PROVE  /\ \A e, f \in IdleIn(s, q) : e # f => Before(s, q, e, f) \/ Before(s, q, f, e)
           /\ \A e \in IdleIn(s, q) : ~Before(s, q, e, e)
           /\ \A e, f, g \in IdleIn(s, q) :
                 Before(s, q, e, f) /\ Before(s, q, f, g) => Before(s, q, e, g)
<1>1. \A e \in IdleIn(s, q) : e \in s.qitems /\ e.pos \in Nat /\ e.queue = q
  BY DEF IdleIn, QItemsOf, Sound, AcqType, QItem
<1>2. \A e \in IdleIn(s, q) : First(s, q, e) \in BOOLEAN
  BY DEF First, UsePreferred
<1>3. \A e, f \in IdleIn(s, q) : e # f => e.pos # f.pos
  BY <1>1 DEF Sound, Keyed
<1> QED
  BY <1>1, <1>2, <1>3 DEF Before

\* The idle QItems of a queue are finite in number.
LEMMA IdleFinite ==
    ASSUME NEW s, Sound(s), NEW q \in Queues
    PROVE  IsFiniteSet(IdleIn(s, q)) /\ IdleIn(s, q) \subseteq s.qitems
<1>1. IdleIn(s, q) \subseteq s.qitems
  BY DEF IdleIn, QItemsOf
<1> QED
  BY <1>1, FS_Subset DEF Sound

\* Ranks number the idle QItems from 0 on.
LEMMA RankBound ==
    ASSUME NEW s, Sound(s), NEW q \in Queues, NEW e \in IdleIn(s, q)
    PROVE  Rank(s, q, e) \in 0..(Cardinality(IdleIn(s, q)) - 1)
<1> DEFINE S == IdleIn(s, q)
           B == {f \in S : Before(s, q, f, e)}
<1>1. IsFiniteSet(S)
  BY IdleFinite
<1>2. B \subseteq S \ {e}
  BY ScanOrder
<1>3. IsFiniteSet(S \ {e}) /\ Cardinality(S \ {e}) = Cardinality(S) - 1
  BY <1>1, FS_RemoveElement
<1>4. Cardinality(B) \in Nat /\ Cardinality(B) <= Cardinality(S \ {e})
  BY <1>2, <1>3, FS_Subset, FS_CardinalityType
<1>5. Cardinality(S) \in Nat
  BY <1>1, FS_CardinalityType
<1> QED
  BY <1>3, <1>4, <1>5 DEF Rank

\* Ranks are distinct: a smaller QItem has fewer before it.
LEMMA RankInjective ==
    ASSUME NEW s, Sound(s), NEW q \in Queues,
           NEW e \in IdleIn(s, q), NEW f \in IdleIn(s, q), Rank(s, q, e) = Rank(s, q, f)
    PROVE  e = f
<1> DEFINE S == IdleIn(s, q)
           B(g) == {h \in S : Before(s, q, h, g)}
<1>1. IsFiniteSet(S)
  BY IdleFinite
<1>2. ASSUME NEW g \in S, NEW h \in S, Before(s, q, g, h)
      PROVE  Rank(s, q, g) < Rank(s, q, h)
  <2>1. IsFiniteSet(B(g)) /\ IsFiniteSet(B(h))
    BY <1>1, FS_Subset
  <2>2. g \notin B(g)
    BY ScanOrder
  <2>3. IsFiniteSet(B(g) \cup {g}) /\ Cardinality(B(g) \cup {g}) = Cardinality(B(g)) + 1
    BY <2>1, <2>2, FS_AddElement
  <2>4. B(g) \cup {g} \subseteq B(h)
    BY <1>2, ScanOrder
  <2>5. Cardinality(B(g) \cup {g}) <= Cardinality(B(h))
    BY <2>1, <2>4, FS_Subset
  <2>6. Cardinality(B(g)) \in Nat /\ Cardinality(B(h)) \in Nat
    BY <2>1, FS_CardinalityType
  <2> QED
    BY <2>3, <2>5, <2>6 DEF Rank
<1>3. Rank(s, q, e) \in Int /\ Rank(s, q, f) \in Int
  BY RankBound
<1> QED
  BY <1>2, <1>3, ScanOrder

\* Every rank below the number of idle QItems is taken.
LEMMA RankOnto ==
    ASSUME NEW s, Sound(s), NEW q \in Queues,
           NEW k \in 0..(Cardinality(IdleIn(s, q)) - 1)
    PROVE  \E e \in IdleIn(s, q) : Rank(s, q, e) = k
<1> DEFINE S == IdleIn(s, q)
           n == Cardinality(S)
           T == 0..(n - 1)
           r == [e \in S |-> Rank(s, q, e)]
<1>1. n \in Nat
  BY IdleFinite, FS_CardinalityType
<1>2. IsFiniteSet(T) /\ Cardinality(T) = n
  BY <1>1, FS_Interval
<1>3. r \in [S -> T]
  BY RankBound
<1>4. r \in Injection(S, T)
  BY <1>3, RankInjective, Fun_IsInj
<1>5. r \in Surjection(S, T)
  BY <1>2, <1>4, FS_Injection
<1>6. \E e \in S : r[e] = k
  BY <1>5 DEF Surjection
<1> QED
  BY <1>6

\* Cycle never hands out more than the pipe has room for, and the requests it
\* writes are those of the QItems it marks.
LEMMA PickedFits ==
    ASSUME NEW s, Sound(s), NEW q \in Queues, Room(s, q) \in Int
    PROVE  /\ IsFiniteSet(Picked(s, q)) /\ Cardinality(Picked(s, q)) \in Nat
           /\ Picked(s, q) \subseteq IdleIn(s, q)
           /\ Cardinality(Picked(s, q)) <= Room(s, q) \/ Picked(s, q) = {}
<1> DEFINE P == Picked(s, q)
           T == 0..(Room(s, q) - 1)
           r == [e \in P |-> Rank(s, q, e)]
<1>1. P \subseteq IdleIn(s, q)
  BY DEF Picked
<1>2. IsFiniteSet(P) /\ Cardinality(P) \in Nat
  BY <1>1, IdleFinite, FS_Subset, FS_CardinalityType
<1>3. \A e \in P : Rank(s, q, e) \in T
  BY <1>1, RankBound DEF Picked
<1>4. r \in [P -> T]
  BY <1>3
<1>5. r \in Injection(P, T)
  BY <1>1, <1>4, RankInjective, Fun_IsInj
<1>6. IsFiniteSet(T) /\ Cardinality(T) = IF 0 > Room(s, q) - 1 THEN 0 ELSE Room(s, q)
  BY FS_Interval
<1>7. Cardinality(P) <= Cardinality(T)
  BY <1>5, <1>6, FS_Injection
<1>8. P = {} \/ Cardinality(P) <= Room(s, q)
  BY <1>2, <1>6, <1>7, FS_EmptySet
<1> QED
  BY <1>1, <1>2, <1>8

\* The requests written for the picked QItems are a sequence of requests.
LEMMA RequestsType ==
    ASSUME NEW s, Sound(s), NEW q \in Queues, Room(s, q) \in Int
    PROVE  Requests(s, q, Picked(s, q)) \in Seq(Request)
<1> DEFINE P == Picked(s, q)
           n == Cardinality(P)
           m == Cardinality(IdleIn(s, q))
<1>1. /\ n \in Nat /\ P \subseteq IdleIn(s, q) /\ IsFiniteSet(P)
      /\ n <= Room(s, q) \/ P = {}
  BY PickedFits
<1>2. n <= m /\ m \in Nat
  BY <1>1, IdleFinite, FS_Subset, FS_CardinalityType
<1>3. ASSUME NEW k \in 1..n
      PROVE  \E e \in P : Rank(s, q, e) = k - 1
  <2>1. PICK e \in IdleIn(s, q) : Rank(s, q, e) = k - 1
    BY <1>1, <1>2, <1>3, RankOnto
  <2>2. n <= Room(s, q)
    BY <1>1, <1>3, FS_EmptySet
  <2> QED
    BY <1>1, <2>1, <2>2 DEF Picked
<1>4. \A e \in P : [uri |-> e.uri, owner |-> e.owner] \in Request
  <2>1. P \subseteq QItem
    BY <1>1, IdleFinite DEF Sound, AcqType
  <2> QED
    BY <2>1 DEF QItem, Request
<1>5. ASSUME NEW k \in 1..n
      PROVE  Requests(s, q, P)[k] \in Request
  BY <1>3, <1>4, <1>5 DEF Requests
<1>6. Requests(s, q, P) \in [1..n -> Request]
  BY <1>5 DEF Requests
<1> QED
  BY <1>1, <1>6, SeqDef

-----------------------------------------------------------------------------
(* Handing out: Cycle and Startup.                                          *)

\* What handing out leaves alone, and what it does to an item's status.
Handed(s, t) ==
    /\ t.qitems = s.qitems /\ t.counter = s.counter /\ t.toFetch = s.toFetch
    /\ s.made \subseteq t.made /\ t.tail = s.tail /\ s.mine \subseteq t.mine
    /\ \A i \in Items : \/ t.status[i] = s.status[i]
                        \/ s.status[i] = "Idle" /\ t.status[i] = "Fetching"
                           /\ OwnedBy(s, i) # {}

\* Handing out keeps the record sound and every item where it is.
LEMMA HandedSound ==
    ASSUME NEW s, Sound(s), NEW t \in AcqType, Handed(s, t), t.mine \subseteq s.qitems
    PROVE  Sound(t) /\ \A i \in Items : OwnedBy(t, i) = OwnedBy(s, i)
  BY DEF Sound, Handed, Keyed, AtMostOnce, OwnedBy

\* The room in a pipe is a number, negative when the pipe is overfull.
LEMMA RoomType ==
    ASSUME NEW s \in AcqType, NEW q \in Queues
    PROVE  Room(s, q) \in Int
  BY DEF Room, AcqType

\* Marking the picked QItems and writing their requests is a handing out.
LEMMA GiveHands ==
    ASSUME NEW s, Sound(s), NEW q \in Queues
    PROVE  LET t == Give(s, q, Picked(s, q)) IN
           /\ t \in AcqType /\ t.mine \subseteq s.qitems /\ Handed(s, t)
           /\ t.worker = s.worker /\ t.maxDepth = s.maxDepth
           /\ t.configs = s.configs /\ t.known = s.known
<1> DEFINE P == Picked(s, q)
           t == Give(s, q, P)
<1>1. s \in AcqType /\ s.mine \subseteq s.qitems
  BY DEF Sound
<1>2. Room(s, q) \in Int
  BY <1>1, RoomType
<1>3. P \subseteq IdleIn(s, q) /\ Cardinality(P) \in Nat
  BY <1>2, PickedFits
<1>4. P \subseteq s.qitems /\ \A e \in P : e.owner \in Items /\ s.status[e.owner] = "Idle"
  <2>1. P \subseteq s.qitems /\ \A e \in P : s.status[e.owner] = "Idle"
    BY <1>3, IdleFinite DEF IdleIn
  <2> QED
    BY <1>1, <2>1 DEF AcqType, QItem
<1>5. Requests(s, q, P) \in Seq(Request)
  BY <1>2, RequestsType
<1>6. q[1] \in Access
  BY ItemAssumption DEF Queues
<1>7. /\ t.mine = s.mine \cup P
      /\ t.qitems = s.qitems /\ t.counter = s.counter /\ t.toFetch = s.toFetch
      /\ t.made = s.made /\ t.tail = s.tail /\ t.worker = s.worker
      /\ t.maxDepth = s.maxDepth /\ t.configs = s.configs /\ t.known = s.known
      /\ t.error = s.error
      /\ t.status = [i \in Items |-> IF \E e \in P : e.owner = i THEN "Fetching"
                                     ELSE s.status[i]]
  BY <1>1 DEF Give, AcqType
<1>8. t.depth \in [Queues -> Int]
  BY <1>1, <1>3 DEF Give, AcqType
<1>9. t.out \in [Queues -> Seq(Request)]
  <2>1. s.out[q] \in Seq(Request)
    BY <1>1 DEF AcqType
  <2>2. s.out[q] \o Requests(s, q, P) \in Seq(Request)
    BY <1>5, <2>1, ConcatProperties
  <2>3. t.out = [s.out EXCEPT ![q] = IF s.worker[q] = "live"
                                     THEN s.out[q] \o Requests(s, q, P) ELSE s.out[q]]
    BY <1>1 DEF Give, AcqType
  <2> QED
    BY <1>1, <2>1, <2>2, <2>3 DEF AcqType
<1>10. t.donePreferred \in SUBSET Access
  BY <1>1, <1>6 DEF Give, AcqType
<1>11. t.status \in [Items -> Status]
  BY <1>1, <1>7 DEF AcqType, Status
<1>12. t \in AcqType
  <2>1. t.qitems \in SUBSET QItem /\ t.mine \in SUBSET QItem
    BY <1>1, <1>4, <1>7 DEF AcqType
  <2> QED
    BY <1>1, <1>8, <1>9, <1>10, <1>11, <2>1 DEF Give, AcqType
<1>13. Handed(s, t)
  <2>1. \A i \in Items : (\E e \in P : e.owner = i)
                         => s.status[i] = "Idle" /\ OwnedBy(s, i) # {}
    BY <1>4 DEF OwnedBy
  <2> QED
    BY <1>7, <2>1 DEF Handed
<1> QED
  BY <1>1, <1>4, <1>7, <1>12, <1>13

\* Handing out any number of times.
Fed(s, t) == Sound(t) /\ Handed(s, t) /\ \A i \in Items : OwnedBy(t, i) = OwnedBy(s, i)

\* Doing nothing, or only raising an error, hands out nothing.
LEMMA FedSelf ==
    ASSUME NEW s, Sound(s)
    PROVE  Fed(s, s) /\ Fed(s, [s EXCEPT !.error = TRUE])
<1>1. s \in AcqType
  BY DEF Sound
<1>2. Handed(s, s)
  BY DEF Handed
<1>3. [s EXCEPT !.error = TRUE] \in AcqType /\ Handed(s, [s EXCEPT !.error = TRUE])
      /\ [s EXCEPT !.error = TRUE].mine = s.mine
  BY <1>1 DEF AcqType, Handed
<1> QED
  BY <1>2, <1>3, HandedSound DEF Fed, Sound

\* Handing out twice is handing out.
LEMMA FedTrans ==
    ASSUME NEW s, NEW t, NEW u, Fed(s, t), Fed(t, u)
    PROVE  Fed(s, u)
  BY DEF Fed, Handed

\* Cycle hands out idle QItems and changes nothing else the counters depend on.
LEMMA CycleFeeds ==
    ASSUME NEW s, Sound(s), NEW q \in Queues
    PROVE  Fed(s, Cycle(s, q))
<1>1. CASE QItemsOf(s, q) = {} \/ s.worker[q] = "none"
  BY <1>1, FedSelf DEF Cycle
<1>2. CASE ~(QItemsOf(s, q) = {} \/ s.worker[q] = "none") /\ s.depth[q] < 0
  BY <1>2, FedSelf DEF Cycle
<1>3. CASE ~(QItemsOf(s, q) = {} \/ s.worker[q] = "none") /\ ~(s.depth[q] < 0)
  <2>1. Cycle(s, q) = Give(s, q, Picked(s, q))
    BY <1>3 DEF Cycle
  <2> QED
    BY <2>1, GiveHands, HandedSound DEF Fed
<1> QED
  BY <1>1, <1>2, <1>3

\* Starting a worker, or failing to, hands out what Cycle does.
LEMMA StartupFeeds ==
    ASSUME NEW s, Sound(s), NEW q \in Queues, NEW ok \in BOOLEAN
    PROVE  Fed(s, Startup(s, q, ok))
<1> DEFINE d == [s EXCEPT !.worker[q] = "dead", !.error = TRUE]
           l == [s EXCEPT !.worker[q] = "live", !.known = @ \cup {q[1]},
                          !.maxDepth[q] = IF Method[q[1]].pipeline THEN PipeLimit ELSE 1]
<1>1. s \in AcqType /\ s.mine \subseteq s.qitems
  BY DEF Sound
<1>2. q[1] \in Access
  BY ItemAssumption DEF Queues
<1>3. PipeLimit \in Nat
  BY QueueAssumption
<1>4. d \in AcqType /\ d.mine = s.mine /\ Handed(s, d)
  BY <1>1 DEF AcqType, Handed
<1>5. l \in AcqType /\ l.mine = s.mine /\ Handed(s, l)
  BY <1>1, <1>2, <1>3 DEF AcqType, Handed
<1>6. Fed(s, d) /\ Fed(s, l)
  BY <1>1, <1>4, <1>5, HandedSound DEF Fed
<1>7. Fed(s, Cycle(l, q))
  BY <1>6, CycleFeeds, FedTrans DEF Fed
<1> QED
  BY <1>6, <1>7, CycleFeeds DEF Startup

-----------------------------------------------------------------------------
(* Queueing and dequeueing.                                                 *)

\* One QItem, of item i, joins the queues.
Joined(s, t, i) ==
    \E e \in t.qitems : e \notin s.qitems /\ e.owner = i /\ t.qitems = s.qitems \cup {e}

\* Queueing an item that was in no queue keeps the record sound.
LEMMA AppendSound ==
    ASSUME NEW s, Sound(s), NEW q \in s.made, NEW i \in Items, OwnedBy(s, i) = {},
           NEW u \in URI, NEW garbage \in BOOLEAN
    PROVE  LET t == Append1(s, q, i, u, garbage) IN
           /\ Sound(t) /\ Joined(s, t, i)
           /\ t.status = [s.status EXCEPT ![i] = "Idle"]
           /\ t.toFetch = s.toFetch /\ t.made = s.made
<1> DEFINE pos == IF QItemsOf(s, q) = {} THEN 1 ELSE s.tail[q] + 1
           e == [queue |-> q, pos |-> pos, owner |-> i, uri |-> u]
           t == Append1(s, q, i, u, garbage)
<1>1. s \in AcqType /\ q \in Queues /\ s.mine \subseteq s.qitems
  BY DEF Sound, AcqType
<1>2. pos \in Nat \ {0} /\ \A f \in s.qitems : f.queue = q => f.pos < pos
  <2>1. s.tail[q] \in Nat /\ \A f \in s.qitems : f.pos \in Nat \ {0}
    BY <1>1 DEF AcqType, QItem
  <2>2. \A f \in s.qitems : f.queue = q => f.pos <= s.tail[q] /\ QItemsOf(s, q) # {}
    BY DEF Sound, Keyed, QItemsOf
  <2> QED
    BY <2>1, <2>2
<1>3. e \in QItem
  BY <1>1, <1>2 DEF QItem
<1>4. e \notin s.qitems
  BY DEF OwnedBy
<1>5. /\ t.qitems = s.qitems \cup {e} /\ t.toFetch = s.toFetch /\ t.made = s.made
      /\ t.status = [s.status EXCEPT ![i] = "Idle"]
      /\ t.counter = [s.counter EXCEPT ![i] = @ + 1]
      /\ t.tail = [s.tail EXCEPT ![q] = pos]
      /\ t.mine = s.mine \/ t.mine = s.mine \cup {e}
  BY <1>1 DEF Append1, AcqType
<1>6. t \in AcqType
  <2>1. t.qitems \in SUBSET QItem /\ t.mine \in SUBSET QItem
    BY <1>1, <1>3, <1>5 DEF AcqType
  <2>2. /\ t.tail \in [Queues -> Nat] /\ t.status \in [Items -> Status]
        /\ t.counter \in [Items -> Int]
    BY <1>1, <1>2, <1>5 DEF AcqType, Status
  <2> QED
    BY <1>1, <2>1, <2>2 DEF Append1, AcqType
<1>7. IsFiniteSet(t.qitems)
  <2>1. IsFiniteSet(s.qitems \cup {e})
    BY FS_AddElement DEF Sound
  <2> QED
    BY <1>5, <2>1
<1>8. Keyed(t)
  <2>1. \A f \in s.qitems : f.queue \in Queues /\ f.pos \in Nat /\ s.tail[f.queue] \in Nat
    BY <1>1 DEF AcqType, QItem
  <2>2. \A f \in t.qitems : f.pos <= t.tail[f.queue]
    BY <1>1, <1>2, <1>5, <2>1 DEF Sound, Keyed, AcqType
  <2>3. \A f, g \in t.qitems : f.queue = g.queue /\ f.pos = g.pos => f = g
    BY <1>2, <1>5, <2>1 DEF Sound, Keyed
  <2> QED
    BY <2>2, <2>3 DEF Keyed
<1>9. AtMostOnce(t)
  <2>1. OwnedBy(t, i) = {e} /\ t.counter[i] = 1
    <3>1. s.counter[i] = 0
      BY DEF Sound, AtMostOnce
    <3> QED
      BY <1>1, <1>5, <3>1 DEF OwnedBy, AcqType
  <2>2. \A j \in Items \ {i} : OwnedBy(t, j) = OwnedBy(s, j) /\ t.counter[j] = s.counter[j]
    BY <1>1, <1>5 DEF OwnedBy, AcqType
  <2>3. \A j \in Items : \/ OwnedBy(s, j) = {} /\ s.counter[j] = 0
                         \/ s.counter[j] = 1 /\ \E f \in s.qitems : OwnedBy(s, j) = {f}
    BY DEF AtMostOnce, Sound
  <2>4. e \in t.qitems /\ s.qitems \subseteq t.qitems
    BY <1>5
  <2>5. ASSUME NEW j \in Items
        PROVE  \/ OwnedBy(t, j) = {} /\ t.counter[j] = 0
               \/ t.counter[j] = 1 /\ \E f \in t.qitems : OwnedBy(t, j) = {f}
    <3>1. CASE j = i
      BY <2>1, <2>4, <3>1
    <3>2. CASE j # i
      BY <2>2, <2>3, <2>4, <3>2
    <3> QED
      BY <3>1, <3>2
  <2> QED
    BY <2>5 DEF AtMostOnce
<1>10. t.mine \subseteq t.qitems /\ \A f \in t.qitems : f.queue \in t.made
  BY <1>1, <1>5 DEF Sound
<1>11. Joined(s, t, i)
  BY <1>4, <1>5 DEF Joined
<1> QED
  BY <1>5, <1>6, <1>7, <1>8, <1>9, <1>10, <1>11 DEF Sound

\* What the status of the other items may become while one is queued or leaves.
OthersFed(s, t, i) ==
    \A j \in Items \ {i} :
        \/ t.status[j] = s.status[j]
        \/ s.status[j] = "Idle" /\ t.status[j] = "Fetching" /\ OwnedBy(s, j) # {}

\* Item i, in no queue before, is in one: idle, or handed out at once.
Queued(s, t, i) ==
    /\ Sound(t) /\ OthersFed(s, t, i)
    /\ t.status[i] \in {"Idle", "Fetching"} /\ t.toFetch = s.toFetch + 1
    /\ Joined(s, t, i)

\* Probing a method for its configuration queues nothing.
LEMMA ConfigFeeds ==
    ASSUME NEW s, Sound(s), NEW a \in Access, NEW probe \in BOOLEAN
    PROVE  Fed(s, GetConfig(s, a, probe))
<1>1. s \in AcqType /\ s.mine \subseteq s.qitems
  BY DEF Sound
<1> DEFINE k == [s EXCEPT !.configs = @ \cup {a}, !.known = @ \cup {a}]
           x == [s EXCEPT !.configs = @ \cup {a}, !.error = TRUE]
<1>2. s.configs \cup {a} \in SUBSET Access /\ s.known \cup {a} \in SUBSET Access
  BY <1>1 DEF AcqType
<1>3. k \in AcqType
  BY <1>2, <1>1 DEF AcqType
<1>4. x \in AcqType
  BY <1>2, <1>1 DEF AcqType
<1>5. Handed(s, k) /\ k.mine = s.mine
  BY <1>1 DEF AcqType, Handed
<1>6. Handed(s, x) /\ x.mine = s.mine
  BY <1>1 DEF AcqType, Handed
<1>7. Fed(s, k) /\ Fed(s, x)
  BY <1>1, <1>3, <1>4, <1>5, <1>6, HandedSound DEF Fed
<1> QED
  BY <1>7, FedSelf DEF GetConfig

\* Creating a queue, started or not, queues nothing.
LEMMA MakeQueueFeeds ==
    ASSUME NEW s, Sound(s), NEW q \in Queues, NEW running \in BOOLEAN, NEW ok \in BOOLEAN
    PROVE  Fed(s, MakeQueue(s, q, running, ok)) /\ q \in MakeQueue(s, q, running, ok).made
<1> DEFINE t == [s EXCEPT !.made = @ \cup {q}]
<1>1. s \in AcqType /\ s.mine \subseteq s.qitems
  BY DEF Sound
<1>2. t \in AcqType /\ Handed(s, t) /\ t.mine = s.mine /\ q \in t.made
  BY <1>1 DEF AcqType, Handed
<1>3. Fed(s, t)
  BY <1>1, <1>2, HandedSound DEF Fed
<1>4. Fed(t, Startup(t, q, ok))
  BY <1>3, StartupFeeds DEF Fed
<1>5. Fed(s, Startup(t, q, ok))
  BY <1>3, <1>4, FedTrans
<1>6. q \in Startup(t, q, ok).made
  BY <1>2, <1>4 DEF Fed, Handed
<1> QED
  BY <1>2, <1>3, <1>5, <1>6, FedSelf DEF MakeQueue

\* Queue::Enqueue adds one QItem, and may hand it out at once.
LEMMA QueueEnqueueSound ==
    ASSUME NEW s, Sound(s), NEW q \in s.made, NEW i \in Items, OwnedBy(s, i) = {},
           NEW u \in URI, NEW garbage \in BOOLEAN
    PROVE  LET t == QueueEnqueue(s, q, i, u, garbage) IN
           /\ Sound(t) /\ OthersFed(s, t, i)
           /\ t.status[i] \in {"Idle", "Fetching"} /\ t.toFetch = s.toFetch
           /\ Joined(s, t, i)
<1> DEFINE a == Append1(s, q, i, u, garbage)
           t == QueueEnqueue(s, q, i, u, garbage)
<1>1. s.status \in [Items -> Status] /\ q \in Queues
  BY DEF Sound, AcqType
<1>2. Joined(s, a, i)
  BY AppendSound
<1>3. /\ Sound(a) /\ a.status = [s.status EXCEPT ![i] = "Idle"] /\ a.toFetch = s.toFetch
  BY AppendSound, SMTT(30)
<1>4. Fed(a, Cycle(a, q)) /\ Fed(a, a)
  BY <1>1, <1>3, CycleFeeds, FedSelf
<1>5. t = Cycle(a, q) \/ t = a
  BY DEF QueueEnqueue
<1>6. Fed(a, t)
  BY <1>4, <1>5
<1>7. Sound(t) /\ t.qitems = a.qitems /\ t.toFetch = s.toFetch
  BY <1>3, <1>6 DEF Fed, Handed
<1>8. \A j \in Items \ {i} : OwnedBy(a, j) = OwnedBy(s, j)
  BY <1>2 DEF OwnedBy, Joined
<1>9. OthersFed(s, t, i) /\ t.status[i] \in {"Idle", "Fetching"}
  BY <1>1, <1>3, <1>6, <1>8 DEF Fed, Handed, OthersFed
<1>10. Joined(s, t, i)
  BY <1>2, <1>7 DEF Joined
<1> QED
  BY <1>7, <1>9, <1>10

\* ToFetch, Status and the pending error do not enter into soundness.
Recount(s, n, st, err) == [s EXCEPT !.toFetch = n, !.status = st, !.error = err]

\* Overwriting ToFetch, Status or the error keeps the record sound.
LEMMA RecountSound ==
    ASSUME NEW s, Sound(s), NEW n \in Int, NEW st \in [Items -> Status], NEW err \in BOOLEAN
    PROVE  LET t == Recount(s, n, st, err) IN
           /\ Sound(t) /\ t.toFetch = n /\ t.status = st /\ t.error = err
           /\ t.qitems = s.qitems /\ t.made = s.made /\ t.counter = s.counter
           /\ \A i \in Items : OwnedBy(t, i) = OwnedBy(s, i)
<1> DEFINE t == Recount(s, n, st, err)
<1>1. s \in AcqType
  BY DEF Sound
<1>2. t \in AcqType
  BY <1>1 DEF AcqType, Recount
<1>3. /\ t.toFetch = n /\ t.status = st /\ t.error = err
      /\ t.qitems = s.qitems /\ t.made = s.made /\ t.counter = s.counter
      /\ t.mine = s.mine /\ t.tail = s.tail
  BY <1>1 DEF AcqType, Recount
<1> HIDE DEF t
<1>4. Sound(t)
  BY <1>2, <1>3 DEF Sound, Keyed, AtMostOnce, OwnedBy
<1> QED
  BY <1>3, <1>4 DEF OwnedBy, t

\* pkgAcquire::Enqueue queues the item and counts it, or, when the method's
\* configuration cannot be had, does neither.
LEMMA EnqueueSound ==
    ASSUME NEW s, Sound(s), NEW i \in Items, OwnedBy(s, i) = {}, NEW u \in URI,
           NEW running \in BOOLEAN, NEW choice \in Choice
    PROVE  LET t == Enqueue(s, i, u, running, choice) IN Fed(s, t) \/ Queued(s, t, i)
<1> DEFINE a == AccessOf[u]
           c == GetConfig(s, a, choice.probe)
           q == QueueName(c, u)
           m == MakeQueue(c, q, running, choice.start)
           n == QueueEnqueue(m, q, i, u, choice.garbage)
           t == Enqueue(s, i, u, running, choice)
<1>1. a \in Access /\ q \in Queues
  BY ItemAssumption DEF QueueName, Queues, Hosts
<1>2. choice.probe \in BOOLEAN /\ choice.start \in BOOLEAN /\ choice.garbage \in BOOLEAN
  BY QueueAssumption DEF Choice
<1>3. Fed(s, c)
  BY <1>1, <1>2, ConfigFeeds
<1>4. Sound(c)
  BY <1>3 DEF Fed
<1>5. Fed(c, m) /\ q \in m.made
  BY <1>1, <1>2, <1>4, MakeQueueFeeds
<1>6. Fed(s, m) /\ Sound(m) /\ OwnedBy(m, i) = {}
  BY <1>3, <1>5, FedTrans DEF Fed
<1>7. /\ Sound(n) /\ OthersFed(m, n, i) /\ n.status[i] \in {"Idle", "Fetching"}
      /\ n.toFetch = m.toFetch /\ Joined(m, n, i)
  BY <1>2, <1>5, <1>6, QueueEnqueueSound
<1>8. CASE a \notin s.configs /\ ~choice.probe
  BY <1>3, <1>8 DEF Enqueue
<1>9. CASE ~(a \notin s.configs /\ ~choice.probe)
  <2>1. t = [n EXCEPT !.toFetch = @ + 1]
    BY <1>9 DEF Enqueue
  <2>2. n \in AcqType
    BY <1>7 DEF Sound
  <2> HIDE DEF n, m, t
  <2>3. t = Recount(n, n.toFetch + 1, n.status, n.error)
    BY <2>1, <2>2 DEF AcqType, Recount
  <2>4. n.toFetch \in Int /\ n.status \in [Items -> Status] /\ n.error \in BOOLEAN
    BY <2>2 DEF AcqType
  <2>5. n.toFetch + 1 \in Int /\ Sound(n)
    BY <1>7, <2>4
  <2>6. PICK k \in Int : k = n.toFetch + 1
    BY <2>5
  <2>7. t = Recount(n, k, n.status, n.error)
    BY <2>3, <2>6
  <2>8. /\ Sound(t) /\ t.toFetch = n.toFetch + 1 /\ t.status = n.status
        /\ t.qitems = n.qitems
    <3>1. \A st \in [Items -> Status], err \in BOOLEAN :
             /\ Sound(Recount(n, k, st, err)) /\ Recount(n, k, st, err).toFetch = k
             /\ Recount(n, k, st, err).status = st
             /\ Recount(n, k, st, err).qitems = n.qitems
      BY <2>5, <2>6, RecountSound
    <3>2. /\ Sound(Recount(n, k, n.status, n.error))
          /\ Recount(n, k, n.status, n.error).toFetch = k
          /\ Recount(n, k, n.status, n.error).status = n.status
          /\ Recount(n, k, n.status, n.error).qitems = n.qitems
      BY <2>4, <3>1
    <3> QED
      BY <2>6, <2>7, <3>2
  <2>9. m.qitems = s.qitems /\ m.toFetch = s.toFetch
    BY <1>6 DEF Fed, Handed
  <2>10. OthersFed(s, t, i)
    BY <1>6, <1>7, <2>8 DEF OthersFed, Fed, Handed
  <2>11. Joined(s, t, i)
    BY <1>7, <2>8, <2>9 DEF Joined
  <2> QED
    BY <1>7, <2>8, <2>9, <2>10, <2>11 DEF Queued, t
<1> QED
  BY <1>8, <1>9

\* The only QItem of item i leaves the queues.
Left(s, t, i) == \E e \in s.qitems : OwnedBy(s, i) = {e} /\ t.qitems = s.qitems \ {e}

\* A queued item that is not being fetched leaves the one queue it is in.
LEMMA RemoveSound ==
    ASSUME NEW s, Sound(s), NEW i \in Items, OwnedBy(s, i) # {}, s.status[i] # "Fetching"
    PROVE  LET t == QueueDequeue(s, i, s.made) IN
           /\ Sound(t) /\ Left(s, t, i) /\ OwnedBy(t, i) = {}
           /\ t.status = s.status /\ t.toFetch = s.toFetch /\ t.error = s.error
<1> DEFINE t == QueueDequeue(s, i, s.made)
           gone == {e \in OwnedBy(s, i) : e.queue \in s.made}
<1>1. s \in AcqType /\ s.mine \subseteq s.qitems
  BY DEF Sound
<1>2. PICK e \in s.qitems : OwnedBy(s, i) = {e} /\ s.counter[i] = 1
  BY DEF Sound, AtMostOnce
<1>3. gone = {e} /\ Cardinality(gone) = 1
  BY <1>2, FS_Singleton DEF Sound
<1>4. t = [s EXCEPT !.qitems = @ \ {e}, !.mine = @ \ {e}, !.counter[i] = @ - 1]
  BY <1>3 DEF QueueDequeue
<1>5. /\ t.qitems = s.qitems \ {e} /\ t.mine = s.mine \ {e} /\ t.made = s.made
      /\ t.counter = [s.counter EXCEPT ![i] = @ - 1] /\ t.tail = s.tail
      /\ t.status = s.status /\ t.toFetch = s.toFetch /\ t.error = s.error
  BY <1>1, <1>4 DEF AcqType
<1>6. t \in AcqType
  <2>1. t.qitems \in SUBSET QItem /\ t.mine \in SUBSET QItem
    BY <1>1, <1>5 DEF AcqType
  <2>2. t.counter \in [Items -> Int]
    BY <1>1, <1>5 DEF AcqType
  <2> QED
    BY <1>1, <1>4, <2>1, <2>2 DEF AcqType
<1> HIDE DEF t
<1>7. IsFiniteSet(s.qitems \ {e})
  BY FS_RemoveElement DEF Sound
<1>8. OwnedBy(t, i) = {} /\ t.counter[i] = 0
  BY <1>1, <1>2, <1>5 DEF OwnedBy, AcqType
<1>9. \A j \in Items \ {i} : OwnedBy(t, j) = OwnedBy(s, j) /\ t.counter[j] = s.counter[j]
  BY <1>1, <1>2, <1>5 DEF OwnedBy, AcqType
<1>10. ASSUME NEW j \in Items \ {i}
       PROVE  \/ OwnedBy(t, j) = {} /\ t.counter[j] = 0
              \/ t.counter[j] = 1 /\ \E f \in t.qitems : OwnedBy(t, j) = {f}
  BY <1>9 DEF Sound, AtMostOnce, OwnedBy
<1>11. AtMostOnce(t)
  BY <1>8, <1>10 DEF AtMostOnce
<1>12. Keyed(t) /\ t.mine \subseteq t.qitems /\ \A f \in t.qitems : f.queue \in t.made
  BY <1>5 DEF Sound, Keyed
<1>13. Sound(t)
  BY <1>5, <1>6, <1>7, <1>11, <1>12 DEF Sound
<1>14. Left(s, t, i)
  BY <1>2, <1>5 DEF Left
<1> QED
  BY <1>5, <1>8, <1>13, <1>14 DEF t

\* Dequeue: ToFetch goes down exactly when a QItem goes.
LEMMA DequeueSound ==
    ASSUME NEW s, Sound(s), NEW i \in Items
    PROVE  LET t == Dequeue(s, i) IN
           /\ Sound(t) /\ t.status = s.status
           /\ \/ /\ s.status[i] = "Fetching" \/ OwnedBy(s, i) = {}
                 /\ t.qitems = s.qitems /\ t.toFetch = s.toFetch
              \/ /\ s.status[i] # "Fetching" /\ Left(s, t, i) /\ OwnedBy(t, i) = {}
                 /\ t.toFetch = s.toFetch - 1
<1> DEFINE u == QueueDequeue(s, i, s.made)
           t == Dequeue(s, i)
<1>1. s \in AcqType /\ s.mine \subseteq s.qitems
  BY DEF Sound
<1>2. s.toFetch \in Int /\ s.status \in [Items -> Status] /\ s.error \in BOOLEAN
      /\ s.counter \in [Items -> Int]
  BY <1>1 DEF AcqType
<1>3. CASE s.status[i] = "Fetching"
  <2>1. PICK b \in BOOLEAN : b = (s.error \/ s.made # {})
    OBVIOUS
  <2>2. t = Recount(s, s.toFetch, s.status, b)
    BY <1>1, <1>2, <1>3, <2>1 DEF Dequeue, QueueDequeue, Recount, AcqType
  <2>3. Sound(t) /\ t.status = s.status /\ t.toFetch = s.toFetch /\ t.qitems = s.qitems
    BY <1>2, <2>2, RecountSound
  <2> QED
    BY <1>3, <2>3
<1>4. CASE s.status[i] # "Fetching" /\ OwnedBy(s, i) = {}
  <2>1. Cardinality({}) = 0
    BY FS_EmptySet
  <2>2. {e \in OwnedBy(s, i) : e.queue \in s.made} = {}
    BY <1>4
  <2>3. t = [[s EXCEPT !.qitems = @ \ {}, !.mine = @ \ {}, !.counter[i] = @ - 0]
                EXCEPT !.toFetch = s.toFetch]
    BY <1>1, <1>4, <2>1, <2>2 DEF Dequeue, QueueDequeue, AcqType
  <2>4. /\ s.counter[i] - 0 = s.counter[i]
        /\ [s.counter EXCEPT ![i] = s.counter[i]] = s.counter
    BY <1>2
  <2>5. /\ t.qitems = s.qitems /\ t.mine = s.mine /\ t.counter = s.counter
        /\ t.tail = s.tail /\ t.made = s.made /\ t.status = s.status
        /\ t.toFetch = s.toFetch
    BY <1>1, <2>3, <2>4 DEF AcqType
  <2>6. t \in AcqType
    BY ZenonT(40), <1>1, <2>3, <2>4, <2>5 DEF AcqType
  <2> HIDE DEF t
  <2>7. Sound(t)
    BY <2>5, <2>6 DEF Sound, Keyed, AtMostOnce, OwnedBy
  <2> QED
    BY <1>4, <2>5, <2>7 DEF t
<1>5. CASE s.status[i] # "Fetching" /\ OwnedBy(s, i) # {}
  <2>1. /\ Sound(u) /\ Left(s, u, i) /\ OwnedBy(u, i) = {}
        /\ u.status = s.status /\ u.toFetch = s.toFetch /\ u.error = s.error
    BY <1>5, RemoveSound
  <2>2. t = [u EXCEPT !.toFetch = @ - 1]
    BY <1>5 DEF Dequeue
  <2> HIDE DEF u, t
  <2>3. u \in AcqType
    BY <2>1 DEF Sound
  <2>4. PICK k \in Int : k = s.toFetch - 1
    BY <1>2
  <2>5. t = Recount(u, k, s.status, s.error)
    BY <2>1, <2>2, <2>3, <2>4 DEF Recount, AcqType
  <2>6. Sound(t) /\ t.status = s.status /\ t.toFetch = k /\ t.qitems = u.qitems
        /\ OwnedBy(t, i) = OwnedBy(u, i)
    BY <1>2, <2>1, <2>5, RecountSound
  <2>7. Left(s, t, i)
    BY <2>1, <2>6 DEF Left
  <2> QED
    BY <1>5, <2>1, <2>4, <2>6, <2>7 DEF t
<1> QED
  BY <1>3, <1>4, <1>5

\* When an item's fetch ends its QItem leaves, ToFetch goes down by one, and the
\* item itself is not handed out again.
LEMMA ItemDoneSound ==
    ASSUME NEW s, Sound(s), NEW e \in s.qitems
    PROVE  LET t == ItemDone(s, e) IN
           /\ Sound(t) /\ OthersFed(s, t, e.owner) /\ Left(s, t, e.owner)
           /\ OwnedBy(t, e.owner) = {} /\ t.status[e.owner] # "Fetching"
           /\ t.toFetch = s.toFetch - 1
<1> DEFINE i == e.owner
           d == [s EXCEPT !.depth[e.queue] = @ - 1,
                          !.status[i] = IF @ = "Fetching" THEN "Done" ELSE @]
           g == Dequeue(d, i)
           t == Cycle(g, e.queue)
<1>1. s \in AcqType /\ s.mine \subseteq s.qitems
  BY DEF Sound
<1>2. e.queue \in Queues /\ i \in Items
  BY <1>1 DEF AcqType, QItem
<1>3. OwnedBy(s, i) # {} /\ s.counter[i] = 1
  BY <1>2 DEF Sound, AtMostOnce, OwnedBy
<1>4. /\ d.qitems = s.qitems /\ d.mine = s.mine /\ d.counter = s.counter
      /\ d.tail = s.tail /\ d.made = s.made /\ d.toFetch = s.toFetch
      /\ d.status = [s.status EXCEPT ![i] = IF @ = "Fetching" THEN "Done" ELSE @]
  BY <1>1 DEF AcqType
<1>5. d \in AcqType
  <2>1. s.depth[e.queue] - 1 \in Int
    BY <1>1, <1>2 DEF AcqType
  <2>2. [s.depth EXCEPT ![e.queue] = @ - 1] \in [Queues -> Int]
    BY <1>1, <2>1 DEF AcqType
  <2>3. d.status \in [Items -> Status]
    BY <1>1, <1>4 DEF AcqType, Status
  <2> QED
    BY <1>1, <1>4, <2>2, <2>3 DEF AcqType
<1>6. ItemDone(s, e) = t
  BY <1>3, <1>4 DEF ItemDone
<1> HIDE DEF d
<1>7. Sound(d)
  BY <1>4, <1>5 DEF Sound, Keyed, AtMostOnce, OwnedBy
<1>8. OwnedBy(d, i) # {} /\ \A j \in Items : OwnedBy(d, j) = OwnedBy(s, j)
  BY <1>3, <1>4 DEF OwnedBy
<1>9. d.status[i] # "Fetching" /\ \A j \in Items \ {i} : d.status[j] = s.status[j]
  BY <1>1, <1>2, <1>4 DEF AcqType
<1>10. /\ Sound(g) /\ g.status = d.status /\ Left(d, g, i) /\ OwnedBy(g, i) = {}
       /\ g.toFetch = d.toFetch - 1
  BY <1>2, <1>7, <1>8, <1>9, DequeueSound
<1>11. Fed(g, t)
  BY <1>2, <1>10, CycleFeeds
<1> HIDE DEF g, t
<1>12. Left(s, t, i) /\ t.toFetch = s.toFetch - 1
  BY <1>2, <1>4, <1>8, <1>10, <1>11 DEF Left, Fed, Handed
<1>13. \A j \in Items \ {i} : OwnedBy(g, j) = OwnedBy(s, j)
  BY <1>4, <1>10 DEF Left, OwnedBy
<1>14. OthersFed(s, t, i)
  BY ZenonT(40), <1>9, <1>10, <1>11, <1>13 DEF OthersFed, Fed, Handed
<1>15. Sound(t) /\ OwnedBy(t, i) = {} /\ t.status[i] # "Fetching"
  BY <1>2, <1>9, <1>10, <1>11 DEF Fed, Handed
<1> QED
  BY <1>6, <1>12, <1>14, <1>15

\* Item i, in no queue before, stays out, with Status st.
Stays(s, t, i, st) ==
    /\ Sound(t) /\ OthersFed(s, t, i) /\ t.status[i] = st
    /\ t.qitems = s.qitems /\ t.toFetch = s.toFetch

\* A handler's verdict either leaves its item out of the queues with the Status
\* it set, or queues it again and counts it.
LEMMA ApplySound ==
    ASSUME NEW s, Sound(s), NEW i \in Items, OwnedBy(s, i) = {},
           NEW v \in Verdicts, v.status # "Fetching",
           NEW running \in BOOLEAN, NEW choice \in Choice
    PROVE  LET t == Apply(s, i, v, running, choice) IN
           \/ Stays(s, t, i, v.status)
           \/ v.next # NoURI /\ Queued(s, t, i)
<1> DEFINE st == [s.status EXCEPT ![i] = v.status]
           b == [s EXCEPT !.status[i] = v.status]
           d == IF v.dequeue THEN Dequeue(b, i) ELSE b
           t == Apply(s, i, v, running, choice)
<1>1. s \in AcqType /\ s.toFetch \in Int /\ s.error \in BOOLEAN
  BY DEF Sound, AcqType
<1>2. st \in [Items -> Status]
  BY <1>1 DEF AcqType, Verdicts
<1>3. b = Recount(s, s.toFetch, st, s.error)
  BY <1>1 DEF AcqType, Recount
<1>4. /\ Sound(b) /\ b.toFetch = s.toFetch /\ b.status = st /\ b.qitems = s.qitems
      /\ OwnedBy(b, i) = {}
  BY <1>1, <1>2, <1>3, RecountSound
<1>5. st[i] = v.status /\ \A j \in Items \ {i} : st[j] = s.status[j]
  BY <1>1 DEF AcqType
<1> HIDE DEF b, st
<1>6. /\ Sound(Dequeue(b, i)) /\ Dequeue(b, i).status = b.status
      /\ Dequeue(b, i).qitems = b.qitems /\ Dequeue(b, i).toFetch = b.toFetch
  <2>1. ~Left(b, Dequeue(b, i), i)
    BY <1>4 DEF Left
  <2> QED
    BY <1>4, <2>1, DequeueSound
<1>7. Sound(d) /\ d.status = st /\ d.qitems = s.qitems /\ d.toFetch = s.toFetch
  BY <1>4, <1>6
<1>8. \A j \in Items : OwnedBy(d, j) = OwnedBy(s, j)
  BY <1>7 DEF OwnedBy
<1> HIDE DEF d
<1>9. CASE v.next = NoURI
  <2>1. t = d
    BY <1>9 DEF Apply, d, b
  <2> QED
    BY <1>5, <1>7, <2>1 DEF Stays, OthersFed
<1>10. CASE v.next # NoURI
  <2> DEFINE n == Enqueue(d, i, v.next, running, choice)
  <2>1. v.next \in URI
    BY <1>10 DEF Verdicts
  <2>2. t = n
    BY <1>10 DEF Apply, d, b
  <2>3. Fed(d, n) \/ Queued(d, n, i)
    BY <1>7, <1>8, <2>1, EnqueueSound
  <2> HIDE DEF n
  <2>4. CASE Fed(d, n)
    BY <1>5, <1>7, <1>8, <2>2, <2>4 DEF Fed, Handed, Stays, OthersFed
  <2>5. CASE Queued(d, n, i)
    BY <1>5, <1>7, <1>8, <1>10, <2>2, <2>5 DEF Queued, OthersFed, Joined
  <2> QED
    BY <2>3, <2>4, <2>5
<1> QED
  BY <1>9, <1>10
-----------------------------------------------------------------------------
(* The end of a run and of the object.                                      *)

\* Shutting the queues' workers down leaves every QItem and every count.
LEMMA ShutdownQueuesSound ==
    ASSUME NEW s, Sound(s), NEW kept \in SUBSET Queues, NEW stale \in BOOLEAN
    PROVE  LET t == ShutdownQueues(s, kept, stale) IN
           /\ Sound(t) /\ t.qitems = s.qitems /\ t.status = s.status
           /\ t.toFetch = s.toFetch /\ t.error = s.error
<1> DEFINE t == ShutdownQueues(s, kept, stale)
<1>1. s \in AcqType /\ s.mine \subseteq s.qitems
  BY DEF Sound
<1>2. /\ t.qitems = s.qitems /\ t.status = s.status /\ t.toFetch = s.toFetch
      /\ t.error = s.error /\ t.counter = s.counter /\ t.tail = s.tail /\ t.made = s.made
      /\ t.mine \subseteq s.mine
  BY <1>1 DEF ShutdownQueues, AcqType
<1>3. /\ t.worker \in [Queues -> {"none", "live", "dead"}]
      /\ t.out \in [Queues -> Seq(Request)]
  <2>1. <<>> \in Seq(Request)
    OBVIOUS
  <2> QED
    BY <1>1, <2>1 DEF ShutdownQueues, AcqType
<1>4. t \in AcqType
  BY <1>1, <1>2, <1>3 DEF ShutdownQueues, AcqType
<1> HIDE DEF t
<1>5. Sound(t)
  BY <1>1, <1>2, <1>4 DEF Sound, Keyed, AtMostOnce, OwnedBy
<1> QED
  BY <1>2, <1>5 DEF t

\* The empty scheduler is sound.
LEMMA NewAcquireSound == Sound(NewAcquire) /\ NewAcquire.qitems = {}
<1> DEFINE s == NewAcquire
<1>1. /\ s.qitems = {} /\ s.mine = {} /\ s.counter = [i \in Items |-> 0]
  BY DEF NewAcquire
<1>2. s.out \in [Queues -> Seq(Request)]
  <2>1. <<>> \in Seq(Request)
    OBVIOUS
  <2> QED
    BY <2>1 DEF NewAcquire
<1>3. s \in AcqType
  BY <1>1, <1>2 DEF NewAcquire, AcqType, Status
<1> HIDE DEF s
<1>4. Sound(s)
  BY <1>1, <1>3, FS_EmptySet DEF Sound, Keyed, AtMostOnce, OwnedBy
<1> QED
  BY <1>1, <1>4 DEF s

\* Shutdown uncounts every queued item but those being fetched.
LEMMA ObjectShutdownSound ==
    ASSUME NEW s, Sound(s), NEW alive \in SUBSET Items,
           \A e \in s.qitems : e.owner \in alive,
           \A i \in alive : s.status[i] = "Fetching" => OwnedBy(s, i) # {}
    PROVE  LET t     == ObjectShutdown(s, alive)
               stuck == {i \in alive : s.status[i] = "Fetching"}
           IN /\ Sound(t) /\ t.qitems = {}
              /\ Cardinality(stuck) \in Nat /\ Cardinality(s.qitems) \in Nat
              /\ t.toFetch = s.toFetch - Cardinality(s.qitems) + Cardinality(stuck)
<1> DEFINE t == ObjectShutdown(s, alive)
           stuck == {i \in alive : s.status[i] = "Fetching"}
           freed == {i \in alive \ stuck : OwnedBy(s, i) # {}}
           f == [e \in s.qitems |-> e.owner]
<1>1. s \in AcqType /\ IsFiniteSet(s.qitems)
  BY DEF Sound
<1>2. f \in [s.qitems -> stuck \cup freed]
  BY DEF OwnedBy
<1>3. \A e, g \in s.qitems : e.owner = g.owner => e = g
  <2>1. \A e \in s.qitems : e.owner \in Items /\ e \in OwnedBy(s, e.owner)
    BY <1>1 DEF AcqType, QItem, OwnedBy
  <2> QED
    BY <2>1 DEF Sound, AtMostOnce, OwnedBy
<1>4. f \in Injection(s.qitems, stuck \cup freed)
  BY <1>2, <1>3, Fun_IsInj
<1>5. \A i \in stuck \cup freed : \E e \in s.qitems : f[e] = i
  BY DEF OwnedBy
<1>6. f \in Bijection(s.qitems, stuck \cup freed)
  BY <1>2, <1>4, <1>5, Fun_IsSurj DEF Bijection
<1>7. IsFiniteSet(stuck \cup freed) /\ Cardinality(stuck \cup freed) = Cardinality(s.qitems)
  BY <1>1, <1>6, FS_Bijection DEF ExistsBijection
<1>8. /\ IsFiniteSet(stuck) /\ Cardinality(stuck) \in Nat
      /\ IsFiniteSet(freed) /\ Cardinality(freed) \in Nat
      /\ Cardinality(s.qitems) \in Nat
  BY <1>1, <1>7, FS_Subset, FS_CardinalityType
<1>9. Cardinality(stuck \cup freed) = Cardinality(stuck) + Cardinality(freed)
  <2>1. stuck \cap freed = {}
    OBVIOUS
  <2> HIDE DEF stuck, freed
  <2>2. Cardinality(stuck \cap freed) = 0
    BY <2>1, FS_EmptySet
  <2>3. Cardinality(stuck \cup freed)
        = Cardinality(stuck) + Cardinality(freed) - Cardinality(stuck \cap freed)
    BY <1>8, FS_Union
  <2> QED
    BY <1>8, <2>2, <2>3
<1> DEFINE n == s.toFetch - Cardinality(freed)
<1>10. s.toFetch \in Int
  BY <1>1 DEF AcqType
<1>11. n \in Int /\ n = s.toFetch - Cardinality(s.qitems) + Cardinality(stuck)
  <2> HIDE DEF stuck, freed
  <2> QED
    BY <1>7, <1>8, <1>9, <1>10
<1>12. PICK b \in BOOLEAN : b = (s.error \/ (stuck # {} /\ s.made # {}))
  OBVIOUS
<1>13. t = [NewAcquire EXCEPT !.toFetch = n, !.error = b, !.configs = s.configs,
                              !.known = s.known, !.donePreferred = s.donePreferred]
  BY <1>12 DEF ObjectShutdown
<1> HIDE DEF n, stuck, freed
<1>14. NewAcquire \in AcqType /\ Sound(NewAcquire) /\ NewAcquire.qitems = {}
  BY NewAcquireSound DEF Sound
<1>15. /\ t.qitems = NewAcquire.qitems /\ t.mine = NewAcquire.mine
       /\ t.counter = NewAcquire.counter /\ t.tail = NewAcquire.tail
       /\ t.made = NewAcquire.made /\ t.toFetch = n
  BY <1>13, <1>14 DEF AcqType
<1>16. t \in AcqType
  BY ZenonT(40), <1>1, <1>11, <1>13, <1>14 DEF AcqType
<1> HIDE DEF t
<1>17. Sound(t)
  BY <1>14, <1>15, <1>16 DEF Sound, Keyed, AtMostOnce, OwnedBy
<1> QED
  BY <1>8, <1>11, <1>14, <1>15, <1>17 DEF t, stuck
-----------------------------------------------------------------------------
(* Small changes of the record, and the number of QItems.                   *)

\* Soundness looks at no more than these fields.
Alike(s, t) ==
    /\ t.qitems = s.qitems /\ t.mine = s.mine /\ t.tail = s.tail
    /\ t.status = s.status /\ t.counter = s.counter /\ t.made = s.made
    /\ t.toFetch = s.toFetch

\* What soundness does not look at may change.
LEMMA AlikeSound ==
    ASSUME NEW s, Sound(s), NEW t \in AcqType, Alike(s, t)
    PROVE  Sound(t)
  BY DEF Sound, Alike, Keyed, AtMostOnce, OwnedBy

\* A dead worker changes nothing that is counted.
LEMMA MethodFailureAlike ==
    ASSUME NEW s, Sound(s), NEW q \in Queues
    PROVE  Sound(MethodFailure(s, q)) /\ Alike(s, MethodFailure(s, q))
<1> DEFINE t == MethodFailure(s, q)
<1>1. s \in AcqType
  BY DEF Sound
<1>2. <<>> \in Seq(Request)
  OBVIOUS
<1>3. t \in AcqType /\ Alike(s, t)
  BY <1>1, <1>2 DEF MethodFailure, AcqType, Alike
<1> QED
  BY <1>3, AlikeSound

\* Nor does writing a part of OutQueue.
LEMMA WriteAlike ==
    ASSUME NEW s, Sound(s), NEW q \in Queues, NEW k \in 1..Len(s.out[q])
    PROVE  LET t == [s EXCEPT !.out[q] = SubSeq(@, k + 1, Len(@))] IN
           /\ Sound(t) /\ Alike(s, t)
           /\ SubSeq(s.out[q], 1, k) \in Seq(Request)
<1> DEFINE t == [s EXCEPT !.out[q] = SubSeq(@, k + 1, Len(@))]
<1>1. s \in AcqType /\ s.out[q] \in Seq(Request)
  BY DEF Sound, AcqType
<1>2. Len(s.out[q]) \in Nat /\ \A n \in 1..Len(s.out[q]) : s.out[q][n] \in Request
  BY <1>1, ElementOfSeq
<1>3. SubSeq(s.out[q], 1, k) \in Seq(Request)
  BY <1>2, SubSeqProperties
<1>4. SubSeq(s.out[q], k + 1, Len(s.out[q])) \in Seq(Request)
  BY <1>2, SubSeqProperties
<1>5. PICK r \in Seq(Request) : r = SubSeq(s.out[q], k + 1, Len(s.out[q]))
  BY <1>4
<1>6. t = [s EXCEPT !.out[q] = r]
  BY <1>5
<1>7. t \in AcqType /\ Alike(s, t)
  BY <1>1, <1>6 DEF AcqType, Alike
<1> QED
  BY <1>3, <1>7, AlikeSound

\* One QItem fewer, one more.
LEMMA LeftCount ==
    ASSUME NEW s, Sound(s), NEW t, NEW i, Left(s, t, i)
    PROVE  /\ Cardinality(s.qitems) \in Nat
           /\ Cardinality(t.qitems) = Cardinality(s.qitems) - 1
<1>1. PICK e \in s.qitems : t.qitems = s.qitems \ {e}
  BY DEF Left
<1> QED
  BY <1>1, FS_RemoveElement, FS_CardinalityType DEF Sound

\* One QItem more, one more in the count.
LEMMA JoinedCount ==
    ASSUME NEW s, Sound(s), NEW t, NEW i, Joined(s, t, i)
    PROVE  /\ Cardinality(s.qitems) \in Nat
           /\ Cardinality(t.qitems) = Cardinality(s.qitems) + 1
<1>1. PICK e \in t.qitems : e \notin s.qitems /\ t.qitems = s.qitems \cup {e}
  BY DEF Joined
<1> QED
  BY <1>1, FS_AddElement, FS_CardinalityType DEF Sound

\* What a 103 Redirect makes of a QItem, and of the record.
Moved(e, u) == [e EXCEPT !.uri = u]
Swap(s, e, f) == [s EXCEPT !.qitems = (@ \ {e}) \cup {f}, !.mine = (@ \ {e}) \cup {f}]

\* A redirect changes the URI of one QItem and nothing that is counted.
LEMMA RedirectSound ==
    ASSUME NEW s, Sound(s), NEW e \in s.mine, NEW u \in URI
    PROVE  LET f == Moved(e, u)
               t == Swap(s, e, f)
           IN /\ Sound(t) /\ t.status = s.status /\ t.toFetch = s.toFetch
              /\ f.owner = e.owner /\ t.qitems = (s.qitems \ {e}) \cup {f}
              /\ Cardinality(t.qitems) = Cardinality(s.qitems)
<1> DEFINE f == Moved(e, u)
           t == Swap(s, e, f)
<1>1. s \in AcqType /\ e \in s.qitems /\ e \in QItem /\ IsFiniteSet(s.qitems)
      /\ s.mine \subseteq s.qitems
  BY DEF Sound, AcqType
<1>2. f \in QItem /\ f.queue = e.queue /\ f.pos = e.pos /\ f.owner = e.owner
  BY <1>1 DEF QItem, Moved
<1>3. \A g \in s.qitems : g.queue = f.queue /\ g.pos = f.pos => g = e
  BY <1>1, <1>2 DEF Sound, Keyed
<1> HIDE DEF f
<1>4. f \notin s.qitems \ {e}
  BY <1>3
<1>5. /\ IsFiniteSet((s.qitems \ {e}) \cup {f})
      /\ Cardinality((s.qitems \ {e}) \cup {f}) = Cardinality(s.qitems)
  <2>1. IsFiniteSet(s.qitems \ {e}) /\ Cardinality(s.qitems \ {e}) = Cardinality(s.qitems) - 1
    BY <1>1, FS_RemoveElement
  <2>2. /\ IsFiniteSet((s.qitems \ {e}) \cup {f})
        /\ Cardinality((s.qitems \ {e}) \cup {f}) = Cardinality(s.qitems \ {e}) + 1
    BY <1>4, <2>1, FS_AddElement
  <2>3. Cardinality(s.qitems) \in Nat
    BY <1>1, FS_CardinalityType
  <2> QED
    BY <2>1, <2>2, <2>3
<1>6. /\ t.qitems = (s.qitems \ {e}) \cup {f} /\ t.mine = (s.mine \ {e}) \cup {f}
      /\ t.status = s.status /\ t.toFetch = s.toFetch /\ t.counter = s.counter
      /\ t.tail = s.tail /\ t.made = s.made
  BY <1>1 DEF AcqType, Swap
<1>7. t \in AcqType
  <2>1. t.qitems \in SUBSET QItem /\ t.mine \in SUBSET QItem
    BY <1>1, <1>2, <1>6 DEF AcqType
  <2> QED
    BY <1>1, <1>6, <2>1 DEF AcqType, Swap
<1> HIDE DEF t
<1>8. Keyed(t)
  BY <1>2, <1>3, <1>6 DEF Sound, Keyed
<1>9. AtMostOnce(t)
  <2>1. \A i \in Items \ {e.owner} : OwnedBy(t, i) = OwnedBy(s, i)
    BY <1>2, <1>6 DEF OwnedBy
  <2>2. e.owner \in Items /\ OwnedBy(s, e.owner) = {e} /\ s.counter[e.owner] = 1
    BY <1>1 DEF Sound, AtMostOnce, OwnedBy, QItem
  <2>3. OwnedBy(t, e.owner) = {f}
    BY <1>2, <1>6, <2>2 DEF OwnedBy
  <2>4. f \in t.qitems
    BY <1>6
  <2>5. ASSUME NEW i \in Items \ {e.owner}
        PROVE  \/ OwnedBy(t, i) = {} /\ t.counter[i] = 0
               \/ t.counter[i] = 1 /\ \E g \in t.qitems : OwnedBy(t, i) = {g}
    BY <1>6, <2>1 DEF Sound, AtMostOnce, OwnedBy
  <2> QED
    BY <1>6, <2>2, <2>3, <2>4, <2>5 DEF AtMostOnce
<1>10. t.mine \subseteq t.qitems /\ \A g \in t.qitems : g.queue \in t.made
  BY <1>1, <1>2, <1>6 DEF Sound
<1>11. Sound(t)
  BY <1>5, <1>6, <1>7, <1>8, <1>9, <1>10 DEF Sound
<1> QED
  BY <1>2, <1>5, <1>6, <1>11 DEF t, f

-----------------------------------------------------------------------------
(* The scheduler.                                                          *)

Counted == acq.toFetch = Cardinality(acq.qitems) + leaked

\* An archive that is complete is in no queue and, while Done, is stored.
CompleteIsKept ==
    \A i \in live :
        Conf[i].kind = "archive" /\ item[i].complete =>
            OwnedBy(acq, i) = {} /\ (acq.status[i] = "Done" => item[i].store)

\* The inductive invariant.
IInv == TypeOK /\ Sound(acq) /\ QueuedIsOpen /\ Counted /\ CompleteIsKept
-----------------------------------------------------------------------------
(* Steps that leave the queues' content alone.                              *)

\* A step that changes neither the QItems, nor a Status, nor a count.
LEMMA SteadyKeeps ==
    ASSUME IInv, TypeOK', Sound(acq'), acq'.qitems = acq.qitems,
           acq'.status = acq.status, acq'.toFetch = acq.toFetch, UNCHANGED itemVars
    PROVE  IInv'
<1>1. \A i \in Items : OwnedBy(acq', i) = OwnedBy(acq, i)
  BY DEF OwnedBy
<1>2. live \subseteq Items
  BY DEF IInv, TypeOK
<1>3. QueuedIsOpen' /\ Counted' /\ CompleteIsKept'
  BY <1>1, <1>2 DEF IInv, QueuedIsOpen, Counted, CompleteIsKept, itemVars
<1> QED
  BY <1>3 DEF IInv

\* A step that leaves the scheduler's record alone altogether.
LEMMA IdleKeeps ==
    ASSUME IInv, TypeOK', UNCHANGED <<acq, itemVars>>
    PROVE  IInv'
  BY SteadyKeeps DEF IInv

\* A step that hands idle items to workers.
LEMMA FeedingKeeps ==
    ASSUME IInv, TypeOK', Fed(acq, acq'), UNCHANGED itemVars
    PROVE  IInv'
<1>1. live \subseteq Items /\ \A e \in acq.qitems : e.owner \in live
  BY DEF IInv, TypeOK, QueuedIsOpen
<1>2. /\ acq'.qitems = acq.qitems /\ acq'.toFetch = acq.toFetch
      /\ \A i \in Items : OwnedBy(acq', i) = OwnedBy(acq, i)
      /\ \A i \in Items : \/ acq'.status[i] = acq.status[i]
                          \/ acq.status[i] = "Idle" /\ acq'.status[i] = "Fetching"
                             /\ OwnedBy(acq, i) # {}
  BY DEF Fed, Handed
<1>3. QueuedIsOpen'
  BY <1>1, <1>2 DEF IInv, QueuedIsOpen, itemVars
<1>4. CompleteIsKept'
  BY <1>1, <1>2 DEF IInv, CompleteIsKept, itemVars
<1>5. Counted'
  BY <1>2 DEF IInv, Counted, itemVars
<1> QED
  BY <1>3, <1>4, <1>5 DEF IInv, Fed

\* The invariant holds of a new pkgAcquire.
LEMMA InitKeeps == ASSUME Init PROVE IInv
<1>1. Sound(acq) /\ acq.qitems = {} /\ acq.toFetch = 0
  BY NewAcquireSound DEF Init, NewAcquire
<1>2. acq \in AcqType /\ acq.mine \subseteq acq.qitems
  BY <1>1 DEF Sound
<1>3. ASSUME NEW i \in Items
      PROVE  NewState(i) \in ItemState
  <2>1. Conf[i].retries \in Nat
    BY SourcesType
  <2> QED
    BY <2>1 DEF NewState, ItemState
<1>4. <<>> \in Seq(Reply) /\ <<>> \in Seq(Request)
  OBVIOUS
<1>5. 0 \in 0..MaxRuns
  BY AcquireAssumption
<1>6. TypeOK
  BY <1>2, <1>3, <1>4, <1>5 DEF Init, TypeOK, LoopState
<1>7. QueuedIsOpen /\ CompleteIsKept
  BY <1>1 DEF Init, QueuedIsOpen, CompleteIsKept
<1>8. Counted
  BY <1>1, FS_EmptySet DEF Init, Counted
<1> QED
  BY <1>1, <1>6, <1>7, <1>8 DEF IInv

\* Entering pkgAcquire::Run changes no queue.
LEMMA RunKeeps == ASSUME IInv, Run PROVE IInv'
<1>1. runs + 1 \in 0..MaxRuns
  BY AcquireAssumption DEF IInv, TypeOK, Run
<1>2. acq.made \subseteq Queues
  BY DEF IInv, TypeOK, AcqType
<1>3. [pc |-> "starting", todo |-> acq.made \X {"start"}] \in LoopState
  BY <1>2 DEF LoopState
<1>4. TypeOK'
  BY <1>1, <1>3 DEF IInv, TypeOK, Run, itemVars, methodVars
<1> QED
  BY <1>4, IdleKeeps DEF Run

\* Ticking a queue off keeps the loop's type.
LEMMA TickedType ==
    ASSUME TypeOK, NEW q, NEW what
    PROVE  Ticked(q, what) \in LoopState
  BY DEF Ticked, TypeOK, LoopState

\* Queue::Startup hands out and counts nothing new.
LEMMA StartQueueKeeps == ASSUME IInv, NEW q \in Queues, StartQueue(q) PROVE IInv'
<1>1. PICK ok \in StartOK : acq' = Startup(acq, q, ok)
  BY DEF StartQueue
<1>2. ok \in BOOLEAN
  BY QueueAssumption
<1>3. Fed(acq, acq')
  BY <1>1, <1>2, StartupFeeds DEF IInv
<1>4. acq' \in AcqType /\ acq'.mine \subseteq acq'.qitems
  BY <1>3 DEF Fed, Sound
<1>5. loop' \in LoopState
  BY TickedType DEF IInv, StartQueue
<1>6. TypeOK'
  BY <1>4, <1>5 DEF IInv, TypeOK, StartQueue, itemVars, runVars, methodVars
<1> QED
  BY <1>3, <1>6, FeedingKeeps DEF StartQueue

\* A round begins with the descriptors select reports.
LEMMA SelectKeeps == ASSUME IInv, Select PROVE IInv'
<1>1. [pc |-> "round", todo |-> Ready] \in LoopState
  BY DEF LoopState, Ready
<1>2. TypeOK'
  BY <1>1 DEF IInv, TypeOK, Select, itemVars, runVars, methodVars
<1> QED
  BY <1>2, IdleKeeps DEF Select

\* A round without an error goes back to select.
LEMMA EndRoundKeeps == ASSUME IInv, EndRound PROVE IInv'
<1>1. [loop EXCEPT !.pc = "select"] \in LoopState
  BY DEF IInv, TypeOK, LoopState
<1>2. TypeOK'
  BY <1>1 DEF IInv, TypeOK, EndRound, itemVars, runVars, methodVars
<1> QED
  BY <1>2, IdleKeeps DEF EndRound
\* Reading replies, or finding the child gone, queues nothing.
LEMMA InReadyKeeps == ASSUME IInv, NEW q \in Queues, InReady(q) PROVE IInv'
<1>1. TypeOK /\ Sound(acq)
  BY DEF IInv
<1>2. <<>> \in Seq(Reply)
  OBVIOUS
<1>3. msgs' \in [Queues -> Seq(Reply)] /\ answers' \in [Queues -> Seq(Reply)]
  BY <1>1, <1>2 DEF TypeOK, InReady
<1>4. Sound(acq') /\ Alike(acq, acq')
  <2>1. Alike(acq, acq)
    BY DEF Alike
  <2> QED
    BY <1>1, <2>1, MethodFailureAlike DEF InReady
<1>5. acq' \in AcqType /\ acq'.mine \subseteq acq'.qitems
  BY <1>4 DEF Sound
<1>6. loop' \in LoopState
  BY <1>1, TickedType DEF InReady
<1>7. TypeOK'
  BY <1>1, <1>3, <1>5, <1>6 DEF TypeOK, InReady, itemVars, runVars
<1> QED
  BY <1>4, <1>7, SteadyKeeps DEF Alike, InReady

\* Writing requests moves them to the pipe.
LEMMA OutReadyKeeps == ASSUME IInv, NEW q \in Queues, OutReady(q) PROVE IInv'
<1>1. TypeOK /\ Sound(acq)
  BY DEF IInv
<1>2. Sound(acq') /\ Alike(acq, acq') /\ pipe' \in [Queues -> Seq(Request)]
  <2>1. CASE acq' = acq /\ pipe' = pipe
    BY <1>1, <2>1 DEF Alike, TypeOK
  <2>2. CASE acq' = MethodFailure(acq, q) /\ pipe' = pipe
    BY <1>1, <2>2, MethodFailureAlike DEF TypeOK
  <2>3. ASSUME NEW k \in 1..Len(acq.out[q]),
               pipe' = [pipe EXCEPT ![q] = @ \o SubSeq(acq.out[q], 1, k)],
               acq' = [acq EXCEPT !.out[q] = SubSeq(@, k + 1, Len(@))]
        PROVE  Sound(acq') /\ Alike(acq, acq') /\ pipe' \in [Queues -> Seq(Request)]
    <3>1. Sound(acq') /\ Alike(acq, acq') /\ SubSeq(acq.out[q], 1, k) \in Seq(Request)
      BY <1>1, <2>3, WriteAlike
    <3>2. pipe[q] \o SubSeq(acq.out[q], 1, k) \in Seq(Request)
      BY <1>1, <3>1, ConcatProperties DEF TypeOK
    <3>3. pipe' \in [Queues -> Seq(Request)]
      BY <1>1, <2>3, <3>2 DEF TypeOK
    <3> QED
      BY <3>1, <3>3
  <2> QED
    BY <2>1, <2>2, <2>3 DEF OutReady
<1>3. acq' \in AcqType /\ acq'.mine \subseteq acq'.qitems
  BY <1>2 DEF Sound
<1>4. loop' \in LoopState
  BY <1>1, TickedType DEF OutReady
<1>5. TypeOK'
  BY <1>1, <1>2, <1>3, <1>4 DEF TypeOK, OutReady, itemVars, runVars
<1> QED
  BY <1>2, <1>5, SteadyKeeps DEF Alike, OutReady

\* What is forgotten of the children leaves their variables typed.
LEMMA ForgetType ==
    ASSUME TypeOK, NEW kept \in SUBSET Queues, ForgetChildren(kept)
    PROVE  /\ current' \in [Queues -> Nat] /\ pipe' \in [Queues -> Seq(Request)]
           /\ fetch' \in [Queues -> Seq(Request)] /\ answers' \in [Queues -> Seq(Reply)]
           /\ begun' \subseteq Queues /\ died' \subseteq Queues
<1>1. <<>> \in Seq(Reply) /\ <<>> \in Seq(Request)
  OBVIOUS
<1> QED
  BY <1>1 DEF TypeOK, ForgetChildren

\* Leaving Run keeps the queues, clears StoreFilenames, and returns.
LEMMA LeaveKeeps ==
    ASSUME IInv, NEW res \in {"Continue", "Failed", "Cancelled"}, Leave(res)
    PROVE  IInv' /\ acq'.qitems = acq.qitems /\ acq'.status = acq.status
<1>1. TypeOK /\ Sound(acq) /\ item \in [Items -> ItemState]
  BY DEF IInv, TypeOK
<1>2. PICK stale \in Garbage, kept \in SUBSET Queues :
         acq' = ShutdownQueues(acq, kept, stale) /\ ForgetChildren(kept)
  <2>1. PICK stale \in Garbage,
             odd \in SUBSET {q \in Queues : acq.worker[q] = "dead" /\ q[1] \notin acq.known} :
          LET kept == odd \cup {q \in Queues : /\ acq.worker[q] # "none"
                                               /\ q[1] \in acq.known
                                               /\ Method[q[1]].needsCleanup}
          IN acq' = ShutdownQueues(acq, kept, stale) /\ ForgetChildren(kept)
    BY DEF Leave
  <2> DEFINE kept == odd \cup {q \in Queues : /\ acq.worker[q] # "none"
                                              /\ q[1] \in acq.known
                                              /\ Method[q[1]].needsCleanup}
  <2>2. kept \in SUBSET Queues
    OBVIOUS
  <2> QED
    BY <2>1, <2>2
<1>3. /\ item' = [i \in Items |-> IF i \in live THEN Finished(i, item[i], acq.status[i])
                                                ELSE item[i]]
      /\ result' = IF acq.error THEN "Failed" ELSE res
      /\ loop' = [pc |-> "idle", todo |-> {}]
      /\ UNCHANGED <<live, deleted, leaked, msgs, runs>>
  BY DEF Leave
<1>4. /\ Sound(acq') /\ acq'.qitems = acq.qitems /\ acq'.status = acq.status
      /\ acq'.toFetch = acq.toFetch
  BY <1>1, <1>2, QueueAssumption, ShutdownQueuesSound
<1>5. acq' \in AcqType /\ acq'.mine \subseteq acq'.qitems
  BY <1>4 DEF Sound
<1>6. \A i \in Items : Finished(i, item[i], acq.status[i]) \in ItemState
  BY <1>1 DEF Finished, ItemState
<1>7. item' \in [Items -> ItemState]
  BY <1>1, <1>3, <1>6
<1>8. /\ current' \in [Queues -> Nat] /\ pipe' \in [Queues -> Seq(Request)]
      /\ fetch' \in [Queues -> Seq(Request)] /\ answers' \in [Queues -> Seq(Reply)]
      /\ begun' \subseteq Queues /\ died' \subseteq Queues
  BY <1>1, <1>2, ForgetType
<1>9. loop' \in LoopState
  BY <1>3 DEF LoopState
<1>10. TypeOK'
  BY <1>1, <1>3, <1>5, <1>7, <1>8, <1>9 DEF TypeOK
<1>11. live \subseteq Items /\ \A i \in Items : OwnedBy(acq', i) = OwnedBy(acq, i)
  BY <1>1, <1>4 DEF TypeOK, OwnedBy
<1>12. QueuedIsOpen' /\ Counted'
  BY <1>3, <1>4, <1>11 DEF IInv, QueuedIsOpen, Counted
<1>13. CompleteIsKept'
  <2>1. \A i \in live : item'[i].complete = item[i].complete
                        /\ (item'[i].store <=> /\ item[i].store /\ item[i].complete
                                               /\ acq.status[i] = "Done")
    BY <1>1, <1>3, <1>11 DEF Finished, ItemState
  <2> QED
    BY <1>3, <1>4, <1>11, <2>1 DEF IInv, CompleteIsKept
<1> QED
  BY <1>4, <1>10, <1>12, <1>13 DEF IInv

\* The three ways out of Run.
LEMMA LeavingKeeps == ASSUME IInv, Break \/ Cancel \/ Fetched PROVE IInv'
  BY LeaveKeeps DEF Break, Cancel, Fetched
-----------------------------------------------------------------------------
(* The children: they only move requests and replies.                       *)

\* A reply about the head of the child's queue is a Reply.
LEMMA SendType ==
    ASSUME TypeOK, NEW q \in Queues, fetch[q] # <<>>, NEW code, NEW arg,
           \/ code = 103 /\ arg \in URI
           \/ code = 200 /\ arg = "start"
           \/ code = 201 /\ arg \in Answer
           \/ code = 400 /\ arg \in FailKind,
           Send(q, code, arg)
    PROVE  /\ answers' \in [Queues -> Seq(Reply)]
           /\ Head(fetch[q]) \in Request /\ Tail(fetch[q]) \in Seq(Request)
<1> DEFINE r == [code |-> code, uri |-> Head(fetch[q]).uri,
                 owner |-> Head(fetch[q]).owner, arg |-> arg]
<1>1. fetch[q] \in Seq(Request) /\ answers[q] \in Seq(Reply)
  BY DEF TypeOK
<1>2. Head(fetch[q]) \in Request /\ Tail(fetch[q]) \in Seq(Request)
  BY <1>1, HeadTailProperties
<1>3. r \in Reply
  BY <1>2 DEF Reply, Request
<1> HIDE DEF r
<1>4. Append(answers[q], r) \in Seq(Reply)
  BY <1>1, <1>3
<1>5. answers' = [answers EXCEPT ![q] = Append(answers[q], r)]
  BY DEF Send, r
<1> QED
  BY <1>2, <1>4, <1>5 DEF TypeOK

\* The child takes a request from its pipe.
LEMMA ReceiveKeeps == ASSUME IInv, NEW q \in Queues, Receive(q) PROVE IInv'
<1>1. TypeOK /\ pipe[q] \in Seq(Request) /\ pipe[q] # <<>> /\ fetch[q] \in Seq(Request)
  BY DEF IInv, TypeOK, Receive
<1>2. Head(pipe[q]) \in Request /\ Tail(pipe[q]) \in Seq(Request)
  BY <1>1, HeadTailProperties
<1>3. Append(fetch[q], Head(pipe[q])) \in Seq(Request)
  BY <1>1, <1>2
<1>4. pipe' \in [Queues -> Seq(Request)] /\ fetch' \in [Queues -> Seq(Request)]
  BY <1>1, <1>2, <1>3 DEF TypeOK, Receive
<1>5. TypeOK'
  BY <1>1, <1>4 DEF TypeOK, Receive, otherVars, itemVars, runVars
<1> QED
  BY <1>5, IdleKeeps DEF Receive, otherVars

\* The child announces a 200 URI Start.
LEMMA SendStartKeeps == ASSUME IInv, NEW q \in Queues, SendStart(q) PROVE IInv'
<1>1. TypeOK /\ fetch[q] # <<>>
  BY DEF IInv, SendStart, Working
<1>2. answers' \in [Queues -> Seq(Reply)]
  BY <1>1, SendType DEF SendStart
<1>3. TypeOK'
  BY <1>1, <1>2 DEF TypeOK, SendStart, otherVars, itemVars, runVars
<1> QED
  BY <1>3, IdleKeeps DEF SendStart, otherVars

\* The child sends the final reply of a request.
LEMMA AnsweredKeeps == ASSUME IInv, NEW q \in Queues, Answered(q) PROVE IInv'
<1>1. TypeOK /\ fetch[q] # <<>>
  BY DEF IInv, Answered, Working
<1>2. PICK o \in Outcomes : Send(q, IF o \in FailKind THEN 400 ELSE 201, o)
  BY DEF Answered
<1>3. o \in Answer \cup FailKind
  BY AcquireAssumption
<1>4. answers' \in [Queues -> Seq(Reply)] /\ Tail(fetch[q]) \in Seq(Request)
  <2>1. CASE o \in FailKind
    BY <1>1, <1>2, <2>1, SendType
  <2>2. CASE o \notin FailKind
    BY <1>1, <1>2, <1>3, <2>2, SendType
  <2> QED
    BY <2>1, <2>2
<1>5. fetch' \in [Queues -> Seq(Request)]
  BY <1>1, <1>4 DEF TypeOK, Answered
<1>6. TypeOK'
  BY <1>1, <1>4, <1>5 DEF TypeOK, Answered, otherVars, itemVars, runVars
<1> QED
  BY <1>6, IdleKeeps DEF Answered, otherVars

\* The child sends a 103 Redirect and requeues the request.
LEMMA RedirectKeeps == ASSUME IInv, NEW q \in Queues, Redirect(q) PROVE IInv'
<1>1. TypeOK /\ fetch[q] # <<>>
  BY DEF IInv, Redirect, Working
<1>2. PICK u \in Redirects[Head(fetch[q]).uri] :
         /\ Send(q, 103, u)
         /\ fetch' = [fetch EXCEPT ![q] = Append(Tail(@), [Head(@) EXCEPT !.uri = u])]
  BY DEF Redirect
<1>3. Head(fetch[q]) \in Request
  BY <1>1, HeadTailProperties DEF TypeOK
<1>4. u \in URI
  BY <1>3, AcquireAssumption DEF Request
<1>5. answers' \in [Queues -> Seq(Reply)] /\ Tail(fetch[q]) \in Seq(Request)
  BY <1>1, <1>2, <1>4, SendType
<1>6. [Head(fetch[q]) EXCEPT !.uri = u] \in Request
  BY <1>3, <1>4 DEF Request
<1>7. Append(Tail(fetch[q]), [Head(fetch[q]) EXCEPT !.uri = u]) \in Seq(Request)
  BY <1>5, <1>6
<1>8. fetch' \in [Queues -> Seq(Request)]
  BY <1>1, <1>2, <1>7 DEF TypeOK
<1>9. TypeOK'
  BY <1>1, <1>5, <1>8 DEF TypeOK, Redirect, otherVars, itemVars, runVars
<1> QED
  BY <1>9, IdleKeeps DEF Redirect, otherVars

\* A dying child takes its requests with it.
LEMMA DieKeeps == ASSUME IInv, NEW q \in Queues, Die(q) PROVE IInv'
<1>1. TypeOK /\ <<>> \in Seq(Request)
  BY DEF IInv
<1>2. pipe' \in [Queues -> Seq(Request)] /\ fetch' \in [Queues -> Seq(Request)]
  BY <1>1 DEF TypeOK, Die
<1>3. TypeOK'
  BY <1>1, <1>2 DEF TypeOK, Die, itemVars, runVars
<1> QED
  BY <1>3, IdleKeeps DEF Die

-----------------------------------------------------------------------------
(* The replies.                                                             *)

\* What handling the head of MessageQueue leaves typed.
LEMMA HandlingType ==
    ASSUME TypeOK, NEW q \in Queues, NEW code, Handling(q, code)
    PROVE  /\ msgs' \in [Queues -> Seq(Reply)] /\ Head(msgs[q]) \in Reply
           /\ Head(msgs[q]).code = code
<1>1. msgs[q] \in Seq(Reply) /\ msgs[q] # <<>>
  BY DEF TypeOK, Handling
<1>2. Head(msgs[q]) \in Reply /\ Tail(msgs[q]) \in Seq(Reply)
  BY <1>1, HeadTailProperties
<1> QED
  BY <1>2 DEF TypeOK, Handling

\* FindItem returns QItems of the queue, handed to this worker.
LEMMA HitType ==
    ASSUME NEW q, NEW e \in Hit(q)
    PROVE  e \in acq.qitems /\ e \in acq.mine /\ e.queue = q
  BY DEF Hit, FindItem, QItemsOf

\* 103 Redirect: one QItem changes its URI.
LEMMA RedirectedKeeps == ASSUME IInv, NEW q \in Queues, Redirected(q) PROVE IInv'
<1>1. TypeOK /\ Sound(acq) /\ Handling(q, 103)
  BY DEF IInv, Redirected
<1>2. PICK e \in Hit(q) :
         LET f == [e EXCEPT !.uri = Head(msgs[q]).arg] IN
         acq' = [acq EXCEPT !.qitems = (@ \ {e}) \cup {f}, !.mine = (@ \ {e}) \cup {f}]
  BY DEF Redirected
<1> DEFINE f == [e EXCEPT !.uri = Head(msgs[q]).arg]
<1>3. msgs' \in [Queues -> Seq(Reply)] /\ Head(msgs[q]).arg \in URI
  BY <1>1, HandlingType DEF Reply
<1>4. e \in acq.mine /\ e \in acq.qitems
  BY HitType
<1>5. /\ Sound(acq') /\ acq'.status = acq.status /\ acq'.toFetch = acq.toFetch
      /\ f.owner = e.owner /\ acq'.qitems = (acq.qitems \ {e}) \cup {f}
      /\ Cardinality(acq'.qitems) = Cardinality(acq.qitems)
  <2>1. f = Moved(e, Head(msgs[q]).arg) /\ acq' = Swap(acq, e, f)
    BY <1>2 DEF Moved, Swap
  <2> HIDE DEF f
  <2> QED
    BY <1>1, <1>3, <1>4, <2>1, RedirectSound
<1> HIDE DEF f
<1>6. UNCHANGED itemVars
  BY <1>1 DEF Handling, Redirected, itemVars
<1>7. TypeOK'
  BY <1>1, <1>3, <1>5 DEF TypeOK, Redirected, Handling, runVars, methodVars, Sound
<1>8. \A i \in Items : OwnedBy(acq', i) = {} <=> OwnedBy(acq, i) = {}
  BY <1>4, <1>5 DEF OwnedBy
<1>9. live \subseteq Items
  BY <1>1 DEF TypeOK
<1>10. QueuedIsOpen'
  BY <1>4, <1>5, <1>6, <1>8, <1>9 DEF IInv, QueuedIsOpen, itemVars
<1>11. Counted' /\ CompleteIsKept'
  BY <1>5, <1>6, <1>8, <1>9 DEF IInv, Counted, CompleteIsKept, itemVars
<1> QED
  BY <1>5, <1>7, <1>10, <1>11 DEF IInv

\* 200 URI Start: the QItem becomes CurrentItem and is being fetched.
LEMMA URIStartKeeps == ASSUME IInv, NEW q \in Queues, URIStart(q) PROVE IInv'
<1>1. TypeOK /\ Sound(acq) /\ acq \in AcqType /\ Handling(q, 200)
  BY DEF IInv, URIStart, Sound
<1>2. PICK e \in Hit(q) : /\ current' = [current EXCEPT ![q] = e.pos]
                          /\ acq' = [acq EXCEPT !.status[e.owner] = "Fetching"]
  BY DEF URIStart
<1>3. e \in acq.qitems /\ e.owner \in Items /\ e.pos \in Nat
  BY <1>1, HitType DEF AcqType, QItem
<1> DEFINE st == [acq.status EXCEPT ![e.owner] = "Fetching"]
<1>4. st \in [Items -> Status]
  BY <1>1 DEF AcqType, Status
<1>5. acq' = Recount(acq, acq.toFetch, st, acq.error)
  BY <1>1, <1>2 DEF AcqType, Recount
<1>6. /\ Sound(acq') /\ acq'.toFetch = acq.toFetch /\ acq'.status = st
      /\ acq'.qitems = acq.qitems /\ \A i \in Items : OwnedBy(acq', i) = OwnedBy(acq, i)
  <2>1. acq.toFetch \in Int /\ acq.error \in BOOLEAN
    BY <1>1 DEF AcqType
  <2> HIDE DEF st
  <2> QED
    BY <1>1, <1>4, <1>5, <2>1, RecountSound
<1>7. /\ st[e.owner] = "Fetching" /\ \A i \in Items \ {e.owner} : st[i] = acq.status[i]
      /\ OwnedBy(acq, e.owner) # {}
  BY <1>1, <1>3 DEF AcqType, OwnedBy
<1> HIDE DEF st
<1>8. UNCHANGED itemVars
  BY <1>1 DEF Handling, URIStart, itemVars
<1>9. msgs' \in [Queues -> Seq(Reply)] /\ current' \in [Queues -> Nat]
  BY <1>1, <1>2, <1>3, HandlingType DEF TypeOK
<1>10. TypeOK'
  BY <1>1, <1>6, <1>9 DEF TypeOK, URIStart, Handling, runVars, methodVars, Sound
<1>11. live \subseteq Items /\ \A f \in acq.qitems : f.owner \in live
  BY <1>1 DEF TypeOK, IInv, QueuedIsOpen
<1>12. QueuedIsOpen'
  BY <1>6, <1>7, <1>8, <1>11 DEF IInv, QueuedIsOpen, itemVars
<1>13. Counted' /\ CompleteIsKept'
  BY <1>6, <1>7, <1>8, <1>11 DEF IInv, Counted, CompleteIsKept, itemVars
<1> QED
  BY <1>6, <1>10, <1>12, <1>13 DEF IInv
-----------------------------------------------------------------------------
(* The steps that run an item's handler or constructor.                     *)

\* Nothing but handing out happens to the items other than i.
Turned(s, t, i) ==
    \A j \in Items \ {i} :
        /\ OwnedBy(t, j) = OwnedBy(s, j)
        /\ \/ t.status[j] = s.status[j]
           \/ s.status[j] = "Idle" /\ t.status[j] = "Fetching" /\ OwnedBy(s, j) # {}

\* Verdict v on item i was carried out: i is out with v's Status, or queued.
Ruled(t, i, v) ==
    \/ OwnedBy(t, i) = {} /\ t.status[i] = v.status
    \/ v.next # NoURI /\ OwnedBy(t, i) # {} /\ t.status[i] \in {"Idle", "Fetching"}

\* A step that carries out a legal verdict on one item keeps the invariant.
LEMMA RulingKeeps ==
    ASSUME IInv, TypeOK', Sound(acq'), Counted', NEW i \in Items, NEW v, Legal(v),
           Conf[i].kind = "archive" => KeepsArchive(v),
           live' = live \cup {i}, item' = [item EXCEPT ![i] = v.it],
           Turned(acq, acq', i), Ruled(acq', i, v)
    PROVE  IInv'
<1>1. live \subseteq Items /\ item \in [Items -> ItemState]
  BY DEF IInv, TypeOK
<1>2. \A e \in acq'.qitems : e.owner \in Items
  BY DEF Sound, AcqType, QItem
<1>3. ASSUME NEW e \in acq'.qitems
      PROVE  e.owner \in live' /\ acq'.status[e.owner] \in {"Idle", "Fetching"}
  <2>1. CASE e.owner = i
    BY <1>3, <2>1 DEF Ruled, OwnedBy
  <2>2. CASE e.owner # i
    <3>1. e \in OwnedBy(acq, e.owner)
      BY <1>2, <1>3, <2>2 DEF Turned, OwnedBy
    <3>2. e.owner \in live /\ acq.status[e.owner] \in {"Idle", "Fetching"}
      BY <3>1 DEF IInv, QueuedIsOpen, OwnedBy
    <3> QED
      BY <1>2, <1>3, <2>2, <3>2 DEF Turned
  <2> QED
    BY <2>1, <2>2
<1>4. ASSUME NEW j \in live', acq'.status[j] = "Fetching"
      PROVE  OwnedBy(acq', j) # {}
  <2>1. CASE j = i
    BY <1>4, <2>1 DEF Ruled, Legal
  <2>2. CASE j # i
    BY <1>1, <1>4, <2>2 DEF Turned, IInv, QueuedIsOpen
  <2> QED
    BY <2>1, <2>2
<1>5. QueuedIsOpen'
  BY <1>3, <1>4 DEF QueuedIsOpen
<1>6. ASSUME NEW j \in live', Conf[j].kind = "archive", item'[j].complete
      PROVE  OwnedBy(acq', j) = {} /\ (acq'.status[j] = "Done" => item'[j].store)
  <2>1. CASE j = i
    <3>1. item'[j] = v.it /\ KeepsArchive(v)
      BY <1>1, <1>6, <2>1
    <3> QED
      BY <1>6, <2>1, <3>1 DEF Ruled, KeepsArchive
  <2>2. CASE j # i
    <3>1. item'[j] = item[j] /\ j \in live /\ j \in Items
      BY <1>1, <1>6, <2>2
    <3>2. OwnedBy(acq, j) = {} /\ (acq.status[j] = "Done" => item[j].store)
      BY <1>6, <3>1 DEF IInv, CompleteIsKept
    <3> QED
      BY <2>2, <3>1, <3>2 DEF Turned
  <2> QED
    BY <2>1, <2>2
<1>7. CompleteIsKept'
  BY <1>6 DEF CompleteIsKept
<1> QED
  BY <1>5, <1>7 DEF IInv

\* After ItemDone, the handler's verdict is carried out on its item alone, and
\* ToFetch moves with the number of QItems.
LEMMA ConcludeTurns ==
    ASSUME IInv, NEW q \in Queues, NEW e \in Hit(q), NEW v, Legal(v),
           NEW choice \in Choice, Conclude(q, e, v, ItemDone(acq, e), choice)
    PROVE  /\ Sound(acq') /\ e \in acq.qitems /\ e.owner \in Items /\ e.owner \in live
           /\ Turned(acq, acq', e.owner) /\ Ruled(acq', e.owner, v)
           /\ Cardinality(acq.qitems) \in Nat /\ Cardinality(acq'.qitems) \in Nat
           /\ acq'.toFetch = acq.toFetch - Cardinality(acq.qitems) + Cardinality(acq'.qitems)
<1> DEFINE i == e.owner
           s == ItemDone(acq, e)
<1>1. /\ TypeOK /\ Sound(acq) /\ acq \in AcqType /\ acq.toFetch \in Int
      /\ v \in Verdicts /\ v.status # "Fetching"
  BY DEF IInv, Sound, Legal, AcqType
<1>2. e \in acq.qitems /\ i \in Items /\ i \in live
  BY <1>1, HitType DEF AcqType, QItem, IInv, QueuedIsOpen
<1>3. /\ Sound(s) /\ OthersFed(acq, s, i) /\ Left(acq, s, i) /\ OwnedBy(s, i) = {}
      /\ s.toFetch = acq.toFetch - 1
  BY <1>1, <1>2, ItemDoneSound
<1> HIDE DEF s
<1>4. acq' = Apply(s, i, v, TRUE, choice)
  BY DEF Conclude, s
<1>5. Stays(s, acq', i, v.status) \/ (v.next # NoURI /\ Queued(s, acq', i))
  BY <1>1, <1>2, <1>3, <1>4, ApplySound
<1>6. Sound(acq')
  BY <1>5 DEF Stays, Queued
<1>7. \A j \in Items \ {i} : OwnedBy(s, j) = OwnedBy(acq, j)
                             /\ OwnedBy(acq', j) = OwnedBy(s, j)
  BY <1>3, <1>5 DEF Left, Stays, Queued, Joined, OwnedBy
<1>8. Turned(acq, acq', i)
  BY <1>3, <1>5, <1>7 DEF Turned, OthersFed, Stays, Queued
<1>9. Ruled(acq', i, v)
  <2>1. CASE Stays(s, acq', i, v.status)
    BY <1>3, <2>1 DEF Ruled, Stays, OwnedBy
  <2>2. CASE v.next # NoURI /\ Queued(s, acq', i)
    BY <2>2 DEF Ruled, Queued, Joined, OwnedBy
  <2> QED
    BY <1>5, <2>1, <2>2
<1>10. /\ Cardinality(acq.qitems) \in Nat
       /\ Cardinality(s.qitems) = Cardinality(acq.qitems) - 1
  BY <1>1, <1>3, LeftCount
<1>11. Cardinality(s.qitems) \in Nat
  BY <1>3, FS_CardinalityType DEF Sound
<1>12. CASE Stays(s, acq', i, v.status)
  BY <1>1, <1>2, <1>3, <1>6, <1>8, <1>9, <1>10, <1>11, <1>12 DEF Stays
<1>13. CASE v.next # NoURI /\ Queued(s, acq', i)
  <2>1. /\ Cardinality(acq'.qitems) = Cardinality(s.qitems) + 1
        /\ acq'.toFetch = s.toFetch + 1
    BY <1>3, <1>13, JoinedCount DEF Queued
  <2> QED
    BY <1>1, <1>2, <1>3, <1>6, <1>8, <1>9, <1>10, <1>11, <2>1
<1> QED
  BY <1>5, <1>12, <1>13

\* The handler of a final reply keeps the invariant.
LEMMA ConcludeKeeps ==
    ASSUME IInv, NEW q \in Queues, NEW code, Handling(q, code), NEW e \in Hit(q),
           NEW v, Legal(v), Conf[e.owner].kind = "archive" => KeepsArchive(v),
           NEW choice \in Choice, Conclude(q, e, v, ItemDone(acq, e), choice)
    PROVE  IInv'
<1> DEFINE i == e.owner
<1>1. TypeOK /\ v \in Verdicts
  BY DEF IInv, Legal
<1>2. /\ Sound(acq') /\ i \in Items /\ i \in live
      /\ Turned(acq, acq', i) /\ Ruled(acq', i, v)
      /\ Cardinality(acq.qitems) \in Nat /\ Cardinality(acq'.qitems) \in Nat
      /\ acq'.toFetch = acq.toFetch - Cardinality(acq.qitems) + Cardinality(acq'.qitems)
  BY ConcludeTurns
<1>3. UNCHANGED <<live, deleted, leaked, loop, runVars, methodVars>>
  BY DEF Handling
<1>4. Counted'
  <2>1. acq.toFetch = Cardinality(acq.qitems) + leaked /\ leaked \in Nat
    BY <1>1 DEF IInv, Counted, TypeOK
  <2> QED
    BY <1>2, <1>3, <2>1 DEF Counted
<1>5. item' = [item EXCEPT ![i] = v.it] /\ current' = [current EXCEPT ![q] = 0]
  BY DEF Conclude
<1>6. item' \in [Items -> ItemState] /\ current' \in [Queues -> Nat]
  BY <1>1, <1>2, <1>5 DEF TypeOK, Verdicts
<1>7. msgs' \in [Queues -> Seq(Reply)]
  BY <1>1, HandlingType
<1>8. TypeOK'
  BY <1>1, <1>2, <1>3, <1>6, <1>7 DEF TypeOK, runVars, methodVars, Sound
<1>9. live' = live \cup {i}
  BY <1>2, <1>3
<1> QED
  BY <1>2, <1>4, <1>5, <1>8, <1>9, RulingKeeps

\* An archive that is being answered is not complete yet.
LEMMA HitIncomplete ==
    ASSUME IInv, NEW q, NEW e \in Hit(q)
    PROVE  /\ e.owner \in Items /\ item[e.owner] \in ItemState
           /\ Conf[e.owner].kind = "archive" => ~item[e.owner].complete
<1>1. e \in acq.qitems /\ e.owner \in Items /\ e.owner \in live
  BY HitType DEF IInv, Sound, AcqType, QItem, QueuedIsOpen
<1>2. OwnedBy(acq, e.owner) # {}
  BY <1>1 DEF OwnedBy
<1> QED
  BY <1>1, <1>2 DEF IInv, TypeOK, CompleteIsKept

\* What a method of access a may lead item i's handler to decide.
Decides(i, it, a, v) ==
    \/ \E answer \in Answer : v = Done(i, it, a, answer)
    \/ \E transient, cached, err \in BOOLEAN, count \in Int :
          v = Failed(i, it, a, transient, count, cached, err)

\* Every decision on an item that is being answered is a verdict that keeps it.
LEMMA DecidesLegal ==
    ASSUME NEW i \in Items, NEW it \in ItemState, NEW a, NEW v, Decides(i, it, a, v),
           Conf[i].kind = "archive" => ~it.complete
    PROVE  Legal(v) /\ (Conf[i].kind = "archive" => KeepsArchive(v))
  BY DoneLegal, FailedLegal DEF Decides

\* A final reply, 201 or 400, ends in a decision of the item it hits.
LEMMA FinalConcludes ==
    ASSUME IInv, NEW q \in Queues, URIDone(q) \/ URIFailure(q)
    PROVE  \E code \in {201, 400}, e \in Hit(q), choice \in Choice, v \in Verdicts :
              /\ Handling(q, code) /\ Legal(v) /\ Decides(e.owner, item[e.owner], q[1], v)
              /\ Conf[e.owner].kind = "archive" => KeepsArchive(v)
              /\ Conclude(q, e, v, ItemDone(acq, e), choice)
<1>1. ASSUME NEW code \in {201, 400}, Handling(q, code), NEW e \in Hit(q),
             NEW choice \in Choice, NEW v, Decides(e.owner, item[e.owner], q[1], v),
             Conclude(q, e, v, ItemDone(acq, e), choice)
      PROVE  /\ Legal(v) /\ v \in Verdicts
             /\ Conf[e.owner].kind = "archive" => KeepsArchive(v)
  BY <1>1, HitIncomplete, DecidesLegal DEF Legal
<1>2. CASE URIDone(q)
  <2>1. Handling(q, 201)
    BY <1>2 DEF URIDone
  <2>2. PICK e \in Hit(q), choice \in Choice :
           Conclude(q, e, Done(e.owner, item[e.owner], q[1], Head(msgs[q]).arg),
                    ItemDone(acq, e), choice)
    BY <1>2 DEF URIDone
  <2> DEFINE v == Done(e.owner, item[e.owner], q[1], Head(msgs[q]).arg)
  <2>3. Head(msgs[q]).arg \in Answer
    BY <2>1, HandlingType DEF IInv, Reply
  <2>4. Decides(e.owner, item[e.owner], q[1], v)
    BY <2>3 DEF Decides
  <2> HIDE DEF v
  <2>5. Conclude(q, e, v, ItemDone(acq, e), choice)
    BY <2>2 DEF v
  <2> QED
    BY <1>1, <2>1, <2>4, <2>5
<1>3. CASE URIFailure(q)
  <2>1. Handling(q, 400)
    BY <1>3 DEF URIFailure
  <2>2. PICK e \in Hit(q), choice \in Choice, cached \in Cached :
           LET s == ItemDone(acq, e) IN
           Conclude(q, e, Failed(e.owner, item[e.owner], q[1],
                                 Head(msgs[q]).arg = "transient",
                                 s.counter[e.owner], cached, s.error), s, choice)
    BY <1>3 DEF URIFailure
  <2> DEFINE s == ItemDone(acq, e)
             tr == Head(msgs[q]).arg = "transient"
             v == Failed(e.owner, item[e.owner], q[1], tr, s.counter[e.owner], cached, s.error)
  <2>3. s.counter[e.owner] \in Int /\ s.error \in BOOLEAN
    <3>1. e \in acq.qitems /\ e.owner \in Items
      BY HitType, HitIncomplete
    <3>2. Sound(s)
      BY <3>1, ItemDoneSound DEF IInv
    <3> HIDE DEF s
    <3> QED
      BY <3>1, <3>2 DEF Sound, AcqType
  <2>4. cached \in BOOLEAN /\ tr \in BOOLEAN
    BY AcquireAssumption
  <2> HIDE DEF s, tr
  <2>5. Decides(e.owner, item[e.owner], q[1], v)
    BY <2>3, <2>4 DEF Decides
  <2> HIDE DEF v
  <2>6. Conclude(q, e, v, ItemDone(acq, e), choice)
    BY <2>2 DEF v, s, tr
  <2> QED
    BY <1>1, <2>1, <2>5, <2>6
<1> QED
  BY <1>2, <1>3

\* 201 URI Done and 400 URI Failure: ItemDone, then the item's handler.
LEMMA FinalKeeps == ASSUME IInv, NEW q \in Queues, URIDone(q) \/ URIFailure(q) PROVE IInv'
<1>1. PICK code \in {201, 400}, e \in Hit(q), choice \in Choice, v \in Verdicts :
         /\ Handling(q, code) /\ Legal(v)
         /\ Conf[e.owner].kind = "archive" => KeepsArchive(v)
         /\ Conclude(q, e, v, ItemDone(acq, e), choice)
  BY FinalConcludes
<1> QED
  BY <1>1, ConcludeKeeps

\* Constructing an item carries out its constructor's verdict on it alone.
LEMMA NewItemTurns ==
    ASSUME IInv, NEW i \in Items, NewItem(i)
    PROVE  \E choice \in Choice, v \in Verdicts, cached \in BOOLEAN :
              /\ v = Constructed(i, cached, acq.error) /\ Legal(v)
              /\ Conf[i].kind = "archive" => KeepsArchive(v)
              /\ acq' = [Apply(acq, i, v, FALSE, choice) EXCEPT
                            !.error = @ \/ (v.next = NoURI /\ v.status = "Idle")]
              /\ item' = [item EXCEPT ![i] = v.it]
              /\ Sound(acq') /\ OwnedBy(acq, i) = {} /\ i \notin live
              /\ Turned(acq, acq', i) /\ Ruled(acq', i, v)
              /\ Cardinality(acq.qitems) \in Nat /\ Cardinality(acq'.qitems) \in Nat
              /\ acq'.toFetch = acq.toFetch - Cardinality(acq.qitems) + Cardinality(acq'.qitems)
<1>1. TypeOK /\ Sound(acq) /\ i \notin live \cup deleted /\ acq.toFetch \in Int
  BY DEF IInv, NewItem, Sound, AcqType
<1>2. PICK choice \in Choice, cached \in Cached :
         LET v == Constructed(i, cached, acq.error)
         IN /\ acq' = [Apply(acq, i, v, FALSE, choice) EXCEPT
                         !.error = @ \/ (v.next = NoURI /\ v.status = "Idle")]
            /\ item' = [item EXCEPT ![i] = v.it]
  BY DEF NewItem
<1> DEFINE v == Constructed(i, cached, acq.error)
           t == Apply(acq, i, v, FALSE, choice)
<1>3. Legal(v) /\ (Conf[i].kind = "archive" => KeepsArchive(v)) /\ cached \in BOOLEAN
  BY AcquireAssumption, ConstructedLegal
<1>4. v \in Verdicts /\ v.status # "Fetching" /\ v = Constructed(i, cached, acq.error)
  BY <1>3 DEF Legal
<1> HIDE DEF v
<1>5. OwnedBy(acq, i) = {}
  BY <1>1 DEF IInv, QueuedIsOpen, OwnedBy
<1>6. Stays(acq, t, i, v.status) \/ (v.next # NoURI /\ Queued(acq, t, i))
  BY <1>1, <1>4, <1>5, ApplySound
<1> HIDE DEF t
<1>7. Sound(t) /\ t \in AcqType
  BY <1>6 DEF Stays, Queued, Sound
<1>8. /\ Sound(acq') /\ acq'.qitems = t.qitems /\ acq'.status = t.status
      /\ acq'.toFetch = t.toFetch /\ \A j \in Items : OwnedBy(acq', j) = OwnedBy(t, j)
  <2>1. t.toFetch \in Int /\ t.status \in [Items -> Status] /\ t.error \in BOOLEAN
    BY <1>7 DEF AcqType
  <2>2. PICK b \in BOOLEAN : b = (t.error \/ (v.next = NoURI /\ v.status = "Idle"))
    OBVIOUS
  <2>3. acq' = [t EXCEPT !.error = @ \/ (v.next = NoURI /\ v.status = "Idle")]
    BY <1>2 DEF v, t
  <2>4. acq' = [t EXCEPT !.error = b]
    BY <1>7, <2>2, <2>3 DEF AcqType
  <2>5. acq' = Recount(t, t.toFetch, t.status, b)
    BY <1>7, <2>4 DEF AcqType, Recount
  <2> QED
    BY <1>7, <2>1, <2>5, RecountSound
<1>9. \A j \in Items \ {i} : OwnedBy(t, j) = OwnedBy(acq, j)
  BY <1>6 DEF Stays, Queued, Joined, OwnedBy
<1>10. Turned(acq, acq', i)
  BY <1>6, <1>8, <1>9 DEF Turned, OthersFed, Stays, Queued
<1>11. Ruled(acq', i, v)
  <2>1. CASE Stays(acq, t, i, v.status)
    BY <1>5, <1>8, <2>1 DEF Ruled, Stays, OwnedBy
  <2>2. CASE v.next # NoURI /\ Queued(acq, t, i)
    BY <1>8, <2>2 DEF Ruled, Queued, Joined, OwnedBy
  <2> QED
    BY <1>6, <2>1, <2>2
<1>12. /\ acq' = [Apply(acq, i, v, FALSE, choice) EXCEPT
                     !.error = @ \/ (v.next = NoURI /\ v.status = "Idle")]
       /\ item' = [item EXCEPT ![i] = v.it]
  BY <1>2 DEF v
<1>13. Cardinality(acq.qitems) \in Nat
  BY <1>1, FS_CardinalityType DEF Sound
<1>14. /\ Cardinality(acq'.qitems) \in Nat
       /\ acq'.toFetch = acq.toFetch - Cardinality(acq.qitems) + Cardinality(acq'.qitems)
  <2>1. CASE Stays(acq, t, i, v.status)
    BY <1>1, <1>8, <1>13, <2>1 DEF Stays
  <2>2. CASE v.next # NoURI /\ Queued(acq, t, i)
    <3>1. /\ Cardinality(t.qitems) = Cardinality(acq.qitems) + 1
          /\ t.toFetch = acq.toFetch + 1
      BY <1>1, <2>2, JoinedCount DEF Queued
    <3> QED
      BY <1>1, <1>8, <1>13, <3>1
  <2> QED
    BY <1>6, <2>1, <2>2
<1> QED
  BY <1>1, <1>3, <1>4, <1>5, <1>8, <1>10, <1>11, <1>12, <1>13, <1>14

\* Constructing an item queues it, or finds it in the cache.
LEMMA NewItemKeeps == ASSUME IInv, NEW i \in Items, NewItem(i) PROVE IInv'
<1>1. PICK choice \in Choice, v \in Verdicts, cached \in BOOLEAN :
         /\ Legal(v) /\ (Conf[i].kind = "archive" => KeepsArchive(v))
         /\ item' = [item EXCEPT ![i] = v.it]
         /\ Sound(acq') /\ Turned(acq, acq', i) /\ Ruled(acq', i, v)
         /\ Cardinality(acq.qitems) \in Nat /\ Cardinality(acq'.qitems) \in Nat
         /\ acq'.toFetch = acq.toFetch - Cardinality(acq.qitems) + Cardinality(acq'.qitems)
  BY NewItemTurns
<1>2. TypeOK /\ i \notin live \cup deleted /\ live' = live \cup {i}
      /\ UNCHANGED <<deleted, leaked, current, msgs, loop, runVars, methodVars>>
  BY DEF IInv, NewItem
<1>3. Counted'
  <2>1. acq.toFetch = Cardinality(acq.qitems) + leaked /\ leaked \in Nat
    BY <1>2 DEF IInv, Counted, TypeOK
  <2> QED
    BY <1>1, <1>2, <2>1 DEF Counted
<1>4. item' \in [Items -> ItemState]
  BY <1>1, <1>2 DEF TypeOK, Verdicts
<1>5. TypeOK'
  BY <1>1, <1>2, <1>4 DEF TypeOK, runVars, methodVars, Sound
<1> QED
  BY <1>1, <1>2, <1>3, <1>5, RulingKeeps

\* Deleting an item dequeues it.
LEMMA DropItemKeeps == ASSUME IInv, NEW i \in Items, DropItem(i) PROVE IInv'
<1>1. /\ TypeOK /\ Sound(acq) /\ acq' = Dequeue(acq, i) /\ acq.status[i] # "Fetching"
      /\ i \in live /\ live' = live \ {i} /\ deleted' = deleted \cup {i}
      /\ UNCHANGED <<item, leaked, current, msgs, loop, runVars, methodVars>>
  BY DEF IInv, DropItem
<1>2. /\ Sound(acq') /\ acq'.status = acq.status
      /\ \/ /\ OwnedBy(acq, i) = {} /\ acq'.qitems = acq.qitems
            /\ acq'.toFetch = acq.toFetch
         \/ /\ Left(acq, acq', i) /\ OwnedBy(acq', i) = {}
            /\ acq'.toFetch = acq.toFetch - 1
  BY <1>1, DequeueSound
<1>3. /\ OwnedBy(acq', i) = {} /\ acq'.qitems \subseteq acq.qitems
      /\ \A j \in Items \ {i} : OwnedBy(acq', j) = OwnedBy(acq, j)
  BY <1>2 DEF Left, OwnedBy
<1>4. Counted'
  <2>1. acq.toFetch = Cardinality(acq.qitems) + leaked /\ leaked \in Nat
    BY <1>1 DEF IInv, Counted, TypeOK
  <2>2. CASE acq'.qitems = acq.qitems /\ acq'.toFetch = acq.toFetch
    BY <1>1, <2>1, <2>2 DEF Counted
  <2>3. CASE Left(acq, acq', i) /\ acq'.toFetch = acq.toFetch - 1
    <3>1. /\ Cardinality(acq.qitems) \in Nat
          /\ Cardinality(acq'.qitems) = Cardinality(acq.qitems) - 1
      BY <1>1, <2>3, LeftCount
    <3> QED
      BY <1>1, <2>1, <2>3, <3>1 DEF Counted
  <2> QED
    BY <1>2, <2>2, <2>3
<1>5. live \subseteq Items
  BY <1>1 DEF TypeOK
<1>6. QueuedIsOpen'
  <2>1. \A e \in acq'.qitems : e.owner # i
    BY <1>3 DEF OwnedBy
  <2> QED
    BY <1>1, <1>2, <1>3, <1>5, <2>1 DEF IInv, QueuedIsOpen
<1>7. CompleteIsKept'
  BY <1>1, <1>2, <1>3, <1>5 DEF IInv, CompleteIsKept
<1>8. TypeOK'
  BY <1>1, <1>2 DEF TypeOK, runVars, methodVars, Sound
<1> QED
  BY <1>2, <1>4, <1>6, <1>7, <1>8 DEF IInv

\* pkgAcquire::Shutdown uncounts all but the items being fetched.
LEMMA ShutdownKeeps == ASSUME IInv, Shutdown PROVE IInv'
<1> DEFINE stuck == {i \in live : acq.status[i] = "Fetching"}
<1>1. /\ TypeOK /\ Sound(acq) /\ acq' = ObjectShutdown(acq, live)
      /\ leaked' = leaked + Cardinality(stuck) /\ live' = {}
      /\ deleted' = deleted \cup live /\ ForgetChildren({})
      /\ UNCHANGED <<item, msgs, loop, runVars>>
  BY DEF IInv, Shutdown
<1>2. /\ Sound(acq') /\ acq'.qitems = {}
      /\ Cardinality(stuck) \in Nat /\ Cardinality(acq.qitems) \in Nat
      /\ acq'.toFetch = acq.toFetch - Cardinality(acq.qitems) + Cardinality(stuck)
  <2>1. live \in SUBSET Items
    BY <1>1 DEF TypeOK
  <2>2. /\ \A e \in acq.qitems : e.owner \in live
        /\ \A i \in live : acq.status[i] = "Fetching" => OwnedBy(acq, i) # {}
    BY DEF IInv, QueuedIsOpen
  <2> QED
    BY <1>1, <2>1, <2>2, ObjectShutdownSound
<1> HIDE DEF stuck
<1>3. Counted'
  <2>1. acq.toFetch = Cardinality(acq.qitems) + leaked /\ leaked \in Nat
    BY <1>1 DEF IInv, Counted, TypeOK
  <2>2. Cardinality(acq'.qitems) = 0
    BY <1>2, FS_EmptySet
  <2> QED
    BY <1>1, <1>2, <2>1, <2>2 DEF Counted
<1>4. QueuedIsOpen' /\ CompleteIsKept'
  BY <1>1, <1>2 DEF QueuedIsOpen, CompleteIsKept
<1>5. /\ current' \in [Queues -> Nat] /\ pipe' \in [Queues -> Seq(Request)]
      /\ fetch' \in [Queues -> Seq(Request)] /\ answers' \in [Queues -> Seq(Reply)]
      /\ begun' \subseteq Queues /\ died' \subseteq Queues
  BY <1>1, ForgetType
<1>6. leaked' \in Nat
  BY <1>1, <1>2 DEF TypeOK
<1>7. TypeOK'
  BY <1>1, <1>2, <1>5, <1>6 DEF TypeOK, runVars, Sound
<1> QED
  BY <1>2, <1>3, <1>4, <1>7 DEF IInv

-----------------------------------------------------------------------------
(* The invariant and what follows from it.                                  *)

\* IInv is inductive: one step per action.
LEMMA NextKeeps == ASSUME IInv, [Next]_vars PROVE IInv'
<1>1. CASE Run
  BY <1>1, RunKeeps
<1>2. CASE Shutdown
  BY <1>2, ShutdownKeeps
<1>3. ASSUME NEW i \in Items, NewItem(i) \/ DropItem(i)
      PROVE  IInv'
  BY <1>3, NewItemKeeps, DropItemKeeps
<1>4. CASE Select \/ EndRound
  BY <1>4, SelectKeeps, EndRoundKeeps
<1>5. CASE Break \/ Cancel \/ Fetched
  BY <1>5, LeavingKeeps
<1>6. ASSUME NEW q \in Queues, StartQueue(q) \/ InReady(q) \/ OutReady(q)
      PROVE  IInv'
  BY <1>6, StartQueueKeeps, InReadyKeeps, OutReadyKeeps
<1>7. ASSUME NEW q \in Queues, RunMessage(q)
      PROVE  IInv'
  BY <1>7, RedirectedKeeps, URIStartKeeps, FinalKeeps
     DEF RunMessage
<1>8. ASSUME NEW q \in Queues, MethodStep(q) \/ SendStart(q) \/ Redirect(q) \/ Die(q)
      PROVE  IInv'
  BY <1>8, ReceiveKeeps, AnsweredKeeps, SendStartKeeps, RedirectKeeps, DieKeeps
     DEF MethodStep
<1>9. CASE UNCHANGED vars
  BY <1>9 DEF vars, IInv, TypeOK, QueuedIsOpen, Counted, CompleteIsKept, OwnedBy
<1> QED
  BY <1>1, <1>2, <1>3, <1>4, <1>5, <1>6, <1>7, <1>8, <1>9 DEF Next, LoopStep

\* IInv holds in every reachable state.
THEOREM Invariance == Spec => []IInv
<1>1. Init => IInv
  BY InitKeeps
<1>2. IInv /\ [Next]_vars => IInv'
  BY NextKeeps
<1> QED
  BY <1>1, <1>2, PTL DEF Spec

\* Every variable keeps its type, whatever the items, queues and methods.
THEOREM TypeCorrect == Spec => []TypeOK
<1>1. IInv => TypeOK
  BY DEF IInv
<1> QED
  BY <1>1, Invariance, PTL

\* ToFetch is the number of queued items, plus the fetching items a Shutdown
\* dropped: Run's loop (while Owner->ToFetch > 0) ends exactly when nothing is
\* queued, and an item is queued at most once.
THEOREM ToFetchCounts == Spec => []ToFetchExact
<1>1. IInv => ToFetchExact
  <2> SUFFICES ASSUME IInv PROVE ToFetchExact
    OBVIOUS
  <2>1. ASSUME NEW i \in Items
        PROVE  acq.counter[i] = Cardinality(OwnedBy(acq, i)) /\ acq.counter[i] <= 1
    <3>1. CASE OwnedBy(acq, i) = {} /\ acq.counter[i] = 0
      BY <3>1, FS_EmptySet
    <3>2. ASSUME NEW e, OwnedBy(acq, i) = {e}, acq.counter[i] = 1
          PROVE  acq.counter[i] = Cardinality(OwnedBy(acq, i)) /\ acq.counter[i] <= 1
      <4>1. Cardinality({e}) = 1
        BY FS_Singleton
      <4> QED
        BY <3>2, <4>1
    <3> QED
      BY <3>1, <3>2 DEF IInv, Sound, AtMostOnce
  <2> QED
    BY <2>1 DEF IInv, Counted, ToFetchExact
<1> QED
  BY <1>1, Invariance, PTL

\* What waits in a queue is idle or being fetched and belongs to a live item;
\* what is being fetched is queued.
THEOREM QueuedAreOpen == Spec => []QueuedIsOpen
<1>1. IInv => QueuedIsOpen
  BY DEF IInv
<1> QED
  BY <1>1, Invariance, PTL

\* A Run that returns Continue leaves no item queued, and an archive has its
\* StoreFilename exactly if it arrived complete and Done.
THEOREM ContinueSettles == Spec => ContinueMeansSettled
<1> DEFINE Left0 == acq'.qitems = {}
           Kept  == \A i \in live : Conf[i].kind = "archive" =>
                       (item'[i].store <=> acq'.status[i] = "Done" /\ item'[i].complete)
<1>1. ASSUME IInv, [Next]_vars, Running, loop'.pc = "idle", result' = "Continue"
      PROVE  Left0 /\ Kept
  <2>1. Fetched
    <3>1. CASE Break \/ Cancel
      BY <1>1, <3>1 DEF Break, Cancel, Leave
    <3>2. CASE Run \/ Shutdown \/ (\E i \in Items : NewItem(i) \/ DropItem(i))
      BY <1>1, <3>2 DEF Run, Shutdown, NewItem, DropItem, Running, At
    <3>3. CASE Select \/ EndRound
      <4>1. loop \in LoopState
        BY <1>1 DEF IInv, TypeOK
      <4> QED
        BY <1>1, <3>3, <4>1 DEF Select, EndRound, LoopState
    <3>4. ASSUME NEW q \in Queues, StartQueue(q) \/ InReady(q) \/ OutReady(q)
          PROVE  FALSE
      <4>1. loop \in LoopState
        BY <1>1 DEF IInv, TypeOK
      <4> QED
        BY <1>1, <3>4, <4>1
           DEF StartQueue, InReady, OutReady, Ticked, LoopState, Running, At
    <3>5. ASSUME NEW q \in Queues, RunMessage(q)
          PROVE  FALSE
      BY <1>1, <3>5 DEF RunMessage, Redirected, URIStart, URIDone,
                        URIFailure, Handling, Running, At
    <3>6. ASSUME NEW q \in Queues, MethodStep(q) \/ SendStart(q) \/ Redirect(q) \/ Die(q)
          PROVE  FALSE
      BY <1>1, <3>6 DEF MethodStep, Receive, Answered, SendStart, Redirect, Die,
                        otherVars, Running, At
    <3>7. CASE UNCHANGED vars
      BY <1>1, <3>7 DEF vars, Running, At
    <3> QED
      BY <1>1, <3>1, <3>2, <3>3, <3>4, <3>5, <3>6, <3>7 DEF Next, LoopStep
  <2>2. acq.toFetch = 0 /\ Leave("Continue")
    BY <2>1 DEF Fetched
  <2>3. IInv' /\ acq'.qitems = acq.qitems /\ acq'.status = acq.status
    BY <1>1, <2>2, LeaveKeeps
  <2>4. acq.qitems = {}
    <3>1. /\ acq.toFetch = Cardinality(acq.qitems) + leaked /\ leaked \in Nat
          /\ IsFiniteSet(acq.qitems)
      BY <1>1 DEF IInv, Counted, TypeOK, Sound
    <3>2. Cardinality(acq.qitems) \in Nat
      BY <3>1, FS_CardinalityType
    <3>3. Cardinality(acq.qitems) = 0
      BY <2>2, <3>1, <3>2
    <3> QED
      BY <3>1, <3>3, FS_EmptySet
  <2>5. Kept
    <3>1. live \subseteq Items /\ item \in [Items -> ItemState]
      BY <1>1 DEF IInv, TypeOK
    <3>2. item' = [i \in Items |-> IF i \in live THEN Finished(i, item[i], acq.status[i])
                                                  ELSE item[i]]
      BY <2>2 DEF Leave
    <3>3. \A i \in live : item'[i].complete = item[i].complete
                          /\ (item'[i].store <=> /\ item[i].store /\ item[i].complete
                                                 /\ acq.status[i] = "Done")
      BY <3>1, <3>2 DEF Finished, ItemState
    <3> QED
      BY <1>1, <2>3, <3>3 DEF IInv, CompleteIsKept
  <2> QED
    BY <2>3, <2>4, <2>5
<1>2. IInv /\ [Next]_vars => [Running /\ loop'.pc = "idle" /\ result' = "Continue"
                              => Left0 /\ Kept]_vars
  BY <1>1
<1> QED
  BY <1>2, Invariance, PTL DEF Spec, ContinueMeansSettled
=============================================================================
