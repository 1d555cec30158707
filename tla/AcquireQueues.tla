---------------------------- MODULE AcquireQueues ----------------------------
(***************************************************************************)
(* The pkgAcquire object as a record, and what Queue and pkgAcquire do to  *)
(* it (apt-pkg/acquire.cc): naming, creating and starting queues, queueing *)
(* and dequeueing items, and handing idle items to a worker.  Everything   *)
(* here runs within one step of the select loop or of the caller; module   *)
(* Acquire has the steps.                                                  *)
(***************************************************************************)
EXTENDS AcquireItem, Integers, FiniteSets, FiniteSetsExt

CONSTANTS
    HostOf,      \* [URI -> host part of the URI]
    NoHost,      \* the host part of a queue named after the access method only
    QueueMode,   \* Acquire::Queue-Mode: "host" or "access"
    Preferred,   \* URIs that start with the PreferredURI their method announces
    PipeLimit,   \* MaxPipeDepth of a pipelining method (10 in the code)
    StartOK,     \* SUBSET BOOLEAN, whether a method process may (fail to) start
    Garbage      \* SUBSET BOOLEAN, what an uninitialised QItem.Worker may equal

Hosts  == {HostOf[u] : u \in URI} \cup {NoHost}
Queues == {AccessOf[u] : u \in URI} \X Hosts

ASSUME QueueAssumption ==
    /\ QueueMode \in {"host", "access"}
    /\ Preferred \subseteq URI
    /\ PipeLimit \in Nat \ {0}
    /\ StartOK \subseteq BOOLEAN /\ Garbage \subseteq BOOLEAN

(* The pkgAcquire object.  A queue's QItems are the elements of qitems with *)
(* its name, in the order of pos; tail is the position of its last append.  *)
(* mine holds the QItems whose Worker field equals the queue's worker.      *)

QItem   == [queue: Queues, pos: Nat \ {0}, owner: Items, uri: URI]
Request == [uri: URI, owner: Items]

AcqType == [qitems: SUBSET QItem, mine: SUBSET QItem, tail: [Queues -> Nat],
            status: [Items -> Status], counter: [Items -> Int],
            made: SUBSET Queues, worker: [Queues -> {"none", "live", "dead"}],
            depth: [Queues -> Int], maxDepth: [Queues -> Nat],
            toFetch: Int, out: [Queues -> Seq(Request)], error: BOOLEAN,
            configs: SUBSET Access, known: SUBSET Access,
            donePreferred: SUBSET Access]

NewAcquire ==
    [qitems |-> {}, mine |-> {}, tail |-> [q \in Queues |-> 0],
     status |-> [i \in Items |-> "Idle"], counter |-> [i \in Items |-> 0],
     made |-> {}, worker |-> [q \in Queues |-> "none"],
     depth |-> [q \in Queues |-> 0], maxDepth |-> [q \in Queues |-> 1],
     toFetch |-> 0, out |-> [q \in Queues |-> <<>>], error |-> FALSE,
     configs |-> {}, known |-> {}, donePreferred |-> {}]

QItemsOf(s, q) == {e \in s.qitems : e.queue = q}
OwnedBy(s, i)  == {e \in s.qitems : e.owner = i}

\* The flags of an access method are known once one of its processes has sent
\* 100 Capabilities; a config left behind by a failed probe has the defaults.
Single(s, a) == a \in s.known /\ Method[a].single

QueueName(s, u) ==
    LET a == AccessOf[u] IN
    IF Single(s, a) \/ QueueMode = "access" THEN <<a, NoHost>> ELSE <<a, HostOf[u]>>

-----------------------------------------------------------------------------
(* Queue::Cycle hands idle QItems to the worker until the pipe is full,     *)
(* those of the preferred URI first.  A worker whose process is gone takes  *)
(* one item and the loop gives up.                                          *)

UsePreferred(s, q) ==
    q[1] \in s.known \ s.donePreferred /\ Method[q[1]].preferred

First(s, q, e) == UsePreferred(s, q) /\ e.uri \in Preferred

Before(s, q, e, f) ==
    \/ First(s, q, e) /\ ~First(s, q, f)
    \/ First(s, q, e) = First(s, q, f) /\ e.pos < f.pos

IdleIn(s, q) == {e \in QItemsOf(s, q) : s.status[e.owner] = "Idle"}

Room(s, q) ==
    LET free == s.maxDepth[q] - s.depth[q] IN
    IF s.worker[q] = "dead" /\ free > 1 THEN 1 ELSE free

\* How many idle QItems the scan meets before e.
Rank(s, q, e) == Cardinality({f \in IdleIn(s, q) : Before(s, q, f, e)})

Picked(s, q) == {e \in IdleIn(s, q) : Rank(s, q, e) < Room(s, q)}

\* Variant with a bug: OutQueue is assigned, not appended to, while handing out.
Requests_Last(s, q, picked) ==
    [k \in 1..(IF picked = {} THEN 0 ELSE 1) |->
        LET e == CHOOSE e \in picked : Rank(s, q, e) = Cardinality(picked) - 1
        IN [uri |-> e.uri, owner |-> e.owner]]

Requests(s, q, picked) ==
    [k \in 1..Cardinality(picked) |->
        LET e == CHOOSE e \in picked : Rank(s, q, e) = k - 1
        IN [uri |-> e.uri, owner |-> e.owner]]

Give(s, q, picked) ==
    [s EXCEPT
        !.mine   = @ \cup picked,
        !.status = [i \in Items |->
                       IF \E e \in picked : e.owner = i THEN "Fetching" ELSE @[i]],
        !.depth[q] = @ + Cardinality(picked),
        !.out[q] = IF s.worker[q] = "live" THEN @ \o Requests(s, q, picked) ELSE @,
        !.donePreferred =
            IF /\ UsePreferred(s, q)
               /\ Cardinality({e \in IdleIn(s, q) : First(s, q, e)}) < Room(s, q)
            THEN @ \cup {q[1]} ELSE @]

Cycle(s, q) ==
    IF QItemsOf(s, q) = {} \/ s.worker[q] = "none" THEN s
    ELSE IF s.depth[q] < 0 THEN [s EXCEPT !.error = TRUE]
    ELSE Give(s, q, Picked(s, q))

Bump(s) == FoldSet(LAMBDA q, t : Cycle(t, q), s, s.made)

\* Queue::Startup; ok: the process starts and announces its capabilities.
Startup(s, q, ok) ==
    IF s.worker[q] # "none" THEN Cycle(s, q)
    ELSE IF ~ok THEN [s EXCEPT !.worker[q] = "dead", !.error = TRUE]
    ELSE Cycle([s EXCEPT !.worker[q] = "live", !.known = @ \cup {q[1]},
                         !.maxDepth[q] = IF Method[q[1]].pipeline THEN PipeLimit ELSE 1],
               q)

-----------------------------------------------------------------------------
(* pkgAcquire::Enqueue.  choice holds what the environment decides:         *)
(* whether the probe of GetConfig and a new queue's process start, and      *)
(* whether the new QItem's Worker field happens to equal the worker.        *)

Choice == [probe: StartOK, start: StartOK, garbage: Garbage]

Append1(s, q, i, u, garbage) ==
    LET pos == IF QItemsOf(s, q) = {} THEN 1 ELSE s.tail[q] + 1
        e   == [queue |-> q, pos |-> pos, owner |-> i, uri |-> u]
    IN [s EXCEPT !.qitems = @ \cup {e}, !.tail[q] = pos,
                 !.mine = IF garbage THEN @ \cup {e} ELSE @,
                 !.status[i] = "Idle", !.counter[i] = @ + 1]

\* The queue's pipe is cycled only for a QItem that is alone in the queue.
QueueEnqueue(s, q, i, u, garbage) ==
    LET t == Append1(s, q, i, u, garbage) IN
    IF QItemsOf(s, q) = {} THEN Cycle(t, q) ELSE t

GetConfig(s, a, probe) ==
    IF a \in s.configs THEN s
    ELSE IF probe THEN [s EXCEPT !.configs = @ \cup {a}, !.known = @ \cup {a}]
    ELSE [s EXCEPT !.configs = @ \cup {a}, !.error = TRUE]

MakeQueue(s, q, running, ok) ==
    IF q \in s.made THEN s
    ELSE LET t == [s EXCEPT !.made = @ \cup {q}] IN
         IF running THEN Startup(t, q, ok) ELSE t

Enqueue(s, i, u, running, choice) ==
    LET a == AccessOf[u]
        t == GetConfig(s, a, choice.probe)
        q == QueueName(t, u)
        m == MakeQueue(t, q, running, choice.start)
        n == QueueEnqueue(m, q, i, u, choice.garbage)
    IN IF a \notin s.configs /\ ~choice.probe THEN t
       ELSE [n EXCEPT !.toFetch = @ + 1]

\* Queue::Dequeue refuses an item that is being fetched.
QueueDequeue(s, i, from) ==
    LET gone == {e \in OwnedBy(s, i) : e.queue \in from} IN
    IF s.status[i] = "Fetching" THEN [s EXCEPT !.error = @ \/ from # {}]
    ELSE [s EXCEPT !.qitems = @ \ gone, !.mine = @ \ gone,
                   !.counter[i] = @ - Cardinality(gone)]

Dequeue(s, i) ==
    [QueueDequeue(s, i, s.made) EXCEPT
        !.toFetch = IF s.status[i] # "Fetching" /\ OwnedBy(s, i) # {} THEN @ - 1 ELSE @]

\* Variant with a bug: PipeDepth is not given back.
ItemDone_NoDepth(s, e) ==
    LET i == e.owner IN
    Cycle(Dequeue([s EXCEPT !.status[i] = IF @ = "Fetching" THEN "Done" ELSE @], i), e.queue)

ItemDone(s, e) ==
    LET i == e.owner
        t == [s EXCEPT !.depth[e.queue] = @ - 1,
                       !.status[i] = IF @ = "Fetching" THEN "Done" ELSE @]
    IN Cycle(IF t.counter[i] <= 1 THEN Dequeue(t, i)
             ELSE Bump(QueueDequeue(t, i, {e.queue})), e.queue)

\* Variant with a bug: the handler sets Status after QueueURI.
Apply_StatusLast(s, i, v, running, choice) ==
    LET d == IF v.dequeue THEN Dequeue(s, i) ELSE s
        n == IF v.next = NoURI THEN d ELSE Enqueue(d, i, v.next, running, choice)
    IN [n EXCEPT !.status[i] = v.status]

\* What a handler decided: Status, Dequeue and then QueueURI.
Apply(s, i, v, running, choice) ==
    LET t == [s EXCEPT !.status[i] = v.status]
        d == IF v.dequeue THEN Dequeue(t, i) ELSE t
    IN IF v.next = NoURI THEN d ELSE Enqueue(d, i, v.next, running, choice)

\* Variant with a bug: the last match, not the first.
FindItem_Last(s, q, u) ==
    LET hits == {e \in QItemsOf(s, q) : e.uri = u /\ e \in s.mine} IN
    {e \in hits : \A f \in hits : e.pos >= f.pos}

\* Queue::FindItem: the first QItem of this worker with this URI (at most one).
FindItem(s, q, u) ==
    LET hits == {e \in QItemsOf(s, q) : e.uri = u /\ e \in s.mine} IN
    {e \in hits : \A f \in hits : e.pos <= f.pos}

MethodFailure(s, q) ==
    [s EXCEPT !.worker[q] = "dead", !.out[q] = <<>>, !.error = TRUE]

\* Queue::Shutdown(false) of every queue deletes the workers outside kept; what
\* is left of the queues stays.  A QItem of a deleted worker may match the next
\* one's address (stale).
ShutdownQueues(s, kept, stale) ==
    [s EXCEPT !.worker = [q \in Queues |-> IF q \in kept THEN @[q] ELSE "none"],
              !.out    = [q \in Queues |-> IF q \in kept THEN @[q] ELSE <<>>],
              !.mine   = IF stale THEN @ ELSE {e \in @ : e.queue \in kept}]

\* Variant with a bug: the queues are emptied before the items dequeue themselves.
ObjectShutdown_NoCount(s, live) ==
    [NewAcquire EXCEPT !.toFetch = s.toFetch, !.error = s.error, !.configs = s.configs,
                       !.known = s.known, !.donePreferred = s.donePreferred]

\* pkgAcquire::Shutdown deletes every item, each dequeueing itself, and then the
\* queues with what is left in them.
ObjectShutdown(s, live) ==
    LET stuck == {i \in live : s.status[i] = "Fetching"}
        freed == {i \in live \ stuck : OwnedBy(s, i) # {}}
    IN [NewAcquire EXCEPT !.toFetch = s.toFetch - Cardinality(freed),
                          !.error = s.error \/ (stuck # {} /\ s.made # {}),
                          !.configs = s.configs, !.known = s.known,
                          !.donePreferred = s.donePreferred]
=============================================================================
