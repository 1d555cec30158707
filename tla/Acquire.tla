------------------------------- MODULE Acquire -------------------------------
(***************************************************************************)
(* pkgAcquire: the download scheduler, its workers and the method          *)
(* processes they drive (apt-pkg/acquire.cc, acquire-worker.cc and the     *)
(* request queue of acquire-method.cc).                                    *)
(*                                                                         *)
(* One process runs pkgAcquire::Run, a select loop; every queue has a      *)
(* worker, and every worker a child process it talks to over two pipes.    *)
(* The loop's steps interleave with the children's at the granularity of a *)
(* read, a write and a message handled.                                    *)
(***************************************************************************)
EXTENDS AcquireQueues

CONSTANTS
    Redirects,   \* [URI -> SUBSET URI], where a server may redirect a request
    Outcomes,    \* how a request may end: Answer or FailKind
    Cached,      \* SUBSET BOOLEAN, whether an archive may already be in the cache
    MayDie,      \* a method process may die
    MayCancel,   \* pkgAcquireStatus::Pulse may return false
    MaxRuns      \* bound on the number of calls of Run

FailKind == {"transient", "permanent"}

\* No redirect leaves its queue's method, and only a pipelining method sees one.
ASSUME AcquireAssumption ==
    /\ Redirects \in [URI -> SUBSET URI]
    /\ \A u \in URI : \A v \in Redirects[u] :
          AccessOf[v] = AccessOf[u] /\ Method[AccessOf[u]].pipeline
    /\ Outcomes \subseteq Answer \cup FailKind
    /\ Cached \subseteq BOOLEAN
    /\ MayDie \in BOOLEAN /\ MayCancel \in BOOLEAN
    /\ MaxRuns \in Nat

VARIABLES
    acq,      \* the pkgAcquire object (AcqType)
    item,     \* [Items -> ItemState]
    live,     \* the items that exist
    deleted,  \* the items that have existed; a name is used for one object
    leaked,   \* fetching items dropped by Shutdown since the object was made
    current,  \* [Queues -> Nat], position of the worker's CurrentItem, 0 for none
    msgs,     \* [Queues -> Seq(Reply)], Worker::MessageQueue
    loop,     \* where Run is, and what is left of Startup or of a RunFds pass
    result,   \* what the last Run returned
    runs,     \* calls of Run so far
    pipe,     \* [Queues -> Seq(Request)], requests on the child's stdin
    fetch,    \* [Queues -> Seq(Request)], pkgAcqMethod::Queue in the child
    begun,    \* queues whose child announced the head of fetch with a 200
    answers,  \* [Queues -> Seq(Reply)], replies on the child's stdout
    died      \* queues whose child has died

itemVars   == <<item, live, deleted, leaked>>
runVars    == <<result, runs>>
methodVars == <<pipe, fetch, begun, answers, died>>
vars == <<acq, item, live, deleted, leaked, current, msgs, loop, result, runs,
          pipe, fetch, begun, answers, died>>

\* A reply's arg is an outcome, or the New-URI of a 103 Redirect; its owner is
\* the item the request was made for, which the message itself does not carry.
Reply == [code: {103}, uri: URI, owner: Items, arg: URI]
         \cup [code: {200}, uri: URI, owner: Items, arg: {"start"}]
         \cup [code: {201}, uri: URI, owner: Items, arg: Answer]
         \cup [code: {400}, uri: URI, owner: Items, arg: FailKind]

LoopState == [pc: {"idle", "starting", "select", "round"},
              todo: SUBSET (Queues \X {"start", "in", "out"})]

At(pc)     == loop.pc = pc
Running    == ~At("idle")
Quiet      == \A q \in Queues : msgs[q] = <<>>
Ticked(q, what) == [loop EXCEPT !.todo = @ \ {<<q, what>>}]

Init ==
    /\ acq = NewAcquire
    /\ item = [i \in Items |-> NewState(i)] /\ live = {} /\ deleted = {}
    /\ leaked = 0
    /\ current = [q \in Queues |-> 0]
    /\ msgs = [q \in Queues |-> <<>>]
    /\ loop = [pc |-> "idle", todo |-> {}]
    /\ result = "none" /\ runs = 0
    /\ pipe = [q \in Queues |-> <<>>] /\ fetch = [q \in Queues |-> <<>>]
    /\ begun = {} /\ answers = [q \in Queues |-> <<>>] /\ died = {}

-----------------------------------------------------------------------------
(* The caller: constructs items, runs the fetch, shuts the object down.     *)

NewItem(i) ==
    /\ At("idle") /\ i \notin live \cup deleted /\ runs < MaxRuns
    /\ \E choice \in Choice, cached \in Cached :
         LET v == Constructed(i, cached, acq.error)
         IN /\ acq' = [Apply(acq, i, v, FALSE, choice) EXCEPT
                         !.error = @ \/ (v.next = NoURI /\ v.status = "Idle")]
            /\ item' = [item EXCEPT ![i] = v.it]
    /\ live' = live \cup {i}
    /\ UNCHANGED <<deleted, leaked, current, msgs, loop, runVars, methodVars>>

Run ==
    /\ At("idle") /\ runs < MaxRuns
    /\ runs' = runs + 1 /\ result' = "none"
    /\ loop' = [pc |-> "starting", todo |-> acq.made \X {"start"}]
    /\ UNCHANGED <<acq, itemVars, current, msgs, methodVars>>

\* Deleting an Item; the callers that do (apt-get, on items it will not fetch)
\* do it before the item was ever handed to a worker.
DropItem(i) ==
    /\ At("idle") /\ i \in live /\ acq.status[i] # "Fetching"
    /\ acq' = Dequeue(acq, i)
    /\ live' = live \ {i} /\ deleted' = deleted \cup {i}
    /\ UNCHANGED <<item, leaked, current, msgs, loop, runVars, methodVars>>

ForgetChildren(kept) ==
    /\ current' = [q \in Queues |-> IF q \in kept THEN current[q] ELSE 0]
    /\ pipe'    = [q \in Queues |-> IF q \in kept THEN pipe[q] ELSE <<>>]
    /\ fetch'   = [q \in Queues |-> IF q \in kept THEN fetch[q] ELSE <<>>]
    /\ answers' = [q \in Queues |-> IF q \in kept THEN answers[q] ELSE <<>>]
    /\ begun'   = begun \cap kept
    /\ died'    = died \cap kept

Shutdown ==
    /\ At("idle") /\ live # {}
    /\ acq' = ObjectShutdown(acq, live)
    /\ leaked' = leaked + Cardinality({i \in live : acq.status[i] = "Fetching"})
    /\ live' = {} /\ deleted' = deleted \cup live
    /\ ForgetChildren({})
    /\ UNCHANGED <<item, msgs, loop, runVars>>

-----------------------------------------------------------------------------
(* pkgAcquire::Run                                                          *)

StartQueue(q) ==
    /\ At("starting") /\ <<q, "start">> \in loop.todo
    /\ \E ok \in StartOK : acq' = Startup(acq, q, ok)
    /\ loop' = Ticked(q, "start")
    /\ UNCHANGED <<itemVars, current, msgs, runVars, methodVars>>

Ready ==
    {<<q, "in">>  : q \in {p \in Queues : acq.worker[p] = "live"
                                          /\ (answers[p] # <<>> \/ p \in died)}}
    \cup
    {<<q, "out">> : q \in {p \in Queues : acq.worker[p] = "live" /\ acq.out[p] # <<>>}}

\* While something is left to fetch: select, with or without a timeout.
Select ==
    /\ loop.pc \in {"starting", "select"} /\ loop.todo = {} /\ acq.toFetch # 0
    /\ loop' = [pc |-> "round", todo |-> Ready]
    /\ UNCHANGED <<acq, itemVars, current, msgs, runVars, methodVars>>

\* RunFds: a worker reads before it writes, and runs all it has read.
InReady(q) ==
    /\ At("round") /\ Quiet /\ <<q, "in">> \in loop.todo
    /\ IF answers[q] # <<>>
       THEN msgs' = [msgs EXCEPT ![q] = answers[q]] /\ acq' = acq
       ELSE acq' = MethodFailure(acq, q) /\ msgs' = msgs
    /\ answers' = [answers EXCEPT ![q] = <<>>]
    /\ loop' = Ticked(q, "in")
    /\ UNCHANGED <<itemVars, current, runVars, pipe, fetch, begun, died>>

\* A write may take any non-empty part of what is queued.
OutReady(q) ==
    /\ At("round") /\ Quiet /\ <<q, "out">> \in loop.todo /\ <<q, "in">> \notin loop.todo
    /\ CASE acq.worker[q] # "live" -> UNCHANGED <<acq, pipe>>
         [] acq.worker[q] = "live" /\ q \in died ->
              acq' = MethodFailure(acq, q) /\ UNCHANGED pipe
         [] acq.worker[q] = "live" /\ q \notin died ->
              \E k \in 1..Len(acq.out[q]) :
                /\ pipe' = [pipe EXCEPT ![q] = @ \o SubSeq(acq.out[q], 1, k)]
                /\ acq' = [acq EXCEPT !.out[q] = SubSeq(@, k + 1, Len(@))]
    /\ loop' = Ticked(q, "out")
    /\ UNCHANGED <<itemVars, current, msgs, runVars, fetch, begun, answers, died>>

Leave(res) ==
    \E stale \in Garbage :
    \E odd \in SUBSET {q \in Queues : acq.worker[q] = "dead" /\ q[1] \notin acq.known} :
      LET kept == odd \cup {q \in Queues : /\ acq.worker[q] # "none"
                                           /\ q[1] \in acq.known
                                           /\ Method[q[1]].needsCleanup}
      IN /\ acq' = ShutdownQueues(acq, kept, stale)
         /\ ForgetChildren(kept)
         /\ item' = [i \in Items |-> IF i \in live THEN Finished(i, item[i], acq.status[i])
                                                   ELSE item[i]]
         /\ result' = IF acq.error THEN "Failed" ELSE res
         /\ loop' = [pc |-> "idle", todo |-> {}]
         /\ UNCHANGED <<live, deleted, leaked, msgs, runs>>

RoundOver == At("round") /\ loop.todo = {} /\ Quiet

EndRound ==
    /\ RoundOver /\ ~acq.error
    /\ loop' = [loop EXCEPT !.pc = "select"]
    /\ UNCHANGED <<acq, itemVars, current, msgs, runVars, methodVars>>

Break  == RoundOver /\ acq.error /\ Leave("Failed")
Cancel == RoundOver /\ ~acq.error /\ MayCancel /\ Leave("Cancelled")
Fetched ==
    /\ loop.pc \in {"starting", "select"} /\ loop.todo = {} /\ acq.toFetch = 0
    /\ Leave("Continue")

-----------------------------------------------------------------------------
(* Worker::RunMessages: one action for each kind of reply.  A reply that no  *)
(* QItem matches would be dropped with an error: the methods modelled here   *)
(* cause none, and the loop would stop there.                                *)

Handling(q, code) ==
    /\ msgs[q] # <<>> /\ Head(msgs[q]).code = code
    /\ msgs' = [msgs EXCEPT ![q] = Tail(@)]
    /\ UNCHANGED <<live, deleted, leaked, loop, runVars, methodVars>>

Hit(q) == FindItem(acq, q, Head(msgs[q]).uri)

Redirected(q) ==
    /\ Handling(q, 103)
    /\ \E e \in Hit(q) :
         LET f == [e EXCEPT !.uri = Head(msgs[q]).arg] IN
         acq' = [acq EXCEPT !.qitems = (@ \ {e}) \cup {f}, !.mine = (@ \ {e}) \cup {f}]
    /\ UNCHANGED <<item, current>>

URIStart(q) ==
    /\ Handling(q, 200)
    /\ \E e \in Hit(q) :
         /\ current' = [current EXCEPT ![q] = e.pos]
         /\ acq' = [acq EXCEPT !.status[e.owner] = "Fetching"]
    /\ UNCHANGED item

\* Variant with a bug: CurrentItem is not reset.
Conclude_KeepsCurrent(q, e, v, s, choice) ==
    /\ acq' = Apply(s, e.owner, v, TRUE, choice)
    /\ item' = [item EXCEPT ![e.owner] = v.it]
    /\ UNCHANGED current

\* The item leaves the queues, the next ones are handed out, and only then
\* does the item's own handler run.
Conclude(q, e, v, s, choice) ==
    /\ acq' = Apply(s, e.owner, v, TRUE, choice)
    /\ item' = [item EXCEPT ![e.owner] = v.it]
    /\ current' = [current EXCEPT ![q] = 0]

URIDone(q) ==
    /\ Handling(q, 201)
    /\ \E e \in Hit(q), choice \in Choice :
         Conclude(q, e, Done(e.owner, item[e.owner], q[1], Head(msgs[q]).arg),
                  ItemDone(acq, e), choice)

URIFailure(q) ==
    /\ Handling(q, 400)
    /\ \E e \in Hit(q), choice \in Choice, cached \in Cached :
         LET s == ItemDone(acq, e) IN
         Conclude(q, e, Failed(e.owner, item[e.owner], q[1],
                               Head(msgs[q]).arg = "transient",
                               s.counter[e.owner], cached, s.error), s, choice)

-----------------------------------------------------------------------------
(* The child process: pkgAcqMethod's queue of requests and its replies.     *)

\* A method of local media never answers a transient failure unless the medium
\* may be swapped: that is in Outcomes, and left to it.
Send(q, code, arg) ==
    answers' = [answers EXCEPT ![q] =
        Append(@, [code |-> code, uri |-> Head(fetch[q]).uri,
                   owner |-> Head(fetch[q]).owner, arg |-> arg])]

Working(q) == q \notin died /\ fetch[q] # <<>>

otherVars == <<acq, itemVars, current, msgs, loop, runVars, died>>

Receive(q) ==
    /\ pipe[q] # <<>>
    /\ fetch' = [fetch EXCEPT ![q] = Append(@, Head(pipe[q]))]
    /\ pipe' = [pipe EXCEPT ![q] = Tail(@)]
    /\ UNCHANGED <<otherVars, begun, answers>>

SendStart(q) ==
    /\ Working(q) /\ q \notin begun
    /\ Send(q, 200, "start")
    /\ begun' = begun \cup {q}
    /\ UNCHANGED <<otherVars, pipe, fetch>>

Answered(q) ==
    /\ Working(q)
    /\ \E o \in Outcomes : Send(q, IF o \in FailKind THEN 400 ELSE 201, o)
    /\ fetch' = [fetch EXCEPT ![q] = Tail(@)]
    /\ begun' = begun \ {q}
    /\ UNCHANGED <<otherVars, pipe>>

\* pkgAcqMethod::Redirect moves the request behind the rest of the pipeline.
Redirect(q) ==
    /\ Working(q)
    /\ \E u \in Redirects[Head(fetch[q]).uri] :
         /\ Send(q, 103, u)
         /\ fetch' = [fetch EXCEPT ![q] = Append(Tail(@), [Head(@) EXCEPT !.uri = u])]
    /\ begun' = begun \ {q}
    /\ UNCHANGED <<otherVars, pipe>>

Die(q) ==
    /\ MayDie /\ acq.worker[q] = "live" /\ q \notin died
    /\ died' = died \cup {q}
    /\ pipe' = [pipe EXCEPT ![q] = <<>>] /\ fetch' = [fetch EXCEPT ![q] = <<>>]
    /\ begun' = begun \ {q}
    /\ UNCHANGED <<acq, itemVars, current, msgs, loop, runVars, answers>>

-----------------------------------------------------------------------------
RunMessage(q) ==
    \/ Redirected(q) \/ URIStart(q) \/ URIDone(q) \/ URIFailure(q)

LoopStep ==
    \/ Select \/ EndRound \/ Break \/ Cancel \/ Fetched
    \/ \E q \in Queues : StartQueue(q) \/ InReady(q) \/ OutReady(q) \/ RunMessage(q)

MethodStep(q) == Receive(q) \/ Answered(q)

Next ==
    \/ Run \/ Shutdown \/ \E i \in Items : NewItem(i) \/ DropItem(i)
    \/ LoopStep
    \/ \E q \in Queues : MethodStep(q) \/ SendStart(q) \/ Redirect(q) \/ Die(q)

Spec == Init /\ [][Next]_vars

\* The loop can go on while Run has not returned, unless a reply finds no QItem;
\* a child can while it has a request.  These are LoopStep and MethodStep enabled.
LoopCanStep == ~At("idle") /\ (Quiet \/ \E q \in Queues : msgs[q] # <<>> /\ Hit(q) # {})

MethodCanStep(q) == pipe[q] # <<>> \/ Working(q)

\* The loop runs while it can, and a child that has a request answers it: weak
\* fairness of both, spelled out with the conditions above.
Fairness ==
    /\ ([]<>~LoopCanStep) \/ []<><<LoopStep>>_vars
    /\ \A q \in Queues : ([]<>~MethodCanStep(q)) \/ []<><<MethodStep(q)>>_vars

FairSpec == Spec /\ Fairness

-----------------------------------------------------------------------------
TypeOK ==
    /\ acq \in AcqType /\ acq.mine \subseteq acq.qitems
    /\ item \in [Items -> ItemState] /\ live \subseteq Items
    /\ deleted \subseteq Items \ live /\ leaked \in Nat
    /\ current \in [Queues -> Nat]
    /\ msgs \in [Queues -> Seq(Reply)] /\ answers \in [Queues -> Seq(Reply)]
    /\ loop \in LoopState
    /\ result \in {"none", "Continue", "Failed", "Cancelled"} /\ runs \in 0..MaxRuns
    /\ pipe \in [Queues -> Seq(Request)] /\ fetch \in [Queues -> Seq(Request)]
    /\ begun \subseteq Queues /\ died \subseteq Queues

InFlight(q) == {e \in QItemsOf(acq, q) : acq.status[e.owner] = "Fetching"}

\* ToFetch, the loop's only termination condition, counts the queued items: an
\* item is queued at most once, and only dropping a fetching item loses count.
ToFetchExact ==
    /\ \A i \in Items : acq.counter[i] = Cardinality(OwnedBy(acq, i)) /\ acq.counter[i] <= 1
    /\ acq.toFetch = Cardinality(acq.qitems) + leaked

\* A queue's PipeDepth is the number of its items at the worker, and never more
\* than MaxPipeDepth, across retries, redirects, deaths and further runs.
PipeDepthExact ==
    \A q \in Queues :
        /\ acq.depth[q] = Cardinality(InFlight(q))
        /\ acq.depth[q] <= acq.maxDepth[q]

\* What waits in a queue is idle or being fetched, and what is being fetched
\* is queued: no item is lost between a reply, its handler and QueueURI.
QueuedIsOpen ==
    /\ \A e \in acq.qitems : e.owner \in live /\ acq.status[e.owner] \in {"Idle", "Fetching"}
    /\ \A i \in live : acq.status[i] = "Fetching" => OwnedBy(acq, i) # {}

Outstanding(q) ==
    Len(acq.out[q]) + Len(pipe[q]) + Len(fetch[q])
    + Cardinality({k \in 1..Len(answers[q]) : answers[q][k].code \in {201, 400}})
    + Cardinality({k \in 1..Len(msgs[q]) : msgs[q][k].code \in {201, 400}})

\* Every item at a worker has exactly one request or final reply on its way
\* (a Run after a cancelled one starts with what the last one left behind).
NothingLost ==
    \A q \in Queues :
        acq.worker[q] = "live" /\ q \notin died /\ ~acq.error /\ ~(MayCancel /\ runs > 1)
        => Outstanding(q) = acq.depth[q]

\* A reply is matched by URI alone, yet it reaches the item it was asked for,
\* whatever the uninitialised Worker field of the waiting QItems holds.  It does not
\* if a redirect names a URI that another request in flight has.
ReplyFindsItsItem ==
    \A q \in Queues :
        msgs[q] # <<>> => \E e \in Hit(q) : e.owner = Head(msgs[q]).owner

\* CurrentItem, which Pulse dereferences, points to a QItem that exists.
CurrentItemLive ==
    \A q \in Queues :
        current[q] # 0 => \E e \in QItemsOf(acq, q) : e.pos = current[q]

\* Run returns Continue only when every item is settled, and then an archive's
\* StoreFilename is set exactly for what arrived complete.
ContinueMeansSettled ==
    [][Running /\ loop'.pc = "idle" /\ result' = "Continue" =>
         /\ acq'.qitems = {}
         /\ \A i \in live : Conf[i].kind = "archive" =>
               (item'[i].store <=> acq'.status[i] = "Done" /\ item'[i].complete)]_vars

\* Every Run comes to an end.
RunTerminates == Running ~> ~Running
=============================================================================
