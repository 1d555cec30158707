------------------------- MODULE AcquireChannelsProofs -------------------------
(***************************************************************************)
(* Theorems about what is under way between the scheduler and its method   *)
(* processes, for every value of the constants: CurrentItem is live, a     *)
(* reply finds the item it is for, PipeDepth is exact and no request gets  *)
(* lost.                                                                   *)
(*                                                                         *)
(* The first needs nothing but IInv of AcquireProofs.  The others hold if  *)
(* no two items share a URI (OwnURIs): a reply carries nothing but a URI.  *)
(***************************************************************************)
EXTENDS AcquireProofs

-----------------------------------------------------------------------------
(* Worker::CurrentItem.                                                     *)

\* CurrentItem is a QItem that is being fetched, which is why no Dequeue takes
\* it away while the worker has it.
CurrentFetched ==
    \A q \in Queues : current[q] # 0 =>
        \E e \in QItemsOf(acq, q) : e.pos = current[q] /\ acq.status[e.owner] = "Fetching"

\* Every step but a 200 keeps CurrentItem or resets it, and keeps its QItem in
\* place (under another URI, after a redirect) and being fetched.
LEMMA CurrentKept ==
    ASSUME CurrentFetched, \A q \in Queues : current'[q] \in {current[q], 0},
           \A q \in Queues : \A e \in QItemsOf(acq, q) :
              current'[q] # 0 /\ e.pos = current[q] /\ acq.status[e.owner] = "Fetching" =>
                  \E f \in QItemsOf(acq', q) : /\ f.pos = e.pos
                                               /\ acq'.status[f.owner] = "Fetching"
    PROVE  CurrentFetched'
  BY DEF CurrentFetched

\* A step on one item leaves the other items' QItems being fetched.
LEMMA TurnedHolds ==
    ASSUME Sound(acq), NEW i, Turned(acq, acq', i), NEW q, NEW e \in QItemsOf(acq, q),
           e.owner # i, acq.status[e.owner] = "Fetching"
    PROVE  e \in QItemsOf(acq', q) /\ acq'.status[e.owner] = "Fetching"
<1>1. e \in acq.qitems /\ e.owner \in Items /\ e.queue = q
  BY DEF Sound, AcqType, QItem, QItemsOf
<1>2. e \in OwnedBy(acq, e.owner)
  BY <1>1 DEF OwnedBy
<1> QED
  BY <1>1, <1>2 DEF Turned, OwnedBy, QItemsOf

\* Handing out takes no QItem away.
LEMMA FedHolds ==
    ASSUME Sound(acq), Fed(acq, acq'), NEW q, NEW e \in QItemsOf(acq, q),
           acq.status[e.owner] = "Fetching"
    PROVE  e \in QItemsOf(acq', q) /\ acq'.status[e.owner] = "Fetching"
<1>1. e \in acq.qitems /\ e.owner \in Items
  BY DEF Sound, AcqType, QItem, QItemsOf
<1> QED
  BY <1>1 DEF Fed, Handed, QItemsOf

\* A QItem is alone with its owner.
LEMMA OwnerKey ==
    ASSUME NEW s, Sound(s), NEW e \in s.qitems, NEW f \in s.qitems, e.owner = f.owner
    PROVE  e = f
<1>1. e.owner \in Items
  BY DEF Sound, AcqType, QItem
<1> QED
  BY <1>1 DEF Sound, AtMostOnce, OwnedBy

\* The steps that leave the workers' CurrentItem alone.
LEMMA CurrentUnmoved ==
    ASSUME IInv, CurrentFetched, UNCHANGED current,
           \/ UNCHANGED acq
           \/ Fed(acq, acq')
           \/ acq'.qitems = acq.qitems /\ acq'.status = acq.status
           \/ \E i \in Items : /\ Turned(acq, acq', i)
                               /\ OwnedBy(acq, i) = {} \/ acq.status[i] # "Fetching"
    PROVE  CurrentFetched'
<1>1. Sound(acq)
  BY DEF IInv
<1>2. CASE UNCHANGED acq \/ (acq'.qitems = acq.qitems /\ acq'.status = acq.status)
  BY <1>2 DEF CurrentFetched, QItemsOf
<1>3. CASE Fed(acq, acq')
  BY <1>1, <1>3, FedHolds, CurrentKept
<1>4. ASSUME NEW i \in Items, Turned(acq, acq', i),
             OwnedBy(acq, i) = {} \/ acq.status[i] # "Fetching"
      PROVE  CurrentFetched'
  <2>1. ASSUME NEW q \in Queues, NEW e \in QItemsOf(acq, q),
               acq.status[e.owner] = "Fetching"
        PROVE  e.owner # i
    BY <1>4, <2>1 DEF OwnedBy, QItemsOf
  <2> QED
    BY <1>1, <1>4, <2>1, TurnedHolds, CurrentKept
<1> QED
  BY <1>2, <1>3, <1>4

\* The steps that leave Run or delete the object.
LEMMA CurrentForgotten ==
    ASSUME IInv, CurrentFetched, NEW kept \in SUBSET Queues, ForgetChildren(kept),
           kept = {} \/ (acq'.qitems = acq.qitems /\ acq'.status = acq.status)
    PROVE  CurrentFetched'
<1>1. \A q \in Queues : current'[q] = IF q \in kept THEN current[q] ELSE 0
  BY DEF ForgetChildren
<1>2. kept = {} \/ \A q \in Queues : QItemsOf(acq', q) = QItemsOf(acq, q)
  BY DEF QItemsOf
<1> QED
  BY <1>1, <1>2 DEF CurrentFetched

\* A 103 moves a QItem in place.
LEMMA CurrentRedirected ==
    ASSUME IInv, CurrentFetched, NEW q \in Queues, Redirected(q)
    PROVE  CurrentFetched'
<1>1. Sound(acq) /\ acq \in AcqType /\ UNCHANGED current
  BY DEF IInv, Sound, Redirected
<1>2. PICK e \in Hit(q) :
         LET f == [e EXCEPT !.uri = Head(msgs[q]).arg] IN
         acq' = [acq EXCEPT !.qitems = (@ \ {e}) \cup {f}, !.mine = (@ \ {e}) \cup {f}]
  BY DEF Redirected
<1> DEFINE f == [e EXCEPT !.uri = Head(msgs[q]).arg]
<1>3. e \in acq.qitems /\ e \in QItem
  BY <1>1, HitType DEF AcqType
<1>4. f.queue = e.queue /\ f.pos = e.pos /\ f.owner = e.owner
  BY <1>3 DEF QItem
<1>5. acq'.status = acq.status /\ acq'.qitems = (acq.qitems \ {e}) \cup {f}
  BY <1>1, <1>2 DEF AcqType
<1> HIDE DEF f
<1>6. ASSUME NEW p \in Queues, NEW g \in QItemsOf(acq, p)
      PROVE  \E h \in QItemsOf(acq', p) : h.pos = g.pos /\ h.owner = g.owner
  BY <1>4, <1>5 DEF QItemsOf
<1> QED
  BY <1>1, <1>5, <1>6, CurrentKept

\* A 200 points CurrentItem to the QItem that is now being fetched.
LEMMA CurrentStarted ==
    ASSUME IInv, CurrentFetched, NEW q \in Queues, URIStart(q)
    PROVE  CurrentFetched'
<1>1. TypeOK /\ acq \in AcqType
  BY DEF IInv, TypeOK
<1>2. PICK e \in Hit(q) : /\ current' = [current EXCEPT ![q] = e.pos]
                          /\ acq' = [acq EXCEPT !.status[e.owner] = "Fetching"]
  BY DEF URIStart
<1>3. e \in QItemsOf(acq, q) /\ e.owner \in Items
  BY <1>1, HitType DEF AcqType, QItem, QItemsOf
<1>4. /\ acq'.qitems = acq.qitems /\ acq'.status[e.owner] = "Fetching"
      /\ \A i \in Items : acq.status[i] = "Fetching" => acq'.status[i] = "Fetching"
  BY <1>1, <1>2, <1>3 DEF AcqType
<1>5. \A p \in Queues : \A f \in QItemsOf(acq, p) : f.owner \in Items /\ f \in QItemsOf(acq', p)
  BY <1>1, <1>4 DEF AcqType, QItem, QItemsOf
<1>6. ASSUME NEW p \in Queues, current'[p] # 0
      PROVE  \E f \in QItemsOf(acq', p) : /\ f.pos = current'[p]
                                          /\ acq'.status[f.owner] = "Fetching"
  <2>1. CASE p = q
    BY <1>1, <1>2, <1>3, <1>4, <1>5, <2>1 DEF TypeOK
  <2>2. CASE p # q
    BY <1>1, <1>2, <1>4, <1>5, <1>6, <2>2 DEF TypeOK, CurrentFetched
  <2> QED
    BY <2>1, <2>2
<1> QED
  BY <1>6 DEF CurrentFetched

\* A final reply resets the CurrentItem of its queue; the others' items are not
\* the one it is about.
LEMMA CurrentConcluded ==
    ASSUME IInv, CurrentFetched, NEW q \in Queues, URIDone(q) \/ URIFailure(q)
    PROVE  CurrentFetched'
<1>1. PICK e \in Hit(q), choice \in Choice, v \in Verdicts :
         Legal(v) /\ Conclude(q, e, v, ItemDone(acq, e), choice)
  BY FinalConcludes
<1>2. e \in acq.qitems /\ Turned(acq, acq', e.owner)
  BY <1>1, ConcludeTurns
<1>3. Sound(acq) /\ TypeOK /\ e.queue = q
  BY <1>1, HitType DEF IInv
<1>4. current' = [current EXCEPT ![q] = 0]
  BY <1>1 DEF Conclude
<1>5. \A p \in Queues : current'[p] = IF p = q THEN 0 ELSE current[p]
  BY <1>3, <1>4 DEF TypeOK
<1>6. ASSUME NEW p \in Queues, NEW f \in QItemsOf(acq, p), current'[p] # 0
      PROVE  f.owner # e.owner
  BY <1>2, <1>3, <1>5, <1>6, OwnerKey DEF QItemsOf
<1> QED
  BY <1>2, <1>3, <1>5, <1>6, TurnedHolds, CurrentKept

\* CurrentFetched is preserved by every step.
LEMMA CurrentNext == ASSUME IInv, CurrentFetched, [Next]_vars PROVE CurrentFetched'
<1>1. CASE Shutdown
  BY <1>1, CurrentForgotten DEF Shutdown
<1>2. ASSUME NEW i \in Items, NewItem(i)
      PROVE  CurrentFetched'
  <2>1. OwnedBy(acq, i) = {} /\ Turned(acq, acq', i)
    BY <1>2, NewItemTurns
  <2> QED
    BY <1>2, <2>1, CurrentUnmoved DEF NewItem
<1>3. ASSUME NEW i \in Items, DropItem(i)
      PROVE  CurrentFetched'
  <2>1. acq' = Dequeue(acq, i) /\ acq.status[i] # "Fetching" /\ UNCHANGED current
    BY <1>3 DEF DropItem
  <2>2. acq'.status = acq.status /\ (acq'.qitems = acq.qitems \/ Left(acq, acq', i))
    BY <2>1, DequeueSound DEF IInv
  <2>3. \A j \in Items \ {i} : acq'.status[j] = acq.status[j]
                               /\ OwnedBy(acq', j) = OwnedBy(acq, j)
    BY <2>2 DEF Left, OwnedBy
  <2>4. Turned(acq, acq', i)
    BY <2>3 DEF Turned
  <2> QED
    BY <2>1, <2>4, CurrentUnmoved
<1>4. CASE Break \/ Cancel \/ Fetched
  <2>1. PICK res \in {"Continue", "Failed", "Cancelled"} : Leave(res)
    BY <1>4 DEF Break, Cancel, Fetched
  <2>2. acq'.qitems = acq.qitems /\ acq'.status = acq.status
    BY <2>1, LeaveKeeps
  <2>3. PICK stale \in Garbage,
             odd \in SUBSET {q \in Queues : acq.worker[q] = "dead" /\ q[1] \notin acq.known} :
          ForgetChildren(odd \cup {q \in Queues : /\ acq.worker[q] # "none"
                                                  /\ q[1] \in acq.known
                                                  /\ Method[q[1]].needsCleanup})
    BY <2>1 DEF Leave
  <2>4. odd \cup {q \in Queues : /\ acq.worker[q] # "none" /\ q[1] \in acq.known
                                 /\ Method[q[1]].needsCleanup} \in SUBSET Queues
    OBVIOUS
  <2> QED
    BY <2>2, <2>3, <2>4, CurrentForgotten
<1>5. ASSUME NEW q \in Queues, StartQueue(q)
      PROVE  CurrentFetched'
  <2>1. PICK ok \in StartOK : acq' = Startup(acq, q, ok)
    BY <1>5 DEF StartQueue
  <2>2. Fed(acq, acq')
    BY <2>1, QueueAssumption, StartupFeeds DEF IInv
  <2> QED
    BY <1>5, <2>2, CurrentUnmoved DEF StartQueue
<1>6. ASSUME NEW q \in Queues, InReady(q) \/ OutReady(q)
      PROVE  CurrentFetched'
  <2>1. acq'.qitems = acq.qitems /\ acq'.status = acq.status
    <3>1. \A k : [acq EXCEPT !.out[q] = SubSeq(@, k + 1, Len(@))].qitems = acq.qitems
                 /\ [acq EXCEPT !.out[q] = SubSeq(@, k + 1, Len(@))].status = acq.status
      BY DEF IInv, TypeOK, AcqType
    <3>2. MethodFailure(acq, q).qitems = acq.qitems /\ MethodFailure(acq, q).status = acq.status
      BY MethodFailureAlike DEF IInv, Alike
    <3> QED
      BY <1>6, <3>1, <3>2 DEF InReady, OutReady
  <2> QED
    BY <1>6, <2>1, CurrentUnmoved DEF InReady, OutReady
<1>7. ASSUME NEW q \in Queues, RunMessage(q)
      PROVE  CurrentFetched'
  BY <1>7, CurrentRedirected, CurrentStarted, CurrentConcluded DEF RunMessage
<1>8. CASE UNCHANGED <<acq, current>>
  BY <1>8, CurrentUnmoved
<1>9. Run \/ Select \/ EndRound \/ UNCHANGED vars => UNCHANGED <<acq, current>>
  BY DEF Run, Select, EndRound, vars
<1>10. ASSUME NEW q \in Queues, MethodStep(q) \/ SendStart(q) \/ Redirect(q) \/ Die(q)
       PROVE  UNCHANGED <<acq, current>>
  BY <1>10 DEF MethodStep, Receive, Answered, SendStart, Redirect, Die, otherVars
<1> QED
  BY <1>1, <1>2, <1>3, <1>4, <1>5, <1>6, <1>7, <1>8, <1>9, <1>10 DEF Next, LoopStep

\* CurrentItem, which Pulse and the progress code dereference, always points to
\* a QItem that exists, and that is being fetched.
THEOREM CurrentItemIsLive == Spec => []CurrentItemLive
<1>1. Init => CurrentFetched
  BY DEF Init, CurrentFetched
<1>2. IInv /\ CurrentFetched /\ [Next]_vars => CurrentFetched'
  BY CurrentNext
<1>3. CurrentFetched => CurrentItemLive
  BY DEF CurrentFetched, CurrentItemLive
<1> QED
  BY <1>1, <1>2, <1>3, Invariance, PTL DEF Spec

-----------------------------------------------------------------------------
(* Owners.                                                                  *)

\* g gives every URI to an item, and every redirect stays with its owner.
Owns(g) ==
    /\ \A i \in Items : \A u \in Named(i) : g[u] = i
    /\ \A u \in URI : \A v \in Redirects[u] : g[v] = g[u]

\* No two items share a URI, neither one they name nor one a redirect leads to.
OwnURIs == \E g \in [URI -> Items] : Owns(g)

Owner == CHOOSE g \in [URI -> Items] : Owns(g)

\* Under OwnURIs, Owner is what it is named for.
LEMMA OwnerOwns == ASSUME OwnURIs PROVE Owner \in [URI -> Items] /\ Owns(Owner)
  BY DEF OwnURIs, Owner

-----------------------------------------------------------------------------
(* Sequences of requests and replies.                                       *)

\* The replies that end a request.
Final(m) == m.code \in {201, 400}

\* The URI a request has after the child sent reply m about it.
After(m) == IF m.code = 103 THEN m.arg ELSE m.uri

\* Some message of a is about item i; a final reply of r is.
Asks(a, i) == \E k \in 1..Len(a) : a[k].owner = i
Ends(r, i) == \E k \in 1..Len(r) : Final(r[k]) /\ r[k].owner = i

\* No item has two messages in a.
NoTwice(a) == \A j, k \in 1..Len(a) : a[j].owner = a[k].owner => j = k

\* A concatenation is about the items of both parts.
LEMMA AsksConcat ==
    ASSUME NEW S, NEW a \in Seq(S), NEW b \in Seq(S), NEW i
    PROVE  Asks(a \o b, i) <=> Asks(a, i) \/ Asks(b, i)
<1>1. /\ Len(a) \in Nat /\ Len(b) \in Nat /\ Len(a \o b) = Len(a) + Len(b)
      /\ \A k \in 1..(Len(a) + Len(b)) :
            (a \o b)[k] = IF k <= Len(a) THEN a[k] ELSE b[k - Len(a)]
  BY ConcatProperties, LenProperties
<1>2. ASSUME NEW k \in 1..Len(a)
      PROVE  k \in 1..Len(a \o b) /\ (a \o b)[k] = a[k]
  BY <1>1
<1>3. ASSUME NEW k \in 1..Len(b)
      PROVE  k + Len(a) \in 1..Len(a \o b) /\ (a \o b)[k + Len(a)] = b[k]
  BY <1>1
<1>4. ASSUME NEW k \in 1..Len(a \o b)
      PROVE  \/ k \in 1..Len(a) /\ (a \o b)[k] = a[k]
             \/ k - Len(a) \in 1..Len(b) /\ (a \o b)[k] = b[k - Len(a)]
  BY <1>1
<1> QED
  BY <1>2, <1>3, <1>4 DEF Asks

\* Two sequences without repetition and without a common owner are one together.
LEMMA OnceConcat ==
    ASSUME NEW S, NEW a \in Seq(S), NEW b \in Seq(S)
    PROVE  NoTwice(a \o b) <=>
              /\ NoTwice(a) /\ NoTwice(b)
              /\ \A j \in 1..Len(a) : \A k \in 1..Len(b) : a[j].owner # b[k].owner
<1> DEFINE c == a \o b
           m == Len(a)
           n == Len(b)
<1>1. /\ m \in Nat /\ n \in Nat /\ Len(c) = m + n
      /\ \A k \in 1..(m + n) : c[k] = IF k <= m THEN a[k] ELSE b[k - m]
  BY ConcatProperties, LenProperties
<1>2. \A k \in 1..m : k \in 1..(m + n) /\ c[k] = a[k]
  BY <1>1
<1>3. \A k \in 1..n : k + m \in 1..(m + n) /\ c[k + m] = b[k]
  BY <1>1
<1>4. \A k \in 1..(m + n) : \/ k \in 1..m /\ c[k] = a[k]
                            \/ k - m \in 1..n /\ c[k] = b[k - m]
  BY <1>1
<1> HIDE DEF c, m, n
<1>5. ASSUME NoTwice(c)
      PROVE  NoTwice(a) /\ NoTwice(b)
             /\ \A j \in 1..m : \A k \in 1..n : a[j].owner # b[k].owner
  <2>1. NoTwice(a)
    BY <1>1, <1>2, <1>5 DEF NoTwice, m
  <2>2. NoTwice(b)
    <3>1. \A j, k \in 1..n : b[j].owner = b[k].owner => j + m = k + m
      BY <1>1, <1>3, <1>5 DEF NoTwice
    <3> QED
      BY <1>1, <3>1 DEF NoTwice, n
  <2>3. \A j \in 1..m : \A k \in 1..n : a[j].owner = b[k].owner => j = k + m
    BY <1>1, <1>2, <1>3, <1>5 DEF NoTwice
  <2> QED
    BY <1>1, <2>1, <2>2, <2>3
<1>6. ASSUME NoTwice(a), NoTwice(b),
             \A j \in 1..m : \A k \in 1..n : a[j].owner # b[k].owner,
             NEW j \in 1..(m + n), NEW k \in 1..(m + n), c[j].owner = c[k].owner
      PROVE  j = k
  <2>1. CASE j \in 1..m /\ k \in 1..m /\ c[j] = a[j] /\ c[k] = a[k]
    BY <1>6, <2>1 DEF NoTwice, m
  <2>2. CASE j - m \in 1..n /\ k - m \in 1..n /\ c[j] = b[j - m] /\ c[k] = b[k - m]
    <3>1. j - m = k - m
      BY <1>6, <2>2 DEF NoTwice, n
    <3> QED
      BY <1>1, <3>1
  <2> QED
    BY <1>4, <1>6, <2>1, <2>2
<1> QED
  BY <1>1, <1>5, <1>6 DEF NoTwice, c, m, n

\* A non-empty sequence is its head and its tail.
LEMMA HeadAndTail ==
    ASSUME NEW S, NEW a \in Seq(S), a # <<>>
    PROVE  /\ Head(a) \in S /\ Tail(a) \in Seq(S) /\ a = <<Head(a)>> \o Tail(a)
           /\ Len(a) \in Nat \ {0} /\ Len(Tail(a)) = Len(a) - 1 /\ Head(a) = a[1]
           /\ \A k \in 1..Len(Tail(a)) : Tail(a)[k] = a[k + 1]
<1>1. Head(a) \in S /\ Tail(a) \in Seq(S) /\ Len(Tail(a)) = Len(a) - 1
      /\ \A k \in 1..Len(Tail(a)) : Tail(a)[k] = a[k + 1]
  BY HeadTailProperties
<1>2. Len(a) \in Nat \ {0} /\ Head(a) = a[1]
  BY EmptySeq
<1>3. <<Head(a)>> \o Tail(a) \in Seq(S) /\ Len(<<Head(a)>> \o Tail(a)) = Len(a)
  BY <1>1, <1>2
<1>4. \A k \in 1..Len(a) : (<<Head(a)>> \o Tail(a))[k] = a[k]
  BY <1>1, <1>2
<1>5. a = <<Head(a)>> \o Tail(a)
  BY <1>3, <1>4, SeqEqual
<1> QED
  BY <1>1, <1>2, <1>5

\* One message is about its owner.
LEMMA AsksOne ==
    ASSUME NEW S, NEW m \in S
    PROVE  /\ <<m>> \in Seq(S) /\ Len(<<m>>) = 1 /\ <<m>>[1] = m /\ NoTwice(<<m>>)
           /\ \A i : Asks(<<m>>, i) <=> i = m.owner
  BY DEF Asks, NoTwice

\* The replies r about item i lead from URI u, step by step, to URI x: each
\* names the URI the item has by then, and all of them are the item's.
Chain(r, i, u, x) ==
    \E f \in [0..Len(r) -> URI] :
        /\ f[0] = u /\ f[Len(r)] = x
        /\ \A k \in 0..Len(r) : Owner[f[k]] = i
        /\ \A k \in 1..Len(r) :
              IF r[k].owner = i THEN r[k].uri = f[k - 1] /\ f[k] = After(r[k])
                                ELSE f[k] = f[k - 1]

\* Without a reply about i its URI stays.
LEMMA ChainNone ==
    ASSUME NEW r \in Seq(Reply), NEW i, ~Asks(r, i), NEW u \in URI, Owner[u] = i
    PROVE  Chain(r, i, u, u)
<1> DEFINE f == [k \in 0..Len(r) |-> u]
<1>1. Len(r) \in Nat
  BY LenProperties
<1>2. f \in [0..Len(r) -> URI] /\ \A k \in 0..Len(r) : f[k] = u
  OBVIOUS
<1>3. 0 \in 0..Len(r) /\ Len(r) \in 0..Len(r)
      /\ \A k \in 1..Len(r) : k - 1 \in 0..Len(r) /\ k \in 0..Len(r)
  BY <1>1
<1> HIDE DEF f
<1>4. \A k \in 1..Len(r) : r[k].owner # i
  BY DEF Asks
<1> QED
  BY <1>2, <1>3, <1>4 DEF Chain

\* One more reply extends the chain.
LEMMA ChainAppend ==
    ASSUME NEW r \in Seq(Reply), NEW i, NEW u, NEW x, Chain(r, i, u, x), NEW m \in Reply,
           NEW y \in URI,
           IF m.owner = i THEN m.uri = x /\ y = After(m) /\ Owner[y] = i ELSE y = x
    PROVE  Chain(Append(r, m), i, u, y)
<1> DEFINE s == Append(r, m)
           n == Len(r)
<1>1. /\ n \in Nat /\ Len(s) = n + 1 /\ s[n + 1] = m
      /\ \A k \in 1..n : s[k] = r[k]
  BY LenProperties, AppendProperties
<1>2. PICK f \in [0..n -> URI] :
         /\ f[0] = u /\ f[n] = x
         /\ \A k \in 0..n : Owner[f[k]] = i
         /\ \A k \in 1..n :
               IF r[k].owner = i THEN r[k].uri = f[k - 1] /\ f[k] = After(r[k])
                                 ELSE f[k] = f[k - 1]
  BY DEF Chain
<1> DEFINE g == [k \in 0..(n + 1) |-> IF k = n + 1 THEN y ELSE f[k]]
<1> HIDE DEF s, n
<1>3. g \in [0..(n + 1) -> URI] /\ g[n + 1] = y /\ \A k \in 0..n : g[k] = f[k]
  BY <1>1
<1>4. 0 \in 0..n /\ n \in 0..n /\ \A k \in 0..(n + 1) : k \in 0..n \/ k = n + 1
  BY <1>1
<1>5. \A k \in 1..(n + 1) : \/ k \in 1..n /\ k - 1 \in 0..n /\ k \in 0..n
                            \/ k = n + 1 /\ k - 1 = n
  BY <1>1
<1> HIDE DEF g
<1>6. \A k \in 0..(n + 1) : Owner[g[k]] = i
  <2>1. Owner[y] = i
    BY <1>2, <1>4
  <2> QED
    BY <1>2, <1>3, <1>4, <2>1
<1>7. ASSUME NEW k \in 1..(n + 1)
      PROVE  IF s[k].owner = i THEN s[k].uri = g[k - 1] /\ g[k] = After(s[k])
                               ELSE g[k] = g[k - 1]
  <2>1. CASE k \in 1..n /\ k - 1 \in 0..n /\ k \in 0..n
    BY <1>1, <1>2, <1>3, <2>1
  <2>2. CASE k = n + 1 /\ k - 1 = n
    BY <1>1, <1>2, <1>3, <1>4, <2>2
  <2> QED
    BY <1>5, <2>1, <2>2
<1>8. Chain(s, i, u, y)
  BY <1>1, <1>2, <1>3, <1>4, <1>6, <1>7, SMTT(30) DEF Chain
<1> QED
  BY <1>8 DEF s

\* Handling the first reply takes the first step of the chain.
LEMMA ChainTail ==
    ASSUME NEW r \in Seq(Reply), r # <<>>, NEW i, NEW u, NEW x, Chain(r, i, u, x)
    PROVE  /\ u \in URI /\ Owner[u] = i
           /\ IF Head(r).owner = i
              THEN /\ Head(r).uri = u /\ After(Head(r)) \in URI /\ Owner[After(Head(r))] = i
                   /\ Chain(Tail(r), i, After(Head(r)), x)
              ELSE Chain(Tail(r), i, u, x)
<1> DEFINE s == Tail(r)
           n == Len(s)
           m == Head(r)
<1>1. /\ Len(r) = n + 1 /\ n \in Nat /\ m = r[1] /\ s \in Seq(Reply)
      /\ \A k \in 1..n : s[k] = r[k + 1]
  <2>1. Len(r) \in Nat \ {0} /\ Len(s) = Len(r) - 1 /\ s \in Seq(Reply) /\ m = r[1]
        /\ \A k \in 1..Len(s) : s[k] = r[k + 1]
    BY HeadAndTail
  <2> QED
    BY <2>1
<1>2. PICK f \in [0..(n + 1) -> URI] :
         /\ f[0] = u /\ f[n + 1] = x
         /\ \A k \in 0..(n + 1) : Owner[f[k]] = i
         /\ \A k \in 1..(n + 1) :
               IF r[k].owner = i THEN r[k].uri = f[k - 1] /\ f[k] = After(r[k])
                                 ELSE f[k] = f[k - 1]
  BY <1>1 DEF Chain
<1> DEFINE g == [k \in 0..n |-> f[k + 1]]
<1> HIDE DEF s, n, m
<1>3. /\ \A k \in 0..n : k + 1 \in 0..(n + 1)
      /\ 0 \in 0..n /\ n \in 0..n /\ 0 \in 0..(n + 1) /\ 1 \in 1..(n + 1)
      /\ 1 \in 0..(n + 1) /\ 0 + 1 = 1 /\ 1 - 1 = 0
      /\ \A k \in 1..n : /\ k \in 0..n /\ k - 1 \in 0..n /\ k + 1 \in 1..(n + 1)
                         /\ (k - 1) + 1 = k /\ (k + 1) - 1 = k
  BY <1>1
<1>4. g \in [0..n -> URI] /\ \A k \in 0..n : g[k] = f[k + 1]
  BY <1>2, <1>3
<1> HIDE DEF g
<1>5. \A k \in 0..n : Owner[g[k]] = i
  BY <1>2, <1>3, <1>4
<1>6. ASSUME NEW k \in 1..n
      PROVE  IF s[k].owner = i THEN s[k].uri = g[k - 1] /\ g[k] = After(s[k])
                               ELSE g[k] = g[k - 1]
  BY <1>1, <1>2, <1>3, <1>4
<1>7. Chain(s, i, f[1], x)
  <2>1. g[0] = f[1] /\ g[n] = x
    BY <1>2, <1>3, <1>4
  <2> QED
    BY <1>4, <1>5, <1>6, <2>1 DEF Chain, n
<1>8. u \in URI /\ Owner[u] = i /\ f[1] \in URI /\ Owner[f[1]] = i
  BY <1>2, <1>3
<1>9. IF m.owner = i THEN m.uri = u /\ f[1] = After(m) ELSE f[1] = u
  BY <1>1, <1>2, <1>3
<1> QED
  BY <1>7, <1>8, <1>9 DEF s, m

-----------------------------------------------------------------------------
(* What is under way for the items of one queue.                            *)

\* r are the replies the scheduler has not handled yet and a the requests the
\* child has not answered, with those still in OutQueue.  An item has at most
\* one request, no reply after its final one, and then no request; whatever is
\* under way is for an item the worker has, and leads from the URI of its QItem
\* to that of its request.
Line(s, q, r, a) ==
    /\ NoTwice(a)
    /\ \A k, l \in 1..Len(r) : k < l /\ Final(r[k]) => r[l].owner # r[k].owner
    /\ \A i \in Items : Ends(r, i) => ~Asks(a, i)
    /\ \A i \in Items : Asks(a, i) \/ Asks(r, i) =>
          \E e \in s.mine : /\ e.queue = q /\ e.owner = i /\ s.status[i] = "Fetching"
                            /\ \E x \in URI : /\ Chain(r, i, e.uri, x)
                                              /\ \A k \in 1..Len(a) :
                                                    a[k].owner = i => a[k].uri = x

\* The channels a record of the scheduler is seen against: the replies not yet
\* handled, the requests with the child, the children that died.  ok: no request
\* was dropped by a cancelled Run; full: nor by the end of the last one.
Channels == [r: [Queues -> Seq(Reply)], w: [Queues -> Seq(Request)],
             gone: SUBSET Queues, ok: BOOLEAN, full: BOOLEAN]

Flight(s, q)  == {e \in QItemsOf(s, q) : s.status[e.owner] = "Fetching"}
Sent(s, c, q) == c.w[q] \o s.out[q]
Limit(q)      == IF Method[q[1]].pipeline THEN PipeLimit ELSE 1

Own(s) == \A e \in s.qitems : Owner[e.uri] = e.owner

\* PipeDepth counts the items at the worker, and stays within the pipe.
Deep(s, q) ==
    /\ s.depth[q] = Cardinality(Flight(s, q))
    /\ s.depth[q] <= s.maxDepth[q] /\ s.maxDepth[q] <= Limit(q)

\* Without an error, every item at a worker has a request or a final reply.
Covered(s, c, q) ==
    c.ok /\ ~s.error /\ s.worker[q] = "live" /\ q \notin c.gone =>
        \A e \in Flight(s, q) : Asks(Sent(s, c, q), e.owner) \/ Ends(c.r[q], e.owner)

\* Without an error no worker is dead, and a queue without one has nothing there.
Clean(s, c, q) ==
    ~s.error => /\ s.worker[q] # "dead"
                /\ c.full /\ s.worker[q] = "none" => Flight(s, q) = {}

Tracks(s, c, q) ==
    Line(s, q, c.r[q], Sent(s, c, q)) /\ Deep(s, q) /\ Covered(s, c, q) /\ Clean(s, c, q)

Tracked(s, c) == Own(s) /\ \A q \in Queues : Tracks(s, c, q)

\* Types of what the lemmas below look at.
LEMMA TrackTypes ==
    ASSUME NEW s, Sound(s), NEW c \in Channels, NEW q \in Queues
    PROVE  /\ c.r[q] \in Seq(Reply) /\ c.w[q] \in Seq(Request) /\ s.out[q] \in Seq(Request)
           /\ Sent(s, c, q) \in Seq(Request) /\ s.depth[q] \in Int /\ s.maxDepth[q] \in Nat
           /\ s.mine \subseteq s.qitems /\ Limit(q) \in Nat \ {0}
           /\ s.status \in [Items -> Status] /\ s.error \in BOOLEAN
           /\ s.worker[q] \in {"none", "live", "dead"}
           /\ \A e \in s.qitems : /\ e.owner \in Items /\ e.queue \in Queues /\ e.uri \in URI
                                  /\ e \in OwnedBy(s, e.owner)
           /\ IsFiniteSet(Flight(s, q)) /\ Flight(s, q) \subseteq s.qitems
<1>1. s \in AcqType /\ s.mine \subseteq s.qitems /\ IsFiniteSet(s.qitems)
  BY DEF Sound
<1>2. c.r[q] \in Seq(Reply) /\ c.w[q] \in Seq(Request)
  BY DEF Channels
<1>3. /\ s.out[q] \in Seq(Request) /\ s.depth[q] \in Int /\ s.maxDepth[q] \in Nat
      /\ s.status \in [Items -> Status] /\ s.error \in BOOLEAN
      /\ s.worker[q] \in {"none", "live", "dead"}
  BY <1>1 DEF AcqType
<1>4. Sent(s, c, q) \in Seq(Request)
  BY <1>2, <1>3, ConcatProperties DEF Sent
<1>5. Limit(q) \in Nat \ {0}
  BY QueueAssumption DEF Limit
<1>6. \A e \in s.qitems : /\ e.owner \in Items /\ e.queue \in Queues /\ e.uri \in URI
                          /\ e \in OwnedBy(s, e.owner)
  BY <1>1 DEF AcqType, QItem, OwnedBy
<1>7. Flight(s, q) \subseteq s.qitems
  BY DEF Flight, QItemsOf
<1>8. IsFiniteSet(Flight(s, q))
  BY <1>1, <1>7, FS_Subset
<1> QED
  BY <1>1, <1>2, <1>3, <1>4, <1>5, <1>6, <1>7, <1>8

\* A queue's line survives what leaves its items at the worker, and the loss of
\* some requests.
LEMMA LineSame ==
    ASSUME NEW s, Sound(s), NEW t, NEW q \in Queues, NEW r, NEW a, NEW b, Line(s, q, r, a),
           Flight(s, q) \cap s.mine \subseteq Flight(t, q) \cap t.mine,
           NoTwice(b),
           \A k \in 1..Len(b) : \E l \in 1..Len(a) : b[k] = a[l]
    PROVE  Line(t, q, r, b)
<1>1. \A i : Asks(b, i) => Asks(a, i)
  BY DEF Asks
<1>2. ASSUME NEW i \in Items, Asks(a, i) \/ Asks(r, i)
      PROVE  \E e \in t.mine : /\ e.queue = q /\ e.owner = i /\ t.status[i] = "Fetching"
                               /\ \E x \in URI : /\ Chain(r, i, e.uri, x)
                                                 /\ \A k \in 1..Len(b) :
                                                       b[k].owner = i => b[k].uri = x
  <2>1. PICK e \in s.mine : /\ e.queue = q /\ e.owner = i /\ s.status[i] = "Fetching"
                            /\ \E x \in URI : /\ Chain(r, i, e.uri, x)
                                              /\ \A k \in 1..Len(a) :
                                                    a[k].owner = i => a[k].uri = x
    BY <1>2 DEF Line
  <2>2. e \in Flight(s, q)
    BY <2>1 DEF Sound, Flight, QItemsOf
  <2>3. e \in t.mine /\ t.status[i] = "Fetching"
    BY <2>1, <2>2 DEF Flight
  <2> QED
    BY <2>1, <2>3
<1> QED
  BY <1>1, <1>2 DEF Line

\* A queue that an operator leaves alone stays tracked.
LEMMA TracksSame ==
    ASSUME NEW s, Sound(s), NEW t, Sound(t), NEW c \in Channels, NEW q \in Queues,
           Tracks(s, c, q),
           Flight(t, q) = Flight(s, q), Flight(s, q) \cap s.mine \subseteq t.mine,
           t.depth[q] = s.depth[q], t.out[q] = s.out[q],
           s.maxDepth[q] <= t.maxDepth[q], t.maxDepth[q] <= Limit(q),
           s.error => t.error,
           \/ t.error
           \/ t.worker[q] = s.worker[q]
           \/ s.worker[q] = "none" /\ t.worker[q] = "live" /\ (c.ok => c.full)
    PROVE  Tracks(t, c, q)
<1>1. Sent(t, c, q) = Sent(s, c, q)
  BY DEF Sent
<1>2. Line(t, q, c.r[q], Sent(t, c, q))
  <2> DEFINE a == Sent(s, c, q)
             r == c.r[q]
  <2>1. Line(s, q, r, a)
    BY DEF Tracks
  <2>2. NoTwice(a)
    BY <2>1 DEF Line
  <2>3. \A k \in 1..Len(a) : \E l \in 1..Len(a) : a[k] = a[l]
    OBVIOUS
  <2> HIDE DEF a, r
  <2>4. Line(t, q, r, a)
    BY <2>1, <2>2, <2>3, LineSame
  <2> QED
    BY <1>1, <2>4 DEF a, r
<1>3. /\ s.depth[q] \in Int /\ s.maxDepth[q] \in Nat /\ t.maxDepth[q] \in Nat
      /\ Limit(q) \in Nat
  BY TrackTypes
<1>4. Deep(t, q)
  BY <1>3 DEF Tracks, Deep
<1>5. Covered(t, c, q) /\ Clean(t, c, q)
  BY <1>1 DEF Tracks, Covered, Clean
<1> QED
  BY <1>2, <1>4, <1>5 DEF Tracks

-----------------------------------------------------------------------------
(* Handing out.                                                             *)

\* The requests Cycle writes are exactly those of the QItems it picks, once each.
LEMMA RequestsExact ==
    ASSUME NEW s, Sound(s), NEW q \in Queues
    PROVE  LET P == Picked(s, q)
               W == Requests(s, q, P)
           IN /\ W \in Seq(Request) /\ NoTwice(W)
              /\ \A k \in 1..Len(W) : \E e \in P : W[k].owner = e.owner /\ W[k].uri = e.uri
              /\ \A e \in P : Asks(W, e.owner)
<1> DEFINE P == Picked(s, q)
           n == Cardinality(P)
           m == Cardinality(IdleIn(s, q))
           W == Requests(s, q, P)
           g == [k \in 1..n |-> CHOOSE e \in P : Rank(s, q, e) = k - 1]
<1>1. s \in AcqType /\ Room(s, q) \in Int
  BY RoomType DEF Sound
<1>2. /\ n \in Nat /\ P \subseteq IdleIn(s, q) /\ IsFiniteSet(P)
      /\ n <= Room(s, q) \/ P = {}
  BY <1>1, PickedFits
<1>3. n <= m /\ m \in Nat
  BY <1>2, IdleFinite, FS_Subset, FS_CardinalityType
<1>4. ASSUME NEW k \in 1..n
      PROVE  g[k] \in P /\ Rank(s, q, g[k]) = k - 1
  <2>1. PICK e \in IdleIn(s, q) : Rank(s, q, e) = k - 1
    BY <1>2, <1>3, <1>4, RankOnto
  <2>2. n <= Room(s, q)
    BY <1>2, <1>4, FS_EmptySet
  <2>3. e \in P
    BY <1>1, <1>2, <2>1, <2>2 DEF Picked
  <2> HIDE DEF P, n
  <2> QED
    BY <2>1, <2>3
<1>5. /\ W \in Seq(Request) /\ Len(W) = n
      /\ \A k \in 1..n : W[k] = [uri |-> g[k].uri, owner |-> g[k].owner]
  <2>1. W \in Seq(Request)
    BY <1>1, RequestsType
  <2>2. DOMAIN W = 1..n /\ \A k \in 1..n : W[k] = [uri |-> g[k].uri, owner |-> g[k].owner]
    BY DEF Requests
  <2>3. Len(W) = n
    BY <1>2, <2>1, <2>2, LenProperties
  <2> QED
    BY <2>1, <2>2, <2>3
<1>6. P \subseteq s.qitems
  BY <1>2, IdleFinite
<1>7. g \in [1..n -> P]
  BY <1>4
<1>8. \A j, k \in 1..n : g[j] = g[k] => j = k
  BY <1>4
<1>9. IsFiniteSet(1..n) /\ Cardinality(1..n) = n
  BY <1>2, FS_Interval
<1> HIDE DEF g, P, n, W
<1>10. g \in Injection(1..n, P)
  BY <1>7, <1>8, Fun_IsInj
<1>11. g \in Surjection(1..n, P)
  BY <1>2, <1>9, <1>10, FS_Injection DEF n
<1>12. \A k \in 1..Len(W) : \E e \in P : W[k].owner = e.owner /\ W[k].uri = e.uri
  BY <1>4, <1>5, SMTT(30)
<1>13. ASSUME NEW e \in P
       PROVE  Asks(W, e.owner)
  <2>1. PICK k \in 1..n : g[k] = e
    BY <1>11 DEF Surjection
  <2> QED
    BY <1>5, <2>1 DEF Asks
<1>14. NoTwice(W)
  <2> SUFFICES ASSUME NEW j \in 1..n, NEW k \in 1..n, W[j].owner = W[k].owner
               PROVE  j = k
    BY <1>5 DEF NoTwice
  <2>1. g[j].owner = g[k].owner
    BY <1>5
  <2>2. g[j] = g[k]
    BY <1>4, <1>6, <2>1, OwnerKey
  <2> QED
    BY <1>8, <2>2
<1> QED
  BY <1>5, <1>12, <1>13, <1>14 DEF P, W

\* Handing the items of P over, with the requests W for them, keeps the line.
LEMMA LineGrows ==
    ASSUME NEW s, Sound(s), NEW q \in Queues, Own(s), NEW r \in Seq(Reply),
           NEW a \in Seq(Request), Line(s, q, r, a),
           NEW P, P \subseteq IdleIn(s, q), NEW W \in Seq(Request), NoTwice(W),
           \A k \in 1..Len(W) : \E e \in P : W[k].owner = e.owner /\ W[k].uri = e.uri,
           NEW t, t.mine = s.mine \cup P,
           Flight(s, q) \cup P \subseteq Flight(t, q)
    PROVE  Line(t, q, r, a \o W)
<1> DEFINE b == a \o W
<1>1. /\ s.mine \subseteq s.qitems
      /\ \A e \in s.qitems : e.owner \in Items /\ e.uri \in URI
  BY DEF Sound, AcqType, QItem
<1>2. P \subseteq s.qitems /\ \A e \in P : e.queue = q /\ s.status[e.owner] = "Idle"
  BY DEF IdleIn, QItemsOf
<1>3. \A i \in Items : Asks(a, i) \/ Asks(r, i) => s.status[i] = "Fetching"
  BY DEF Line
<1>4. \A i : Asks(W, i) => i \in Items /\ s.status[i] = "Idle"
  BY <1>1, <1>2 DEF Asks
<1>5. \A i : Asks(b, i) <=> Asks(a, i) \/ Asks(W, i)
  BY AsksConcat
<1>6. \A k \in 1..Len(a) : a[k].owner \in Items /\ Asks(a, a[k].owner)
  <2>1. \A k \in 1..Len(a) : a[k] \in Request
    BY ElementOfSeq
  <2> QED
    BY <2>1 DEF Asks, Request
<1>7. \A k \in 1..Len(W) : Asks(W, W[k].owner)
  BY DEF Asks
<1>8. NoTwice(b)
  <2>1. \A j \in 1..Len(a) : \A k \in 1..Len(W) : a[j].owner # W[k].owner
    BY <1>3, <1>4, <1>6, <1>7
  <2> QED
    BY <2>1, OnceConcat DEF Line
<1>9. \A k \in 1..Len(b) : \/ \E l \in 1..Len(a) : b[k] = a[l]
                           \/ \E l \in 1..Len(W) : b[k] = W[l]
  <2>1. /\ Len(a) \in Nat /\ Len(W) \in Nat /\ Len(b) = Len(a) + Len(W)
        /\ \A k \in 1..(Len(a) + Len(W)) :
              b[k] = IF k <= Len(a) THEN a[k] ELSE W[k - Len(a)]
    BY ConcatProperties, LenProperties
  <2> HIDE DEF b
  <2> QED
    BY <2>1
<1> HIDE DEF b
<1>10. \A i \in Items : Ends(r, i) => Asks(r, i)
  BY DEF Ends, Asks
<1>11. \A i \in Items : Ends(r, i) => ~Asks(b, i)
  BY <1>3, <1>4, <1>5, <1>10 DEF Line
<1>12. ASSUME NEW i \in Items, Asks(b, i) \/ Asks(r, i)
       PROVE  \E e \in t.mine : /\ e.queue = q /\ e.owner = i /\ t.status[i] = "Fetching"
                                /\ \E x \in URI : /\ Chain(r, i, e.uri, x)
                                                  /\ \A k \in 1..Len(b) :
                                                        b[k].owner = i => b[k].uri = x
  <2>1. CASE Asks(a, i) \/ Asks(r, i)
    <3>1. PICK e \in s.mine, x \in URI :
             /\ e.queue = q /\ e.owner = i /\ s.status[i] = "Fetching"
             /\ Chain(r, i, e.uri, x)
             /\ \A k \in 1..Len(a) : a[k].owner = i => a[k].uri = x
      BY <2>1 DEF Line
    <3>2. e \in Flight(s, q)
      BY <1>1, <3>1 DEF Flight, QItemsOf
    <3>3. e \in t.mine /\ t.status[i] = "Fetching"
      BY <3>1, <3>2 DEF Flight
    <3>4. \A k \in 1..Len(b) : b[k].owner = i => b[k].uri = x
      BY <1>4, <1>7, <1>9, <3>1, SMTT(30)
    <3> QED
      BY <3>1, <3>3, <3>4
  <2>2. CASE ~(Asks(a, i) \/ Asks(r, i))
    <3>1. Asks(W, i)
      BY <1>5, <1>12, <2>2
    <3>2. PICK e \in P : e.owner = i
      BY <3>1 DEF Asks
    <3>3. e \in s.qitems /\ e \in t.mine /\ e.queue = q /\ t.status[i] = "Fetching"
      BY <1>2, <3>2 DEF Flight
    <3>4. Chain(r, i, e.uri, e.uri)
      BY <1>1, <2>2, <3>2, <3>3, ChainNone DEF Own
    <3>5. \A k \in 1..Len(W) : W[k].owner = i => W[k].uri = e.uri
      BY <1>2, <3>2, OwnerKey
    <3>6. \A k \in 1..Len(b) : b[k].owner = i => b[k].uri = e.uri
      BY <1>6, <1>9, <2>2, <3>5, SMTT(30)
    <3> QED
      BY <1>1, <3>2, <3>3, <3>4, <3>6
  <2> QED
    BY <2>1, <2>2
<1> QED
  BY <1>8, <1>11, <1>12 DEF Line, b

\* Marking the picked QItems and writing their requests.
LEMMA GiveTracked ==
    ASSUME NEW s, Sound(s), NEW c \in Channels, Tracked(s, c), NEW q \in Queues,
           s.worker[q] # "none"
    PROVE  Tracked(Give(s, q, Picked(s, q)), c)
<1> DEFINE P == Picked(s, q)
           W == Requests(s, q, P)
           t == Give(s, q, P)
<1>1. s \in AcqType /\ s.mine \subseteq s.qitems /\ Room(s, q) \in Int
  BY RoomType DEF Sound
<1>2. /\ P \subseteq IdleIn(s, q) /\ Cardinality(P) \in Nat /\ IsFiniteSet(P)
      /\ Cardinality(P) <= Room(s, q) \/ P = {}
  BY <1>1, PickedFits
<1>3. /\ W \in Seq(Request) /\ NoTwice(W)
      /\ \A k \in 1..Len(W) : \E e \in P : W[k].owner = e.owner /\ W[k].uri = e.uri
      /\ \A e \in P : Asks(W, e.owner)
  BY RequestsExact
<1>4. /\ Sound(t) /\ t.worker = s.worker /\ t.maxDepth = s.maxDepth /\ t.qitems = s.qitems
  BY GiveHands, HandedSound, SMTT(30) DEF Handed
<1>5. /\ t.mine = s.mine \cup P /\ t.error = s.error
      /\ t.status = [i \in Items |-> IF \E e \in P : e.owner = i THEN "Fetching"
                                     ELSE s.status[i]]
      /\ t.depth = [s.depth EXCEPT ![q] = @ + Cardinality(P)]
      /\ t.out = [s.out EXCEPT ![q] = IF s.worker[q] = "live" THEN @ \o W ELSE @]
  BY <1>1 DEF Give, AcqType
<1> HIDE DEF t, W, P
<1>6. /\ P \subseteq s.qitems
      /\ \A e \in P : e.queue = q /\ e.owner \in Items /\ s.status[e.owner] = "Idle"
  <2>1. \A e \in IdleIn(s, q) : /\ e.queue = q /\ e \in s.qitems
                                /\ s.status[e.owner] = "Idle"
    BY DEF IdleIn, QItemsOf
  <2> QED
    BY <1>1, <1>2, <2>1 DEF AcqType, QItem
<1>7. \A e \in s.qitems : t.status[e.owner] = IF e \in P THEN "Fetching" ELSE s.status[e.owner]
  <2>1. \A e \in s.qitems : e.owner \in Items
    BY <1>1 DEF AcqType, QItem
  <2> QED
    BY <1>5, <1>6, <2>1, OwnerKey
<1>8. Flight(t, q) = Flight(s, q) \cup P /\ Flight(s, q) \cap P = {}
  BY <1>4, <1>6, <1>7 DEF Flight, QItemsOf
<1>9. \A p \in Queues : p # q => Flight(t, p) = Flight(s, p)
  BY <1>4, <1>6, <1>7 DEF Flight, QItemsOf
<1>10. Own(t)
  BY <1>4 DEF Tracked, Own
<1>11. ASSUME NEW p \in Queues, p # q
       PROVE  Tracks(t, c, p)
  <2>1. t.depth[p] = s.depth[p] /\ t.out[p] = s.out[p]
    BY <1>1, <1>5, <1>11 DEF AcqType
  <2>2. Flight(s, p) \cap s.mine \subseteq t.mine
    BY <1>5
  <2>3. s.maxDepth[p] <= t.maxDepth[p] /\ t.maxDepth[p] <= Limit(p)
    BY <1>4, TrackTypes DEF Tracked, Tracks, Deep
  <2>4. Tracks(s, c, p) /\ Flight(t, p) = Flight(s, p) /\ t.worker[p] = s.worker[p]
        /\ (s.error => t.error)
    BY <1>4, <1>5, <1>9, <1>11 DEF Tracked
  <2> QED
    BY <1>4, <2>1, <2>2, <2>3, <2>4, TracksSame
<1>12. Tracks(s, c, q)
  BY DEF Tracked
<1>13. /\ c.r[q] \in Seq(Reply) /\ c.w[q] \in Seq(Request) /\ s.out[q] \in Seq(Request)
       /\ Sent(s, c, q) \in Seq(Request) /\ s.depth[q] \in Int /\ s.maxDepth[q] \in Nat
       /\ IsFiniteSet(Flight(s, q)) /\ s.worker[q] \in {"none", "live", "dead"}
       /\ Limit(q) \in Nat
  BY TrackTypes
<1>14. Sent(t, c, q) = IF s.worker[q] = "live" THEN Sent(s, c, q) \o W ELSE Sent(s, c, q)
  <2>1. t.out[q] = IF s.worker[q] = "live" THEN s.out[q] \o W ELSE s.out[q]
    BY <1>1, <1>5 DEF AcqType
  <2>2. \A x, y, z \in Seq(Request) : (x \o y) \o z = x \o (y \o z)
    BY ConcatAssociative
  <2>3. (c.w[q] \o s.out[q]) \o W = c.w[q] \o (s.out[q] \o W)
    BY <1>3, <1>13, <2>2
  <2> QED
    BY <2>1, <2>3 DEF Sent
<1>15. Line(t, q, c.r[q], Sent(t, c, q))
  <2> DEFINE a == Sent(s, c, q)
             r == c.r[q]
  <2>1. Line(s, q, r, a) /\ a \in Seq(Request) /\ r \in Seq(Reply) /\ Own(s)
    BY <1>12, <1>13 DEF Tracks, Tracked
  <2> HIDE DEF a, r
  <2>2. Line(t, q, r, a \o W)
    BY <1>2, <1>3, <1>5, <1>8, <2>1, LineGrows
  <2>3. Line(t, q, r, a)
    <3>1. NoTwice(a) /\ \A k \in 1..Len(a) : \E l \in 1..Len(a) : a[k] = a[l]
      BY <2>1 DEF Line
    <3>2. Flight(s, q) \cap s.mine \subseteq Flight(t, q) \cap t.mine
      BY <1>5, <1>8
    <3> QED
      BY <2>1, <3>1, <3>2, LineSame
  <2> QED
    BY <1>14, <2>2, <2>3 DEF a, r
<1>16. Deep(t, q)
  <2>1. Cardinality(Flight(t, q)) = Cardinality(Flight(s, q)) + Cardinality(P)
    <3>1. Cardinality(Flight(s, q) \cap P) = 0
      BY <1>8, FS_EmptySet
    <3>2. Cardinality(Flight(s, q)) \in Nat
      BY <1>13, FS_CardinalityType
    <3>3. Cardinality(Flight(s, q) \cup P)
          = Cardinality(Flight(s, q)) + Cardinality(P) - Cardinality(Flight(s, q) \cap P)
      BY <1>2, <1>13, FS_Union
    <3> QED
      BY <1>2, <1>8, <3>1, <3>2, <3>3
  <2>2. t.depth[q] = s.depth[q] + Cardinality(P)
    BY <1>1, <1>5 DEF AcqType
  <2>3. Cardinality(P) <= s.maxDepth[q] - s.depth[q] \/ Cardinality(P) = 0
    <3>1. Room(s, q) <= s.maxDepth[q] - s.depth[q]
      BY <1>13 DEF Room
    <3>2. P = {} => Cardinality(P) = 0
      BY FS_EmptySet
    <3>3. s.maxDepth[q] - s.depth[q] \in Int
      BY <1>13
    <3> QED
      BY <1>1, <1>2, <3>1, <3>2, <3>3
  <2>4. t.depth[q] <= s.maxDepth[q]
    BY <1>2, <1>12, <1>13, <2>2, <2>3 DEF Tracks, Deep
  <2> QED
    BY <1>4, <1>12, <2>1, <2>2, <2>4 DEF Tracks, Deep
<1>17. Covered(t, c, q)
  <2> SUFFICES ASSUME c.ok, ~s.error, s.worker[q] = "live", q \notin c.gone,
                      NEW e \in Flight(s, q) \cup P
               PROVE  Asks(Sent(t, c, q), e.owner) \/ Ends(c.r[q], e.owner)
    BY <1>4, <1>5, <1>8 DEF Covered
  <2>1. Sent(t, c, q) = Sent(s, c, q) \o W
    BY <1>14
  <2>2. Asks(Sent(t, c, q), e.owner) <=> Asks(Sent(s, c, q), e.owner) \/ Asks(W, e.owner)
    BY <1>3, <1>13, <2>1, AsksConcat
  <2> QED
    BY <1>3, <1>12, <2>2 DEF Tracks, Covered
<1>18. Clean(t, c, q)
  BY <1>4, <1>5, <1>12 DEF Tracks, Clean
<1>19. Tracked(t, c)
  BY <1>10, <1>11, <1>15, <1>16, <1>17, <1>18 DEF Tracked, Tracks
<1> QED
  BY <1>19 DEF t, P

\* Queue::Cycle: PipeDepth is a count, so that its error is never raised.
LEMMA CycleTracked ==
    ASSUME NEW s, Sound(s), NEW c \in Channels, Tracked(s, c), NEW q \in Queues
    PROVE  Tracked(Cycle(s, q), c)
<1>1. s.depth[q] = Cardinality(Flight(s, q)) /\ IsFiniteSet(Flight(s, q))
  BY TrackTypes DEF Tracked, Tracks, Deep
<1>2. ~(s.depth[q] < 0)
  BY <1>1, FS_CardinalityType
<1> QED
  BY <1>2, GiveTracked DEF Cycle

\* Queue::Startup; what is at a queue without a worker is only what a cancelled
\* Run left there.
LEMMA StartupTracked ==
    ASSUME NEW s, Sound(s), NEW c \in Channels, Tracked(s, c), c.ok => c.full,
           NEW q \in Queues, NEW ok \in BOOLEAN
    PROVE  Tracked(Startup(s, q, ok), c)
<1> DEFINE d == [s EXCEPT !.worker[q] = "dead", !.error = TRUE]
           l == [s EXCEPT !.worker[q] = "live", !.known = @ \cup {q[1]},
                          !.maxDepth[q] = IF Method[q[1]].pipeline THEN PipeLimit ELSE 1]
<1>1. s \in AcqType /\ s.mine \subseteq s.qitems
  BY DEF Sound
<1>2. q[1] \in Access
  BY ItemAssumption DEF Queues
<1>3. PipeLimit \in Nat
  BY QueueAssumption
<1>4. d \in AcqType /\ d.mine = s.mine /\ Handed(s, d)
  BY <1>1 DEF AcqType, Handed
<1>5. l \in AcqType /\ l.mine = s.mine /\ Handed(s, l)
  BY <1>1, <1>2, <1>3 DEF AcqType, Handed
<1>6. Sound(d) /\ Sound(l)
  BY <1>1, <1>4, <1>5, HandedSound
<1>7. \A p \in Queues : s.maxDepth[p] \in Nat /\ Limit(p) \in Nat /\ s.maxDepth[p] <= Limit(p)
  BY TrackTypes DEF Tracked, Tracks, Deep
<1>8. CASE s.worker[q] # "none"
  BY <1>8, CycleTracked DEF Startup
<1>9. CASE s.worker[q] = "none" /\ ~ok
  <2>1. /\ d.qitems = s.qitems /\ d.status = s.status /\ d.depth = s.depth /\ d.out = s.out
        /\ d.maxDepth = s.maxDepth /\ d.error
    BY <1>1 DEF AcqType
  <2> HIDE DEF d, l
  <2>2. \A p \in Queues : Flight(d, p) = Flight(s, p)
    BY <2>1 DEF Flight, QItemsOf
  <2>3. \A p \in Queues : Tracks(d, c, p)
    <3> SUFFICES ASSUME NEW p \in Queues PROVE Tracks(d, c, p)
      OBVIOUS
    <3>1. /\ Tracks(s, c, p) /\ Flight(d, p) = Flight(s, p)
          /\ Flight(s, p) \cap s.mine \subseteq d.mine
          /\ d.depth[p] = s.depth[p] /\ d.out[p] = s.out[p]
          /\ s.maxDepth[p] <= d.maxDepth[p] /\ d.maxDepth[p] <= Limit(p)
      BY <1>4, <1>7, <2>1, <2>2 DEF Tracked
    <3> QED
      BY <1>6, <2>1, <3>1, TracksSame
  <2>4. Own(d)
    BY <2>1 DEF Tracked, Own
  <2>5. Startup(s, q, ok) = d
    BY <1>9 DEF Startup, d
  <2> QED
    BY <2>3, <2>4, <2>5 DEF Tracked
<1>10. CASE s.worker[q] = "none" /\ ok
  <2>1. /\ l.qitems = s.qitems /\ l.status = s.status /\ l.depth = s.depth /\ l.out = s.out
        /\ l.error = s.error
        /\ \A p \in Queues : /\ l.maxDepth[p] = IF p = q THEN Limit(q) ELSE s.maxDepth[p]
                             /\ l.worker[p] = IF p = q THEN "live" ELSE s.worker[p]
    BY <1>1 DEF AcqType, Limit
  <2> HIDE DEF d, l
  <2>2. \A p \in Queues : Flight(l, p) = Flight(s, p)
    BY <2>1 DEF Flight, QItemsOf
  <2>3. \A p \in Queues : Tracks(l, c, p)
    <3> SUFFICES ASSUME NEW p \in Queues PROVE Tracks(l, c, p)
      OBVIOUS
    <3>1. /\ Tracks(s, c, p) /\ Flight(l, p) = Flight(s, p)
          /\ Flight(s, p) \cap s.mine \subseteq l.mine
          /\ l.depth[p] = s.depth[p] /\ l.out[p] = s.out[p]
          /\ s.maxDepth[p] <= l.maxDepth[p] /\ l.maxDepth[p] <= Limit(p)
      BY <1>5, <1>7, <2>1, <2>2 DEF Tracked
    <3>2. \/ l.worker[p] = s.worker[p]
          \/ s.worker[p] = "none" /\ l.worker[p] = "live" /\ (c.ok => c.full)
      BY <1>10, <2>1
    <3> QED
      BY <1>6, <2>1, <3>1, <3>2, TracksSame
  <2>4. Own(l)
    BY <2>1 DEF Tracked, Own
  <2>5. Tracked(Cycle(l, q), c)
    BY <1>6, <2>3, <2>4, CycleTracked DEF Tracked
  <2>6. Startup(s, q, ok) = Cycle(l, q)
    BY <1>10 DEF Startup, l
  <2> QED
    BY <2>5, <2>6
<1> QED
  BY <1>8, <1>9, <1>10

-----------------------------------------------------------------------------
(* Queueing and dequeueing.                                                 *)

\* What leaves the items at the workers alone keeps every queue tracked.
LEMMA TrackedSame ==
    ASSUME NEW s, Sound(s), NEW t, Sound(t), NEW c \in Channels, Tracked(s, c), Own(t),
           t.depth = s.depth, t.maxDepth = s.maxDepth, t.out = s.out, t.worker = s.worker,
           s.error => t.error,
           \A q \in Queues : /\ Flight(t, q) = Flight(s, q)
                             /\ Flight(s, q) \cap s.mine \subseteq t.mine
    PROVE  Tracked(t, c)
<1>1. ASSUME NEW q \in Queues
      PROVE  Tracks(t, c, q)
  <2>1. s.maxDepth[q] \in Nat /\ s.maxDepth[q] <= Limit(q)
    BY TrackTypes DEF Tracked, Tracks, Deep
  <2>2. s.maxDepth[q] <= t.maxDepth[q] /\ t.maxDepth[q] <= Limit(q)
    BY <2>1
  <2> QED
    BY <2>2, TracksSame DEF Tracked
<1> QED
  BY <1>1 DEF Tracked

\* GetConfig.
LEMMA ConfigTracked ==
    ASSUME NEW s, Sound(s), NEW c \in Channels, Tracked(s, c), NEW a \in Access,
           NEW probe \in BOOLEAN
    PROVE  Tracked(GetConfig(s, a, probe), c)
<1> DEFINE t == GetConfig(s, a, probe)
<1>1. s \in AcqType
  BY DEF Sound
<1>2. Sound(t)
  BY ConfigFeeds DEF Fed
<1>3. /\ t.qitems = s.qitems /\ t.mine = s.mine /\ t.status = s.status
      /\ t.depth = s.depth /\ t.maxDepth = s.maxDepth /\ t.out = s.out
      /\ t.worker = s.worker /\ (s.error => t.error)
  BY <1>1 DEF GetConfig, AcqType
<1> HIDE DEF t
<1>4. Own(t) /\ \A q \in Queues : Flight(t, q) = Flight(s, q)
  BY <1>3 DEF Tracked, Own, Flight, QItemsOf
<1>5. Tracked(t, c)
  BY <1>2, <1>3, <1>4, TrackedSame
<1> QED
  BY <1>5 DEF t

\* GetQueue: a new queue is started at once while Run runs.
LEMMA MakeQueueTracked ==
    ASSUME NEW s, Sound(s), NEW c \in Channels, Tracked(s, c), NEW q \in Queues,
           NEW running \in BOOLEAN, NEW ok \in BOOLEAN, running /\ c.ok => c.full
    PROVE  Tracked(MakeQueue(s, q, running, ok), c)
<1> DEFINE t == [s EXCEPT !.made = @ \cup {q}]
<1>1. s \in AcqType /\ s.mine \subseteq s.qitems
  BY DEF Sound
<1>2. t \in AcqType /\ Handed(s, t) /\ t.mine = s.mine
  BY <1>1 DEF AcqType, Handed
<1>3. Sound(t)
  BY <1>1, <1>2, HandedSound
<1>4. /\ t.qitems = s.qitems /\ t.mine = s.mine /\ t.status = s.status
      /\ t.depth = s.depth /\ t.maxDepth = s.maxDepth /\ t.out = s.out
      /\ t.worker = s.worker /\ (s.error => t.error)
  BY <1>1 DEF AcqType
<1> HIDE DEF t
<1>5. Own(t) /\ \A p \in Queues : Flight(t, p) = Flight(s, p)
  BY <1>4 DEF Tracked, Own, Flight, QItemsOf
<1>6. Tracked(t, c)
  BY <1>3, <1>4, <1>5, TrackedSame
<1>7. running => Tracked(Startup(t, q, ok), c)
  BY <1>3, <1>6, StartupTracked
<1> QED
  BY <1>6, <1>7 DEF MakeQueue, t

\* Queue::Enqueue of an item under a URI of its own.
LEMMA QueueEnqueueTracked ==
    ASSUME NEW s, Sound(s), NEW c \in Channels, Tracked(s, c), NEW q \in s.made,
           NEW i \in Items, OwnedBy(s, i) = {}, NEW u \in URI, Owner[u] = i,
           NEW garbage \in BOOLEAN
    PROVE  Tracked(QueueEnqueue(s, q, i, u, garbage), c)
<1> DEFINE pos == IF QItemsOf(s, q) = {} THEN 1 ELSE s.tail[q] + 1
           e == [queue |-> q, pos |-> pos, owner |-> i, uri |-> u]
           t == Append1(s, q, i, u, garbage)
<1>1. s \in AcqType /\ q \in Queues
  BY DEF Sound, AcqType
<1>2. Sound(t) /\ t.status = [s.status EXCEPT ![i] = "Idle"]
  BY AppendSound
<1>3. /\ t.qitems = s.qitems \cup {e} /\ s.mine \subseteq t.mine
      /\ t.depth = s.depth /\ t.maxDepth = s.maxDepth /\ t.out = s.out
      /\ t.worker = s.worker /\ t.error = s.error
  BY <1>1 DEF Append1, AcqType
<1>4. e.owner = i /\ e.uri = u
  OBVIOUS
<1> HIDE DEF t, e
<1>5. \A f \in s.qitems : f.owner \in Items /\ f.owner # i
  BY <1>1 DEF OwnedBy, AcqType, QItem
<1>6. t.status[i] = "Idle" /\ \A j \in Items : j # i => t.status[j] = s.status[j]
  BY <1>1, <1>2 DEF AcqType
<1>7. \A p \in Queues : Flight(t, p) = Flight(s, p)
  BY <1>3, <1>4, <1>5, <1>6 DEF Flight, QItemsOf
<1>8. Own(t)
  BY <1>3, <1>4 DEF Tracked, Own
<1>9. Tracked(t, c)
  BY <1>2, <1>3, <1>7, <1>8, TrackedSame
<1>10. Tracked(Cycle(t, q), c)
  BY <1>1, <1>2, <1>9, CycleTracked
<1> QED
  BY <1>9, <1>10 DEF QueueEnqueue, t

\* pkgAcquire::Enqueue.
LEMMA EnqueueTracked ==
    ASSUME NEW s, Sound(s), NEW c \in Channels, Tracked(s, c), NEW i \in Items,
           OwnedBy(s, i) = {}, NEW u \in URI, Owner[u] = i, NEW running \in BOOLEAN,
           running /\ c.ok => c.full, NEW choice \in Choice
    PROVE  Tracked(Enqueue(s, i, u, running, choice), c)
<1> DEFINE a == AccessOf[u]
           g == GetConfig(s, a, choice.probe)
           q == QueueName(g, u)
           m == MakeQueue(g, q, running, choice.start)
           n == QueueEnqueue(m, q, i, u, choice.garbage)
           t == Enqueue(s, i, u, running, choice)
<1>1. a \in Access /\ q \in Queues
  BY ItemAssumption DEF QueueName, Queues, Hosts
<1>2. choice.probe \in BOOLEAN /\ choice.start \in BOOLEAN /\ choice.garbage \in BOOLEAN
  BY QueueAssumption DEF Choice
<1>3. Fed(s, g) /\ Sound(g) /\ Tracked(g, c)
  BY <1>1, <1>2, ConfigFeeds, ConfigTracked DEF Fed
<1>4. t = IF a \notin s.configs /\ ~choice.probe THEN g ELSE [n EXCEPT !.toFetch = @ + 1]
  BY DEF Enqueue
<1>5. Sound(t)
  BY EnqueueSound DEF Fed, Queued
<1> HIDE DEF g, q, t, a
<1>6. Fed(g, m) /\ q \in m.made /\ Tracked(m, c)
  BY <1>1, <1>2, <1>3, MakeQueueFeeds, MakeQueueTracked
<1>7. Sound(m) /\ OwnedBy(m, i) = {}
  BY <1>3, <1>6 DEF Fed
<1> HIDE DEF m
<1>8. Sound(n) /\ Tracked(n, c)
  BY <1>2, <1>6, <1>7, QueueEnqueueSound, QueueEnqueueTracked
<1> HIDE DEF n
<1>9. CASE t = g
  BY <1>3, <1>9 DEF t
<1>10. CASE t = [n EXCEPT !.toFetch = @ + 1]
  <2>1. n \in AcqType
    BY <1>8 DEF Sound
  <2>2. /\ t.qitems = n.qitems /\ t.mine = n.mine /\ t.status = n.status
        /\ t.depth = n.depth /\ t.maxDepth = n.maxDepth /\ t.out = n.out
        /\ t.worker = n.worker /\ t.error = n.error
    BY <1>10, <2>1 DEF AcqType
  <2>3. Own(t) /\ \A p \in Queues : Flight(t, p) = Flight(n, p)
    BY <1>8, <2>2 DEF Tracked, Own, Flight, QItemsOf
  <2>4. Tracked(t, c)
    BY <1>5, <1>8, <2>2, <2>3, TrackedSame
  <2> QED
    BY <2>4 DEF t
<1> QED
  BY <1>4, <1>9, <1>10

\* Dequeueing an item that is not being fetched.
LEMMA DequeueTracked ==
    ASSUME NEW s, Sound(s), NEW c \in Channels, Tracked(s, c), NEW i \in Items,
           s.status[i] # "Fetching"
    PROVE  Tracked(Dequeue(s, i), c)
<1> DEFINE t == Dequeue(s, i)
           gone == {e \in OwnedBy(s, i) : e.queue \in s.made}
<1>1. s \in AcqType
  BY DEF Sound
<1>2. Sound(t)
  BY DequeueSound
<1>3. /\ t.qitems = s.qitems \ gone /\ t.mine = s.mine \ gone /\ t.status = s.status
      /\ t.depth = s.depth /\ t.maxDepth = s.maxDepth /\ t.out = s.out
      /\ t.worker = s.worker /\ t.error = s.error
  BY <1>1 DEF Dequeue, QueueDequeue, AcqType
<1> HIDE DEF t
<1>4. \A e \in gone : s.status[e.owner] # "Fetching"
  BY DEF OwnedBy
<1>5. \A q \in Queues : Flight(t, q) = Flight(s, q) /\ Flight(s, q) \cap s.mine \subseteq t.mine
  BY <1>3, <1>4 DEF Flight, QItemsOf
<1>6. Own(t)
  BY <1>3 DEF Tracked, Own
<1>7. Tracked(t, c)
  BY <1>2, <1>3, <1>5, <1>6, TrackedSame
<1> QED
  BY <1>7 DEF t

\* What a handler decided about an item that is in no queue.
LEMMA ApplyTracked ==
    ASSUME NEW s, Sound(s), NEW c \in Channels, Tracked(s, c), NEW i \in Items,
           OwnedBy(s, i) = {}, NEW v \in Verdicts, v.status # "Fetching",
           v.next # NoURI => Owner[v.next] = i, NEW running \in BOOLEAN,
           running /\ c.ok => c.full, NEW choice \in Choice
    PROVE  Tracked(Apply(s, i, v, running, choice), c)
<1> DEFINE st == [s.status EXCEPT ![i] = v.status]
           b == [s EXCEPT !.status[i] = v.status]
           d == IF v.dequeue THEN Dequeue(b, i) ELSE b
<1>1. s \in AcqType /\ s.toFetch \in Int /\ s.error \in BOOLEAN
  BY DEF Sound, AcqType
<1>2. st \in [Items -> Status] /\ st[i] = v.status
      /\ \A j \in Items : j # i => st[j] = s.status[j]
  BY <1>1 DEF AcqType, Verdicts
<1>3. b = Recount(s, s.toFetch, st, s.error)
  BY <1>1 DEF AcqType, Recount
<1>4. /\ Sound(b) /\ b.status = st /\ b.qitems = s.qitems /\ b.mine = s.mine
      /\ b.depth = s.depth /\ b.maxDepth = s.maxDepth /\ b.out = s.out
      /\ b.worker = s.worker /\ b.error = s.error
  <2>1. Sound(b) /\ b.status = st /\ b.qitems = s.qitems
    BY <1>1, <1>2, <1>3, RecountSound
  <2> QED
    BY <1>1, <1>3, <2>1 DEF Recount, AcqType
<1> HIDE DEF b, st
<1>5. \A e \in s.qitems : e.owner \in Items /\ e.owner # i
  BY <1>1 DEF OwnedBy, AcqType, QItem
<1>6. Own(b) /\ \A q \in Queues : Flight(b, q) = Flight(s, q)
  BY <1>2, <1>4, <1>5 DEF Tracked, Own, Flight, QItemsOf
<1>7. Tracked(b, c)
  BY <1>4, <1>6, TrackedSame
<1>8. b.status[i] # "Fetching" /\ OwnedBy(b, i) = {}
  BY <1>2, <1>4 DEF OwnedBy
<1>9. Sound(d) /\ Tracked(d, c) /\ OwnedBy(d, i) = {}
  <2>1. Sound(Dequeue(b, i)) /\ OwnedBy(Dequeue(b, i), i) = {}
    BY <1>4, <1>8, DequeueSound DEF OwnedBy, Left
  <2> QED
    BY <1>4, <1>7, <1>8, <2>1, DequeueTracked
<1> HIDE DEF d
<1>10. ASSUME v.next # NoURI
       PROVE  Tracked(Enqueue(d, i, v.next, running, choice), c)
  BY <1>9, <1>10, EnqueueTracked DEF Verdicts
<1> QED
  BY <1>9, <1>10 DEF Apply, d, b
-----------------------------------------------------------------------------
(* Replies, written and handled.                                            *)

\* A chain ends at a URI of its item.
LEMMA ChainEnd ==
    ASSUME NEW r \in Seq(Reply), NEW i, NEW u, NEW x, Chain(r, i, u, x)
    PROVE  x \in URI /\ Owner[x] = i
<1>1. Len(r) \in Nat
  BY LenProperties
<1>2. Len(r) \in 0..Len(r)
  BY <1>1
<1> QED
  BY <1>2 DEF Chain

\* The child writes reply m about its request a[l], which it drops if m is final
\* and keeps, under the URI m leads to, if not.
LEMMA LineReplied ==
    ASSUME NEW s, NEW q, NEW r \in Seq(Reply), NEW a \in Seq(Request), Line(s, q, r, a),
           NEW l \in 1..Len(a), NEW m \in Reply, m.owner = a[l].owner, m.uri = a[l].uri,
           m.code = 103 => Owner[m.arg] = m.owner,
           NEW b \in Seq(Request), NoTwice(b),
           \A k \in 1..Len(b) :
              \/ \E j \in 1..Len(a) : j # l /\ b[k] = a[j]
              \/ ~Final(m) /\ b[k].owner = m.owner /\ b[k].uri = After(m)
    PROVE  Line(s, q, Append(r, m), b)
<1> DEFINE p == Append(r, m)
           n == Len(r)
<1>1. /\ n \in Nat /\ Len(p) = n + 1 /\ p[n + 1] = m /\ \A k \in 1..n : p[k] = r[k]
  BY LenProperties, AppendProperties
<1>2. \A k \in 1..(n + 1) : k \in 1..n \/ k = n + 1
  BY <1>1
<1>3. m.owner \in Items /\ After(m) \in URI
  BY DEF Reply, After
<1>4. Asks(a, m.owner) /\ ~Ends(r, m.owner)
  BY <1>3 DEF Line, Asks
<1>5. \A j \in 1..Len(a) : a[j].owner = m.owner => j = l
  BY DEF Line, NoTwice
<1>6. \A i : Asks(b, i) => Asks(a, i) /\ (Final(m) => i # m.owner)
  BY <1>4, <1>5 DEF Asks
<1>7. \A i : Asks(p, i) => Asks(r, i) \/ i = m.owner
  BY <1>1, <1>2 DEF Asks
<1>8. \A i : Ends(p, i) => Ends(r, i) \/ (Final(m) /\ i = m.owner)
  BY <1>1, <1>2 DEF Ends
<1>9. ASSUME NEW k \in 1..(n + 1), NEW h \in 1..(n + 1), k < h, Final(p[k])
      PROVE  p[h].owner # p[k].owner
  <2>1. k \in 1..n /\ p[k] = r[k]
    BY <1>1, <1>9
  <2>2. CASE h \in 1..n
    BY <1>1, <1>9, <2>1, <2>2 DEF Line
  <2>3. CASE h = n + 1
    BY <1>1, <1>4, <1>9, <2>1, <2>3 DEF Ends
  <2> QED
    BY <1>2, <2>2, <2>3
<1>10. ASSUME NEW i \in Items, Asks(b, i) \/ Asks(p, i)
       PROVE  \E e \in s.mine : /\ e.queue = q /\ e.owner = i /\ s.status[i] = "Fetching"
                                /\ \E x \in URI : /\ Chain(p, i, e.uri, x)
                                                  /\ \A k \in 1..Len(b) :
                                                        b[k].owner = i => b[k].uri = x
  <2>1. Asks(a, i) \/ Asks(r, i)
    BY <1>4, <1>6, <1>7, <1>10
  <2>2. PICK e \in s.mine, x \in URI :
           /\ e.queue = q /\ e.owner = i /\ s.status[i] = "Fetching"
           /\ Chain(r, i, e.uri, x)
           /\ \A k \in 1..Len(a) : a[k].owner = i => a[k].uri = x
    BY <2>1 DEF Line
  <2>3. Owner[x] = i
    BY <2>2, ChainEnd
  <2>4. CASE i = m.owner
    <3>1. m.uri = x
      BY <2>2, <2>4
    <3>2. Owner[After(m)] = i
      BY <2>3, <2>4, <3>1 DEF After
    <3>3. Chain(p, i, e.uri, After(m))
      BY <1>3, <2>2, <2>4, <3>1, <3>2, ChainAppend
    <3>4. \A k \in 1..Len(b) : b[k].owner = i => b[k].uri = After(m)
      BY <1>5, <2>4
    <3> QED
      BY <1>3, <2>2, <3>3, <3>4
  <2>5. CASE i # m.owner
    <3>1. Chain(p, i, e.uri, x)
      BY <2>2, <2>5, ChainAppend
    <3>2. \A k \in 1..Len(b) : b[k].owner = i => b[k].uri = x
      BY <2>2, <2>5
    <3> QED
      BY <2>2, <3>1, <3>2
  <2> QED
    BY <2>4, <2>5
<1> HIDE DEF p
<1>11. Line(s, q, p, b)
  BY <1>1, <1>6, <1>8, <1>9, <1>10 DEF Line
<1> QED
  BY <1>11 DEF p

\* The scheduler handles the first reply; its item goes on under the URI the reply
\* leads to, unless it is final.
LEMMA LineHandled ==
    ASSUME NEW s, Sound(s), NEW t, NEW q \in Queues, NEW r \in Seq(Reply), r # <<>>,
           NEW a \in Seq(Request), Line(s, q, r, a),
           \A e \in Flight(s, q) \cap s.mine :
              e.owner # Head(r).owner => e \in Flight(t, q) \cap t.mine,
           \/ Final(Head(r))
           \/ \E f \in Flight(t, q) \cap t.mine :
                 f.owner = Head(r).owner /\ f.uri = After(Head(r))
    PROVE  Line(t, q, Tail(r), a)
<1> DEFINE m == Head(r)
           p == Tail(r)
           n == Len(p)
<1>1. /\ m \in Reply /\ p \in Seq(Reply) /\ Len(r) = n + 1 /\ n \in Nat /\ m = r[1]
      /\ \A k \in 1..n : p[k] = r[k + 1]
  <2>1. /\ m \in Reply /\ p \in Seq(Reply) /\ Len(r) \in Nat \ {0} /\ n = Len(r) - 1
        /\ m = r[1] /\ \A k \in 1..n : p[k] = r[k + 1]
    BY HeadAndTail
  <2> QED
    BY <2>1
<1> HIDE DEF n
<1>2. 1 \in 1..(n + 1) /\ \A k \in 1..n : k + 1 \in 1..(n + 1) /\ 1 < k + 1
  BY <1>1
<1> HIDE DEF m, p
<1>3. Asks(r, m.owner) /\ m.owner \in Items /\ (Final(m) => Ends(r, m.owner))
  BY <1>1, <1>2, ZenonT(40) DEF Asks, Ends, Reply
<1>4. \A i : Asks(p, i) => Asks(r, i) /\ (Final(m) => i # m.owner)
  <2>1. \A k \in 1..n : Final(m) => p[k].owner # m.owner
    BY <1>1, <1>2 DEF Line
  <2> QED
    BY <1>1, <1>2, <2>1 DEF Asks, n
<1>5. \A i : Ends(p, i) => Ends(r, i)
  BY <1>1, <1>2 DEF Ends, n
<1>6. ASSUME NEW k \in 1..n, NEW h \in 1..n, k < h, Final(p[k])
      PROVE  p[h].owner # p[k].owner
  <2>1. k + 1 < h + 1
    BY <1>1, <1>6
  <2> QED
    BY <1>1, <1>2, <1>6, <2>1 DEF Line
<1>7. ASSUME NEW i \in Items, Asks(a, i) \/ Asks(p, i)
      PROVE  \E e \in t.mine : /\ e.queue = q /\ e.owner = i /\ t.status[i] = "Fetching"
                               /\ \E x \in URI : /\ Chain(p, i, e.uri, x)
                                                 /\ \A k \in 1..Len(a) :
                                                       a[k].owner = i => a[k].uri = x
  <2>1. PICK e \in s.mine, x \in URI :
           /\ e.queue = q /\ e.owner = i /\ s.status[i] = "Fetching"
           /\ Chain(r, i, e.uri, x)
           /\ \A k \in 1..Len(a) : a[k].owner = i => a[k].uri = x
    BY <1>4, <1>7 DEF Line
  <2>2. IF m.owner = i THEN Chain(p, i, After(m), x) ELSE Chain(p, i, e.uri, x)
    BY <2>1, ChainTail DEF m, p
  <2>3. CASE i = m.owner
    <3>1. ~Final(m)
      BY <1>3, <1>4, <1>7, <2>3 DEF Line
    <3>2. PICK f \in Flight(t, q) \cap t.mine : f.owner = i /\ f.uri = After(m)
      BY <2>3, <3>1 DEF m
    <3>3. f.queue = q /\ t.status[i] = "Fetching"
      BY <3>2 DEF Flight, QItemsOf
    <3> QED
      BY <2>1, <2>2, <2>3, <3>2, <3>3
  <2>4. CASE i # m.owner
    <3>1. e \in Flight(s, q) \cap s.mine
      BY <2>1 DEF Flight, QItemsOf, Sound
    <3>2. e \in Flight(t, q) \cap t.mine
      BY <2>1, <2>4, <3>1 DEF m
    <3>3. t.status[i] = "Fetching"
      BY <2>1, <3>2 DEF Flight
    <3> QED
      BY <2>1, <2>2, <2>4, <3>2, <3>3
  <2> QED
    BY <2>3, <2>4
<1>8. Line(t, q, p, a)
  BY <1>4, <1>5, <1>6, <1>7 DEF Line, n
<1> QED
  BY <1>8 DEF p

\* FindItem finds the item a reply is for, and no other.
LEMMA Found ==
    ASSUME NEW s, Sound(s), NEW c \in Channels, Tracked(s, c), NEW q \in Queues,
           c.r[q] # <<>>
    PROVE  \E e \in Flight(s, q) \cap s.mine :
              /\ FindItem(s, q, Head(c.r[q]).uri) = {e}
              /\ e.owner = Head(c.r[q]).owner /\ e.uri = Head(c.r[q]).uri
              /\ After(Head(c.r[q])) \in URI /\ Owner[After(Head(c.r[q]))] = e.owner
<1> DEFINE r == c.r[q]
           m == Head(r)
           a == Sent(s, c, q)
<1>1. r \in Seq(Reply) /\ Line(s, q, r, a)
  BY TrackTypes DEF Tracked, Tracks
<1> HIDE DEF r, a
<1>2. m \in Reply /\ m = r[1] /\ 1 \in 1..Len(r)
  <2>1. m \in Reply /\ m = r[1] /\ Len(r) \in Nat \ {0}
    BY <1>1, HeadAndTail DEF r
  <2> QED
    BY <2>1
<1>3. m.owner \in Items /\ Asks(r, m.owner)
  BY <1>2 DEF Reply, Asks
<1>4. PICK e \in s.mine, x \in URI :
         /\ e.queue = q /\ e.owner = m.owner /\ s.status[m.owner] = "Fetching"
         /\ Chain(r, m.owner, e.uri, x)
  BY <1>1, <1>3 DEF Line
<1>5. m.uri = e.uri /\ After(m) \in URI /\ Owner[After(m)] = m.owner
  BY <1>1, <1>4, ChainTail DEF r
<1>6. e \in Flight(s, q) /\ e \in s.qitems
  BY <1>4 DEF Flight, QItemsOf, Sound
<1>7. e.pos <= e.pos
  BY <1>6 DEF Sound, AcqType, QItem
<1>8. \A f \in s.qitems : f.uri = m.uri => f = e
  BY <1>5, <1>6, OwnerKey DEF Tracked, Own
<1> HIDE DEF m
<1>9. FindItem(s, q, m.uri) = {e}
  BY <1>4, <1>5, <1>6, <1>7, <1>8 DEF FindItem, QItemsOf
<1> QED
  BY <1>4, <1>5, <1>6, <1>9 DEF m, r

\* The QItem that FindItem returns for the first reply of a queue.
LEMMA FoundIs ==
    ASSUME NEW s, Sound(s), NEW c \in Channels, Tracked(s, c), NEW q \in Queues,
           c.r[q] # <<>>, NEW e \in FindItem(s, q, Head(c.r[q]).uri)
    PROVE  /\ e \in Flight(s, q) \cap s.mine
           /\ e.owner = Head(c.r[q]).owner /\ e.uri = Head(c.r[q]).uri
           /\ After(Head(c.r[q])) \in URI /\ Owner[After(Head(c.r[q]))] = e.owner
<1>1. PICK g \in Flight(s, q) \cap s.mine :
         /\ FindItem(s, q, Head(c.r[q]).uri) = {g}
         /\ g.owner = Head(c.r[q]).owner /\ g.uri = Head(c.r[q]).uri
         /\ After(Head(c.r[q])) \in URI /\ Owner[After(Head(c.r[q]))] = g.owner
  BY Found
<1>2. e = g
  BY <1>1
<1> QED
  BY <1>1, <1>2

\* c and d agree on queue q, except for what c may know of cancelled Runs and
\* what d may know of the child's death.
AgreeOn(c, d, q) ==
    /\ d.r[q] = c.r[q] /\ d.w[q] = c.w[q] /\ (d.ok => c.ok) /\ (d.full => c.full)
    /\ q \notin d.gone => q \notin c.gone

LEMMA AgreedTracks ==
    ASSUME NEW s, NEW c, NEW d, NEW q, AgreeOn(c, d, q), Tracks(s, c, q)
    PROVE  Tracks(s, d, q)
<1>1. Sent(s, d, q) = Sent(s, c, q)
  BY DEF Sent, AgreeOn
<1> QED
  BY <1>1 DEF Tracks, AgreeOn, Covered, Clean

\* d is c after the first reply of queue q was handled.
Shorter(c, d, q) ==
    /\ d.r[q] = Tail(c.r[q]) /\ \A p \in Queues \ {q} : d.r[p] = c.r[p]
    /\ d.w = c.w /\ d.gone = c.gone /\ d.ok = c.ok /\ d.full = c.full

\* Only the first reply's item may lose its end when that reply is handled.
LEMMA EndsTail ==
    ASSUME NEW r \in Seq(Reply), r # <<>>, NEW i, Ends(r, i),
           ~(Final(Head(r)) /\ Head(r).owner = i)
    PROVE  Ends(Tail(r), i)
<1>1. /\ Len(r) \in Nat \ {0} /\ Len(Tail(r)) = Len(r) - 1 /\ Head(r) = r[1]
      /\ \A k \in 1..Len(Tail(r)) : Tail(r)[k] = r[k + 1]
  BY HeadAndTail
<1>2. PICK k \in 1..Len(r) : Final(r[k]) /\ r[k].owner = i
  BY DEF Ends
<1>3. k # 1
  BY <1>1, <1>2
<1>4. k - 1 \in 1..Len(Tail(r)) /\ (k - 1) + 1 = k
  BY <1>1, <1>3
<1>5. Tail(r)[k - 1] = r[k]
  BY <1>1, <1>4
<1> QED
  BY <1>2, <1>4, <1>5 DEF Ends

\* Handling the first reply of queue q, for QItem e: e leaves the worker if the
\* reply is final, and goes on under its new URI if not.
LEMMA HandledTracked ==
    ASSUME NEW s, Sound(s), NEW t, Sound(t), Own(t), NEW c \in Channels, Tracked(s, c),
           NEW q \in Queues, c.r[q] # <<>>, NEW d \in Channels, Shorter(c, d, q),
           NEW e \in Flight(s, q) \cap s.mine, e.owner = Head(c.r[q]).owner,
           t.worker = s.worker, t.out = s.out, t.maxDepth = s.maxDepth, t.error = s.error,
           \A p \in Queues \ {q} : Flight(t, p) = Flight(s, p) /\ t.depth[p] = s.depth[p],
           s.mine \ {e} \subseteq t.mine,
           \/ /\ Final(Head(c.r[q])) /\ Flight(t, q) = Flight(s, q) \ {e}
              /\ t.depth[q] = s.depth[q] - 1
           \/ \E f \in Flight(t, q) \cap t.mine :
                 /\ ~Final(Head(c.r[q])) /\ Flight(t, q) = (Flight(s, q) \ {e}) \cup {f}
                 /\ t.depth[q] = s.depth[q]
                 /\ f.owner = Head(c.r[q]).owner /\ f.uri = After(Head(c.r[q]))
    PROVE  Tracked(t, d)
<1> DEFINE r == c.r[q]
           m == Head(r)
           a == Sent(s, c, q)
           n == Cardinality(Flight(s, q))
<1>1. /\ r \in Seq(Reply) /\ a \in Seq(Request) /\ s.depth[q] \in Int
      /\ s.maxDepth[q] \in Nat /\ IsFiniteSet(Flight(s, q)) /\ Flight(s, q) \subseteq s.qitems
  BY TrackTypes
<1>2. Line(s, q, r, a) /\ Deep(s, q) /\ Covered(s, c, q) /\ Clean(s, c, q)
  BY DEF Tracked, Tracks
<1>3. e.queue = q /\ e \in s.qitems
  BY <1>1 DEF Flight, QItemsOf
<1>4. Sent(t, d, q) = a /\ d.r[q] = Tail(r)
  BY DEF Sent, Shorter
<1>5. \A g \in Flight(s, q) : g.owner = m.owner => g = e
  BY <1>1, <1>3, OwnerKey
<1>6. \A g \in Flight(s, q) : g.owner # m.owner => g \in Flight(t, q)
  BY <1>3
<1>7. Line(t, q, Tail(r), a)
  <2>1. \A g \in Flight(s, q) \cap s.mine :
           g.owner # m.owner => g \in Flight(t, q) \cap t.mine
    BY <1>6
  <2>2. \/ Final(m)
        \/ \E f \in Flight(t, q) \cap t.mine : f.owner = m.owner /\ f.uri = After(m)
    OBVIOUS
  <2> HIDE DEF r, a
  <2> QED
    BY <1>1, <1>2, <2>1, <2>2, LineHandled DEF r
<1>8. n \in Nat /\ IsFiniteSet(Flight(s, q) \ {e})
      /\ Cardinality(Flight(s, q) \ {e}) = n - 1
  BY <1>1, FS_RemoveElement, FS_CardinalityType
<1>9. Deep(t, q)
  <2>1. CASE Flight(t, q) = Flight(s, q) \ {e} /\ t.depth[q] = s.depth[q] - 1
    BY <1>1, <1>2, <1>8, <2>1, TrackTypes DEF Deep
  <2>2. CASE \E f : /\ Flight(t, q) = (Flight(s, q) \ {e}) \cup {f}
                    /\ t.depth[q] = s.depth[q] /\ f.owner = m.owner
    <3>1. PICK f : /\ Flight(t, q) = (Flight(s, q) \ {e}) \cup {f}
                   /\ t.depth[q] = s.depth[q] /\ f.owner = m.owner
      BY <2>2
    <3>2. f \notin Flight(s, q) \ {e}
      BY <1>5, <3>1
    <3>3. Cardinality((Flight(s, q) \ {e}) \cup {f}) = Cardinality(Flight(s, q) \ {e}) + 1
      BY <1>8, <3>2, FS_AddElement
    <3>4. Cardinality(Flight(t, q)) = n
      BY <1>8, <3>1, <3>3
    <3> QED
      BY <1>2, <3>1, <3>4 DEF Deep
  <2> QED
    BY <2>1, <2>2
<1>10. Covered(t, d, q)
  <2> SUFFICES ASSUME d.ok, ~t.error, t.worker[q] = "live", q \notin d.gone,
                      NEW g \in Flight(t, q)
               PROVE  Asks(a, g.owner) \/ Ends(Tail(r), g.owner)
    BY <1>4 DEF Covered
  <2>1. PICK h \in Flight(s, q) : h.owner = g.owner /\ (Final(m) => h.owner # m.owner)
    BY <1>5
  <2>2. Asks(a, h.owner) \/ Ends(r, h.owner)
    BY <1>2 DEF Covered, Shorter
  <2> HIDE DEF r, a
  <2> QED
    BY <1>1, <2>1, <2>2, EndsTail DEF r
<1>11. Clean(t, d, q)
  <2>1. Flight(s, q) # {}
    OBVIOUS
  <2> QED
    BY <1>2, <2>1 DEF Clean, Shorter
<1>12. ASSUME NEW p \in Queues, p # q
       PROVE  Tracks(t, d, p)
  <2>1. AgreeOn(c, d, p)
    BY <1>12 DEF AgreeOn, Shorter
  <2>2. Tracks(s, d, p)
    BY <2>1, AgreedTracks DEF Tracked
  <2>3. Flight(s, p) \cap s.mine \subseteq t.mine
    BY <1>3, <1>12 DEF Flight, QItemsOf
  <2>4. s.maxDepth[p] <= t.maxDepth[p] /\ t.maxDepth[p] <= Limit(p)
    BY TrackTypes DEF Tracked, Tracks, Deep
  <2>5. Flight(t, p) = Flight(s, p) /\ t.depth[p] = s.depth[p] /\ t.out[p] = s.out[p]
        /\ t.worker[p] = s.worker[p] /\ (s.error => t.error)
    BY <1>12
  <2> QED
    BY <2>2, <2>3, <2>4, <2>5, TracksSame
<1>13. Tracks(t, d, q)
  BY <1>4, <1>7, <1>9, <1>10, <1>11 DEF Tracks
<1> QED
  BY <1>12, <1>13 DEF Tracked

\* ItemDone, for the QItem the final reply at the head of queue q finds.
LEMMA DoneTracked ==
    ASSUME NEW s, Sound(s), NEW c \in Channels, Tracked(s, c), NEW q \in Queues,
           c.r[q] # <<>>, Final(Head(c.r[q])), NEW d \in Channels, Shorter(c, d, q),
           NEW e \in FindItem(s, q, Head(c.r[q]).uri)
    PROVE  Tracked(ItemDone(s, e), d)
<1> DEFINE i == e.owner
           t == [s EXCEPT !.depth[e.queue] = @ - 1,
                          !.status[i] = IF @ = "Fetching" THEN "Done" ELSE @]
<1>1. s \in AcqType /\ s.mine \subseteq s.qitems
  BY DEF Sound
<1>2. e \in Flight(s, q) \cap s.mine /\ i = Head(c.r[q]).owner
  BY FoundIs
<1>3. e \in s.qitems /\ e.queue = q /\ i \in Items /\ s.status[i] = "Fetching"
  BY <1>1, <1>2 DEF Flight, QItemsOf, AcqType, QItem
<1>4. s.counter[i] = 1
  BY <1>3 DEF Sound, AtMostOnce, OwnedBy
<1>5. PICK k \in Int : k = s.depth[q] - 1
  BY <1>1 DEF AcqType
<1>6. /\ t.qitems = s.qitems /\ t.mine = s.mine /\ t.counter = s.counter
      /\ t.tail = s.tail /\ t.made = s.made /\ t.worker = s.worker /\ t.out = s.out
      /\ t.maxDepth = s.maxDepth /\ t.error = s.error
      /\ t.depth = [s.depth EXCEPT ![q] = k]
      /\ t.status = [s.status EXCEPT ![i] = "Done"]
  BY <1>1, <1>3, <1>5 DEF AcqType
<1>7. t \in AcqType
  BY <1>1, <1>6, ZenonT(40) DEF AcqType, Status
<1>8. ItemDone(s, e) = Cycle(Dequeue(t, i), q)
  BY <1>3, <1>4, <1>6 DEF ItemDone
<1> HIDE DEF t
<1>9. Sound(t)
  BY <1>6, <1>7 DEF Sound, Keyed, AtMostOnce, OwnedBy
<1>10. /\ t.depth[q] = s.depth[q] - 1 /\ \A p \in Queues \ {q} : t.depth[p] = s.depth[p]
       /\ t.status[i] = "Done" /\ \A j \in Items \ {i} : t.status[j] = s.status[j]
  BY <1>1, <1>3, <1>5, <1>6 DEF AcqType
<1>11. \A g \in s.qitems : g.owner \in Items /\ (g.owner = i => g = e)
  BY <1>1, <1>3, OwnerKey DEF AcqType, QItem
<1>12. /\ Flight(t, q) = Flight(s, q) \ {e}
       /\ \A p \in Queues \ {q} : Flight(t, p) = Flight(s, p)
  BY <1>3, <1>6, <1>10, <1>11 DEF Flight, QItemsOf
<1>13. Own(t)
  BY <1>6 DEF Tracked, Own
<1>14. Tracked(t, d)
  <2>1. s.mine \ {e} \subseteq t.mine
    BY <1>6
  <2>2. Flight(t, q) = Flight(s, q) \ {e} /\ t.depth[q] = s.depth[q] - 1
    BY <1>10, <1>12
  <2>3. \A p \in Queues \ {q} : Flight(t, p) = Flight(s, p) /\ t.depth[p] = s.depth[p]
    BY <1>10, <1>12
  <2>4. /\ t.worker = s.worker /\ t.out = s.out /\ t.maxDepth = s.maxDepth
        /\ t.error = s.error
    BY <1>6
  <2>5. e.owner = Head(c.r[q]).owner /\ e \in Flight(s, q) \cap s.mine
    BY <1>2
  <2> HIDE DEF i
  <2> QED
    BY <1>9, <1>13, <2>1, <2>2, <2>3, <2>4, <2>5, HandledTracked
<1>15. Sound(Dequeue(t, i)) /\ Tracked(Dequeue(t, i), d)
  BY <1>3, <1>9, <1>10, <1>14, DequeueSound, DequeueTracked
<1> QED
  BY <1>8, <1>15, CycleTracked

\* 200 URI Start: the QItem it finds is being fetched already.
LEMMA StartTracked ==
    ASSUME NEW s, Sound(s), NEW c \in Channels, Tracked(s, c), NEW q \in Queues,
           c.r[q] # <<>>, Head(c.r[q]).code = 200, NEW d \in Channels, Shorter(c, d, q),
           NEW e \in FindItem(s, q, Head(c.r[q]).uri)
    PROVE  /\ [s EXCEPT !.status[e.owner] = "Fetching"] = s
           /\ Tracked(s, d)
<1> DEFINE m == Head(c.r[q])
<1>1. s \in AcqType /\ Own(s)
  BY DEF Sound, Tracked
<1>2. e \in Flight(s, q) \cap s.mine /\ e.owner = m.owner /\ e.uri = m.uri
  BY FoundIs
<1>3. s.status[e.owner] = "Fetching" /\ e.owner \in Items
  BY <1>1, <1>2 DEF Flight, QItemsOf, AcqType, QItem
<1>4. [s EXCEPT !.status[e.owner] = "Fetching"] = s
  <2>1. [s.status EXCEPT ![e.owner] = "Fetching"] = s.status
    BY <1>1, <1>3 DEF AcqType
  <2>2. [s EXCEPT !.status[e.owner] = "Fetching"] = [s EXCEPT !.status = s.status]
    BY <2>1
  <2>3. [s EXCEPT !.status = s.status] = s
    BY <1>1 DEF AcqType
  <2> QED
    BY <2>2, <2>3
<1>5. ~Final(m) /\ After(m) = m.uri
  BY DEF Final, After
<1>6. Flight(s, q) = (Flight(s, q) \ {e}) \cup {e}
  BY <1>2
<1>7. \E f \in Flight(s, q) \cap s.mine :
         /\ ~Final(m) /\ Flight(s, q) = (Flight(s, q) \ {e}) \cup {f}
         /\ s.depth[q] = s.depth[q] /\ f.owner = m.owner /\ f.uri = After(m)
  BY <1>2, <1>5, <1>6
<1>8. Tracked(s, d)
  BY <1>1, <1>2, <1>7, HandledTracked
<1> QED
  BY <1>4, <1>8

\* 103 Redirect: the QItem it finds takes the new URI, which is its owner's.
LEMMA RedirectTracked ==
    ASSUME NEW s, Sound(s), NEW c \in Channels, Tracked(s, c), NEW q \in Queues,
           c.r[q] # <<>>, Head(c.r[q]).code = 103, NEW d \in Channels, Shorter(c, d, q),
           NEW e \in FindItem(s, q, Head(c.r[q]).uri)
    PROVE  Tracked(Swap(s, e, Moved(e, Head(c.r[q]).arg)), d)
<1> DEFINE m == Head(c.r[q])
           f == Moved(e, m.arg)
           t == Swap(s, e, f)
<1>1. s \in AcqType /\ s.mine \subseteq s.qitems
  BY DEF Sound
<1>2. /\ e \in Flight(s, q) \cap s.mine /\ e.owner = m.owner
      /\ After(m) \in URI /\ Owner[After(m)] = e.owner
  BY FoundIs
<1>3. After(m) = m.arg /\ ~Final(m)
  BY DEF After, Final
<1>4. /\ e \in s.qitems /\ e.queue = q /\ s.status[e.owner] = "Fetching" /\ e \in QItem
  BY <1>1, <1>2 DEF Flight, QItemsOf, AcqType
<1>5. f.owner = e.owner /\ f.queue = q /\ f.uri = m.arg
  BY <1>4 DEF Moved, QItem
<1>6. Sound(t)
  BY <1>2, <1>3, RedirectSound
<1>7. /\ t.qitems = (s.qitems \ {e}) \cup {f} /\ t.mine = (s.mine \ {e}) \cup {f}
      /\ t.status = s.status /\ t.worker = s.worker /\ t.out = s.out
      /\ t.maxDepth = s.maxDepth /\ t.error = s.error /\ t.depth = s.depth
  BY <1>1 DEF AcqType, Swap
<1> HIDE DEF t, f, m
<1>8. Own(t)
  BY <1>2, <1>3, <1>5, <1>7 DEF Tracked, Own
<1>9. /\ Flight(t, q) = (Flight(s, q) \ {e}) \cup {f}
      /\ \A p \in Queues \ {q} : Flight(t, p) = Flight(s, p)
  BY <1>4, <1>5, <1>7 DEF Flight, QItemsOf
<1>10. f \in Flight(t, q) \cap t.mine
  BY <1>7, <1>9
<1>11. s.mine \ {e} \subseteq t.mine
  BY <1>7
<1>12. \E g \in Flight(t, q) \cap t.mine :
          /\ ~Final(m) /\ Flight(t, q) = (Flight(s, q) \ {e}) \cup {g}
          /\ t.depth[q] = s.depth[q] /\ g.owner = m.owner /\ g.uri = After(m)
  BY <1>2, <1>3, <1>5, <1>7, <1>9, <1>10
<1>13. Tracked(t, d)
  BY <1>2, <1>6, <1>7, <1>8, <1>9, <1>11, <1>12, HandledTracked DEF m
<1> QED
  BY <1>13 DEF t, f, m

-----------------------------------------------------------------------------
(* Losing and moving what is under way.                                     *)

\* Nothing is under way.
LEMMA LineEmpty == ASSUME NEW s, NEW q PROVE Line(s, q, <<>>, <<>>)
  BY DEF Line, NoTwice, Asks, Ends

\* No QItem of queue q is at a worker.
LEMMA NothingDeep ==
    ASSUME NEW s, NEW q \in Queues, Flight(s, q) = {}, s.depth[q] = 0, s.maxDepth[q] = 1
    PROVE  Deep(s, q)
<1>1. Limit(q) \in Nat \ {0}
  BY QueueAssumption DEF Limit
<1>2. Cardinality({}) = 0
  BY FS_EmptySet
<1> QED
  BY <1>1, <1>2 DEF Deep

\* A part of a sequence without repetition is without repetition.
LEMMA OncePart ==
    ASSUME NEW S, NEW a \in Seq(S), NEW b \in Seq(S), NoTwice(a \o b)
    PROVE  /\ NoTwice(a) /\ NoTwice(b)
           /\ \A k \in 1..Len(a) : \E l \in 1..Len(a \o b) : a[k] = (a \o b)[l]
           /\ \A k \in 1..Len(b) : \E l \in 1..Len(a \o b) : b[k] = (a \o b)[l]
<1>1. /\ Len(a) \in Nat /\ Len(b) \in Nat /\ Len(a \o b) = Len(a) + Len(b)
      /\ \A k \in 1..(Len(a) + Len(b)) :
            (a \o b)[k] = IF k <= Len(a) THEN a[k] ELSE b[k - Len(a)]
  BY ConcatProperties, LenProperties
<1>2. ASSUME NEW k \in 1..Len(a)
      PROVE  k \in 1..Len(a \o b) /\ (a \o b)[k] = a[k]
  BY <1>1
<1>3. ASSUME NEW k \in 1..Len(b)
      PROVE  k + Len(a) \in 1..Len(a \o b) /\ (a \o b)[k + Len(a)] = b[k]
  BY <1>1
<1> QED
  BY <1>2, <1>3, OnceConcat

\* The requests of queue q are lost, in part, with its process: the scheduler has
\* an error, or will have once it reads from the process.
LEMMA LostTracked ==
    ASSUME NEW s, Sound(s), NEW t, Sound(t), NEW c \in Channels, Tracked(s, c),
           NEW q \in Queues, NEW d \in Channels, \A p \in Queues \ {q} : AgreeOn(c, d, p),
           t.qitems = s.qitems, t.mine = s.mine, t.status = s.status, t.depth = s.depth,
           t.maxDepth = s.maxDepth, s.error => t.error,
           \A p \in Queues \ {q} : t.worker[p] = s.worker[p] /\ t.out[p] = s.out[p],
           d.r[q] = c.r[q], d.full => c.full, NoTwice(Sent(t, d, q)),
           \A k \in 1..Len(Sent(t, d, q)) :
              \E l \in 1..Len(Sent(s, c, q)) : Sent(t, d, q)[k] = Sent(s, c, q)[l],
           t.error \/ (q \in d.gone /\ t.worker[q] = s.worker[q])
    PROVE  Tracked(t, d)
<1>1. Own(t) /\ \A p \in Queues : Flight(t, p) = Flight(s, p)
  BY DEF Tracked, Own, Flight, QItemsOf
<1>2. \A p \in Queues : /\ s.maxDepth[p] <= t.maxDepth[p] /\ t.maxDepth[p] <= Limit(p)
                        /\ Flight(s, p) \cap s.mine \subseteq t.mine
  BY TrackTypes DEF Tracked, Tracks, Deep
<1>3. ASSUME NEW p \in Queues, p # q
      PROVE  Tracks(t, d, p)
  <2>1. Tracks(s, d, p)
    BY <1>3, AgreedTracks DEF Tracked
  <2>2. t.worker[p] = s.worker[p] /\ t.out[p] = s.out[p] /\ t.depth[p] = s.depth[p]
    BY <1>3
  <2> QED
    BY <1>1, <1>2, <2>1, <2>2, TracksSame
<1>4. Line(t, q, d.r[q], Sent(t, d, q))
  <2> DEFINE a == Sent(s, c, q)
             b == Sent(t, d, q)
             r == c.r[q]
  <2>1. Line(s, q, r, a)
    BY DEF Tracked, Tracks
  <2>2. Flight(s, q) \cap s.mine \subseteq Flight(t, q) \cap t.mine
    BY <1>1
  <2>3. NoTwice(b) /\ \A k \in 1..Len(b) : \E l \in 1..Len(a) : b[k] = a[l]
    OBVIOUS
  <2> HIDE DEF a, b, r
  <2>4. Line(t, q, r, b)
    BY <2>1, <2>2, <2>3, LineSame
  <2> QED
    BY <2>4 DEF b, r
<1>5. Deep(t, q)
  BY <1>1 DEF Tracked, Tracks, Deep
<1>6. Covered(t, d, q) /\ Clean(t, d, q)
  BY <1>1 DEF Tracked, Tracks, Covered, Clean
<1> QED
  BY <1>1, <1>3, <1>4, <1>5, <1>6 DEF Tracked, Tracks

\* Worker::MethodFailure.
LEMMA FailureTracked ==
    ASSUME NEW s, Sound(s), NEW c \in Channels, Tracked(s, c), NEW q \in Queues
    PROVE  Tracked(MethodFailure(s, q), c)
<1> DEFINE t == MethodFailure(s, q)
<1>1. s \in AcqType /\ <<>> \in Seq(Request)
  BY DEF Sound
<1>2. Sound(t)
  BY MethodFailureAlike
<1>3. /\ t.qitems = s.qitems /\ t.mine = s.mine /\ t.status = s.status
      /\ t.depth = s.depth /\ t.maxDepth = s.maxDepth /\ t.error /\ t.out[q] = <<>>
      /\ \A p \in Queues \ {q} : t.worker[p] = s.worker[p] /\ t.out[p] = s.out[p]
  BY <1>1 DEF MethodFailure, AcqType
<1> HIDE DEF t
<1>4. c.w[q] \in Seq(Request) /\ s.out[q] \in Seq(Request) /\ NoTwice(Sent(s, c, q))
  BY TrackTypes DEF Tracked, Tracks, Line
<1>5. Sent(t, c, q) = c.w[q]
  BY <1>3, <1>4, ConcatEmptySeq DEF Sent
<1>6. /\ NoTwice(c.w[q])
      /\ \A k \in 1..Len(c.w[q]) :
            \E l \in 1..Len(Sent(s, c, q)) : c.w[q][k] = Sent(s, c, q)[l]
  <2> DEFINE a == c.w[q]
             b == s.out[q]
  <2>1. a \in Seq(Request) /\ b \in Seq(Request) /\ NoTwice(a \o b)
    BY <1>4 DEF Sent
  <2> HIDE DEF a, b
  <2>2. /\ NoTwice(a)
        /\ \A k \in 1..Len(a) : \E l \in 1..Len(a \o b) : a[k] = (a \o b)[l]
    BY <2>1, OncePart
  <2> QED
    BY <2>2 DEF a, b, Sent
<1>7. /\ NoTwice(Sent(t, c, q))
      /\ \A k \in 1..Len(Sent(t, c, q)) :
            \E l \in 1..Len(Sent(s, c, q)) : Sent(t, c, q)[k] = Sent(s, c, q)[l]
  BY <1>5, <1>6
<1>8. \A p \in Queues \ {q} : AgreeOn(c, c, p)
  BY DEF AgreeOn
<1>9. Tracked(t, c)
  BY <1>2, <1>3, <1>7, <1>8, LostTracked
<1> QED
  BY <1>9 DEF t

\* The child of queue q dies, and what it was asked with it.
LEMMA DieTracked ==
    ASSUME NEW s, Sound(s), NEW c \in Channels, Tracked(s, c), NEW q \in Queues,
           NEW d \in Channels, d.r = c.r, d.w[q] = <<>>, d.gone = c.gone \cup {q},
           \A p \in Queues \ {q} : d.w[p] = c.w[p], d.ok = c.ok, d.full = c.full
    PROVE  Tracked(s, d)
<1>1. c.w[q] \in Seq(Request) /\ s.out[q] \in Seq(Request) /\ NoTwice(Sent(s, c, q))
  BY TrackTypes DEF Tracked, Tracks, Line
<1>2. Sent(s, d, q) = s.out[q]
  BY <1>1, ConcatEmptySeq DEF Sent
<1>3. /\ NoTwice(s.out[q])
      /\ \A k \in 1..Len(s.out[q]) :
            \E l \in 1..Len(Sent(s, c, q)) : s.out[q][k] = Sent(s, c, q)[l]
  <2> DEFINE a == c.w[q]
             b == s.out[q]
  <2>1. a \in Seq(Request) /\ b \in Seq(Request) /\ NoTwice(a \o b)
    BY <1>1 DEF Sent
  <2> HIDE DEF a, b
  <2>2. /\ NoTwice(b)
        /\ \A k \in 1..Len(b) : \E l \in 1..Len(a \o b) : b[k] = (a \o b)[l]
    BY <2>1, OncePart
  <2> QED
    BY <2>2 DEF a, b, Sent
<1>4. /\ NoTwice(Sent(s, d, q))
      /\ \A k \in 1..Len(Sent(s, d, q)) :
            \E l \in 1..Len(Sent(s, c, q)) : Sent(s, d, q)[k] = Sent(s, c, q)[l]
  BY <1>2, <1>3
<1>5. \A p \in Queues \ {q} : AgreeOn(c, d, p)
  BY DEF AgreeOn
<1> QED
  BY <1>4, <1>5, LostTracked

\* A request changes hands: from OutQueue to the pipe, or from there to the child.
LEMMA PassedTracked ==
    ASSUME NEW s, NEW t, NEW c, NEW d, Tracked(s, c),
           t.qitems = s.qitems, t.mine = s.mine, t.status = s.status, t.depth = s.depth,
           t.maxDepth = s.maxDepth, t.error = s.error, t.worker = s.worker,
           d.r = c.r, d.gone = c.gone, d.ok = c.ok, d.full = c.full,
           \A q \in Queues : Sent(t, d, q) = Sent(s, c, q)
    PROVE  Tracked(t, d)
<1>1. Own(t) /\ \A q : Flight(t, q) = Flight(s, q)
  BY DEF Tracked, Own, Flight, QItemsOf
<1>2. ASSUME NEW q \in Queues
      PROVE  Line(t, q, d.r[q], Sent(t, d, q)) /\ Deep(t, q)
             /\ Covered(t, d, q) /\ Clean(t, d, q)
  <2>1. Line(t, q, d.r[q], Sent(t, d, q))
    <3>1. Line(s, q, d.r[q], Sent(t, d, q))
      BY DEF Tracked, Tracks
    <3> HIDE DEF Sent
    <3> QED
      BY <3>1 DEF Line
  <2>2. Deep(t, q)
    BY <1>1 DEF Tracked, Tracks, Deep
  <2>3. Covered(t, d, q)
    BY <1>1 DEF Tracked, Tracks, Covered
  <2>4. Clean(t, d, q)
    BY <1>1 DEF Tracked, Tracks, Clean
  <2> QED
    BY <2>1, <2>2, <2>3, <2>4
<1> QED
  BY <1>1, <1>2 DEF Tracked, Tracks

\* The child of queue q writes a reply about its request number l.
LEMMA RepliedTracked ==
    ASSUME NEW s, Sound(s), NEW c \in Channels, Tracked(s, c), NEW q \in Queues,
           NEW d \in Channels, NEW m \in Reply, d.r[q] = Append(c.r[q], m),
           \A p \in Queues \ {q} : AgreeOn(c, d, p),
           d.gone = c.gone, d.ok = c.ok, d.full = c.full,
           NEW l \in 1..Len(Sent(s, c, q)),
           m.owner = Sent(s, c, q)[l].owner, m.uri = Sent(s, c, q)[l].uri,
           m.code = 103 => Owner[m.arg] = m.owner,
           NoTwice(Sent(s, d, q)),
           \A k \in 1..Len(Sent(s, d, q)) :
              \/ \E j \in 1..Len(Sent(s, c, q)) : j # l /\ Sent(s, d, q)[k] = Sent(s, c, q)[j]
              \/ /\ ~Final(m) /\ Sent(s, d, q)[k].owner = m.owner
                 /\ Sent(s, d, q)[k].uri = After(m),
           \A i : Asks(Sent(s, c, q), i) => Asks(Sent(s, d, q), i) \/ (Final(m) /\ i = m.owner)
    PROVE  Tracked(s, d)
<1> DEFINE a == Sent(s, c, q)
           b == Sent(s, d, q)
           r == c.r[q]
<1>1. r \in Seq(Reply) /\ a \in Seq(Request) /\ b \in Seq(Request)
  BY TrackTypes
<1>2. Line(s, q, r, a) /\ Deep(s, q) /\ Covered(s, c, q) /\ Clean(s, c, q)
  BY DEF Tracked, Tracks
<1>3. Line(s, q, Append(r, m), b)
  <2>1. /\ l \in 1..Len(a) /\ m.owner = a[l].owner /\ m.uri = a[l].uri /\ NoTwice(b)
        /\ \A k \in 1..Len(b) :
              \/ \E j \in 1..Len(a) : j # l /\ b[k] = a[j]
              \/ ~Final(m) /\ b[k].owner = m.owner /\ b[k].uri = After(m)
    OBVIOUS
  <2> HIDE DEF a, b, r
  <2> QED
    BY <1>1, <1>2, <2>1, LineReplied
<1>4. \A i : Ends(r, i) => Ends(Append(r, m), i)
  <2>1. Len(r) \in Nat /\ Len(Append(r, m)) = Len(r) + 1
        /\ \A k \in 1..Len(r) : Append(r, m)[k] = r[k] /\ k \in 1..(Len(r) + 1)
    BY <1>1, LenProperties, AppendProperties
  <2> QED
    BY <2>1 DEF Ends
<1>5. Final(m) => Ends(Append(r, m), m.owner)
  <2>1. /\ Len(Append(r, m)) = Len(r) + 1 /\ Append(r, m)[Len(r) + 1] = m
        /\ Len(r) + 1 \in 1..(Len(r) + 1)
    BY <1>1, LenProperties, AppendProperties
  <2> QED
    BY <2>1 DEF Ends
<1>6. Covered(s, d, q)
  <2>1. Covered(s, c, q) /\ d.r[q] = Append(r, m)
    BY <1>2
  <2>2. \A i : Asks(a, i) => Asks(b, i) \/ (Final(m) /\ i = m.owner)
    OBVIOUS
  <2> HIDE DEF r
  <2>3. \A i : Asks(a, i) \/ Ends(r, i) => Asks(b, i) \/ Ends(Append(r, m), i)
    BY <1>4, <1>5, <2>2
  <2> QED
    BY <2>1, <2>3 DEF Covered, r
<1>7. Tracks(s, d, q)
  <2>1. Clean(s, d, q)
    BY <1>2 DEF Clean
  <2> QED
    BY <1>2, <1>3, <1>6, <2>1 DEF Tracks
<1>8. ASSUME NEW p \in Queues, p # q
      PROVE  Tracks(s, d, p)
  BY <1>8, AgreedTracks DEF Tracked
<1> QED
  BY <1>7, <1>8 DEF Tracked

\* The end of a Run deletes the workers outside kept, and what they had: that is
\* nothing, unless Run was cancelled or stopped by an error.
LEMMA StoppedTracked ==
    ASSUME NEW s, Sound(s), NEW c \in Channels, Tracked(s, c), NEW kept \in SUBSET Queues,
           NEW stale \in BOOLEAN, NEW d \in Channels,
           \A q \in kept : /\ d.r[q] = c.r[q] /\ d.w[q] = c.w[q]
                           /\ q \notin d.gone => q \notin c.gone,
           \A q \in Queues \ kept : d.r[q] = <<>> /\ d.w[q] = <<>>,
           d.ok => c.ok, d.full => c.full,
           s.error \/ ~d.full \/ s.qitems = {}
    PROVE  Tracked(ShutdownQueues(s, kept, stale), d)
<1> DEFINE t == ShutdownQueues(s, kept, stale)
<1>1. s \in AcqType /\ s.mine \subseteq s.qitems
  BY DEF Sound
<1>2. Sound(t)
  BY ShutdownQueuesSound
<1>3. /\ t.qitems = s.qitems /\ t.status = s.status /\ t.error = s.error
      /\ t.depth = s.depth /\ t.maxDepth = s.maxDepth
      /\ t.worker = [q \in Queues |-> IF q \in kept THEN s.worker[q] ELSE "none"]
      /\ t.out = [q \in Queues |-> IF q \in kept THEN s.out[q] ELSE <<>>]
      /\ t.mine = IF stale THEN s.mine ELSE {e \in s.mine : e.queue \in kept}
  BY <1>1 DEF ShutdownQueues, AcqType
<1> HIDE DEF t
<1>4. Own(t) /\ \A q \in Queues : Flight(t, q) = Flight(s, q)
  BY <1>3 DEF Tracked, Own, Flight, QItemsOf
<1>5. ASSUME NEW q \in kept
      PROVE  Tracks(t, d, q)
  <2>1. q \in Queues /\ AgreeOn(c, d, q)
    BY DEF AgreeOn
  <2>2. Tracks(s, d, q)
    BY <2>1, AgreedTracks DEF Tracked
  <2>3. t.worker[q] = s.worker[q] /\ t.out[q] = s.out[q] /\ t.depth[q] = s.depth[q]
    BY <1>3, <2>1
  <2>4. Flight(s, q) \cap s.mine \subseteq t.mine
    BY <1>3 DEF Flight, QItemsOf
  <2>5. s.maxDepth[q] <= t.maxDepth[q] /\ t.maxDepth[q] <= Limit(q)
    BY <1>3, <2>1, TrackTypes DEF Tracked, Tracks, Deep
  <2>6. Flight(t, q) = Flight(s, q) /\ (s.error => t.error)
    BY <1>3, <1>4, <2>1
  <2> QED
    BY <1>2, <2>1, <2>2, <2>3, <2>4, <2>5, <2>6, TracksSame
<1>6. ASSUME NEW q \in Queues \ kept
      PROVE  Tracks(t, d, q)
  <2>1. t.worker[q] = "none" /\ t.out[q] = <<>>
    BY <1>3
  <2>2. Sent(t, d, q) = <<>>
    <3>1. Sent(t, d, q) = <<>> \o <<>>
      BY <2>1 DEF Sent
    <3>2. <<>> \in Seq(Request)
      OBVIOUS
    <3> QED
      BY <3>1, <3>2, ConcatEmptySeq
  <2>3. Line(t, q, d.r[q], Sent(t, d, q))
    BY <2>2, LineEmpty
  <2>4. Deep(t, q)
    BY <1>3, <1>4 DEF Tracked, Tracks, Deep
  <2>5. Covered(t, d, q)
    BY <2>1 DEF Covered
  <2>6. Clean(t, d, q)
    BY <1>3, <2>1 DEF Clean, Flight, QItemsOf
  <2> QED
    BY <2>3, <2>4, <2>5, <2>6 DEF Tracks
<1>7. Tracked(t, d)
  BY <1>4, <1>5, <1>6 DEF Tracked
<1> QED
  BY <1>7 DEF t

\* A scheduler without QItems, with nothing under way.
LEMMA EmptyTracked ==
    ASSUME NEW t, NEW d, \A q \in Queues : d.r[q] = <<>> /\ d.w[q] = <<>>,
           t.qitems = {}, t.depth = [q \in Queues |-> 0], t.maxDepth = [q \in Queues |-> 1],
           t.out = [q \in Queues |-> <<>>], t.worker = [q \in Queues |-> "none"]
    PROVE  Tracked(t, d)
<1>1. Own(t) /\ \A q \in Queues : Flight(t, q) = {}
  BY DEF Own, Flight, QItemsOf
<1>2. ASSUME NEW q \in Queues
      PROVE  Tracks(t, d, q)
  <2>1. Sent(t, d, q) = <<>> \o <<>> /\ <<>> \in Seq(Request)
    BY DEF Sent
  <2>2. Sent(t, d, q) = <<>>
    BY <2>1, ConcatEmptySeq
  <2>3. Line(t, q, d.r[q], Sent(t, d, q))
    BY <2>2, LineEmpty
  <2>4. Deep(t, q)
    BY <1>1, NothingDeep
  <2>5. Covered(t, d, q) /\ Clean(t, d, q)
    BY <1>1 DEF Covered, Clean
  <2> QED
    BY <2>3, <2>4, <2>5 DEF Tracks
<1> QED
  BY <1>1, <1>2 DEF Tracked

\* pkgAcquire::Shutdown leaves nothing.
LEMMA ClearedTracked ==
    ASSUME NEW s, NEW gone, NEW d, \A q \in Queues : d.r[q] = <<>> /\ d.w[q] = <<>>
    PROVE  Tracked(ObjectShutdown(s, gone), d)
<1> DEFINE t == ObjectShutdown(s, gone)
<1>1. /\ t.qitems = {} /\ t.depth = [q \in Queues |-> 0] /\ t.maxDepth = [q \in Queues |-> 1]
      /\ t.out = [q \in Queues |-> <<>>] /\ t.worker = [q \in Queues |-> "none"]
  BY DEF ObjectShutdown, NewAcquire
<1> HIDE DEF t
<1>2. Tracked(t, d)
  BY <1>1, EmptyTracked
<1> QED
  BY <1>2 DEF t

-----------------------------------------------------------------------------
(* The channels of a state.                                                 *)

NoneDropped == ~(MayCancel /\ runs > 1)

Chan ==
    [r    |-> [q \in Queues |-> msgs[q] \o answers[q]],
     w    |-> [q \in Queues |-> fetch[q] \o pipe[q]],
     gone |-> died,
     ok   |-> NoneDropped,
     full |-> NoneDropped /\ (Running \/ runs = 0 \/ ~MayCancel)]

\* Messages are handled within the pass of RunFds that read them.
Passes == (~At("round") => Quiet) /\ (Running => runs # 0)

OwnItems == \A i \in Items : item[i].uri # NoURI => Owner[item[i].uri] = i

\* The inductive invariant, next to IInv.
CInv == Tracked(acq, Chan) /\ Passes /\ OwnItems

LEMMA ChanType == ASSUME TypeOK PROVE Chan \in Channels
<1>1. ASSUME NEW q \in Queues
      PROVE  msgs[q] \o answers[q] \in Seq(Reply) /\ fetch[q] \o pipe[q] \in Seq(Request)
  BY ConcatProperties DEF TypeOK
<1>2. died \subseteq Queues
  BY DEF TypeOK
<1>3. PICK f \in BOOLEAN : f = (NoneDropped /\ (Running \/ runs = 0 \/ ~MayCancel))
  OBVIOUS
<1>4. PICK o \in BOOLEAN : o = NoneDropped
  BY DEF NoneDropped
<1> QED
  BY <1>1, <1>2, <1>3, <1>4 DEF Chan, Channels

LEMMA ChanTypeNext == ASSUME TypeOK' PROVE Chan' \in Channels
<1>1. ASSUME NEW q \in Queues
      PROVE  /\ msgs'[q] \o answers'[q] \in Seq(Reply)
             /\ fetch'[q] \o pipe'[q] \in Seq(Request)
  BY ConcatProperties DEF TypeOK
<1>2. died' \subseteq Queues
  BY DEF TypeOK
<1>3. PICK f \in BOOLEAN : f = (NoneDropped /\ (Running \/ runs = 0 \/ ~MayCancel))'
  OBVIOUS
<1>4. PICK o \in BOOLEAN : o = NoneDropped'
  BY DEF NoneDropped
<1> QED
  BY <1>1, <1>2, <1>3, <1>4 DEF Chan, Channels

\* What the components of Chan are.
LEMMA ChanIs ==
    /\ \A q \in Queues : /\ Chan.r[q] = msgs[q] \o answers[q]
                         /\ Chan.w[q] = fetch[q] \o pipe[q]
    /\ Chan.gone = died /\ (Chan.ok <=> NoneDropped)
    /\ Chan.full <=> NoneDropped /\ (Running \/ runs = 0 \/ ~MayCancel)
  BY DEF Chan

\* Between two passes no message is left.
LEMMA PassesNext == ASSUME IInv, CInv, [Next]_vars PROVE Passes'
<1>1. TypeOK /\ Passes /\ runs \in Nat
  BY DEF IInv, CInv, TypeOK
<1>2. CASE Run
  BY <1>1, <1>2 DEF Run, Passes, At, Running, Quiet
<1>3. CASE UNCHANGED <<msgs, loop, runs>>
  BY <1>1, <1>3 DEF Passes, At, Running, Quiet
<1>4. ASSUME NEW q \in Queues, StartQueue(q)
      PROVE  Passes'
  BY <1>1, <1>4 DEF StartQueue, Ticked, Passes, At, Running, Quiet, runVars, LoopState, TypeOK
<1>5. CASE Select \/ EndRound
  BY <1>1, <1>5 DEF Select, EndRound, RoundOver, Passes, At, Running, Quiet, runVars,
                    LoopState, TypeOK
<1>6. ASSUME NEW q \in Queues, InReady(q) \/ OutReady(q)
      PROVE  Passes'
  BY <1>1, <1>6 DEF InReady, OutReady, Ticked, Passes, At, Running, Quiet, runVars,
                    LoopState, TypeOK
<1>7. CASE Break \/ Cancel \/ Fetched
  <2>1. Quiet
    BY <1>1, <1>7 DEF Break, Cancel, Fetched, RoundOver, Passes, At
  <2>2. ASSUME NEW res, Leave(res)
        PROVE  msgs' = msgs /\ loop'.pc = "idle"
    <3>1. loop' = [pc |-> "idle", todo |-> {}] /\ msgs' = msgs
      BY <2>2 DEF Leave
    <3> QED
      BY <3>1
  <2>3. msgs' = msgs /\ loop'.pc = "idle"
    BY <1>7, <2>2 DEF Break, Cancel, Fetched
  <2> QED
    BY <2>1, <2>3 DEF Passes, At, Running, Quiet
<1>8. ASSUME NEW q \in Queues, RunMessage(q)
      PROVE  Passes'
  <2>1. msgs[q] # <<>> /\ UNCHANGED <<loop, runs>>
    BY <1>8 DEF RunMessage, Redirected, URIStart, URIDone, URIFailure, Handling, runVars
  <2> QED
    BY <1>1, <2>1 DEF Passes, At, Running, Quiet
<1>9. CASE Shutdown \/ \E i \in Items : NewItem(i) \/ DropItem(i)
  BY <1>3, <1>9 DEF Shutdown, NewItem, DropItem, runVars
<1>10. ASSUME NEW q \in Queues, MethodStep(q) \/ SendStart(q) \/ Redirect(q) \/ Die(q)
       PROVE  Passes'
  BY <1>3, <1>10 DEF MethodStep, Receive, Answered, SendStart, Redirect, Die, otherVars, runVars
<1> QED
  BY <1>2, <1>3, <1>4, <1>5, <1>6, <1>7, <1>8, <1>9, <1>10 DEF Next, LoopStep, vars

\* No handler asks for a URI that is not its item's.
LEMMA AskingOwned ==
    ASSUME OwnURIs, NEW i \in Items, NEW it, it.uri # NoURI => Owner[it.uri] = i,
           NEW v, Asking(i, it, v)
    PROVE  /\ v.it.uri # NoURI => Owner[v.it.uri] = i
           /\ v.next # NoURI => Owner[v.next] = i
<1>1. \A u \in Named(i) : Owner[u] = i
  BY OwnerOwns DEF Owns
<1> QED
  BY <1>1 DEF Asking

\* At the start nothing is under way.
LEMMA InitTracked == ASSUME Init PROVE CInv
<1>1. \A q \in Queues : Chan.r[q] = <<>> /\ Chan.w[q] = <<>>
  <2>1. ASSUME NEW q \in Queues
        PROVE  Chan.r[q] = <<>> \o <<>> /\ Chan.w[q] = <<>> \o <<>>
    BY ChanIs DEF Init
  <2>2. <<>> \in Seq(Reply)
    OBVIOUS
  <2>3. <<>> \o <<>> = <<>>
    BY <2>2, ConcatEmptySeq
  <2> QED
    BY <2>1, <2>3
<1>2. /\ acq.qitems = {} /\ acq.depth = [q \in Queues |-> 0]
      /\ acq.maxDepth = [q \in Queues |-> 1]
      /\ acq.out = [q \in Queues |-> <<>>] /\ acq.worker = [q \in Queues |-> "none"]
  BY DEF Init, NewAcquire
<1>3. Tracked(acq, Chan)
  BY <1>1, <1>2, EmptyTracked
<1>4. Passes /\ OwnItems
  BY DEF Init, Passes, At, Running, Quiet, OwnItems, NewState
<1> QED
  BY <1>3, <1>4 DEF CInv

-----------------------------------------------------------------------------
(* The steps of the caller and of Run.                                      *)

\* A step that moves nothing between the channels.
LEMMA ChanSame ==
    ASSUME \A q \in Queues : /\ msgs'[q] \o answers'[q] = msgs[q] \o answers[q]
                             /\ fetch'[q] \o pipe'[q] = fetch[q] \o pipe[q],
           died' = died, runs' = runs, Running' = Running
    PROVE  Chan' = Chan
<1>1. NoneDropped' = NoneDropped
  BY DEF NoneDropped
<1>2. (NoneDropped /\ (Running \/ runs = 0 \/ ~MayCancel))'
      = (NoneDropped /\ (Running \/ runs = 0 \/ ~MayCancel))
  BY <1>1
<1> QED
  BY <1>1, <1>2 DEF Chan

\* What CInv's parts say of the state, and what they need.
LEMMA CInvIs ==
    ASSUME IInv, CInv
    PROVE  Sound(acq) /\ Chan \in Channels /\ Tracked(acq, Chan)
  BY ChanType DEF IInv, CInv

\* Steps of the loop that only move it on.
LEMMA StillTracked ==
    ASSUME CInv, UNCHANGED <<acq, msgs, answers, died, runs>>, Running' = Running,
           \A q \in Queues : fetch'[q] \o pipe'[q] = fetch[q] \o pipe[q]
    PROVE  Tracked(acq, Chan)'
<1>1. Chan' = Chan
  BY ChanSame
<1> QED
  BY <1>1 DEF CInv

\* Run begins: nothing is dropped.
LEMMA RunTracked == ASSUME IInv, CInv, Run PROVE Tracked(acq, Chan)'
<1>1. /\ acq' = acq /\ msgs' = msgs /\ answers' = answers /\ fetch' = fetch
      /\ pipe' = pipe /\ died' = died /\ runs' = runs + 1 /\ runs \in Nat
      /\ ~Running /\ Running'
  BY DEF Run, IInv, TypeOK, methodVars, At, Running
<1>2. \A q \in Queues : Chan.r[q] = msgs[q] \o answers[q] /\ Chan.w[q] = fetch[q] \o pipe[q]
  BY ChanIs
<1>3. \A q \in Queues : Chan'.r[q] = msgs'[q] \o answers'[q]
                        /\ Chan'.w[q] = fetch'[q] \o pipe'[q]
  BY DEF Chan
<1>4. /\ Chan'.gone = Chan.gone /\ (Chan'.ok => Chan.ok) /\ (Chan'.full => Chan.full)
  <2>1. /\ Chan'.gone = died' /\ (Chan'.ok <=> NoneDropped')
        /\ Chan'.full <=> NoneDropped' /\ (Running' \/ runs' = 0 \/ ~MayCancel)
    BY DEF Chan
  <2>2. NoneDropped' => NoneDropped /\ (runs = 0 \/ ~MayCancel)
    BY <1>1 DEF NoneDropped
  <2> QED
    BY <1>1, <2>1, <2>2, ChanIs
<1> HIDE DEF Chan
<1>5. \A q \in Queues : AgreeOn(Chan, Chan', q)
  BY <1>1, <1>2, <1>3, <1>4 DEF AgreeOn
<1>6. \A q \in Queues : Tracks(acq, Chan', q)
  BY <1>5, AgreedTracks DEF CInv, Tracked
<1>7. Tracked(acq, Chan')
  BY <1>6 DEF CInv, Tracked
<1> QED
  BY <1>1, <1>7

\* Run starts a queue.
LEMMA StartQueueTracked ==
    ASSUME IInv, CInv, NEW q \in Queues, StartQueue(q)
    PROVE  Tracked(acq, Chan)'
<1>1. Chan' = Chan
  BY ChanSame DEF StartQueue, methodVars, runVars, Ticked, At, Running, IInv, TypeOK, LoopState
<1>2. PICK ok \in BOOLEAN : acq' = Startup(acq, q, ok)
  BY QueueAssumption DEF StartQueue
<1>3. Chan.ok => Chan.full
  BY ChanIs DEF StartQueue, At, Running
<1>4. Tracked(Startup(acq, q, ok), Chan)
  BY <1>3, CInvIs, StartupTracked
<1> QED
  BY <1>1, <1>2, <1>4

\* A pass reads from the child of queue q, or finds it dead.
LEMMA InReadyTracked ==
    ASSUME IInv, CInv, NEW q \in Queues, InReady(q)
    PROVE  Tracked(acq, Chan)'
<1>1. /\ Quiet /\ Running /\ Running' /\ UNCHANGED <<runs, pipe, fetch, died>>
      /\ answers' = [answers EXCEPT ![q] = <<>>]
      /\ msgs \in [Queues -> Seq(Reply)] /\ answers \in [Queues -> Seq(Reply)]
  BY DEF InReady, Ticked, At, Running, runVars, IInv, TypeOK, LoopState
<1>2. \A p \in Queues \ {q} : msgs'[p] = msgs[p] /\ answers'[p] = answers[p]
  BY <1>1 DEF InReady
<1>3. \A p \in Queues : msgs[p] = <<>> /\ answers[p] \in Seq(Reply)
  BY <1>1 DEF Quiet
<1>4. answers'[q] = <<>> /\ msgs'[q] = answers[q]
  BY <1>1, <1>3 DEF InReady
<1>5. msgs'[q] \o answers'[q] = msgs[q] \o answers[q]
  BY <1>3, <1>4, ConcatEmptySeq
<1>6. \A p \in Queues : msgs'[p] \o answers'[p] = msgs[p] \o answers[p]
  BY <1>2, <1>5
<1>7. Chan' = Chan
  BY <1>1, <1>6, ChanSame
<1>8. acq' = acq \/ acq' = MethodFailure(acq, q)
  BY DEF InReady
<1>9. Tracked(acq, Chan) /\ Tracked(MethodFailure(acq, q), Chan)
  BY CInvIs, FailureTracked
<1> QED
  BY <1>7, <1>8, <1>9

\* A sequence is what SubSeq cuts it into.
LEMMA CutRejoins ==
    ASSUME NEW S, NEW a \in Seq(S), NEW k \in 1..Len(a)
    PROVE  /\ SubSeq(a, 1, k) \in Seq(S) /\ SubSeq(a, k + 1, Len(a)) \in Seq(S)
           /\ SubSeq(a, 1, k) \o SubSeq(a, k + 1, Len(a)) = a
<1>1. Len(a) \in Nat /\ k \in Nat /\ \A j \in 1..Len(a) : a[j] \in S
  BY LenProperties, ElementOfSeq
<1>2. SubSeq(a, 1, k) \in Seq(S) /\ SubSeq(a, k + 1, Len(a)) \in Seq(S)
  BY <1>1, SubSeqProperties
<1>3. SubSeq(a, 1, k) \o SubSeq(a, k + 1, Len(a)) = SubSeq(a, 1, Len(a))
  BY <1>1, ConcatAdjacentSubSeq
<1>4. SubSeq(a, 1, Len(a)) = a
  <2>1. /\ SubSeq(a, 1, Len(a)) \in Seq(S) /\ Len(SubSeq(a, 1, Len(a))) = Len(a)
        /\ \A j \in 1..Len(a) : SubSeq(a, 1, Len(a))[j] = a[j]
    BY <1>1, SubSeqProperties
  <2> QED
    BY <2>1, SeqEqual
<1> QED
  BY <1>2, <1>3, <1>4

LEMMA RequestsAssociate ==
    \A a, b, c \in Seq(Request) : (a \o b) \o c = a \o (b \o c)
  BY ConcatAssociative

\* A pass writes to the child of queue q, or finds it dead.
LEMMA OutReadyTracked ==
    ASSUME IInv, CInv, NEW q \in Queues, OutReady(q)
    PROVE  Tracked(acq, Chan)'
<1>1. /\ Running /\ Running' /\ UNCHANGED <<runs, msgs, answers, fetch, died>>
      /\ acq \in AcqType /\ acq.out[q] \in Seq(Request)
      /\ pipe \in [Queues -> Seq(Request)] /\ fetch \in [Queues -> Seq(Request)]
  BY DEF OutReady, Ticked, At, Running, runVars, IInv, TypeOK, LoopState, AcqType
<1>2. Tracked(acq, Chan) /\ Tracked(MethodFailure(acq, q), Chan) /\ Chan \in Channels
  BY CInvIs, FailureTracked
<1>3. CASE pipe' = pipe /\ acq' \in {acq, MethodFailure(acq, q)}
  <2>1. Chan' = Chan
    BY <1>1, <1>3, ChanSame
  <2> QED
    BY <1>2, <1>3, <2>1
<1>4. CASE \E k \in 1..Len(acq.out[q]) :
              /\ pipe' = [pipe EXCEPT ![q] = @ \o SubSeq(acq.out[q], 1, k)]
              /\ acq' = [acq EXCEPT !.out[q] = SubSeq(@, k + 1, Len(@))]
  <2>1. PICK k \in 1..Len(acq.out[q]) :
           /\ pipe' = [pipe EXCEPT ![q] = @ \o SubSeq(acq.out[q], 1, k)]
           /\ acq' = [acq EXCEPT !.out[q] = SubSeq(@, k + 1, Len(@))]
    BY <1>4
  <2>2. PICK x \in Seq(Request), y \in Seq(Request) :
           /\ x = SubSeq(acq.out[q], 1, k)
           /\ y = SubSeq(acq.out[q], k + 1, Len(acq.out[q])) /\ x \o y = acq.out[q]
    <3>1. PICK a \in Seq(Request) : a = acq.out[q]
      BY <1>1
    <3>2. k \in 1..Len(a)
      BY <3>1
    <3>3. /\ SubSeq(a, 1, k) \in Seq(Request) /\ SubSeq(a, k + 1, Len(a)) \in Seq(Request)
          /\ SubSeq(a, 1, k) \o SubSeq(a, k + 1, Len(a)) = a
      BY <3>2, CutRejoins
    <3> QED
      BY <3>1, <3>3
  <2>3. pipe' = [pipe EXCEPT ![q] = @ \o x] /\ acq' = [acq EXCEPT !.out[q] = y]
    BY <2>1, <2>2
  <2>4. /\ acq'.qitems = acq.qitems /\ acq'.mine = acq.mine /\ acq'.status = acq.status
        /\ acq'.depth = acq.depth /\ acq'.maxDepth = acq.maxDepth /\ acq'.error = acq.error
        /\ acq'.worker = acq.worker
        /\ acq'.out[q] = y /\ \A p \in Queues \ {q} : acq'.out[p] = acq.out[p]
    BY <1>1, <2>3 DEF AcqType
  <2>5. pipe'[q] = pipe[q] \o x /\ \A p \in Queues \ {q} : pipe'[p] = pipe[p]
    BY <1>1, <2>3
  <2>6. (fetch[q] \o (pipe[q] \o x)) \o y = (fetch[q] \o pipe[q]) \o (x \o y)
    <3>1. PICK f \in Seq(Request), g \in Seq(Request) : f = fetch[q] /\ g = pipe[q]
      BY <1>1
    <3>2. \A a, b, c \in Seq(Request) : (a \o b) \o c = a \o (b \o c)
      BY RequestsAssociate
    <3>3. PICK h \in Seq(Request) : h = f \o g
      BY ConcatProperties
    <3>4. h \o x = f \o (g \o x) /\ (h \o x) \o y = h \o (x \o y)
      BY <3>2, <3>3, ZenonT(40)
    <3> QED
      BY <3>1, <3>3, <3>4
  <2>7. \A p \in Queues : /\ Chan.w[p] = fetch[p] \o pipe[p]
                          /\ Chan'.w[p] = fetch'[p] \o pipe'[p]
    BY DEF Chan
  <2>8. /\ Chan'.r = Chan.r /\ Chan'.gone = Chan.gone /\ Chan'.ok = Chan.ok
        /\ Chan'.full = Chan.full
    BY <1>1 DEF Chan, NoneDropped
  <2> HIDE DEF Chan
  <2>9. Sent(acq', Chan', q) = Sent(acq, Chan, q)
    BY <1>1, <2>2, <2>4, <2>5, <2>6, <2>7 DEF Sent
  <2>10. \A p \in Queues : Sent(acq', Chan', p) = Sent(acq, Chan, p)
    BY <1>1, <2>4, <2>5, <2>7, <2>9, ZenonT(40) DEF Sent
  <2>11. Tracked(acq', Chan')
    BY <1>2, <2>4, <2>8, <2>10, PassedTracked
  <2> QED
    BY <2>11
<1>5. CASE acq.worker[q] # "live"
  BY <1>3, <1>5 DEF OutReady
<1>6. CASE acq.worker[q] = "live" /\ q \in died
  BY <1>3, <1>6 DEF OutReady
<1>7. CASE acq.worker[q] = "live" /\ q \notin died
  BY <1>4, <1>7 DEF OutReady
<1> QED
  BY <1>5, <1>6, <1>7

\* Leaving Run forgets what is under way at the workers it deletes.
LEMMA LeaveTracked ==
    ASSUME IInv, CInv, TypeOK', Running, Quiet, NEW res, Leave(res),
           acq.error \/ MayCancel \/ acq.qitems = {}
    PROVE  Tracked(acq, Chan)' /\ OwnItems'
<1>1. TypeOK /\ Sound(acq) /\ runs # 0
  BY DEF IInv, CInv, Passes
<1>2. PICK stale \in Garbage, kept \in SUBSET Queues :
         acq' = ShutdownQueues(acq, kept, stale) /\ ForgetChildren(kept)
  <2>1. PICK stale \in Garbage,
             odd \in SUBSET {q \in Queues : acq.worker[q] = "dead" /\ q[1] \notin acq.known} :
          LET kept == odd \cup {q \in Queues : /\ acq.worker[q] # "none"
                                               /\ q[1] \in acq.known
                                               /\ Method[q[1]].needsCleanup}
          IN acq' = ShutdownQueues(acq, kept, stale) /\ ForgetChildren(kept)
    BY DEF Leave
  <2> DEFINE kept == odd \cup {q \in Queues : /\ acq.worker[q] # "none"
                                              /\ q[1] \in acq.known
                                              /\ Method[q[1]].needsCleanup}
  <2>2. kept \in SUBSET Queues
    OBVIOUS
  <2> QED
    BY <2>1, <2>2
<1>3. /\ item' = [i \in Items |-> IF i \in live THEN Finished(i, item[i], acq.status[i])
                                                ELSE item[i]]
      /\ loop' = [pc |-> "idle", todo |-> {}]
      /\ UNCHANGED <<msgs, runs>>
  BY DEF Leave
<1>4. /\ \A q \in kept : answers'[q] = answers[q] /\ fetch'[q] = fetch[q] /\ pipe'[q] = pipe[q]
      /\ \A q \in Queues \ kept : answers'[q] = <<>> /\ fetch'[q] = <<>> /\ pipe'[q] = <<>>
      /\ died' = died \cap kept
  BY <1>2 DEF ForgetChildren
<1>5. <<>> \o <<>> = <<>>
  <2>1. <<>> \in Seq(Reply)
    OBVIOUS
  <2> QED
    BY <2>1, ConcatEmptySeq
<1>6. /\ \A q \in kept : Chan'.r[q] = Chan.r[q] /\ Chan'.w[q] = Chan.w[q]
      /\ \A q \in Queues \ kept : Chan'.r[q] = <<>> /\ Chan'.w[q] = <<>>
  <2>1. \A q \in Queues : /\ Chan.r[q] = msgs[q] \o answers[q]
                          /\ Chan.w[q] = fetch[q] \o pipe[q]
                          /\ Chan'.r[q] = msgs'[q] \o answers'[q]
                          /\ Chan'.w[q] = fetch'[q] \o pipe'[q]
    BY DEF Chan
  <2>2. \A q \in Queues : msgs'[q] = msgs[q] /\ msgs[q] = <<>>
    BY <1>3 DEF Quiet
  <2> HIDE DEF Chan
  <2>3. ASSUME NEW q \in kept
        PROVE  Chan'.r[q] = Chan.r[q] /\ Chan'.w[q] = Chan.w[q]
    <3>1. q \in Queues
      OBVIOUS
    <3>2. answers'[q] = answers[q] /\ fetch'[q] = fetch[q] /\ pipe'[q] = pipe[q]
          /\ msgs'[q] = msgs[q]
      BY <1>4, <2>2, <3>1
    <3> QED
      BY <2>1, <3>1, <3>2
  <2>4. ASSUME NEW q \in Queues \ kept
        PROVE  Chan'.r[q] = <<>> /\ Chan'.w[q] = <<>>
    <3>1. answers'[q] = <<>> /\ fetch'[q] = <<>> /\ pipe'[q] = <<>> /\ msgs'[q] = <<>>
      BY <1>4, <2>2
    <3> QED
      BY <1>5, <2>1, <3>1
  <2> QED
    BY <2>3, <2>4
<1>7. /\ \A q \in kept : q \notin Chan'.gone => q \notin Chan.gone
      /\ Chan'.ok => Chan.ok
      /\ Chan'.full => Chan.full /\ ~MayCancel
  <2>1. /\ Chan'.gone = died' /\ (Chan'.ok <=> NoneDropped')
        /\ Chan'.full <=> NoneDropped' /\ (Running' \/ runs' = 0 \/ ~MayCancel)
    BY DEF Chan
  <2>2. NoneDropped' = NoneDropped /\ ~Running' /\ runs' # 0
    BY <1>1, <1>3 DEF NoneDropped, Running, At
  <2> QED
    BY <1>4, <2>1, <2>2, ChanIs
<1>8. Chan \in Channels /\ Tracked(acq, Chan)
  BY CInvIs
<1>9. acq.error \/ ~Chan'.full \/ acq.qitems = {}
  BY <1>7
<1>10. Chan' \in Channels
  BY ChanTypeNext
<1> HIDE DEF Chan
<1>11. stale \in BOOLEAN
  BY QueueAssumption
<1>12. Tracked(ShutdownQueues(acq, kept, stale), Chan')
  BY <1>1, <1>6, <1>7, <1>8, <1>9, <1>10, <1>11, StoppedTracked
<1>13. \A i \in Items : item'[i].uri = item[i].uri
  BY <1>1, <1>3 DEF TypeOK, Finished, ItemState
<1>14. OwnItems'
  BY <1>13 DEF CInv, OwnItems
<1> QED
  BY <1>2, <1>12, <1>14

\* The three ways out of Run: what is dropped was cancelled, or failed.
LEMMA LeavingTracked ==
    ASSUME IInv, CInv, TypeOK', Break \/ Cancel \/ Fetched
    PROVE  Tracked(acq, Chan)' /\ OwnItems'
<1>1. Passes /\ Sound(acq) /\ leaked \in Nat /\ Counted
  BY DEF CInv, IInv, TypeOK
<1>2. Running /\ Quiet
  BY <1>1 DEF Break, Cancel, Fetched, RoundOver, At, Running, Passes
<1>3. PICK res : Leave(res)
  BY DEF Break, Cancel, Fetched
<1>4. acq.error \/ MayCancel \/ acq.qitems = {}
  <2>1. CASE Fetched
    <3>1. Cardinality(acq.qitems) \in Nat
      BY <1>1, FS_CardinalityType DEF Sound
    <3>2. acq.toFetch = 0
      BY <2>1 DEF Fetched
    <3>3. Cardinality(acq.qitems) = 0
      BY <1>1, <3>1, <3>2 DEF Counted
    <3> QED
      BY <1>1, <3>3, FS_EmptySet DEF Sound
  <2> QED
    BY <2>1 DEF Break, Cancel
<1> QED
  BY <1>2, <1>3, <1>4, LeaveTracked

\* Constructing an item queues it under a URI it names, without starting a queue.
LEMMA NewItemTracked ==
    ASSUME IInv, CInv, OwnURIs, NEW i \in Items, NewItem(i)
    PROVE  Tracked(acq, Chan)' /\ OwnItems'
<1>1. PICK choice \in Choice, v \in Verdicts, cached \in BOOLEAN :
         /\ v = Constructed(i, cached, acq.error) /\ Legal(v)
         /\ acq' = [Apply(acq, i, v, FALSE, choice) EXCEPT
                       !.error = @ \/ (v.next = NoURI /\ v.status = "Idle")]
         /\ item' = [item EXCEPT ![i] = v.it]
         /\ Sound(acq') /\ OwnedBy(acq, i) = {}
  BY NewItemTurns
<1> DEFINE s == Apply(acq, i, v, FALSE, choice)
<1>2. Chan' = Chan
  BY ChanSame DEF NewItem, methodVars, runVars, Running, At
<1>3. Sound(acq) /\ Chan \in Channels /\ Tracked(acq, Chan)
  BY CInvIs
<1>4. NewState(i).uri = NoURI
  BY DEF NewState
<1>5. /\ v.it.uri # NoURI => Owner[v.it.uri] = i
      /\ v.next # NoURI => Owner[v.next] = i
  BY <1>1, <1>4, ConstructedAsks, AskingOwned
<1>6. Sound(s)
  BY <1>1, <1>3, ApplySound DEF Legal, Stays, Queued
<1>7. Tracked(s, Chan)
  BY <1>1, <1>3, <1>5, ApplyTracked DEF Legal
<1>8. s \in AcqType
  BY <1>6 DEF Sound
<1>9. acq' = [s EXCEPT !.error = @ \/ (v.next = NoURI /\ v.status = "Idle")]
  BY <1>1
<1> HIDE DEF s
<1>10. PICK b \in BOOLEAN : b = (s.error \/ (v.next = NoURI /\ v.status = "Idle"))
  OBVIOUS
<1>11. acq' = [s EXCEPT !.error = b]
  BY <1>9, <1>10
<1>12. /\ acq'.qitems = s.qitems /\ acq'.mine = s.mine /\ acq'.status = s.status
       /\ acq'.depth = s.depth /\ acq'.maxDepth = s.maxDepth /\ acq'.out = s.out
       /\ acq'.worker = s.worker /\ (s.error => acq'.error)
  BY <1>8, <1>10, <1>11 DEF AcqType
<1>13. Own(acq') /\ \A q \in Queues : Flight(acq', q) = Flight(s, q)
  BY <1>7, <1>12 DEF Tracked, Own, Flight, QItemsOf
<1>14. Tracked(acq', Chan)
  BY <1>1, <1>3, <1>6, <1>7, <1>12, <1>13, TrackedSame
<1>15. OwnItems'
  BY <1>1, <1>5 DEF CInv, OwnItems, IInv, TypeOK
<1> QED
  BY <1>2, <1>14, <1>15

\* Dropping an item that is not being fetched.
LEMMA DropItemTracked ==
    ASSUME IInv, CInv, NEW i \in Items, DropItem(i)
    PROVE  Tracked(acq, Chan)'
<1>1. Chan' = Chan
  BY ChanSame DEF DropItem, methodVars, runVars, Running, At
<1>2. acq' = Dequeue(acq, i) /\ acq.status[i] # "Fetching"
  BY DEF DropItem
<1>3. Tracked(Dequeue(acq, i), Chan)
  BY <1>2, CInvIs, DequeueTracked
<1> QED
  BY <1>1, <1>2, <1>3

\* pkgAcquire::Shutdown.
LEMMA ShutdownTracked == ASSUME IInv, CInv, Shutdown PROVE Tracked(acq, Chan)'
<1>1. Quiet /\ msgs' = msgs
  BY DEF CInv, Passes, Shutdown, At
<1>2. \A q \in Queues : /\ answers'[q] = <<>> /\ fetch'[q] = <<>> /\ pipe'[q] = <<>>
                        /\ msgs'[q] = <<>>
  BY <1>1 DEF Shutdown, ForgetChildren, Quiet
<1>3. <<>> \o <<>> = <<>>
  <2>1. <<>> \in Seq(Reply)
    OBVIOUS
  <2> QED
    BY <2>1, ConcatEmptySeq
<1>4. \A q \in Queues : Chan'.r[q] = msgs'[q] \o answers'[q]
                        /\ Chan'.w[q] = fetch'[q] \o pipe'[q]
  BY DEF Chan
<1> HIDE DEF Chan
<1>5. \A q \in Queues : Chan'.r[q] = <<>> /\ Chan'.w[q] = <<>>
  BY <1>2, <1>3, <1>4
<1>6. Tracked(ObjectShutdown(acq, live), Chan')
  BY <1>5, ClearedTracked
<1> QED
  BY <1>6 DEF Shutdown

-----------------------------------------------------------------------------
(* The steps that handle a reply.                                           *)

\* The head and the tail of a concatenation are those of its first part.
LEMMA TailConcat ==
    ASSUME NEW S, NEW a \in Seq(S), NEW b \in Seq(S), a # <<>>
    PROVE  a \o b # <<>> /\ Head(a \o b) = Head(a) /\ Tail(a \o b) = Tail(a) \o b
<1>1. a \o b \in Seq(S) /\ Len(a \o b) = Len(a) + Len(b)
      /\ \A k \in 1..Len(a) + Len(b) :
            (a \o b)[k] = IF k <= Len(a) THEN a[k] ELSE b[k - Len(a)]
  BY ConcatProperties
<1>2. /\ Head(a) \in S /\ Tail(a) \in Seq(S) /\ Len(a) \in Nat \ {0}
      /\ Len(Tail(a)) = Len(a) - 1 /\ Head(a) = a[1]
      /\ \A k \in 1..Len(Tail(a)) : Tail(a)[k] = a[k + 1]
  BY HeadAndTail
<1>3. Len(b) \in Nat
  OBVIOUS
<1> DEFINE ab == a \o b
<1>4. ab # <<>> /\ (a \o b)[1] = a[1]
  <2>1. Len(ab) # 0 /\ 1 \in 1..Len(a) + Len(b) /\ 1 <= Len(a)
    BY <1>1, <1>2, <1>3
  <2>2. Len(<<>>) = 0
    OBVIOUS
  <2> QED
    BY <1>1, <2>1, <2>2
<1>5. /\ Head(ab) = ab[1] /\ Tail(ab) \in Seq(S) /\ Len(Tail(ab)) = Len(ab) - 1
      /\ \A k \in 1..Len(Tail(ab)) : Tail(ab)[k] = ab[k + 1]
  BY <1>1, <1>4, HeadAndTail
<1>6. /\ Tail(a) \o b \in Seq(S) /\ Len(Tail(a) \o b) = Len(Tail(a)) + Len(b)
      /\ \A k \in 1..Len(Tail(a)) + Len(b) :
            (Tail(a) \o b)[k] = IF k <= Len(Tail(a)) THEN Tail(a)[k] ELSE b[k - Len(Tail(a))]
  BY <1>2, ConcatProperties
<1>7. Len(Tail(ab)) = Len(Tail(a) \o b)
  BY <1>1, <1>2, <1>3, <1>5, <1>6
<1>8. ASSUME NEW k \in 1..Len(Tail(ab))
      PROVE  Tail(ab)[k] = (Tail(a) \o b)[k]
  <2>1. /\ k \in 1..Len(Tail(a)) + Len(b) /\ k + 1 \in 1..Len(a) + Len(b)
        /\ (k + 1) - Len(a) = k - Len(Tail(a)) /\ (k <= Len(Tail(a)) <=> k + 1 <= Len(a))
        /\ k <= Len(Tail(a)) => k \in 1..Len(Tail(a))
    BY <1>1, <1>2, <1>3, <1>5
  <2> HIDE DEF ab
  <2>2. Tail(ab)[k] = ab[k + 1]
    BY <1>5
  <2>3. ab[k + 1] = IF k + 1 <= Len(a) THEN a[k + 1] ELSE b[(k + 1) - Len(a)]
    BY <1>1, <2>1 DEF ab
  <2>4. (Tail(a) \o b)[k] = IF k <= Len(Tail(a)) THEN Tail(a)[k] ELSE b[k - Len(Tail(a))]
    BY <1>6, <2>1
  <2>5. k <= Len(Tail(a)) => Tail(a)[k] = a[k + 1]
    BY <1>2, <2>1
  <2> QED
    BY <2>1, <2>2, <2>3, <2>4, <2>5
<1>9. Tail(ab) = Tail(a) \o b
  BY <1>5, <1>6, <1>7, <1>8, SeqEqual
<1> QED
  BY <1>4, <1>5, <1>9

\* The first message of a queue is its first reply.
LEMMA FirstReply ==
    ASSUME TypeOK, NEW q \in Queues, msgs[q] # <<>>
    PROVE  Chan.r[q] # <<>> /\ Head(Chan.r[q]) = Head(msgs[q])
<1>1. msgs[q] \in Seq(Reply) /\ answers[q] \in Seq(Reply)
  BY DEF TypeOK
<1> QED
  BY <1>1, TailConcat DEF Chan

\* Handling a message takes the first reply away and nothing else.
LEMMA HandlingShortens ==
    ASSUME TypeOK, NEW q \in Queues, NEW code, Handling(q, code)
    PROVE  /\ Shorter(Chan, Chan', q) /\ Chan.r[q] # <<>> /\ Head(Chan.r[q]) = Head(msgs[q])
           /\ Head(msgs[q]).code = code
           /\ Hit(q) = FindItem(acq, q, Head(Chan.r[q]).uri)
<1>1. /\ msgs[q] \in Seq(Reply) /\ answers[q] \in Seq(Reply) /\ msgs \in [Queues -> Seq(Reply)]
      /\ msgs[q] # <<>> /\ Head(msgs[q]).code = code
      /\ msgs' = [msgs EXCEPT ![q] = Tail(@)]
      /\ UNCHANGED <<answers, fetch, pipe, died, runs, loop>>
  BY DEF TypeOK, Handling, methodVars, runVars
<1>2. Chan.r[q] # <<>> /\ Head(Chan.r[q]) = Head(msgs[q])
  BY <1>1, FirstReply
<1>3. Chan'.r[q] = Tail(Chan.r[q])
  <2>1. Chan'.r[q] = msgs'[q] \o answers'[q] /\ Chan.r[q] = msgs[q] \o answers[q]
    BY DEF Chan
  <2>2. msgs'[q] = Tail(msgs[q]) /\ answers'[q] = answers[q]
    BY <1>1
  <2>3. Tail(msgs[q] \o answers[q]) = Tail(msgs[q]) \o answers[q]
    BY <1>1, TailConcat
  <2> HIDE DEF Chan
  <2> QED
    BY <2>1, <2>2, <2>3
<1>4. \A p \in Queues \ {q} : Chan'.r[p] = Chan.r[p]
  BY <1>1 DEF Chan
<1>5. Chan'.w = Chan.w /\ Chan'.gone = Chan.gone
  BY <1>1 DEF Chan
<1>6. Chan'.ok = Chan.ok /\ Chan'.full = Chan.full
  BY <1>1 DEF Chan, NoneDropped, Running, At
<1> HIDE DEF Chan
<1> QED
  BY <1>1, <1>2, <1>3, <1>4, <1>5, <1>6 DEF Shorter, Hit

\* 103 Redirect and 200 URI Start.
LEMMA NotedTracked ==
    ASSUME IInv, CInv, TypeOK', NEW q \in Queues, Redirected(q) \/ URIStart(q)
    PROVE  Tracked(acq, Chan)'
<1>1. TypeOK /\ Sound(acq) /\ Chan \in Channels /\ Tracked(acq, Chan) /\ Chan' \in Channels
  BY CInvIs, ChanTypeNext DEF IInv
<1>2. CASE Redirected(q)
  <2>1. PICK e \in Hit(q) :
           LET f == [e EXCEPT !.uri = Head(msgs[q]).arg] IN
           acq' = [acq EXCEPT !.qitems = (@ \ {e}) \cup {f}, !.mine = (@ \ {e}) \cup {f}]
    BY <1>2 DEF Redirected
  <2>2. acq' = Swap(acq, e, Moved(e, Head(msgs[q]).arg))
    BY <2>1 DEF Swap, Moved
  <2>3. /\ Shorter(Chan, Chan', q) /\ Chan.r[q] # <<>> /\ Head(Chan.r[q]) = Head(msgs[q])
        /\ Head(msgs[q]).code = 103 /\ Hit(q) = FindItem(acq, q, Head(Chan.r[q]).uri)
    BY <1>1, <1>2, HandlingShortens DEF Redirected
  <2> HIDE DEF Chan
  <2> QED
    BY <1>1, <2>1, <2>2, <2>3, RedirectTracked, SMTT(30)
<1>3. CASE URIStart(q)
  <2>1. PICK e \in Hit(q) : acq' = [acq EXCEPT !.status[e.owner] = "Fetching"]
    BY <1>3 DEF URIStart
  <2>2. /\ Shorter(Chan, Chan', q) /\ Chan.r[q] # <<>> /\ Head(Chan.r[q]) = Head(msgs[q])
        /\ Head(msgs[q]).code = 200 /\ Hit(q) = FindItem(acq, q, Head(Chan.r[q]).uri)
    BY <1>1, <1>3, HandlingShortens DEF URIStart
  <2> HIDE DEF Chan
  <2> QED
    BY <1>1, <2>1, <2>2, StartTracked
<1> QED
  BY <1>2, <1>3

\* 201 URI Done and 400 URI Failure: ItemDone, then what the handler decided.
LEMMA FinalTracked ==
    ASSUME IInv, CInv, OwnURIs, TypeOK', NEW q \in Queues, URIDone(q) \/ URIFailure(q)
    PROVE  Tracked(acq, Chan)' /\ OwnItems'
<1>1. TypeOK /\ Sound(acq) /\ Chan \in Channels /\ Tracked(acq, Chan) /\ Chan' \in Channels
  BY CInvIs, ChanTypeNext DEF IInv
<1>2. PICK code \in {201, 400}, e \in Hit(q), choice \in Choice, v \in Verdicts :
         /\ Handling(q, code) /\ Legal(v) /\ Decides(e.owner, item[e.owner], q[1], v)
         /\ Conclude(q, e, v, ItemDone(acq, e), choice)
  BY FinalConcludes
<1>3. /\ Shorter(Chan, Chan', q) /\ Chan.r[q] # <<>> /\ Head(Chan.r[q]) = Head(msgs[q])
      /\ Head(msgs[q]).code = code /\ Hit(q) = FindItem(acq, q, Head(Chan.r[q]).uri)
  BY <1>1, <1>2, HandlingShortens
<1>4. Final(Head(Chan.r[q]))
  BY <1>3 DEF Final
<1>5. Chan'.ok => Chan'.full
  <2>1. msgs[q] # <<>> /\ loop' = loop
    BY <1>2 DEF Handling
  <2>2. At("round")
    BY <2>1 DEF CInv, Passes, Quiet
  <2>3. Running'
    BY <2>1, <2>2 DEF Running, At
  <2> QED
    BY <2>3 DEF Chan
<1> DEFINE i == e.owner
           s == ItemDone(acq, e)
<1>6. Tracked(s, Chan')
  BY <1>1, <1>2, <1>3, <1>4, DoneTracked
<1>7. e \in acq.qitems /\ i \in Items
  BY <1>1, <1>2, HitType DEF Sound, AcqType, QItem
<1>8. Sound(s) /\ OwnedBy(s, i) = {}
  BY <1>1, <1>7, ItemDoneSound
<1>9. item \in [Items -> ItemState] /\ (item[i].uri # NoURI => Owner[item[i].uri] = i)
  BY <1>1, <1>7 DEF CInv, OwnItems, TypeOK
<1>10. Asking(i, item[i], v)
  BY <1>2, <1>7, <1>9, DoneAsks, FailedAsks DEF Decides
<1>11. /\ v.it.uri # NoURI => Owner[v.it.uri] = i
       /\ v.next # NoURI => Owner[v.next] = i
  BY <1>7, <1>9, <1>10, AskingOwned
<1>12. acq' = Apply(s, i, v, TRUE, choice) /\ item' = [item EXCEPT ![i] = v.it]
  BY <1>2 DEF Conclude
<1>13. v \in Verdicts /\ v.status # "Fetching"
  BY <1>2 DEF Legal
<1> HIDE DEF Chan, s, i
<1>14. Tracked(acq', Chan')
  <2>1. \A c \in Channels :
           Tracked(s, c) /\ (c.ok => c.full) => Tracked(Apply(s, i, v, TRUE, choice), c)
    <3>1. SUFFICES ASSUME NEW c \in Channels, Tracked(s, c), c.ok => c.full
                   PROVE  Tracked(Apply(s, i, v, TRUE, choice), c)
      OBVIOUS
    <3>2. \A b \in BOOLEAN : (b /\ c.ok => c.full) /\ (b \in BOOLEAN)
      BY <3>1
    <3>3. \A b \in BOOLEAN : Tracked(Apply(s, i, v, b, choice), c)
      BY <1>7, <1>8, <1>11, <1>13, <3>1, <3>2, ApplyTracked
    <3> QED
      BY <3>3
  <2> QED
    BY <1>1, <1>5, <1>6, <1>12, <2>1
<1>15. OwnItems'
  BY <1>7, <1>9, <1>11, <1>12 DEF CInv, OwnItems
<1> QED
  BY <1>14, <1>15

-----------------------------------------------------------------------------
(* The steps of the child.                                                  *)

\* Every request is under a URI of its item.
LEMMA RequestOwned ==
    ASSUME NEW s, Sound(s), NEW c \in Channels, Tracked(s, c), NEW q \in Queues,
           NEW k \in 1..Len(Sent(s, c, q))
    PROVE  Owner[Sent(s, c, q)[k].uri] = Sent(s, c, q)[k].owner
<1> DEFINE a == Sent(s, c, q)
           i == a[k].owner
<1>1. a \in Seq(Request) /\ c.r[q] \in Seq(Reply)
  BY TrackTypes
<1>2. a[k] \in Request
  BY <1>1
<1>3. i \in Items
  BY <1>2 DEF Request
<1>4. Line(s, q, c.r[q], a)
  BY DEF Tracked, Tracks
<1> HIDE DEF a
<1>5. Asks(a, i)
  BY DEF Asks, a
<1>6. PICK e \in s.mine, x \in URI : Chain(c.r[q], i, e.uri, x) /\ a[k].uri = x
  BY <1>3, <1>4, <1>5 DEF Line, a
<1> QED
  BY <1>1, <1>6, ChainEnd DEF a

\* A reply of the child is about the first request of its queue.
LEMMA SentReplies ==
    ASSUME TypeOK, NEW q \in Queues, fetch[q] # <<>>, NEW code, NEW arg,
           \/ code = 103 /\ arg \in URI
           \/ code = 200 /\ arg = "start"
           \/ code = 201 /\ arg \in Answer
           \/ code = 400 /\ arg \in FailKind,
           Send(q, code, arg), UNCHANGED msgs
    PROVE  LET h == Head(fetch[q])
               m == [code |-> code, uri |-> h.uri, owner |-> h.owner, arg |-> arg]
           IN /\ m \in Reply /\ h \in Request
              /\ Chan'.r[q] = Append(Chan.r[q], m)
              /\ \A p \in Queues \ {q} : Chan'.r[p] = Chan.r[p]
<1> DEFINE h == Head(fetch[q])
           m == [code |-> code, uri |-> h.uri, owner |-> h.owner, arg |-> arg]
<1>1. h \in Request
  BY SendType
<1>2. m \in Reply
  BY <1>1 DEF Request, Reply
<1>3. answers \in [Queues -> Seq(Reply)] /\ msgs \in [Queues -> Seq(Reply)]
  BY DEF TypeOK
<1>4. answers' = [answers EXCEPT ![q] = Append(@, m)]
  BY DEF Send
<1> HIDE DEF m
<1>5. answers'[q] = Append(answers[q], m) /\ \A p \in Queues \ {q} : answers'[p] = answers[p]
  BY <1>3, <1>4
<1>6. \A p \in Queues : Chan.r[p] = msgs[p] \o answers[p] /\ Chan'.r[p] = msgs[p] \o answers'[p]
  BY DEF Chan
<1> HIDE DEF Chan
<1>7. msgs[q] \o Append(answers[q], m) = Append(msgs[q] \o answers[q], m)
  <2> DEFINE a == msgs[q]
             b == answers[q]
  <2>1. a \in Seq(Reply) /\ b \in Seq(Reply)
    BY <1>3
  <2> HIDE DEF a, b
  <2>2. <<m>> \in Seq(Reply) /\ a \o b \in Seq(Reply)
    BY <1>2, <2>1, ConcatProperties
  <2>3. Append(b, m) = b \o <<m>> /\ Append(a \o b, m) = (a \o b) \o <<m>>
    BY <1>2, <2>1, <2>2, AppendIsConcat
  <2>4. a \o (b \o <<m>>) = (a \o b) \o <<m>>
    BY <2>1, <2>2, ConcatAssociative
  <2> QED
    BY <2>3, <2>4 DEF a, b
<1>8. Chan'.r[q] = Append(Chan.r[q], m)
  <2>1. Chan.r[q] = msgs[q] \o answers[q] /\ Chan'.r[q] = msgs[q] \o answers'[q]
    BY <1>6
  <2> QED
    BY <1>5, <1>7, <2>1
<1>9. ASSUME NEW p \in Queues \ {q}
      PROVE  Chan'.r[p] = Chan.r[p]
  <2>1. Chan.r[p] = msgs[p] \o answers[p] /\ Chan'.r[p] = msgs[p] \o answers'[p]
    BY <1>6
  <2> QED
    BY <1>5, <2>1
<1> QED
  BY <1>1, <1>2, <1>8, <1>9 DEF m

\* The channels of a state after its child replied, but for what it still has.
LEMMA ChildChannels ==
    ASSUME TypeOK, TypeOK', NEW q \in Queues, UNCHANGED <<otherVars, pipe>>,
           \A p \in Queues \ {q} : Chan'.r[p] = Chan.r[p] /\ fetch'[p] = fetch[p]
    PROVE  /\ Chan' \in Channels /\ \A p \in Queues \ {q} : AgreeOn(Chan, Chan', p)
           /\ Chan'.gone = Chan.gone /\ Chan'.ok = Chan.ok /\ Chan'.full = Chan.full
<1>1. UNCHANGED <<msgs, loop, runs, died, pipe>>
  BY DEF otherVars, runVars
<1>2. Chan' \in Channels
  BY ChanTypeNext
<1>3. Chan'.gone = Chan.gone /\ Chan'.ok = Chan.ok /\ Chan'.full = Chan.full
  BY <1>1 DEF Chan, NoneDropped, Running, At
<1>4. \A p \in Queues \ {q} : Chan'.w[p] = Chan.w[p]
  BY <1>1 DEF Chan
<1> HIDE DEF Chan
<1> QED
  BY <1>2, <1>3, <1>4 DEF AgreeOn

\* The requests under way for a queue, by place: with the child, in its pipe, in
\* OutQueue.
LEMMA SentIs ==
    ASSUME TypeOK, NEW q \in Queues
    PROVE  /\ fetch[q] \in Seq(Request) /\ pipe[q] \o acq.out[q] \in Seq(Request)
           /\ Sent(acq, Chan, q) = fetch[q] \o (pipe[q] \o acq.out[q])
<1>1. fetch[q] \in Seq(Request) /\ pipe[q] \in Seq(Request) /\ acq.out[q] \in Seq(Request)
  BY DEF TypeOK, AcqType
<1>2. Sent(acq, Chan, q) = (fetch[q] \o pipe[q]) \o acq.out[q]
  BY DEF Sent, Chan
<1> QED
  BY <1>1, <1>2, ConcatProperties, RequestsAssociate

\* The first of them, and the others.
LEMMA FirstSent ==
    ASSUME TypeOK, NEW q \in Queues, fetch[q] # <<>>
    PROVE  /\ Sent(acq, Chan, q) # <<>> /\ Head(Sent(acq, Chan, q)) = Head(fetch[q])
           /\ Tail(Sent(acq, Chan, q)) = Tail(fetch[q]) \o (pipe[q] \o acq.out[q])
<1> DEFINE b == pipe[q] \o acq.out[q]
<1>1. /\ fetch[q] \in Seq(Request) /\ b \in Seq(Request)
      /\ Sent(acq, Chan, q) = fetch[q] \o b
  BY SentIs
<1> HIDE DEF b
<1>2. /\ fetch[q] \o b # <<>> /\ Head(fetch[q] \o b) = Head(fetch[q])
      /\ Tail(fetch[q] \o b) = Tail(fetch[q]) \o b
  BY <1>1, TailConcat
<1> QED
  BY <1>1, <1>2 DEF b

LEMMA SentIsNext ==
    ASSUME TypeOK', NEW q \in Queues, UNCHANGED <<acq, pipe>>
    PROVE  /\ fetch'[q] \in Seq(Request)
           /\ Sent(acq, Chan', q) = fetch'[q] \o (pipe[q] \o acq.out[q])
<1>1. fetch'[q] \in Seq(Request) /\ pipe'[q] \in Seq(Request) /\ acq'.out[q] \in Seq(Request)
  BY DEF TypeOK, AcqType
<1>2. Sent(acq, Chan', q) = (fetch'[q] \o pipe'[q]) \o acq.out[q]
  BY DEF Sent, Chan
<1> QED
  BY <1>1, <1>2, RequestsAssociate, ZenonT(40)

\* 200 URI Start.
LEMMA SendStartTracked ==
    ASSUME IInv, CInv, TypeOK', NEW q \in Queues, SendStart(q)
    PROVE  Tracked(acq, Chan)'
<1> DEFINE h == Head(fetch[q])
           m == [code |-> 200, uri |-> h.uri, owner |-> h.owner, arg |-> "start"]
           a == Sent(acq, Chan, q)
<1>1. /\ TypeOK /\ Sound(acq) /\ Chan \in Channels /\ Tracked(acq, Chan)
      /\ fetch[q] # <<>> /\ Send(q, 200, "start") /\ UNCHANGED <<otherVars, pipe, fetch>>
  BY CInvIs DEF IInv, SendStart, Working
<1>2. acq' = acq /\ msgs' = msgs /\ died' = died
  BY <1>1 DEF otherVars
<1>3. /\ m \in Reply /\ h \in Request /\ Chan'.r[q] = Append(Chan.r[q], m)
      /\ \A p \in Queues \ {q} : Chan'.r[p] = Chan.r[p]
  BY <1>1, <1>2, SentReplies
<1>4. /\ Chan' \in Channels /\ \A p \in Queues \ {q} : AgreeOn(Chan, Chan', p)
      /\ Chan'.gone = Chan.gone /\ Chan'.ok = Chan.ok /\ Chan'.full = Chan.full
  BY <1>1, <1>3, ChildChannels
<1>5. a \in Seq(Request) /\ NoTwice(a)
  BY <1>1, TrackTypes DEF Tracked, Tracks, Line
<1>6. Sent(acq, Chan', q) = a
  BY <1>1, <1>2 DEF Sent, Chan
<1>7. a # <<>> /\ Head(a) = h
  BY <1>1, FirstSent
<1>8. 1 \in 1..Len(a) /\ a[1] = h
  BY <1>5, <1>7, HeadAndTail
<1>9. /\ m.code = 200 /\ m.owner = a[1].owner /\ m.uri = a[1].uri /\ ~Final(m)
      /\ After(m) = m.uri
  BY <1>8 DEF Final, After
<1> HIDE DEF m, h, a, Chan
<1>10. \A k \in 1..Len(a) :
          \/ \E j \in 1..Len(a) : j # 1 /\ a[k] = a[j]
          \/ ~Final(m) /\ a[k].owner = m.owner /\ a[k].uri = After(m)
  BY <1>8, <1>9
<1>11. Tracked(acq, Chan')
  BY <1>1, <1>3, <1>4, <1>5, <1>6, <1>8, <1>9, <1>10, RepliedTracked DEF a
<1> QED
  BY <1>2, <1>11

\* 201 URI Done and 400 URI Failure take the request off the child's queue.
LEMMA AnsweredTracked ==
    ASSUME IInv, CInv, TypeOK', NEW q \in Queues, Answered(q)
    PROVE  Tracked(acq, Chan)'
<1>1. PICK o \in Outcomes : Send(q, IF o \in FailKind THEN 400 ELSE 201, o)
  BY DEF Answered
<1> DEFINE h == Head(fetch[q])
           code == IF o \in FailKind THEN 400 ELSE 201
           m == [code |-> code, uri |-> h.uri, owner |-> h.owner, arg |-> o]
           a == Sent(acq, Chan, q)
           b == Sent(acq, Chan', q)
<1>2. /\ TypeOK /\ Sound(acq) /\ Chan \in Channels /\ Tracked(acq, Chan)
      /\ fetch[q] # <<>> /\ fetch' = [fetch EXCEPT ![q] = Tail(@)]
      /\ UNCHANGED <<otherVars, pipe>>
  BY CInvIs DEF IInv, Answered, Working
<1>3. acq' = acq /\ msgs' = msgs /\ died' = died /\ pipe' = pipe
  BY <1>2 DEF otherVars
<1>4. \/ code = 201 /\ o \in Answer
      \/ code = 400 /\ o \in FailKind
  <2>1. o \in Answer \cup FailKind
    BY AcquireAssumption
  <2> QED
    BY <2>1
<1>5. /\ m \in Reply /\ h \in Request /\ Chan'.r[q] = Append(Chan.r[q], m)
      /\ \A p \in Queues \ {q} : Chan'.r[p] = Chan.r[p]
  BY <1>1, <1>2, <1>3, <1>4, SentReplies
<1>6. fetch'[q] = Tail(fetch[q]) /\ \A p \in Queues \ {q} : fetch'[p] = fetch[p]
  BY <1>2 DEF TypeOK
<1>7. /\ Chan' \in Channels /\ \A p \in Queues \ {q} : AgreeOn(Chan, Chan', p)
      /\ Chan'.gone = Chan.gone /\ Chan'.ok = Chan.ok /\ Chan'.full = Chan.full
  BY <1>2, <1>5, <1>6, ChildChannels
<1>8. a \in Seq(Request) /\ NoTwice(a)
  BY <1>2, TrackTypes DEF Tracked, Tracks, Line
<1>9. a # <<>> /\ Head(a) = h /\ b = Tail(a)
  <2>1. a # <<>> /\ Head(a) = h /\ Tail(a) = Tail(fetch[q]) \o (pipe[q] \o acq.out[q])
    BY <1>2, FirstSent
  <2>2. b = fetch'[q] \o (pipe[q] \o acq.out[q])
    BY <1>3, SentIsNext
  <2> HIDE DEF a, b
  <2> QED
    BY <1>6, <2>1, <2>2
<1>10. /\ 1 \in 1..Len(a) /\ a[1] = h /\ a = <<h>> \o b /\ b \in Seq(Request)
       /\ Len(a) \in Nat /\ Len(b) = Len(a) - 1 /\ \A k \in 1..Len(b) : b[k] = a[k + 1]
  BY <1>8, <1>9, HeadAndTail
<1>11. /\ m.code \in {201, 400} /\ m.owner = a[1].owner /\ m.uri = a[1].uri /\ Final(m)
  BY <1>4, <1>10 DEF Final
<1> HIDE DEF m, h, a, b, code, Chan
<1>12. \A k \in 1..Len(b) : \E j \in 1..Len(a) : j # 1 /\ b[k] = a[j]
  <2>1. \A k \in 1..Len(b) : k + 1 \in 1..Len(a) /\ k + 1 # 1
    BY <1>10
  <2> QED
    BY <1>10, <2>1
<1>13. NoTwice(b)
  <2>1. ASSUME NEW j \in 1..Len(b), NEW k \in 1..Len(b), b[j].owner = b[k].owner
        PROVE  j = k
    <3>1. j + 1 \in 1..Len(a) /\ k + 1 \in 1..Len(a) /\ j \in Int /\ k \in Int
      BY <1>10
    <3>2. a[j + 1].owner = a[k + 1].owner
      BY <1>10, <2>1
    <3>3. j + 1 = k + 1
      BY <1>8, <3>1, <3>2 DEF NoTwice
    <3> QED
      BY <3>1, <3>3
  <2> QED
    BY <2>1 DEF NoTwice
<1>14. \A i : Asks(a, i) => Asks(b, i) \/ (Final(m) /\ i = m.owner)
  <2>1. <<h>> \in Seq(Request) /\ \A i : Asks(<<h>>, i) <=> i = h.owner
    BY <1>5, AsksOne
  <2>2. \A i : Asks(<<h>> \o b, i) <=> Asks(<<h>>, i) \/ Asks(b, i)
    BY <1>10, <2>1, AsksConcat
  <2>3. h.owner = m.owner
    BY <1>10, <1>11
  <2> QED
    BY <1>10, <1>11, <2>1, <2>2, <2>3
<1>15. Tracked(acq, Chan')
  <2>1. 1 \in 1..Len(Sent(acq, Chan, q)) /\ m.code # 103
    BY <1>10, <1>11 DEF a
  <2>2. /\ NoTwice(Sent(acq, Chan', q))
        /\ m.owner = Sent(acq, Chan, q)[1].owner /\ m.uri = Sent(acq, Chan, q)[1].uri
        /\ \A k \in 1..Len(Sent(acq, Chan', q)) :
              \E j \in 1..Len(Sent(acq, Chan, q)) :
                 j # 1 /\ Sent(acq, Chan', q)[k] = Sent(acq, Chan, q)[j]
        /\ \A i : Asks(Sent(acq, Chan, q), i) =>
                  Asks(Sent(acq, Chan', q), i) \/ (Final(m) /\ i = m.owner)
    BY <1>11, <1>12, <1>13, <1>14 DEF a, b
  <2> QED
    BY <1>2, <1>5, <1>7, <2>1, <2>2, RepliedTracked
<1> QED
  BY <1>3, <1>15

\* b has what a has, but for its first request, which became n.
Rotates(a, b, n) ==
    /\ NoTwice(a) => NoTwice(b)
    /\ \A k \in 1..Len(b) : (\E j \in 1..Len(a) : j # 1 /\ b[k] = a[j]) \/ b[k] = n
    /\ \A i : Asks(a, i) => Asks(b, i)

\* A request that goes behind others is the only thing that moves: what is at
\* place k of <<h>> \o f \o g was at place k + 1 if it is one of f.
LEMMA Rotated ==
    ASSUME NEW h \in Request, NEW n \in Request, NEW f \in Seq(Request),
           NEW g \in Seq(Request), n.owner = h.owner
    PROVE  Rotates(<<h>> \o (f \o g), Append(f, n) \o g, n)
<1> DEFINE a == <<h>> \o (f \o g)
           b == Append(f, n) \o g
           N == Len(f)
<1>1. /\ N \in Nat /\ Len(g) \in Nat /\ f \o g \in Seq(Request) /\ <<h>> \in Seq(Request)
      /\ Len(f \o g) = N + Len(g) /\ Len(<<h>>) = 1 /\ <<h>>[1] = h
      /\ \A k \in 1..N + Len(g) : (f \o g)[k] = IF k <= N THEN f[k] ELSE g[k - N]
  BY AsksOne, ConcatProperties, LenProperties
<1>2. /\ Append(f, n) \in Seq(Request) /\ Len(Append(f, n)) = N + 1
      /\ \A k \in 1..N : Append(f, n)[k] = f[k]
      /\ Append(f, n)[N + 1] = n
  BY AppendProperties
<1>3. /\ Len(a) = 1 + (N + Len(g)) /\ a[1] = h
      /\ \A k \in 1..N + Len(g) : a[k + 1] = (f \o g)[k]
  <2> DEFINE x == f \o g
             y == <<h>>
  <2>1. /\ Len(y \o x) = 1 + (N + Len(g))
        /\ \A k \in 1..1 + (N + Len(g)) : (y \o x)[k] = IF k <= 1 THEN y[k] ELSE x[k - 1]
    <3>1. Len(x) = N + Len(g) /\ Len(y) = 1
      BY <1>1
    <3>3. x \in Seq(Request) /\ y \in Seq(Request)
      BY <1>1
    <3> HIDE DEF x, y
    <3>2. /\ Len(y \o x) = Len(y) + Len(x)
          /\ \A k \in 1..Len(y) + Len(x) :
                (y \o x)[k] = IF k <= Len(y) THEN y[k] ELSE x[k - Len(y)]
      BY <3>3, ConcatProperties
    <3> QED
      BY <3>1, <3>2
  <2>2. y[1] = h
    BY <1>1
  <2> HIDE DEF x, y
  <2>3. (y \o x)[1] = h
    BY <1>1, <2>1, <2>2
  <2>4. ASSUME NEW k \in 1..N + Len(g)
        PROVE  (y \o x)[k + 1] = x[k]
    <3>1. k + 1 \in 1..1 + (N + Len(g)) /\ ~(k + 1 <= 1) /\ (k + 1) - 1 = k
      BY <1>1
    <3> QED
      BY <2>1, <3>1
  <2> QED
    BY <2>1, <2>3, <2>4 DEF x, y
<1>4. /\ Len(b) = N + 1 + Len(g)
      /\ \A k \in 1..N : b[k] = f[k]
      /\ b[N + 1] = n
      /\ \A k \in N + 2..N + 1 + Len(g) : b[k] = g[k - (N + 1)]
  <2> DEFINE x == Append(f, n)
  <2>1. x \in Seq(Request) /\ Len(x) = N + 1
    BY <1>2
  <2> HIDE DEF x
  <2>2. /\ Len(x \o g) = (N + 1) + Len(g)
        /\ \A k \in 1..(N + 1) + Len(g) :
              (x \o g)[k] = IF k <= N + 1 THEN x[k] ELSE g[k - (N + 1)]
    <3>1. /\ Len(x \o g) = Len(x) + Len(g)
          /\ \A k \in 1..Len(x) + Len(g) :
                (x \o g)[k] = IF k <= Len(x) THEN x[k] ELSE g[k - Len(x)]
      BY <2>1, ConcatProperties
    <3> QED
      BY <2>1, <3>1
  <2>3. \A k \in 1..N : k \in 1..(N + 1) + Len(g) /\ k <= N + 1
    BY <1>1
  <2>4. N + 1 \in 1..(N + 1) + Len(g) /\ N + 1 <= N + 1
    BY <1>1
  <2>5. \A k \in N + 2..N + 1 + Len(g) : k \in 1..(N + 1) + Len(g) /\ ~(k <= N + 1)
    BY <1>1
  <2>6. (\A k \in 1..N : x[k] = f[k]) /\ x[N + 1] = n
    BY <1>2 DEF x
  <2> QED
    BY <2>2, <2>3, <2>4, <2>5, <2>6 DEF x
<1> HIDE DEF a, b, N
<1>5. Len(b) = Len(a) /\ Len(a) \in Nat
  BY <1>1, <1>3, <1>4
<1>6. /\ \A k \in 1..N : b[k] = a[k + 1]
      /\ \A k \in N + 2..Len(b) : b[k] = a[k]
  <2>1. ASSUME NEW k \in 1..N
        PROVE  b[k] = a[k + 1]
    <3>1. k \in 1..N + Len(g) /\ k <= N
      BY <1>1
    <3> QED
      BY <1>1, <1>3, <1>4, <3>1
  <2>2. ASSUME NEW k \in N + 2..Len(b)
        PROVE  b[k] = a[k]
    <3>1. k - 1 \in 1..N + Len(g) /\ ~(k - 1 <= N) /\ (k - 1) + 1 = k
          /\ (k - 1) - N = k - (N + 1) /\ k \in N + 2..N + 1 + Len(g)
      BY <1>1, <1>4
    <3>2. b[k] = g[k - (N + 1)]
      BY <1>4, <3>1
    <3>3. (f \o g)[k - 1] = g[k - (N + 1)] /\ a[(k - 1) + 1] = (f \o g)[k - 1]
      BY <1>1, <1>3, <3>1
    <3> QED
      BY <3>1, <3>2, <3>3
  <2> QED
    BY <2>1, <2>2
<1> DEFINE At0(k) == IF k <= N THEN k + 1 ELSE IF k = N + 1 THEN 1 ELSE k
<1>7. ASSUME NEW k \in 1..Len(b)
      PROVE  /\ At0(k) \in 1..Len(a) /\ b[k].owner = a[At0(k)].owner
             /\ (k # N + 1 => At0(k) # 1 /\ b[k] = a[At0(k)])
  <2>1. k \in Int /\ N \in Nat /\ Len(a) = N + 1 + Len(g) /\ Len(g) \in Nat
    BY <1>1, <1>4, <1>5
  <2>2. CASE k <= N
    <3>1. At0(k) = k + 1 /\ k \in 1..N /\ k + 1 \in 1..Len(a) /\ k + 1 # 1
      BY <2>1, <2>2
    <3> QED
      BY <1>6, <3>1
  <2>3. CASE k = N + 1
    <3>1. At0(k) = 1 /\ 1 \in 1..Len(a)
      BY <2>1, <2>3
    <3> QED
      BY <1>3, <1>4, <2>3, <3>1
  <2>4. CASE ~(k <= N) /\ k # N + 1
    <3>1. At0(k) = k /\ k \in N + 2..Len(b) /\ k # 1 /\ k \in 1..Len(a)
      BY <1>5, <2>1, <2>4
    <3> QED
      BY <1>6, <3>1
  <2> QED
    BY <2>2, <2>3, <2>4
<1>8. ASSUME NoTwice(a)
      PROVE  NoTwice(b)
  <2>1. ASSUME NEW j \in 1..Len(b), NEW k \in 1..Len(b), b[j].owner = b[k].owner
        PROVE  j = k
    <3>1. At0(j) = At0(k)
      <4> HIDE DEF At0
      <4> QED
        BY <1>7, <1>8, <2>1 DEF NoTwice
    <3>2. j \in Int /\ k \in Int /\ N \in Nat
      BY <1>1
    <3> QED
      BY <3>1, <3>2
  <2> QED
    BY <2>1 DEF NoTwice
<1>9. ASSUME NEW i, Asks(a, i)
      PROVE  Asks(b, i)
  <2>1. PICK j \in 1..Len(a) : a[j].owner = i
    BY <1>9 DEF Asks
  <2>2. j \in Int /\ N \in Nat /\ Len(a) = N + 1 + Len(g) /\ Len(g) \in Nat
    BY <1>1, <1>4, <1>5
  <2>3. CASE j = 1
    <3>1. N + 1 \in 1..Len(b)
      BY <1>5, <2>2
    <3> QED
      BY <1>3, <1>4, <2>1, <2>3, <3>1 DEF Asks
  <2>4. CASE j # 1 /\ j <= N + 1
    <3>1. j - 1 \in 1..N /\ (j - 1) + 1 = j /\ j - 1 \in 1..Len(b)
      BY <1>5, <2>2, <2>4
    <3>2. b[j - 1] = a[(j - 1) + 1]
      BY <1>6, <3>1
    <3> QED
      BY <2>1, <3>1, <3>2 DEF Asks
  <2>5. CASE j # 1 /\ ~(j <= N + 1)
    <3>1. j \in N + 2..Len(b) /\ j \in 1..Len(b)
      BY <1>5, <2>2, <2>5
    <3> QED
      BY <1>6, <2>1, <3>1 DEF Asks
  <2> QED
    BY <2>3, <2>4, <2>5
<1>10. ASSUME NEW k \in 1..Len(b)
       PROVE  (\E j \in 1..Len(a) : j # 1 /\ b[k] = a[j]) \/ b[k] = n
  <2> HIDE DEF At0
  <2> QED
    BY <1>4, <1>7
<1> QED
  BY <1>8, <1>9, <1>10 DEF a, b, Rotates

\* 103 Redirect: the request goes behind the others, under its new URI.
LEMMA RedirectSentTracked ==
    ASSUME IInv, CInv, OwnURIs, TypeOK', NEW q \in Queues, Redirect(q)
    PROVE  Tracked(acq, Chan)'
<1> DEFINE h == Head(fetch[q])
           f == Tail(fetch[q])
           g == pipe[q] \o acq.out[q]
           a == Sent(acq, Chan, q)
           b == Sent(acq, Chan', q)
<1>1. PICK u \in Redirects[h.uri] :
         /\ Send(q, 103, u)
         /\ fetch' = [fetch EXCEPT ![q] = Append(Tail(@), [Head(@) EXCEPT !.uri = u])]
  BY DEF Redirect
<1> DEFINE n == [h EXCEPT !.uri = u]
           m == [code |-> 103, uri |-> h.uri, owner |-> h.owner, arg |-> u]
<1>2. /\ TypeOK /\ Sound(acq) /\ Chan \in Channels /\ Tracked(acq, Chan)
      /\ fetch[q] # <<>> /\ UNCHANGED <<otherVars, pipe>>
  BY CInvIs DEF IInv, Redirect, Working
<1>3. acq' = acq /\ msgs' = msgs /\ died' = died /\ pipe' = pipe
  BY <1>2 DEF otherVars
<1>4. fetch \in [Queues -> Seq(Request)] /\ fetch[q] \in Seq(Request) /\ g \in Seq(Request)
  BY <1>2, SentIs DEF TypeOK
<1>5. h \in Request /\ f \in Seq(Request)
  BY <1>2, <1>4, HeadAndTail
<1>6. h.uri \in URI /\ u \in URI
  BY <1>5, AcquireAssumption DEF Request
<1>7. n \in Request /\ n.owner = h.owner /\ n.uri = u
  BY <1>5, <1>6 DEF Request
<1>8. /\ m \in Reply /\ Chan'.r[q] = Append(Chan.r[q], m)
      /\ \A p \in Queues \ {q} : Chan'.r[p] = Chan.r[p]
  BY <1>1, <1>2, <1>3, <1>6, SentReplies
<1>9. fetch'[q] = Append(f, n) /\ \A p \in Queues \ {q} : fetch'[p] = fetch[p]
  BY <1>1, <1>4
<1>10. /\ Chan' \in Channels /\ \A p \in Queues \ {q} : AgreeOn(Chan, Chan', p)
       /\ Chan'.gone = Chan.gone /\ Chan'.ok = Chan.ok /\ Chan'.full = Chan.full
  BY <1>2, <1>8, <1>9, ChildChannels
<1>11. a \in Seq(Request) /\ NoTwice(a)
  BY <1>2, TrackTypes DEF Tracked, Tracks, Line
<1>12. a # <<>> /\ Head(a) = h /\ Tail(a) = f \o g
  BY <1>2, FirstSent
<1>13. b = Append(f, n) \o g
  BY <1>3, <1>9, SentIsNext
<1>14. a = <<h>> \o (f \o g) /\ 1 \in 1..Len(a) /\ a[1] = h
  <2> HIDE DEF a, h, f, g
  <2>1. a = <<Head(a)>> \o Tail(a) /\ Len(a) \in Nat \ {0} /\ Head(a) = a[1]
    BY <1>11, <1>12, HeadAndTail
  <2>2. a = <<h>> \o (f \o g)
    BY <1>12, <2>1, Zenon
  <2>3. 1 \in 1..Len(a)
    BY <2>1
  <2> QED
    BY <1>12, <2>1, <2>2, <2>3, Zenon
<1>15. Owner[h.uri] = h.owner
  <2>1. Owner[a[1].uri] = a[1].owner
    BY <1>2, <1>14, RequestOwned
  <2> QED
    BY <1>14, <2>1
<1>16. Owner[u] = h.owner
  BY <1>1, <1>6, <1>15, OwnerOwns DEF Owns
<1>17. /\ m.owner = a[1].owner /\ m.uri = a[1].uri /\ ~Final(m) /\ After(m) = u
       /\ m.arg = u
  BY <1>14 DEF Final, After
<1> HIDE DEF m, n, h, f, g, a, b, Chan
<1>18. /\ NoTwice(b)
       /\ \A k \in 1..Len(b) : (\E j \in 1..Len(a) : j # 1 /\ b[k] = a[j]) \/ b[k] = n
       /\ \A i : Asks(a, i) => Asks(b, i)
  <2> DEFINE x == <<h>> \o (f \o g)
             y == Append(f, n) \o g
  <2>1. Rotates(x, y, n)
    BY <1>4, <1>5, <1>7, Rotated, Zenon
  <2>2. a = x /\ b = y
    BY <1>13, <1>14
  <2> HIDE DEF x, y
  <2> QED
    BY <1>11, <2>1, <2>2 DEF Rotates
<1>19. h.owner = m.owner
  BY <1>14, <1>17
<1>20. \A k \in 1..Len(b) :
          \/ \E j \in 1..Len(a) : j # 1 /\ b[k] = a[j]
          \/ ~Final(m) /\ b[k].owner = m.owner /\ b[k].uri = After(m)
  BY <1>7, <1>17, <1>18, <1>19
<1>21. m.code = 103 => Owner[m.arg] = m.owner
  BY <1>16, <1>17, <1>19
<1>22. Tracked(acq, Chan')
  <2>1. 1 \in 1..Len(Sent(acq, Chan, q))
    BY <1>14 DEF a
  <2>2. /\ NoTwice(Sent(acq, Chan', q))
        /\ m.owner = Sent(acq, Chan, q)[1].owner /\ m.uri = Sent(acq, Chan, q)[1].uri
        /\ \A k \in 1..Len(Sent(acq, Chan', q)) :
              \/ \E j \in 1..Len(Sent(acq, Chan, q)) :
                    j # 1 /\ Sent(acq, Chan', q)[k] = Sent(acq, Chan, q)[j]
              \/ /\ ~Final(m) /\ Sent(acq, Chan', q)[k].owner = m.owner
                 /\ Sent(acq, Chan', q)[k].uri = After(m)
        /\ \A i : Asks(Sent(acq, Chan, q), i) =>
                  Asks(Sent(acq, Chan', q), i) \/ (Final(m) /\ i = m.owner)
    BY <1>17, <1>18, <1>20 DEF a, b
  <2> QED
    BY <1>2, <1>8, <1>10, <1>21, <2>1, <2>2, RepliedTracked
<1> QED
  BY <1>3, <1>22

\* The child takes a request from its pipe.
LEMMA ReceiveTracked ==
    ASSUME IInv, CInv, NEW q \in Queues, Receive(q)
    PROVE  Tracked(acq, Chan)'
<1>1. /\ fetch \in [Queues -> Seq(Request)] /\ pipe \in [Queues -> Seq(Request)]
      /\ pipe[q] # <<>> /\ fetch' = [fetch EXCEPT ![q] = Append(@, Head(pipe[q]))]
      /\ pipe' = [pipe EXCEPT ![q] = Tail(@)] /\ UNCHANGED <<otherVars, answers>>
  BY DEF IInv, TypeOK, Receive
<1>2. UNCHANGED <<acq, msgs, answers, died, runs, loop>>
  BY <1>1 DEF otherVars, runVars
<1>3. fetch'[q] \o pipe'[q] = fetch[q] \o pipe[q]
  <2> DEFINE a == fetch[q]
             b == pipe[q]
  <2>1. a \in Seq(Request) /\ b \in Seq(Request) /\ b # <<>>
        /\ fetch'[q] = Append(a, Head(b)) /\ pipe'[q] = Tail(b)
    BY <1>1
  <2> HIDE DEF a, b
  <2>2. Head(b) \in Request /\ Tail(b) \in Seq(Request) /\ b = <<Head(b)>> \o Tail(b)
        /\ <<Head(b)>> \in Seq(Request)
    BY <2>1, HeadAndTail
  <2>3. Append(a, Head(b)) = a \o <<Head(b)>>
    BY <2>1, <2>2, AppendIsConcat
  <2>4. (a \o <<Head(b)>>) \o Tail(b) = a \o (<<Head(b)>> \o Tail(b))
    BY <2>1, <2>2, RequestsAssociate
  <2>5. fetch'[q] \o pipe'[q] = a \o b
    BY <2>1, <2>2, <2>3, <2>4
  <2> QED
    BY <2>5 DEF a, b
<1>4. ASSUME NEW p \in Queues
      PROVE  fetch'[p] \o pipe'[p] = fetch[p] \o pipe[p]
  <2>1. p # q => fetch'[p] = fetch[p] /\ pipe'[p] = pipe[p]
    BY <1>1
  <2> QED
    BY <1>3, <2>1
<1>5. Running' = Running
  BY <1>2 DEF Running, At
<1> QED
  BY <1>2, <1>4, <1>5, StillTracked

\* The child dies.
LEMMA DeathTracked ==
    ASSUME IInv, CInv, TypeOK', NEW q \in Queues, Die(q)
    PROVE  Tracked(acq, Chan)'
<1>1. Sound(acq) /\ Chan \in Channels /\ Tracked(acq, Chan) /\ Chan' \in Channels
  BY CInvIs, ChanTypeNext
<1>2. /\ died' = died \cup {q} /\ pipe' = [pipe EXCEPT ![q] = <<>>]
      /\ fetch' = [fetch EXCEPT ![q] = <<>>] /\ UNCHANGED <<acq, msgs, loop, runs, answers>>
      /\ pipe \in [Queues -> Seq(Request)] /\ fetch \in [Queues -> Seq(Request)]
  BY DEF Die, runVars, IInv, TypeOK
<1>3. /\ Chan'.r = Chan.r /\ Chan'.gone = Chan.gone \cup {q}
      /\ Chan'.ok = Chan.ok /\ Chan'.full = Chan.full
  BY <1>2 DEF Chan, NoneDropped, Running, At
<1>4. /\ \A p \in Queues : Chan.w[p] = fetch[p] \o pipe[p] /\ Chan'.w[p] = fetch'[p] \o pipe'[p]
      /\ fetch'[q] = <<>> /\ pipe'[q] = <<>>
      /\ \A p \in Queues \ {q} : fetch'[p] = fetch[p] /\ pipe'[p] = pipe[p]
  BY <1>2 DEF Chan
<1>5. <<>> \o <<>> = <<>>
  <2>1. <<>> \in Seq(Reply)
    OBVIOUS
  <2> QED
    BY <2>1, ConcatEmptySeq
<1> HIDE DEF Chan
<1>6. Chan'.w[q] = <<>>
  BY <1>4, <1>5
<1>7. ASSUME NEW p \in Queues \ {q}
      PROVE  Chan'.w[p] = Chan.w[p]
  BY <1>4
<1>8. Tracked(acq, Chan')
  BY <1>1, <1>3, <1>6, <1>7, DieTracked
<1> QED
  BY <1>2, <1>8

-----------------------------------------------------------------------------
(* The invariant and what follows from it.                                  *)

\* No child touches an item.
LEMMA ItemsUntouched == ASSUME CInv, UNCHANGED item PROVE OwnItems'
  BY DEF CInv, OwnItems

\* CInv is inductive next to IInv: one step per action.
LEMMA ChannelsNext == ASSUME OwnURIs, IInv, CInv, [Next]_vars PROVE CInv'
<1>1. TypeOK' /\ Passes'
  BY NextKeeps, PassesNext DEF IInv
<1>2. SUFFICES Tracked(acq, Chan)' /\ OwnItems'
  BY <1>1 DEF CInv
<1>3. CASE Run
  BY <1>3, RunTracked, ItemsUntouched DEF Run, itemVars
<1>4. CASE Shutdown
  BY <1>4, ShutdownTracked, ItemsUntouched DEF Shutdown
<1>5. CASE Select
  <2>1. Running' = Running
    BY <1>5 DEF Select, Running, At
  <2> QED
    BY <1>5, <2>1, StillTracked, ItemsUntouched DEF Select, itemVars, methodVars, runVars
<1>6. CASE EndRound
  <2>1. Running' = Running
    BY <1>5, <1>6 DEF EndRound, RoundOver, Running, At, IInv, TypeOK, LoopState
  <2> QED
    BY <1>6, <2>1, StillTracked, ItemsUntouched DEF EndRound, itemVars, methodVars, runVars
<1>7. CASE Break \/ Cancel \/ Fetched
  BY <1>1, <1>7, LeavingTracked
<1>8. ASSUME NEW i \in Items, NewItem(i)
      PROVE  Tracked(acq, Chan)' /\ OwnItems'
  BY <1>8, NewItemTracked
<1>9. ASSUME NEW i \in Items, DropItem(i)
      PROVE  Tracked(acq, Chan)' /\ OwnItems'
  BY <1>9, DropItemTracked, ItemsUntouched DEF DropItem
<1>10. ASSUME NEW q \in Queues, StartQueue(q)
       PROVE  Tracked(acq, Chan)' /\ OwnItems'
  BY <1>10, StartQueueTracked, ItemsUntouched DEF StartQueue, itemVars
<1>11. ASSUME NEW q \in Queues, InReady(q)
       PROVE  Tracked(acq, Chan)' /\ OwnItems'
  BY <1>11, InReadyTracked, ItemsUntouched DEF InReady, itemVars
<1>12. ASSUME NEW q \in Queues, OutReady(q)
       PROVE  Tracked(acq, Chan)' /\ OwnItems'
  BY <1>12, OutReadyTracked, ItemsUntouched DEF OutReady, itemVars
<1>13. ASSUME NEW q \in Queues, RunMessage(q)
       PROVE  Tracked(acq, Chan)' /\ OwnItems'
  <2>1. CASE Redirected(q) \/ URIStart(q)
    <3>1. UNCHANGED item
      BY <2>1 DEF Redirected, URIStart
    <3> QED
      BY <1>1, <2>1, <3>1, NotedTracked, ItemsUntouched
  <2>2. CASE URIDone(q) \/ URIFailure(q)
    BY <1>1, <2>2, FinalTracked
  <2> QED
    BY <1>13, <2>1, <2>2 DEF RunMessage
<1>14. ASSUME NEW q \in Queues, MethodStep(q) \/ SendStart(q) \/ Redirect(q) \/ Die(q)
       PROVE  Tracked(acq, Chan)' /\ OwnItems'
  <2>1. UNCHANGED item
    BY <1>14 DEF MethodStep, Receive, Answered, SendStart, Redirect, Die, otherVars, itemVars
  <2>2. Tracked(acq, Chan)'
    BY <1>1, <1>14, ReceiveTracked, AnsweredTracked, SendStartTracked, RedirectSentTracked,
       DeathTracked DEF MethodStep
  <2> QED
    BY <2>1, <2>2, ItemsUntouched
<1>15. CASE UNCHANGED vars
  <2>1. UNCHANGED <<acq, item, msgs, answers, died, runs, fetch, pipe, loop>>
    BY <1>15 DEF vars
  <2>2. Running' = Running
    BY <2>1 DEF Running, At
  <2> QED
    BY <2>1, <2>2, StillTracked, ItemsUntouched
<1> QED
  BY <1>3, <1>4, <1>5, <1>6, <1>7, <1>8, <1>9, <1>10, <1>11, <1>12, <1>13, <1>14, <1>15
     DEF Next, LoopStep

\* CInv holds in every reachable state.
THEOREM ChannelsInvariance == ASSUME OwnURIs PROVE Spec => []CInv
<1>1. Init => CInv
  BY InitTracked
<1>2. IInv /\ CInv /\ [Next]_vars => CInv'
  BY ChannelsNext
<1>3. Spec => []IInv
  BY Invariance
<1> QED
  BY <1>1, <1>2, <1>3, PTL DEF Spec

\* A reply carries nothing but a URI, and a waiting QItem may look as if it were
\* the worker's; yet Queue::FindItem finds the QItem of the item the reply is for.
THEOREM RepliesFindTheirItems == ASSUME OwnURIs PROVE Spec => []ReplyFindsItsItem
<1>1. IInv /\ CInv => ReplyFindsItsItem
  <2>1. SUFFICES ASSUME IInv, CInv, NEW q \in Queues, msgs[q] # <<>>
                 PROVE  \E e \in Hit(q) : e.owner = Head(msgs[q]).owner
    BY DEF ReplyFindsItsItem
  <2>2. TypeOK /\ Sound(acq) /\ Chan \in Channels /\ Tracked(acq, Chan)
    BY <2>1, CInvIs DEF IInv
  <2>3. Chan.r[q] # <<>> /\ Head(Chan.r[q]) = Head(msgs[q])
    BY <2>1, <2>2, FirstReply
  <2> HIDE DEF Chan
  <2>4. PICK e \in Flight(acq, q) \cap acq.mine :
           /\ FindItem(acq, q, Head(Chan.r[q]).uri) = {e}
           /\ e.owner = Head(Chan.r[q]).owner
    BY <2>2, <2>3, Found
  <2> QED
    BY <2>3, <2>4 DEF Hit
<1>2. Spec => []IInv
  BY Invariance
<1>3. Spec => []CInv
  BY ChannelsInvariance
<1> QED
  BY <1>1, <1>2, <1>3, PTL

\* PipeDepth is the number of the queue's items at the worker, and within
\* MaxPipeDepth, through retries, redirects, deaths and further Runs.
THEOREM PipeDepthCounts == ASSUME OwnURIs PROVE Spec => []PipeDepthExact
<1>1. IInv /\ CInv => PipeDepthExact
  BY DEF CInv, Tracked, Tracks, Deep, PipeDepthExact, Flight, InFlight
<1>2. Spec => []IInv
  BY Invariance
<1>3. Spec => []CInv
  BY ChannelsInvariance
<1> QED
  BY <1>1, <1>2, <1>3, PTL

-----------------------------------------------------------------------------
(* Counting what is outstanding.                                            *)

Finals(r) == {k \in 1..Len(r) : r[k].code \in {201, 400}}

\* The final replies of a concatenation are those of its parts.
LEMMA FinalsConcat ==
    ASSUME NEW a \in Seq(Reply), NEW b \in Seq(Reply)
    PROVE  /\ Cardinality(Finals(a)) \in Nat /\ Cardinality(Finals(b)) \in Nat
           /\ IsFiniteSet(Finals(a \o b))
           /\ Cardinality(Finals(a \o b)) = Cardinality(Finals(a)) + Cardinality(Finals(b))
<1> DEFINE c == a \o b
           N == Len(a)
           M == Len(b)
           T == {k \in N + 1..N + M : c[k].code \in {201, 400}}
           f == [k \in Finals(b) |-> N + k]
<1>1. /\ N \in Nat /\ M \in Nat /\ Len(c) = N + M
      /\ \A k \in 1..N + M : c[k] = IF k <= N THEN a[k] ELSE b[k - N]
  BY ConcatProperties, LenProperties
<1> HIDE DEF c, N, M
<1>2. IsFiniteSet(Finals(a)) /\ IsFiniteSet(Finals(b)) /\ IsFiniteSet(T)
  <2>1. IsFiniteSet(1..N) /\ IsFiniteSet(1..M) /\ IsFiniteSet(N + 1..N + M)
    BY <1>1, FS_Interval
  <2>2. Finals(a) \subseteq 1..N /\ Finals(b) \subseteq 1..M /\ T \subseteq N + 1..N + M
    BY DEF Finals, N, M
  <2> QED
    BY <2>1, <2>2, FS_Subset
<1>3. /\ \A k \in 1..N : k \in 1..N + M /\ c[k] = a[k]
      /\ \A k \in 1..M : N + k \in N + 1..N + M /\ c[N + k] = b[k]
  <2>1. ASSUME NEW k \in 1..N
        PROVE  k \in 1..N + M /\ k <= N
    BY <1>1
  <2>2. ASSUME NEW k \in 1..M
        PROVE  /\ N + k \in N + 1..N + M /\ N + k \in 1..N + M /\ ~(N + k <= N)
               /\ (N + k) - N = k
    BY <1>1
  <2> QED
    BY <1>1, <2>1, <2>2
<1>4. Finals(c) = Finals(a) \cup T /\ Finals(a) \cap T = {}
  <2>1. \A k : k \in 1..N + M <=> k \in 1..N \/ k \in N + 1..N + M
    BY <1>1
  <2>2. \A k \in 1..N : k \notin N + 1..N + M
    BY <1>1
  <2>3. Finals(a) = {k \in 1..N : a[k].code \in {201, 400}}
    BY DEF Finals, N
  <2>4. Finals(c) = {k \in 1..N + M : c[k].code \in {201, 400}}
    BY <1>1 DEF Finals
  <2>5. Finals(a) \cap T = {}
    BY <2>2, <2>3
  <2>6. \A k : k \in Finals(c) <=> k \in Finals(a) \/ k \in T
    BY <1>3, <2>1, <2>3, <2>4
  <2> QED
    BY <2>5, <2>6
<1>5. Cardinality(T) = Cardinality(Finals(b))
  <2>1. Finals(b) = {k \in 1..M : b[k].code \in {201, 400}}
    BY DEF Finals, M
  <2>2. f \in [Finals(b) -> T]
    BY <1>3, <2>1
  <2>3. \A j, k \in Finals(b) : f[j] = f[k] => j = k
    BY <1>1, <2>1
  <2>4. \A t \in T : \E k \in Finals(b) : f[k] = t
    <3>1. ASSUME NEW t \in T
          PROVE  t - N \in 1..M /\ N + (t - N) = t
      BY <1>1
    <3>2. ASSUME NEW t \in T
          PROVE  t - N \in Finals(b)
      BY <1>3, <2>1, <3>1
    <3> QED
      BY <3>1, <3>2
  <2> HIDE DEF f, T
  <2>5. f \in Injection(Finals(b), T)
    BY <2>2, <2>3, Fun_IsInj
  <2>6. f \in Bijection(Finals(b), T)
    BY <2>2, <2>4, <2>5, Fun_IsSurj DEF Bijection
  <2> QED
    BY <1>2, <2>6, FS_Bijection DEF ExistsBijection
<1>6. Cardinality(Finals(a)) \in Nat /\ Cardinality(Finals(b)) \in Nat
  BY <1>2, FS_CardinalityType
<1>7. /\ IsFiniteSet(Finals(c))
      /\ Cardinality(Finals(c)) = Cardinality(Finals(a)) + Cardinality(T)
  <2> HIDE DEF T
  <2>1. /\ IsFiniteSet(Finals(a) \cup T)
        /\ Cardinality(Finals(a) \cup T) =
              Cardinality(Finals(a)) + Cardinality(T) - Cardinality(Finals(a) \cap T)
    BY <1>2, FS_Union
  <2>2. Cardinality(Finals(a) \cap T) = 0
    BY <1>4, FS_EmptySet
  <2>3. Cardinality(T) \in Nat
    BY <1>5, <1>6
  <2> QED
    BY <1>4, <1>6, <2>1, <2>2, <2>3
<1> QED
  BY <1>5, <1>6, <1>7 DEF c

\* As many of the QItems A as there are numbers in K, if each of either has one
\* of the other, by the owner of message k of a.
LEMMA OneEach ==
    ASSUME NEW s, Sound(s), NEW A, A \subseteq s.qitems, NEW K, IsFiniteSet(K), NEW a,
           \A j, k \in K : a[j].owner = a[k].owner => j = k,
           \A k \in K : \E e \in A : e.owner = a[k].owner,
           \A e \in A : \E k \in K : e.owner = a[k].owner
    PROVE  IsFiniteSet(A) /\ Cardinality(A) = Cardinality(K)
<1> DEFINE f == [k \in K |-> CHOOSE e \in A : e.owner = a[k].owner]
<1>1. \A k \in K : f[k] \in A /\ f[k].owner = a[k].owner
  OBVIOUS
<1>2. f \in [K -> A]
  BY <1>1
<1> HIDE DEF f
<1>3. \A j, k \in K : f[j] = f[k] => j = k
  BY <1>1
<1>4. \A e \in A : \E k \in K : f[k] = e
  BY <1>1, OwnerKey
<1>5. f \in Injection(K, A)
  BY <1>2, <1>3, Fun_IsInj
<1>6. f \in Bijection(K, A)
  BY <1>2, <1>4, <1>5, Fun_IsSurj DEF Bijection
<1> QED
  BY <1>6, FS_Bijection DEF ExistsBijection

\* What is at the worker has a request or a final reply, and each of them stands
\* for one item there.
LEMMA FlightCounts ==
    ASSUME NEW s, Sound(s), NEW c \in Channels, NEW q \in Queues, Tracks(s, c, q),
           c.ok, ~s.error, s.worker[q] = "live", q \notin c.gone
    PROVE  Cardinality(Flight(s, q)) = Len(Sent(s, c, q)) + Cardinality(Finals(c.r[q]))
<1> DEFINE a == Sent(s, c, q)
           r == c.r[q]
           A == {e \in Flight(s, q) : Asks(a, e.owner)}
           B == {e \in Flight(s, q) : Ends(r, e.owner)}
<1>1. /\ a \in Seq(Request) /\ r \in Seq(Reply) /\ IsFiniteSet(Flight(s, q))
      /\ Flight(s, q) \subseteq s.qitems /\ \A e \in s.qitems : e.owner \in Items
  BY TrackTypes
<1>2. Line(s, q, r, a) /\ Covered(s, c, q)
  BY DEF Tracks
<1> HIDE DEF a, r
<1>3. Flight(s, q) = A \cup B /\ A \cap B = {}
  <2>1. \A e \in Flight(s, q) : Asks(a, e.owner) \/ Ends(r, e.owner)
    BY <1>2 DEF Covered, a, r
  <2>2. \A e \in Flight(s, q) : ~(Asks(a, e.owner) /\ Ends(r, e.owner))
    BY <1>1, <1>2 DEF Line
  <2> QED
    BY <2>1, <2>2
<1>4. \A k \in 1..Len(a) : a[k].owner \in Items
  <2>1. \A k \in 1..Len(a) : a[k] \in Request
    BY <1>1
  <2> QED
    BY <2>1 DEF Request
<1>5. \A k \in 1..Len(r) : r[k].owner \in Items
  <2>1. \A k \in 1..Len(r) : r[k] \in Reply
    BY <1>1
  <2> QED
    BY <2>1 DEF Reply
<1>6. \A i \in Items : Asks(a, i) \/ Asks(r, i) => \E e \in Flight(s, q) : e.owner = i
  BY <1>2 DEF Line, Sound, Flight, QItemsOf
<1>7. Len(a) \in Nat /\ Len(r) \in Nat
  BY <1>1, LenProperties
<1>8. IsFiniteSet(A) /\ Cardinality(A) = Len(a)
  <2> DEFINE N == Len(a)
             K == 1..N
  <2>1. IsFiniteSet(K) /\ Cardinality(K) = N
    <3>1. N \in Nat
      BY <1>7
    <3> HIDE DEF N
    <3>2. IsFiniteSet(1..N) /\ Cardinality(1..N) = IF 1 > N THEN 0 ELSE N - 1 + 1
      BY <3>1, FS_Interval
    <3> QED
      BY <3>1, <3>2
  <2>2. \A j, k \in K : a[j].owner = a[k].owner => j = k
    BY <1>2 DEF Line, NoTwice
  <2>3. \A k \in K : \E e \in A : e.owner = a[k].owner
    BY <1>4, <1>6 DEF Asks
  <2>4. \A e \in A : \E k \in K : e.owner = a[k].owner
    BY DEF Asks
  <2>5. A \subseteq s.qitems
    BY <1>1
  <2> HIDE DEF A, K
  <2> QED
    BY <2>1, <2>2, <2>3, <2>4, <2>5, OneEach
<1>9. IsFiniteSet(B) /\ Cardinality(B) = Cardinality(Finals(r))
  <2>1. Finals(r) = {k \in 1..Len(r) : Final(r[k])}
    BY DEF Finals, Final
  <2>2. IsFiniteSet(Finals(r))
    <3>1. IsFiniteSet(1..Len(r)) /\ Finals(r) \subseteq 1..Len(r)
      BY <1>7, FS_Interval DEF Finals
    <3> QED
      BY <3>1, FS_Subset
  <2>3. \A j, k \in Finals(r) : r[j].owner = r[k].owner => j = k
    <3>1. \A j, k \in 1..Len(r) : j < k /\ Final(r[j]) => r[k].owner # r[j].owner
      BY <1>2 DEF Line
    <3>2. \A j, k \in 1..Len(r) : j < k \/ k < j \/ j = k
      BY <1>7
    <3> QED
      BY <2>1, <3>1, <3>2
  <2>4. \A k \in Finals(r) : \E e \in B : e.owner = r[k].owner
    BY <1>5, <1>6, <2>1 DEF Asks, Ends
  <2>5. \A e \in B : \E k \in Finals(r) : e.owner = r[k].owner
    BY <2>1 DEF Ends
  <2>6. B \subseteq s.qitems
    BY <1>1
  <2> HIDE DEF B
  <2> QED
    BY <2>2, <2>3, <2>4, <2>5, <2>6, OneEach
<1> HIDE DEF A, B
<1>10. Cardinality(Flight(s, q)) = Cardinality(A) + Cardinality(B) - Cardinality(A \cap B)
  BY <1>3, <1>8, <1>9, FS_Union
<1>11. Cardinality(A \cap B) = 0
  BY <1>3, FS_EmptySet
<1>12. Cardinality(Finals(r)) \in Nat
  BY <1>9, FS_CardinalityType
<1> QED
  BY <1>7, <1>8, <1>9, <1>10, <1>11, <1>12 DEF a, r

\* While nothing failed, every item at a worker has exactly one request or final
\* reply between OutQueue and its handler: none is lost, none is asked twice.
THEOREM NothingGetsLost == ASSUME OwnURIs PROVE Spec => []NothingLost
<1>1. IInv /\ CInv => NothingLost
  <2>1. SUFFICES ASSUME IInv, CInv, NEW q \in Queues, acq.worker[q] = "live", q \notin died,
                        ~acq.error, NoneDropped
                 PROVE  Outstanding(q) = acq.depth[q]
    BY DEF NothingLost, NoneDropped
  <2>2. TypeOK /\ Sound(acq) /\ Chan \in Channels /\ Tracked(acq, Chan)
    BY <2>1, CInvIs DEF IInv
  <2>3. acq.depth[q] = Cardinality(Flight(acq, q))
    BY <2>2 DEF Tracked, Tracks, Deep
  <2>4. Chan.ok /\ q \notin Chan.gone /\ Chan.r[q] = msgs[q] \o answers[q]
    BY <2>1, ChanIs
  <2>5. Tracks(acq, Chan, q)
    BY <2>2 DEF Tracked
  <2>6. Cardinality(Flight(acq, q)) =
           Len(Sent(acq, Chan, q)) + Cardinality(Finals(Chan.r[q]))
    <3> HIDE DEF Chan
    <3> QED
      BY <2>1, <2>2, <2>4, <2>5, FlightCounts
  <2>7. /\ fetch[q] \in Seq(Request) /\ pipe[q] \in Seq(Request) /\ acq.out[q] \in Seq(Request)
        /\ msgs[q] \in Seq(Reply) /\ answers[q] \in Seq(Reply)
    BY <2>2 DEF TypeOK, AcqType
  <2>8. Len(Sent(acq, Chan, q)) = Len(fetch[q]) + (Len(pipe[q]) + Len(acq.out[q]))
    <3>1. Sent(acq, Chan, q) = fetch[q] \o (pipe[q] \o acq.out[q])
      BY <2>2, SentIs
    <3>2. pipe[q] \o acq.out[q] \in Seq(Request)
          /\ Len(pipe[q] \o acq.out[q]) = Len(pipe[q]) + Len(acq.out[q])
      BY <2>7, ConcatProperties
    <3> DEFINE b == pipe[q] \o acq.out[q]
    <3>3. b \in Seq(Request) /\ Len(b) = Len(pipe[q]) + Len(acq.out[q])
          /\ Sent(acq, Chan, q) = fetch[q] \o b
      BY <3>1, <3>2
    <3> HIDE DEF b
    <3>4. Len(fetch[q] \o b) = Len(fetch[q]) + Len(b)
      BY <2>7, <3>3, ConcatProperties
    <3> QED
      BY <3>3, <3>4
  <2>9. /\ Cardinality(Finals(msgs[q])) \in Nat /\ Cardinality(Finals(answers[q])) \in Nat
        /\ Cardinality(Finals(msgs[q] \o answers[q])) =
              Cardinality(Finals(msgs[q])) + Cardinality(Finals(answers[q]))
    BY <2>7, FinalsConcat
  <2>10. Len(fetch[q]) \in Nat /\ Len(pipe[q]) \in Nat /\ Len(acq.out[q]) \in Nat
    BY <2>7, LenProperties
  <2>11. Outstanding(q) = Len(acq.out[q]) + Len(pipe[q]) + Len(fetch[q])
                          + Cardinality(Finals(answers[q])) + Cardinality(Finals(msgs[q]))
    BY DEF Outstanding, Finals
  <2> HIDE DEF Chan
  <2>12. Cardinality(Finals(Chan.r[q])) =
            Cardinality(Finals(msgs[q])) + Cardinality(Finals(answers[q]))
    BY <2>4, <2>9
  <2>13. acq.depth[q] = (Len(fetch[q]) + (Len(pipe[q]) + Len(acq.out[q])))
                        + (Cardinality(Finals(msgs[q])) + Cardinality(Finals(answers[q])))
    BY <2>3, <2>6, <2>8, <2>12
  <2> DEFINE f == Len(fetch[q])
             p == Len(pipe[q])
             o == Len(acq.out[q])
             m == Cardinality(Finals(msgs[q]))
             a == Cardinality(Finals(answers[q]))
  <2>14. /\ f \in Nat /\ p \in Nat /\ o \in Nat /\ m \in Nat /\ a \in Nat
         /\ acq.depth[q] = (f + (p + o)) + (m + a) /\ Outstanding(q) = o + p + f + a + m
    BY <2>9, <2>10, <2>11, <2>13
  <2> HIDE DEF f, p, o, m, a
  <2> QED
    BY <2>14
<1>2. Spec => []IInv
  BY Invariance
<1>3. Spec => []CInv
  BY ChannelsInvariance
<1> QED
  BY <1>1, <1>2, <1>3, PTL
==============================================================================
