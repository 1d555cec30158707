----------------------------- MODULE Downloader -----------------------------
(***************************************************************************)
(* What pkgAcquire promises its callers (apt-get's update and install):    *)
(* every item offered is worked on through a bounded number of attempts,   *)
(* at most Limit[q] items of a queue at a time, an item that settled is    *)
(* not touched again, and a run reports Continue only once every item has  *)
(* settled.                                                                *)
(***************************************************************************)
EXTENDS Naturals, FiniteSets

CONSTANTS
    Items, Queues,
    NoQueue,   \* the place of an item that is in no queue; not a queue
    Limit,     \* [Queues -> Nat \ {0}], items of a queue worked on at a time
    Budget     \* [Items -> Nat], attempts of an item

VARIABLES
    phase,    \* absent, waiting or active in a queue, or settled
    at,       \* the queue of a waiting or active item
    left,     \* attempts the item may still make
    running, result

vars == <<phase, at, left, running, result>>

Open == {"waiting", "active"}

Init ==
    /\ phase = [i \in Items |-> "absent"] /\ at = [i \in Items |-> NoQueue]
    /\ left = Budget
    /\ running = FALSE /\ result = "none"

\* The items outside S keep their place; some of the waiting ones may be taken up.
Feeding(S) ==
    \A i \in Items \ S :
        /\ at'[i] = at[i] /\ left'[i] = left[i]
        /\ phase'[i] = phase[i] \/ (phase[i] = "waiting" /\ phase'[i] = "active")

Same(S) == \A i \in S : phase'[i] = phase[i] /\ at'[i] = at[i] /\ left'[i] = left[i]

Placed(i) == at'[i] \in Queues <=> phase'[i] \in Open

Window ==
    \A q \in Queues :
        Cardinality({i \in Items : at'[i] = q /\ phase'[i] = "active"}) <= Limit[q]

\* A queue may still have a worker from the last run, which takes the item up.
Offer(i) ==
    /\ ~running /\ phase[i] = "absent"
    /\ phase'[i] # "absent" /\ left'[i] <= Budget[i] /\ Placed(i)
    /\ Same(Items \ {i}) /\ Window
    /\ UNCHANGED <<running, result>>

Withdraw(i) ==
    /\ ~running /\ phase[i] \in {"waiting", "settled"}
    /\ phase' = [phase EXCEPT ![i] = "absent"] /\ at' = [at EXCEPT ![i] = NoQueue]
    /\ UNCHANGED <<left, running, result>>

Abandon ==
    /\ ~running
    /\ phase' = [i \in Items |-> "absent"] /\ at' = [i \in Items |-> NoQueue]
    /\ UNCHANGED <<left, running, result>>

Begin ==
    /\ ~running /\ running' = TRUE /\ result' = "none"
    /\ UNCHANGED <<phase, at, left>>

Feed ==
    /\ running /\ Feeding({}) /\ Window
    /\ UNCHANGED <<running, result>>

\* An answer settles its item or sends it on with fewer attempts left.
Conclude(i) ==
    /\ running /\ phase[i] = "active"
    /\ Feeding({i}) /\ Window /\ Placed(i)
    /\ \/ phase'[i] = "settled" /\ left'[i] <= left[i]
       \/ phase'[i] \in Open /\ left'[i] < left[i]
    /\ UNCHANGED <<running, result>>

End ==
    /\ running /\ running' = FALSE
    /\ result' \in {"Continue", "Failed", "Cancelled"}
    /\ result' = "Continue" => \A i \in Items : phase[i] \notin Open
    /\ UNCHANGED <<phase, at, left>>

Next ==
    \/ Abandon \/ Begin \/ Feed \/ End
    \/ \E i \in Items : Offer(i) \/ Withdraw(i) \/ Conclude(i)

Spec == Init /\ [][Next]_vars
=============================================================================
