--------------------------- MODULE AcquireRefines ---------------------------
(***************************************************************************)
(* Acquire implements Downloader: the mapping from queues, item status and *)
(* item state to phases, and the variant that bounds an item's attempts.   *)
(***************************************************************************)
EXTENDS Acquire

NoQueue == <<>>

\* Requests an item can still cause after the one it is on: sources and retries
\* of an archive, the copy, decompression or authentication of an index.
Attempts(i, it) ==
    LET c == Conf[i]
        uncopied == IF it.uri = c.copy THEN 0 ELSE 1
    IN CASE c.kind = "archive" -> Len(c.sources) + 1 - it.vf + it.retries * Len(c.sources)
         [] c.kind = "index"   -> IF it.second THEN 0 ELSE 1
         [] c.kind = "rel"     -> IF it.second THEN 0 ELSE 1 + uncopied
         [] c.kind = "file"    -> it.retries + uncopied

phase ==
    [i \in Items |->
        CASE i \notin live -> "absent"
          [] i \in live /\ OwnedBy(acq, i) = {} -> "settled"
          [] i \in live /\ OwnedBy(acq, i) # {} ->
               IF acq.status[i] = "Fetching" THEN "active" ELSE "waiting"]

at ==
    [i \in Items |->
        IF i \in live /\ OwnedBy(acq, i) # {}
        THEN (CHOOSE e \in OwnedBy(acq, i) : TRUE).queue ELSE NoQueue]

D == INSTANCE Downloader WITH
        Limit   <- [q \in Queues |-> IF Method[q[1]].pipeline THEN PipeLimit ELSE 1],
        Budget  <- [i \in Items |-> Attempts(i, NewState(i))],
        left    <- [i \in Items |-> Attempts(i, item[i])],
        running <- Running

\* Every behaviour of the scheduler, its workers and the method processes is
\* one the abstract downloader allows: window, bounded attempts, settled items
\* left alone, Continue only when all is settled.
ImplementsDownloader == D!Spec
=============================================================================
