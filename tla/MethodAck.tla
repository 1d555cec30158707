------------------------------ MODULE MethodAck ------------------------------
(***************************************************************************)
(* The message engine of a method process when a request needs the user:   *)
(* pkgAcqMethod::NeedAuth and MediaFail (apt-pkg/acquire-method.cc) ask    *)
(* apt with a 404 or 403 and read messages until the 604 or 603 arrives,   *)
(* while 600 URI Acquire messages keep coming on the same pipe; Run hands  *)
(* the 600s to the method.  The other end is Worker::Authenticate and      *)
(* Worker::MediaChange (apt-pkg/acquire-worker.cc).                        *)
(***************************************************************************)
EXTENDS Naturals, Sequences

CONSTANTS
    Requests,  \* bound on the 600 messages sent
    Window,    \* MaxPipeDepth: unanswered requests apt leaves with the method
    MaxAsks    \* bound on the questions asked

ASSUME AckAssumption == Requests \in Nat /\ Window \in Nat \ {0} /\ MaxAsks \in Nat

VARIABLES
    stdin,     \* messages on their way to the method
    messages,  \* pkgAcqMethod::Messages
    mine,      \* MyMessages of the NeedAuth or MediaFail being executed
    queue,     \* pkgAcqMethod::Queue
    handled,   \* the requests Run has handed to the method, in that order
    waiting,   \* inside NeedAuth or MediaFail
    asked,     \* a 403 or 404 is on its way to apt
    verdict,   \* what the user decided on the last question
    outcome,   \* what NeedAuth or MediaFail returned last
    sent, answered, asks

vars == <<stdin, messages, mine, queue, handled, waiting, asked, verdict, outcome,
          sent, answered, asks>>

Init ==
    /\ stdin = <<>> /\ messages = <<>> /\ mine = <<>> /\ queue = <<>> /\ handled = <<>>
    /\ waiting = FALSE /\ asked = FALSE /\ verdict = "none" /\ outcome = "none"
    /\ sent = 0 /\ answered = 0 /\ asks = 0

-----------------------------------------------------------------------------
(* apt                                                                      *)

Request(id) == [num |-> 600, id |-> id]

\* Queue::Cycle and Worker::QueueItem.
SendRequest ==
    /\ sent < Requests /\ sent - answered < Window
    /\ sent' = sent + 1
    /\ stdin' = Append(stdin, Request(sent + 1))
    /\ UNCHANGED <<messages, mine, queue, handled, waiting, asked, verdict, outcome,
                   answered, asks>>

\* A refusal is announced in a tag named Failed.
AckTags(granted) == IF granted THEN {} ELSE {"Failed"}

Acknowledge_OnlyGrants ==
    /\ asked /\ asked' = FALSE
    /\ \/ verdict' = "granted" /\ stdin' = Append(stdin, [num |-> 604, tags |-> {}])
       \/ verdict' = "refused" /\ UNCHANGED stdin
    /\ UNCHANGED <<messages, mine, queue, handled, waiting, outcome, sent, answered, asks>>

Acknowledge ==
    /\ asked /\ asked' = FALSE
    /\ \E granted \in BOOLEAN :
         /\ verdict' = IF granted THEN "granted" ELSE "refused"
         /\ stdin' = Append(stdin, [num |-> 604, tags |-> AckTags(granted)])
    /\ UNCHANGED <<messages, mine, queue, handled, waiting, outcome, sent, answered, asks>>

-----------------------------------------------------------------------------
(* The method                                                               *)

\* pkgAcqMethod::Run reads when it has no message left, all there is.
Read ==
    /\ ~waiting /\ messages = <<>> /\ stdin # <<>>
    /\ messages' = stdin /\ stdin' = <<>>
    /\ UNCHANGED <<mine, queue, handled, waiting, asked, verdict, outcome,
                   sent, answered, asks>>

\* A stray acknowledgement is ignored.
Handle ==
    /\ ~waiting /\ messages # <<>>
    /\ LET m == Head(messages) IN
       IF m.num = 600
       THEN queue' = Append(queue, m.id) /\ handled' = Append(handled, m.id)
       ELSE UNCHANGED <<queue, handled>>
    /\ messages' = Tail(messages)
    /\ UNCHANGED <<stdin, mine, waiting, asked, verdict, outcome, sent, answered, asks>>

\* The request at the head of the queue is refused by the server, or its medium
\* is not in the drive.
Ask ==
    /\ ~waiting /\ queue # <<>> /\ asks < MaxAsks
    /\ asks' = asks + 1 /\ asked' = TRUE /\ waiting' = TRUE /\ verdict' = "none"
    /\ mine' = <<>>
    /\ UNCHANGED <<stdin, messages, queue, handled, outcome, sent, answered>>

\* The tag the method looks for is named Fail.
Refused(ack) == "Fail" \in ack.tags

\* Variant with a bug: what was read behind the front message is thrown away.
WaitForAck_DropsRest ==
    /\ waiting /\ stdin # <<>>
    /\ LET m == Head(stdin) IN
       IF m.num = 604
       THEN waiting' = FALSE /\ outcome' = (IF Refused(m) THEN "refused" ELSE "granted")
            /\ UNCHANGED messages
       ELSE messages' = Append(messages, m) /\ UNCHANGED <<waiting, outcome>>
    /\ mine' = <<>> /\ stdin' = <<>>
    /\ UNCHANGED <<queue, handled, asked, verdict, sent, answered, asks>>

\* One pass of the loop: read all there is, look at the front message only.
WaitForAck ==
    /\ waiting /\ stdin # <<>>
    /\ LET got == mine \o stdin
           m   == Head(got)
       IN IF m.num = 604
          THEN /\ messages' = messages \o Tail(got) /\ mine' = <<>>
               /\ waiting' = FALSE
               /\ outcome' = IF Refused(m) THEN "refused" ELSE "granted"
          ELSE /\ messages' = Append(messages, m) /\ mine' = Tail(got)
               /\ UNCHANGED <<waiting, outcome>>
    /\ stdin' = <<>>
    /\ UNCHANGED <<queue, handled, asked, verdict, sent, answered, asks>>

Answer ==
    /\ ~waiting /\ queue # <<>>
    /\ queue' = Tail(queue) /\ answered' = answered + 1
    /\ UNCHANGED <<stdin, messages, mine, handled, waiting, asked, verdict, outcome,
                   sent, asks>>

MethodStep == Read \/ Handle \/ WaitForAck \/ Answer

Next == SendRequest \/ Acknowledge \/ MethodStep \/ Ask

Spec == Init /\ [][Next]_vars

\* The method runs while it has something to read or to do, apt answers.
FairSpec == Spec /\ WF_vars(MethodStep) /\ WF_vars(Acknowledge)

-----------------------------------------------------------------------------
\* The requests that were handed on, and what is still to be read, in order.
Path == [k \in DOMAIN handled |-> Request(handled[k])] \o (messages \o (mine \o stdin))

\* n requests were sent, and each is in path once, in order.
Kept(path, n) ==
    LET at == {k \in DOMAIN path : path[k].num = 600} IN
    /\ \A i, j \in at : i < j => path[i].id < path[j].id
    /\ {path[k].id : k \in at} = 1..n

\* Requests set aside while waiting for an acknowledgement are neither lost nor
\* reordered: what was handled and what is on its way is what apt sent.
RequestsKept == Kept(Path, sent)

\* A question apt has been asked comes to an end, or its acknowledgement has been
\* read, behind another message, and the method waits for more.
WaitEndsOrBuried == waiting ~> (~waiting \/ \E k \in DOMAIN mine : mine[k].num = 604)
=============================================================================
