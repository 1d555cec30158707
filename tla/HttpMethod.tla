----------------------------- MODULE HttpMethod -----------------------------
(***************************************************************************)
(* methods/http.cc: the http method asks for several files of one server   *)
(* before the first has come, and matches replies with requests by their   *)
(* order alone.  The queue it works from is that of pkgAcqMethod           *)
(* (apt-pkg/acquire-method.cc).                                            *)
(*                                                                         *)
(* A connection carries tokens: the headers of a reply, a byte of a file,  *)
(* a line of chunked encoding.  Headers arrive whole, buffers never fill,  *)
(* and of the replies there are the ones Site lists; 100 Continue and 401  *)
(* are left out.                                                           *)
(***************************************************************************)
EXTENDS Integers, Sequences, FiniteSets, SequencesExt

CONSTANTS
    Item,           \* what apt asks for, each with a DestFile of its own
    Uri, Host, HostOf,
    Plans,          \* what apt may ask for: functions from items to URIs
    Site,           \* [Uri -> Answer], what servers reply
    Again,          \* the items apt asks for once more after a transient failure
    PipelineDepth,
    NoUri, NoHost

Answer ==
    [code : {"ok", "notmod", "redirect", "error", "bad"},
     framing : {"stream", "chunked", "closes", "none"},
     size : Nat, close : BOOLEAN, to : Uri \cup {NoUri}]

ASSUME SiteAssumption ==
    /\ HostOf \in [Uri -> Host] /\ NoHost \notin Host /\ NoUri \notin Uri
    /\ Plans \subseteq UNION {[I -> Uri] : I \in SUBSET Item} /\ Site \in [Uri -> Answer]
    /\ Again \subseteq Item /\ PipelineDepth \in Nat

VARIABLES
    m,      \* the method: its queue, ServerState, file and loop
    plan,   \* the one of Plans it asks for
    stdin,  \* 600 messages on their way to it
    asked,  \* how often apt has asked for each item
    conn,   \* what the server sends for the requests it has, unless it is cut short
    eof     \* the server sends no more than that

http == <<m, plan, stdin, asked, conn, eof>>

NoLimit == -1

Token(kind, u, n) == [kind |-> kind, uri |-> u, n |-> n]
Bytes(u, start)   == [k \in 1..(Site[u].size - start) |-> Token("byte", u, start + k)]
File(s)           == s.file[Head(s.queue).item]

Init ==
    /\ m = [pc |-> "top", queue |-> <<>>, sent |-> 0, host |-> NoHost, open |-> FALSE,
            persistent |-> TRUE, pipeline |-> TRUE, choke |-> TRUE, location |-> NoUri,
            out |-> <<>>, in |-> <<>>, limit |-> NoLimit, reply |-> NoUri, mode |-> "file",
            phase |-> "stream", err |-> FALSE, fails |-> 0, early |-> FALSE,
            seen |-> [i \in Item |-> {}], stop |-> {},
            file |-> [i \in Item |-> <<>>],
            answers |-> [i \in Item |-> 0],
            told |-> [i \in Item |-> [how |-> "none", uri |-> NoUri, early |-> FALSE]]]
    /\ plan \in Plans /\ stdin = <<>> /\ asked = [i \in Item |-> 0]
    /\ conn = <<>> /\ eof = FALSE

-----------------------------------------------------------------------------
(* The queue.  QueueBack is the element after the first sent ones.          *)

\* A partial file is resumed one byte before its end.
Request(s, q) ==
    [uri |-> q.uri, from |-> IF s.file[q.item] = <<>> THEN 0 ELSE Len(s.file[q.item]) - 1]

\* Where Fetch's walk ends: how many elements it passes, and what becomes of ChokePipe.
Walk(s) ==
    LET reach   == Min({Len(s.queue), PipelineDepth + 1})
        foreign == {k \in 1..reach : HostOf[s.queue[k].uri] # s.host}
        only1   == ~s.pipeline \/ s.choke
    IN IF foreign # {} /\ (Min(foreign) = 1 \/ ~only1) THEN [to |-> Min(foreign) - 1, choke |-> TRUE]
       ELSE IF reach > 1 /\ only1 THEN [to |-> 1, choke |-> s.choke /\ ~s.pipeline]
       ELSE [to |-> reach, choke |-> s.choke]

Fetch(s) ==
    IF s.host = NoHost THEN s
    ELSE LET w == Walk(s) IN
         [s EXCEPT !.choke = w.choke, !.sent = Max({@, w.to}),
                   !.out = @ \o [k \in 1..Max({0, w.to - s.sent}) |->
                                    Request(s, s.queue[s.sent + k])]]

Enqueue(s, q) == Fetch([s EXCEPT !.queue = Append(@, q)])

\* pkgAcqMethod::Run(true).
Handle(s, messages) == FoldLeft(Enqueue, s, messages)

Dequeue(s) == [s EXCEPT !.queue = Tail(@), !.sent = Max({0, @ - 1})]

Tell(s, how) ==
    LET q == Head(s.queue) IN
    Dequeue([s EXCEPT !.told[q.item] = [how |-> how, uri |-> q.uri, early |-> s.early],
                      !.answers[q.item] = @ + 1])

URIDone(s, how) == Tell(s, how)

\* Fail(bool): what is pending becomes the message.
Fail(s, how) == [Tell(s, how) EXCEPT !.err = FALSE]

\* Variant with a bug: the request that moves away is still counted as sent.
Redirect_Sent(s) ==
    [s EXCEPT !.queue = Append(Tail(@), [Head(@) EXCEPT !.uri = s.location])]

\* The request goes to the end of the queue; alone in the queue, it stays what
\* it was for QueueBack.
Redirect(s) ==
    [s EXCEPT !.queue = Append(Tail(@), [Head(@) EXCEPT !.uri = s.location]),
              !.sent = IF Len(s.queue) = 1 THEN @
                       ELSE IF @ = 0 THEN Len(s.queue) - 1 ELSE @ - 1]

-----------------------------------------------------------------------------
(* The connection.                                                          *)

Closed(s) == [s EXCEPT !.open = FALSE]

\* Variant with a bug: the limit is not looked at.
Write_NoLimit(s) ==
    LET kept == [s EXCEPT !.in = <<>>, !.limit = IF @ = NoLimit THEN @ ELSE Max({0, @ - Len(s.in)})]
    IN IF s.mode = "file" THEN [kept EXCEPT !.file[Head(s.queue).item] = @ \o s.in] ELSE kept

\* CircleBuf::Write, to the file or to /dev/null.
Write(s) ==
    LET n    == IF s.limit = NoLimit THEN Len(s.in) ELSE Min({s.limit, Len(s.in)})
        kept == [s EXCEPT !.in = SubSeq(@, n + 1, Len(@)),
                          !.limit = IF @ = NoLimit THEN @ ELSE @ - n]
    IN IF s.mode = "file"
       THEN [kept EXCEPT !.file[Head(s.queue).item] = @ \o SubSeq(s.in, 1, n)] ELSE kept

Result(s, ok) == [s |-> s, ok |-> ok]

\* Variant with a bug: the end of the connection is always the end of the file.
ServerDie_Quiet(s) ==
    LET data   == s.pc = "data"
        dumped == IF data THEN Write(s) ELSE s
    IN IF data /\ s.in # <<>> /\ dumped.limit = 0 THEN Result(dumped, TRUE)
       ELSE IF dumped.in = <<>> THEN Result([dumped EXCEPT !.limit = NoLimit], FALSE)
       ELSE Result(Closed([dumped EXCEPT !.limit = NoLimit]), TRUE)

\* Variant with a bug: the connection is kept after an error.
ServerDie_Open(s) ==
    LET data   == s.pc = "data"
        dumped == IF data THEN Write(s) ELSE s
    IN IF data /\ s.in # <<>> /\ dumped.limit = 0 THEN Result(dumped, TRUE)
       ELSE IF data /\ dumped.limit # 0 /\ Site[s.reply].framing \in {"stream", "chunked"}
            THEN Result([dumped EXCEPT !.err = TRUE], FALSE)
       ELSE IF dumped.in = <<>> THEN Result([dumped EXCEPT !.limit = NoLimit], FALSE)
       ELSE Result(Closed([dumped EXCEPT !.limit = NoLimit]), TRUE)

ServerDie(s) ==
    LET data   == s.pc = "data"
        dumped == IF data THEN Write(s) ELSE s
    IN IF data /\ s.in # <<>> /\ dumped.limit = 0 THEN Result(dumped, TRUE)
       ELSE IF data /\ dumped.limit # 0 /\ Site[s.reply].framing \in {"stream", "chunked"}
            THEN Result([Closed(dumped) EXCEPT !.err = TRUE], FALSE)
       ELSE IF dumped.in = <<>> THEN Result([dumped EXCEPT !.limit = NoLimit], FALSE)
       ELSE Result(Closed([dumped EXCEPT !.limit = NoLimit]), TRUE)

Refused(s, toFile) == ~s.open /\ (s.in = <<>> \/ ~toFile)

-----------------------------------------------------------------------------
(* The server.                                                              *)

Line(u, n) == Token("line", u, n)

Body(u, start) ==
    CASE Site[u].framing = "none"    -> <<>>
      [] Site[u].framing = "chunked" ->
            (IF start = Site[u].size THEN <<>>
             ELSE <<Line(u, Site[u].size - start)>> \o Bytes(u, start) \o <<Line(u, 0)>>)
            \o <<Line(u, 0), Line(u, 0)>>
      [] OTHER -> Bytes(u, start)

HangsUp(u) == Site[u].close \/ Site[u].framing = "closes"

Reply(u, start) == <<Token("head", u, start)>> \o Body(u, start)

\* The replies to the requests rs; a range is granted, or the file has changed and
\* is sent whole.
Replies(rs, granted) ==
    LET last  == Min({Len(rs)} \cup {k \in DOMAIN rs : HangsUp(rs[k].uri)})
        Start(r) == IF granted /\ Site[r.uri].code = "ok" /\ r.from < Site[r.uri].size
                    THEN r.from ELSE 0
    IN FlattenSeq([k \in 1..last |-> Reply(rs[k].uri, Start(rs[k]))])

\* A request that reaches a server that has hung up is lost.
Served(rest, rs) ==
    IF eof THEN conn' = rest /\ UNCHANGED eof
    ELSE /\ \E granted \in BOOLEAN : conn' = rest \o Replies(rs, granted)
         /\ eof' = (\E k \in DOMAIN rs : HangsUp(rs[k].uri))

-----------------------------------------------------------------------------
(* HttpMethod::Go.                                                          *)

Writes(s)   == s.open /\ s.persistent /\ s.out # <<>>
\* Whether select finds something to do without the server.
Busy(toFile) == Writes(m) \/ (toFile /\ m.in # <<>>) \/ stdin # <<>>

\* One pass of Go in which n tokens arrive, and perhaps the end of the connection.
Go(s, toFile, n, end) ==
    LET read == [s EXCEPT !.in = @ \o SubSeq(conn, 1, n)]
        sent == IF Writes(s) THEN [read EXCEPT !.out = <<>>] ELSE read
    IN IF end THEN ServerDie(read)
       ELSE Result(Handle(IF toFile /\ s.in # <<>> THEN Write(sent) ELSE sent, stdin), TRUE)

NoWire == conn' = <<>> /\ eof' = FALSE

\* A closed connection drops what is under way.
Wire == IF m'.open THEN UNCHANGED <<conn, eof>> ELSE NoWire

\* One call of Go, and what the caller does next.
GoThen(toFile, Then(_), Else(_)) ==
    \/ /\ Refused(m, toFile)
       /\ m' = Else(m) /\ Wire /\ UNCHANGED stdin
    \/ /\ ~Refused(m, toFile)
       /\ \E n \in 0..Len(conn) : \E end \in IF m.open THEN BOOLEAN ELSE {FALSE} :
            /\ n > 0 \/ end \/ Busy(toFile)
            /\ eof /\ conn = <<>> => end
            /\ \E r \in {Go(m, toFile, n, end)} : m' = IF r.ok THEN Then(r.s) ELSE Else(r.s)
            /\ IF end THEN UNCHANGED stdin ELSE stdin' = <<>>
            /\ IF ~m'.open THEN NoWire
               ELSE IF end THEN conn' = <<>> /\ eof' = TRUE
               ELSE IF Writes(m) THEN Served(SubSeq(conn, n + 1, Len(conn)), m.out)
               ELSE conn' = SubSeq(conn, n + 1, Len(conn)) /\ UNCHANGED eof
    \/ /\ m.open /\ ~Busy(toFile) /\ ~(eof /\ conn = <<>>)     \* timed out
       /\ \E r \in {ServerDie([m EXCEPT !.err = TRUE])} : m' = IF r.ok THEN Then(r.s) ELSE Else(r.s)
       /\ Wire /\ UNCHANGED stdin

-----------------------------------------------------------------------------
(* HttpMethod::Loop.                                                        *)

NextRound(s) == [s EXCEPT !.pc = "top", !.fails = 0]

\* Variant with a bug: a redirection is followed whatever came before.
Redirected_Always(s) == NextRound(Redirect(s))

Redirected(s) ==
    LET q == Head(s.queue)
        twice == s.seen[q.item] # {} /\ q.uri \in s.seen[q.item]
    IN IF q.item \in s.stop THEN NextRound(Fail(s, "failed"))
       ELSE NextRound(Redirect([s EXCEPT !.seen[q.item] = @ \cup {q.uri},
                                     !.stop = IF twice THEN @ \cup {q.item} ELSE @]))

EndData(s, ok) ==
    CASE s.mode = "file"     -> NextRound(IF ok THEN URIDone(s, "done") ELSE Fail(s, "transient"))
      [] s.mode = "error"    -> NextRound(s)
      [] s.mode = "redirect" -> Redirected(s)

StartData(s, mode, start) ==
    LET a == Site[s.reply] IN
    [s EXCEPT !.pc = "data", !.mode = mode, !.early = ~s.open,
              !.phase = IF a.framing = "chunked" THEN "size" ELSE "stream",
              !.limit = IF a.framing = "stream" THEN a.size - start ELSE NoLimit]

\* ftruncate fills up with zeros.
Truncated(f, n) == [k \in 1..n |-> IF k <= Len(f) THEN f[k] ELSE Token("zero", NoUri, 0)]

\* DealWithHeaders, and what Loop does with its answer.
Deal(s, start) ==
    LET a == Site[s.reply] IN
    CASE a.code = "notmod" ->
            NextRound(URIDone([s EXCEPT !.file[Head(s.queue).item] = <<>>], "ims"))
      [] a.code = "redirect" ->
            IF s.location = NoUri THEN NextRound(Fail(s, "failed"))
            ELSE IF a.framing # "none" THEN StartData(s, "redirect", 0) ELSE Redirected(s)
      [] a.code = "error" ->
            IF a.framing = "none" THEN NextRound(Fail(s, "failed"))
            ELSE StartData(Fail(s, "failed"), "error", 0)
      [] a.code = "ok" ->
            IF s.err THEN NextRound(Closed(Fail(s, "failed")))
            ELSE StartData([s EXCEPT !.file[Head(s.queue).item] = Truncated(@, start)],
                           "file", start)

\* The headers of a reply have come.
Parsed(s) ==
    LET h == Head(s.in)
        a == Site[h.uri]
        t == [s EXCEPT !.in = Tail(@), !.early = FALSE]
    IN IF a.code = "bad" THEN [Fail(t, "transient") EXCEPT !.pc = "top"]
       ELSE Deal([t EXCEPT !.reply = h.uri,
                           !.location = IF a.to # NoUri THEN a.to ELSE @,
                           !.persistent = ~a.close /\ a.framing # "closes"], h.n)

\* RunHeaders returned 1; Fail(string) leaves what is pending alone.
NoHeaders(s) ==
    LET t == [Closed(s) EXCEPT !.pc = "top", !.err = FALSE, !.pipeline = FALSE, !.fails = @ + 1]
    IN IF t.fails < 2 THEN t ELSE [Tell(t, "transient") EXCEPT !.fails = 0]

Connected(s) ==
    Fetch([s EXCEPT !.pc = "headers", !.open = TRUE, !.persistent = TRUE, !.sent = 0,
                    !.in = <<>>, !.out = <<>>, !.limit = NoLimit])

Top ==
    /\ m.pc = "top" /\ (m.queue # <<>> \/ stdin # <<>>)
    /\ \E s \in {[Handle(m, stdin) EXCEPT !.early = FALSE]} :
       LET t == IF s.host # HostOf[Head(s.queue).uri]
                THEN [Closed(s) EXCEPT !.host = HostOf[Head(s.queue).uri], !.pipeline = TRUE,
                                       !.location = NoUri, !.in = <<>>, !.out = <<>>]
                ELSE IF s.persistent THEN s ELSE Closed(s)
       IN IF t.open THEN m' = Fetch([t EXCEPT !.pc = "headers"]) /\ Wire
          ELSE /\ \/ ~t.err /\ m' = Connected(t)
                  \/ m' = [Fail([t EXCEPT !.sent = 0], "transient") EXCEPT !.host = NoHost]
               /\ NoWire
    /\ stdin' = <<>> /\ UNCHANGED <<plan, asked>>

Stay(s) == s

Headers ==
    /\ m.pc = "headers"
    /\ IF m.in # <<>> THEN m' = Parsed(m) /\ Wire /\ UNCHANGED stdin
       ELSE GoThen(FALSE, Stay, NoHeaders)
    /\ UNCHANGED <<plan, asked>>

\* A line of chunked encoding, or the failure to get one.
NextLine(Got(_, _)) ==
    IF m.in # <<>>
    THEN /\ m' = Got([m EXCEPT !.in = Tail(@)], Head(m.in).n)
         /\ Wire /\ UNCHANGED stdin
    ELSE GoThen(FALSE, Stay, LAMBDA s : EndData(s, FALSE))

\* In RunData's last line Flush finds the buffer empty.
Whole ==
    /\ m.pc = "data" /\ m.phase = "stream"
    /\ IF m.limit = 0
       THEN m' = EndData([m EXCEPT !.limit = NoLimit], ~m.err) /\ Wire /\ UNCHANGED stdin
       ELSE GoThen(TRUE, Stay, LAMBDA s : EndData(s, ~s.err))
    /\ UNCHANGED <<plan, asked>>

Chunked ==
    /\ m.pc = "data"
    /\ CASE m.phase = "size" ->
              NextLine(LAMBDA s, n : IF n = 0 THEN [s EXCEPT !.phase = "trailer"]
                                 ELSE [s EXCEPT !.phase = "block", !.limit = n])
         [] m.phase = "block" ->
              GoThen(TRUE,
                     LAMBDA s : IF s.limit # 0 THEN s
                                ELSE [s EXCEPT !.phase = "newline", !.limit = NoLimit],
                     LAMBDA s : EndData(s, FALSE))
         [] m.phase = "newline" -> NextLine(LAMBDA s, n : [s EXCEPT !.phase = "size"])
         [] m.phase = "trailer" -> NextLine(LAMBDA s, n : EndData(s, ~s.err))
         [] OTHER -> FALSE
    /\ UNCHANGED <<plan, asked>>

Method == Top \/ Headers \/ Whole \/ Chunked

-----------------------------------------------------------------------------
(* apt.                                                                     *)

Ask(i) ==
    /\ asked[i] = m.answers[i]
    /\ \/ asked[i] = 0
       \/ asked[i] = 1 /\ i \in Again /\ m.told[i].how = "transient"
    /\ asked' = [asked EXCEPT ![i] = @ + 1]
    /\ stdin' = Append(stdin, [item |-> i, uri |-> plan[i]])
    /\ UNCHANGED <<m, plan, conn, eof>>

Next == Method \/ (\E i \in DOMAIN plan : Ask(i))

Spec == Init /\ [][Next]_http

CanStep == m.pc # "top" \/ m.queue # <<>> \/ stdin # <<>>

\* The method runs, and select times out: nothing is expected of the server.  This
\* is WF_http(Method) spelt out: the method can always go on when it has something
\* to do, and its steps are those that leave asked alone.
FairSpec == Spec /\ ([]<>(~CanStep) \/ []<><<asked' = asked>>_http)

-----------------------------------------------------------------------------
Uris(s) == [k \in DOMAIN s |-> s[k].uri]

\* Whose replies begin among the tokens.
Heads(tokens) ==
    FlattenSeq([k \in DOMAIN tokens |->
                   IF tokens[k].kind = "head" THEN <<tokens[k].uri>> ELSE <<>>])

\* Replies that have come or are coming.
UnderWay == Heads(m.in \o conn)

\* The elements of the queue whose replies are still to come.
Awaited ==
    LET served == m.pc = "data" /\ m.mode # "error" IN
    Uris(SubSeq(m.queue, IF served THEN 2 ELSE 1, m.sent))

\* Replies carry no name.  What is under way is, in order, what the queue says has
\* been sent, whatever is redirected, fails, is added or is lost with a connection.
InStep ==
    m.pc # "top" =>
        IF m.open /\ ~eof THEN UnderWay \o Uris(m.out) = Awaited
        ELSE IsPrefix(UnderWay, Awaited)

\* The URIs one may be sent to from a URI.
FollowsUp(us) == \A u \in us : Site[u].to \in us \cup {NoUri}
Chain ==
    [from \in Uri |-> {u \in Uri :
        \A us \in SUBSET Uri : from \in us /\ FollowsUp(us) => u \in us}]

\* What is on disk for an item is always a beginning of its own file, so a later
\* request may resume it; chunked files excepted, see ServerDie.
OwnBytes ==
    \A i \in DOMAIN plan : (\A u \in Chain[plan[i]] : Site[u].framing # "chunked") =>
        \E u \in Chain[plan[i]] : IsPrefix(m.file[i], Bytes(u, 0))

\* Item i is reported done, and the file should tell where it ends.
ReportedDone(i) ==
    asked[i] = m.answers[i] /\ m.told[i].how = "done" /\ Site[m.told[i].uri].framing # "closes"
IsWhole(i) == m.file[i] = Bytes(m.told[i].uri, 0)

\* A file reported done is whole, if the connection outlived its headers: what is
\* cut short later is reported as a failure.  A chunked file is, if it came in one piece.
DoneIsWhole ==
    \A i \in Item :
        ReportedDone(i) /\ ~m.told[i].early
            => IsWhole(i) \/ (Site[m.told[i].uri].framing = "chunked" /\ asked[i] > 1)

\* What doc/method.sgml says of 201 URI Done: the URI has completed being transferred.
\* Of files that are not chunked:
DoneIsTransferred ==
    \A i \in Item :
        ReportedDone(i) /\ Site[m.told[i].uri].framing # "chunked" => IsWhole(i)

\* ... and of all, if the connection outlived the headers:
ResumedIsWhole == \A i \in Item : ReportedDone(i) /\ ~m.told[i].early => IsWhole(i)

\* An item fails for good only if its own URI is answered with an error, or its
\* redirections run in a circle; not for what befell another item.
FailsForCause ==
    \A i \in Item :
        LET t == m.told[i] IN
        t.how = "failed" => Site[t.uri].code = "error" \/ i \in m.stop

\* Every request is answered, by a server that may stop answering or keep hanging up.
Answered == \A i \in Item : (asked[i] # m.answers[i]) ~> (asked[i] = m.answers[i])
=============================================================================
