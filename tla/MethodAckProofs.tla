---------------------------- MODULE MethodAckProofs ----------------------------
(***************************************************************************)
(* For any number of requests, any window and any number of questions, the *)
(* wait for an acknowledgement loses and reorders no request.              *)
(***************************************************************************)
EXTENDS MethodAck, SequenceTheorems, TLAPS

Message == [num: {600}, id: Nat] \cup [num: {604}, tags: SUBSET {"Fail", "Failed"}]

\* The variables the requests pass through, and that nothing is set aside between waits.
Types ==
    /\ stdin \in Seq(Message) /\ messages \in Seq(Message) /\ mine \in Seq(Message)
    /\ handled \in Seq(Nat) /\ sent \in Nat
    /\ ~waiting => mine = <<>>

IInv == Types /\ RequestsKept

-----------------------------------------------------------------------------
\* A new request goes to the end.
LEMMA RequestAdded ==
    ASSUME NEW s \in Seq(Message), NEW n \in Nat, Kept(s, n)
    PROVE  Kept(Append(s, Request(n + 1)), n + 1)
<1> DEFINE t == Append(s, Request(n + 1))
           S == {k \in DOMAIN s : s[k].num = 600}
           T == {k \in DOMAIN t : t[k].num = 600}
<1>1. /\ t \in Seq(Message) /\ Len(t) = Len(s) + 1
      /\ \A k \in 1..Len(s) : t[k] = s[k]
      /\ t[Len(s) + 1] = Request(n + 1)
  BY DEF Request, Message
<1>2. DOMAIN s = 1..Len(s) /\ DOMAIN t = 1..(Len(s) + 1) /\ Len(s) \in Nat
  BY <1>1
<1>3. T = S \cup {Len(s) + 1}
  BY <1>1, <1>2 DEF Request
<1>4. \A k \in S : s[k].id \in 1..n
  BY DEF Kept
<1>5. {t[k].id : k \in T} = {s[k].id : k \in S} \cup {n + 1}
  BY <1>1, <1>2, <1>3 DEF Request
<1>6. {t[k].id : k \in T} = 1..(n + 1)
  <2>1. {s[k].id : k \in S} = 1..n
    BY DEF Kept
  <2>2. 1..(n + 1) = (1..n) \cup {n + 1}
    OBVIOUS
  <2> HIDE DEF t, S, T
  <2> QED BY <1>5, <2>1, <2>2
<1>7. ASSUME NEW i \in T, NEW j \in T, i < j PROVE t[i].id < t[j].id
  <2>1. i \in S
    BY <1>2, <1>3, <1>7
  <2>2. CASE j \in S
    BY <1>1, <1>2, <1>7, <2>1, <2>2 DEF Kept
  <2>3. CASE j = Len(s) + 1
    BY <1>1, <1>2, <1>4, <2>1, <2>3 DEF Request
  <2> QED BY <1>3, <2>2, <2>3
<1> QED BY <1>6, <1>7 DEF Kept

\* An acknowledgement may stand anywhere ...
LEMMA AckAdded ==
    ASSUME NEW s \in Seq(Message), NEW n \in Nat, NEW m \in Message, m.num = 604, Kept(s, n)
    PROVE  Kept(Append(s, m), n)
<1> DEFINE t == Append(s, m)
<1>1. /\ t \in Seq(Message) /\ Len(t) = Len(s) + 1
      /\ \A k \in 1..Len(s) : t[k] = s[k]
      /\ t[Len(s) + 1] = m
  OBVIOUS
<1>2. DOMAIN s = 1..Len(s) /\ DOMAIN t = 1..(Len(s) + 1) /\ Len(s) \in Nat
  BY <1>1
<1>3. {k \in DOMAIN t : t[k].num = 600} = {k \in DOMAIN s : s[k].num = 600}
  BY <1>1, <1>2
<1>4. \A k \in {k \in DOMAIN s : s[k].num = 600} : t[k] = s[k]
  BY <1>1, <1>2
<1> QED BY <1>3, <1>4 DEF Kept

\* ... and be taken out from anywhere.
LEMMA AckTaken ==
    ASSUME NEW s \in Seq(Message), NEW t \in Seq(Message), NEW n \in Nat,
           NEW m \in Message, m.num = 604, Kept(s \o (<<m>> \o t), n)
    PROVE  Kept(s \o t, n)
<1> DEFINE old == s \o (<<m>> \o t)
           new == s \o t
           Was(k) == IF k <= Len(s) THEN k ELSE k + 1
           O == {k \in DOMAIN old : old[k].num = 600}
           N == {k \in DOMAIN new : new[k].num = 600}
<1>0. Len(s) \in Nat /\ Len(t) \in Nat
  OBVIOUS
<1>1. /\ <<m>> \o t \in Seq(Message) /\ Len(<<m>> \o t) = Len(t) + 1
      /\ (<<m>> \o t)[1] = m
      /\ \A k \in 1..Len(t) : (<<m>> \o t)[k + 1] = t[k]
  OBVIOUS
<1>2. /\ old \in Seq(Message) /\ Len(old) = Len(s) + Len(t) + 1
      /\ \A k \in 1..Len(s) : old[k] = s[k]
      /\ old[Len(s) + 1] = m
      /\ \A k \in 1..Len(t) : old[Len(s) + k + 1] = t[k]
  BY <1>0, <1>1
<1>3. /\ new \in Seq(Message) /\ Len(new) = Len(s) + Len(t)
      /\ \A k \in 1..Len(s) : new[k] = s[k]
      /\ \A k \in 1..Len(t) : new[Len(s) + k] = t[k]
  BY <1>0
<1>4. DOMAIN old = 1..(Len(s) + Len(t) + 1) /\ DOMAIN new = 1..(Len(s) + Len(t))
  BY <1>2, <1>3
<1>5. \A k \in DOMAIN new : Was(k) \in DOMAIN old /\ new[k] = old[Was(k)]
  <2> SUFFICES ASSUME NEW k \in DOMAIN new
               PROVE  Was(k) \in DOMAIN old /\ new[k] = old[Was(k)]
    OBVIOUS
  <2>1. CASE k <= Len(s)
    BY <1>0, <1>2, <1>3, <1>4, <2>1
  <2>2. CASE k > Len(s)
    <3> DEFINE l == k - Len(s)
    <3>1. l \in 1..Len(t) /\ k = Len(s) + l
      BY <1>0, <1>4, <2>2
    <3>2. new[Len(s) + l] = t[l] /\ old[Len(s) + l + 1] = t[l]
      BY SMTT(40), <1>2, <1>3, <3>1
    <3>3. Was(k) = Len(s) + l + 1
      BY <1>0, <1>4, <2>2, <3>1
    <3> HIDE DEF l
    <3>4. new[k] = old[Was(k)]
      BY <3>1, <3>2, <3>3
    <3>5. Was(k) \in DOMAIN old
      BY <1>0, <1>4, <3>1, <3>3
    <3> QED BY <3>4, <3>5
  <2> QED BY <1>0, <1>4, <2>1, <2>2
<1>6. \A j \in DOMAIN old : j # Len(s) + 1 => \E k \in DOMAIN new : Was(k) = j
  <2> SUFFICES ASSUME NEW j \in DOMAIN old, j # Len(s) + 1
               PROVE  \E k \in DOMAIN new : Was(k) = j
    OBVIOUS
  <2>1. CASE j <= Len(s)
    BY <1>0, <1>4, <2>1
  <2>2. CASE j > Len(s) + 1
    <3>1. j - 1 \in DOMAIN new /\ Was(j - 1) = j
      BY <1>0, <1>4, <2>2
    <3> QED BY <3>1
  <2> QED BY <1>0, <1>4, <2>1, <2>2
<1>7. \A i, j \in DOMAIN new : i < j => Was(i) < Was(j)
  BY <1>0, <1>4
<1> HIDE DEF old, new, Was
<1>8. \A k \in N : Was(k) \in O /\ new[k].id = old[Was(k)].id
  BY <1>5
<1>9. Len(s) + 1 \notin O
  BY <1>2
<1>10. \A j \in O : \E k \in N : Was(k) = j
  BY <1>5, <1>6, <1>9
<1> HIDE DEF O, N
<1>11. /\ \A i, j \in O : i < j => old[i].id < old[j].id
       /\ {old[k].id : k \in O} = 1..n
  BY DEF Kept, old, O
<1>12. \A i, j \in N : i < j => new[i].id < new[j].id
  <2>1. N \subseteq DOMAIN new
    BY DEF N
  <2> QED BY <1>7, <1>8, <1>11, <2>1
<1>13. {new[k].id : k \in N} = {old[k].id : k \in O}
  BY <1>8, <1>10
<1> QED BY <1>11, <1>12, <1>13 DEF Kept, new, N

-----------------------------------------------------------------------------
(* Moving messages from one buffer to the next.                             *)

LEMMA Regroup ==
    ASSUME NEW a \in Seq(Message), NEW b \in Seq(Message), NEW c \in Seq(Message)
    PROVE  (a \o b) \o c = a \o (b \o c)
BY ConcatAssociative

LEMMA EmptyEnd ==
    ASSUME NEW a \in Seq(Message)
    PROVE  a \o <<>> = a /\ <<>> \o a = a
OBVIOUS

\* Append is a concatenation with one message.
LEMMA MessageAppended ==
    ASSUME NEW a \in Seq(Message), NEW m \in Message
    PROVE  Append(a, m) = a \o <<m>> /\ <<m>> \in Seq(Message)
OBVIOUS

\* A message appended to the last buffer is appended to them all.
LEMMA AppendLast ==
    ASSUME NEW a \in Seq(Message), NEW b \in Seq(Message), NEW m \in Message
    PROVE  a \o Append(b, m) = Append(a \o b, m)
<1>1. a \o b \in Seq(Message) /\ <<m>> \in Seq(Message)
  OBVIOUS
<1> QED BY <1>1, MessageAppended, Regroup

LEMMA HeadTail ==
    ASSUME NEW b \in Seq(Message), b # <<>>
    PROVE  /\ Head(b) \in Message /\ Tail(b) \in Seq(Message)
           /\ b = <<Head(b)>> \o Tail(b)
OBVIOUS

\* The front message of one buffer goes to the end of the buffer before it.
LEMMA HeadMoved ==
    ASSUME NEW a \in Seq(Message), NEW b \in Seq(Message), NEW c \in Seq(Message), b # <<>>
    PROVE  Append(a, Head(b)) \o (Tail(b) \o c) = a \o (b \o c)
<1> DEFINE h == <<Head(b)>>
<1>1. Head(b) \in Message /\ Tail(b) \in Seq(Message) /\ b = h \o Tail(b)
  BY HeadTail
<1>2. Append(a, Head(b)) = a \o h /\ h \in Seq(Message)
  BY <1>1, MessageAppended
<1>3. Tail(b) \o c \in Seq(Message)
  BY <1>1
<1> HIDE DEF h
<1>4. (a \o h) \o (Tail(b) \o c) = a \o (h \o (Tail(b) \o c))
  BY <1>2, <1>3, Regroup
<1>5. h \o (Tail(b) \o c) = (h \o Tail(b)) \o c
  BY <1>1, <1>2, Regroup
<1> QED BY <1>1, <1>2, <1>4, <1>5

-----------------------------------------------------------------------------
(* The parts of the path.                                                   *)

Done == [k \in DOMAIN handled |-> Request(handled[k])]

LEMMA DoneTyped == Types => Done \in Seq(Message) /\ Len(Done) = Len(handled)
<1> SUFFICES ASSUME Types PROVE Done \in Seq(Message) /\ Len(Done) = Len(handled)
  OBVIOUS
<1>1. DOMAIN handled = 1..Len(handled) /\ Len(handled) \in Nat
  BY DEF Types
<1>2. \A k \in 1..Len(handled) : Request(handled[k]) \in Message
  BY DEF Types, Request, Message
<1> QED BY <1>1, <1>2 DEF Done

\* Handing on a request puts its message at the end of what was handled.
LEMMA DoneGrows ==
    ASSUME Types, NEW id \in Nat, handled' = Append(handled, id)
    PROVE  Done' = Append(Done, Request(id))
<1>1. DOMAIN handled = 1..Len(handled) /\ Len(handled) \in Nat /\ handled \in Seq(Nat)
  BY DEF Types
<1>2. /\ DOMAIN handled' = 1..(Len(handled) + 1)
      /\ \A k \in 1..Len(handled) : handled'[k] = handled[k]
      /\ handled'[Len(handled) + 1] = id
  BY <1>1
<1>3. Done \in Seq(Message) /\ Len(Done) = Len(handled)
  BY DoneTyped
<1>4. Request(id) \in Message
  BY DEF Request, Message
<1> DEFINE longer == Append(Done, Request(id))
<1>5. /\ longer \in Seq(Message) /\ Len(longer) = Len(handled) + 1
      /\ longer[Len(handled) + 1] = Request(id)
      /\ \A k \in 1..Len(handled) : longer[k] = Done[k]
  BY <1>1, <1>3, <1>4
<1>6. \A k \in 1..Len(handled) : Done[k] = Request(handled[k])
  BY <1>1 DEF Done
<1>7. DOMAIN longer = 1..(Len(handled) + 1) /\ longer = [k \in DOMAIN longer |-> longer[k]]
  <2> HIDE DEF longer
  <2> QED BY <1>5
<1> HIDE DEF longer
<1>8. \A k \in 1..(Len(handled) + 1) : longer[k] = Request(handled'[k])
  BY <1>1, <1>2, <1>5, <1>6
<1>9. Done' = [k \in 1..(Len(handled) + 1) |-> Request(handled'[k])]
  BY <1>2 DEF Done, Request
<1> QED BY <1>7, <1>8, <1>9 DEF longer

LEMMA FrontIsMessage ==
    ASSUME NEW m \in Message, m.num = 600
    PROVE  m.id \in Nat /\ m = Request(m.id)
BY DEF Message, Request

LEMMA OtherIsAck ==
    ASSUME NEW m \in Message, m.num # 600
    PROVE  m.num = 604
BY DEF Message

-----------------------------------------------------------------------------
(* Every action keeps the invariant.                                        *)

LEMMA SendRequestKeeps == IInv /\ SendRequest => IInv'
<1> SUFFICES ASSUME IInv, SendRequest PROVE IInv'
  OBVIOUS
<1> DEFINE r == Request(sent + 1)
<1>1. Types /\ r \in Message /\ Done \in Seq(Message)
  BY DoneTyped DEF IInv, Types, Request, Message
<1>2. stdin' = Append(stdin, r) /\ sent' = sent + 1
  BY DEF SendRequest
<1>3. UNCHANGED <<messages, mine, handled, waiting>>
  BY DEF SendRequest
<1> HIDE DEF r
<1>4. Types'
  BY <1>1, <1>2, <1>3 DEF Types
<1>5. Path' = Append(Path, r)
  <2>1. /\ stdin \in Seq(Message) /\ mine \in Seq(Message) /\ messages \in Seq(Message)
        /\ mine \o stdin \in Seq(Message) /\ messages \o (mine \o stdin) \in Seq(Message)
    BY <1>1 DEF Types
  <2>2. mine \o Append(stdin, r) = Append(mine \o stdin, r)
    BY <1>1, <2>1, AppendLast
  <2>3. messages \o Append(mine \o stdin, r) = Append(messages \o (mine \o stdin), r)
    BY <1>1, <2>1, AppendLast
  <2>4. Done \o Append(messages \o (mine \o stdin), r)
          = Append(Done \o (messages \o (mine \o stdin)), r)
    BY <1>1, <2>1, AppendLast
  <2>5. Path = Done \o (messages \o (mine \o stdin))
    BY DEF Path, Done
  <2>6. Path' = Done \o (messages \o (mine \o Append(stdin, r)))
    BY <1>2, <1>3 DEF Path, Done
  <2> QED BY <2>2, <2>3, <2>4, <2>5, <2>6
<1>6. Path \in Seq(Message)
  BY <1>1 DEF Types, Path, Done
<1>7. Kept(Append(Path, r), sent + 1)
  BY <1>1, <1>6, RequestAdded DEF IInv, RequestsKept, Types, r
<1> QED BY <1>2, <1>4, <1>5, <1>7 DEF IInv, RequestsKept

LEMMA AcknowledgeKeeps == IInv /\ Acknowledge => IInv'
<1> SUFFICES ASSUME IInv, Acknowledge PROVE IInv'
  OBVIOUS
<1>1. Types /\ Done \in Seq(Message)
  BY DoneTyped DEF IInv
<1>2. PICK m \in Message : m.num = 604 /\ stdin' = Append(stdin, m)
  <2>1. PICK granted \in BOOLEAN : stdin' = Append(stdin, [num |-> 604, tags |-> AckTags(granted)])
    BY DEF Acknowledge
  <2>2. AckTags(granted) \in SUBSET {"Fail", "Failed"}
    BY DEF AckTags
  <2> QED BY <2>1, <2>2 DEF Message
<1>3. UNCHANGED <<messages, mine, handled, waiting, sent>>
  BY DEF Acknowledge
<1>4. Types'
  BY <1>1, <1>2, <1>3 DEF Types
<1>5. Path' = Append(Path, m)
  <2>1. /\ stdin \in Seq(Message) /\ mine \in Seq(Message) /\ messages \in Seq(Message)
        /\ mine \o stdin \in Seq(Message) /\ messages \o (mine \o stdin) \in Seq(Message)
    BY <1>1 DEF Types
  <2>2. mine \o Append(stdin, m) = Append(mine \o stdin, m)
    BY <2>1, AppendLast
  <2>3. messages \o Append(mine \o stdin, m) = Append(messages \o (mine \o stdin), m)
    BY <2>1, AppendLast
  <2>4. Done \o Append(messages \o (mine \o stdin), m)
          = Append(Done \o (messages \o (mine \o stdin)), m)
    BY <1>1, <2>1, AppendLast
  <2>5. Path = Done \o (messages \o (mine \o stdin))
    BY DEF Path, Done
  <2>6. Path' = Done \o (messages \o (mine \o Append(stdin, m)))
    BY <1>2, <1>3 DEF Path, Done
  <2> QED BY <2>2, <2>3, <2>4, <2>5, <2>6
<1>6. Path \in Seq(Message)
  BY <1>1 DEF Types, Path, Done
<1>7. Kept(Append(Path, m), sent)
  BY <1>1, <1>2, <1>6, AckAdded DEF IInv, RequestsKept, Types
<1> QED BY <1>3, <1>4, <1>5, <1>7 DEF IInv, RequestsKept

LEMMA ReadKeeps == IInv /\ Read => IInv'
<1> SUFFICES ASSUME IInv, Read PROVE IInv'
  OBVIOUS
<1>1. Types /\ mine = <<>> /\ messages = <<>>
  BY DEF IInv, Read, Types
<1>2. messages' = stdin /\ stdin' = <<>> /\ UNCHANGED <<mine, handled, waiting, sent>>
  BY DEF Read
<1>3. Types'
  BY <1>1, <1>2 DEF Types
<1>4. messages \o (mine \o stdin) = stdin /\ (messages \o (mine \o stdin))' = stdin
  BY <1>1, <1>2, EmptyEnd DEF Types
<1>5. Path' = Path
  BY <1>2, <1>4 DEF Path
<1> QED BY <1>2, <1>3, <1>5 DEF IInv, RequestsKept

LEMMA HandleKeeps == IInv /\ Handle => IInv'
<1> SUFFICES ASSUME IInv, Handle PROVE IInv'
  OBVIOUS
<1> DEFINE m == Head(messages)
           rest == mine \o stdin
<1>1. Types /\ Done \in Seq(Message) /\ rest \in Seq(Message) /\ sent \in Nat
  BY DoneTyped DEF IInv, Types
<1>2. /\ messages \in Seq(Message) /\ m \in Message /\ Tail(messages) \in Seq(Message)
      /\ messages = <<m>> \o Tail(messages)
  BY <1>1, HeadTail DEF Handle, Types
<1>3. messages' = Tail(messages) /\ UNCHANGED <<stdin, mine, waiting, sent>>
  BY DEF Handle
<1>4. rest' = rest
  BY <1>3
<1>5. Path = Done \o (messages \o rest) /\ Path' = Done' \o (Tail(messages) \o rest)
  BY <1>3 DEF Path, Done
<1>6. messages # <<>>
  BY DEF Handle
<1>7. CASE m.num = 600
  <2>1. m.id \in Nat /\ m = Request(m.id)
    BY <1>2, <1>7, FrontIsMessage
  <2>2. handled' = Append(handled, m.id)
    BY <1>7 DEF Handle
  <2>3. Types'
    BY <1>1, <1>2, <1>3, <2>1, <2>2 DEF Types
  <2>4. Done' = Append(Done, m)
    BY <1>1, <2>1, <2>2, DoneGrows
  <2> HIDE DEF rest
  <2>5. Path' = Path
    BY <1>1, <1>2, <1>5, <1>6, <2>4, HeadMoved
  <2> QED BY <1>3, <2>3, <2>5 DEF IInv, RequestsKept
<1>8. CASE m.num # 600
  <2>1. m.num = 604
    BY <1>2, <1>8, OtherIsAck
  <2>2. UNCHANGED handled
    BY <1>8 DEF Handle
  <2>3. Types'
    BY <1>1, <1>2, <1>3, <2>2 DEF Types
  <2>4. Done' = Done
    BY <2>2 DEF Done
  <2> HIDE DEF rest, m
  <2>5. <<m>> \in Seq(Message) /\ Tail(messages) \o rest \in Seq(Message)
    BY <1>1, <1>2
  <2>6. messages \o rest = <<m>> \o (Tail(messages) \o rest)
    BY <1>1, <1>2, <2>5, Regroup
  <2>7. Kept(Done \o (<<m>> \o (Tail(messages) \o rest)), sent)
    BY <1>5, <2>6 DEF IInv, RequestsKept
  <2>8. Kept(Done \o (Tail(messages) \o rest), sent)
    BY <1>1, <1>2, <2>1, <2>5, <2>7, AckTaken
  <2> QED BY <1>3, <1>5, <2>3, <2>4, <2>8 DEF IInv, RequestsKept
<1> QED BY <1>7, <1>8

LEMMA WaitForAckKeeps == IInv /\ WaitForAck => IInv'
<1> SUFFICES ASSUME IInv, WaitForAck PROVE IInv'
  OBVIOUS
<1> DEFINE got == mine \o stdin
           m   == Head(got)
<1>1. Types /\ Done \in Seq(Message) /\ messages \in Seq(Message) /\ sent \in Nat
  BY DoneTyped DEF IInv, Types
<1>2. got \in Seq(Message) /\ got # <<>>
  BY <1>1 DEF Types, WaitForAck
<1>3. Path = Done \o (messages \o got)
  BY DEF Path, Done
<1>4. stdin' = <<>> /\ UNCHANGED <<handled, sent>> /\ waiting
  BY DEF WaitForAck
<1>5. Path' = Done \o (messages' \o (mine' \o <<>>))
  BY <1>4 DEF Path, Done
<1>6. m.num = 604 => messages' = messages \o Tail(got) /\ mine' = <<>>
  BY DEF WaitForAck
<1>7. m.num # 604 => messages' = Append(messages, m) /\ mine' = Tail(got) /\ UNCHANGED waiting
  BY DEF WaitForAck
<1> HIDE DEF got
<1>8. m \in Message /\ Tail(got) \in Seq(Message) /\ got = <<m>> \o Tail(got)
  BY <1>2, HeadTail
<1>9. CASE m.num = 604
  <2>1. Types'
    <3>1. messages' \in Seq(Message) /\ mine' \in Seq(Message) /\ stdin' \in Seq(Message)
      <4>1. messages \o Tail(got) \in Seq(Message) /\ <<>> \in Seq(Message)
        BY <1>1, <1>8
      <4> QED BY <1>4, <1>8, <1>6, <1>9, <4>1
    <3>2. handled' \in Seq(Nat) /\ sent' \in Nat /\ mine' = <<>>
      BY <1>1, <1>4, <1>6, <1>9 DEF Types
    <3> QED BY <3>1, <3>2 DEF Types
  <2>2. /\ Done \o messages \in Seq(Message) /\ messages \o Tail(got) \in Seq(Message)
        /\ <<m>> \o Tail(got) \in Seq(Message)
    BY <1>1, <1>2, <1>8
  <2>3. Path = (Done \o messages) \o (<<m>> \o Tail(got))
    BY <1>1, <1>2, <1>3, <1>8, Regroup
  <2>4. Kept((Done \o messages) \o Tail(got), sent)
    BY <1>1, <1>8, <1>9, <2>2, <2>3, AckTaken DEF IInv, RequestsKept
  <2>5. Path' = Done \o ((messages \o Tail(got)) \o (<<>> \o <<>>))
    BY <1>5, <1>6, <1>9
  <2>6. <<>> \o <<>> = <<>> /\ (messages \o Tail(got)) \o <<>> = messages \o Tail(got)
    <3>1. <<>> \in Seq(Message)
      OBVIOUS
    <3> QED BY <2>2, <3>1, EmptyEnd
  <2>7. Path' = (Done \o messages) \o Tail(got)
    <3>1. Path' = Done \o (messages \o Tail(got))
      BY <2>5, <2>6
    <3>2. (Done \o messages) \o Tail(got) = Done \o (messages \o Tail(got))
      BY <1>1, <1>8, Regroup
    <3> QED BY <3>1, <3>2
  <2> QED BY <1>4, <2>1, <2>4, <2>7 DEF IInv, RequestsKept
<1>10. CASE m.num # 604
  <2>1. Types'
    <3>1. messages' \in Seq(Message) /\ mine' \in Seq(Message) /\ stdin' \in Seq(Message)
      <4>1. Append(messages, m) \in Seq(Message) /\ <<>> \in Seq(Message)
        BY <1>1, <1>8
      <4> QED BY <1>4, <1>8, <1>7, <1>10, <4>1
    <3>2. handled' \in Seq(Nat) /\ sent' \in Nat /\ waiting'
      BY <1>1, <1>4, <1>7, <1>10 DEF Types
    <3> QED BY <3>1, <3>2 DEF Types
  <2>2. <<>> \in Seq(Message)
    OBVIOUS
  <2>3. Append(messages, m) \o (Tail(got) \o <<>>) = messages \o (got \o <<>>)
    BY <1>1, <1>2, <2>2, HeadMoved
  <2>4. got \o <<>> = got
    BY <1>2, EmptyEnd
  <2>5. Path' = Path
    BY <1>3, <1>5, <1>7, <1>10, <2>3, <2>4
  <2> QED BY <1>4, <2>1, <2>5 DEF IInv, RequestsKept
<1> QED BY <1>9, <1>10

\* Asking, answering and standing still do not touch the path.
LEMMA OthersKeep == IInv /\ (Ask \/ Answer \/ UNCHANGED vars) => IInv'
<1> SUFFICES ASSUME IInv, Ask \/ Answer \/ UNCHANGED vars PROVE IInv'
  OBVIOUS
<1>1. UNCHANGED <<stdin, messages, handled, sent, mine>> /\ (~waiting' => ~waiting)
  BY DEF IInv, Types, Ask, Answer, vars
<1>2. Types' /\ Path' = Path
  BY <1>1 DEF IInv, Types, Path
<1> QED BY <1>1, <1>2 DEF IInv, RequestsKept

-----------------------------------------------------------------------------
\* The wait for an acknowledgement loses and reorders no request: the requests
\* pkgAcqMethod has handed on and those still to be read are the ones apt sent, in
\* the order it sent them, for every number of requests, window and questions.
THEOREM AckKeepsRequests == Spec => []RequestsKept
<1>1. Init => IInv
  <2> SUFFICES ASSUME Init PROVE IInv
    OBVIOUS
  <2>1. Types
    BY DEF Init, Types
  <2>2. Path = <<>>
    BY DEF Init, Path
  <2>3. Kept(<<>>, 0)
    BY DEF Kept
  <2> QED BY <2>1, <2>2, <2>3 DEF Init, IInv, RequestsKept
<1>2. IInv /\ [Next]_vars => IInv'
  BY SendRequestKeeps, AcknowledgeKeeps, ReadKeeps, HandleKeeps, WaitForAckKeeps,
     OthersKeep DEF Next, MethodStep
<1>3. IInv => RequestsKept
  BY DEF IInv
<1> QED BY <1>1, <1>2, <1>3, PTL DEF Spec
=============================================================================
