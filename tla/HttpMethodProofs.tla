---------------------------- MODULE HttpMethodProofs ----------------------------
(***************************************************************************)
(* The http method keeps in step with the server it asks for several files *)
(* at once, writes to each file only bytes of that file, and tells the     *)
(* truth about them: for all items, URIs, hosts, plans and pipeline depths *)
(* and every site that is sane.                                            *)
(*                                                                         *)
(* The invariant has two parts.  Books says what the queue, the files and  *)
(* what has been told of the items have to do with what apt asked for.     *)
(* Stage says, for each place of the loop, what flows: that the tokens in  *)
(* the buffer and on the wire are the rest of the reply to the head of the *)
(* queue and replies to the elements after it, in order, up to where the   *)
(* connection is cut.                                                      *)
(***************************************************************************)
EXTENDS HttpMethod, SequenceTheorems, WellFoundedInduction, TLAPS

-----------------------------------------------------------------------------
(* Sequences, and the folds that FlattenSeq and FoldLeft are.               *)

\* Induction over the natural numbers, for a set.
LEMMA NatSet ==
    ASSUME NEW S, 0 \in S, \A n \in Nat : n \in S => n + 1 \in S
    PROVE  Nat \subseteq S
<1> SUFFICES ASSUME Nat \ S # {} PROVE FALSE
    OBVIOUS
<1> DEFINE R == OpToRel(<, Nat)
<1>1. IsWellFoundedOn(R, Nat)
    BY NatLessThanWellFounded
<1>2. PICK x \in Nat \ S : \A y \in Nat \ S : <<y, x>> \notin R
    BY <1>1, WFMin
<1>3. \A y \in Nat : y < x => <<y, x>> \in R
    BY DEF OpToRel
<1>4. x # 0
    OBVIOUS
<1>5. x - 1 \in Nat /\ x - 1 < x
    BY <1>4
<1>6. x - 1 \in S
    BY <1>2, <1>3, <1>5
<1>7. x \in S
    BY <1>5, <1>6
<1> QED BY <1>7

\* The function FlattenSeq is written with exists.
LEMMA FlattenExists ==
    ASSUME NEW ss, NEW N \in Nat
    PROVE  \E f : f = [i \in 1..N |-> IF i = 1 THEN ss[i] ELSE f[i - 1] \o ss[i]]
<1> DEFINE Is(f, n) == \A i \in 1..n : f[i] = IF i = 1 THEN ss[i] ELSE f[i - 1] \o ss[i]
           S == {n \in Nat : \E f : Is(f, n)}
<1>1. 0 \in S
  OBVIOUS
<1>2. ASSUME NEW n \in Nat, n \in S
      PROVE  n + 1 \in S
  <2>1. PICK f : Is(f, n)
    BY <1>2
  <2> DEFINE g == [i \in 1..(n + 1) |-> IF i = n + 1 THEN IF i = 1 THEN ss[i] ELSE f[n] \o ss[i]
                                       ELSE f[i]]
  <2>2. Is(g, n + 1)
    BY <2>1
  <2> HIDE DEF g
  <2>3. \E f1 : Is(f1, n + 1)
    BY <2>2
  <2> HIDE DEF Is
  <2> QED
    BY <2>3
<1>3. Nat \subseteq S
  <2> HIDE DEF S
  <2> QED
    BY <1>1, <1>2, NatSet
<1>4. PICK f : Is(f, N)
  BY <1>3
<1> DEFINE g == [i \in 1..N |-> f[i]]
<1>5. g = [i \in 1..N |-> IF i = 1 THEN ss[i] ELSE g[i - 1] \o ss[i]]
  BY <1>4
<1> QED
  BY <1>5

\* What FlattenSeq returns is the last of a chain of concatenations.
LEMMA FlatStep ==
    ASSUME NEW ss, NEW n \in Nat, Len(ss) = n, n > 0
    PROVE  \E f : /\ f[1] = ss[1]
                  /\ \A i \in 2..n : f[i] = f[i - 1] \o ss[i]
                  /\ FlattenSeq(ss) = f[n]
<1> DEFINE Def(f) == f = [i \in 1..Len(ss) |-> IF i = 1 THEN ss[i] ELSE f[i - 1] \o ss[i]]
           c == CHOOSE f : Def(f)
<1>1. \E f : Def(f)
  BY FlattenExists
<1>2. Def(c)
  <2> HIDE DEF Def
  <2> QED
    BY <1>1
<1>3. FlattenSeq(ss) = c[n]
  BY DEF FlattenSeq
<1>4. \A i \in 1..n : c[i] = IF i = 1 THEN ss[i] ELSE c[i - 1] \o ss[i]
  <2> HIDE DEF c
  <2> QED
    BY <1>2
<1> HIDE DEF c
<1>5. c[1] = ss[1]
  BY <1>4
<1>6. ASSUME NEW i \in 2..n PROVE c[i] = c[i - 1] \o ss[i]
  <2>1. i \in 1..n /\ i # 1
    OBVIOUS
  <2> QED
    BY <1>4, <2>1
<1> QED
  BY <1>3, <1>5, <1>6

\* Nothing flattens to nothing.
LEMMA FlatEmpty == FlattenSeq(<<>>) = <<>>
  BY DEF FlattenSeq

\* Flattening one more sequence.
LEMMA FlatAppend ==
    ASSUME NEW T, NEW ss \in Seq(Seq(T)), NEW x \in Seq(T)
    PROVE  /\ FlattenSeq(ss) \in Seq(T)
           /\ FlattenSeq(Append(ss, x)) = FlattenSeq(ss) \o x
<1>1. ASSUME NEW s \in Seq(Seq(T)), NEW f,
             f[1] = s[1],
             \A i \in 2..Len(s) : f[i] = f[i - 1] \o s[i]
      PROVE  \A i \in 1..Len(s) : f[i] \in Seq(T)
  <2> DEFINE S == {n \in Nat : n \in 1..Len(s) => f[n] \in Seq(T)}
  <2>1. 0 \in S
    OBVIOUS
  <2>2. ASSUME NEW n \in Nat, n \in S PROVE n + 1 \in S
    <3> SUFFICES ASSUME n + 1 \in 1..Len(s) PROVE f[n + 1] \in Seq(T)
      OBVIOUS
    <3>1. s[n + 1] \in Seq(T)
      OBVIOUS
    <3>3. CASE n = 0
      BY <1>1, <3>1, <3>3
    <3>4. CASE n # 0
      <4>1. f[n] \in Seq(T)
        BY <2>2, <3>4
      <4>2. n + 1 \in 2..Len(s) /\ (n + 1) - 1 = n
        BY <3>4
      <4>3. f[n + 1] = f[n] \o s[n + 1]
        BY <1>1, <4>2
      <4> QED
        BY <3>1, <4>1, <4>3, ConcatProperties
    <3> QED
      BY <3>3, <3>4
  <2> HIDE DEF S
  <2>3. Nat \subseteq S
    BY <2>1, <2>2, NatSet
  <2> QED
    BY <2>3 DEF S
<1>2. CASE ss = <<>>
  <2>1. Append(ss, x) = <<x>> /\ Len(<<x>>) = 1 /\ 1 > 0 /\ 1 \in Nat
    BY <1>2
  <2>2. FlattenSeq(<<x>>) = x
    <3>1. \E f : f[1] = <<x>>[1] /\ FlattenSeq(<<x>>) = f[1]
      BY <2>1, FlatStep
    <3> QED
      BY <3>1
  <2> QED
    BY <1>2, <2>1, <2>2, FlatEmpty, ConcatEmptySeq, EmptySeq
<1>3. CASE ss # <<>>
  <2> DEFINE n == Len(ss)
             tt == Append(ss, x)
  <2>1. n \in Nat /\ n > 0 /\ Len(tt) = n + 1 /\ tt \in Seq(Seq(T))
    BY <1>3
  <2>2. tt[n + 1] = x /\ \A i \in 1..n : tt[i] = ss[i]
    OBVIOUS
  <2>3. PICK f : /\ f[1] = ss[1]
                 /\ \A i \in 2..n : f[i] = f[i - 1] \o ss[i]
                 /\ FlattenSeq(ss) = f[n]
    BY <2>1, FlatStep
  <2>4. PICK g : /\ g[1] = tt[1]
                 /\ \A i \in 2..(n + 1) : g[i] = g[i - 1] \o tt[i]
                 /\ FlattenSeq(tt) = g[n + 1]
    <3>1. n + 1 \in Nat /\ n + 1 > 0
      BY <2>1
    <3> HIDE DEF tt, n
    <3> QED
      BY <2>1, <3>1, FlatStep
  <2>5. \A i \in 1..n : f[i] \in Seq(T)
    BY <1>1, <2>1, <2>3
  <2>6. \A i \in 1..n : f[i] = g[i]
    <3> DEFINE S == {i \in Nat : i \in 1..n => f[i] = g[i]}
    <3>1. 0 \in S
      OBVIOUS
    <3>2. ASSUME NEW i \in Nat, i \in S PROVE i + 1 \in S
      <4> SUFFICES ASSUME i + 1 \in 1..n PROVE f[i + 1] = g[i + 1]
        OBVIOUS
      <4>0. (i + 1) - 1 = i /\ (i # 0 => i + 1 \in 2..n /\ i + 1 \in 2..(n + 1))
        OBVIOUS
      <4>1. i # 0 => f[i + 1] = f[i] \o ss[i + 1]
        BY <2>3, <4>0
      <4>2. i # 0 => g[i + 1] = g[i] \o tt[i + 1]
        BY <2>4, <4>0
      <4>3. i # 0 => f[i] = g[i]
        BY <3>2
      <4>4. tt[i + 1] = ss[i + 1]
        BY <2>2
      <4> HIDE DEF tt
      <4>5. CASE i = 0
        BY <2>3, <2>4, <4>4, <4>5
      <4>6. CASE i # 0
        BY <4>1, <4>2, <4>3, <4>4, <4>6
      <4> QED
        BY <4>5, <4>6
    <3> HIDE DEF S
    <3>3. Nat \subseteq S
      BY <3>1, <3>2, NatSet
    <3> QED
      BY <3>3 DEF S
  <2>7. g[n + 1] = g[n] \o x
    <3>1. n + 1 \in 2..(n + 1) /\ (n + 1) - 1 = n
      BY <2>1
    <3>2. g[n + 1] = g[n] \o tt[n + 1]
      BY <2>4, <3>1
    <3> QED
      BY <2>2, <3>2
  <2>8. f[n] = g[n] /\ f[n] \in Seq(T)
    BY <2>1, <2>5, <2>6
  <2> HIDE DEF tt, n
  <2>9. FlattenSeq(tt) = FlattenSeq(ss) \o x /\ FlattenSeq(ss) \in Seq(T)
    BY <2>3, <2>4, <2>7, <2>8
  <2> QED
    BY <2>9 DEF tt
<1> QED
  BY <1>2, <1>3

\* FlattenSeq takes the concatenation of lists to that of their flattenings.
LEMMA FlatConcat ==
    ASSUME NEW T, NEW ss \in Seq(Seq(T)), NEW tt \in Seq(Seq(T))
    PROVE  FlattenSeq(ss \o tt) = FlattenSeq(ss) \o FlattenSeq(tt)
<1> DEFINE S == {n \in Nat : \A us \in Seq(Seq(T)) :
                     Len(us) = n => FlattenSeq(ss \o us) = FlattenSeq(ss) \o FlattenSeq(us)}
<1>0. FlattenSeq(ss) \in Seq(T)
  BY FlatAppend, EmptySeq
<1>1. 0 \in S
  <2> SUFFICES ASSUME NEW us \in Seq(Seq(T)), Len(us) = 0
               PROVE  FlattenSeq(ss \o us) = FlattenSeq(ss) \o FlattenSeq(us)
    OBVIOUS
  <2>1. us = <<>> /\ ss \o us = ss
    BY ConcatEmptySeq
  <2> QED
    BY <1>0, <2>1, FlatEmpty, ConcatEmptySeq
<1>2. ASSUME NEW n \in Nat, n \in S PROVE n + 1 \in S
  <2> SUFFICES ASSUME NEW us \in Seq(Seq(T)), Len(us) = n + 1
               PROVE  FlattenSeq(ss \o us) = FlattenSeq(ss) \o FlattenSeq(us)
    OBVIOUS
  <2> DEFINE vs == SubSeq(us, 1, n)
             x  == us[n + 1]
  <2>1. vs \in Seq(Seq(T)) /\ Len(vs) = n /\ x \in Seq(T) /\ us = Append(vs, x)
    OBVIOUS
  <2> HIDE DEF vs, x
  <2>2. ss \o vs \in Seq(Seq(T)) /\ ss \o us = Append(ss \o vs, x)
    BY <2>1
  <2>3. FlattenSeq(ss \o vs) = FlattenSeq(ss) \o FlattenSeq(vs)
    BY <1>2, <2>1
  <2>4. FlattenSeq(vs) \in Seq(T) /\ FlattenSeq(us) = FlattenSeq(vs) \o x
    BY <2>1, FlatAppend
  <2>5. FlattenSeq(ss \o us) = FlattenSeq(ss \o vs) \o x
    BY <2>1, <2>2, FlatAppend
  <2> QED
    BY SMTT(30), <1>0, <2>1, <2>3, <2>4, <2>5, ConcatAssociative
<1> HIDE DEF S
<1>3. Nat \subseteq S
  BY <1>1, <1>2, NatSet
<1> QED
  BY <1>3 DEF S

\* A single sequence flattens to itself.
LEMMA FlatOne ==
    ASSUME NEW T, NEW x \in Seq(T)
    PROVE  FlattenSeq(<<x>>) = x
<1>1. <<>> \in Seq(Seq(T)) /\ Append(<<>>, x) = <<x>>
  BY EmptySeq
<1>2. FlattenSeq(<<x>>) = <<>> \o x
  BY <1>1, FlatAppend, FlatEmpty
<1> QED
  BY <1>2, ConcatEmptySeq

\* A set of positions has a last one, and it is the one the fold takes.
LEMMA MaxOf ==
    ASSUME NEW n \in Nat, NEW x \in SUBSET (1..n), n \in x
    PROVE  Max(x) = n
<1>1. \A y \in x : y \in Int /\ n >= y
  OBVIOUS
<1> DEFINE b == Max(x)
<1>2. b \in x /\ b >= n
  BY <1>1 DEF Max
<1> HIDE DEF b
<1>3. b \in Int /\ n >= b
  BY <1>1, <1>2
<1>4. b = n
  BY <1>2, <1>3
<1> QED
  BY <1>4 DEF b

\* The Max of a non-empty set of positions is one of them.
LEMMA MaxIn ==
    ASSUME NEW n \in Nat, NEW x \in SUBSET (1..n), x # {}
    PROVE  Max(x) \in x
<1> DEFINE S == {k \in Nat : \A y \in SUBSET (1..k) :
                     y # {} => \E b \in y : \A c \in y : b >= c}
<1>1. 0 \in S
  <2>1. \A y \in SUBSET (1..0) : y = {}
    OBVIOUS
  <2> QED
    BY <2>1
<1>2. ASSUME NEW k \in Nat, k \in S PROVE k + 1 \in S
  <2> SUFFICES ASSUME NEW y \in SUBSET (1..(k + 1)), y # {}
               PROVE  \E b \in y : \A c \in y : b >= c
    OBVIOUS
  <2>1. CASE k + 1 \in y
    BY <2>1
  <2>2. CASE k + 1 \notin y
    <3>1. y \in SUBSET (1..k)
      BY <2>2
    <3> QED
      BY <1>2, <3>1
  <2> QED
    BY <2>1, <2>2
<1> HIDE DEF S
<1>3. Nat \subseteq S
  BY <1>1, <1>2, NatSet
<1>4. \E b \in x : \A c \in x : b >= c
  BY <1>3 DEF S
<1> QED
  BY <1>4 DEF Max

\* The function the fold of Handle is written with, on the sets of the first n positions.
FoldsTo(f, s, ms, n) ==
    \A x \in SUBSET (1..n) :
        f[x] = IF x = {} THEN s ELSE Enqueue(f[x \ {Max(x)}], ms[Max(x)])

\* It exists.
LEMMA FoldExists ==
    ASSUME NEW s, NEW ms, NEW N \in Nat
    PROVE  \E f : FoldsTo(f, s, ms, N)
<1> DEFINE Is(f, n) == FoldsTo(f, s, ms, n)
           S == {n \in Nat : \E f : Is(f, n)}
<1>1. 0 \in S
  <2> DEFINE f == [x \in SUBSET (1..0) |-> s]
  <2>1. Is(f, 0)
    BY DEF FoldsTo
  <2> HIDE DEF f
  <2>2. \E f1 : Is(f1, 0)
    BY <2>1
  <2> HIDE DEF Is
  <2> QED
    BY <2>2
<1>2. ASSUME NEW n \in Nat, n \in S
      PROVE  n + 1 \in S
  <2>1. PICK f : Is(f, n)
    BY <1>2
  <2> DEFINE g == [x \in SUBSET (1..(n + 1)) |->
                      IF n + 1 \in x THEN Enqueue(f[x \ {n + 1}], ms[n + 1]) ELSE f[x]]
  <2>2. Is(g, n + 1)
    <3> SUFFICES ASSUME NEW x \in SUBSET (1..(n + 1))
                 PROVE  g[x] = IF x = {} THEN s ELSE Enqueue(g[x \ {Max(x)}], ms[Max(x)])
      BY DEF FoldsTo
    <3>1. CASE n + 1 \in x
      <4>1. Max(x) = n + 1
        BY <3>1, MaxOf
      <4>2. x \ {n + 1} \in SUBSET (1..(n + 1)) /\ n + 1 \notin x \ {n + 1}
        OBVIOUS
      <4>3. g[x \ {n + 1}] = f[x \ {n + 1}]
        BY <4>2
      <4> QED
        BY <3>1, <4>1, <4>3
    <3>2. CASE n + 1 \notin x
      <4>1. x \in SUBSET (1..n)
        BY <3>2
      <4>2. g[x] = f[x]
        BY <3>2
      <4>3. CASE x = {}
        BY <2>1, <4>1, <4>2, <4>3 DEF FoldsTo
      <4>4. CASE x # {}
        <5> DEFINE y == x \ {Max(x)}
        <5>1. y \in SUBSET (1..(n + 1)) /\ n + 1 \notin y
          BY <3>2
        <5>2. g[y] = f[y]
          BY <5>1
        <5>3. f[x] = Enqueue(f[y], ms[Max(x)])
          BY <2>1, <4>1, <4>4 DEF FoldsTo
        <5> HIDE DEF g
        <5> QED
          BY <4>2, <4>4, <5>2, <5>3
      <4> QED
        BY <4>3, <4>4
    <3> QED
      BY <3>1, <3>2
  <2> HIDE DEF g
  <2>3. \E f1 : Is(f1, n + 1)
    BY <2>2
  <2> HIDE DEF Is
  <2> QED
    BY <2>3
<1>3. Nat \subseteq S
  <2> HIDE DEF S
  <2> QED
    BY <1>1, <1>2, NatSet
<1>4. PICK f : Is(f, N)
  BY <1>3
<1> QED
  BY <1>4

\* If the n-th message takes a member of G[n - 1] to one of G[n], Run ends in the last.
LEMMA HandleStays ==
    ASSUME NEW Q, NEW G, NEW s, NEW ms \in Seq(Q), s \in G[0],
           \A n \in 1..Len(ms) : \A t \in G[n - 1] : Enqueue(t, ms[n]) \in G[n]
    PROVE  Handle(s, ms) \in G[Len(ms)]
<1>0. PICK N \in Nat : N = Len(ms) /\ DOMAIN ms = 1..N
  OBVIOUS
<1> DEFINE Def(f) == f = [x \in SUBSET (1..N) |->
                             IF x = {} THEN s ELSE Enqueue(f[x \ {Max(x)}], ms[Max(x)])]
           c == CHOOSE f : Def(f)
<1>1. Handle(s, ms) = c[1..N]
  BY <1>0 DEF Handle, FoldLeft, MapThenFoldSet
<1>2. \E f : Def(f)
  <2>1. PICK f : FoldsTo(f, s, ms, N)
    BY FoldExists
  <2> DEFINE g == [x \in SUBSET (1..N) |-> f[x]]
  <2>2. Def(g)
    BY <2>1 DEF FoldsTo
  <2> QED
    BY <2>2
<1>3. Def(c)
  <2> HIDE DEF Def
  <2> QED
    BY <1>2
<1> HIDE DEF c
<1>4. \A x \in SUBSET (1..N) : c[x] = IF x = {} THEN s ELSE Enqueue(c[x \ {Max(x)}], ms[Max(x)])
  BY <1>3
<1> DEFINE S == {n \in Nat : n <= N => c[1..n] \in G[n]}
<1>5. 0 \in S
  <2>1. 1..0 = {} /\ {} \in SUBSET (1..N)
    OBVIOUS
  <2>2. c[{}] = s
    BY <1>4, <2>1
  <2> QED
    BY <2>1, <2>2
<1>6. ASSUME NEW n \in Nat, n \in S PROVE n + 1 \in S
  <2> SUFFICES ASSUME n + 1 <= N
               PROVE  c[1..(n + 1)] \in G[n + 1]
    OBVIOUS
  <2> DEFINE x == 1..(n + 1)
  <2>1. x \in SUBSET (1..N) /\ x # {} /\ n + 1 \in x /\ x \ {n + 1} = 1..n
    <3>1. x \subseteq 1..N
      BY <1>0
    <3>2. n + 1 \in x
      OBVIOUS
    <3>3. x \ {n + 1} = 1..n
      OBVIOUS
    <3> QED
      BY <3>1, <3>2, <3>3
  <2>2. Max(x) = n + 1
    <3>1. x \in SUBSET (1..(n + 1)) /\ n + 1 \in Nat
      OBVIOUS
    <3> QED
      BY <2>1, <3>1, MaxOf
  <2>3. c[1..n] \in G[n]
    BY <1>6
  <2>4. c[x] = Enqueue(c[1..n], ms[n + 1])
    <3> HIDE DEF x
    <3> QED
      BY <1>4, <2>1, <2>2
  <2>5. n + 1 \in 1..Len(ms) /\ (n + 1) - 1 = n
    BY <1>0
  <2> QED
    BY <2>3, <2>4, <2>5
<1> HIDE DEF S
<1>7. Nat \subseteq S
  BY <1>5, <1>6, NatSet
<1> QED
  BY <1>0, <1>1, <1>7 DEF S

-----------------------------------------------------------------------------
(* Types.                                                                   *)

\* What may be in the queue, be asked for over a connection, be on the wire, and be told.
Queued  == [item : Item, uri : Uri]
Asking  == [uri : Uri, from : Nat]
Tokens  == [kind : {"head", "byte", "line", "zero"}, uri : Uri \cup {NoUri}, n : Nat]
Outcome == [how : {"none", "done", "ims", "failed", "transient"},
            uri : Uri \cup {NoUri}, early : BOOLEAN]

\* The method's state.
MethodType ==
    [pc : {"top", "headers", "data"}, queue : Seq(Queued), sent : Nat, host : Host \cup {NoHost},
     open : BOOLEAN, persistent : BOOLEAN, pipeline : BOOLEAN, choke : BOOLEAN,
     location : Uri \cup {NoUri}, out : Seq(Asking), in : Seq(Tokens),
     limit : Nat \cup {NoLimit}, reply : Uri \cup {NoUri}, mode : {"file", "error", "redirect"},
     phase : {"stream", "size", "block", "newline", "trailer"}, err : BOOLEAN, fails : Nat,
     early : BOOLEAN, seen : [Item -> SUBSET Uri], stop : SUBSET Item,
     file : [Item -> Seq(Tokens)], answers : [Item -> Nat], told : [Item -> Outcome]]

-----------------------------------------------------------------------------
(* Asking for what is in the queue.                                         *)

\* t is s with the messages ms in its queue, and perhaps some more of the queue asked for.
Extends(s, t, ms) ==
    /\ t \in MethodType
    /\ t = [s EXCEPT !.queue = t.queue, !.sent = t.sent, !.out = t.out, !.choke = t.choke]
    /\ t.queue = s.queue \o ms
    /\ s.sent <= t.sent /\ t.sent <= Len(t.queue)
    /\ Len(t.out) = Len(s.out) + (t.sent - s.sent)
    /\ \A k \in 1..Len(s.out) : t.out[k] = s.out[k]
    /\ \A k \in 1..(t.sent - s.sent) : t.out[Len(s.out) + k] = Request(s, t.queue[s.sent + k])
    /\ \A k \in (s.sent + 1)..t.sent : HostOf[t.queue[k].uri] = s.host

\* A non-empty set of natural numbers has a least member.
LEMMA MinIn ==
    ASSUME NEW x \in SUBSET Nat, x # {}
    PROVE  Min(x) \in x /\ \A y \in x : Min(x) <= y
<1> DEFINE S == {n \in Nat : (\E b \in x : b <= n) => \E b \in x : \A y \in x : b <= y}
<1>1. 0 \in S
  OBVIOUS
<1>2. ASSUME NEW n \in Nat, n \in S PROVE n + 1 \in S
  <2> SUFFICES ASSUME NEW b \in x, b <= n + 1
               PROVE  \E d \in x : \A y \in x : d <= y
    OBVIOUS
  <2>1. CASE \E d \in x : d <= n
    BY <1>2, <2>1
  <2>2. CASE ~\E d \in x : d <= n
    <3>1. \A y \in x : b <= y
      BY <2>2
    <3> QED
      BY <3>1
  <2> QED
    BY <2>1, <2>2
<1> HIDE DEF S
<1>3. Nat \subseteq S
  BY <1>1, <1>2, NatSet
<1>4. PICK b \in x : b \in Nat
  OBVIOUS
<1>5. b <= b
  BY <1>4
<1>6. \E d \in x : \A y \in x : d <= y
  BY <1>3, <1>4, <1>5 DEF S
<1> QED
  BY <1>6 DEF Min

\* The Max of two numbers.
LEMMA MaxOfTwo ==
    ASSUME NEW j \in Int, NEW k \in Int
    PROVE  Max({j, k}) = IF j <= k THEN k ELSE j
  BY DEF Max

\* The Min of two numbers.
LEMMA MinOfTwo ==
    ASSUME NEW j \in Int, NEW k \in Int
    PROVE  Min({j, k}) = IF j <= k THEN j ELSE k
  BY DEF Min

\* What the walk passes is in the queue, and on the host of the connection.
LEMMA WalkHosts ==
    ASSUME NEW s \in MethodType
    PROVE  LET w == Walk(s) IN
           /\ w.to \in Nat /\ w.to <= Len(s.queue) /\ w.choke \in BOOLEAN
           /\ \A k \in 1..w.to : HostOf[s.queue[k].uri] = s.host
<1> DEFINE reach   == Min({Len(s.queue), PipelineDepth + 1})
           foreign == {k \in 1..reach : HostOf[s.queue[k].uri] # s.host}
           only1   == ~s.pipeline \/ s.choke
           w       == Walk(s)
<1>1. reach \in Nat /\ reach <= Len(s.queue) /\ Len(s.queue) \in Nat
  <2>1. Len(s.queue) \in Nat /\ PipelineDepth + 1 \in Nat
    BY SiteAssumption DEF MethodType
  <2> QED
    BY <2>1, MinOfTwo
<1> HIDE DEF reach
<1>2. \A k : k \in foreign <=> k \in 1..reach /\ HostOf[s.queue[k].uri] # s.host
  OBVIOUS
<1>3. only1 \in BOOLEAN /\ s.choke \in BOOLEAN /\ s.pipeline \in BOOLEAN
  BY DEF MethodType
<1>4. w = IF foreign # {} /\ (Min(foreign) = 1 \/ ~only1) THEN [to |-> Min(foreign) - 1, choke |-> TRUE]
          ELSE IF reach > 1 /\ only1 THEN [to |-> 1, choke |-> s.choke /\ ~s.pipeline]
          ELSE [to |-> reach, choke |-> s.choke]
  BY DEF Walk, reach
<1>8. (s.choke /\ ~s.pipeline) \in BOOLEAN
  OBVIOUS
<1> HIDE DEF foreign, only1, w
<1>9. foreign # {} => /\ Min(foreign) \in 1..reach
                      /\ \A k \in foreign : Min(foreign) <= k
                      /\ Min(foreign) \in foreign
  <2>1. foreign \in SUBSET Nat
    BY <1>1, <1>2
  <2> QED
    BY <1>2, <2>1, MinIn
<1>5. CASE foreign # {} /\ (Min(foreign) = 1 \/ ~only1)
  <2>1. w.to = Min(foreign) - 1 /\ w.choke = TRUE
    BY <1>4, <1>5
  <2>2. Min(foreign) \in 1..reach
    BY <1>9, <1>5
  <2>3. \A k \in 1..w.to : k \in 1..reach /\ k \notin foreign
    BY <1>1, <1>5, <1>9, <2>1, <2>2
  <2>4. w.to \in Nat /\ w.to <= Len(s.queue)
    BY <1>1, <2>1, <2>2
  <2>5. \A k \in 1..w.to : HostOf[s.queue[k].uri] = s.host
    BY <1>2, <2>3
  <2> QED
    BY <2>1, <2>4, <2>5 DEF w
<1>6. CASE ~(foreign # {} /\ (Min(foreign) = 1 \/ ~only1)) /\ reach > 1 /\ only1
  <2>1. w.to = 1 /\ w.choke \in BOOLEAN
    BY <1>3, <1>4, <1>6, <1>8
  <2>2. 1 \in 1..reach
    BY <1>1, <1>6
  <2>3. 1 \notin foreign
    <3> SUFFICES ASSUME 1 \in foreign PROVE FALSE
      OBVIOUS
    <3>1. Min(foreign) \in 1..reach /\ Min(foreign) <= 1
      BY <1>9
    <3>2. Min(foreign) = 1
      BY <1>1, <3>1
    <3> QED
      BY <1>6, <3>2
  <2>4. \A k \in 1..w.to : k = 1
    BY <2>1
  <2>5. \A k \in 1..w.to : HostOf[s.queue[k].uri] = s.host
    BY <1>2, <2>2, <2>3, <2>4
  <2> QED
    BY <1>1, <1>6, <2>1, <2>5 DEF w
<1>7. CASE ~(foreign # {} /\ (Min(foreign) = 1 \/ ~only1)) /\ ~(reach > 1 /\ only1)
  <2>1. w.to = reach /\ w.choke = s.choke
    BY <1>4, <1>7
  <2>2. \A k \in 1..reach : k \notin foreign
    <3> SUFFICES ASSUME NEW k \in 1..reach, k \in foreign PROVE FALSE
      OBVIOUS
    <3>1. foreign # {} /\ Min(foreign) # 1 /\ only1
      BY <1>7
    <3>2. reach = 1 /\ Min(foreign) \in 1..reach
      BY <1>1, <1>9, <1>7, <3>1
    <3> QED
      BY <3>1, <3>2
  <2> QED
    BY <1>1, <1>2, <1>3, <2>1, <2>2 DEF w
<1> QED
  BY <1>3, <1>5, <1>6, <1>7

\* Nothing is asked for: a state extends itself.
LEMMA ExtendsItself ==
    ASSUME NEW s \in MethodType, s.sent <= Len(s.queue)
    PROVE  Extends(s, s, <<>>)
<1>1. s.queue \in Seq(Queued) /\ s.sent \in Nat /\ s.out \in Seq(Asking)
  BY DEF MethodType
<1>2. s = [s EXCEPT !.queue = s.queue, !.sent = s.sent, !.out = s.out, !.choke = s.choke]
  BY DEF MethodType
<1>3. s.queue \o <<>> = s.queue
  BY <1>1, ConcatEmptySeq
<1>4. s.sent - s.sent = 0 /\ 1..0 = {} /\ (s.sent + 1)..s.sent = {}
  BY <1>1
<1>5. Len(s.out) = Len(s.out) + (s.sent - s.sent)
  BY <1>1
<1> QED
  BY <1>1, <1>2, <1>3, <1>4, <1>5 DEF Extends

\* A request asks for the URI of its element of the queue.
LEMMA RequestType ==
    ASSUME NEW s \in MethodType, NEW q \in Queued
    PROVE  Request(s, q) \in Asking /\ Request(s, q).uri = q.uri
<1>1. q.item \in Item /\ q.uri \in Uri /\ s.file[q.item] \in Seq(Tokens)
  BY DEF Queued, MethodType
<1>2. s.file[q.item] # <<>> => Len(s.file[q.item]) - 1 \in Nat
  BY <1>1
<1> QED
  BY <1>1, <1>2 DEF Request, Asking

\* Fetch asks for more of the queue and changes nothing else.
LEMMA FetchExtends ==
    ASSUME NEW s \in MethodType, s.sent <= Len(s.queue)
    PROVE  Extends(s, Fetch(s), <<>>)
<1>1. CASE s.host = NoHost
  BY <1>1, ExtendsItself DEF Fetch
<1>2. CASE s.host # NoHost
  <2> DEFINE w    == Walk(s)
             more == Max({0, w.to - s.sent})
             new  == [k \in 1..more |-> Request(s, s.queue[s.sent + k])]
             t    == Fetch(s)
  <2>1. t = [s EXCEPT !.choke = w.choke, !.sent = Max({@, w.to}), !.out = @ \o new]
    BY <1>2 DEF Fetch
  <2>2. /\ w.to \in Nat /\ w.to <= Len(s.queue) /\ w.choke \in BOOLEAN
        /\ \A k \in 1..w.to : HostOf[s.queue[k].uri] = s.host
    BY WalkHosts
  <2>3. s.queue \in Seq(Queued) /\ s.sent \in Nat /\ s.out \in Seq(Asking) /\ Len(s.queue) \in Nat
        /\ Len(s.out) \in Nat
    BY DEF MethodType
  <2> HIDE DEF w
  <2>4. more \in Nat /\ more = IF w.to <= s.sent THEN 0 ELSE w.to - s.sent
    BY <2>2, <2>3, MaxOfTwo
  <2>5. Max({s.sent, w.to}) = s.sent + more
    <3>1. s.sent \in Int /\ w.to \in Int
      BY <2>2, <2>3
    <3>2. Max({s.sent, w.to}) = IF s.sent <= w.to THEN w.to ELSE s.sent
      BY <3>1, MaxOfTwo
    <3> HIDE DEF more
    <3> QED
      BY <2>4, <3>1, <3>2
  <2> HIDE DEF more
  <2>6. \A k \in 1..more : s.sent + k \in 1..w.to /\ s.queue[s.sent + k] \in Queued
    BY <2>2, <2>3, <2>4
  <2>7. \A k \in 1..more : Request(s, s.queue[s.sent + k]) \in Asking
    BY <2>6, RequestType
  <2>8. new \in Seq(Asking) /\ Len(new) = more
    BY <2>4, <2>7
  <2>9. \A k \in 1..more : new[k] = Request(s, s.queue[s.sent + k])
    OBVIOUS
  <2> HIDE DEF new
  <2>10. /\ s.out \o new \in Seq(Asking) /\ Len(s.out \o new) = Len(s.out) + more
         /\ \A k \in 1..Len(s.out) : (s.out \o new)[k] = s.out[k]
         /\ \A k \in 1..more : (s.out \o new)[Len(s.out) + k] = new[k]
    BY <2>3, <2>4, <2>8
  <2> DEFINE o == s.out \o new
  <2> HIDE DEF o
  <2>11. s.sent + more \in Nat /\ o \in Seq(Asking)
    BY <2>3, <2>4, <2>10 DEF o
  <2>12. t = [s EXCEPT !.choke = w.choke, !.sent = s.sent + more, !.out = o]
    BY <2>1, <2>5 DEF o
  <2> HIDE DEF t
  <2>13. t.sent = s.sent + more /\ t.out = o /\ t.queue = s.queue /\ t.choke = w.choke
    BY <2>12 DEF MethodType
  <2>14. t \in MethodType
    BY <2>2, <2>11, <2>12 DEF MethodType
  <2>15. t = [s EXCEPT !.queue = t.queue, !.sent = t.sent, !.out = t.out, !.choke = t.choke]
    BY <2>12, <2>13 DEF MethodType
  <2>16. t.queue = s.queue \o <<>>
    BY <2>3, <2>13, ConcatEmptySeq
  <2>17. s.sent <= t.sent /\ t.sent <= Len(t.queue) /\ t.sent - s.sent = more
    BY <2>2, <2>3, <2>4, <2>13
  <2>18. \A k \in (s.sent + 1)..t.sent : HostOf[t.queue[k].uri] = s.host
    <3>1. \A k \in (s.sent + 1)..t.sent : k \in 1..w.to
      BY <2>2, <2>3, <2>4, <2>13
    <3> QED
      BY <2>2, <2>13, <3>1
  <2>19. \A k \in 1..more : t.out[Len(s.out) + k] = Request(s, t.queue[s.sent + k])
    BY <2>9, <2>10, <2>13 DEF o
  <2>20. Extends(s, t, <<>>)
    BY <2>10, <2>13, <2>14, <2>15, <2>16, <2>17, <2>18, <2>19 DEF Extends, o
  <2> QED
    BY <2>20 DEF t
<1> QED
  BY <1>1, <1>2

\* So does Fetch after a message has been added to the queue.
LEMMA EnqueueExtends ==
    ASSUME NEW s \in MethodType, NEW ms \in Seq(Queued), NEW t, Extends(s, t, ms), NEW q \in Queued,
           s.sent <= Len(s.queue)
    PROVE  Extends(s, Enqueue(t, q), Append(ms, q))
<1> DEFINE u == [t EXCEPT !.queue = Append(@, q)]
           v == Enqueue(t, q)
<1>1. /\ t \in MethodType /\ t.queue = s.queue \o ms
      /\ t = [s EXCEPT !.queue = t.queue, !.sent = t.sent, !.out = t.out, !.choke = t.choke]
      /\ s.sent <= t.sent /\ t.sent <= Len(t.queue)
  BY DEF Extends
<1>2. /\ s.queue \in Seq(Queued) /\ t.queue \in Seq(Queued) /\ s.sent \in Nat /\ t.sent \in Nat
      /\ s.out \in Seq(Asking) /\ t.out \in Seq(Asking)
  BY <1>1 DEF MethodType
<1>3. /\ Append(t.queue, q) \in Seq(Queued) /\ Append(t.queue, q) = s.queue \o Append(ms, q)
      /\ Len(Append(t.queue, q)) = Len(t.queue) + 1
      /\ \A k \in 1..Len(t.queue) : Append(t.queue, q)[k] = t.queue[k]
      /\ Len(t.queue) \in Nat
  <2>3. t.queue = s.queue \o ms /\ t.queue \in Seq(Queued)
    BY <1>1, <1>2
  <2>4. Append(t.queue, q) = s.queue \o Append(ms, q)
    <3>1. PICK x \in Seq(Queued) : x = s.queue
      BY <1>2
    <3>2. Append(x \o ms, q) = x \o Append(ms, q)
      OBVIOUS
    <3> QED
      BY <2>3, <3>1, <3>2
  <2>5. Append(t.queue, q) \in Seq(Queued) /\ Len(Append(t.queue, q)) = Len(t.queue) + 1
    BY <2>3
  <2>6. \A k \in 1..Len(t.queue) : Append(t.queue, q)[k] = t.queue[k]
    BY <2>3
  <2>7. Len(t.queue) \in Nat
    BY <2>3
  <2> QED
    BY <2>4, <2>5, <2>6, <2>7
<1>4. /\ u \in MethodType /\ u.queue = Append(t.queue, q) /\ u.sent = t.sent /\ u.out = t.out
      /\ u.file = s.file /\ u.host = s.host
  <2>1. u \in MethodType
    BY <1>1, <1>3 DEF MethodType
  <2> QED
    BY <1>1, <2>1 DEF MethodType
<1>5. u.sent <= Len(u.queue)
  <2> HIDE DEF u
  <2>1. t.sent <= Len(t.queue) /\ t.sent \in Nat /\ Len(t.queue) \in Nat
    BY <1>1, <1>2, <1>3
  <2>2. Len(u.queue) = Len(t.queue) + 1
    BY <1>3, <1>4
  <2> QED
    BY <1>4, <2>1, <2>2
<1>6. Extends(u, v, <<>>)
  <2> HIDE DEF u
  <2>1. Extends(u, Fetch(u), <<>>)
    BY <1>4, <1>5, FetchExtends
  <2> QED
    BY <2>1 DEF Enqueue, u
<1> HIDE DEF v
<1>7. /\ v \in MethodType /\ v.queue = u.queue /\ v.sent \in Nat /\ v.out \in Seq(Asking)
      /\ v = [u EXCEPT !.queue = v.queue, !.sent = v.sent, !.out = v.out, !.choke = v.choke]
      /\ t.sent <= v.sent /\ v.sent <= Len(v.queue)
  <2> HIDE DEF u
  <2>1. u.queue \o <<>> = u.queue
    BY <1>3, <1>4, ConcatEmptySeq
  <2>2. v \in MethodType
    BY <1>6 DEF Extends
  <2>3. v.queue = u.queue /\ u.sent <= v.sent /\ v.sent <= Len(v.queue)
    BY <1>6, <2>1 DEF Extends
  <2>4. v = [u EXCEPT !.queue = v.queue, !.sent = v.sent, !.out = v.out, !.choke = v.choke]
    BY <1>6 DEF Extends
  <2>5. v.sent \in Nat /\ v.out \in Seq(Asking)
    BY <2>2 DEF MethodType
  <2> QED
    BY <1>4, <2>2, <2>3, <2>4, <2>5
<1>8. v = [s EXCEPT !.queue = v.queue, !.sent = v.sent, !.out = v.out, !.choke = v.choke]
  <2>1. u = [s EXCEPT !.queue = u.queue, !.sent = t.sent, !.out = t.out, !.choke = t.choke]
    BY <1>1, <1>4 DEF MethodType
  <2> HIDE DEF u
  <2>2. v = [u EXCEPT !.queue = v.queue, !.sent = v.sent, !.out = v.out, !.choke = v.choke]
    BY <1>7
  <2> DEFINE a == t.sent
             b == t.out
             d == t.choke
             w == u.queue
             a1 == v.sent
             b1 == v.out
             d1 == v.choke
             w1 == v.queue
  <2>3. u = [s EXCEPT !.queue = w, !.sent = a, !.out = b, !.choke = d]
    BY <2>1
  <2>4. v = [u EXCEPT !.queue = w1, !.sent = a1, !.out = b1, !.choke = d1]
    BY <2>2
  <2> HIDE DEF a, b, d, w, a1, b1, d1, w1
  <2>5. v = [s EXCEPT !.queue = w1, !.sent = a1, !.out = b1, !.choke = d1]
    BY <2>3, <2>4 DEF MethodType
  <2> QED
    BY <2>5 DEF a1, b1, d1, w1
<1>9. v.queue = s.queue \o Append(ms, q)
  BY <1>3, <1>4, <1>7
<1>10. /\ Len(t.out) = Len(s.out) + (t.sent - s.sent) /\ Len(v.out) = Len(t.out) + (v.sent - t.sent)
       /\ Len(s.out) \in Nat /\ Len(t.out) \in Nat /\ s.sent \in Nat /\ t.sent \in Nat /\ v.sent \in Nat
  <2>1. Len(v.out) = Len(u.out) + (v.sent - u.sent)
    BY <1>6 DEF Extends
  <2>2. Len(t.out) = Len(s.out) + (t.sent - s.sent)
    BY DEF Extends
  <2>3. v.sent \in Nat
    BY <1>7
  <2> QED
    BY <1>2, <1>4, <2>1, <2>2, <2>3
<1>11. \A k \in 1..Len(s.out) : v.out[k] = s.out[k]
  <2>1. \A k \in 1..Len(t.out) : v.out[k] = t.out[k]
    BY <1>4, <1>6 DEF Extends
  <2>2. \A k \in 1..Len(s.out) : t.out[k] = s.out[k] /\ k \in 1..Len(t.out)
    BY <1>1, <1>2, <1>10 DEF Extends
  <2> QED
    BY <2>1, <2>2
<1>16. s.sent <= t.sent /\ t.sent <= v.sent /\ t.sent <= Len(t.queue)
  BY <1>1, <1>7
<1>12. \A k \in 1..(v.sent - s.sent) : v.out[Len(s.out) + k] = Request(s, v.queue[s.sent + k])
  <2> TAKE k \in 1..(v.sent - s.sent)
  <2>1. CASE k <= t.sent - s.sent
    <3>0. k \in Nat /\ k >= 1 /\ k <= t.sent - s.sent
      BY <1>10, <2>1
    <3>1. k \in 1..(t.sent - s.sent) /\ Len(s.out) + k \in 1..Len(t.out) /\ s.sent + k \in 1..Len(t.queue)
      <4>1. k \in 1..(t.sent - s.sent)
        BY <1>10, <3>0
      <4>2. Len(s.out) + k \in 1..Len(t.out)
        BY <1>10, <3>0
      <4>3. s.sent + k \in 1..Len(t.queue)
        <5>1. PICK a \in Nat, b \in Nat, l \in Nat : a = s.sent /\ b = t.sent /\ l = Len(t.queue) /\ b <= l
          BY <1>3, <1>10, <1>16
        <5>2. a + k \in 1..l
          BY <3>0, <5>1
        <5> QED
          BY <5>1, <5>2
      <4> QED
        BY <4>1, <4>2, <4>3
    <3>2. v.out[Len(s.out) + k] = t.out[Len(s.out) + k]
      BY <1>4, <1>6, <3>1 DEF Extends
    <3>3. t.out[Len(s.out) + k] = Request(s, t.queue[s.sent + k])
      BY <3>1 DEF Extends
    <3>4. v.queue[s.sent + k] = t.queue[s.sent + k]
      BY <1>3, <1>4, <1>7, <3>1
    <3> QED
      BY <3>2, <3>3, <3>4
  <2>2. CASE k > t.sent - s.sent
    <3> DEFINE j == k - (t.sent - s.sent)
    <3>0. k \in Int /\ k <= v.sent - s.sent
      BY <1>10
    <3>1. j \in 1..(v.sent - t.sent) /\ Len(s.out) + k = Len(t.out) + j /\ s.sent + k = t.sent + j
      <4>1. j \in 1..(v.sent - t.sent)
        <5> DEFINE a == s.sent
                   b == t.sent
                   d == v.sent
        <5>1. a \in Nat /\ b \in Nat /\ d \in Nat /\ k \in Int /\ k <= d - a /\ k > b - a
          BY <1>10, <2>2, <3>0
        <5> HIDE DEF a, b, d
        <5>2. k - (b - a) \in 1..(d - b)
          BY <5>1
        <5> QED
          BY <5>2 DEF a, b, d
      <4>2. Len(s.out) + k = Len(t.out) + j /\ s.sent + k = t.sent + j
        BY <1>10, <3>0
      <4> QED
        BY <4>1, <4>2
    <3> HIDE DEF j
    <3>2. v.out[Len(t.out) + j] = Request(u, v.queue[t.sent + j])
      BY <1>4, <1>6, <3>1 DEF Extends
    <3>3. Request(u, v.queue[t.sent + j]) = Request(s, v.queue[t.sent + j])
      <4> HIDE DEF u
      <4> QED
        BY <1>4 DEF Request
    <3> QED
      BY <3>1, <3>2, <3>3
  <2> QED
    BY <1>1, <1>2, <2>1, <2>2
<1>13. \A k \in (s.sent + 1)..v.sent : HostOf[v.queue[k].uri] = s.host
  <2> TAKE k \in (s.sent + 1)..v.sent
  <2>1. CASE k <= t.sent
    <3>1. k \in (s.sent + 1)..t.sent /\ k \in 1..Len(t.queue)
      BY <1>1, <1>2, <1>7, <2>1
    <3>2. HostOf[t.queue[k].uri] = s.host
      BY <3>1 DEF Extends
    <3>3. v.queue[k] = t.queue[k]
      BY <1>3, <1>4, <1>7, <3>1
    <3> QED
      BY <3>2, <3>3
  <2>2. CASE k > t.sent
    <3>1. k \in (u.sent + 1)..v.sent
      BY <1>2, <1>4, <1>7, <2>2
    <3>2. HostOf[v.queue[k].uri] = u.host
      BY <1>6, <3>1 DEF Extends
    <3> QED
      BY <1>4, <3>2
  <2> QED
    BY <1>2, <1>7, <2>1, <2>2
<1>14. s.sent <= v.sent /\ Len(v.out) = Len(s.out) + (v.sent - s.sent)
  BY <1>1, <1>2, <1>7, <1>10
<1>15. Extends(s, v, Append(ms, q))
  BY <1>7, <1>8, <1>9, <1>11, <1>12, <1>13, <1>14 DEF Extends
<1> QED
  BY <1>15 DEF v

\* Run puts all the messages into the queue.
LEMMA HandleExtends ==
    ASSUME NEW s \in MethodType, s.sent <= Len(s.queue), NEW ms \in Seq(Queued)
    PROVE  Extends(s, Handle(s, ms), ms)
<1> DEFINE G == [n \in Nat |-> {t \in MethodType : Extends(s, t, SubSeq(ms, 1, n))}]
<1>1. s \in G[0]
  <2>1. SubSeq(ms, 1, 0) = <<>>
    OBVIOUS
  <2> QED
    BY <2>1, ExtendsItself
<1>2. ASSUME NEW n \in 1..Len(ms), NEW t \in G[n - 1]
      PROVE  Enqueue(t, ms[n]) \in G[n]
  <2>1. n - 1 \in Nat /\ n \in Nat
    OBVIOUS
  <2>2. t \in MethodType /\ Extends(s, t, SubSeq(ms, 1, n - 1))
    BY <2>1
  <2>3. /\ SubSeq(ms, 1, n - 1) \in Seq(Queued) /\ ms[n] \in Queued
        /\ SubSeq(ms, 1, n) = Append(SubSeq(ms, 1, n - 1), ms[n])
    OBVIOUS
  <2>4. Extends(s, Enqueue(t, ms[n]), SubSeq(ms, 1, n))
    BY <2>2, <2>3, EnqueueExtends
  <2> QED
    BY <2>1, <2>4 DEF Extends
<1>3. Handle(s, ms) \in G[Len(ms)]
  <2> HIDE DEF G
  <2> QED
    BY <1>1, <1>2, HandleStays
<1>4. Len(ms) \in Nat /\ SubSeq(ms, 1, Len(ms)) = ms
  OBVIOUS
<1>5. Handle(s, ms) \in {t \in MethodType : Extends(s, t, SubSeq(ms, 1, Len(ms)))}
  BY <1>3, <1>4
<1> QED
  BY <1>4, <1>5

-----------------------------------------------------------------------------
(* What is on the wire.                                                     *)

\* The replies of a sane site: a reply without a body has none on the wire, a body says
\* where it ends, a redirection and nothing else names another URI, on another host.
SaneSite ==
    \A u \in Uri :
        LET a == Site[u] IN
        /\ a.code \in {"notmod", "bad"} => a.framing = "none"
        /\ a.code = "ok" => a.framing # "none"
        /\ a.code # "redirect" => a.to = NoUri
        /\ a.code = "redirect" => a.to # NoUri /\ HostOf[a.to] # HostOf[u]

\* A reply: the URI and where the body starts.
Granted == {r \in Asking : r.from = 0 \/ (Site[r.uri].code = "ok" /\ r.from < Site[r.uri].size)}

\* The tokens of the replies rs.
Coming(rs) == FlattenSeq([k \in 1..Len(rs) |-> Reply(rs[k].uri, rs[k].from)])

\* n lines that say 0, or nothing.
Zeros(u, n) == [k \in 1..n |-> Line(u, 0)]

\* The answer for a URI, and its host.
LEMMA SiteType ==
    ASSUME NEW u \in Uri
    PROVE  Site[u] \in Answer /\ HostOf[u] \in Host
  BY SiteAssumption

\* The bytes of a file from one position on.
LEMMA BytesType ==
    ASSUME NEW u \in Uri, NEW j \in 0..Site[u].size
    PROVE  /\ Bytes(u, j) \in Seq(Tokens) /\ Len(Bytes(u, j)) = Site[u].size - j
           /\ \A k \in 1..(Site[u].size - j) : Bytes(u, j)[k] = Token("byte", u, j + k)
<1>1. Site[u].size \in Nat
  BY SiteType DEF Answer
<1>2. \A k \in 1..(Site[u].size - j) : Token("byte", u, j + k) \in Tokens
  BY <1>1 DEF Token, Tokens
<1> QED
  BY <1>1, <1>2 DEF Bytes

\* A number of empty lines.
LEMMA ZerosType ==
    ASSUME NEW u \in Uri, NEW n \in Nat
    PROVE  /\ Zeros(u, n) \in Seq(Tokens) /\ Len(Zeros(u, n)) = n
           /\ \A k \in 1..n : Zeros(u, n)[k] = Line(u, 0)
<1>1. Line(u, 0) \in Tokens
  BY DEF Line, Token, Tokens
<1> QED
  BY <1>1 DEF Zeros

\* A line of chunked encoding.
LEMMA LineType ==
    ASSUME NEW u \in Uri, NEW n \in Nat
    PROVE  Line(u, n) \in Tokens /\ Line(u, n).kind = "line" /\ Line(u, n).n = n
  BY DEF Line, Token, Tokens

\* The body of a reply by its framing.
LEMMA BodyCases ==
    ASSUME NEW u \in Uri, NEW j \in 0..Site[u].size
    PROVE  /\ Site[u].framing = "none" => Body(u, j) = <<>>
           /\ Site[u].framing \in {"stream", "closes"} => Body(u, j) = Bytes(u, j)
           /\ Site[u].framing = "chunked" /\ j = Site[u].size => Body(u, j) = Zeros(u, 2)
           /\ Site[u].framing = "chunked" /\ j # Site[u].size =>
                Body(u, j) = <<Line(u, Site[u].size - j)>> \o (Bytes(u, j) \o Zeros(u, 3))
           /\ Body(u, j) \in Seq(Tokens)
<1> DEFINE a == Site[u]
           z == a.size
<1>1. a.framing \in {"stream", "chunked", "closes", "none"} /\ z \in Nat
  BY SiteType DEF Answer
<1>2. Bytes(u, j) \in Seq(Tokens) /\ \A n \in Nat : Line(u, n) \in Tokens
  BY BytesType, LineType
<1>3. CASE a.framing = "none"
  BY <1>3 DEF Body
<1>4. CASE a.framing \in {"stream", "closes"}
  BY <1>2, <1>4 DEF Body
<1>5. CASE a.framing = "chunked"
  <2> DEFINE two == <<Line(u, 0), Line(u, 0)>>
             one == <<Line(u, 0)>>
             head == <<Line(u, z - j)>>
  <2>1. two = Zeros(u, 2) /\ two \in Seq(Tokens)
    BY <1>2 DEF Zeros
  <2>2. one \o two = Zeros(u, 3) /\ one \in Seq(Tokens)
    BY <1>2 DEF Zeros
  <2>3. z - j \in Nat /\ head \in Seq(Tokens)
    BY <1>1, <1>2
  <2>4. Body(u, j) = (IF j = z THEN <<>> ELSE head \o Bytes(u, j) \o one) \o two
    BY <1>5 DEF Body
  <2> HIDE DEF one, two, head
  <2>5. CASE j = z
    BY <1>5, <2>1, <2>4, <2>5, ConcatEmptySeq
  <2>6. CASE j # z
    <3>1. Body(u, j) = ((head \o Bytes(u, j)) \o one) \o two
      BY <2>4, <2>6
    <3>2. PICK bs \in Seq(Tokens) : bs = Bytes(u, j)
      BY <1>2
    <3>3. ((head \o bs) \o one) \o two = head \o (bs \o (one \o two))
      <4>5. head \o bs \in Seq(Tokens) /\ one \o two \in Seq(Tokens)
        BY <2>1, <2>2, <2>3
      <4>1. PICK x \in Seq(Tokens) : x = head \o bs
        BY <4>5
      <4>2. PICK y \in Seq(Tokens) : y = one \o two
        BY <4>5
      <4>3. (x \o one) \o two = x \o (one \o two)
        BY <2>1, <2>2
      <4>4. (head \o bs) \o y = head \o (bs \o y)
        BY <2>3
      <4> QED
        BY <4>1, <4>2, <4>3, <4>4
    <3>4. head \o (bs \o (one \o two)) \in Seq(Tokens)
      BY <2>1, <2>2, <2>3
    <3>5. Body(u, j) = head \o (Bytes(u, j) \o Zeros(u, 3)) /\ Body(u, j) \in Seq(Tokens)
      BY <2>2, <3>1, <3>2, <3>3, <3>4
    <3> QED
      BY <1>5, <2>6, <3>5 DEF head
  <2> QED
    BY <2>5, <2>6
<1> QED
  BY <1>1, <1>3, <1>4, <1>5

\* A reply is its headers and a body.
LEMMA ReplyType ==
    ASSUME NEW r \in Granted
    PROVE  /\ r.uri \in Uri /\ r.from \in 0..Site[r.uri].size
           /\ Body(r.uri, r.from) \in Seq(Tokens)
           /\ Token("head", r.uri, r.from) \in Tokens
           /\ Reply(r.uri, r.from) = <<Token("head", r.uri, r.from)>> \o Body(r.uri, r.from)
           /\ Reply(r.uri, r.from) \in Seq(Tokens)
<1>1. r.uri \in Uri /\ r.from \in Nat
  BY DEF Granted, Asking
<1>2. Site[r.uri].size \in Nat
  BY <1>1, SiteType DEF Answer
<1>3. r.from \in 0..Site[r.uri].size
  BY <1>1, <1>2 DEF Granted
<1>4. Body(r.uri, r.from) \in Seq(Tokens)
  BY <1>1, <1>3, BodyCases
<1>5. Token("head", r.uri, r.from) \in Tokens
  BY <1>1 DEF Token, Tokens
<1>6. Reply(r.uri, r.from) = <<Token("head", r.uri, r.from)>> \o Body(r.uri, r.from)
  BY DEF Reply
<1>7. <<Token("head", r.uri, r.from)>> \in Seq(Tokens)
  BY <1>5
<1> QED
  BY <1>1, <1>3, <1>4, <1>5, <1>6, <1>7, ConcatProperties

\* Replies are tokens.
LEMMA ComingType ==
    ASSUME NEW rs \in Seq(Granted)
    PROVE  /\ [k \in 1..Len(rs) |-> Reply(rs[k].uri, rs[k].from)] \in Seq(Seq(Tokens))
           /\ Coming(rs) \in Seq(Tokens)
<1> DEFINE R == [k \in 1..Len(rs) |-> Reply(rs[k].uri, rs[k].from)]
<1>1. \A k \in 1..Len(rs) : rs[k] \in Granted
  OBVIOUS
<1>2. \A k \in 1..Len(rs) : Reply(rs[k].uri, rs[k].from) \in Seq(Tokens)
  BY <1>1, ReplyType
<1>3. R \in Seq(Seq(Tokens))
  BY <1>2
<1> HIDE DEF R
<1>4. FlattenSeq(R) \in Seq(Tokens)
  <2>1. <<>> \in Seq(Tokens)
    OBVIOUS
  <2> QED
    BY <1>3, <2>1, FlatAppend
<1> QED
  BY <1>3, <1>4 DEF R, Coming

\* No replies, no tokens.
LEMMA ComingNone == Coming(<<>>) = <<>>
<1>1. [k \in 1..Len(<<>>) |-> Reply(<<>>[k].uri, <<>>[k].from)] = <<>>
  OBVIOUS
<1> QED
  BY <1>1, FlatEmpty DEF Coming

\* Replies come one after the other.
LEMMA ComingConcat ==
    ASSUME NEW rs \in Seq(Granted), NEW rt \in Seq(Granted)
    PROVE  Coming(rs \o rt) = Coming(rs) \o Coming(rt)
<1> DEFINE R(x) == [k \in 1..Len(x) |-> Reply(x[k].uri, x[k].from)]
<1>1. R(rs) \in Seq(Seq(Tokens)) /\ R(rt) \in Seq(Seq(Tokens)) /\ rs \o rt \in Seq(Granted)
  BY ComingType
<1>2. R(rs \o rt) \in Seq(Seq(Tokens))
  BY <1>1, ComingType
<1>3. R(rs \o rt) = R(rs) \o R(rt)
  <2> DEFINE x == R(rs \o rt)
             y == R(rs) \o R(rt)
  <2>1. y \in Seq(Seq(Tokens)) /\ Len(x) = Len(rs) + Len(rt) /\ Len(y) = Len(rs) + Len(rt)
    BY <1>1, <1>2
  <2>2. \A k \in 1..(Len(rs) + Len(rt)) : x[k] = y[k]
    <3> TAKE k \in 1..(Len(rs) + Len(rt))
    <3>1. CASE k <= Len(rs)
      <4>1. (rs \o rt)[k] = rs[k] /\ k \in 1..Len(rs)
        BY <3>1
      <4>2. x[k] = Reply(rs[k].uri, rs[k].from)
        BY <4>1
      <4>3. y[k] = R(rs)[k]
        BY <4>1
      <4> QED
        BY <4>1, <4>2, <4>3
    <3>2. CASE k > Len(rs)
      <4> DEFINE j == k - Len(rs)
      <4>1. (rs \o rt)[k] = rt[j] /\ j \in 1..Len(rt)
        BY <3>2
      <4>2. x[k] = Reply(rt[j].uri, rt[j].from)
        BY <4>1
      <4>3. y[k] = R(rt)[j]
        BY <3>2
      <4> QED
        BY <4>1, <4>2, <4>3
    <3> QED
      BY <3>1, <3>2
  <2> HIDE DEF x, y
  <2>3. x \in Seq(Seq(Tokens))
    BY <1>2 DEF x
  <2>4. x = y
    BY <2>1, <2>2, <2>3
  <2> QED
    BY <2>4 DEF x, y
<1> HIDE DEF R
<1>4. FlattenSeq(R(rs \o rt)) = FlattenSeq(R(rs)) \o FlattenSeq(R(rt))
  BY <1>1, <1>3, FlatConcat
<1> QED
  BY <1>4 DEF R, Coming

\* The first reply that is coming.
LEMMA ComingFirst ==
    ASSUME NEW rs \in Seq(Granted), rs # <<>>
    PROVE  LET r == Head(rs) IN
           /\ r \in Granted /\ r = rs[1] /\ Tail(rs) \in Seq(Granted)
           /\ Coming(rs) = <<Token("head", r.uri, r.from)>> \o
                           (Body(r.uri, r.from) \o Coming(Tail(rs)))
<1> DEFINE r == Head(rs)
<1>1. r \in Granted /\ r = rs[1] /\ Tail(rs) \in Seq(Granted) /\ rs = <<r>> \o Tail(rs)
  OBVIOUS
<1> HIDE DEF r
<1>2. <<r>> \in Seq(Granted)
  BY <1>1
<1>3. Coming(rs) = Coming(<<r>>) \o Coming(Tail(rs))
  BY <1>1, <1>2, ComingConcat
<1>4. Coming(<<r>>) = Reply(r.uri, r.from)
  <2>1. [k \in 1..Len(<<r>>) |-> Reply(<<r>>[k].uri, <<r>>[k].from)] = <<Reply(r.uri, r.from)>>
    OBVIOUS
  <2> QED
    BY <1>1, <2>1, ReplyType, FlatOne DEF Coming
<1>5. PICK h \in Seq(Tokens) : h = <<Token("head", r.uri, r.from)>>
  <2>1. Token("head", r.uri, r.from) \in Tokens
    BY <1>1, ReplyType
  <2>2. <<Token("head", r.uri, r.from)>> \in Seq(Tokens)
    BY <2>1
  <2> QED
    BY <2>2
<1>6. PICK b \in Seq(Tokens) : b = Body(r.uri, r.from)
  BY <1>1, ReplyType
<1>7. PICK c \in Seq(Tokens) : c = Coming(Tail(rs))
  BY <1>1, ComingType
<1>8. Coming(rs) = (h \o b) \o c
  BY <1>1, <1>3, <1>4, <1>5, <1>6, <1>7, ReplyType
<1>9. (h \o b) \o c = h \o (b \o c)
  OBVIOUS
<1> QED
  BY <1>1, <1>5, <1>6, <1>7, <1>8, <1>9 DEF r

\* x without its first n elements.
Drop(x, n) == SubSeq(x, n + 1, Len(x))

\* What is left of a sequence without its first n elements.
LEMMA DropType ==
    ASSUME NEW x \in Seq(Tokens), NEW n \in Nat, n <= Len(x)
    PROVE  /\ Drop(x, n) \in Seq(Tokens) /\ Len(Drop(x, n)) = Len(x) - n
           /\ \A k \in 1..(Len(x) - n) : Drop(x, n)[k] = x[n + k]
  BY DEF Drop

\* Two ways to cut a sequence in two.
Match(x, u, y, v) == x \o u = y \o v

\* What is taken from the front of two equal sequences is the same, and so is what is left.
LEMMA CutEqual ==
    ASSUME NEW x \in Seq(Tokens), NEW y \in Seq(Tokens), NEW u \in Seq(Tokens), NEW v \in Seq(Tokens),
           NEW n \in Nat, n <= Len(x), n <= Len(y)
    PROVE  Match(x, u, y, v) =>
           /\ \A k \in 1..n : x[k] = y[k]
           /\ Match(Drop(x, n), u, Drop(y, n), v)
<1>0. SUFFICES ASSUME x \o u = y \o v
               PROVE  /\ \A k \in 1..n : x[k] = y[k]
                      /\ Match(Drop(x, n), u, Drop(y, n), v)
  BY DEF Match
<1> DEFINE x1 == Drop(x, n)
           y1 == Drop(y, n)
<1>1. /\ x1 \in Seq(Tokens) /\ Len(x1) = Len(x) - n /\ \A k \in 1..(Len(x) - n) : x1[k] = x[n + k]
      /\ y1 \in Seq(Tokens) /\ Len(y1) = Len(y) - n /\ \A k \in 1..(Len(y) - n) : y1[k] = y[n + k]
  BY DropType
<1> HIDE DEF x1, y1
<1>2. Len(x) + Len(u) = Len(y) + Len(v) /\ Len(x) \in Nat /\ Len(y) \in Nat /\ Len(u) \in Nat /\ Len(v) \in Nat
  <2>1. Len(x \o u) = Len(x) + Len(u) /\ Len(y \o v) = Len(y) + Len(v)
    OBVIOUS
  <2> QED
    BY <1>0, <2>1
<1>3. \A k \in 1..(Len(x) + Len(u)) :
          (IF k <= Len(x) THEN x[k] ELSE u[k - Len(x)]) = (IF k <= Len(y) THEN y[k] ELSE v[k - Len(y)])
  <2> TAKE k \in 1..(Len(x) + Len(u))
  <2>1. (x \o u)[k] = IF k <= Len(x) THEN x[k] ELSE u[k - Len(x)]
    OBVIOUS
  <2>2. (y \o v)[k] = IF k <= Len(y) THEN y[k] ELSE v[k - Len(y)]
    BY <1>2
  <2> QED
    BY <1>0, <2>1, <2>2
<1>4. \A k \in 1..n : x[k] = y[k]
  <2> TAKE k \in 1..n
  <2>1. k \in 1..(Len(x) + Len(u)) /\ k <= Len(x) /\ k <= Len(y)
    BY <1>2
  <2> QED
    BY <1>3, <2>1
<1>5. x1 \o u = y1 \o v
  <2> DEFINE p == x1 \o u
             q == y1 \o v
             N == Len(x) + Len(u) - n
  <2>1. p \in Seq(Tokens) /\ q \in Seq(Tokens) /\ Len(p) = N /\ Len(q) = N /\ N \in Nat
    <3>1. p \in Seq(Tokens) /\ Len(p) = Len(x1) + Len(u)
      BY <1>1, ConcatProperties
    <3>2. q \in Seq(Tokens) /\ Len(q) = Len(y1) + Len(v)
      <4>1. y1 \in Seq(Tokens) /\ v \in Seq(Tokens)
        BY <1>1
      <4> HIDE DEF N, p
      <4> QED
        BY <4>1, ConcatProperties
    <3>3. Len(x1) + Len(u) = N /\ Len(y1) + Len(v) = N /\ N \in Nat
      BY <1>1, <1>2
    <3> HIDE DEF p, q, N
    <3> QED
      BY <3>1, <3>2, <3>3
  <2>2. \A k \in 1..N : p[k] = q[k]
    <3> TAKE k \in 1..N
    <3>1. p[k] = IF k <= Len(x) - n THEN x[n + k] ELSE u[k - (Len(x) - n)]
      BY <1>1, <1>2
    <3>2. q[k] = IF k <= Len(y) - n THEN y[n + k] ELSE v[k - (Len(y) - n)]
      BY <1>1, <1>2
    <3>3. n + k \in 1..(Len(x) + Len(u)) /\ (n + k) - Len(x) = k - (Len(x) - n)
          /\ (n + k) - Len(y) = k - (Len(y) - n)
          /\ (n + k <= Len(x) <=> k <= Len(x) - n) /\ (n + k <= Len(y) <=> k <= Len(y) - n)
      BY <1>2
    <3>4. (IF n + k <= Len(x) THEN x[n + k] ELSE u[(n + k) - Len(x)])
          = (IF n + k <= Len(y) THEN y[n + k] ELSE v[(n + k) - Len(y)])
      BY <1>3, <3>3
    <3> HIDE DEF p, q, N
    <3> QED
      BY <3>1, <3>2, <3>3, <3>4
  <2> HIDE DEF p, q, N
  <2>3. p = q
    BY <2>1, <2>2
  <2> QED
    BY <2>3 DEF p, q
<1> QED
  BY <1>4, <1>5 DEF Match, x1, y1

\* What has come, what is on the wire and what was lost: the rest of a reply, and others.
Carries(x, c, lost, rest, z) == (x \o c) \o lost = rest \o z

\* n tokens are taken from what has come.
LEMMA Took ==
    ASSUME NEW x \in Seq(Tokens), NEW c \in Seq(Tokens), NEW lost \in Seq(Tokens),
           NEW rest \in Seq(Tokens), NEW z \in Seq(Tokens), Carries(x, c, lost, rest, z),
           NEW n \in Nat, n <= Len(x), n <= Len(rest)
    PROVE  /\ \A k \in 1..n : x[k] = rest[k]
           /\ Carries(Drop(x, n), c, lost, Drop(rest, n), z)
<1>1. PICK v \in Seq(Tokens) : v = c \o lost
  <2>1. c \o lost \in Seq(Tokens)
    OBVIOUS
  <2> QED
    BY <2>1
<1>2. (x \o c) \o lost = x \o v
  <2>1. (x \o c) \o lost = x \o (c \o lost)
    OBVIOUS
  <2> QED
    BY <1>1, <2>1
<1>3. Match(x, v, rest, z)
  BY <1>2 DEF Carries, Match
<1>4. (\A k \in 1..n : x[k] = rest[k]) /\ Match(Drop(x, n), v, Drop(rest, n), z)
  BY <1>3, CutEqual
<1>5. PICK x1 \in Seq(Tokens) : x1 = Drop(x, n)
  BY DropType
<1>6. (x1 \o c) \o lost = x1 \o v
  <2>1. (x1 \o c) \o lost = x1 \o (c \o lost)
    OBVIOUS
  <2> QED
    BY <1>1, <2>1
<1> QED
  BY <1>4, <1>5, <1>6 DEF Carries, Match

\* More is read.
LEMMA ReadMore ==
    ASSUME NEW x \in Seq(Tokens), NEW c \in Seq(Tokens), NEW lost \in Seq(Tokens),
           NEW rest \in Seq(Tokens), NEW z \in Seq(Tokens), Carries(x, c, lost, rest, z),
           NEW n \in 0..Len(c)
    PROVE  /\ SubSeq(c, 1, n) \in Seq(Tokens) /\ x \o SubSeq(c, 1, n) \in Seq(Tokens)
           /\ SubSeq(c, n + 1, Len(c)) \in Seq(Tokens)
           /\ Carries(x \o SubSeq(c, 1, n), SubSeq(c, n + 1, Len(c)), lost, rest, z)
<1>1. PICK a \in Seq(Tokens) : a = SubSeq(c, 1, n)
  <2>1. SubSeq(c, 1, n) \in Seq(Tokens)
    OBVIOUS
  <2> QED
    BY <2>1
<1>2. PICK b \in Seq(Tokens) : b = SubSeq(c, n + 1, Len(c))
  <2>1. SubSeq(c, n + 1, Len(c)) \in Seq(Tokens)
    OBVIOUS
  <2> QED
    BY <2>1
<1>3. a \o b = c
  <2>1. SubSeq(c, 1, n) \o SubSeq(c, n + 1, Len(c)) = SubSeq(c, 1, Len(c))
    <3>1. Len(c) \in Nat /\ 1 \in 1..(Len(c) + 1) /\ n \in (1 - 1)..Len(c) /\ Len(c) \in n..Len(c)
      OBVIOUS
    <3> QED
      BY <3>1, ConcatAdjacentSubSeq
  <2> QED
    BY <1>1, <1>2, <2>1, SubSeqFull
<1>4. (x \o a) \o b = x \o c /\ x \o a \in Seq(Tokens)
  <2>1. (x \o a) \o b = x \o (a \o b) /\ x \o a \in Seq(Tokens)
    OBVIOUS
  <2> QED
    BY <1>3, <2>1
<1>5. Carries(x \o a, b, lost, rest, z)
  BY <1>4 DEF Carries
<1> QED
  BY <1>1, <1>2, <1>4, <1>5

\* What is on the wire is lost.
LEMMA LoseWire ==
    ASSUME NEW x \in Seq(Tokens), NEW c \in Seq(Tokens), NEW lost \in Seq(Tokens),
           NEW rest \in Seq(Tokens), NEW z \in Seq(Tokens), Carries(x, c, lost, rest, z)
    PROVE  /\ c \o lost \in Seq(Tokens)
           /\ Carries(x, <<>>, c \o lost, rest, z)
<1>1. c \o lost \in Seq(Tokens) /\ (x \o c) \o lost = x \o (c \o lost) /\ x \o <<>> = x
  OBVIOUS
<1> QED
  BY <1>1 DEF Carries

\* Nothing has been lost, and more is coming.
LEMMA SendMore ==
    ASSUME NEW x \in Seq(Tokens), NEW c \in Seq(Tokens), NEW rest \in Seq(Tokens),
           NEW z \in Seq(Tokens), NEW w \in Seq(Tokens),
           Carries(x, c, <<>>, rest, z)
    PROVE  Carries(x, c \o w, <<>>, rest, z \o w)
<1>1. PICK d \in Seq(Tokens) : d = x \o c
  <2>1. x \o c \in Seq(Tokens)
    OBVIOUS
  <2> QED
    BY <2>1
<1>2. PICK e \in Seq(Tokens) : e = rest \o z
  <2>1. rest \o z \in Seq(Tokens)
    OBVIOUS
  <2> QED
    BY <2>1
<1>3. d = e
  <2>1. d \o <<>> = e
    BY <1>1, <1>2 DEF Carries
  <2>2. d \o <<>> = d
    OBVIOUS
  <2> QED
    BY <2>1, <2>2
<1>4. x \o (c \o w) = d \o w
  <2>1. (x \o c) \o w = x \o (c \o w)
    OBVIOUS
  <2> QED
    BY <1>1, <2>1
<1>5. rest \o (z \o w) = e \o w
  <2>1. (rest \o z) \o w = rest \o (z \o w)
    OBVIOUS
  <2> QED
    BY <1>2, <2>1
<1>6. (x \o (c \o w)) \o <<>> = x \o (c \o w)
  <2>1. d \o w \in Seq(Tokens) /\ (d \o w) \o <<>> = d \o w
    OBVIOUS
  <2> QED
    BY <1>4, <2>1
<1> QED
  BY <1>3, <1>4, <1>5, <1>6 DEF Carries

\* Only headers can come when nothing of a reply is left.
LEMMA HeadComes ==
    ASSUME NEW x \in Seq(Tokens), NEW c \in Seq(Tokens), NEW lost \in Seq(Tokens),
           NEW rs \in Seq(Granted), x # <<>>, Carries(x, c, lost, <<>>, Coming(rs))
    PROVE  /\ rs # <<>> /\ Head(rs) \in Granted /\ Tail(rs) \in Seq(Granted)
           /\ Head(x) = Token("head", Head(rs).uri, Head(rs).from) /\ Tail(x) \in Seq(Tokens)
           /\ Carries(Tail(x), c, lost, Body(Head(rs).uri, Head(rs).from), Coming(Tail(rs)))
<1>1. <<>> \o Coming(rs) = Coming(rs) /\ Coming(rs) \in Seq(Tokens)
  BY ComingType, ConcatEmptySeq
<1>2. (x \o c) \o lost = Coming(rs)
  BY <1>1 DEF Carries
<1>3. rs # <<>>
  <2> SUFFICES ASSUME rs = <<>> PROVE FALSE
    OBVIOUS
  <2>1. Len((x \o c) \o lost) = (Len(x) + Len(c)) + Len(lost)
    OBVIOUS
  <2>2. Len(Coming(rs)) = 0 /\ Len(x) > 0
    BY ComingNone
  <2> QED
    BY <1>2, <2>1, <2>2
<1> DEFINE r == Head(rs)
           h == Token("head", r.uri, r.from)
<1>4. /\ r \in Granted /\ Tail(rs) \in Seq(Granted)
      /\ Coming(rs) = <<h>> \o (Body(r.uri, r.from) \o Coming(Tail(rs)))
  BY <1>3, ComingFirst
<1> HIDE DEF r
<1>5. h \in Tokens /\ Body(r.uri, r.from) \in Seq(Tokens) /\ Coming(Tail(rs)) \in Seq(Tokens)
  BY <1>4, ReplyType, ComingType
<1>6. PICK one \in Seq(Tokens) : one = <<h>>
  <2>1. <<h>> \in Seq(Tokens)
    BY <1>5
  <2> QED
    BY <2>1
<1> HIDE DEF h
<1>7. PICK z \in Seq(Tokens) : z = Body(r.uri, r.from) \o Coming(Tail(rs))
  <2>1. Body(r.uri, r.from) \o Coming(Tail(rs)) \in Seq(Tokens)
    BY <1>5, ConcatProperties
  <2> QED
    BY <2>1
<1>8. Carries(x, c, lost, one, z)
  BY <1>2, <1>4, <1>6, <1>7 DEF Carries
<1>9. Len(one) = 1 /\ one[1] = h /\ 1 <= Len(x) /\ 1 <= Len(one)
  BY <1>6
<1>10. (\A k \in 1..1 : x[k] = one[k]) /\ Carries(Drop(x, 1), c, lost, Drop(one, 1), z)
  <2>1. 1 \in Nat
    OBVIOUS
  <2> QED
    BY <1>8, <1>9, <2>1, Took
<1>11. Drop(x, 1) = Tail(x) /\ Tail(x) \in Seq(Tokens) /\ Head(x) = x[1]
  BY DEF Drop
<1>12. Drop(one, 1) = <<>>
  <2>1. Drop(one, 1) \in Seq(Tokens) /\ Len(Drop(one, 1)) = Len(one) - 1
    <3>1. 1 \in Nat
      OBVIOUS
    <3> QED
      BY <1>9, <3>1, DropType
  <2>2. Len(Drop(one, 1)) = 0
    BY <1>9, <2>1
  <2> QED
    BY <2>1, <2>2
<1>13. <<>> \o z = z
  OBVIOUS
<1>14. Head(x) = h
  BY <1>9, <1>10, <1>11
<1>15. Carries(Tail(x), c, lost, Body(r.uri, r.from), Coming(Tail(rs)))
  BY <1>7, <1>10, <1>11, <1>12, <1>13 DEF Carries
<1> QED
  BY <1>3, <1>4, <1>11, <1>14, <1>15 DEF r, h

-----------------------------------------------------------------------------
(* Whose replies begin among the tokens.                                    *)

\* Empty sequences flatten to nothing.
LEMMA FlatNothing ==
    ASSUME NEW T, NEW ss \in Seq(Seq(T)), \A k \in 1..Len(ss) : ss[k] = <<>>
    PROVE  FlattenSeq(ss) = <<>>
<1> DEFINE S == {n \in Nat : \A us \in Seq(Seq(T)) :
                     Len(us) = n /\ (\A k \in 1..Len(us) : us[k] = <<>>) => FlattenSeq(us) = <<>>}
<1>1. 0 \in S
  <2>1. \A us \in Seq(Seq(T)) : Len(us) = 0 => us = <<>>
    OBVIOUS
  <2> QED
    BY <2>1, FlatEmpty
<1>2. ASSUME NEW n \in Nat, n \in S PROVE n + 1 \in S
  <2> SUFFICES ASSUME NEW us \in Seq(Seq(T)), Len(us) = n + 1, \A k \in 1..Len(us) : us[k] = <<>>
               PROVE  FlattenSeq(us) = <<>>
    OBVIOUS
  <2> DEFINE vs == SubSeq(us, 1, n)
             x  == us[n + 1]
  <2>1. vs \in Seq(Seq(T)) /\ Len(vs) = n /\ x = <<>> /\ us = Append(vs, x)
    OBVIOUS
  <2>2. \A k \in 1..Len(vs) : vs[k] = <<>>
    OBVIOUS
  <2>3. x \in Seq(T)
    BY <2>1
  <2> HIDE DEF vs, x
  <2>4. FlattenSeq(vs) = <<>>
    BY <1>2, <2>1, <2>2
  <2>5. FlattenSeq(us) = FlattenSeq(vs) \o x
    BY <2>1, <2>3, FlatAppend
  <2> QED
    BY <2>1, <2>3, <2>4, <2>5
<1> HIDE DEF S
<1>3. Nat \subseteq S
  BY <1>1, <1>2, NatSet
<1> QED
  BY <1>3 DEF S

\* The URI of a head, as a sequence.
HeadOf(e) == IF e.kind = "head" THEN <<e.uri>> ELSE <<>>
\* What a token may name.
Named == Uri \cup {NoUri}

\* Heads picks the URIs of the headers out of tokens.
LEMMA HeadsType ==
    ASSUME NEW x \in Seq(Tokens)
    PROVE  /\ [k \in 1..Len(x) |-> HeadOf(x[k])] \in Seq(Seq(Named))
           /\ Heads(x) = FlattenSeq([k \in 1..Len(x) |-> HeadOf(x[k])])
           /\ Heads(x) \in Seq(Named)
<1> DEFINE R == [k \in 1..Len(x) |-> HeadOf(x[k])]
<1>1. \A k \in 1..Len(x) : HeadOf(x[k]) \in Seq(Named)
  <2> TAKE k \in 1..Len(x)
  <2>1. x[k] \in Tokens
    OBVIOUS
  <2>2. x[k].uri \in Named
    BY <2>1 DEF Tokens, Named
  <2>3. <<x[k].uri>> \in Seq(Named) /\ <<>> \in Seq(Named)
    BY <2>2
  <2> QED
    BY <2>3 DEF HeadOf
<1>2. R \in Seq(Seq(Named))
  BY <1>1
<1>3. Heads(x) = FlattenSeq(R)
  <2>1. DOMAIN x = 1..Len(x)
    OBVIOUS
  <2> QED
    BY <2>1 DEF Heads, HeadOf
<1> HIDE DEF R
<1>4. FlattenSeq(R) \in Seq(Named)
  <2>1. <<>> \in Seq(Named)
    OBVIOUS
  <2> QED
    BY <1>2, <2>1, FlatAppend
<1> QED
  BY <1>2, <1>3, <1>4 DEF R

\* ... and does it piece by piece.
LEMMA HeadsConcat ==
    ASSUME NEW x \in Seq(Tokens), NEW y \in Seq(Tokens)
    PROVE  Heads(x \o y) = Heads(x) \o Heads(y)
<1> DEFINE R(s) == [k \in 1..Len(s) |-> HeadOf(s[k])]
<1>1. x \o y \in Seq(Tokens)
  OBVIOUS
<1>2. R(x) \in Seq(Seq(Named)) /\ R(y) \in Seq(Seq(Named)) /\ R(x \o y) \in Seq(Seq(Named))
  BY <1>1, HeadsType
<1>3. R(x \o y) = R(x) \o R(y)
  <2> DEFINE p == R(x \o y)
             q == R(x) \o R(y)
  <2>1. q \in Seq(Seq(Named)) /\ Len(p) = Len(x) + Len(y) /\ Len(q) = Len(x) + Len(y)
    BY <1>2
  <2>2. \A k \in 1..(Len(x) + Len(y)) : p[k] = q[k]
    <3> TAKE k \in 1..(Len(x) + Len(y))
    <3>1. CASE k <= Len(x)
      <4>1. (x \o y)[k] = x[k] /\ k \in 1..Len(x)
        BY <3>1
      <4>2. p[k] = HeadOf(x[k])
        BY <4>1
      <4>3. q[k] = R(x)[k]
        BY <4>1
      <4> QED
        BY <4>1, <4>2, <4>3
    <3>2. CASE k > Len(x)
      <4> DEFINE j == k - Len(x)
      <4>1. (x \o y)[k] = y[j] /\ j \in 1..Len(y)
        BY <3>2
      <4>2. p[k] = HeadOf(y[j])
        BY <4>1
      <4>3. q[k] = R(y)[j]
        BY <3>2
      <4> QED
        BY <4>1, <4>2, <4>3
    <3> QED
      BY <3>1, <3>2
  <2> HIDE DEF p, q
  <2>3. p \in Seq(Seq(Named))
    BY <1>2 DEF p
  <2>4. p = q
    BY <2>1, <2>2, <2>3
  <2> QED
    BY <2>4 DEF p, q
<1>4. Heads(x) = FlattenSeq(R(x)) /\ Heads(y) = FlattenSeq(R(y)) /\ Heads(x \o y) = FlattenSeq(R(x \o y))
  BY <1>1, HeadsType
<1> HIDE DEF R
<1>5. FlattenSeq(R(x \o y)) = FlattenSeq(R(x)) \o FlattenSeq(R(y))
  BY <1>2, <1>3, FlatConcat
<1> QED
  BY <1>4, <1>5

\* Without headers there are none to pick.
LEMMA NoHeads ==
    ASSUME NEW x \in Seq(Tokens), \A k \in 1..Len(x) : x[k].kind # "head"
    PROVE  Heads(x) = <<>>
<1> DEFINE R == [k \in 1..Len(x) |-> HeadOf(x[k])]
<1>1. R \in Seq(Seq(Named)) /\ Heads(x) = FlattenSeq(R)
  BY HeadsType
<1>2. Len(R) = Len(x) /\ \A k \in 1..Len(x) : R[k] = <<>>
  BY DEF HeadOf
<1> HIDE DEF R
<1> QED
  BY <1>1, <1>2, FlatNothing

\* The bytes of a file hold no headers,
LEMMA BytesNoHeads ==
    ASSUME NEW u \in Uri, NEW j \in 0..Site[u].size
    PROVE  Heads(Bytes(u, j)) = <<>>
<1>1. \A k \in 1..Len(Bytes(u, j)) : Bytes(u, j)[k].kind # "head"
  <2>1. \A k \in 1..(Site[u].size - j) : Token("byte", u, j + k).kind # "head"
    BY DEF Token
  <2> QED
    BY <2>1, BytesType
<1> QED
  BY <1>1, BytesType, NoHeads

\* nor do empty lines,
LEMMA ZerosNoHeads ==
    ASSUME NEW u \in Uri, NEW n \in Nat
    PROVE  Heads(Zeros(u, n)) = <<>>
<1>1. \A k \in 1..Len(Zeros(u, n)) : Zeros(u, n)[k].kind # "head"
  BY ZerosType, LineType
<1> QED
  BY <1>1, ZerosType, NoHeads

\* nor does nothing,
LEMMA HeadsNone == Heads(<<>>) = <<>>
<1>1. <<>> \in Seq(Tokens) /\ \A k \in 1..Len(<<>>) : <<>>[k].kind # "head"
  OBVIOUS
<1> QED
  BY <1>1, NoHeads

\* nor does the body of a reply.
LEMMA BodyNoHeads ==
    ASSUME NEW u \in Uri, NEW j \in 0..Site[u].size
    PROVE  Heads(Body(u, j)) = <<>>
<1>1. Site[u].framing \in {"stream", "chunked", "closes", "none"} /\ Site[u].size \in Nat
  BY SiteType DEF Answer
<1>2. CASE Body(u, j) = <<Line(u, Site[u].size - j)>> \o (Bytes(u, j) \o Zeros(u, 3))
  <2>1. Bytes(u, j) \in Seq(Tokens) /\ Zeros(u, 3) \in Seq(Tokens)
    BY BytesType, ZerosType
  <2>2. Site[u].size - j \in Nat
    BY <1>1
  <2>3. /\ <<Line(u, Site[u].size - j)>> \in Seq(Tokens)
        /\ \A k \in 1..Len(<<Line(u, Site[u].size - j)>>) :
               <<Line(u, Site[u].size - j)>>[k].kind # "head"
    BY <2>2, LineType
  <2>4. Heads(<<Line(u, Site[u].size - j)>>) = <<>>
    BY <2>3, NoHeads
  <2>5. Heads(Bytes(u, j) \o Zeros(u, 3)) = <<>> \o <<>>
    BY <2>1, HeadsConcat, BytesNoHeads, ZerosNoHeads
  <2>6. Bytes(u, j) \o Zeros(u, 3) \in Seq(Tokens)
    BY <2>1
  <2> DEFINE one == <<Line(u, Site[u].size - j)>>
             rest == Bytes(u, j) \o Zeros(u, 3)
  <2> HIDE DEF one, rest
  <2>7. Heads(one \o rest) = Heads(one) \o Heads(rest)
    BY <2>3, <2>6, HeadsConcat DEF one, rest
  <2>8. Heads(one) = <<>> /\ Heads(rest) = <<>> /\ Body(u, j) = one \o rest
    BY <1>2, <2>4, <2>5 DEF one, rest
  <2> QED
    BY <2>7, <2>8
<1> QED
  BY SMTT(30), <1>1, <1>2, BodyCases, BytesNoHeads, ZerosNoHeads, HeadsNone

\* What is coming begins one reply for each, in order.
LEMMA HeadsComing ==
    ASSUME NEW rs \in Seq(Granted)
    PROVE  Heads(Coming(rs)) = Uris(rs)
<1> DEFINE S == {n \in Nat : \A x \in Seq(Granted) : Len(x) = n => Heads(Coming(x)) = Uris(x)}
<1>1. 0 \in S
  <2> SUFFICES ASSUME NEW x \in Seq(Granted), Len(x) = 0 PROVE Heads(Coming(x)) = Uris(x)
    OBVIOUS
  <2>1. x = <<>>
    OBVIOUS
  <2>2. Uris(<<>>) = <<>>
    BY DEF Uris
  <2> QED
    BY <2>1, <2>2, ComingNone, HeadsNone
<1>2. ASSUME NEW n \in Nat, n \in S PROVE n + 1 \in S
  <2> SUFFICES ASSUME NEW x \in Seq(Granted), Len(x) = n + 1 PROVE Heads(Coming(x)) = Uris(x)
    OBVIOUS
  <2> DEFINE y == Tail(x)
             r == Head(x)
  <2>0. x # <<>>
    OBVIOUS
  <2>1. /\ y \in Seq(Granted) /\ Len(y) = n /\ r \in Granted /\ r = x[1]
        /\ \A k \in 1..n : y[k] = x[k + 1]
    BY <2>0
  <2>2. Coming(x) = <<Token("head", r.uri, r.from)>> \o (Body(r.uri, r.from) \o Coming(y))
    BY <2>0, ComingFirst
  <2> HIDE DEF y, r
  <2>3. /\ r.uri \in Uri /\ r.from \in 0..Site[r.uri].size
        /\ Body(r.uri, r.from) \in Seq(Tokens) /\ Token("head", r.uri, r.from) \in Tokens
        /\ Coming(y) \in Seq(Tokens)
    BY <2>1, ReplyType, ComingType
  <2>4. Heads(Coming(y)) = Uris(y)
    BY <1>2, <2>1
  <2>5. Heads(<<Token("head", r.uri, r.from)>>) = <<r.uri>>
    <3>1. <<Token("head", r.uri, r.from)>> \in Seq(Tokens)
      BY <2>3
    <3>2. Heads(<<Token("head", r.uri, r.from)>>)
          = FlattenSeq([k \in 1..1 |-> HeadOf(<<Token("head", r.uri, r.from)>>[k])])
      BY <3>1, HeadsType
    <3>3. [k \in 1..1 |-> HeadOf(<<Token("head", r.uri, r.from)>>[k])] = << <<r.uri>> >>
      BY DEF HeadOf, Token
    <3>4. <<r.uri>> \in Seq(Named)
      BY <2>3 DEF Named
    <3> QED
      BY <3>2, <3>3, <3>4, FlatOne
  <2>6. Heads(Body(r.uri, r.from) \o Coming(y)) = <<>> \o Uris(y)
    BY <2>3, <2>4, HeadsConcat, BodyNoHeads
  <2>7. Uris(y) \in Seq(Named) /\ Len(Uris(y)) = n /\ \A k \in 1..n : Uris(y)[k] = y[k].uri
    <3>1. DOMAIN y = 1..n /\ \A k \in 1..n : y[k] \in Granted
      BY <2>1
    <3>2. \A k \in 1..n : y[k].uri \in Named
      BY <3>1 DEF Granted, Asking, Named
    <3> QED
      BY <3>1, <3>2 DEF Uris
  <2>8. <<Token("head", r.uri, r.from)>> \in Seq(Tokens) /\ Body(r.uri, r.from) \o Coming(y) \in Seq(Tokens)
    BY <2>3
  <2>9. Heads(Coming(x)) = <<r.uri>> \o Uris(y)
    <3>1. <<>> \o Uris(y) = Uris(y)
      BY <2>7
    <3> QED
      BY <2>2, <2>5, <2>6, <2>8, <3>1, HeadsConcat
  <2>10. <<r.uri>> \o Uris(y) = Uris(x)
    <3> DEFINE p == <<r.uri>> \o Uris(y)
               q == Uris(x)
    <3>1. <<r.uri>> \in Seq(Named)
      BY <2>3 DEF Named
    <3>2. p \in Seq(Named) /\ Len(p) = n + 1 /\ p[1] = r.uri /\ \A k \in 1..n : p[k + 1] = y[k].uri
      BY <2>7, <3>1
    <3>3. DOMAIN x = 1..(n + 1) /\ \A k \in 1..(n + 1) : x[k] \in Granted
      OBVIOUS
    <3>4. q \in Seq(Named) /\ Len(q) = n + 1 /\ \A k \in 1..(n + 1) : q[k] = x[k].uri
      <4>1. \A k \in 1..(n + 1) : x[k].uri \in Named
        BY <3>3 DEF Granted, Asking, Named
      <4> QED
        BY <3>3, <4>1 DEF Uris
    <3> HIDE DEF p, q
    <3>5. \A k \in 1..(n + 1) : p[k] = q[k]
      <4> TAKE k \in 1..(n + 1)
      <4>1. CASE k = 1
        BY <2>1, <3>2, <3>4, <4>1
      <4>2. CASE k # 1
        <5>1. k - 1 \in 1..n /\ (k - 1) + 1 = k
          BY <4>2
        <5> QED
          BY ZenonT(60), <2>1, <3>2, <3>4, <5>1
      <4> QED
        BY <4>1, <4>2
    <3>6. p = q
      BY <3>2, <3>4, <3>5
    <3> QED
      BY <3>6 DEF p, q
  <2> QED
    BY <2>9, <2>10
<1> HIDE DEF S
<1>3. Nat \subseteq S
  BY <1>1, <1>2, NatSet
<1> QED
  BY <1>3 DEF S

-----------------------------------------------------------------------------
(* What is under way.  base elements at the front of the queue are being    *)
(* answered; hung says that the server hangs up after that answer.          *)

\* The replies rs are those to the elements of the queue after the first base ones.
Fits(s, base, rs) ==
    /\ base + Len(rs) <= s.sent
    /\ \A k \in 1..Len(rs) : /\ rs[k].uri = s.queue[base + k].uri
                             /\ rs[k].from <= Len(s.file[s.queue[base + k].item])

\* What is in out is the rest of what counts as sent, and no reply is the last.
Agrees(s, base, hung, rs) ==
    /\ ~hung
    /\ \A k \in 1..Len(rs) : ~HangsUp(rs[k].uri)
    /\ base + Len(rs) + Len(s.out) = s.sent
    /\ \A k \in 1..Len(s.out) :
           /\ s.out[k].uri = s.queue[base + Len(rs) + k].uri
           /\ s.out[k].from <= Len(s.file[s.queue[base + Len(rs) + k].item])

\* What flows are the replies rs, but for the tokens lost.
Under(s, c, e, rest, base, hung, rs, lost) ==
    /\ Carries(s.in, c, lost, rest, Coming(rs))
    /\ Fits(s, base, rs)
    /\ hung => rs = <<>>
    /\ \A k \in 1..(Len(rs) - 1) : ~HangsUp(rs[k].uri)
    /\ s.open /\ ~e => lost = <<>> /\ Agrees(s, base, hung, rs)

\* What has come (s.in) and is on the wire (c) is the rest of a reply, and replies
\* to what has been sent; unless the end is lost, all that is due.
Flow(s, c, e, rest, base, hung) ==
    \E rs \in Seq(Granted) : \E lost \in Seq(Tokens) : Under(s, c, e, rest, base, hung, rs, lost)

\* The queue of t has where that of s has it what is under way.
Keeps(s, base, t, base1) ==
    /\ t.in = s.in /\ t.out = s.out /\ (t.open => s.open)
    /\ t.sent - base1 = s.sent - base
    /\ \A k \in 1..(s.sent - base) :
           /\ t.queue[base1 + k].uri = s.queue[base + k].uri
           /\ Len(s.file[s.queue[base + k].item]) <= Len(t.file[t.queue[base1 + k].item])

\* What has been asked for is in the queue, and its file is a sequence of tokens.
LEMMA FileLen ==
    ASSUME NEW s \in MethodType, NEW k \in 1..s.sent, s.sent <= Len(s.queue)
    PROVE  /\ s.queue[k] \in Queued /\ s.queue[k].item \in Item /\ s.queue[k].uri \in Uri
           /\ s.file[s.queue[k].item] \in Seq(Tokens)
           /\ Len(s.file[s.queue[k].item]) \in Nat
<1>1. s.queue \in Seq(Queued) /\ s.sent \in Nat /\ Len(s.queue) \in Nat
  BY DEF MethodType
<1>2. s.queue[k] \in Queued
  BY <1>1
<1>3. s.queue[k].item \in Item /\ s.queue[k].uri \in Uri
  BY <1>2 DEF Queued
<1>4. s.file[s.queue[k].item] \in Seq(Tokens)
  BY <1>3 DEF MethodType
<1> QED
  BY SMTT(30), <1>2, <1>3, <1>4

\* Replies that fit the queue of s fit that of t, if t keeps what is under way.
LEMMA FitsKeeps ==
    ASSUME NEW s \in MethodType, s.sent <= Len(s.queue), NEW t \in MethodType, t.sent <= Len(t.queue),
           NEW base \in Nat, NEW base1 \in Nat, Keeps(s, base, t, base1),
           NEW rs \in Seq(Granted), NEW hung
    PROVE  /\ Fits(s, base, rs) => Fits(t, base1, rs)
           /\ Fits(s, base, rs) /\ Agrees(s, base, hung, rs) => Agrees(t, base1, hung, rs)
<1>1. /\ Len(rs) \in Nat /\ s.sent \in Nat /\ t.sent \in Nat /\ t.out = s.out /\ Len(s.out) \in Nat
      /\ t.sent - base1 = s.sent - base
  BY DEF MethodType, Keeps
<1>2. \A k \in 1..Len(rs) : rs[k].from \in Nat
  BY DEF Granted, Asking
<1>3. \A k \in 1..Len(s.out) : s.out[k].from \in Nat
  <2>1. s.out \in Seq(Asking)
    BY DEF MethodType
  <2>2. \A k \in 1..Len(s.out) : s.out[k] \in Asking
    BY <2>1
  <2> QED
    BY <2>2 DEF Asking
<1>7. PICK a \in Nat, b \in Nat, d \in Nat, d1 \in Nat :
          a = Len(rs) /\ b = Len(s.out) /\ b = Len(t.out) /\ d = s.sent /\ d1 = t.sent /\ d1 - base1 = d - base
  BY <1>1
<1>8. d1 - base1 = d - base
  BY <1>7
<1>4. ASSUME NEW k \in 1..(s.sent - base), NEW f \in Nat, f <= Len(s.file[s.queue[base + k].item])
      PROVE  /\ f <= Len(t.file[t.queue[base1 + k].item])
             /\ t.queue[base1 + k].uri = s.queue[base + k].uri
  <2>1. base + k \in 1..s.sent /\ base1 + k \in 1..t.sent
    BY <1>1
  <2>2. Len(s.file[s.queue[base + k].item]) \in Nat /\ Len(t.file[t.queue[base1 + k].item]) \in Nat
    BY <2>1, FileLen
  <2>3. Len(s.file[s.queue[base + k].item]) <= Len(t.file[t.queue[base1 + k].item])
    BY DEF Keeps
  <2>4. t.queue[base1 + k].uri = s.queue[base + k].uri
    BY DEF Keeps
  <2>5. PICK x \in Nat, y \in Nat : /\ x = Len(s.file[s.queue[base + k].item])
                                    /\ y = Len(t.file[t.queue[base1 + k].item])
    BY <2>2
  <2>6. f <= x /\ x <= y
    BY <1>4, <2>3, <2>5
  <2>7. f <= y
    BY <2>6
  <2> QED
    BY <2>4, <2>5, <2>7
<1>5. ASSUME Fits(s, base, rs) PROVE Fits(t, base1, rs)
  <2>1. base + Len(rs) <= s.sent
    BY <1>5 DEF Fits
  <2>2. base1 + Len(rs) <= t.sent
    BY <1>1, <2>1
  <2>3. \A k \in 1..Len(rs) : /\ rs[k].uri = t.queue[base1 + k].uri
                              /\ rs[k].from <= Len(t.file[t.queue[base1 + k].item])
    <3> TAKE k \in 1..Len(rs)
    <3>1. k \in 1..(s.sent - base)
      BY <1>1, <2>1
    <3>2. rs[k].uri = s.queue[base + k].uri /\ rs[k].from <= Len(s.file[s.queue[base + k].item])
      BY <1>5 DEF Fits
    <3> QED
      BY <1>2, <1>4, <3>1, <3>2
  <2> QED
    BY <2>2, <2>3 DEF Fits
<1>6. ASSUME Fits(s, base, rs), Agrees(s, base, hung, rs) PROVE Agrees(t, base1, hung, rs)
  <2>1. base + Len(rs) + Len(s.out) = s.sent
    BY <1>6 DEF Agrees
  <2>2. base1 + Len(rs) + Len(t.out) = t.sent
    <3>1. base + a + b = d
      BY <1>7, <2>1
    <3>2. base1 + a + b = d1
      BY <1>8, <3>1
    <3> QED
      BY <1>7, <3>2
  <2>3. \A k \in 1..Len(t.out) :
            /\ t.out[k].uri = t.queue[base1 + Len(rs) + k].uri
            /\ t.out[k].from <= Len(t.file[t.queue[base1 + Len(rs) + k].item])
    <3> SUFFICES ASSUME NEW k \in 1..Len(s.out)
                 PROVE  /\ s.out[k].uri = t.queue[base1 + Len(rs) + k].uri
                        /\ s.out[k].from <= Len(t.file[t.queue[base1 + Len(rs) + k].item])
      BY <1>1
    <3> DEFINE j == Len(rs) + k
    <3>1. j \in 1..(s.sent - base) /\ base + Len(rs) + k = base + j /\ base1 + Len(rs) + k = base1 + j
      <4>1. base + a + b = d /\ k \in 1..b
        BY <1>7, <2>1
      <4>2. a + k \in 1..(d - base) /\ base + a + k = base + (a + k) /\ base1 + a + k = base1 + (a + k)
        BY <4>1
      <4> QED
        BY <1>7, <4>2
    <3>2. s.out[k].uri = s.queue[base + j].uri /\ s.out[k].from <= Len(s.file[s.queue[base + j].item])
      BY <1>6, <3>1 DEF Agrees
    <3> HIDE DEF j
    <3> QED
      BY <1>3, <1>4, <3>1, <3>2
  <2> QED
    BY <1>6, <2>2, <2>3 DEF Agrees
<1> QED
  BY <1>5, <1>6

\* What is under way stays under way.
LEMMA FlowKeeps ==
    ASSUME NEW s \in MethodType, s.sent <= Len(s.queue), NEW t \in MethodType, t.sent <= Len(t.queue),
           NEW base \in Nat, NEW base1 \in Nat, Keeps(s, base, t, base1),
           NEW c, NEW e, NEW rest, NEW hung, Flow(s, c, e, rest, base, hung)
    PROVE  Flow(t, c, e, rest, base1, hung)
<1>1. PICK rs \in Seq(Granted), lost \in Seq(Tokens) : Under(s, c, e, rest, base, hung, rs, lost)
  BY DEF Flow
<1>2. Under(t, c, e, rest, base1, hung, rs, lost)
  <2>1. t.in = s.in /\ (t.open => s.open)
    BY DEF Keeps
  <2>2. Fits(t, base1, rs) /\ (Agrees(s, base, hung, rs) => Agrees(t, base1, hung, rs))
    BY <1>1, FitsKeeps DEF Under
  <2> QED
    BY <1>1, <2>1, <2>2 DEF Under
<1> QED
  BY <1>2 DEF Flow

\* A state with the same queue, and with the same files of what is asked for, keeps it.
LEMMA KeepsItself ==
    ASSUME NEW s \in MethodType, s.sent <= Len(s.queue), NEW base \in Nat, NEW t,
           t.in = s.in, t.out = s.out, t.open => s.open, t.sent = s.sent, t.queue = s.queue,
           \A k \in (base + 1)..s.sent : t.file[s.queue[k].item] = s.file[s.queue[k].item]
    PROVE  Keeps(s, base, t, base)
<1>1. s.sent \in Nat
  BY DEF MethodType
<1>2. \A k \in 1..(s.sent - base) : base + k \in (base + 1)..s.sent /\ base + k \in 1..s.sent
  BY <1>1
<1>3. \A k \in 1..(s.sent - base) : Len(s.file[s.queue[base + k].item]) \in Nat
  BY <1>2, FileLen
<1>4. \A k \in 1..(s.sent - base) :
          Len(s.file[s.queue[base + k].item]) <= Len(t.file[t.queue[base + k].item])
  BY <1>2, <1>3
<1> QED
  BY <1>1, <1>4 DEF Keeps

\* It matters not whether the server hangs up.
LEMMA FlowUnhung ==
    ASSUME NEW s, NEW c, NEW e, NEW rest, NEW base, NEW hung, Flow(s, c, e, rest, base, hung)
    PROVE  Flow(s, c, e, rest, base, FALSE)
<1>1. PICK rs \in Seq(Granted), lost \in Seq(Tokens) : Under(s, c, e, rest, base, hung, rs, lost)
  BY DEF Flow
<1>2. Under(s, c, e, rest, base, FALSE, rs, lost)
  BY <1>1 DEF Under, Agrees
<1> QED
  BY <1>2 DEF Flow

\* Nothing has been asked for.
LEMMA FlowFresh ==
    ASSUME NEW s \in MethodType, s.in = <<>>, s.out = <<>>, s.sent = 0, NEW e
    PROVE  Flow(s, <<>>, e, <<>>, 0, FALSE)
<1>1. Carries(<<>>, <<>>, <<>>, <<>>, Coming(<<>>))
  <2>1. (<<>> \o <<>>) \o <<>> = <<>> \o <<>>
    OBVIOUS
  <2> QED
    BY <2>1, ComingNone DEF Carries
<1>2. Fits(s, 0, <<>>)
  BY DEF Fits
<1>3. Agrees(s, 0, FALSE, <<>>)
  BY DEF Agrees
<1>4. <<>> \in Seq(Granted) /\ <<>> \in Seq(Tokens) /\ \A k \in 1..(Len(<<>>) - 1) : ~HangsUp(<<>>[k].uri)
  OBVIOUS
<1>5. Under(s, <<>>, e, <<>>, 0, FALSE, <<>>, <<>>)
  BY <1>1, <1>2, <1>3, <1>4 DEF Under
<1> QED
  BY <1>4, <1>5 DEF Flow

\* t is s with x in its buffer.
Buffers(s, t, x) == t = [s EXCEPT !.in = x]

\* Tokens move from the wire to the buffer.
LEMMA FlowRead ==
    ASSUME NEW s \in MethodType, NEW c \in Seq(Tokens), NEW e, NEW rest \in Seq(Tokens),
           NEW base, NEW hung, Flow(s, c, e, rest, base, hung), NEW n \in 0..Len(c), NEW t,
           Buffers(s, t, s.in \o SubSeq(c, 1, n))
    PROVE  /\ t \in MethodType /\ SubSeq(c, n + 1, Len(c)) \in Seq(Tokens)
           /\ Flow(t, SubSeq(c, n + 1, Len(c)), e, rest, base, hung)
<1>1. PICK rs \in Seq(Granted), lost \in Seq(Tokens) : Under(s, c, e, rest, base, hung, rs, lost)
  BY DEF Flow
<1>2. Coming(rs) \in Seq(Tokens) /\ s.in \in Seq(Tokens) /\ Carries(s.in, c, lost, rest, Coming(rs))
  BY <1>1, ComingType DEF MethodType, Under
<1>3. /\ SubSeq(c, 1, n) \in Seq(Tokens) /\ s.in \o SubSeq(c, 1, n) \in Seq(Tokens)
      /\ SubSeq(c, n + 1, Len(c)) \in Seq(Tokens)
      /\ Carries(s.in \o SubSeq(c, 1, n), SubSeq(c, n + 1, Len(c)), lost, rest, Coming(rs))
  BY <1>2, ReadMore
<1> DEFINE x == s.in \o SubSeq(c, 1, n)
           c1 == SubSeq(c, n + 1, Len(c))
<1>4. t = [s EXCEPT !.in = x]
  BY DEF Buffers
<1> HIDE DEF x, c1
<1>5. x \in Seq(Tokens) /\ Carries(x, c1, lost, rest, Coming(rs)) /\ c1 \in Seq(Tokens)
  BY <1>3 DEF x, c1
<1>6. t \in MethodType /\ t.in = x /\ t.open = s.open /\ t.queue = s.queue /\ t.sent = s.sent
      /\ t.out = s.out /\ t.file = s.file
  BY <1>4, <1>5 DEF MethodType
<1>7. Fits(t, base, rs) /\ (Agrees(s, base, hung, rs) => Agrees(t, base, hung, rs))
  BY <1>1, <1>6 DEF Under, Fits, Agrees
<1>8. Under(t, c1, e, rest, base, hung, rs, lost)
  BY <1>1, <1>5, <1>6, <1>7 DEF Under
<1> QED
  BY <1>5, <1>6, <1>8 DEF Flow, c1

\* What is on the wire may get lost, if the connection or the server has ended.
LEMMA FlowCut ==
    ASSUME NEW s \in MethodType, NEW c \in Seq(Tokens), NEW e, NEW e1, NEW rest \in Seq(Tokens),
           NEW base, NEW hung, Flow(s, c, e, rest, base, hung), ~s.open \/ e1
    PROVE  Flow(s, <<>>, e1, rest, base, hung)
<1>1. PICK rs \in Seq(Granted), lost \in Seq(Tokens) : Under(s, c, e, rest, base, hung, rs, lost)
  BY DEF Flow
<1>2. Coming(rs) \in Seq(Tokens) /\ s.in \in Seq(Tokens) /\ Carries(s.in, c, lost, rest, Coming(rs))
  BY <1>1, ComingType DEF MethodType, Under
<1>3. c \o lost \in Seq(Tokens) /\ Carries(s.in, <<>>, c \o lost, rest, Coming(rs))
  BY <1>2, LoseWire
<1>4. Under(s, <<>>, e1, rest, base, hung, rs, c \o lost)
  BY <1>1, <1>3 DEF Under
<1> QED
  BY <1>3, <1>4 DEF Flow

\* n tokens of the rest of a reply are taken.
LEMMA FlowTake ==
    ASSUME NEW s \in MethodType, NEW c \in Seq(Tokens), NEW e, NEW rest \in Seq(Tokens),
           NEW base, NEW hung, Flow(s, c, e, rest, base, hung),
           NEW n \in Nat, n <= Len(s.in), n <= Len(rest), NEW t,
           Buffers(s, t, Drop(s.in, n))
    PROVE  /\ \A k \in 1..n : s.in[k] = rest[k]
           /\ t \in MethodType /\ Flow(t, c, e, Drop(rest, n), base, hung)
<1>1. PICK rs \in Seq(Granted), lost \in Seq(Tokens) : Under(s, c, e, rest, base, hung, rs, lost)
  BY DEF Flow
<1>2. Coming(rs) \in Seq(Tokens) /\ s.in \in Seq(Tokens) /\ Carries(s.in, c, lost, rest, Coming(rs))
  BY <1>1, ComingType DEF MethodType, Under
<1>3. /\ \A k \in 1..n : s.in[k] = rest[k]
      /\ Carries(Drop(s.in, n), c, lost, Drop(rest, n), Coming(rs))
  BY <1>2, Took
<1>4. Drop(s.in, n) \in Seq(Tokens)
  BY <1>2, DropType
<1> DEFINE x == Drop(s.in, n)
<1> HIDE DEF x
<1>5. t = [s EXCEPT !.in = x] /\ x \in Seq(Tokens)
  BY <1>4 DEF x, Buffers
<1>6. t \in MethodType /\ t.in = x /\ t.open = s.open /\ t.queue = s.queue /\ t.sent = s.sent
      /\ t.out = s.out /\ t.file = s.file
  BY <1>5 DEF MethodType
<1>7. Fits(t, base, rs) /\ (Agrees(s, base, hung, rs) => Agrees(t, base, hung, rs))
  BY <1>1, <1>6 DEF Under, Fits, Agrees
<1>8. Under(t, c, e, Drop(rest, n), base, hung, rs, lost)
  BY <1>1, <1>3, <1>6, <1>7 DEF Under, x
<1> QED
  BY <1>3, <1>6, <1>8 DEF Flow

\* Before a server hangs up comes the rest of its last reply, and nothing else.
LEMMA FlowLast ==
    ASSUME NEW s \in MethodType, NEW c \in Seq(Tokens), NEW e, NEW rest \in Seq(Tokens),
           NEW base, Flow(s, c, e, rest, base, TRUE)
    PROVE  Len(s.in) \in Nat /\ Len(s.in) <= Len(rest)
<1>1. PICK rs \in Seq(Granted), lost \in Seq(Tokens) : Under(s, c, e, rest, base, TRUE, rs, lost)
  BY DEF Flow
<1>2. s.in \in Seq(Tokens) /\ Carries(s.in, c, lost, rest, <<>>)
  BY <1>1, ComingNone DEF MethodType, Under
<1>3. PICK x \in Seq(Tokens) : x = s.in
  BY <1>2
<1>4. (x \o c) \o lost = rest \o <<>>
  BY <1>2, <1>3 DEF Carries
<1>5. Len((x \o c) \o lost) = (Len(x) + Len(c)) + Len(lost) /\ Len(rest \o <<>>) = Len(rest)
  OBVIOUS
<1> QED
  BY <1>3, <1>4, <1>5

\* Headers come: those of the reply to the head of the queue.
LEMMA FlowHead ==
    ASSUME NEW s \in MethodType, NEW c \in Seq(Tokens), NEW e, Flow(s, c, e, <<>>, 0, FALSE),
           s.sent <= Len(s.queue), s.in # <<>>, NEW t, Buffers(s, t, Tail(s.in))
    PROVE  \E r \in Granted :
             /\ Head(s.in) = Token("head", r.uri, r.from)
             /\ s.sent >= 1 /\ r.uri = s.queue[1].uri
             /\ r.from <= Len(s.file[s.queue[1].item])
             /\ t \in MethodType /\ Flow(t, c, e, Body(r.uri, r.from), 1, HangsUp(r.uri))
<1>1. PICK rs \in Seq(Granted), lost \in Seq(Tokens) : Under(s, c, e, <<>>, 0, FALSE, rs, lost)
  BY DEF Flow
<1>2. s.in \in Seq(Tokens) /\ Carries(s.in, c, lost, <<>>, Coming(rs))
  BY <1>1 DEF MethodType, Under
<1> DEFINE r == Head(rs)
           ts == Tail(rs)
           x == Tail(s.in)
<1>3. /\ rs # <<>> /\ r \in Granted /\ ts \in Seq(Granted) /\ x \in Seq(Tokens)
      /\ Head(s.in) = Token("head", r.uri, r.from)
      /\ Carries(x, c, lost, Body(r.uri, r.from), Coming(ts))
  BY <1>2, HeadComes
<1>4. /\ Len(rs) \in Nat /\ Len(rs) >= 1 /\ Len(ts) = Len(rs) - 1 /\ r = rs[1]
      /\ \A k \in 1..Len(ts) : ts[k] = rs[k + 1] /\ k + 1 \in 1..Len(rs)
  BY <1>3
<1>5. t = [s EXCEPT !.in = x] /\ x \in Seq(Tokens)
  BY <1>3 DEF Buffers
<1> HIDE DEF r, ts, x
<1>6. t \in MethodType /\ t.in = x /\ t.open = s.open /\ t.queue = s.queue /\ t.sent = s.sent
      /\ t.out = s.out /\ t.file = s.file
  BY <1>5 DEF MethodType
<1>7. s.sent \in Nat /\ Len(s.out) \in Nat
  BY DEF MethodType
<1>8. Fits(s, 0, rs)
  BY <1>1 DEF Under
<1>9. 0 + Len(rs) <= s.sent
  BY <1>8 DEF Fits
<1>10. s.sent >= 1
  BY <1>4, <1>7, <1>9
<1>11. \A k \in 1..Len(rs) : 0 + k = k
  OBVIOUS
<1>12. \A k \in 1..Len(rs) : rs[k].uri = s.queue[k].uri /\ rs[k].from <= Len(s.file[s.queue[k].item])
  BY <1>8, <1>11 DEF Fits
<1>13. r.uri = s.queue[1].uri /\ r.from <= Len(s.file[s.queue[1].item])
  BY <1>4, <1>12
<1>14. Fits(t, 1, ts)
  <2>1. 1 + Len(ts) <= t.sent
    BY <1>4, <1>6, <1>7, <1>9
  <2>2. \A k \in 1..Len(ts) : 1 + k = k + 1
    OBVIOUS
  <2> QED
    BY <1>4, <1>6, <1>12, <2>1, <2>2 DEF Fits
<1>15. \A k \in 1..(Len(rs) - 1) : ~HangsUp(rs[k].uri)
  BY <1>1 DEF Under
<1>16. HangsUp(r.uri) => ts = <<>>
  <2> SUFFICES ASSUME ts # <<>> PROVE ~HangsUp(r.uri)
    OBVIOUS
  <2>1. Len(ts) > 0
    BY <1>3
  <2>2. 1 \in 1..(Len(rs) - 1)
    BY <1>4, <2>1
  <2> QED
    BY <1>4, <1>15, <2>2
<1>17. \A k \in 1..(Len(ts) - 1) : ~HangsUp(ts[k].uri)
  <2> TAKE k \in 1..(Len(ts) - 1)
  <2>1. k \in 1..Len(ts) /\ k + 1 \in 1..(Len(rs) - 1)
    BY <1>4
  <2> QED
    BY <1>4, <1>15, <2>1
<1>18. ASSUME t.open, ~e PROVE lost = <<>> /\ Agrees(t, 1, HangsUp(r.uri), ts)
  <2>1. lost = <<>> /\ Agrees(s, 0, FALSE, rs)
    BY <1>1, <1>6, <1>18 DEF Under
  <2>2. ~HangsUp(r.uri)
    BY <1>4, <2>1 DEF Agrees
  <2>3. \A k \in 1..Len(ts) : ~HangsUp(ts[k].uri)
    BY <1>4, <2>1 DEF Agrees
  <2>4. 0 + Len(rs) + Len(s.out) = s.sent
    BY <2>1 DEF Agrees
  <2>5. 1 + Len(ts) + Len(t.out) = t.sent
    BY <1>4, <1>6, <1>7, <2>4
  <2>6. \A k \in 1..Len(s.out) : 0 + Len(rs) + k = 1 + Len(ts) + k
    BY <1>4
  <2>7. \A k \in 1..Len(t.out) :
           /\ t.out[k].uri = t.queue[1 + Len(ts) + k].uri
           /\ t.out[k].from <= Len(t.file[t.queue[1 + Len(ts) + k].item])
    BY <1>6, <2>1, <2>6 DEF Agrees
  <2> QED
    BY <2>1, <2>2, <2>3, <2>5, <2>7 DEF Agrees
<1>19. Under(t, c, e, Body(r.uri, r.from), 1, HangsUp(r.uri), ts, lost)
  BY <1>3, <1>6, <1>14, <1>16, <1>17, <1>18 DEF Under
<1>20. Flow(t, c, e, Body(r.uri, r.from), 1, HangsUp(r.uri))
  BY <1>3, <1>19 DEF Flow
<1> QED
  BY <1>3, <1>6, <1>10, <1>13, <1>20

\* More is put into the queue, and asked for.
LEMMA FlowExtends ==
    ASSUME NEW s \in MethodType, s.sent <= Len(s.queue), NEW t, NEW ms \in Seq(Queued), Extends(s, t, ms),
           NEW base \in Nat, NEW c, NEW e, NEW rest, NEW hung, Flow(s, c, e, rest, base, hung)
    PROVE  Flow(t, c, e, rest, base, hung)
<1>1. PICK rs \in Seq(Granted), lost \in Seq(Tokens) : Under(s, c, e, rest, base, hung, rs, lost)
  BY DEF Flow
<1>2. /\ t \in MethodType /\ t.queue = s.queue \o ms /\ s.sent <= t.sent /\ t.sent <= Len(t.queue)
      /\ t = [s EXCEPT !.queue = t.queue, !.sent = t.sent, !.out = t.out, !.choke = t.choke]
  BY DEF Extends
<1>3. t.in = s.in /\ t.open = s.open /\ t.file = s.file
  BY <1>2 DEF MethodType
<1>4. /\ s.queue \in Seq(Queued) /\ s.sent \in Nat /\ t.sent \in Nat /\ Len(s.queue) \in Nat
      /\ Len(s.out) \in Nat /\ Len(t.out) \in Nat /\ Len(rs) \in Nat
  BY <1>2 DEF MethodType
<1>5. \A k \in 1..s.sent : t.queue[k] = s.queue[k]
  <2>1. \A k \in 1..Len(s.queue) : (s.queue \o ms)[k] = s.queue[k]
    BY <1>4
  <2> QED
    BY <1>2, <1>4, <2>1
<1>6. Fits(s, base, rs)
  BY <1>1 DEF Under
<1>7. base + Len(rs) <= s.sent
  BY <1>6 DEF Fits
<1>8. Fits(t, base, rs)
  <2>1. base + Len(rs) <= t.sent
    BY <1>2, <1>4, <1>7
  <2>2. \A k \in 1..Len(rs) : base + k \in 1..s.sent
    BY <1>4, <1>7
  <2> QED
    BY <1>3, <1>5, <1>6, <2>1, <2>2 DEF Fits
<1>9. ASSUME Agrees(s, base, hung, rs) PROVE Agrees(t, base, hung, rs)
  <2>1. Len(t.out) = Len(s.out) + (t.sent - s.sent)
    BY DEF Extends
  <2>2. base + Len(rs) + Len(s.out) = s.sent
    BY <1>9 DEF Agrees
  <2>3. PICK a \in Nat, b \in Nat, d \in Nat, d1 \in Nat, b1 \in Nat :
            a = Len(rs) /\ b = Len(s.out) /\ d = s.sent /\ d1 = t.sent /\ b1 = Len(t.out)
    BY <1>4
  <2>4. b1 = b + (d1 - d) /\ base + a + b = d /\ d <= d1
    BY <1>2, <2>1, <2>2, <2>3
  <2>5. base + a + b1 = d1
    BY <2>4
  <2>6. \A k \in 1..b1 :
            /\ t.out[k].uri = t.queue[base + a + k].uri
            /\ t.out[k].from <= Len(t.file[t.queue[base + a + k].item])
    <3> TAKE k \in 1..b1
    <3>1. CASE k <= b
      <4>1. k \in 1..b /\ base + a + k \in 1..d
        BY <2>4, <3>1
      <4>2. t.out[k] = s.out[k]
        BY <2>3, <4>1 DEF Extends
      <4>3. s.out[k].uri = s.queue[base + a + k].uri /\ s.out[k].from <= Len(s.file[s.queue[base + a + k].item])
        BY <1>9, <2>3, <4>1 DEF Agrees
      <4>4. t.queue[base + a + k] = s.queue[base + a + k]
        BY <1>5, <2>3, <4>1
      <4> QED
        BY <1>3, <4>2, <4>3, <4>4
    <3>2. CASE k > b
      <4> DEFINE j == k - b
      <4>1. j \in 1..(d1 - d) /\ k = b + j /\ base + a + k = d + j /\ d + j \in 1..d1
        BY <2>4, <3>2
      <4> HIDE DEF j
      <4>2. t.out[k] = Request(s, t.queue[d + j])
        BY <2>3, <4>1 DEF Extends
      <4>3. t.queue[d + j] \in Queued /\ Len(t.file[t.queue[d + j].item]) \in Nat
        BY <1>2, <2>3, <4>1, FileLen
      <4>4. /\ Request(s, t.queue[d + j]).uri = t.queue[d + j].uri
            /\ Request(s, t.queue[d + j]).from <= Len(t.file[t.queue[d + j].item])
        BY <1>3, <4>3 DEF Request
      <4> QED
        BY <4>1, <4>2, <4>4
    <3> QED
      BY <3>1, <3>2
  <2>7. base + Len(rs) + Len(t.out) = t.sent
    BY <2>3, <2>5
  <2> QED
    BY <1>9, <2>3, <2>6, <2>7 DEF Agrees
<1>10. Under(t, c, e, rest, base, hung, rs, lost)
  BY <1>1, <1>3, <1>8, <1>9 DEF Under
<1> QED
  BY <1>10 DEF Flow

\* The server answers what it is asked for, up to the last it answers.
LEMMA RepliesComing ==
    ASSUME NEW qs \in Seq(Asking), NEW g \in BOOLEAN, qs # <<>>
    PROVE  \E gs \in Seq(Granted) :
             /\ Replies(qs, g) = Coming(gs) /\ Len(gs) <= Len(qs)
             /\ \A k \in 1..Len(gs) : gs[k].uri = qs[k].uri /\ gs[k].from <= qs[k].from
             /\ \A k \in 1..(Len(gs) - 1) : ~HangsUp(gs[k].uri)
             /\ (\A k \in 1..Len(qs) : ~HangsUp(qs[k].uri)) => Len(gs) = Len(qs)
<1> DEFINE hs   == {Len(qs)} \cup {k \in DOMAIN qs : HangsUp(qs[k].uri)}
           last == Min(hs)
           St(r) == IF g /\ Site[r.uri].code = "ok" /\ r.from < Site[r.uri].size THEN r.from ELSE 0
           gs == [k \in 1..last |-> [uri |-> qs[k].uri, from |-> St(qs[k])]]
<1>1. Len(qs) \in Nat /\ DOMAIN qs = 1..Len(qs) /\ \A k \in 1..Len(qs) : qs[k] \in Asking
  OBVIOUS
<1>0. PICK N \in Nat : N = Len(qs)
  BY <1>1
<1>2. last \in 0..Len(qs) /\ last \in hs /\ \A k \in hs : last <= k
  <2>1. hs \in SUBSET Nat /\ hs # {} /\ Len(qs) \in hs
    BY <1>1
  <2> HIDE DEF hs
  <2>2. last \in hs /\ \A k \in hs : last <= k
    BY <2>1, MinIn
  <2> HIDE DEF last
  <2>3. last \in Nat /\ last <= N /\ N \in hs
    BY <1>0, <2>1, <2>2
  <2>4. last \in 0..N
    BY <2>3
  <2> QED
    BY <1>0, <2>2, <2>4
<1> HIDE DEF last
<1>20. last \in Nat /\ last <= N
  BY <1>0, <1>2
<1>3. \A k \in 1..last : k \in 1..Len(qs) /\ qs[k] \in Asking
  <2>1. \A k \in 1..last : k \in 1..N
    BY <1>20
  <2> QED
    BY <1>0, <1>1, <2>1
<1>4. \A r \in Asking : [uri |-> r.uri, from |-> St(r)] \in Granted /\ St(r) <= r.from
  BY DEF Asking, Granted
<1>5. gs \in Seq(Granted) /\ Len(gs) = last
  <2> HIDE DEF St
  <2>1. \A k \in 1..last : [uri |-> qs[k].uri, from |-> St(qs[k])] \in Granted
    BY <1>3, <1>4
  <2>2. last \in Nat
    BY <1>2
  <2> QED
    BY <2>1, <2>2
<1>6. \A k \in 1..last : gs[k] = [uri |-> qs[k].uri, from |-> St(qs[k])]
  OBVIOUS
<1>7. Replies(qs, g) = Coming(gs)
  <2>1. Replies(qs, g) = FlattenSeq([k \in 1..last |-> Reply(qs[k].uri, St(qs[k]))])
    BY DEF Replies, last
  <2> HIDE DEF gs, St
  <2>2. [k \in 1..last |-> Reply(qs[k].uri, St(qs[k]))] = [k \in 1..Len(gs) |-> Reply(gs[k].uri, gs[k].from)]
    BY <1>5, <1>6
  <2> QED
    BY <2>1, <2>2 DEF Coming
<1>8. \A k \in 1..Len(gs) : gs[k].uri = qs[k].uri /\ gs[k].from <= qs[k].from
  <2> HIDE DEF gs, St
  <2> QED
    BY <1>3, <1>4, <1>5, <1>6
<1>9. \A k \in 1..(last - 1) : ~HangsUp(qs[k].uri)
  <2> SUFFICES ASSUME NEW k \in 1..(last - 1), HangsUp(qs[k].uri) PROVE FALSE
    OBVIOUS
  <2>1. k \in DOMAIN qs /\ k < last
    <3>1. k \in 1..N /\ k < last
      BY <1>20
    <3> QED
      BY <1>0, <1>1, <3>1
  <2>2. k \in hs
    BY <2>1
  <2> QED
    BY <1>2, <2>1, <2>2
<1>10. (\A k \in 1..Len(qs) : ~HangsUp(qs[k].uri)) => last = Len(qs)
  BY <1>1, <1>2
<1> HIDE DEF gs
<1>11. \A k \in 1..(Len(gs) - 1) : ~HangsUp(gs[k].uri)
  <2> TAKE k \in 1..(Len(gs) - 1)
  <2>1. k \in 1..(last - 1) /\ k \in 1..Len(gs)
    BY <1>2, <1>5
  <2> QED
    BY <1>8, <1>9, <2>1
<1>12. Len(gs) <= Len(qs)
  BY <1>2, <1>5
<1> QED
  BY <1>5, <1>7, <1>8, <1>10, <1>11, <1>12

\* What is in out is sent.
\* t is s when what it had to send is gone.
Sends(s, t) == t = [s EXCEPT !.out = <<>>]

\* The server of the wire c, e gets the requests rs, and c1, e1 is its wire then.
Serves(rs, c, e, c1, e1) ==
    IF e THEN c1 = c /\ e1 = e
    ELSE /\ \E g \in BOOLEAN : c1 = c \o Replies(rs, g)
         /\ e1 = (\E k \in DOMAIN rs : HangsUp(rs[k].uri))

\* The buffered requests go out, and replies to them come.
LEMMA FlowSend ==
    ASSUME NEW s \in MethodType, s.sent <= Len(s.queue), s.open, s.out # <<>>,
           NEW base \in Nat, NEW c \in Seq(Tokens), NEW e \in BOOLEAN, NEW rest \in Seq(Tokens), NEW hung,
           Flow(s, c, e, rest, base, hung), NEW c1, NEW e1,
           Serves(s.out, c, e, c1, e1), NEW t, Sends(s, t)
    PROVE  /\ c1 \in Seq(Tokens) /\ e1 \in BOOLEAN /\ t \in MethodType
           /\ Flow(t, c1, e1, rest, base, hung)
<1>1. PICK rs \in Seq(Granted), lost \in Seq(Tokens) : Under(s, c, e, rest, base, hung, rs, lost)
  BY DEF Flow
<1>2. s.out \in Seq(Asking) /\ s.in \in Seq(Tokens) /\ s.sent \in Nat
  BY DEF MethodType
<1>3. /\ t \in MethodType /\ t.in = s.in /\ t.open = s.open /\ t.queue = s.queue /\ t.sent = s.sent
      /\ t.out = <<>> /\ t.file = s.file
  <2>1. <<>> \in Seq(Asking)
    OBVIOUS
  <2> QED
    BY <2>1 DEF MethodType, Sends
<1>4. Fits(t, base, rs)
  BY <1>1, <1>3 DEF Under, Fits
<1>5. CASE e
  <2>1. Under(t, c1, e1, rest, base, hung, rs, lost)
    BY <1>1, <1>3, <1>4, <1>5 DEF Under, Serves
  <2> QED
    BY <1>3, <1>5, <2>1 DEF Flow, Serves
<1>6. CASE ~e
  <2>1. PICK g \in BOOLEAN : c1 = c \o Replies(s.out, g)
    BY <1>6 DEF Serves
  <2>2. PICK gs \in Seq(Granted) :
             /\ Replies(s.out, g) = Coming(gs) /\ Len(gs) <= Len(s.out)
             /\ \A k \in 1..Len(gs) : gs[k].uri = s.out[k].uri /\ gs[k].from <= s.out[k].from
             /\ \A k \in 1..(Len(gs) - 1) : ~HangsUp(gs[k].uri)
             /\ (\A k \in 1..Len(s.out) : ~HangsUp(s.out[k].uri)) => Len(gs) = Len(s.out)
    BY <1>2, RepliesComing
  <2>3. lost = <<>> /\ Agrees(s, base, hung, rs) /\ Carries(s.in, c, <<>>, rest, Coming(rs))
    BY <1>1, <1>6 DEF Under
  <2>4. Coming(gs) \in Seq(Tokens) /\ Coming(rs) \in Seq(Tokens) /\ c1 = c \o Coming(gs)
    BY <2>1, <2>2, ComingType
  <2>5. c1 \in Seq(Tokens)
    BY <2>4
  <2>6. e1 = \E k \in 1..Len(s.out) : HangsUp(s.out[k].uri)
    <3>1. DOMAIN s.out = 1..Len(s.out)
      BY <1>2
    <3> QED
      BY <1>6, <3>1 DEF Serves
  <2> DEFINE ts == rs \o gs
  <2>7. /\ ts \in Seq(Granted) /\ Len(ts) = Len(rs) + Len(gs) /\ Len(rs) \in Nat /\ Len(gs) \in Nat
        /\ \A k \in 1..Len(rs) : ts[k] = rs[k]
        /\ \A k \in 1..Len(gs) : ts[Len(rs) + k] = gs[k]
    OBVIOUS
  <2>8. Carries(t.in, c1, <<>>, rest, Coming(ts))
    <3>1. Carries(s.in, c \o Coming(gs), <<>>, rest, Coming(rs) \o Coming(gs))
      BY <1>2, <2>3, <2>4, SendMore
    <3>2. Coming(ts) = Coming(rs) \o Coming(gs)
      BY ComingConcat
    <3> QED
      BY <1>3, <2>4, <3>1, <3>2
  <2> HIDE DEF ts
  <2>9. base + Len(rs) + Len(s.out) = s.sent
    BY <2>3 DEF Agrees
  <2>10. \A k \in 1..Len(s.out) :
           /\ s.out[k].uri = s.queue[base + Len(rs) + k].uri
           /\ s.out[k].from <= Len(s.file[s.queue[base + Len(rs) + k].item])
    BY <2>3 DEF Agrees
  <2>11. PICK a \in Nat, b \in Nat, d \in Nat : a = Len(rs) /\ b = Len(s.out) /\ d = Len(gs) /\ d <= b
    <3>1. Len(s.out) \in Nat
      BY <1>2
    <3> QED
      BY <2>2, <2>7, <3>1
  <2>12. base + a + b = s.sent
    BY <2>9, <2>11
  <2>20. base + a + d <= s.sent
    <3>1. PICK S \in Nat : S = s.sent
      BY <1>2
    <3>2. base + a + b = S /\ d <= b
      BY <2>11, <2>12, <3>1
    <3>3. base + a + d <= S
      BY <3>2
    <3> QED
      BY <3>1, <3>3
  <2>13. Fits(t, base, ts)
    <3>1. base + Len(ts) <= t.sent
      BY <1>3, <2>7, <2>11, <2>20
    <3>2. \A k \in 1..Len(ts) : /\ ts[k].uri = s.queue[base + k].uri
                                /\ ts[k].from <= Len(s.file[s.queue[base + k].item])
      <4> TAKE k \in 1..Len(ts)
      <4>1. CASE k <= a
        <5>1. k \in 1..Len(rs)
          BY <2>7, <2>11, <4>1
        <5> QED
          BY <1>1, <2>7, <5>1 DEF Under, Fits
      <4>2. CASE k > a
        <5> DEFINE j == k - a
        <5>1. j \in 1..d /\ j \in 1..b /\ k = a + j /\ base + k = base + a + j /\ base + a + j \in 1..s.sent
          <6>1. PICK f \in Nat : f = s.sent
            BY <1>2
          <6>2. k \in 1..(a + d) /\ base + a + b = f /\ d <= b
            BY <2>7, <2>11, <2>12, <6>1
          <6>3. j \in 1..d /\ j \in 1..b /\ k = a + j /\ base + k = base + a + j /\ base + a + j \in 1..f
            BY <4>2, <6>2
          <6> QED
            BY <6>1, <6>3
        <5> HIDE DEF j
        <5>2. ts[k] = gs[j] /\ gs[j].uri = s.out[j].uri /\ gs[j].from <= s.out[j].from
          BY <2>2, <2>7, <2>11, <5>1
        <5>3. /\ s.out[j].uri = s.queue[base + k].uri
              /\ s.out[j].from <= Len(s.file[s.queue[base + k].item])
          BY <2>10, <2>11, <5>1
        <5>4. gs[j].from \in Nat /\ s.out[j].from \in Nat /\ Len(s.file[s.queue[base + k].item]) \in Nat
          <6>1. gs[j] \in Granted /\ s.out[j] \in Asking
            BY <1>2, <2>11, <5>1
          <6> QED
            BY <5>1, <6>1, FileLen DEF Granted, Asking
        <5>5. gs[j].from <= Len(s.file[s.queue[base + k].item])
          <6>1. PICK x \in Nat, y \in Nat, z \in Nat :
                   x = gs[j].from /\ y = s.out[j].from /\ z = Len(s.file[s.queue[base + k].item])
            BY <5>4
          <6>2. x <= y /\ y <= z
            BY <5>2, <5>3, <6>1
          <6>3. x <= z
            BY <6>2
          <6> QED
            BY <6>1, <6>3
        <5> QED
          BY <5>2, <5>3, <5>5
      <4> QED
        BY <2>7, <2>11, <4>1, <4>2
    <3> QED
      BY <1>3, <3>1, <3>2 DEF Fits
  <2>14. ~hung /\ \A k \in 1..Len(rs) : ~HangsUp(rs[k].uri)
    BY <2>3 DEF Agrees
  <2>15. \A k \in 1..(Len(ts) - 1) : ~HangsUp(ts[k].uri)
    <3> TAKE k \in 1..(Len(ts) - 1)
    <3>1. CASE k <= a
      <4>1. k \in 1..Len(rs)
        BY <2>7, <2>11, <3>1
      <4> QED
        BY <2>7, <2>14, <4>1
    <3>2. CASE k > a
      <4>1. k - a \in 1..(d - 1) /\ k - a \in 1..d /\ k = a + (k - a)
        BY <2>7, <2>11, <3>2
      <4> QED
        BY <2>2, <2>7, <2>11, <4>1
    <3> QED
      BY <2>7, <2>11, <3>1, <3>2
  <2>16. ASSUME ~e1 PROVE Agrees(t, base, hung, ts)
    <3>1. \A k \in 1..Len(s.out) : ~HangsUp(s.out[k].uri)
      BY <2>6, <2>16
    <3>2. d = b
      BY <2>2, <2>11, <3>1
    <3>3. \A k \in 1..Len(ts) : ~HangsUp(ts[k].uri)
      <4> TAKE k \in 1..Len(ts)
      <4>1. CASE k <= a
        <5>1. k \in 1..Len(rs)
          BY <2>7, <2>11, <4>1
        <5> QED
          BY <2>7, <2>14, <5>1
      <4>2. CASE k > a
        <5>1. k - a \in 1..d /\ k = a + (k - a)
          BY <2>7, <2>11, <4>2
        <5>2. gs[k - a].uri = s.out[k - a].uri /\ ~HangsUp(s.out[k - a].uri)
          BY <2>2, <2>11, <3>1, <3>2, <5>1
        <5>3. ts[k] = gs[k - a]
          BY <2>7, <2>11, <5>1
        <5> QED
          BY <5>2, <5>3
      <4> QED
        BY <2>7, <2>11, <4>1, <4>2
    <3>4. base + Len(ts) + Len(t.out) = t.sent
      <4>1. Len(t.out) = 0 /\ Len(ts) = a + b
        BY <1>3, <2>7, <2>11, <3>2
      <4> QED
        BY <1>2, <1>3, <2>12, <4>1
    <3>5. 1..Len(t.out) = {}
      BY <1>3
    <3> QED
      BY <2>14, <3>3, <3>4, <3>5 DEF Agrees
  <2>17. <<>> \in Seq(Tokens)
    OBVIOUS
  <2>18. Under(t, c1, e1, rest, base, hung, ts, <<>>)
    BY <2>8, <2>13, <2>14, <2>15, <2>16 DEF Under
  <2>19. e1 \in BOOLEAN
    BY <2>6
  <2> QED
    BY <1>3, <2>5, <2>7, <2>17, <2>18, <2>19 DEF Flow
<1> QED
  BY <1>5, <1>6

-----------------------------------------------------------------------------
(* What is under way is in step with the queue.                             *)

\* The URIs of a sequence of records.
LEMMA UrisType ==
    ASSUME NEW S, NEW x \in Seq(S), \A r \in S : r.uri \in Named
    PROVE  /\ Uris(x) \in Seq(Named) /\ Len(Uris(x)) = Len(x)
           /\ \A k \in 1..Len(x) : Uris(x)[k] = x[k].uri
<1>1. DOMAIN x = 1..Len(x) /\ \A k \in 1..Len(x) : x[k] \in S
  OBVIOUS
<1>2. \A k \in 1..Len(x) : x[k].uri \in Named
  BY <1>1
<1> QED
  BY <1>1, <1>2 DEF Uris

\* What flows is in step with the queue: the heads under way and what waits to be sent are what
\* the queue counts as sent.
LEMMA FlowInStep ==
    ASSUME NEW s \in MethodType, s.sent <= Len(s.queue), NEW base \in Nat, base <= s.sent,
           NEW c \in Seq(Tokens), NEW e,
           NEW rest \in Seq(Tokens), Heads(rest) = <<>>, NEW hung, Flow(s, c, e, rest, base, hung)
    PROVE  LET due == Uris(SubSeq(s.queue, base + 1, s.sent)) IN
           IF s.open /\ ~e THEN Heads(s.in \o c) \o Uris(s.out) = due
           ELSE IsPrefix(Heads(s.in \o c), due)
<1>1. PICK rs \in Seq(Granted), lost \in Seq(Tokens) : Under(s, c, e, rest, base, hung, rs, lost)
  BY DEF Flow
<1>2. Coming(rs) \in Seq(Tokens) /\ s.in \in Seq(Tokens) /\ Carries(s.in, c, lost, rest, Coming(rs))
  BY <1>1, ComingType DEF MethodType, Under
<1>3. PICK x \in Seq(Tokens) : x = s.in \o c
  <2>1. s.in \o c \in Seq(Tokens)
    BY <1>2
  <2> QED
    BY <2>1
<1>4. /\ \A r \in Granted : r.uri \in Named
      /\ \A r \in Asking : r.uri \in Named
      /\ \A r \in Queued : r.uri \in Named
  BY DEF Granted, Asking, Queued, Named
<1>5. PICK us \in Seq(Named) : us = Uris(rs) /\ Len(us) = Len(rs) /\ \A k \in 1..Len(rs) : us[k] = rs[k].uri
  BY <1>4, UrisType
<1>6. PICK h \in Seq(Named), l \in Seq(Named) : h = Heads(x) /\ l = Heads(lost)
  BY HeadsType
<1>7. h \o l = us
  <2>1. Heads(x \o lost) = h \o l
    BY <1>6, HeadsConcat
  <2>2. x \o lost = rest \o Coming(rs)
    BY <1>2, <1>3 DEF Carries
  <2>3. Heads(rest \o Coming(rs)) = <<>> \o us
    BY <1>2, <1>5, HeadsConcat, HeadsComing
  <2>4. <<>> \o us = us
    OBVIOUS
  <2> QED
    BY <2>1, <2>2, <2>3, <2>4
<1> DEFINE q == SubSeq(s.queue, base + 1, s.sent)
           due == Uris(q)
<1>8. s.sent \in Nat /\ s.queue \in Seq(Queued) /\ s.out \in Seq(Asking)
  BY DEF MethodType
<1>9. q \in Seq(Queued) /\ Len(q) = s.sent - base /\ \A k \in 1..(s.sent - base) : q[k] = s.queue[base + k]
  <2>1. PICK x1 \in Seq(Queued), N \in Nat : x1 = s.queue /\ N = s.sent
    BY <1>8
  <2>2. base <= N /\ N <= Len(x1) /\ q = SubSeq(x1, base + 1, N)
    BY <2>1
  <2> HIDE DEF q
  <2>3. q \in Seq(Queued) /\ Len(q) = N - base /\ \A k \in 1..(N - base) : q[k] = x1[base + k]
    BY <2>2
  <2> QED
    BY <2>1, <2>3
<1> HIDE DEF q
<1>10. /\ due \in Seq(Named) /\ Len(due) = s.sent - base
       /\ \A k \in 1..(s.sent - base) : due[k] = s.queue[base + k].uri
  BY SMTT(30), <1>4, <1>9, UrisType
<1> HIDE DEF due
<1>11. base + Len(rs) <= s.sent /\ \A k \in 1..Len(rs) : rs[k].uri = s.queue[base + k].uri
  BY <1>1 DEF Under, Fits
<1>12. PICK n \in Nat, d \in Nat : n = Len(rs) /\ d = s.sent - base
  BY <1>8
<1>13. n <= d /\ Len(us) = n /\ Len(due) = d /\ \A k \in 1..n : us[k] = due[k]
  <2>1. n <= d
    BY <1>8, <1>11, <1>12
  <2>2. \A k \in 1..n : k \in 1..d
    BY <2>1
  <2> QED
    BY <1>5, <1>10, <1>11, <1>12, <2>1, <2>2
<1>14. CASE s.open /\ ~e
  <2>1. lost = <<>> /\ Agrees(s, base, hung, rs)
    BY <1>1, <1>14 DEF Under
  <2>2. h = us
    <3>1. l = <<>>
      BY <1>6, <2>1, HeadsNone
    <3>2. h \o <<>> = h
      OBVIOUS
    <3> QED
      BY <1>7, <3>1, <3>2
  <2>3. PICK o \in Seq(Named) : o = Uris(s.out) /\ Len(o) = Len(s.out) /\ \A k \in 1..Len(s.out) : o[k] = s.out[k].uri
    BY <1>4, <1>8, UrisType
  <2>4. base + Len(rs) + Len(s.out) = s.sent
    BY <2>1 DEF Agrees
  <2>5. PICK b \in Nat : b = Len(s.out)
    BY <1>8
  <2>6. n + b = d
    <3>1. PICK N \in Nat : N = s.sent
      BY <1>8
    <3>2. base + n + b = N /\ d = N - base
      BY <1>12, <2>4, <2>5, <3>1
    <3> QED
      BY <3>2
  <2>7. \A k \in 1..b : o[k] = due[n + k]
    <3> TAKE k \in 1..b
    <3>1. n + k \in 1..d /\ base + n + k = base + (n + k)
      BY <2>6
    <3>2. o[k] = s.queue[base + n + k].uri
      BY <1>12, <2>1, <2>3, <2>5 DEF Agrees
    <3> QED
      BY <1>10, <1>12, <3>1, <3>2
  <2>8. us \o o = due
    <3>1. PICK y \in Seq(Named) : y = us \o o
      <4>1. us \o o \in Seq(Named)
        OBVIOUS
      <4> QED
        BY <4>1
    <3>2. Len(us) = n /\ Len(o) = b
      BY <1>13, <2>3, <2>5
    <3>3. /\ Len(us \o o) = Len(us) + Len(o)
          /\ \A k \in 1..(Len(us) + Len(o)) : (us \o o)[k] = IF k <= Len(us) THEN us[k] ELSE o[k - Len(us)]
      OBVIOUS
    <3>4. Len(y) = d /\ \A k \in 1..d : y[k] = IF k <= n THEN us[k] ELSE o[k - n]
      BY <2>6, <3>1, <3>2, <3>3
    <3>5. \A k \in 1..d : y[k] = due[k]
      <4> TAKE k \in 1..d
      <4>1. CASE k <= n
        <5>1. k \in 1..n
          BY <4>1
        <5> QED
          BY <1>13, <3>4, <4>1, <5>1
      <4>2. CASE k > n
        <5>1. k - n \in 1..b /\ n + (k - n) = k /\ ~(k <= n)
          BY <2>6, <4>2
        <5> QED
          BY <2>7, <3>4, <5>1
      <4> QED
        BY <4>1, <4>2
    <3>6. due \in Seq(Named) /\ Len(due) = d
      BY <1>10, <1>13
    <3>7. y = due
      BY <3>4, <3>5, <3>6
    <3> QED
      BY <3>1, <3>7
  <2> QED
    BY <1>3, <1>6, <1>14, <2>2, <2>3, <2>8 DEF due, q
<1>15. CASE ~(s.open /\ ~e)
  <2>1. PICK a \in Nat : a = Len(h) /\ a <= n
    <3>1. Len(h \o l) = Len(h) + Len(l) /\ Len(h) \in Nat /\ Len(l) \in Nat
      OBVIOUS
    <3> QED
      BY <1>7, <1>13, <3>1
  <2>2. \A k \in 1..a : h[k] = due[k]
    <3> TAKE k \in 1..a
    <3>1. k \in 1..n /\ (h \o l)[k] = h[k]
      BY <2>1
    <3> QED
      BY <1>7, <1>13, <3>1
  <2>3. IsPrefix(h, due)
    <3>1. a <= d
      BY <1>13, <2>1
    <3>2. SubSeq(h, 1, a) = SubSeq(due, 1, a)
      <4>1. SubSeq(h, 1, a) \in Seq(Named) /\ Len(SubSeq(h, 1, a)) = a /\ \A k \in 1..a : SubSeq(h, 1, a)[k] = h[k]
        BY <2>1
      <4>2. SubSeq(due, 1, a) \in Seq(Named) /\ Len(SubSeq(due, 1, a)) = a /\ \A k \in 1..a : SubSeq(due, 1, a)[k] = due[k]
        BY <1>10, <1>13, <3>1
      <4> DEFINE y == SubSeq(h, 1, a)
                 z == SubSeq(due, 1, a)
      <4> HIDE DEF y, z
      <4>3. /\ y \in Seq(Named) /\ Len(y) = a /\ z \in Seq(Named) /\ Len(z) = a
            /\ \A k \in 1..a : y[k] = z[k]
        BY <2>2, <4>1, <4>2 DEF y, z
      <4>4. y = z
        BY <4>3
      <4> QED
        BY <4>4 DEF y, z
    <3> QED
      BY <1>13, <2>1, <3>1, <3>2 DEF IsPrefix
  <2> QED
    BY <1>3, <1>6, <1>15, <2>3 DEF due, q
<1> QED
  BY <1>14, <1>15

-----------------------------------------------------------------------------
(* Where redirections lead.                                                 *)

\* Chain is the least set with its start that holds where its members redirect to.
LEMMA ChainIs ==
    ASSUME NEW x \in Uri
    PROVE  /\ Chain[x] \subseteq Uri /\ x \in Chain[x]
           /\ \A u \in Chain[x] : Site[u].to # NoUri => Site[u].to \in Chain[x]
           /\ \A us \in SUBSET Uri : x \in us /\ FollowsUp(us) => Chain[x] \subseteq us
<1>1. Chain[x] = {u \in Uri : \A us \in SUBSET Uri : x \in us /\ FollowsUp(us) => u \in us}
  BY DEF Chain
<1>2. ASSUME NEW u \in Chain[x], Site[u].to # NoUri
      PROVE  Site[u].to \in Chain[x]
  <2>1. u \in Uri
    BY <1>1
  <2>2. Site[u].to \in Uri
    BY <1>2, <2>1, SiteType DEF Answer
  <2>3. ASSUME NEW us \in SUBSET Uri, x \in us, FollowsUp(us)
        PROVE  Site[u].to \in us
    <3>1. u \in us
      BY <1>1, <2>3
    <3> QED
      BY <1>2, <2>3, <3>1 DEF FollowsUp
  <2> QED
    BY <1>1, <2>2, <2>3
<1>3. \A us \in SUBSET Uri : x \in us /\ FollowsUp(us) => Chain[x] \subseteq us
  BY <1>1
<1> QED
  BY <1>1, <1>2, <1>3

\* The chain of a URI that is no redirection is that URI.
LEMMA ChainEnds ==
    ASSUME NEW x \in Uri, Site[x].to = NoUri
    PROVE  Chain[x] = {x}
<1>1. {x} \in SUBSET Uri /\ FollowsUp({x})
  BY DEF FollowsUp
<1> QED
  BY <1>1, ChainIs

\* The chain of a redirection is its own URI and the chain of its target.
LEMMA ChainNext ==
    ASSUME NEW x \in Uri, Site[x].to # NoUri
    PROVE  Site[x].to \in Uri /\ Chain[x] \subseteq {x} \cup Chain[Site[x].to]
<1> DEFINE y == Site[x].to
<1>1. y \in Uri
  BY SiteType DEF Answer
<1>2. /\ Chain[y] \subseteq Uri /\ y \in Chain[y]
      /\ \A u \in Chain[y] : Site[u].to # NoUri => Site[u].to \in Chain[y]
  BY <1>1, ChainIs
<1>3. {x} \cup Chain[y] \in SUBSET Uri /\ FollowsUp({x} \cup Chain[y])
  BY <1>2 DEF FollowsUp
<1> QED
  BY <1>1, <1>3, ChainIs

\* They lead to one end at most.
LEMMA OneEnd ==
    ASSUME NEW x \in Uri, NEW u \in Chain[x], NEW t \in Chain[x],
           Site[u].to = NoUri, Site[t].to = NoUri
    PROVE  u = t
<1>1. Chain[x] \subseteq Uri /\ x \in Chain[x]
  BY ChainIs
<1> DEFINE S == {w \in Chain[x] : u \in Chain[w]}
<1>2. S \in SUBSET Uri /\ x \in S
  BY <1>1
<1>3. FollowsUp(S)
  <2> SUFFICES ASSUME NEW w \in S, Site[w].to # NoUri
               PROVE  Site[w].to \in S
    BY DEF FollowsUp
  <2>1. w \in Uri /\ w \in Chain[x] /\ u \in Chain[w]
    BY <1>1
  <2>2. Site[w].to \in Chain[x]
    BY <2>1, ChainIs
  <2>3. Chain[w] \subseteq {w} \cup Chain[Site[w].to]
    BY <2>1, ChainNext
  <2>4. u # w
    OBVIOUS
  <2> QED
    BY <2>1, <2>2, <2>3, <2>4
<1>4. t \in S
  BY <1>2, <1>3, ChainIs
<1>5. Chain[t] = {t}
  BY <1>1, ChainEnds
<1> QED
  BY <1>4, <1>5

-----------------------------------------------------------------------------
(* What the method knows of the items.                                      *)

\* The first n bytes of the file u.
Begun(u, n) == [k \in 1..n |-> Token("byte", u, k)]

\* What is on disk is the beginning of the one file the item may be; when an item has
\* been answered once, a chunked file may be anything.
Beginning(f, u, fresh) ==
    Site[u].framing # "chunked" \/ fresh => Len(f) <= Site[u].size /\ f = Begun(u, Len(f))

\* Every file is a beginning of what it should be, and of nothing if nothing is to come.
Files(file, n, p) ==
    /\ \A i \in Item : file[i] # <<>> => i \in DOMAIN p /\ \E t \in Chain[p[i]] : Site[t].code = "ok"
    /\ \A i \in DOMAIN p : \A t \in Chain[p[i]] :
           Site[t].code = "ok" => Beginning(file[i], t, n[i] = 0)

\* The messages x have been asked for, each once, and none has been answered.
Due(x, n, p, a) ==
    /\ \A k \in 1..Len(x) : /\ x[k].item \in DOMAIN p /\ x[k].uri \in Chain[p[x[k].item]]
                            /\ a[x[k].item] = n[x[k].item] + 1
    /\ \A j, k \in 1..Len(x) : x[j].item = x[k].item => j = k

\* A failure for good has its cause.
Causes(s) ==
    \A i \in Item : s.told[i].how = "failed" => Site[s.told[i].uri].code = "error" \/ i \in s.stop

\* A report by which the file should be whole, and that every such file is.
Claims(t)  == t.how = "done" /\ Site[t.uri].framing # "closes" /\ ~t.early
Wholes(s, a) ==
    \A i \in Item : a[i] = s.answers[i] /\ Claims(s.told[i]) =>
        s.file[i] = Bytes(s.told[i].uri, 0) \/ (Site[s.told[i].uri].framing = "chunked" /\ a[i] > 1)

\* The queue of s and the messages d on their way, the plan p and how often apt has asked, a.
Records(s, d, p, a) ==
    /\ s \in MethodType /\ d \in Seq(Queued) /\ p \in Plans /\ a \in [Item -> Nat]
    /\ s.sent <= Len(s.queue)
    /\ Due(s.queue \o d, s.answers, p, a)
    /\ Causes(s) /\ Wholes(s, a)

\* The books are in order: records and files.
Books(s, d, p, a) == Records(s, d, p, a) /\ Files(s.file, s.answers, p)

\* What apt may ask for are items, each from one URI.
LEMMA PlanType ==
    ASSUME NEW p \in Plans
    PROVE  DOMAIN p \subseteq Item /\ \A i \in DOMAIN p : p[i] \in Uri
<1>1. PICK I \in SUBSET Item : p \in [I -> Uri]
  BY SiteAssumption
<1> QED
  BY <1>1

\* The head of the queue.
LEMMA HeadDue ==
    ASSUME NEW s, NEW d, NEW p, NEW a, Records(s, d, p, a), s.queue # <<>>
    PROVE  LET q == s.queue[1] IN
           /\ Head(s.queue) = q /\ q \in Queued /\ q.item \in Item /\ q.uri \in Uri
           /\ q.item \in DOMAIN p /\ q.uri \in Chain[p[q.item]] /\ p[q.item] \in Uri
           /\ a[q.item] = s.answers[q.item] + 1 /\ s.answers[q.item] \in Nat
           /\ s.file[q.item] \in Seq(Tokens)
           /\ \A k \in 2..Len(s.queue) : s.queue[k].item # q.item
<1>1. s \in MethodType /\ s.queue \in Seq(Queued) /\ d \in Seq(Queued) /\ p \in Plans
  BY DEF Records, MethodType
<1>2. Len(s.queue) \in Nat /\ Len(s.queue) >= 1 /\ Head(s.queue) = s.queue[1] /\ s.queue[1] \in Queued
  BY <1>1
<1>3. /\ Len(s.queue \o d) = Len(s.queue) + Len(d) /\ Len(d) \in Nat
      /\ \A k \in 1..Len(s.queue) : (s.queue \o d)[k] = s.queue[k]
  BY <1>1
<1>4. Due(s.queue \o d, s.answers, p, a)
  BY DEF Records
<1>5. \A k \in 1..Len(s.queue) : k \in 1..Len(s.queue \o d)
  BY <1>2, <1>3
<1>6. 1 \in 1..Len(s.queue)
  BY <1>2
<1>7. /\ s.queue[1].item \in DOMAIN p /\ s.queue[1].uri \in Chain[p[s.queue[1].item]]
      /\ a[s.queue[1].item] = s.answers[s.queue[1].item] + 1
  BY <1>3, <1>4, <1>5, <1>6 DEF Due
<1>8. \A k \in 2..Len(s.queue) : s.queue[k].item # s.queue[1].item
  <2> SUFFICES ASSUME NEW k \in 2..Len(s.queue), s.queue[k].item = s.queue[1].item PROVE FALSE
    OBVIOUS
  <2>1. k \in 1..Len(s.queue) /\ k # 1
    BY <1>2
  <2> QED
    BY <1>3, <1>4, <1>5, <1>6, <2>1 DEF Due
<1>9. s.queue[1].item \in Item /\ s.queue[1].uri \in Uri
  BY <1>2 DEF Queued
<1>10. s.answers[s.queue[1].item] \in Nat /\ s.file[s.queue[1].item] \in Seq(Tokens)
  BY <1>1, <1>9 DEF MethodType
<1> QED
  BY <1>1, <1>2, <1>7, <1>8, <1>9, <1>10, PlanType

\* t is s after the head of its queue has been answered.
Answers(s, t, how) ==
    /\ t \in MethodType
    /\ t = [s EXCEPT !.queue = t.queue, !.sent = t.sent, !.told = t.told, !.answers = t.answers]
    /\ t.queue = Tail(s.queue) /\ t.sent = IF s.sent = 0 THEN 0 ELSE s.sent - 1
    /\ t.told = [s.told EXCEPT ![s.queue[1].item] =
                    [how |-> how, uri |-> s.queue[1].uri, early |-> s.early]]
    /\ t.answers = [s.answers EXCEPT ![s.queue[1].item] = @ + 1]

\* URIDone and Fail take the head off the queue and note what has been said of it.
LEMMA TellAnswers ==
    ASSUME NEW s \in MethodType, s.queue # <<>>, NEW how \in {"done", "ims", "failed", "transient"},
           NEW t, t = Tell(s, how)
    PROVE  Answers(s, t, how)
<1> DEFINE q == s.queue[1]
<1>1. s.queue \in Seq(Queued) /\ Head(s.queue) = q /\ q \in Queued /\ Tail(s.queue) \in Seq(Queued) /\ s.sent \in Nat
  BY DEF MethodType
<1>2. q.item \in Item /\ q.uri \in Uri
  BY <1>1 DEF Queued
<1>3. Max({0, s.sent - 1}) = IF s.sent = 0 THEN 0 ELSE s.sent - 1
  BY <1>1, MaxOfTwo
<1> DEFINE o == [how |-> how, uri |-> q.uri, early |-> s.early]
<1>4. o \in Outcome
  BY <1>2 DEF Outcome, MethodType
<1>5. t = [[s EXCEPT !.told[q.item] = o, !.answers[q.item] = @ + 1]
             EXCEPT !.queue = Tail(@), !.sent = Max({0, @ - 1})]
  BY <1>1 DEF Tell, Dequeue
<1> HIDE DEF o, q
<1> DEFINE to == [s.told EXCEPT ![q.item] = o]
           an == [s.answers EXCEPT ![q.item] = @ + 1]
           se == IF s.sent = 0 THEN 0 ELSE s.sent - 1
<1>6. to \in [Item -> Outcome] /\ an \in [Item -> Nat] /\ se \in Nat
  BY <1>1, <1>2, <1>4 DEF MethodType
<1>7. t = [s EXCEPT !.queue = Tail(s.queue), !.sent = se, !.told = to, !.answers = an]
  <2>1. DOMAIN s = DOMAIN [s EXCEPT !.told = to] /\ "queue" \in DOMAIN s /\ "sent" \in DOMAIN s
        /\ "told" \in DOMAIN s /\ "answers" \in DOMAIN s
    BY DEF MethodType
  <2> QED
    BY <1>3, <1>5 DEF MethodType
<1> HIDE DEF to, an, se
<1>8. /\ t \in MethodType /\ t.queue = Tail(s.queue) /\ t.sent = se /\ t.told = to /\ t.answers = an
  BY ZenonT(60), <1>1, <1>6, <1>7 DEF MethodType
<1>9. t = [s EXCEPT !.queue = t.queue, !.sent = t.sent, !.told = t.told, !.answers = t.answers]
  BY <1>7, <1>8
<1> QED
  BY <1>8, <1>9 DEF Answers, to, an, se, q, o

\* The head of the queue is answered.
LEMMA TellBooks ==
    ASSUME NEW s, NEW d, NEW p, NEW a, Records(s, d, p, a), s.queue # <<>>,
           NEW how \in {"done", "ims", "failed", "transient"},
           how = "failed" => Site[s.queue[1].uri].code = "error" \/ s.queue[1].item \in s.stop,
           how = "done" /\ Site[s.queue[1].uri].framing # "closes" /\ ~s.early =>
               \/ s.file[s.queue[1].item] = Bytes(s.queue[1].uri, 0)
               \/ Site[s.queue[1].uri].framing = "chunked" /\ s.answers[s.queue[1].item] # 0,
           Files(s.file, [s.answers EXCEPT ![s.queue[1].item] = @ + 1], p),
           NEW t, t = Tell(s, how)
    PROVE  Books(t, d, p, a)
<1> DEFINE q == s.queue[1]
           i == q.item
<1>1. s \in MethodType /\ d \in Seq(Queued) /\ p \in Plans /\ a \in [Item -> Nat] /\ s.sent <= Len(s.queue)
  BY DEF Records
<1>2. /\ q \in Queued /\ i \in Item /\ q.uri \in Uri
      /\ a[i] = s.answers[i] + 1 /\ s.answers[i] \in Nat
  BY HeadDue
<1>3. /\ t \in MethodType
      /\ t = [s EXCEPT !.queue = t.queue, !.sent = t.sent, !.told = t.told, !.answers = t.answers]
      /\ t.queue = Tail(s.queue) /\ t.sent = IF s.sent = 0 THEN 0 ELSE s.sent - 1
      /\ t.told = [s.told EXCEPT ![i] = [how |-> how, uri |-> q.uri, early |-> s.early]]
      /\ t.answers = [s.answers EXCEPT ![i] = @ + 1]
  <2>1. Answers(s, t, how)
    BY <1>1, TellAnswers
  <2> QED
    BY <2>1 DEF Answers
<1>4. t.file = s.file /\ t.stop = s.stop
  BY <1>1, <1>3 DEF MethodType
<1>5. s.queue \in Seq(Queued) /\ s.sent \in Nat /\ s.answers \in [Item -> Nat] /\ s.told \in [Item -> Outcome]
  BY <1>1 DEF MethodType
<1>6. t.sent <= Len(t.queue)
  <2>1. Len(t.queue) = Len(s.queue) - 1 /\ Len(s.queue) \in Nat /\ Len(s.queue) >= 1
    BY <1>3, <1>5
  <2> QED
    BY <1>1, <1>3, <1>5, <2>1
<1> DEFINE x == s.queue \o d
           y == t.queue \o d
<1>7. /\ y \in Seq(Queued) /\ Len(y) = Len(x) - 1 /\ Len(x) \in Nat
      /\ \A k \in 1..Len(y) : y[k] = x[k + 1]
  <2>1. x \in Seq(Queued) /\ x # <<>>
    BY <1>1, <1>5
  <2>2. y = Tail(x)
    <3>1. PICK v \in Seq(Queued) : v = s.queue
      BY <1>5
    <3>2. v # <<>>
      BY <3>1
    <3>3. Tail(v) \o d = Tail(v \o d)
      <4>1. v \o d = <<Head(v)>> \o (Tail(v) \o d)
        <5>1. v = <<Head(v)>> \o Tail(v) /\ <<Head(v)>> \in Seq(Queued) /\ Tail(v) \in Seq(Queued)
          BY <3>2
        <5>2. PICK w \in Seq(Queued), z \in Seq(Queued) : w = <<Head(v)>> /\ z = Tail(v)
          BY <5>1
        <5>3. (w \o z) \o d = w \o (z \o d)
          OBVIOUS
        <5> QED
          BY <5>1, <5>2, <5>3
      <4>2. PICK z \in Seq(Queued) : z = Tail(v) \o d
        <5>1. Tail(v) \in Seq(Queued)
          BY <3>2
        <5>2. Tail(v) \o d \in Seq(Queued)
          BY <1>1, <5>1
        <5> QED
          BY <5>2
      <4>3. PICK b \in Queued : b = Head(v)
        BY <3>2
      <4>4. Tail(<<b>> \o z) = z
        OBVIOUS
      <4> QED
        BY <4>1, <4>2, <4>3, <4>4
    <3> QED
      BY <1>3, <3>1, <3>3
  <2> HIDE DEF x, y
  <2> QED
    BY <2>1, <2>2
<1>8. Due(x, s.answers, p, a)
  BY DEF Records
<1>9. x[1] = q
  BY <1>1, <1>5
<1> HIDE DEF x, y
<1>10. \A k \in 1..Len(y) : k + 1 \in 1..Len(x) /\ k + 1 # 1
  BY <1>7
<1>11. 1 \in 1..Len(x) \/ Len(y) = 0
  BY <1>7
<1>12. \A k \in 1..Len(y) : y[k].item # i /\ y[k].item \in Item
  <2> TAKE k \in 1..Len(y)
  <2>1. 1 \in 1..Len(x)
    BY <1>7
  <2>2. x[k + 1].item # x[1].item
    BY <1>8, <1>10, <2>1 DEF Due
  <2>3. y[k] \in Queued
    BY <1>7
  <2> QED
    BY <1>7, <1>9, <2>2, <2>3 DEF Queued
<1>13. Due(y, t.answers, p, a)
  <2>1. \A k \in 1..Len(y) : t.answers[y[k].item] = s.answers[y[k].item]
    BY <1>3, <1>5, <1>12
  <2>2. \A j, k \in 1..Len(y) : y[j].item = y[k].item => j = k
    <3> TAKE j, k \in 1..Len(y)
    <3>1. x[j + 1].item = x[k + 1].item => j + 1 = k + 1
      BY <1>8, <1>10 DEF Due
    <3>2. j \in Int /\ k \in Int
      BY <1>7
    <3> QED
      BY <1>7, <3>1, <3>2
  <2>3. \A k \in 1..Len(y) : /\ y[k].item \in DOMAIN p /\ y[k].uri \in Chain[p[y[k].item]]
                             /\ a[y[k].item] = s.answers[y[k].item] + 1
    BY <1>7, <1>8, <1>10 DEF Due
  <2> QED
    BY <2>1, <2>2, <2>3 DEF Due
<1>14. Causes(t)
  <2> SUFFICES ASSUME NEW j \in Item, t.told[j].how = "failed"
               PROVE  Site[t.told[j].uri].code = "error" \/ j \in t.stop
    BY DEF Causes
  <2>1. CASE j = i
    <3>1. t.told[j] = [how |-> how, uri |-> q.uri, early |-> s.early]
      BY <1>3, <1>5, <2>1
    <3> QED
      BY <1>4, <2>1, <3>1
  <2>2. CASE j # i
    <3>1. t.told[j] = s.told[j]
      BY <1>3, <1>5, <2>2
    <3> QED
      BY <1>4, <3>1 DEF Records, Causes
  <2> QED
    BY <2>1, <2>2
<1>15. Wholes(t, a)
  <2> SUFFICES ASSUME NEW j \in Item, a[j] = t.answers[j], Claims(t.told[j])
               PROVE  \/ t.file[j] = Bytes(t.told[j].uri, 0)
                      \/ Site[t.told[j].uri].framing = "chunked" /\ a[j] > 1
    BY DEF Wholes
  <2>1. CASE j = i
    <3>1. t.told[j] = [how |-> how, uri |-> q.uri, early |-> s.early]
      BY <1>3, <1>5, <2>1
    <3>2. how = "done" /\ Site[q.uri].framing # "closes" /\ ~s.early
      BY <3>1 DEF Claims
    <3>3. s.answers[i] # 0 => a[j] > 1
      BY <1>2, <2>1
    <3> QED
      BY <1>4, <2>1, <3>1, <3>2, <3>3
  <2>2. CASE j # i
    <3>1. t.told[j] = s.told[j] /\ t.answers[j] = s.answers[j]
      BY <1>3, <1>5, <2>2
    <3> QED
      BY <1>4, <3>1 DEF Records, Wholes
  <2> QED
    BY <2>1, <2>2
<1>16. Records(t, d, p, a)
  BY <1>1, <1>3, <1>6, <1>13, <1>14, <1>15 DEF Records, y
<1>17. Files(t.file, t.answers, p)
  BY <1>3, <1>4
<1> QED
  BY <1>16, <1>17 DEF Books

\* Once more answered, the files are still what they should be.
LEMMA FilesAnswered ==
    ASSUME NEW file, NEW n \in [Item -> Nat], NEW p \in Plans, Files(file, n, p), NEW i \in Item
    PROVE  Files(file, [n EXCEPT ![i] = @ + 1], p)
<1> DEFINE n1 == [n EXCEPT ![i] = @ + 1]
<1>1. \A j \in DOMAIN p : n1[j] = 0 => n[j] = 0
  BY PlanType
<1> HIDE DEF n1
<1>2. \A j \in DOMAIN p : \A t \in Chain[p[j]] :
        Site[t].code = "ok" => Beginning(file[j], t, n1[j] = 0)
  BY <1>1 DEF Files, Beginning
<1> QED
  BY <1>2 DEF Files, n1

\* f has become the file of the head of the queue.
Put(s, t, f) == t = [s EXCEPT !.file = [s.file EXCEPT ![s.queue[1].item] = f]]

\* The file of the head changes.
LEMMA FilePut ==
    ASSUME NEW s, NEW d, NEW p, NEW a, Records(s, d, p, a), s.queue # <<>>, NEW f \in Seq(Tokens),
           NEW t, Put(s, t, f)
    PROVE  /\ Records(t, d, p, a)
           /\ t.file = [s.file EXCEPT ![s.queue[1].item] = f]
           /\ t = [s EXCEPT !.file = t.file]
<1> DEFINE i == s.queue[1].item
           fs == [s.file EXCEPT ![i] = f]
<1>1. s \in MethodType /\ d \in Seq(Queued) /\ p \in Plans /\ a \in [Item -> Nat] /\ s.sent <= Len(s.queue)
  BY DEF Records
<1>2. i \in Item /\ a[i] = s.answers[i] + 1 /\ s.answers[i] \in Nat
  BY HeadDue
<1>3. t = [s EXCEPT !.file = fs] /\ fs \in [Item -> Seq(Tokens)]
  BY <1>1, <1>2 DEF MethodType, Put
<1> HIDE DEF fs
<1>4. t \in MethodType /\ t.file = fs /\ t.queue = s.queue /\ t.sent = s.sent /\ t.answers = s.answers
      /\ t.told = s.told /\ t.stop = s.stop
  BY <1>1, <1>3 DEF MethodType
<1>5. Wholes(t, a)
  <2> SUFFICES ASSUME NEW j \in Item, a[j] = t.answers[j], Claims(t.told[j])
               PROVE  \/ t.file[j] = Bytes(t.told[j].uri, 0)
                      \/ Site[t.told[j].uri].framing = "chunked" /\ a[j] > 1
    BY DEF Wholes
  <2>1. j # i
    BY <1>2, <1>4
  <2>2. t.file[j] = s.file[j]
    BY <1>1, <1>4, <2>1 DEF fs, MethodType
  <2> QED
    BY <1>4, <2>2 DEF Records, Wholes
<1>6. Causes(t)
  BY <1>4 DEF Records, Causes
<1>7. Records(t, d, p, a)
  BY <1>1, <1>4, <1>5, <1>6 DEF Records
<1> QED
  BY <1>3, <1>4, <1>7 DEF fs

\* The file of an item may become another beginning of what its chain ends in,
LEMMA FilesPut ==
    ASSUME SaneSite, NEW file \in [Item -> Seq(Tokens)], NEW n, NEW p \in Plans, Files(file, n, p),
           NEW i \in DOMAIN p, NEW u \in Chain[p[i]], Site[u].code = "ok",
           NEW f \in Seq(Tokens), Beginning(f, u, n[i] = 0)
    PROVE  Files([file EXCEPT ![i] = f], n, p)
<1> DEFINE fs == [file EXCEPT ![i] = f]
<1>1. i \in Item /\ DOMAIN p \subseteq Item /\ p[i] \in Uri
  BY PlanType
<1>2. fs[i] = f /\ \A j \in Item : j # i => fs[j] = file[j]
  BY <1>1
<1> HIDE DEF fs
<1>3. \A j \in Item : fs[j] # <<>> => j \in DOMAIN p /\ \E t \in Chain[p[j]] : Site[t].code = "ok"
  BY <1>2 DEF Files
<1>4. ASSUME NEW t \in Chain[p[i]], Site[t].code = "ok" PROVE t = u
  <2>1. t \in Uri /\ u \in Uri
    BY <1>1, ChainIs
  <2>2. Site[t].to = NoUri /\ Site[u].to = NoUri
    BY <1>4, <2>1 DEF SaneSite
  <2> QED
    BY <1>1, <2>2, OneEnd
<1>5. \A j \in DOMAIN p : \A t \in Chain[p[j]] :
        Site[t].code = "ok" => Beginning(fs[j], t, n[j] = 0)
  <2> SUFFICES ASSUME NEW j \in DOMAIN p, NEW t \in Chain[p[j]], Site[t].code = "ok"
               PROVE  Beginning(fs[j], t, n[j] = 0)
    OBVIOUS
  <2>1. CASE j = i
    BY <1>2, <1>4, <2>1
  <2>2. CASE j # i
    <3>1. fs[j] = file[j]
      BY <1>1, <1>2, <2>2
    <3> QED
      BY <3>1 DEF Files
  <2> QED
    BY <2>1, <2>2
<1> QED
  BY <1>3, <1>5 DEF Files, fs

\* or nothing.
LEMMA FilesEmpty ==
    ASSUME NEW file \in [Item -> Seq(Tokens)], NEW n, NEW p \in Plans, Files(file, n, p), NEW i \in Item
    PROVE  Files([file EXCEPT ![i] = <<>>], n, p)
<1> DEFINE fs == [file EXCEPT ![i] = <<>>]
<1>1. DOMAIN p \subseteq Item /\ \A j \in DOMAIN p : p[j] \in Uri
  BY PlanType
<1>2. fs[i] = <<>> /\ \A j \in Item : j # i => fs[j] = file[j]
  OBVIOUS
<1> HIDE DEF fs
<1>3. \A u \in Uri, fresh \in BOOLEAN : Beginning(<<>>, u, fresh)
  <2>1. Begun(NoUri, 0) = <<>> /\ \A u \in Uri : Begun(u, 0) = <<>>
    BY DEF Begun
  <2>2. \A u \in Uri : Site[u].size \in Nat
    BY SiteType DEF Answer
  <2> QED
    BY <2>1, <2>2 DEF Beginning
<1>4. \A j \in Item : fs[j] # <<>> => j \in DOMAIN p /\ \E t \in Chain[p[j]] : Site[t].code = "ok"
  BY <1>2 DEF Files
<1>5. \A j \in DOMAIN p : \A t \in Chain[p[j]] :
        Site[t].code = "ok" => Beginning(fs[j], t, n[j] = 0)
  <2> SUFFICES ASSUME NEW j \in DOMAIN p, NEW t \in Chain[p[j]], Site[t].code = "ok"
               PROVE  Beginning(fs[j], t, n[j] = 0)
    OBVIOUS
  <2>0. t \in Uri
    BY <1>1, ChainIs
  <2>1. CASE j = i
    BY <1>2, <1>3, <2>0, <2>1
  <2>2. CASE j # i
    <3>1. fs[j] = file[j]
      BY <1>1, <1>2, <2>2
    <3> QED
      BY <3>1 DEF Files
  <2> QED
    BY <2>1, <2>2
<1> QED
  BY <1>4, <1>5 DEF Files, fs

-----------------------------------------------------------------------------
(* The stages of the method.                                                *)

\* What has been sent is on the host of the connection.
Hosts(s) == \A k \in 1..s.sent : HostOf[s.queue[k].uri] = s.host

\* What is left of the body of u when j bytes of the file have come.
Left(u, phase, j) ==
    CASE phase = "stream"  -> Bytes(u, j)
      [] phase = "size"    -> Body(u, j)
      [] phase = "block"   -> Bytes(u, j) \o Zeros(u, 3)
      [] phase = "newline" -> Zeros(u, 3)
      [] phase = "trailer" -> Zeros(u, 1)

\* A reply that is an error has been told of before its text is read.
Base(s) == IF s.mode = "error" THEN 0 ELSE 1

\* s reads the body of a reply, and j bytes of it have come.
Reads(s, j) ==
    LET a == Site[s.reply] IN
    /\ s.reply \in Uri /\ a.framing # "none" /\ j \in 0..a.size
    /\ (s.phase = "stream") <=> (a.framing # "chunked")
    /\ s.limit = IF a.framing = "stream" \/ s.phase = "block" THEN a.size - j ELSE NoLimit
    /\ s.phase \in {"newline", "trailer"} => j = a.size
    /\ a.code = IF s.mode = "file" THEN "ok" ELSE s.mode
    /\ s.mode = "redirect" => s.location = a.to
    /\ s.persistent = ~HangsUp(s.reply)
    /\ ~s.early /\ a.framing # "closes" => s.open
    /\ s.mode # "error" => s.sent >= 1 /\ s.reply = s.queue[1].uri
    /\ s.mode = "file" => j = Len(s.file[s.queue[1].item])

\* ... and no error is pending, and a block is not at its end.
Reading(s, j) ==
    Reads(s, j) /\ ~s.err /\ (s.phase = "block" => j # Site[s.reply].size)

\* No reply is half read.
Idle(s, c, e) == Hosts(s) /\ Flow(s, c, e, <<>>, 0, FALSE)

\* The next request may go over the connection there is.
Reusable(s) == s.open /\ s.persistent /\ (s.queue = <<>> \/ s.host = HostOf[s.queue[1].uri])

\* Loop at its top, before the headers of a reply, and in its body.
AtTop(s, c, e) ==
    /\ s.pc = "top"
    /\ Reusable(s) => Idle(s, c, e)
    /\ s.err => ~s.open \/ ~s.persistent
AtHeaders(s, c, e) == s.pc = "headers" /\ s.queue # <<>> /\ ~s.err /\ Idle(s, c, e)
\* What is under way when the body is read.
Rest(s, c, e, j) == Flow(s, c, e, Left(s.reply, s.phase, j), Base(s), HangsUp(s.reply))

AtData(s, c, e, j) == s.pc = "data" /\ Reading(s, j) /\ Hosts(s) /\ Rest(s, c, e, j)
\* Where the method is, and what flows there.
Stage(s, c, e) == AtTop(s, c, e) \/ AtHeaders(s, c, e) \/ \E j \in Nat : AtData(s, c, e, j)

\* A body has ended, or there was none: the connection is where the next reply
\* begins, or of no use.
Over(s, c, e, base) ==
    /\ s.open /\ s.persistent => Hosts(s) /\ Flow(s, c, e, <<>>, base, FALSE)
    /\ s.err => ~s.open \/ ~s.persistent

\* The books do not depend on what is not in them.
LEMMA BooksSame ==
    ASSUME NEW s, NEW d, NEW p, NEW a, Records(s, d, p, a), NEW t \in MethodType,
           t.queue = s.queue, t.sent <= Len(t.queue), t.answers = s.answers, t.told = s.told,
           t.file = s.file, s.stop \subseteq t.stop
    PROVE  Records(t, d, p, a) /\ (Books(s, d, p, a) => Books(t, d, p, a))
<1>1. Causes(t) /\ Wholes(t, a)
  BY DEF Records, Causes, Wholes
<1>2. Records(t, d, p, a)
  BY <1>1 DEF Records
<1> QED
  BY <1>2 DEF Books

\* They stay in order when messages go to the queue.
LEMMA BooksExtends ==
    ASSUME NEW s, NEW d, NEW p, NEW a, Books(s, d, p, a), NEW ms \in Seq(Queued), NEW t,
           Extends(s, t, ms), NEW d1 \in Seq(Queued), s.queue \o d = (s.queue \o ms) \o d1
    PROVE  Books(t, d1, p, a)
<1>1. /\ t \in MethodType /\ t.sent <= Len(t.queue) /\ t.queue = s.queue \o ms /\ s \in MethodType
      /\ t = [s EXCEPT !.queue = t.queue, !.sent = t.sent, !.out = t.out, !.choke = t.choke]
  BY DEF Extends, Books, Records
<1>2. t.answers = s.answers /\ t.told = s.told /\ t.file = s.file /\ t.stop = s.stop
  BY <1>1 DEF MethodType
<1>3. Causes(t) /\ Wholes(t, a)
  BY <1>2 DEF Books, Records, Causes, Wholes
<1>4. t.queue \o d1 = s.queue \o d
  BY <1>1
<1> QED
  BY <1>1, <1>2, <1>3, <1>4 DEF Books, Records

\* What is newly asked for is on the host of the connection.
LEMMA HostsExtends ==
    ASSUME NEW s \in MethodType, s.sent <= Len(s.queue), Hosts(s), NEW ms \in Seq(Queued), NEW t, Extends(s, t, ms)
    PROVE  Hosts(t)
<1>1. /\ t \in MethodType /\ t.queue = s.queue \o ms
      /\ t = [s EXCEPT !.queue = t.queue, !.sent = t.sent, !.out = t.out, !.choke = t.choke]
  BY DEF Extends
<1>2. t.host = s.host
  BY <1>1 DEF MethodType
<1>3. s.queue \in Seq(Queued) /\ s.sent \in Nat /\ t.sent \in Nat
  BY <1>1 DEF MethodType
<1>4. \A k \in 1..s.sent : t.queue[k] = s.queue[k]
  <2>1. \A k \in 1..Len(s.queue) : (s.queue \o ms)[k] = s.queue[k]
    BY <1>3
  <2> QED
    BY <1>1, <1>3, <2>1
<1>5. ASSUME NEW k \in 1..t.sent PROVE HostOf[t.queue[k].uri] = t.host
  <2>1. CASE k <= s.sent
    <3>1. k \in 1..s.sent
      BY <1>3, <2>1
    <3> QED
      BY <1>2, <1>4, <3>1 DEF Hosts
  <2>2. CASE k > s.sent
    <3>1. k \in (s.sent + 1)..t.sent
      BY <1>3, <2>2
    <3> QED
      BY <1>2, <3>1 DEF Extends
  <2> QED
    BY <1>3, <2>1, <2>2
<1> QED
  BY <1>5 DEF Hosts

\* The head of the queue leaves it: for what is under way nothing changes.
LEMMA TailKeeps ==
    ASSUME NEW s \in MethodType, s.sent <= Len(s.queue), s.sent >= 1, NEW t \in MethodType,
           t.in = s.in, t.out = s.out, t.open = s.open, t.host = s.host, t.sent = s.sent - 1,
           \A k \in 1..t.sent : t.queue[k] = s.queue[k + 1],
           \A k \in 2..s.sent : t.file[s.queue[k].item] = s.file[s.queue[k].item]
    PROVE  Keeps(s, 1, t, 0) /\ (Hosts(s) => Hosts(t))
<1>1. s.sent \in Nat
  BY DEF MethodType
<1>2. \A k \in 1..(s.sent - 1) : k + 1 \in 2..s.sent /\ k + 1 \in 1..s.sent /\ k + 1 = 1 + k /\ 0 + k = k
                                 /\ k \in 1..t.sent
  BY <1>1
<1>3. \A k \in 1..(s.sent - 1) : Len(s.file[s.queue[1 + k].item]) \in Nat
  BY <1>2, FileLen
<1>4. \A k \in 1..(s.sent - 1) : t.queue[0 + k] = s.queue[1 + k]
  BY <1>2
<1>5. \A k \in 1..(s.sent - 1) :
          Len(s.file[s.queue[1 + k].item]) <= Len(t.file[t.queue[0 + k].item])
  <2> TAKE k \in 1..(s.sent - 1)
  <2>1. 1 + k \in 2..s.sent
    BY <1>2
  <2>2. t.file[s.queue[1 + k].item] = s.file[s.queue[1 + k].item]
    BY <2>1
  <2>3. PICK x \in Nat : x = Len(s.file[s.queue[1 + k].item])
    BY <1>3
  <2>4. x <= x
    OBVIOUS
  <2> QED
    BY <1>4, <2>2, <2>3, <2>4
<1>6. Keeps(s, 1, t, 0)
  BY <1>1, <1>4, <1>5 DEF Keeps
<1>7. Hosts(s) => Hosts(t)
  <2>1. \A k \in 1..t.sent : k + 1 \in 1..s.sent
    BY <1>1
  <2> QED
    BY <2>1 DEF Hosts
<1> QED
  BY <1>6, <1>7

\* The ways around the loop, once told of.
Rounds(s, how) == {NextRound(Tell(s, how)), NextRound(Fail(s, how)), [Fail(s, how) EXCEPT !.pc = "top"]}

\* Told of, and around the loop.
LEMMA TellTop ==
    ASSUME NEW s, NEW d, NEW p, NEW a, Records(s, d, p, a), s.sent >= 1, NEW c, NEW e,
           Over(s, c, e, 1), NEW how \in {"done", "ims", "failed", "transient"},
           how = "failed" => Site[s.queue[1].uri].code = "error" \/ s.queue[1].item \in s.stop,
           how = "done" /\ Site[s.queue[1].uri].framing # "closes" /\ ~s.early =>
               \/ s.file[s.queue[1].item] = Bytes(s.queue[1].uri, 0)
               \/ Site[s.queue[1].uri].framing = "chunked" /\ s.answers[s.queue[1].item] # 0,
           Files(s.file, [s.answers EXCEPT ![s.queue[1].item] = @ + 1], p),
           NEW t, t \in Rounds(s, how)
    PROVE  Books(t, d, p, a) /\ AtTop(t, c, e) /\ (t.open => s.open)
<1> DEFINE u == Tell(s, how)
<1>1. s \in MethodType /\ s.sent <= Len(s.queue)
  BY DEF Records
<1>2. s.queue \in Seq(Queued) /\ s.sent \in Nat
  BY <1>1 DEF MethodType
<1>3. s.queue # <<>> /\ Len(s.queue) \in Nat
  BY <1>1, <1>2
<1>4. Books(u, d, p, a)
  BY <1>3, TellBooks
<1>5. Answers(s, u, how)
  BY <1>1, <1>3, TellAnswers
<1>6. \/ t = [u EXCEPT !.pc = "top", !.fails = 0]
      \/ t = [u EXCEPT !.err = FALSE, !.pc = "top", !.fails = 0]
      \/ t = [u EXCEPT !.err = FALSE, !.pc = "top"]
  <2>1. Fail(s, how) = [u EXCEPT !.err = FALSE]
    BY DEF Fail
  <2> HIDE DEF u
  <2>2. NextRound(u) = [u EXCEPT !.pc = "top", !.fails = 0]
    BY DEF NextRound
  <2>3. NextRound([u EXCEPT !.err = FALSE]) = [u EXCEPT !.err = FALSE, !.pc = "top", !.fails = 0]
    BY DEF NextRound
  <2>4. [[u EXCEPT !.err = FALSE] EXCEPT !.pc = "top"] = [u EXCEPT !.err = FALSE, !.pc = "top"]
    OBVIOUS
  <2>5. [Fail(s, how) EXCEPT !.pc = "top"] = [u EXCEPT !.err = FALSE, !.pc = "top"]
    BY <2>1, <2>4
  <2> QED
    BY <2>1, <2>2, <2>3, <2>5 DEF u, Rounds
<1> HIDE DEF u
<1>7. /\ u \in MethodType /\ u.queue = Tail(s.queue) /\ u.sent = s.sent - 1
      /\ u = [s EXCEPT !.queue = u.queue, !.sent = u.sent, !.told = u.told, !.answers = u.answers]
  BY <1>2, <1>5 DEF Answers
<1>8. /\ u.in = s.in /\ u.out = s.out /\ u.open = s.open /\ u.host = s.host /\ u.file = s.file
      /\ u.persistent = s.persistent /\ u.err = s.err
  BY <1>1, <1>7 DEF MethodType
<1>9. /\ t \in MethodType /\ t.in = u.in /\ t.out = u.out /\ t.open = u.open /\ t.host = u.host
      /\ t.file = u.file /\ t.persistent = u.persistent /\ (t.err => u.err) /\ t.queue = u.queue
      /\ t.sent = u.sent /\ t.told = u.told /\ t.answers = u.answers /\ t.stop = u.stop /\ t.pc = "top"
  <2>1. CASE t = [u EXCEPT !.pc = "top", !.fails = 0]
    BY <1>7, <2>1 DEF MethodType
  <2>2. CASE t = [u EXCEPT !.err = FALSE, !.pc = "top", !.fails = 0]
    BY <1>7, <2>2 DEF MethodType
  <2>3. CASE t = [u EXCEPT !.err = FALSE, !.pc = "top"]
    BY <1>7, <2>3 DEF MethodType
  <2> QED
    BY <1>6, <2>1, <2>2, <2>3
<1>10. Books(t, d, p, a)
  <2>1. Records(u, d, p, a) /\ u.sent <= Len(u.queue)
    BY <1>4 DEF Books, Records
  <2> QED
    BY <1>4, <1>9, <2>1, BooksSame
<1>11. Keeps(s, 1, t, 0) /\ (Hosts(s) => Hosts(t))
  <2>1. \A k \in 1..t.sent : t.queue[k] = s.queue[k + 1]
    <3>1. \A k \in 1..(s.sent - 1) : k \in 1..(Len(s.queue) - 1)
      BY <1>1, <1>2, <1>3
    <3>2. \A k \in 1..(Len(s.queue) - 1) : Tail(s.queue)[k] = s.queue[k + 1]
      BY <1>2, <1>3
    <3> QED
      BY <1>7, <1>9, <3>1, <3>2
  <2> QED
    BY <1>1, <1>7, <1>8, <1>9, <2>1, TailKeeps
<1>12. ASSUME t.open, t.persistent PROVE Idle(t, c, e)
  <2>1. Hosts(s) /\ Flow(s, c, e, <<>>, 1, FALSE)
    BY <1>8, <1>9, <1>12 DEF Over
  <2>2. t.sent <= Len(t.queue)
    BY <1>10 DEF Books, Records
  <2>3. Flow(t, c, e, <<>>, 0, FALSE)
    BY <1>1, <1>9, <1>11, <2>1, <2>2, FlowKeeps
  <2> QED
    BY <1>11, <2>1, <2>3 DEF Idle
<1>13. t.err => ~t.open \/ ~t.persistent
  BY <1>8, <1>9 DEF Over
<1> QED
  BY <1>8, <1>9, <1>10, <1>12, <1>13 DEF AtTop, Reusable

-----------------------------------------------------------------------------
(* A redirection, and the end of a body.                                    *)

\* The head of the queue goes to its end, under another name.
LEMMA DueMoved ==
    ASSUME NEW q \in Seq(Queued), q # <<>>, NEW d \in Seq(Queued), NEW n, NEW p \in Plans, NEW a,
           Due(q \o d, n, p, a), NEW v \in Uri, v \in Chain[p[q[1].item]],
           NEW r \in Queued, r.item = q[1].item, r.uri = v
    PROVE  /\ Append(Tail(q), r) \in Seq(Queued) /\ Len(Append(Tail(q), r)) = Len(q)
           /\ \A k \in 1..(Len(q) - 1) : Append(Tail(q), r)[k] = q[k + 1]
           /\ Append(Tail(q), r)[Len(q)] = r
           /\ Due(Append(Tail(q), r) \o d, n, p, a)
<1> DEFINE w == Append(Tail(q), r)
           x == q \o d
           y == w \o d
<1>1. PICK L \in Nat, D \in Nat : L = Len(q) /\ D = Len(d) /\ L >= 1
  BY EmptySeq
<1>2. Tail(q) \in Seq(Queued) /\ Len(Tail(q)) = L - 1 /\ \A k \in 1..(L - 1) : Tail(q)[k] = q[k + 1]
  BY <1>1
<1>3. w \in Seq(Queued) /\ Len(w) = L /\ w[L] = r /\ \A k \in 1..(L - 1) : w[k] = q[k + 1]
  <2>1. PICK z \in Seq(Queued) : z = Tail(q)
    BY <1>2
  <2>2. /\ Append(z, r) \in Seq(Queued) /\ Len(Append(z, r)) = Len(z) + 1 /\ Append(z, r)[Len(z) + 1] = r
        /\ \A k \in 1..Len(z) : Append(z, r)[k] = z[k]
    OBVIOUS
  <2>3. Len(z) = L - 1 /\ (L - 1) + 1 = L
    BY <1>1, <1>2, <2>1
  <2> HIDE DEF w
  <2>4. w = Append(z, r)
    BY <2>1 DEF w
  <2>5. w \in Seq(Queued) /\ Len(w) = L /\ w[L] = r
    BY <2>2, <2>3, <2>4
  <2>6. \A k \in 1..(L - 1) : w[k] = z[k]
    BY <2>2, <2>3, <2>4
  <2> QED
    BY <1>2, <2>1, <2>5, <2>6
<1> HIDE DEF w
<1>4. /\ x \in Seq(Queued) /\ Len(x) = L + D
      /\ \A k \in 1..(L + D) : x[k] = IF k <= L THEN q[k] ELSE d[k - L]
  BY <1>1, ConcatProperties
<1>5. /\ y \in Seq(Queued) /\ Len(y) = L + D
      /\ \A k \in 1..(L + D) : y[k] = IF k <= L THEN w[k] ELSE d[k - L]
  <2>1. PICK z \in Seq(Queued) : z = w /\ Len(z) = L
    BY <1>3
  <2>2. /\ z \o d \in Seq(Queued) /\ Len(z \o d) = Len(z) + Len(d)
        /\ \A k \in 1..(Len(z) + Len(d)) : (z \o d)[k] = IF k <= Len(z) THEN z[k] ELSE d[k - Len(z)]
    OBVIOUS
  <2>3. y = z \o d /\ Len(z) = L /\ Len(d) = D
    BY <1>1, <2>1
  <2> QED
    BY <2>1, <2>2, <2>3
<1> HIDE DEF x, y
<1> DEFINE at(k) == IF k < L THEN k + 1 ELSE IF k = L THEN 1 ELSE k
<1>6. \A k \in 1..(L + D) : at(k) \in 1..(L + D)
  BY <1>1
<1>7. \A j, k \in 1..(L + D) : at(j) = at(k) => j = k
  BY <1>1
<1>8. ASSUME NEW k \in 1..(L + D)
      PROVE  y[k].item = x[at(k)].item /\ (y[k].uri = x[at(k)].uri \/ (y[k].uri = v /\ at(k) = 1))
  <2>1. CASE k < L
    <3>1. at(k) = k + 1 /\ k + 1 <= L /\ k + 1 \in 1..(L + D) /\ k \in 1..(L - 1) /\ k <= L
      BY <1>1, <2>1
    <3>2. y[k] = q[k + 1]
      BY <1>3, <1>5, <3>1
    <3>3. x[k + 1] = q[k + 1]
      BY <1>4, <3>1
    <3> QED
      BY <3>1, <3>2, <3>3
  <2>2. CASE k = L
    <3>1. at(k) = 1 /\ k <= L /\ 1 \in 1..(L + D) /\ 1 <= L
      BY <1>1, <2>2
    <3>2. y[k] = r
      BY <1>3, <1>5, <2>2, <3>1
    <3>3. x[1] = q[1]
      BY <1>4, <3>1
    <3> QED
      BY <3>1, <3>2, <3>3
  <2>3. CASE k > L
    <3>1. at(k) = k /\ ~(k <= L)
      BY <1>1, <2>3
    <3>2. y[k] = x[k]
      BY <1>4, <1>5, <3>1
    <3> QED
      BY <3>1, <3>2
  <2> QED
    BY <1>1, <2>1, <2>2, <2>3
<1> HIDE DEF at
<1>9. Due(x, n, p, a)
  BY DEF x
<1>10. x[1].item = q[1].item
  <2>1. 1 \in 1..(L + D) /\ 1 <= L
    BY <1>1
  <2> QED
    BY <1>4, <2>1
<1>11. \A k \in 1..Len(y) : /\ y[k].item \in DOMAIN p /\ y[k].uri \in Chain[p[y[k].item]]
                            /\ a[y[k].item] = n[y[k].item] + 1
  <2> TAKE k \in 1..Len(y)
  <2>1. k \in 1..(L + D)
    BY <1>5
  <2>2. /\ x[at(k)].item \in DOMAIN p /\ x[at(k)].uri \in Chain[p[x[at(k)].item]]
        /\ a[x[at(k)].item] = n[x[at(k)].item] + 1
    BY <1>4, <1>6, <1>9, <2>1 DEF Due
  <2> QED
    BY <1>8, <1>10, <2>1, <2>2
<1>12. \A j, k \in 1..Len(y) : y[j].item = y[k].item => j = k
  <2> TAKE j, k \in 1..Len(y)
  <2>1. j \in 1..(L + D) /\ k \in 1..(L + D) /\ at(j) \in 1..Len(x) /\ at(k) \in 1..Len(x)
    BY <1>4, <1>5, <1>6
  <2>2. x[at(j)].item = x[at(k)].item => at(j) = at(k)
    BY <1>9, <2>1 DEF Due
  <2> QED
    BY <1>7, <1>8, <2>1, <2>2
<1>13. Due(y, n, p, a)
  BY <1>11, <1>12 DEF Due
<1> QED
  BY <1>1, <1>3, <1>13 DEF w, y

\* The fields Redirect and its caller change.
LEMMA PutType ==
    ASSUME NEW s \in MethodType, NEW se \in [Item -> SUBSET Uri], NEW st \in SUBSET Item,
           NEW qu \in Seq(Queued), NEW sn \in Nat
    PROVE  [s EXCEPT !.seen = se, !.stop = st, !.queue = qu, !.sent = sn, !.pc = "top", !.fails = 0]
             \in MethodType
  BY DEF MethodType

\* Redirected, and around the loop.
LEMMA RedirectedTop ==
    ASSUME SaneSite, NEW s, NEW d, NEW p, NEW a, Books(s, d, p, a), s.sent >= 1, NEW c, NEW e,
           Over(s, c, e, 1), s.location = Site[s.queue[1].uri].to, s.location # NoUri,
           NEW t, t = Redirected(s)
    PROVE  Books(t, d, p, a) /\ AtTop(t, c, e) /\ (t.open => s.open)
<1> DEFINE q == s.queue[1]
           i == q.item
           v == s.location
<1>1. s \in MethodType /\ s.sent <= Len(s.queue) /\ Records(s, d, p, a) /\ d \in Seq(Queued) /\ p \in Plans
  BY DEF Books, Records
<1>2. /\ s.queue \in Seq(Queued) /\ s.sent \in Nat /\ Len(s.queue) \in Nat /\ s.queue # <<>>
      /\ s.answers \in [Item -> Nat] /\ s.seen \in [Item -> SUBSET Uri] /\ s.stop \in SUBSET Item
  BY <1>1 DEF MethodType
<1>3. /\ Head(s.queue) = q /\ q \in Queued /\ i \in Item /\ q.uri \in Uri /\ i \in DOMAIN p
      /\ q.uri \in Chain[p[i]] /\ p[i] \in Uri
      /\ \A k \in 2..Len(s.queue) : s.queue[k].item # i
  BY <1>1, <1>2, HeadDue
<1>4. CASE i \in s.stop
  <2>1. t = NextRound(Fail(s, "failed"))
    BY <1>3, <1>4 DEF Redirected
  <2>2. Files(s.file, [s.answers EXCEPT ![i] = @ + 1], p)
    BY <1>1, <1>2, <1>3, FilesAnswered DEF Books
  <2>3. t \in Rounds(s, "failed")
    BY <2>1 DEF Rounds
  <2>4. "failed" \in {"done", "ims", "failed", "transient"} /\ "failed" # "done"
    OBVIOUS
  <2> QED
    BY <1>1, <1>4, <2>2, <2>3, <2>4, TellTop
<1>5. CASE i \notin s.stop
  <2> DEFINE se == [s.seen EXCEPT ![i] = @ \cup {q.uri}]
             st == IF s.seen[i] # {} /\ q.uri \in s.seen[i] THEN s.stop \cup {i} ELSE s.stop
             r == [q EXCEPT !.uri = v]
             qu == Append(Tail(s.queue), r)
             sn == IF Len(s.queue) = 1 THEN s.sent ELSE s.sent - 1
  <2>1. v \in Uri /\ v \in Chain[p[i]] /\ HostOf[v] # HostOf[q.uri]
    <3>1. v \in Uri
      BY <1>3, SiteType DEF Answer
    <3>2. Site[q.uri].code = "redirect"
      BY <1>3 DEF SaneSite
    <3>3. HostOf[Site[q.uri].to] # HostOf[q.uri]
      BY <1>3, <3>2 DEF SaneSite
    <3> QED
      BY <1>3, <3>1, <3>3, ChainIs
  <2>2. r \in Queued /\ r.item = i /\ r.uri = v
    BY <1>3, <2>1 DEF Queued
  <2>3. se \in [Item -> SUBSET Uri] /\ st \in SUBSET Item /\ s.stop \subseteq st
    BY <1>2, <1>3
  <2> HIDE DEF se, st, r, v
  <2>4. /\ qu \in Seq(Queued) /\ Len(qu) = Len(s.queue)
        /\ \A k \in 1..(Len(s.queue) - 1) : qu[k] = s.queue[k + 1]
        /\ qu[Len(s.queue)] = r
        /\ Due(qu \o d, s.answers, p, a)
    <3>1. Due(s.queue \o d, s.answers, p, a)
      BY <1>1 DEF Records
    <3> QED
      BY <1>1, <1>2, <2>1, <2>2, <3>1, DueMoved
  <2>5. sn \in Nat /\ sn <= Len(qu)
    BY <1>1, <1>2, <2>4
  <2>6. t = [s EXCEPT !.seen = se, !.stop = st, !.queue = qu, !.sent = sn, !.pc = "top", !.fails = 0]
    <3>1. t = NextRound(Redirect([s EXCEPT !.seen[i] = @ \cup {q.uri},
                                     !.stop = IF s.seen[i] # {} /\ q.uri \in s.seen[i] THEN @ \cup {i} ELSE @]))
      BY <1>3, <1>5 DEF Redirected
    <3> DEFINE s1 == [s EXCEPT !.seen = se, !.stop = st]
    <3>2. s1 = [s EXCEPT !.seen[i] = @ \cup {q.uri},
                         !.stop = IF s.seen[i] # {} /\ q.uri \in s.seen[i] THEN @ \cup {i} ELSE @]
      BY DEF se, st
    <3>3. /\ s1 \in MethodType /\ s1.queue = s.queue /\ s1.sent = s.sent /\ s1.location = v
      BY <1>1, <2>3 DEF MethodType, v
    <3> HIDE DEF s1
    <3>4. Redirect(s1) = [s1 EXCEPT !.queue = qu, !.sent = sn]
      <4>1. Redirect(s1) = [s1 EXCEPT !.queue = Append(Tail(s.queue), [Head(s.queue) EXCEPT !.uri = v]),
                                      !.sent = IF Len(s.queue) = 1 THEN s.sent
                                               ELSE IF s.sent = 0 THEN Len(s.queue) - 1 ELSE s.sent - 1]
        BY <3>3 DEF Redirect
      <4>2. s.sent # 0
        BY <1>2
      <4> QED
        BY <1>3, <4>1, <4>2 DEF r
    <3>5. t = NextRound(Redirect(s1))
      BY <3>1, <3>2
    <3>6. t = [[s1 EXCEPT !.queue = qu, !.sent = sn] EXCEPT !.pc = "top", !.fails = 0]
      BY <3>4, <3>5 DEF NextRound
    <3> HIDE DEF qu, sn
    <3>7. t = [[[s EXCEPT !.seen = se, !.stop = st] EXCEPT !.queue = qu, !.sent = sn] EXCEPT !.pc = "top", !.fails = 0]
      BY <3>6 DEF s1
    <3> QED
      BY <1>1, <3>7 DEF MethodType
  <2> HIDE DEF qu, sn
  <2>7. /\ t \in MethodType /\ t.queue = qu /\ t.sent = sn /\ t.pc = "top" /\ t.stop = st
        /\ t.in = s.in /\ t.out = s.out /\ t.open = s.open /\ t.host = s.host /\ t.file = s.file
        /\ t.persistent = s.persistent /\ t.err = s.err /\ t.answers = s.answers /\ t.told = s.told
    <3>1. qu \in Seq(Queued) /\ sn \in Nat /\ se \in [Item -> SUBSET Uri] /\ st \in SUBSET Item
      BY <2>3, <2>4, <2>5
    <3>2. /\ t.queue = qu /\ t.sent = sn /\ t.pc = "top" /\ t.stop = st
          /\ t.in = s.in /\ t.out = s.out /\ t.open = s.open /\ t.host = s.host /\ t.file = s.file
          /\ t.persistent = s.persistent /\ t.err = s.err /\ t.answers = s.answers /\ t.told = s.told
      BY <1>1, <2>6 DEF MethodType
    <3>3. t \in MethodType
      <4>1. [s EXCEPT !.seen = se, !.stop = st, !.queue = qu, !.sent = sn, !.pc = "top", !.fails = 0] \in MethodType
        BY <1>1, <3>1, PutType, Zenon
      <4> QED
        BY <2>6, <4>1, Zenon
    <3> QED
      BY <3>2, <3>3
  <2>8. Books(t, d, p, a)
    <3>1. Causes(t) /\ Wholes(t, a)
      BY <1>1, <2>3, <2>7 DEF Records, Causes, Wholes
    <3> QED
      BY <1>1, <2>4, <2>5, <2>7, <3>1 DEF Books, Records
  <2>9. CASE Len(s.queue) = 1
    <3>1. ASSUME t.open, t.persistent PROVE t.queue # <<>> /\ t.host # HostOf[t.queue[1].uri]
      <4>1. Hosts(s)
        BY <2>7, <3>1 DEF Over
      <4>2. HostOf[q.uri] = s.host
        BY <1>2, <4>1 DEF Hosts
      <4>3. t.queue # <<>> /\ t.queue[1] = r
        BY <2>4, <2>7, <2>9
      <4> QED
        BY <2>1, <2>2, <2>7, <4>2, <4>3
    <3>2. t.err => ~t.open \/ ~t.persistent
      BY <2>7 DEF Over
    <3> QED
      BY <2>7, <2>8, <3>1, <3>2 DEF AtTop, Reusable
  <2>10. CASE Len(s.queue) # 1
    <3>1. t.sent = s.sent - 1
      BY <2>7, <2>10 DEF sn
    <3>2. Keeps(s, 1, t, 0) /\ (Hosts(s) => Hosts(t))
      <4>1. \A k \in 1..t.sent : t.queue[k] = s.queue[k + 1]
        <5>1. \A k \in 1..(s.sent - 1) : k \in 1..(Len(s.queue) - 1)
          BY <1>1, <1>2
        <5> QED
          BY <2>4, <2>7, <3>1, <5>1
      <4> QED
        BY <1>1, <2>7, <3>1, <4>1, TailKeeps
    <3>3. ASSUME t.open, t.persistent PROVE Idle(t, c, e)
      <4>1. Hosts(s) /\ Flow(s, c, e, <<>>, 1, FALSE)
        BY <2>7, <3>3 DEF Over
      <4>2. t.sent <= Len(t.queue)
        BY <2>8 DEF Books, Records
      <4>3. Flow(t, c, e, <<>>, 0, FALSE)
        BY <1>1, <2>7, <3>2, <4>1, <4>2, FlowKeeps
      <4> QED
        BY <3>2, <4>1, <4>3 DEF Idle
    <3>4. t.err => ~t.open \/ ~t.persistent
      BY <2>7 DEF Over
    <3> QED
      BY <2>7, <2>8, <3>3, <3>4 DEF AtTop, Reusable
  <2> QED
    BY <2>9, <2>10
<1> QED
  BY <1>4, <1>5

\* The body of a reply has ended, or was cut short; ok says which.
Ending(s, d, p, a, c, e, ok) ==
    /\ Records(s, d, p, a)
    /\ Over(s, c, e, Base(s))
    /\ s.mode # "error" => s.sent >= 1
    /\ s.mode # "file" => Files(s.file, s.answers, p)
    /\ s.mode = "redirect" => s.location = Site[s.queue[1].uri].to /\ s.location # NoUri
    /\ s.mode = "file" =>
          /\ Files(s.file, [s.answers EXCEPT ![s.queue[1].item] = @ + 1], p)
          /\ ok /\ Site[s.queue[1].uri].framing # "closes" /\ ~s.early =>
               \/ s.file[s.queue[1].item] = Bytes(s.queue[1].uri, 0)
               \/ Site[s.queue[1].uri].framing = "chunked" /\ s.answers[s.queue[1].item] # 0

\* The fields of the next round of Loop.
LEMMA RoundFields ==
    ASSUME NEW s \in MethodType
    PROVE  LET t == NextRound(s) IN
           /\ t \in MethodType /\ t.queue = s.queue /\ t.sent = s.sent /\ t.answers = s.answers /\ t.told = s.told
           /\ t.file = s.file /\ t.stop = s.stop /\ t.in = s.in /\ t.out = s.out /\ t.open = s.open
           /\ t.host = s.host /\ t.persistent = s.persistent /\ t.err = s.err /\ t.pc = "top"
  BY DEF MethodType, NextRound

\* When a body has ended, well or not, the next round of Loop can begin.
LEMMA EndDataTop ==
    ASSUME SaneSite, NEW s, NEW d, NEW p, NEW a, NEW c, NEW e, NEW ok \in BOOLEAN,
           Ending(s, d, p, a, c, e, ok), NEW t, t = EndData(s, ok)
    PROVE  Books(t, d, p, a) /\ AtTop(t, c, e) /\ (t.open => s.open)
<1>1. s \in MethodType /\ s.sent <= Len(s.queue) /\ Records(s, d, p, a) /\ Over(s, c, e, Base(s))
  BY DEF Ending, Records
<1>2. s.mode \in {"file", "error", "redirect"}
  BY <1>1 DEF MethodType
<1>3. CASE s.mode = "file"
  <2>1. s.sent >= 1 /\ Over(s, c, e, 1)
    BY <1>1, <1>3 DEF Ending, Base
  <2>2. /\ Files(s.file, [s.answers EXCEPT ![s.queue[1].item] = @ + 1], p)
        /\ ok /\ Site[s.queue[1].uri].framing # "closes" /\ ~s.early =>
               \/ s.file[s.queue[1].item] = Bytes(s.queue[1].uri, 0)
               \/ Site[s.queue[1].uri].framing = "chunked" /\ s.answers[s.queue[1].item] # 0
    BY <1>3 DEF Ending
  <2>3. CASE ok
    <3>1. t \in Rounds(s, "done")
      BY <1>3, <2>3 DEF EndData, URIDone, Rounds
    <3>2. "done" \in {"done", "ims", "failed", "transient"} /\ "failed" # "done"
      OBVIOUS
    <3> QED
      BY <1>1, <2>1, <2>2, <2>3, <3>1, <3>2, TellTop
  <2>4. CASE ~ok
    <3>1. t \in Rounds(s, "transient")
      BY <1>3, <2>4 DEF EndData, Rounds
    <3>2. "transient" \in {"done", "ims", "failed", "transient"} /\ "failed" # "transient" /\ "done" # "transient"
      OBVIOUS
    <3> QED
      BY <1>1, <2>1, <2>2, <2>4, <3>1, <3>2, TellTop
  <2> QED
    BY <2>3, <2>4
<1>4. CASE s.mode = "redirect"
  <2>1. t = Redirected(s)
    BY <1>4 DEF EndData
  <2>2. s.sent >= 1 /\ Over(s, c, e, 1)
    BY <1>1, <1>4 DEF Ending, Base
  <2>3. Books(s, d, p, a)
    BY <1>1, <1>4 DEF Ending, Books
  <2>4. s.location = Site[s.queue[1].uri].to /\ s.location # NoUri
    BY <1>4 DEF Ending
  <2> QED
    BY <2>1, <2>2, <2>3, <2>4, RedirectedTop
<1>5. CASE s.mode = "error"
  <2>1. t = NextRound(s)
    BY <1>5 DEF EndData
  <2>2. Over(s, c, e, 0) /\ Books(s, d, p, a)
    BY <1>1, <1>5 DEF Ending, Base, Books
  <2>3. /\ t \in MethodType /\ t.queue = s.queue /\ t.sent = s.sent /\ t.answers = s.answers /\ t.told = s.told
        /\ t.file = s.file /\ t.stop = s.stop /\ t.in = s.in /\ t.out = s.out /\ t.open = s.open
        /\ t.host = s.host /\ t.persistent = s.persistent /\ t.err = s.err /\ t.pc = "top"
    BY <1>1, <2>1, RoundFields
  <2>4. Books(t, d, p, a)
    BY <1>1, <2>2, <2>3, BooksSame
  <2>5. ASSUME t.open, t.persistent PROVE Idle(t, c, e)
    <3>1. Hosts(s) /\ Flow(s, c, e, <<>>, 0, FALSE)
      BY <2>2, <2>3, <2>5 DEF Over
    <3>2. 0 \in Nat
      OBVIOUS
    <3>3. Keeps(s, 0, t, 0)
      BY <1>1, <2>3, <3>2, KeepsItself
    <3>4. Flow(t, c, e, <<>>, 0, FALSE)
      BY <1>1, <2>3, <3>1, <3>2, <3>3, FlowKeeps
    <3> QED
      BY <2>3, <3>1, <3>4 DEF Idle, Hosts
  <2>6. t.err => ~t.open \/ ~t.persistent
    BY <2>2, <2>3 DEF Over
  <2> QED
    BY <2>3, <2>4, <2>5, <2>6 DEF AtTop, Reusable
<1> QED
  BY <1>2, <1>3, <1>4, <1>5

\* What is left of a body are tokens without headers.
LEMMA LeftType ==
    ASSUME NEW u \in Uri, NEW j \in 0..Site[u].size,
           NEW phase \in {"stream", "size", "block", "newline", "trailer"}
    PROVE  Left(u, phase, j) \in Seq(Tokens) /\ Heads(Left(u, phase, j)) = <<>>
<1>1. /\ Bytes(u, j) \in Seq(Tokens) /\ Body(u, j) \in Seq(Tokens)
      /\ Zeros(u, 1) \in Seq(Tokens) /\ Zeros(u, 3) \in Seq(Tokens)
  BY BytesType, BodyCases, ZerosType
<1>2. /\ Heads(Bytes(u, j)) = <<>> /\ Heads(Body(u, j)) = <<>>
      /\ Heads(Zeros(u, 1)) = <<>> /\ Heads(Zeros(u, 3)) = <<>>
  BY BytesNoHeads, BodyNoHeads, ZerosNoHeads
<1>3. Bytes(u, j) \o Zeros(u, 3) \in Seq(Tokens) /\ Heads(Bytes(u, j) \o Zeros(u, 3)) = <<>> \o <<>>
  BY <1>1, <1>2, HeadsConcat
<1>4. <<>> \o <<>> = <<>>
  OBVIOUS
<1> QED
  BY <1>1, <1>2, <1>3, <1>4 DEF Left

\* A closed connection drops what is under way, and is as good without it.
LEMMA StageClosed ==
    ASSUME NEW s \in MethodType, NEW c \in Seq(Tokens), NEW e, Stage(s, c, e), ~s.open, NEW e1
    PROVE  Stage(s, <<>>, e1)
<1>1. CASE AtTop(s, c, e)
  BY <1>1 DEF Stage, AtTop, Reusable
<1>2. CASE AtHeaders(s, c, e)
  <2>1. <<>> \in Seq(Tokens)
    OBVIOUS
  <2>2. Flow(s, c, e, <<>>, 0, FALSE)
    BY <1>2 DEF AtHeaders, Idle
  <2>3. Flow(s, <<>>, e1, <<>>, 0, FALSE)
    BY <2>1, <2>2, FlowCut
  <2> QED
    BY <1>2, <2>3 DEF Stage, AtHeaders, Idle
<1>3. ASSUME NEW j \in Nat, AtData(s, c, e, j)
      PROVE  AtData(s, <<>>, e1, j)
  <2>1. s.reply \in Uri /\ j \in 0..Site[s.reply].size
    BY <1>3 DEF AtData, Reading, Reads
  <2>2. s.phase \in {"stream", "size", "block", "newline", "trailer"}
    BY DEF MethodType
  <2>3. Left(s.reply, s.phase, j) \in Seq(Tokens)
    BY <2>1, <2>2, LeftType
  <2>4. Flow(s, c, e, Left(s.reply, s.phase, j), Base(s), HangsUp(s.reply))
    BY <1>3 DEF AtData, Rest
  <2>5. Flow(s, <<>>, e1, Left(s.reply, s.phase, j), Base(s), HangsUp(s.reply))
    BY <2>3, <2>4, FlowCut
  <2> QED
    BY <1>3, <2>5 DEF AtData, Rest
<1> QED
  BY <1>1, <1>2, <1>3 DEF Stage

\* What the state of reading depends on.
LEMMA ReadsSame ==
    ASSUME NEW s, NEW j, Reads(s, j), NEW t, t.reply = s.reply, t.phase = s.phase, t.limit = s.limit,
           t.mode = s.mode, t.location = s.location, t.persistent = s.persistent, t.early = s.early,
           t.open = s.open, t.file = s.file, s.sent >= 1 => t.sent >= 1 /\ t.queue[1] = s.queue[1]
    PROVE  Reads(t, j) /\ (Reading(s, j) /\ t.err = s.err => Reading(t, j))
  BY DEF Reads, Reading

-----------------------------------------------------------------------------
(* CircleBuf::Write: what is written is the next part of a file.            *)

\* Dropping from a concatenation drops from its first part.
LEMMA DropConcat ==
    ASSUME NEW x \in Seq(Tokens), NEW z \in Seq(Tokens), NEW n \in Nat, n <= Len(x)
    PROVE  Drop(x \o z, n) = Drop(x, n) \o z
<1> DEFINE p == Drop(x \o z, n)
           y == Drop(x, n)
           q == y \o z
<1>1. PICK L \in Nat, M \in Nat : L = Len(x) /\ M = Len(z)
  OBVIOUS
<1>2. y \in Seq(Tokens) /\ Len(y) = L - n /\ \A k \in 1..(L - n) : y[k] = x[n + k]
  BY <1>1, DropType
<1>3. /\ x \o z \in Seq(Tokens) /\ Len(x \o z) = L + M
      /\ \A k \in 1..(L + M) : (x \o z)[k] = IF k <= L THEN x[k] ELSE z[k - L]
  BY <1>1
<1>4. /\ p \in Seq(Tokens) /\ Len(p) = (L + M) - n
      /\ \A k \in 1..((L + M) - n) : p[k] = (x \o z)[n + k]
  <2>1. PICK v \in Seq(Tokens) : v = x \o z /\ Len(v) = L + M
    BY <1>3
  <2>2. n <= L + M
    BY <1>1
  <2>3. n <= Len(v)
    BY <2>1, <2>2
  <2>4. /\ Drop(v, n) \in Seq(Tokens) /\ Len(Drop(v, n)) = Len(v) - n
        /\ \A k \in 1..(Len(v) - n) : Drop(v, n)[k] = v[n + k]
    BY <2>3, DropType
  <2>5. p = Drop(v, n) /\ Len(v) = L + M
    BY <2>1
  <2> QED
    BY <2>1, <2>4, <2>5
<1> HIDE DEF y, p
<1>5. /\ q \in Seq(Tokens) /\ Len(q) = (L - n) + M
      /\ \A k \in 1..((L - n) + M) : q[k] = IF k <= L - n THEN y[k] ELSE z[k - (L - n)]
  <2>1. PICK w \in Seq(Tokens) : w = y /\ Len(w) = L - n
    BY <1>2
  <2>2. /\ w \o z \in Seq(Tokens) /\ Len(w \o z) = Len(w) + Len(z)
        /\ \A k \in 1..(Len(w) + Len(z)) : (w \o z)[k] = IF k <= Len(w) THEN w[k] ELSE z[k - Len(w)]
    OBVIOUS
  <2>3. q = w \o z /\ Len(w) = L - n /\ Len(z) = M
    BY <1>1, <2>1
  <2> QED
    BY <2>1, <2>2, <2>3
<1>6. (L - n) + M = (L + M) - n /\ n <= L /\ (L + M) - n \in Nat
  BY <1>1
<1>7. ASSUME NEW k \in 1..((L + M) - n) PROVE p[k] = q[k]
  <2>1. p[k] = (x \o z)[n + k]
    BY <1>4
  <2>5. n + k \in 1..(L + M)
    BY <1>6
  <2>2. p[k] = IF n + k <= L THEN x[n + k] ELSE z[(n + k) - L]
    BY <1>3, <2>1, <2>5
  <2>3. q[k] = IF k <= L - n THEN y[k] ELSE z[k - (L - n)]
    BY <1>5, <1>6
  <2>4. (n + k <= L <=> k <= L - n) /\ (n + k) - L = k - (L - n) /\ (k <= L - n => k \in 1..(L - n))
    BY <1>6
  <2> HIDE DEF p, q
  <2> QED
    BY <1>2, <2>2, <2>3, <2>4
<1> HIDE DEF p, q
<1>8. p = q
  BY <1>4, <1>5, <1>6, <1>7
<1> QED
  BY <1>8 DEF p, q, y

\* The bytes of a file without the first n of them.
LEMMA DropBytes ==
    ASSUME NEW u \in Uri, NEW j \in 0..Site[u].size, NEW n \in Nat, j + n <= Site[u].size
    PROVE  j + n \in 0..Site[u].size /\ Drop(Bytes(u, j), n) = Bytes(u, j + n)
<1>1. PICK z \in Nat : z = Site[u].size
  BY SiteType DEF Answer
<1>2. j + n \in 0..z /\ j \in Nat
  BY <1>1
<1>3. /\ Bytes(u, j) \in Seq(Tokens) /\ Len(Bytes(u, j)) = z - j
      /\ \A k \in 1..(z - j) : Bytes(u, j)[k] = Token("byte", u, j + k)
  BY <1>1, BytesType
<1>4. /\ Bytes(u, j + n) \in Seq(Tokens) /\ Len(Bytes(u, j + n)) = z - (j + n)
      /\ \A k \in 1..(z - (j + n)) : Bytes(u, j + n)[k] = Token("byte", u, (j + n) + k)
  BY <1>1, <1>2, BytesType
<1> DEFINE x == Drop(Bytes(u, j), n)
<1>5. /\ x \in Seq(Tokens) /\ Len(x) = (z - j) - n
      /\ \A k \in 1..((z - j) - n) : x[k] = Bytes(u, j)[n + k]
  <2>1. n <= z - j
    BY <1>2
  <2> QED
    BY <1>3, <2>1, DropType
<1> HIDE DEF x
<1>6. ASSUME NEW k \in 1..(z - (j + n)) PROVE x[k] = Bytes(u, j + n)[k]
  <2>1. k \in 1..((z - j) - n) /\ n + k \in 1..(z - j) /\ j + (n + k) = (j + n) + k
    BY <1>2
  <2> QED
    BY <1>3, <1>4, <1>5, <2>1
<1>7. (z - j) - n = z - (j + n) /\ z - (j + n) \in Nat
  BY <1>2
<1>8. x = Bytes(u, j + n)
  <2>1. PICK y \in Seq(Tokens) : y = Bytes(u, j + n)
    BY <1>4
  <2>2. Len(x) = Len(y) /\ \A k \in 1..Len(x) : x[k] = y[k]
    BY <1>4, <1>5, <1>6, <1>7, <2>1
  <2> QED
    BY <1>5, <2>1, <2>2
<1> QED
  BY <1>1, <1>2, <1>8 DEF x

\* Bytes of the body are taken from what is left of it.
LEMMA DropLeft ==
    ASSUME NEW u \in Uri, NEW j \in 0..Site[u].size, NEW n \in Nat, j + n <= Site[u].size,
           NEW phase \in {"stream", "block"}
    PROVE  /\ j + n \in 0..Site[u].size /\ n <= Len(Left(u, phase, j))
           /\ Drop(Left(u, phase, j), n) = Left(u, phase, j + n)
           /\ \A k \in 1..n : Left(u, phase, j)[k] = Token("byte", u, j + k)
<1>1. PICK z \in Nat : z = Site[u].size
  BY SiteType DEF Answer
<1>2. j + n \in 0..z /\ j \in Nat /\ n <= z - j /\ \A k \in 1..n : k \in 1..(z - j)
  BY <1>1
<1>3. PICK b \in Seq(Tokens) : b = Bytes(u, j) /\ Len(b) = z - j /\ \A k \in 1..(z - j) : b[k] = Token("byte", u, j + k)
  BY <1>1, BytesType
<1>4. Drop(b, n) = Bytes(u, j + n)
  BY <1>1, <1>2, <1>3, DropBytes
<1>5. CASE phase = "stream"
  <2>1. Left(u, phase, j) = b /\ Left(u, phase, j + n) = Bytes(u, j + n)
    BY <1>3, <1>5 DEF Left
  <2> QED
    BY <1>1, <1>2, <1>3, <1>4, <2>1
<1>6. CASE phase = "block"
  <2>1. PICK y \in Seq(Tokens) : y = Zeros(u, 3)
    BY ZerosType
  <2>2. Left(u, phase, j) = b \o y /\ Left(u, phase, j + n) = Bytes(u, j + n) \o y
    BY <1>3, <1>6, <2>1 DEF Left
  <2>3. n <= Len(b)
    BY <1>2, <1>3
  <2>4. Drop(b \o y, n) = Drop(b, n) \o y
    BY <2>3, DropConcat
  <2>5. Len(b \o y) = Len(b) + Len(y) /\ Len(y) \in Nat /\ \A k \in 1..Len(b) : (b \o y)[k] = b[k]
    OBVIOUS
  <2>6. n <= Len(b \o y)
    BY <2>3, <2>5
  <2>7. \A k \in 1..n : (b \o y)[k] = Token("byte", u, j + k)
    BY <1>2, <1>3, <2>5
  <2> QED
    BY <1>1, <1>2, <1>4, <2>2, <2>4, <2>6, <2>7
<1> QED
  BY <1>5, <1>6

\* A beginning of a file and the next bytes are a longer beginning.
LEMMA BegunMore ==
    ASSUME NEW u \in Uri, NEW f \in Seq(Tokens), f = Begun(u, Len(f)), NEW x \in Seq(Tokens),
           \A k \in 1..Len(x) : x[k] = Token("byte", u, Len(f) + k)
    PROVE  f \o x = Begun(u, Len(f \o x))
<1>1. PICK L \in Nat, M \in Nat : L = Len(f) /\ M = Len(x)
  OBVIOUS
<1>2. /\ f \o x \in Seq(Tokens) /\ Len(f \o x) = L + M
      /\ \A k \in 1..(L + M) : (f \o x)[k] = IF k <= L THEN f[k] ELSE x[k - L]
  BY <1>1
<1>3. \A k \in 1..L : f[k] = Token("byte", u, k)
  BY <1>1 DEF Begun
<1> DEFINE y == f \o x
           b == Begun(u, L + M)
<1>4. y \in Seq(Tokens) /\ Len(y) = L + M /\ \A k \in 1..(L + M) : y[k] = IF k <= L THEN f[k] ELSE x[k - L]
  BY <1>2
<1>5. b \in Seq(Tokens) /\ Len(b) = L + M /\ \A k \in 1..(L + M) : b[k] = Token("byte", u, k)
  <2>1. \A k \in Nat : Token("byte", u, k) \in Tokens
    BY DEF Token, Tokens
  <2> QED
    BY <2>1 DEF Begun
<1> HIDE DEF y, b
<1>6. \A k \in 1..(L + M) : y[k] = b[k]
  <2> TAKE k \in 1..(L + M)
  <2>1. CASE k <= L
    BY <1>3, <1>4, <1>5, <2>1
  <2>2. CASE k > L
    <3>1. k - L \in 1..M /\ L + (k - L) = k
      BY <2>2
    <3>2. x[k - L] = Token("byte", u, k)
      BY <1>1, <3>1
    <3> QED
      BY <1>4, <1>5, <2>2, <3>2
  <2> QED
    BY <2>1, <2>2
<1>7. y = b
  BY <1>4, <1>5, <1>6
<1> QED
  BY <1>4, <1>7 DEF y, b

\* n tokens are written, to the file or to nowhere.
Wrote(s, t, n) ==
    /\ t \in MethodType /\ n <= Len(s.in)
    /\ n = Len(s.in) \/ (s.limit # NoLimit /\ n = s.limit)
    /\ s.limit # NoLimit => n <= s.limit
    /\ t = [s EXCEPT !.in = Drop(s.in, n), !.limit = t.limit, !.file = t.file]
    /\ t.limit = IF s.limit = NoLimit THEN NoLimit ELSE s.limit - n
    /\ t.file = IF s.mode = "file"
                THEN [s.file EXCEPT ![s.queue[1].item] = @ \o SubSeq(s.in, 1, n)] ELSE s.file

\* The buffer, the limit and the files have become x, l and f.
Written(s, t, x, l, f) == t = [s EXCEPT !.in = x, !.limit = l, !.file = f]

\* The fields CircleBuf::Write changes.
LEMMA WrittenType ==
    ASSUME NEW s \in MethodType, NEW x \in Seq(Tokens), NEW l \in Nat \cup {NoLimit}, NEW f \in [Item -> Seq(Tokens)],
           NEW t, Written(s, t, x, l, f)
    PROVE  t \in MethodType /\ t.in = x /\ t.limit = l /\ t.file = f
  BY DEF MethodType, Written

\* Write moves a number of tokens from the buffer to the file.
LEMMA WriteWrote ==
    ASSUME NEW s \in MethodType, s.mode = "file" => s.queue # <<>>
    PROVE  \E n \in Nat : Wrote(s, Write(s), n)
<1>1. PICK N \in Nat : N = Len(s.in)
  BY DEF MethodType
<1>2. s.limit \in Nat \cup {NoLimit} /\ s.in \in Seq(Tokens) /\ s.queue \in Seq(Queued)
      /\ s.file \in [Item -> Seq(Tokens)]
  BY DEF MethodType
<1> DEFINE n == IF s.limit = NoLimit THEN N ELSE Min({s.limit, N})
<1>3. /\ n \in Nat /\ n <= N /\ (n = N \/ (s.limit # NoLimit /\ n = s.limit)) /\ (s.limit # NoLimit => n <= s.limit)
  <2>1. CASE s.limit = NoLimit
    BY <2>1
  <2>2. CASE s.limit # NoLimit
    <3>1. s.limit \in Nat
      BY <1>2, <2>2
    <3>2. Min({s.limit, N}) = IF s.limit <= N THEN s.limit ELSE N
      BY <3>1, MinOfTwo
    <3> QED
      BY <2>2, <3>1, <3>2
  <2> QED
    BY <2>1, <2>2
<1> DEFINE l == IF s.limit = NoLimit THEN s.limit ELSE s.limit - n
           i == Head(s.queue).item
           f == IF s.mode = "file" THEN [s.file EXCEPT ![i] = @ \o SubSeq(s.in, 1, n)] ELSE s.file
           x == Drop(s.in, n)
           t == [s EXCEPT !.in = x, !.limit = l, !.file = f]
<1>4. Write(s) = t
  <2>1. n = IF s.limit = NoLimit THEN Len(s.in) ELSE Min({s.limit, Len(s.in)})
    BY <1>1
  <2>2. CASE s.mode = "file"
    <3>1. Write(s) = [[s EXCEPT !.in = SubSeq(@, n + 1, Len(@)), !.limit = IF @ = NoLimit THEN @ ELSE @ - n]
                        EXCEPT !.file[i] = @ \o SubSeq(s.in, 1, n)]
      BY <2>1, <2>2 DEF Write
    <3> HIDE DEF n, i
    <3> QED
      BY <2>2, <3>1 DEF Drop, MethodType
  <2>3. CASE s.mode # "file"
    <3>1. Write(s) = [s EXCEPT !.in = SubSeq(@, n + 1, Len(@)), !.limit = IF @ = NoLimit THEN @ ELSE @ - n]
      BY <2>1, <2>3 DEF Write
    <3> HIDE DEF n, i
    <3> QED
      BY <2>3, <3>1 DEF Drop, MethodType
  <2> QED
    BY <2>2, <2>3
<1> HIDE DEF n
<1>5. x \in Seq(Tokens) /\ l \in Nat \cup {NoLimit}
  <2>1. PICK z \in Seq(Tokens) : z = s.in /\ Len(z) = N
    BY <1>1, <1>2
  <2>2. Drop(z, n) \in Seq(Tokens)
    BY <1>3, <2>1, DropType
  <2>3. s.limit # NoLimit => s.limit \in Nat /\ s.limit - n \in Nat
    BY <1>2, <1>3
  <2> QED
    BY <1>2, <2>1, <2>2, <2>3
<1>6. f \in [Item -> Seq(Tokens)]
  <2>1. SubSeq(s.in, 1, n) \in Seq(Tokens)
    BY <1>1, <1>2, <1>3
  <2>2. CASE s.mode = "file"
    <3>0. s.queue # <<>>
      BY <2>2
    <3>4. Head(s.queue) \in Queued
      BY <1>2, <3>0
    <3>1. i \in Item
      BY <3>4 DEF Queued
    <3>2. s.file[i] \in Seq(Tokens)
      BY <1>2, <3>1
    <3>3. s.file[i] \o SubSeq(s.in, 1, n) \in Seq(Tokens)
      BY <2>1, <3>2
    <3> HIDE DEF i
    <3> QED
      BY <1>2, <2>2, <3>1, <3>3
  <2> QED
    BY <1>2, <2>2
<1>7. Head(s.queue) = s.queue[1] \/ s.queue = <<>>
  BY <1>2
<1> HIDE DEF x, l, f
<1>8. t \in MethodType /\ t.in = x /\ t.limit = l /\ t.file = f
  <2>1. Written(s, t, x, l, f)
    BY DEF Written
  <2> HIDE DEF t
  <2> QED
    BY <1>5, <1>6, <2>1, WrittenType
<1>9. Wrote(s, t, n)
  <2>1. t.limit = IF s.limit = NoLimit THEN NoLimit ELSE s.limit - n
    BY <1>8 DEF l
  <2>2. t.file = IF s.mode = "file"
                THEN [s.file EXCEPT ![s.queue[1].item] = @ \o SubSeq(s.in, 1, n)] ELSE s.file
    BY <1>7, <1>8 DEF f
  <2>3. t = [s EXCEPT !.in = Drop(s.in, n), !.limit = t.limit, !.file = t.file]
    BY <1>8 DEF x
  <2> QED
    BY <1>1, <1>3, <1>8, <2>1, <2>2, <2>3 DEF Wrote
<1> QED
  BY <1>3, <1>4, <1>9

\* What Write leaves alone.
LEMMA WroteSame ==
    ASSUME NEW s \in MethodType, NEW t, NEW n \in Nat, Wrote(s, t, n)
    PROVE  /\ t \in MethodType /\ t.in = Drop(s.in, n) /\ t.queue = s.queue /\ t.sent = s.sent /\ t.host = s.host
           /\ t.open = s.open /\ t.persistent = s.persistent /\ t.location = s.location /\ t.out = s.out
           /\ t.reply = s.reply /\ t.mode = s.mode /\ t.phase = s.phase /\ t.err = s.err /\ t.early = s.early
           /\ t.stop = s.stop /\ t.answers = s.answers /\ t.told = s.told /\ t.pc = s.pc
<1>1. /\ t \in MethodType /\ t = [s EXCEPT !.in = Drop(s.in, n), !.limit = t.limit, !.file = t.file]
  BY DEF Wrote
<1> QED
  BY <1>1 DEF MethodType

\* Write changes nothing the records are about.
LEMMA WroteRecords ==
    ASSUME NEW s, NEW d, NEW p, NEW a, Records(s, d, p, a), s.mode = "file" => s.queue # <<>>,
           NEW t, NEW n \in Nat, Wrote(s, t, n)
    PROVE  Records(t, d, p, a)
<1>1. s \in MethodType /\ s.sent <= Len(s.queue)
  BY DEF Records
<1>2. /\ t \in MethodType /\ t.queue = s.queue /\ t.sent = s.sent /\ t.answers = s.answers /\ t.told = s.told
      /\ t.stop = s.stop
  BY <1>1, WroteSame
<1>3. CASE s.mode = "file"
  <2> DEFINE f == s.file[s.queue[1].item] \o SubSeq(s.in, 1, n)
             u == [s EXCEPT !.file = [@ EXCEPT ![s.queue[1].item] = f]]
  <2>1. s.in \in Seq(Tokens) /\ n <= Len(s.in)
    BY <1>1 DEF MethodType, Wrote
  <2>2. s.file[s.queue[1].item] \in Seq(Tokens)
    BY <1>3, HeadDue
  <2>3. SubSeq(s.in, 1, n) \in Seq(Tokens)
    BY <2>1
  <2>4. f \in Seq(Tokens)
    BY <2>2, <2>3
  <2>5. t.file = [s.file EXCEPT ![s.queue[1].item] = f]
    BY <1>3 DEF Wrote
  <2> HIDE DEF f
  <2>6. Records(u, d, p, a) /\ u.file = [s.file EXCEPT ![s.queue[1].item] = f] /\ u = [s EXCEPT !.file = u.file]
    <3>1. s.queue # <<>>
      BY <1>3
    <3>2. Put(s, u, f)
      BY DEF Put
    <3> HIDE DEF u
    <3>3. Records(u, d, p, a) /\ u.file = [s.file EXCEPT ![s.queue[1].item] = f] /\ u = [s EXCEPT !.file = u.file]
      BY <2>4, <3>1, <3>2, FilePut
    <3> QED
      BY <3>3
  <2> HIDE DEF u
  <2>7. u.queue = s.queue /\ u.answers = s.answers /\ u.told = s.told /\ u.stop = s.stop
    BY <1>1, <2>6 DEF MethodType
  <2>8. t.sent <= Len(t.queue) /\ t.queue = u.queue /\ t.file = u.file /\ u.stop \subseteq t.stop
        /\ t.answers = u.answers /\ t.told = u.told
    BY <1>1, <1>2, <2>5, <2>6, <2>7
  <2> QED
    BY <1>2, <2>6, <2>8, BooksSame
<1>4. CASE s.mode # "file"
  <2>1. t.file = s.file /\ t.sent <= Len(t.queue) /\ s.stop \subseteq t.stop
    BY <1>1, <1>2, <1>4 DEF Wrote
  <2> QED
    BY <1>2, <2>1, BooksSame
<1> QED
  BY <1>3, <1>4

\* What reading a body means for the head of the queue.
LEMMA ReadsHead ==
    ASSUME NEW s, NEW d, NEW p, NEW a, Books(s, d, p, a), NEW j, Reads(s, j)
    PROVE  /\ s.reply \in Uri /\ j \in 0..Site[s.reply].size /\ j \in Nat /\ Site[s.reply].size \in Nat
           /\ Base(s) \in Nat /\ Base(s) <= s.sent
           /\ s.mode # "error" =>
                /\ s.queue # <<>> /\ s.sent >= 1 /\ s.reply = s.queue[1].uri
                /\ s.queue[1].item \in DOMAIN p /\ s.queue[1].item \in Item
                /\ s.reply \in Chain[p[s.queue[1].item]]
<1>1. s \in MethodType /\ s.sent <= Len(s.queue) /\ Records(s, d, p, a)
  BY DEF Books, Records
<1>2. s.queue \in Seq(Queued) /\ s.sent \in Nat /\ Len(s.queue) \in Nat
  BY <1>1 DEF MethodType
<1>3. s.reply \in Uri /\ j \in 0..Site[s.reply].size
  BY DEF Reads
<1>4. Site[s.reply].size \in Nat
  BY <1>3, SiteType DEF Answer
<1>5. j \in Nat
  BY <1>3, <1>4
<1>6. ASSUME s.mode # "error"
      PROVE  /\ s.queue # <<>> /\ s.sent >= 1 /\ s.reply = s.queue[1].uri
             /\ s.queue[1].item \in DOMAIN p /\ s.queue[1].item \in Item
             /\ s.reply \in Chain[p[s.queue[1].item]]
  <2>1. s.sent >= 1 /\ s.reply = s.queue[1].uri
    BY <1>6 DEF Reads
  <2>2. s.queue # <<>>
    BY <1>1, <1>2, <2>1
  <2> QED
    BY <1>1, <2>1, <2>2, HeadDue
<1>7. Base(s) \in Nat /\ Base(s) <= s.sent
  BY <1>2, <1>6 DEF Base
<1> QED
  BY <1>3, <1>4, <1>5, <1>6, <1>7

\* What Write writes are the next bytes of the file, and no more of them than there are: the rest of
\* the reply and the replies after it stay in the buffer.
LEMMA WriteReads ==
    ASSUME SaneSite, NEW s, NEW d, NEW p, NEW a, Books(s, d, p, a), NEW j, Reads(s, j), Hosts(s),
           NEW c \in Seq(Tokens), NEW e, Rest(s, c, e, j), s.phase \in {"stream", "block"},
           NEW t, NEW n \in Nat, Wrote(s, t, n)
    PROVE  /\ j + n <= Site[s.reply].size /\ j + n \in Nat
           /\ Books(t, d, p, a) /\ Reads(t, j + n) /\ Hosts(t) /\ Rest(t, c, e, j + n)
<1>1. s \in MethodType /\ s.sent <= Len(s.queue) /\ Records(s, d, p, a) /\ p \in Plans
      /\ Files(s.file, s.answers, p)
  BY DEF Books, Records
<1> DEFINE u == s.reply
           left == Left(u, s.phase, j)
<1>2. PICK z \in Nat : z = Site[u].size
  BY ReadsHead
<1>3. u \in Uri /\ j \in 0..z /\ j \in Nat /\ Base(s) \in Nat /\ Base(s) <= s.sent
  BY <1>2, ReadsHead
<1>4. Site[u].framing \in {"stream", "closes", "chunked", "none"} /\ Site[u].close \in BOOLEAN
  BY <1>3, SiteType DEF Answer
<1>5. PICK N \in Nat : N = Len(s.in)
  BY <1>1 DEF MethodType
<1>6. left \in Seq(Tokens) /\ Flow(s, c, e, left, Base(s), HangsUp(u))
  <2>1. left \in Seq(Tokens)
    BY <1>1, <1>2, <1>3, LeftType
  <2> QED
    BY <2>1 DEF Rest
<1>7. j + n <= z
  <2>1. CASE s.limit # NoLimit
    <3>1. s.limit = z - j /\ n <= s.limit
      BY <1>2, <2>1 DEF Reads, Wrote
    <3> QED
      BY <1>3, <3>1
  <2>2. CASE s.limit = NoLimit
    <3>1. z - j # NoLimit
      BY <1>3 DEF NoLimit
    <3>2. Site[u].framing # "stream" /\ s.phase = "stream"
      BY <1>2, <2>2, <3>1 DEF Reads
    <3>3. Site[u].framing = "closes"
      BY <1>4, <3>2 DEF Reads
    <3>4. HangsUp(u) = TRUE
      BY <3>3 DEF HangsUp
    <3>5. N <= Len(left)
      BY <1>1, <1>5, <1>6, <3>4, FlowLast
    <3>6. left = Bytes(u, j) /\ Len(left) = z - j
      BY <1>2, <1>3, <3>2, BytesType DEF Left
    <3>7. n <= N
      BY <1>5 DEF Wrote
    <3> QED
      BY <1>3, <1>5, <3>5, <3>6, <3>7
  <2> QED
    BY <2>1, <2>2
<1>8. /\ j + n \in 0..z /\ n <= Len(left) /\ Drop(left, n) = Left(u, s.phase, j + n)
      /\ \A k \in 1..n : left[k] = Token("byte", u, j + k)
  BY <1>2, <1>3, <1>7, DropLeft
<1> HIDE DEF left
<1> DEFINE v == [s EXCEPT !.in = Drop(s.in, n)]
<1>9. n <= Len(s.in)
  BY DEF Wrote
<1>10. /\ \A k \in 1..n : s.in[k] = Token("byte", u, j + k)
       /\ v \in MethodType /\ Flow(v, c, e, Left(u, s.phase, j + n), Base(s), HangsUp(u))
  <2>1. Buffers(s, v, Drop(s.in, n))
    BY DEF Buffers
  <2> HIDE DEF v
  <2>2. /\ \A k \in 1..n : s.in[k] = left[k]
        /\ v \in MethodType /\ Flow(v, c, e, Drop(left, n), Base(s), HangsUp(u))
    BY <1>1, <1>6, <1>8, <1>9, <2>1, FlowTake
  <2> QED
    BY <1>8, <2>2
<1>11. v.in = Drop(s.in, n) /\ v.out = s.out /\ v.open = s.open /\ v.sent = s.sent /\ v.queue = s.queue
       /\ v.file = s.file
  BY <1>1 DEF MethodType
<1> HIDE DEF v
<1>12. /\ t \in MethodType /\ t.in = Drop(s.in, n) /\ t.queue = s.queue /\ t.sent = s.sent /\ t.host = s.host
       /\ t.open = s.open /\ t.persistent = s.persistent /\ t.location = s.location /\ t.out = s.out
       /\ t.reply = s.reply /\ t.mode = s.mode /\ t.phase = s.phase /\ t.early = s.early
       /\ t.answers = s.answers
  BY <1>1, WroteSame
<1>13. s.in \in Seq(Tokens) /\ s.file \in [Item -> Seq(Tokens)]
  BY <1>1 DEF MethodType
<1> DEFINE i == s.queue[1].item
           x == SubSeq(s.in, 1, n)
           f == s.file[i] \o x
<1>14. ASSUME s.mode = "file"
       PROVE  /\ i \in DOMAIN p /\ i \in Item /\ u \in Chain[p[i]] /\ Site[u].code = "ok" /\ j = Len(s.file[i])
              /\ t.file = [s.file EXCEPT ![i] = f] /\ f \in Seq(Tokens) /\ Len(f) = j + n
  <2>1. i \in DOMAIN p /\ i \in Item /\ u \in Chain[p[i]] /\ Site[u].code = "ok" /\ j = Len(s.file[i])
    BY <1>14, ReadsHead DEF Reads
  <2>2. t.file = [s.file EXCEPT ![i] = f]
    BY <1>14 DEF Wrote
  <2>3. x \in Seq(Tokens) /\ Len(x) = n
    BY <1>5, <1>9, <1>13
  <2>4. PICK g \in Seq(Tokens) : g = s.file[i] /\ Len(g) = j
    BY <1>13, <2>1
  <2>5. PICK y \in Seq(Tokens) : y = x /\ Len(y) = n
    BY <2>3
  <2>6. g \o y \in Seq(Tokens) /\ Len(g \o y) = Len(g) + Len(y)
    OBVIOUS
  <2>7. f = g \o y
    BY <2>4, <2>5
  <2>8. f \in Seq(Tokens) /\ Len(f) = j + n
    BY <2>4, <2>5, <2>6, <2>7
  <2> QED
    BY <2>1, <2>2, <2>8
<1>15. Records(t, d, p, a)
  <2>1. s.mode = "file" => s.queue # <<>>
    BY ReadsHead
  <2> QED
    BY <1>1, <2>1, WroteRecords
<1>16. Files(t.file, t.answers, p)
  <2>1. CASE s.mode # "file"
    BY <1>1, <1>12, <2>1 DEF Wrote
  <2>2. CASE s.mode = "file"
    <3>1. Beginning(f, u, s.answers[i] = 0)
      <4> SUFFICES ASSUME Site[u].framing # "chunked" \/ s.answers[i] = 0
                   PROVE  Len(f) <= z /\ f = Begun(u, Len(f))
        BY <1>2 DEF Beginning
      <4>1. Beginning(s.file[i], u, s.answers[i] = 0)
        BY <1>1, <1>14, <2>2 DEF Files
      <4>2. PICK g \in Seq(Tokens) : g = s.file[i] /\ Len(g) = j /\ g = Begun(u, Len(g))
        BY <1>13, <1>14, <2>2, <4>1 DEF Beginning
      <4>3. PICK y \in Seq(Tokens) : y = x /\ Len(y) = n /\ \A k \in 1..n : y[k] = Token("byte", u, j + k)
        <5>1. PICK h \in Seq(Tokens) : h = s.in /\ n <= Len(h)
          BY <1>9, <1>13
        <5>2. /\ SubSeq(h, 1, n) \in Seq(Tokens) /\ Len(SubSeq(h, 1, n)) = n
              /\ \A k \in 1..n : SubSeq(h, 1, n)[k] = h[k]
          BY <5>1
        <5>3. x = SubSeq(h, 1, n)
          BY <5>1
        <5>4. \A k \in 1..n : h[k] = Token("byte", u, j + k)
          BY <1>10, <5>1
        <5> HIDE DEF x
        <5> QED
          BY <5>2, <5>3, <5>4
      <4>5. \A k \in 1..Len(y) : y[k] = Token("byte", u, Len(g) + k)
        BY <4>2, <4>3
      <4>4. g \o y = Begun(u, Len(g \o y))
        BY <1>3, <4>2, <4>5, BegunMore
      <4> QED
        BY <1>7, <1>14, <2>2, <4>2, <4>3, <4>4
    <3> HIDE DEF f
    <3>2. Files([s.file EXCEPT ![i] = f], s.answers, p)
      BY <1>1, <1>13, <1>14, <2>2, <3>1, FilesPut
    <3> QED
      BY <1>12, <1>14, <2>2, <3>2
  <2> QED
    BY <2>1, <2>2
<1>17. Reads(t, j + n)
  <2>1. t.limit = IF Site[u].framing = "stream" \/ s.phase = "block" THEN z - (j + n) ELSE NoLimit
    <3>1. t.limit = IF s.limit = NoLimit THEN NoLimit ELSE s.limit - n
      BY DEF Wrote
    <3>2. s.limit = IF Site[u].framing = "stream" \/ s.phase = "block" THEN z - j ELSE NoLimit
      BY <1>2 DEF Reads
    <3>3. z - j # NoLimit /\ (z - j) - n = z - (j + n)
      BY <1>3, <1>7 DEF NoLimit
    <3> QED
      BY <3>1, <3>2, <3>3
  <2>2. s.mode = "file" => j + n = Len(t.file[s.queue[1].item])
    <3> SUFFICES ASSUME s.mode = "file" PROVE Len(t.file[i]) = j + n
      OBVIOUS
    <3>1. Len(f) = j + n /\ t.file = [s.file EXCEPT ![i] = f] /\ i \in Item
      BY <1>14
    <3> HIDE DEF f
    <3>2. t.file[i] = f
      BY <1>13, <3>1
    <3> QED
      BY <3>1, <3>2
  <2>3. t.phase \notin {"newline", "trailer"}
    BY <1>12
  <2> QED
    BY <1>2, <1>8, <1>12, <2>1, <2>2, <2>3 DEF Reads
<1>18. Rest(t, c, e, j + n)
  <2>1. \A k \in (Base(s) + 1)..v.sent : t.file[v.queue[k].item] = v.file[v.queue[k].item]
    <3>1. CASE s.mode # "file"
      BY <1>11, <3>1 DEF Wrote
    <3>2. CASE s.mode = "file"
      <4> SUFFICES ASSUME NEW k \in 2..s.sent PROVE t.file[s.queue[k].item] = s.file[s.queue[k].item]
        BY <1>11, <3>2 DEF Base
      <4>1. s.sent \in Nat /\ Len(s.queue) \in Nat
        BY <1>1 DEF MethodType
      <4>2. k \in 2..Len(s.queue) /\ k \in 1..s.sent
        BY <1>1, <4>1
      <4>3. s.queue[k].item \in Item /\ s.queue[k].item # i
        BY <1>1, <3>2, <4>2, FileLen, HeadDue, ReadsHead
      <4>4. t.file = [s.file EXCEPT ![i] = f]
        BY <1>14, <3>2
      <4> HIDE DEF f, i
      <4> QED
        BY <1>13, <4>3, <4>4
    <3> QED
      BY <3>1, <3>2
  <2>2. v.sent <= Len(v.queue) /\ t.sent <= Len(t.queue)
    BY <1>1, <1>11, <1>12
  <2>3. Keeps(v, Base(s), t, Base(s))
    BY <1>3, <1>10, <1>11, <1>12, <2>1, <2>2, KeepsItself
  <2>4. Flow(t, c, e, Left(u, s.phase, j + n), Base(s), HangsUp(u))
    BY <1>3, <1>10, <1>12, <2>2, <2>3, FlowKeeps
  <2> QED
    BY <1>12, <2>4 DEF Rest, Base
<1>19. Hosts(t)
  BY <1>12 DEF Hosts
<1> QED
  BY <1>2, <1>3, <1>7, <1>15, <1>16, <1>17, <1>18, <1>19 DEF Books

\* A chunked body that is cut short: whatever comes is written.
LEMMA DumpChunked ==
    ASSUME SaneSite, NEW s, NEW d, NEW p, NEW a, Books(s, d, p, a), NEW j, Reads(s, j),
           Site[s.reply].framing = "chunked", NEW t, NEW n \in Nat, Wrote(s, t, n)
    PROVE  /\ Records(t, d, p, a)
           /\ s.mode # "file" => Files(t.file, t.answers, p)
           /\ s.mode = "file" => Files(t.file, [t.answers EXCEPT ![t.queue[1].item] = @ + 1], p)
<1>1. s \in MethodType /\ Records(s, d, p, a) /\ p \in Plans /\ Files(s.file, s.answers, p)
  BY DEF Books, Records
<1>2. s.mode = "file" => s.queue # <<>>
  BY ReadsHead
<1>3. Records(t, d, p, a)
  BY <1>1, <1>2, WroteRecords
<1>4. t.queue = s.queue /\ t.answers = s.answers
  BY <1>1, WroteSame
<1>5. s.mode # "file" => Files(t.file, t.answers, p)
  BY <1>1, <1>4 DEF Wrote
<1>6. ASSUME s.mode = "file"
      PROVE  Files(t.file, [t.answers EXCEPT ![t.queue[1].item] = @ + 1], p)
  <2> DEFINE i == s.queue[1].item
             f == s.file[i] \o SubSeq(s.in, 1, n)
             an == [s.answers EXCEPT ![i] = @ + 1]
  <2>1. i \in DOMAIN p /\ i \in Item /\ s.reply \in Chain[p[i]] /\ Site[s.reply].code = "ok"
    BY <1>6, ReadsHead DEF Reads
  <2>2. s.in \in Seq(Tokens) /\ s.file \in [Item -> Seq(Tokens)] /\ s.answers \in [Item -> Nat] /\ n <= Len(s.in)
    BY <1>1 DEF MethodType, Wrote
  <2>3. f \in Seq(Tokens)
    <3>1. SubSeq(s.in, 1, n) \in Seq(Tokens)
      BY <2>2
    <3>2. s.file[i] \in Seq(Tokens)
      BY <2>1, <2>2
    <3> QED
      BY <3>1, <3>2
  <2>4. t.file = [s.file EXCEPT ![i] = f]
    BY <1>6 DEF Wrote
  <2>5. Files(s.file, an, p)
    BY <1>1, <2>1, <2>2, FilesAnswered
  <2>6. an[i] # 0
    BY <2>1, <2>2
  <2> HIDE DEF f, an
  <2>7. Beginning(f, s.reply, an[i] = 0)
    BY <2>6 DEF Beginning
  <2>8. Files([s.file EXCEPT ![i] = f], an, p)
    BY <1>1, <2>1, <2>2, <2>3, <2>5, <2>7, FilesPut
  <2> QED
    BY <1>4, <2>4, <2>8 DEF an
<1> QED
  BY <1>3, <1>5, <1>6

-----------------------------------------------------------------------------
(* One call of Go.                                                          *)

\* A body is being read, and may have come to the end of a block.
Filling(s, d, p, a, c, e, j) ==
    /\ Books(s, d, p, a) /\ s.pc = "data" /\ Reads(s, j) /\ Hosts(s) /\ Rest(s, c, e, j)

\* What ends a body leaves behind.
LEMMA BodyEnds ==
    ASSUME SaneSite, NEW s, NEW d, NEW p, NEW a, NEW j, Reads(s, j), NEW t, Records(t, d, p, a),
           t.sent = s.sent, t.queue = s.queue, t.mode = s.mode, t.location = s.location, 
           s.mode # "file" => Files(t.file, t.answers, p),
           s.mode = "file" => Files(t.file, [t.answers EXCEPT ![t.queue[1].item] = @ + 1], p),
           NEW c, NEW e, Over(t, c, e, Base(s)), NEW ok,
           s.mode = "file" /\ ok /\ Site[s.reply].framing # "closes" /\ ~t.early =>
               \/ t.file[s.queue[1].item] = Bytes(s.reply, 0)
               \/ Site[s.reply].framing = "chunked" /\ t.answers[s.queue[1].item] # 0
    PROVE  Ending(t, d, p, a, c, e, ok)
<1>1. s.mode # "error" => s.sent >= 1 /\ s.reply = s.queue[1].uri
  BY DEF Reads
<1>2. s.mode = "redirect" => s.location = Site[s.reply].to /\ Site[s.reply].code = "redirect"
  BY DEF Reads
<1>3. s.reply \in Uri
  BY DEF Reads
<1>4. ASSUME s.mode = "redirect" PROVE t.location = Site[t.queue[1].uri].to /\ t.location # NoUri
  <2>1. s.reply = s.queue[1].uri
    BY <1>1, <1>4
  <2> QED
    BY <1>2, <1>3, <1>4, <2>1 DEF SaneSite
<1> QED
  BY <1>1, <1>4 DEF Ending, Base

\* Run takes the messages in while something is under way.
LEMMA GoesOn ==
    ASSUME NEW s, NEW d, NEW p, NEW a, Books(s, d, p, a), Hosts(s), NEW base \in Nat,
           NEW c, NEW e, NEW rest, NEW hung, Flow(s, c, e, rest, base, hung), NEW t, t = Handle(s, d)
    PROVE  /\ Books(t, <<>>, p, a) /\ Hosts(t) /\ Flow(t, c, e, rest, base, hung) /\ Extends(s, t, d)
<1>1. s \in MethodType /\ s.sent <= Len(s.queue) /\ d \in Seq(Queued)
  BY DEF Books, Records
<1>2. Extends(s, t, d)
  BY <1>1, HandleExtends
<1>3. s.queue \o d = (s.queue \o d) \o <<>> /\ <<>> \in Seq(Queued)
  <2>1. s.queue \in Seq(Queued)
    BY <1>1 DEF MethodType
  <2>4. s.queue \o d \in Seq(Queued)
    BY <1>1, <2>1
  <2>2. PICK x \in Seq(Queued) : x = s.queue \o d
    BY <2>4
  <2>3. x \o <<>> = x
    OBVIOUS
  <2> QED
    BY <2>2, <2>3
<1> QED
  BY <1>1, <1>2, <1>3, BooksExtends, HostsExtends, FlowExtends

\* ... and while a body is read.
LEMMA ExtendsReads ==
    ASSUME NEW s \in MethodType, s.sent <= Len(s.queue), NEW ms \in Seq(Queued), NEW t, Extends(s, t, ms),
           NEW j, Reads(s, j)
    PROVE  /\ Reads(t, j) /\ (Reading(s, j) => Reading(t, j)) /\ Base(t) = Base(s)
           /\ t.pc = s.pc /\ t.reply = s.reply /\ t.phase = s.phase /\ t.open = s.open
           /\ t.limit = s.limit /\ t.err = s.err /\ t.mode = s.mode
<1>1. /\ t \in MethodType /\ t.queue = s.queue \o ms /\ s.sent <= t.sent
      /\ t = [s EXCEPT !.queue = t.queue, !.sent = t.sent, !.out = t.out, !.choke = t.choke]
  BY DEF Extends
<1>2. /\ t.reply = s.reply /\ t.phase = s.phase /\ t.limit = s.limit
      /\ t.mode = s.mode /\ t.location = s.location /\ t.persistent = s.persistent /\ t.early = s.early
      /\ t.open = s.open /\ t.file = s.file /\ t.err = s.err /\ t.pc = s.pc
  BY <1>1 DEF MethodType
<1>3. ASSUME s.sent >= 1 PROVE t.sent >= 1 /\ t.queue[1] = s.queue[1]
  <2>1. s.queue \in Seq(Queued) /\ s.sent \in Nat /\ t.sent \in Nat
    BY <1>1 DEF MethodType
  <2>2. PICK x \in Seq(Queued) : x = s.queue /\ Len(x) >= 1
    BY <1>3, <2>1
  <2>3. (x \o ms)[1] = x[1]
    BY <2>2
  <2> QED
    BY <1>1, <1>3, <2>1, <2>2, <2>3
<1>4. Reads(t, j) /\ (Reading(s, j) => Reading(t, j))
  BY <1>2, <1>3, ReadsSame
<1> QED
  BY <1>2, <1>4 DEF Base

\* The server has ended, or select has timed out, in the middle of a body.
LEMMA DiesInBody ==
    ASSUME SaneSite, NEW s, NEW d, NEW p, NEW a, NEW c \in Seq(Tokens), NEW e, NEW j,
           Filling(s, d, p, a, c, e, j), s.limit # 0, s.err => s.in = <<>>, NEW r, r = ServerDie(s)
    PROVE  /\ r.ok => /\ r.s.limit = 0 /\ ~r.s.err /\ (r.s.open => s.open)
                      /\ r.s.phase \in {"stream", "block"} /\ r.s.phase = s.phase
                      /\ \E k \in Nat : Filling(r.s, d, p, a, c, e, k)
           /\ ~r.ok => /\ r.s.open => s.open
                       /\ \A ok \in BOOLEAN : (ok => ~r.s.err) => Ending(r.s, d, p, a, c, e, ok)
<1>1. /\ s \in MethodType /\ s.sent <= Len(s.queue) /\ Books(s, d, p, a) /\ Records(s, d, p, a) /\ p \in Plans
      /\ s.pc = "data" /\ Reads(s, j) /\ Hosts(s) /\ Rest(s, c, e, j)
  BY DEF Filling, Books, Records
<1> DEFINE u == Write(s)
<1>2. PICK n \in Nat : Wrote(s, u, n)
  BY <1>1, ReadsHead, WriteWrote
<1> HIDE DEF u
<1>3. /\ u \in MethodType /\ u.in = Drop(s.in, n) /\ u.queue = s.queue /\ u.sent = s.sent
      /\ u.open = s.open /\ u.persistent = s.persistent /\ u.location = s.location
      /\ u.reply = s.reply /\ u.mode = s.mode /\ u.phase = s.phase /\ u.err = s.err /\ u.early = s.early
      /\ u.pc = "data" /\ u.answers = s.answers /\ u.told = s.told /\ u.stop = s.stop
  BY <1>1, <1>2, WroteSame
<1> DEFINE f == Site[s.reply].framing
<1>4. f \in {"stream", "closes", "chunked"} /\ s.reply \in Uri
  BY <1>1, SiteType DEF Reads, Answer
<1>5. s.phase \in {"stream", "size", "block", "newline", "trailer"} /\ s.limit \in Nat \cup {NoLimit}
      /\ s.in \in Seq(Tokens) /\ s.err \in BOOLEAN
  BY <1>1 DEF MethodType
<1>6. s.phase \in {"stream", "block"} =>
        /\ Books(u, d, p, a) /\ Reads(u, j + n) /\ Hosts(u) /\ Rest(u, c, e, j + n) /\ j + n \in Nat
  BY <1>1, <1>2, WriteReads
<1>7. Records(u, d, p, a)
  <2>1. s.mode = "file" => s.queue # <<>>
    BY <1>1, ReadsHead
  <2> QED
    BY <1>1, <1>2, <2>1, WroteRecords
<1>8. u.limit = IF s.limit = NoLimit THEN NoLimit ELSE s.limit - n
  BY <1>2 DEF Wrote
<1>9. s.in = <<>> => u.limit # 0
  <2> SUFFICES ASSUME s.in = <<>> PROVE u.limit # 0
    OBVIOUS
  <2>1. n <= 0
    BY <1>2 DEF Wrote
  <2>2. n = 0 /\ NoLimit # 0
    BY <2>1 DEF NoLimit
  <2> QED
    BY <1>5, <1>8, <2>2
<1>10. s.mode # "file" => Files(u.file, u.answers, p)
  BY <1>1, <1>2, <1>3 DEF Wrote, Books
<1>11. CASE s.in # <<>> /\ u.limit = 0
  <2>1. r = Result(u, TRUE)
    BY <1>1, <1>11 DEF ServerDie, u
  <2>2. r.ok /\ r.s = u
    BY <2>1 DEF Result
  <2>3. s.phase \in {"stream", "block"}
    <3>1. s.limit # NoLimit
      BY <1>8, <1>11 DEF NoLimit
    <3> QED
      BY <1>1, <1>4, <3>1 DEF Reads
  <2>4. Filling(u, d, p, a, c, e, j + n) /\ j + n \in Nat
    BY <1>3, <1>6, <2>3 DEF Filling
  <2>5. ~u.err
    BY <1>3, <1>5, <1>11
  <2> QED
    BY <1>3, <1>11, <2>2, <2>3, <2>4, <2>5
<1>12. CASE ~(s.in # <<>> /\ u.limit = 0) /\ f # "closes"
  <2> DEFINE t == [Closed(u) EXCEPT !.err = TRUE]
  <2>1. u.limit # 0
    BY <1>9, <1>12
  <2>2. r = Result(t, FALSE)
    BY <1>1, <1>4, <1>12, <2>1 DEF ServerDie, u
  <2>3. ~r.ok /\ r.s = t
    BY <2>2 DEF Result
  <2>4. /\ t \in MethodType /\ t.queue = u.queue /\ t.sent = u.sent /\ ~t.open /\ t.err /\ t.location = u.location
        /\ t.mode = u.mode /\ t.answers = u.answers /\ t.told = u.told /\ t.file = u.file /\ t.stop = u.stop
    BY <1>3 DEF MethodType, Closed
  <2> HIDE DEF t
  <2>5. Records(t, d, p, a)
    <3>1. t.sent <= Len(t.queue) /\ u.stop \subseteq t.stop
      BY <1>1, <1>3, <2>4
    <3> QED
      BY <1>7, <2>4, <3>1, BooksSame
  <2>6. s.mode = "file" => Files(t.file, [t.answers EXCEPT ![t.queue[1].item] = @ + 1], p)
    <3> SUFFICES ASSUME s.mode = "file"
                 PROVE  Files(u.file, [u.answers EXCEPT ![u.queue[1].item] = @ + 1], p)
      BY <2>4
    <3>1. CASE f = "chunked"
      BY <1>1, <1>2, <3>1, DumpChunked
    <3>2. CASE f = "stream"
      <4>1. s.phase = "stream"
        BY <1>1, <3>2 DEF Reads
      <4>2. Files(u.file, u.answers, p)
        BY <1>6, <4>1 DEF Books
      <4>3. u.answers \in [Item -> Nat] /\ u.queue[1].item \in Item
        BY <1>1, <1>3, ReadsHead DEF MethodType
      <4> QED
        BY <1>1, <4>2, <4>3, FilesAnswered
    <3> QED
      BY <1>4, <1>12, <3>1, <3>2
  <2>7. ASSUME NEW ok \in BOOLEAN, ok => ~t.err PROVE Ending(t, d, p, a, c, e, ok)
    <3>1. ~ok
      BY <2>4, <2>7
    <3>2. Over(t, c, e, Base(s))
      BY <2>4 DEF Over
    <3>3. s.mode # "file" => Files(t.file, t.answers, p)
      BY <1>10, <2>4
    <3>4. t.sent = s.sent /\ t.queue = s.queue /\ t.mode = s.mode /\ t.location = s.location
      BY <1>3, <2>4
    <3> QED
      BY <1>1, <2>5, <2>6, <3>1, <3>2, <3>3, <3>4, BodyEnds
  <2> QED
    BY <2>3, <2>4, <2>7
<1>13. CASE ~(s.in # <<>> /\ u.limit = 0) /\ f = "closes"
  <2> DEFINE t == [u EXCEPT !.limit = NoLimit]
  <2>1. s.phase = "stream" /\ s.limit = NoLimit /\ ~s.persistent
    BY <1>1, <1>13 DEF Reads, HangsUp
  <2>2. n = Len(s.in)
    BY <1>2, <2>1 DEF Wrote
  <2>3. u.in = <<>>
    BY <1>3, <1>5, <2>2 DEF Drop
  <2>4. u.limit # 0 /\ u.limit = NoLimit
    BY <1>8, <2>1 DEF NoLimit
  <2>5. r = Result(t, FALSE)
    BY <1>1, <1>13, <2>3, <2>4 DEF ServerDie, u
  <2>6. ~r.ok /\ r.s = t
    BY <2>5 DEF Result
  <2>7. /\ t \in MethodType /\ t.queue = u.queue /\ t.sent = u.sent /\ t.location = u.location /\ t.open = u.open
        /\ t.mode = u.mode /\ t.answers = u.answers /\ t.told = u.told /\ t.file = u.file /\ t.stop = u.stop
        /\ t.persistent = u.persistent
    BY <1>3, <1>5 DEF MethodType
  <2> HIDE DEF t
  <2>8. Records(t, d, p, a)
    <3>1. t.sent <= Len(t.queue) /\ u.stop \subseteq t.stop
      BY <1>1, <1>3, <2>7
    <3> QED
      BY <1>7, <2>7, <3>1, BooksSame
  <2>9. s.mode = "file" => Files(t.file, [t.answers EXCEPT ![t.queue[1].item] = @ + 1], p)
    <3> SUFFICES ASSUME s.mode = "file"
                 PROVE  Files(u.file, [u.answers EXCEPT ![u.queue[1].item] = @ + 1], p)
      BY <2>7
    <3>1. Files(u.file, u.answers, p)
      BY <1>6, <2>1 DEF Books
    <3>2. u.answers \in [Item -> Nat] /\ u.queue[1].item \in Item
      BY <1>1, <1>3, ReadsHead DEF MethodType
    <3> QED
      BY <1>1, <3>1, <3>2, FilesAnswered
  <2>10. ASSUME NEW ok \in BOOLEAN PROVE Ending(t, d, p, a, c, e, ok)
    <3>1. Over(t, c, e, Base(s))
      BY <1>3, <2>1, <2>7 DEF Over
    <3>2. s.mode # "file" => Files(t.file, t.answers, p)
      BY <1>10, <2>7
    <3>3. t.sent = s.sent /\ t.queue = s.queue /\ t.mode = s.mode /\ t.location = s.location
      BY <1>3, <2>7
    <3> QED
      BY <1>1, <1>13, <2>8, <2>9, <3>1, <3>2, <3>3, BodyEnds
  <2> QED
    BY <1>3, <2>6, <2>7, <2>10
<1> QED
  BY <1>11, <1>12, <1>13

\* The wire after a pass of Go in which n tokens arrive.
Wired(s, c, e, n, c1, e1) ==
    IF Writes(s) THEN Serves(s.out, SubSeq(c, n + 1, Len(c)), e, c1, e1)
    ELSE c1 = SubSeq(c, n + 1, Len(c)) /\ e1 = e

\* n tokens have come, and if there were requests to send they have been sent.
ReadIn(s, c, n) == [s EXCEPT !.in = @ \o SubSeq(c, 1, n)]
Taken(s, c, n) == IF Writes(s) THEN [ReadIn(s, c, n) EXCEPT !.out = <<>>] ELSE ReadIn(s, c, n)

\* One call of Go: it leaves x, with success or not, and c1, e1 and d1 on the wires.
Went(toFile, x, ok, c1, e1, d1) ==
    \/ /\ Refused(m, toFile)
       /\ x = m /\ ok = FALSE /\ c1 = conn /\ e1 = eof /\ d1 = stdin
    \/ \E n \in 0..Len(conn) :
          /\ x = Handle(IF toFile /\ m.in # <<>> THEN Write(Taken(m, conn, n)) ELSE Taken(m, conn, n), stdin)
          /\ ok = TRUE /\ Wired(m, conn, eof, n, c1, e1) /\ d1 = <<>>
    \/ \E n \in 0..Len(conn) :
          /\ m.open /\ x = ServerDie(ReadIn(m, conn, n)).s /\ ok = ServerDie(ReadIn(m, conn, n)).ok
          /\ c1 = <<>> /\ e1 = TRUE /\ d1 = stdin
    \/ /\ m.open /\ ~Busy(toFile)
       /\ x = ServerDie([m EXCEPT !.err = TRUE]).s /\ ok = ServerDie([m EXCEPT !.err = TRUE]).ok
       /\ c1 = conn /\ e1 = eof /\ d1 = stdin

\* What is on the wires after a step, where c1, e1 and d1 would be but for a closed connection.
Wires(c1, e1, d1) ==
    /\ stdin' = d1
    /\ IF m'.open THEN conn' = c1 /\ eof' = e1 ELSE NoWire

\* A pass of Go in which something happens is one of the three kinds of Went;
LEMMA PassWent ==
    ASSUME NEW toFile \in BOOLEAN, NEW n \in 0..Len(conn), NEW end \in BOOLEAN, end => m.open,
           NEW r, r = Go(m, toFile, n, end),
           IF end THEN UNCHANGED stdin ELSE stdin' = <<>>,
           IF ~m'.open THEN NoWire
             ELSE IF end THEN conn' = <<>> /\ eof' = TRUE
             ELSE IF Writes(m) THEN Served(SubSeq(conn, n + 1, Len(conn)), m.out)
             ELSE conn' = SubSeq(conn, n + 1, Len(conn)) /\ UNCHANGED eof
    PROVE  \E c1, e1, d1 : Went(toFile, r.s, r.ok, c1, e1, d1) /\ Wires(c1, e1, d1)
<1>1. CASE end
  <2>1. r = ServerDie(ReadIn(m, conn, n))
    BY <1>1 DEF Go, ReadIn
  <2>2. Went(toFile, r.s, r.ok, <<>>, TRUE, stdin)
    BY <1>1, <2>1 DEF Went
  <2>3. Wires(<<>>, TRUE, stdin)
    BY <1>1 DEF Wires
  <2> QED
    BY <2>2, <2>3
<1>2. CASE ~end
  <2>1. r = Result(Handle(IF toFile /\ m.in # <<>> THEN Write(Taken(m, conn, n)) ELSE Taken(m, conn, n), stdin), TRUE)
    BY <1>2 DEF Go, Taken, ReadIn
  <2>2. \A c1, e1 : Wired(m, conn, eof, n, c1, e1) => Went(toFile, r.s, r.ok, c1, e1, <<>>)
    <3>1. r.s = Handle(IF toFile /\ m.in # <<>> THEN Write(Taken(m, conn, n)) ELSE Taken(m, conn, n), stdin)
          /\ r.ok = TRUE
      BY <2>1 DEF Result
    <3> QED
      BY <3>1 DEF Went
  <2>3. CASE m'.open
    <3>1. Wired(m, conn, eof, n, conn', eof') /\ Wires(conn', eof', <<>>)
      BY <1>2, <2>3 DEF Wired, Serves, Served, Wires
    <3> QED
      BY <2>2, <3>1
  <2>4. CASE ~m'.open
    <3>1. \E c1, e1 : Wired(m, conn, eof, n, c1, e1)
      BY DEF Wired, Serves
    <3>2. \A c1, e1 : Wires(c1, e1, <<>>)
      BY <1>2, <2>4 DEF Wires
    <3> QED
      BY <2>2, <3>1, <3>2
  <2> QED
    BY <2>3, <2>4
<1> QED
  BY <1>1, <1>2

\* so is a refused call,
LEMMA RefusedWent ==
    ASSUME NEW toFile \in BOOLEAN, Refused(m, toFile), Wire, UNCHANGED stdin
    PROVE  \E c1, e1, d1 : Went(toFile, m, FALSE, c1, e1, d1) /\ Wires(c1, e1, d1)
<1>1. Went(toFile, m, FALSE, conn, eof, stdin)
  BY DEF Went
<1>2. Wires(conn, eof, stdin)
  BY DEF Wires, Wire, NoWire
<1> QED
  BY <1>1, <1>2

\* and a timeout.
LEMMA LateWent ==
    ASSUME NEW toFile \in BOOLEAN, m.open, ~Busy(toFile), Wire, UNCHANGED stdin,
           NEW r, r = ServerDie([m EXCEPT !.err = TRUE])
    PROVE  \E c1, e1, d1 : Went(toFile, r.s, r.ok, c1, e1, d1) /\ Wires(c1, e1, d1)
<1>1. Went(toFile, r.s, r.ok, conn, eof, stdin)
  BY DEF Went
<1>2. Wires(conn, eof, stdin)
  BY DEF Wires, Wire, NoWire
<1> QED
  BY <1>1, <1>2

\* A call of Go by RunData: what the caller makes of its result, for a file that is not chunked,
LEMMA WholeWent ==
    ASSUME GoThen(TRUE, Stay, LAMBDA s : EndData(s, ~s.err))
    PROVE  \E x, ok, c1, e1, d1 :
             /\ Went(TRUE, x, ok, c1, e1, d1) /\ Wires(c1, e1, d1)
             /\ m' = IF ok THEN x ELSE EndData(x, ~x.err)
<1> DEFINE at(x, ok, c1, e1, d1) ==
                    /\ Went(TRUE, x, ok, c1, e1, d1) /\ Wires(c1, e1, d1)
                    /\ m' = IF ok THEN x ELSE EndData(x, ~x.err)
           Led == \E x, ok, c1, e1, d1 : at(x, ok, c1, e1, d1)
<1>0. TRUE \in BOOLEAN
  OBVIOUS
<1>1. ASSUME Refused(m, TRUE), m' = EndData(m, ~m.err), Wire, UNCHANGED stdin
      PROVE  Led
  <2>1. PICK c1, e1, d1 : Went(TRUE, m, FALSE, c1, e1, d1) /\ Wires(c1, e1, d1)
    BY <1>0, <1>1, RefusedWent
  <2>2. at(m, FALSE, c1, e1, d1)
    BY <1>1, <2>1
  <2> HIDE DEF at
  <2> QED
    BY <2>2
<1>2. ASSUME NEW n \in 0..Len(conn), NEW end \in IF m.open THEN BOOLEAN ELSE {FALSE},
             NEW r, r = Go(m, TRUE, n, end),
             m' = IF r.ok THEN r.s ELSE EndData(r.s, ~r.s.err),
             IF end THEN UNCHANGED stdin ELSE stdin' = <<>>,
             IF ~m'.open THEN NoWire
               ELSE IF end THEN conn' = <<>> /\ eof' = TRUE
               ELSE IF Writes(m) THEN Served(SubSeq(conn, n + 1, Len(conn)), m.out)
               ELSE conn' = SubSeq(conn, n + 1, Len(conn)) /\ UNCHANGED eof
      PROVE  Led
  <2>1. end \in BOOLEAN /\ (end => m.open)
    BY <1>2
  <2>2. PICK c1, e1, d1 : Went(TRUE, r.s, r.ok, c1, e1, d1) /\ Wires(c1, e1, d1)
    BY <1>0, <1>2, <2>1, PassWent
  <2>3. PICK y, yes : y = r.s /\ yes = r.ok
    OBVIOUS
  <2>4. m' = IF yes THEN y ELSE EndData(y, ~y.err)
    BY <1>2, <2>3
  <2>5. Went(TRUE, y, yes, c1, e1, d1) /\ Wires(c1, e1, d1)
    BY <2>2, <2>3
  <2>6. at(y, yes, c1, e1, d1)
    BY <2>4, <2>5
  <2> HIDE DEF at
  <2> QED
    BY <2>6
<1>3. ASSUME m.open, ~Busy(TRUE), NEW r, r = ServerDie([m EXCEPT !.err = TRUE]),
             m' = IF r.ok THEN r.s ELSE EndData(r.s, ~r.s.err),
             Wire, UNCHANGED stdin
      PROVE  Led
  <2>1. PICK c1, e1, d1 : Went(TRUE, r.s, r.ok, c1, e1, d1) /\ Wires(c1, e1, d1)
    BY <1>0, <1>3, LateWent
  <2>3. PICK y, yes : y = r.s /\ yes = r.ok
    OBVIOUS
  <2>4. m' = IF yes THEN y ELSE EndData(y, ~y.err)
    BY <1>3, <2>3
  <2>5. Went(TRUE, y, yes, c1, e1, d1) /\ Wires(c1, e1, d1)
    BY <2>1, <2>3
  <2>6. at(y, yes, c1, e1, d1)
    BY <2>4, <2>5
  <2> HIDE DEF at
  <2> QED
    BY <2>6
<1> HIDE DEF Led
<1>4. Led
  BY <1>1, <1>2, <1>3 DEF GoThen, Stay
<1> QED
  BY <1>4 DEF Led

\* The end of a block of chunked encoding.
BlockOver(s) == IF s.limit # 0 THEN s ELSE [s EXCEPT !.phase = "newline", !.limit = NoLimit]

\* for a block of a chunked file,
LEMMA BlockWent ==
    ASSUME GoThen(TRUE, LAMBDA s : IF s.limit # 0 THEN s
                                ELSE [s EXCEPT !.phase = "newline", !.limit = NoLimit], LAMBDA s : EndData(s, FALSE))
    PROVE  \E x, ok, c1, e1, d1 :
             /\ Went(TRUE, x, ok, c1, e1, d1) /\ Wires(c1, e1, d1)
             /\ m' = IF ok THEN BlockOver(x) ELSE EndData(x, FALSE)
<1> DEFINE at(x, ok, c1, e1, d1) ==
                    /\ Went(TRUE, x, ok, c1, e1, d1) /\ Wires(c1, e1, d1)
                    /\ m' = IF ok THEN BlockOver(x) ELSE EndData(x, FALSE)
           Led == \E x, ok, c1, e1, d1 : at(x, ok, c1, e1, d1)
<1>0. TRUE \in BOOLEAN
  OBVIOUS
<1>1. ASSUME Refused(m, TRUE), m' = EndData(m, FALSE), Wire, UNCHANGED stdin
      PROVE  Led
  <2>1. PICK c1, e1, d1 : Went(TRUE, m, FALSE, c1, e1, d1) /\ Wires(c1, e1, d1)
    BY <1>0, <1>1, RefusedWent
  <2>2. at(m, FALSE, c1, e1, d1)
    BY <1>1, <2>1
  <2> HIDE DEF at
  <2> QED
    BY <2>2
<1>2. ASSUME NEW n \in 0..Len(conn), NEW end \in IF m.open THEN BOOLEAN ELSE {FALSE},
             NEW r, r = Go(m, TRUE, n, end),
             m' = IF r.ok THEN BlockOver(r.s) ELSE EndData(r.s, FALSE),
             IF end THEN UNCHANGED stdin ELSE stdin' = <<>>,
             IF ~m'.open THEN NoWire
               ELSE IF end THEN conn' = <<>> /\ eof' = TRUE
               ELSE IF Writes(m) THEN Served(SubSeq(conn, n + 1, Len(conn)), m.out)
               ELSE conn' = SubSeq(conn, n + 1, Len(conn)) /\ UNCHANGED eof
      PROVE  Led
  <2>1. end \in BOOLEAN /\ (end => m.open)
    BY <1>2
  <2>2. PICK c1, e1, d1 : Went(TRUE, r.s, r.ok, c1, e1, d1) /\ Wires(c1, e1, d1)
    BY <1>0, <1>2, <2>1, PassWent
  <2>3. PICK y, yes : y = r.s /\ yes = r.ok
    OBVIOUS
  <2>4. m' = IF yes THEN BlockOver(y) ELSE EndData(y, FALSE)
    BY <1>2, <2>3
  <2>5. Went(TRUE, y, yes, c1, e1, d1) /\ Wires(c1, e1, d1)
    BY <2>2, <2>3
  <2>6. at(y, yes, c1, e1, d1)
    BY <2>4, <2>5
  <2> HIDE DEF at
  <2> QED
    BY <2>6
<1>3. ASSUME m.open, ~Busy(TRUE), NEW r, r = ServerDie([m EXCEPT !.err = TRUE]),
             m' = IF r.ok THEN BlockOver(r.s) ELSE EndData(r.s, FALSE),
             Wire, UNCHANGED stdin
      PROVE  Led
  <2>1. PICK c1, e1, d1 : Went(TRUE, r.s, r.ok, c1, e1, d1) /\ Wires(c1, e1, d1)
    BY <1>0, <1>3, LateWent
  <2>3. PICK y, yes : y = r.s /\ yes = r.ok
    OBVIOUS
  <2>4. m' = IF yes THEN BlockOver(y) ELSE EndData(y, FALSE)
    BY <1>3, <2>3
  <2>5. Went(TRUE, y, yes, c1, e1, d1) /\ Wires(c1, e1, d1)
    BY <2>1, <2>3
  <2>6. at(y, yes, c1, e1, d1)
    BY <2>4, <2>5
  <2> HIDE DEF at
  <2> QED
    BY <2>6
<1> HIDE DEF Led
<1>4. Led
  BY <1>1, <1>2, <1>3 DEF GoThen, BlockOver
<1> QED
  BY <1>4 DEF Led

\* for a line of chunked encoding,
LEMMA LineWent ==
    ASSUME GoThen(FALSE, Stay, LAMBDA s : EndData(s, FALSE))
    PROVE  \E x, ok, c1, e1, d1 :
             /\ Went(FALSE, x, ok, c1, e1, d1) /\ Wires(c1, e1, d1)
             /\ m' = IF ok THEN x ELSE EndData(x, FALSE)
<1> DEFINE at(x, ok, c1, e1, d1) ==
                    /\ Went(FALSE, x, ok, c1, e1, d1) /\ Wires(c1, e1, d1)
                    /\ m' = IF ok THEN x ELSE EndData(x, FALSE)
           Led == \E x, ok, c1, e1, d1 : at(x, ok, c1, e1, d1)
<1>0. FALSE \in BOOLEAN
  OBVIOUS
<1>1. ASSUME Refused(m, FALSE), m' = EndData(m, FALSE), Wire, UNCHANGED stdin
      PROVE  Led
  <2>1. PICK c1, e1, d1 : Went(FALSE, m, FALSE, c1, e1, d1) /\ Wires(c1, e1, d1)
    BY <1>0, <1>1, RefusedWent
  <2>2. at(m, FALSE, c1, e1, d1)
    BY <1>1, <2>1
  <2> HIDE DEF at
  <2> QED
    BY <2>2
<1>2. ASSUME NEW n \in 0..Len(conn), NEW end \in IF m.open THEN BOOLEAN ELSE {FALSE},
             NEW r, r = Go(m, FALSE, n, end),
             m' = IF r.ok THEN r.s ELSE EndData(r.s, FALSE),
             IF end THEN UNCHANGED stdin ELSE stdin' = <<>>,
             IF ~m'.open THEN NoWire
               ELSE IF end THEN conn' = <<>> /\ eof' = TRUE
               ELSE IF Writes(m) THEN Served(SubSeq(conn, n + 1, Len(conn)), m.out)
               ELSE conn' = SubSeq(conn, n + 1, Len(conn)) /\ UNCHANGED eof
      PROVE  Led
  <2>1. end \in BOOLEAN /\ (end => m.open)
    BY <1>2
  <2>2. PICK c1, e1, d1 : Went(FALSE, r.s, r.ok, c1, e1, d1) /\ Wires(c1, e1, d1)
    BY <1>0, <1>2, <2>1, PassWent
  <2>3. PICK y, yes : y = r.s /\ yes = r.ok
    OBVIOUS
  <2>4. m' = IF yes THEN y ELSE EndData(y, FALSE)
    BY <1>2, <2>3
  <2>5. Went(FALSE, y, yes, c1, e1, d1) /\ Wires(c1, e1, d1)
    BY <2>2, <2>3
  <2>6. at(y, yes, c1, e1, d1)
    BY <2>4, <2>5
  <2> HIDE DEF at
  <2> QED
    BY <2>6
<1>3. ASSUME m.open, ~Busy(FALSE), NEW r, r = ServerDie([m EXCEPT !.err = TRUE]),
             m' = IF r.ok THEN r.s ELSE EndData(r.s, FALSE),
             Wire, UNCHANGED stdin
      PROVE  Led
  <2>1. PICK c1, e1, d1 : Went(FALSE, r.s, r.ok, c1, e1, d1) /\ Wires(c1, e1, d1)
    BY <1>0, <1>3, LateWent
  <2>3. PICK y, yes : y = r.s /\ yes = r.ok
    OBVIOUS
  <2>4. m' = IF yes THEN y ELSE EndData(y, FALSE)
    BY <1>3, <2>3
  <2>5. Went(FALSE, y, yes, c1, e1, d1) /\ Wires(c1, e1, d1)
    BY <2>1, <2>3
  <2>6. at(y, yes, c1, e1, d1)
    BY <2>4, <2>5
  <2> HIDE DEF at
  <2> QED
    BY <2>6
<1> HIDE DEF Led
<1>4. Led
  BY <1>1, <1>2, <1>3 DEF GoThen, Stay
<1> QED
  BY <1>4 DEF Led

\* and for headers.
LEMMA HeadersWent ==
    ASSUME GoThen(FALSE, Stay, NoHeaders)
    PROVE  \E x, ok, c1, e1, d1 :
             /\ Went(FALSE, x, ok, c1, e1, d1) /\ Wires(c1, e1, d1)
             /\ m' = IF ok THEN x ELSE NoHeaders(x)
<1> DEFINE at(x, ok, c1, e1, d1) ==
                    /\ Went(FALSE, x, ok, c1, e1, d1) /\ Wires(c1, e1, d1)
                    /\ m' = IF ok THEN x ELSE NoHeaders(x)
           Led == \E x, ok, c1, e1, d1 : at(x, ok, c1, e1, d1)
<1>0. FALSE \in BOOLEAN
  OBVIOUS
<1>1. ASSUME Refused(m, FALSE), m' = NoHeaders(m), Wire, UNCHANGED stdin
      PROVE  Led
  <2>1. PICK c1, e1, d1 : Went(FALSE, m, FALSE, c1, e1, d1) /\ Wires(c1, e1, d1)
    BY <1>0, <1>1, RefusedWent
  <2>2. at(m, FALSE, c1, e1, d1)
    BY <1>1, <2>1
  <2> HIDE DEF at
  <2> QED
    BY <2>2
<1>2. ASSUME NEW n \in 0..Len(conn), NEW end \in IF m.open THEN BOOLEAN ELSE {FALSE},
             NEW r, r = Go(m, FALSE, n, end),
             m' = IF r.ok THEN r.s ELSE NoHeaders(r.s),
             IF end THEN UNCHANGED stdin ELSE stdin' = <<>>,
             IF ~m'.open THEN NoWire
               ELSE IF end THEN conn' = <<>> /\ eof' = TRUE
               ELSE IF Writes(m) THEN Served(SubSeq(conn, n + 1, Len(conn)), m.out)
               ELSE conn' = SubSeq(conn, n + 1, Len(conn)) /\ UNCHANGED eof
      PROVE  Led
  <2>1. end \in BOOLEAN /\ (end => m.open)
    BY <1>2
  <2>2. PICK c1, e1, d1 : Went(FALSE, r.s, r.ok, c1, e1, d1) /\ Wires(c1, e1, d1)
    BY <1>0, <1>2, <2>1, PassWent
  <2>3. PICK y, yes : y = r.s /\ yes = r.ok
    OBVIOUS
  <2>4. m' = IF yes THEN y ELSE NoHeaders(y)
    BY <1>2, <2>3
  <2>5. Went(FALSE, y, yes, c1, e1, d1) /\ Wires(c1, e1, d1)
    BY <2>2, <2>3
  <2>6. at(y, yes, c1, e1, d1)
    BY <2>4, <2>5
  <2> HIDE DEF at
  <2> QED
    BY <2>6
<1>3. ASSUME m.open, ~Busy(FALSE), NEW r, r = ServerDie([m EXCEPT !.err = TRUE]),
             m' = IF r.ok THEN r.s ELSE NoHeaders(r.s),
             Wire, UNCHANGED stdin
      PROVE  Led
  <2>1. PICK c1, e1, d1 : Went(FALSE, r.s, r.ok, c1, e1, d1) /\ Wires(c1, e1, d1)
    BY <1>0, <1>3, LateWent
  <2>3. PICK y, yes : y = r.s /\ yes = r.ok
    OBVIOUS
  <2>4. m' = IF yes THEN y ELSE NoHeaders(y)
    BY <1>3, <2>3
  <2>5. Went(FALSE, y, yes, c1, e1, d1) /\ Wires(c1, e1, d1)
    BY <2>1, <2>3
  <2>6. at(y, yes, c1, e1, d1)
    BY <2>4, <2>5
  <2> HIDE DEF at
  <2> QED
    BY <2>6
<1> HIDE DEF Led
<1>4. Led
  BY <1>1, <1>2, <1>3 DEF GoThen, Stay
<1> QED
  BY <1>4 DEF Led

\* t is s but for its buffers and an error.
Alike(s, t) == t \in MethodType /\ t = [s EXCEPT !.in = t.in, !.out = t.out, !.err = t.err]

\* The fields Go leaves alone but for its buffers and the pending error.
LEMMA AlikeSame ==
    ASSUME NEW s \in MethodType, NEW t, Alike(s, t)
    PROVE  /\ t \in MethodType /\ t.pc = s.pc /\ t.queue = s.queue /\ t.sent = s.sent /\ t.host = s.host
           /\ t.open = s.open /\ t.persistent = s.persistent /\ t.location = s.location
           /\ t.limit = s.limit /\ t.reply = s.reply /\ t.mode = s.mode /\ t.phase = s.phase
           /\ t.early = s.early /\ t.file = s.file /\ t.answers = s.answers /\ t.told = s.told
           /\ t.stop = s.stop
  BY DEF Alike, MethodType

\* A body goes on being read when only the buffers change.
LEMMA FillingSame ==
    ASSUME NEW s, NEW d, NEW p, NEW a, NEW c, NEW e, NEW j, Filling(s, d, p, a, c, e, j),
           NEW t, Alike(s, t), NEW c1, NEW e1,
           Flow(t, c1, e1, Left(s.reply, s.phase, j), Base(s), HangsUp(s.reply))
    PROVE  Filling(t, d, p, a, c1, e1, j)
<1>1. s \in MethodType /\ Records(s, d, p, a) /\ Books(s, d, p, a) /\ s.sent <= Len(s.queue)
  BY DEF Filling, Books, Records
<1>2. /\ t \in MethodType /\ t.pc = s.pc /\ t.queue = s.queue /\ t.sent = s.sent /\ t.host = s.host
      /\ t.open = s.open /\ t.persistent = s.persistent /\ t.location = s.location
      /\ t.limit = s.limit /\ t.reply = s.reply /\ t.mode = s.mode /\ t.phase = s.phase
      /\ t.early = s.early /\ t.file = s.file /\ t.answers = s.answers /\ t.told = s.told
      /\ t.stop = s.stop
  BY <1>1, AlikeSame
<1>3. Books(t, d, p, a)
  BY <1>1, <1>2, BooksSame
<1>4. Reads(t, j)
  BY <1>2, ReadsSame DEF Filling
<1>5. Hosts(t) /\ Rest(t, c1, e1, j)
  BY <1>2 DEF Filling, Hosts, Rest, Base
<1> QED
  BY <1>2, <1>3, <1>4, <1>5 DEF Filling

\* Reading and sending.
LEMMA Arrives ==
    ASSUME NEW s \in MethodType, s.sent <= Len(s.queue), NEW base \in Nat, NEW c \in Seq(Tokens),
           NEW e \in BOOLEAN, NEW rest \in Seq(Tokens), NEW hung, Flow(s, c, e, rest, base, hung),
           NEW n \in 0..Len(c)
    PROVE  /\ Alike(s, ReadIn(s, c, n)) /\ ReadIn(s, c, n).err = s.err
           /\ SubSeq(c, n + 1, Len(c)) \in Seq(Tokens)
           /\ Flow(ReadIn(s, c, n), SubSeq(c, n + 1, Len(c)), e, rest, base, hung)
           /\ \A c1, e1 : Wired(s, c, e, n, c1, e1) =>
                /\ c1 \in Seq(Tokens) /\ e1 \in BOOLEAN
                /\ Alike(s, Taken(s, c, n)) /\ Taken(s, c, n).err = s.err
                /\ Flow(Taken(s, c, n), c1, e1, rest, base, hung)
<1> DEFINE y == ReadIn(s, c, n)
           z == [y EXCEPT !.out = <<>>]
           c0 == SubSeq(c, n + 1, Len(c))
<1>1. Buffers(s, y, s.in \o SubSeq(c, 1, n))
  BY DEF Buffers, ReadIn
<1>2. y = [s EXCEPT !.in = s.in \o SubSeq(c, 1, n)]
  BY DEF ReadIn
<1> HIDE DEF y
<1>3. y \in MethodType /\ c0 \in Seq(Tokens) /\ Flow(y, c0, e, rest, base, hung)
  BY <1>1, FlowRead
<1> HIDE DEF c0
<1>4. Alike(s, y) /\ y.err = s.err
  BY <1>2, <1>3 DEF Alike, MethodType
<1>5. /\ y.out = s.out /\ y.open = s.open /\ y.sent = s.sent /\ y.queue = s.queue
  BY <1>2 DEF MethodType
<1>6. ASSUME NEW c1, NEW e1, Wired(s, c, e, n, c1, e1)
      PROVE  /\ c1 \in Seq(Tokens) /\ e1 \in BOOLEAN
             /\ Alike(s, Taken(s, c, n)) /\ Taken(s, c, n).err = s.err
             /\ Flow(Taken(s, c, n), c1, e1, rest, base, hung)
  <2>1. CASE Writes(s)
    <3>1. Taken(s, c, n) = z
      BY <2>1 DEF Taken, y
    <3>2. y.open /\ y.out # <<>>
      BY <1>5, <2>1 DEF Writes
    <3>3. Sends(y, z)
      BY DEF Sends
    <3>4. Serves(y.out, c0, e, c1, e1)
      BY <1>5, <1>6, <2>1 DEF Wired, c0
    <3>5. z = [y EXCEPT !.out = <<>>]
      OBVIOUS
    <3> HIDE DEF z
    <3>6. /\ c1 \in Seq(Tokens) /\ e1 \in BOOLEAN /\ z \in MethodType
          /\ Flow(z, c1, e1, rest, base, hung)
      BY <1>3, <1>5, <3>2, <3>3, <3>4, FlowSend
    <3>7. Alike(s, z) /\ z.err = s.err
      <4>1. z = [s EXCEPT !.in = z.in, !.out = z.out, !.err = z.err] /\ z.err = s.err
        BY <1>2, <3>5 DEF MethodType
      <4> QED
        BY <3>6, <4>1 DEF Alike
    <3> QED
      BY <3>1, <3>6, <3>7
  <2>2. CASE ~Writes(s)
    <3>1. Taken(s, c, n) = y /\ c1 = c0 /\ e1 = e
      BY <1>6, <2>2 DEF Taken, Wired, c0, y
    <3> QED
      BY <1>3, <1>4, <3>1
  <2> QED
    BY <2>1, <2>2
<1> QED
  BY <1>3, <1>4, <1>6 DEF y, c0

\* The connection was closed before the body came: it has ended as it may.
LEMMA ClosedEnds ==
    ASSUME SaneSite, NEW s, NEW d, NEW p, NEW a, NEW c, NEW e, NEW j, Filling(s, d, p, a, c, e, j),
           ~s.open, NEW ok
    PROVE  Ending(s, d, p, a, c, e, ok)
<1>1. s \in MethodType /\ Records(s, d, p, a) /\ Reads(s, j) /\ Files(s.file, s.answers, p) /\ p \in Plans
      /\ Books(s, d, p, a)
  BY DEF Filling, Books, Records
<1>2. Over(s, c, e, Base(s))
  BY DEF Over
<1>3. s.mode = "file" => Files(s.file, [s.answers EXCEPT ![s.queue[1].item] = @ + 1], p)
  <2> SUFFICES ASSUME s.mode = "file"
               PROVE  Files(s.file, [s.answers EXCEPT ![s.queue[1].item] = @ + 1], p)
    OBVIOUS
  <2>1. s.answers \in [Item -> Nat] /\ s.queue[1].item \in Item
    BY <1>1, ReadsHead DEF MethodType
  <2> QED
    BY <1>1, <2>1, FilesAnswered
<1>4. s.early \/ Site[s.reply].framing = "closes"
  BY <1>1 DEF Reads
<1> QED
  BY <1>1, <1>2, <1>3, <1>4, BodyEnds

\* What one call of Go does in a body.
LEMMA BodyWent ==
    ASSUME SaneSite, Books(m, stdin, plan, asked), NEW j, AtData(m, conn, eof, j),
           conn \in Seq(Tokens), eof \in BOOLEAN, m.limit # 0,
           NEW toFile \in BOOLEAN, toFile <=> m.phase \in {"stream", "block"}, toFile \/ m.in = <<>>,
           NEW x, NEW ok, NEW c1, NEW e1, NEW d1, Went(toFile, x, ok, c1, e1, d1)
    PROVE  /\ c1 \in Seq(Tokens) /\ e1 \in BOOLEAN /\ (x.open => m.open)
           /\ ok => /\ ~x.err /\ x.phase = m.phase
                    /\ \E k \in Nat : Filling(x, d1, plan, asked, c1, e1, k)
           /\ ~ok => \A yes \in BOOLEAN : (yes => ~x.err) => Ending(x, d1, plan, asked, c1, e1, yes)
<1> DEFINE left == Left(m.reply, m.phase, j)
           b == Base(m)
           hung == HangsUp(m.reply)
<1>1. /\ Filling(m, stdin, plan, asked, conn, eof, j) /\ ~m.err /\ m \in MethodType /\ m.sent <= Len(m.queue)
      /\ Reads(m, j) /\ Hosts(m)
  BY DEF AtData, Reading, Filling, Books, Records
<1>2. left \in Seq(Tokens) /\ b \in Nat /\ Flow(m, conn, eof, left, b, hung)
  <2>1. m.phase \in {"stream", "size", "block", "newline", "trailer"}
    BY <1>1 DEF MethodType
  <2>2. left \in Seq(Tokens)
    BY <1>1, <2>1, ReadsHead, LeftType
  <2> QED
    BY <1>1, <2>2, ReadsHead DEF AtData, Rest
<1>3. ASSUME Refused(m, toFile), x = m, ok = FALSE, c1 = conn, e1 = eof, d1 = stdin
      PROVE  /\ c1 \in Seq(Tokens) /\ e1 \in BOOLEAN /\ (x.open => m.open) /\ ~ok
             /\ \A yes \in BOOLEAN : Ending(x, d1, plan, asked, c1, e1, yes)
  <2>1. ~m.open
    BY <1>3 DEF Refused
  <2>2. \A yes \in BOOLEAN : Ending(m, stdin, plan, asked, conn, eof, yes)
    BY <1>1, <2>1, ClosedEnds
  <2> QED
    BY <1>3, <2>2
<1>4. ASSUME NEW n \in 0..Len(conn),
             x = Handle(IF toFile /\ m.in # <<>> THEN Write(Taken(m, conn, n)) ELSE Taken(m, conn, n), stdin),
             ok = TRUE, Wired(m, conn, eof, n, c1, e1), d1 = <<>>
      PROVE  /\ c1 \in Seq(Tokens) /\ e1 \in BOOLEAN /\ (x.open => m.open) /\ ok
             /\ ~x.err /\ x.phase = m.phase /\ \E k \in Nat : Filling(x, d1, plan, asked, c1, e1, k)
  <2> DEFINE y == Taken(m, conn, n)
             z == IF toFile /\ m.in # <<>> THEN Write(y) ELSE y
  <2>1. /\ c1 \in Seq(Tokens) /\ e1 \in BOOLEAN /\ Alike(m, y) /\ y.err = m.err
        /\ Flow(y, c1, e1, left, b, hung)
    BY <1>1, <1>2, <1>4, Arrives
  <2> HIDE DEF y
  <2>2. Filling(y, stdin, plan, asked, c1, e1, j)
    BY <1>1, <2>1, FillingSame
  <2>3. y \in MethodType /\ y.phase = m.phase /\ y.open = m.open
    BY <1>1, <2>1, AlikeSame
  <2>4. /\ z \in MethodType /\ z.phase = m.phase /\ z.open = m.open /\ ~z.err
        /\ \E k \in Nat : Filling(z, stdin, plan, asked, c1, e1, k)
    <3>1. CASE toFile /\ m.in # <<>>
      <4>1. Books(y, stdin, plan, asked) /\ Reads(y, j) /\ Hosts(y) /\ Rest(y, c1, e1, j) /\ y.pc = "data"
        BY <2>2 DEF Filling
      <4>2. y.mode = "file" => y.queue # <<>>
        BY <4>1, ReadsHead
      <4>3. PICK k \in Nat : Wrote(y, Write(y), k)
        BY <2>3, <4>2, WriteWrote
      <4> DEFINE w == Write(y)
      <4>4. z = w
        BY <3>1
      <4> HIDE DEF w, z
      <4>5. w \in MethodType /\ w.phase = y.phase /\ w.open = y.open /\ w.err = y.err /\ w.pc = y.pc
        BY <2>3, <4>3, WroteSame DEF w
      <4>6. /\ j + k \in Nat
            /\ Books(w, stdin, plan, asked) /\ Reads(w, j + k) /\ Hosts(w) /\ Rest(w, c1, e1, j + k)
        BY <2>1, <2>3, <3>1, <4>1, <4>3, WriteReads DEF w
      <4>7. Filling(w, stdin, plan, asked, c1, e1, j + k)
        BY <4>1, <4>5, <4>6 DEF Filling
      <4> QED
        BY <1>1, <2>1, <2>3, <4>4, <4>5, <4>6, <4>7
    <3>2. CASE ~(toFile /\ m.in # <<>>)
      <4>1. z = y
        BY <3>2
      <4>2. j \in Nat
        BY <1>1, ReadsHead
      <4> QED
        BY <1>1, <2>1, <2>2, <2>3, <4>1, <4>2
    <3> QED
      BY <3>1, <3>2
  <2>5. x = Handle(z, stdin)
    BY <1>4 DEF y
  <2> HIDE DEF z
  <2>6. PICK k \in Nat : Filling(z, stdin, plan, asked, c1, e1, k)
    BY <2>4
  <2>7. /\ Books(z, stdin, plan, asked) /\ Hosts(z) /\ Reads(z, k) /\ z.pc = "data"
        /\ Flow(z, c1, e1, Left(z.reply, z.phase, k), Base(z), HangsUp(z.reply))
    BY <2>6 DEF Filling, Rest
  <2>8. Base(z) \in Nat /\ z.sent <= Len(z.queue) /\ stdin \in Seq(Queued)
    BY <2>7, ReadsHead DEF Books, Records
  <2>9. /\ Books(x, <<>>, plan, asked) /\ Hosts(x) /\ Extends(z, x, stdin)
        /\ Flow(x, c1, e1, Left(z.reply, z.phase, k), Base(z), HangsUp(z.reply))
    BY <2>5, <2>7, <2>8, GoesOn
  <2>10. /\ Reads(x, k) /\ Base(x) = Base(z) /\ x.pc = z.pc /\ x.reply = z.reply /\ x.phase = z.phase
         /\ x.open = z.open /\ x.err = z.err
    BY <2>4, <2>7, <2>8, <2>9, ExtendsReads
  <2>11. Filling(x, <<>>, plan, asked, c1, e1, k)
    BY <2>7, <2>9, <2>10 DEF Filling, Rest
  <2> QED
    BY <1>4, <2>1, <2>4, <2>10, <2>11
<1>5. ASSUME NEW y, NEW c, NEW e, Filling(y, stdin, plan, asked, c, e, j), y.open = m.open, y.phase = m.phase,
             y.limit = m.limit, y.err => y.in = <<>>, c \in Seq(Tokens), e \in BOOLEAN,
             x = ServerDie(y).s, ok = ServerDie(y).ok, c1 = c, e1 = e, d1 = stdin
      PROVE  /\ c1 \in Seq(Tokens) /\ e1 \in BOOLEAN /\ (x.open => m.open)
             /\ ok => /\ ~x.err /\ x.phase = m.phase
                      /\ \E k \in Nat : Filling(x, d1, plan, asked, c1, e1, k)
             /\ ~ok => \A yes \in BOOLEAN : (yes => ~x.err) => Ending(x, d1, plan, asked, c1, e1, yes)
  <2>1. PICK r : r = ServerDie(y)
    OBVIOUS
  <2>2. x = r.s /\ ok = r.ok /\ y.limit # 0
    BY <1>5, <2>1
  <2>3. /\ r.ok => /\ ~r.s.err /\ (r.s.open => y.open) /\ r.s.phase = y.phase
                   /\ \E k \in Nat : Filling(r.s, stdin, plan, asked, c, e, k)
        /\ ~r.ok => /\ r.s.open => y.open
                    /\ \A yes \in BOOLEAN : (yes => ~r.s.err) => Ending(r.s, stdin, plan, asked, c, e, yes)
    BY <1>5, <2>1, <2>2, DiesInBody
  <2> QED
    BY <1>5, <2>2, <2>3
<1>6. ASSUME NEW n \in 0..Len(conn), x = ServerDie(ReadIn(m, conn, n)).s, ok = ServerDie(ReadIn(m, conn, n)).ok,
             c1 = <<>>, e1 = TRUE, d1 = stdin
      PROVE  /\ c1 \in Seq(Tokens) /\ e1 \in BOOLEAN /\ (x.open => m.open)
             /\ ok => /\ ~x.err /\ x.phase = m.phase
                      /\ \E k \in Nat : Filling(x, d1, plan, asked, c1, e1, k)
             /\ ~ok => \A yes \in BOOLEAN : (yes => ~x.err) => Ending(x, d1, plan, asked, c1, e1, yes)
  <2> DEFINE y == ReadIn(m, conn, n)
             c0 == SubSeq(conn, n + 1, Len(conn))
  <2>1. Alike(m, y) /\ y.err = m.err /\ c0 \in Seq(Tokens) /\ Flow(y, c0, eof, left, b, hung)
    BY <1>1, <1>2, Arrives
  <2> HIDE DEF y, c0
  <2>2. y \in MethodType /\ y.open = m.open /\ y.phase = m.phase /\ y.limit = m.limit
    BY <1>1, <2>1, AlikeSame
  <2>3. Flow(y, <<>>, TRUE, left, b, hung)
    BY <1>2, <2>1, <2>2, FlowCut
  <2>4. Filling(y, stdin, plan, asked, <<>>, TRUE, j)
    BY <1>1, <2>1, <2>3, FillingSame
  <2>5. <<>> \in Seq(Tokens) /\ TRUE \in BOOLEAN /\ ~y.err
    BY <1>1, <2>1
  <2>6. x = ServerDie(y).s /\ ok = ServerDie(y).ok
    BY <1>6 DEF y
  <2> QED
    BY <1>5, <1>6, <2>2, <2>4, <2>5, <2>6
<1>7. ASSUME ~Busy(toFile), x = ServerDie([m EXCEPT !.err = TRUE]).s, ok = ServerDie([m EXCEPT !.err = TRUE]).ok,
             c1 = conn, e1 = eof, d1 = stdin
      PROVE  /\ c1 \in Seq(Tokens) /\ e1 \in BOOLEAN /\ (x.open => m.open)
             /\ ok => /\ ~x.err /\ x.phase = m.phase
                      /\ \E k \in Nat : Filling(x, d1, plan, asked, c1, e1, k)
             /\ ~ok => \A yes \in BOOLEAN : (yes => ~x.err) => Ending(x, d1, plan, asked, c1, e1, yes)
  <2> DEFINE y == [m EXCEPT !.err = TRUE]
  <2>1. Alike(m, y) /\ y.in = m.in /\ y.out = m.out /\ y.open = m.open /\ y.sent = m.sent /\ y.queue = m.queue
        /\ y.file = m.file /\ y.phase = m.phase /\ y.limit = m.limit
    BY <1>1 DEF Alike, MethodType
  <2>2. m.in = <<>>
    BY <1>7 DEF Busy
  <2> HIDE DEF y
  <2>3. y \in MethodType
    BY <1>1, <2>1, AlikeSame
  <2>4. Keeps(m, b, y, b)
    BY <1>1, <1>2, <2>1, KeepsItself
  <2>5. Flow(y, conn, eof, left, b, hung)
    BY <1>1, <1>2, <2>1, <2>3, <2>4, FlowKeeps
  <2>6. Filling(y, stdin, plan, asked, conn, eof, j)
    BY <1>1, <2>1, <2>5, FillingSame
  <2>7. x = ServerDie(y).s /\ ok = ServerDie(y).ok
    BY <1>7 DEF y
  <2> QED
    BY <1>5, <1>7, <2>1, <2>2, <2>6, <2>7
<1> QED
  BY <1>3, <1>4, <1>6, <1>7 DEF Went

\* No limit on what is to be written.
Unlimited(s) == [s EXCEPT !.limit = NoLimit]

\* All of a body has come.
LEMMA BodyWhole ==
    ASSUME SaneSite, NEW s, NEW d, NEW p, NEW a, NEW c, NEW e, NEW j, Books(s, d, p, a), Reads(s, j),
           j = Site[s.reply].size, Hosts(s), ~s.err,
           Flow(s, c, e, <<>>, Base(s), HangsUp(s.reply)),
           Site[s.reply].framing \in {"stream", "chunked"}
    PROVE  Ending(Unlimited(s), d, p, a, c, e, TRUE)
<1> DEFINE t == Unlimited(s)
           u == s.reply
           i == s.queue[1].item
<1>1. s \in MethodType /\ s.sent <= Len(s.queue) /\ Records(s, d, p, a) /\ Files(s.file, s.answers, p) /\ p \in Plans
  BY DEF Books, Records
<1>2. /\ t \in MethodType /\ t.queue = s.queue /\ t.sent = s.sent /\ t.mode = s.mode /\ t.location = s.location
      /\ t.file = s.file /\ t.answers = s.answers /\ t.told = s.told /\ t.stop = s.stop /\ t.early = s.early
      /\ t.in = s.in /\ t.out = s.out /\ t.open = s.open /\ t.host = s.host /\ t.persistent = s.persistent
      /\ t.err = s.err
  BY <1>1 DEF MethodType, Unlimited
<1> HIDE DEF t
<1>3. Records(t, d, p, a)
  <2>1. t.sent <= Len(t.queue) /\ s.stop \subseteq t.stop
    BY <1>1, <1>2
  <2> QED
    BY <1>1, <1>2, <2>1, BooksSame
<1>4. Base(s) \in Nat /\ u \in Uri /\ Site[u].size \in Nat
  BY ReadsHead
<1>5. Over(t, c, e, Base(s))
  <2>1. Keeps(s, Base(s), t, Base(s))
    BY <1>1, <1>2, <1>4, KeepsItself
  <2>2. t.sent <= Len(t.queue)
    BY <1>1, <1>2
  <2>3. Flow(t, c, e, <<>>, Base(s), HangsUp(u))
    BY <1>1, <1>2, <1>4, <2>1, <2>2, FlowKeeps
  <2>4. Flow(t, c, e, <<>>, Base(s), FALSE)
    BY <2>3, FlowUnhung
  <2> QED
    BY <1>2, <2>4 DEF Over, Hosts
<1>6. s.mode # "file" => Files(t.file, t.answers, p)
  BY <1>1, <1>2
<1>7. s.mode = "file" => Files(t.file, [t.answers EXCEPT ![t.queue[1].item] = @ + 1], p)
  <2> SUFFICES ASSUME s.mode = "file"
               PROVE  Files(s.file, [s.answers EXCEPT ![i] = @ + 1], p)
    BY <1>2
  <2>1. s.answers \in [Item -> Nat] /\ i \in Item
    BY <1>1, ReadsHead DEF MethodType
  <2> QED
    BY <1>1, <2>1, FilesAnswered
<1>8. s.mode = "file" =>
        \/ t.file[i] = Bytes(u, 0)
        \/ Site[u].framing = "chunked" /\ t.answers[i] # 0
  <2> SUFFICES ASSUME s.mode = "file", Site[u].framing # "chunked" \/ s.answers[i] = 0
               PROVE  s.file[i] = Bytes(u, 0)
    BY <1>2
  <2>1. i \in DOMAIN p /\ u \in Chain[p[i]] /\ Site[u].code = "ok" /\ Len(s.file[i]) = Site[u].size
    BY ReadsHead DEF Reads
  <2>2. s.file[i] = Begun(u, Site[u].size)
    BY <1>1, <2>1 DEF Files, Beginning
  <2>3. PICK z \in Nat : z = Site[u].size
    BY <1>4
  <2>4. \A k \in 1..z : 0 + k = k
    OBVIOUS
  <2>5. z - 0 = z
    OBVIOUS
  <2>6. Begun(u, z) = Bytes(u, 0)
    BY <2>3, <2>4, <2>5 DEF Begun, Bytes
  <2> QED
    BY <2>2, <2>3, <2>6
<1>9. Ending(t, d, p, a, c, e, TRUE)
  BY <1>1, <1>2, <1>3, <1>5, <1>6, <1>7, <1>8, BodyEnds
<1> QED
  BY <1>9 DEF t

\* The books, and what is being read, do not depend on the buffers.
LEMMA AlikeBooks ==
    ASSUME NEW s, NEW d, NEW p, NEW a, NEW j, Books(s, d, p, a), Reads(s, j), Hosts(s), NEW t, Alike(s, t)
    PROVE  Books(t, d, p, a) /\ Reads(t, j) /\ Hosts(t)
<1>1. s \in MethodType /\ Records(s, d, p, a) /\ Books(s, d, p, a) /\ s.sent <= Len(s.queue)
  BY DEF Books, Records
<1>2. /\ t \in MethodType /\ t.queue = s.queue /\ t.sent = s.sent /\ t.host = s.host
      /\ t.open = s.open /\ t.persistent = s.persistent /\ t.location = s.location
      /\ t.limit = s.limit /\ t.reply = s.reply /\ t.mode = s.mode /\ t.phase = s.phase
      /\ t.early = s.early /\ t.file = s.file /\ t.answers = s.answers /\ t.told = s.told
      /\ t.stop = s.stop
  BY <1>1, AlikeSame
<1>3. Books(t, d, p, a)
  BY <1>1, <1>2, BooksSame
<1>4. Reads(t, j)
  BY <1>2, ReadsSame
<1> QED
  BY <1>2, <1>3, <1>4 DEF Hosts

\* The next line has come.
NextIn(s) == [s EXCEPT !.in = Tail(@)]

\* The first token in the buffer is what is to come next.
LEMMA LineComes ==
    ASSUME NEW s, NEW d, NEW p, NEW a, NEW c \in Seq(Tokens), NEW e, NEW j, Filling(s, d, p, a, c, e, j), s.in # <<>>,
           NEW k \in Tokens, NEW rest \in Seq(Tokens), Left(s.reply, s.phase, j) = <<k>> \o rest
    PROVE  /\ Head(s.in) = k /\ Alike(s, NextIn(s)) /\ NextIn(s).err = s.err
           /\ Flow(NextIn(s), c, e, rest, Base(s), HangsUp(s.reply))
<1> DEFINE t == NextIn(s)
<1>1. s \in MethodType /\ Books(s, d, p, a) /\ Reads(s, j)
  BY DEF Filling, Books, Records
<1>2. s.in \in Seq(Tokens) /\ Len(s.in) \in Nat /\ Len(s.in) >= 1 /\ Head(s.in) = s.in[1] /\ Tail(s.in) = Drop(s.in, 1)
      /\ Tail(s.in) \in Seq(Tokens)
  BY <1>1 DEF MethodType, Drop
<1>3. Buffers(s, t, Drop(s.in, 1)) /\ t = [s EXCEPT !.in = Tail(s.in)]
  BY <1>2 DEF Buffers, NextIn
<1> HIDE DEF t
<1>4. <<k>> \in Seq(Tokens)
  OBVIOUS
<1>5. PICK left \in Seq(Tokens) : left = <<k>> \o rest
  <2>1. PICK h \in Seq(Tokens) : h = <<k>>
    BY <1>4
  <2>2. h \o rest \in Seq(Tokens)
    OBVIOUS
  <2> QED
    BY <2>1, <2>2
<1>6. /\ Len(left) = 1 + Len(rest) /\ left[1] = k /\ SubSeq(left, 2, Len(left)) = rest /\ Len(rest) \in Nat
  BY <1>5
<1>7. 1 \in Nat /\ 1 <= Len(s.in) /\ 1 <= Len(left) /\ Drop(left, 1) = rest
  BY <1>2, <1>6 DEF Drop
<1>8. Flow(s, c, e, left, Base(s), HangsUp(s.reply))
  BY <1>5 DEF Filling, Rest
<1>9. /\ s.in[1] = left[1]
      /\ t \in MethodType /\ Flow(t, c, e, Drop(left, 1), Base(s), HangsUp(s.reply))
  <2>1. PICK n \in Nat : n = 1
    OBVIOUS
  <2>2. n <= Len(s.in) /\ n <= Len(left) /\ Buffers(s, t, Drop(s.in, n))
    BY <1>3, <1>7, <2>1
  <2>3. /\ \A h \in 1..n : s.in[h] = left[h]
        /\ t \in MethodType /\ Flow(t, c, e, Drop(left, n), Base(s), HangsUp(s.reply))
    BY <1>1, <1>8, <2>2, FlowTake
  <2> QED
    BY <2>1, <2>3
<1>10. Head(s.in) = k
  BY <1>2, <1>6, <1>9
<1>11. Alike(s, t) /\ t.err = s.err
  BY <1>1, <1>2, <1>3, <1>9 DEF Alike, MethodType
<1> QED
  BY <1>7, <1>9, <1>10, <1>11 DEF t

\* The next phase of chunked encoding, with its limit.
Turned(s, ph, l) == [s EXCEPT !.phase = ph, !.limit = l]

\* The limit of a part of a chunked body.
Limit(s, ph, j) == IF ph = "block" THEN Site[s.reply].size - j ELSE NoLimit

\* The part ph of a chunked body begins in s, for which it becomes t.
Turning(s, d, p, a, c, e, j, ph, t) ==
    /\ Books(s, d, p, a) /\ s.pc = "data" /\ Reads(s, j) /\ Hosts(s)
    /\ Site[s.reply].framing = "chunked" /\ ph \in {"size", "block", "newline", "trailer"}
    /\ ph \in {"newline", "trailer"} => j = Site[s.reply].size
    /\ Flow(s, c, e, Left(s.reply, ph, j), Base(s), HangsUp(s.reply))
    /\ t = Turned(s, ph, Limit(s, ph, j))

\* The reader of chunked encoding turns to its next phase.
LEMMA Turns ==
    ASSUME NEW s, NEW d, NEW p, NEW a, NEW c, NEW e, NEW j, NEW ph, NEW t, Turning(s, d, p, a, c, e, j, ph, t)
    PROVE  /\ Filling(t, d, p, a, c, e, j) /\ t.phase = ph /\ t.err = s.err /\ t.open = s.open
           /\ t.reply = s.reply
<1>0. /\ Books(s, d, p, a) /\ s.pc = "data" /\ Reads(s, j) /\ Hosts(s)
      /\ Site[s.reply].framing = "chunked" /\ ph \in {"size", "block", "newline", "trailer"}
      /\ ph \in {"newline", "trailer"} => j = Site[s.reply].size
      /\ Flow(s, c, e, Left(s.reply, ph, j), Base(s), HangsUp(s.reply))
      /\ t = Turned(s, ph, Limit(s, ph, j))
  BY DEF Turning
<1>1. s \in MethodType /\ s.sent <= Len(s.queue) /\ Records(s, d, p, a)
  BY <1>0 DEF Books, Records
<1>2. s.reply \in Uri /\ j \in 0..Site[s.reply].size /\ Site[s.reply].size \in Nat /\ Base(s) \in Nat
  BY <1>0, ReadsHead
<1>3. Limit(s, ph, j) \in Nat \cup {NoLimit}
  BY <1>2 DEF Limit
<1>4. /\ t \in MethodType /\ t.phase = ph /\ t.limit = Limit(s, ph, j)
      /\ t.queue = s.queue /\ t.sent = s.sent /\ t.mode = s.mode /\ t.location = s.location
      /\ t.file = s.file /\ t.answers = s.answers /\ t.told = s.told /\ t.stop = s.stop /\ t.early = s.early
      /\ t.in = s.in /\ t.out = s.out /\ t.open = s.open /\ t.host = s.host /\ t.persistent = s.persistent
      /\ t.err = s.err /\ t.reply = s.reply /\ t.pc = s.pc
  <2>1. t = [s EXCEPT !.phase = ph, !.limit = Limit(s, ph, j)]
    BY <1>0 DEF Turned
  <2> QED
    BY ZenonT(60), <1>0, <1>1, <1>3, <2>1 DEF MethodType
<1>5. Books(t, d, p, a)
  <2>1. t.sent <= Len(t.queue) /\ s.stop \subseteq t.stop
    BY <1>1, <1>4
  <2> QED
    BY <1>0, <1>1, <1>4, <2>1, BooksSame
<1>6. Reads(t, j)
  BY <1>0, <1>4 DEF Reads, Limit
<1>7. Flow(t, c, e, Left(s.reply, ph, j), Base(s), HangsUp(s.reply))
  <2>1. Keeps(s, Base(s), t, Base(s))
    BY <1>1, <1>2, <1>4, KeepsItself
  <2>2. t.sent <= Len(t.queue)
    BY <1>1, <1>4
  <2> QED
    BY <1>0, <1>1, <1>2, <1>4, <2>1, <2>2, FlowKeeps
<1> QED
  BY <1>0, <1>4, <1>5, <1>6, <1>7 DEF Filling, Hosts, Rest, Base

-----------------------------------------------------------------------------
(* HttpMethod::RunData: the inductive invariant, and the steps that read a body. *)

\* The inductive invariant.
IInv ==
    /\ Books(m, stdin, plan, asked)
    /\ conn \in Seq(Tokens) /\ eof \in BOOLEAN
    /\ Stage(m, conn, eof)

\* A step ends where the next can begin.
LEMMA Settles ==
    ASSUME NEW c1 \in Seq(Tokens), NEW e1 \in BOOLEAN, NEW d1, NEW t, m' = t, Books(t, d1, plan, asked),
           Stage(t, c1, e1), Wires(c1, e1, d1), UNCHANGED <<plan, asked>>
    PROVE  IInv'
<1>1. Books(m', stdin', plan', asked')
  BY DEF Wires
<1>2. CASE t.open
  <2>1. conn' = c1 /\ eof' = e1
    BY <1>2 DEF Wires
  <2> QED
    BY <1>1, <2>1 DEF IInv
<1>3. CASE ~t.open
  <2>1. conn' = <<>> /\ eof' = FALSE
    BY <1>3 DEF Wires, NoWire
  <2>2. t \in MethodType
    BY DEF Books, Records
  <2>3. Stage(t, <<>>, FALSE)
    BY <1>3, <2>2, StageClosed
  <2>4. <<>> \in Seq(Tokens)
    OBVIOUS
  <2> QED
    BY <1>1, <2>1, <2>3, <2>4 DEF IInv
<1> QED
  BY <1>2, <1>3

\* Nothing is sent or comes in.
LEMMA NothingSent ==
    ASSUME Wire, UNCHANGED stdin
    PROVE  Wires(conn, eof, stdin)
  BY DEF Wire, Wires, NoWire

\* A step that ends a body ends where the next can begin.
LEMMA EndSettles ==
    ASSUME SaneSite, NEW c1 \in Seq(Tokens), NEW e1 \in BOOLEAN, NEW d1, NEW x, NEW ok,
           ok \in BOOLEAN, Ending(x, d1, plan, asked, c1, e1, ok), m' = EndData(x, ok), Wires(c1, e1, d1),
           UNCHANGED <<plan, asked>>
    PROVE  IInv'
<1>1. PICK t : t = EndData(x, ok)
  OBVIOUS
<1>2. Books(t, d1, plan, asked) /\ AtTop(t, c1, e1)
  BY <1>1, EndDataTop
<1>3. Stage(t, c1, e1) /\ m' = t
  BY <1>1, <1>2 DEF Stage
<1> QED
  BY <1>2, <1>3, Settles

\* So does a step that leaves a body to be read on.
LEMMA FillingSettles ==
    ASSUME NEW c1 \in Seq(Tokens), NEW e1 \in BOOLEAN, NEW d1, NEW x, NEW k \in Nat,
           Filling(x, d1, plan, asked, c1, e1, k), ~x.err, x.phase = "block" => k # Site[x.reply].size,
           m' = x, Wires(c1, e1, d1), UNCHANGED <<plan, asked>>
    PROVE  IInv'
<1>1. Books(x, d1, plan, asked) /\ AtData(x, c1, e1, k)
  BY DEF Filling, AtData, Reading
<1>2. Stage(x, c1, e1)
  BY <1>1 DEF Stage
<1> QED
  BY <1>1, <1>2, Settles

\* RunData, for a file that is not chunked, preserves the invariant.
LEMMA WholeStep ==
    ASSUME SaneSite, IInv, Whole
    PROVE  IInv'
<1>1. m.pc = "data" /\ m.phase = "stream" /\ UNCHANGED <<plan, asked>>
  BY DEF Whole
<1>2. PICK j \in Nat : AtData(m, conn, eof, j)
  BY <1>1 DEF IInv, Stage, AtTop, AtHeaders
<1>3. /\ Books(m, stdin, plan, asked) /\ conn \in Seq(Tokens) /\ eof \in BOOLEAN
      /\ Reads(m, j) /\ Hosts(m) /\ ~m.err /\ Rest(m, conn, eof, j)
  BY <1>2 DEF IInv, AtData, Reading
<1>4. m.reply \in Uri /\ Site[m.reply].size \in Nat /\ j \in 0..Site[m.reply].size
  BY <1>3, ReadsHead
<1>5. CASE m.limit = 0
  <2>1. m' = EndData(Unlimited(m), ~m.err) /\ Wire /\ UNCHANGED stdin
    BY <1>5 DEF Whole, Unlimited
  <2>2. Site[m.reply].framing = "stream" /\ j = Site[m.reply].size
    BY <1>1, <1>3, <1>4, <1>5 DEF Reads, NoLimit
  <2>3. Flow(m, conn, eof, <<>>, Base(m), HangsUp(m.reply))
    <3>1. PICK u \in Uri, z \in Nat : u = m.reply /\ z = Site[u].size
      BY <1>4
    <3>2. \A k \in 1..(z - z) : FALSE
      OBVIOUS
    <3>3. z - z = 0
      OBVIOUS
    <3>4. Bytes(u, z) = <<>>
      BY <3>1, <3>2, <3>3 DEF Bytes
    <3>5. Left(m.reply, m.phase, j) = <<>>
      BY <1>1, <2>2, <3>1, <3>4 DEF Left
    <3> QED
      BY <1>3, <3>5 DEF Rest
  <2>4. Ending(Unlimited(m), stdin, plan, asked, conn, eof, TRUE)
    BY <1>3, <2>2, <2>3, BodyWhole
  <2>5. m' = EndData(Unlimited(m), TRUE) /\ Wires(conn, eof, stdin)
    BY <1>3, <2>1, NothingSent
  <2>6. TRUE \in BOOLEAN
    OBVIOUS
  <2> QED
    BY <1>1, <1>3, <2>4, <2>5, <2>6, EndSettles
<1>6. CASE m.limit # 0
  <2>1. GoThen(TRUE, Stay, LAMBDA s : EndData(s, ~s.err))
    BY <1>6 DEF Whole
  <2>2. PICK x, ok, c1, e1, d1 :
             /\ Went(TRUE, x, ok, c1, e1, d1) /\ Wires(c1, e1, d1)
             /\ m' = IF ok THEN x ELSE EndData(x, ~x.err)
    BY <2>1, WholeWent
  <2>3. PICK toFile \in BOOLEAN : (toFile <=> m.phase \in {"stream", "block"}) /\ (toFile \/ m.in = <<>>) /\ toFile = TRUE
    <3>1. m.phase \in {"stream", "block"}
      BY <1>1
    <3> QED
      BY <3>1
  <2>4. /\ c1 \in Seq(Tokens) /\ e1 \in BOOLEAN
        /\ ok => /\ ~x.err /\ x.phase = m.phase
                 /\ \E k \in Nat : Filling(x, d1, plan, asked, c1, e1, k)
        /\ ~ok => \A yes \in BOOLEAN : (yes => ~x.err) => Ending(x, d1, plan, asked, c1, e1, yes)
    BY <1>2, <1>3, <1>6, <2>2, <2>3, BodyWent
  <2>5. CASE ok
    <3>1. PICK k \in Nat : Filling(x, d1, plan, asked, c1, e1, k)
      BY <2>4, <2>5
    <3> QED
      BY <1>1, <2>2, <2>4, <2>5, <3>1, FillingSettles
  <2>6. CASE ~ok
    <3>1. PICK yes \in BOOLEAN : yes = ~x.err
      OBVIOUS
    <3>2. Ending(x, d1, plan, asked, c1, e1, yes)
      BY <2>4, <2>6, <3>1
    <3>3. m' = EndData(x, yes)
      BY <2>2, <2>6, <3>1
    <3> QED
      BY <1>1, <2>2, <2>4, <3>2, <3>3, EndSettles
  <2> QED
    BY <2>5, <2>6
<1> QED
  BY <1>5, <1>6

\* The empty lines after a block, one by one.
LEMMA ZerosNext ==
    ASSUME NEW u \in Uri
    PROVE  /\ Zeros(u, 3) = <<Line(u, 0)>> \o Zeros(u, 2)
           /\ Zeros(u, 2) = <<Line(u, 0)>> \o Zeros(u, 1)
           /\ Zeros(u, 1) = <<Line(u, 0)>> \o <<>>
<1>1. PICK l \in Tokens : l = Line(u, 0)
  BY DEF Line, Token, Tokens
<1>2. /\ Zeros(u, 3) = <<l, l, l>> /\ Zeros(u, 2) = <<l, l>> /\ Zeros(u, 1) = <<l>>
  BY <1>1 DEF Zeros
<1>3. <<l, l, l>> = <<l>> \o <<l, l>> /\ <<l, l>> = <<l>> \o <<l>> /\ <<l>> = <<l>> \o <<>>
  OBVIOUS
<1> QED
  BY <1>1, <1>2, <1>3

\* What holds where a part of a chunked body is to come.
LEMMA InChunks ==
    ASSUME SaneSite, IInv, m.pc = "data", m.phase # "stream"
    PROVE  \E j \in Nat :
             /\ AtData(m, conn, eof, j) /\ Filling(m, stdin, plan, asked, conn, eof, j)
             /\ Books(m, stdin, plan, asked) /\ conn \in Seq(Tokens) /\ eof \in BOOLEAN
             /\ Reads(m, j) /\ ~m.err /\ Hosts(m)
             /\ Site[m.reply].framing = "chunked" /\ m.reply \in Uri
             /\ Site[m.reply].size \in Nat /\ j \in 0..Site[m.reply].size
             /\ m.limit = (IF m.phase = "block" THEN Site[m.reply].size - j ELSE NoLimit) /\ m.limit # 0
<1>1. PICK j \in Nat : AtData(m, conn, eof, j)
  BY DEF IInv, Stage, AtTop, AtHeaders
<1>2. /\ Books(m, stdin, plan, asked) /\ conn \in Seq(Tokens) /\ eof \in BOOLEAN
      /\ Reads(m, j) /\ Hosts(m) /\ ~m.err /\ Filling(m, stdin, plan, asked, conn, eof, j)
  BY <1>1 DEF IInv, AtData, Reading, Filling
<1>3. m.reply \in Uri /\ Site[m.reply].size \in Nat /\ j \in 0..Site[m.reply].size
  BY <1>2, ReadsHead
<1>4. Site[m.reply].framing = "chunked"
  BY <1>2 DEF Reads
<1>5. m.limit = IF m.phase = "block" THEN Site[m.reply].size - j ELSE NoLimit
  BY <1>2, <1>4 DEF Reads
<1>6. m.limit # 0
  <2>1. CASE m.phase = "block"
    <3>1. j # Site[m.reply].size
      BY <1>1, <2>1 DEF AtData, Reading
    <3> QED
      BY <1>3, <1>5, <2>1, <3>1
  <2>2. CASE m.phase # "block"
    BY <1>5, <2>2 DEF NoLimit
  <2> QED
    BY <2>1, <2>2
<1> QED
  BY <1>1, <1>2, <1>3, <1>4, <1>5, <1>6

\* A line is waited for.
LEMMA LineMissing ==
    ASSUME SaneSite, IInv, m.pc = "data", m.phase \in {"size", "newline", "trailer"}, m.in = <<>>,
           GoThen(FALSE, Stay, LAMBDA s : EndData(s, FALSE)), UNCHANGED <<plan, asked>>
    PROVE  IInv'
<1>1. PICK j \in Nat :
             /\ AtData(m, conn, eof, j)
             /\ Books(m, stdin, plan, asked) /\ conn \in Seq(Tokens) /\ eof \in BOOLEAN /\ m.limit # 0
  BY InChunks
<1>2. PICK x, ok, c1, e1, d1 :
             /\ Went(FALSE, x, ok, c1, e1, d1) /\ Wires(c1, e1, d1)
             /\ m' = IF ok THEN x ELSE EndData(x, FALSE)
  BY LineWent
<1>3. PICK toFile \in BOOLEAN : (toFile <=> m.phase \in {"stream", "block"}) /\ (toFile \/ m.in = <<>>) /\ toFile = FALSE
  <2>1. ~(m.phase \in {"stream", "block"})
    OBVIOUS
  <2> QED
    BY <2>1
<1>4. /\ c1 \in Seq(Tokens) /\ e1 \in BOOLEAN
      /\ ok => /\ ~x.err /\ x.phase = m.phase
               /\ \E k \in Nat : Filling(x, d1, plan, asked, c1, e1, k)
      /\ ~ok => \A yes \in BOOLEAN : (yes => ~x.err) => Ending(x, d1, plan, asked, c1, e1, yes)
  BY <1>1, <1>2, <1>3, BodyWent
<1>5. CASE ok
  <2>1. PICK k \in Nat : Filling(x, d1, plan, asked, c1, e1, k)
    BY <1>4, <1>5
  <2> QED
    BY <1>2, <1>4, <1>5, <2>1, FillingSettles
<1>6. CASE ~ok
  <2>1. PICK yes \in BOOLEAN : yes = FALSE
    OBVIOUS
  <2>2. Ending(x, d1, plan, asked, c1, e1, yes) /\ m' = EndData(x, yes)
    BY <1>2, <1>4, <1>6, <2>1
  <2> QED
    BY <1>2, <1>4, <2>2, EndSettles
<1> QED
  BY <1>5, <1>6

\* The line that is there takes a chunked body to its next part.
LEMMA TurnsSettle ==
    ASSUME SaneSite, IInv, m.pc = "data", NEW j \in Nat, Filling(m, stdin, plan, asked, conn, eof, j), ~m.err,
           Site[m.reply].framing = "chunked", m.in # <<>>,
           NEW k \in Tokens, NEW ph \in {"size", "block", "newline", "trailer"}, NEW l,
           Left(m.reply, m.phase, j) = <<k>> \o Left(m.reply, ph, j),
           l = Limit(m, ph, j),
           ph \in {"newline", "trailer"} => j = Site[m.reply].size,
           ph = "block" => j # Site[m.reply].size,
           m' = Turned(NextIn(m), ph, l), Wire, UNCHANGED <<stdin, plan, asked>>
    PROVE  IInv'
<1>1. conn \in Seq(Tokens) /\ eof \in BOOLEAN /\ Wires(conn, eof, stdin)
  BY NothingSent DEF IInv
<1>2. Books(m, stdin, plan, asked) /\ Reads(m, j) /\ Hosts(m) /\ m \in MethodType
  BY DEF Filling, Books, Records
<1>3. m.reply \in Uri /\ j \in 0..Site[m.reply].size
  BY <1>2, ReadsHead
<1>4. PICK rest \in Seq(Tokens) : rest = Left(m.reply, ph, j)
  BY <1>3, LeftType
<1> DEFINE t == NextIn(m)
<1>5. Alike(m, t) /\ t.err = m.err /\ Flow(t, conn, eof, rest, Base(m), HangsUp(m.reply))
  BY <1>1, <1>4, LineComes
<1> HIDE DEF t
<1>6. Books(t, stdin, plan, asked) /\ Reads(t, j) /\ Hosts(t)
  BY <1>2, <1>5, AlikeBooks
<1>7. t.reply = m.reply /\ t.pc = "data" /\ t.mode = m.mode
  BY <1>2, <1>5, AlikeSame
<1>8. Flow(t, conn, eof, Left(t.reply, ph, j), Base(t), HangsUp(t.reply))
  BY <1>4, <1>5, <1>7 DEF Base
<1>9. PICK x : x = Turned(t, ph, l)
  OBVIOUS
<1>10. /\ Filling(x, stdin, plan, asked, conn, eof, j) /\ x.phase = ph /\ x.err = t.err /\ x.reply = t.reply
  <2>1. Site[t.reply].framing = "chunked" /\ l = Limit(t, ph, j)
        /\ (ph \in {"newline", "trailer"} => j = Site[t.reply].size)
    BY <1>7 DEF Limit
  <2>2. PICK y : y = t
    OBVIOUS
  <2>3. Turning(y, stdin, plan, asked, conn, eof, j, ph, x)
    BY <1>6, <1>7, <1>8, <1>9, <2>1, <2>2 DEF Turning
  <2>4. /\ Filling(x, stdin, plan, asked, conn, eof, j) /\ x.phase = ph /\ x.err = y.err /\ x.reply = y.reply
    BY <2>3, Turns
  <2> QED
    BY <2>2, <2>4
<1>11. m' = x
  BY <1>9 DEF t
<1> QED
  BY <1>1, <1>5, <1>7, <1>10, <1>11, FillingSettles

\* So does the step that reads the size of a block,
LEMMA SizeStep ==
    ASSUME SaneSite, IInv, m.pc = "data", m.phase = "size", Chunked
    PROVE  IInv'
<1>1. PICK j \in Nat :
             /\ Filling(m, stdin, plan, asked, conn, eof, j) /\ ~m.err
             /\ Site[m.reply].framing = "chunked" /\ m.reply \in Uri
             /\ Site[m.reply].size \in Nat /\ j \in 0..Site[m.reply].size /\ m.limit = NoLimit
             /\ m \in MethodType
  <2>1. m \in MethodType
    BY DEF IInv, Books, Records
  <2> QED
    BY <2>1, InChunks
<1>2. CASE m.in = <<>>
  <2>1. GoThen(FALSE, Stay, LAMBDA s : EndData(s, FALSE)) /\ UNCHANGED <<plan, asked>>
    BY <1>2 DEF Chunked, NextLine
  <2> QED
    BY <1>2, <2>1, LineMissing
<1>3. CASE m.in # <<>>
  <2> DEFINE n == Head(m.in).n
             t == NextIn(m)
  <2>1. /\ m' = IF n = 0 THEN [t EXCEPT !.phase = "trailer"] ELSE [t EXCEPT !.phase = "block", !.limit = n]
        /\ Wire /\ UNCHANGED <<stdin, plan, asked>>
    BY <1>3 DEF Chunked, NextLine, NextIn
  <2>2. Left(m.reply, m.phase, j) = Body(m.reply, j)
    BY DEF Left
  <2>3. conn \in Seq(Tokens)
    BY DEF IInv
  <2>4. CASE j = Site[m.reply].size
    <3>1. Left(m.reply, m.phase, j) = <<Line(m.reply, 0)>> \o Zeros(m.reply, 1)
      BY <1>1, <2>2, <2>4, BodyCases, ZerosNext
    <3>2. Zeros(m.reply, 1) = Left(m.reply, "trailer", j)
      BY DEF Left
    <3>3. Line(m.reply, 0) \in Tokens /\ Line(m.reply, 0).n = 0 /\ Zeros(m.reply, 1) \in Seq(Tokens)
      BY <1>1, LineType, ZerosType
    <3>4. Head(m.in) = Line(m.reply, 0)
      <4>1. PICK k \in Tokens, rest \in Seq(Tokens) : k = Line(m.reply, 0) /\ rest = Zeros(m.reply, 1)
        BY <3>3
      <4>2. Left(m.reply, m.phase, j) = <<k>> \o rest
        BY <3>1, <4>1
      <4>3. Head(m.in) = k
        BY <1>1, <1>3, <2>3, <4>2, LineComes
      <4> QED
        BY <4>1, <4>3
    <3>5. m' = Turned(t, "trailer", NoLimit)
      <4>1. m' = [t EXCEPT !.phase = "trailer"]
        BY <2>1, <3>3, <3>4
      <4>2. t = [m EXCEPT !.in = Tail(m.in)]
        BY DEF NextIn
      <4>3. [t EXCEPT !.phase = "trailer"] = [t EXCEPT !.phase = "trailer", !.limit = NoLimit]
        BY <1>1, <4>2 DEF MethodType
      <4> QED
        BY <4>1, <4>3 DEF Turned
    <3>6. Left(m.reply, m.phase, j) = <<Line(m.reply, 0)>> \o Left(m.reply, "trailer", j)
      BY <3>1, <3>2
    <3>7. PICK ph \in {"size", "block", "newline", "trailer"} : ph = "trailer"
      OBVIOUS
    <3>8. PICK l : l = NoLimit
      OBVIOUS
    <3>9. /\ Left(m.reply, m.phase, j) = <<Line(m.reply, 0)>> \o Left(m.reply, ph, j)
          /\ l = Limit(m, ph, j)
          /\ m' = Turned(NextIn(m), ph, l)
      BY <3>5, <3>6, <3>7, <3>8 DEF Limit
    <3> QED
      BY <1>1, <1>3, <2>1, <2>4, <3>3, <3>7, <3>9, TurnsSettle
  <2>5. CASE j # Site[m.reply].size
    <3> DEFINE o == Site[m.reply].size - j
    <3>0. o \in Nat /\ o # 0
      BY <1>1, <2>5
    <3>1. Left(m.reply, m.phase, j) = <<Line(m.reply, o)>> \o (Bytes(m.reply, j) \o Zeros(m.reply, 3))
      BY <1>1, <2>2, <2>5, BodyCases
    <3>2. Bytes(m.reply, j) \o Zeros(m.reply, 3) = Left(m.reply, "block", j)
      BY DEF Left
    <3> HIDE DEF o
    <3>3. Line(m.reply, o) \in Tokens /\ Line(m.reply, o).n = o
      BY <1>1, <3>0, LineType
    <3>4. PICK ph \in {"size", "block", "newline", "trailer"} : ph = "block"
      OBVIOUS
    <3>5. Left(m.reply, m.phase, j) = <<Line(m.reply, o)>> \o Left(m.reply, ph, j)
      BY <3>1, <3>2, <3>4
    <3>6. Left(m.reply, ph, j) \in Seq(Tokens)
      <4>1. ph \in {"stream", "size", "block", "newline", "trailer"}
        BY <3>4
      <4> QED
        BY <1>1, <4>1, LeftType
    <3>7. Head(m.in) = Line(m.reply, o)
      <4>1. PICK k \in Tokens, rest \in Seq(Tokens) : k = Line(m.reply, o) /\ rest = Left(m.reply, ph, j)
        BY <3>3, <3>6
      <4>2. Left(m.reply, m.phase, j) = <<k>> \o rest
        BY <3>5, <4>1
      <4>3. Head(m.in) = k
        BY <1>1, <1>3, <2>3, <4>2, LineComes
      <4> QED
        BY <4>1, <4>3
    <3>8. m' = Turned(t, ph, o)
      BY <2>1, <3>0, <3>3, <3>4, <3>7 DEF Turned
    <3>9. o = Limit(m, ph, j)
      BY <3>4 DEF o, Limit
    <3> QED
      BY <1>1, <1>3, <2>1, <2>5, <3>3, <3>4, <3>5, <3>8, <3>9, TurnsSettle
  <2> QED
    BY <2>4, <2>5
<1> QED
  BY <1>2, <1>3

\* the line after a block,
LEMMA NewlineStep ==
    ASSUME SaneSite, IInv, m.pc = "data", m.phase = "newline", Chunked
    PROVE  IInv'
<1>1. PICK j \in Nat :
             /\ Filling(m, stdin, plan, asked, conn, eof, j) /\ ~m.err
             /\ Site[m.reply].framing = "chunked" /\ m.reply \in Uri
             /\ Site[m.reply].size \in Nat /\ j = Site[m.reply].size /\ j \in 0..Site[m.reply].size
             /\ m.limit = NoLimit /\ m \in MethodType
  <2>1. m \in MethodType
    BY DEF IInv, Books, Records
  <2> QED
    BY <2>1, InChunks DEF Reads
<1>2. CASE m.in = <<>>
  <2>1. GoThen(FALSE, Stay, LAMBDA s : EndData(s, FALSE)) /\ UNCHANGED <<plan, asked>>
    BY <1>2 DEF Chunked, NextLine
  <2> QED
    BY <1>2, <2>1, LineMissing
<1>3. CASE m.in # <<>>
  <2> DEFINE t == NextIn(m)
  <2>1. m' = [t EXCEPT !.phase = "size"] /\ Wire /\ UNCHANGED <<stdin, plan, asked>>
    BY <1>3 DEF Chunked, NextLine, NextIn
  <2>2. PICK ph \in {"size", "block", "newline", "trailer"} : ph = "size"
    OBVIOUS
  <2>3. Left(m.reply, m.phase, j) = <<Line(m.reply, 0)>> \o Left(m.reply, ph, j)
    <3>1. Left(m.reply, m.phase, j) = Zeros(m.reply, 3) /\ Left(m.reply, ph, j) = Body(m.reply, j)
      BY <2>2 DEF Left
    <3>2. Body(m.reply, j) = Zeros(m.reply, 2)
      BY <1>1, BodyCases
    <3> QED
      BY <1>1, <3>1, <3>2, ZerosNext
  <2>4. m' = Turned(t, ph, NoLimit)
    <3>1. t = [m EXCEPT !.in = Tail(m.in)]
      BY DEF NextIn
    <3>2. [t EXCEPT !.phase = "size"] = [t EXCEPT !.phase = "size", !.limit = NoLimit]
      BY <1>1, <3>1 DEF MethodType
    <3> QED
      BY <2>1, <2>2, <3>2 DEF Turned
  <2>5. NoLimit = Limit(m, ph, j)
    BY <2>2 DEF Limit
  <2>6. Line(m.reply, 0) \in Tokens
    BY <1>1, LineType
  <2> QED
    BY <1>1, <1>3, <2>1, <2>2, <2>3, <2>4, <2>5, <2>6, TurnsSettle
<1> QED
  BY <1>2, <1>3

\* the line after the last block,
LEMMA TrailerStep ==
    ASSUME SaneSite, IInv, m.pc = "data", m.phase = "trailer", Chunked
    PROVE  IInv'
<1>1. PICK j \in Nat :
             /\ Filling(m, stdin, plan, asked, conn, eof, j) /\ ~m.err
             /\ Books(m, stdin, plan, asked) /\ conn \in Seq(Tokens) /\ eof \in BOOLEAN
             /\ Reads(m, j) /\ Hosts(m) /\ Site[m.reply].framing = "chunked" /\ m.reply \in Uri
             /\ Site[m.reply].size \in Nat /\ j = Site[m.reply].size /\ j \in 0..Site[m.reply].size
             /\ m.limit = NoLimit /\ m \in MethodType
  <2>1. m \in MethodType
    BY DEF IInv, Books, Records
  <2> QED
    BY <2>1, InChunks DEF Reads
<1>2. CASE m.in = <<>>
  <2>1. GoThen(FALSE, Stay, LAMBDA s : EndData(s, FALSE)) /\ UNCHANGED <<plan, asked>>
    BY <1>2 DEF Chunked, NextLine
  <2> QED
    BY <1>2, <2>1, LineMissing
<1>3. CASE m.in # <<>>
  <2> DEFINE t == NextIn(m)
  <2>1. m' = EndData(t, ~t.err) /\ Wire /\ UNCHANGED <<stdin, plan, asked>>
    BY <1>3 DEF Chunked, NextLine, NextIn
  <2>2. Left(m.reply, m.phase, j) = <<Line(m.reply, 0)>> \o <<>>
    BY <1>1, ZerosNext DEF Left
  <2>3. Line(m.reply, 0) \in Tokens
    BY <1>1, LineType
  <2>4. PICK rest \in Seq(Tokens) : rest = <<>>
    <3>1. <<>> \in Seq(Tokens)
      OBVIOUS
    <3> QED
      BY <3>1
  <2>5. Alike(m, t) /\ t.err = m.err /\ Flow(t, conn, eof, rest, Base(m), HangsUp(m.reply))
    BY <1>1, <1>3, <2>2, <2>3, <2>4, LineComes
  <2>6. Unlimited(t) = t
    <3>1. t = [m EXCEPT !.in = Tail(m.in)]
      BY DEF NextIn
    <3> QED
      BY <1>1, <3>1 DEF Unlimited, MethodType
  <2> HIDE DEF t
  <2>7. Books(t, stdin, plan, asked) /\ Reads(t, j) /\ Hosts(t)
    BY <1>1, <2>5, AlikeBooks
  <2>8. t.reply = m.reply /\ t.mode = m.mode
    BY <1>1, <2>5, AlikeSame
  <2>9. Flow(t, conn, eof, <<>>, Base(t), HangsUp(t.reply))
    BY <2>4, <2>5, <2>8 DEF Base
  <2>10. j = Site[t.reply].size /\ ~t.err /\ Site[t.reply].framing \in {"stream", "chunked"}
    BY <1>1, <2>5, <2>8
  <2>11. Ending(t, stdin, plan, asked, conn, eof, TRUE)
    BY <2>6, <2>7, <2>9, <2>10, BodyWhole
  <2>12. m' = EndData(t, TRUE) /\ Wires(conn, eof, stdin)
    BY <2>1, <2>10, NothingSent
  <2>13. PICK yes \in BOOLEAN : yes = TRUE
    OBVIOUS
  <2> QED
    BY <1>1, <2>1, <2>11, <2>12, <2>13, EndSettles
<1> QED
  BY <1>2, <1>3

\* and a block itself.
LEMMA BlockStep ==
    ASSUME SaneSite, IInv, m.pc = "data", m.phase = "block", Chunked
    PROVE  IInv'
<1>1. PICK j \in Nat :
             /\ AtData(m, conn, eof, j) /\ Site[m.reply].framing = "chunked"
             /\ Books(m, stdin, plan, asked) /\ conn \in Seq(Tokens) /\ eof \in BOOLEAN /\ m.limit # 0
  BY InChunks
<1>2. UNCHANGED <<plan, asked>>
  BY DEF Chunked
<1>3. PICK x, ok, c1, e1, d1 :
             /\ Went(TRUE, x, ok, c1, e1, d1) /\ Wires(c1, e1, d1)
             /\ m' = IF ok THEN BlockOver(x) ELSE EndData(x, FALSE)
  <2>1. GoThen(TRUE, LAMBDA s : IF s.limit # 0 THEN s
                                ELSE [s EXCEPT !.phase = "newline", !.limit = NoLimit], LAMBDA s : EndData(s, FALSE))
    BY DEF Chunked
  <2> QED
    BY <2>1, BlockWent
<1>4. PICK toFile \in BOOLEAN : (toFile <=> m.phase \in {"stream", "block"}) /\ (toFile \/ m.in = <<>>) /\ toFile = TRUE
  <2>1. m.phase \in {"stream", "block"}
    OBVIOUS
  <2> QED
    BY <2>1
<1>5. /\ c1 \in Seq(Tokens) /\ e1 \in BOOLEAN
      /\ ok => /\ ~x.err /\ x.phase = m.phase
               /\ \E k \in Nat : Filling(x, d1, plan, asked, c1, e1, k)
      /\ ~ok => \A yes \in BOOLEAN : (yes => ~x.err) => Ending(x, d1, plan, asked, c1, e1, yes)
  BY <1>1, <1>3, <1>4, BodyWent
<1>6. CASE ok
  <2>1. PICK k \in Nat : Filling(x, d1, plan, asked, c1, e1, k)
    BY <1>5, <1>6
  <2>2. /\ Books(x, d1, plan, asked) /\ x.pc = "data" /\ Reads(x, k) /\ Hosts(x) /\ ~x.err /\ x.phase = "block"
        /\ Flow(x, c1, e1, Left(x.reply, "block", k), Base(x), HangsUp(x.reply))
    BY <1>5, <1>6, <2>1 DEF Filling, Rest
  <2>3. x.reply \in Uri /\ k \in 0..Site[x.reply].size /\ Site[x.reply].size \in Nat
    BY <2>2, ReadsHead
  <2>4. x.limit = Site[x.reply].size - k /\ Site[x.reply].framing = "chunked"
    BY <2>2, <2>3, SiteType DEF Reads
  <2>5. CASE x.limit # 0
    <3>1. m' = x /\ k # Site[x.reply].size
      BY <1>3, <1>6, <2>3, <2>4, <2>5 DEF BlockOver
    <3> QED
      BY <1>2, <1>3, <1>5, <2>1, <2>2, <3>1, FillingSettles
  <2>6. CASE x.limit = 0
    <3>1. k = Site[x.reply].size
      BY <2>3, <2>4, <2>6
    <3>2. PICK ph \in {"size", "block", "newline", "trailer"} : ph = "newline"
      OBVIOUS
    <3>3. Left(x.reply, "block", k) = Left(x.reply, ph, k)
      <4>1. PICK u \in Uri, z \in Nat : u = x.reply /\ z = Site[u].size
        BY <2>3
      <4>2. \A h \in 1..(z - z) : FALSE
        OBVIOUS
      <4>3. z - z = 0
        OBVIOUS
      <4>4. Bytes(u, z) = <<>>
        BY <4>1, <4>2, <4>3 DEF Bytes
      <4>5. PICK w \in Seq(Tokens) : w = Zeros(u, 3)
        BY ZerosType
      <4>6. <<>> \o w = w
        OBVIOUS
      <4> QED
        BY <3>1, <3>2, <4>1, <4>4, <4>5, <4>6 DEF Left
    <3>4. PICK t : t = Turned(x, ph, NoLimit)
      OBVIOUS
    <3>5. m' = t
      BY <1>3, <1>6, <2>6, <3>2, <3>4 DEF BlockOver, Turned
    <3>6. Filling(t, d1, plan, asked, c1, e1, k) /\ t.phase = ph /\ t.err = x.err
      <4>1. NoLimit = Limit(x, ph, k)
        BY <3>2 DEF Limit
      <4>2. Flow(x, c1, e1, Left(x.reply, ph, k), Base(x), HangsUp(x.reply))
        BY <2>2, <3>3
      <4> QED
        BY <2>2, <2>4, <3>1, <3>2, <3>4, <4>1, <4>2, Turns DEF Turning
    <3> QED
      BY <1>2, <1>3, <1>5, <2>2, <3>2, <3>5, <3>6, FillingSettles
  <2> QED
    BY <2>5, <2>6
<1>7. CASE ~ok
  <2>1. PICK yes \in BOOLEAN : yes = FALSE
    OBVIOUS
  <2>2. Ending(x, d1, plan, asked, c1, e1, yes) /\ m' = EndData(x, yes)
    BY <1>3, <1>5, <1>7, <2>1
  <2> QED
    BY <1>2, <1>3, <1>5, <2>2, EndSettles
<1> QED
  BY <1>6, <1>7

\* RunData for a chunked file.
LEMMA ChunkedStep ==
    ASSUME SaneSite, IInv, Chunked
    PROVE  IInv'
<1>1. m.pc = "data" /\ m.phase \in {"size", "block", "newline", "trailer"}
  BY DEF Chunked
<1> QED
  BY <1>1, SizeStep, BlockStep, NewlineStep, TrailerStep

-----------------------------------------------------------------------------
(* HttpMethod::DealWithHeaders.                                             *)

\* The body of a reply begins in s, at the byte after the first n.
Starting(s, d, p, a, c, e, mode, n) ==
    /\ Books(s, d, p, a) /\ Hosts(s) /\ ~s.err
    /\ s.reply \in Uri /\ Site[s.reply].framing # "none" /\ n \in 0..Site[s.reply].size
    /\ Site[s.reply].code = IF mode = "file" THEN "ok" ELSE mode
    /\ mode = "redirect" => s.location = Site[s.reply].to
    /\ s.persistent = ~HangsUp(s.reply)
    /\ mode # "error" => s.sent >= 1 /\ s.reply = s.queue[1].uri
    /\ mode = "file" => n = Len(s.file[s.queue[1].item])
    /\ Flow(s, c, e, Body(s.reply, n), IF mode = "error" THEN 0 ELSE 1, HangsUp(s.reply))

\* The fields that change as a body is expected.
LEMMA StartType ==
    ASSUME NEW s \in MethodType, NEW mode \in {"file", "error", "redirect"}, NEW early \in BOOLEAN,
           NEW phase \in {"stream", "size", "block", "newline", "trailer"}, NEW limit \in Nat \cup {NoLimit}
    PROVE  [s EXCEPT !.pc = "data", !.mode = mode, !.early = early, !.phase = phase, !.limit = limit] \in MethodType
<1>0. [s EXCEPT !.pc = "data", !.mode = mode, !.phase = phase, !.limit = limit] \in MethodType
  BY ZenonT(60) DEF MethodType
<1>1. PICK t \in MethodType : t = [s EXCEPT !.pc = "data", !.mode = mode, !.phase = phase, !.limit = limit]
  BY <1>0
<1>2. [t EXCEPT !.early = early] \in MethodType
  BY DEF MethodType
<1>3. [t EXCEPT !.early = early]
        = [s EXCEPT !.pc = "data", !.mode = mode, !.early = early, !.phase = phase, !.limit = limit]
  BY <1>1
<1> QED
  BY <1>2, <1>3

\* What they change to.
LEMMA StartFields ==
    ASSUME NEW s \in MethodType, s.reply \in Uri, NEW mode \in {"file", "error", "redirect"},
           NEW n \in 0..Site[s.reply].size
    PROVE  LET t == StartData(s, mode, n) IN
           /\ t \in MethodType /\ t.pc = "data" /\ t.mode = mode /\ t.early = ~s.open
           /\ t.phase = (IF Site[s.reply].framing = "chunked" THEN "size" ELSE "stream")
           /\ t.limit = (IF Site[s.reply].framing = "stream" THEN Site[s.reply].size - n ELSE NoLimit)
           /\ t.queue = s.queue /\ t.sent = s.sent /\ t.answers = s.answers /\ t.told = s.told
           /\ t.file = s.file /\ t.stop = s.stop /\ t.in = s.in /\ t.out = s.out /\ t.open = s.open
           /\ t.host = s.host /\ t.persistent = s.persistent /\ t.err = s.err /\ t.reply = s.reply
           /\ t.location = s.location
<1> DEFINE early == ~s.open
           phase == IF Site[s.reply].framing = "chunked" THEN "size" ELSE "stream"
           limit == IF Site[s.reply].framing = "stream" THEN Site[s.reply].size - n ELSE NoLimit
           t == StartData(s, mode, n)
<1>1. early \in BOOLEAN /\ phase \in {"size", "stream"} /\ limit \in Nat \cup {NoLimit}
  BY SiteType DEF Answer
<1>2. t = [s EXCEPT !.pc = "data", !.mode = mode, !.early = early, !.phase = phase, !.limit = limit]
  BY DEF StartData
<1> HIDE DEF early, phase, limit, t
<1>4. t \in MethodType
  <2>1. phase \in {"stream", "size", "block", "newline", "trailer"}
    BY <1>1
  <2> QED
    BY <1>1, <1>2, <2>1, StartType
<1>5. /\ t.pc = "data" /\ t.mode = mode /\ t.early = early /\ t.phase = phase /\ t.limit = limit
  BY <1>2 DEF MethodType
<1>3. /\ t \in MethodType /\ t.pc = "data" /\ t.mode = mode /\ t.early = early
      /\ t.phase = phase /\ t.limit = limit
      /\ t.queue = s.queue /\ t.sent = s.sent /\ t.answers = s.answers /\ t.told = s.told
      /\ t.file = s.file /\ t.stop = s.stop /\ t.in = s.in /\ t.out = s.out /\ t.open = s.open
      /\ t.host = s.host /\ t.persistent = s.persistent /\ t.err = s.err /\ t.reply = s.reply
      /\ t.location = s.location
  BY <1>2, <1>4, <1>5 DEF MethodType
<1> QED
  BY <1>3 DEF early, phase, limit, t

\* The body of a reply is read next.
LEMMA Starts ==
    ASSUME NEW s, NEW d, NEW p, NEW a, NEW c, NEW e, NEW mode \in {"file", "error", "redirect"}, NEW n,
           Starting(s, d, p, a, c, e, mode, n), NEW t, t = StartData(s, mode, n)
    PROVE  Books(t, d, p, a) /\ Stage(t, c, e)
<1>1. /\ Books(s, d, p, a) /\ Records(s, d, p, a) /\ s \in MethodType /\ s.sent <= Len(s.queue) /\ Hosts(s) /\ ~s.err
      /\ s.reply \in Uri /\ Site[s.reply].framing # "none" /\ n \in 0..Site[s.reply].size
      /\ Site[s.reply].size \in Nat /\ Site[s.reply].framing \in {"stream", "chunked", "closes", "none"}
  BY SiteType DEF Starting, Books, Records, Answer
<1>2. /\ t \in MethodType /\ t.pc = "data" /\ t.mode = mode /\ t.early = ~s.open
      /\ t.phase = (IF Site[s.reply].framing = "chunked" THEN "size" ELSE "stream")
      /\ t.limit = (IF Site[s.reply].framing = "stream" THEN Site[s.reply].size - n ELSE NoLimit)
      /\ t.queue = s.queue /\ t.sent = s.sent /\ t.answers = s.answers /\ t.told = s.told
      /\ t.file = s.file /\ t.stop = s.stop /\ t.in = s.in /\ t.out = s.out /\ t.open = s.open
      /\ t.host = s.host /\ t.persistent = s.persistent /\ t.err = s.err /\ t.reply = s.reply
      /\ t.location = s.location
  BY <1>1, StartFields
<1>3. Books(t, d, p, a)
  <2>1. t.sent <= Len(t.queue) /\ s.stop \subseteq t.stop
    BY <1>1, <1>2
  <2> QED
    BY <1>1, <1>2, <2>1, BooksSame
<1>4. Reads(t, n)
  BY <1>1, <1>2 DEF Starting, Reads
<1>5. Left(t.reply, t.phase, n) = Body(s.reply, n)
  <2>1. CASE Site[s.reply].framing = "chunked"
    BY <1>2, <2>1 DEF Left
  <2>2. CASE Site[s.reply].framing # "chunked"
    <3>1. Body(s.reply, n) = Bytes(s.reply, n)
      BY <1>1, <2>2, BodyCases
    <3> QED
      BY <1>2, <2>2, <3>1 DEF Left
  <2> QED
    BY <2>1, <2>2
<1>6. Base(t) \in Nat /\ Base(t) = IF mode = "error" THEN 0 ELSE 1
  BY <1>2 DEF Base
<1>7. Rest(t, c, e, n)
  <2>1. PICK b \in Nat : b = Base(t)
    BY <1>6
  <2>2. Flow(s, c, e, Body(s.reply, n), b, HangsUp(s.reply))
    BY <1>6, <2>1 DEF Starting
  <2>3. Keeps(s, b, t, b)
    BY <1>1, <1>2, KeepsItself
  <2>4. t.sent <= Len(t.queue)
    BY <1>1, <1>2
  <2>5. Flow(t, c, e, Body(s.reply, n), b, HangsUp(s.reply))
    BY <1>1, <1>2, <2>2, <2>3, <2>4, FlowKeeps
  <2> QED
    BY <1>2, <1>5, <2>1, <2>5 DEF Rest
<1>8. AtData(t, c, e, n)
  BY <1>1, <1>2, <1>4, <1>7 DEF AtData, Reading, Hosts
<1>9. n \in Nat
  BY <1>1
<1> QED
  BY <1>3, <1>8, <1>9 DEF Stage

\* The headers of the reply to the head of the queue have been taken, and its body
\* begins after the first n bytes.
Opened(s, d, p, a, c, e, n) ==
    LET u == s.queue[1].uri IN
    /\ Books(s, d, p, a) /\ Hosts(s) /\ ~s.err /\ s.sent >= 1
    /\ n \in 0..Site[u].size /\ (n = 0 \/ Site[u].code = "ok") /\ n <= Len(s.file[s.queue[1].item])
    /\ Flow(s, c, e, Body(u, n), 1, HangsUp(u))

\* The head of the queue, when headers have come in answer to it.
LEMMA OpenedHead ==
    ASSUME NEW s, NEW d, NEW p, NEW a, NEW c, NEW e, NEW n, Opened(s, d, p, a, c, e, n)
    PROVE  /\ s \in MethodType /\ s.sent <= Len(s.queue) /\ Records(s, d, p, a) /\ s.queue # <<>> /\ s.sent >= 1
           /\ s.queue[1].uri \in Uri /\ Site[s.queue[1].uri].size \in Nat /\ n \in 0..Site[s.queue[1].uri].size
           /\ Head(s.queue) = s.queue[1] /\ s.queue[1].item \in Item /\ s.queue[1].item \in DOMAIN p
           /\ s.queue[1].uri \in Chain[p[s.queue[1].item]] /\ p \in Plans
           /\ s.file[s.queue[1].item] \in Seq(Tokens) /\ s.file \in [Item -> Seq(Tokens)]
           /\ s.answers \in [Item -> Nat]
           /\ Site[s.queue[1].uri].framing = "none" => Over(s, c, e, 1)
<1>1. s \in MethodType /\ s.sent <= Len(s.queue) /\ Records(s, d, p, a) /\ s.sent >= 1 /\ p \in Plans
  BY DEF Opened, Books, Records
<1>2. s.queue # <<>> /\ s.file \in [Item -> Seq(Tokens)] /\ s.answers \in [Item -> Nat]
  <2>1. s.queue \in Seq(Queued) /\ s.sent \in Nat
    BY <1>1 DEF MethodType
  <2> QED
    BY <1>1, <2>1 DEF MethodType
<1>3. /\ s.queue[1].uri \in Uri
      /\ Head(s.queue) = s.queue[1] /\ s.queue[1].item \in Item /\ s.queue[1].item \in DOMAIN p
      /\ s.queue[1].uri \in Chain[p[s.queue[1].item]]
      /\ s.file[s.queue[1].item] \in Seq(Tokens)
  BY <1>1, <1>2, HeadDue
<1>4. Site[s.queue[1].uri].size \in Nat /\ n \in 0..Site[s.queue[1].uri].size
  BY <1>3, SiteType DEF Answer, Opened
<1>5. ASSUME Site[s.queue[1].uri].framing = "none" PROVE Over(s, c, e, 1)
  <2>1. Body(s.queue[1].uri, n) = <<>>
    BY <1>3, <1>4, <1>5, BodyCases
  <2>2. Flow(s, c, e, <<>>, 1, HangsUp(s.queue[1].uri))
    BY <2>1 DEF Opened
  <2>3. Flow(s, c, e, <<>>, 1, FALSE)
    BY <2>2, FlowUnhung
  <2> QED
    BY <2>3 DEF Over, Opened
<1> QED
  BY <1>1, <1>2, <1>3, <1>4, <1>5

\* The answer is told of, and no body follows.
LEMMA OpenedTold ==
    ASSUME NEW s, NEW d, NEW p, NEW a, NEW c, NEW e, NEW n, Opened(s, d, p, a, c, e, n),
           Site[s.queue[1].uri].framing = "none", NEW how \in {"ims", "failed", "transient"},
           how = "failed" => Site[s.queue[1].uri].code = "error", NEW t, t \in Rounds(s, how)
    PROVE  Books(t, d, p, a) /\ Stage(t, c, e)
<1>1. /\ Records(s, d, p, a) /\ s.sent >= 1 /\ Over(s, c, e, 1) /\ p \in Plans
      /\ s.answers \in [Item -> Nat] /\ s.queue[1].item \in Item
  BY OpenedHead
<1>2. Files(s.file, [s.answers EXCEPT ![s.queue[1].item] = @ + 1], p)
  BY <1>1, FilesAnswered DEF Opened, Books
<1>3. how \in {"done", "ims", "failed", "transient"} /\ how # "done"
  OBVIOUS
<1>4. Books(t, d, p, a) /\ AtTop(t, c, e)
  BY <1>1, <1>2, <1>3, TellTop
<1> QED
  BY <1>4 DEF Stage

\* 304: what is on disk goes, for apt has the file.
LEMMA NotModified ==
    ASSUME SaneSite, NEW s, NEW d, NEW p, NEW a, NEW c, NEW e, NEW n, Opened(s, d, p, a, c, e, n),
           Site[s.queue[1].uri].code = "notmod", NEW t, Put(s, t, <<>>)
    PROVE  Opened(t, d, p, a, c, e, 0) /\ Site[t.queue[1].uri].framing = "none"
<1> DEFINE i == s.queue[1].item
           u == s.queue[1].uri
<1>1. /\ s \in MethodType /\ s.sent <= Len(s.queue) /\ Records(s, d, p, a) /\ s.queue # <<>> /\ s.sent >= 1
      /\ u \in Uri /\ Site[u].size \in Nat /\ i \in Item /\ p \in Plans /\ s.file \in [Item -> Seq(Tokens)]
  BY OpenedHead
<1>2. <<>> \in Seq(Tokens)
  OBVIOUS
<1>3. Records(t, d, p, a) /\ t.file = [s.file EXCEPT ![i] = <<>>] /\ t = [s EXCEPT !.file = t.file]
  <2>1. PICK f \in Seq(Tokens) : f = <<>>
    BY <1>2
  <2>2. Put(s, t, f)
    BY <2>1
  <2>3. Records(t, d, p, a) /\ t.file = [s.file EXCEPT ![s.queue[1].item] = f] /\ t = [s EXCEPT !.file = t.file]
    BY <1>1, <2>2, FilePut
  <2> QED
    BY <2>1, <2>3
<1>4. /\ t \in MethodType /\ t.queue = s.queue /\ t.sent = s.sent /\ t.answers = s.answers /\ t.in = s.in
      /\ t.out = s.out /\ t.open = s.open /\ t.host = s.host /\ t.err = s.err
  BY <1>1, <1>3 DEF Records, MethodType
<1>5. Files(t.file, t.answers, p)
  BY <1>1, <1>3, <1>4, FilesEmpty DEF Opened, Books
<1>6. \A k \in 2..Len(s.queue) : s.queue[k].item # i
  BY <1>1, HeadDue
<1>7. PICK b \in Nat : b = 1
  OBVIOUS
<1>8. \A k \in (b + 1)..s.sent : t.file[s.queue[k].item] = s.file[s.queue[k].item]
  <2> TAKE k \in (b + 1)..s.sent
  <2>1. s.queue \in Seq(Queued) /\ s.sent \in Nat /\ Len(s.queue) \in Nat
    BY <1>1 DEF MethodType
  <2>2. k \in 2..Len(s.queue) /\ k \in 1..Len(s.queue)
    BY <1>1, <1>7, <2>1
  <2>3. s.queue[k].item \in Item /\ s.queue[k].item # i
    <3>1. PICK x \in Seq(Queued) : x = s.queue
      BY <2>1
    <3>2. x[k] \in Queued
      BY <2>2, <3>1
    <3> QED
      BY <1>6, <2>2, <3>1, <3>2 DEF Queued
  <2> QED
    BY <1>1, <1>3, <2>3
<1>9. Keeps(s, b, t, b)
  BY <1>1, <1>4, <1>8, KeepsItself
<1>10. n = 0
  BY DEF Opened
<1>11. Flow(t, c, e, Body(u, n), b, HangsUp(u))
  <2>1. Flow(s, c, e, Body(u, n), b, HangsUp(u))
    BY <1>7 DEF Opened
  <2>2. t.sent <= Len(t.queue)
    BY <1>1, <1>4
  <2> QED
    BY <1>1, <1>4, <1>9, <2>1, <2>2, FlowKeeps
<1>12. t.file[i] = <<>> /\ Len(<<>>) = 0
  BY <1>1, <1>3
<1>13. Opened(t, d, p, a, c, e, n)
  <2>1. n \in 0..Site[u].size /\ n <= Len(t.file[i])
    BY <1>1, <1>10, <1>12
  <2>2. Books(t, d, p, a) /\ Hosts(t) /\ ~t.err /\ t.sent >= 1
    BY <1>1, <1>3, <1>4, <1>5 DEF Books, Opened, Hosts
  <2> QED
    BY <1>4, <1>7, <1>10, <1>11, <2>1, <2>2 DEF Opened
<1>14. Site[u].framing = "none"
  BY <1>1 DEF SaneSite
<1> QED
  BY <1>4, <1>10, <1>13, <1>14

\* ... and what they say has been noted.
Announced(s, d, p, a, c, e, n) ==
    LET u == s.queue[1].uri IN
    /\ Opened(s, d, p, a, c, e, n)
    /\ s.reply = u /\ s.persistent = ~HangsUp(u)
    /\ Site[u].to # NoUri => s.location = Site[u].to

\* Loop after the headers of a file that has not changed,
LEMMA DealNotModified ==
    ASSUME SaneSite, NEW s, NEW d, NEW p, NEW a, NEW c, NEW e, NEW n, Announced(s, d, p, a, c, e, n),
           Site[s.reply].code = "notmod", NEW t, t = Deal(s, n)
    PROVE  Books(t, d, p, a) /\ Stage(t, c, e)
<1>1. Opened(s, d, p, a, c, e, n) /\ Site[s.queue[1].uri].code = "notmod"
  BY DEF Announced
<1>2. Head(s.queue) = s.queue[1]
  BY <1>1, OpenedHead
<1> DEFINE v == [s EXCEPT !.file[Head(s.queue).item] = <<>>]
<1>3. Put(s, v, <<>>)
  BY <1>2 DEF Put
<1>4. t = NextRound(URIDone(v, "ims"))
  BY DEF Deal
<1> HIDE DEF v
<1>5. t \in Rounds(v, "ims")
  BY <1>4 DEF Rounds, URIDone
<1>6. PICK k \in Nat, how \in {"ims", "failed", "transient"} : k = 0 /\ how = "ims"
  OBVIOUS
<1>7. Opened(v, d, p, a, c, e, k) /\ Site[v.queue[1].uri].framing = "none"
  BY <1>1, <1>3, <1>6, NotModified
<1>8. t \in Rounds(v, how) /\ (how = "failed" => Site[v.queue[1].uri].code = "error")
  BY <1>5, <1>6
<1> QED
  BY <1>7, <1>8, OpenedTold

\* of a redirection,
LEMMA DealRedirect ==
    ASSUME SaneSite, NEW s, NEW d, NEW p, NEW a, NEW c, NEW e, NEW n, Announced(s, d, p, a, c, e, n),
           Site[s.reply].code = "redirect", NEW t, t = Deal(s, n)
    PROVE  Books(t, d, p, a) /\ Stage(t, c, e)
<1> DEFINE u == s.queue[1].uri
<1>1. /\ Opened(s, d, p, a, c, e, n) /\ s.reply = u /\ Site[u].code = "redirect" /\ s.persistent = ~HangsUp(u)
      /\ u \in Uri /\ Books(s, d, p, a) /\ Hosts(s) /\ ~s.err /\ s.sent >= 1
      /\ Flow(s, c, e, Body(u, n), 1, HangsUp(u)) /\ n \in 0..Site[u].size /\ n = 0
  BY OpenedHead DEF Announced, Opened
<1>2. s.location = Site[u].to /\ s.location # NoUri
  BY <1>1 DEF SaneSite, Announced
<1>3. CASE Site[u].framing = "none"
  <2>1. t = Redirected(s)
    BY <1>1, <1>2, <1>3 DEF Deal
  <2>2. Over(s, c, e, 1)
    BY <1>1, <1>3, OpenedHead
  <2>3. Books(t, d, p, a) /\ AtTop(t, c, e)
    BY <1>1, <1>2, <2>1, <2>2, RedirectedTop
  <2> QED
    BY <2>3 DEF Stage
<1>4. CASE Site[u].framing # "none"
  <2>1. t = StartData(s, "redirect", 0)
    BY <1>1, <1>2, <1>4 DEF Deal
  <2>2. PICK mode \in {"file", "error", "redirect"}, k \in Nat : mode = "redirect" /\ k = 0
    OBVIOUS
  <2>3. Starting(s, d, p, a, c, e, mode, k)
    <3>1. Flow(s, c, e, Body(s.reply, k), IF mode = "error" THEN 0 ELSE 1, HangsUp(s.reply))
      BY <1>1, <2>2
    <3> QED
      BY <1>1, <1>2, <1>4, <2>2, <3>1 DEF Starting
  <2>4. t = StartData(s, mode, k)
    BY <2>1, <2>2
  <2> QED
    BY <2>3, <2>4, Starts
<1> QED
  BY <1>3, <1>4

\* Its text is read after a failure has been told of.
LEMMA FailedOpens ==
    ASSUME SaneSite, NEW s, NEW d, NEW p, NEW a, NEW c, NEW e, NEW n, Announced(s, d, p, a, c, e, n),
           Site[s.reply].code = "error", NEW w, w = Fail(s, "failed")
    PROVE  /\ Books(w, d, p, a) /\ Hosts(w) /\ ~w.err /\ w.reply = s.reply /\ w.persistent = s.persistent
           /\ Flow(w, c, e, Body(s.reply, 0), 0, HangsUp(s.reply))
<1> DEFINE u == s.queue[1].uri
           v == Tell(s, "failed")
<1>1. /\ Opened(s, d, p, a, c, e, n) /\ s.reply = u /\ Site[u].code = "error"
      /\ u \in Uri /\ Books(s, d, p, a) /\ Hosts(s) /\ ~s.err /\ s.sent >= 1
      /\ Flow(s, c, e, Body(u, n), 1, HangsUp(u)) /\ n = 0
      /\ s \in MethodType /\ s.sent <= Len(s.queue) /\ Records(s, d, p, a) /\ s.queue # <<>> /\ p \in Plans
      /\ s.answers \in [Item -> Nat] /\ s.queue[1].item \in Item
  BY OpenedHead DEF Announced, Opened
<1>2. Files(s.file, [s.answers EXCEPT ![s.queue[1].item] = @ + 1], p)
  BY <1>1, FilesAnswered DEF Books
<1>3. PICK how \in {"done", "ims", "failed", "transient"} : how = "failed" /\ how # "done"
  OBVIOUS
<1>4. v = Tell(s, how)
  BY <1>3
<1> HIDE DEF v
<1>5. Books(v, d, p, a)
  BY <1>1, <1>2, <1>3, <1>4, TellBooks
<1>6. Answers(s, v, how)
  BY <1>1, <1>4, TellAnswers
<1>7. s.queue \in Seq(Queued) /\ s.sent \in Nat /\ Len(s.queue) \in Nat
  BY <1>1 DEF MethodType
<1>8. /\ v \in MethodType /\ v.queue = Tail(s.queue) /\ v.sent = s.sent - 1
      /\ v = [s EXCEPT !.queue = v.queue, !.sent = v.sent, !.told = v.told, !.answers = v.answers]
  BY <1>1, <1>6, <1>7 DEF Answers
<1>9. /\ v.in = s.in /\ v.out = s.out /\ v.open = s.open /\ v.host = s.host /\ v.file = s.file
      /\ v.reply = s.reply /\ v.persistent = s.persistent
  BY <1>1, <1>8 DEF MethodType
<1>10. w = [v EXCEPT !.err = FALSE]
  BY DEF Fail, v
<1>11. /\ w \in MethodType /\ w.in = s.in /\ w.out = s.out /\ w.open = s.open /\ w.host = s.host
       /\ w.file = s.file /\ w.reply = s.reply /\ w.persistent = s.persistent /\ ~w.err /\ w.queue = v.queue
       /\ w.sent = v.sent /\ w.told = v.told /\ w.answers = v.answers /\ w.stop = v.stop
  BY ZenonT(60), <1>8, <1>9, <1>10 DEF MethodType
<1>12. Books(w, d, p, a)
  <2>1. Records(v, d, p, a) /\ w.sent <= Len(w.queue) /\ v.stop \subseteq w.stop
    BY <1>5, <1>11 DEF Books, Records
  <2> QED
    BY <1>5, <1>9, <1>11, <2>1, BooksSame
<1>13. Keeps(s, 1, w, 0) /\ Hosts(w)
  <2>1. \A k \in 1..w.sent : w.queue[k] = s.queue[k + 1]
    <3>1. \A k \in 1..(s.sent - 1) : k \in 1..(Len(s.queue) - 1)
      BY <1>1, <1>7
    <3>2. \A k \in 1..(Len(s.queue) - 1) : Tail(s.queue)[k] = s.queue[k + 1]
      BY <1>1, <1>7
    <3>3. w.queue = Tail(s.queue) /\ w.sent = s.sent - 1
      BY <1>8, <1>11
    <3> QED
      BY <3>1, <3>2, <3>3
  <2> QED
    BY <1>1, <1>8, <1>11, <2>1, TailKeeps
<1>14. w.sent <= Len(w.queue)
  BY <1>12 DEF Books, Records
<1>15. Flow(w, c, e, Body(u, n), 0, HangsUp(u))
  <2>1. PICK b \in Nat, b0 \in Nat : b = 1 /\ b0 = 0
    OBVIOUS
  <2>2. Keeps(s, b, w, b0) /\ Flow(s, c, e, Body(u, n), b, HangsUp(u))
    BY <1>1, <1>13, <2>1
  <2>3. Flow(w, c, e, Body(u, n), b0, HangsUp(u))
    BY <1>1, <1>11, <1>14, <2>2, FlowKeeps
  <2> QED
    BY <2>1, <2>3
<1> QED
  BY <1>1, <1>11, <1>12, <1>13, <1>15

\* of an error,
LEMMA DealError ==
    ASSUME SaneSite, NEW s, NEW d, NEW p, NEW a, NEW c, NEW e, NEW n, Announced(s, d, p, a, c, e, n),
           Site[s.reply].code = "error", NEW t, t = Deal(s, n)
    PROVE  Books(t, d, p, a) /\ Stage(t, c, e)
<1>1. /\ Opened(s, d, p, a, c, e, n) /\ s.reply = s.queue[1].uri /\ s.reply \in Uri
      /\ Site[s.reply].size \in Nat /\ s.persistent = ~HangsUp(s.reply)
  BY OpenedHead DEF Announced
<1>2. CASE Site[s.reply].framing = "none"
  <2>1. t = NextRound(Fail(s, "failed"))
    BY <1>2 DEF Deal
  <2>2. PICK how \in {"ims", "failed", "transient"} : how = "failed"
    OBVIOUS
  <2>3. t \in Rounds(s, how)
    BY <2>1, <2>2 DEF Rounds
  <2> QED
    BY <1>1, <1>2, <2>2, <2>3, OpenedTold
<1>3. CASE Site[s.reply].framing # "none"
  <2> DEFINE w == Fail(s, "failed")
  <2>1. t = StartData(w, "error", 0)
    BY <1>3 DEF Deal
  <2>2. /\ Books(w, d, p, a) /\ Hosts(w) /\ ~w.err /\ w.reply = s.reply /\ w.persistent = s.persistent
        /\ Flow(w, c, e, Body(s.reply, 0), 0, HangsUp(s.reply))
    BY FailedOpens
  <2> HIDE DEF w
  <2>3. PICK mode \in {"file", "error", "redirect"}, k \in Nat : mode = "error" /\ k = 0
    OBVIOUS
  <2>4. Starting(w, d, p, a, c, e, mode, k)
    <3>1. Flow(w, c, e, Body(w.reply, k), IF mode = "error" THEN 0 ELSE 1, HangsUp(w.reply))
      BY <2>2, <2>3
    <3>2. k \in 0..Site[w.reply].size
      BY <1>1, <2>2, <2>3
    <3> QED
      BY <1>1, <1>3, <2>2, <2>3, <3>1, <3>2 DEF Starting
  <2>5. t = StartData(w, mode, k)
    BY <2>1, <2>3
  <2> QED
    BY <2>4, <2>5, Starts
<1> QED
  BY <1>2, <1>3

\* A truncated beginning of a file is one.
LEMMA TruncatedIs ==
    ASSUME NEW f \in Seq(Tokens), NEW n \in 0..Len(f)
    PROVE  /\ Truncated(f, n) \in Seq(Tokens) /\ Len(Truncated(f, n)) = n
           /\ \A u : f = Begun(u, Len(f)) => Truncated(f, n) = Begun(u, n)
<1>1. Len(f) \in Nat /\ n \in Nat /\ \A k \in 1..n : k \in 1..Len(f) /\ k <= Len(f)
  OBVIOUS
<1>2. Truncated(f, n) = [k \in 1..n |-> f[k]]
  BY <1>1 DEF Truncated
<1>3. \A k \in 1..n : f[k] \in Tokens
  BY <1>1
<1>4. Truncated(f, n) \in Seq(Tokens) /\ Len(Truncated(f, n)) = n
  BY <1>1, <1>2, <1>3
<1>5. ASSUME NEW u, f = Begun(u, Len(f)) PROVE Truncated(f, n) = Begun(u, n)
  <2>1. \A k \in 1..n : f[k] = Token("byte", u, k)
    BY <1>1, <1>5 DEF Begun
  <2> QED
    BY <1>2, <2>1 DEF Begun
<1> QED
  BY <1>4, <1>5

\* and of a file.
LEMMA DealOk ==
    ASSUME SaneSite, NEW s, NEW d, NEW p, NEW a, NEW c, NEW e, NEW n, Announced(s, d, p, a, c, e, n),
           Site[s.reply].code = "ok", NEW t, t = Deal(s, n)
    PROVE  Books(t, d, p, a) /\ Stage(t, c, e)
<1> DEFINE u == s.queue[1].uri
           i == s.queue[1].item
<1>1. /\ Opened(s, d, p, a, c, e, n) /\ s.reply = u /\ Site[u].code = "ok" /\ s.persistent = ~HangsUp(u)
      /\ u \in Uri /\ Books(s, d, p, a) /\ Hosts(s) /\ ~s.err /\ s.sent >= 1
      /\ Flow(s, c, e, Body(u, n), 1, HangsUp(u)) /\ n \in 0..Site[u].size
      /\ s \in MethodType /\ s.sent <= Len(s.queue) /\ Records(s, d, p, a) /\ s.queue # <<>> /\ p \in Plans
      /\ s.answers \in [Item -> Nat] /\ s.queue[1].item \in Item /\ Site[u].size \in Nat
      /\ Head(s.queue) = s.queue[1] /\ i \in DOMAIN p /\ u \in Chain[p[i]]
      /\ s.file[i] \in Seq(Tokens) /\ s.file \in [Item -> Seq(Tokens)] /\ n <= Len(s.file[i])
  BY OpenedHead DEF Announced, Opened
<1>2. n \in 0..Len(s.file[i])
  <2>1. PICK x \in Nat : x = Len(s.file[i])
    BY <1>1
  <2> QED
    BY <1>1, <2>1
<1> DEFINE f == Truncated(s.file[i], n)
           v == [s EXCEPT !.file[Head(s.queue).item] = Truncated(@, n)]
<1>3. f \in Seq(Tokens) /\ Len(f) = n /\ (s.file[i] = Begun(u, Len(s.file[i])) => f = Begun(u, n))
  BY <1>1, <1>2, TruncatedIs
<1>4. Put(s, v, f)
  BY <1>1 DEF Put, MethodType
<1>5. t = StartData(v, "file", n)
  BY <1>1 DEF Deal
<1> HIDE DEF f, v
<1>6. Records(v, d, p, a) /\ v.file = [s.file EXCEPT ![i] = f] /\ v = [s EXCEPT !.file = v.file]
  <2>1. PICK g \in Seq(Tokens) : g = f
    BY <1>3
  <2>2. PICK y : y = v
    OBVIOUS
  <2>3. Put(s, y, g) /\ Records(s, d, p, a) /\ s.queue # <<>>
    BY <1>1, <1>4, <2>1, <2>2
  <2>4. Records(y, d, p, a) /\ y.file = [s.file EXCEPT ![s.queue[1].item] = g] /\ y = [s EXCEPT !.file = y.file]
    BY <2>3, FilePut
  <2> QED
    BY <2>1, <2>2, <2>4
<1>7. /\ v \in MethodType /\ v.queue = s.queue /\ v.sent = s.sent /\ v.answers = s.answers /\ v.in = s.in
      /\ v.out = s.out /\ v.open = s.open /\ v.host = s.host /\ v.err = s.err /\ v.reply = s.reply
      /\ v.persistent = s.persistent
  BY <1>1, <1>6 DEF Records, MethodType
<1>8. Books(v, d, p, a)
  <2>1. Files(s.file, s.answers, p)
    BY <1>1 DEF Books
  <2>2. Beginning(f, u, s.answers[i] = 0)
    <3>1. Beginning(s.file[i], u, s.answers[i] = 0)
      BY <1>1, <2>1 DEF Files
    <3>2. Len(f) <= Site[u].size
      BY <1>1, <1>3
    <3> QED
      BY <1>3, <3>1, <3>2 DEF Beginning
  <2>3. Files([s.file EXCEPT ![i] = f], s.answers, p)
    BY <1>1, <1>3, <2>1, <2>2, FilesPut
  <2> QED
    BY <1>6, <1>7, <2>3 DEF Books
<1>9. PICK b \in Nat : b = 1
  OBVIOUS
<1>10. \A k \in (b + 1)..s.sent : v.file[s.queue[k].item] = s.file[s.queue[k].item]
  <2> TAKE k \in (b + 1)..s.sent
  <2>1. s.queue \in Seq(Queued) /\ s.sent \in Nat /\ Len(s.queue) \in Nat
    BY <1>1 DEF MethodType
  <2>2. k \in 2..Len(s.queue) /\ k \in 1..Len(s.queue)
    BY <1>1, <1>9, <2>1
  <2>3. s.queue[k].item \in Item /\ s.queue[k].item # i
    <3>1. PICK x \in Seq(Queued) : x = s.queue
      BY <2>1
    <3>2. x[k] \in Queued
      BY <2>2, <3>1
    <3>3. s.queue[k].item # i
      BY <1>1, <2>2, HeadDue
    <3> QED
      BY <3>1, <3>2, <3>3 DEF Queued
  <2> QED
    BY <1>1, <1>6, <2>3
<1>11. Keeps(s, b, v, b)
  BY <1>1, <1>7, <1>10, KeepsItself
<1>12. Flow(v, c, e, Body(u, n), b, HangsUp(u))
  <2>1. Flow(s, c, e, Body(u, n), b, HangsUp(u))
    BY <1>1, <1>9
  <2>2. v.sent <= Len(v.queue)
    BY <1>1, <1>7
  <2> QED
    BY <1>1, <1>7, <1>11, <2>1, <2>2, FlowKeeps
<1>13. PICK mode \in {"file", "error", "redirect"} : mode = "file"
  OBVIOUS
<1>14. Starting(v, d, p, a, c, e, mode, n)
  <2>1. Flow(v, c, e, Body(v.reply, n), IF mode = "error" THEN 0 ELSE 1, HangsUp(v.reply))
    BY <1>1, <1>7, <1>9, <1>12, <1>13
  <2>2. n = Len(v.file[v.queue[1].item])
    BY <1>1, <1>3, <1>6, <1>7
  <2>3. Site[u].framing # "none"
    BY <1>1 DEF SaneSite
  <2>4. Hosts(v)
    BY <1>1, <1>7 DEF Hosts
  <2> QED
    BY <1>1, <1>7, <1>8, <1>13, <2>1, <2>2, <2>3, <2>4 DEF Starting
<1>15. t = StartData(v, mode, n)
  BY <1>5, <1>13
<1> QED
  BY <1>14, <1>15, Starts

\* The headers in the buffer are those of the reply to the head of the queue.
LEMMA HeadersTaken ==
    ASSUME IInv, m.pc = "headers", m.in # <<>>, NEW x \in MethodType,
           x.in = Tail(m.in), x.queue = m.queue, x.sent = m.sent, x.out = m.out, x.open = m.open,
           x.host = m.host, x.file = m.file, x.answers = m.answers, x.told = m.told, x.stop = m.stop,
           x.err = m.err
    PROVE  \E n \in Nat : Head(m.in) = Token("head", m.queue[1].uri, n)
                          /\ Opened(x, stdin, plan, asked, conn, eof, n)
<1>1. /\ AtHeaders(m, conn, eof) /\ Books(m, stdin, plan, asked) /\ Records(m, stdin, plan, asked)
      /\ conn \in Seq(Tokens) /\ m \in MethodType /\ m.sent <= Len(m.queue)
      /\ Hosts(m) /\ Flow(m, conn, eof, <<>>, 0, FALSE) /\ ~m.err
  BY DEF IInv, Stage, AtTop, AtHeaders, AtData, Books, Records, Idle
<1> DEFINE t == [m EXCEPT !.in = Tail(m.in)]
<1>2. Buffers(m, t, Tail(m.in))
  BY DEF Buffers
<1>3. /\ t.queue = m.queue /\ t.sent = m.sent /\ t.in = Tail(m.in) /\ t.out = m.out /\ t.open = m.open
      /\ t.file = m.file
  BY <1>1 DEF MethodType
<1> HIDE DEF t
<1>4. PICK r \in Granted :
             /\ Head(m.in) = Token("head", r.uri, r.from)
             /\ m.sent >= 1 /\ r.uri = m.queue[1].uri
             /\ r.from <= Len(m.file[m.queue[1].item])
             /\ t \in MethodType /\ Flow(t, conn, eof, Body(r.uri, r.from), 1, HangsUp(r.uri))
  BY <1>1, <1>2, FlowHead
<1>5. /\ r.from \in Nat /\ r.uri \in Uri /\ Site[r.uri].size \in Nat
      /\ (r.from = 0 \/ (Site[r.uri].code = "ok" /\ r.from < Site[r.uri].size))
  BY SiteType DEF Granted, Asking, Answer
<1>6. r.from \in 0..Site[r.uri].size
  BY <1>5
<1>7. PICK b \in Nat : b = 1
  OBVIOUS
<1>8. Keeps(t, b, x, b)
  BY <1>1, <1>3, <1>4, KeepsItself
<1>9. Flow(x, conn, eof, Body(r.uri, r.from), b, HangsUp(r.uri))
  <2>1. x.sent <= Len(x.queue) /\ t.sent <= Len(t.queue)
    BY <1>1, <1>3
  <2>2. Flow(t, conn, eof, Body(r.uri, r.from), b, HangsUp(r.uri))
    BY <1>4, <1>7
  <2> QED
    BY <1>4, <1>8, <2>1, <2>2, FlowKeeps
<1>10. Books(x, stdin, plan, asked)
  <2>1. x.sent <= Len(x.queue) /\ m.stop \subseteq x.stop
    BY <1>1
  <2> QED
    BY <1>1, <2>1, BooksSame
<1>11. Hosts(x)
  BY <1>1 DEF Hosts
<1>12. Opened(x, stdin, plan, asked, conn, eof, r.from)
  BY <1>1, <1>4, <1>5, <1>6, <1>7, <1>9, <1>10, <1>11 DEF Opened
<1> QED
  BY <1>4, <1>5, <1>12

\* The fields the headers of a reply set.
LEMMA NotedType ==
    ASSUME NEW s \in MethodType, NEW u \in Uri, NEW lo \in Uri \cup {NoUri}, NEW pe \in BOOLEAN
    PROVE  [s EXCEPT !.reply = u, !.location = lo, !.persistent = pe] \in MethodType
<1>0. [s EXCEPT !.reply = u, !.location = lo] \in MethodType
  BY DEF MethodType
<1>1. PICK t \in MethodType : t = [s EXCEPT !.reply = u, !.location = lo]
  BY <1>0
<1>2. [t EXCEPT !.persistent = pe] \in MethodType
  BY DEF MethodType
<1>3. [t EXCEPT !.persistent = pe] = [s EXCEPT !.reply = u, !.location = lo, !.persistent = pe]
  BY <1>1
<1> QED
  BY <1>2, <1>3

\* The headers of a reply preserve the invariant.
LEMMA ParsedStep ==
    ASSUME SaneSite, IInv, m.pc = "headers", m.in # <<>>, m' = Parsed(m), Wire, UNCHANGED <<stdin, plan, asked>>
    PROVE  IInv'
<1> DEFINE t == [m EXCEPT !.in = Tail(@), !.early = FALSE]
           h == Head(m.in)
           u == m.queue[1].uri
<1>1. /\ m \in MethodType /\ conn \in Seq(Tokens) /\ eof \in BOOLEAN /\ Wires(conn, eof, stdin)
  BY NothingSent DEF IInv, Books, Records
<1>2. Tail(m.in) \in Seq(Tokens)
  <2>1. m.in \in Seq(Tokens)
    BY <1>1 DEF MethodType
  <2> QED
    BY <2>1
<1>3. /\ t \in MethodType
      /\ t.in = Tail(m.in) /\ t.queue = m.queue /\ t.sent = m.sent /\ t.out = m.out /\ t.open = m.open
      /\ t.host = m.host /\ t.file = m.file /\ t.answers = m.answers /\ t.told = m.told /\ t.stop = m.stop
      /\ t.err = m.err /\ t.location = m.location
  BY <1>1, <1>2 DEF MethodType
<1> HIDE DEF t
<1>4. PICK n \in Nat : h = Token("head", u, n) /\ Opened(t, stdin, plan, asked, conn, eof, n)
  BY <1>3, HeadersTaken
<1>5. h.uri = u /\ h.n = n
  BY <1>4 DEF Token
<1>6. u \in Uri /\ Site[u] \in Answer /\ Head(t.queue) = t.queue[1] /\ t.queue[1] = m.queue[1]
  BY <1>3, <1>4, OpenedHead, SiteType
<1>7. CASE Site[u].code = "bad"
  <2>1. m' = [Fail(t, "transient") EXCEPT !.pc = "top"]
    BY <1>5, <1>7 DEF Parsed, t
  <2>2. PICK how \in {"ims", "failed", "transient"} : how = "transient" /\ how # "failed"
    OBVIOUS
  <2>3. m' \in Rounds(t, how)
    BY <2>1, <2>2 DEF Rounds
  <2>4. Site[t.queue[1].uri].framing = "none"
    BY <1>6, <1>7 DEF SaneSite
  <2>5. PICK y : y = m'
    OBVIOUS
  <2>6. Books(y, stdin, plan, asked) /\ Stage(y, conn, eof)
    BY <1>4, <2>2, <2>3, <2>4, <2>5, OpenedTold
  <2> QED
    BY <1>1, <2>5, <2>6, Settles
<1>8. CASE Site[u].code # "bad"
  <2> DEFINE lo == IF Site[u].to # NoUri THEN Site[u].to ELSE m.location
             pe == ~Site[u].close /\ Site[u].framing # "closes"
             x == [t EXCEPT !.reply = u, !.location = lo, !.persistent = pe]
  <2>1. m' = Deal(x, n)
    <3>1. m' = Deal([t EXCEPT !.reply = h.uri,
                           !.location = IF Site[h.uri].to # NoUri THEN Site[h.uri].to ELSE @,
                           !.persistent = ~Site[h.uri].close /\ Site[h.uri].framing # "closes"], h.n)
      BY <1>5, <1>8 DEF Parsed, t
    <3> QED
      BY <1>3, <1>5, <3>1
  <2>2. pe \in BOOLEAN /\ pe = ~HangsUp(u) /\ lo \in Uri \cup {NoUri}
    BY <1>1, <1>6 DEF HangsUp, Answer, MethodType
  <2>3. Site[u].to # NoUri => lo = Site[u].to
    OBVIOUS
  <2> HIDE DEF lo, pe
  <2>11. x \in MethodType
    BY <1>3, <1>6, <2>2, NotedType
  <2>4. /\ x \in MethodType
        /\ x.in = t.in /\ x.queue = t.queue /\ x.sent = t.sent /\ x.out = t.out /\ x.open = t.open
        /\ x.host = t.host /\ x.file = t.file /\ x.answers = t.answers /\ x.told = t.told /\ x.stop = t.stop
        /\ x.err = t.err /\ x.reply = u /\ x.location = lo /\ x.persistent = pe
    BY <1>3, <2>11 DEF MethodType
  <2> HIDE DEF x
  <2>5. PICK k \in Nat : h = Token("head", u, k) /\ Opened(x, stdin, plan, asked, conn, eof, k)
    BY <1>3, <2>4, HeadersTaken
  <2>6. k = n
    BY <1>4, <2>5 DEF Token
  <2>7. Announced(x, stdin, plan, asked, conn, eof, n)
    BY <1>3, <2>2, <2>3, <2>4, <2>5, <2>6 DEF Announced
  <2>8. PICK y : y = Deal(x, n)
    OBVIOUS
  <2>9. Site[x.reply].code \in {"ok", "notmod", "redirect", "error"}
    BY <1>6, <1>8, <2>4 DEF Answer
  <2>10. Books(y, stdin, plan, asked) /\ Stage(y, conn, eof)
    BY <2>7, <2>8, <2>9, DealNotModified, DealRedirect, DealError, DealOk
  <2> QED
    BY <1>1, <2>1, <2>8, <2>10, Settles
<1> QED
  BY <1>7, <1>8

\* The connection is given up before the headers came.
LEMMA GivenUp ==
    ASSUME NEW s, NEW d, NEW p, NEW a, Books(s, d, p, a), s.queue # <<>>, NEW t, t = NoHeaders(s)
    PROVE  Books(t, d, p, a) /\ t.pc = "top" /\ ~t.open
<1>1. s \in MethodType /\ Records(s, d, p, a) /\ s.sent <= Len(s.queue) /\ p \in Plans /\ s.fails \in Nat
      /\ s.answers \in [Item -> Nat]
  BY DEF Books, Records, MethodType
<1> DEFINE u == [s EXCEPT !.open = FALSE, !.pc = "top", !.err = FALSE, !.pipeline = FALSE, !.fails = s.fails + 1]
<1>2. t = IF u.fails < 2 THEN u ELSE [Tell(u, "transient") EXCEPT !.fails = 0]
  <2>1. [Closed(s) EXCEPT !.pc = "top", !.err = FALSE, !.pipeline = FALSE, !.fails = @ + 1] = u
    BY <1>1 DEF Closed, MethodType
  <2> QED
    BY <2>1 DEF NoHeaders
<1>3. s.fails + 1 \in Nat
  BY <1>1
<1>4. /\ u \in MethodType /\ u.queue = s.queue /\ u.sent = s.sent /\ u.answers = s.answers /\ u.told = s.told
      /\ u.file = s.file /\ u.stop = s.stop /\ ~u.open /\ u.pc = "top"
  BY <1>1, <1>3 DEF MethodType
<1> HIDE DEF u
<1>5. Books(u, d, p, a) /\ Records(u, d, p, a)
  <2>1. u.sent <= Len(u.queue) /\ s.stop \subseteq u.stop
    BY <1>1, <1>4
  <2> QED
    BY <1>1, <1>4, <2>1, BooksSame
<1>6. CASE u.fails < 2
  BY <1>2, <1>4, <1>5, <1>6
<1>7. CASE ~(u.fails < 2)
  <2>1. PICK how \in {"done", "ims", "failed", "transient"} : how = "transient" /\ how # "failed" /\ how # "done"
    OBVIOUS
  <2>2. PICK v : v = Tell(u, how)
    OBVIOUS
  <2>3. u.queue # <<>> /\ u.queue[1].item \in Item
    BY <1>1, <1>4, HeadDue
  <2>4. Files(u.file, [u.answers EXCEPT ![u.queue[1].item] = @ + 1], p)
    BY <1>1, <1>4, <1>5, <2>3, FilesAnswered DEF Books
  <2>5. Books(v, d, p, a)
    BY <1>5, <2>1, <2>2, <2>3, <2>4, TellBooks
  <2>6. Answers(u, v, how)
    BY <1>4, <2>2, <2>3, TellAnswers
  <2>7. /\ v \in MethodType /\ v = [u EXCEPT !.queue = v.queue, !.sent = v.sent, !.told = v.told, !.answers = v.answers]
    BY <2>6 DEF Answers
  <2>8. v.pc = "top" /\ ~v.open
    BY <1>4, <2>7 DEF MethodType
  <2>9. t = [v EXCEPT !.fails = 0]
    BY <1>2, <1>7, <2>1, <2>2
  <2>12. t \in MethodType
    <3>1. 0 \in Nat
      OBVIOUS
    <3> QED
      BY <2>7, <2>9, <3>1 DEF MethodType
  <2>10. /\ t \in MethodType /\ t.queue = v.queue /\ t.sent = v.sent /\ t.answers = v.answers /\ t.told = v.told
         /\ t.file = v.file /\ t.stop = v.stop /\ ~t.open /\ t.pc = "top"
    BY <2>7, <2>8, <2>9, <2>12 DEF MethodType
  <2>11. Books(t, d, p, a)
    <3>1. Records(v, d, p, a) /\ t.sent <= Len(t.queue) /\ v.stop \subseteq t.stop
      BY <2>5, <2>10 DEF Books, Records
    <3> QED
      BY <2>5, <2>10, <3>1, BooksSame
  <2> QED
    BY <2>10, <2>11
<1> QED
  BY <1>6, <1>7

\* What one call of Go does while headers are waited for.
LEMMA HeadersGo ==
    ASSUME IInv, m.pc = "headers", m.in = <<>>,
           NEW x, NEW ok, NEW c1, NEW e1, NEW d1, Went(FALSE, x, ok, c1, e1, d1)
    PROVE  /\ c1 \in Seq(Tokens) /\ e1 \in BOOLEAN /\ Books(x, d1, plan, asked) /\ x.queue # <<>>
           /\ ok => Stage(x, c1, e1)
<1>1. /\ AtHeaders(m, conn, eof) /\ Books(m, stdin, plan, asked) /\ Records(m, stdin, plan, asked)
      /\ conn \in Seq(Tokens) /\ eof \in BOOLEAN /\ m \in MethodType /\ m.sent <= Len(m.queue)
      /\ Hosts(m) /\ Flow(m, conn, eof, <<>>, 0, FALSE) /\ ~m.err /\ m.queue # <<>> /\ stdin \in Seq(Queued)
  BY DEF IInv, Stage, AtTop, AtHeaders, AtData, Books, Records, Idle
<1>2. PICK b \in Nat, rest \in Seq(Tokens), hung \in BOOLEAN : b = 0 /\ rest = <<>> /\ hung = FALSE
  <2>1. <<>> \in Seq(Tokens)
    OBVIOUS
  <2> QED
    BY <2>1
<1>3. Flow(m, conn, eof, rest, b, hung)
  BY <1>1, <1>2
<1>4. ASSUME NEW y, Alike(m, y)
      PROVE  /\ y \in MethodType /\ Books(y, stdin, plan, asked) /\ y.sent <= Len(y.queue) /\ y.queue = m.queue
             /\ Hosts(y) /\ y.open = m.open /\ y.pc = "headers"
  <2>1. /\ y \in MethodType /\ y.queue = m.queue /\ y.sent = m.sent /\ y.host = m.host /\ y.answers = m.answers
        /\ y.told = m.told /\ y.file = m.file /\ y.stop = m.stop /\ y.open = m.open /\ y.pc = m.pc
    BY <1>1, <1>4, AlikeSame
  <2>2. y.sent <= Len(y.queue) /\ m.stop \subseteq y.stop
    BY <1>1, <2>1
  <2>3. Books(y, stdin, plan, asked)
    BY <1>1, <2>1, <2>2, BooksSame
  <2> QED
    BY <1>1, <2>1, <2>2, <2>3 DEF Hosts
<1>5. ASSUME NEW n \in 0..Len(conn), x = Handle(Taken(m, conn, n), stdin), ok = TRUE,
             Wired(m, conn, eof, n, c1, e1), d1 = <<>>
      PROVE  /\ c1 \in Seq(Tokens) /\ e1 \in BOOLEAN /\ Books(x, d1, plan, asked) /\ x.queue # <<>>
             /\ Stage(x, c1, e1)
  <2> DEFINE y == Taken(m, conn, n)
  <2>1. /\ c1 \in Seq(Tokens) /\ e1 \in BOOLEAN /\ Alike(m, y) /\ y.err = m.err
        /\ Flow(y, c1, e1, rest, b, hung)
    BY <1>1, <1>3, <1>5, Arrives
  <2> HIDE DEF y
  <2>2. /\ y \in MethodType /\ Books(y, stdin, plan, asked) /\ y.sent <= Len(y.queue) /\ y.queue = m.queue
        /\ Hosts(y) /\ y.pc = "headers"
    BY <1>4, <2>1
  <2>3. x = Handle(y, stdin)
    BY <1>5 DEF y
  <2>4. Books(x, <<>>, plan, asked) /\ Hosts(x) /\ Flow(x, c1, e1, rest, b, hung) /\ Extends(y, x, stdin)
    BY <2>1, <2>2, <2>3, GoesOn
  <2>5. /\ x \in MethodType /\ x.queue = y.queue \o stdin
        /\ x = [y EXCEPT !.queue = x.queue, !.sent = x.sent, !.out = x.out, !.choke = x.choke]
    BY <2>4 DEF Extends
  <2>6. x.pc = "headers" /\ x.err = y.err
    BY <2>2, <2>5 DEF MethodType
  <2>7. x.queue # <<>>
    <3>1. PICK v \in Seq(Queued) : v = m.queue
      BY <1>1 DEF MethodType
    <3>2. v # <<>> => v \o stdin # <<>>
      BY <1>1
    <3> QED
      BY <1>1, <2>2, <2>5, <3>1, <3>2
  <2>8. AtHeaders(x, c1, e1)
    BY <1>1, <1>2, <2>1, <2>4, <2>6, <2>7 DEF AtHeaders, Idle
  <2> QED
    BY <1>5, <2>1, <2>4, <2>7, <2>8 DEF Stage
<1>6. ASSUME NEW y, NEW c, NEW e, Alike(m, y), Flow(y, c, e, rest, b, hung), c \in Seq(Tokens), e \in BOOLEAN,
             y.err => y.in = <<>>,
             x = ServerDie(y).s, ok = ServerDie(y).ok, c1 = c, e1 = e, d1 = stdin
      PROVE  /\ c1 \in Seq(Tokens) /\ e1 \in BOOLEAN /\ Books(x, d1, plan, asked) /\ x.queue # <<>>
             /\ ok => Stage(x, c1, e1)
  <2>1. /\ y \in MethodType /\ Books(y, stdin, plan, asked) /\ y.sent <= Len(y.queue) /\ y.queue = m.queue
        /\ Hosts(y) /\ y.pc = "headers"
    BY <1>4, <1>6
  <2> DEFINE open == IF y.in = <<>> THEN y.open ELSE FALSE
             z == [y EXCEPT !.limit = NoLimit, !.open = open]
  <2>2. ServerDie(y) = Result(z, y.in # <<>>)
    <3>1. CASE y.in = <<>>
      <4>1. ServerDie(y) = Result([y EXCEPT !.limit = NoLimit], FALSE)
        BY <2>1, <3>1 DEF ServerDie
      <4>2. [y EXCEPT !.limit = NoLimit] = z
        BY <2>1, <3>1 DEF MethodType
      <4> QED
        BY <3>1, <4>1, <4>2
    <3>2. CASE y.in # <<>>
      <4>1. ServerDie(y) = Result(Closed([y EXCEPT !.limit = NoLimit]), TRUE)
        BY <2>1, <3>2 DEF ServerDie
      <4>2. Closed([y EXCEPT !.limit = NoLimit]) = z
        BY <2>1, <3>2 DEF MethodType, Closed
      <4> QED
        BY <3>2, <4>1, <4>2
    <3> QED
      BY <3>1, <3>2
  <2>3. x = z /\ (ok <=> y.in # <<>>)
    <3>1. PICK k \in BOOLEAN : k <=> y.in # <<>>
      OBVIOUS
    <3>2. (y.in # <<>>) = k
      BY <3>1
    <3> HIDE DEF z
    <3>3. ServerDie(y) = Result(z, k)
      BY <2>2, <3>2
    <3>4. ServerDie(y).s = z /\ ServerDie(y).ok = k
      BY <3>3 DEF Result
    <3> QED
      BY <1>6, <3>1, <3>4
  <2>4. open \in BOOLEAN /\ (open => y.open)
    BY <2>1 DEF MethodType
  <2> HIDE DEF open
  <2>5. /\ z \in MethodType /\ z.queue = y.queue /\ z.sent = y.sent /\ z.answers = y.answers /\ z.told = y.told
        /\ z.file = y.file /\ z.stop = y.stop /\ z.open = open /\ z.pc = "headers" /\ z.in = y.in /\ z.out = y.out
        /\ z.host = y.host /\ z.err = y.err
    BY <2>1, <2>4 DEF MethodType
  <2> HIDE DEF z
  <2>6. Books(z, stdin, plan, asked)
    <3>1. Records(y, stdin, plan, asked) /\ z.sent <= Len(z.queue) /\ y.stop \subseteq z.stop
      BY <2>1, <2>5 DEF Books
    <3> QED
      BY <2>1, <2>5, <3>1, BooksSame
  <2>7. Flow(z, c, e, rest, b, hung)
    <3>1. Keeps(y, b, z, b)
      BY <2>1, <2>4, <2>5, KeepsItself
    <3>2. z.sent <= Len(z.queue)
      BY <2>1, <2>5
    <3> QED
      BY <1>6, <2>1, <2>5, <3>1, <3>2, FlowKeeps
  <2>8. ok => AtHeaders(z, c, e)
    BY <1>1, <1>2, <1>6, <2>1, <2>3, <2>5, <2>7 DEF AtHeaders, Idle, Hosts
  <2> QED
    BY <1>1, <1>6, <2>1, <2>3, <2>5, <2>6, <2>8 DEF Stage
<1>7. CASE Refused(m, FALSE) /\ x = m /\ ok = FALSE /\ c1 = conn /\ e1 = eof /\ d1 = stdin
  BY <1>1, <1>7
<1>8. ASSUME NEW n \in 0..Len(conn), x = ServerDie(ReadIn(m, conn, n)).s, ok = ServerDie(ReadIn(m, conn, n)).ok,
             c1 = <<>>, e1 = TRUE, d1 = stdin
      PROVE  /\ c1 \in Seq(Tokens) /\ e1 \in BOOLEAN /\ Books(x, d1, plan, asked) /\ x.queue # <<>>
             /\ ok => Stage(x, c1, e1)
  <2> DEFINE y == ReadIn(m, conn, n)
             c0 == SubSeq(conn, n + 1, Len(conn))
  <2>1. Alike(m, y) /\ y.err = m.err /\ c0 \in Seq(Tokens) /\ Flow(y, c0, eof, rest, b, hung)
    BY <1>1, <1>3, Arrives
  <2>2. x = ServerDie(y).s /\ ok = ServerDie(y).ok
    BY <1>8
  <2> HIDE DEF y, c0
  <2>3. Flow(y, <<>>, TRUE, rest, b, hung)
    BY <1>4, <2>1, FlowCut
  <2>4. <<>> \in Seq(Tokens) /\ TRUE \in BOOLEAN /\ ~y.err
    BY <1>1, <2>1
  <2> QED
    BY <1>6, <1>8, <2>1, <2>2, <2>3, <2>4
<1>9. ASSUME x = ServerDie([m EXCEPT !.err = TRUE]).s, ok = ServerDie([m EXCEPT !.err = TRUE]).ok,
             c1 = conn, e1 = eof, d1 = stdin
      PROVE  /\ c1 \in Seq(Tokens) /\ e1 \in BOOLEAN /\ Books(x, d1, plan, asked) /\ x.queue # <<>>
             /\ ok => Stage(x, c1, e1)
  <2> DEFINE y == [m EXCEPT !.err = TRUE]
  <2>1. Alike(m, y) /\ y.in = m.in /\ y.out = m.out /\ y.open = m.open /\ y.sent = m.sent /\ y.queue = m.queue
        /\ y.file = m.file
    BY <1>1 DEF Alike, MethodType
  <2>2. x = ServerDie(y).s /\ ok = ServerDie(y).ok
    BY <1>9
  <2> HIDE DEF y
  <2>3. Keeps(m, b, y, b)
    BY <1>1, <2>1, KeepsItself
  <2>4. Flow(y, conn, eof, rest, b, hung)
    <3>1. y \in MethodType /\ y.sent <= Len(y.queue)
      BY <1>4, <2>1
    <3> QED
      BY <1>1, <1>3, <2>3, <3>1, FlowKeeps
  <2> QED
    BY <1>1, <1>6, <1>9, <2>1, <2>2, <2>4
<1>10. CASE \E n \in 0..Len(conn) :
          /\ x = Handle(IF FALSE /\ m.in # <<>> THEN Write(Taken(m, conn, n)) ELSE Taken(m, conn, n), stdin)
          /\ ok = TRUE /\ Wired(m, conn, eof, n, c1, e1) /\ d1 = <<>>
  BY <1>5, <1>10
<1> QED
  BY <1>7, <1>8, <1>9, <1>10 DEF Went

\* RunHeaders preserves it, with headers in the buffer or none.
LEMMA HeadersStep ==
    ASSUME SaneSite, IInv, Headers
    PROVE  IInv'
<1>1. m.pc = "headers" /\ UNCHANGED <<plan, asked>>
  BY DEF Headers
<1>2. CASE m.in # <<>>
  <2>1. m' = Parsed(m) /\ Wire /\ UNCHANGED stdin
    BY <1>2 DEF Headers
  <2> QED
    BY <1>1, <1>2, <2>1, ParsedStep
<1>3. CASE m.in = <<>>
  <2>1. GoThen(FALSE, Stay, NoHeaders)
    BY <1>3 DEF Headers
  <2>2. PICK x, ok, c1, e1, d1 :
             /\ Went(FALSE, x, ok, c1, e1, d1) /\ Wires(c1, e1, d1)
             /\ m' = IF ok THEN x ELSE NoHeaders(x)
    BY <2>1, HeadersWent
  <2>3. /\ c1 \in Seq(Tokens) /\ e1 \in BOOLEAN /\ Books(x, d1, plan, asked) /\ x.queue # <<>>
        /\ ok => Stage(x, c1, e1)
    BY <1>1, <1>3, <2>2, HeadersGo
  <2>4. CASE ok
    BY <1>1, <2>2, <2>3, <2>4, Settles
  <2>5. CASE ~ok
    <3>1. PICK t : t = NoHeaders(x)
      OBVIOUS
    <3>2. Books(t, d1, plan, asked) /\ t.pc = "top" /\ ~t.open
      BY <2>3, <3>1, GivenUp
    <3>3. Stage(t, c1, e1)
      BY <3>2 DEF Stage, AtTop, Reusable
    <3>4. m' = t
      BY <2>2, <2>5, <3>1
    <3> QED
      BY <1>1, <2>2, <2>3, <3>2, <3>3, <3>4, Settles
  <2> QED
    BY <2>4, <2>5
<1> QED
  BY <1>2, <1>3

-----------------------------------------------------------------------------
(* The top of HttpMethod::Loop.                                             *)

\* The queue is asked for, as the headers of its first element are waited for.
LEMMA Asks ==
    ASSUME NEW s, NEW p, NEW a, Books(s, <<>>, p, a), Hosts(s), s.queue # <<>>, ~s.err, s.pc = "headers",
           NEW c, NEW e, Flow(s, c, e, <<>>, 0, FALSE), NEW t, t = Fetch(s)
    PROVE  Books(t, <<>>, p, a) /\ Stage(t, c, e) /\ t.open = s.open
<1>1. s \in MethodType /\ s.sent <= Len(s.queue)
  BY DEF Books, Records
<1>2. PICK d \in Seq(Queued) : d = <<>>
  <2>1. <<>> \in Seq(Queued)
    OBVIOUS
  <2> QED
    BY <2>1
<1>3. Extends(s, t, d)
  BY <1>1, <1>2, FetchExtends
<1>4. s.queue \o d = (s.queue \o d) \o d /\ s.queue \o d = s.queue
  <2>1. PICK x \in Seq(Queued) : x = s.queue
    BY <1>1 DEF MethodType
  <2>2. x \o <<>> = x
    OBVIOUS
  <2> QED
    BY <1>2, <2>1, <2>2
<1>5. Books(t, d, p, a)
  BY <1>2, <1>3, <1>4, BooksExtends
<1>6. Hosts(t)
  BY <1>1, <1>3, HostsExtends
<1>7. PICK b \in Nat : b = 0
  OBVIOUS
<1>8. Flow(t, c, e, <<>>, b, FALSE)
  <2>1. Flow(s, c, e, <<>>, b, FALSE)
    BY <1>7
  <2> QED
    BY <1>1, <1>3, <2>1, FlowExtends
<1>9. /\ t \in MethodType /\ t.queue = s.queue \o d
      /\ t = [s EXCEPT !.queue = t.queue, !.sent = t.sent, !.out = t.out, !.choke = t.choke]
  BY <1>3 DEF Extends
<1>10. t.pc = "headers" /\ t.err = s.err /\ t.open = s.open
  BY <1>1, <1>9 DEF MethodType
<1>11. AtHeaders(t, c, e)
  BY <1>4, <1>6, <1>7, <1>8, <1>9, <1>10 DEF AtHeaders, Idle
<1> QED
  BY <1>2, <1>5, <1>10, <1>11 DEF Stage

\* The connection is gone, whatever the host.
LEMMA Reopens ==
    ASSUME NEW t, NEW p, NEW a, Books(t, <<>>, p, a), t.queue # <<>>, ~t.open, ~t.err, NEW x, x = Connected(t)
    PROVE  Books(x, <<>>, p, a) /\ Stage(x, <<>>, FALSE)
<1> DEFINE s == [t EXCEPT !.pc = "headers", !.open = TRUE, !.persistent = TRUE, !.sent = 0,
                          !.in = <<>>, !.out = <<>>, !.limit = NoLimit]
<1>1. t \in MethodType /\ Records(t, <<>>, p, a)
  BY DEF Books, Records
<1>2. /\ s \in MethodType /\ s.queue = t.queue /\ s.sent = 0 /\ s.answers = t.answers /\ s.told = t.told
      /\ s.file = t.file /\ s.stop = t.stop /\ s.in = <<>> /\ s.out = <<>> /\ s.pc = "headers" /\ s.err = t.err
  <2>1. <<>> \in Seq(Tokens) /\ <<>> \in Seq(Asking) /\ 0 \in Nat
    OBVIOUS
  <2> QED
    BY <1>1, <2>1 DEF MethodType
<1>3. x = Fetch(s)
  BY DEF Connected
<1> HIDE DEF s
<1>4. s.queue \in Seq(Queued) /\ Len(s.queue) \in Nat
  BY <1>2 DEF MethodType
<1>5. Books(s, <<>>, p, a)
  <2>1. s.sent <= Len(s.queue) /\ t.stop \subseteq s.stop
    BY <1>2, <1>4
  <2> QED
    BY <1>1, <1>2, <2>1, BooksSame
<1>6. Hosts(s)
  <2>1. 1..0 = {}
    OBVIOUS
  <2> QED
    BY <1>2, <2>1 DEF Hosts
<1>7. Flow(s, <<>>, FALSE, <<>>, 0, FALSE)
  BY <1>2, FlowFresh
<1> QED
  BY <1>2, <1>3, <1>5, <1>6, <1>7, Asks

\* The server cannot be reached: Fail(true), as Top has it.
Unreached(s) == [Fail([s EXCEPT !.sent = 0], "transient") EXCEPT !.host = NoHost]

\* There is no connection: what the head of the queue needs has failed.
LEMMA Refuses ==
    ASSUME NEW t, NEW p, NEW a, Books(t, <<>>, p, a), t.queue # <<>>, ~t.open, NEW x,
           x = Unreached(t), NEW c, NEW e
    PROVE  Books(x, <<>>, p, a) /\ (t.pc = "top" => Stage(x, c, e))
<1> DEFINE s == [t EXCEPT !.sent = 0]
           v == Tell(s, "transient")
<1>1. t \in MethodType /\ Records(t, <<>>, p, a) /\ p \in Plans /\ t.answers \in [Item -> Nat]
  BY DEF Books, Records, MethodType
<1>2. /\ s \in MethodType /\ s.queue = t.queue /\ s.sent = 0 /\ s.answers = t.answers /\ s.told = t.told
      /\ s.file = t.file /\ s.stop = t.stop /\ s.pc = t.pc /\ s.open = t.open
  <2>1. 0 \in Nat
    OBVIOUS
  <2> QED
    BY <1>1, <2>1 DEF MethodType
<1>3. x = [v EXCEPT !.err = FALSE, !.host = NoHost]
  BY DEF Fail, Unreached
<1> HIDE DEF s
<1>4. s.queue \in Seq(Queued) /\ Len(s.queue) \in Nat
  BY <1>2 DEF MethodType
<1>5. Books(s, <<>>, p, a) /\ Records(s, <<>>, p, a)
  <2>1. s.sent <= Len(s.queue) /\ t.stop \subseteq s.stop
    BY <1>2, <1>4
  <2> QED
    BY <1>1, <1>2, <2>1, BooksSame
<1>6. PICK how \in {"done", "ims", "failed", "transient"} : how = "transient" /\ how # "failed" /\ how # "done"
  OBVIOUS
<1>7. v = Tell(s, how)
  BY <1>6
<1> HIDE DEF v
<1>8. s.queue # <<>> /\ s.queue[1].item \in Item
  BY <1>2, <1>5, HeadDue
<1>9. Files(s.file, [s.answers EXCEPT ![s.queue[1].item] = @ + 1], p)
  BY <1>1, <1>2, <1>5, <1>8, FilesAnswered DEF Books
<1>10. Books(v, <<>>, p, a)
  BY <1>5, <1>6, <1>7, <1>8, <1>9, TellBooks
<1>11. Answers(s, v, how)
  BY <1>2, <1>7, <1>8, TellAnswers
<1>12. /\ v \in MethodType /\ v = [s EXCEPT !.queue = v.queue, !.sent = v.sent, !.told = v.told, !.answers = v.answers]
  BY <1>11 DEF Answers
<1>13. v.pc = t.pc /\ v.open = t.open
  BY <1>2, <1>12 DEF MethodType
<1>14. /\ x \in MethodType /\ x.queue = v.queue /\ x.sent = v.sent /\ x.answers = v.answers /\ x.told = v.told
       /\ x.file = v.file /\ x.stop = v.stop /\ x.pc = t.pc /\ x.open = t.open
  BY ZenonT(60), <1>3, <1>12, <1>13 DEF MethodType
<1>15. Books(x, <<>>, p, a)
  <2>1. PICK y : y = v
    OBVIOUS
  <2>2. /\ Books(y, <<>>, p, a) /\ Records(y, <<>>, p, a)
        /\ x.queue = y.queue /\ x.answers = y.answers /\ x.told = y.told /\ x.file = y.file
        /\ x.sent <= Len(x.queue) /\ y.stop \subseteq x.stop
    BY <1>10, <1>14, <2>1 DEF Books, Records
  <2>3. x \in MethodType
    BY <1>14
  <2> QED
    BY <2>2, <2>3, BooksSame
<1> QED
  BY <1>14, <1>15 DEF Stage, AtTop, Reusable

\* The host the connection is to be to.
Placed(s) ==
    IF s.host # HostOf[Head(s.queue).uri]
    THEN [Closed(s) EXCEPT !.host = HostOf[Head(s.queue).uri], !.pipeline = TRUE,
                           !.location = NoUri, !.in = <<>>, !.out = <<>>]
    ELSE IF s.persistent THEN s ELSE Closed(s)

\* The connection to another host is given up.
LEMMA PlacedIs ==
    ASSUME NEW s, NEW p, NEW a, Books(s, <<>>, p, a), s.queue # <<>>, NEW t, t = Placed(s)
    PROVE  /\ Books(t, <<>>, p, a) /\ t.queue = s.queue /\ t.pc = s.pc /\ t.err = s.err
           /\ t.open => s.open /\ s.persistent /\ s.host = HostOf[s.queue[1].uri] /\ t = s
<1>1. s \in MethodType /\ Records(s, <<>>, p, a) /\ s.sent <= Len(s.queue)
  BY DEF Books, Records
<1>2. Head(s.queue) = s.queue[1] /\ s.queue[1].uri \in Uri /\ HostOf[s.queue[1].uri] \in Host
  BY <1>1, HeadDue, SiteType
<1>3. /\ t \in MethodType /\ t.queue = s.queue /\ t.sent = s.sent /\ t.answers = s.answers /\ t.told = s.told
      /\ t.file = s.file /\ t.stop = s.stop /\ t.pc = s.pc /\ t.err = s.err
      /\ t.open => s.open /\ s.persistent /\ s.host = HostOf[s.queue[1].uri] /\ t = s
  <2>1. CASE s.host # HostOf[s.queue[1].uri]
    <3>1. t = [s EXCEPT !.open = FALSE, !.host = HostOf[s.queue[1].uri], !.pipeline = TRUE,
                        !.location = NoUri, !.in = <<>>, !.out = <<>>]
      BY <1>1, <1>2, <2>1 DEF Placed, Closed, MethodType
    <3>2. <<>> \in Seq(Tokens) /\ <<>> \in Seq(Asking)
      OBVIOUS
    <3> QED
      BY ZenonT(60), <1>1, <1>2, <3>1, <3>2 DEF MethodType
  <2>2. CASE s.host = HostOf[s.queue[1].uri] /\ s.persistent
    BY <1>1, <1>2, <2>2 DEF Placed
  <2>3. CASE s.host = HostOf[s.queue[1].uri] /\ ~s.persistent
    <3>1. t = [s EXCEPT !.open = FALSE]
      BY <1>2, <2>3 DEF Placed, Closed
    <3> QED
      BY <1>1, <3>1 DEF MethodType
  <2> QED
    BY <1>1, <2>1, <2>2, <2>3
<1>4. Books(t, <<>>, p, a)
  <2>1. t.sent <= Len(t.queue) /\ s.stop \subseteq t.stop
    BY <1>1, <1>3
  <2> QED
    BY <1>1, <1>3, <2>1, BooksSame
<1> QED
  BY <1>3, <1>4

\* A round of Loop begins: the connection is kept, made anew, or cannot be made.
LEMMA TopStep ==
    ASSUME IInv, Top
    PROVE  IInv'
<1>1. /\ m.pc = "top" /\ (m.queue # <<>> \/ stdin # <<>>) /\ stdin' = <<>> /\ UNCHANGED <<plan, asked>>
      /\ Books(m, stdin, plan, asked) /\ m \in MethodType /\ m.sent <= Len(m.queue) /\ stdin \in Seq(Queued)
      /\ conn \in Seq(Tokens) /\ eof \in BOOLEAN /\ AtTop(m, conn, eof)
  BY DEF Top, IInv, Stage, AtHeaders, AtData, Books, Records
<1> DEFINE h == Handle(m, stdin)
           s == [h EXCEPT !.early = FALSE]
           t == Placed(s)
           r == [t EXCEPT !.pc = "headers"]
<1>2. \/ t.open /\ m' = Fetch(r) /\ Wire
      \/ /\ ~t.open /\ NoWire
         /\ \/ ~t.err /\ m' = Connected(t)
            \/ m' = Unreached(t)
  BY DEF Top, Placed, Unreached
<1>3. Extends(m, h, stdin)
  BY <1>1, HandleExtends
<1>4. PICK b \in Nat, d \in Seq(Queued), empty \in Seq(Tokens) : b = 0 /\ d = <<>> /\ empty = <<>>
  <2>1. <<>> \in Seq(Queued) /\ <<>> \in Seq(Tokens)
    OBVIOUS
  <2> QED
    BY <2>1
<1>5. Books(h, <<>>, plan, asked)
  <2>1. m.queue \o stdin = (m.queue \o stdin) \o d
    <3>1. m.queue \o stdin \in Seq(Queued)
      BY <1>1 DEF MethodType
    <3>2. PICK x \in Seq(Queued) : x = m.queue \o stdin
      BY <3>1
    <3>3. x \o <<>> = x
      OBVIOUS
    <3> QED
      BY <1>4, <3>2, <3>3
  <2>2. Books(h, d, plan, asked)
    BY <1>1, <1>3, <2>1, BooksExtends
  <2> QED
    BY <1>4, <2>2
<1> HIDE DEF h
<1>6. /\ h \in MethodType /\ h.queue = m.queue \o stdin
      /\ h = [m EXCEPT !.queue = h.queue, !.sent = h.sent, !.out = h.out, !.choke = h.choke]
  BY <1>3 DEF Extends
<1>7. h.pc = "top" /\ h.err = m.err /\ h.open = m.open /\ h.persistent = m.persistent /\ h.host = m.host
  BY <1>1, <1>6 DEF MethodType
<1>8. /\ s \in MethodType /\ s.queue = h.queue /\ s.sent = h.sent /\ s.answers = h.answers /\ s.told = h.told
      /\ s.file = h.file /\ s.stop = h.stop /\ s.pc = h.pc /\ s.err = h.err /\ s.open = h.open
      /\ s.persistent = h.persistent /\ s.host = h.host /\ s.in = h.in /\ s.out = h.out
  BY <1>6 DEF MethodType
<1> HIDE DEF s
<1>9. Books(s, <<>>, plan, asked) /\ s.sent <= Len(s.queue) /\ h.sent <= Len(h.queue)
  <2>1. h.sent <= Len(h.queue) /\ Records(h, <<>>, plan, asked)
    BY <1>5 DEF Books, Records
  <2>2. s.sent <= Len(s.queue) /\ h.stop \subseteq s.stop
    BY <1>8, <2>1
  <2> QED
    BY <1>5, <1>8, <2>1, <2>2, BooksSame
<1>10. s.queue # <<>> /\ (m.queue # <<>> => s.queue[1] = m.queue[1])
  <2>1. PICK x \in Seq(Queued) : x = m.queue
    BY <1>1 DEF MethodType
  <2>2. x # <<>> \/ stdin # <<>> => x \o stdin # <<>>
    BY <1>1
  <2>3. x # <<>> => (x \o stdin)[1] = x[1]
    BY <1>1
  <2> QED
    BY <1>1, <1>6, <1>8, <2>1, <2>2, <2>3
<1>11. /\ Books(t, <<>>, plan, asked) /\ t.queue = s.queue /\ t.pc = s.pc /\ t.err = s.err
       /\ t.open => s.open /\ s.persistent /\ s.host = HostOf[s.queue[1].uri] /\ t = s
  BY <1>9, <1>10, PlacedIs
<1> HIDE DEF t
<1>12. CASE t.open /\ m' = Fetch(r) /\ Wire
  <2>1. m.open /\ m.persistent /\ m.host = HostOf[s.queue[1].uri] /\ t = s
    BY <1>7, <1>8, <1>11, <1>12
  <2>2. Reusable(m)
    BY <1>10, <2>1 DEF Reusable
  <2>3. Hosts(m) /\ Flow(m, conn, eof, <<>>, b, FALSE) /\ ~m.err
    BY <1>1, <1>4, <2>1, <2>2 DEF AtTop, Idle
  <2>4. Hosts(h) /\ Flow(h, conn, eof, <<>>, b, FALSE)
    BY <1>1, <1>3, <2>3, HostsExtends, FlowExtends
  <2>5. /\ r \in MethodType /\ r.queue = s.queue /\ r.sent = s.sent /\ r.answers = s.answers /\ r.told = s.told
        /\ r.file = s.file /\ r.stop = s.stop /\ r.pc = "headers" /\ r.err = s.err /\ r.open = s.open
        /\ r.host = s.host /\ r.in = s.in /\ r.out = s.out
    BY <1>8, <2>1 DEF MethodType
  <2> HIDE DEF r
  <2>6. Books(r, <<>>, plan, asked)
    <3>1. r.sent <= Len(r.queue) /\ s.stop \subseteq r.stop /\ Records(s, <<>>, plan, asked)
      BY <1>9, <2>5 DEF Books
    <3> QED
      BY <1>9, <2>5, <3>1, BooksSame
  <2>7. Hosts(r)
    BY <1>8, <2>4, <2>5 DEF Hosts
  <2>8. Flow(r, conn, eof, <<>>, b, FALSE)
    <3>1. Keeps(h, b, r, b)
      BY <1>6, <1>8, <1>9, <2>5, KeepsItself
    <3>2. r.sent <= Len(r.queue)
      BY <1>9, <2>5
    <3> QED
      BY <1>6, <1>9, <2>4, <2>5, <3>1, <3>2, FlowKeeps
  <2>9. PICK y : y = Fetch(r)
    OBVIOUS
  <2>10. Books(y, <<>>, plan, asked) /\ Stage(y, conn, eof) /\ y.open = r.open
    <3>1. ~r.err /\ r.queue # <<>>
      BY <1>7, <1>8, <1>10, <2>3, <2>5
    <3> QED
      BY <1>4, <2>5, <2>6, <2>7, <2>8, <2>9, <3>1, Asks
  <2>11. Wires(conn, eof, <<>>)
    BY <1>1, <1>12 DEF Wires, Wire
  <2>12. m' = y
    BY <1>12, <2>9
  <2> QED
    BY <1>1, <2>10, <2>11, <2>12, Settles
<1>13. CASE ~t.open /\ NoWire
         /\ \/ ~t.err /\ m' = Connected(t)
            \/ m' = Unreached(t)
  <2>1. Wires(<<>>, FALSE, <<>>)
    BY <1>1, <1>13 DEF Wires, NoWire
  <2>2. PICK y : y = m'
    OBVIOUS
  <2>3. t.queue # <<>> /\ t.pc = "top"
    BY <1>7, <1>8, <1>10, <1>11
  <2>4. Books(y, <<>>, plan, asked) /\ Stage(y, <<>>, FALSE)
    <3>1. CASE ~t.err /\ m' = Connected(t)
      <4>1. y = Connected(t)
        BY <2>2, <3>1
      <4> QED
        BY <1>11, <1>13, <2>3, <3>1, <4>1, Reopens
    <3>2. CASE m' = Unreached(t)
      <4>1. y = Unreached(t)
        BY <2>2, <3>2
      <4> QED
        BY <1>11, <1>13, <2>3, <4>1, Refuses
    <3> QED
      BY <1>13, <3>1, <3>2
  <2>5. FALSE \in BOOLEAN
    OBVIOUS
  <2> QED
    BY <1>1, <1>4, <2>1, <2>2, <2>4, <2>5, Settles
<1> QED
  BY <1>2, <1>12, <1>13

-----------------------------------------------------------------------------
(* Asking, and all steps.                                                   *)

\* What apt asks for next is not what it waits for.
LEMMA DueMore ==
    ASSUME NEW x \in Seq(Queued), NEW n \in [Item -> Nat], NEW p \in Plans, NEW a \in [Item -> Nat],
           Due(x, n, p, a), NEW i \in DOMAIN p, a[i] = n[i],
           NEW b \in [Item -> Nat], b[i] = a[i] + 1, \A j \in Item : j # i => b[j] = a[j],
           NEW q \in Queued, q.item = i, q.uri = p[i]
    PROVE  Due(Append(x, q), n, p, b)
<1>1. i \in Item /\ p[i] \in Uri
  BY PlanType
<1>2. p[i] \in Chain[p[i]]
  BY <1>1, ChainIs
<1>4. PICK l \in Nat : l = Len(x)
  OBVIOUS
<1>5. \A k \in 1..l : x[k].item \in Item
  <2>1. \A k \in 1..l : x[k] \in Queued
    BY <1>4
  <2> QED
    BY <2>1 DEF Queued
<1>6. \A k \in 1..l : x[k].item # i /\ b[x[k].item] = a[x[k].item]
  <2> SUFFICES ASSUME NEW k \in 1..l PROVE x[k].item # i
    BY <1>5
  <2>1. a[x[k].item] = n[x[k].item] + 1
    BY <1>4 DEF Due
  <2>2. n[i] \in Nat
    BY <1>1
  <2> QED
    BY <2>1, <2>2
<1>7. PICK y : y = Append(x, q)
  OBVIOUS
<1>8. Len(y) = l + 1 /\ y[l + 1] = q /\ \A k \in 1..l : y[k] = x[k]
  BY <1>4, <1>7
<1>9. \A k \in 1..(l + 1) : k \in 1..l \/ k = l + 1
  OBVIOUS
<1>10. \A k \in 1..(l + 1) : /\ y[k].item \in DOMAIN p /\ y[k].uri \in Chain[p[y[k].item]]
                             /\ b[y[k].item] = n[y[k].item] + 1
  <2> SUFFICES ASSUME NEW k \in 1..(l + 1)
               PROVE  /\ y[k].item \in DOMAIN p /\ y[k].uri \in Chain[p[y[k].item]]
                      /\ b[y[k].item] = n[y[k].item] + 1
    OBVIOUS
  <2>1. CASE k = l + 1
    BY <1>2, <1>8, <2>1
  <2>2. CASE k \in 1..l
    <3>1. y[k] = x[k] /\ b[x[k].item] = a[x[k].item] /\ k \in 1..Len(x)
      BY <1>4, <1>6, <1>8, <2>2
    <3> QED
      BY <3>1 DEF Due
  <2> QED
    BY <1>9, <2>1, <2>2
<1>11. \A j, k \in 1..(l + 1) : y[j].item = y[k].item => j = k
  <2> SUFFICES ASSUME NEW j \in 1..(l + 1), NEW k \in 1..(l + 1), y[j].item = y[k].item PROVE j = k
    OBVIOUS
  <2>1. CASE j = l + 1
    BY <1>6, <1>8, <1>9, <2>1
  <2>2. CASE k = l + 1
    BY <1>6, <1>8, <1>9, <2>2
  <2>3. CASE j \in 1..l /\ k \in 1..l
    <3>1. x[j].item = x[k].item /\ j \in 1..Len(x) /\ k \in 1..Len(x)
      BY <1>4, <1>8, <2>3
    <3> QED
      BY <3>1 DEF Due
  <2> QED
    BY <1>9, <2>1, <2>2, <2>3
<1>12. Due(y, n, p, b)
  BY <1>8, <1>10, <1>11 DEF Due
<1> QED
  BY <1>7, <1>12

\* apt asks for an item that has not been asked for, or failed for a while.
LEMMA AskStep ==
    ASSUME IInv, NEW i \in DOMAIN plan, Ask(i)
    PROVE  IInv'
<1>1. /\ Records(m, stdin, plan, asked) /\ Files(m.file, m.answers, plan) /\ m \in MethodType
      /\ stdin \in Seq(Queued) /\ plan \in Plans /\ asked \in [Item -> Nat] /\ m.sent <= Len(m.queue)
      /\ Due(m.queue \o stdin, m.answers, plan, asked) /\ Causes(m) /\ Wholes(m, asked)
  BY DEF IInv, Books, Records
<1>2. /\ asked[i] = m.answers[i] /\ asked' = [asked EXCEPT ![i] = @ + 1]
      /\ stdin' = Append(stdin, [item |-> i, uri |-> plan[i]]) /\ UNCHANGED <<m, plan, conn, eof>>
  BY DEF Ask
<1>3. PICK q : q = [item |-> i, uri |-> plan[i]]
  OBVIOUS
<1>4. PICK x \in Seq(Queued), y \in Seq(Queued) : x = m.queue /\ y = stdin
  BY <1>1 DEF MethodType
<1>5. x \o y \in Seq(Queued)
  OBVIOUS
<1>6. PICK n \in [Item -> Nat] : n = m.answers
  BY <1>1 DEF MethodType
<1>7. PICK b : b = [asked EXCEPT ![i] = @ + 1]
  OBVIOUS
<1>14. /\ q \in Queued /\ q.item = i /\ q.uri = plan[i] /\ i \in Item
       /\ b \in [Item -> Nat] /\ b[i] = asked[i] + 1 /\ \A j \in Item : j # i => b[j] = asked[j]
  BY <1>1, <1>3, <1>7, PlanType DEF Queued
<1>8. Due(Append(x \o y, q), n, plan, b)
  <2>1. Due(x \o y, n, plan, asked) /\ asked[i] = n[i]
    BY <1>1, <1>2, <1>4, <1>6
  <2>2. PICK z \in Seq(Queued) : z = x \o y
    BY <1>5
  <2>3. Due(Append(z, q), n, plan, b)
    BY <1>1, <1>14, <2>1, <2>2, DueMore
  <2> QED
    BY <2>2, <2>3
<1>9. Append(y, q) \in Seq(Queued) /\ x \o Append(y, q) = Append(x \o y, q)
  BY <1>14
<1>10. Wholes(m, b)
  <2> SUFFICES ASSUME NEW j \in Item, b[j] = m.answers[j], Claims(m.told[j])
               PROVE  \/ m.file[j] = Bytes(m.told[j].uri, 0)
                      \/ Site[m.told[j].uri].framing = "chunked" /\ b[j] > 1
    BY DEF Wholes
  <2>1. i \in Item /\ asked[i] \in Nat /\ b[i] = asked[i] + 1
    BY <1>1, <1>14
  <2>2. j # i
    BY <1>2, <2>1
  <2>3. b[j] = asked[j]
    BY <1>14, <2>2
  <2> QED
    BY <1>1, <2>3 DEF Wholes
<1>11. Records(m, Append(y, q), plan, b)
  BY <1>1, <1>4, <1>6, <1>8, <1>9, <1>10, <1>14 DEF Records
<1>12. Books(m, Append(y, q), plan, b)
  BY <1>1, <1>11 DEF Books
<1>13. stdin' = Append(y, q) /\ asked' = b
  BY <1>2, <1>3, <1>4, <1>7
<1> QED
  BY <1>2, <1>12, <1>13 DEF IInv

\* The invariant holds initially.
LEMMA InitIInv ==
    ASSUME Init
    PROVE  IInv
<1>1. <<>> \in Seq(Queued) /\ <<>> \in Seq(Asking) /\ <<>> \in Seq(Tokens) /\ 0 \in Nat /\ 1..0 = {}
  OBVIOUS
<1>2. /\ m.pc = "top" /\ m.queue = <<>> /\ m.sent = 0 /\ ~m.open /\ ~m.err /\ m.file = [i \in Item |-> <<>>]
      /\ m.answers = [i \in Item |-> 0]
      /\ m.told = [i \in Item |-> [how |-> "none", uri |-> NoUri, early |-> FALSE]]
      /\ plan \in Plans /\ stdin = <<>> /\ asked = [i \in Item |-> 0] /\ conn = <<>> /\ eof = FALSE
  BY DEF Init
<1>3. [how |-> "none", uri |-> NoUri, early |-> FALSE] \in Outcome
  BY DEF Outcome
<1>4. m \in MethodType
  <2>1. [i \in Item |-> [how |-> "none", uri |-> NoUri, early |-> FALSE]] \in [Item -> Outcome]
    BY <1>3
  <2>2. [i \in Item |-> <<>>] \in [Item -> Seq(Tokens)]
    BY <1>1
  <2>3. [i \in Item |-> {}] \in [Item -> SUBSET Uri] /\ [i \in Item |-> 0] \in [Item -> Nat]
    OBVIOUS
  <2> QED
    BY <1>1, <2>1, <2>2, <2>3 DEF Init, MethodType
<1>5. asked \in [Item -> Nat] /\ m.sent <= Len(m.queue)
  BY <1>2
<1>6. Due(m.queue \o stdin, m.answers, plan, asked)
  <2>1. m.queue \o stdin = <<>> /\ Len(<<>>) = 0
    BY <1>2
  <2> QED
    BY <1>1, <2>1 DEF Due
<1>7. \A i \in Item : m.told[i].how = "none" /\ m.file[i] = <<>>
  BY <1>2
<1>8. Causes(m) /\ Wholes(m, asked)
  BY <1>7 DEF Causes, Wholes, Claims
<1>9. Files(m.file, m.answers, plan)
  <2>1. ASSUME NEW i \in DOMAIN plan, NEW t \in Chain[plan[i]]
        PROVE  Beginning(m.file[i], t, m.answers[i] = 0)
    <3>1. i \in Item /\ plan[i] \in Uri
      BY <1>2, PlanType
    <3>2. t \in Uri
      BY <3>1, ChainIs
    <3>3. m.file[i] = <<>> /\ Len(<<>>) = 0 /\ Site[t].size \in Nat
      BY <1>7, <3>1, <3>2, SiteType DEF Answer
    <3>4. Begun(t, 0) = <<>>
      BY <1>1 DEF Begun
    <3> QED
      BY <3>3, <3>4 DEF Beginning
  <2> QED
    BY <1>7, <2>1 DEF Files
<1>10. Books(m, stdin, plan, asked)
  BY <1>1, <1>2, <1>4, <1>5, <1>6, <1>8, <1>9 DEF Books, Records
<1>11. Stage(m, conn, eof)
  BY <1>2 DEF Stage, AtTop, Reusable
<1> QED
  BY <1>1, <1>2, <1>10, <1>11 DEF IInv

\* Every step preserves it.
LEMMA NextIInv ==
    ASSUME SaneSite, IInv, [Next]_http
    PROVE  IInv'
<1>1. CASE Top
  BY <1>1, TopStep
<1>2. CASE Headers
  BY <1>2, HeadersStep
<1>3. CASE Whole
  BY <1>3, WholeStep
<1>4. CASE Chunked
  BY <1>4, ChunkedStep
<1>5. CASE \E i \in DOMAIN plan : Ask(i)
  BY <1>5, AskStep
<1>6. CASE UNCHANGED http
  BY <1>6 DEF http, IInv
<1> QED
  BY <1>1, <1>2, <1>3, <1>4, <1>5, <1>6 DEF Next, Method

\* The inductive invariant holds: the books are right, and what flows is what the queue says.
THEOREM HttpInvariance == SaneSite => (Spec => []IInv)
<1> SUFFICES ASSUME SaneSite PROVE Spec => []IInv
  OBVIOUS
<1>1. Init => IInv
  BY InitIInv
<1>2. IInv /\ [Next]_http => IInv'
  BY NextIInv
<1> QED
  BY <1>1, <1>2, PTL DEF Spec

-----------------------------------------------------------------------------
(* What follows from the invariant.                                         *)

\* The invariant implies that queue and connection are in step: the flow, at each stage, is
\* what is awaited.
LEMMA StepAll ==
    ASSUME IInv
    PROVE  InStep
<1>1. /\ m \in MethodType /\ m.sent <= Len(m.queue) /\ conn \in Seq(Tokens) /\ eof \in BOOLEAN /\ m.sent \in Nat
      /\ Stage(m, conn, eof)
  BY DEF IInv, Books, Records, MethodType
<1>2. CASE AtTop(m, conn, eof)
  BY <1>2 DEF AtTop, InStep
<1>3. CASE AtHeaders(m, conn, eof)
  <2>1. PICK b \in Nat, rest \in Seq(Tokens) : b = 0 /\ rest = <<>>
    <3>1. <<>> \in Seq(Tokens)
      OBVIOUS
    <3> QED
      BY <3>1
  <2>2. PICK hung \in BOOLEAN : hung = FALSE
    OBVIOUS
  <2>3. Flow(m, conn, eof, rest, b, hung) /\ m.pc = "headers"
    BY <1>3, <2>1, <2>2 DEF AtHeaders, Idle
  <2>4. Heads(rest) = <<>> /\ b <= m.sent
    BY <1>1, <2>1, HeadsNone
  <2>5. LET due == Uris(SubSeq(m.queue, b + 1, m.sent)) IN
        IF m.open /\ ~eof THEN Heads(m.in \o conn) \o Uris(m.out) = due
        ELSE IsPrefix(Heads(m.in \o conn), due)
    BY <1>1, <2>3, <2>4, FlowInStep
  <2>6. Awaited = Uris(SubSeq(m.queue, b + 1, m.sent))
    <3>1. b + 1 = 1
      BY <2>1
    <3> QED
      BY <2>3, <3>1 DEF Awaited
  <2> QED
    BY <2>5, <2>6 DEF InStep, UnderWay
<1>4. ASSUME NEW j \in Nat, AtData(m, conn, eof, j)
      PROVE  InStep
  <2>1. m.pc = "data" /\ Reads(m, j) /\ Flow(m, conn, eof, Left(m.reply, m.phase, j), Base(m), HangsUp(m.reply))
    BY <1>4 DEF AtData, Reading, Rest
  <2>2. PICK rest \in Seq(Tokens) : rest = Left(m.reply, m.phase, j) /\ Heads(rest) = <<>>
    <3>1. m.reply \in Uri /\ j \in 0..Site[m.reply].size
      BY <2>1 DEF Reads
    <3>2. PICK u \in Uri, ph \in {"stream", "size", "block", "newline", "trailer"} : u = m.reply /\ ph = m.phase
      BY <1>1, <3>1 DEF MethodType
    <3>3. Left(u, ph, j) \in Seq(Tokens) /\ Heads(Left(u, ph, j)) = <<>>
      BY <3>1, <3>2, LeftType
    <3> QED
      BY <3>2, <3>3
  <2>3. PICK b \in Nat : b = Base(m) /\ b <= m.sent
    BY <1>1, <2>1 DEF Base, Reads
  <2>4. PICK hung \in BOOLEAN : hung = HangsUp(m.reply)
    <3>1. HangsUp(m.reply) \in BOOLEAN
      BY <1>1, <2>1, SiteType DEF HangsUp, Reads, Answer
    <3> QED
      BY <3>1
  <2>5. LET due == Uris(SubSeq(m.queue, b + 1, m.sent)) IN
        IF m.open /\ ~eof THEN Heads(m.in \o conn) \o Uris(m.out) = due
        ELSE IsPrefix(Heads(m.in \o conn), due)
    BY <1>1, <2>1, <2>2, <2>3, <2>4, FlowInStep
  <2>6. Awaited = Uris(SubSeq(m.queue, b + 1, m.sent))
    <3>1. b + 1 = IF m.mode # "error" THEN 2 ELSE 1
      BY <2>3 DEF Base
    <3> QED
      BY <2>1, <3>1 DEF Awaited
  <2> QED
    BY <2>5, <2>6 DEF InStep, UnderWay
<1> QED
  BY <1>1, <1>2, <1>3, <1>4 DEF Stage

\* It implies that a file is a beginning of the item's own.
LEMMA OwnAll ==
    ASSUME IInv
    PROVE  OwnBytes
<1>1. plan \in Plans /\ m \in MethodType /\ Files(m.file, m.answers, plan)
  BY DEF IInv, Books, Records
<1> SUFFICES ASSUME NEW i \in DOMAIN plan, \A u \in Chain[plan[i]] : Site[u].framing # "chunked"
             PROVE  \E u \in Chain[plan[i]] : IsPrefix(m.file[i], Bytes(u, 0))
  BY DEF OwnBytes
<1>2. i \in Item /\ plan[i] \in Uri /\ plan[i] \in Chain[plan[i]] /\ Chain[plan[i]] \subseteq Uri
  BY <1>1, PlanType, ChainIs
<1>3. PICK f \in Seq(Tokens) : f = m.file[i]
  BY <1>1, <1>2 DEF MethodType
<1>4. \A u \in Uri : Bytes(u, 0) \in Seq(Tokens) /\ Len(Bytes(u, 0)) = Site[u].size /\ Site[u].size \in Nat
                     /\ \A k \in 1..Site[u].size : Bytes(u, 0)[k] = Token("byte", u, k)
  <2> SUFFICES ASSUME NEW u \in Uri
               PROVE  /\ Bytes(u, 0) \in Seq(Tokens) /\ Len(Bytes(u, 0)) = Site[u].size /\ Site[u].size \in Nat
                      /\ \A k \in 1..Site[u].size : Bytes(u, 0)[k] = Token("byte", u, k)
    OBVIOUS
  <2>1. PICK z \in Nat : z = Site[u].size
    BY SiteType DEF Answer
  <2>0. PICK s \in 0..z : s = 0
    <3>1. 0 \in 0..z
      BY <2>1
    <3> QED
      BY <3>1
  <2>2. /\ Bytes(u, s) \in Seq(Tokens) /\ Len(Bytes(u, s)) = z - s
        /\ \A k \in 1..(z - s) : Bytes(u, s)[k] = Token("byte", u, s + k)
    BY <2>0, <2>1, BytesType
  <2>3. z - s = z /\ \A k \in 1..z : s + k = k
    BY <2>0, <2>1
  <2> QED
    BY <2>0, <2>1, <2>2, <2>3
<1>5. CASE f = <<>>
  <2>1. PICK x \in Seq(Tokens) : x = Bytes(plan[i], 0)
    BY <1>2, <1>4
  <2>2. IsPrefix(<<>>, x)
    BY DEF IsPrefix
  <2> QED
    BY <1>2, <1>3, <1>5, <2>1, <2>2
<1>6. CASE f # <<>>
  <2>1. PICK t \in Chain[plan[i]] : Site[t].code = "ok"
    BY <1>1, <1>2, <1>3, <1>6 DEF Files
  <2>2. Len(f) <= Site[t].size /\ f = Begun(t, Len(f))
    BY <1>1, <1>3, <2>1 DEF Files, Beginning
  <2>3. PICK x \in Seq(Tokens), z \in Nat : x = Bytes(t, 0) /\ z = Len(x) /\ z = Site[t].size
    BY <1>2, <1>4
  <2>4. PICK l \in Nat : l = Len(f) /\ l <= z
    BY <2>2, <2>3
  <2>5. \A k \in 1..l : f[k] = x[k]
    <3>1. \A k \in 1..l : f[k] = Token("byte", t, k)
      BY <2>2, <2>4 DEF Begun
    <3>2. \A k \in 1..z : x[k] = Token("byte", t, k)
      BY <1>2, <1>4, <2>3
    <3> QED
      BY <2>4, <3>1, <3>2
  <2>6. IsPrefix(f, x)
    <3>1. SubSeq(f, 1, l) = SubSeq(x, 1, l)
      BY <2>3, <2>4, <2>5
    <3> QED
      BY <2>3, <2>4, <2>5, <3>1 DEF IsPrefix
  <2> QED
    BY <1>3, <2>3, <2>6
<1> QED
  BY <1>5, <1>6

\* The method, its messages and what is on the wire always have their types.
THEOREM HttpTypes == SaneSite => (Spec => [](m \in MethodType /\ stdin \in Seq(Queued) /\ conn \in Seq(Tokens)))
<1>1. IInv => m \in MethodType /\ stdin \in Seq(Queued) /\ conn \in Seq(Tokens)
  BY DEF IInv, Books, Records
<1> QED
  BY <1>1, HttpInvariance, PTL

\* Replies carry no name, and yet, whatever is redirected, fails, is resumed, cut short or added to the
\* queue: what is under way on a connection is, in order, what the queue says has been sent (http.cc
\* matches a reply with the head of the queue).
THEOREM StaysInStep == SaneSite => (Spec => []InStep)
  BY HttpInvariance, StepAll, PTL

\* What is on disk for an item is always a beginning of its own file, never bytes of another's or of
\* an error page: CircleBuf::Write stops at the limit, and StartPos is where the file ends.
THEOREM KeepsOwnBytes == SaneSite => (Spec => []OwnBytes)
  BY HttpInvariance, OwnAll, PTL

\* A file reported done is whole, if the connection outlived its headers: ServerDie makes an error of
\* a body cut short, for every site, pipeline depth and order of events.
THEOREM ReportsDone == SaneSite => (Spec => []DoneIsWhole)
<1>1. IInv => DoneIsWhole
  BY DEF IInv, Books, Records, Wholes, Claims, DoneIsWhole, ReportedDone, IsWhole
<1> QED
  BY <1>1, HttpInvariance, PTL

\* An item fails for good only if its own URI is answered with an error or its redirections run in a
\* circle, never for what befell another item of the pipeline.
THEOREM ReportsFailure == SaneSite => (Spec => []FailsForCause)
<1>1. IInv => FailsForCause
  BY DEF IInv, Books, Records, Causes, FailsForCause
<1> QED
  BY <1>1, HttpInvariance, PTL
=============================================================================
