------------------------- MODULE PackageManagerProofs -------------------------
(***************************************************************************)
(* Whatever the packages, their dependencies and the plan are:             *)
(*   - after any number of walks (OrderList) the list holds every package  *)
(*     that changes, once, although each pass throws the list away and     *)
(*     collects it anew while it follows dependencies, loops and put-off   *)
(*     packages;                                                           *)
(*   - over any number of legs rpm is handed a package once, as the plan   *)
(*     found it, and success is reported for the whole plan only;          *)
(*   - a transaction that is checked passes the check;                     *)
(*   - in a transaction that is not split what is unpacked comes after     *)
(*     what it pre-depends on.                                             *)
(***************************************************************************)
EXTENDS PackageManager, DepCacheProofs, SequenceTheorems

Pending(p) == \E i \in DOMAIN calls : calls[i].pkg = p
Collected  == ToSet(out) \cup ToSet(after)

\* The variables of the walk have their types.
WalkTypes ==
    /\ flag \in [Package -> SUBSET Flags]
    /\ list \in Seq(Package) /\ out \in Seq(Package) /\ after \in Seq(Package)
    /\ calls \in Seq(Frame)
    /\ pass \in Passes \cup {"none"} /\ at \in Nat \ {0}

\* Between walks nothing is left over.
Idle == pass = "none" => out = <<>> /\ after = <<>> /\ calls = <<>>

\* During a pass the colours of a package say where it is, and it is in one place.
Placed ==
    /\ \A p \in Package : Has(p, "InList") <=> p \in ToSet(list)
    /\ \A p \in Package : Has(p, "Added") <=> p \in Collected
    /\ \A p \in Package : Has(p, "AddPending") <=> Pending(p)
    /\ \A p \in Package : ~(Has(p, "Added") /\ Has(p, "AddPending"))
    /\ \A p \in Package : Has(p, "Added") \/ Has(p, "AddPending") => Has(p, "InList")

Once ==
    /\ IsInjective(out) /\ IsInjective(after) /\ ToSet(out) \cap ToSet(after) = {}
    /\ \A i, j \in DOMAIN calls : calls[i].pkg = calls[j].pkg => i = j

Coloured(p) == Has(p, "Added") \/ Has(p, "AddPending")

\* What the pass has gone by is collected or about to be.
Behind == \A i \in DOMAIN list : i < at => Coloured(list[i])

Walk == WalkTypes /\ ListComplete /\ Idle /\ (pass # "none" => Placed /\ Once /\ Behind)

-----------------------------------------------------------------------------
\* What SetToSeq makes of a finite set has every element once.
LEMMA SetToSeqLists ==
    ASSUME NEW S, IsFiniteSet(S)
    PROVE  /\ SetToSeq(S) \in Seq(S) /\ IsInjective(SetToSeq(S))
           /\ ToSet(SetToSeq(S)) = S
<1> DEFINE n == Cardinality(S)
<1>1. n \in Nat /\ \E f : f \in Bijection(1..n, S)
  BY FS_CardinalityType DEF ExistsBijection
<1>2. PICK f : f \in Bijection(1..n, S)
  BY <1>1
<1>3. f \in [1..n -> S] /\ IsInjective(f)
  BY <1>2 DEF Bijection, Injection, Surjection, IsInjective
<1>4. SetToSeq(S) \in [1..n -> S] /\ IsInjective(SetToSeq(S))
  BY <1>3 DEF SetToSeq
<1>5. SetToSeq(S) \in Seq(S)
  BY <1>1, <1>4
<1>6. ToSet(SetToSeq(S)) = S
  <2>1. SetToSeq(S) \in Injection(1..n, S)
    BY <1>4 DEF Injection, IsInjective
  <2>2. IsFiniteSet(1..n) /\ Cardinality(1..n) = n
    BY <1>1, FS_Interval
  <2>3. SetToSeq(S) \in Surjection(1..n, S)
    BY <2>1, <2>2, FS_Injection, FS_SurjSameCardinalityImpliesInj
  <2> QED BY <2>3, <1>4 DEF Surjection, ToSet
<1> QED BY <1>4, <1>5, <1>6

\* Appending what is not there keeps the elements distinct.
LEMMA AppendOnce ==
    ASSUME NEW S, NEW s \in Seq(S), NEW e \in S, IsInjective(s), e \notin ToSet(s)
    PROVE  /\ Append(s, e) \in Seq(S) /\ IsInjective(Append(s, e))
           /\ ToSet(Append(s, e)) = ToSet(s) \cup {e}
<1>1. Append(s, e) \in Seq(S) /\ Len(Append(s, e)) = Len(s) + 1
      /\ Append(s, e)[Len(s) + 1] = e /\ \A i \in 1..Len(s) : Append(s, e)[i] = s[i]
  OBVIOUS
<1>2. DOMAIN s = 1..Len(s) /\ DOMAIN Append(s, e) = 1..(Len(s) + 1) /\ Len(s) \in Nat
  BY <1>1
<1>3. IsInjective(Append(s, e))
  BY <1>1, <1>2 DEF IsInjective, ToSet
<1>4. ToSet(Append(s, e)) = ToSet(s) \cup {e}
  BY <1>1, <1>2 DEF ToSet
<1> QED BY <1>1, <1>3, <1>4

\* Two lists without a common element, one after the other.
LEMMA ConcatOnce ==
    ASSUME NEW S, NEW s \in Seq(S), NEW t \in Seq(S), IsInjective(s), IsInjective(t),
           ToSet(s) \cap ToSet(t) = {}
    PROVE  /\ s \o t \in Seq(S) /\ IsInjective(s \o t)
           /\ ToSet(s \o t) = ToSet(s) \cup ToSet(t)
<1>1. s \o t \in Seq(S) /\ Len(s \o t) = Len(s) + Len(t)
      /\ \A i \in 1..(Len(s) + Len(t)) :
            (s \o t)[i] = IF i <= Len(s) THEN s[i] ELSE t[i - Len(s)]
  OBVIOUS
<1>2. Len(s) \in Nat /\ Len(t) \in Nat /\ DOMAIN s = 1..Len(s) /\ DOMAIN t = 1..Len(t)
      /\ DOMAIN (s \o t) = 1..(Len(s) + Len(t))
  BY <1>1
<1>3. \A i \in 1..Len(s), j \in 1..Len(t) : s[i] # t[j]
  BY <1>2 DEF ToSet
<1>4. IsInjective(s \o t)
  <2> SUFFICES ASSUME NEW i \in 1..(Len(s) + Len(t)), NEW j \in 1..(Len(s) + Len(t)),
                      (s \o t)[i] = (s \o t)[j]
               PROVE  i = j
    BY <1>2 DEF IsInjective
  <2>1. CASE i <= Len(s) /\ j <= Len(s)
    BY <1>1, <1>2, <2>1 DEF IsInjective
  <2>2. CASE i <= Len(s) /\ j > Len(s)
    BY <1>1, <1>2, <1>3, <2>2
  <2>3. CASE i > Len(s) /\ j <= Len(s)
    BY <1>1, <1>2, <1>3, <2>3
  <2>4. CASE i > Len(s) /\ j > Len(s)
    <3>1. i - Len(s) \in 1..Len(t) /\ j - Len(s) \in 1..Len(t)
      BY <1>2, <2>4
    <3>2. t[i - Len(s)] = t[j - Len(s)]
      BY <1>1, <1>2, <2>4
    <3>3. i - Len(s) = j - Len(s)
      BY <1>2, <3>1, <3>2 DEF IsInjective
    <3> QED BY <1>2, <3>3
  <2> QED BY <1>2, <2>1, <2>2, <2>3, <2>4
<1>5. ToSet(s \o t) = ToSet(s) \cup ToSet(t)
  <2>1. ToSet(s \o t) \subseteq ToSet(s) \cup ToSet(t)
    BY <1>1, <1>2 DEF ToSet
  <2>2. ToSet(s) \subseteq ToSet(s \o t)
    BY <1>1, <1>2 DEF ToSet
  <2>3. ASSUME NEW j \in 1..Len(t) PROVE t[j] \in ToSet(s \o t)
    <3>1. Len(s) + j \in 1..(Len(s) + Len(t)) /\ (s \o t)[Len(s) + j] = t[j]
      BY <1>1, <1>2
    <3> QED BY <3>1, <1>2 DEF ToSet
  <2> QED BY <1>2, <2>1, <2>2, <2>3 DEF ToSet
<1> QED BY <1>1, <1>4, <1>5

\* The sort leaves the same packages, and a list.
LEMMA SortedLists ==
    ASSUME NEW s \in Sorted
    PROVE  s \in Seq(Package) /\ IsInjective(s) /\ ToSet(s) = ToSet(list)
  BY DEF Sorted

-----------------------------------------------------------------------------
\* What the walk is about to consider is typed: dependencies and packages.
LEMMA SomeStage ==
    ASSUME NEW fn \in Visitors, NEW rev \in BOOLEAN, NEW deps \in SUBSET Dependency
    PROVE  Some(fn, rev, deps) \in Seq(Stage)
<1>1. [fn |-> fn, rev |-> rev, deps |-> deps] \in Stage
  BY DEF Stage
<1>2. << [fn |-> fn, rev |-> rev, deps |-> deps] >> \in Seq(Stage)
  BY <1>1
<1>3. <<>> \in Seq(Stage)
  OBVIOUS
<1> QED BY <1>2, <1>3 DEF Some

LEMMA BackwardTyped ==
    ASSUME NEW fn \in Visitors, NEW names, NEW depth
    PROVE  Backward(fn, names, depth) \in Seq(Stage)
<1>1. {d \in Dependency : Dep[d].target \in names /\ Concerns(fn, TRUE, d, depth)}
         \in SUBSET Dependency
  OBVIOUS
<1> QED BY <1>1, SomeStage DEF Backward

LEMMA ForwardTyped ==
    ASSUME NEW fn \in Visitors, NEW p, NEW depth
    PROVE  Forward(fn, p, depth) \in Seq(Stage)
<1>1. {d \in Dependency : Dep[d].parent = dc.inst[p] /\ Concerns(fn, FALSE, d, depth)}
         \in SUBSET Dependency
  OBVIOUS
<1> QED BY <1>1, SomeStage DEF Forward

LEMMA StagesTyped ==
    ASSUME NEW p \in Package, NEW prim \in Visitors, NEW depth
    PROVE  Stages(p, prim, depth) \in Seq(Stage)
<1>0. "Rem" \in Visitors /\ "Dep" \in Visitors /\ "Conf" \in Visitors
  BY DEF Visitors
<1>1. Backward3(prim, p, depth) \in Seq(Stage) /\ Backward3("Dep", p, depth) \in Seq(Stage)
  BY <1>0, BackwardTyped DEF Backward3
<1>2. Forward(prim, p, depth) \in Seq(Stage) /\ Forward("Conf", p, depth) \in Seq(Stage)
  BY <1>0, ForwardTyped
<1>3. Backward("Rem", {p}, depth) \in Seq(Stage)
      /\ Backward("Rem", Provides(Pkg[p].current), depth) \in Seq(Stage)
  BY <1>0, BackwardTyped
<1>4. <<>> \in Seq(Stage)
  OBVIOUS
<1> QED BY <1>1, <1>2, <1>3, <1>4 DEF Stages

LEMMA ToVisitTyped ==
    ASSUME NEW fn, NEW rev, NEW d \in Dependency
    PROVE  ToVisit(fn, rev, d) \subseteq Package /\ Parent(d) \in Package
<1>1. Dep[d] \in DependencyInfo /\ Dep[d].parent \in Version
  BY CacheAssumption DEF DependencyInfo
<1>2. \A v \in Version : Ver[v].pkg \in Package
  BY CacheAssumption DEF VersionInfo
<1>3. Parent(d) \in Package
  BY <1>1, <1>2 DEF Parent
<1>4. AllTargets(d) \subseteq Version
  BY <1>1 DEF AllTargets, DependencyInfo
<1>5. Providers(d, fn # "Conf") \subseteq Package
  BY <1>2, <1>4 DEF Providers
<1> QED BY <1>3, <1>5 DEF ToVisit

-----------------------------------------------------------------------------
\* fs are the calls as they were, but for what is left to do in them.
SameCalls(fs) ==
    /\ fs \in Seq(Frame) /\ Len(fs) = Len(calls)
    /\ \A i \in 1..Len(calls) : fs[i].pkg = calls[i].pkg

\* What the calls are without the innermost one.
LEMMA BelowProperties ==
    ASSUME calls \in Seq(Frame), calls # <<>>
    PROVE  /\ Below \in Seq(Frame) /\ Len(Below) = Len(calls) - 1
           /\ \A i \in 1..(Len(calls) - 1) : Below[i] = calls[i]
<1>0. Len(calls) \in Nat \ {0}
  OBVIOUS
<1>1. \A i \in 1..(Len(calls) - 1) : calls[i] \in Frame
  BY <1>0
<1>2. 1 \in Int /\ Len(calls) - 1 \in Int
  BY <1>0
<1>3. /\ SubSeq(calls, 1, Len(calls) - 1) \in Seq(Frame)
      /\ Len(SubSeq(calls, 1, Len(calls) - 1))
           = IF 1 <= Len(calls) - 1 THEN Len(calls) - 1 - 1 + 1 ELSE 0
      /\ \A i \in 1..(Len(calls) - 1 - 1 + 1) :
            SubSeq(calls, 1, Len(calls) - 1)[i] = calls[1 + i - 1]
  BY <1>1, <1>2, SubSeqProperties
<1>4. PICK n \in Nat : n = Len(calls) - 1
  BY <1>0
<1>5. n - 1 + 1 = n /\ \A i \in 1..n : 1 + i - 1 = i
  OBVIOUS
<1>6. SubSeq(calls, 1, n) \in Seq(Frame) /\ Len(SubSeq(calls, 1, n)) = n
      /\ \A i \in 1..n : SubSeq(calls, 1, n)[i] = calls[i]
  BY <1>3, <1>4, <1>5
<1> QED BY <1>4, <1>6 DEF Below

\* The innermost call may be replaced by one for the same package.
LEMMA TopReplaced ==
    ASSUME calls \in Seq(Frame), calls # <<>>, NEW f \in Frame, f.pkg = Top.pkg
    PROVE  SameCalls(Below \o <<f>>) /\ Top \in Frame /\ Len(calls) \in Nat \ {0}
<1>1. Len(calls) \in Nat \ {0} /\ Top = calls[Len(calls)]
  BY DEF Top, Last
<1>2. Below \in Seq(Frame) /\ Len(Below) = Len(calls) - 1
      /\ \A i \in 1..(Len(calls) - 1) : Below[i] = calls[i]
  BY BelowProperties
<1>3. Below \o <<f>> \in Seq(Frame) /\ Len(Below \o <<f>>) = Len(calls)
  BY <1>1, <1>2
<1>4. ASSUME NEW i \in 1..Len(calls) PROVE (Below \o <<f>>)[i].pkg = calls[i].pkg
  <2>1. CASE i = Len(calls)
    BY <1>1, <1>2, <2>1
  <2>2. CASE i # Len(calls)
    BY <1>1, <1>2, <2>2
  <2> QED BY <2>1, <2>2
<1> QED BY <1>1, <1>3, <1>4 DEF SameCalls

\* VisitNode: p is on its way afterwards if it is to be listed at all, and nothing
\* else changes colour.
LEMMA EnterKeeps ==
    ASSUME WalkTypes, Placed, Once, NEW fs, SameCalls(fs), NEW p \in Package,
           NEW prim \in Visitors, Enter(fs, p, prim), UNCHANGED <<list, out, after>>
    PROVE  /\ flag' \in [Package -> SUBSET Flags] /\ calls' \in Seq(Frame)
           /\ Placed' /\ Once'
           /\ \A q \in Package : Coloured(q) => Coloured(q)'
           /\ Has(p, "InList") => Coloured(p)'
<1>0. Len(calls) \in Nat /\ DOMAIN calls = 1..Len(calls) /\ Len(fs) = Len(calls)
      /\ DOMAIN fs = 1..Len(calls) /\ fs \in Seq(Frame)
      /\ \A i \in 1..Len(calls) : fs[i].pkg = calls[i].pkg
  BY DEF WalkTypes, SameCalls
<1>1. CASE ~Visitable(p)
  <2>1. calls' = fs /\ flag' = flag
    BY <1>1 DEF Enter
  <2>2. \A q : Pending(q)' <=> Pending(q)
    BY <1>0, <2>1 DEF Pending
  <2>3. Placed' /\ Once'
    <3>1. \A q, c : Has(q, c)' <=> Has(q, c)
      BY <2>1 DEF Has
    <3>2. Collected' = Collected /\ list' = list
      BY DEF Collected
    <3>3. Placed'
      BY <3>1, <3>2, <2>2 DEF Placed
    <3>4. Once'
      BY <1>0, <2>1 DEF Once
    <3> QED BY <3>3, <3>4
  <2>4. \A q : Coloured(q) <=> Coloured(q)'
    BY <2>1 DEF Coloured, Has
  <2>5. Has(p, "InList") => Coloured(p)
    BY <1>1 DEF Visitable, Coloured
  <2> QED BY <1>0, <2>1, <2>3, <2>4, <2>5 DEF WalkTypes
<1>2. CASE Visitable(p)
  <2> DEFINE own == IF Has(p, "Immediate") /\ prim # "Pre" THEN "PreD" ELSE prim
             f == [pkg |-> p, prim |-> own, visits |-> {}, with |-> own,
                   stages |-> Stages(p, own, Len(fs) + 1)]
  <2>1. flag' = [flag EXCEPT ![p] = @ \cup {"AddPending"}] /\ calls' = Append(fs, f)
    BY <1>2 DEF Enter
  <2>2. own \in Visitors
    BY DEF Visitors
  <2>3. f \in Frame
    BY <2>2, StagesTyped DEF Frame
  <2> HIDE DEF f, own
  <2>4. calls' \in Seq(Frame) /\ Len(calls') = Len(calls) + 1
        /\ calls'[Len(calls) + 1] = f /\ \A i \in 1..Len(calls) : calls'[i].pkg = calls[i].pkg
    BY <1>0, <2>1, <2>3
  <2>5. f.pkg = p
    BY DEF f
  <2>6. \A q \in Package : Pending(q)' <=> Pending(q) \/ q = p
    <3>1. DOMAIN calls' = 1..(Len(calls) + 1)
      BY <1>0, <2>4
    <3> QED BY <1>0, <2>4, <2>5, <3>1 DEF Pending
  <2>7. /\ \A q \in Package : \A c : q # p => (Has(q, c)' <=> Has(q, c))
        /\ \A c : Has(p, c)' <=> Has(p, c) \/ c = "AddPending"
    BY <2>1 DEF Has, WalkTypes
  <2>8. Has(p, "InList") /\ ~Has(p, "Added") /\ ~Has(p, "AddPending")
    BY <1>2 DEF Visitable
  <2>9. flag' \in [Package -> SUBSET Flags]
    BY <2>1 DEF WalkTypes, Flags, Colours
  <2>10. Placed'
    <3>1. Collected' = Collected /\ list' = list
      BY DEF Collected
    <3> QED BY <2>6, <2>7, <2>8, <3>1 DEF Placed
  <2>11. Once'
    <3>1. \A i \in 1..Len(calls) : calls[i].pkg # p
      BY <1>0, <2>8 DEF Placed, Pending
    <3>2. \A i, j \in DOMAIN calls' : calls'[i].pkg = calls'[j].pkg => i = j
      <4>1. DOMAIN calls' = 1..(Len(calls) + 1)
        BY <1>0, <2>4
      <4> QED BY <1>0, <2>4, <2>5, <3>1, <4>1 DEF Once
    <3> QED BY <3>2 DEF Once
  <2>12. (\A q \in Package : Coloured(q) => Coloured(q)') /\ Coloured(p)'
    BY <2>7 DEF Coloured
  <2> QED BY <2>4, <2>9, <2>10, <2>11, <2>12
<1> QED BY <1>1, <1>2

\* As long as no colour, list or name in the calls changes, neither does this.
LEMMA NothingMoves ==
    ASSUME WalkTypes, Placed, Once, Behind, SameCalls(calls'),
           \A q \in Package, c \in Colours : Has(q, c)' <=> Has(q, c),
           UNCHANGED <<list, out, after, at>>
    PROVE  Placed' /\ Once' /\ Behind'
<1>1. Len(calls) \in Nat /\ DOMAIN calls = 1..Len(calls) /\ DOMAIN calls' = 1..Len(calls)
      /\ \A i \in 1..Len(calls) : calls'[i].pkg = calls[i].pkg
  BY DEF WalkTypes, SameCalls
<1>2. \A q : Pending(q)' <=> Pending(q)
  BY <1>1 DEF Pending
<1>3. Collected' = Collected
  BY DEF Collected
<1>4. Placed'
  BY <1>2, <1>3 DEF Placed, Colours
<1>5. Once'
  BY <1>1 DEF Once
<1>6. Behind'
  <2>1. \A i \in DOMAIN list : list[i] \in Package
    BY DEF WalkTypes
  <2>2. \A q \in Package : Coloured(q) => Coloured(q)'
    BY DEF Coloured, Colours
  <2> QED BY <2>1, <2>2 DEF Behind
<1> QED BY <1>4, <1>5, <1>6

LEMMA ConsiderKeeps ==
    ASSUME Walk, pass # "none", Consider, UNCHANGED dc
    PROVE  Walk'
<1>0. WalkTypes /\ Placed /\ Once /\ Behind /\ ListComplete /\ calls # <<>>
      /\ Top.visits = {} /\ Top.stages # <<>>
      /\ UNCHANGED <<list, out, after, at, pass>>
  BY DEF Walk, Consider
<1> DEFINE s == Head(Top.stages)
<1>1. PICK d \in s.deps :
         /\ \E late \in IF s.fn = "Conf" THEN {FALSE} ELSE Inherits(d, s.rev) :
              flag' = IF late THEN [flag EXCEPT ![Parent(d)] = @ \cup {"After"}] ELSE flag
         /\ calls' = Below \o <<[Top EXCEPT
                !.stages = IF s.deps = {d} THEN Tail(@)
                           ELSE <<[s EXCEPT !.deps = @ \ {d}]>> \o Tail(@),
                !.visits = ToVisit(s.fn, s.rev, d),
                !.with   = IF s.fn = "Crit" /\ ~s.rev /\ Dep[d].type = "PreDepends"
                           THEN "PreD" ELSE Top.prim]>>
  BY DEF Consider
<1> DEFINE g == [Top EXCEPT
                !.stages = IF s.deps = {d} THEN Tail(@)
                           ELSE <<[s EXCEPT !.deps = @ \ {d}]>> \o Tail(@),
                !.visits = ToVisit(s.fn, s.rev, d),
                !.with   = IF s.fn = "Crit" /\ ~s.rev /\ Dep[d].type = "PreDepends"
                           THEN "PreD" ELSE Top.prim]
<1>2. Top \in Frame
  BY <1>0 DEF WalkTypes, Top, Last
<1>3. s \in Stage /\ Tail(Top.stages) \in Seq(Stage) /\ d \in Dependency
  <2>1. Top.stages \in Seq(Stage)
    BY <1>2 DEF Frame
  <2>2. s \in Stage /\ Tail(Top.stages) \in Seq(Stage)
    BY <1>0, <2>1
  <2>3. s.deps \in SUBSET Dependency
    BY <2>2 DEF Stage
  <2> QED BY <1>1, <2>2, <2>3
<1>4. g \in Frame /\ g.pkg = Top.pkg
  <2>1. <<[s EXCEPT !.deps = @ \ {d}]>> \o Tail(Top.stages) \in Seq(Stage)
    BY <1>3 DEF Stage
  <2>2. ToVisit(s.fn, s.rev, d) \in SUBSET Package
    BY <1>3, ToVisitTyped
  <2>3. "PreD" \in Visitors
    BY DEF Visitors
  <2> QED BY <1>2, <1>3, <2>1, <2>2, <2>3 DEF Frame
<1> HIDE DEF g
<1>5. calls' = Below \o <<g>>
  BY <1>1 DEF g
<1>6. SameCalls(calls') /\ calls' \in Seq(Frame)
  BY <1>0, <1>4, <1>5, TopReplaced DEF WalkTypes, SameCalls
<1>7. flag' \in [Package -> SUBSET Flags]
      /\ \A q \in Package, c \in Colours : Has(q, c)' <=> Has(q, c)
  <2>1. flag' \in {flag, [flag EXCEPT ![Parent(d)] = @ \cup {"After"}]}
    BY <1>1
  <2> QED BY <1>0, <2>1 DEF WalkTypes, Flags, Colours, Has
<1>8. Placed' /\ Once' /\ Behind'
  BY <1>0, <1>6, <1>7, NothingMoves
<1>9. WalkTypes'
  BY <1>0, <1>6, <1>7 DEF WalkTypes
<1>10. ListComplete' /\ pass' # "none"
  BY <1>0 DEF ListComplete, Changes
<1> QED BY <1>8, <1>9, <1>10 DEF Walk, Idle

LEMMA DescendKeeps ==
    ASSUME Walk, pass # "none", Descend, UNCHANGED dc
    PROVE  Walk'
<1>0. WalkTypes /\ Placed /\ Once /\ Behind /\ ListComplete /\ calls # <<>>
      /\ UNCHANGED <<list, out, after, at, pass>>
  BY DEF Walk, Descend
<1>1. PICK p \in Top.visits :
         Enter(Below \o <<[Top EXCEPT !.visits = @ \ {p}]>>, p, Top.with)
  BY DEF Descend
<1> DEFINE g == [Top EXCEPT !.visits = @ \ {p}]
<1>2. Top \in Frame
  BY <1>0 DEF WalkTypes, Top, Last
<1>3. g \in Frame /\ g.pkg = Top.pkg /\ p \in Package /\ Top.with \in Visitors
  BY <1>1, <1>2 DEF Frame
<1>4. SameCalls(Below \o <<g>>)
  BY <1>0, <1>3, TopReplaced DEF WalkTypes
<1>5. /\ flag' \in [Package -> SUBSET Flags] /\ calls' \in Seq(Frame)
      /\ Placed' /\ Once' /\ \A q \in Package : Coloured(q) => Coloured(q)'
  BY <1>0, <1>1, <1>3, <1>4, EnterKeeps
<1>6. WalkTypes'
  BY <1>0, <1>5 DEF WalkTypes
<1>7. Behind'
  <2>1. \A i \in DOMAIN list : list[i] \in Package
    BY <1>0 DEF WalkTypes
  <2> QED BY <1>0, <1>5, <2>1 DEF Behind
<1>8. ListComplete' /\ pass' # "none"
  BY <1>0 DEF ListComplete, Changes
<1> QED BY <1>5, <1>6, <1>7, <1>8 DEF Walk, Idle

LEMMA VisitNextKeeps ==
    ASSUME Walk, VisitNext, UNCHANGED dc
    PROVE  Walk'
<1>0. /\ WalkTypes /\ Placed /\ Once /\ Behind /\ ListComplete /\ calls = <<>>
      /\ at <= Len(list) /\ at' = at + 1 /\ Enter(<<>>, list[at], Primary)
      /\ UNCHANGED <<list, out, after, pass>> /\ pass # "none"
  BY DEF Walk, VisitNext
<1>1. at \in DOMAIN list /\ list[at] \in Package /\ at' \in Nat \ {0}
      /\ list[at] \in ToSet(list)
  BY <1>0 DEF WalkTypes, ToSet
<1> PICK p \in Package : p = list[at]
  BY <1>1
<1>2. SameCalls(<<>>)
  BY <1>0 DEF SameCalls
<1>3. Primary \in Visitors
  BY DEF Primary, Visitors
<1>4. /\ flag' \in [Package -> SUBSET Flags] /\ calls' \in Seq(Frame)
      /\ Placed' /\ Once' /\ \A q \in Package : Coloured(q) => Coloured(q)'
      /\ Has(p, "InList") => Coloured(p)'
  BY <1>0, <1>1, <1>2, <1>3, EnterKeeps
<1>5. Coloured(p)'
  BY <1>0, <1>1, <1>4 DEF Placed
<1>6. WalkTypes'
  BY <1>0, <1>1, <1>4 DEF WalkTypes
<1>7. Behind'
  <2>1. \A i \in DOMAIN list : list[i] \in Package /\ i \in Nat
    BY <1>0 DEF WalkTypes
  <2>2. ASSUME NEW i \in DOMAIN list, i < at + 1, NEW q \in Package, q = list[i]
        PROVE  Coloured(q)'
    <3>1. CASE i = at
      BY <1>5, <2>2, <3>1
    <3>2. CASE i < at
      BY <1>0, <1>4, <2>2, <3>2 DEF Behind
    <3> QED BY <1>0, <2>1, <2>2, <3>1, <3>2 DEF WalkTypes
  <2>3. list' = list /\ at' = at + 1
    BY <1>0
  <2> QED BY <2>1, <2>2, <2>3 DEF Behind
<1>8. ListComplete' /\ pass' # "none"
  BY <1>0 DEF ListComplete, Changes
<1> QED BY <1>4, <1>6, <1>7, <1>8 DEF Walk, Idle

\* A package that is left moves from the calls to one of the two lists.
LEMMA LeaveKeeps ==
    ASSUME Walk, pass # "none", Leave, UNCHANGED dc
    PROVE  Walk'
<1>0. WalkTypes /\ Placed /\ Once /\ Behind /\ ListComplete /\ calls # <<>>
      /\ flag' = [flag EXCEPT ![Top.pkg] = (@ \ {"AddPending"}) \cup {"Added"}]
      /\ calls' = Below /\ UNCHANGED <<list, at, pass>>
  BY DEF Walk, Leave
<1>1. Len(calls) \in Nat \ {0} /\ Top = calls[Len(calls)] /\ Top \in Frame
      /\ DOMAIN calls = 1..Len(calls)
  BY <1>0 DEF WalkTypes, Top, Last
<1> PICK p \in Package : p = Top.pkg
  BY <1>1 DEF Frame
<1>2. Has(p, "AddPending") /\ ~Has(p, "Added") /\ Has(p, "InList") /\ p \notin Collected
  <2>1. Pending(p)
    BY <1>1 DEF Pending
  <2> QED BY <1>0, <2>1 DEF Placed
<1>3. /\ \A q \in Package : \A c : q # p => (Has(q, c)' <=> Has(q, c))
      /\ \A c : Has(p, c)' <=> (Has(p, c) /\ c # "AddPending") \/ c = "Added"
      /\ flag' \in [Package -> SUBSET Flags]
  BY <1>0 DEF Has, WalkTypes, Flags, Colours
<1>4. Below \in Seq(Frame) /\ Len(Below) = Len(calls) - 1
      /\ \A i \in 1..(Len(calls) - 1) : Below[i] = calls[i]
  BY <1>0, BelowProperties DEF WalkTypes
<1>5. DOMAIN calls' = 1..(Len(calls) - 1)
      /\ \A i \in 1..(Len(calls) - 1) : calls'[i].pkg = calls[i].pkg
  BY <1>0, <1>4
<1>6. \A q \in Package : Pending(q)' <=> Pending(q) /\ q # p
  <2>1. \A i \in 1..(Len(calls) - 1) : calls[i].pkg # p
    BY <1>0, <1>1 DEF Once
  <2> QED BY <1>1, <1>5, <2>1 DEF Pending
<1>7. /\ out' \in Seq(Package) /\ after' \in Seq(Package)
      /\ IsInjective(out') /\ IsInjective(after') /\ ToSet(out') \cap ToSet(after') = {}
      /\ Collected' = Collected \cup {p}
  <2>0. out \in Seq(Package) /\ after \in Seq(Package) /\ IsInjective(out)
        /\ IsInjective(after) /\ ToSet(out) \cap ToSet(after) = {}
        /\ p \notin ToSet(out) /\ p \notin ToSet(after)
    BY <1>0, <1>2 DEF WalkTypes, Once, Collected
  <2>1. CASE after' = Append(after, p) /\ out' = out
    <3>1. after' \in Seq(Package) /\ IsInjective(after') /\ ToSet(after') = ToSet(after) \cup {p}
      BY <2>0, <2>1, AppendOnce
    <3> QED BY <2>0, <2>1, <3>1 DEF Collected
  <2>2. CASE out' = Append(out, p) /\ after' = after
    <3>1. out' \in Seq(Package) /\ IsInjective(out') /\ ToSet(out') = ToSet(out) \cup {p}
      BY <2>0, <2>2, AppendOnce
    <3> QED BY <2>0, <2>2, <3>1 DEF Collected
  <2> QED BY <2>1, <2>2 DEF Leave
<1>8. WalkTypes'
  BY <1>0, <1>3, <1>4, <1>7 DEF WalkTypes
<1>9. Placed'
  <2>1. list' = list
    BY <1>0
  <2> QED BY <1>0, <1>2, <1>3, <1>6, <1>7, <2>1 DEF Placed
<1>10. Once'
  <2>1. \A i, j \in 1..(Len(calls) - 1) : calls[i].pkg = calls[j].pkg => i = j
    BY <1>0, <1>1 DEF Once
  <2>2. \A i, j \in DOMAIN calls' : calls'[i].pkg = calls'[j].pkg => i = j
    BY <1>5, <2>1
  <2> QED BY <1>7, <2>2 DEF Once
<1>11. Behind'
  <2>1. \A i \in DOMAIN list : list[i] \in Package
    BY <1>0 DEF WalkTypes
  <2>2. \A q \in Package : Coloured(q) => Coloured(q)'
    BY <1>3 DEF Coloured
  <2> QED BY <1>0, <2>1, <2>2 DEF Behind
<1>12. ListComplete' /\ pass' # "none"
  BY <1>0 DEF ListComplete, Changes
<1> QED BY <1>8, <1>9, <1>10, <1>11, <1>12 DEF Walk, Idle

\* DoRun starts with nothing collected and everything in the list marked so.
LEMMA BegunPlaced ==
    ASSUME NEW flags, flags \in [Package -> SUBSET Flags], list' \in Seq(Package),
           flag' = Begun(flags, ToSet(list')), out' = <<>>, after' = <<>>, calls' = <<>>,
           at' = 1
    PROVE  flag' \in [Package -> SUBSET Flags] /\ Placed' /\ Once' /\ Behind'
<1>1. flag' = [p \in Package |-> (flags[p] \ Colours)
                                 \cup (IF p \in ToSet(list') THEN {"InList"} ELSE {})]
  BY DEF Begun
<1>2. flag' \in [Package -> SUBSET Flags]
  BY <1>1 DEF Flags, Colours
<1>3. \A q \in Package : /\ Has(q, "InList")' <=> q \in ToSet(list')
                         /\ ~Has(q, "Added")' /\ ~Has(q, "AddPending")'
  BY <1>1 DEF Has, Colours
<1>4. Collected' = {} /\ \A q : ~Pending(q)'
  BY DEF Collected, Pending, ToSet
<1>5. Placed'
  BY <1>3, <1>4 DEF Placed
<1>6. Once'
  BY DEF Once, IsInjective, ToSet
<1>7. Behind'
  <2>1. \A i \in DOMAIN list' : i \in Nat \ {0}
    OBVIOUS
  <2> QED BY <2>1 DEF Behind
<1> QED BY <1>2, <1>5, <1>6, <1>7

\* Everything listed has been visited, and has come to one of the two lists.
LEMMA EndPassKeeps ==
    ASSUME Walk, EndPass, UNCHANGED dc
    PROVE  Walk'
<1>0. WalkTypes /\ Placed /\ Once /\ Behind /\ ListComplete /\ calls = <<>>
      /\ at > Len(list) /\ list' = out \o after /\ out' = <<>> /\ after' = <<>>
      /\ at' = 1 /\ calls' = calls /\ pass # "none"
  BY DEF Walk, EndPass
<1>1. list' \in Seq(Package) /\ IsInjective(list') /\ ToSet(list') = Collected
  BY <1>0, ConcatOnce DEF WalkTypes, Once, Collected
<1>2. \A q \in Package : ~Pending(q)
  BY <1>0 DEF Pending
<1>3. \A q \in Package : q \in ToSet(list) <=> q \in Collected
  <2>1. ASSUME NEW q \in Package, q \in ToSet(list) PROVE q \in Collected
    <3>1. PICK i \in DOMAIN list : list[i] = q
      BY <2>1 DEF ToSet
    <3>2. i < at
      BY <1>0, <3>1 DEF WalkTypes
    <3>3. Coloured(q)
      BY <1>0, <3>1, <3>2 DEF Behind
    <3> QED BY <1>0, <1>2, <3>3 DEF Coloured, Placed
  <2>2. ASSUME NEW q \in Package, q \in Collected PROVE q \in ToSet(list)
    BY <1>0, <2>2 DEF Placed
  <2> QED BY <2>1, <2>2
<1>4. ToSet(list) \subseteq Package /\ Collected \subseteq Package
  BY <1>0 DEF WalkTypes, ToSet, Collected
<1>5. ListComplete'
  <2>1. Changes(dc)' = Changes(dc)
    BY DEF Changes
  <2>2. ToSet(list') = ToSet(list)
    BY <1>1, <1>3, <1>4
  <2> QED BY <1>0, <1>1, <2>1, <2>2 DEF ListComplete
<1>6. pass' \in Passes \cup {"none"}
  BY <1>0 DEF EndPass, WalkTypes, Passes
<1>7. CASE pass = "D"
  <2>1. flag' = flag /\ pass' = "none"
    BY <1>7 DEF EndPass
  <2>2. WalkTypes'
    BY <1>0, <1>1, <2>1 DEF WalkTypes
  <2> QED BY <1>0, <1>5, <2>1, <2>2 DEF Walk, Idle
<1>8. CASE pass # "D"
  <2>1. flag' = Begun(flag, ToSet(list')) /\ pass' # "none"
    BY <1>0, <1>8 DEF EndPass, WalkTypes, Passes
  <2>2. flag' \in [Package -> SUBSET Flags] /\ Placed' /\ Once' /\ Behind'
    BY <1>0, <1>1, <2>1, BegunPlaced DEF WalkTypes
  <2>3. WalkTypes'
    BY <1>0, <1>1, <1>6, <2>2 DEF WalkTypes
  <2> QED BY <1>5, <2>1, <2>2, <2>3 DEF Walk, Idle
<1> QED BY <1>7, <1>8

LEMMA OrderUnpackKeeps ==
    ASSUME Walk, NEW with, OrderUnpack(with), UNCHANGED dc
    PROVE  Walk'
<1>0. WalkTypes /\ ListComplete /\ pass = "none" /\ list' \in Sorted /\ pass' = "A"
      /\ at' = 1 /\ out' = <<>> /\ after' = <<>> /\ calls' = <<>>
  BY DEF Walk, Idle, OrderUnpack
<1>1. list' \in Seq(Package) /\ IsInjective(list') /\ ToSet(list') = ToSet(list)
  BY <1>0 DEF Sorted
<1>2. PICK flags \in [Package -> SUBSET Flags] : flag' = Begun(flags, ToSet(list'))
  <2> DEFINE gone == {p \in ToSet(list) : NoFile(p) /\ IsNow(p)}
             put == [p \in Package |-> IF p \in gone THEN flag[p] \cup {"After"}
                                       ELSE flag[p] \ {"After"}]
  <2>1. put \in [Package -> SUBSET Flags] /\ flag \in [Package -> SUBSET Flags]
    BY <1>0 DEF WalkTypes, Flags
  <2>2. flag' = Begun(IF with THEN put ELSE flag, ToSet(list'))
    BY <1>1 DEF OrderUnpack
  <2> HIDE DEF put
  <2> QED BY <2>1, <2>2
<1>3. flag' \in [Package -> SUBSET Flags] /\ Placed' /\ Once' /\ Behind'
  BY <1>0, <1>1, <1>2, BegunPlaced
<1>4. WalkTypes'
  BY <1>0, <1>1, <1>3 DEF WalkTypes, Passes
<1>5. ListComplete'
  BY <1>0, <1>1 DEF ListComplete, Changes
<1> QED BY <1>0, <1>3, <1>4, <1>5 DEF Walk, Idle

-----------------------------------------------------------------------------
\* The cache starts with what changes, listed once, and no walk begun.
LEMMA BeginWalk == ASSUME Begin PROVE Walk
<1>1. IsFiniteSet(Changes(dc)) /\ Changes(dc) \subseteq Package
  BY CacheAssumption, FS_Subset DEF Changes
<1>2. list \in Seq(Changes(dc)) /\ IsInjective(list) /\ ToSet(list) = Changes(dc)
  BY <1>1, SetToSeqLists DEF Begin
<1>3. list \in Seq(Package)
  BY <1>1, <1>2
<1>4. flag \in [Package -> SUBSET Flags]
  <2>1. flag = [p \in Package |-> IF p \in AtOnce(dc) THEN {"Immediate"} ELSE {}]
    BY DEF Begin
  <2> QED BY <2>1 DEF Flags
<1>5. out = <<>> /\ after = <<>> /\ calls = <<>> /\ pass = "none" /\ at = 1
  BY DEF Begin
<1>6. WalkTypes
  BY <1>3, <1>4, <1>5 DEF WalkTypes
<1> QED BY <1>2, <1>5, <1>6 DEF Walk, ListComplete, Idle

\* Between walks only the state flags of the packages change.
LEMMA BetweenWalks ==
    ASSUME Walk, pass = "none", flag' \in [Package -> SUBSET Flags],
           UNCHANGED <<dc, list, out, after, at, pass, calls>>
    PROVE  Walk'
<1>1. WalkTypes' /\ Idle'
  BY DEF Walk, WalkTypes, Idle
<1>2. ListComplete'
  BY DEF Walk, ListComplete, Changes
<1> QED BY <1>1, <1>2 DEF Walk

LEMMA PerformTyped ==
    ASSUME Walk, Perform
    PROVE  flag' \in [Package -> SUBSET Flags] /\ pass = "none"
           /\ UNCHANGED <<dc, list, out, after, at, pass, calls>>
<1>1. pass = "none" /\ UNCHANGED <<dc, list, out, after, at, pass, calls>>
  BY DEF Perform, Assembling, vars
<1>2. flag \in [Package -> SUBSET Flags]
  BY DEF Walk, WalkTypes
<1>3. CASE Refuses(list[next])
  BY <1>1, <1>2, <1>3 DEF Perform
<1>4. CASE ~Refuses(list[next]) /\ Deletes(list[next])
  BY <1>1, <1>2, <1>4 DEF Perform, SmartRemove, Flags, States
<1>5. CASE ~Refuses(list[next]) /\ ~Deletes(list[next])
  BY <1>1, <1>2, <1>5 DEF Perform, SmartUnPack, Flags, States
<1> QED BY <1>3, <1>4, <1>5

LEMMA ConfigureTyped ==
    ASSUME Walk, ConfigureAll
    PROVE  flag' \in [Package -> SUBSET Flags] /\ pass = "none"
           /\ UNCHANGED <<dc, list, out, after, at, pass, calls>>
<1>1. flag \in [Package -> SUBSET Flags]
  BY DEF Walk, WalkTypes
<1>2. flag' = [p \in Package |-> IF p \in ToSet(list) /\ Has(p, "UnPacked")
                                THEN (flag[p] \ States) \cup {"Configured"} ELSE flag[p]]
  BY DEF ConfigureAll
<1>3. flag' \in [Package -> SUBSET Flags]
  BY <1>1, <1>2 DEF Flags, States
<1> QED BY <1>3 DEF ConfigureAll, vars

\* Steps of the package manager that leave the order alone.
Elsewhere ==
    QueueArchives \/ Fetch \/ FetchFails \/ Skip \/ Incomplete \/ Succeed \/ Fail
    \/ UNCHANGED allVars

LEMMA ElsewhereKeeps ==
    ASSUME Elsewhere
    PROVE  UNCHANGED <<dc, flag, list, out, after, at, pass, calls>>
  BY DEF Elsewhere, QueueArchives, Fetch, FetchFails, Skip, Incomplete, Succeed, Fail,
         vars, listVars, allVars

LEMMA UnchangedKeeps ==
    ASSUME Walk, UNCHANGED <<dc, flag, list, out, after, at, pass, calls>>
    PROVE  Walk'
<1>1. WalkTypes' /\ Idle'
  BY DEF Walk, WalkTypes, Idle
<1>2. ListComplete'
  BY DEF Walk, ListComplete, Changes
<1>3. ASSUME pass # "none" PROVE Placed' /\ Once' /\ Behind'
  <2>1. WalkTypes /\ Placed /\ Once /\ Behind
    BY <1>3 DEF Walk
  <2>2. SameCalls(calls') /\ \A q \in Package, c \in Colours : Has(q, c)' <=> Has(q, c)
    BY <2>1 DEF SameCalls, Has, WalkTypes
  <2> QED BY <2>1, <2>2, NothingMoves
<1> QED BY <1>1, <1>2, <1>3 DEF Walk

LEMMA OrderingKeeps == ASSUME Walk, Ordering PROVE Walk'
<1>1. pass # "none" /\ Order /\ UNCHANGED dc
  BY DEF Ordering, vars
<1> QED BY <1>1, VisitNextKeeps, ConsiderKeeps, DescendKeeps, LeaveKeeps, EndPassKeeps DEF Order

\* The list is complete, and the walk consistent, after any step.
LEMMA StepKeeps == ASSUME Walk, [Step]_allVars PROVE Walk'
<1>1. CASE Ordering
  BY <1>1, OrderingKeeps
<1>2. CASE GetArchives \/ OrderInstall
  <2>1. UNCHANGED dc /\ \E with \in BOOLEAN : OrderUnpack(with)
    BY <1>2 DEF GetArchives, OrderInstall, vars
  <2> QED BY <2>1, OrderUnpackKeeps
<1>3. CASE Perform
  BY <1>3, PerformTyped, BetweenWalks
<1>4. CASE ConfigureAll
  BY <1>4, ConfigureTyped, BetweenWalks
<1>5. CASE Elsewhere
  BY <1>5, ElsewhereKeeps, UnchangedKeeps
<1> QED BY <1>1, <1>2, <1>3, <1>4, <1>5 DEF Step, Elsewhere

\* Four passes over the dependencies lose no package and list none twice, whatever
\* loops they meet (OrderList's DoRun and VisitNode).
THEOREM OrderComplete == Run => []ListComplete
<1>1. Begin => Walk
  BY BeginWalk
<1>2. Walk /\ [Step]_allVars => Walk'
  BY StepKeeps
<1>3. Walk => ListComplete
  BY DEF Walk
<1> QED BY <1>1, <1>2, <1>3, PTL DEF Run

-----------------------------------------------------------------------------
\* What OrderInstall has passed in the list is dealt with.
Assembly ==
    /\ next \in Nat \ {0}
    /\ pc # "internal"
    /\ pc = "order" => fileList
    /\ pc = "order" /\ pass # "none" => next = 1
    /\ pc = "order" /\ pass = "none" =>
          \A k \in DOMAIN list : k < next => ~IsNow(list[k])

LEMMA BeginAssembly == ASSUME Begin PROVE Assembly
  BY DEF Begin, Assembly

\* What is listed is to change, and when nothing is missing it has its file.
LEMMA NothingRefused ==
    ASSUME NoneHalfDone, Walk, Assembly, Perform
    PROVE  ~Refuses(list[next])
<1>1. next \in DOMAIN list /\ list[next] \in Package /\ ~IsMissing(list[next]) /\ fileList
  BY DEF Perform, Assembling, Assembly, Walk, WalkTypes
<1> PICK p \in Package : p = list[next]
  BY <1>1
<1>2. p \in Changes(dc)
  BY <1>1 DEF Walk, ListComplete, ToSet
<1>3. ~(Keeps(p) /\ Pkg[p].needs = "Nothing" /\ ~dc.reinst[p])
  BY <1>2 DEF Changes, Keeps
<1>4. Deletes(p) \/ p \in files
  BY <1>1 DEF IsMissing, NoFile, NoneHalfDone
<1> QED BY <1>3, <1>4 DEF Refuses

LEMMA PerformAssembly ==
    ASSUME NoneHalfDone, Walk, Assembly, Perform
    PROVE  Assembly'
<1>1. ~Refuses(list[next])
  BY NothingRefused
<1>2. next' = next + 1 /\ pc' = pc /\ pc = "order" /\ pass = "none" /\ next <= Len(list)
      /\ UNCHANGED <<list, pass, fileList>>
  BY <1>1 DEF Perform, Assembling
<1>3. list \in Seq(Package) /\ flag \in [Package -> SUBSET Flags]
  BY DEF Walk, WalkTypes
<1> PICK p \in Package : p = list[next]
  BY <1>2, <1>3 DEF Assembly
<1>4. \/ flag' = [flag EXCEPT ![p] = (@ \ States) \cup {"Configured"}]
      \/ flag' = [flag EXCEPT ![p] = (@ \ States) \cup {"UnPacked"}]
  BY <1>1 DEF Perform, SmartRemove, SmartUnPack
<1>5. ~IsNow(p)' /\ \A q \in Package : ~IsNow(q) => ~IsNow(q)'
  BY <1>3, <1>4 DEF IsNow, States
<1>6. ASSUME NEW k \in DOMAIN list, k < next + 1, NEW q \in Package, q = list[k]
      PROVE  ~IsNow(q)'
  <2>1. CASE k = next
    BY <1>5, <1>6, <2>1
  <2>2. CASE k < next
    BY <1>2, <1>5, <1>6, <2>2 DEF Assembly
  <2> QED BY <1>3, <1>6, <2>1, <2>2 DEF Assembly
<1>7. \A k \in DOMAIN list : list[k] \in Package
  BY <1>3
<1>8. (\A k \in DOMAIN list : k < next => ~IsNow(list[k]))'
  BY <1>2, <1>6, <1>7
<1> QED BY <1>2, <1>8 DEF Assembly

LEMMA ConfigureAssembly ==
    ASSUME Walk, Assembly, ConfigureAll
    PROVE  Assembly'
<1>1. pc = "order" /\ pass = "none" /\ next > Len(list) /\ next' = next
      /\ flag' = [p \in Package |-> IF p \in ToSet(list) /\ Has(p, "UnPacked")
                                    THEN (flag[p] \ States) \cup {"Configured"} ELSE flag[p]]
      /\ pc' = IF \A p \in ToSet(list) : Has(p, "Configured")' THEN "go" ELSE "internal"
  BY DEF ConfigureAll
<1>2. list \in Seq(Package) /\ flag \in [Package -> SUBSET Flags]
  BY DEF Walk, WalkTypes
<1>3. ASSUME NEW p \in ToSet(list) PROVE Has(p, "Configured")'
  <2>1. PICK k \in DOMAIN list : list[k] = p
    BY DEF ToSet
  <2>2. k < next /\ p \in Package
    BY <1>1, <1>2, <2>1 DEF Assembly
  <2>3. ~IsNow(p)
    BY <1>1, <2>1, <2>2 DEF Assembly
  <2>4. Has(p, "UnPacked") \/ Has(p, "Configured")
    BY <2>3 DEF IsNow, States, Has
  <2> QED BY <1>1, <1>2, <2>2, <2>4 DEF Has
<1>4. pc' = "go"
  BY <1>1, <1>3
<1> QED BY <1>1, <1>4 DEF Assembly

\* While the list is being put in order OrderInstall is at its start.
LEMMA OrderingAssembly ==
    ASSUME Walk, Ordering, Assembly
    PROVE  Assembly'
<1>1. pass # "none" /\ UNCHANGED <<pc, next, fileList>>
  BY DEF Ordering, Order, VisitNext, Consider, Descend, Leave, EndPass, pmVars
<1>2. Walk'
  BY OrderingKeeps
<1>3. list' \in Seq(Package)
  BY <1>2 DEF Walk, WalkTypes
<1>4. pc = "order" => \A k \in DOMAIN list' : ~(k < next')
  BY <1>1, <1>3 DEF Assembly
<1> QED BY <1>1, <1>4 DEF Assembly

LEMMA AssemblyKept ==
    ASSUME NoneHalfDone, Walk, Assembly, [Step]_allVars
    PROVE  Assembly'
<1>1. CASE Ordering
  BY <1>1, OrderingAssembly
<1>2. CASE Perform
  BY <1>2, PerformAssembly
<1>3. CASE ConfigureAll
  BY <1>3, ConfigureAssembly
<1>4. CASE GetArchives
  BY <1>4 DEF GetArchives, Assembly
<1>5. CASE OrderInstall
  <2>1. next' = 1 /\ pc' = "order" /\ fileList' = TRUE /\ pass' = "A"
    BY <1>5 DEF OrderInstall, OrderUnpack
  <2> QED BY <2>1 DEF Assembly
<1>6. CASE Skip
  <2>1. next' = next + 1 /\ next <= Len(list) /\ ~IsNow(list[next]) /\ pass = "none"
        /\ UNCHANGED <<pc, flag, list, pass, fileList>> /\ pc = "order"
    BY <1>6 DEF Skip, Assembling, listVars
  <2>2. \A k \in DOMAIN list : k < next + 1 => ~IsNow(list[k])
    <3>1. \A k \in DOMAIN list : k \in Nat /\ (k < next + 1 => k < next \/ k = next)
      BY DEF Walk, WalkTypes, Assembly
    <3> QED BY <2>1, <3>1 DEF Assembly
  <2> QED BY <2>1, <2>2 DEF Assembly, IsNow
<1>7. CASE QueueArchives \/ Fetch \/ FetchFails \/ Incomplete \/ Succeed \/ Fail
  <2>1. next' = next /\ pc' # "internal" /\ pc' # "order"
    BY <1>7 DEF QueueArchives, Fetch, FetchFails, Incomplete, Succeed, Fail
  <2> QED BY <2>1 DEF Assembly
<1>8. CASE UNCHANGED allVars
  BY <1>8 DEF allVars, listVars, pmVars, Assembly, IsNow
<1> QED BY <1>1, <1>2, <1>3, <1>4, <1>5, <1>6, <1>7, <1>8 DEF Step

\* None of the internal errors of OrderInstall is met: what it finds in the list is to
\* change, has its file, and is configured at the end.
THEOREM NoInternalError ==
    ASSUME NoneHalfDone
    PROVE  Run => []NothingInternal
<1>1. Begin => Walk /\ Assembly
  BY BeginWalk, BeginAssembly
<1>2. Walk /\ Assembly /\ [Step]_allVars => (Walk /\ Assembly)'
  BY StepKeeps, AssemblyKept
<1>3. Walk /\ Assembly => NothingInternal
  BY DEF Assembly, NothingInternal
<1> QED BY <1>1, <1>2, <1>3, PTL DEF Run

-----------------------------------------------------------------------------
(* The legs of the plan.                                                    *)

\* What the transaction holds, and the packages in it.
OpInfo == [op: {"Install", "Remove"}, pkg: Package]
Handed == {ops[i].pkg : i \in DOMAIN ops}

\* A package that changes and whose archive is unpacked, when it is its turn.
ToUnpack(p) ==
    /\ p \in Changes(dc) /\ IsNow(p) /\ ~Deletes(p)
    /\ ~(Pkg[p].needs = "Configure" /\ Keeps(p))

\* q is to be installed anew, and d is what it obsoletes.
Replaces(q, d) ==
    /\ Dep[d].type = "Obsoletes" /\ dc.mode[q] = "Install" /\ Dep[d].parent = dc.inst[q]

\* In s rpm has removed p, for something obsoletes it that is where the plan wants it.
Lost(s, p) ==
    /\ s[p] = NoVer
    /\ \E q \in Package, d \in Dependency :
          /\ Dep[d].type = "Obsoletes" /\ Dep[d].parent = dc.inst[q] /\ s[q] = dc.inst[q]
          /\ Meets(d, Pkg[p].current)

\* The transaction: every package in it was waiting, and goes where the plan sends it.
Transaction ==
    /\ ops \in Seq(OpInfo)
    /\ \A i, j \in DOMAIN ops : ops[i].pkg = ops[j].pkg => i = j
    /\ pc = "order" /\ pass # "none" => ops = <<>>
    /\ pc \in {"order", "go"} => \A i \in DOMAIN ops :
          /\ ~IsNow(ops[i].pkg)
          /\ sys[ops[i].pkg] = Pkg[ops[i].pkg].current \/ Lost(sys, ops[i].pkg)
          /\ ops[i].op = "Remove" <=> Deletes(ops[i].pkg)

\* A system on the way to the plan: nothing has gone anywhere else, what waits is as it
\* was, unless rpm has removed it as obsolete, and what is obsolete is gone.
Underway(s) ==
    /\ s \in [Package -> MaybeVer]
    /\ \A p \in Package : s[p] \in {Pkg[p].current, dc.inst[p]} \/ Lost(s, p)
    /\ \A p \in Package : IsNow(p) => s[p] = Pkg[p].current \/ Lost(s, p)
    /\ \A q \in Package, d \in Dependency : Replaces(q, d) /\ s[q] = dc.inst[q]
          => \A p \in Package : ~Meets(d, s[p])

\* What was dealt with is done: in an earlier leg, by this transaction, or by rpm when
\* it installs what obsoletes the package.
Dealt(p) ==
    \/ sys[p] = dc.inst[p]
    \/ pc \in {"order", "go"} /\ p \in Handed
    \/ Deletes(p) /\ Obsoleted(p)

\* An item is idle exactly if an archive is missing; without one the leg is the whole.
Archives ==
    /\ pc = "fetch" => /\ wanted = {p \in Package : ToUnpack(p)} /\ pass = "none"
                       /\ wanted \cap files = {}
    /\ pc \in {"install", "order", "go"} =>
          /\ transient <=> \E p \in Package : ToUnpack(p) /\ p \notin files
          /\ ~nodeps => ~transient
    /\ pc = "go" => /\ complete => \A p \in Changes(dc) : ~IsNow(p)
                    /\ ~complete => transient
    /\ ~nodeps /\ pc # "failed" => ok

Legs ==
    /\ dc \in Plans
    /\ Transaction /\ Underway(sys) /\ Archives
    /\ ok => \A p \in Package : ~IsNow(p) => Dealt(p)
    /\ pc = "done" => sys = dc.inst

-----------------------------------------------------------------------------
(* What a plan is.                                                          *)

\* One wish after the other, as Chose goes through them.
Wish(c, p, s) ==
    CASE c[p] = "keep"    -> s
      [] c[p] = "install" -> MarkInstall0(s, p)
      [] c[p] = "reinstall" -> SetReInstall(s, p, TRUE)
      [] c[p] = "delete"  -> MarkDelete(s, p, p \in Purges)

WishStep(c, g, T) == IF T = {} THEN Fresh ELSE Wish(c, AnyOf(T), g[T \ {AnyOf(T)}])

LEMMA WishKeeps ==
    ASSUME NEW c, NEW p \in Package, c[p] \in Wishes, NEW s, Good(s), Follows(s)
    PROVE  Good(Wish(c, p, s)) /\ Follows(Wish(c, p, s))
<1>0. Shape(s) /\ (p \in Purges) \in BOOLEAN
  BY DEF Good
<1>1. CASE c[p] = "keep"
  BY <1>1 DEF Wish
<1>2. CASE c[p] = "install"
  <2>1. Wish(c, p, s) = MarkInstall0(s, p)
    BY <1>2 DEF Wish
  <2> QED BY <1>0, <2>1, InstallGood, InstallFollows
<1>3. CASE c[p] = "reinstall"
  <2>1. Wish(c, p, s) = SetReInstall(s, p, TRUE)
    BY <1>3 DEF Wish
  <2> QED BY <1>0, <2>1, ReInstallGood, ReInstallFollows
<1>4. CASE c[p] = "delete"
  <2>1. Wish(c, p, s) = MarkDelete(s, p, p \in Purges)
    BY <1>4 DEF Wish
  <2> QED BY <1>0, <2>1, DeleteGood, DeleteFollows
<1> QED BY <1>1, <1>2, <1>3, <1>4 DEF Wishes

\* There is a function that does what the fold does.
LEMMA WishesExist ==
    ASSUME NEW c
    PROVE  \E g : g = [T \in SUBSET Package |-> WishStep(c, g, T)]
<1> DEFINE Upto(g, n) == /\ g = [T \in SUBSET Package |-> g[T]]
                         /\ \A T \in SUBSET Package :
                               Cardinality(T) <= n => g[T] = WishStep(c, g, T)
           S == {n \in Nat : \E g : Upto(g, n)}
<1>1. 0 \in S
  <2> DEFINE g == [T \in SUBSET Package |-> Fresh]
  <2>1. g = [T \in SUBSET Package |-> g[T]]
    OBVIOUS
  <2>2. \A T \in SUBSET Package : Cardinality(T) <= 0 => g[T] = WishStep(c, g, T)
    BY NoneLeft DEF WishStep
  <2>3. Upto(g, 0)
    BY <2>1, <2>2
  <2> HIDE DEF Upto
  <2> QED BY <2>3
<1>2. ASSUME NEW n \in Nat, n \in S PROVE n + 1 \in S
  <2>1. PICK g : Upto(g, n)
    BY <1>2
  <2> DEFINE k == [T \in SUBSET Package |-> WishStep(c, g, T)]
  <2>2. k = [T \in SUBSET Package |-> k[T]]
        /\ \A T \in SUBSET Package : k[T] = WishStep(c, g, T)
    OBVIOUS
  <2> HIDE DEF k
  <2>3. ASSUME NEW T \in SUBSET Package, Cardinality(T) <= n + 1
        PROVE  k[T] = WishStep(c, k, T)
    <3>1. CASE T = {}
      BY <2>2, <3>1 DEF WishStep
    <3>2. CASE T # {}
      <4>1. PICK x \in T, U \in SUBSET Package :
               x = AnyOf(T) /\ U = T \ {x} /\ Cardinality(U) <= n
        BY <2>3, <3>2, OneLess
      <4>2. g[U] = WishStep(c, g, U)
        BY <2>1, <4>1
      <4>3. k[U] = g[U]
        BY <2>2, <4>2
      <4>4. k[T] = Wish(c, x, g[U])
        BY <2>2, <3>2, <4>1 DEF WishStep
      <4> QED BY <3>2, <4>1, <4>3, <4>4 DEF WishStep
    <3> QED BY <3>1, <3>2
  <2>4. Upto(k, n + 1)
    BY <2>2, <2>3
  <2> HIDE DEF Upto
  <2> QED BY <2>4
<1>3. Nat \subseteq S
  <2> HIDE DEF S
  <2> QED BY <1>1, <1>2, NatSet
<1>4. /\ Cardinality(Package) \in Nat
      /\ \A T \in SUBSET Package : Cardinality(T) <= Cardinality(Package)
  BY CacheAssumption, FS_CardinalityType, FS_Subset
<1>5. PICK g : Upto(g, Cardinality(Package))
  BY <1>3, <1>4
<1>6. \A T \in SUBSET Package : g[T] = WishStep(c, g, T)
  BY <1>4, <1>5
<1>7. g = [T \in SUBSET Package |-> g[T]]
  BY <1>5
<1>8. g = [T \in SUBSET Package |-> WishStep(c, g, T)]
  BY <1>6, <1>7
<1> QED BY <1>8

\* The state is good after any number of wishes.
LEMMA WishesKeep ==
    ASSUME NEW c, \A p \in Package : c[p] \in Wishes,
           NEW g, g = [T \in SUBSET Package |-> WishStep(c, g, T)]
    PROVE  Good(g[Package]) /\ Follows(g[Package])
<1> DEFINE Fine(T) == Good(g[T]) /\ Follows(g[T])
           S == {n \in Nat : \A T \in SUBSET Package : Cardinality(T) <= n => Fine(T)}
<1>0. \A T \in SUBSET Package : g[T] = WishStep(c, g, T)
  OBVIOUS
<1>1. 0 \in S
  <2>1. \A T \in SUBSET Package : Cardinality(T) <= 0 => T = {}
    BY NoneLeft
  <2>2. g[{}] = Fresh
    <3>1. {} \in SUBSET Package
      OBVIOUS
    <3> QED BY <1>0, <3>1 DEF WishStep
  <2>3. Fine({})
    BY <2>2, FreshGood, FreshFollows
  <2> HIDE DEF Fine
  <2> QED BY <2>1, <2>3
<1>2. ASSUME NEW n \in Nat, n \in S PROVE n + 1 \in S
  <2>1. ASSUME NEW T \in SUBSET Package, Cardinality(T) <= n + 1 PROVE Fine(T)
    <3>1. CASE T = {}
      BY <1>0, <3>1, FreshGood, FreshFollows DEF WishStep
    <3>2. CASE T # {}
      <4>1. PICK x \in T, U \in SUBSET Package :
               x = AnyOf(T) /\ U = T \ {x} /\ Cardinality(U) <= n
        BY <2>1, <3>2, OneLess
      <4>2. Fine(U)
        BY <1>2, <4>1
      <4>3. g[T] = Wish(c, x, g[U])
        BY <1>0, <3>2, <4>1 DEF WishStep
      <4>4. x \in Package /\ c[x] \in Wishes
        BY <4>1
      <4> QED BY <4>2, <4>3, <4>4, WishKeeps
    <3> QED BY <3>1, <3>2
  <2> HIDE DEF Fine
  <2> QED BY <2>1
<1>3. Nat \subseteq S
  <2> HIDE DEF S
  <2> QED BY <1>1, <1>2, NatSet
<1>4. Cardinality(Package) \in Nat /\ Package \in SUBSET Package
  BY CacheAssumption, FS_CardinalityType
<1>5. Fine(Package)
  <2>1. Cardinality(Package) \in S
    <3> HIDE DEF S
    <3> QED BY <1>3, <1>4
  <2>2. Cardinality(Package) <= Cardinality(Package)
    BY <1>4
  <2> HIDE DEF Fine
  <2> QED BY <1>4, <2>1, <2>2
<1> QED BY <1>5

\* A plan is a state of the cache in which everything cached is exact, every version
\* follows its mode, and nothing is broken.
LEMMA PlanProperties ==
    ASSUME NEW s \in Plans
    PROVE  Good(s) /\ Follows(s) /\ s.count["broken"] = 0
<1>1. PICK c \in {f \in [Package -> Wishes] : \A p \in Package : f[p] \in Asked[p]} :
         s = Chose(c) /\ s.count["broken"] = 0
  BY DEF Plans
<1>2. \A p \in Package : c[p] \in Wishes
  BY <1>1
<1> DEFINE Is(g) == g = [T \in SUBSET Package |-> WishStep(c, g, T)]
           h == CHOOSE g : Is(g)
<1>3. Chose(c) = h[Package]
  BY DEF Chose, FoldSet, MapThenFoldSet, WishStep, Wish, AnyOf
<1>4. \E g : Is(g)
  BY WishesExist
<1>5. Is(h)
  <2> HIDE DEF Is
  <2> QED BY <1>4
<1> HIDE DEF h
<1>6. Good(h[Package]) /\ Follows(h[Package])
  BY <1>2, <1>5, WishesKeep
<1> QED BY <1>1, <1>3, <1>6

-----------------------------------------------------------------------------
(* What nothing being broken means.                                         *)

\* The dependencies of what a plan installs are met.
LEMMA PlanMet ==
    ASSUME NEW s, Good(s), s.count["broken"] = 0, NEW q \in Package,
           NEW d \in Dependency, Dep[d].parent = s.inst[q], Dep[d].last, Critical(d)
    PROVE  \E e \in Dep[d].alts : "Install" \in DependencyState(s, e)
<1>1. Exact(s) /\ CountExact(s) /\ Shape(s)
  BY DEF Good
<1>2. Counted(s, "broken") = {}
  <2>1. Cardinality(Counted(s, "broken")) = 0
    BY <1>1 DEF CountExact, Counters
  <2>2. IsFiniteSet(Counted(s, "broken"))
    BY CountedFinite
  <2> QED BY <2>1, <2>2, FS_EmptySet
<1>3. "InstMin" \in s.ver[q]
  BY <1>2 DEF Counted, AddStates, Counters
<1>4. "InstMin" \in VerState(s, s.dep, q)
  BY <1>1, <1>3 DEF Exact, Fits
<1>5. VersionState(s.dep, s.inst[q], "Install")
  BY <1>4 DEF VerState
<1>6. "Install" \in Either(s.dep, d)
  BY <1>5 DEF VersionState
<1>7. Dep[d].alts \subseteq Dependency
  BY CacheAssumption DEF DependencyInfo
<1>8. \A e \in Dependency : s.dep[e] = DependencyState(s, e)
  BY <1>1 DEF Exact, Fits
<1> QED BY <1>6, <1>7, <1>8 DEF Either

\* The plan: where the packages go.
LEMMA PlanVersions ==
    ASSUME dc \in Plans
    PROVE  /\ Good(dc) /\ dc.inst \in [Package -> MaybeVer]
           /\ \A p \in Package :
                /\ dc.inst[p] = NoVer \/ (dc.inst[p] \in Version /\ Ver[dc.inst[p]].pkg = p)
                /\ Pkg[p].current = NoVer
                   \/ (Pkg[p].current \in Version /\ Ver[Pkg[p].current].pkg = p)
                /\ Pkg[p].current \in MaybeVer
                /\ dc.mode[p] \in {"Delete", "Keep", "Install"}
                /\ dc.mode[p] = "Keep" => dc.inst[p] = Pkg[p].current
                /\ dc.mode[p] = "Install" => dc.inst[p] # Pkg[p].current /\ dc.inst[p] # NoVer
                /\ dc.mode[p] = "Delete" => dc.inst[p] = NoVer
<1>1. Good(dc) /\ Follows(dc) /\ Typed(dc) /\ Own(dc)
  BY PlanProperties DEF Good, Shape
<1>2. \A p \in Package : Pkg[p].current \in MaybeVer
  BY CacheAssumption DEF PackageInfo
<1>3. ASSUME NEW p \in Package
      PROVE  Pkg[p].current = NoVer
             \/ (Pkg[p].current \in Version /\ Ver[Pkg[p].current].pkg = p)
  BY <1>2, CacheAssumption DEF MaybeVer
<1>4. dc.inst \in [Package -> MaybeVer] /\ dc.mode \in [Package -> {"Delete", "Keep", "Install"}]
  BY <1>1 DEF Typed
<1> QED BY <1>1, <1>2, <1>3, <1>4 DEF Follows, Suits, Own, OfPackage

\* Nothing that the plan leaves is unwanted by what it leaves.
LEMMA NoConflict ==
    ASSUME PlainGroups, dc \in Plans, NEW q \in Package, NEW d \in Dependency, Negative(d),
           Dep[d].parent = dc.inst[q], NEW p \in Package
    PROVE  ~Meets(d, dc.inst[p])
<1>1. Good(dc) /\ dc.count["broken"] = 0
  BY PlanProperties
<1>2. Dep[d].last /\ Critical(d) /\ Dep[d].alts = {d}
  BY CacheAssumption DEF PlainGroups, Negative, Negatives, Critical
<1>3. "Install" \in DependencyState(dc, d)
  BY <1>1, <1>2, PlanMet
<1>4. ~CheckDep(dc, d, "Install")
  BY <1>3 DEF DependencyState
<1>5. Dep[d].hits \subseteq Version
  BY CacheAssumption DEF DependencyInfo
<1>6. ASSUME Meets(d, dc.inst[p]) PROVE FALSE
  <2>1. dc.inst[p] \in Version
    BY <1>5, <1>6 DEF Meets
  <2>2. Ver[dc.inst[p]].pkg = p
    BY <2>1, CacheAssumption, PlanVersions
  <2>3. Chosen(dc, p, "Install") = dc.inst[p]
    BY DEF Chosen
  <2> QED BY <1>4, <1>6, <2>1, <2>2, <2>3 DEF CheckDep
<1> QED BY <1>6

\* What obsoletes something is the package that the plan installs.
LEMMA Obsoleter ==
    ASSUME dc \in Plans, NEW q \in Package, NEW d \in Dependency, Dep[d].parent = dc.inst[q],
           Dep[d].type = "Obsoletes"
    PROVE  Parent(d) = q /\ dc.inst[q] # NoVer /\ Negative(d) /\ ~Meets(d, NoVer)
<1>1. Dep[d].parent \in Version /\ Dep[d].hits \subseteq Version
  BY CacheAssumption DEF DependencyInfo
<1>2. dc.inst[q] # NoVer /\ Parent(d) = q
  BY <1>1, CacheAssumption, PlanVersions DEF Parent
<1>3. ~Meets(d, NoVer)
  BY <1>1, CacheAssumption DEF Meets
<1> QED BY <1>2, <1>3 DEF Negative, Negatives

-----------------------------------------------------------------------------
(* The transaction and what rpm makes of it.                                *)

\* What a transaction does: each package in it is installed or removed.
LEMMA DoneByMode ==
    ASSUME Transaction, pc = "go", NEW p
    PROVE  /\ p \in Done("Install") <=> p \in Handed /\ ~Deletes(p)
           /\ p \in Done("Remove") <=> p \in Handed /\ Deletes(p)
           /\ p \in Handed => p \in Package /\ ~IsNow(p)
<1>1. \A i \in DOMAIN ops : ops[i].op \in {"Install", "Remove"} /\ ops[i].pkg \in Package
  <2>1. ops \in Seq(OpInfo)
    BY DEF Transaction
  <2>2. \A i \in DOMAIN ops : ops[i] \in OpInfo
    BY <2>1
  <2> QED BY <2>2 DEF OpInfo
<1>2. \A i \in DOMAIN ops :
          ~IsNow(ops[i].pkg) /\ (ops[i].op = "Remove" <=> Deletes(ops[i].pkg))
  BY DEF Transaction
<1> QED BY <1>1, <1>2 DEF Done, Handed

\* rpm removes q as obsolete.
Swept(q) ==
    \E d \in Dependency : /\ Dep[d].type = "Obsoletes"
                          /\ Dep[d].parent \in {dc.inst[r] : r \in Done("Install")}
                          /\ Meets(d, sys[q])

LEMMA AppliedIs ==
    ASSUME NEW p \in Package
    PROVE  Applied[p] = IF p \in Done("Install") THEN dc.inst[p]
                        ELSE IF p \in Done("Remove") \/ Swept(p) THEN NoVer ELSE sys[p]
  BY DEF Applied, Swept

\* What is where the plan wants it stays there.
LEMMA NeverSwept ==
    ASSUME PlainGroups, dc \in Plans, Transaction, pc = "go", Underway(sys),
           NEW p \in Package, sys[p] = dc.inst[p]
    PROVE  ~Swept(p) /\ Applied[p] = dc.inst[p]
<1>1. ~Swept(p)
  <2> SUFFICES ASSUME Swept(p) PROVE FALSE
    OBVIOUS
  <2>1. PICK d \in Dependency, q \in Done("Install") :
           Dep[d].type = "Obsoletes" /\ Dep[d].parent = dc.inst[q] /\ Meets(d, sys[p])
    BY DEF Swept
  <2>2. q \in Package
    BY <2>1, DoneByMode
  <2> QED BY <2>1, <2>2, NoConflict, Obsoleter
<1>2. Deletes(p) => dc.inst[p] = NoVer
  BY PlanVersions DEF Deletes
<1> QED BY <1>1, <1>2, AppliedIs, DoneByMode

\* What is swept away is lost: it was as at the start, and the plan wants something else.
LEMMA SweptLost ==
    ASSUME PlainGroups, dc \in Plans, Transaction, pc = "go", Underway(sys),
           NEW p \in Package, Swept(p), p \notin Done("Install")
    PROVE  Lost(Applied, p)
<1>1. PICK d \in Dependency, q \in Done("Install") :
         Dep[d].type = "Obsoletes" /\ Dep[d].parent = dc.inst[q] /\ Meets(d, sys[p])
  BY DEF Swept
<1>2. q \in Package
  BY <1>1, DoneByMode
<1>3. ~Meets(d, dc.inst[p]) /\ ~Meets(d, NoVer)
  BY <1>1, <1>2, NoConflict, Obsoleter
<1>4. sys[p] = Pkg[p].current
  BY <1>1, <1>3 DEF Underway, Lost
<1>5. Applied[q] = dc.inst[q] /\ Applied[p] = NoVer
  BY <1>1, <1>2, AppliedIs
<1> QED BY <1>1, <1>2, <1>4, <1>5 DEF Lost

\* What is lost stays so, unless it is installed.
LEMMA StaysLost ==
    ASSUME PlainGroups, dc \in Plans, Transaction, pc = "go", Underway(sys),
           NEW p \in Package, Lost(sys, p), p \notin Done("Install")
    PROVE  Lost(Applied, p)
<1>1. PICK q \in Package, d \in Dependency :
         /\ Dep[d].type = "Obsoletes" /\ Dep[d].parent = dc.inst[q] /\ sys[q] = dc.inst[q]
         /\ Meets(d, Pkg[p].current)
  BY DEF Lost
<1>2. Applied[q] = dc.inst[q]
  BY <1>1, NeverSwept
<1>3. Applied[p] = NoVer
  BY AppliedIs DEF Lost
<1> QED BY <1>1, <1>2, <1>3 DEF Lost

\* What is lost is not where the plan wants it, or it is to be removed.
LEMMA LostChanges ==
    ASSUME PlainGroups, dc \in Plans, NEW s, NEW p \in Package, Lost(s, p)
    PROVE  Pkg[p].current # dc.inst[p] /\ Pkg[p].current # NoVer
<1>1. PICK q \in Package, d \in Dependency :
         Dep[d].type = "Obsoletes" /\ Dep[d].parent = dc.inst[q] /\ Meets(d, Pkg[p].current)
  BY DEF Lost
<1> QED BY <1>1, NoConflict, Obsoleter

\* After a transaction the system is on its way still.
LEMMA AppliedUnderway ==
    ASSUME PlainGroups, dc \in Plans, Transaction, pc = "go", Underway(sys)
    PROVE  Underway(Applied)
<1>0. sys \in [Package -> MaybeVer] /\ dc.inst \in [Package -> MaybeVer]
  BY PlanVersions DEF Underway
<1>1. Applied \in [Package -> MaybeVer]
  <2>1. NoVer \in MaybeVer
    BY DEF MaybeVer
  <2> QED BY <1>0, <2>1 DEF Applied
<1>2. \A p \in Package : Deletes(p) => dc.inst[p] = NoVer
  BY PlanVersions DEF Deletes
<1>3. ASSUME NEW p \in Package
      PROVE  Applied[p] \in {Pkg[p].current, dc.inst[p]} \/ Lost(Applied, p)
  <2>1. CASE p \in Done("Install") \/ p \in Done("Remove")
    BY <1>2, <2>1, AppliedIs, DoneByMode
  <2>2. CASE p \notin Done("Install") /\ (Swept(p) \/ Lost(sys, p))
    BY <2>2, SweptLost, StaysLost
  <2>3. CASE p \notin Done("Install") /\ p \notin Done("Remove") /\ ~Swept(p) /\ ~Lost(sys, p)
    BY <2>3, AppliedIs DEF Underway
  <2> QED BY <2>1, <2>2, <2>3
<1>4. ASSUME NEW p \in Package, IsNow(p)
      PROVE  Applied[p] = Pkg[p].current \/ Lost(Applied, p)
  <2>1. p \notin Done("Install") /\ p \notin Done("Remove")
    BY <1>4, DoneByMode
  <2>2. CASE Swept(p) \/ Lost(sys, p)
    BY <2>1, <2>2, SweptLost, StaysLost
  <2>3. CASE ~Swept(p) /\ ~Lost(sys, p)
    BY <1>4, <2>1, <2>3, AppliedIs DEF Underway
  <2> QED BY <2>2, <2>3
<1>5. ASSUME NEW q \in Package, NEW d \in Dependency, Replaces(q, d), Applied[q] = dc.inst[q],
             NEW p \in Package, Meets(d, Applied[p])
      PROVE  FALSE
  <2>1. Dep[d].type = "Obsoletes" /\ dc.mode[q] = "Install" /\ Dep[d].parent = dc.inst[q]
    BY <1>5 DEF Replaces
  <2>2. ~Meets(d, dc.inst[p]) /\ ~Meets(d, NoVer) /\ dc.inst[q] # NoVer
    BY <2>1, NoConflict, Obsoleter
  <2>3. p \notin Done("Install") /\ ~Swept(p) /\ Applied[p] = sys[p]
    BY <1>5, <2>2, AppliedIs
  <2>4. q \notin Done("Install")
    BY <1>5, <2>1, <2>3 DEF Swept
  <2>5. sys[q] = dc.inst[q]
    BY <1>5, <2>2, <2>4, AppliedIs
  <2> QED BY <1>5, <2>3, <2>5 DEF Underway
<1> QED BY <1>1, <1>3, <1>4, <1>5 DEF Underway

\* After a transaction what was dealt with is where it goes, but for what rpm is to
\* remove with another package.
LEMMA AppliedDone ==
    ASSUME PlainGroups, dc \in Plans, Transaction, pc = "go", Underway(sys),
           NEW p \in Package, Dealt(p)
    PROVE  Applied[p] = dc.inst[p] \/ (Deletes(p) /\ Obsoleted(p))
<1>1. Deletes(p) => dc.inst[p] = NoVer
  BY PlanVersions DEF Deletes
<1>2. CASE p \in Handed
  BY <1>1, <1>2, AppliedIs, DoneByMode
<1>3. CASE sys[p] = dc.inst[p]
  BY <1>3, NeverSwept
<1> QED BY <1>2, <1>3 DEF Dealt

\* What is not where it goes after a transaction is still to be dealt with, or what
\* replaces it is.
LEMMA Lagging ==
    ASSUME PlainGroups, dc \in Plans, Transaction, pc = "go", Underway(sys),
           \A p \in Package : ~IsNow(p) => Dealt(p),
           NEW p \in Package, Applied[p] # dc.inst[p]
    PROVE  Awaited(p)
<1>0. Underway(Applied)
  BY AppliedUnderway
<1>1. p \in Changes(dc)
  <2> SUFFICES ASSUME p \notin Changes(dc) PROVE FALSE
    OBVIOUS
  <2>1. dc.inst[p] = Pkg[p].current
    <3>1. CASE Virtual(p)
      <4>1. \A v \in Version : Ver[v].pkg # p
        BY <3>1 DEF Virtual
      <4> QED BY <4>1, PlanVersions
    <3>2. CASE ~Virtual(p)
      <4>1. dc.mode[p] = "Keep" \/ dc.inst[p] = Pkg[p].current
        BY <3>2 DEF Changes
      <4> QED BY <4>1, PlanVersions
    <3> QED BY <3>1, <3>2
  <2> QED BY <1>0, <2>1, LostChanges DEF Underway
<1>2. CASE IsNow(p)
  BY <1>1, <1>2 DEF Awaited
<1>3. CASE ~IsNow(p)
  <2>1. Deletes(p) /\ Obsoleted(p) /\ Applied[p] = Pkg[p].current /\ Pkg[p].current # NoVer
    <3>1. Deletes(p) /\ Obsoleted(p)
      BY <1>3, AppliedDone
    <3>2. dc.inst[p] = NoVer
      BY <3>1, PlanVersions DEF Deletes
    <3> QED BY <1>0, <3>1, <3>2 DEF Underway, Lost
  <2>2. PICK d \in Dependency :
           /\ Dep[d].type = "Obsoletes" /\ Dep[d].target = p
           /\ dc.mode[Parent(d)] = "Install" /\ Dep[d].parent = dc.inst[Parent(d)]
           /\ Pkg[p].current \in Dep[d].hits
    BY <2>1 DEF Obsoleted
  <2> DEFINE q == Parent(d)
  <2>3. q \in Package /\ q # p
    <3>1. Dep[d].parent \in Version
      BY CacheAssumption DEF DependencyInfo
    <3>2. q \in Package
      BY <3>1, CacheAssumption DEF Parent, VersionInfo
    <3> QED BY <2>1, <2>2, <3>2 DEF Deletes
  <2>4. Ver[Dep[d].parent].pkg = q
    BY DEF Parent
  <2>5. Meets(d, Pkg[p].current)
    <3>1. Ver[Pkg[p].current].pkg = p
      BY <2>1, PlanVersions
    <3> QED BY <2>2, <2>3, <2>4, <3>1 DEF Meets
  <2>6. Dep[d].type = "Obsoletes" /\ dc.mode[q] = "Install" /\ Dep[d].parent = dc.inst[q]
    BY <2>2
  <2> HIDE DEF q
  <2>7. q \in Changes(dc)
    <3>1. dc.inst[q] # Pkg[q].current
      BY <2>3, <2>6, PlanVersions
    <3>2. ~Virtual(q)
      <4>1. Dep[d].parent \in Version
        BY CacheAssumption DEF DependencyInfo
      <4> QED BY <2>4, <4>1 DEF Virtual
    <3> QED BY <2>3, <2>6, <3>1, <3>2 DEF Changes
  <2>8. CASE IsNow(q)
    BY <2>5, <2>6, <2>7, <2>8 DEF Awaited
  <2>9. CASE ~IsNow(q)
    <3>1. Applied[q] = dc.inst[q]
      BY <2>3, <2>6, <2>9, AppliedDone DEF Deletes
    <3>2. Replaces(q, d)
      BY <2>6 DEF Replaces
    <3> QED BY <1>0, <2>1, <2>3, <2>5, <3>1, <3>2 DEF Underway
  <2> QED BY <2>8, <2>9
<1> QED BY <1>2, <1>3

\* When everything was dealt with, the plan is reached.
LEMMA AppliedReaches ==
    ASSUME PlainGroups, dc \in Plans, Transaction, pc = "go", Underway(sys),
           \A p \in Changes(dc) : ~IsNow(p),
           \A p \in Package : ~IsNow(p) => Dealt(p)
    PROVE  Applied = dc.inst
<1>1. \A p \in Package : ~Awaited(p)
  BY DEF Awaited
<1>2. \A p \in Package : Applied[p] = dc.inst[p]
  BY <1>1, Lagging
<1>3. Applied \in [Package -> MaybeVer] /\ dc.inst \in [Package -> MaybeVer]
  BY AppliedUnderway, PlanVersions DEF Underway
<1> QED BY <1>2, <1>3

\* The plan passes the check that rpm makes.
LEMMA PlanSound ==
    ASSUME PlainGroups, NothingIgnored, dc \in Plans
    PROVE  Sound(dc.inst)
<1>1. ASSUME NEW d \in Dependency, Negative(d), dc.inst[Parent(d)] = Dep[d].parent
      PROVE  ~Present(dc.inst, d)
  <2>1. Parent(d) \in Package
    BY ToVisitTyped
  <2> QED BY <1>1, <2>1, NoConflict DEF Present
<1>2. ASSUME NEW d \in Dependency, ~Negative(d), Critical(d), Dep[d].last,
             dc.inst[Parent(d)] = Dep[d].parent
      PROVE  \E e \in Dep[d].alts : Present(dc.inst, e)
  <2>1. Parent(d) \in Package
    BY ToVisitTyped
  <2>2. Good(dc) /\ dc.count["broken"] = 0
    BY PlanProperties
  <2>3. PICK e \in Dep[d].alts : "Install" \in DependencyState(dc, e)
    BY <1>2, <2>1, <2>2, PlanMet
  <2>4. e \in Dependency /\ ~Negative(e) /\ ~Dep[e].ignored
    <3>1. e \in Dependency
      BY <2>3, CacheAssumption DEF DependencyInfo
    <3> QED BY <1>2, <2>3, <3>1 DEF PlainGroups, NothingIgnored
  <2>5. PICK v \in Version : Meets(e, v) /\ Chosen(dc, Ver[v].pkg, "Install") = v
    <3>1. CheckDep(dc, e, "Install") # Negative(e)
      BY <2>3 DEF DependencyState
    <3>2. Negative(e) = FALSE /\ CheckDep(dc, e, "Install") \in BOOLEAN
      BY <2>4 DEF Negative, CheckDep
    <3>3. CheckDep(dc, e, "Install")
      BY <3>1, <3>2
    <3> QED BY <2>4, <3>3 DEF CheckDep
  <2>6. dc.inst[Ver[v].pkg] = v /\ Ver[v].pkg \in Package
    BY <2>5, CacheAssumption DEF Chosen, VersionInfo
  <2> QED BY <2>5, <2>6 DEF Present
<1> QED BY <1>1, <1>2 DEF Sound, Conflicting, Unmet

-----------------------------------------------------------------------------
(* The steps.                                                               *)

\* The plan and what follows from it alone do not change.
LEMMA PlanStays ==
    ASSUME UNCHANGED dc, NEW p
    PROVE  /\ Changes(dc)' = Changes(dc) /\ (Deletes(p)' <=> Deletes(p))
           /\ (Keeps(p)' <=> Keeps(p)) /\ (Obsoleted(p)' <=> Obsoleted(p))
  BY DEF Changes, Deletes, Keeps, Obsoleted, Parent

LEMMA LostSame ==
    ASSUME UNCHANGED <<dc, sys>>, NEW p
    PROVE  Lost(sys, p)' <=> Lost(sys, p)
  BY DEF Lost

\* The walk and the sort leave the states of the packages alone.
SameNow == \A p \in Package : IsNow(p)' <=> IsNow(p)

LEMMA NowByStates ==
    ASSUME \A p \in Package : flag'[p] \cap States = flag[p] \cap States
    PROVE  SameNow
  BY DEF IsNow, SameNow

LEMMA BegunNow ==
    ASSUME NEW flags, NEW listed, flag' = Begun(flags, listed),
           \A p \in Package : flags[p] \cap States = flag[p] \cap States
    PROVE  SameNow
<1>1. \A p \in Package : flag'[p] \cap States = flags[p] \cap States
  <2>1. \A p \in Package : flag'[p] = (flags[p] \ Colours)
                                      \cup (IF p \in listed THEN {"InList"} ELSE {})
    BY DEF Begun
  <2>2. Colours \cap States = {} /\ "InList" \notin States
    BY DEF Colours, States
  <2> QED BY <2>1, <2>2
<1> QED BY <1>1, NowByStates

LEMMA EnterNow ==
    ASSUME flag \in [Package -> SUBSET Flags], NEW fs, NEW p, NEW prim, Enter(fs, p, prim)
    PROVE  SameNow
<1>1. flag' = flag \/ flag' = [flag EXCEPT ![p] = @ \cup {"AddPending"}]
  BY DEF Enter
<1>2. \A q \in Package : flag'[q] \cap States = flag[q] \cap States
  BY <1>1 DEF States
<1> QED BY <1>2, NowByStates

LEMMA OrderingNow ==
    ASSUME Walk, Ordering
    PROVE  SameNow
<1>0. flag \in [Package -> SUBSET Flags]
  BY DEF Walk, WalkTypes
<1>1. CASE VisitNext
  BY <1>0, <1>1, EnterNow DEF VisitNext
<1>2. CASE Consider
  <2>1. \E p : flag' = flag \/ flag' = [flag EXCEPT ![p] = @ \cup {"After"}]
    BY <1>2 DEF Consider
  <2>2. \A q \in Package : flag'[q] \cap States = flag[q] \cap States
    BY <1>0, <2>1 DEF States
  <2> QED BY <2>2, NowByStates
<1>3. CASE Descend
  BY <1>0, <1>3, EnterNow DEF Descend
<1>4. CASE Leave
  <2>1. flag' = [flag EXCEPT ![Top.pkg] = (@ \ {"AddPending"}) \cup {"Added"}]
    BY <1>4 DEF Leave
  <2>2. \A q \in Package : flag'[q] \cap States = flag[q] \cap States
    BY <1>0, <2>1 DEF States
  <2> QED BY <2>2, NowByStates
<1>5. CASE EndPass
  <2>1. flag' = flag \/ flag' = Begun(flag, ToSet(out \o after))
    BY <1>5 DEF EndPass
  <2> QED BY <2>1, BegunNow, NowByStates
<1> QED BY <1>1, <1>2, <1>3, <1>4, <1>5 DEF Ordering, Order

LEMMA UnpackNow ==
    ASSUME NEW with, OrderUnpack(with)
    PROVE  SameNow /\ pass' = "A" /\ files' = files
<1> DEFINE gone == {p \in ToSet(list) : NoFile(p) /\ IsNow(p)}
           put  == [p \in Package |-> IF p \in gone THEN flag[p] \cup {"After"}
                                                    ELSE flag[p] \ {"After"}]
<1>1. flag' = Begun(IF with THEN put ELSE flag, ToSet(list))
  BY DEF OrderUnpack
<1>2. \A p \in Package : put[p] \cap States = flag[p] \cap States
  BY DEF States
<1> HIDE DEF put
<1>3. SameNow
  BY <1>1, <1>2, BegunNow
<1> QED BY <1>3 DEF OrderUnpack

-----------------------------------------------------------------------------
\* A system that is on its way stays so, whichever package is dealt with next.
LEMMA UnderwayStays ==
    ASSUME \A p \in Package : IsNow(p)' => IsNow(p), UNCHANGED dc,
           NEW s, Underway(s), sys' = s
    PROVE  Underway(sys)'
  BY PlanStays DEF Underway, Replaces, Lost

\* Nothing that Legs is about changes.
LEMMA LegsStay ==
    ASSUME Legs, SameNow, pass = "none" => pass' = "none",
           UNCHANGED <<dc, pc, sys, ops, wanted, transient, files, complete, nodeps, ok>>
    PROVE  Legs'
<1>1. Handed' = Handed
  BY DEF Handed
<1>2. \A p \in Package : /\ ToUnpack(p)' <=> ToUnpack(p)
                         /\ Dealt(p)' <=> Dealt(p)
  BY <1>1, PlanStays DEF SameNow, ToUnpack, Dealt
<1>3. Underway(sys)'
  BY UnderwayStays DEF SameNow, Legs
<1>4. Transaction'
  <2>1. \A i \in DOMAIN ops : ops[i].pkg \in Package
    <3>1. ops \in Seq(OpInfo)
      BY DEF Legs, Transaction
    <3>2. \A i \in DOMAIN ops : ops[i] \in OpInfo
      BY <3>1
    <3> QED BY <3>2 DEF OpInfo
  <2> QED BY <2>1, PlanStays, LostSame DEF SameNow, Legs, Transaction
<1>5. Archives'
  <2>1. Changes(dc)' = Changes(dc) /\ Changes(dc) \subseteq Package
    BY PlanStays DEF Changes
  <2> QED BY <1>2, <2>1 DEF SameNow, Legs, Archives
<1> QED BY <1>2, <1>3, <1>4, <1>5 DEF Legs, SameNow

\* What is known of the transaction wherever OrderInstall is.
LEMMA TransactionStays ==
    ASSUME Transaction, UNCHANGED ops, pc' \notin {"order", "go"}
    PROVE  Transaction'
  BY DEF Transaction

LEMMA DealtElsewhere ==
    ASSUME SameNow, UNCHANGED <<dc, sys, ok>>, pc \notin {"order", "go"},
           ok => \A p \in Package : ~IsNow(p) => Dealt(p)
    PROVE  (ok => \A p \in Package : ~IsNow(p) => Dealt(p))'
  BY PlanStays DEF SameNow, Dealt

LEMMA GetArchivesLegs ==
    ASSUME Legs, GetArchives
    PROVE  Legs'
<1>0. SameNow /\ pc = "archives" /\ pc' = "queue"
      /\ UNCHANGED <<dc, sys, ops, ok, nodeps>>
  BY UnpackNow DEF GetArchives, vars
<1>1. Transaction' /\ (ok => \A p \in Package : ~IsNow(p) => Dealt(p))'
  BY <1>0, TransactionStays, DealtElsewhere DEF Legs
<1>2. Underway(sys)'
  BY <1>0, UnderwayStays DEF SameNow, Legs
<1>3. Archives'
  BY <1>0 DEF Legs, Archives
<1> QED BY <1>0, <1>1, <1>2, <1>3 DEF Legs

LEMMA OrderInstallLegs ==
    ASSUME Legs, OrderInstall
    PROVE  Legs'
<1>0. SameNow /\ pc = "install" /\ pc' = "order" /\ ops' = <<>> /\ pass' = "A"
      /\ UNCHANGED <<dc, sys, ok, nodeps, files, transient>>
  BY UnpackNow DEF OrderInstall, vars
<1>1. Transaction'
  BY <1>0 DEF Transaction
<1>2. (ok => \A p \in Package : ~IsNow(p) => Dealt(p))'
  BY <1>0, DealtElsewhere DEF Legs
<1>3. Underway(sys)'
  BY <1>0, UnderwayStays DEF SameNow, Legs
<1>4. \A p \in Package : ToUnpack(p)' <=> ToUnpack(p)
  BY <1>0, PlanStays DEF SameNow, ToUnpack
<1>5. Archives'
  BY <1>0, <1>4 DEF Legs, Archives
<1> QED BY <1>0, <1>1, <1>2, <1>3, <1>5 DEF Legs

LEMMA QueueLegs ==
    ASSUME Walk, Legs, QueueArchives
    PROVE  Legs'
<1>0. pc = "queue" /\ pass = "none" /\ pc' = "fetch" /\ pass' = "none"
      /\ files' = files \ ToSet(list)
      /\ wanted' = {p \in ToSet(list) : /\ ~Deletes(p)
                                         /\ ~(Pkg[p].needs = "Configure" /\ Keeps(p))
                                         /\ IsNow(p)}
      /\ UNCHANGED <<dc, flag, sys, ops, ok, nodeps>>
  BY DEF QueueArchives, vars
<1>1. SameNow
  BY <1>0 DEF SameNow, IsNow
<1>2. Transaction' /\ (ok => \A p \in Package : ~IsNow(p) => Dealt(p))'
  BY <1>0, <1>1, TransactionStays, DealtElsewhere DEF Legs
<1>3. Underway(sys)'
  BY <1>0, <1>1, UnderwayStays DEF SameNow, Legs
<1>4. ToSet(list) = Changes(dc) /\ Changes(dc) \subseteq Package
  BY DEF Walk, ListComplete, Changes
<1>5. wanted' = {p \in Package : ToUnpack(p)} /\ wanted' \cap files' = {}
  BY <1>0, <1>4 DEF ToUnpack
<1>6. \A p \in Package : ToUnpack(p)' <=> ToUnpack(p)
  BY <1>0, <1>1, PlanStays DEF SameNow, ToUnpack
<1>7. {p \in Package : ToUnpack(p)}' = {p \in Package : ToUnpack(p)}
  BY <1>6
<1>8. Archives'
  BY <1>0, <1>5, <1>7 DEF Legs, Archives
<1> QED BY <1>0, <1>2, <1>3, <1>8 DEF Legs

LEMMA FetchLegs ==
    ASSUME Legs, Fetch
    PROVE  Legs'
<1>0. PICK disc \in Discs :
         /\ files' = files \cup (wanted \cap disc)
         /\ transient' = (wanted \cap disc # wanted)
         /\ pc' = IF wanted \cap disc # wanted /\ CopyAll THEN "archives" ELSE "install"
         /\ nodeps' = (nodeps \/ (wanted \cap disc # wanted /\ ~CopyAll))
  BY DEF Fetch
<1>1. pc = "fetch" /\ UNCHANGED <<dc, flag, sys, ops, ok>>
  BY DEF Fetch, vars
<1>2. SameNow
  BY <1>1 DEF SameNow, IsNow
<1>3. Transaction' /\ (ok => \A p \in Package : ~IsNow(p) => Dealt(p))'
  BY <1>0, <1>1, <1>2, TransactionStays, DealtElsewhere DEF Legs
<1>4. Underway(sys)'
  BY <1>1, <1>2, UnderwayStays DEF SameNow, Legs
<1>5. wanted = {p \in Package : ToUnpack(p)} /\ wanted \cap files = {}
      /\ (~nodeps => ok)
  BY <1>1 DEF Legs, Archives
<1>6. \A p \in Package : ToUnpack(p)' <=> ToUnpack(p)
  BY <1>1, <1>2, PlanStays DEF SameNow, ToUnpack
<1>7. transient' <=> \E p \in Package : ToUnpack(p) /\ p \notin files'
  BY <1>0, <1>5
<1>8. pc' = "install" => (~nodeps' => ~transient')
  BY <1>0
<1>9. pc' \in {"archives", "install"} /\ (~nodeps' => ok')
  BY <1>0, <1>1, <1>5
<1>10. Archives'
  BY <1>6, <1>7, <1>8, <1>9 DEF Archives
<1> QED BY <1>1, <1>3, <1>4, <1>9, <1>10 DEF Legs

LEMMA FetchFailsLegs ==
    ASSUME Legs, FetchFails
    PROVE  Legs'
<1>0. pc = "fetch" /\ pc' = "failed" /\ UNCHANGED <<dc, flag, sys, ops, ok>>
  BY DEF FetchFails, vars, listVars
<1>1. SameNow
  BY <1>0 DEF SameNow, IsNow
<1>2. Transaction' /\ (ok => \A p \in Package : ~IsNow(p) => Dealt(p))'
  BY <1>0, <1>1, TransactionStays, DealtElsewhere DEF Legs
<1>3. Underway(sys)'
  BY <1>0, <1>1, UnderwayStays DEF SameNow, Legs
<1>4. Archives'
  BY <1>0 DEF Archives
<1> QED BY <1>0, <1>2, <1>3, <1>4 DEF Legs

\* The next of the list, in the terms of Legs.
LEMMA NextOfList ==
    ASSUME Walk, Assembly, Assembling
    PROVE  list[next] \in Changes(dc) /\ list[next] \in Package /\ fileList
           /\ pc = "order" /\ pass = "none"
<1>1. next \in DOMAIN list /\ list[next] \in Package /\ pc = "order" /\ pass = "none"
  BY DEF Assembling, Assembly, Walk, WalkTypes
<1>2. ToSet(list) = Changes(dc)
  BY DEF Walk, ListComplete
<1> QED BY <1>1, <1>2 DEF ToSet, Assembly

LEMMA IncompleteLegs ==
    ASSUME Walk, Assembly, Legs, Incomplete
    PROVE  Legs'
<1>0. Assembling /\ IsNow(list[next]) /\ IsMissing(list[next])
      /\ complete' = FALSE /\ pc' = "go"
      /\ UNCHANGED <<dc, flag, pass, sys, ops, ok, nodeps, files, transient>>
  BY DEF Incomplete, vars, listVars
<1>1. SameNow /\ pc = "order" /\ pass = "none"
  BY <1>0, NextOfList DEF SameNow, IsNow
<1>2. Handed' = Handed
  BY <1>0 DEF Handed
<1>3. \A p \in Package : /\ ToUnpack(p)' <=> ToUnpack(p)
                         /\ Dealt(p)' <=> Dealt(p)
  BY <1>0, <1>1, <1>2, PlanStays DEF SameNow, ToUnpack, Dealt
<1>4. Underway(sys)'
  BY <1>0, <1>1, UnderwayStays DEF SameNow, Legs
<1>5. Transaction'
  <2>1. ops \in Seq(OpInfo)
    BY DEF Legs, Transaction
  <2>2. \A i \in DOMAIN ops : ops[i] \in OpInfo
    BY <2>1
  <2>3. \A i \in DOMAIN ops : ops[i].pkg \in Package
    BY <2>2 DEF OpInfo
  <2> QED BY <1>0, <1>1, <2>3, PlanStays, LostSame DEF SameNow, Legs, Transaction
<1>6. transient
  <2>1. ToUnpack(list[next]) /\ list[next] \notin files /\ list[next] \in Package
    BY <1>0, NextOfList DEF ToUnpack, IsMissing, NoFile
  <2> QED BY <1>1, <2>1 DEF Legs, Archives
<1>7. Archives'
  BY <1>0, <1>1, <1>3, <1>6 DEF Legs, Archives
<1> QED BY <1>0, <1>1, <1>3, <1>4, <1>5, <1>7 DEF Legs, SameNow

LEMMA ConfigureLegs ==
    ASSUME Walk, Assembly, Legs, ConfigureAll
    PROVE  Legs'
<1>0. pc = "order" /\ pass = "none" /\ next > Len(list) /\ complete' = TRUE
      /\ flag' = [p \in Package |-> IF p \in ToSet(list) /\ Has(p, "UnPacked")
                                    THEN (flag[p] \ States) \cup {"Configured"} ELSE flag[p]]
      /\ pc' \in {"go", "internal"}
      /\ UNCHANGED <<dc, pass, sys, ops, ok, nodeps, files, transient>>
  BY DEF ConfigureAll, vars
<1>1. pc' = "go"
  BY <1>0, ConfigureAssembly DEF Assembly
<1>2. SameNow
  <2>1. \A p \in Package : IsNow(p)' <=> IsNow(p)
    BY <1>0 DEF IsNow, States, Has
  <2> QED BY <2>1 DEF SameNow
<1>3. Handed' = Handed
  BY <1>0 DEF Handed
<1>4. \A p \in Package : /\ ToUnpack(p)' <=> ToUnpack(p)
                         /\ Dealt(p)' <=> Dealt(p)
  BY <1>0, <1>1, <1>2, <1>3, PlanStays DEF SameNow, ToUnpack, Dealt
<1>5. Underway(sys)'
  BY <1>0, <1>2, UnderwayStays DEF SameNow, Legs
<1>6. Transaction'
  <2>1. ops \in Seq(OpInfo)
    BY DEF Legs, Transaction
  <2>2. \A i \in DOMAIN ops : ops[i] \in OpInfo
    BY <2>1
  <2>3. \A i \in DOMAIN ops : ops[i].pkg \in Package
    BY <2>2 DEF OpInfo
  <2> QED BY <1>0, <1>1, <1>2, <2>3, PlanStays, LostSame DEF SameNow, Legs, Transaction
<1>7. \A p \in Changes(dc) : ~IsNow(p)
  <2>1. list \in Seq(Package) /\ ToSet(list) = Changes(dc)
    BY DEF Walk, WalkTypes, ListComplete
  <2>2. \A k \in DOMAIN list : k < next
    BY <1>0, <2>1 DEF Assembly
  <2>3. \A k \in DOMAIN list : ~IsNow(list[k])
    BY <1>0, <2>2 DEF Assembly
  <2> QED BY <2>1, <2>3 DEF ToSet
<1>8. (\A p \in Changes(dc) : ~IsNow(p))'
  <2>1. Changes(dc)' = Changes(dc) /\ Changes(dc) \subseteq Package
    BY <1>0, PlanStays DEF Changes
  <2> QED BY <1>2, <1>7, <2>1 DEF SameNow
<1>9. Archives'
  BY <1>0, <1>1, <1>4, <1>8 DEF Legs, Archives
<1> QED BY <1>0, <1>1, <1>2, <1>4, <1>5, <1>6, <1>9 DEF Legs, SameNow

\* rpm is handed what was waiting.
LEMMA PerformLegs ==
    ASSUME RpmSystem, Walk, Assembly, Legs, Perform
    PROVE  Legs'
<1>0. Assembling /\ IsNow(list[next]) /\ ~IsMissing(list[next])
      /\ UNCHANGED <<dc, pass, sys, ok, nodeps, files, transient, complete, wanted>>
  BY DEF Perform, vars
<1>1. PICK p \in Package : p = list[next] /\ p \in Changes(dc) /\ fileList
                           /\ pc = "order" /\ pass = "none"
  BY <1>0, NextOfList
<1>2. ~Refuses(p)
  BY <1>1, NothingRefused DEF RpmSystem
<1>3. pc' = "order" /\ IsNow(p)
      /\ IF Deletes(p) THEN SmartRemove(p) ELSE SmartUnPack(p)
  BY <1>0, <1>1, <1>2 DEF Perform
<1>4. flag \in [Package -> SUBSET Flags]
  BY DEF Walk, WalkTypes
<1>5. ~IsNow(p)' /\ \A q \in Package : q # p => (IsNow(q)' <=> IsNow(q))
  <2>1. \/ flag' = [flag EXCEPT ![p] = (@ \ States) \cup {"Configured"}]
        \/ flag' = [flag EXCEPT ![p] = (@ \ States) \cup {"UnPacked"}]
    BY <1>3 DEF SmartRemove, SmartUnPack
  <2> QED BY <1>4, <2>1 DEF IsNow, States
<1>6. Underway(sys)'
  BY <1>0, <1>5, <1>3, UnderwayStays DEF Legs
<1>7. sys[p] = Pkg[p].current \/ Lost(sys, p)
  BY <1>3 DEF Legs, Underway
<1>8. \/ ops' = ops /\ Deletes(p) /\ Obsoleted(p)
      \/ /\ \E op \in {"Install", "Remove"} :
               /\ ops' = Append(ops, [op |-> op, pkg |-> p])
               /\ op = "Remove" <=> Deletes(p)
  BY <1>3 DEF SmartRemove, SmartUnPack
<1>9. /\ ops \in Seq(OpInfo)
      /\ \A i \in DOMAIN ops : ops[i].pkg \in Package
      /\ \A i, j \in DOMAIN ops : ops[i].pkg = ops[j].pkg => i = j
      /\ \A i \in DOMAIN ops :
            /\ ~IsNow(ops[i].pkg)
            /\ sys[ops[i].pkg] = Pkg[ops[i].pkg].current \/ Lost(sys, ops[i].pkg)
            /\ ops[i].op = "Remove" <=> Deletes(ops[i].pkg)
  <2>1. ops \in Seq(OpInfo)
    BY DEF Legs, Transaction
  <2>2. \A i \in DOMAIN ops : ops[i] \in OpInfo
    BY <2>1
  <2>3. \A i \in DOMAIN ops : ops[i].pkg \in Package
    BY <2>2 DEF OpInfo
  <2> QED BY <1>1, <2>1, <2>3 DEF Legs, Transaction
<1>10. Transaction' /\ Handed \subseteq Handed'
       /\ (p \in Handed' \/ (Deletes(p) /\ Obsoleted(p)))
  <2>1. CASE ops' = ops /\ Deletes(p) /\ Obsoleted(p)
    <3>1. \A i \in DOMAIN ops : ops[i].pkg # p
      BY <1>3, <1>9
    <3>2. Transaction'
      BY <1>0, <1>1, <1>3, <1>5, <1>9, <2>1, <3>1, PlanStays, LostSame DEF Transaction
    <3>3. Handed' = Handed
      BY <2>1 DEF Handed
    <3> QED BY <2>1, <3>2, <3>3
  <2>2. CASE \E op \in {"Install", "Remove"} :
                   ops' = Append(ops, [op |-> op, pkg |-> p]) /\ (op = "Remove" <=> Deletes(p))
    <3>1. PICK o \in OpInfo : ops' = Append(ops, o) /\ o.pkg = p
                              /\ (o.op = "Remove" <=> Deletes(p))
      BY <2>2 DEF OpInfo
    <3>2. /\ ops' \in Seq(OpInfo) /\ Len(ops) \in Nat /\ DOMAIN ops = 1..Len(ops)
          /\ DOMAIN ops' = 1..(Len(ops) + 1) /\ ops'[Len(ops) + 1] = o
          /\ \A i \in 1..Len(ops) : ops'[i] = ops[i]
      BY <1>9, <3>1
    <3>3. \A i \in DOMAIN ops : ops[i].pkg # p
      BY <1>3, <1>9
    <3>4. \A i, j \in DOMAIN ops' : ops'[i].pkg = ops'[j].pkg => i = j
      BY <1>9, <3>1, <3>2, <3>3
    <3>5. ASSUME NEW i \in DOMAIN ops', NEW q, q = ops'[i].pkg
          PROVE  /\ ~IsNow(q)' /\ (sys[q] = Pkg[q].current \/ Lost(sys, q))
                 /\ (ops'[i].op = "Remove" <=> Deletes(q))
      <4>1. CASE i = Len(ops) + 1
        BY <1>5, <1>7, <3>1, <3>2, <3>5, <4>1
      <4>2. CASE i \in DOMAIN ops
        <5>1. ops'[i] = ops[i] /\ q = ops[i].pkg /\ q \in Package /\ q # p
          BY <1>9, <3>2, <3>3, <3>5, <4>2
        <5> QED BY <1>5, <1>9, <4>2, <5>1
      <4> QED BY <3>2, <4>1, <4>2
    <3>6. Transaction'
      <4>1. (\A i \in DOMAIN ops :
               /\ ~IsNow(ops[i].pkg)
               /\ sys[ops[i].pkg] = Pkg[ops[i].pkg].current \/ Lost(sys, ops[i].pkg)
               /\ ops[i].op = "Remove" <=> Deletes(ops[i].pkg))'
        BY <1>0, <3>5, PlanStays, LostSame
      <4> QED BY <1>0, <1>1, <3>2, <3>4, <4>1 DEF Transaction
    <3>7. Handed' = Handed \cup {p}
      BY <3>1, <3>2 DEF Handed
    <3> QED BY <3>6, <3>7
  <2> QED BY <1>8, <2>1, <2>2
<1>11. \A q \in Package : ToUnpack(q)' <=> ToUnpack(q) /\ q # p
  BY <1>0, <1>3, <1>5, PlanStays DEF ToUnpack
<1>12. ToUnpack(p) => p \in files
  BY <1>0, <1>1 DEF ToUnpack, IsMissing, NoFile
<1>13. Archives'
  BY <1>0, <1>1, <1>3, <1>11, <1>12 DEF Legs, Archives
<1>14. (ok => \A q \in Package : ~IsNow(q) => Dealt(q))'
  <2>1. ASSUME ok, NEW q \in Package, ~IsNow(q)' PROVE Dealt(q)'
    <3>1. CASE q = p
      BY <1>0, <1>3, <1>10, <3>1, PlanStays DEF Dealt
    <3>2. CASE q # p
      <4>1. Dealt(q)
        BY <1>5, <2>1, <3>2 DEF Legs
      <4> QED BY <1>0, <1>3, <1>10, <4>1, PlanStays DEF Dealt
    <3> QED BY <3>1, <3>2
  <2> QED BY <1>0, <2>1
<1> QED BY <1>0, <1>3, <1>6, <1>10, <1>13, <1>14 DEF Legs

LEMMA SucceedLegs ==
    ASSUME PlainGroups, Legs, Succeed
    PROVE  Legs'
<1>0. pc = "go" /\ sys' = Applied
      /\ pc' = (IF ~ok /\ ~transient THEN "failed" ELSE IF complete THEN "done" ELSE "archives")
      /\ UNCHANGED <<dc, flag, ops, ok, nodeps>>
  BY DEF Succeed, vars, listVars
<1>1. SameNow
  BY <1>0 DEF SameNow, IsNow
<1>2. Transaction'
  BY <1>0, TransactionStays DEF Legs
<1>3. Underway(Applied)
  BY <1>0, AppliedUnderway DEF Legs
<1>4. Underway(sys)'
  <2> PICK s : s = Applied
    OBVIOUS
  <2>1. Underway(s) /\ sys' = s
    BY <1>0, <1>3
  <2> QED BY <1>0, <1>1, <2>1, UnderwayStays DEF SameNow
<1>5. Archives'
  BY <1>0 DEF Legs, Archives
<1>6. (ok => \A p \in Package : ~IsNow(p) => Dealt(p))'
  <2>1. ASSUME ok, NEW p \in Package, ~IsNow(p) PROVE Dealt(p)'
    <3>1. Dealt(p)
      BY <2>1 DEF Legs
    <3>2. Applied[p] = dc.inst[p] \/ (Deletes(p) /\ Obsoleted(p))
      BY <1>0, <3>1, AppliedDone DEF Legs
    <3> QED BY <1>0, <3>2, PlanStays DEF Dealt
  <2> QED BY <1>0, <1>1, <2>1 DEF SameNow
<1>7. pc' = "done" => sys' = dc'.inst
  <2> SUFFICES ASSUME pc' = "done" PROVE Applied = dc.inst
    BY <1>0
  <2>1. complete /\ (ok \/ transient)
    BY <1>0
  <2>2. \A p \in Changes(dc) : ~IsNow(p)
    BY <1>0, <2>1 DEF Legs, Archives
  <2>3. ~transient
    BY <1>0, <2>2 DEF Legs, Archives, ToUnpack
  <2> QED BY <1>0, <2>1, <2>2, <2>3, AppliedReaches DEF Legs
<1> QED BY <1>0, <1>2, <1>4, <1>5, <1>6, <1>7 DEF Legs

LEMMA FailLegs ==
    ASSUME Legs, Fail
    PROVE  Legs'
<1>0. pc = "go" /\ ok' = FALSE /\ pc' = (IF transient THEN "archives" ELSE "failed")
      /\ UNCHANGED <<dc, flag, ops, sys, nodeps>>
  BY DEF Fail, vars, listVars
<1>1. Transaction'
  BY <1>0, TransactionStays DEF Legs
<1>2. Underway(sys)'
  BY <1>0, UnderwayStays DEF Legs, IsNow
<1>3. Archives'
  BY <1>0 DEF Legs, Archives
<1> QED BY <1>0, <1>1, <1>2, <1>3 DEF Legs

LEMMA BeginLegs == ASSUME Begin PROVE Legs
<1>0. dc \in Plans /\ pc = "archives" /\ ops = <<>> /\ ok = TRUE
      /\ sys = [p \in Package |-> Pkg[p].current]
      /\ flag = [p \in Package |-> IF p \in AtOnce(dc) THEN {"Immediate"} ELSE {}]
  BY DEF Begin
<1>1. Transaction
  BY <1>0 DEF Transaction
<1>2. \A p \in Package : IsNow(p)
  BY <1>0 DEF IsNow, States
<1>3. Underway(sys)
  <2>1. sys \in [Package -> MaybeVer] /\ \A p \in Package : sys[p] = Pkg[p].current
    BY <1>0, PlanVersions
  <2>2. \A q \in Package, d \in Dependency : Replaces(q, d) => sys[q] # dc.inst[q]
    BY <1>0, <2>1, PlanVersions DEF Replaces
  <2> QED BY <2>1, <2>2 DEF Underway
<1>4. Archives
  BY <1>0 DEF Archives
<1> QED BY <1>0, <1>1, <1>2, <1>3, <1>4 DEF Legs

LEMMA LegsKept ==
    ASSUME RpmSystem, Walk, Assembly, Legs, [Step]_allVars
    PROVE  Legs'
<1>1. CASE Ordering
  <2>1. SameNow /\ pass # "none"
    BY <1>1, OrderingNow DEF Ordering
  <2>2. UNCHANGED <<dc, pc, sys, ops, wanted, transient, files, complete, nodeps, ok>>
    BY <1>1 DEF Ordering, Order, VisitNext, Consider, Descend, Leave, EndPass, vars, pmVars
  <2> QED BY <2>1, <2>2, LegsStay
<1>2. CASE Skip \/ UNCHANGED allVars
  <2>1. UNCHANGED <<dc, flag, pass, pc, sys, ops, wanted, transient, files, complete, nodeps, ok>>
    BY <1>2 DEF Skip, vars, listVars, pmVars, allVars
  <2> QED BY <2>1, LegsStay DEF SameNow, IsNow
<1> QED BY <1>1, <1>2, GetArchivesLegs, OrderInstallLegs, QueueLegs, FetchLegs, FetchFailsLegs,
        IncompleteLegs, ConfigureLegs, PerformLegs, SucceedLegs, FailLegs DEF Step, RpmSystem

\* With the walk and what OrderInstall has passed, this is inductive.
Manager == Walk /\ Assembly /\ Legs

LEMMA ManagerInit == Begin => Manager
  BY BeginWalk, BeginAssembly, BeginLegs DEF Manager

LEMMA ManagerNext ==
    ASSUME RpmSystem, Manager, [Step]_allVars
    PROVE  Manager'
  BY StepKeeps, AssemblyKept, LegsKept DEF Manager, RpmSystem

\* Over any number of legs, however the archives are spread over discs and whichever
\* transactions fail, rpm is handed a package once in a transaction, and never one that a leg
\* before has dealt with: it is as it was, or went with what obsoletes it
\* (pkgRPMPM::Go and OrderInstall's flags).
THEOREM NothingTwice ==
    ASSUME RpmSystem
    PROVE  Run => []HandedOnce
<1>1. ASSUME NEW p \in Package, Manager, Lost(sys, p) PROVE Gone(p)
  <2>1. PICK q \in Package, d \in Dependency :
           /\ Dep[d].type = "Obsoletes" /\ Dep[d].parent = dc.inst[q] /\ sys[q] = dc.inst[q]
           /\ Meets(d, Pkg[p].current)
    BY <1>1 DEF Lost
  <2>2. Parent(d) = q
    BY <1>1, <2>1, Obsoleter DEF Manager, Legs
  <2> QED BY <1>1, <2>1, <2>2 DEF Lost, Gone
<1>2. ASSUME Manager PROVE HandedOnce
  <2>1. Transaction
    BY <1>2 DEF Manager, Legs
  <2>2. \A i \in DOMAIN ops : ops[i].pkg \in Package
    <3>1. ops \in Seq(OpInfo)
      BY <2>1 DEF Transaction
    <3>2. \A i \in DOMAIN ops : ops[i] \in OpInfo
      BY <3>1
    <3> QED BY <3>2 DEF OpInfo
  <2> QED BY <1>1, <1>2, <2>1, <2>2 DEF Transaction, HandedOnce
<1>3. Manager /\ [Step]_allVars => Manager'
  BY ManagerNext
<1> QED BY <1>2, <1>3, ManagerInit, PTL DEF Run

\* When InstallPackages reports success the system is what the plan says: every leg was
\* applied, and what is obsolete went with what replaces it.
THEOREM SuccessIsThePlan ==
    ASSUME RpmSystem
    PROVE  Run => []PlanReached
<1>1. Manager => PlanReached
  BY DEF Manager, Legs, PlanReached
<1>2. Manager /\ [Step]_allVars => Manager'
  BY ManagerNext
<1> QED BY <1>1, <1>2, ManagerInit, PTL DEF Run

\* As long as no leg has failed, a transaction that rpm checks leads to a sound system, for
\* it is all of the plan, or it only removes, and every dependency that then fails involves
\* a package that awaits another disc.
THEOREM CheckedPasses ==
    ASSUME RpmSystem, NothingIgnored
    PROVE  Run => []RpmAccepts
<1>1. ASSUME Manager, pc = "go", ok, ~NoDeps
      PROVE  \/ Sound(Applied)
             \/ /\ Done("Install") = {}
                /\ \A d \in Conflicting(Applied) \cup Unmet(Applied) : ForNow(d)
  <2>0. /\ PlainGroups /\ dc \in Plans /\ Transaction /\ Underway(sys) /\ Archives
        /\ \A p \in Package : ~IsNow(p) => Dealt(p)
    BY <1>1 DEF Manager, Legs, RpmSystem
  <2>1. Sound(dc.inst)
    BY <2>0, PlanSound
  <2>2. \A p \in Package : Applied[p] # dc.inst[p] => Awaited(p)
    BY <1>1, <2>0, Lagging
  <2>3. CASE ~nodeps
    <3>1. \A p \in Changes(dc) : ~IsNow(p)
      BY <1>1, <2>0, <2>3 DEF Archives
    <3>2. Applied = dc.inst
      BY <1>1, <2>0, <3>1, AppliedReaches
    <3> QED BY <2>1, <3>2
  <2>4. CASE nodeps
    <3>1. Done("Install") = {}
      BY <1>1, <2>4 DEF NoDeps
    <3>2. ASSUME NEW d \in Conflicting(Applied) PROVE ForNow(d)
      <4>1. d \in Dependency /\ Negative(d) /\ Applied[Parent(d)] = Dep[d].parent
            /\ Parent(d) \in Package
        BY <3>2, ToVisitTyped DEF Conflicting
      <4>2. PICK p \in Package : Meets(d, Applied[p])
        BY <3>2 DEF Conflicting, Present
      <4>3. Applied[Parent(d)] # dc.inst[Parent(d)] \/ Applied[p] # dc.inst[p]
        BY <2>1, <4>1, <4>2 DEF Sound, Conflicting, Present
      <4> QED BY <2>2, <4>1, <4>2, <4>3 DEF ForNow
    <3>3. ASSUME NEW d \in Unmet(Applied) PROVE ForNow(d)
      <4>1. /\ d \in Dependency /\ ~Negative(d) /\ Critical(d) /\ Dep[d].last
            /\ Applied[Parent(d)] = Dep[d].parent /\ Parent(d) \in Package
            /\ \A e \in Dep[d].alts : ~Present(Applied, e)
        BY <3>3, ToVisitTyped DEF Unmet
      <4>2. CASE Applied[Parent(d)] # dc.inst[Parent(d)]
        BY <2>2, <4>1, <4>2 DEF ForNow
      <4>3. CASE Applied[Parent(d)] = dc.inst[Parent(d)]
        <5>1. PICK e \in Dep[d].alts : Present(dc.inst, e)
          BY <2>1, <4>1, <4>3 DEF Sound, Unmet
        <5>2. PICK p \in Package : Meets(e, dc.inst[p])
          BY <5>1 DEF Present
        <5>3. Applied[p] # dc.inst[p]
          BY <4>1, <5>2 DEF Present
        <5>4. ~Negative(e)
          BY <2>0, <4>1 DEF PlainGroups
        <5> QED BY <2>2, <5>2, <5>3, <5>4 DEF ForNow
      <4> QED BY <4>2, <4>3
    <3> QED BY <3>1, <3>2, <3>3
  <2> QED BY <2>3, <2>4
<1>2. Manager => RpmAccepts
  BY <1>1 DEF RpmAccepts
<1>3. Manager /\ [Step]_allVars => Manager'
  BY ManagerNext
<1> QED BY <1>2, <1>3, ManagerInit, PTL DEF Run

-----------------------------------------------------------------------------
(* Pre-dependencies come first.                                             *)

NoHiddenLoop == \E R \in SUBSET (Package \X Package) : Closed(R) /\ NoWayBack(R)

\* A version of c needs one of q, directly or through others.
Reaches(c, q) == \A R \in SUBSET (Package \X Package) : Closed(R) => <<c, q>> \in R

PreDeps(p) == {e \in Dependency : Dep[e].parent = dc.inst[p] /\ Dep[e].type = "PreDepends"}
Answers(q, e) == Meets(e, dc.inst[q])
Answered(e)   == \E q \in Package : Answers(q, e)
Here(e)       == \E q \in Package : Meets(e, Pkg[q].current)

\* In s what the plan answers a pre-dependency with comes first.
InOrder(s) ==
    \A k \in DOMAIN s : \A e \in PreDeps(s[k]) : Answered(e) =>
        Here(e) \/ \E j \in DOMAIN s : j < k /\ Answers(s[j], e)

\* Nothing is put off.
Quiet == after = <<>> /\ \A p \in Package : ~Has(p, "After")

\* As long as no disc was changed nothing has been done.
FirstLeg ==
    /\ pc \in {"archives", "queue", "fetch", "install", "order", "go"}
          => \A p \in Package : sys[p] = Pkg[p].current
    /\ pc \in {"archives", "queue", "fetch", "install"} => \A p \in Package : IsNow(p)
    /\ pc = "order" /\ pass # "none" => Quiet /\ \A p \in Package : IsNow(p)
    /\ pass # "none" => pc \in {"queue", "order"}

\* A call of the last pass considers what its package needs to be unpacked or configured,
\* and visits what that leads to.
PreFrame(f) ==
    /\ f.prim = "Pre" /\ f.with = "Pre"
    /\ \E X \in SUBSET Dependency :
          /\ f.stages = Some("Pre", FALSE, X)
          /\ \A d \in X : /\ Dep[d].parent = dc.inst[f.pkg]
                          /\ Dep[d].type \in {"Depends", "PreDepends"}
    /\ \A q \in f.visits : Reaches(f.pkg, q)

\* A pre-dependency of the i-th call is still to be considered, or answered, or what
\* answers it is about to be listed.
Left(f, e) == \E k \in DOMAIN f.stages : e \in f.stages[k].deps

Cared(fs, o, i, e) ==
    \/ Left(fs[i], e)
    \/ Here(e)
    \/ \E q \in Package :
          /\ Answers(q, e)
          /\ \/ q \in ToSet(o)
             \/ q \in fs[i].visits /\ \A j \in 1..i : fs[j].pkg # q
             \/ i < Len(fs) /\ fs[i + 1].pkg = q

WalkD(fs, o, l) ==
    /\ l \in Seq(Dependency)
    /\ \A i \in DOMAIN fs : PreFrame(fs[i])
    /\ \A i, j \in DOMAIN fs : i < j => Reaches(fs[i].pkg, fs[j].pkg)
    /\ l = <<>> =>
          /\ InOrder(o)
          /\ \A i \in DOMAIN fs : \A e \in PreDeps(fs[i].pkg) :
                Answered(e) => Cared(fs, o, i, e)

PassD == WalkD(calls, out, loops)

\* The transaction is the list as far as it has come, without what goes by itself.
InStep ==
    /\ \A i \in DOMAIN ops : \E k \in DOMAIN list : k < next /\ list[k] = ops[i].pkg
    /\ \A k \in DOMAIN list : k < next /\ ~Deletes(list[k]) =>
          \E i \in DOMAIN ops : ops[i].op = "Install" /\ ops[i].pkg = list[k]
    /\ \A i, j \in DOMAIN ops, k, l \in DOMAIN list :
          ops[i].pkg = list[k] /\ ops[j].pkg = list[l] /\ k < l => i < j
    /\ pc = "order" => \A k \in DOMAIN list : k >= next => IsNow(list[k])

Pre ==
    ~nodeps =>
        /\ FirstLeg
        /\ pc = "order" /\ pass = "D" => PassD
        /\ (pc = "order" /\ pass = "none") \/ pc = "go" =>
              /\ InStep
              /\ loops = <<>> => InOrder(list)

-----------------------------------------------------------------------------
\* What a package leads to it reaches, and what that reaches.
LEMMA LeadsReaches ==
    ASSUME NEW c \in Package, NEW q \in Package, Leads(c, q)
    PROVE  Reaches(c, q)
  BY DEF Reaches, Closed

LEMMA ReachesOn ==
    ASSUME NEW a \in Package, NEW b \in Package, NEW c \in Package, Reaches(a, b), Reaches(b, c)
    PROVE  Reaches(a, c)
  BY DEF Reaches, Closed

\* What answers a pre-dependency is one of its targets.
LEMMA AnswerIsTarget ==
    ASSUME dc \in Plans, NEW e \in Dependency, Dep[e].type = "PreDepends", NEW q \in Package,
           Answers(q, e)
    PROVE  /\ dc.inst[q] \in AllTargets(e) /\ dc.inst[q] \in Version
           /\ Ver[dc.inst[q]].pkg = q /\ ~Virtual(q)
<1>1. dc.inst[q] \in Dep[e].hits /\ Dep[e].hits \subseteq Version
  BY CacheAssumption DEF Answers, Meets, DependencyInfo
<1>2. dc.inst[q] \in Version
  BY <1>1
<1>3. Ver[dc.inst[q]].pkg = q
  BY <1>2, CacheAssumption, PlanVersions
<1> QED BY <1>1, <1>2, <1>3 DEF Answers, Meets, AllTargets, Virtual

LEMMA TargetMeets ==
    ASSUME NEW e \in Dependency, Dep[e].type = "PreDepends", NEW v \in AllTargets(e)
    PROVE  Meets(e, v) /\ v \in Version /\ Ver[v].pkg \in Package
<1>1. v \in Version
  BY CacheAssumption DEF AllTargets, DependencyInfo
<1> QED BY <1>1, CacheAssumption DEF AllTargets, Meets, VersionInfo

\* What answers a pre-dependency changes, or is here.
LEMMA AnswerChanges ==
    ASSUME dc \in Plans, NEW e \in Dependency, Dep[e].type = "PreDepends", NEW q \in Package,
           Answers(q, e), ~Here(e)
    PROVE  q \in Changes(dc) /\ ~(Keeps(q) /\ Pkg[q].needs = "Nothing")
<1>1. ~Virtual(q)
  BY AnswerIsTarget
<1>2. dc.inst[q] # Pkg[q].current
  BY DEF Answers, Here
<1>3. ~Keeps(q)
  BY <1>2, PlanVersions DEF Keeps
<1> QED BY <1>1, <1>2, <1>3 DEF Changes, Keeps

\* The plan answers the last of every or group.
LEMMA GroupAnswered ==
    ASSUME NothingIgnored, GroupsAlike, dc \in Plans, NEW p \in Package, NEW d \in PreDeps(p),
           Dep[d].last
    PROVE  \E e \in Dep[d].alts : e \in PreDeps(p) /\ Answered(e)
<1>1. d \in Dependency /\ Dep[d].parent = dc.inst[p] /\ Dep[d].type = "PreDepends"
  BY DEF PreDeps
<1>2. Good(dc) /\ dc.count["broken"] = 0
  BY PlanProperties
<1>3. PICK e \in Dep[d].alts : "Install" \in DependencyState(dc, e)
  BY <1>1, <1>2, PlanMet DEF Critical
<1>4. e \in Dependency /\ Dep[e].type = "PreDepends" /\ Dep[e].parent = dc.inst[p]
  <2>1. e \in Dependency
    BY <1>1, <1>3, CacheAssumption DEF DependencyInfo
  <2> QED BY <1>1, <1>3, <2>1, CacheAssumption DEF GroupsAlike
<1>5. ~Negative(e) /\ ~Dep[e].ignored
  BY <1>4 DEF Negative, Negatives, NothingIgnored
<1>6. CheckDep(dc, e, "Install")
  <2>1. CheckDep(dc, e, "Install") # Negative(e)
    BY <1>3 DEF DependencyState
  <2>2. Negative(e) = FALSE /\ CheckDep(dc, e, "Install") \in BOOLEAN
    BY <1>5 DEF Negative, CheckDep
  <2> QED BY <2>1, <2>2
<1>7. PICK v \in Version : Meets(e, v) /\ Chosen(dc, Ver[v].pkg, "Install") = v
  BY <1>5, <1>6 DEF CheckDep
<1>8. dc.inst[Ver[v].pkg] = v /\ Ver[v].pkg \in Package
  BY <1>7, CacheAssumption DEF Chosen, VersionInfo
<1> QED BY <1>4, <1>7, <1>8 DEF PreDeps, Answered, Answers

-----------------------------------------------------------------------------
\* What follows from the plan alone does not change.
LEMMA AnswersStay ==
    ASSUME UNCHANGED dc
    PROVE  /\ \A p : PreDeps(p)' = PreDeps(p)
           /\ \A q, e : Answers(q, e)' <=> Answers(q, e)
           /\ \A e : Answered(e)' <=> Answered(e)
           /\ \A f : PreFrame(f) => PreFrame(f)'
  BY DEF PreDeps, Answers, Answered, PreFrame, Some

LEMMA InOrderStays ==
    ASSUME UNCHANGED dc, NEW s, InOrder(s)
    PROVE  /\ list' = s => InOrder(list)'
           /\ out' = s => InOrder(out)'
  BY AnswersStay DEF InOrder

-----------------------------------------------------------------------------
(* The last pass.                                                           *)

\* A call begins with everything its package needs.
LEMMA StagesOfPassD ==
    ASSUME dc \in Plans, pass = "D", NEW p \in Package, IsNow(p), NEW depth
    PROVE  Stages(p, "Pre", depth) =
              Some("Pre", FALSE, {d \in Dependency : Dep[d].parent = dc.inst[p]
                                                     /\ Concerns("Pre", FALSE, d, depth)})
<1>1. \A names : Backward("Pre", names, depth) = <<>>
  <2>1. \A d : ~Concerns("Pre", TRUE, d, depth)
    BY DEF Concerns
  <2> QED BY <2>1 DEF Backward, Some
<1>2. Forward("Pre", p, depth) \in Seq(Stage)
  BY ForwardTyped DEF Visitors
<1>3. CASE Deletes(p)
  <2>1. dc.inst[p] = NoVer
    BY <1>3, PlanVersions DEF Deletes
  <2>2. \A d \in Dependency : Dep[d].parent # dc.inst[p]
    BY <2>1, CacheAssumption DEF DependencyInfo
  <2>3. Stages(p, "Pre", depth) = <<>>
    BY <1>3 DEF Stages, Removes
  <2> QED BY <2>2, <2>3 DEF Some
<1>4. CASE ~Deletes(p)
  <2>1. Stages(p, "Pre", depth) = Forward("Pre", p, depth) \o <<>> \o <<>> \o <<>>
    <3>1. Backward3("Pre", p, depth) = <<>>
      BY <1>1 DEF Backward3
    <3> QED BY <1>2, <1>4, <3>1 DEF Stages, Reverses, Secondary
  <2>2. Stages(p, "Pre", depth) = Forward("Pre", p, depth)
    BY <1>2, <2>1
  <2> QED BY <2>2 DEF Forward
<1> QED BY <1>3, <1>4

FrameOf(p, depth) ==
    [pkg |-> p, prim |-> "Pre", visits |-> {}, with |-> "Pre", stages |-> Stages(p, "Pre", depth)]

LEMMA NewFrame ==
    ASSUME dc \in Plans, pass = "D", NEW p \in Package, IsNow(p), NEW depth
    PROVE  /\ PreFrame(FrameOf(p, depth))
           /\ \A e \in PreDeps(p) : Left(FrameOf(p, depth), e)
<1> DEFINE X == {d \in Dependency : Dep[d].parent = dc.inst[p]
                                    /\ Concerns("Pre", FALSE, d, depth)}
<1>1. FrameOf(p, depth).stages = Some("Pre", FALSE, X)
  BY StagesOfPassD DEF FrameOf
<1>2. \A d \in X : Dep[d].parent = dc.inst[p] /\ Dep[d].type \in {"Depends", "PreDepends"}
  BY DEF Concerns
<1>3. \A d \in PreDeps(p) : d \in X
  BY DEF PreDeps, Concerns
<1> HIDE DEF X
<1>4. X \in SUBSET Dependency
  BY DEF X
<1>5. PreFrame(FrameOf(p, depth))
  BY <1>1, <1>2, <1>4 DEF PreFrame, FrameOf
<1>6. ASSUME NEW e \in PreDeps(p) PROVE Left(FrameOf(p, depth), e)
  BY <1>1, <1>3 DEF Left, Some
<1> QED BY <1>5, <1>6
-----------------------------------------------------------------------------
LEMMA NobodyInherits ==
    ASSUME Quiet, NEW d \in Dependency, NEW rev
    PROVE  Inherits(d, rev) = {FALSE}
<1>1. \A v \in Found(d, rev) : v \in Version /\ Ver[v].pkg \in Package
  <2>1. \A v \in Found(d, rev) : v \in Version
    BY CacheAssumption DEF Found, AllTargets, DependencyInfo
  <2> QED BY <2>1, CacheAssumption DEF VersionInfo
<1>2. \A v \in Found(d, rev) : Late(v) = FALSE
  BY <1>1 DEF Late, Quiet, Has
<1> QED BY <1>2 DEF Inherits

LEMMA TopIs ==
    ASSUME calls \in Seq(Frame), calls # <<>>
    PROVE  /\ Len(calls) \in Nat \ {0} /\ DOMAIN calls = 1..Len(calls)
           /\ Top = calls[Len(calls)] /\ Top \in Frame /\ Top.pkg \in Package
<1>1. Len(calls) \in Nat \ {0} /\ Top = calls[Len(calls)] /\ DOMAIN calls = 1..Len(calls)
  BY DEF Top, Last
<1>2. Top \in Frame
  BY <1>1
<1> QED BY <1>1, <1>2 DEF Frame

LEMMA TopChanged ==
    ASSUME calls \in Seq(Frame), calls # <<>>, NEW f \in Frame
    PROVE  /\ Below \o <<f>> \in Seq(Frame) /\ Len(Below \o <<f>>) = Len(calls)
           /\ (Below \o <<f>>)[Len(calls)] = f
           /\ \A i \in 1..(Len(calls) - 1) : (Below \o <<f>>)[i] = calls[i]
<1>1. Len(calls) \in Nat \ {0}
  BY TopIs
<1>2. Below \in Seq(Frame) /\ Len(Below) = Len(calls) - 1
      /\ \A i \in 1..(Len(calls) - 1) : Below[i] = calls[i]
  BY BelowProperties
<1>3. Below \o <<f>> \in Seq(Frame) /\ Len(Below \o <<f>>) = Len(calls)
  BY <1>1, <1>2
<1>4. (Below \o <<f>>)[Len(calls)] = f
  BY <1>1, <1>2
<1>5. \A i \in 1..(Len(calls) - 1) : (Below \o <<f>>)[i] = Below[i]
  BY <1>1, <1>2
<1> QED BY <1>2, <1>3, <1>4, <1>5

\* In the walk of the last pass.
InD ==
    /\ dc \in Plans /\ pass = "D" /\ Quiet
    /\ calls \in Seq(Frame) /\ out \in Seq(Package) /\ Placed /\ ListComplete
    /\ list \in Seq(Package) /\ at \in Nat \ {0}
    /\ \A p \in Package : IsNow(p)

LEMMA AddedIsOut ==
    ASSUME InD, NEW p \in Package
    PROVE  /\ Has(p, "Added") <=> p \in ToSet(out)
           /\ Has(p, "AddPending") <=> Pending(p)
           /\ Has(p, "InList") <=> p \in Changes(dc)
<1>1. ToSet(after) = {}
  BY DEF InD, Quiet, ToSet
<1> QED BY <1>1 DEF InD, Placed, Collected, ListComplete

\* What a package is found to need is there, is listed already, or is visited next, and
\* is on its way nowhere else.
LEMMA WellConsidered ==
    ASSUME NoHiddenLoop, InD, PassD, calls # <<>>, NEW e \in Dependency,
           Dep[e].type = "PreDepends", Dep[e].parent = dc.inst[Top.pkg], Answered(e),
           ~Has(Dep[e].target, "AddPending"), ~Here(e)
    PROVE  \E q \in Package :
              /\ Answers(q, e)
              /\ \/ q \in ToSet(out)
                 \/ q \in ToVisit("Pre", FALSE, e) /\ \A j \in DOMAIN calls : calls[j].pkg # q
<1>0. Top \in Frame /\ Top.pkg \in Package /\ Len(calls) \in Nat \ {0}
      /\ Top = calls[Len(calls)] /\ DOMAIN calls = 1..Len(calls)
  BY TopIs DEF InD
<1>1. Dep[e].target \in Package /\ Dep[e].parent \in Version /\ ~Negative(e)
  BY CacheAssumption DEF DependencyInfo, Negative, Negatives
<1>2. Parent(e) = Top.pkg
  BY <1>0, <1>1, CacheAssumption, PlanVersions DEF Parent, InD
<1>3. CASE Holds(e, FALSE)
  <2>1. PICK v \in AllTargets(e) : Live(v, FALSE)
    BY <1>1, <1>3 DEF Holds, Found
  <2>2. Meets(e, v) /\ v \in Version /\ Ver[v].pkg \in Package
    BY <2>1, TargetMeets
  <2> PICK p \in Package : p = Ver[v].pkg
    BY <2>2
  <2>3. Pkg[p].current # v
    BY <2>2 DEF Here
  <2>4. Has(p, "Added") /\ dc.inst[p] = v
    BY <2>1, <2>3 DEF Live
  <2>5. p \in ToSet(out) /\ Answers(p, e)
    BY <2>2, <2>4, AddedIsOut DEF Answers
  <2> QED BY <2>5
<1>4. CASE ~Holds(e, FALSE)
  <2>1. PICK q \in Package : Answers(q, e)
    BY DEF Answered
  <2>2. dc.inst[q] \in AllTargets(e) /\ dc.inst[q] \in Version /\ Ver[dc.inst[q]].pkg = q
    BY <2>1, AnswerIsTarget DEF InD
  <2>3. q \in Changes(dc) /\ ~(Keeps(q) /\ Pkg[q].needs = "Nothing")
    BY <2>1, AnswerChanges DEF InD
  <2>4. ~Has(q, "Added")
    <3>1. ~Live(dc.inst[q], FALSE)
      BY <1>1, <1>4, <2>2 DEF Holds, Found
    <3> QED BY <2>2, <3>1 DEF Live
  <2>5. q # Dep[e].target => Virtual(Dep[e].target) /\ ~Reaches(q, Top.pkg)
    <3>1. PICK R \in SUBSET (Package \X Package) : Closed(R) /\ NoWayBack(R)
      BY DEF NoHiddenLoop
    <3>2. q # Dep[e].target => Virtual(Dep[e].target) /\ <<q, Top.pkg>> \notin R
      BY <1>2, <2>2, <3>1 DEF NoWayBack
    <3> QED BY <3>1, <3>2 DEF Reaches
  <2>6. ~Has(Dep[e].target, "Added")
    <3>1. CASE q = Dep[e].target
      BY <2>4, <3>1
    <3>2. CASE q # Dep[e].target
      <4>1. Dep[e].target \notin Changes(dc)
        BY <2>5, <3>2 DEF Changes
      <4>2. ~Has(Dep[e].target, "InList")
        BY <1>1, <4>1, AddedIsOut
      <4> QED BY <1>1, <4>2 DEF InD, Placed
    <3> QED BY <3>1, <3>2
  <2>7. ToVisit("Pre", FALSE, e) = Providers(e, TRUE)
    BY <1>4, <2>6 DEF ToVisit, Pursued, Blocked, Guards, Anchor
  <2>8. q \in Providers(e, TRUE)
    BY <1>1, <2>2, <2>3 DEF Providers
  <2>9. ASSUME NEW j \in DOMAIN calls PROVE calls[j].pkg # q
    <3>1. CASE q = Dep[e].target
      <4>1. ~Pending(q)
        BY <3>1, AddedIsOut
      <4> QED BY <4>1 DEF Pending
    <3>2. CASE q # Dep[e].target
      <4>1. Leads(Top.pkg, q)
        BY <1>2, <2>2 DEF Leads
      <4>2. CASE j = Len(calls)
        BY <1>0, <2>5, <3>2, <4>1, <4>2, LeadsReaches
      <4>3. CASE j # Len(calls)
        <5>1. Reaches(calls[j].pkg, Top.pkg)
          BY <1>0, <4>3 DEF PassD, WalkD
        <5> QED BY <2>5, <3>2, <5>1
      <4> QED BY <4>2, <4>3
    <3> QED BY <3>1, <3>2
  <2> QED BY <2>1, <2>7, <2>8, <2>9
<1> QED BY <1>3, <1>4
-----------------------------------------------------------------------------
Without(s, d) == [s EXCEPT !.deps = @ \ {d}]

LeftOver(s, t, d) == IF s.deps = {d} THEN t ELSE <<Without(s, d)>> \o t

\* What a call is after it has considered d.
Considered(f, d) ==
    LET s == Head(f.stages) IN
    [f EXCEPT !.stages = LeftOver(s, Tail(@), d),
              !.visits = ToVisit(s.fn, s.rev, d),
              !.with   = IF s.fn = "Crit" /\ ~s.rev /\ Dep[d].type = "PreDepends"
                         THEN "PreD" ELSE f.prim]

LEMMA ConsideredIs ==
    ASSUME NEW f \in Frame, NEW d, NEW s, NEW t, s = Head(f.stages), t = Tail(f.stages),
           s.fn = "Pre", s.rev = FALSE
    PROVE  /\ Considered(f, d).pkg = f.pkg /\ Considered(f, d).prim = f.prim
           /\ Considered(f, d).stages = LeftOver(s, t, d)
           /\ Considered(f, d).visits = ToVisit("Pre", FALSE, d)
           /\ Considered(f, d).with = f.prim
  BY DEF Considered, Frame

LEMMA ConsideredFrame ==
    ASSUME NEW f \in Frame, NEW d, ToVisit("Pre", FALSE, d) \subseteq Package,
           Head(f.stages).fn = "Pre", Head(f.stages).rev = FALSE,
           Considered(f, d).stages \in Seq(Stage)
    PROVE  Considered(f, d) \in Frame
  BY DEF Considered, Frame

LEMMA SomeWithout ==
    ASSUME NEW X \in SUBSET Dependency, NEW d \in X, NEW s,
           s = [fn |-> "Pre", rev |-> FALSE, deps |-> X]
    PROVE  LeftOver(s, <<>>, d) = Some("Pre", FALSE, X \ {d})
<1>0. s \in Stage
  BY DEF Stage, Visitors
<1>1. s.deps = X /\ Without(s, d) = [fn |-> "Pre", rev |-> FALSE, deps |-> X \ {d}]
  <2>1. Without(s, d) \in Stage /\ Without(s, d).deps = X \ {d} /\ Without(s, d).fn = "Pre"
        /\ Without(s, d).rev = FALSE
    BY <1>0 DEF Stage, Without
  <2> QED BY <2>1 DEF Stage
<1>2. PICK u : u = Without(s, d)
  OBVIOUS
<1>3. <<u>> \o <<>> = <<u>>
  OBVIOUS
<1>4. X = {d} <=> X \ {d} = {}
  OBVIOUS
<1> QED BY <1>1, <1>2, <1>3, <1>4 DEF Some, LeftOver

LEMMA FrameConsidered ==
    ASSUME dc \in Plans, NEW f \in Frame, PreFrame(f), f.stages # <<>>,
           NEW d \in Head(f.stages).deps
    PROVE  /\ Head(f.stages).fn = "Pre" /\ Head(f.stages).rev = FALSE
           /\ d \in Dependency /\ Dep[d].parent = dc.inst[f.pkg]
           /\ Considered(f, d) \in Frame /\ Considered(f, d).pkg = f.pkg
           /\ Considered(f, d).visits = ToVisit("Pre", FALSE, d)
           /\ PreFrame(Considered(f, d))
           /\ \A e : Left(f, e) => e = d \/ Left(Considered(f, d), e)
<1>0. PICK X \in SUBSET Dependency :
          /\ f.stages = Some("Pre", FALSE, X)
          /\ \A e \in X : /\ Dep[e].parent = dc.inst[f.pkg]
                          /\ Dep[e].type \in {"Depends", "PreDepends"}
  BY DEF PreFrame
<1>1. PICK s : s = [fn |-> "Pre", rev |-> FALSE, deps |-> X]
  OBVIOUS
<1>2. f.stages = <<s>>
  BY <1>0, <1>1 DEF Some
<1>3. Head(f.stages) = s /\ Tail(f.stages) = <<>>
  BY <1>2
<1>4. s.fn = "Pre" /\ s.rev = FALSE /\ s.deps = X
  BY <1>1
<1>5. d \in X
  BY <1>3, <1>4
<1>6. d \in Dependency /\ Dep[d].parent = dc.inst[f.pkg]
      /\ Dep[d].type \in {"Depends", "PreDepends"}
  BY <1>0, <1>5
<1>7. PICK g : g = Considered(f, d)
  OBVIOUS
<1>9. g.pkg = f.pkg /\ g.prim = f.prim /\ g.stages = Some("Pre", FALSE, X \ {d})
      /\ g.visits = ToVisit("Pre", FALSE, d) /\ g.with = f.prim
  <2>1. PICK t : t = Tail(f.stages)
    OBVIOUS
  <2>2. g.pkg = f.pkg /\ g.prim = f.prim /\ g.visits = ToVisit("Pre", FALSE, d)
        /\ g.with = f.prim
        /\ g.stages = LeftOver(s, t, d)
    BY <1>3, <1>4, <1>7, <2>1, ConsideredIs
  <2> QED BY <1>1, <1>3, <1>5, <2>1, <2>2, SomeWithout
<1>10. ToVisit("Pre", FALSE, d) \subseteq Package
  BY <1>6, ToVisitTyped
<1>11. g \in Frame
  <2>1. Some("Pre", FALSE, X \ {d}) \in Seq(Stage)
    BY SomeStage DEF Visitors
  <2> QED BY <1>3, <1>4, <1>7, <1>9, <1>10, <2>1, ConsideredFrame
<1>12. ASSUME NEW q \in ToVisit("Pre", FALSE, d) PROVE Reaches(f.pkg, q)
  <2>1. q \in Providers(d, TRUE)
    BY <1>12 DEF ToVisit
  <2>2. \E v \in AllTargets(d) : Ver[v].pkg = q
    BY <2>1 DEF Providers
  <2>3. Dep[d].parent \in Version /\ f.pkg \in Package
    BY <1>6, CacheAssumption DEF DependencyInfo, Frame
  <2>4. Parent(d) = f.pkg
    BY <1>6, <2>3, PlanVersions, CacheAssumption DEF Parent
  <2>5. Leads(f.pkg, q) /\ q \in Package
    BY <1>6, <1>10, <1>12, <2>2, <2>4 DEF Leads
  <2> QED BY <2>3, <2>5, LeadsReaches
<1>13. PreFrame(g)
  <2>1. X \ {d} \in SUBSET Dependency
        /\ \A e \in X \ {d} : /\ Dep[e].parent = dc.inst[g.pkg]
                              /\ Dep[e].type \in {"Depends", "PreDepends"}
    BY <1>0, <1>9
  <2>2. f.prim = "Pre" /\ f.with = "Pre"
    BY DEF PreFrame
  <2>3. \A q \in g.visits : Reaches(g.pkg, q)
    BY <1>9, <1>12
  <2> QED BY <1>9, <2>1, <2>2, <2>3 DEF PreFrame
<1>14. ASSUME NEW e, Left(f, e), e # d PROVE Left(g, e)
  <2>1. e \in X
    BY <1>2, <1>4, <1>14 DEF Left
  <2>2. e \in X \ {d}
    BY <1>14, <2>1
  <2> QED BY <1>9, <2>2 DEF Left, Some
<1> QED BY <1>3, <1>4, <1>6, <1>7, <1>9, <1>11, <1>13, <1>14
-----------------------------------------------------------------------------
LEMMA WalkDStays ==
    ASSUME UNCHANGED dc, NEW fs, NEW o, NEW l, WalkD(fs, o, l),
           calls' = fs, out' = o, loops' = l
    PROVE  PassD'
<1>1. WalkD(fs, o, l)' <=> WalkD(fs, o, l)
  BY DEF WalkD, PreFrame, Some, InOrder, PreDeps, Answered, Answers, Cared, Left, Here
<1> QED BY <1>1 DEF PassD

\* A call stays cared for as long as it and the names of the calls stay.
LEMMA CaredStays ==
    ASSUME NEW fs \in Seq(Frame), NEW gs \in Seq(Frame), NEW o, NEW r, NEW e,
           NEW i \in 1..Len(fs), Len(fs) <= Len(gs), gs[i] = fs[i],
           \A j \in 1..Len(fs) : gs[j].pkg = fs[j].pkg, ToSet(o) \subseteq ToSet(r),
           Cared(fs, o, i, e)
    PROVE  Cared(gs, r, i, e)
<1>0. Len(fs) \in Nat /\ Len(gs) \in Nat
  OBVIOUS
<1>1. CASE Left(fs[i], e) \/ Here(e)
  BY <1>1 DEF Cared
<1>2. CASE ~(Left(fs[i], e) \/ Here(e))
  <2>1. PICK q \in Package :
          /\ Answers(q, e)
          /\ \/ q \in ToSet(o)
             \/ q \in fs[i].visits /\ \A j \in 1..i : fs[j].pkg # q
             \/ i < Len(fs) /\ fs[i + 1].pkg = q
    BY <1>2 DEF Cared
  <2>2. \/ q \in ToSet(r)
        \/ q \in gs[i].visits /\ \A j \in 1..i : gs[j].pkg # q
        \/ i < Len(gs) /\ gs[i + 1].pkg = q
    BY <1>0, <2>1
  <2> QED BY <2>1, <2>2 DEF Cared
<1> QED BY <1>1, <1>2

LEMMA ConsiderD ==
    ASSUME NoHiddenLoop, MaxLoops # 0, InD, PassD, Consider, UNCHANGED dc
    PROVE  PassD' /\ flag' = flag /\ after' = after
<1> DEFINE n == Len(calls)
<1>0. calls # <<>> /\ Top.visits = {} /\ Top.stages # <<>> /\ out' = out /\ after' = after
  BY DEF Consider
<1>1. n \in Nat \ {0} /\ DOMAIN calls = 1..n /\ Top = calls[n] /\ Top \in Frame
      /\ Top.pkg \in Package /\ calls \in Seq(Frame)
  BY <1>0, TopIs DEF InD
<1>2. PICK d \in Head(Top.stages).deps :
         /\ \E late \in IF Head(Top.stages).fn = "Conf" THEN {FALSE}
                        ELSE Inherits(d, Head(Top.stages).rev) :
              flag' = IF late THEN [flag EXCEPT ![Parent(d)] = @ \cup {"After"}] ELSE flag
         /\ loops' = IF ClosesLoop(Head(Top.stages).fn, Head(Top.stages).rev, d)
                     THEN AddLoop(d) ELSE loops
         /\ calls' = Below \o <<Considered(Top, d)>>
  BY DEF Consider, Considered, LeftOver, Without
<1>3. PreFrame(Top)
  BY <1>1 DEF PassD, WalkD
<1>4. /\ Head(Top.stages).fn = "Pre" /\ Head(Top.stages).rev = FALSE
      /\ d \in Dependency /\ Dep[d].parent = dc.inst[Top.pkg]
      /\ Considered(Top, d) \in Frame /\ Considered(Top, d).pkg = Top.pkg
      /\ Considered(Top, d).visits = ToVisit("Pre", FALSE, d)
      /\ PreFrame(Considered(Top, d))
      /\ \A e : Left(Top, e) => e = d \/ Left(Considered(Top, d), e)
  BY <1>0, <1>1, <1>3, FrameConsidered DEF InD
<1>5. flag' = flag
  <2>1. Inherits(d, FALSE) = {FALSE}
    BY <1>4, NobodyInherits DEF InD
  <2> QED BY <1>2, <1>4, <2>1
<1>6. /\ loops' = <<>> => loops = <<>> /\ ~Has(Dep[d].target, "AddPending")
      /\ loops' \in Seq(Dependency)
  <2>1. loops' = IF Has(Dep[d].target, "AddPending") THEN AddLoop(d) ELSE loops
    BY <1>2, <1>4 DEF ClosesLoop, Guards, Anchor, Pursued
  <2>2. loops \in Seq(Dependency)
    BY DEF PassD, WalkD
  <2>3. AddLoop(d) = Append(loops, d) \/ (AddLoop(d) = loops /\ loops # <<>>)
    <3>1. loops = <<>> => ~(Len(loops) >= MaxLoops)
      BY OrderAssumption
    <3> QED BY <3>1 DEF AddLoop, InD
  <2>4. Append(loops, d) # <<>> /\ Append(loops, d) \in Seq(Dependency)
    BY <1>4, <2>2
  <2> QED BY <2>1, <2>2, <2>3, <2>4
<1>7. PICK fs : fs = calls'
  OBVIOUS
<1>8. /\ fs \in Seq(Frame) /\ Len(fs) = n /\ DOMAIN fs = 1..n
      /\ fs[n] = Considered(Top, d) /\ \A i \in 1..(n - 1) : fs[i] = calls[i]
  <2>1. fs = Below \o <<Considered(Top, d)>>
    BY <1>2, <1>7
  <2>2. fs \in Seq(Frame) /\ Len(fs) = n
        /\ fs[n] = Considered(Top, d) /\ \A i \in 1..(n - 1) : fs[i] = calls[i]
    BY <1>0, <1>1, <1>4, <2>1, TopChanged
  <2> QED BY <2>2
<1> HIDE DEF n
<1>9. \A i \in 1..n : fs[i].pkg = calls[i].pkg
  BY <1>1, <1>4, <1>8
<1>10. \A i \in 1..n : PreFrame(fs[i])
  <2>1. \A i \in 1..n : PreFrame(calls[i])
    BY <1>1 DEF PassD, WalkD
  <2> QED BY <1>1, <1>4, <1>8, <2>1
<1>11. \A i, j \in 1..n : i < j => Reaches(fs[i].pkg, fs[j].pkg)
  BY <1>1, <1>9 DEF PassD, WalkD
<1>12. ASSUME loops' = <<>>, NEW i \in 1..n, NEW e \in PreDeps(fs[i].pkg), Answered(e)
       PROVE  Cared(fs, out, i, e)
  <2>0. e \in PreDeps(calls[i].pkg) /\ loops = <<>>
    BY <1>6, <1>9, <1>12
  <2>1. Cared(calls, out, i, e)
    BY <1>1, <1>12, <2>0 DEF PassD, WalkD
  <2>2. CASE i # n
    <3>1. fs[i] = calls[i]
      BY <1>1, <1>8, <2>2
    <3>2. Len(calls) = n
      BY DEF n
    <3> QED BY <1>1, <1>8, <1>9, <2>1, <3>1, <3>2, CaredStays
  <2>3. CASE i = n
    <3>1. e \in Dependency /\ Dep[e].type = "PreDepends" /\ Dep[e].parent = dc.inst[Top.pkg]
      BY <1>1, <2>0, <2>3 DEF PreDeps
    <3>2. CASE e = d /\ ~Here(e)
      <4>1. PICK q \in Package :
              /\ Answers(q, e)
              /\ \/ q \in ToSet(out)
                 \/ q \in ToVisit("Pre", FALSE, e) /\ \A j \in DOMAIN calls : calls[j].pkg # q
        BY <1>0, <1>6, <1>12, <3>1, <3>2, WellConsidered
      <4>2. q \in ToVisit("Pre", FALSE, e) => q \in fs[n].visits
        BY <1>4, <1>8, <3>2
      <4>3. (\A j \in DOMAIN calls : calls[j].pkg # q) => \A j \in 1..n : fs[j].pkg # q
        BY <1>1, <1>9
      <4> QED BY <2>3, <4>1, <4>2, <4>3 DEF Cared
    <3>3. CASE e # d /\ Left(calls[n], e)
      BY <1>1, <1>4, <1>8, <2>3, <3>3 DEF Cared
    <3>4. CASE Here(e)
      BY <3>4 DEF Cared
    <3>5. CASE ~Here(e) /\ ~Left(calls[n], e)
      <4>1. n = Len(calls) /\ ~(n < Len(calls))
        BY <1>1 DEF n
      <4>2. PICK q \in Package : Answers(q, e) /\ q \in ToSet(out)
        BY <1>0, <1>1, <2>1, <2>3, <3>5, <4>1 DEF Cared
      <4> QED BY <4>2 DEF Cared
    <3> QED BY <3>2, <3>3, <3>4, <3>5
  <2> QED BY <2>2, <2>3
<1>13. PICK l : l = loops'
  OBVIOUS
<1>14. WalkD(fs, out, l)
  BY <1>6, <1>8, <1>10, <1>11, <1>12, <1>13 DEF WalkD, PassD
<1>15. PICK o : o = out
  OBVIOUS
<1> QED BY <1>0, <1>5, <1>7, <1>13, <1>14, <1>15, WalkDStays
\* A package that answers, is not listed and is not on its way can be visited.
LEMMA AnswerVisitable ==
    ASSUME InD, NEW e \in Dependency, Dep[e].type = "PreDepends", NEW q \in Package,
           Answers(q, e), ~Here(e), q \notin ToSet(out), \A j \in DOMAIN calls : calls[j].pkg # q
    PROVE  Visitable(q)
<1>1. q \in Changes(dc)
  BY AnswerChanges DEF InD
<1> QED BY <1>1, AddedIsOut DEF Visitable, Pending

LEMMA FramesTyped ==
    ASSUME NEW p \in Package, NEW depth
    PROVE  FrameOf(p, depth) \in Frame /\ FrameOf(p, depth).pkg = p
<1>1. Stages(p, "Pre", depth) \in Seq(Stage) /\ "Pre" \in Visitors
  BY StagesTyped DEF Visitors
<1> QED BY <1>1 DEF FrameOf, Frame

\* A call without one of its visits.
Unvisited(f, p) == [f EXCEPT !.visits = @ \ {p}]

LEMMA UnvisitedIs ==
    ASSUME NEW f \in Frame, NEW p
    PROVE  /\ Unvisited(f, p) \in Frame /\ Unvisited(f, p).pkg = f.pkg
           /\ Unvisited(f, p).visits = f.visits \ {p}
           /\ Unvisited(f, p).stages = f.stages
           /\ PreFrame(f) => PreFrame(Unvisited(f, p))
           /\ \A e : Left(f, e) <=> Left(Unvisited(f, p), e)
<1> PICK g : g = Unvisited(f, p)
  OBVIOUS
<1>1. /\ g \in Frame /\ g.pkg = f.pkg /\ g.visits = f.visits \ {p}
      /\ g.stages = f.stages /\ g.prim = f.prim /\ g.with = f.with
  BY DEF Unvisited, Frame
<1>2. ASSUME PreFrame(f) PROVE PreFrame(g)
  <2>1. PICK X \in SUBSET Dependency :
            /\ f.stages = Some("Pre", FALSE, X)
            /\ \A d \in X : /\ Dep[d].parent = dc.inst[f.pkg]
                            /\ Dep[d].type \in {"Depends", "PreDepends"}
    BY <1>2 DEF PreFrame
  <2>2. /\ g.stages = Some("Pre", FALSE, X)
        /\ \A d \in X : /\ Dep[d].parent = dc.inst[g.pkg]
                        /\ Dep[d].type \in {"Depends", "PreDepends"}
    BY <1>1, <2>1
  <2>3. g.prim = "Pre" /\ g.with = "Pre" /\ \A q \in g.visits : Reaches(g.pkg, q)
    BY <1>1, <1>2 DEF PreFrame
  <2> QED BY <2>2, <2>3 DEF PreFrame
<1> QED BY <1>1, <1>2 DEF Left

LEMMA DescendD ==
    ASSUME InD, PassD, Descend, UNCHANGED dc
    PROVE  PassD'
<1>0. calls # <<>> /\ out' = out /\ loops' = loops
  BY DEF Descend
<1> PICK n : n = Len(calls)
  OBVIOUS
<1>1. n \in Nat \ {0} /\ DOMAIN calls = 1..n /\ Top = calls[n] /\ Top \in Frame
      /\ Top.pkg \in Package /\ calls \in Seq(Frame) /\ Len(calls) = n
  BY <1>0, TopIs DEF InD
<1>2. PICK p \in Top.visits : Enter(Below \o <<Unvisited(Top, p)>>, p, Top.with)
  BY DEF Descend, Unvisited
<1>3. PreFrame(Top) /\ p \in Package
  <2>1. PreFrame(calls[n])
    BY <1>1 DEF PassD, WalkD
  <2>2. Top.visits \in SUBSET Package
    BY <1>1 DEF Frame
  <2> QED BY <1>1, <1>2, <2>1, <2>2
<1>4. Reaches(Top.pkg, p) /\ Top.with = "Pre"
  BY <1>2, <1>3 DEF PreFrame
<1>5. PICK g : g = Unvisited(Top, p)
  OBVIOUS
<1>6. /\ g \in Frame /\ g.pkg = Top.pkg /\ g.visits = Top.visits \ {p}
      /\ PreFrame(g) /\ \A e : Left(Top, e) => Left(g, e)
  BY <1>1, <1>3, <1>5, UnvisitedIs
<1>7. PICK fs : fs = Below \o <<g>>
  OBVIOUS
<1>8. /\ fs \in Seq(Frame) /\ Len(fs) = n /\ DOMAIN fs = 1..n
      /\ fs[n] = g /\ \A i \in 1..(n - 1) : fs[i] = calls[i]
  <2>1. fs \in Seq(Frame) /\ Len(fs) = n
        /\ fs[n] = g /\ \A i \in 1..(n - 1) : fs[i] = calls[i]
    BY <1>0, <1>1, <1>6, <1>7, TopChanged
  <2> QED BY <2>1
<1>9. \A i \in 1..n : fs[i].pkg = calls[i].pkg
  BY <1>1, <1>6, <1>8
<1>10. \A i \in 1..n : PreFrame(fs[i])
  <2>1. \A i \in 1..n : PreFrame(calls[i])
    BY <1>1 DEF PassD, WalkD
  <2> QED BY <1>1, <1>6, <1>8, <2>1
<1>11. \A i, j \in 1..n : i < j => Reaches(fs[i].pkg, fs[j].pkg)
  BY <1>1, <1>9 DEF PassD, WalkD
<1>12. loops \in Seq(Dependency) /\ (loops = <<>> => InOrder(out))
  BY DEF PassD, WalkD
\* What is cared for other than by visiting p stays so.
<1>13. ASSUME loops = <<>>, NEW i \in 1..n, NEW e \in PreDeps(fs[i].pkg), Answered(e)
       PROVE  \/ Cared(fs, out, i, e)
              \/ i = n /\ Answers(p, e) /\ Visitable(p)
  <2>0. e \in PreDeps(calls[i].pkg)
    BY <1>9, <1>13
  <2>1. Cared(calls, out, i, e)
    BY <1>1, <1>13, <2>0 DEF PassD, WalkD
  <2>2. CASE i # n
    <3>1. fs[i] = calls[i]
      BY <1>1, <1>8, <2>2
    <3> QED BY <1>1, <1>8, <1>9, <2>1, <3>1, CaredStays
  <2>3. CASE i = n
    <3>1. CASE Left(Top, e) \/ Here(e)
      BY <1>6, <1>8, <2>3, <3>1 DEF Cared
    <3>2. CASE ~Left(Top, e) /\ ~Here(e)
      <4>1. PICK q \in Package :
              /\ Answers(q, e)
              /\ \/ q \in ToSet(out)
                 \/ q \in Top.visits /\ \A j \in 1..n : calls[j].pkg # q
        BY <1>1, <2>1, <2>3, <3>2 DEF Cared
      <4>2. CASE q \in ToSet(out)
        BY <4>1, <4>2 DEF Cared
      <4>3. CASE q # p /\ q \in Top.visits /\ \A j \in 1..n : calls[j].pkg # q
        <5>1. q \in fs[n].visits /\ \A j \in 1..n : fs[j].pkg # q
          BY <1>6, <1>8, <1>9, <4>3
        <5> QED BY <2>3, <4>1, <5>1 DEF Cared
      <4>4. CASE q = p /\ q \notin ToSet(out) /\ \A j \in 1..n : calls[j].pkg # q
        <5>1. e \in Dependency /\ Dep[e].type = "PreDepends"
          BY <1>13 DEF PreDeps
        <5>2. Visitable(p)
          BY <1>1, <1>3, <3>2, <4>1, <4>4, <5>1, AnswerVisitable
        <5> QED BY <2>3, <4>1, <4>4, <5>2
      <4> QED BY <4>1, <4>2, <4>3, <4>4
    <3> QED BY <3>1, <3>2
  <2> QED BY <2>2, <2>3
<1>14. PICK o, l : o = out /\ l = loops
  OBVIOUS
<1>15. CASE ~Visitable(p)
  <2>1. calls' = fs
    BY <1>2, <1>5, <1>7, <1>15 DEF Enter
  <2>2. WalkD(fs, out, loops)
    <3>1. loops = <<>> =>
            \A i \in 1..n : \A e \in PreDeps(fs[i].pkg) : Answered(e) => Cared(fs, out, i, e)
      BY <1>13, <1>15
    <3> QED BY <1>8, <1>10, <1>11, <1>12, <3>1 DEF WalkD
  <2> QED BY <1>0, <1>14, <2>1, <2>2, WalkDStays
<1>16. CASE Visitable(p)
  <2>1. PICK f : f = FrameOf(p, Len(fs) + 1)
    OBVIOUS
  <2>2. calls' = Append(fs, f)
    BY <1>2, <1>4, <1>5, <1>7, <1>16, <2>1 DEF Enter, FrameOf
  <2>3. f \in Frame /\ f.pkg = p /\ PreFrame(f) /\ \A e \in PreDeps(p) : Left(f, e)
    BY <1>3, <2>1, FramesTyped, NewFrame DEF InD
  <2>4. PICK gs : gs = Append(fs, f)
    OBVIOUS
  <2>5. /\ gs \in Seq(Frame) /\ Len(gs) = n + 1 /\ DOMAIN gs = 1..(n + 1)
        /\ gs[n + 1] = f /\ \A i \in 1..n : gs[i] = fs[i]
    BY <1>1, <1>8, <2>3, <2>4
  <2>6. \A i \in 1..(n + 1) : PreFrame(gs[i])
    BY <1>1, <1>10, <2>3, <2>5
  <2>7. \A i, j \in 1..(n + 1) : i < j => Reaches(gs[i].pkg, gs[j].pkg)
    <3>1. \A i \in 1..n : Reaches(fs[i].pkg, p)
      <4> SUFFICES ASSUME NEW i \in 1..n PROVE Reaches(fs[i].pkg, p)
        OBVIOUS
      <4>1. CASE i # n
        <5>1. Reaches(fs[i].pkg, fs[n].pkg)
          BY <1>1, <1>11, <4>1
        <5>2. fs[i] \in Frame
          BY <1>8
        <5>3. fs[i].pkg \in Package
          BY <5>2 DEF Frame
        <5> QED BY <1>1, <1>3, <1>4, <1>6, <1>8, <5>1, <5>3, ReachesOn
      <4>2. CASE i = n
        <5>1. fs[i].pkg = Top.pkg
          BY <1>6, <1>8, <4>2
        <5> QED BY <1>4, <5>1
      <4> QED BY <4>1, <4>2
    <3> SUFFICES ASSUME NEW i \in 1..(n + 1), NEW j \in 1..(n + 1), i < j
                 PROVE  Reaches(gs[i].pkg, gs[j].pkg)
      OBVIOUS
    <3>2. i \in 1..n /\ gs[i].pkg = fs[i].pkg
      BY <1>1, <2>5
    <3>3. CASE j = n + 1
      BY <2>3, <2>5, <3>1, <3>2, <3>3
    <3>4. CASE j # n + 1
      <4>1. j \in 1..n /\ gs[j].pkg = fs[j].pkg
        BY <1>1, <2>5, <3>4
      <4> QED BY <1>11, <3>2, <4>1
    <3> QED BY <3>3, <3>4
  <2>8. ASSUME loops = <<>>, NEW i \in 1..(n + 1), NEW e \in PreDeps(gs[i].pkg), Answered(e)
        PROVE  Cared(gs, out, i, e)
    <3>1. CASE i = n + 1
      BY <2>3, <2>5, <2>8, <3>1 DEF Cared
    <3>2. CASE i \in 1..n /\ Cared(fs, out, i, e)
      BY <1>1, <1>8, <2>5, <3>2, CaredStays
    <3>3. CASE i = n /\ Answers(p, e)
      <4>1. i < Len(gs) /\ gs[i + 1].pkg = p
        BY <1>1, <2>3, <2>5, <3>3
      <4> QED BY <1>3, <3>3, <4>1 DEF Cared
    <3>4. CASE i \in 1..n
      <4>1. e \in PreDeps(fs[i].pkg)
        BY <2>5, <2>8, <3>4
      <4>2. Cared(fs, out, i, e) \/ (i = n /\ Answers(p, e))
        BY <1>13, <2>8, <3>4, <4>1
      <4> QED BY <3>2, <3>3, <3>4, <4>2
    <3> QED BY <1>1, <2>8, <3>1, <3>4
  <2>9. WalkD(gs, out, loops)
    BY <1>12, <2>5, <2>6, <2>7, <2>8 DEF WalkD
  <2> QED BY <1>0, <1>14, <2>2, <2>4, <2>9, WalkDStays
<1> QED BY <1>15, <1>16
LEMMA VisitNextD ==
    ASSUME InD, PassD, VisitNext, UNCHANGED dc
    PROVE  PassD'
<1>0. calls = <<>> /\ out' = out /\ loops' = loops /\ Enter(<<>>, list[at], "Pre")
  BY DEF VisitNext, Primary, InD
<1>1. loops \in Seq(Dependency) /\ (loops = <<>> => InOrder(out))
  BY DEF PassD, WalkD
<1>2. PICK p : p = list[at]
  OBVIOUS
<1>3. PICK o, l : o = out /\ l = loops
  OBVIOUS
<1>4. CASE ~Visitable(p)
  <2>1. calls' = <<>>
    BY <1>0, <1>2, <1>4 DEF Enter
  <2>2. WalkD(<<>>, out, loops)
    BY <1>1 DEF WalkD
  <2> QED BY <1>0, <1>3, <2>1, <2>2, WalkDStays
<1>5. CASE Visitable(p)
  <2>1. p \in Package
    <3>1. Has(p, "InList")
      BY <1>5 DEF Visitable
    <3>2. DOMAIN list = 1..Len(list) /\ list \in Seq(Package)
      BY DEF InD
    <3>3. at \in Nat \ {0} /\ at <= Len(list)
      BY DEF VisitNext, InD
    <3> QED BY <1>2, <3>2, <3>3
  <2>2. PICK f : f = FrameOf(p, 1)
    OBVIOUS
  <2>3. calls' = Append(<<>>, f)
    <3>1. Len(<<>>) + 1 = 1
      OBVIOUS
    <3> QED BY <1>0, <1>2, <1>5, <2>2, <3>1 DEF Enter, FrameOf
  <2>4. f \in Frame /\ f.pkg = p /\ PreFrame(f) /\ \A e \in PreDeps(p) : Left(f, e)
    BY <2>1, <2>2, FramesTyped, NewFrame DEF InD
  <2>5. PICK gs : gs = <<f>>
    OBVIOUS
  <2>6. gs \in Seq(Frame) /\ Len(gs) = 1 /\ DOMAIN gs = 1..1 /\ gs[1] = f /\ calls' = gs
    BY <2>3, <2>4, <2>5
  <2>7. WalkD(gs, out, loops)
    BY <1>1, <2>4, <2>6 DEF WalkD, Cared
  <2> QED BY <1>0, <1>3, <2>6, <2>7, WalkDStays
<1> QED BY <1>4, <1>5

\* A package is listed when what it needs first is.
LEMMA LeaveD ==
    ASSUME InD, PassD, Leave, UNCHANGED dc
    PROVE  PassD' /\ after' = after
<1> PICK n : n = Len(calls)
  OBVIOUS
<1>0. calls # <<>> /\ Top.visits = {} /\ Top.stages = <<>> /\ calls' = Below
      /\ loops' = loops
  BY DEF Leave
<1>1. n \in Nat \ {0} /\ DOMAIN calls = 1..n /\ Top = calls[n] /\ Top \in Frame
      /\ Top.pkg \in Package /\ calls \in Seq(Frame) /\ Len(calls) = n
  BY <1>0, TopIs DEF InD
<1>2. out' = Append(out, Top.pkg) /\ after' = after
  BY <1>1 DEF Leave, InD, Quiet
<1>3. PICK p \in Package : p = Top.pkg
  BY <1>1
<1>4. PICK fs : fs = Below
  OBVIOUS
<1>5. fs \in Seq(Frame) /\ Len(fs) = n - 1 /\ DOMAIN fs = 1..(n - 1)
      /\ \A i \in 1..(n - 1) : fs[i] = calls[i]
  <2>1. fs \in Seq(Frame) /\ Len(fs) = n - 1 /\ \A i \in 1..(n - 1) : fs[i] = calls[i]
    BY <1>0, <1>1, <1>4, BelowProperties
  <2> QED BY <1>1, <2>1
<1>6. PICK m \in Nat : m = Len(out) /\ DOMAIN out = 1..m
  BY DEF InD
<1>7. PICK o : o = Append(out, p)
  OBVIOUS
<1>8. /\ DOMAIN o = 1..(m + 1) /\ o[m + 1] = p /\ \A k \in 1..m : o[k] = out[k]
  BY <1>6, <1>7 DEF InD
<1>9. ToSet(o) = ToSet(out) \cup {p}
  BY <1>6, <1>8 DEF ToSet
<1>10. loops \in Seq(Dependency)
       /\ (loops = <<>> => InOrder(out))
       /\ (loops = <<>> => \A i \in 1..n : \A e \in PreDeps(calls[i].pkg) :
                              Answered(e) => Cared(calls, out, i, e))
  BY <1>1 DEF PassD, WalkD
<1>11. ASSUME loops = <<>> PROVE InOrder(o)
  <2>1. ASSUME NEW e \in PreDeps(p), Answered(e), ~Here(e)
        PROVE  \E j \in 1..m : Answers(out[j], e)
    <3>1. Cared(calls, out, n, e)
      BY <1>1, <1>3, <1>10, <1>11, <2>1
    <3>2. ~Left(calls[n], e)
      BY <1>0, <1>1 DEF Left
    <3>3. PICK q \in Package : Answers(q, e) /\ q \in ToSet(out)
      BY <1>0, <1>1, <2>1, <3>1, <3>2 DEF Cared
    <3> QED BY <1>6, <3>3 DEF ToSet
  <2>2. ASSUME NEW k \in 1..(m + 1), NEW e \in PreDeps(o[k]), Answered(e), ~Here(e)
        PROVE  \E j \in 1..(m + 1) : j < k /\ Answers(o[j], e)
    <3>1. CASE k = m + 1
      <4>1. e \in PreDeps(p)
        BY <1>8, <2>2, <3>1
      <4>2. PICK j \in 1..m : Answers(out[j], e)
        BY <2>1, <2>2, <4>1
      <4>3. j \in 1..(m + 1) /\ j < k /\ o[j] = out[j]
        BY <1>6, <1>8, <3>1
      <4> QED BY <4>2, <4>3
    <3>2. CASE k \in 1..m
      <4>1. e \in PreDeps(out[k])
        BY <1>8, <2>2, <3>2
      <4>2. PICK j \in DOMAIN out : j < k /\ Answers(out[j], e)
        BY <1>6, <1>10, <1>11, <2>2, <3>2, <4>1 DEF InOrder
      <4>3. j \in 1..(m + 1) /\ o[j] = out[j]
        BY <1>6, <1>8, <4>2
      <4> QED BY <4>2, <4>3
    <3> QED BY <1>6, <2>2, <3>1, <3>2
  <2> QED BY <1>8, <2>2 DEF InOrder
<1>12. ASSUME loops = <<>>, NEW i \in 1..(n - 1), NEW e \in PreDeps(fs[i].pkg), Answered(e)
       PROVE  Cared(fs, o, i, e)
  <2>1. i \in 1..n /\ fs[i] = calls[i] /\ Cared(calls, out, i, e)
    BY <1>1, <1>5, <1>10, <1>12
  <2>2. CASE Left(calls[i], e) \/ Here(e)
    BY <2>1, <2>2 DEF Cared
  <2>3. CASE ~(Left(calls[i], e) \/ Here(e))
    <3>1. PICK q \in Package :
            /\ Answers(q, e)
            /\ \/ q \in ToSet(out)
               \/ q \in calls[i].visits /\ \A j \in 1..i : calls[j].pkg # q
               \/ i < Len(calls) /\ calls[i + 1].pkg = q
      BY <2>1, <2>3 DEF Cared
    <3>2. CASE q \in ToSet(out)
      BY <1>9, <3>1, <3>2 DEF Cared
    <3>3. CASE q \in calls[i].visits /\ \A j \in 1..i : calls[j].pkg # q
      <4>1. \A j \in 1..i : fs[j] = calls[j]
        BY <1>1, <1>5
      <4> QED BY <2>1, <3>1, <3>3, <4>1 DEF Cared
    <3>4. CASE i < Len(calls) /\ calls[i + 1].pkg = q
      <4>1. CASE i + 1 = n
        BY <1>1, <1>3, <1>9, <3>1, <3>4, <4>1 DEF Cared
      <4>2. CASE i + 1 # n
        <5>1. i + 1 \in 1..(n - 1) /\ i < Len(fs)
          BY <1>1, <1>5, <4>2
        <5>2. fs[i + 1].pkg = q
          BY <1>5, <3>4, <5>1
        <5> QED BY <3>1, <5>1, <5>2 DEF Cared
      <4> QED BY <4>1, <4>2
    <3> QED BY <3>1, <3>2, <3>3, <3>4
  <2> QED BY <2>2, <2>3
<1>13. \A i \in 1..(n - 1) : PreFrame(fs[i])
  <2>1. \A i \in 1..n : PreFrame(calls[i])
    BY <1>1 DEF PassD, WalkD
  <2> QED BY <1>1, <1>5, <2>1
<1>14. \A i, j \in 1..(n - 1) : i < j => Reaches(fs[i].pkg, fs[j].pkg)
  <2>1. \A i, j \in 1..n : i < j => Reaches(calls[i].pkg, calls[j].pkg)
    BY <1>1 DEF PassD, WalkD
  <2> QED BY <1>1, <1>5, <2>1
<1>15. WalkD(fs, o, loops)
  BY <1>5, <1>10, <1>11, <1>12, <1>13, <1>14 DEF WalkD
<1>16. PICK l : l = loops
  OBVIOUS
<1> QED BY <1>0, <1>2, <1>3, <1>4, <1>7, <1>15, <1>16, WalkDStays
-----------------------------------------------------------------------------
(* The passes before, and the steps of the package manager.                 *)

LEMMA EnterQuiet ==
    ASSUME flag \in [Package -> SUBSET Flags], Quiet, NEW fs, NEW p, NEW prim,
           Enter(fs, p, prim), after' = after
    PROVE  Quiet'
<1>1. flag' = flag \/ flag' = [flag EXCEPT ![p] = @ \cup {"AddPending"}]
  BY DEF Enter
<1>2. \A q \in Package : "After" \notin flag'[q]
  BY <1>1 DEF Quiet, Has
<1> QED BY <1>2 DEF Quiet, Has

\* Where nothing is put off at first nothing is put off.
LEMMA OrderQuiet ==
    ASSUME Walk, Quiet, Order
    PROVE  Quiet'
<1>0. flag \in [Package -> SUBSET Flags] /\ calls \in Seq(Frame) /\ after = <<>>
  BY DEF Walk, WalkTypes, Quiet
<1>1. CASE VisitNext
  BY <1>0, <1>1, EnterQuiet DEF VisitNext
<1>2. CASE Descend
  BY <1>0, <1>2, EnterQuiet DEF Descend
<1>3. CASE Consider
  <2>1. PICK s : s = Head(Top.stages)
    OBVIOUS
  <2>2. PICK d \in s.deps :
           \E late \in IF s.fn = "Conf" THEN {FALSE} ELSE Inherits(d, s.rev) :
              flag' = IF late THEN [flag EXCEPT ![Parent(d)] = @ \cup {"After"}] ELSE flag
    BY <1>3, <2>1 DEF Consider
  <2>3. d \in Dependency
    <3>1. Top \in Frame /\ Top.stages # <<>>
      BY <1>0, <1>3, TopIs DEF Consider
    <3>2. Top.stages \in Seq(Stage)
      BY <3>1 DEF Frame
    <3>3. s \in Stage
      BY <2>1, <3>1, <3>2
    <3> QED BY <2>2, <3>3 DEF Stage
  <2>4. flag' = flag
    BY <2>2, <2>3, NobodyInherits
  <2> QED BY <1>3, <2>4 DEF Consider, Quiet, Has
<1>4. CASE Leave
  <2>1. Top.pkg \in Package
    BY <1>0, <1>4, TopIs DEF Leave
  <2>2. after' = after
    BY <1>4, <2>1 DEF Leave, Quiet
  <2>3. flag' = [flag EXCEPT ![Top.pkg] = (@ \ {"AddPending"}) \cup {"Added"}]
    BY <1>4 DEF Leave
  <2>4. \A q \in Package : "After" \notin flag'[q]
    BY <1>0, <2>1, <2>3 DEF Quiet, Has
  <2> QED BY <2>2, <2>4 DEF Quiet, Has
<1>5. CASE EndPass
  <2>1. after' = <<>> /\ (flag' = flag \/ flag' = Begun(flag, ToSet(out \o after)))
    BY <1>5 DEF EndPass
  <2>2. \A q \in Package : "After" \notin flag'[q]
    BY <1>0, <2>1 DEF Quiet, Has, Begun
  <2> QED BY <2>1, <2>2 DEF Quiet, Has
<1> QED BY <1>1, <1>2, <1>3, <1>4, <1>5 DEF Order

LEMMA PassDKept ==
    ASSUME NoHiddenLoop, MaxLoops # 0, Walk, dc \in Plans, Quiet, PassD, pass = "D",
           \A p \in Package : IsNow(p), Order, UNCHANGED dc
    PROVE  \/ pass' = "D" /\ PassD'
           \/ pass' = "none" /\ (loops' = <<>> => InOrder(list)')
<1>1. InD
  BY DEF Walk, WalkTypes, InD
<1>2. CASE VisitNext
  BY <1>1, <1>2, VisitNextD DEF VisitNext
<1>3. CASE Consider
  BY <1>1, <1>3, ConsiderD DEF Consider
<1>4. CASE Descend
  BY <1>1, <1>4, DescendD DEF Descend
<1>5. CASE Leave
  BY <1>1, <1>5, LeaveD DEF Leave
<1>6. CASE EndPass
  <2>1. pass' = "none" /\ list' = out \o <<>> /\ loops' = loops
    BY <1>6 DEF EndPass, Quiet
  <2>2. list' = out
    BY <1>1, <2>1 DEF InD
  <2>3. loops = <<>> => InOrder(out)
    BY DEF PassD, WalkD
  <2>4. PICK s : s = out
    OBVIOUS
  <2> QED BY <2>1, <2>2, <2>3, <2>4, InOrderStays
<1> QED BY <1>2, <1>3, <1>4, <1>5, <1>6 DEF Order

LEMMA PassDBegins ==
    ASSUME Walk, EndPass, pass' = "D"
    PROVE  PassD'
<1>1. calls' = <<>> /\ out' = <<>> /\ loops' = <<>>
  BY DEF EndPass
<1>2. WalkD(<<>>, <<>>, <<>>)'
  BY DEF WalkD, InOrder
<1> QED BY <1>1, <1>2 DEF PassD

LEMMA OrderingPre ==
    ASSUME NoHiddenLoop, MaxLoops # 0, Walk, Assembly, Legs, Pre, Ordering
    PROVE  Pre'
<1>0. Order /\ pass # "none" /\ SameNow /\ UNCHANGED <<dc, pc, sys, ops, next, nodeps>>
  BY OrderingNow DEF Ordering, vars, pmVars
<1> SUFFICES ASSUME ~nodeps
             PROVE  /\ FirstLeg'
                    /\ pc = "order" /\ pass' = "D" => PassD'
                    /\ pc = "order" /\ pass' = "none" =>
                          InStep' /\ (loops' = <<>> => InOrder(list)')
  <2>1. ~nodeps => FirstLeg /\ pc # "go"
    BY <1>0 DEF Pre, FirstLeg
  <2> QED BY <1>0, <2>1 DEF Pre
<1>1. FirstLeg /\ pc \in {"queue", "order"} /\ (pc = "order" /\ pass = "D" => PassD)
  BY <1>0 DEF Pre, FirstLeg
<1>2. pc = "order" => Quiet' /\ \A p \in Package : IsNow(p)'
  BY <1>0, <1>1, OrderQuiet DEF FirstLeg, SameNow
<1>3. FirstLeg'
  BY <1>0, <1>1, <1>2 DEF FirstLeg, SameNow
<1>4. ASSUME pc = "order", pass = "D"
      PROVE  \/ pass' = "D" /\ PassD'
             \/ pass' = "none" /\ (loops' = <<>> => InOrder(list)')
  BY <1>0, <1>1, <1>4, PassDKept DEF FirstLeg, Legs
<1>5. ASSUME pass # "D", pass' = "D" \/ pass' = "none" PROVE pass' = "D" /\ PassD'
  <2>1. EndPass
    BY <1>0, <1>5 DEF Order, VisitNext, Consider, Descend, Leave
  <2>2. pass' = "D"
    BY <1>0, <1>5, <2>1 DEF EndPass, Walk, WalkTypes, Passes
  <2> QED BY <2>1, <2>2, PassDBegins
<1>6. pc = "order" /\ pass' = "none" => InStep'
  <2> SUFFICES ASSUME pc = "order" PROVE InStep'
    OBVIOUS
  <2>1. ops' = <<>> /\ next' = 1
    BY <1>0 DEF Legs, Transaction, Assembly
  <2>2. list' \in Seq(Package)
    BY OrderingKeeps DEF Walk, WalkTypes
  <2>3. \A k \in DOMAIN list' : list'[k] \in Package /\ k \in Nat /\ ~(k < 1)
    BY <2>2
  <2>4. \A k \in DOMAIN list' : IsNow(list[k])'
    BY <1>2, <2>3
  <2> QED BY <2>1, <2>3, <2>4 DEF InStep
<1> QED BY <1>0, <1>1, <1>3, <1>4, <1>5, <1>6
\* While archives are fetched nothing is done.
LEMMA FetchingPre ==
    ASSUME Pre, GetArchives \/ QueueArchives \/ Fetch \/ FetchFails
    PROVE  Pre'
<1> SUFFICES ASSUME ~nodeps' PROVE FirstLeg' /\ pc' \notin {"order", "go"}
  BY DEF Pre
<1>0. ~nodeps
  BY DEF GetArchives, QueueArchives, Fetch, FetchFails
<1>1. SameNow
  <2>1. CASE GetArchives
    BY <2>1, UnpackNow DEF GetArchives
  <2>2. CASE QueueArchives \/ Fetch \/ FetchFails
    BY <2>2 DEF QueueArchives, Fetch, FetchFails, SameNow, IsNow, listVars
  <2> QED BY <2>1, <2>2
<1>2. FirstLeg
  BY <1>0 DEF Pre
<1>3. /\ pc \in {"archives", "queue", "fetch"} /\ sys' = sys
      /\ pc' \in {"queue", "fetch", "archives", "install", "failed"}
      /\ pass' # "none" => pc' = "queue"
  <2>1. CASE GetArchives
    BY <2>1 DEF GetArchives
  <2>2. CASE QueueArchives
    BY <2>2 DEF QueueArchives
  <2>3. CASE Fetch
    BY <1>2, <2>3 DEF Fetch, FirstLeg
  <2>4. CASE FetchFails
    BY <1>2, <2>4 DEF FetchFails, listVars, FirstLeg
  <2> QED BY <2>1, <2>2, <2>3, <2>4
<1> QED BY <1>1, <1>2, <1>3 DEF FirstLeg, SameNow

\* No archive is missing, so none is put off.
LEMMA OrderInstallPre ==
    ASSUME Walk, Legs, Pre, OrderInstall
    PROVE  Pre'
<1>0. SameNow /\ pc = "install" /\ pc' = "order" /\ pass' = "A"
      /\ UNCHANGED <<dc, sys, nodeps>> /\ OrderUnpack(TRUE)
  BY UnpackNow DEF OrderInstall, vars
<1> SUFFICES ASSUME ~nodeps PROVE FirstLeg'
  BY <1>0 DEF Pre
<1>1. FirstLeg /\ ~transient
  BY <1>0 DEF Pre, Legs, Archives
<1>2. after' = <<>>
  BY DEF Walk, Idle, OrderInstall, OrderUnpack
<1>3. {p \in ToSet(list) : NoFile(p) /\ IsNow(p)} = {}
  <2>1. ToSet(list) = Changes(dc) /\ Changes(dc) \subseteq Package
    BY DEF Walk, ListComplete, Changes
  <2>2. \A p \in Package : ~(ToUnpack(p) /\ p \notin files)
    BY <1>0, <1>1 DEF Legs, Archives
  <2> QED BY <2>1, <2>2 DEF ToUnpack, NoFile
<1>4. flag' = Begun([p \in Package |-> flag[p] \ {"After"}], ToSet(list))
  <2>1. PICK gone : gone = {p \in ToSet(list) : NoFile(p) /\ IsNow(p)}
    OBVIOUS
  <2>2. flag' = Begun([p \in Package |-> IF p \in gone THEN flag[p] \cup {"After"}
                                         ELSE flag[p] \ {"After"}], ToSet(list))
    BY <1>0, <2>1 DEF OrderUnpack
  <2>3. \A p \in Package : p \notin gone
    BY <1>3, <2>1
  <2>4. [p \in Package |-> IF p \in gone THEN flag[p] \cup {"After"} ELSE flag[p] \ {"After"}]
           = [p \in Package |-> flag[p] \ {"After"}]
    BY <2>3
  <2> QED BY <2>2, <2>4
<1>5. \A p \in Package : "After" \notin flag'[p]
  BY <1>4 DEF Begun
<1>6. Quiet'
  BY <1>2, <1>5 DEF Quiet, Has
<1> QED BY <1>0, <1>1, <1>6 DEF FirstLeg, SameNow

\* What is not removed by rpm itself is handed to it in the order of the list.
LEMMA PerformPre ==
    ASSUME RpmSystem, Walk, Assembly, Legs, Pre, Perform
    PROVE  Pre'
<1>0. Assembling /\ IsNow(list[next]) /\ ~IsMissing(list[next])
      /\ UNCHANGED <<dc, list, loops, pass, sys, nodeps>>
  BY DEF Perform, vars
<1>1. next \in DOMAIN list /\ next \in Nat /\ list \in Seq(Package) /\ IsInjective(list)
      /\ pc = "order" /\ pass = "none"
  BY <1>0 DEF Assembling, Assembly, Walk, WalkTypes, ListComplete
<1>2. PICK p \in Package : p = list[next]
  BY <1>1
<1>3. pc' = "order" /\ next' = next + 1
      /\ IF Deletes(p) THEN SmartRemove(p) ELSE SmartUnPack(p)
  <2>1. ~Refuses(p)
    BY <1>2, NothingRefused DEF RpmSystem
  <2> QED BY <1>0, <1>1, <1>2, <2>1 DEF Perform
<1> SUFFICES ASSUME ~nodeps
             PROVE  FirstLeg' /\ InStep' /\ (loops' = <<>> => InOrder(list)')
  BY <1>0, <1>1, <1>3 DEF Pre
<1>4. FirstLeg /\ InStep /\ (loops = <<>> => InOrder(list))
  BY <1>1 DEF Pre
<1>5. FirstLeg'
  BY <1>0, <1>1, <1>3, <1>4 DEF FirstLeg
<1>6. loops' = <<>> => InOrder(list)'
  <2>1. PICK s : s = list
    OBVIOUS
  <2> QED BY <1>0, <1>4, <2>1, InOrderStays
<1>7. \A q \in Package : q # p /\ IsNow(q) => IsNow(q)'
  <2>1. flag \in [Package -> SUBSET Flags]
    BY DEF Walk, WalkTypes
  <2>2. \/ flag' = [flag EXCEPT ![p] = (@ \ States) \cup {"Configured"}]
        \/ flag' = [flag EXCEPT ![p] = (@ \ States) \cup {"UnPacked"}]
    BY <1>3 DEF SmartRemove, SmartUnPack
  <2> QED BY <2>1, <2>2 DEF IsNow, States
<1>8. ASSUME NEW k \in DOMAIN list, k >= next + 1, NEW q, q = list[k] PROVE IsNow(q)'
  <2>1. q # p /\ q \in Package
    BY <1>1, <1>2, <1>8 DEF IsInjective
  <2>2. IsNow(q)
    BY <1>1, <1>4, <1>8 DEF InStep
  <2> QED BY <1>7, <2>1, <2>2
<1>9. (\A k \in DOMAIN list : k >= next => IsNow(list[k]))'
  BY <1>0, <1>3, <1>8
<1>10. ops \in Seq(OpInfo)
  BY DEF Legs, Transaction
<1>11. \/ ops' = ops /\ Deletes(p)
       \/ \E o \in OpInfo : /\ ops' = Append(ops, o) /\ o.pkg = p
                            /\ ~Deletes(p) => o.op = "Install"
  BY <1>3 DEF SmartRemove, SmartUnPack, OpInfo
<1>12. CASE ops' = ops /\ Deletes(p)
  <2>1. \A i \in DOMAIN ops : \E k \in DOMAIN list : k < next + 1 /\ list[k] = ops[i].pkg
    BY <1>1, <1>4 DEF InStep
  <2>2. \A k \in DOMAIN list : k < next + 1 /\ ~Deletes(list[k]) =>
          \E i \in DOMAIN ops : ops[i].op = "Install" /\ ops[i].pkg = list[k]
    BY <1>1, <1>2, <1>4, <1>12 DEF InStep
  <2> QED BY <1>0, <1>3, <1>4, <1>5, <1>6, <1>9, <1>12, <2>1, <2>2 DEF InStep, Deletes
<1>13. CASE \E o \in OpInfo : /\ ops' = Append(ops, o) /\ o.pkg = p
                              /\ ~Deletes(p) => o.op = "Install"
  <2>1. PICK o \in OpInfo : /\ ops' = Append(ops, o) /\ o.pkg = p
                            /\ ~Deletes(p) => o.op = "Install"
    BY <1>13
  <2>2. PICK m \in Nat : m = Len(ops) /\ DOMAIN ops = 1..m
    BY <1>10
  <2>3. PICK r : r = ops'
    OBVIOUS
  <2>4. DOMAIN r = 1..(m + 1) /\ r[m + 1] = o /\ \A i \in 1..m : r[i] = ops[i]
    BY <1>10, <2>1, <2>2, <2>3
  <2>5. \A i \in 1..(m + 1) : \E k \in DOMAIN list : k < next + 1 /\ list[k] = r[i].pkg
    <3>1. \A i \in 1..m : \E k \in DOMAIN list : k < next + 1 /\ list[k] = r[i].pkg
      BY <1>1, <1>4, <2>2, <2>4 DEF InStep
    <3>2. \E k \in DOMAIN list : k < next + 1 /\ list[k] = r[m + 1].pkg
      <4>1. next < next + 1 /\ list[next] = r[m + 1].pkg
        BY <1>1, <1>2, <2>1, <2>4
      <4> QED BY <1>1, <4>1
    <3>3. \A i \in 1..(m + 1) : i \in 1..m \/ i = m + 1
      BY <2>2
    <3> QED BY <3>1, <3>2, <3>3
  <2>6. \A k \in DOMAIN list : k < next + 1 /\ ~Deletes(list[k]) =>
           \E i \in 1..(m + 1) : r[i].op = "Install" /\ r[i].pkg = list[k]
    <3> SUFFICES ASSUME NEW k \in DOMAIN list, k < next + 1, ~Deletes(list[k])
                 PROVE  \E i \in 1..(m + 1) : r[i].op = "Install" /\ r[i].pkg = list[k]
      OBVIOUS
    <3>1. CASE k = next
      BY <1>2, <2>1, <2>2, <2>4, <3>1
    <3>2. CASE k # next
      <4>1. k < next
        BY <1>1, <3>2
      <4>2. PICK i \in DOMAIN ops : ops[i].op = "Install" /\ ops[i].pkg = list[k]
        BY <1>4, <4>1 DEF InStep
      <4> QED BY <2>2, <2>4, <4>2
    <3> QED BY <3>1, <3>2
  <2>7. ASSUME NEW i \in 1..(m + 1), NEW j \in 1..(m + 1), NEW k \in DOMAIN list,
               NEW l \in DOMAIN list, r[i].pkg = list[k], r[j].pkg = list[l], k < l
        PROVE  i < j
    <3>1. \A a \in 1..m, b \in DOMAIN list : r[a].pkg = list[b] => b < next
      <4> SUFFICES ASSUME NEW a \in 1..m, NEW b \in DOMAIN list, r[a].pkg = list[b]
                   PROVE  b < next
        OBVIOUS
      <4>1. PICK c \in DOMAIN list : c < next /\ list[c] = ops[a].pkg
        BY <1>4, <2>2 DEF InStep
      <4>2. list[c] = list[b]
        BY <2>2, <2>4, <4>1
      <4>3. c = b
        BY <1>1, <4>2 DEF IsInjective
      <4> QED BY <4>1, <4>3
    <3>2. \A b \in DOMAIN list : r[m + 1].pkg = list[b] => b = next
      BY <1>1, <1>2, <2>1, <2>4 DEF IsInjective
    <3>3. CASE i = m + 1
      <4>1. k = next
        BY <2>7, <3>2, <3>3
      <4>2. j = m + 1 => l = next
        BY <2>7, <3>2
      <4>3. j \in 1..m => l < next
        BY <2>7, <3>1
      <4> QED BY <1>1, <2>2, <2>7, <4>1, <4>2, <4>3
    <3>4. CASE i \in 1..m /\ j = m + 1
      BY <2>2, <3>4
    <3>5. CASE i \in 1..m /\ j \in 1..m
      <4>1. i \in DOMAIN ops /\ j \in DOMAIN ops /\ ops[i].pkg = list[k] /\ ops[j].pkg = list[l]
        BY <2>2, <2>4, <2>7, <3>5
      <4> QED BY <1>4, <2>7, <4>1 DEF InStep
    <3> QED BY <2>2, <3>3, <3>4, <3>5
  <2>8. InStep'
    BY <1>0, <1>3, <1>9, <2>3, <2>4, <2>5, <2>6, <2>7 DEF InStep, Deletes
  <2> QED BY <1>5, <1>6, <2>8
<1> QED BY <1>11, <1>12, <1>13

\* OrderInstall ends, or goes on with what is listed next.
LEMMA AssembledPre ==
    ASSUME Walk, Assembly, Pre, Skip \/ Incomplete \/ ConfigureAll
    PROVE  Pre'
<1>0. /\ pc = "order" /\ pass = "none"
      /\ UNCHANGED <<dc, list, loops, pass, sys, nodeps, ops>>
      /\ \/ pc' = "go" /\ next' = next
         \/ pc' = "internal"
         \/ pc' = "order" /\ next' = next + 1 /\ flag' = flag /\ ~IsNow(list[next])
            /\ next <= Len(list)
  <2>1. CASE Skip
    BY <2>1 DEF Skip, Assembling, vars, listVars
  <2>2. CASE Incomplete
    BY <2>2 DEF Incomplete, Assembling, vars, listVars
  <2>3. CASE ConfigureAll
    BY <2>3 DEF ConfigureAll, vars
  <2> QED BY <2>1, <2>2, <2>3
<1> SUFFICES ASSUME ~nodeps
             PROVE  /\ FirstLeg'
                    /\ pc' \in {"order", "go"} => InStep' /\ (loops' = <<>> => InOrder(list)')
  BY <1>0 DEF Pre
<1>1. FirstLeg /\ InStep /\ (loops = <<>> => InOrder(list))
  BY <1>0 DEF Pre
<1>2. pc' # "order"
  <2>1. next \in Nat \ {0} /\ list \in Seq(Package)
    BY DEF Assembly, Walk, WalkTypes
  <2>2. next \in DOMAIN list => IsNow(list[next])
    BY <1>0, <1>1, <2>1 DEF InStep
  <2>3. next <= Len(list) => next \in DOMAIN list
    BY <2>1
  <2> QED BY <1>0, <2>2, <2>3
<1>3. FirstLeg'
  BY <1>0, <1>1, <1>2 DEF FirstLeg
<1>4. loops' = <<>> => InOrder(list)'
  <2>1. PICK s : s = list
    OBVIOUS
  <2> QED BY <1>0, <1>1, <2>1, InOrderStays
<1>5. pc' = "go" => InStep'
  BY <1>0, <1>1, <1>2 DEF InStep, Deletes
<1> QED BY <1>0, <1>2, <1>3, <1>4, <1>5

\* Whether rpm accepts it or not, a transaction with everything in it is the last.
LEMMA AppliedPre ==
    ASSUME Legs, Pre, Succeed \/ Fail
    PROVE  Pre'
<1>0. /\ pc = "go" /\ UNCHANGED <<nodeps, pass>>
      /\ pc' \in {"failed", "done", "archives"}
      /\ pc' = "archives" => transient \/ ~complete
  <2>1. CASE Succeed
    BY <2>1 DEF Succeed, listVars
  <2>2. CASE Fail
    BY <2>2 DEF Fail, listVars
  <2> QED BY <2>1, <2>2
<1> SUFFICES ASSUME ~nodeps PROVE FirstLeg'
  BY <1>0 DEF Pre
<1>1. ~transient /\ complete
  BY <1>0 DEF Legs, Archives
<1>2. pass = "none"
  BY <1>0 DEF Pre, FirstLeg
<1> QED BY <1>0, <1>1, <1>2 DEF FirstLeg

LEMMA BeginPre == ASSUME Begin PROVE Pre
<1>0. pc = "archives" /\ pass = "none" /\ sys = [p \in Package |-> Pkg[p].current]
      /\ flag = [p \in Package |-> IF p \in AtOnce(dc) THEN {"Immediate"} ELSE {}]
  BY DEF Begin
<1>1. \A p \in Package : IsNow(p)
  BY <1>0 DEF IsNow, States
<1> QED BY <1>0, <1>1 DEF Pre, FirstLeg

LEMMA PreStutters ==
    ASSUME Pre, UNCHANGED allVars
    PROVE  Pre'
<1>1. UNCHANGED <<dc, flag, list, out, after, pass, calls, loops, pc, next, ops, nodeps, sys>>
  BY DEF allVars, vars, listVars, pmVars
<1>2. FirstLeg' <=> FirstLeg
  BY <1>1 DEF FirstLeg, Quiet, Has, IsNow
<1>3. PassD => PassD'
  <2>1. PICK fs, o, l : fs = calls /\ o = out /\ l = loops
    OBVIOUS
  <2> QED BY <1>1, <2>1, WalkDStays DEF PassD
<1>4. InStep' <=> InStep
  BY <1>1 DEF InStep, Deletes, IsNow
<1>5. InOrder(list) => InOrder(list)'
  <2>1. PICK s : s = list
    OBVIOUS
  <2> QED BY <1>1, <2>1, InOrderStays
<1> QED BY <1>1, <1>2, <1>3, <1>4, <1>5 DEF Pre

LEMMA PreKept ==
    ASSUME RpmSystem, NoHiddenLoop, MaxLoops # 0, Manager, Pre, [Step]_allVars
    PROVE  Pre'
<1>1. Walk /\ Assembly /\ Legs
  BY DEF Manager
<1>2. CASE Ordering
  BY <1>1, <1>2, OrderingPre
<1>3. CASE GetArchives \/ QueueArchives \/ Fetch \/ FetchFails
  BY <1>3, FetchingPre
<1>4. CASE OrderInstall
  BY <1>1, <1>4, OrderInstallPre
<1>5. CASE Perform
  BY <1>1, <1>5, PerformPre
<1>6. CASE Skip \/ Incomplete \/ ConfigureAll
  BY <1>1, <1>6, AssembledPre
<1>7. CASE Succeed \/ Fail
  BY <1>1, <1>7, AppliedPre
<1>8. CASE UNCHANGED allVars
  BY <1>8, PreStutters
<1> QED BY <1>2, <1>3, <1>4, <1>5, <1>6, <1>7, <1>8 DEF Step

\* What is unpacked finds what it pre-depends on in the system, or earlier in the
\* transaction.
LEMMA PreMet ==
    ASSUME NothingIgnored, GroupsAlike, Manager, Pre, pc = "go", ~nodeps, loops = <<>>
    PROVE  PreDependsMet
<1>1. dc \in Plans /\ ops \in Seq(OpInfo) /\ InStep /\ InOrder(list)
      /\ (\A p \in Package : sys[p] = Pkg[p].current)
      /\ (\A k \in DOMAIN list : list[k] \in Package /\ k \in Nat) /\ next \in Nat
  BY DEF Manager, Legs, Transaction, Pre, FirstLeg, Walk, WalkTypes, Assembly
<1> SUFFICES ASSUME NEW i \in DOMAIN ops, ops[i].op = "Install", NEW d \in Dependency,
                    Dep[d].parent = dc.inst[ops[i].pkg], Dep[d].type = "PreDepends",
                    Dep[d].last
             PROVE  \/ \E e \in Dep[d].alts : Present(sys, e)
                    \/ \E e \in Dep[d].alts, j \in 1..(i - 1) :
                          ops[j].op = "Install" /\ Meets(e, dc.inst[ops[j].pkg])
  BY DEF PreDependsMet
<1>2. PICK k \in DOMAIN list : k < next /\ list[k] = ops[i].pkg
  BY <1>1 DEF InStep
<1>3. d \in PreDeps(list[k])
  BY <1>2 DEF PreDeps
<1>4. PICK e \in Dep[d].alts : e \in PreDeps(list[k]) /\ Answered(e)
  BY <1>1, <1>3, GroupAnswered
<1>5. Here(e) \/ \E j \in DOMAIN list : j < k /\ Answers(list[j], e)
  BY <1>1, <1>4 DEF InOrder
<1>6. CASE Here(e)
  BY <1>1, <1>6 DEF Here, Present
<1>7. CASE \E j \in DOMAIN list : j < k /\ Answers(list[j], e)
  <2>1. PICK l \in DOMAIN list : l < k /\ Answers(list[l], e)
    BY <1>7
  <2>2. e \in Dependency /\ Dep[e].type = "PreDepends" /\ list[l] \in Package /\ l < next
    BY <1>1, <1>2, <1>4, <2>1 DEF PreDeps
  <2>3. dc.inst[list[l]] \in Version
    BY <1>1, <2>1, <2>2, AnswerIsTarget
  <2>4. ~Deletes(list[l])
    BY <1>1, <2>2, <2>3, PlanVersions, CacheAssumption DEF Deletes
  <2>5. PICK j \in DOMAIN ops : ops[j].op = "Install" /\ ops[j].pkg = list[l]
    BY <1>1, <2>2, <2>4 DEF InStep
  <2>6. j < i
    BY <1>1, <1>2, <2>1, <2>5 DEF InStep
  <2>7. j \in 1..(i - 1)
    BY <1>1, <2>5, <2>6
  <2> QED BY <2>1, <2>5, <2>7 DEF Answers
<1> QED BY <1>5, <1>6, <1>7

\* As long as no disc was changed and no loop was found, a package that is unpacked finds
\* every pre-dependency in the system or before it in the transaction (DepUnPackPre in
\* the last pass of OrderUnpack).
THEOREM PreDependenciesFirst ==
    ASSUME RpmSystem, NothingIgnored, GroupsAlike, NoHiddenLoop, MaxLoops # 0
    PROVE  Run => []PreDependsFirst
<1>1. Manager /\ Pre => PreDependsFirst
  BY PreMet DEF PreDependsFirst
<1>2. Begin => Manager /\ Pre
  BY ManagerInit, BeginPre
<1>3. Manager /\ Pre /\ [Step]_allVars => (Manager /\ Pre)'
  BY ManagerNext, PreKept
<1> QED BY <1>1, <1>2, <1>3, PTL DEF Run
=============================================================================
