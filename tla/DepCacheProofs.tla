---------------------------- MODULE DepCacheProofs ----------------------------
(***************************************************************************)
(* What is cached about every package is exact after any sequence of marks *)
(* (DepCache), whatever the packages, their versions and their             *)
(* dependencies are.                                                       *)
(***************************************************************************)
EXTENDS DepCache, FiniteSetTheorems, WellFoundedInduction, TLAPS

\* All versions of a package provide the same.
SameProvides ==
    \A v, w \in Version : Ver[v].pkg = Ver[w].pkg => Ver[v].provides = Ver[w].provides

OfPackage(v, p) == v \in Version /\ Ver[v].pkg = p

\* s and u agree about every package but p.
Agree(s, u, p) ==
    \A q \in Package \ {p} : s.inst[q] = u.inst[q] /\ s.cand[q] = u.cand[q]

\* Whatever p was or is to become, Update looks at what that version provides.
Looked(u, p)  == {Pkg[p].current, u.cand[p]} \ {NoVer}
Planned(s, p) == {s.inst[p], s.cand[p]} \ {NoVer}
Covered(s, u, p) ==
    \A v \in Planned(s, p) : \E w \in Looked(u, p) : Ver[v].provides = Ver[w].provides

-----------------------------------------------------------------------------
\* A dependency that Update leaves out has not changed: a version of p that meets it,
\* was or is to be chosen, would have put it in.
LEMMA OneVersionSame ==
    ASSUME NEW s, NEW u, NEW p \in Package, NEW d \in Dependency, NEW k \in Kinds,
           NEW v \in Version,
           Agree(s, u, p), Covered(s, u, p), Covered(u, u, p), d \notin Affected(u, p),
           Meets(d, v)
    PROVE  (Chosen(s, Ver[v].pkg, k) = v) <=> (Chosen(u, Ver[v].pkg, k) = v)
<1>0. Ver[v].pkg \in Package /\ NoVer \notin Version
  BY CacheAssumption DEF VersionInfo
<1>1. CASE Ver[v].pkg # p
  BY <1>0, <1>1 DEF Agree, Chosen, Kinds
<1>2. CASE Ver[v].pkg = p /\ Dep[d].target = p
  BY <1>2 DEF Affected
<1>3. CASE Ver[v].pkg = p /\ Dep[d].target # p
  <2>1. Dep[d].target \in Ver[v].provides
    BY <1>3 DEF Meets
  <2>2. \A w \in Looked(u, p) : Ver[v].provides # Ver[w].provides
    BY <2>1 DEF Affected, Looked
  <2>3. v \notin Planned(s, p) /\ v \notin Planned(u, p)
    BY <2>2 DEF Covered
  <2>4. s.inst[p] # v /\ s.cand[p] # v /\ u.inst[p] # v /\ u.cand[p] # v
    BY <1>0, <2>3 DEF Planned
  <2> QED BY <1>3, <2>4 DEF Chosen, Kinds
<1> QED BY <1>1, <1>2, <1>3

LEMMA DependencySame ==
    ASSUME NEW s, NEW u, NEW p \in Package, NEW d \in Dependency,
           Agree(s, u, p), Covered(s, u, p), Covered(u, u, p), d \notin Affected(u, p)
    PROVE  DependencyState(s, d) = DependencyState(u, d)
<1>1. ASSUME NEW k \in Kinds PROVE CheckDep(s, d, k) = CheckDep(u, d, k)
  BY OneVersionSame DEF CheckDep
<1> QED BY <1>1 DEF DependencyState

-----------------------------------------------------------------------------
(* The sum AllSizes is.                                                     *)

\* Induction over the natural numbers, for a set.
LEMMA NatSet ==
    ASSUME NEW S, 0 \in S, \A n \in Nat : n \in S => n + 1 \in S
    PROVE  Nat \subseteq S
<1> SUFFICES ASSUME Nat \ S # {} PROVE FALSE
  OBVIOUS
<1> DEFINE R == OpToRel(<, Nat)
<1>1. IsWellFoundedOn(R, Nat)
  BY NatLessThanWellFounded
<1>2. PICK x \in Nat \ S : \A y \in Nat \ S : <<y, x>> \notin R
  BY <1>1, WFMin
<1>3. \A y \in Nat : y < x => <<y, x>> \in R
  BY DEF OpToRel
<1>4. x - 1 \in Nat /\ x - 1 < x
  OBVIOUS
<1>5. x - 1 \in S
  BY <1>2, <1>3, <1>4
<1> QED BY <1>4, <1>5

AnyOf(T) == CHOOSE x \in T : TRUE

\* One step of the sum of h over T, if g is the sum over smaller sets.
Adds(h, g, T) == IF T = {} THEN 0 ELSE h[AnyOf(T)] + g[T \ {AnyOf(T)}]

SumOf(h) == {g \in [SUBSET Package -> Int] : \A T \in SUBSET Package : g[T] = Adds(h, g, T)}

LEMMA Smaller ==
    ASSUME NEW T \in SUBSET Package
    PROVE  /\ IsFiniteSet(T) /\ Cardinality(T) \in Nat
           /\ T = {} <=> Cardinality(T) = 0
           /\ T # {} => /\ AnyOf(T) \in T /\ T \ {AnyOf(T)} \in SUBSET Package
                        /\ Cardinality(T \ {AnyOf(T)}) = Cardinality(T) - 1
<1>1. IsFiniteSet(T) /\ Cardinality(T) \in Nat
  BY CacheAssumption, FS_Subset, FS_CardinalityType
<1>2. T = {} <=> Cardinality(T) = 0
  BY <1>1, FS_EmptySet
<1>3. T # {} => AnyOf(T) \in T
  BY DEF AnyOf
<1>4. ASSUME T # {} PROVE Cardinality(T \ {AnyOf(T)}) = Cardinality(T) - 1
  BY <1>1, <1>3, <1>4, FS_RemoveElement
<1> QED BY <1>1, <1>2, <1>3, <1>4

\* The same, for sets of at most n elements.
LEMMA NoneLeft == \A T \in SUBSET Package : Cardinality(T) <= 0 => T = {}
<1>1. \A T \in SUBSET Package : Cardinality(T) \in Nat /\ (Cardinality(T) = 0 => T = {})
  BY Smaller
<1> QED BY <1>1

LEMMA OneLess ==
    ASSUME NEW n \in Nat, NEW T \in SUBSET Package, Cardinality(T) <= n + 1, T # {}
    PROVE  \E x \in T : \E U \in SUBSET Package :
              x = AnyOf(T) /\ U = T \ {x} /\ Cardinality(U) <= n
<1>1. /\ AnyOf(T) \in T /\ T \ {AnyOf(T)} \in SUBSET Package
      /\ Cardinality(T \ {AnyOf(T)}) = Cardinality(T) - 1 /\ Cardinality(T) \in Nat
  BY Smaller
<1> QED BY <1>1

\* There is a sum.
LEMMA SumExists ==
    ASSUME NEW h \in [Package -> Int]
    PROVE  SumOf(h) # {}
<1> DEFINE Upto(n) == {g \in [SUBSET Package -> Int] :
                          \A T \in SUBSET Package : Cardinality(T) <= n => g[T] = Adds(h, g, T)}
           S == {n \in Nat : Upto(n) # {}}
<1>1. 0 \in S
  <2> DEFINE g == [T \in SUBSET Package |-> 0]
  <2>1. \A T \in SUBSET Package : Cardinality(T) <= 0 => T = {}
    BY NoneLeft
  <2>2. g \in [SUBSET Package -> Int]
    OBVIOUS
  <2>3. \A T \in SUBSET Package : Cardinality(T) <= 0 => g[T] = Adds(h, g, T)
    BY <2>1 DEF Adds
  <2>4. g \in Upto(0)
    BY <2>2, <2>3
  <2> HIDE DEF Upto
  <2> QED BY <2>4
<1>2. ASSUME NEW n \in Nat, n \in S PROVE n + 1 \in S
  <2>1. PICK g \in [SUBSET Package -> Int] :
           \A T \in SUBSET Package : Cardinality(T) <= n => g[T] = Adds(h, g, T)
    BY <1>2
  <2> DEFINE k == [T \in SUBSET Package |-> Adds(h, g, T)]
  <2>2. \A T \in SUBSET Package : Adds(h, g, T) \in Int
    BY Smaller DEF Adds
  <2>3. k \in [SUBSET Package -> Int] /\ \A T \in SUBSET Package : k[T] = Adds(h, g, T)
    BY <2>2
  <2> HIDE DEF k
  <2>4. ASSUME NEW T \in SUBSET Package, Cardinality(T) <= n + 1
        PROVE  k[T] = Adds(h, k, T)
    <3>1. CASE T = {}
      BY <2>3, <3>1 DEF Adds
    <3>2. CASE T # {}
      <4> DEFINE U == T \ {AnyOf(T)}
      <4>1. U \in SUBSET Package /\ Cardinality(U) <= n
        BY <2>4, <3>2, Smaller
      <4>2. k[U] = g[U]
        BY <2>1, <2>3, <4>1
      <4> QED BY <2>3, <3>2, <4>2 DEF Adds
    <3> QED BY <3>1, <3>2
  <2>5. k \in Upto(n + 1)
    BY <2>3, <2>4
  <2> HIDE DEF Upto
  <2> QED BY <2>5
<1>3. Nat \subseteq S
  <2> HIDE DEF S
  <2> QED BY <1>1, <1>2, NatSet
<1>4. Cardinality(Package) \in Nat /\ \A T \in SUBSET Package : Cardinality(T) <= Cardinality(Package)
  BY CacheAssumption, FS_CardinalityType, FS_Subset
<1>5. PICK g : g \in Upto(Cardinality(Package))
  BY <1>3, <1>4
<1>6. g \in SumOf(h)
  BY <1>4, <1>5 DEF SumOf
<1> QED BY <1>6

\* Two sums differ by what p adds, if only p adds something else.
LEMMA SumChanges ==
    ASSUME NEW h \in [Package -> Int], NEW k \in [Package -> Int], NEW p \in Package,
           \A q \in Package \ {p} : k[q] = h[q],
           NEW f \in SumOf(h), NEW g \in SumOf(k)
    PROVE  g[Package] = f[Package] - h[p] + k[p]
<1>0. /\ f \in [SUBSET Package -> Int] /\ g \in [SUBSET Package -> Int]
      /\ \A T \in SUBSET Package : f[T] = Adds(h, f, T) /\ g[T] = Adds(k, g, T)
  BY DEF SumOf
<1> DEFINE Differ(T) == g[T] = IF p \in T THEN f[T] - h[p] + k[p] ELSE f[T]
           S == {n \in Nat : \A T \in SUBSET Package : Cardinality(T) <= n => Differ(T)}
<1>1. 0 \in S
  <2>1. \A T \in SUBSET Package : Cardinality(T) <= 0 => T = {}
    BY NoneLeft
  <2>2. f[{}] = 0 /\ g[{}] = 0
    <3>1. {} \in SUBSET Package
      OBVIOUS
    <3>2. f[{}] = Adds(h, f, {}) /\ g[{}] = Adds(k, g, {})
      BY <1>0, <3>1
    <3> QED BY <3>2 DEF Adds
  <2>3. Differ({})
    BY <2>2
  <2> QED BY <2>1, <2>3
<1>2. ASSUME NEW n \in Nat, n \in S PROVE n + 1 \in S
  <2>1. ASSUME NEW T \in SUBSET Package, Cardinality(T) <= n + 1 PROVE Differ(T)
    <3>1. CASE T = {}
      <4>1. f[T] = 0 /\ g[T] = 0
        BY <1>0, <3>1 DEF Adds
      <4> QED BY <3>1, <4>1
    <3>2. CASE T # {}
      <4>1. PICK x \in T, U \in SUBSET Package :
               x = AnyOf(T) /\ U = T \ {x} /\ Cardinality(U) <= n
        BY <2>1, <3>2, OneLess
      <4>2. Differ(U)
        BY <1>2, <4>1
      <4>3. f[T] = h[x] + f[U] /\ g[T] = k[x] + g[U]
        BY <1>0, <3>2, <4>1 DEF Adds
      <4>4. f[U] \in Int /\ g[U] \in Int /\ h[x] \in Int /\ k[x] \in Int /\ h[p] \in Int /\ k[p] \in Int
        BY <1>0, <4>1
      <4>5. CASE x = p
        <5>1. g[U] = f[U]
          BY <4>1, <4>2, <4>5
        <5> QED BY <4>1, <4>3, <4>4, <4>5, <5>1
      <4>6. CASE x # p
        <5>1. k[x] = h[x] /\ (p \in T <=> p \in U)
          BY <4>1, <4>6
        <5> QED BY <4>2, <4>3, <4>4, <5>1
      <4> QED BY <4>5, <4>6
    <3> QED BY <3>1, <3>2
  <2> HIDE DEF Differ
  <2> QED BY <2>1
<1>3. Nat \subseteq S
  <2> HIDE DEF S
  <2> QED BY <1>1, <1>2, NatSet
<1>4. Cardinality(Package) \in Nat
  BY CacheAssumption, FS_CardinalityType
<1>5. Differ(Package)
  BY <1>3, <1>4
<1> QED BY <1>5

\* What every package adds.
Usr(s)  == [p \in Package |-> AddSizes(s, p).usr]
Down(s) == [p \in Package |-> AddSizes(s, p).down]

LEMMA SizesAreNumbers ==
    ASSUME NEW s, s.inst \in [Package -> MaybeVer], NEW p \in Package
    PROVE  AddSizes(s, p).usr \in Int /\ AddSizes(s, p).down \in Int
<1>1. \A v \in MaybeVer : Installed(v) \in Int /\ Archive(v) \in Int
  BY CacheAssumption DEF MaybeVer, Installed, Archive, VersionInfo
<1>2. s.inst[p] \in MaybeVer /\ Pkg[p].current \in MaybeVer
  BY CacheAssumption DEF PackageInfo
<1>3. \A a, b : Size(a, b).usr = a /\ Size(a, b).down = b
  BY DEF Size
<1> QED BY <1>1, <1>2, <1>3 DEF AddSizes

\* There is no other.
LEMMA SumUnique ==
    ASSUME NEW h \in [Package -> Int], NEW f \in SumOf(h), NEW g,
           g = [T \in SUBSET Package |-> Adds(h, g, T)]
    PROVE  g = f
<1>0. /\ f \in [SUBSET Package -> Int]
      /\ \A T \in SUBSET Package : f[T] = Adds(h, f, T)
      /\ \A T \in SUBSET Package : g[T] = Adds(h, g, T)
  BY DEF SumOf
<1> DEFINE Same(T) == g[T] = f[T]
           S == {n \in Nat : \A T \in SUBSET Package : Cardinality(T) <= n => Same(T)}
<1>1. 0 \in S
  <2>1. \A T \in SUBSET Package : Cardinality(T) <= 0 => T = {}
    BY NoneLeft
  <2>2. \A T \in SUBSET Package : T = {} => Same(T)
    BY <1>0 DEF Adds
  <2> QED BY <2>1, <2>2
<1>2. ASSUME NEW n \in Nat, n \in S PROVE n + 1 \in S
  <2>1. ASSUME NEW T \in SUBSET Package, Cardinality(T) <= n + 1 PROVE Same(T)
    <3>1. CASE T = {}
      BY <1>0, <3>1 DEF Adds
    <3>2. CASE T # {}
      <4>1. PICK x \in T, U \in SUBSET Package :
               x = AnyOf(T) /\ U = T \ {x} /\ Cardinality(U) <= n
        BY <2>1, <3>2, OneLess
      <4>2. g[U] = f[U]
        BY <1>2, <4>1
      <4> QED BY <1>0, <3>2, <4>1, <4>2 DEF Adds
    <3> QED BY <3>1, <3>2
  <2> HIDE DEF Same
  <2> QED BY <2>1
<1>3. Nat \subseteq S
  <2> HIDE DEF S
  <2> QED BY <1>1, <1>2, NatSet
<1>4. Cardinality(Package) \in Nat /\ \A T \in SUBSET Package : Cardinality(T) <= Cardinality(Package)
  BY CacheAssumption, FS_CardinalityType, FS_Subset
<1>5. \A T \in SUBSET Package : g[T] = f[T]
  BY <1>3, <1>4
<1> QED BY <1>0, <1>5

LEMMA UsrIsSum ==
    ASSUME NEW s, s.inst \in [Package -> MaybeVer]
    PROVE  \E f \in SumOf(Usr(s)) : AllSizes(s).usr = f[Package]
<1> DEFINE Is(g) == g = [T \in SUBSET Package |->
                           IF T = {} THEN 0
                           ELSE AddSizes(s, AnyOf(T)).usr + g[T \ {AnyOf(T)}]]
           c == CHOOSE g : Is(g)
<1>1. Usr(s) \in [Package -> Int]
  BY SizesAreNumbers DEF Usr
<1>2. \A T \in SUBSET Package : T # {} => Usr(s)[AnyOf(T)] = AddSizes(s, AnyOf(T)).usr
  BY Smaller DEF Usr
<1>3. AllSizes(s).usr = c[Package]
  BY DEF AllSizes, Size, MapThenSumSet, MapThenFoldSet, AnyOf
<1>4. PICK f : f \in SumOf(Usr(s))
  BY <1>1, SumExists
<1>5. Is(f)
  BY <1>2, <1>4 DEF SumOf, Adds
<1>6. Is(c)
  <2> HIDE DEF Is
  <2> QED BY <1>5
<1> HIDE DEF c
<1>7. c \in SumOf(Usr(s))
  <2>1. c = [T \in SUBSET Package |-> Adds(Usr(s), c, T)]
    BY <1>2, <1>6 DEF Adds
  <2> QED BY <1>1, <1>4, <2>1, SumUnique
<1> QED BY <1>3, <1>7

LEMMA DownIsSum ==
    ASSUME NEW s, s.inst \in [Package -> MaybeVer]
    PROVE  \E f \in SumOf(Down(s)) : AllSizes(s).down = f[Package]
<1> DEFINE Is(g) == g = [T \in SUBSET Package |->
                           IF T = {} THEN 0
                           ELSE AddSizes(s, AnyOf(T)).down + g[T \ {AnyOf(T)}]]
           c == CHOOSE g : Is(g)
<1>1. Down(s) \in [Package -> Int]
  BY SizesAreNumbers DEF Down
<1>2. \A T \in SUBSET Package : T # {} => Down(s)[AnyOf(T)] = AddSizes(s, AnyOf(T)).down
  BY Smaller DEF Down
<1>3. AllSizes(s).down = c[Package]
  BY DEF AllSizes, Size, MapThenSumSet, MapThenFoldSet, AnyOf
<1>4. PICK f : f \in SumOf(Down(s))
  BY <1>1, SumExists
<1>5. Is(f)
  BY <1>2, <1>4 DEF SumOf, Adds
<1>6. Is(c)
  <2> HIDE DEF Is
  <2> QED BY <1>5
<1> HIDE DEF c
<1>7. c \in SumOf(Down(s))
  <2>1. c = [T \in SUBSET Package |-> Adds(Down(s), c, T)]
    BY <1>2, <1>6 DEF Adds
  <2> QED BY <1>1, <1>4, <2>1, SumUnique
<1> QED BY <1>3, <1>7

\* What a package adds depends on its own fields only.
LEMMA SizesAlike ==
    ASSUME NEW s, NEW t, NEW q, s.mode[q] = t.mode[q], s.inst[q] = t.inst[q],
           s.cand[q] = t.cand[q], s.reinst[q] = t.reinst[q]
    PROVE  AddSizes(s, q) = AddSizes(t, q)
<1>1. Status(s, q) = Status(t, q)
  BY DEF Status
<1> QED BY <1>1 DEF AddSizes

\* Objects that plan the same for every package need the same space.
LEMMA AllSizesSame ==
    ASSUME NEW s, NEW t, s.inst \in [Package -> MaybeVer], t.inst \in [Package -> MaybeVer],
           \A q \in Package : /\ s.mode[q] = t.mode[q] /\ s.inst[q] = t.inst[q]
                              /\ s.cand[q] = t.cand[q] /\ s.reinst[q] = t.reinst[q]
    PROVE  /\ AllSizes(t).usr = AllSizes(s).usr /\ AllSizes(t).down = AllSizes(s).down
           /\ AllSizes(s).usr \in Int /\ AllSizes(s).down \in Int
<1>1. Usr(s) \in [Package -> Int] /\ Down(s) \in [Package -> Int]
  BY SizesAreNumbers DEF Usr, Down
<1>2. Usr(t) = Usr(s) /\ Down(t) = Down(s)
  BY SizesAlike DEF Usr, Down
<1>3. PICK f \in SumOf(Usr(s)) : AllSizes(s).usr = f[Package]
  BY UsrIsSum
<1>4. PICK g \in SumOf(Usr(s)) : AllSizes(t).usr = g[Package]
  BY <1>2, UsrIsSum
<1>5. PICK ff \in SumOf(Down(s)) : AllSizes(s).down = ff[Package]
  BY DownIsSum
<1>6. PICK gg \in SumOf(Down(s)) : AllSizes(t).down = gg[Package]
  BY <1>2, DownIsSum
<1>7. ASSUME NEW h \in [Package -> Int], NEW x \in SumOf(h), NEW y \in SumOf(h) PROVE x = y
  <2>1. y = [T \in SUBSET Package |-> Adds(h, y, T)]
    BY DEF SumOf
  <2> QED BY <2>1, SumUnique
<1>8. f = g /\ ff = gg
  BY <1>1, <1>7
<1>9. f[Package] \in Int /\ ff[Package] \in Int
  BY DEF SumOf
<1> QED BY <1>3, <1>4, <1>5, <1>6, <1>8, <1>9

-----------------------------------------------------------------------------
(* The inductive invariant of one object.                                   *)

BitTable == [Dependency -> SUBSET Kinds]

\* The fields of CacheType.  That the counters are not negative and the sizes are numbers
\* follows from what they equal.
Typed(s) ==
    s \in [cand: [Package -> MaybeVer], inst: [Package -> MaybeVer],
           mode: [Package -> {"Delete", "Keep", "Install"}],
           purge: [Package -> BOOLEAN], reinst: [Package -> BOOLEAN],
           dep: BitTable, group: BitTable, ver: [Package -> SUBSET Mins],
           count: [Counters -> Int], usr: {s.usr}, down: {s.down}]

\* The versions of a package are its own.
Own(s) ==
    \A q \in Package : /\ s.inst[q] = NoVer \/ OfPackage(s.inst[q], q)
                       /\ s.cand[q] = NoVer \/ OfPackage(s.cand[q], q)

Shape(s) == Typed(s) /\ Own(s)

\* The version to be installed is none, the current one or the candidate.
Bounded(s) == \A q \in Package : s.inst[q] \in {NoVer, Pkg[q].current, s.cand[q]}

Fits(s, dep, group, ver) ==
    /\ dep   = [d \in Dependency |-> DependencyState(s, d)]
    /\ group = [d \in Dependency |-> BuildGroupOrs(dep, d)]
    /\ ver   = [q \in Package |-> VerState(s, dep, q)]

Exact(s) == Fits(s, s.dep, s.group, s.ver)

\* The two readings of the property agree.
LEMMA ExactScratch ==
    ASSUME NEW s, Shape(s)
    PROVE  Exact(s) <=> s = Scratch(s)
<1> DEFINE dep == [d \in Dependency |-> DependencyState(s, d)]
           group == [d \in Dependency |-> BuildGroupOrs(dep, d)]
           ver == [p \in Package |-> VerState(s, dep, p)]
<1>1. Scratch(s) = [s EXCEPT !.dep = dep, !.group = group, !.ver = ver]
  BY DEF Scratch
<1>2. Exact(s) <=> s.dep = dep /\ s.group = group /\ s.ver = ver
  BY DEF Exact, Fits
<1> HIDE DEF dep, group, ver
<1>3. s.dep = dep /\ s.group = group /\ s.ver = ver
        <=> s = [s EXCEPT !.dep = dep, !.group = group, !.ver = ver]
  <2>1. s \in [cand: {s.cand}, inst: {s.inst}, mode: {s.mode}, purge: {s.purge},
               reinst: {s.reinst}, dep: {s.dep}, group: {s.group}, ver: {s.ver},
               count: {s.count}, usr: {s.usr}, down: {s.down}]
    BY DEF Shape, Typed
  <2>2. ASSUME s.dep = dep, s.group = group, s.ver = ver
        PROVE  s = [s EXCEPT !.dep = dep, !.group = group, !.ver = ver]
    BY <2>1, <2>2
  <2>3. ASSUME s = [s EXCEPT !.dep = dep, !.group = group, !.ver = ver]
        PROVE  s.dep = dep /\ s.group = group /\ s.ver = ver
    BY <2>1, <2>3
  <2> QED BY <2>2, <2>3
<1> QED BY <1>1, <1>2, <1>3

\* dep and new agree about the dependencies that q has.
AlikeFor(dep, new, q) == \A d \in Dependency : Ver[Dep[d].parent].pkg = q => dep[d] = new[d]

\* The state of a package depends on its versions and on the dependencies they have.
LEMMA VerStateSame ==
    ASSUME NEW s, NEW u, NEW q \in Package, NEW dep, NEW new, Shape(u),
           s.inst[q] = u.inst[q], s.cand[q] = u.cand[q],
           AlikeFor(dep, new, q)
    PROVE  VerState(s, dep, q) = VerState(u, new, q)
<1>1. ASSUME NEW v, NEW k \in Kinds, v = NoVer \/ OfPackage(v, q)
      PROVE  VersionState(dep, v, k) = VersionState(new, v, k)
  <2>1. ASSUME NEW d \in Dependency, Dep[d].parent = v PROVE Either(dep, d) = Either(new, d)
    <3>1. Dep[d].parent \in Version /\ Dep[d].alts \subseteq Dependency
      BY CacheAssumption DEF DependencyInfo
    <3>2. Ver[v].pkg = q
      BY <1>1, <2>1, <3>1, CacheAssumption DEF OfPackage
    <3>3. \A e \in Dep[d].alts : dep[e] = new[e]
      BY <2>1, <3>1, <3>2, CacheAssumption DEF AlikeFor
    <3> QED BY <3>3 DEF Either
  <2> QED BY <2>1 DEF VersionState
<1>2. /\ Pkg[q].current = NoVer \/ OfPackage(Pkg[q].current, q)
      /\ u.inst[q] = NoVer \/ OfPackage(u.inst[q], q)
      /\ u.cand[q] = NoVer \/ OfPackage(u.cand[q], q)
  BY CacheAssumption DEF Shape, Typed, Own, OfPackage, PackageInfo, MaybeVer
<1>3. /\ VersionState(dep, Pkg[q].current, "Now") = VersionState(new, Pkg[q].current, "Now")
      /\ VersionState(dep, u.cand[q], "Install") = VersionState(new, u.cand[q], "Install")
      /\ VersionState(dep, u.inst[q], "Install") = VersionState(new, u.inst[q], "Install")
  BY <1>1, <1>2 DEF Kinds
<1> QED BY <1>3 DEF VerState

-----------------------------------------------------------------------------
(* Update.                                                                  *)

NewDep(u, p)   == [d \in Dependency |-> IF d \in Affected(u, p) THEN DependencyState(u, d)
                                                                ELSE u.dep[d]]
Rebuilt(u, p)  == {Dep[d].parent : d \in Affected(u, p)}
Touched(u, p)  == {p} \cup {Ver[v].pkg : v \in Rebuilt(u, p)}
NewGroup(u, p) == [d \in Dependency |-> IF Dep[d].parent \in Rebuilt(u, p)
                                        THEN BuildGroupOrs(NewDep(u, p), d) ELSE u.group[d]]
NewVer(u, p)   == [q \in Package |-> IF q \in Touched(u, p)
                                     THEN VerState(u, NewDep(u, p), q) ELSE u.ver[q]]
Renewed(u, p)  == [u EXCEPT !.dep = NewDep(u, p), !.group = NewGroup(u, p),
                            !.ver = NewVer(u, p)]

LEMMA UpdateIs ==
    ASSUME NEW s, NEW u, NEW p
    PROVE  Update(s, u, p) = Recount(s, Renewed(u, p), Touched(u, p), p)
BY DEF Update, Renewed, NewDep, NewGroup, NewVer, Rebuilt, Touched

LEMMA RenewedFields ==
    ASSUME NEW u, NEW p, Shape(u)
    PROVE  LET t == Renewed(u, p) IN
           /\ t.inst = u.inst /\ t.cand = u.cand /\ t.mode = u.mode
           /\ t.reinst = u.reinst /\ t.purge = u.purge
           /\ t.count = u.count /\ t.usr = u.usr /\ t.down = u.down
           /\ t.dep = NewDep(u, p) /\ t.group = NewGroup(u, p) /\ t.ver = NewVer(u, p)
BY DEF Renewed, Shape, Typed, Own

\* The dependency states depend on the versions alone.
LEMMA DependencyByVersions ==
    ASSUME NEW s, NEW u, s.inst = u.inst, s.cand = u.cand, NEW d
    PROVE  DependencyState(s, d) = DependencyState(u, d)
<1>1. \A v, k : Chosen(s, Ver[v].pkg, k) = Chosen(u, Ver[v].pkg, k)
  BY DEF Chosen
<1> QED BY <1>1 DEF DependencyState, CheckDep

\* Update leaves exact states, if everything it left out was covered.
LEMMA UpdateExact ==
    ASSUME NEW s, NEW u, NEW p \in Package, Shape(s), Shape(u), Exact(s),
           u.dep = s.dep, u.group = s.group, u.ver = s.ver,
           Agree(s, u, p), Covered(s, u, p), Covered(u, u, p)
    PROVE  Fits(u, NewDep(u, p), NewGroup(u, p), NewVer(u, p))
<1>1. \A d \in Dependency : NewDep(u, p)[d] = DependencyState(u, d)
  <2>1. \A d \in Dependency \ Affected(u, p) :
           s.dep[d] = DependencyState(s, d) /\ DependencyState(s, d) = DependencyState(u, d)
    BY DependencySame DEF Exact, Fits
  <2> QED BY <2>1 DEF NewDep
<1>2. NewDep(u, p) = [d \in Dependency |-> DependencyState(u, d)]
  BY <1>1 DEF NewDep
<1>3. ASSUME NEW d \in Dependency, Dep[d].parent \notin Rebuilt(u, p)
      PROVE  NewDep(u, p)[d] = s.dep[d]
  <2>1. d \notin Affected(u, p)
    BY <1>3 DEF Rebuilt
  <2> QED BY <2>1 DEF NewDep
<1>4. \A d \in Dependency : NewGroup(u, p)[d] = BuildGroupOrs(NewDep(u, p), d)
  <2>1. ASSUME NEW d \in Dependency, Dep[d].parent \notin Rebuilt(u, p)
        PROVE  BuildGroupOrs(s.dep, d) = BuildGroupOrs(NewDep(u, p), d)
    <3>1. \A e \in Dep[d].alts : e \in Dependency /\ Dep[e].parent = Dep[d].parent
      BY CacheAssumption DEF DependencyInfo
    <3>2. \A e \in Dep[d].alts : NewDep(u, p)[e] = s.dep[e]
      BY <1>3, <2>1, <3>1
    <3>3. NewDep(u, p)[d] = s.dep[d]
      BY <1>3, <2>1
    <3> QED BY <3>2, <3>3 DEF BuildGroupOrs, Either
  <2>2. \A d \in Dependency : s.group[d] = BuildGroupOrs(s.dep, d)
    BY DEF Exact, Fits
  <2> QED BY <2>1, <2>2 DEF NewGroup
<1>5. \A q \in Package : NewVer(u, p)[q] = VerState(u, NewDep(u, p), q)
  <2>1. ASSUME NEW q \in Package, q \notin Touched(u, p)
        PROVE  VerState(s, s.dep, q) = VerState(u, NewDep(u, p), q)
    <3>1. q # p /\ s.inst[q] = u.inst[q] /\ s.cand[q] = u.cand[q]
      BY <2>1 DEF Touched, Agree
    <3>2. AlikeFor(s.dep, NewDep(u, p), q)
      <4>1. \A v \in Rebuilt(u, p) : Ver[v].pkg # q
        BY <2>1 DEF Touched
      <4> SUFFICES ASSUME NEW d \in Dependency, Ver[Dep[d].parent].pkg = q
                   PROVE  s.dep[d] = NewDep(u, p)[d]
        BY DEF AlikeFor
      <4>2. Dep[d].parent \notin Rebuilt(u, p)
        BY <4>1
      <4> QED BY <1>3, <4>2
    <3> QED BY <3>1, <3>2, VerStateSame
  <2>2. \A q \in Package : s.ver[q] = VerState(s, s.dep, q)
    BY DEF Exact, Fits
  <2> QED BY <2>1, <2>2 DEF NewVer
<1>6. NewGroup(u, p) = [d \in Dependency |-> BuildGroupOrs(NewDep(u, p), d)]
  BY <1>4 DEF NewGroup
<1>7. NewVer(u, p) = [q \in Package |-> VerState(u, NewDep(u, p), q)]
  BY <1>5 DEF NewVer
<1> QED BY <1>2, <1>6, <1>7 DEF Fits

-----------------------------------------------------------------------------
(* The counters.                                                            *)

CountExact(s) == \A w \in Counters : s.count[w] = Cardinality(Counted(s, w))

LEMMA CountedFinite ==
    ASSUME NEW s, NEW w
    PROVE  IsFiniteSet(Counted(s, w)) /\ Cardinality(Counted(s, w)) \in Nat
<1>1. Counted(s, w) \subseteq Package /\ IsFiniteSet(Package)
  BY CacheAssumption DEF Counted
<1> QED BY <1>1, FS_Subset, FS_CardinalityType

\* What counts a package: its mode, its candidate, the ReInstall flag and its state.
LEMMA CountedAlike ==
    ASSUME NEW s, NEW t, NEW q, s.ver[q] = t.ver[q], s.mode[q] = t.mode[q],
           s.reinst[q] = t.reinst[q], s.cand[q] = t.cand[q]
    PROVE  AddStates(s, q) = AddStates(t, q)
<1>1. Status(s, q) = Status(t, q)
  BY DEF Status
<1> QED BY <1>1 DEF AddStates

\* A set counted by parts.
LEMMA CountByParts ==
    ASSUME NEW A, IsFiniteSet(A), NEW T
    PROVE  /\ Cardinality(A) = Cardinality(A \ T) + Cardinality(A \cap T)
           /\ Cardinality(A \ T) \in Nat /\ Cardinality(A \cap T) \in Nat
<1>1. IsFiniteSet(A \ T) /\ IsFiniteSet(A \cap T)
  BY FS_Subset
<1>2. (A \ T) \cup (A \cap T) = A /\ (A \ T) \cap (A \cap T) = {}
  OBVIOUS
<1>3. Cardinality(A \ T) \in Nat /\ Cardinality(A \cap T) \in Nat /\ Cardinality({}) = 0
  BY <1>1, FS_CardinalityType, FS_EmptySet
<1>4. \A U, W : IsFiniteSet(U) /\ IsFiniteSet(W) /\ U \cup W = A /\ U \cap W = {} =>
                  Cardinality(A) = Cardinality(U) + Cardinality(W) - Cardinality({})
  BY FS_Union
<1>5. Cardinality(A) = Cardinality(A \ T) + Cardinality(A \cap T) - Cardinality({})
  BY <1>1, <1>2, <1>4
<1> QED BY <1>3, <1>5

\* Taking a set of packages out of the totals and putting it back counts right, if
\* nothing that counts another package has changed.
LEMMA RecountExact ==
    ASSUME NEW s, NEW t, NEW touched, NEW p, Shape(s), Shape(t), CountExact(s),
           \A q \in Package \ touched :
              /\ s.ver[q] = t.ver[q] /\ s.mode[q] = t.mode[q]
              /\ s.reinst[q] = t.reinst[q] /\ s.cand[q] = t.cand[q]
    PROVE  CountExact(Recount(s, t, touched, p))
<1> DEFINE r == Recount(s, t, touched, p)
<1>1. /\ r.ver = t.ver /\ r.mode = t.mode /\ r.reinst = t.reinst /\ r.cand = t.cand
      /\ \A w \in Counters :
            r.count[w] = s.count[w] - Cardinality(Counted(s, w) \cap touched)
                                    + Cardinality(Counted(t, w) \cap touched)
  BY DEF Recount, Shape, Typed, Own
<1>2. ASSUME NEW w \in Counters PROVE r.count[w] = Cardinality(Counted(r, w))
  <2>1. Counted(r, w) = Counted(t, w)
    <3>1. \A q \in Package : AddStates(r, q) = AddStates(t, q)
      BY <1>1, CountedAlike
    <3> QED BY <3>1 DEF Counted
  <2>2. Counted(s, w) \ touched = Counted(t, w) \ touched
    <3>1. \A q \in Package \ touched : AddStates(s, q) = AddStates(t, q)
      BY CountedAlike
    <3> QED BY <3>1 DEF Counted
  <2>3. /\ Cardinality(Counted(s, w)) = Cardinality(Counted(s, w) \ touched)
                                        + Cardinality(Counted(s, w) \cap touched)
        /\ Cardinality(Counted(s, w) \ touched) \in Nat
        /\ Cardinality(Counted(s, w) \cap touched) \in Nat
    BY CountedFinite, CountByParts
  <2>4. /\ Cardinality(Counted(t, w)) = Cardinality(Counted(t, w) \ touched)
                                        + Cardinality(Counted(t, w) \cap touched)
        /\ Cardinality(Counted(t, w) \cap touched) \in Nat
    BY CountedFinite, CountByParts
  <2>5. s.count[w] = Cardinality(Counted(s, w))
    BY DEF CountExact
  <2>6. r.count[w] = s.count[w] - Cardinality(Counted(s, w) \cap touched)
                                    + Cardinality(Counted(t, w) \cap touched)
    BY <1>1, <1>2
  <2>7. PICK a \in Int : a = Cardinality(Counted(s, w) \cap touched)
    BY <2>3
  <2>8. PICK b \in Int : b = Cardinality(Counted(t, w) \cap touched)
    BY <2>4
  <2>9. PICK c \in Int : c = Cardinality(Counted(s, w) \ touched)
    BY <2>3
  <2>10. s.count[w] = c + a
    BY <2>3, <2>5, <2>7, <2>9
  <2>11. Cardinality(Counted(t, w)) = c + b
    BY <2>2, <2>4, <2>8, <2>9
  <2>12. r.count[w] = c + b
    BY <2>6, <2>7, <2>8, <2>10
  <2> QED BY <2>1, <2>11, <2>12
<1> QED BY <1>2 DEF CountExact

\* The sizes are numbers, and equal a recount.
SizeExact(s) == /\ s.usr \in Int /\ s.down \in Int
                /\ s.usr = AllSizes(s).usr /\ s.down = AllSizes(s).down

LEMMA AllSizesAlike ==
    ASSUME NEW s, NEW t, Shape(s), Shape(t), NEW p \in Package,
           \A q \in Package \ {p} : /\ s.mode[q] = t.mode[q] /\ s.inst[q] = t.inst[q]
                                     /\ s.cand[q] = t.cand[q] /\ s.reinst[q] = t.reinst[q]
    PROVE  /\ AllSizes(t).usr = AllSizes(s).usr - AddSizes(s, p).usr + AddSizes(t, p).usr
           /\ AllSizes(t).down = AllSizes(s).down - AddSizes(s, p).down + AddSizes(t, p).down
           /\ AllSizes(s).usr \in Int /\ AllSizes(s).down \in Int
           /\ AllSizes(t).usr \in Int /\ AllSizes(t).down \in Int
<1>0. s.inst \in [Package -> MaybeVer] /\ t.inst \in [Package -> MaybeVer]
  BY DEF Shape, Typed
<1>1. /\ Usr(s) \in [Package -> Int] /\ Usr(t) \in [Package -> Int]
      /\ Down(s) \in [Package -> Int] /\ Down(t) \in [Package -> Int]
  BY <1>0, SizesAreNumbers DEF Usr, Down
<1>2. \A q \in Package \ {p} : Usr(t)[q] = Usr(s)[q] /\ Down(t)[q] = Down(s)[q]
  BY SizesAlike DEF Usr, Down
<1>3. PICK f \in SumOf(Usr(s)) : AllSizes(s).usr = f[Package]
  BY <1>0, UsrIsSum
<1>4. PICK g \in SumOf(Usr(t)) : AllSizes(t).usr = g[Package]
  BY <1>0, UsrIsSum
<1>5. PICK ff \in SumOf(Down(s)) : AllSizes(s).down = ff[Package]
  BY <1>0, DownIsSum
<1>6. PICK gg \in SumOf(Down(t)) : AllSizes(t).down = gg[Package]
  BY <1>0, DownIsSum
<1>7. g[Package] = f[Package] - Usr(s)[p] + Usr(t)[p]
  BY <1>1, <1>2, SumChanges
<1>8. gg[Package] = ff[Package] - Down(s)[p] + Down(t)[p]
  BY <1>1, <1>2, SumChanges
<1>9. f[Package] \in Int /\ g[Package] \in Int /\ ff[Package] \in Int /\ gg[Package] \in Int
  BY DEF SumOf
<1> QED BY <1>3, <1>4, <1>5, <1>6, <1>7, <1>8, <1>9 DEF Usr, Down

-----------------------------------------------------------------------------
(* One object through each manipulator.                                     *)

Good(s) == Shape(s) /\ Bounded(s) /\ Exact(s) /\ CountExact(s) /\ SizeExact(s)

LEMMA GroupType ==
    ASSUME NEW dep \in BitTable, NEW d \in Dependency
    PROVE  BuildGroupOrs(dep, d) \in SUBSET Kinds
<1>1. Dep[d].alts \subseteq Dependency
  BY CacheAssumption DEF DependencyInfo
<1> QED BY <1>1 DEF BuildGroupOrs, Either, BitTable

LEMMA RenewedShape ==
    ASSUME NEW u, NEW p \in Package, Shape(u)
    PROVE  Shape(Renewed(u, p))
<1>1. NewDep(u, p) \in BitTable
  BY DEF NewDep, DependencyState, BitTable, Shape, Typed, Own
<1>2. NewGroup(u, p) \in BitTable
  <2>1. u.group \in BitTable
    BY DEF Shape, Typed, Own
  <2>2. \A d \in Dependency : BuildGroupOrs(NewDep(u, p), d) \in SUBSET Kinds
    BY <1>1, GroupType
  <2> QED BY <2>1, <2>2 DEF NewGroup, BitTable
<1>3. NewVer(u, p) \in [Package -> SUBSET Mins]
  <2>1. u.ver \in [Package -> SUBSET Mins]
    BY DEF Shape, Typed, Own
  <2>2. \A q \in Package : VerState(u, NewDep(u, p), q) \in SUBSET Mins
    BY DEF VerState
  <2> QED BY <2>1, <2>2 DEF NewVer
<1> QED BY <1>1, <1>2, <1>3 DEF Renewed, Shape, Typed, Own

LEMMA RecountShape ==
    ASSUME NEW s, NEW t, NEW touched, NEW p \in Package, Shape(s), Shape(t)
    PROVE  Shape(Recount(s, t, touched, p))
<1> DEFINE count == [w \in Counters |-> s.count[w] - Cardinality(Counted(s, w) \cap touched)
                                                   + Cardinality(Counted(t, w) \cap touched)]
           usr   == s.usr - AddSizes(s, p).usr + AddSizes(t, p).usr
           down  == s.down - AddSizes(s, p).down + AddSizes(t, p).down
<1>1. count \in [Counters -> Int]
  <2>1. \A w \in Counters : /\ Cardinality(Counted(s, w) \cap touched) \in Int
                            /\ Cardinality(Counted(t, w) \cap touched) \in Int
    <3>1. ASSUME NEW A, IsFiniteSet(A) PROVE Cardinality(A \cap touched) \in Int
      <4>1. IsFiniteSet(A \cap touched)
        BY <3>1, FS_Subset
      <4>2. Cardinality(A \cap touched) \in Nat
        BY <4>1, FS_CardinalityType
      <4> QED BY <4>2
    <3> QED BY <3>1, CountedFinite
  <2>2. \A w \in Counters : s.count[w] \in Int
    BY DEF Shape, Typed, Own
  <2> QED BY <2>1, <2>2
<1>2. Recount(s, t, touched, p) = [t EXCEPT !.count = count, !.usr = usr, !.down = down]
  BY DEF Recount
<1> HIDE DEF count, usr, down
<1> QED BY <1>1, <1>2 DEF Shape, Typed, Own

\* Taking p out and putting it back sizes right, if nothing else changed.
LEMMA RecountSizes ==
    ASSUME NEW s, NEW t, NEW touched, NEW p \in Package, Shape(s), Shape(t), SizeExact(s),
           \A q \in Package \ {p} : /\ s.mode[q] = t.mode[q] /\ s.inst[q] = t.inst[q]
                                     /\ s.cand[q] = t.cand[q] /\ s.reinst[q] = t.reinst[q]
    PROVE  SizeExact(Recount(s, t, touched, p))
<1> DEFINE r == Recount(s, t, touched, p)
<1>1. /\ r.mode = t.mode /\ r.inst = t.inst /\ r.cand = t.cand /\ r.reinst = t.reinst
      /\ r.usr = s.usr - AddSizes(s, p).usr + AddSizes(t, p).usr
      /\ r.down = s.down - AddSizes(s, p).down + AddSizes(t, p).down
  BY DEF Recount, Shape, Typed
<1>2. Shape(r)
  BY RecountShape
<1> HIDE DEF r
<1>3. AddSizes(r, p) = AddSizes(t, p)
  BY <1>1, SizesAlike
<1>4. \A q \in Package \ {p} : /\ s.mode[q] = r.mode[q] /\ s.inst[q] = r.inst[q]
                                /\ s.cand[q] = r.cand[q] /\ s.reinst[q] = r.reinst[q]
  BY <1>1
<1>5. /\ AllSizes(r).usr = AllSizes(s).usr - AddSizes(s, p).usr + AddSizes(r, p).usr
      /\ AllSizes(r).down = AllSizes(s).down - AddSizes(s, p).down + AddSizes(r, p).down
      /\ AllSizes(r).usr \in Int /\ AllSizes(r).down \in Int
  BY <1>2, <1>4, AllSizesAlike
<1>6. SizeExact(r)
  BY <1>1, <1>3, <1>5 DEF SizeExact
<1> QED BY <1>6 DEF r

LEMMA UpdateGood ==
    ASSUME NEW s, NEW u, NEW p \in Package, Shape(s), Exact(s), CountExact(s),
           SizeExact(s),
           Shape(u), Bounded(u),
           u.dep = s.dep, u.group = s.group, u.ver = s.ver,
           \A q \in Package \ {p} : u.mode[q] = s.mode[q] /\ u.reinst[q] = s.reinst[q],
           Agree(s, u, p), Covered(s, u, p), Covered(u, u, p)
    PROVE  Good(Update(s, u, p))
<1> DEFINE t == Renewed(u, p)
           r == Recount(s, t, Touched(u, p), p)
<1>1. Update(s, u, p) = r
  BY UpdateIs
<1>2. Shape(t) /\ Shape(r)
  BY RenewedShape, RecountShape
<1>3. /\ t.inst = u.inst /\ t.cand = u.cand /\ t.mode = u.mode /\ t.reinst = u.reinst
      /\ t.dep = NewDep(u, p) /\ t.group = NewGroup(u, p) /\ t.ver = NewVer(u, p)
  BY RenewedFields
<1> HIDE DEF t
<1>4. /\ r.inst = t.inst /\ r.cand = t.cand
      /\ r.dep = t.dep /\ r.group = t.group /\ r.ver = t.ver
  BY <1>2 DEF Recount, Shape, Typed, Own
<1>5. CountExact(r)
  <2>1. ASSUME NEW q \in Package \ Touched(u, p)
        PROVE  /\ s.ver[q] = t.ver[q] /\ s.mode[q] = t.mode[q]
               /\ s.reinst[q] = t.reinst[q] /\ s.cand[q] = t.cand[q]
    <3>1. q # p /\ q \in Package
      BY DEF Touched
    <3>2. NewVer(u, p)[q] = u.ver[q]
      BY <2>1 DEF NewVer
    <3> QED BY <1>3, <3>1, <3>2 DEF Agree
  <2> QED BY <1>2, <2>1, RecountExact
<1>8. SizeExact(r)
  <2>1. \A q \in Package \ {p} : /\ s.mode[q] = t.mode[q] /\ s.inst[q] = t.inst[q]
                                  /\ s.cand[q] = t.cand[q] /\ s.reinst[q] = t.reinst[q]
    BY <1>3 DEF Agree
  <2> QED BY <1>2, <2>1, RecountSizes
<1> HIDE DEF r
<1>6. Bounded(r)
  BY <1>3, <1>4 DEF Bounded
<1>7. Exact(r)
  <2>1. Fits(u, r.dep, r.group, r.ver)
    BY <1>3, <1>4, UpdateExact
  <2>2. \A d \in Dependency : DependencyState(r, d) = DependencyState(u, d)
    BY <1>3, <1>4, DependencyByVersions
  <2>3. \A q \in Package : VerState(r, r.dep, q) = VerState(u, r.dep, q)
    BY <1>3, <1>4 DEF VerState
  <2> QED BY <2>1, <2>2, <2>3 DEF Exact, Fits
<1> QED BY <1>1, <1>2, <1>5, <1>6, <1>7, <1>8 DEF Good

\* A new target that is none, the current version or the candidate.
LEMMA TargetGood ==
    ASSUME NEW s, NEW p \in Package, NEW mode \in {"Delete", "Keep", "Install"}, NEW inst,
           Good(s), inst \in {NoVer, Pkg[p].current, s.cand[p]}
    PROVE  Good(Target(s, p, mode, inst))
<1> DEFINE u == [s EXCEPT !.mode[p] = mode, !.inst[p] = inst]
<1>0. Shape(s) /\ Bounded(s) /\ Exact(s) /\ CountExact(s) /\ SizeExact(s)
  BY DEF Good
<1>1. /\ u.mode = [s.mode EXCEPT ![p] = mode] /\ u.inst = [s.inst EXCEPT ![p] = inst]
      /\ u.cand = s.cand /\ u.dep = s.dep /\ u.group = s.group /\ u.ver = s.ver
      /\ u.reinst = s.reinst /\ u.purge = s.purge
      /\ u.count = s.count /\ u.usr = s.usr /\ u.down = s.down
  BY <1>0 DEF Shape, Typed, Own
<1>2. inst = NoVer \/ OfPackage(inst, p)
  BY <1>0, CacheAssumption DEF Shape, Typed, Own, OfPackage, PackageInfo, MaybeVer
<1>3. u.inst \in [Package -> MaybeVer] /\ u.inst[p] = inst
      /\ \A q \in Package \ {p} : u.inst[q] = s.inst[q]
  BY <1>0, <1>1, <1>2 DEF Shape, Typed, Own, OfPackage, MaybeVer
<1>4. u.mode \in [Package -> {"Delete", "Keep", "Install"}]
      /\ \A q \in Package \ {p} : u.mode[q] = s.mode[q]
  BY <1>0, <1>1 DEF Shape, Typed, Own
<1>5. Shape(u)
  <2>1. \A q \in Package : /\ u.inst[q] = NoVer \/ OfPackage(u.inst[q], q)
                           /\ u.cand[q] = NoVer \/ OfPackage(u.cand[q], q)
    BY <1>0, <1>1, <1>2, <1>3 DEF Shape, Typed, Own
  <2>2. u = [s EXCEPT !.mode = u.mode, !.inst = u.inst]
    BY <1>0, <1>1 DEF Shape, Typed, Own
  <2> HIDE DEF u
  <2> QED BY <1>0, <1>3, <1>4, <2>1, <2>2 DEF Shape, Typed, Own
<1> HIDE DEF u
<1>6. Bounded(u)
  BY <1>0, <1>1, <1>3 DEF Bounded
<1>7. Agree(s, u, p) /\ Covered(s, u, p) /\ Covered(u, u, p)
  BY <1>0, <1>1, <1>3 DEF Agree, Covered, Planned, Looked, Bounded
<1>8. Good(Update(s, u, p))
  BY <1>0, <1>1, <1>4, <1>5, <1>6, <1>7, UpdateGood
<1> QED BY <1>8 DEF Target, u

LEMMA KeepGood ==
    ASSUME NEW s, NEW p \in Package, Good(s)
    PROVE  Good(MarkKeep(s, p))
BY TargetGood DEF MarkKeep

LEMMA InstallGood ==
    ASSUME NEW s, NEW p \in Package, Good(s)
    PROVE  Good(MarkInstall0(s, p))
<1>1. Good(Target(s, p, "Keep", s.cand[p])) /\ Good(Target(s, p, "Install", s.cand[p]))
  BY TargetGood
<1> QED BY <1>1, KeepGood DEF MarkInstall0

\* The Purge flag has no part in what is cached.
LEMMA PurgeGood ==
    ASSUME NEW s, NEW p \in Package, NEW b \in BOOLEAN, Good(s)
    PROVE  Good([s EXCEPT !.purge[p] = b])
<1> DEFINE t == [s EXCEPT !.purge[p] = b]
<1>0. Shape(s) /\ Bounded(s) /\ Exact(s) /\ CountExact(s) /\ SizeExact(s)
  BY DEF Good
<1>1. /\ t.mode = s.mode /\ t.inst = s.inst /\ t.cand = s.cand /\ t.dep = s.dep
      /\ t.group = s.group /\ t.ver = s.ver /\ t.reinst = s.reinst /\ t.count = s.count
      /\ t.usr = s.usr /\ t.down = s.down
  BY <1>0 DEF Shape, Typed, Own
<1>2. Shape(t)
  <2>1. t = [s EXCEPT !.purge = [s.purge EXCEPT ![p] = b]]
    BY <1>0 DEF Shape, Typed, Own
  <2>2. [s.purge EXCEPT ![p] = b] \in [Package -> BOOLEAN]
    BY <1>0 DEF Shape, Typed, Own
  <2> DEFINE new == [s.purge EXCEPT ![p] = b]
  <2> HIDE DEF new
  <2>3. Shape([s EXCEPT !.purge = new])
    BY <1>0, <2>2 DEF Shape, Typed, Own, new
  <2> QED BY <2>1, <2>3 DEF new
<1> HIDE DEF t
<1>3. Bounded(t)
  BY <1>0, <1>1 DEF Bounded
<1>4. Exact(t)
  <2>1. \A d \in Dependency : DependencyState(t, d) = DependencyState(s, d)
    BY <1>1, DependencyByVersions
  <2>2. \A q \in Package : VerState(t, t.dep, q) = VerState(s, s.dep, q)
    BY <1>1 DEF VerState
  <2> QED BY <1>0, <1>1, <2>1, <2>2 DEF Exact, Fits
<1>5. CountExact(t)
  <2>1. \A q \in Package : AddStates(t, q) = AddStates(s, q)
    BY <1>1, CountedAlike
  <2>2. \A w \in Counters : Counted(t, w) = Counted(s, w)
    BY <2>1 DEF Counted
  <2> QED BY <1>0, <1>1, <2>2 DEF CountExact
<1>6. SizeExact(t)
  <2>1. s.inst \in [Package -> MaybeVer] /\ t.inst \in [Package -> MaybeVer]
    BY <1>0, <1>2 DEF Shape, Typed
  <2>2. AllSizes(t).usr = AllSizes(s).usr /\ AllSizes(t).down = AllSizes(s).down
    BY <1>1, <2>1, AllSizesSame
  <2> QED BY <1>0, <1>1, <2>2 DEF SizeExact
<1>7. Good(t)
  BY <1>2, <1>3, <1>4, <1>5, <1>6 DEF Good
<1> QED BY <1>7 DEF t

LEMMA DeleteGood ==
    ASSUME NEW s, NEW p \in Package, NEW purge \in BOOLEAN, Good(s)
    PROVE  Good(MarkDelete(s, p, purge))
<1> DEFINE t == [s EXCEPT !.purge[p] = purge]
<1>1. Good(t)
  BY PurgeGood
<1> HIDE DEF t
<1>2. Good(Target(t, p, "Keep", NoVer)) /\ Good(Target(t, p, "Delete", NoVer))
  BY <1>1, TargetGood
<1> QED BY <1>1, <1>2 DEF MarkDelete, t

LEMMA ReInstallGood ==
    ASSUME NEW s, NEW p \in Package, NEW to \in BOOLEAN, Good(s)
    PROVE  Good(SetReInstall(s, p, to))
<1> DEFINE t == [s EXCEPT !.reinst[p] = to]
           r == Recount(s, t, {p}, p)
<1>0. Shape(s) /\ Bounded(s) /\ Exact(s) /\ CountExact(s) /\ SizeExact(s)
  BY DEF Good
<1>1. /\ t.mode = s.mode /\ t.inst = s.inst /\ t.cand = s.cand /\ t.dep = s.dep
      /\ t.group = s.group /\ t.ver = s.ver /\ t.count = s.count
      /\ t.reinst = [s.reinst EXCEPT ![p] = to]
  BY <1>0 DEF Shape, Typed, Own
<1>2. Shape(t)
  <2> DEFINE new == [s.reinst EXCEPT ![p] = to]
  <2>1. t = [s EXCEPT !.reinst = new]
    BY <1>0 DEF Shape, Typed, Own
  <2>2. new \in [Package -> BOOLEAN]
    BY <1>0 DEF Shape, Typed, Own
  <2> HIDE DEF new
  <2>3. Shape([s EXCEPT !.reinst = new])
    BY <1>0, <2>2 DEF Shape, Typed, Own
  <2> QED BY <2>1, <2>3
<1>3. \A q \in Package \ {p} : t.reinst[q] = s.reinst[q]
  BY <1>0, <1>1 DEF Shape, Typed, Own
<1> HIDE DEF t
<1>4. Shape(r)
  BY <1>0, <1>2, RecountShape
<1>5. CountExact(r)
  BY <1>0, <1>1, <1>2, <1>3, RecountExact
<1>10. SizeExact(r)
  BY <1>0, <1>1, <1>2, <1>3, RecountSizes
<1>6. r.inst = s.inst /\ r.cand = s.cand /\ r.dep = s.dep /\ r.group = s.group /\ r.ver = s.ver
  BY <1>1, <1>2 DEF Recount, Shape, Typed, Own
<1> HIDE DEF r
<1>7. Bounded(r)
  BY <1>0, <1>6 DEF Bounded
<1>8. Exact(r)
  <2>1. \A d \in Dependency : DependencyState(r, d) = DependencyState(s, d)
    BY <1>6, DependencyByVersions
  <2>2. \A q \in Package : VerState(r, r.dep, q) = VerState(s, s.dep, q)
    BY <1>6 DEF VerState
  <2> QED BY <1>0, <1>6, <2>1, <2>2 DEF Exact, Fits
<1>9. Good(r)
  BY <1>4, <1>5, <1>7, <1>8, <1>10 DEF Good
<1> QED BY <1>9 DEF SetReInstall, t, r

\* A new candidate, if it provides what the old one does.
LEMMA ChooseGood ==
    ASSUME SameProvides, NEW s, NEW v \in Version, Good(s)
    PROVE  Good(SetCandidateVersion(s, v))
<1> DEFINE p == Ver[v].pkg
           inst == IF s.cand[p] = s.inst[p] THEN v ELSE s.inst[p]
           u == [s EXCEPT !.inst[p] = IF s.cand[p] = @ THEN v ELSE @, !.cand[p] = v]
<1>0. Shape(s) /\ Bounded(s) /\ Exact(s) /\ CountExact(s) /\ SizeExact(s) /\ p \in Package /\ v # NoVer
  BY CacheAssumption DEF Good, VersionInfo
<1>p. OfPackage(v, p)
  BY DEF OfPackage
<1> HIDE DEF p
<1>1. /\ u.inst = [s.inst EXCEPT ![p] = inst] /\ u.cand = [s.cand EXCEPT ![p] = v]
      /\ u.dep = s.dep /\ u.group = s.group /\ u.ver = s.ver
      /\ u.mode = s.mode /\ u.reinst = s.reinst
      /\ u = [s EXCEPT !.inst = [s.inst EXCEPT ![p] = inst],
                       !.cand = [s.cand EXCEPT ![p] = v]]
  BY <1>0 DEF Shape, Typed, Own
<1>2. inst = NoVer \/ OfPackage(inst, p)
  BY <1>0, <1>p DEF Shape, Typed, Own
<1>3. inst \in {NoVer, Pkg[p].current, v}
  BY <1>0 DEF Bounded
<1> HIDE DEF inst, u
<1>4. /\ u.inst[p] = inst /\ u.cand[p] = v
      /\ \A q \in Package \ {p} : u.inst[q] = s.inst[q] /\ u.cand[q] = s.cand[q]
  BY <1>0, <1>1 DEF Shape, Typed, Own
<1>5. Shape(u)
  <2> DEFINE ni == [s.inst EXCEPT ![p] = inst]
             nc == [s.cand EXCEPT ![p] = v]
  <2>1. ni \in [Package -> MaybeVer] /\ nc \in [Package -> MaybeVer]
    BY <1>0, <1>2, <1>p DEF Shape, Typed, Own, OfPackage, MaybeVer
  <2>2. \A q \in Package : /\ ni[q] = NoVer \/ OfPackage(ni[q], q)
                           /\ nc[q] = NoVer \/ OfPackage(nc[q], q)
    BY <1>0, <1>2, <1>p DEF Shape, Typed, Own
  <2> HIDE DEF ni, nc
  <2>3. Shape([s EXCEPT !.inst = ni, !.cand = nc])
    BY <1>0, <2>1, <2>2 DEF Shape, Typed, Own
  <2> QED BY <1>1, <2>3 DEF ni, nc
<1>6. Bounded(u)
  BY <1>0, <1>3, <1>4 DEF Bounded
<1>7. Agree(s, u, p) /\ Covered(s, u, p) /\ Covered(u, u, p)
  <2>1. v \in Looked(u, p)
    BY <1>0, <1>4 DEF Looked
  <2>2. \A x \in Planned(s, p) \cup Planned(u, p) : OfPackage(x, p)
    BY <1>0, <1>2, <1>4, <1>p DEF Planned, Shape, Typed, Own
  <2>3. \A x \in Planned(s, p) \cup Planned(u, p) : Ver[x].provides = Ver[v].provides
    BY <2>2, <1>p DEF SameProvides, OfPackage
  <2> QED BY <1>4, <2>1, <2>3 DEF Agree, Covered
<1>8. Good(Update(s, u, p))
  BY <1>0, <1>1, <1>5, <1>6, <1>7, UpdateGood
<1> QED BY <1>8 DEF SetCandidateVersion, u, p

-----------------------------------------------------------------------------
(* Every behaviour.                                                         *)

\* A fresh object is computed from scratch.
LEMMA FreshGood == Good(Fresh)
<1> DEFINE base == [cand |-> [p \in Package |-> Pkg[p].candidate],
                    inst |-> [p \in Package |-> Pkg[p].current],
                    mode |-> [p \in Package |-> "Keep"],
                    purge |-> [p \in Package |-> FALSE],
                    reinst |-> [p \in Package |-> FALSE],
                    dep |-> [d \in Dependency |-> {}],
                    group |-> [d \in Dependency |-> {}],
                    ver |-> [p \in Package |-> {}],
                    count |-> [w \in Counters |-> 0], usr |-> 0, down |-> 0]
           dep   == [d \in Dependency |-> DependencyState(base, d)]
           group == [d \in Dependency |-> BuildGroupOrs(dep, d)]
           ver   == [p \in Package |-> VerState(base, dep, p)]
           s == Scratch(base)
           f == [s EXCEPT !.count = [w \in Counters |-> Cardinality(Counted(s, w))],
                          !.usr = AllSizes(s).usr, !.down = AllSizes(s).down]
<1>1. Fresh = f
  BY DEF Fresh
<1>2. s = [base EXCEPT !.dep = dep, !.group = group, !.ver = ver]
  BY DEF Scratch
<1>3. /\ base.cand = [p \in Package |-> Pkg[p].candidate]
      /\ base.inst = [p \in Package |-> Pkg[p].current]
  OBVIOUS
<1>4. dep \in BitTable
  BY DEF DependencyState, BitTable
<1>5. group \in BitTable
  <2> HIDE DEF dep
  <2>1. \A d \in Dependency : BuildGroupOrs(dep, d) \in SUBSET Kinds
    BY <1>4, GroupType
  <2> QED BY <2>1 DEF BitTable
<1>6. ver \in [Package -> SUBSET Mins]
  <2>1. \A q \in Package : VerState(base, dep, q) \in SUBSET Mins
    BY DEF VerState
  <2> HIDE DEF base, dep
  <2> QED BY <2>1
<1>7. Fits(base, dep, group, ver)
  BY DEF Fits
<1>t. Typed(base)
  <2>1. \A p \in Package : Pkg[p].candidate \in MaybeVer /\ Pkg[p].current \in MaybeVer
    BY CacheAssumption DEF PackageInfo
  <2> QED BY <2>1 DEF Typed, BitTable
<1> HIDE DEF base, dep, group, ver
<1>8. /\ s.cand = base.cand /\ s.inst = base.inst /\ s.mode = base.mode
      /\ s.dep = dep /\ s.group = group /\ s.ver = ver
      /\ s.reinst = base.reinst /\ Typed(s)
  BY <1>2, <1>4, <1>5, <1>6, <1>t DEF Typed
<1> HIDE DEF s
<1>9. /\ f.cand = base.cand /\ f.inst = base.inst /\ f.mode = base.mode
      /\ f.dep = dep /\ f.group = group /\ f.ver = ver /\ f.reinst = base.reinst
      /\ f.count = [w \in Counters |-> Cardinality(Counted(s, w))]
      /\ f.usr = AllSizes(s).usr /\ f.down = AllSizes(s).down
  BY <1>8 DEF Typed
<1>10. Shape(f)
  <2>1. Typed(f)
    <3> DEFINE n == [w \in Counters |-> Cardinality(Counted(s, w))]
    <3>1. n \in [Counters -> Int]
      BY CountedFinite
    <3> HIDE DEF n
    <3>2. \A x, y : Typed([s EXCEPT !.count = n, !.usr = x, !.down = y])
      BY <1>8, <3>1 DEF Typed
    <3> QED BY <3>2 DEF n
  <2>2. Own(f)
    BY <1>3, <1>9, CacheAssumption DEF Own, OfPackage, PackageInfo, MaybeVer
  <2> QED BY <2>1, <2>2 DEF Shape
<1> HIDE DEF f
<1>11. Bounded(f)
  BY <1>3, <1>9 DEF Bounded
<1>12. Exact(f)
  <2>1. \A d \in Dependency : DependencyState(f, d) = DependencyState(base, d)
    BY <1>9, DependencyByVersions
  <2>2. \A q \in Package : VerState(f, dep, q) = VerState(base, dep, q)
    BY <1>9 DEF VerState
  <2> QED BY <1>7, <1>9, <2>1, <2>2 DEF Exact, Fits
<1>13. CountExact(f)
  <2>1. \A q \in Package : AddStates(f, q) = AddStates(s, q)
    BY <1>8, <1>9, CountedAlike
  <2>2. \A w \in Counters : Counted(f, w) = Counted(s, w)
    BY <2>1 DEF Counted
  <2> QED BY <1>9, <2>2 DEF CountExact
<1>14. SizeExact(f)
  <2>1. s.inst \in [Package -> MaybeVer] /\ f.inst \in [Package -> MaybeVer]
    BY <1>8, <1>9 DEF Typed
  <2>2. /\ AllSizes(f).usr = AllSizes(s).usr /\ AllSizes(f).down = AllSizes(s).down
        /\ AllSizes(s).usr \in Int /\ AllSizes(s).down \in Int
    BY <1>8, <1>9, <2>1, AllSizesSame
  <2> QED BY <1>9, <2>2 DEF SizeExact
<1> QED BY <1>1, <1>10, <1>11, <1>12, <1>13, <1>14 DEF Good

\* The inductive invariant: both the object and what a guard has saved are good.
IInv == Good(dc) /\ (saved # <<>> => Good(saved[1]))

LEMMA IInvInit == Init => IInv
BY FreshGood DEF Init, IInv

LEMMA IInvNext ==
    ASSUME ~MayChoose \/ SameProvides, IInv, [Next]_vars
    PROVE  IInv'
<1> USE DEF IInv
<1>1. ASSUME NEW p \in Package, Keep(p) PROVE IInv'
  BY <1>1, KeepGood DEF Keep
<1>2. ASSUME NEW p \in Package, Install(p) PROVE IInv'
  BY <1>2, InstallGood DEF Install
<1>3. ASSUME NEW p \in Package, NEW purge \in BOOLEAN, Delete(p, purge) PROVE IInv'
  BY <1>3, DeleteGood DEF Delete
<1>4. ASSUME NEW p \in Package, NEW to \in BOOLEAN, ReInstall(p, to) PROVE IInv'
  BY <1>4, ReInstallGood DEF ReInstall
<1>5. ASSUME NEW v \in Version, Choose(v) PROVE IInv'
  BY <1>5, ChooseGood DEF Choose
<1>6. CASE Save
  BY <1>6 DEF Save
<1>7. CASE Restore
  BY <1>7 DEF Restore
<1>8. CASE UnGuard
  BY <1>8 DEF UnGuard
<1>9. CASE UNCHANGED vars
  BY <1>9 DEF vars
<1>10. Purges \subseteq Package /\ ReInstalls \subseteq Package
  BY CacheAssumption
<1> QED BY <1>1, <1>2, <1>3, <1>4, <1>5, <1>6, <1>7, <1>8, <1>9, <1>10 DEF Next, Manipulate

\* What is cached about the dependencies, or groups and packages is what a computation
\* from scratch gives: if no other candidate is chosen, or if the versions of a package
\* provide the same.
THEOREM CacheExact ==
    ASSUME ~MayChoose \/ SameProvides
    PROVE  Spec => []StatesExact
<1>1. IInv => StatesExact
  BY ExactScratch DEF IInv, Good, StatesExact
<1>2. IInv /\ [Next]_vars => IInv'
  BY IInvNext
<1> QED BY <1>1, <1>2, IInvInit, PTL DEF Spec

\* The counters equal a recount, under the same condition.
THEOREM CountersRight ==
    ASSUME ~MayChoose \/ SameProvides
    PROVE  Spec => []CountersExact
<1>1. IInv => CountersExact
  BY DEF IInv, Good, CountExact, CountersExact
<1>2. IInv /\ [Next]_vars => IInv'
  BY IInvNext
<1> QED BY <1>1, <1>2, IInvInit, PTL DEF Spec

\* The sizes equal a recount, under the same condition.
THEOREM SizesRight ==
    ASSUME ~MayChoose \/ SameProvides
    PROVE  Spec => []SizesExact
<1>1. IInv => SizesExact
  BY DEF IInv, Good, SizeExact, SizesExact
<1>2. IInv /\ [Next]_vars => IInv'
  BY IInvNext
<1> QED BY <1>1, <1>2, IInvInit, PTL DEF Spec

\* The object has its type; above all, no counter, once counted down, is negative.
THEOREM CacheTypes ==
    ASSUME ~MayChoose \/ SameProvides
    PROVE  Spec => [](dc \in CacheType)
<1>1. ASSUME NEW s, Good(s) PROVE s \in CacheType
  <2>1. \A w \in Counters : s.count[w] \in Nat
    BY <1>1, CountedFinite DEF Good, CountExact
  <2>2. /\ Typed(s) /\ s.usr \in Int /\ s.down \in Int
        /\ s.count \in [Counters -> Nat]
    BY <1>1, <2>1 DEF Good, Shape, SizeExact, Typed
  <2> QED BY <2>2 DEF Typed, CacheType, BitTable
<1>2. IInv => dc \in CacheType
  BY <1>1 DEF IInv
<1>3. IInv /\ [Next]_vars => IInv'
  BY IInvNext
<1> QED BY <1>2, <1>3, IInvInit, PTL DEF Spec

-----------------------------------------------------------------------------
(* The mode and the version to be installed.                                *)

Suits(p, mode, inst, cand) ==
    /\ mode = "Keep"    => inst = Pkg[p].current
    /\ mode = "Install" => inst = cand /\ inst # Pkg[p].current /\ inst # NoVer
    /\ mode = "Delete"  => inst = NoVer

Follows(s) == \A p \in Package : Suits(p, s.mode[p], s.inst[p], s.cand[p])

\* A target that suits its mode.
LEMMA TargetFollows ==
    ASSUME NEW s, NEW p \in Package, NEW mode, NEW inst, Shape(s), Follows(s),
           Suits(p, mode, inst, s.cand[p])
    PROVE  Follows(Target(s, p, mode, inst))
<1> DEFINE u == [s EXCEPT !.mode[p] = mode, !.inst[p] = inst]
           r == Recount(s, Renewed(u, p), Touched(u, p), p)
<1>1. Target(s, p, mode, inst) = r
  BY UpdateIs DEF Target
<1>2. /\ u.mode = [s.mode EXCEPT ![p] = mode] /\ u.inst = [s.inst EXCEPT ![p] = inst]
      /\ u.cand = s.cand
  BY DEF Shape, Typed
<1>3. r.mode = u.mode /\ r.inst = u.inst /\ r.cand = u.cand
  BY DEF Recount, Renewed, Shape, Typed
<1> HIDE DEF u, r
<1>4. \A q \in Package : r.mode[q] = IF q = p THEN mode ELSE s.mode[q]
  BY <1>2, <1>3 DEF Shape, Typed
<1>5. \A q \in Package : r.inst[q] = IF q = p THEN inst ELSE s.inst[q]
  BY <1>2, <1>3 DEF Shape, Typed
<1>6. r.cand = s.cand
  BY <1>2, <1>3
<1> QED BY <1>1, <1>4, <1>5, <1>6 DEF Follows

LEMMA KeepFollows ==
    ASSUME NEW s, NEW p \in Package, Shape(s), Follows(s)
    PROVE  Follows(MarkKeep(s, p))
<1>1. Follows(Target(s, p, "Keep", Pkg[p].current))
  BY TargetFollows DEF Suits
<1> QED BY <1>1 DEF MarkKeep

LEMMA InstallFollows ==
    ASSUME NEW s, NEW p \in Package, Shape(s), Follows(s)
    PROVE  Follows(MarkInstall0(s, p))
<1>1. s.cand[p] = Pkg[p].current => Follows(Target(s, p, "Keep", s.cand[p]))
  BY TargetFollows DEF Suits
<1>2. s.cand[p] # Pkg[p].current /\ s.cand[p] # NoVer => Follows(Target(s, p, "Install", s.cand[p]))
  BY TargetFollows DEF Suits
<1> QED BY <1>1, <1>2, KeepFollows DEF MarkInstall0, Marks

LEMMA DeleteFollows ==
    ASSUME NEW s, NEW p \in Package, NEW purge \in BOOLEAN, Good(s), Follows(s)
    PROVE  Follows(MarkDelete(s, p, purge))
<1> DEFINE t == [s EXCEPT !.purge[p] = purge]
<1>1. Shape(t)
  BY PurgeGood DEF Good
<1>2. t.mode = s.mode /\ t.inst = s.inst /\ t.cand = s.cand
  BY DEF Good, Shape, Typed
<1> HIDE DEF t
<1>3. Follows(t)
  BY <1>2 DEF Follows
<1>4. Follows(Target(t, p, "Delete", NoVer))
  BY <1>1, <1>3, TargetFollows DEF Suits
<1>5. Pkg[p].current = NoVer => Follows(Target(t, p, "Keep", NoVer))
  BY <1>1, <1>3, TargetFollows DEF Suits
<1> QED BY <1>3, <1>4, <1>5 DEF MarkDelete, t

LEMMA ReInstallFollows ==
    ASSUME NEW s, NEW p \in Package, NEW to \in BOOLEAN, Shape(s), Follows(s)
    PROVE  Follows(SetReInstall(s, p, to))
<1> DEFINE r == SetReInstall(s, p, to)
<1>1. r.mode = s.mode /\ r.inst = s.inst /\ r.cand = s.cand
  BY DEF SetReInstall, Recount, Shape, Typed
<1> HIDE DEF r
<1>2. Follows(r)
  BY <1>1 DEF Follows
<1> QED BY <1>2 DEF r

LEMMA FreshFollows == Follows(Fresh)
<1> DEFINE base == [cand |-> [p \in Package |-> Pkg[p].candidate],
                    inst |-> [p \in Package |-> Pkg[p].current],
                    mode |-> [p \in Package |-> "Keep"],
                    purge |-> [p \in Package |-> FALSE],
                    reinst |-> [p \in Package |-> FALSE],
                    dep |-> [d \in Dependency |-> {}],
                    group |-> [d \in Dependency |-> {}],
                    ver |-> [p \in Package |-> {}],
                    count |-> [w \in Counters |-> 0], usr |-> 0, down |-> 0]
           s == Scratch(base)
<1>1. s.mode = [p \in Package |-> "Keep"] /\ s.inst = [p \in Package |-> Pkg[p].current]
  BY DEF Scratch
<1>2. Fresh = [s EXCEPT !.count = [w \in Counters |-> Cardinality(Counted(s, w))],
                        !.usr = AllSizes(s).usr, !.down = AllSizes(s).down]
  BY DEF Fresh
<1> HIDE DEF s
<1>3. \A a, b, c : LET f == [s EXCEPT !.count = a, !.usr = b, !.down = c]
                   IN f.mode = s.mode /\ f.inst = s.inst
  OBVIOUS
<1>4. Fresh.mode = s.mode /\ Fresh.inst = s.inst
  BY <1>2, <1>3
<1> QED BY <1>1, <1>4 DEF Follows, Suits

\* The version to be installed is the one the mode selects, as long as no other candidate
\* is chosen.
THEOREM ModeSelects ==
    ASSUME ~MayChoose
    PROVE  Spec => []VersionFollowsMode
<1> DEFINE Inv == IInv /\ Follows(dc) /\ (saved # <<>> => Follows(saved[1]))
<1>1. Init => Inv
  BY IInvInit, FreshFollows DEF Init
<1>2. Inv /\ [Next]_vars => Inv'
  <2> SUFFICES ASSUME Inv, [Next]_vars PROVE Inv'
    OBVIOUS
  <2>0. IInv' /\ Good(dc) /\ Shape(dc)
    BY IInvNext DEF IInv, Good
  <2>1. ASSUME NEW p \in Package, Keep(p) PROVE Inv'
    BY <2>0, <2>1, KeepFollows DEF Keep
  <2>2. ASSUME NEW p \in Package, Install(p) PROVE Inv'
    BY <2>0, <2>2, InstallFollows DEF Install
  <2>3. ASSUME NEW p \in Package, NEW purge \in BOOLEAN, Delete(p, purge) PROVE Inv'
    BY <2>0, <2>3, DeleteFollows DEF Delete
  <2>4. ASSUME NEW p \in Package, NEW to \in BOOLEAN, ReInstall(p, to) PROVE Inv'
    BY <2>0, <2>4, ReInstallFollows DEF ReInstall
  <2>5. CASE Save \/ Restore \/ UnGuard \/ UNCHANGED vars
    BY <2>0, <2>5 DEF Save, Restore, UnGuard, vars
  <2>6. Purges \subseteq Package /\ ReInstalls \subseteq Package
    BY CacheAssumption
  <2> QED BY <2>1, <2>2, <2>3, <2>4, <2>5, <2>6 DEF Next, Manipulate, Choose
<1>3. Inv => VersionFollowsMode
  BY DEF Follows, Suits, VersionFollowsMode
<1> QED BY <1>1, <1>2, <1>3, PTL DEF Spec
=============================================================================
