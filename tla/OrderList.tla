------------------------------ MODULE OrderList ------------------------------
(***************************************************************************)
(* pkgOrderList (apt-pkg/orderlist.cc): puts the packages that change in   *)
(* the order in which they are to be unpacked and removed.  OrderUnpack    *)
(* sorts the list and then rebuilds it four times (passes A to D), each    *)
(* time by a depth-first walk that asks less than the one before.  The     *)
(* walk is a machine with an explicit stack: one step per dependency.      *)
(*                                                                         *)
(* The order in which the cache lists dependencies and targets is left     *)
(* open.  The Loop and Removed flags, which nothing reads, are left out.   *)
(***************************************************************************)
EXTENDS DepCache, Sequences, SequencesExt

CONSTANTS
    Essential,  \* the packages with that flag
    Priority,   \* [Version -> 0..5], what it adds to the score
    Name,       \* [Package -> Nat], the alphabet
    MaxLoops    \* how many loops are recorded (20 in the code)

ASSUME OrderAssumption ==
    /\ Essential \subseteq Package /\ MaxLoops \in Nat
    /\ Priority \in [Version -> 0..5]
    /\ Name \in [Package -> Nat]
    /\ \A p, q \in Package : Name[p] = Name[q] => p = q

Colours == {"Added", "AddPending", "InList"}
States  == {"UnPacked", "Configured"}
Flags   == Colours \cup States \cup {"Immediate", "After"}

VARIABLES
    flag,      \* [Package -> SUBSET Flags]
    list,      \* List, up to End
    out,       \* the list being built
    after,     \* AfterList
    at,        \* the next element of list to visit
    pass,      \* "none" before OrderUnpack and after it
    calls,     \* the VisitNode calls that have not returned, innermost last
    loops,     \* Loops: the dependencies that close a loop
    files,     \* the packages whose file name is known (FileNames)
    fileList   \* FileList is set, so that a file can be missing

listVars == <<flag, list, out, after, at, pass, calls, loops, files, fileList>>

Passes == {"A", "B", "C", "D"}
Visitors == {"Crit", "PreD", "Pre", "Dep", "Conf", "Rem"}   \* the functions DepXXX

\* stages: what is left to consider, each [fn, rev, deps]; visits: the packages
\* VisitProvides has left to visit; with: what Primary is while it does.
Stage == [fn: Visitors, rev: BOOLEAN, deps: SUBSET Dependency]
Frame == [pkg: Package, prim: Visitors, stages: Seq(Stage),
          visits: SUBSET Package, with: Visitors]

-----------------------------------------------------------------------------
(* What a package and a dependency look like to the walk.                   *)

Has(p, f) == f \in flag[p]
IsNow(p)  == flag[p] \cap States = {}
Keeps(p)  == dc.mode[p] = "Keep"
Deletes(p) == dc.mode[p] = "Delete"
Parent(d) == Ver[Dep[d].parent].pkg

NoFile(p) ==
    p \notin files /\ ~Deletes(p) /\ ~(Pkg[p].needs = "Configure" /\ Keeps(p))
IsMissing(p) == fileList /\ NoFile(p)

\* The state of v's package when this one is unpacked: what was added comes before.
Live(v, rev) ==
    LET p == Ver[v].pkg IN
    IF Has(p, "Added") \/ (rev /\ Has(p, "AddPending"))
    THEN dc.inst[p] = v
    ELSE Pkg[p].current = v /\ Pkg[p].needs = "Nothing"

Found(d, rev) == {v \in AllTargets(d) : Live(v, rev)}
Late(v)       == Has(Ver[v].pkg, "After")

\* CheckDep: its answer, and whether the parent is put off with what it found (which
\* of several the list has first decides).
Holds(d, rev) ==
    IF Negative(d) THEN Found(d, rev) = {}
    ELSE \E v \in Found(d, rev) : ~Late(v) \/ Dep[d].type = "PreDepends"

Inherits(d, rev) ==
    IF Found(d, rev) = {} THEN {FALSE}
    ELSE IF Negative(d) THEN {Late(v) : v \in Found(d, rev)}
    ELSE {Dep[d].type = "PreDepends" /\ \A v \in Found(d, rev) : Late(v)}

\* Variant with a bug: the versions that are there and those to come are mixed up.
Providers_Swapped(d, critical) ==
    {p \in {Ver[v].pkg : v \in AllTargets(d)} :
        /\ ~(Keeps(p) /\ Pkg[p].needs = "Nothing")
        /\ (IF Negative(d) THEN dc.inst[p] ELSE Pkg[p].current) \in AllTargets(d)
        /\ critical \/ ~IsMissing(Parent(d))}

\* VisitProvides: the packages that install, or have, a version it is about.
Providers(d, critical) ==
    {p \in {Ver[v].pkg : v \in AllTargets(d)} :
        /\ ~(Keeps(p) /\ Pkg[p].needs = "Nothing")
        /\ (IF Negative(d) THEN Pkg[p].current ELSE dc.inst[p]) \in AllTargets(d)
        /\ critical \/ ~IsMissing(Parent(d))}

-----------------------------------------------------------------------------
(* The functions DepXXX: which dependencies each considers, and what it does. *)

IsCurrent(d) == Pkg[Parent(d)].current = Dep[d].parent

\* depth: of the VisitNode that calls.
Concerns(fn, rev, d, depth) ==
    CASE rev /\ fn \in {"Crit", "PreD"} -> Negative(d) /\ IsCurrent(d)
      [] rev /\ fn = "Dep"  -> Critical(d) /\ IsCurrent(d)
      [] rev /\ fn = "Rem"  -> Dep[d].type \in {"Depends", "PreDepends"} /\ IsCurrent(d)
      [] rev /\ fn \in {"Pre", "Conf"} -> FALSE
      [] ~rev /\ fn = "Crit" -> Negative(d) \/ Dep[d].type = "PreDepends"
      [] ~rev /\ fn = "PreD" -> Critical(d)
      [] ~rev /\ fn = "Pre"  ->
            \/ Dep[d].type = "PreDepends"
            \/ Dep[d].type = "Depends" /\ (depth > 1 \/ Has(Parent(d), "Immediate"))
      [] ~rev /\ fn = "Conf" -> Dep[d].type = "Depends"

\* The package at the other end.
Anchor(rev, d) == IF rev THEN Parent(d) ELSE Dep[d].target

\* These do not visit what was visited before, but record the loop.
Guards(fn, rev) == IF rev THEN fn = "Rem" ELSE fn # "Conf"

\* A met dependency matters only if its other end is waiting for this package.
Pursued(fn, rev, d) ==
    \/ fn = "Conf" \/ ~Holds(d, rev)
    \/ /\ Guards(fn, rev) /\ Has(Anchor(rev, d), "AddPending")
       /\ fn \in {"Crit", "PreD"} => Dep[d].type = "PreDepends"

Blocked(fn, rev, d) ==
    Guards(fn, rev) /\ (Has(Anchor(rev, d), "Added") \/ Has(Anchor(rev, d), "AddPending"))

ToVisit(fn, rev, d) ==
    IF ~Pursued(fn, rev, d) \/ Blocked(fn, rev, d) THEN {}
    ELSE IF ~rev THEN Providers(d, fn # "Conf")
    ELSE IF fn \in {"Dep", "Rem"} /\ IsMissing(Parent(d)) THEN {}
    ELSE {Parent(d)}

ClosesLoop(fn, rev, d) ==
    Guards(fn, rev) /\ Pursued(fn, rev, d) /\ Has(Anchor(rev, d), "AddPending")

\* AddLoop: passes A and B do not count loops, and neighbours count once.
AddLoop(d) ==
    IF \/ pass \notin {"C", "D"} \/ Len(loops) >= MaxLoops
       \/ loops # <<>> /\ Parent(d) \in {Parent(Last(loops)), Dep[Last(loops)].target}
    THEN loops ELSE Append(loops, d)

-----------------------------------------------------------------------------
(* VisitNode.                                                               *)

Primary   == IF pass = "D" THEN "Pre" ELSE "Crit"
Reverses  == IF pass \in {"A", "B"} THEN {"Dep"} ELSE {}    \* RevDepends
Secondary == IF pass = "A" THEN {"Conf"} ELSE {}
Removes   == IF pass \in {"A", "B"} THEN {"Rem"} ELSE {}    \* Remove

\* Only what has anything to consider.
Some(fn, rev, deps) == IF deps = {} THEN <<>> ELSE << [fn |-> fn, rev |-> rev, deps |-> deps] >>

Forward(fn, p, depth) ==
    Some(fn, FALSE, {d \in Dependency : Dep[d].parent = dc.inst[p]
                                         /\ Concerns(fn, FALSE, d, depth)})
Backward(fn, names, depth) ==
    Some(fn, TRUE, {d \in Dependency : Dep[d].target \in names /\ Concerns(fn, TRUE, d, depth)})

Provides(v) == IF v = NoVer THEN {} ELSE Ver[v].provides

Backward3(fn, p, depth) ==
    Backward(fn, {p}, depth) \o Backward(fn, Provides(Pkg[p].current), depth)
    \o Backward(fn, Provides(dc.inst[p]), depth)

\* All that is considered for p, in order; what is done already is only listed.
Stages(p, prim, depth) ==
    IF ~IsNow(p) THEN <<>>
    ELSE IF Deletes(p)
    THEN IF Removes = {} THEN <<>>
         ELSE Backward("Rem", {p}, depth) \o Backward("Rem", Provides(Pkg[p].current), depth)
    ELSE Forward(prim, p, depth) \o Backward3(prim, p, depth)
         \o (IF Reverses = {} THEN <<>> ELSE Backward3("Dep", p, depth))
         \o (IF Secondary = {} THEN <<>> ELSE Forward("Conf", p, depth))

\* Variant with a bug: a package that is not to change may be visited.
Visitable_Any(p) == ~Has(p, "Added") /\ ~Has(p, "AddPending")

Visitable(p) == ~Has(p, "Added") /\ ~Has(p, "AddPending") /\ Has(p, "InList")

\* VisitNode(p), called by the frames fs when Primary is prim.
Enter(fs, p, prim) ==
    IF ~Visitable(p) THEN calls' = fs /\ UNCHANGED flag
    ELSE LET own == IF Has(p, "Immediate") /\ prim # "Pre" THEN "PreD" ELSE prim IN
         /\ flag' = [flag EXCEPT ![p] = @ \cup {"AddPending"}]
         /\ calls' = Append(fs, [pkg |-> p, prim |-> own, visits |-> {}, with |-> own,
                                 stages |-> Stages(p, own, Len(fs) + 1)])

Top   == Last(calls)
Below == SubSeq(calls, 1, Len(calls) - 1)

\* One dependency of the innermost package.
Consider ==
    /\ calls # <<>> /\ Top.visits = {} /\ Top.stages # <<>>
    /\ LET s == Head(Top.stages) IN
       \E d \in s.deps :
         /\ \E late \in IF s.fn = "Conf" THEN {FALSE} ELSE Inherits(d, s.rev) :
              flag' = IF late THEN [flag EXCEPT ![Parent(d)] = @ \cup {"After"}] ELSE flag
         /\ loops' = IF ClosesLoop(s.fn, s.rev, d) THEN AddLoop(d) ELSE loops
         /\ calls' = Below \o <<[Top EXCEPT
                !.stages = IF s.deps = {d} THEN Tail(@)
                           ELSE <<[s EXCEPT !.deps = @ \ {d}]>> \o Tail(@),
                !.visits = ToVisit(s.fn, s.rev, d),
                !.with   = IF s.fn = "Crit" /\ ~s.rev /\ Dep[d].type = "PreDepends"
                           THEN "PreD" ELSE Top.prim]>>
    /\ UNCHANGED <<list, out, after, at, pass, files, fileList>>

\* The next package that VisitProvides found.
Descend ==
    /\ calls # <<>>
    /\ \E p \in Top.visits :
         Enter(Below \o <<[Top EXCEPT !.visits = @ \ {p}]>>, p, Top.with)
    /\ UNCHANGED <<list, out, after, at, pass, loops, files, fileList>>

\* The package is listed: after all it waited for.
Leave ==
    /\ calls # <<>> /\ Top.visits = {} /\ Top.stages = <<>>
    /\ flag' = [flag EXCEPT ![Top.pkg] = (@ \ {"AddPending"}) \cup {"Added"}]
    /\ IF Has(Top.pkg, "After")
       THEN after' = Append(after, Top.pkg) /\ UNCHANGED out
       ELSE out' = Append(out, Top.pkg) /\ UNCHANGED after
    /\ calls' = Below
    /\ UNCHANGED <<list, at, pass, loops, files, fileList>>

-----------------------------------------------------------------------------
(* DoRun and OrderUnpack.                                                   *)

Score(p) ==
    IF Deletes(p) THEN 200
    ELSE IF dc.inst[p] = NoVer THEN -1
    ELSE 1 + Priority[dc.inst[p]]
           + (IF p \in Essential THEN 100 ELSE 0) + (IF Has(p, "Immediate") THEN 10 ELSE 0)
           - (IF \E d \in Dependency : /\ Dep[d].parent = dc.inst[p]
                                       /\ Dep[d].type = "PreDepends" THEN 1 ELSE 0)

\* OrderCompareA: what is still to do, then what is broken, then the score.
Urgency(p) ==
    (IF IsNow(p) THEN 2000 ELSE 0) + (IF Pkg[p].needs # "Nothing" THEN 1000 ELSE 0) + Score(p)
Before(p, q) == Urgency(p) > Urgency(q) \/ (Urgency(p) = Urgency(q) /\ Name[p] < Name[q])

\* What qsort leaves: the same packages.
Sorted == {s \in {SortSeq(list, Before)} :
              s \in Seq(Package) /\ IsInjective(s) /\ ToSet(s) = ToSet(list)}

\* The flags with which DoRun begins, given those before and the packages listed.
Begun(flags, listed) ==
    [p \in Package |-> (flags[p] \ Colours) \cup (IF p \in listed THEN {"InList"} ELSE {})]

\* The files are looked at (OrderInstall) or not (GetArchives).
OrderUnpack(with) ==
    /\ pass = "none"
    /\ fileList' = with
    /\ LET gone == {p \in ToSet(list) : NoFile(p) /\ IsNow(p)}
           put  == [p \in Package |-> IF p \in gone THEN flag[p] \cup {"After"}
                                                    ELSE flag[p] \ {"After"}]
       IN flag' = Begun(IF with THEN put ELSE flag, ToSet(list))
    /\ list' \in Sorted
    /\ pass' = "A" /\ at' = 1 /\ loops' = <<>>
    /\ UNCHANGED <<out, after, calls, files>>

\* Variant with a bug: stops before the last of the list.
VisitNext_OffByOne ==
    /\ pass # "none" /\ calls = <<>> /\ at < Len(list)
    /\ at' = at + 1
    /\ Enter(<<>>, list[at], Primary)
    /\ UNCHANGED <<list, out, after, pass, loops, files, fileList>>

\* DoRun: the next of the list.
VisitNext ==
    /\ pass # "none" /\ calls = <<>> /\ at <= Len(list)
    /\ at' = at + 1
    /\ Enter(<<>>, list[at], Primary)
    /\ UNCHANGED <<list, out, after, pass, loops, files, fileList>>

\* DoRun is through, and the next one begins.
EndPass ==
    /\ pass # "none" /\ calls = <<>> /\ at > Len(list)
    /\ list' = out \o after /\ out' = <<>> /\ after' = <<>>
    /\ pass' = CASE pass = "A" -> "B" [] pass = "B" -> "C" [] pass = "C" -> "D"
                 [] pass = "D" -> "none"
    /\ loops' = IF pass = "D" THEN loops ELSE <<>>
    /\ at' = 1
    /\ flag' = IF pass = "D" THEN flag ELSE Begun(flag, ToSet(out \o after))
    /\ UNCHANGED <<calls, files, fileList>>

Order == VisitNext \/ Consider \/ Descend \/ Leave \/ EndPass
=============================================================================
