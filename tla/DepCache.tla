------------------------------- MODULE DepCache -------------------------------
(***************************************************************************)
(* pkgDepCache (apt-pkg/depcache.cc): what will become of every package,   *)
(* and everything that is cached about it: the state of each dependency,   *)
(* of each or group and of each package, and the running totals.  A mark   *)
(* changes one package; Update and the Remove/Add brackets around it are   *)
(* to leave every cached value as a computation from scratch would.        *)
(*                                                                         *)
(* The package cache under it (pkgCache) is read-only: constants.          *)
(***************************************************************************)
EXTENDS Integers, FiniteSets, FiniteSetsExt

CONSTANTS
    Package, Version, Dependency,
    NoVer,      \* a null Version pointer
    Pkg,        \* [Package -> PackageInfo]
    Ver,        \* [Version -> VersionInfo]
    Dep,        \* [Dependency -> DependencyInfo]
    Purges, ReInstalls,  \* the packages that may be purged or reinstalled
    MayChoose,  \* SetCandidateVersion is called
    GuardUpTo   \* a pkgDepCache::State is saved while fewer packages are marked

MaybeVer == Version \cup {NoVer}
Negatives == {"Conflicts", "Obsoletes"}

\* candidate is what the policy answers; configFiles: removed but not purged.
PackageInfo == [current: MaybeVer, candidate: MaybeVer, configFiles: BOOLEAN,
                needs: {"Nothing", "Configure", "Unpack"}]
\* rank orders the versions of a package; files says it can be downloaded.
VersionInfo == [pkg: Package, rank: Nat, provides: SUBSET Package, files: BOOLEAN,
                installed: Nat, archive: Nat]
\* hits: the versions that match it, by their own name or by one they provide.
\* alts: its or group, up to and including itself; last: the group ends here.
\* ignored: the packaging system is told to take it as met (IgnoreDep).
DependencyInfo == [type: {"Depends", "PreDepends", "Suggests"} \cup Negatives,
                   target: Package, parent: Version, hits: SUBSET Version,
                   alts: SUBSET Dependency, last: BOOLEAN, ignored: BOOLEAN]

Negative(d) == Dep[d].type \in Negatives

ASSUME CacheAssumption ==
    /\ IsFiniteSet(Package) /\ NoVer \notin Version
    /\ Pkg \in [Package -> PackageInfo]
    /\ Ver \in [Version -> VersionInfo]
    /\ Dep \in [Dependency -> DependencyInfo]
    /\ \A p \in Package : \A v \in {Pkg[p].current, Pkg[p].candidate} \ {NoVer} :
          Ver[v].pkg = p
    /\ \A d \in Dependency : \A e \in Dep[d].alts : Dep[e].parent = Dep[d].parent
    /\ \A d \in Dependency : d \in Dep[d].alts /\ (Negative(d) => Dep[d].alts = {d})
    /\ Purges \subseteq Package /\ ReInstalls \subseteq Package
    /\ MayChoose \in BOOLEAN /\ GuardUpTo \in Nat

Kinds == {"Now", "Install", "CVer"}
Mins  == {"NowMin", "InstMin", "CandMin"}

(* The object: cand, inst, mode and the flags Purge and ReInstall of each   *)
(* package; dep and group, the low and the DepG bits of DepState; ver, the  *)
(* Min bits of a package's DepState (the Policy bits are always the same);  *)
(* the counters and the two sizes.                                          *)
Counters == {"del", "inst", "keep", "broken"}
CacheType == [cand: [Package -> MaybeVer], inst: [Package -> MaybeVer],
              mode: [Package -> {"Delete", "Keep", "Install"}],
              purge: [Package -> BOOLEAN], reinst: [Package -> BOOLEAN],
              dep: [Dependency -> SUBSET Kinds], group: [Dependency -> SUBSET Kinds],
              ver: [Package -> SUBSET Mins], count: [Counters -> Nat],
              usr: Int, down: Int]

VARIABLES
    dc,      \* the pkgDepCache
    saved    \* a list of at most one pkgDepCache::State
vars == <<dc, saved>>

Virtual(p) == \A v \in Version : Ver[v].pkg # p
Purged(p)  == Pkg[p].current = NoVer /\ ~Pkg[p].configFiles

-----------------------------------------------------------------------------
(* Dependencies.                                                            *)

Critical(d) == Dep[d].type # "Suggests"

Chosen(s, p, k) ==
    CASE k = "Now" -> Pkg[p].current [] k = "Install" -> s.inst[p] [] k = "CVer" -> s.cand[p]

\* A package neither conflicts with itself nor obsoletes itself, and it
\* obsoletes names, not what is provided.
Meets(d, v) ==
    /\ v \in Dep[d].hits
    /\ \/ Ver[v].pkg = Dep[d].target
       \/ Dep[d].type # "Obsoletes" /\ Dep[d].target \in Ver[v].provides
    /\ Negative(d) => Ver[v].pkg # Ver[Dep[d].parent].pkg

\* What AllTargets lists: unlike CheckDep, the providers of an obsoleted name too.
AllTargets(d) ==
    {v \in Dep[d].hits :
        /\ Ver[v].pkg = Dep[d].target \/ Dep[d].target \in Ver[v].provides
        /\ Negative(d) => Ver[v].pkg # Ver[Dep[d].parent].pkg}

CheckDep(s, d, k) ==
    \/ \E v \in Version : Meets(d, v) /\ Chosen(s, Ver[v].pkg, k) = v
    \/ Dep[d].ignored /\ Dep[d].type # "Obsoletes"

DependencyState(s, d) == {k \in Kinds : CheckDep(s, d, k) # Negative(d)}

Either(dep, d) == UNION {dep[e] : e \in Dep[d].alts}

\* The DepG bits of a member are those of the group up to it.
BuildGroupOrs(dep, d) == IF Negative(d) THEN dep[d] ELSE Either(dep, d)

VersionState(dep, v, k) ==
    \A d \in Dependency :
        Dep[d].parent = v /\ Dep[d].last /\ Critical(d) => k \in Either(dep, d)

VerState(s, dep, p) ==
    {m \in Mins :
        CASE m = "NowMin"  -> VersionState(dep, Pkg[p].current, "Now")
          [] m = "CandMin" -> VersionState(dep, s.cand[p], "Install")
          [] m = "InstMin" -> VersionState(dep, s.inst[p], "Install")}

-----------------------------------------------------------------------------
(* What a package adds to the totals.                                       *)

Status(s, p) ==
    IF Pkg[p].current = NoVer \/ s.cand[p] = NoVer \/ Virtual(p) THEN 2
    ELSE IF s.cand[p] = Pkg[p].current THEN 0
    ELSE IF Ver[s.cand[p]].rank > Ver[Pkg[p].current].rank THEN 1 ELSE -1

\* The counters that count package p.
AddStates(s, p) ==
    {w \in Counters :
        CASE w = "broken" -> "InstMin" \notin s.ver[p]
          [] w = "del"    -> /\ s.mode[p] = "Delete"
                             /\ Pkg[p].current = NoVer => ~s.reinst[p] /\ ~Purged(p)
          [] w = "inst"   -> IF Pkg[p].current # NoVer /\ Status(s, p) = 0
                             THEN s.mode[p] # "Delete" /\ s.reinst[p]
                             ELSE s.mode[p] = "Install"
          [] w = "keep"   -> /\ Pkg[p].current # NoVer /\ Status(s, p) # 0
                             /\ s.mode[p] = "Keep"}

Counted(s, w) == {p \in Package : w \in AddStates(s, p)}

Installed(v) == IF v = NoVer THEN 0 ELSE Ver[v].installed
Archive(v)   == IF v = NoVer THEN 0 ELSE Ver[v].archive

Size(usr, down) == [usr |-> usr, down |-> down]

AddSizes(s, p) ==
    LET cur == Pkg[p].current
        new == s.inst[p]
    IN IF Virtual(p) \/ (Pkg[p].needs = "Configure" /\ s.mode[p] = "Keep")
       THEN Size(0, 0)
       ELSE IF Status(s, p) = 2 /\ s.mode[p] = "Install"
       THEN Size(Installed(new), Archive(new))
       ELSE IF cur # NoVer /\ new # NoVer /\ (new # cur \/ s.reinst[p])
       THEN Size(Installed(new) - Installed(cur), Archive(new))
       ELSE IF Pkg[p].needs = "Unpack" /\ s.mode[p] # "Delete"
       THEN Size(0, Archive(new))
       ELSE IF cur # NoVer /\ new = NoVer THEN Size(-Installed(cur), 0)
       ELSE Size(0, 0)

\* RemoveStates and RemoveSizes in s, AddStates and AddSizes in t: of the packages
\* in touched, and of p.
Recount(s, t, touched, p) ==
    [t EXCEPT !.count = [w \in Counters |->
                            s.count[w] - Cardinality(Counted(s, w) \cap touched)
                                       + Cardinality(Counted(t, w) \cap touched)],
              !.usr  = s.usr - AddSizes(s, p).usr + AddSizes(t, p).usr,
              !.down = s.down - AddSizes(s, p).down + AddSizes(t, p).down]

-----------------------------------------------------------------------------
(* Update(Pkg): the dependencies on p, or on what its current or candidate  *)
(* version provides, then the packages that have them.                      *)

\* Variant with a bug: what the candidate provides is left out.
Affected_NoCandidate(s, p) ==
    {d \in Dependency :
        \/ Dep[d].target = p
        \/ Pkg[p].current # NoVer /\ Dep[d].target \in Ver[Pkg[p].current].provides}

Affected(s, p) ==
    {d \in Dependency :
        \/ Dep[d].target = p
        \/ \E v \in {Pkg[p].current, s.cand[p]} \ {NoVer} :
              Dep[d].target \in Ver[v].provides}

\* Variant with a bug: a package whose dependencies change is updated without being
\* taken out of the totals.
Update_CountOnlySelf(s, u, p) ==
    LET hit     == Affected(u, p)
        dep     == [d \in Dependency |-> IF d \in hit THEN DependencyState(u, d)
                                                      ELSE u.dep[d]]
        rebuilt == {Dep[d].parent : d \in hit}
    IN Recount(s, [u EXCEPT !.dep   = dep,
                            !.group = [d \in Dependency |->
                                          IF Dep[d].parent \in rebuilt
                                          THEN BuildGroupOrs(dep, d) ELSE u.group[d]],
                            !.ver   = [q \in Package |-> VerState(u, dep, q)]], {p}, p)

\* s: when p was taken out of the totals; u: p changed, nothing updated yet.
Update(s, u, p) ==
    LET hit     == Affected(u, p)
        dep     == [d \in Dependency |-> IF d \in hit THEN DependencyState(u, d)
                                                      ELSE u.dep[d]]
        rebuilt == {Dep[d].parent : d \in hit}
        touched == {p} \cup {Ver[v].pkg : v \in rebuilt}
    IN Recount(s, [u EXCEPT !.dep   = dep,
                            !.group = [d \in Dependency |->
                                          IF Dep[d].parent \in rebuilt
                                          THEN BuildGroupOrs(dep, d) ELSE u.group[d]],
                            !.ver   = [q \in Package |-> IF q \in touched
                                                         THEN VerState(u, dep, q)
                                                         ELSE u.ver[q]]],
               touched, p)

Target(s, p, mode, inst) ==
    Update(s, [s EXCEPT !.mode[p] = mode, !.inst[p] = inst], p)

-----------------------------------------------------------------------------
(* The manipulators.                                                        *)

MarkKeep(s, p) ==
    LET cur == Pkg[p].current IN
    IF \/ Pkg[p].needs = "Unpack" /\ (cur = NoVer \/ ~Ver[cur].files)
       \/ s.mode[p] = "Keep" \/ Virtual(p)
    THEN s
    ELSE Target(s, p, "Keep", cur)

MarkDelete(s, p, purge) ==
    LET t    == [s EXCEPT !.purge[p] = purge]
        idle == Purged(p) \/ ~purge
    IN IF Virtual(p) \/ ((s.mode[p] = "Delete" \/ s.inst[p] = NoVer) /\ idle)
       THEN t
       ELSE Target(t, p, IF Pkg[p].current = NoVer /\ idle THEN "Keep" ELSE "Delete", NoVer)

\* MarkInstall0 returns 1 when it marks.
Already(s, p) ==
    "InstMin" \in s.ver[p] /\ (s.mode[p] = "Install" \/ s.cand[p] = Pkg[p].current)

Marks(s, p) == ~Already(s, p) /\ s.cand[p] # NoVer /\ ~Virtual(p)

MarkInstall0(s, p) ==
    IF Already(s, p)
    THEN IF s.cand[p] = Pkg[p].current /\ s.inst[p] = NoVer THEN MarkKeep(s, p) ELSE s
    ELSE IF ~Marks(s, p) THEN s
    ELSE Target(s, p, IF s.cand[p] = Pkg[p].current THEN "Keep" ELSE "Install", s.cand[p])

\* Variant with a bug: the package is not taken out of the totals before the
\* flag changes.
SetReInstall_NoRemove(s, p, to) ==
    LET t == [s EXCEPT !.reinst[p] = to] IN Recount(t, t, {p}, p)

SetReInstall(s, p, to) ==
    Recount(s, [s EXCEPT !.reinst[p] = to], {p}, p)

SetCandidateVersion(s, v) ==
    LET p == Ver[v].pkg IN
    Update(s, [s EXCEPT !.inst[p] = IF s.cand[p] = @ THEN v ELSE @, !.cand[p] = v], p)

-----------------------------------------------------------------------------
(* The object as Init leaves it, and the calls.                             *)

\* Update(Prog): every cached state, from scratch.
Scratch(s) ==
    LET dep == [d \in Dependency |-> DependencyState(s, d)] IN
    [s EXCEPT !.dep = dep, !.group = [d \in Dependency |-> BuildGroupOrs(dep, d)],
              !.ver = [p \in Package |-> VerState(s, dep, p)]]

AllSizes(s) ==
    Size(MapThenSumSet(LAMBDA p : AddSizes(s, p).usr, Package),
         MapThenSumSet(LAMBDA p : AddSizes(s, p).down, Package))

\* Every package as it is.
Fresh ==
    LET s == Scratch([cand |-> [p \in Package |-> Pkg[p].candidate],
                      inst |-> [p \in Package |-> Pkg[p].current],
                      mode |-> [p \in Package |-> "Keep"],
                      purge |-> [p \in Package |-> FALSE],
                      reinst |-> [p \in Package |-> FALSE],
                      dep |-> [d \in Dependency |-> {}],
                      group |-> [d \in Dependency |-> {}],
                      ver |-> [p \in Package |-> {}],
                      count |-> [w \in Counters |-> 0], usr |-> 0, down |-> 0])
    IN [s EXCEPT !.count = [w \in Counters |-> Cardinality(Counted(s, w))],
                 !.usr = AllSizes(s).usr, !.down = AllSizes(s).down]

Init == dc = Fresh /\ saved = <<>>

Keep(p)          == dc' = MarkKeep(dc, p) /\ UNCHANGED saved
Delete(p, purge) == dc' = MarkDelete(dc, p, purge) /\ UNCHANGED saved
Install(p)       == dc' = MarkInstall0(dc, p) /\ UNCHANGED saved
ReInstall(p, to) == dc' = SetReInstall(dc, p, to) /\ UNCHANGED saved
Choose(v)        == MayChoose /\ dc' = SetCandidateVersion(dc, v) /\ UNCHANGED saved

\* pkgDepCache::State: a guard saves everything and may put it back.
Save ==
    /\ Cardinality({p \in Package : dc.mode[p] # "Keep"}) < GuardUpTo /\ saved = <<>>
    /\ saved' = <<dc>> /\ UNCHANGED dc

Restore ==
    /\ saved # <<>>
    /\ dc' = saved[1] /\ saved' = <<>>

\* The changes are confirmed.
UnGuard == saved # <<>> /\ saved' = <<>> /\ UNCHANGED dc

Manipulate ==
    \/ \E p \in Package : Keep(p) \/ Install(p) \/ Delete(p, FALSE)
    \/ \E p \in Purges : Delete(p, TRUE)
    \/ \E p \in ReInstalls, to \in BOOLEAN : ReInstall(p, to)
    \/ \E v \in Version : Choose(v)

Next == Manipulate \/ Save \/ Restore \/ UnGuard

Spec == Init /\ [][Next]_vars

-----------------------------------------------------------------------------

\* Every cached dependency, or group and package state is what a computation
\* from scratch gives, after any sequence of marks: Update reaches them all.
\* It does not if versions of a package provide different things and another
\* candidate is chosen.
StatesExact == dc = Scratch(dc)

\* The counters behind "N upgraded, N newly installed, N to remove" and behind
\* BrokenCount, which decides whether a problem resolver runs, equal a recount.
CountersExact == \A w \in Counters : dc.count[w] = Cardinality(Counted(dc, w))

\* The download and installed sizes equal a recount.
SizesExact == dc.usr = AllSizes(dc).usr /\ dc.down = AllSizes(dc).down

\* The install version is the one the mode selects: what is kept stays as it
\* is, what is installed becomes the candidate, what is deleted goes.
VersionFollowsMode ==
    \A p \in Package :
        /\ dc.mode[p] = "Keep"    => dc.inst[p] = Pkg[p].current
        /\ dc.mode[p] = "Install" => dc.inst[p] = dc.cand[p] /\ dc.inst[p] # Pkg[p].current
        /\ dc.mode[p] = "Delete"  => dc.inst[p] = NoVer
=============================================================================
