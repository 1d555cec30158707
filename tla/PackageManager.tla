---------------------------- MODULE PackageManager ----------------------------
(***************************************************************************)
(* pkgPackageManager (apt-pkg/packagemanager.cc) with its rpm half         *)
(* (apt-pkg/rpm/rpmpm.cc), driven by the loop of InstallPackages in        *)
(* cmdline/apt-get.cc: fetch what is needed, hand rpm a transaction with   *)
(* what has arrived, and go round again for what is on another disc.       *)
(*                                                                         *)
(* The order in which ConfigureAll configures is left out: pkgRPMPM::Go    *)
(* passes over every Configure.  --fix-missing is off.                     *)
(***************************************************************************)
EXTENDS OrderList

CONSTANTS
    Important,  \* the packages with that flag
    Immediate,  \* APT::Immediate-Configure
    CopyAll,    \* Acquire::CDROM::Copy-All
    Asked,      \* [Package -> SUBSET Wishes], what users ask for
    Discs       \* what may be at hand: the packages that arrive in one run

Wishes == {"keep", "install", "reinstall", "delete"}

ASSUME ManagerAssumption ==
    /\ Important \subseteq Package /\ Immediate \in BOOLEAN /\ CopyAll \in BOOLEAN
    /\ Asked \in [Package -> SUBSET Wishes] /\ Discs \subseteq SUBSET Package

VARIABLES
    pc,         \* where InstallPackages is
    wanted,     \* the packages whose archives are items of the fetcher
    transient,  \* an item is still idle after the fetcher ran
    next,       \* the element of list that OrderInstall is at
    ops,        \* pkgRPMPM::List
    complete,   \* OrderInstall returned Completed
    nodeps,     \* --nodeps has been added to RPM::Install-Options
    unchecked,  \* RPM::NoDeps
    ok,         \* Ret; otherwise an error is pending
    sys         \* what is installed, as rpm has it

pmVars  == <<pc, wanted, transient, next, ops, complete, nodeps, unchecked, ok, sys>>
allVars == <<vars, listVars, pmVars>>

-----------------------------------------------------------------------------
(* CreateOrderList.                                                         *)

Chose(c) ==
    FoldSet(LAMBDA p, s : CASE c[p] = "keep"    -> s
                            [] c[p] = "install" -> MarkInstall0(s, p)
                            [] c[p] = "reinstall" -> SetReInstall(s, p, TRUE)
                            [] c[p] = "delete"  -> MarkDelete(s, p, p \in Purges), Fresh, Package)

\* What InstallPackages accepts: nothing broken.
Plans ==
    {s \in {Chose(c) : c \in {f \in [Package -> Wishes] : \A p \in Package : f[p] \in Asked[p]}} :
        s.count["broken"] = 0}

Needed(s, p) ==
    {Dep[d].target : d \in {e \in Dependency :
        /\ Dep[e].parent \in {s.inst[p], Pkg[p].current}
        /\ Dep[e].type \in {"Depends", "PreDepends"}}}

AtOnce(s) ==
    IF ~Immediate THEN {}
    ELSE LET top == {p \in Essential \cup Important : ~Virtual(p)} IN
         top \cup UNION {Needed(s, p) : p \in top}

\* Variant with a bug: what has an install version is listed, changed or not.
Changes_Present(s) ==
    {p \in Package :
        /\ ~Virtual(p)
        /\ ~(/\ s.inst[p] = NoVer
             /\ Pkg[p].needs = "Nothing" /\ ~s.reinst[p]
             /\ Purged(p) \/ s.mode[p] # "Delete" \/ ~s.purge[p])}

Changes(s) ==
    {p \in Package :
        /\ ~Virtual(p)
        /\ ~(/\ s.mode[p] = "Keep" \/ s.inst[p] = Pkg[p].current
             /\ Pkg[p].needs = "Nothing" /\ ~s.reinst[p]
             /\ Purged(p) \/ s.mode[p] # "Delete" \/ ~s.purge[p])}

Begin ==
    /\ dc \in Plans /\ saved = <<>>
    /\ flag = [p \in Package |-> IF p \in AtOnce(dc) THEN {"Immediate"} ELSE {}]
    /\ list = SetToSeq(Changes(dc)) /\ out = <<>> /\ after = <<>> /\ at = 1
    /\ pass = "none" /\ calls = <<>> /\ loops = <<>> /\ files = {} /\ fileList = FALSE
    /\ pc = "archives" /\ wanted = {} /\ transient = FALSE /\ next = 1 /\ ops = <<>>
    /\ complete = FALSE /\ nodeps = FALSE /\ unchecked = FALSE /\ ok = TRUE
    /\ sys = [p \in Package |-> Pkg[p].current]

-----------------------------------------------------------------------------
(* GetArchives and the fetcher.                                             *)

GetArchives ==
    /\ pc = "archives" /\ OrderUnpack(FALSE)
    /\ pc' = "queue"
    /\ UNCHANGED <<vars, wanted, transient, next, ops, complete, nodeps, unchecked, ok, sys>>

\* The list is ordered: an item for every archive that is to be unpacked.
QueueArchives ==
    /\ pc = "queue" /\ pass = "none"
    /\ files' = files \ ToSet(list)
    /\ wanted' = {p \in ToSet(list) :
                     /\ ~Deletes(p) /\ ~(Pkg[p].needs = "Configure" /\ Keeps(p))
                     /\ IsNow(p)}
    /\ pc' = "fetch"
    /\ UNCHANGED <<vars, flag, list, out, after, at, pass, calls, loops, fileList,
                   transient, next, ops, complete, nodeps, unchecked, ok, sys>>

\* Variant with a bug: rpm checks the legs of a transaction that was split.
Fetch_Checked ==
    /\ pc = "fetch"
    /\ \E got \in {wanted \cap disc : disc \in Discs} :
         /\ files' = files \cup got
         /\ transient' = (got # wanted)
         /\ pc' = IF got # wanted /\ CopyAll THEN "archives" ELSE "install"
    /\ UNCHANGED <<vars, flag, list, out, after, at, pass, calls, loops, fileList,
                   wanted, next, ops, complete, nodeps, unchecked, ok, sys>>

\* Some archives arrive; others are on a disc that is not there.
Fetch ==
    /\ pc = "fetch"
    /\ \E got \in {wanted \cap disc : disc \in Discs} :
         /\ files' = files \cup got
         /\ transient' = (got # wanted)
         /\ pc' = IF got # wanted /\ CopyAll THEN "archives" ELSE "install"
         /\ nodeps' = (nodeps \/ (got # wanted /\ ~CopyAll))
    /\ UNCHANGED <<vars, flag, list, out, after, at, pass, calls, loops, fileList,
                   wanted, next, ops, complete, unchecked, ok, sys>>

\* An archive cannot be fetched at all, or the fetcher fails.
FetchFails ==
    /\ pc = "fetch" /\ pc' = "failed"
    /\ UNCHANGED <<vars, listVars, wanted, transient, next, ops, complete, nodeps, unchecked, ok, sys>>

-----------------------------------------------------------------------------
(* OrderInstall.                                                            *)

\* Variant with a bug: the transaction of the leg before is not dropped.
OrderInstall_NoReset ==
    /\ pc = "install" /\ OrderUnpack(TRUE)
    /\ next' = 1 /\ pc' = "order"
    /\ UNCHANGED <<vars, ops, wanted, transient, complete, nodeps, unchecked, ok, sys>>

OrderInstall ==
    /\ pc = "install" /\ OrderUnpack(TRUE)
    /\ ops' = <<>> /\ next' = 1 /\ pc' = "order"
    /\ UNCHANGED <<vars, wanted, transient, complete, nodeps, unchecked, ok, sys>>

\* rpm removes what a package it installs obsoletes.
Obsoleted(p) ==
    \E d \in Dependency :
        /\ Dep[d].type = "Obsoletes" /\ Dep[d].target = p
        /\ dc.mode[Parent(d)] = "Install" /\ Dep[d].parent = dc.inst[Parent(d)]
        /\ Pkg[p].current \in Dep[d].hits

SmartRemove(p) ==
    /\ flag' = [flag EXCEPT ![p] = (@ \ States) \cup {"Configured"}]
    /\ ops' = IF Obsoleted(p) THEN ops ELSE Append(ops, [op |-> "Remove", pkg |-> p])

SmartUnPack(p) ==
    /\ flag' = [flag EXCEPT ![p] = (@ \ States) \cup {"UnPacked"}]
    /\ ops' = Append(ops, [op |-> "Install", pkg |-> p])

Assembling == pc = "order" /\ pass = "none" /\ next <= Len(list)

Skip ==
    /\ Assembling /\ ~IsNow(list[next])
    /\ next' = next + 1
    /\ UNCHANGED <<vars, listVars, pc, wanted, transient, ops, complete, nodeps, unchecked, ok, sys>>

\* The rest of the list is for another leg.
Incomplete ==
    /\ Assembling /\ IsNow(list[next]) /\ IsMissing(list[next])
    /\ complete' = FALSE /\ pc' = "go"
    /\ UNCHANGED <<vars, listVars, wanted, transient, next, ops, nodeps, unchecked, ok, sys>>

\* Internal errors: a kept package is listed, or Install is given no file.
Refuses(p) ==
    \/ Keeps(p) /\ Pkg[p].needs = "Nothing" /\ ~dc.reinst[p]
    \/ ~Deletes(p) /\ p \notin files

Perform ==
    /\ Assembling /\ IsNow(list[next]) /\ ~IsMissing(list[next])
    /\ IF Refuses(list[next]) THEN pc' = "internal" /\ UNCHANGED <<flag, ops, next>>
       ELSE /\ next' = next + 1 /\ UNCHANGED pc
            /\ IF Deletes(list[next]) THEN SmartRemove(list[next])
               ELSE SmartUnPack(list[next])
    /\ UNCHANGED <<vars, list, out, after, at, pass, calls, loops, files, fileList,
                   wanted, transient, complete, nodeps, unchecked, ok, sys>>

ConfigureAll ==
    /\ pc = "order" /\ pass = "none" /\ next > Len(list)
    /\ flag' = [p \in Package |-> IF p \in ToSet(list) /\ Has(p, "UnPacked")
                                  THEN (flag[p] \ States) \cup {"Configured"} ELSE flag[p]]
    /\ complete' = TRUE
    /\ pc' = IF \A p \in ToSet(list) : Has(p, "Configured")' THEN "go" ELSE "internal"
    /\ UNCHANGED <<vars, list, out, after, at, pass, calls, loops, files, fileList,
                   wanted, transient, next, ops, nodeps, unchecked, ok, sys>>

-----------------------------------------------------------------------------
(* Go, and rpm.                                                             *)

Done(op) == {ops[i].pkg : i \in {j \in DOMAIN ops : ops[j].op = op}}

\* What rpm makes of the system: what is obsoleted goes too.
Applied ==
    [p \in Package |->
        IF p \in Done("Install") THEN dc.inst[p]
        ELSE IF \/ p \in Done("Remove")
                \/ \E d \in Dependency : /\ Dep[d].type = "Obsoletes"
                                         /\ Dep[d].parent \in {dc.inst[q] : q \in Done("Install")}
                                         /\ Meets(d, sys[p])
        THEN NoVer ELSE sys[p]]

Present(s, d) == \E p \in Package : Meets(d, s[p])
Conflicting(s) ==
    {d \in Dependency : Negative(d) /\ s[Parent(d)] = Dep[d].parent /\ Present(s, d)}
Unmet(s) ==
    {d \in Dependency : /\ ~Negative(d) /\ Critical(d) /\ Dep[d].last
                        /\ s[Parent(d)] = Dep[d].parent
                        /\ \A e \in Dep[d].alts : ~Present(s, e)}
Sound(s) == Conflicting(s) = {} /\ Unmet(s) = {}

\* What Go sets of RPM::NoDeps: the options for installing are read, and stay,
\* when there is something to install.
NoDeps == unchecked \/ (nodeps /\ Done("Install") # {})

Succeed ==
    /\ pc = "go" /\ (ops = <<>> \/ NoDeps \/ Sound(Applied))
    /\ unchecked' = NoDeps
    /\ sys' = Applied
    /\ pc' = IF ~ok /\ ~transient THEN "failed" ELSE IF complete THEN "done" ELSE "archives"
    /\ UNCHANGED <<vars, listVars, wanted, transient, next, ops, complete, nodeps, ok>>

\* Variant with a bug: a leg that fails is forgotten.
Fail_Forgotten ==
    /\ pc = "go" /\ ops # <<>>
    /\ unchecked' \in {unchecked, NoDeps}
    /\ pc' = IF transient THEN "archives" ELSE "failed"
    /\ UNCHANGED <<vars, listVars, wanted, transient, next, ops, complete, nodeps, ok, sys>>

\* rpm refuses the transaction, or fails before it begins.
Fail ==
    /\ pc = "go" /\ ops # <<>>
    /\ ok' = FALSE /\ unchecked' \in {unchecked, NoDeps}
    /\ pc' = IF transient THEN "archives" ELSE "failed"
    /\ UNCHANGED <<vars, listVars, wanted, transient, next, ops, complete, nodeps, sys>>

Ordering == pass # "none" /\ Order /\ UNCHANGED <<vars, pmVars>>

Step ==
    \/ Ordering \/ GetArchives \/ QueueArchives \/ Fetch \/ FetchFails
    \/ OrderInstall \/ Skip \/ Incomplete \/ Perform \/ ConfigureAll
    \/ Succeed \/ Fail

Run == Begin /\ [][Step]_allVars

\* It is one thread; what it waits for is another disc, in Fetch.
FairRun == Run /\ WF_allVars(Ordering)

-----------------------------------------------------------------------------
\* Every package that changes is in the list, once, after any walk over whatever
\* dependencies, loops and put-off packages.
ListComplete == IsInjective(list) /\ ToSet(list) = Changes(dc)

\* The walk ends, whatever loops the dependencies form.
OrderEnds == pass # "none" ~> pass = "none"

\* No internal error is reached: nothing that is kept, has no file, or is left
\* unconfigured comes up.
NothingInternal == pc # "internal"

\* rpm has removed p: something that it installed obsoletes what p was.
Gone(p) ==
    /\ sys[p] = NoVer
    /\ \E d \in Dependency : /\ Dep[d].type = "Obsoletes" /\ sys[Parent(d)] = Dep[d].parent
                             /\ Meets(d, Pkg[p].current)

\* A transaction has a package once, and no leg before has installed or removed it:
\* it is as it was at the start, or went as obsolete.
HandedOnce ==
    /\ \A i, j \in DOMAIN ops : ops[i].pkg = ops[j].pkg => i = j
    /\ pc \in {"order", "go"} =>
          \A i \in DOMAIN ops : \/ sys[ops[i].pkg] = Pkg[ops[i].pkg].current
                                \/ Gone(ops[i].pkg)

\* p is still to be dealt with, or what replaces it is.
Awaited(p) ==
    \E q \in Changes(dc) : /\ IsNow(q)
                           /\ \/ q = p
                              \/ \E d \in Dependency : /\ Dep[d].type = "Obsoletes"
                                                       /\ Dep[d].parent = dc.inst[q]
                                                       /\ Meets(d, Pkg[p].current)

\* d fails only until packages that are put off have changed.
ForNow(d) ==
    \E p \in Package : Awaited(p) /\ \/ p = Parent(d)
                                     \/ Negative(d) /\ Meets(d, Applied[p])
                                     \/ \E e \in Dep[d].alts : ~Negative(e) /\ Meets(e, dc.inst[p])

\* As long as no leg has failed, rpm's check passes wherever it is left on, or the leg
\* only removes, and what then fails awaits another disc (the options for installing turn
\* the check off, and a leg that installs nothing does not read them).
RpmAccepts ==
    pc = "go" /\ ok /\ ~NoDeps /\ ops # <<>> =>
        \/ Sound(Applied)
        \/ Done("Install") = {} /\ \A d \in Conflicting(Applied) \cup Unmet(Applied) : ForNow(d)

\* Success is reported only for the whole plan, over all legs.
PlanReached == pc = "done" => sys = dc.inst

PreDependsMet ==
    \A i \in DOMAIN ops : ops[i].op = "Install" =>
        \A d \in Dependency :
            /\ Dep[d].parent = dc.inst[ops[i].pkg] /\ Dep[d].type = "PreDepends"
            /\ Dep[d].last
            => \/ \E e \in Dep[d].alts : Present(sys, e)
               \/ \E e \in Dep[d].alts, j \in 1..(i - 1) :
                     ops[j].op = "Install" /\ Meets(e, dc.inst[ops[j].pkg])

\* The pre-dependencies of an unpacked package are there, or come before it in
\* the same transaction, unless a loop was found and as long as no disc is changed.
PreDependsFirst == pc = "go" /\ ~nodeps /\ loops = <<>> => PreDependsMet

\* What orderlist.cc:51 promises besides: what pre-depends on a package that is put off is
\* put off with it, as long as no leg has failed.  It does not hold (PutOff.cfg).
PutOffTogether == pc = "go" /\ ok /\ loops = <<>> => PreDependsMet

-----------------------------------------------------------------------------
(* What a cache that rpm feeds looks like.                                  *)

\* rpm never leaves a package unpacked but not configured: what it has is installed.
NoneHalfDone == \A p \in Package : Pkg[p].needs # "Configure"

\* Or groups do not mix what is wanted with what is not, and what is not wanted is
\* in no group.
PlainGroups ==
    \A d \in Dependency :
        /\ Negative(d) => Dep[d].last
        /\ ~Negative(d) => \A e \in Dep[d].alts : ~Negative(e)

RpmSystem == NoneHalfDone /\ PlainGroups

\* Nothing that is wanted is taken as met whatever there is (IgnoreDep).
NothingIgnored == \A d \in Dependency : ~Negative(d) => ~Dep[d].ignored

\* An or group is of one kind.
GroupsAlike == \A d \in Dependency : \A e \in Dep[d].alts : Dep[e].type = Dep[d].type

\* A version of c needs one of q.
Leads(c, q) ==
    \E d \in Dependency :
        /\ Dep[d].type \in {"Depends", "PreDepends"} /\ Parent(d) = c
        /\ \E v \in AllTargets(d) : Ver[v].pkg = q

\* R holds for what needs another, directly or through others.
Closed(R) ==
    /\ \A c, q \in Package : Leads(c, q) => <<c, q>> \in R
    /\ \A a, b, c \in Package : <<a, b>> \in R /\ <<b, c>> \in R => <<a, c>> \in R

\* A name that others provide is not a package itself, and none of those others needs
\* what pre-depends on the name: VisitNode looks for loops at the package named only.
NoWayBack(R) ==
    \A e \in Dependency : Dep[e].type = "PreDepends" =>
        \A v \in AllTargets(e) : Ver[v].pkg # Dep[e].target =>
            Virtual(Dep[e].target) /\ <<Ver[v].pkg, Parent(e)>> \notin R
=============================================================================
