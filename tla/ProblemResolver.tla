--------------------------- MODULE ProblemResolver ---------------------------
(***************************************************************************)
(* pkgProblemResolver (apt-pkg/algorithms.cc): makes a set of marks whole. *)
(* Resolve goes over the broken packages by score, up to ten times, and    *)
(* for each member of each broken or group looks at every version that     *)
(* could meet it: it keeps or removes the broken package, upgrades another *)
(* one, or puts it on a list of packages to be kept or removed.            *)
(* ResolveByKeep only ever goes back to what is installed.  One step per   *)
(* member and per version; the recursion of DoUpgrade is one step.         *)
(***************************************************************************)
EXTENDS DepCacheInstall

CONSTANTS
    PkgList,     \* the packages that have versions, in the order of the cache
    Targets,     \* [Dependency -> Seq(Version)], AllTargets in its order
    Essential,   \* the packages with that flag
    Importance,  \* [Package -> 0..3]: 1 Standard, 2 Required, 3 Important, 0 others
    Priority,    \* [Version -> 0..5], the version's own
    MaxRounds    \* 10 in the code

ASSUME ResolverAssumption ==
    /\ PkgList \in Seq(Package) /\ {PkgList[i] : i \in DOMAIN PkgList} =
                                     {p \in Package : ~Virtual(p)}
    /\ \A d \in Dependency : {Targets[d][i] : i \in DOMAIN Targets[d]} = AllTargets(d)
    /\ Essential \subseteq Package /\ Importance \in [Package -> 0..3]
    /\ Priority \in [Version -> 0..5] /\ MaxRounds \in Nat

VARIABLES
    fix,   \* the object: its flags, the scores and the sorted list
    pass,  \* where Resolve or ResolveByKeep is, and what it returned
    look   \* the broken package that Resolve looks at, and its kill list
resolverVars == <<allVars, fix, pass, look>>

Positive(d) == Dep[d].type \in {"Depends", "PreDepends"}
Broken(s, p)    == "InstMin" \notin s.ver[p]
NowBroken(s, p) == "NowMin" \notin s.ver[p]
BrokenCount(s)  == s.count["broken"]

\* The marks of DepCache, several in one step.  TLC computes a function at each use of
\* it: to choose the result from the values of its type has it computed once, and not
\* again for every mark that follows.
Once(marked) == CHOOSE t \in marked : t \in CacheType
\* FoldLeft, with each result computed once.
Through(op(_, _), base, list) ==
    FoldLeft(LAMBDA acc, x : CHOOSE r \in {op(a, x) : a \in {acc}} : TRUE, base, list)

Keeping(s, p)    == Once({MarkKeep(t, p) : t \in {s}})
Removing(s, p)   == Once({MarkDelete(t, p, FALSE) : t \in {s}})
Installing(s, p) == Once({MarkInstall0(t, p) : t \in {s}})

NewFix == [protect |-> {}, remove |-> {}, pre |-> {}, up |-> {},
           score |-> [p \in Package |-> 0], list |-> <<>>]
NoPass == [phase |-> "no", fixing |-> FALSE, round |-> 0, at |-> 1, change |-> FALSE,
           stop |-> 0, result |-> "none"]
NoLook == [pkg |-> NoVer, ver |-> NoVer, g |-> 0, m |-> 0, v |-> 0, inOr |-> FALSE,
           op |-> "remove", old |-> 0, kills |-> <<>>, done |-> FALSE]

At(phase) == frames = <<>> /\ Idle /\ pass.phase = phase /\ UNCHANGED <<saved, frames, wave>>
ResolverOnly == UNCHANGED <<dc, look>>

-----------------------------------------------------------------------------
(* Scores, which are signed shorts.                                         *)

Abs(n)   == IF n < 0 THEN -n ELSE n
Short(n) == ((n + 32768) % 65536) - 32768
PrioMap == <<0, 3, 2, 1, -1, -2>>

BaseScore(s, p) ==
    IF s.inst[p] = NoVer THEN 0
    ELSE (IF p \in Essential THEN 100 ELSE 0) + PrioMap[Priority[s.inst[p]] + 1]
         + (IF Pkg[p].current # NoVer THEN 1 ELSE 0)

\* The dependencies of the versions to be installed.
Wanted(s) == {d \in Dependency : Positive(d) /\ s.inst[Ver[Dep[d].parent].pkg] = Dep[d].parent}

AllPackages == PkgList \o SetToSeq({p \in Package : Virtual(p)})

\* As Once, for scores.
Scored(scores) == CHOOSE f \in scores : f \in [Package -> Int]

Own(s) ==
    [p \in Package |-> Short(BaseScore(s, p) + Cardinality({d \in Wanted(s) : Dep[d].target = p}))]

Inherited(s, old) ==
    [p \in Package |->
        IF s.inst[p] = NoVer THEN old[p]
        ELSE Short(old[p] + MapThenSumSet(LAMBDA d : Abs(old[Ver[Dep[d].parent].pkg]),
                                          {d \in Wanted(s) : Dep[d].target = p}))]

Provide(s, old, f, p) ==
    Scored({[q \in Package |->
                IF s.inst[q] # NoVer /\ p \in Ver[s.inst[q]].provides
                THEN Short(f[q] + Abs(f[p] - old[p])) ELSE f[q]]})

\* One provided name after the other.
Provided(s, old, inherited) ==
    Through(LAMBDA f, p : Provide(s, old, f, p), inherited,
            SelectSeq(AllPackages, LAMBDA p : \E v \in Version : p \in Ver[v].provides))

\* What is protected goes ahead of everything.
Raised(protect, f) ==
    [p \in Package |-> Short(f[p] + (IF p \in protect THEN 10000 ELSE 0)
                                  + (IF p \in Essential THEN 5000 ELSE 0)
                                  + 1000 * Importance[p])]

MakeScores(s, protect) ==
    Scored({Raised(protect, Provided(s, old, Scored({Inherited(s, old)}))) :
                old \in {Scored({Own(s)})}})

\* From highest to lowest; equal ones stay in the order of the cache.
Sorted(score) ==
    LET place == [p \in Package |-> SelectInSeq(PkgList, LAMBDA q : q = p)] IN
    SortSeq(PkgList, LAMBDA p, q : \/ score[p] > score[q]
                                   \/ score[p] = score[q] /\ place[p] < place[q])

-----------------------------------------------------------------------------
(* DoUpgrade: install p and, if need be, upgrade what it depends on.        *)

\* SmartTargetPkg: the first that provides a name nobody has.
SmartTarget(d) ==
    LET owners == SelectSeq(PkgList, LAMBDA p :
                      /\ p # Ver[Dep[d].parent].pkg
                      /\ \E v \in Version : Ver[v].pkg = p /\ Dep[d].target \in Ver[v].provides)
    IN IF ~Virtual(Dep[d].target) \/ owners = <<>> THEN Dep[d].target ELSE owners[1]

\* Tried: the state, what may still be upgraded, and whether it worked.
Tried(s, up, ok) == [s |-> s, up |-> up, ok |-> ok]

RECURSIVE DoUpgrade(_, _, _)

After(r) == [s |-> r.s, up |-> r.up, fail |-> ~r.ok, stop |-> r.ok]

\* A member of an or group whose last one is e.
UpgradeMember(acc, d, e) ==
    IF acc.stop \/ "Install" \in acc.s.group[e] THEN [acc EXCEPT !.stop = TRUE]
    ELSE IF SmartTarget(d) \in fix.protect THEN [acc EXCEPT !.fail = TRUE]
    ELSE IF "CVer" \in acc.s.dep[d] THEN After(DoUpgrade(acc.s, acc.up, SmartTarget(d)))
    ELSE IF Negative(d) THEN [acc EXCEPT !.stop = TRUE]
    ELSE [acc EXCEPT !.fail = TRUE]

UpgradeGroup(acc, or) ==
    IF acc.fail \/ ~Critical(Last(or)) THEN acc
    ELSE Through(LAMBDA a, d : UpgradeMember(a, d, Last(or)), [acc EXCEPT !.stop = FALSE], or)

UpgradeGroups(t, up, p) ==
    Through(UpgradeGroup, [s |-> t, up |-> up, fail |-> t.inst[p] = NoVer, stop |-> FALSE],
             IF t.inst[p] = NoVer THEN <<>> ELSE Groups[t.inst[p]])

\* If it fails only p itself is put back.
PutBack(s, p, r) ==
    IF ~r.fail THEN Tried(r.s, r.up, TRUE)
    ELSE IF r.s.inst[p] = NoVer THEN Tried(r.s, r.up, FALSE)
    ELSE Tried(IF s.mode[p] = "Keep" THEN Keeping(r.s, p) ELSE Removing(r.s, p),
               r.up, FALSE)

DoUpgrade(s, up, p) ==
    IF p \notin up \/ Status(s, p) < 1 \/ p \in fix.protect THEN Tried(s, up, FALSE)
    ELSE PutBack(s, p, UpgradeGroups(Installing(s, p), up \ {p}, p))

-----------------------------------------------------------------------------
(* Resolve.                                                                 *)

Installs(s) == {p \in Package : s.mode[p] = "Install"}

\* Record which packages are marked for install; with fixing, what is broken is
\* marked first, until nothing new is.
Record ==
    /\ At("record") /\ pass.at <= Len(PkgList)
    /\ LET p == PkgList[pass.at] IN
       /\ dc' = IF p \notin Installs(dc) /\ Broken(dc, p) /\ pass.fixing
                THEN MarkInstall0(dc, p) ELSE dc
       /\ fix' = [fix EXCEPT !.pre = IF p \in Installs(dc) THEN @ \cup {p} ELSE @ \ {p},
                             !.up = @ \cup {p}]
       /\ pass' = [pass EXCEPT !.at = @ + 1,
                               !.change = @ \/ Installs(dc') # Installs(dc)]
    /\ UNCHANGED look

EndRecord ==
    /\ At("record") /\ pass.at > Len(PkgList)
    /\ pass' = IF pass.change THEN [pass EXCEPT !.at = 1, !.change = FALSE]
               ELSE [pass EXCEPT !.phase = "score"]
    /\ UNCHANGED <<dc, fix, look>>

Score ==
    /\ At("score") \/ At("keepscore")
    /\ LET score == MakeScores(dc, fix.protect) IN
       fix' = [fix EXCEPT !.score = score, !.list = Sorted(score)]
    /\ pass' = [pass EXCEPT !.phase = IF @ = "score" THEN "walk" ELSE "keep",
                            !.at = 1, !.round = 0, !.change = FALSE, !.stop = 0]
    /\ ResolverOnly

Conclude(result) == pass' = [pass EXCEPT !.phase = "no", !.result = result]

MoreToVisit == pass.at <= Len(fix.list)
This == fix.list[pass.at]

MayReInstate(p) ==
    /\ dc.cand[p] # dc.inst[p] /\ Pkg[p].current # NoVer /\ dc.inst[p] # NoVer
    /\ p \in fix.pre /\ p \notin fix.protect

\* Variant with a bug: the breaks it makes elsewhere do not count.
ReInstated_OwnBreaks(t, p) == IF Broken(t, p) THEN Keeping(t, p) ELSE t

ReInstated(t, p) ==
    IF Broken(t, p) \/ BrokenCount(dc) < BrokenCount(t) THEN Keeping(t, p) ELSE t

\* The flag that it was tried is meant to be set; it is the others that are cleared.
ReInstate ==
    /\ At("walk") /\ MoreToVisit /\ MayReInstate(This)
    /\ dc' = ReInstated(Installing(dc, This), This)
    /\ fix' = [fix EXCEPT !.pre = @ \ {This}, !.up = @ \ {This}, !.remove = @ \ {This}]
    /\ UNCHANGED <<pass, look>>

\* Variant with a bug: the kill list is that of the package before.
Visit_KeepsList ==
    /\ At("walk") /\ MoreToVisit /\ ~MayReInstate(This)
    /\ IF dc.inst[This] = NoVer \/ ~Broken(dc, This)
       THEN pass' = [pass EXCEPT !.at = @ + 1] /\ UNCHANGED look
       ELSE /\ pass' = [pass EXCEPT !.phase = "group"]
            /\ look' = [NoLook EXCEPT !.pkg = This, !.ver = dc.inst[This],
                                      !.kills = look.kills]
    /\ UNCHANGED <<dc, fix>>

Visit ==
    /\ At("walk") /\ MoreToVisit /\ ~MayReInstate(This)
    /\ IF dc.inst[This] = NoVer \/ ~Broken(dc, This)
       THEN pass' = [pass EXCEPT !.at = @ + 1] /\ UNCHANGED look
       ELSE /\ pass' = [pass EXCEPT !.phase = "group"]
            /\ look' = [NoLook EXCEPT !.pkg = This, !.ver = dc.inst[This]]
    /\ UNCHANGED <<dc, fix>>

\* Variant with a bug: another round as long as anything is broken.
EndRound_WhileBroken ==
    /\ At("walk") /\ ~MoreToVisit
    /\ IF BrokenCount(dc) # 0
       THEN pass' = [pass EXCEPT !.at = 1, !.change = FALSE]
       ELSE Conclude("ok")
    /\ UNCHANGED <<dc, fix, look>>

EndRound ==
    /\ At("walk") /\ ~MoreToVisit
    /\ IF pass.change /\ pass.round + 1 # MaxRounds
       THEN pass' = [pass EXCEPT !.at = 1, !.change = FALSE, !.round = @ + 1]
       ELSE Conclude(IF BrokenCount(dc) = 0 THEN "ok" ELSE "broken")
    /\ UNCHANGED <<dc, fix, look>>

Shielded(p) == p \in fix.protect
GroupOf == Groups[look.ver][look.g]
Start   == GroupOf[look.m]
End     == Last(GroupOf)
Changed == pass' = [pass EXCEPT !.change = TRUE]

OrRemoved == look.inOr /\ Len(look.kills) = look.old /\ look.op = "remove" /\ ~Shielded(look.pkg)
OrKept    == look.inOr /\ Len(look.kills) = look.old /\ look.op = "keep"

\* An or group is done with: nothing helped, so its package goes; then the next.  What
\* is not critical is passed over, but only with its first member, unless it is the last.
Group ==
    /\ At("group")
    /\ dc' = IF OrRemoved THEN Removing(dc, look.pkg)
             ELSE IF OrKept THEN Keeping(dc, look.pkg) ELSE dc
    /\ LET g == look.g + 1
           count == Len(Groups[look.ver])
           or == Groups[look.ver][g]
       IN /\ look' = [look EXCEPT
                 !.g = g, !.m = IF g > count \/ Critical(Last(or)) THEN 1 ELSE 2,
                 !.op = "remove", !.old = Len(look.kills),
                 !.inOr = g <= count /\ Critical(Last(or)) /\ Len(or) > 1]
          /\ pass' = [pass EXCEPT
                 !.change = @ \/ OrRemoved \/ OrKept,
                 !.phase = IF g > count THEN "kill"
                           ELSE IF Critical(Last(or)) \/ (Len(or) > 1 /\ g < count)
                           THEN "member" ELSE "group"]
    /\ UNCHANGED fix

GoOn == IF look.m < Len(GroupOf)
        THEN /\ pass' = [pass EXCEPT !.phase = "member"]
             /\ look' = [look EXCEPT !.m = @ + 1]
        ELSE pass' = [pass EXCEPT !.phase = "group"] /\ UNCHANGED look

GroupMet == "Install" \in dc.group[End]
NoTarget ==
    Targets[Start] = <<>> /\ ~Shielded(look.pkg) /\ ~Negative(Start) /\ ~NowBroken(dc, look.pkg)

MemberMet ==
    /\ At("member") /\ GroupMet
    /\ pass' = [pass EXCEPT !.phase = "group"]
    /\ look' = [look EXCEPT !.inOr = FALSE]
    /\ UNCHANGED <<dc, fix>>

\* Nothing could meet it: keep the package, unless another member might.
MemberLost ==
    /\ At("member") /\ ~GroupMet /\ NoTarget
    /\ IF look.inOr THEN GoOn /\ UNCHANGED dc
       ELSE /\ dc' = Keeping(dc, look.pkg)
            /\ pass' = [pass EXCEPT !.phase = "kill", !.change = TRUE]
            /\ UNCHANGED look
    /\ UNCHANGED fix

Member ==
    /\ At("member") /\ ~GroupMet /\ ~NoTarget
    /\ pass' = [pass EXCEPT !.phase = "version"]
    /\ look' = [look EXCEPT !.v = 1, !.done = FALSE]
    /\ UNCHANGED <<dc, fix>>

-----------------------------------------------------------------------------
(* One version of those that could meet Start, and its package.             *)

MoreVersions == look.v <= Len(Targets[Start])
Candidate == Targets[Start][look.v]
Rival     == Ver[Candidate].pkg
NextOne   == look' = [look EXCEPT !.v = @ + 1]
Break     == look' = [look EXCEPT !.v = Len(Targets[Start]) + 1]

\* The package gives way to one of a higher score, or to one that never met it.
GivesWay ==
    \/ fix.score[look.pkg] <= fix.score[Rival]
    \/ "Now" \notin dc.dep[Start] /\ ~Negative(End)

\* Try a little harder to fix protected packages.
Shield(r) ==
    /\ dc' = r.s
    /\ IF r.ok
       THEN fix' = [fix EXCEPT !.up = r.up, !.score[Rival] =
                        IF @ > fix.score[look.pkg] THEN fix.score[look.pkg] ELSE @] /\ Break
       ELSE fix' = [fix EXCEPT !.up = r.up] /\ NextOne

FixShielded ==
    /\ At("version") /\ MoreVersions /\ GivesWay /\ Shielded(look.pkg)
    /\ Shield(DoUpgrade(dc, fix.up, Rival))
    /\ UNCHANGED pass

\* A member of an or group is only tried: what was to be installed still is.
Kept(s, t, p) ==
    IF ~Broken(t, p) /\ look.inOr /\ s.mode[p] = "Install" THEN Installing(t, p) ELSE t

\* With fixing, what cannot be kept is upgraded.
Try(s, p) == IF pass.fixing THEN DoUpgrade(s, fix.up, p) ELSE Tried(s, fix.up, FALSE)

\* Neither a keep nor an upgrade: remove it, unless another member might help.
UpgradeOrGo(I, r) ==
    LET removed == ~r.ok /\ ~look.inOr IN
    /\ dc' = IF removed THEN Removing(r.s, I) ELSE r.s
    /\ fix' = [fix EXCEPT !.up = r.up,
                          !.score[I] = IF removed /\ pass.round > 1 /\ fix.score[Rival] > @
                                       THEN fix.score[Rival] ELSE @]

\* See if a keep will do; else an upgrade; else remove it.
KeepOrGo(I, t) ==
    /\ IF Broken(t, I) THEN UpgradeOrGo(I, Try(t, I)) ELSE dc' = Kept(dc, t, I) /\ UNCHANGED fix
    /\ look' = [look EXCEPT !.op = IF Broken(t, I) THEN @ ELSE "keep", !.done = TRUE,
                            !.v = Len(Targets[Start]) + 1]

\* Variant with a bug: what is protected is not spared.
FixSelf_Shielded ==
    /\ At("version") /\ MoreVersions /\ GivesWay
    /\ KeepOrGo(look.pkg, Keeping(dc, look.pkg))
    /\ Changed

FixSelf ==
    /\ At("version") /\ MoreVersions /\ GivesWay /\ ~Shielded(look.pkg)
    /\ KeepOrGo(look.pkg, Keeping(dc, look.pkg))
    /\ Changed

\* A version that is not to be installed conflicts with nothing; nobody takes
\* from the protected.
Passed == \/ dc.inst[Rival] # Candidate /\ Negative(Start)
          \/ Shielded(Rival)

PassBy ==
    /\ At("version") /\ MoreVersions /\ ~GivesWay /\ Passed
    /\ NextOne /\ UNCHANGED <<dc, fix, pass>>

\* Only the last version is put on the list.
Listed == look.v = Len(Targets[Start])

\* Upgrade the other package if that breaks nothing else; else it may be killed.
Better(r) == r.ok /\ ~Broken(r.s, look.pkg) /\ BrokenCount(dc) >= BrokenCount(r.s)

UpgradeOrList(r) ==
    /\ dc' = IF r.ok /\ ~Better(r) THEN dc ELSE r.s
    /\ fix' = [fix EXCEPT !.up = r.up]
    /\ IF Better(r) THEN Break /\ Changed
       ELSE /\ look' = [look EXCEPT
                   !.kills = IF Listed THEN Append(@, [pkg |-> Rival, dep |-> End]) ELSE @,
                   !.v = @ + 1]
            /\ UNCHANGED pass

FixOther ==
    /\ At("version") /\ MoreVersions /\ ~GivesWay /\ ~Passed
    /\ UpgradeOrList(Try(dc, Rival))

\* All versions are through: the next member, the next group, or no more of it.
Onward(done, op) ==
    LET over == done /\ ~look.inOr
        more == ~over /\ look.m < Len(GroupOf)
    IN /\ look' = [look EXCEPT !.op = op, !.m = IF more THEN @ + 1 ELSE @]
       /\ pass' = [pass EXCEPT !.change = @ \/ done,
                               !.phase = IF over THEN "kill" ELSE IF more THEN "member" ELSE "group"]

\* There were none: the package is kept or removed.
Lost == Targets[Start] = <<>> /\ ~Negative(Start) /\ ~Shielded(look.pkg)

KeptOrRemoved(I, t) ==
    /\ dc' = IF Broken(t, I) /\ ~look.inOr THEN Removing(t, I) ELSE Kept(dc, t, I)
    /\ Onward(TRUE, IF Broken(t, I) THEN look.op ELSE "keep")

AfterVersions ==
    /\ At("version") /\ ~MoreVersions
    /\ IF Lost THEN KeptOrRemoved(look.pkg, Keeping(dc, look.pkg))
       ELSE Onward(look.done, look.op) /\ UNCHANGED dc
    /\ UNCHANGED fix

\* Apply the kill list: what the group was met by is kept, what conflicts goes.
Killed(s, j) ==
    IF "Now" \in s.group[j.dep] THEN Keeping(s, j.pkg)
    ELSE IF Negative(j.dep) THEN Removing(s, j.pkg) ELSE s

Kill ==
    /\ At("kill")
    /\ LET kills == IF dc.inst[look.pkg] = NoVer THEN <<>> ELSE look.kills
       IN /\ dc' = Through(Killed, dc, kills)
          /\ fix' = IF pass.round <= 1 THEN fix
                    ELSE [fix EXCEPT !.score = Through(LAMBDA score, j :
                             [score EXCEPT ![j.pkg] = IF score[look.pkg] > @
                                                      THEN score[look.pkg] ELSE @], @, kills)]
          /\ pass' = [pass EXCEPT !.phase = "walk", !.at = @ + 1,
                                  !.change = @ \/ kills # <<>>]
    /\ UNCHANGED look

-----------------------------------------------------------------------------
(* ResolveByKeep.                                                           *)

\* Keep what its broken dependencies are on, until p is whole.
KeepTarget(s, p, q) ==
    IF ~Broken(s, p) \/ s.inst[q] = NoVer \/ Pkg[q].current = NoVer \/ q \in fix.protect THEN s
    ELSE Keeping(s, q)

KeepAround(s, p) ==
    Through(LAMBDA t, or :
        IF ~Broken(t, p) \/ ~Critical(Last(or)) \/ "Install" \in t.group[Last(or)] THEN t
        ELSE Through(LAMBDA u, v : KeepTarget(u, p, Ver[v].pkg), t,
                      FlattenSeq([m \in DOMAIN or |-> Targets[or[m]]])),
        s, Groups[s.inst[p]])

KeepSettled ==
    /\ At("keep") /\ MoreToVisit
    /\ dc.inst[This] = NoVer \/ ~Broken(dc, This)
    /\ pass' = [pass EXCEPT !.at = @ + 1]
    /\ UNCHANGED <<dc, fix, look>>

KeepHelps(p) == ~Broken(Keeping(dc, p), p)

\* Keep the package; if that works start again from the top.
KeepSelf ==
    /\ At("keep") /\ MoreToVisit /\ dc.inst[This] # NoVer /\ Broken(dc, This)
    /\ ~Shielded(This) /\ KeepHelps(This)
    /\ dc' = Keeping(dc, This)
    /\ pass' = [pass EXCEPT !.at = 1]
    /\ UNCHANGED <<fix, look>>

\* Keep what it needs; to help the same package twice in a row is called a loop.
Helped(s) ==
    /\ dc' = s
    /\ IF Broken(s, This) THEN pass' = [pass EXCEPT !.at = @ + 1]
       ELSE IF pass.at = pass.stop THEN Conclude("looping")
       ELSE pass' = [pass EXCEPT !.stop = pass.at, !.at = 1]

KeepOthers ==
    /\ At("keep") /\ MoreToVisit /\ dc.inst[This] # NoVer /\ Broken(dc, This)
    /\ Shielded(This) \/ ~KeepHelps(This)
    /\ Helped(KeepAround(IF Shielded(This) THEN dc ELSE Keeping(dc, This), This))
    /\ UNCHANGED <<fix, look>>

KeepEnd ==
    /\ At("keep") /\ ~MoreToVisit
    /\ Conclude("ok") /\ UNCHANGED <<dc, fix, look>>

Resolving ==
    \/ Record \/ EndRecord \/ Score \/ ReInstate \/ Visit \/ EndRound \/ Group
    \/ MemberMet \/ MemberLost \/ Member
    \/ FixShielded \/ FixSelf \/ PassBy \/ FixOther \/ AfterVersions \/ Kill
    \/ KeepSettled \/ KeepSelf \/ KeepOthers \/ KeepEnd
=============================================================================
