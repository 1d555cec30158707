------------------------------- MODULE Upgrades -------------------------------
(***************************************************************************)
(* The commands that decide what is installed: apt-shell's install,        *)
(* remove, keep, upgrade and dist-upgrade (cmdline/apt-shell.cc, with the  *)
(* same code in apt-get.cc) over the upgrade algorithms of                 *)
(* apt-pkg/algorithms.cc, and what is left of a commit whose archives did  *)
(* not all arrive (FixMissing of apt-pkg/packagemanager.cc).  Each marks   *)
(* packages, with MarkInstall of DepCacheInstall, and has the marks        *)
(* resolved by ProblemResolver; the shell goes on from what it has marked. *)
(***************************************************************************)
EXTENDS ProblemResolver

CONSTANTS
    Held,           \* the packages that are to stay as they are
    Pin,            \* [Package -> Int], GetPkgPriority
    RemoveDepends,  \* APT::Remove-Depends
    Asked,          \* the packages a command may name
    MaxAsks,        \* names in a command
    MaxCommands

ASSUME UpgradesAssumption ==
    /\ Held \subseteq Package /\ Pin \in [Package -> Int] /\ RemoveDepends \in BOOLEAN
    /\ Asked \subseteq {p \in Package : ~Virtual(p)} /\ MaxAsks \in Nat /\ MaxCommands \in Nat

VARIABLE shell
upgradeVars == <<resolverVars, shell>>

\* todo: marks to be made; bare: nothing is pulled in, something was broken before;
\* repair: inside CheckDeps; change: in this round; asks and count: names and commands so far; missing: what
\* did not arrive.
Ready == [cmd |-> "none", phase |-> "idle", todo |-> <<>>, bare |-> FALSE,
          repair |-> FALSE, change |-> FALSE, asks |-> 0, count |-> 0, missing |-> {}]

Start0 == Begin /\ fix = NewFix /\ pass = NoPass /\ look = NoLook /\ shell = Ready

In(phase)  == shell.phase = phase /\ pass.phase = "no" /\ Idle /\ frames = <<>>
GoTo(phase)  == shell' = [shell EXCEPT !.phase = phase]
NoMarking  == UNCHANGED <<frames, wave>>
Run(phase, fixing) ==
    pass' = [NoPass EXCEPT !.phase = phase, !.fixing = fixing]

-----------------------------------------------------------------------------
(* Operators on the marks.                                                  *)

Obsoleted(s, p) ==
    {q \in Package : \E d \in Dependency :
        /\ Dep[d].type = "Obsoletes" /\ Dep[d].target = p /\ Pkg[p].current \in Dep[d].hits
        /\ Dep[d].parent = s.cand[q] /\ Ver[s.cand[q]].files /\ Pin[q] >= Pin[p]}

\* The package to be installed for p: the one that obsoletes it, or itself.
Successor(s, p) ==
    IF Obsoleted(s, p) = {} THEN p ELSE CHOOSE q \in Obsoleted(s, p) : TRUE

Mark(how, p) == [how |-> how, pkg |-> p]
MarkEach(how, list) == [i \in DOMAIN list |-> Mark(how, list[i])]

Present == SelectSeq(PkgList, LAMBDA p : Pkg[p].current # NoVer)
Holds   == MarkEach("keep", SelectSeq(Present, LAMBDA p : p \in Held))

\* pkgDistUpgrade: what is not obsoleted without dependencies; then everything with
\* them, what is essential, and everything again.
DistMarks(s) ==
    LET next == [i \in DOMAIN Present |-> Successor(s, Present[i])]
    IN MarkEach("plain", SelectSeq(Present, LAMBDA p : Obsoleted(s, p) = {}))
       \o MarkEach("auto", next)
       \o MarkEach("auto", SelectSeq(PkgList, LAMBDA p : p \in Essential))
       \o MarkEach("plain", next) \o Holds

\* pkgFixBroken: what is broken as it is, and what is half unpacked.
FixMarks == MarkEach("broken", PkgList) \o MarkEach("unpack", PkgList) \o Holds

\* pkgAllUpgrade.
\* Variant with a bug: packages that are not there are installed, too.
UpgradeMarks_New == MarkEach("plain", PkgList) \o Holds

UpgradeMarks == MarkEach("upgrade", Present) \o Holds

Applies(s, m) ==
    CASE m.how = "broken"  -> NowBroken(s, m.pkg)
      [] m.how = "unpack"  -> /\ Pkg[m.pkg].needs = "Unpack" /\ s.mode[m.pkg] # "Delete"
                              /\ s.inst[m.pkg] # NoVer /\ Ver[s.inst[m.pkg]].files
      [] m.how = "upgrade" -> s.inst[m.pkg] # NoVer
      [] m.how = "protect" -> m.pkg \in fix.protect
      [] OTHER -> TRUE

HeldNow == {p \in Held : Pkg[p].current # NoVer}

\* What is required by nothing that stays (RemoveDepends), other than by name p.
Requires(s, d) ==
    LET q == Ver[Dep[d].parent].pkg IN
    /\ Positive(d)
    /\ \/ s.mode[q] = "Install" /\ s.inst[q] = Dep[d].parent
       \/ s.mode[q] = "Keep" /\ Pkg[q].current # NoVer

Requirable(p) ==
    {d \in Dependency : /\ Pkg[p].current \in Dep[d].hits
                        /\ Dep[d].target \in {p} \cup Ver[Pkg[p].current].provides}

\* Variant with a bug: what is required by a name it provides is not spared.
Removable_ByName(s) ==
    {p \in Package :
        /\ Pkg[p].current # NoVer /\ s.mode[p] # "Delete" /\ p \notin fix.protect
        /\ \E d \in Dependency : /\ Positive(d) /\ Dep[d].target = p
                                 /\ Pkg[Ver[Dep[d].parent].pkg].current = Dep[d].parent
                                 /\ s.mode[Ver[Dep[d].parent].pkg] = "Delete"
        /\ \A d \in Requirable(p) : Dep[d].target = p => ~Requires(s, d)}

Removable(s) ==
    {p \in Package :
        /\ Pkg[p].current # NoVer /\ s.mode[p] # "Delete" /\ p \notin fix.protect
        /\ \E d \in Dependency : /\ Positive(d) /\ Dep[d].target = p
                                 /\ Pkg[Ver[Dep[d].parent].pkg].current = Dep[d].parent
                                 /\ s.mode[Ver[Dep[d].parent].pkg] = "Delete"
        /\ \A d \in Requirable(p) : ~Requires(s, d)}

\* InstallProtect.
\* Variant with a bug: what was to be removed is installed as well.
Protected_Installed(s, p) == MarkInstall0(s, p)

Protected(s, p) == IF p \in fix.remove THEN MarkDelete(s, p, FALSE) ELSE MarkInstall0(s, p)

Marked(s, m) ==
    CASE m.how = "protect" -> Protected(s, m.pkg)
      [] m.how = "keep"    -> MarkKeep(s, m.pkg)
      [] OTHER -> MarkInstall0(s, m.pkg)

\* pkgMinimizeUpgrade for one package, t being s with p kept.
KeptBack(t, p) == IF BrokenCount(t) # 0 THEN Installing(t, p) ELSE t

-----------------------------------------------------------------------------
(* The commands.                                                            *)

Commands == {"install", "keep", "upgrade", "dist-upgrade", "fix"}

\* AutoRestore guards the marks; install without a name does so after CheckDeps.
Command(c) ==
    /\ In("idle") /\ shell.count < MaxCommands
    /\ shell' = [Ready EXCEPT !.cmd = c, !.phase = "check", !.count = shell.count + 1]
    /\ saved' = IF c = "fix" THEN <<>> ELSE <<dc>>
    /\ fix' = NewFix /\ pass' = NoPass
    /\ UNCHANGED <<dc, look>> /\ NoMarking

AllowsBroken == shell.cmd \in {"install", "keep"}

\* The command is refused, or what it marked is put back.
Fail ==
    /\ dc' = IF saved = <<>> THEN dc ELSE saved[1]
    /\ saved' = <<>> /\ GoTo("idle")
    /\ UNCHANGED <<fix, look, pass>> /\ NoMarking

Refuse == In("check") /\ BrokenCount(dc) # 0 /\ ~AllowsBroken /\ Fail

\* CheckDeps with APT::Get::Fix-Broken.
FixBroken ==
    /\ In("check") /\ BrokenCount(dc) # 0 /\ ~AllowsBroken
    /\ shell' = [shell EXCEPT !.phase = "mark", !.todo = FixMarks, !.repair = TRUE]
    /\ UNCHANGED <<dc, saved, fix, look, pass>> /\ NoMarking

Checked == In("check") /\ (BrokenCount(dc) = 0 \/ AllowsBroken)

OpenInstall ==
    /\ Checked /\ shell.cmd \in {"install", "keep", "fix"}
    /\ saved' = <<dc>>
    /\ shell' = [shell EXCEPT !.phase = "ask", !.bare = BrokenCount(dc) # 0,
                              !.asks = IF shell.cmd = "fix" THEN MaxAsks ELSE 0]
    /\ fix' = NewFix
    /\ UNCHANGED <<dc, look, pass>> /\ NoMarking

DistUpgrade ==
    /\ Checked /\ shell.cmd = "dist-upgrade"
    /\ shell' = [shell EXCEPT !.phase = "mark", !.todo = DistMarks(dc), !.repair = FALSE]
    /\ UNCHANGED <<dc, saved, fix, look, pass>> /\ NoMarking

\* pkgAllUpgrade, up to ResolveByKeep: what is to be installed already is protected.
AllUpgrade ==
    /\ Checked /\ shell.cmd = "upgrade"
    /\ fix' = [NewFix EXCEPT !.protect = Installs(dc) \cup HeldNow]
    /\ shell' = [shell EXCEPT !.phase = "mark", !.todo = UpgradeMarks]
    /\ UNCHANGED <<dc, saved, look, pass>> /\ NoMarking

-----------------------------------------------------------------------------
(* install, remove and keep: TryToInstall for each name.                    *)

Ask(p, removed) ==
    /\ In("ask") /\ shell.asks < MaxAsks
    /\ shell' = [shell EXCEPT !.asks = @ + 1]
    /\ fix' = [fix EXCEPT !.protect = @ \cup {p},
                          !.remove = IF removed THEN @ \cup {p} ELSE @ \ {p}]
    /\ UNCHANGED <<pass, look, saved>>

\* What is broken by it is pulled in, unless something was broken before.
AskInstall(p) ==
    /\ Ask(p, FALSE) /\ shell.cmd = "install" /\ dc.cand[p] # NoVer
    /\ LET s == Installing(dc, p) IN
       IF Broken(s, p) /\ ~shell.bare THEN Call(p) ELSE dc' = s /\ NoMarking

AskRemove(p) ==
    /\ Ask(p, TRUE) /\ shell.cmd = "install"
    /\ dc' = IF Pkg[p].current = NoVer THEN dc ELSE Removing(dc, p)
    /\ NoMarking

AskKeep(p) ==
    /\ Ask(p, FALSE) /\ shell.cmd = "keep"
    /\ dc' = Keeping(dc, p) /\ NoMarking

\* A name that nothing has, or that has no version to install.
AskUnknown == In("ask") /\ shell.asks < MaxAsks /\ shell.cmd = "install" /\ Fail

Asks == AskUnknown \/ \E p \in Asked : AskInstall(p) \/ AskRemove(p) \/ AskKeep(p)

EndAsks ==
    /\ In("ask") /\ shell.asks > 0
    /\ GoTo("sweep") /\ UNCHANGED resolverVars

\* Marks are made one after the other, before the resolver or, if they are of what is
\* protected, after the sweep.
ToMark(phase, todo) == shell' = [shell EXCEPT !.phase = phase, !.todo = todo]

DoMark ==
    /\ In("mark") \/ In("protect")
    /\ shell.todo # <<>>
    /\ LET m == Head(shell.todo) IN
       IF ~Applies(dc, m) THEN UNCHANGED dc /\ NoMarking
       ELSE IF m.how \in {"auto", "broken", "unpack"} THEN Call(m.pkg)
       ELSE dc' = Marked(dc, m) /\ NoMarking
    /\ shell' = [shell EXCEPT !.todo = Tail(@)]
    /\ UNCHANGED <<saved, fix, look, pass>>

ByKeep == ~shell.repair /\ shell.cmd \in {"upgrade", "missing"}

EndMarks ==
    /\ In("mark") /\ shell.todo = <<>>
    /\ IF ByKeep THEN Run("keepscore", FALSE) /\ GoTo("resolving") /\ UNCHANGED fix
       ELSE /\ fix' = [NewFix EXCEPT !.protect = HeldNow]
            /\ GoTo("sweep") /\ UNCHANGED pass
    /\ UNCHANGED <<dc, saved, look>> /\ NoMarking

Sweeping == RemoveDepends /\ Removable(dc) # {}

Sweep(p) ==
    /\ In("sweep") /\ Sweeping /\ p \in Removable(dc)
    /\ dc' = Removing(dc, p)
    /\ UNCHANGED <<saved, fix, look, pass, shell>> /\ NoMarking

\* The broken marks are left as they are, for the user to go on from.
StillBroken == In("sweep") /\ ~Sweeping /\ shell.bare /\ BrokenCount(dc) # 0

GiveIn ==
    /\ StillBroken
    /\ saved' = <<>> /\ GoTo("idle")
    /\ UNCHANGED <<dc, fix, look, pass>> /\ NoMarking

Swept ==
    /\ In("sweep") /\ ~Sweeping /\ ~(shell.bare /\ BrokenCount(dc) # 0)
    /\ ToMark("protect", IF shell.cmd \in {"install", "fix"} /\ ~shell.repair
                         THEN MarkEach("protect", PkgList) ELSE <<>>)
    /\ UNCHANGED resolverVars

Resolve ==
    /\ In("protect") /\ shell.todo = <<>>
    /\ Run("record", shell.cmd # "keep") /\ GoTo("resolving")
    /\ UNCHANGED <<dc, saved, fix, look>> /\ NoMarking

-----------------------------------------------------------------------------
(* What becomes of it.                                                      *)

\* install only looks at the number of broken packages, upgrade only at the result.
Solved ==
    IF shell.cmd \in {"install", "keep", "fix"} /\ ~shell.repair THEN BrokenCount(dc) = 0
    ELSE IF shell.cmd = "missing" THEN pass.result = "ok" /\ BrokenCount(dc) = 0
    ELSE pass.result = "ok"

Unsolved == In("resolving") /\ ~Solved /\ Fail

Done ==
    /\ In("resolving") /\ Solved
    /\ shell' = IF shell.repair
                THEN [shell EXCEPT !.phase = "minimize", !.asks = 1, !.change = FALSE,
                                   !.todo = MarkEach("keep", PkgList)]
                ELSE [shell EXCEPT !.phase = "confirm"]
    /\ UNCHANGED resolverVars

Upgraded(s, p) == s.mode[p] = "Install" /\ Status(s, p) = 1

Minimize ==
    /\ In("minimize") /\ shell.todo # <<>>
    /\ LET p == Head(shell.todo).pkg IN
       /\ dc' = IF Upgraded(dc, p) THEN KeptBack(Keeping(dc, p), p) ELSE dc
       /\ shell' = [shell EXCEPT !.todo = Tail(@),
           !.change = @ \/ (Upgraded(dc, p) /\ BrokenCount(dc') = 0 /\ ~Upgraded(dc', p))]
    /\ UNCHANGED <<saved, fix, look, pass>> /\ NoMarking

\* Variant with a bug: once round is enough.
EndMinimize_Once ==
    /\ In("minimize") /\ shell.todo = <<>>
    /\ shell' = [shell EXCEPT !.phase = "check", !.repair = FALSE]
    /\ UNCHANGED resolverVars

\* asks counts the rounds.
EndMinimize ==
    /\ In("minimize") /\ shell.todo = <<>>
    /\ shell' = IF shell.change /\ shell.asks < 10
                THEN [shell EXCEPT !.asks = @ + 1, !.change = FALSE,
                                   !.todo = MarkEach("keep", PkgList)]
                ELSE [shell EXCEPT !.phase = "check", !.repair = FALSE]
    /\ UNCHANGED resolverVars

\* More was changed than the packages that were named.
Unrequested ==
    \E p \in Package \ (IF shell.cmd \in {"install", "keep"} THEN fix.protect ELSE {}) :
        saved[1].mode[p] # dc.mode[p] \/ Status(saved[1], p) # Status(dc, p)

\* The user agrees, or what was marked is put back.
Confirm ==
    /\ In("confirm")
    /\ saved' = <<>> /\ GoTo("idle") /\ UNCHANGED <<dc, fix, look, pass>> /\ NoMarking
Decline == (In("confirm") \/ StillBroken) /\ saved # <<>> /\ Unrequested /\ Fail

\* A commit: not all archives could be fetched, and the user fixes what is missing.
FixMissing ==
    /\ In("idle") /\ BrokenCount(dc) = 0 /\ shell.cmd # "missing"
    /\ \E ps \in SUBSET Installs(dc) :
         /\ ps # {}
         /\ shell' = [shell EXCEPT !.cmd = "missing", !.phase = "mark", !.missing = ps,
                          !.todo = MarkEach("keep", SelectSeq(PkgList, LAMBDA p : p \in ps))]
    /\ fix' = NewFix
    /\ UNCHANGED <<dc, saved, look, pass>> /\ NoMarking

Deciding ==
    \/ Refuse \/ FixBroken \/ OpenInstall \/ DistUpgrade \/ AllUpgrade \/ EndAsks
    \/ DoMark \/ EndMarks \/ (\E p \in Package : Sweep(p)) \/ GiveIn \/ Swept
    \/ Resolve \/ Unsolved \/ Done \/ Minimize \/ EndMinimize \/ Confirm \/ Decline

Marking == Work /\ UNCHANGED <<fix, look, pass, shell>>
Running == Deciding \/ Asks \/ Marking \/ (Resolving /\ UNCHANGED shell)

\* The user leaves the shell.
Quit == In("idle") /\ shell.count = MaxCommands /\ UNCHANGED upgradeVars

ShellNext ==
    \/ Quit
    \/ \E c \in Commands : Command(c)
    \/ FixMissing
    \/ Running

Shell == Start0 /\ [][ShellNext]_upgradeVars

\* It is one thread: once called, it runs.  This is WF_upgradeVars(Running) spelt out:
\* a command can always go on, and every step from elsewhere than the prompt is its.
FairShell ==
    Shell /\ ([]<>(shell.phase = "idle") \/ []<><<shell.phase # "idle">>_upgradeVars)

-----------------------------------------------------------------------------
\* A command comes to an end, whatever it marks, however often the resolver starts its
\* list again (algorithms.cc:838-1140 and 1203-1310).
CommandEnds == shell.phase # "idle" ~> shell.phase = "idle"

\* What install offers to do is what was asked: nothing is broken, what was to be
\* removed goes, and the other names get their candidate (apt-shell.cc:1424-2210).
GrantedAsAsked ==
    In("confirm") /\ shell.cmd = "install" =>
        /\ BrokenCount(dc) = 0
        /\ \A p \in fix.protect \cap fix.remove : dc.inst[p] = NoVer
        /\ \A p \in fix.protect \ fix.remove : dc.inst[p] = dc.cand[p]

\* Once Resolve has recorded the marks, no step of either resolver changes what is
\* protected: not the kill list, not an upgrade of something else (algorithms.cc:678-1325).
ProtectedStands ==
    [][pass.phase \notin {"no", "record"} =>
           \A p \in fix.protect : dc'.inst[p] = dc.inst[p]]_upgradeVars

\* The kill list, a fixed array, has no more entries than the version has dependencies,
\* however many versions could meet each (algorithms.cc:909, 1080-1092).
KillsFit ==
    look.pkg # NoVer =>
        Len(look.kills) <= Cardinality({d \in Dependency : Dep[d].parent = look.ver})

\* To put a package back in never leaves more broken than before (algorithms.cc:875-905).
ReInstateHarmless ==
    [][At("walk") /\ MoreToVisit /\ MayReInstate(This)
           => BrokenCount(dc') <= BrokenCount(dc)]_upgradeVars

\* upgrade leaves nothing broken; with nothing to repair before, it installs nothing
\* new and removes nothing, beyond what was marked already (algorithms.cc:454-485; the
\* command looks at nothing but its result).
UpgradeStaysWhole ==
    In("confirm") /\ shell.cmd = "upgrade" =>
        /\ BrokenCount(dc) = 0
        /\ BrokenCount(saved[1]) = 0 =>
              \A p \in Package : (dc.inst[p] = NoVer) # (Pkg[p].current = NoVer)
                                     => dc.inst[p] = saved[1].inst[p]

\* When the repair is minimized, no upgrade is left that could be kept back alone
\* (algorithms.cc:487-530).
MinimalUpgrade ==
    [][In("minimize") /\ shell'.phase = "check" /\ shell.asks < 10 =>
           /\ BrokenCount(dc) = 0
           /\ \A p \in Package : Upgraded(dc, p) =>
                  \/ BrokenCount(MarkKeep(dc, p)) # 0
                  \/ MarkKeep(dc, p).mode[p] = "Install"]_upgradeVars

\* To remove a package that only removed ones required breaks nothing, if it was to
\* stay as it is (algorithms.cc:1345-1450).
SweepSpares ==
    [][In("sweep") /\ Sweeping =>
           \A p \in Package : dc'.inst[p] # dc.inst[p] /\ dc.inst[p] = Pkg[p].current =>
               BrokenCount(dc') <= BrokenCount(dc)]_upgradeVars

\* "This will remove every dependency which is required only by packages already being
\* removed" (algorithms.cc:1347): so nothing that stays or comes is broken by it.
SweepHarmless ==
    [][In("sweep") /\ Sweeping => BrokenCount(dc') <= BrokenCount(dc)]_upgradeVars
=============================================================================
