--------------------------- MODULE DepCacheInstall ---------------------------
(***************************************************************************)
(* MarkInstall with automatic installation (MarkInstallRec and             *)
(* MarkInstall2 of apt-pkg/depcache.cc), as a machine with an explicit     *)
(* stack: one step per or group of the version being installed.  Between   *)
(* two calls the manipulators of DepCache are called as well.              *)
(***************************************************************************)
EXTENDS DepCache, Sequences, SequencesExt

CONSTANTS
    Groups,    \* [Version -> Seq(Seq(Dependency))], the dependency list
    Prio,      \* [Version -> Nat], the order of pkgPrioSortList, all different
    MaxDepth,  \* the recursion limit (100 in the code)
    Roots      \* the packages MarkInstall is called for

ASSUME InstallAssumption ==
    /\ Groups \in [Version -> Seq(Seq(Dependency))]
    /\ \A v \in Version : \A g \in DOMAIN Groups[v] :
          Groups[v][g] # <<>> /\ \A k \in DOMAIN Groups[v][g] : Dep[Groups[v][g][k]].parent = v
    /\ Prio \in [Version -> Nat] /\ MaxDepth \in Nat /\ Roots \subseteq Package

VARIABLES
    frames,  \* the MarkInstallRec calls that have not returned, innermost last
    wave     \* MarkInstall2: where it is, MA, MAA (or the first MA), what is left of MA

allVars == <<vars, frames, wave>>

\* open: called with Restricted false; again: AddMarkAgain; at: the next or group.
Frame == [pkg: Package, ver: Version, at: Nat, open: BOOLEAN, again: BOOLEAN]
Wave  == [pc: {"idle", "first", "restricted", "open"},
          ma: SUBSET Package, got: SUBSET Package, todo: SUBSET Package]

Idle == wave.pc = "idle"
Top  == Last(frames)

Begin == dc = Fresh /\ saved = <<>> /\ frames = <<>>
         /\ wave = [pc |-> "idle", ma |-> {}, got |-> {}, todo |-> {}]

\* MarkInstallRec is entered: fs holds its callers.
Enter(fs, p, open) ==
    IF Len(fs) > MaxDepth THEN frames' = fs /\ UNCHANGED dc
    ELSE /\ dc' = MarkInstall0(dc, p)
         /\ frames' = IF Marks(dc, p)
                      THEN Append(fs, [pkg |-> p, ver |-> dc'.inst[p], at |-> 1,
                                       open |-> open, again |-> FALSE])
                      ELSE fs

Call(p) ==
    /\ Idle
    /\ wave' = [wave EXCEPT !.pc = "first"]
    /\ Enter(<<>>, p, FALSE) /\ UNCHANGED saved

-----------------------------------------------------------------------------
(* One or group.                                                            *)

\* The first member a candidate satisfies, else the last.
Aim(or) ==
    LET hopeful == {k \in DOMAIN or : "CVer" \in dc.dep[or[k]]} IN
    or[IF hopeful = {} THEN Len(or) ELSE Min(hopeful)]

Candidates(d) == {v \in AllTargets(d) : dc.cand[Ver[v].pkg] = v}
Direct(d)     == {v \in Candidates(d) : Ver[v].pkg = Dep[d].target}

Ambiguous(d)  == Direct(d) = {} /\ Cardinality(Candidates(d)) > 1

Best(d) ==
    IF Direct(d) # {} THEN Direct(d)
    ELSE {v \in Candidates(d) : \A w \in Candidates(d) : Prio[v] <= Prio[w]}

Advanced(again) ==
    SubSeq(frames, 1, Len(frames) - 1)
    \o <<[Top EXCEPT !.at = @ + 1, !.again = @ \/ again]>>

InGroup == frames # <<>> /\ Top.at <= Len(Groups[Top.ver])
Or      == Groups[Top.ver][Top.at]
Met     == \E k \in DOMAIN Or : "Install" \in dc.dep[Or[k]]
Pursue  == InGroup /\ ~Met /\ Critical(Or[1])
Hopeful == "CVer" \in dc.dep[Aim(Or)]

SkipGroup ==
    /\ InGroup /\ (Met \/ ~Critical(Or[1]))
    /\ frames' = Advanced(FALSE)
    /\ UNCHANGED <<vars, wave>>

\* In restricted mode, ambiguous dependencies are put off.
PutOff ==
    /\ Pursue /\ Hopeful /\ ~Top.open /\ Ambiguous(Aim(Or))
    /\ frames' = Advanced(TRUE)
    /\ UNCHANGED <<vars, wave>>

\* Variant with a bug: an ambiguous dependency is settled by priority at once.
Recurse_Greedy ==
    /\ Pursue /\ Hopeful
    /\ IF Best(Aim(Or)) = {}
       THEN frames' = Advanced(FALSE) /\ UNCHANGED dc
       ELSE \E v \in Best(Aim(Or)) : Enter(Advanced(FALSE), Ver[v].pkg, FALSE)
    /\ UNCHANGED <<saved, wave>>

Recurse ==
    /\ Pursue /\ Hopeful /\ (Top.open \/ ~Ambiguous(Aim(Or)))
    /\ IF Best(Aim(Or)) = {}
       THEN frames' = Advanced(FALSE) /\ UNCHANGED dc
       ELSE \E v \in Best(Aim(Or)) : Enter(Advanced(FALSE), Ver[v].pkg, FALSE)
    /\ UNCHANGED <<saved, wave>>

\* No upgrade would help: what conflicts is deleted; a lost Depends is left.
GiveUp ==
    /\ Pursue /\ ~Hopeful
    /\ LET kill == IF Negative(Aim(Or)) THEN {Ver[v].pkg : v \in AllTargets(Aim(Or))} ELSE {}
       IN dc' = FoldSet(LAMBDA p, s : MarkDelete(s, p, FALSE), dc, kill)
    /\ frames' = Advanced(FALSE)
    /\ UNCHANGED <<saved, wave>>

Return ==
    /\ frames # <<>> /\ ~InGroup
    /\ frames' = SubSeq(frames, 1, Len(frames) - 1)
    /\ wave' = IF Top.again THEN [wave EXCEPT !.got = @ \cup {Top.pkg}] ELSE wave
    /\ UNCHANGED vars

-----------------------------------------------------------------------------
(* MarkInstall2: restricted and then open, until the same packages remain.  *)

Between == frames = <<>> /\ ~Idle /\ UNCHANGED saved

Again ==
    /\ Between /\ wave.pc \in {"restricted", "open"}
    /\ \E p \in wave.todo :
         /\ wave' = [wave EXCEPT !.todo = @ \ {p}]
         /\ Enter(<<>>, p, wave.pc = "open")

Open ==
    /\ Between /\ wave.pc = "restricted" /\ wave.todo = {}
    /\ wave' = [wave EXCEPT !.pc = "open", !.todo = wave.ma]
    /\ UNCHANGED <<dc, frames>>

\* Variant with a bug: goes on as long as anything remains.
NextWave_Greedy ==
    /\ Between /\ wave.todo = {} /\ wave.pc \in {"first", "open"}
    /\ wave.pc = "open" => wave.got # {}
    /\ wave' = [pc |-> "restricted", ma |-> wave.got, todo |-> wave.got, got |-> {}]
    /\ UNCHANGED <<dc, frames>>

NextWave ==
    /\ Between /\ wave.todo = {} /\ wave.pc \in {"first", "open"}
    /\ wave.pc = "open" => wave.got # wave.ma
    /\ wave' = [pc |-> "restricted", ma |-> wave.got, todo |-> wave.got, got |-> {}]
    /\ UNCHANGED <<dc, frames>>

Finish ==
    /\ Between /\ wave.pc = "open" /\ wave.todo = {} /\ wave.got = wave.ma
    /\ wave' = [pc |-> "idle", ma |-> {}, got |-> {}, todo |-> {}]
    /\ UNCHANGED <<dc, frames>>

Work == SkipGroup \/ PutOff \/ Recurse \/ GiveUp \/ Return
        \/ Again \/ Open \/ NextWave \/ Finish

Calls == \E p \in Roots : Call(p)
Other == Idle /\ Manipulate /\ UNCHANGED <<frames, wave>>

Go == Begin /\ [][Calls \/ Other \/ Work]_allVars

\* It is one thread: once called, it runs.
FairGo == Go /\ WF_allVars(Work)

-----------------------------------------------------------------------------

\* A MarkInstall comes to an end, however its packages depend on and conflict with
\* each other, unless a wave leaves a package over that the wave before it had
\* settled: waves that undo each other may go on for ever.
InstallEndsOrWavers ==
    ~Idle ~> (Idle \/ (wave.pc = "open" /\ ~(wave.got \subseteq wave.ma)))

\* A package is pulled in only by a dependency that its candidate satisfies, and
\* one that nobody else's candidate satisfies unless its caller is unrestricted.
\* Not so for an Obsoletes, whose list has what merely provides the name.
PulledInByNeed ==
    [][frames # <<>> /\ Len(frames') > Len(frames) =>
         \E d \in Dependency :
            /\ Dep[d].parent = Top.ver /\ Dep[d].type # "Conflicts"
            /\ \/ Dep[d].type = "Obsoletes" /\ Last(frames').ver \in Dep[d].hits
               \/ /\ Meets(d, Last(frames').ver)
                  /\ \/ Top.open \/ Dep[d].target = Last(frames').pkg
                     \/ \A p \in Package \ {Last(frames').pkg} :
                           dc.cand[p] # NoVer => ~Meets(d, dc.cand[p])]_allVars
=============================================================================
