----------------------------- MODULE CacheFiles -----------------------------
(***************************************************************************)
(* The two package caches on disk and the processes that use and rebuild   *)
(* them: pkgMakeStatusCache, CheckValidity, BuildCache, CollectFileProvides*)
(* and the generator of apt-pkg/pkgcachegen.cc, over the index files of    *)
(* apt-pkg/rpm/rpmindexfile.cc.  A cache is a mapped file; any number of   *)
(* processes come and go without a common lock, the indexes are replaced   *)
(* under them, a process may stop and the machine may fail between any two *)
(* steps.                                                                  *)
(***************************************************************************)
EXTENDS Naturals, Sequences, FiniteSets, SequencesExt

CONSTANTS
    Procs,       \* processes
    Roots,       \* those that may write the cache directory
    Sources,     \* the package lists of sources.list, in order
    Database,    \* the rpm database, the one status file
    Options,     \* values of OptionsHash
    Kinds,       \* index -> the contents it may have, [needs, owns: sets of paths]
    MaxChanges,  \* bound: times an index changes
    MaxFaults,   \* bound: processes stopped and power failures
    NStores      \* bound: mapped files and memory maps that exist at once

Names == {"pkg", "src"}
Indexes == {Sources[i] : i \in DOMAIN Sources} \cup {Database}

ASSUME IndexAssumption == Database \notin {Sources[i] : i \in DOMAIN Sources}
ASSUME RootAssumption == Roots \subseteq Procs
ASSUME ListAssumption == Sources \in Seq({Sources[i] : i \in DOMAIN Sources}) /\ NStores \in Nat
ASSUME OptionAssumption == Options \subseteq Nat /\ MaxChanges \in Nat /\ MaxFaults \in Nat

VARIABLES
    index,   \* index -> its file: mtime (0: no file), kind, and whether UnLock put an old mtime back
    changes, \* changes of indexes so far: also the clock
    store,   \* 1..NStores -> contents of a mapped file or a memory map
    name,    \* "pkg", "src" -> the store of that file, 0 for no file
    proc,    \* process -> its progress through pkgMakeStatusCache
    faults

vars == <<index, changes, store, name, proc, faults>>

-----------------------------------------------------------------------------
(* Contents of a cache.  "kept" is the Dirty flag the disk is known to     *)
(* hold and "safe" that the disk holds the rest; "torn" that it does not.  *)
(* "made" is history: the clock and the options of its build, if that is   *)
(* finished and no index changed meanwhile.                                *)

Empty == [dirty |-> TRUE, kept |-> TRUE, safe |-> FALSE, torn |-> FALSE,
          opts |-> 0, fdeps |-> FALSE, files |-> <<>>, provs |-> {}, made |-> <<>>]

Needed(files) == UNION {files[k].kind.needs : k \in DOMAIN files}
Positions(st, ix) == {k \in DOMAIN st.files : st.files[k].ix = ix}
Exists(ix) == index[ix].mtime # 0

\* FindInCache: the first file of that name, newest first, if it is unchanged.
Found(st, ix) ==
    {k \in Positions(st, ix) : /\ \A o \in Positions(st, ix) : k <= o
                              /\ st.files[k].mtime = index[ix].mtime}

\* CheckValidity, once the file was mapped.
Matches(st, opts, list) ==
    LET here == {ix \in list : Exists(ix)}
    IN /\ ~st.dirty
       /\ st.opts = opts
       /\ \A ix \in here : Found(st, ix) # {}
       /\ DOMAIN st.files = UNION {Found(st, ix) : ix \in here}

CheckValidity(n, opts, list) == name[n] # 0 /\ Matches(store[name[n]], opts, list)

\* What a cache of these indexes, as they are now, has to hold.
Current == {[ix |-> ix, kind |-> index[ix].kind] : ix \in {i \in Indexes : Exists(i)}}
Holds(st) == {[ix |-> st.files[k].ix, kind |-> st.files[k].kind] : k \in DOMAIN st.files}
ProvidesDue(files) ==
    {<<files[k].ix, path>> : k \in DOMAIN files, path \in Needed(files)}
        \cap UNION {{<<files[k].ix, path>> : path \in files[k].kind.owns} : k \in DOMAIN files}

-----------------------------------------------------------------------------
Idle == [todo |-> <<>>, at |-> "off", opts |-> 0, lock |-> FALSE, map |-> 0, seen |-> 0,
         out |-> 0, dbtime |-> 0, newdeps |-> FALSE, open |-> [mtime |-> 0], since |-> 0, other |-> FALSE]

Used == {name[n] : n \in Names} \cup UNION {{proc[p].map, proc[p].out, proc[p].seen} : p \in Procs}
Free == {s \in 1..NStores : s \notin Used}
NewStore == CHOOSE s \in Free : TRUE

\* A file without a name is freed when the last process that has it leaves.
Released == store' = [s \in 1..NStores |-> IF s \in Used' THEN store[s] ELSE Empty]

InFile(p) == p \in Roots
Task(p, do) == proc[p].at = "build" /\ proc[p].todo # <<>> /\ Head(proc[p].todo).do = do
Done(p) == [proc[p] EXCEPT !.todo = Tail(@)]

\* A step that writes the map of p; another process with the same file open spoils it.
Shared(s) == Cardinality({p \in Procs : proc[p].map = s}) > 1
WriteMap(p, st) ==
    store' = [store EXCEPT ![proc[p].map] = [st EXCEPT !.safe = FALSE,
                                                       !.torn = @ \/ Shared(proc[p].map)]]

Do(action, ix) == [do |-> action, ix |-> ix]
MergeSources ==
    [i \in 1..2 * Len(Sources) |->
        Do(IF i % 2 = 1 THEN "open" ELSE "merge", Sources[(i + 1) \div 2])]
CollectFrom(seq) == [i \in DOMAIN seq |-> Do("collect", seq[i])]
StatusTasks == <<Do("merge", Database), Do("status", 0), Do("sync", 0), Do("clean", 0)>>
WriteBack == <<Do("unlink", "src"), Do("create", "src"), Do("data", 0), Do("flag", 0), Do("header", 0)>>
ScratchTasks(p) == MergeSources \o <<Do("sources", 0)>>
                     \o (IF InFile(p) THEN WriteBack ELSE <<>>) \o StatusTasks
ReuseTasks == <<Do("preload", 0), Do("generator", 0)>> \o StatusTasks

Init ==
    /\ \E kind \in [Indexes -> UNION {Kinds[ix] : ix \in Indexes}] :
          /\ \A ix \in Indexes : kind[ix] \in Kinds[ix]
          /\ index = [ix \in Indexes |-> [mtime |-> 1, kind |-> kind[ix], back |-> FALSE]]
    /\ changes = 0 /\ faults = 0
    /\ store = [s \in 1..NStores |-> Empty]
    /\ name = [n \in Names |-> 0]
    /\ proc = [p \in Procs |-> Idle]

-----------------------------------------------------------------------------
(* The start of pkgMakeStatusCache.                                        *)

\* pkgCacheFile::BuildCaches opens the database, noting its mtime; with a lock it
\* will put that mtime back when it closes it.
Start(p) ==
    /\ proc[p].at = "off"
    /\ \E opts \in Options, lock \in BOOLEAN :
          /\ lock => p \in Roots
          /\ proc' = [proc EXCEPT ![p] = [Idle EXCEPT !.at = "check", !.opts = opts, !.lock = lock,
                                            !.dbtime = index[Database].mtime, !.since = changes]]
    /\ UNCHANGED <<index, changes, store, name, faults>>

CheckPkg(p) ==
    /\ proc[p].at = "check"
    /\ IF CheckValidity("pkg", proc[p].opts, Indexes)
       THEN proc' = [proc EXCEPT ![p].at = "serve", ![p].out = name["pkg"]]
       ELSE \/ /\ InFile(p)
               /\ proc' = [proc EXCEPT ![p].at = "build", ![p].todo = <<Do("unlink", "pkg"), Do("create", "pkg")>>]
            \/ /\ ~InFile(p)
               /\ proc' = [proc EXCEPT ![p].at = "source"]
    /\ UNCHANGED <<index, changes, store, name, faults>>

\* unlink(File): a process that has it mapped keeps it.
Unlink(p) ==
    /\ Task(p, "unlink")
    /\ name' = [name EXCEPT ![Head(proc[p].todo).ix] = 0]
    /\ proc' = [proc EXCEPT ![p] = Done(p)]
    /\ UNCHANGED <<index, changes, faults>>
    /\ Released

\* FileFd(File, WriteEmpty): what another process has created meanwhile is truncated.
Create(p) ==
    /\ Task(p, "create")
    /\ LET n == Head(proc[p].todo).ix
           s == IF name[n] # 0 THEN name[n] ELSE NewStore
       IN /\ name[n] # 0 \/ Free # {}
          /\ name' = [name EXCEPT ![n] = s]
          /\ store' = [store EXCEPT ![s] = Empty]
          /\ proc' = [proc EXCEPT ![p] = IF n = "pkg" THEN [@ EXCEPT !.map = s, !.at = "source", !.todo = <<>>]
                                                      ELSE [Done(p) EXCEPT !.out = s]]
    /\ UNCHANGED <<index, changes, faults>>

\* The source cache is used if it is valid, else both are built; a process that may
\* not write the cache directory builds in memory.
CheckSource(p) ==
    /\ proc[p].at = "source"
    /\ LET reuse == CheckValidity("src", proc[p].opts, Indexes \ {Database})
           s == IF InFile(p) THEN proc[p].map ELSE NewStore
       IN /\ InFile(p) \/ Free # {}
          /\ store' = IF InFile(p) THEN store ELSE [store EXCEPT ![s] = Empty]
          /\ proc' = [proc EXCEPT ![p].at = "build", ![p].map = s,
                        ![p].seen = IF reuse THEN name["src"] ELSE 0,
                        ![p].todo = IF reuse THEN ReuseTasks ELSE ScratchTasks(p)]
    /\ UNCHANGED <<index, changes, name, faults>>

-----------------------------------------------------------------------------
(* The steps of a build.                                                   *)

\* The source cache is opened again, by name, and read: a file that another process
\* has only created reads as nothing, and one that is gone ends the build (Stop).
Preload(p) ==
    /\ Task(p, "preload")
    /\ name["src"] # 0
    /\ WriteMap(p, [store[name["src"]] EXCEPT !.kept = TRUE])
    /\ proc' = [proc EXCEPT ![p] = [Done(p) EXCEPT !.other = name["src"] # proc[p].seen, !.seen = 0]]
    /\ UNCHANGED <<index, changes, name, faults>>

\* pkgCacheGenerator on the source cache that was read: its header must not be dirty;
\* Dirty is set and written to the disk.  (An empty map gets an Empty header.)
Generator(p) ==
    /\ Task(p, "generator")
    /\ LET st == store[proc[p].map]
       IN /\ st.files = <<>> \/ ~st.dirty
          /\ store' = [store EXCEPT ![proc[p].map].dirty = TRUE, ![proc[p].map].kept = TRUE]
    /\ proc' = [proc EXCEPT ![p] = Done(p)]
    /\ UNCHANGED <<index, changes, name, faults>>

\* PkgListIndex::Merge opens the list; an absent list, or one that is in the cache, is passed over.
OpenIndex(p) ==
    /\ Task(p, "open")
    /\ LET ix == Head(proc[p].todo).ix
           skip == ~Exists(ix) \/ Found(store[proc[p].map], ix) # {}
       IN proc' = [proc EXCEPT ![p] = IF skip THEN [Done(p) EXCEPT !.todo = Tail(@)]
                                      ELSE [Done(p) EXCEPT !.open = index[ix]]]
    /\ UNCHANGED <<index, changes, store, name, faults>>

\* ... then takes the mtime of the file that has the name now, and merges what it opened.
\* The database is read as it is now, under the mtime it had when the process opened it.
Merge(p) ==
    /\ Task(p, "merge")
    /\ LET ix == Head(proc[p].todo).ix
           db == ix = Database
           kind == IF db THEN index[ix].kind ELSE proc[p].open.kind
           mtime == IF db THEN proc[p].dbtime ELSE index[ix].mtime
           st == store[proc[p].map]
       IN /\ Exists(ix)
          /\ WriteMap(p, [st EXCEPT !.files = <<[ix |-> ix, mtime |-> mtime, kind |-> kind,
                                                  late |-> ~db /\ mtime # proc[p].open.mtime]>> \o @])
          /\ proc' = [proc EXCEPT ![p] = [Done(p) EXCEPT !.newdeps = @ \/ kind.needs # {},
                                                         !.open = [mtime |-> 0]]]
    /\ UNCHANGED <<index, changes, name, faults>>

\* Variant with a bug: the options are not recorded.
SourcesMerged_NoOptions(p) ==
    /\ Task(p, "sources")
    /\ WriteMap(p, [store[proc[p].map] EXCEPT !.fdeps = proc[p].newdeps])
    /\ proc' = [proc EXCEPT ![p] = [proc[p] EXCEPT !.newdeps = FALSE,
                  !.todo = (IF proc[p].newdeps THEN CollectFrom(Sources) ELSE <<>>) \o Tail(@)]]
    /\ UNCHANGED <<index, changes, name, faults>>

\* The file dependencies of the sources: OptionsHash is set, and if a source depends on
\* a file the sources are read again for the packages that own it.
SourcesMerged(p) ==
    /\ Task(p, "sources")
    /\ WriteMap(p, [store[proc[p].map] EXCEPT !.opts = proc[p].opts, !.fdeps = proc[p].newdeps])
    /\ proc' = [proc EXCEPT ![p] = [proc[p] EXCEPT !.newdeps = FALSE,
                  !.todo = (IF proc[p].newdeps THEN CollectFrom(Sources) ELSE <<>>) \o Tail(@)]]
    /\ UNCHANGED <<index, changes, name, faults>>

\* Variant with a bug: the flag in the header is looked at first.
StatusMerged_HeaderFirst(p) ==
    /\ Task(p, "status")
    /\ LET st == store[proc[p].map]
           over == IF st.fdeps THEN <<Database>>
                   ELSE IF proc[p].newdeps THEN Append(Sources, Database) ELSE <<>>
       IN /\ WriteMap(p, [st EXCEPT !.fdeps = @ \/ proc[p].newdeps])
          /\ proc' = [proc EXCEPT ![p].todo = CollectFrom(over) \o Tail(@)]
    /\ UNCHANGED <<index, changes, name, faults>>

\* The same once the database is merged: over all indexes if it brought a new file
\* dependency, over the database alone if only the sources had one.
StatusMerged(p) ==
    /\ Task(p, "status")
    /\ LET st == store[proc[p].map]
           over == IF proc[p].newdeps THEN Append(Sources, Database)
                   ELSE IF st.fdeps THEN <<Database>> ELSE <<>>
       IN /\ WriteMap(p, [st EXCEPT !.fdeps = @ \/ proc[p].newdeps])
          /\ proc' = [proc EXCEPT ![p].todo = CollectFrom(over) \o Tail(@)]
    /\ UNCHANGED <<index, changes, name, faults>>

\* MergeFileProvides of one index, as it is now: for the versions that are still in
\* it, a Provides for each of their files that some package depends on.
Collect(p) ==
    /\ Task(p, "collect")
    /\ LET ix == Head(proc[p].todo).ix
           st == store[proc[p].map]
           merged == UNION {st.files[k].kind.owns : k \in Positions(st, ix)}
           now == index[ix].kind.owns \cap merged \cap Needed(st.files)
           same == \E k \in Positions(st, ix) : st.files[k].kind = index[ix].kind
       IN \E got \in SUBSET now :
             /\ same => got = now
             /\ Exists(ix) \/ got = {}
             /\ WriteMap(p, [st EXCEPT !.provs = @ \cup {<<ix, path>> : path \in got}])
    /\ proc' = [proc EXCEPT ![p] = Done(p)]
    /\ UNCHANGED <<index, changes, name, faults>>

-----------------------------------------------------------------------------
(* The source cache is written in two steps, the map in two as well.       *)

\* The main data, with the header still dirty, then fsync.
WriteData(p) ==
    /\ Task(p, "data")
    /\ LET s == proc[p].out
       IN store' = [store EXCEPT ![s] = [store[proc[p].map] EXCEPT !.safe = TRUE, !.kept = TRUE,
                                            !.torn = @ \/ Cardinality({q \in Procs : proc[q].out = s}) > 1]]
    /\ proc' = [proc EXCEPT ![p] = Done(p)]
    /\ UNCHANGED <<index, changes, name, faults>>

\* To write the proper header the flag is cleared in the map, which may be the other file.
ClearFlag(p) ==
    /\ Task(p, "flag")
    /\ WriteMap(p, [store[proc[p].map] EXCEPT !.dirty = FALSE])
    /\ proc' = [proc EXCEPT ![p] = Done(p)]
    /\ UNCHANGED <<index, changes, name, faults>>

WriteHeader(p) ==
    /\ Task(p, "header")
    /\ store' = [store EXCEPT ![proc[p].out].dirty = FALSE, ![proc[p].out].kept = FALSE,
                              ![proc[p].map].dirty = TRUE]
    /\ proc' = [proc EXCEPT ![p] = [Done(p) EXCEPT !.out = 0]]
    /\ UNCHANGED <<index, changes, name, faults>>

\* Variant with a bug: the flag is cleared before the map is on the disk.
SyncMap_Skipped(p) ==
    /\ Task(p, "sync")
    /\ proc' = [proc EXCEPT ![p] = Done(p)]
    /\ UNCHANGED <<index, changes, store, name, faults>>

\* ~pkgCacheGenerator: Map.Sync, then the flag and its page.
SyncMap(p) ==
    /\ Task(p, "sync")
    /\ store' = [store EXCEPT ![proc[p].map].safe = TRUE]
    /\ proc' = [proc EXCEPT ![p] = Done(p)]
    /\ UNCHANGED <<index, changes, name, faults>>

MarkClean(p) ==
    /\ Task(p, "clean")
    /\ store' = [store EXCEPT ![proc[p].map].dirty = FALSE, ![proc[p].map].kept = FALSE,
                              ![proc[p].map].made = IF proc[p].since = changes THEN <<changes, proc[p].opts>>
                                                                       ELSE <<>>]
    /\ proc' = [proc EXCEPT ![p] = [@ EXCEPT !.at = "serve", !.out = proc[p].map, !.map = 0, !.todo = <<>>]]
    /\ UNCHANGED <<index, changes, name, faults>>

\* rpmSystem::UnLock of a process with the lock puts back the mtime the database had.
Unlocked(p) ==
    IF proc[p].lock /\ index[Database].mtime # proc[p].dbtime
    THEN [index EXCEPT ![Database].mtime = proc[p].dbtime, ![Database].back = TRUE] ELSE index

\* pkgCacheFile::Close.
Close(p) ==
    /\ proc[p].at = "serve"
    /\ index' = Unlocked(p)
    /\ proc' = [proc EXCEPT ![p] = Idle]
    /\ UNCHANGED <<changes, name, faults>>
    /\ Released

-----------------------------------------------------------------------------
(* What happens to the files from outside.                                 *)

\* An index is replaced (or the database changed by rpm) at a later time, or a list goes away.
Change(ix) ==
    /\ changes < MaxChanges
    /\ changes' = changes + 1
    /\ \/ \E kind \in Kinds[ix] : index' = [index EXCEPT ![ix] = [mtime |-> changes + 2, kind |-> kind, back |-> FALSE]]
       \/ /\ ix # Database /\ Exists(ix)
          /\ index' = [index EXCEPT ![ix].mtime = 0]
    /\ UNCHANGED <<store, name, proc, faults>>

\* An error ends a build or a signal the process: the file stays as the map was.
Stop(p) ==
    /\ proc[p].at = "build"
    /\ faults < MaxFaults
    /\ faults' = faults + 1
    /\ proc' = [proc EXCEPT ![p] = Idle]
    /\ index' \in {index, Unlocked(p)}
    /\ UNCHANGED <<changes, name>>
    /\ Released

\* Power fails: no process is left, and of what was not synchronised any part is on the disk.
PowerFailure ==
    /\ faults < MaxFaults
    /\ faults' = faults + 1
    /\ proc' = [p \in Procs |-> Idle]
    /\ LET named == {name[n] : n \in Names} \ {0}
       IN \E lost \in SUBSET {s \in named : ~store[s].safe /\ ~store[s].torn},
             old \in SUBSET {s \in named : store[s].dirty # store[s].kept} :
             store' = [s \in 1..NStores |->
                 IF s \notin named THEN Empty
                 ELSE [store[s] EXCEPT !.dirty = IF s \in old THEN store[s].kept ELSE @,
                                       !.torn = @ \/ s \in lost]]
    /\ UNCHANGED <<index, changes, name>>

\* A cache file that is gone when the process comes to read it, or is being written, ends the build.
Refused(p) ==
    /\ \/ Task(p, "preload") /\ name["src"] = 0
       \/ Task(p, "generator") /\ store[proc[p].map].files # <<>> /\ store[proc[p].map].dirty
       \/ Task(p, "merge") /\ ~Exists(Head(proc[p].todo).ix)
    /\ proc' = [proc EXCEPT ![p] = Idle]
    /\ index' = Unlocked(p)
    /\ UNCHANGED <<changes, name, faults>>
    /\ Released

Step(p) ==
    \/ Start(p) \/ CheckPkg(p) \/ CheckSource(p) \/ Unlink(p) \/ Create(p)
    \/ Preload(p) \/ Generator(p) \/ OpenIndex(p) \/ Merge(p) \/ SourcesMerged(p)
    \/ StatusMerged(p) \/ Collect(p) \/ WriteData(p) \/ ClearFlag(p) \/ WriteHeader(p)
    \/ SyncMap(p) \/ MarkClean(p) \/ Refused(p) \/ Close(p)

Next == (\E p \in Procs : Step(p) \/ Stop(p)) \/ (\E ix \in Indexes : Change(ix)) \/ PowerFailure

Spec == Init /\ [][Next]_vars

-----------------------------------------------------------------------------
(* Properties.                                                             *)

Accepts(p) == proc[p].at = "check" /\ proc'[p].at = "serve"
Rejects(p) == proc[p].at = "check" /\ proc'[p].at \in {"build", "source"}
Finishes(p) == proc[p].at = "build" /\ proc'[p].at = "serve"

\* Complete, in one piece, and of the indexes as they are now.
IsCurrent(st) == ~st.torn /\ Holds(st) = Current /\ st.provs = ProvidesDue(st.files)

\* The two ways in which an mtime does not tell that the contents changed: the list was
\* replaced between its open and its stat, or UnLock wrote an old mtime over rpm's.
Misdated(st) == (\E k \in DOMAIN st.files : st.files[k].late) \/ index[Database].back

\* A package cache that CheckValidity accepts is what a build would make of the indexes
\* as they are now, with the provides of every file dependency: whatever was stopped,
\* lost or changed while it was built, and by whichever of the two ways it was.
AcceptedIsCurrent ==
    [][\A p \in Procs : Accepts(p) => LET st == store[name["pkg"]] IN Misdated(st) \/ IsCurrent(st)]_vars

\* A process that builds while no index changes hands out a cache that is current, from
\* the source cache or from nothing, on disk or in memory, unless the source cache was
\* rewritten between its check and its use.
BuiltIsWhole ==
    [][\A p \in Procs : Finishes(p) /\ proc[p].since = changes /\ ~proc[p].other
           => LET st == store[proc[p].map] IN Misdated(st) \/ IsCurrent(st)]_vars

\* A cache is rebuilt for a reason only: one finished under the same options since the
\* last change of an index is accepted.
RebuiltForCause ==
    [][\A p \in Procs : Rejects(p) /\ name["pkg"] # 0 /\ ~index[Database].back
           => store[name["pkg"]].made # <<changes, proc[p].opts>>]_vars

\* What the comment on pkgMakeStatusCache says of the cache it makes ready: it has all
\* index files, of the sources list and the local ones.
HasAllIndexes ==
    [][\A p \in Procs : Finishes(p)
           => \A ix \in Indexes : Exists(ix) => Positions(store[proc[p].map], ix) # {}]_vars
=============================================================================
